SPECIFICATION Spec
CONSTANT Setups <- MCSetups
INVARIANTS CountersMatchStack EverySampleOnce SplitsSurvive NoCheckFails
CHECK_DEADLOCK FALSE
