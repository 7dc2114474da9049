SPECIFICATION Spec
CONSTANTS
  Items <- SomeItems
  MaxItems = 3
  MaxSubstreams = 2
  SliceHeaders <- SomeHeaders
  Payloads <- SomePayloads
  MaxZeroWords = 1
INVARIANTS TypeOK ItemsSurvive EndsWithItsBytes FramingSurvives
CHECK_DEADLOCK FALSE
