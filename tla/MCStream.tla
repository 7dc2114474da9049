------------------------------ MODULE MCStream ------------------------------
(***************************************************************************)
(* DPB parameters for checking ConformingStream.                           *)
(***************************************************************************)
EXTENDS ConformingStream

\* Two sub-layers, the lower of which needs no reordering and gets by with less.
TwoLayers == {[reorder |-> [t \in 0..1 |-> IF t = 0 THEN 0 ELSE r],
               buffering |-> [t \in 0..1 |-> IF t = 0 THEN 2 ELSE b]] :
                r \in {0, 2}, b \in 3..4}

\* The smallest buffers in which a picture can be reordered.
SmallDpb == {[reorder |-> [t \in {0} |-> 1], buffering |-> [t \in {0} |-> 3]]}
=============================================================================
