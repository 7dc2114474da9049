---------------------------- MODULE DecodedVideo ----------------------------
(***************************************************************************)
(* What a decoder promises of its output file, whatever buffers it uses:   *)
(* decoded pictures become pending one by one, and the file grows at its   *)
(* end by pending pictures, each written once, in output order across the  *)
(* whole stream: sequence by sequence and by POC within a sequence.  A     *)
(* pending picture may only disappear by being dropped on request of the   *)
(* stream.                                                                 *)
(***************************************************************************)
EXTENDS Integers, SequencesExt

VARIABLES
  pending,   \* pictures to be written, as [id, poc, cvs]
  file,      \* the sequence of written pictures
  dropped    \* the ids of the pictures the stream asked not to output

Earlier(p, q) == p.cvs < q.cvs \/ (p.cvs = q.cvs /\ p.poc < q.poc)

Entries(f) == {f[k] : k \in DOMAIN f}

Init == pending = {} /\ file = << >> /\ dropped = {}

InOrder(f) == \A k \in 1..(Len(f) - 1) : Earlier(f[k], f[k + 1])

\* One picture may arrive, some be dropped, some be written.  Whatever arrives
\* or stays pending is later than all that is in the file.
Next ==
  LET written == Entries(file') \ Entries(file)
      new == (pending' \cup written) \ pending
  IN /\ Cardinality(new) <= 1
     /\ IsPrefix(file, file') /\ InOrder(file')
     /\ \A p \in pending' \cup new, q \in Entries(file) : Earlier(q, p)
     /\ \A p \in pending', q \in written : Earlier(q, p)
     /\ \A p \in pending \ (pending' \cup written) : p.id \in dropped'
     /\ dropped \subseteq dropped'
     /\ \A p \in written : p.id \notin dropped'

Spec == Init /\ [][Next]_<<pending, file, dropped>>

\* In the end nothing is left pending.
Drained == <>[](pending = {})
=============================================================================
