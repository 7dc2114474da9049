----------------------------- MODULE MCAnyStream -----------------------------
(***************************************************************************)
(* Pictures and DPB parameters for checking PictureDecoder with streams no *)
(* encoder would write: pictures of every type in any order, references    *)
(* that were never coded, repeated POCs, too small buffers.                *)
(***************************************************************************)
EXTENDS PictureDecoder

Pic(type, poc, refs, output, noPrior, recovery) ==
  [type |-> type, tid |-> 0, poc |-> poc, refs |-> refs, active |-> refs,
   output |-> output, noPrior |-> noPrior, recovery |-> recovery, cvs |-> 0]

AnyPictures ==
  {Pic("IDR", 0, {}, TRUE, FALSE, 0),
   [Pic("CRA", 2, {0}, TRUE, FALSE, 0) EXCEPT !.active = {}],
   Pic("GDR", 2, {1}, TRUE, TRUE, 1),
   Pic("RASL", 1, {0, 2}, TRUE, FALSE, 0),
   Pic("TRAIL", 1, {0}, TRUE, FALSE, 0),
   Pic("TRAIL", 3, {1, 2}, FALSE, FALSE, 0),
   Pic("TRAIL", 3, {2}, TRUE, FALSE, 0)}

TightDpb == {[reorder |-> [t \in {0} |-> r], buffering |-> [t \in {0} |-> b]] :
               r \in {0, 1}, b \in {2, 3}}

\* An IDR picture and a picture that refers to it and to one that was dropped.
LossyPictures ==
  {Pic("IDR", 0, {}, TRUE, FALSE, 0), Pic("TRAIL", 2, {0, 1}, TRUE, FALSE, 0)}
=============================================================================
