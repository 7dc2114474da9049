----------------------------- MODULE PictureList -----------------------------
(***************************************************************************)
(* The decoded picture list (PicList, DecLib::m_cListPic) and the          *)
(* operations the decoder performs on it as a whole: bumping               *)
(* (DecApp::xWriteOutput), the search for a buffer                         *)
(* (DecLib::xGetNewPicBuffer), reference marking                           *)
(* (Slice::applyReferencePictureListBasedMarking) and reference look-up    *)
(* (Slice::xGetRefPic).                                                    *)
(*                                                                         *)
(* A list is a function from the number a picture got when its buffer was  *)
(* taken (Picture::m_decodingOrderNumber for decoded pictures) to the      *)
(* fields of Picture that the process reads.  The position in the          *)
(* std::list is not stored: finishPicture sorts the list by POC before     *)
(* anyone walks it, so list order is the order Before.                     *)
(***************************************************************************)
EXTENDS Integers, FiniteSets

\* The value the sources use for "no POC yet" (-MAX_INT) and "unset" (MAX_INT).
MAX_INT == 2147483647

\* The fields; cvs is never read by the decoder, see PictureDecoder.
Buffer == [poc : Int, referenced : BOOLEAN, needed : BOOLEAN,
           reconstructed : BOOLEAN, cvs : Nat]

\* Mistaken variants, to show that the properties notice: their names end in
\* Mutant here and in the other modules.
BeforeMutant(pl, i, j) == i < j                       \* the list is not sorted

\* Slice::sortPicList: by POC; std::list::sort is stable, so equal POCs keep
\* the order in which their buffers were taken.
Before(pl, i, j) ==
  \/ pl[i].poc < pl[j].poc
  \/ pl[i].poc = pl[j].poc /\ i < j

-----------------------------------------------------------------------------
(* Output (DecApp::xWriteOutput, DecApp::xFlushOutput).                     *)

\* numPicsNotYetDisplayed counts these.  A picture below the last displayed
\* POC is passed over although it still waits.
Displayable(pl, last) == {i \in DOMAIN pl : pl[i].needed /\ pl[i].poc >= last}

FullnessMutant(pl, last) ==                           \* waiting ones left out
  Cardinality({i \in DOMAIN pl : pl[i].referenced})

\* dpbFullness: a picture counts once, as waiting or else as a reference.
Fullness(pl, last) ==
  Cardinality(Displayable(pl, last) \cup {i \in DOMAIN pl : pl[i].referenced})

\* The pictures one call of xWriteOutput writes.  The loop runs in list order,
\* decrementing one count per written picture and the other per written
\* picture that is not a reference; so the written pictures are those whose
\* displayable predecessors leave one of the counts above its limit.
Bumped(pl, last, maxNumReorder, maxDecPicBuffering) ==
  LET shown == Displayable(pl, last)
      Prior(i) == {j \in shown : Before(pl, j, i)}
  IN {i \in shown :
        \/ Cardinality(shown) - Cardinality(Prior(i)) > maxNumReorder
        \/ Fullness(pl, last) - Cardinality({j \in Prior(i) : ~pl[j].referenced})
             > maxDecPicBuffering}

AfterOutputStaleMutant(pl, B) ==                      \* reference not checked
  [i \in DOMAIN pl |->
     IF i \in B THEN [pl[i] EXCEPT !.needed = FALSE, !.reconstructed = FALSE] ELSE pl[i]]
AfterOutputEraseMutant(pl, B) == [i \in DOMAIN pl \ B |-> pl[i]]
AfterOutputRepeatMutant(pl, B) == pl                  \* needed not cleared

\* The list after the pictures of B were written: a written picture no longer
\* waits, and if nothing refers to it its buffer is free.
AfterOutput(pl, B) ==
  [i \in DOMAIN pl |->
     IF i \in B
     THEN [pl[i] EXCEPT !.needed = FALSE,
                        !.reconstructed = pl[i].reconstructed /\ pl[i].referenced]
     ELSE pl[i]]

\* m_iPOCLastDisplay after the pictures of B were written in list order.
LastDisplay(pl, B, last) ==
  IF B = {} THEN last
  ELSE pl[CHOOSE i \in B : \A j \in B : i = j \/ Before(pl, j, i)].poc

\* All waiting pictures, whatever their POC: what xFlushOutput writes.
Waiting(pl) == {i \in DOMAIN pl : pl[i].needed}

\* No picture waits any more (checkNoOutputPriorPics, GDR recovery).
Suppressed(pl, S) ==
  [i \in DOMAIN pl |-> [pl[i] EXCEPT !.needed = pl[i].needed /\ i \notin S]]

-----------------------------------------------------------------------------
(* Buffers (DecLib::xGetNewPicBuffer).                                      *)

ReusableWaitingMutant(pl) ==
  {i \in DOMAIN pl : ~pl[i].reconstructed \/ ~pl[i].referenced}
ReusableReferenceMutant(pl) == {i \in DOMAIN pl : ~pl[i].needed}
ReusableShownMutant(pl) == {i \in DOMAIN pl : ~pl[i].needed /\ ~pl[i].reconstructed}

\* A buffer whose picture does not wait and is not a reference, or whose
\* picture is marked as not reconstructed.
Reusable(pl) ==
  {i \in DOMAIN pl : ~pl[i].needed /\ (~pl[i].reconstructed \/ ~pl[i].referenced)}

\* The buffer that is taken over: none while the list is shorter than the
\* limit, the first reusable one of the list otherwise, and again none when
\* there is no reusable one (the list is extended).
Victim(pl, limit) ==
  IF Cardinality(DOMAIN pl) < limit
  THEN {}
  ELSE {i \in Reusable(pl) : \A j \in Reusable(pl) : i = j \/ Before(pl, i, j)}

WithPictureMutant(pl, n, limit, pic) ==               \* the number is not taken
  [i \in DOMAIN pl \cup {n + 1} |-> IF i = n + 1 THEN pic ELSE pl[i]]

\* The list in which buffer n holds picture pic.
WithPicture(pl, n, limit, pic) ==
  [i \in (DOMAIN pl \ Victim(pl, limit)) \cup {n} |->
     IF i = n THEN pic ELSE pl[i]]

-----------------------------------------------------------------------------
(* References (class Slice).                                                *)

\* xGetRefPic: the pictures with this POC, whether or not they are still
\* marked as references; the code takes the first one of the list.
RefPics(pl, poc) == {i \in DOMAIN pl : pl[i].poc = poc}

\* checkThatAllRefPicsAreAvailable: the entries without a reference picture.
MissingRefs(pl, entries) ==
  {r \in entries : \A i \in DOMAIN pl : ~(pl[i].poc = r /\ pl[i].referenced)}

\* applyReferencePictureListBasedMarking for a picture that is not an IDR: a
\* reference picture stays one only if an entry of the lists, active or not,
\* names it (or if it has the POC of the current picture).
Marked(pl, poc, entries) ==
  [i \in DOMAIN pl |->
     [pl[i] EXCEPT !.referenced = pl[i].referenced
                                  /\ pl[i].poc \in entries \cup {poc}]]
=============================================================================
