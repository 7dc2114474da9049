-------------------------- MODULE ConformingStream --------------------------
(***************************************************************************)
(* The decoder process fed with streams that keep the rules an encoder has *)
(* to keep.  A stream is a succession of segments, each an IRAP or GDR     *)
(* picture, then its leading pictures, then its trailing pictures; an IDR, *)
(* the first picture and the first picture after an EOS start a new coded  *)
(* video sequence.  The rules are those DecLib and Slice check where they  *)
(* do (checkRPL, checkCRA, checkLeadingPictureRestrictions) and otherwise  *)
(* those the DPB parameters of the SPS stand for.                          *)
(***************************************************************************)
EXTENDS PictureDecoder

CONSTANTS
  FirstTypes,     \* the types of the first picture of the stream
  MaxLeading,     \* bound: leading pictures of a segment
  MaxTrailing,    \* bound: trailing pictures of a segment
  OutputFlags,    \* values of ph_pic_output_flag
  GdrPoc,         \* the POC of a GDR picture that starts the stream
  GdrRefs,        \* what it refers to: pictures the decoder never gets
  Recoveries,     \* values of ph_recovery_poc_cnt
  Situations      \* legal situations the decoder does not handle, let in one
                  \* at a time by the runs that show what it does

AllSituations ==
  {"EosAfterRasl",     \* an EOS directly follows a RASL picture
   "OneAfterEos",      \* the file ends with the first picture after an EOS
   "GdrAfterEos",      \* a GDR picture follows an EOS
   "IrapInRecovery"}   \* an IRAP picture comes before the recovery point

ASSUME SituationsAssumption == Situations \subseteq AllSituations

\* POCs are ints, and none has a value that means "unset".  References that are
\* lost are only replaced if their POC is positive.
ASSUME StreamAssumption ==
  /\ FirstTypes \subseteq {"IDR", "CRA", "GDR"}
  /\ MaxLeading \in Nat /\ MaxTrailing \in Nat /\ MaxLeading < MAX_INT
  /\ GdrPoc \in Nat /\ GdrPoc < MAX_INT /\ GdrRefs \subseteq 1..(GdrPoc - 1)
  /\ OutputFlags \subseteq BOOLEAN /\ Recoveries \subseteq Nat

\* A lower sub-layer does not get by with more than a higher one.  The decoder
\* does not check it; EncAppCfg sees to it for the repository's encoder.
ASSUME LayersAssumption ==
  \A s \in SpsSet, t \in Tids : s.buffering[t] <= s.buffering[MaxTid]

VARIABLE enc      \* what the encoder knows of the stream so far

svars == <<vars, enc>>

EncInit ==
  enc = [cvs |-> 0, start |-> TRUE,  \* the next picture starts a sequence
         irap |-> 0, irapType |-> "IDR", last |-> 0,   \* last: the largest POC
         future |-> {},              \* POCs of the segment still to be coded
         prior |-> {},               \* references older than the segment
         srefs |-> {},               \* references, as [poc, tid, leading]
         coded |-> {}]               \* pictures of the CVS: [poc, tid, output]

-----------------------------------------------------------------------------
Pocs(S) == {q.poc : q \in S}

\* The DPB parameters hold for every sub-layer that contains p: at most
\* reorder pictures are decoded before p and output after it, and the pictures
\* kept for reference, p, and those which must wait because one with a smaller
\* POC is still to come fit the buffer.
FitsDpb(p, coded, future) ==
  \A t \in {u \in Tids : u >= p.tid} :
    LET below == {q \in coded : q.tid <= t /\ q.output}
        mustWait == {q \in below : \E x \in future \cup {p.poc} : x < q.poc}
    IN /\ p.output => Cardinality({q \in below : q.poc > p.poc}) <= sps.reorder[t]
       /\ Cardinality(Pocs(mustWait) \cup p.refs \cup {p.poc}) <= sps.buffering[t]

\* A picture of the stream this one was cut from: the RASL pictures of a CRA
\* that starts a sequence may name it, the decoder never gets it.
CutOff == [poc |-> -MaxLeading - 1, tid |-> 0, leading |-> TRUE]

\* The encoder's state after p, with future the POCs of the segment to come.
Encoded(p, first, future) ==
  LET new == first /\ (p.type = "IDR" \/ enc.start)
  IN [cvs |-> p.cvs, start |-> FALSE,
      irap |-> IF first THEN p.poc ELSE enc.irap,
      irapType |-> IF first THEN p.type ELSE enc.irapType,
      last |-> IF new \/ p.poc > enc.last THEN p.poc ELSE enc.last,
      future |-> future,
      prior |-> IF first THEN p.refs ELSE enc.prior,
      srefs |-> {q \in enc.srefs : ~new /\ q.poc \in p.refs}
                \cup {[poc |-> p.poc, tid |-> p.tid,
                       leading |-> ~first /\ p.poc < enc.irap]}
                \cup (IF new /\ p.type = "CRA" THEN {CutOff} ELSE {}),
      coded |-> (IF new THEN {} ELSE enc.coded)
                \cup {[poc |-> p.poc, tid |-> p.tid, output |-> p.output]}]

Feed(p, first, future) ==
  /\ SkipPicture(p) \/ BeginPicture(p)
  /\ enc' = Encoded(p, first, future)

\* What the lists of a picture may name: those of a picture that follows the
\* last IRAP picture in output order, the next CRA included, nothing that
\* precedes or leads that IRAP picture.
Nameable(poc) ==
  {q \in enc.srefs : poc > enc.irap => q.poc \notin enc.prior /\ ~q.leading}

\* The entries of the lists of an IRAP or GDR picture: none for an IDR and for
\* a CRA that starts a sequence; a CRA within one keeps what its RASL pictures
\* will need.
StartRefs(type) ==
  CASE type = "GDR" -> {GdrRefs}
    [] type = "CRA" /\ ~enc.start -> {Pocs(S) : S \in SUBSET Nameable(enc.last + 1)}
    [] OTHER -> {{}}

\* The first picture of a segment, with nl leading and nt trailing pictures to
\* follow.
StartSegment ==
  \E type \in IF ~enc.start THEN {"IDR", "CRA"}
              ELSE IF enc.cvs = 0 \/ "GdrAfterEos" \in Situations THEN FirstTypes
              ELSE FirstTypes \ {"GDR"} :
  \E nl \in IF type = "GDR" THEN {0} ELSE 0..MaxLeading, nt \in 0..MaxTrailing,
     refs \in StartRefs(type), output \in OutputFlags, noPrior \in BOOLEAN,
     recovery \in IF type = "GDR" THEN Recoveries ELSE {0} :
    LET new == type = "IDR" \/ enc.start
        poc == IF type = "GDR" THEN GdrPoc ELSE IF new THEN 0 ELSE enc.last + nl + 1
        p == [type |-> type, tid |-> 0, poc |-> poc, refs |-> refs,
              active |-> IF type = "GDR" THEN refs ELSE {},
              output |-> output, noPrior |-> noPrior, recovery |-> recovery,
              cvs |-> IF new THEN enc.cvs + 1 ELSE enc.cvs]
    IN /\ enc.future = {}
       /\ app.gdrRecoveryPeriod => "IrapInRecovery" \in Situations
       /\ noPrior => new
       /\ FitsDpb(p, IF new THEN {} ELSE enc.coded, (poc - nl)..(poc - 1))
       /\ Feed(p, TRUE, ((poc - nl)..(poc + nt)) \ {poc})

\* A leading or trailing picture.  Leading pictures come first; those of a CRA
\* are RASL pictures here, those of an IDR are RADL pictures.  Inactive entries
\* may name pictures of higher sub-layers.
CodePicture ==
  \E poc \in enc.future, tid \in Tids, output \in OutputFlags :
  \E named \in SUBSET Nameable(poc) :
    LET leading == poc < enc.irap
        p == [type |-> IF leading /\ enc.irapType = "CRA" THEN "RASL" ELSE "TRAIL",
              tid |-> tid, poc |-> poc, refs |-> Pocs(named),
              active |-> Pocs({q \in named : q.tid <= tid}),
              output |-> output, noPrior |-> FALSE, recovery |-> 0, cvs |-> enc.cvs]
    IN /\ leading \/ \A x \in enc.future : x > enc.irap
       /\ p.active # {}
       /\ FitsDpb(p, enc.coded, enc.future \ {poc})
       /\ Feed(p, FALSE, enc.future \ {poc})

EncodeEos ==
  /\ ~enc.start
  /\ curPic # None /\ "EosAfterRasl" \notin Situations => curPic.type # "RASL"
  /\ EndOfSequence
  /\ enc' = [enc EXCEPT !.start = TRUE, !.future = {}, !.prior = {},
                        !.srefs = {}, !.coded = {}]

\* A stream holds at least one picture to be output; those before a GDR
\* picture's recovery point do not count.
EncodeEnd ==
  /\ \E i \in due : i \in DOMAIN discarded => discarded[i] # "recovery"
  /\ EndOfStream
  /\ UNCHANGED enc

DecodeNext ==
  /\ Decode
  /\ app.loopFiltered /\ app'.status = "lastPicture" => "OneAfterEos" \in Situations
  /\ UNCHANGED enc

-----------------------------------------------------------------------------
StreamInit == Init /\ EncInit

StreamNext == StartSegment \/ CodePicture \/ EncodeEos \/ DecodeNext \/ EncodeEnd

StreamSpec == StreamInit /\ [][StreamNext]_svars

\* The program reads a finite file and never waits for anything else: whatever
\* it can do next it does.
FairStreamSpec == StreamSpec /\ WF_svars(StreamNext)

-----------------------------------------------------------------------------
(* Properties of decoding a conforming stream.                              *)

\* The decoder neither loses a reference nor fails on one: every stream of an
\* encoder that keeps the rules is decoded to its end.
NeverAborts == app.status # "aborted"

\* The pictures are in the file in output order: one coded video sequence
\* after the other, by POC within each, whatever was bumped or flushed when.
OutputInOrder ==
  \A i, j \in DOMAIN shown :
    \/ shown[i].cvs < shown[j].cvs
    \/ shown[i].cvs = shown[j].cvs /\ shown[i].poc < shown[j].poc
    => shown[i].pos < shown[j].pos

\* Every active entry of the lists leads to a finished picture of the same
\* sequence that is still marked as a reference, not to what an earlier one
\* left in the buffers under the same POC.
PredictsFromOwnSequence ==
  \A r \in DOMAIN refPicList :
    LET ref == picList[refPicList[r]]
    IN ref.referenced /\ ref.reconstructed /\ ref.cvs = picList[curPic.id].cvs

\* Output is only cancelled where the stream asks for it.
DiscardsOnRequestOnly == \A i \in DOMAIN discarded : discarded[i] \in {"prior", "recovery"}

\* The list outgrows the buffering of the highest sub-layer by one picture at
\* most, whatever smaller limit of a lower sub-layer xGetNewPicBuffer used.
AtMostOneExtension == Cardinality(DOMAIN picList) <= sps.buffering[MaxTid] + 1

\* What waits between two pictures keeps to the limits xWriteOutput enforces,
\* although it passes over pictures below the last displayed POC.
WaitingBounded ==
  app.status = "running" /\ pilot = None =>
    /\ Cardinality(Waiting(picList)) <= sps.reorder[MaxTid]
    /\ Cardinality({i \in DOMAIN picList : picList[i].needed \/ picList[i].referenced})
         <= sps.buffering[MaxTid]

\* The decoder's file is the file DecodedVideo promises.
FileOf(s) ==
  [k \in 1..Cardinality(DOMAIN s) |->
     LET i == CHOOSE j \in DOMAIN s : s[j].pos = k
     IN [id |-> i, poc |-> s[i].poc, cvs |-> s[i].cvs]]

Video == INSTANCE DecodedVideo WITH
  pending <- {[id |-> i, poc |-> picList[i].poc, cvs |-> picList[i].cvs] :
                i \in Waiting(picList)},
  file <- FileOf(shown),
  dropped <- DOMAIN discarded

ImplementsVideo == Video!Spec

\* Every picture that waits is written in the end, unless its output is
\* cancelled.
WritesEverything == Video!Drained
=============================================================================
