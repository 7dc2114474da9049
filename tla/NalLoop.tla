------------------------------- MODULE NalLoop -------------------------------
(***************************************************************************)
(* The NAL-unit loop of DecApp::decode: from the NAL units of a byte       *)
(* stream to coded pictures.  Each iteration either finishes a picture,    *)
(* when DecLib::isNewPicture looks ahead and sees the next one begin, or   *)
(* reads one NAL unit and hands it to DecLib::decode.  Kept are the flags  *)
(* that say where in a picture, an access and a sequence the loop is, the  *)
(* pictures it skips (-s, -t, random access), the derivation of POCs and   *)
(* the SEI messages a picture collects; PictureDecoder has what the        *)
(* decoder does with a picture, here one step, finishPicture.  One layer.  *)
(*                                                                         *)
(* The stream is written one picture unit ahead of the decoder, by a       *)
(* conforming encoder.                                                     *)
(***************************************************************************)
EXTENDS Integers, Sequences, FiniteSets, SequencesExt

CONSTANTS
  MaxLsb,     \* 1 << m_bitsForPoc
  StartPocs,  \* the POC before that of the first picture of the stream
  Steps,      \* by how much the POC grows from one sub-layer 0 picture to the next
  Layouts,    \* the NAL units of a picture unit
  Skips,      \* the values of option -s
  HighestTids,\* the values of option -t
  Excluded,   \* streams the decoder is known not to handle, see Shapes
  MaxPics,    \* bound: pictures of a stream
  None

Types == {"IDR", "CRA", "GDR", "RASL", "RADL", "TRAIL"}   \* TRAIL: also STSA
Entries == {"IDR", "CRA", "GDR"}
Leading == {"RASL", "RADL"}

\* What precedes the slices, whether the first slice holds the picture header,
\* how many slices there are, and what follows them.
Layout == [head : Seq({"PREFIX_SEI", "PH"}), phInSlice : BOOLEAN,
           slices : Nat \ {0}, tail : Seq({"SUFFIX_SEI"})]

Shapes ==
  {"CRA last of -s",         \* the last picture -s skips is a CRA or GDR picture
   "IDR first after -s",     \* the first one decoded after those is an IDR picture
   "EOS before the first",   \* an EOS, and no picture was decoded yet
   "one after EOS"}          \* the last EOS is followed by one picture

ASSUME LsbAssumption == MaxLsb \in Nat /\ MaxLsb >= 4 /\ MaxLsb % 2 = 0
ASSUME StepsAssumption == Steps \subseteq 3..(MaxLsb \div 2 - 1)
ASSUME LayoutsAssumption ==
  \A l \in Layouts : /\ l \in Layout
                     /\ l.phInSlice <=> "PH" \notin Range(l.head)
                     /\ l.phInSlice => l.slices = 1
ASSUME NoneAssumption == None \notin Types
ASSUME StartPocsAssumption == StartPocs \subseteq Int
ASSUME OptionsAssumption == Skips \subseteq Nat /\ HighestTids \subseteq {0, 1}
ASSUME ExcludedAssumption == Excluded \subseteq Shapes
ASSUME MaxPicsAssumption == MaxPics \in Nat

VARIABLES
  file,      \* the NAL units written and not yet read
  ended,     \* no more will be written
  enc,       \* where the encoder is, with the history Picture needs
  options,   \* skipFrame (-s) and highestTid (-t)
  dec,       \* members of DecLib
  app,       \* local variables of DecApp::decode and m_newCLVS
  finished,  \* history: the picture finishPicture ran on last
  missing    \* history: pictures written, to be decoded and not yet finished

encoder == <<ended, enc>>
vars == <<file, encoder, options, dec, app, finished, missing>>

MAX_INT == 1000

ASSUME PocsAssumption == (MaxPics + 1) * MaxLsb < MAX_INT

\* No picture yet (a null m_pcPic).
NoPicture == [pic |-> None, poc |-> 0, slices |-> {}, seis |-> {},
              nobr |-> FALSE, newCLVS |-> FALSE]

Init ==
  /\ file = << >> /\ ended = FALSE
  /\ options \in [skipFrame : Skips, highestTid : HighestTids]
  /\ \E start \in StartPocs :
       enc = [num |-> 0, offered |-> 0, tid0Poc |-> start, last |-> None, cvs |-> 0,
              afterEos |-> FALSE, alone |-> FALSE,
              entered |-> FALSE, skipsRasl |-> FALSE, lastDue |-> TRUE]
  /\ dec = [isFirstSliceInPicture |-> TRUE, firstSliceInSequence |-> TRUE,
            prevTid0POC |-> 0, pocRandomAccess |-> MAX_INT,
            skippedBefore |-> FALSE,           \* m_skippedPOC # MAX_INT
            prevSliceSkipped |-> FALSE,
            prefixSeis |-> {}, pic |-> NoPicture]
  /\ app = [skipFrame |-> options.skipFrame, picSkipped |-> FALSE,
            eosInPu |-> FALSE, eosInLastPu |-> FALSE, newCLVS |-> TRUE,
            loopFiltered |-> FALSE, picListSet |-> FALSE, aborted |-> FALSE]
  /\ finished = [order |-> 0, pic |-> None, poc |-> 0, slices |-> {}, seis |-> {},
                  nobr |-> FALSE, newCLVS |-> FALSE] /\ missing = {}

-----------------------------------------------------------------------------
(* The stream.                                                              *)

\* The POC of a picture after e, from the one of the last picture of sub-layer 0
\* that is not a leading picture.
Poc(e, type, tid, step) ==
  IF type = "IDR" THEN 0
  ELSE IF type \in Leading THEN e.tid0Poc - 2
  ELSE IF tid = 1 THEN e.tid0Poc - 1
  ELSE e.tid0Poc + step

\* The order of pictures a conforming stream keeps: a sequence starts with an
\* IRAP or GDR picture, leading pictures follow their IRAP picture, a picture
\* of sub-layer 1 comes between two of sub-layer 0.
MayFollow(e, type, tid) ==
  /\ e.num = 0 \/ e.afterEos => type \in Entries
  /\ tid = 1 => type = "TRAIL" /\ e.last = "TRAIL"
  /\ type = "RASL" => e.last = "CRA"
  /\ type = "RADL" => e.last \in {"IDR", "CRA"}

\* A picture the encoder writes when it is at e, under options o.  History:
\* offered, how many pictures -t left so far; entered, whether decoding has
\* started, at the first IRAP or GDR picture after those -s skips; due, whether
\* the user asked for the picture: it is not skipped by -s nor -t, nor before
\* that entry, nor a RASL picture of a CRA picture at which decoding starts.
Picture(e, o, type, tid, step, l) ==
  LET inTarget == tid <= o.highestTid
      counted  == e.offered >= o.skipFrame
      entered  == e.entered \/ (counted /\ type \in Entries)
  IN [num |-> e.num + 1, type |-> type, tid |-> tid, poc |-> Poc(e, type, tid, step),
      cvs |-> IF type = "IDR" \/ e.afterEos THEN e.cvs + 1 ELSE e.cvs,
      layout |-> l, at |-> e,
      offered |-> IF inTarget THEN e.offered + 1 ELSE e.offered,
      entered |-> entered,
      due |-> counted /\ inTarget /\ entered /\ ~(type = "RASL" /\ e.skipsRasl)]

\* The streams Excluded rules out: whether p may not be in one.
IsExcluded(o, p) ==
  \/ /\ "CRA last of -s" \in Excluded
     /\ p.type \in {"CRA", "GDR"} /\ p.at.offered + 1 = o.skipFrame
  \/ /\ "IDR first after -s" \in Excluded
     /\ p.type = "IDR" /\ p.entered # p.at.entered /\ o.skipFrame > 0

\* The encoder, and the history, after p.
After(p) ==
  [num |-> p.num, offered |-> p.offered,
   tid0Poc |-> IF p.tid = 0 /\ p.type \notin Leading THEN p.poc ELSE p.at.tid0Poc,
   last |-> IF p.tid = 0 THEN p.type ELSE None,
   cvs |-> p.cvs, afterEos |-> FALSE, alone |-> p.at.afterEos,
   entered |-> p.entered,
   skipsRasl |-> IF p.type = "CRA" THEN p.at.afterEos \/ ~p.at.entered
                 ELSE p.at.skipsRasl,
   lastDue |-> p.due]

AfterEos(e) == [e EXCEPT !.afterEos = TRUE, !.last = None]

\* The NAL units of a picture, laid out as p.layout, and the EOS after them.
HeadLen(p) == Len(p.layout.head)
UnitLen(p) == HeadLen(p) + p.layout.slices + Len(p.layout.tail)

NalUnit(p, i) ==
  LET slice == i - HeadLen(p)
      tail  == slice - p.layout.slices
  IN [nut |-> IF slice <= 0 THEN p.layout.head[i]
              ELSE IF tail <= 0 THEN "SLICE" ELSE p.layout.tail[tail],
      pic |-> p, pos |-> i]

Eos(p) == [nut |-> "EOS", pic |-> p, pos |-> UnitLen(p) + 1]

PictureUnit(p) == [i \in 1..UnitLen(p) |-> NalUnit(p, i)]

\* The index of a slice in its picture.
Idx(nalu) == nalu.pos - HeadLen(nalu.pic) - 1

\* The SEI messages of p.
Seis(p) == Range(p.layout.head \o p.layout.tail) \cap {"PREFIX_SEI", "SUFFIX_SEI"}

\* The decoder runs while it can look into the next picture unit.
Ready == ended \/ (file # << >> /\ Head(file).pic # Last(file).pic)

WritePicture ==
  \E type \in Types, tid \in {0, 1}, step \in Steps, l \in Layouts :
    LET p == Picture(enc, options, type, tid, step, l)
    IN /\ ~ended /\ ~Ready /\ enc.num < MaxPics
       /\ MayFollow(enc, type, tid) /\ ~IsExcluded(options, p)
       /\ file' = file \o PictureUnit(p)
       /\ enc' = After(p)
       /\ missing' = IF p.due THEN missing \cup {p.num} ELSE missing
       /\ UNCHANGED <<ended, options, dec, app, finished>>

\* An EOS NAL unit ends the picture unit written last.
WriteEos ==
  /\ ~ended /\ ~Ready /\ file # << >> /\ ~enc.afterEos
  /\ "EOS before the first" \in Excluded => enc.entered
  /\ "one after EOS" \in Excluded => enc.num # MaxPics - 1
  /\ file' = Append(file, Eos(Last(file).pic))
  /\ enc' = AfterEos(enc)
  /\ UNCHANGED <<ended, options, dec, app, finished, missing>>

EndOfFile ==
  /\ ~ended /\ ~Ready /\ file # << >>
  /\ "one after EOS" \in Excluded => ~enc.alone
  /\ ended' = TRUE
  /\ UNCHANGED <<file, enc, options, dec, app, finished, missing>>

-----------------------------------------------------------------------------
(* Looking ahead.                                                           *)

BeginsPictureMutant(nalu) == nalu.nut \in {"PPS", "PH"}   \* no PH in slice header

\* PPS: also AUD, OPI, DCI, VPS and SPS.
BeginsPicture(nalu) ==
  nalu.nut \in {"PPS", "PH"} \/ (nalu.nut = "SLICE" /\ nalu.pic.layout.phInSlice)

\* The first NAL unit that tells, and is no prefix SEI nor prefix APS, begins a
\* picture.
IsNewPicture ==
  /\ ~dec.isFirstSliceInPicture
  /\ \E i \in DOMAIN file :
       /\ BeginsPicture(file[i])
       /\ \A j \in 1..(i - 1) : file[j].nut = "PREFIX_SEI"

-----------------------------------------------------------------------------
(* Decoding a slice.                                                        *)

\* The picture order count, as parseSliceHeader derives it.
ParsedPoc(p) ==
  LET lsb     == p.poc % MaxLsb
      prevLsb == dec.prevTid0POC % MaxLsb
      prevMsb == dec.prevTid0POC - prevLsb
      half    == MaxLsb \div 2
      msb == IF p.type = "IDR" THEN 0
             ELSE IF lsb < prevLsb /\ prevLsb - lsb >= half THEN prevMsb + MaxLsb
             ELSE IF lsb > prevLsb /\ lsb - prevLsb > half THEN prevMsb - MaxLsb
             ELSE prevMsb
  IN msb + lsb

PreviousTid0POCMutant(prev, p, poc) ==             \* leading pictures counted
  IF p.tid = 0 THEN poc ELSE prev

\* xUpdatePreviousTid0POC
PreviousTid0POC(prev, p, poc) ==
  IF p.tid = 0 /\ p.type \notin Leading THEN poc ELSE prev

\* m_noOutputBeforeRecoveryFlag of an IRAP or GDR picture.
NoOutputBeforeRecovery(p) ==
  p.type = "IDR" \/ (p.type \in {"CRA", "GDR"} /\ dec.firstSliceInSequence)

\* The POC of the slice: a CRA or GDR picture that starts a sequence keeps
\* only the bits its header holds.
SlicePoc(p) ==
  IF p.type \in {"CRA", "GDR"} /\ NoOutputBeforeRecovery(p)
  THEN ParsedPoc(p) % MaxLsb ELSE ParsedPoc(p)

SkipCountMutant(idx) == app.skipFrame              \* counted per slice, not per picture

\* -s counts a picture when the next one begins.
SkipCount(idx) ==
  IF app.skipFrame > 0 /\ idx = 0 /\ dec.skippedBefore
  THEN app.skipFrame - 1 ELSE app.skipFrame

\* isRandomAccessSkipPicture, past the count.
NoEntryYet(p) ==
  dec.pocRandomAccess = MAX_INT /\ p.type \notin Entries
BeforeEntry(p) ==
  /\ p.type = "RASL" /\ dec.pocRandomAccess # MAX_INT
  /\ SlicePoc(p) < dec.pocRandomAccess
IsRandomAccessSkipPicture(p, idx) ==
  SkipCount(idx) # 0 \/ NoEntryYet(p) \/ BeforeEntry(p)

\* m_iSkipFrame as decode leaves it.
CountLeft(p, idx) ==
  SkipCount(idx) - (IF IsRandomAccessSkipPicture(p, idx) THEN 1 ELSE 0)

\* The loop takes a picture for skipped when decode lowered the count, except
\* a CRA or GDR picture that ends the pictures -s skips.  It then restores the
\* count.
SkipFrameBefore(p) ==
  IF app.skipFrame = 1 /\ p.type \in {"CRA", "GDR"} THEN 0 ELSE app.skipFrame
TakenForSkipped(p, idx) == CountLeft(p, idx) < SkipFrameBefore(p)

\* The members of DecLib after the header of a slice of p.
HeaderParsed(p) ==
  [dec EXCEPT !.prevTid0POC = PreviousTid0POC(@, p, SlicePoc(p))]

SliceSkippedMutant(p) ==                           \* prefix SEI messages left
  [HeaderParsed(p) EXCEPT !.prevSliceSkipped = TRUE, !.skippedBefore = TRUE]

SliceSkipped(p) ==
  [HeaderParsed(p) EXCEPT !.prevSliceSkipped = TRUE, !.skippedBefore = TRUE,
                          !.prefixSeis = {}]

NewCLVSMutant(p) ==                                \* left set by an EOS long ago
  IF ~dec.isFirstSliceInPicture THEN app.newCLVS
  ELSE p.type = "IDR" \/ app.newCLVS

\* m_newCLVS, set before the first slice of a picture is decoded.
NewCLVS(p) ==
  IF ~dec.isFirstSliceInPicture THEN app.newCLVS
  ELSE p.type = "IDR" \/ (app.eosInLastPu /\ (p.type = "CRA" \/ app.newCLVS))

\* The first slice makes a new picture, with the SEI messages before it.  The
\* others join it; SEI messages between slices are dropped.
PictureStarted(p, idx) ==
  [pic |-> p, poc |-> SlicePoc(p), slices |-> {<<p.num, idx>>}, seis |-> dec.prefixSeis,
   nobr |-> NoOutputBeforeRecovery(p), newCLVS |-> NewCLVS(p)]
PictureJoined(pic, p, idx) == [pic EXCEPT !.slices = @ \cup {<<p.num, idx>>}]

SliceDecoded(p, idx) ==
  [HeaderParsed(p) EXCEPT
     !.prevSliceSkipped = FALSE,
     !.pocRandomAccess = IF p.type = "IDR" THEN -MAX_INT
                         ELSE IF @ = MAX_INT THEN SlicePoc(p) ELSE @,
     !.firstSliceInSequence = FALSE,
     !.isFirstSliceInPicture = FALSE,
     !.prefixSeis = {},
     !.pic = IF dec.isFirstSliceInPicture
             THEN PictureStarted(p, idx) ELSE PictureJoined(@, p, idx)]

-----------------------------------------------------------------------------
(* One NAL unit.                                                            *)

InTarget(nalu) == nalu.nut = "EOS" \/ nalu.pic.tid <= options.highestTid

\* DecLib::decode on an EOS NAL unit.
EosDecoded(d) == [d EXCEPT !.pocRandomAccess = MAX_INT, !.prevSliceSkipped = FALSE]

\* DecLib after the NAL unit was decoded, or passed over as out of target.
DecAfter(nalu) ==
  LET p == nalu.pic
      sei == <<p.num, nalu.nut>>
  IN CASE ~InTarget(nalu) ->
            IF nalu.nut = "SLICE"
            THEN [dec EXCEPT !.isFirstSliceInPicture = FALSE] ELSE dec
       [] nalu.nut = "SLICE" /\ InTarget(nalu) ->
            IF IsRandomAccessSkipPicture(p, Idx(nalu))
            THEN SliceSkipped(p) ELSE SliceDecoded(p, Idx(nalu))
       [] nalu.nut = "PREFIX_SEI" /\ InTarget(nalu) ->
            [dec EXCEPT !.prefixSeis = @ \cup {sei}]
       [] nalu.nut = "SUFFIX_SEI" /\ InTarget(nalu) ->
            IF dec.pic # NoPicture /\ ~dec.prevSliceSkipped
            THEN [dec EXCEPT !.pic.seis = @ \cup {sei}] ELSE dec
       [] nalu.nut = "EOS" -> EosDecoded(dec)
       [] OTHER -> dec

\* The variables of the loop after the NAL unit.
AppAfter(nalu) ==
  LET p == nalu.pic
  IN CASE nalu.nut = "SLICE" /\ InTarget(nalu) ->
            [app EXCEPT
               !.newCLVS = NewCLVS(p),
               !.picSkipped = TakenForSkipped(p, Idx(nalu)),
               !.skipFrame = IF TakenForSkipped(p, Idx(nalu))
                             THEN CountLeft(p, Idx(nalu)) + 1
                             ELSE CountLeft(p, Idx(nalu))]
       [] nalu.nut = "SLICE" /\ ~InTarget(nalu) ->
            [app EXCEPT !.newCLVS = NewCLVS(p), !.picSkipped = TRUE]
       [] nalu.nut # "SLICE" /\ ~InTarget(nalu) -> [app EXCEPT !.picSkipped = TRUE]
       [] nalu.nut = "EOS" -> [app EXCEPT !.eosInPu = TRUE, !.newCLVS = TRUE]
       [] OTHER -> app

-----------------------------------------------------------------------------
(* The loop.                                                                *)

\* finishPicture makes the picture the one finished last.
Finish(d) ==
  /\ finished' = [order |-> finished.order + 1, pic |-> d.pic.pic, poc |-> d.pic.poc,
                  slices |-> d.pic.slices, seis |-> d.pic.seis,
                  nobr |-> d.pic.nobr, newCLVS |-> d.pic.newCLVS]
  /\ missing' = missing \ {d.pic.pic.num}

\* The block that finishes a picture, and what an EOS does after output, when
\* decoding left d and a.  eof: reading met the end of the file.
EndOfPicture(d, a, eos, eof) ==
  LET decoded  == ~d.firstSliceInSequence /\ ~a.picSkipped
      finishes == decoded /\ (~a.loopFiltered \/ ~eof)
      picListSet == a.picListSet \/ finishes
  IN /\ IF finishes THEN Finish(d) ELSE UNCHANGED <<finished, missing>>
     /\ dec' = [d EXCEPT
                  !.isFirstSliceInPicture =
                     IF eos /\ picListSet THEN FALSE
                     ELSE IF finishes \/ ~decoded THEN TRUE ELSE @,
                  !.firstSliceInSequence = @ \/ (decoded /\ eos)]
     /\ app' = [a EXCEPT !.loopFiltered = IF decoded THEN eos ELSE @,
                         !.picListSet = picListSet]

\* The next NAL units begin a picture: the present one is finished.
NewPicture ==
  /\ ~app.aborted /\ Ready /\ IsNewPicture
  /\ EndOfPicture(dec, [app EXCEPT !.eosInLastPu = app.eosInPu, !.eosInPu = FALSE],
                  FALSE, FALSE)
  /\ UNCHANGED <<file, encoder, options>>

\* They do not: one is read.  After an EOS only another may come before the
\* loop has seen a new picture, the CHECK in it says.
ReadNalUnit ==
  LET nalu == Head(file)
      eof  == ended /\ Len(file) = 1
      a    == AppAfter(nalu)
  IN /\ ~app.aborted /\ Ready /\ file # << >> /\ ~IsNewPicture
     /\ file' = Tail(file)
     /\ IF a.eosInPu /\ nalu.nut # "EOS"
        THEN /\ app' = [a EXCEPT !.aborted = TRUE]
             /\ UNCHANGED <<dec, finished, missing>>
        ELSE IF nalu.nut = "EOS" \/ eof
        THEN EndOfPicture(DecAfter(nalu), a, nalu.nut = "EOS", eof)
        ELSE dec' = DecAfter(nalu) /\ app' = a /\ UNCHANGED <<finished, missing>>
     /\ UNCHANGED <<encoder, options>>

Decode == NewPicture \/ ReadNalUnit

Next == WritePicture \/ WriteEos \/ EndOfFile \/ Decode

Spec == Init /\ [][Next]_vars

\* The loop ends only with the file, and the file ends.
FairSpec == Spec /\ WF_vars(Next)

-----------------------------------------------------------------------------
(* Properties.                                                              *)

PictureFinished == finished' # finished

\* finishPicture runs on pictures in decoding order, once for each, and each
\* has all its slices and no others then.
WholePictures ==
  [][PictureFinished =>
       /\ finished'.pic.num \in missing
       /\ \A n \in missing : n >= finished'.pic.num
       /\ finished'.slices = {finished'.pic.num} \X (0..finished'.pic.layout.slices - 1)]_vars

\* The SEI messages of a picture are its own, prefix and suffix, whatever
\* pictures around it are skipped.
SeisWithTheirPicture ==
  [][PictureFinished =>
       finished'.seis = {finished'.pic.num} \X Seis(finished'.pic)]_vars

\* Within a sequence the POCs the decoder derives differ from the encoder's by
\* one constant, though it may have entered with a CRA or GDR picture whose
\* most significant bits it does not know, and skipped pictures.
PocsAgree ==
  [][PictureFinished /\ finished.order # 0 /\ finished'.pic.cvs = finished.pic.cvs =>
       finished'.poc - finished'.pic.poc = finished.poc - finished.pic.poc]_vars

\* Where the encoder started a sequence for this decoder, and whether the
\* decoder was in a picture it decodes when the EOS before p came.
Starts(p) == p.type = "IDR" \/ p.at.afterEos \/ p.entered # p.at.entered
EosSeen(p) == p.at.afterEos /\ p.at.lastDue

\* A sequence starts where the encoder started one: at an IDR picture, at the
\* picture after an EOS, at the first picture decoded, and nowhere else.  (An
\* EOS after a skipped picture starts a new output sequence, but a CRA or GDR
\* picture after it continues the old POCs: see README.)
SequencesStartAlike ==
  [][PictureFinished =>
       LET p == finished'.pic
       IN /\ p.at.afterEos = EosSeen(p) => finished'.nobr = Starts(p)
          /\ finished'.newCLVS = (p.type = "IDR" \/ p.at.afterEos)]_vars

\* Every picture the user asked for is finished in the end, the last one too.
AllFinished == <>[](missing = {})
=============================================================================
