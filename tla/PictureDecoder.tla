--------------------------- MODULE PictureDecoder ---------------------------
(***************************************************************************)
(* The decoder process at the granularity of coded pictures: the main loop *)
(* of DecApp::decode and the DecLib handlers it drives (xDecodeSlice,      *)
(* xActivateParameterSets, finishPicture and the EOS case of decode), for  *)
(* a stream of one layer whose pictures are frames of one slice, without   *)
(* long-term references, decoded from the first NAL unit on (m_iSkipFrame  *)
(* = 0).  What a slice decodes to is left out; which buffers, flags and    *)
(* POCs the process keeps, in what order it changes them and what it       *)
(* writes to the output file is kept.                                      *)
(*                                                                         *)
(* The stream itself is not constrained here: any picture of Pictures may  *)
(* come at any time, as for a damaged file or a decoder started in the     *)
(* middle of one.  ConformingStream adds the constraints of an encoder.    *)
(***************************************************************************)
EXTENDS PictureList

CONSTANTS
  Pictures,   \* the coded pictures a stream may hold
  SpsSet,     \* the DPB parameters it may signal, per temporal sub-layer
  MaxTid,     \* sps_max_sublayers_minus1
  MaxPics,    \* bound: no new coded picture once so many buffers were taken
  None        \* no picture

Tids == 0..MaxTid   \* the temporal sub-layers

Types == {"IDR", "CRA", "GDR", "RASL", "TRAIL"}   \* TRAIL: also STSA and RADL

\* refs are the POCs of all entries of both reference picture lists, active
\* those of the entries num_ref_idx makes active (none: an I slice); cvs says
\* which coded video sequence the picture belongs to and is never read by the
\* decoder.
CodedPicture ==
  [type : Types, tid : Tids, poc : Int, refs : SUBSET Int, active : SUBSET Int,
   output : BOOLEAN, noPrior : BOOLEAN, recovery : Nat, cvs : Nat]

\* A picture whose first slice header is read, and one being decoded.
PilotPicture == [pic : CodedPicture, nobr : BOOLEAN, output : BOOLEAN]
CurrentPicture == [id : Nat, type : Types, output : BOOLEAN]

\* dpb_parameters: the decoder rejects an SPS that breaks the last relation.
Sps == {s \in [reorder : [Tids -> Nat], buffering : [Tids -> Nat]] :
          \A t \in Tids : s.reorder[t] < s.buffering[t]}

ASSUME PicturesAssumption == Pictures \subseteq CodedPicture
ASSUME SpsAssumption == SpsSet \subseteq Sps
ASSUME MaxTidAssumption == MaxTid \in Nat
ASSUME MaxPicsAssumption == MaxPics \in Nat
ASSUME NoneAssumption == None \notin PilotPicture \cup CurrentPicture

VARIABLES
  picList,     \* DecLib::m_cListPic, see PictureList
  numPics,     \* buffers taken so far: the number of the newest entry
  pilot,       \* the picture whose first slice header is read (m_apcSlicePilot)
  curPic,      \* the picture being decoded (DecLib::m_pic), None when finished
  refPicList,  \* Slice::m_refPicList of that picture: active POC -> buffer
  dec,         \* the members of DecLib that outlive a picture
  app,         \* DecApp's members and the local variables of its loop
  sps,         \* the active SPS
  shown,       \* history: what is in the output file, and where
  due,         \* history: the finished pictures whose output flag was set
  discarded    \* history: waiting pictures whose output was cancelled, and why

stream == <<pilot, curPic, refPicList>>
history == <<shown, due, discarded>>
vars == <<picList, numPics, stream, dec, app, sps, history>>

-----------------------------------------------------------------------------
Init ==
  /\ picList = << >> /\ numPics = 0
  /\ pilot = None /\ curPic = None /\ refPicList = << >>
  /\ dec = [firstSliceInSequence |-> TRUE,
            lastNoOutputBeforeRecovery |-> FALSE,
            pocRandomAccess |-> MAX_INT,
            prevGdr |-> FALSE,              \* m_prevGDRInSameLayerPOC is set
            prevGdrRecoveryPoc |-> -MAX_INT]
  /\ app = [pocLastDisplay |-> -MAX_INT,
            newCLVS |-> TRUE,
            eosInLastPu |-> FALSE,
            prevPicSkipped |-> TRUE,
            picSkipped |-> FALSE,
            gdrRecoveryPeriod |-> FALSE,
            loopFiltered |-> FALSE,
            picListSet |-> FALSE,           \* picList is not nullptr
            outputPicturePresent |-> FALSE,
            status |-> "running"]
  /\ sps \in SpsSet
  /\ shown = << >> /\ due = {} /\ discarded = << >>

-----------------------------------------------------------------------------
(* Output of pictures.                                                      *)

\* The output file after the pictures of B were appended in list order.
Written(file, pl, B) ==
  [i \in DOMAIN file \cup B |->
     IF i \in B
     THEN [pos |-> Cardinality(DOMAIN file)
                   + Cardinality({j \in B : j = i \/ Before(pl, j, i)}),
           poc |-> pl[i].poc, cvs |-> pl[i].cvs]
     ELSE file[i]]

\* The history of discarded pictures after those of S that wait in pl were
\* cancelled.
Cancelled(pl, S, reason) ==
  [i \in DOMAIN discarded \cup (S \cap Waiting(pl)) |->
     IF i \in DOMAIN discarded THEN discarded[i] ELSE reason]

\* xWriteOutput on list pl, when DecApp's variables are a.
WriteOutput(pl, a) ==
  LET B == Bumped(pl, a.pocLastDisplay,
                  sps.reorder[MaxTid], sps.buffering[MaxTid])
  IN /\ picList' = AfterOutput(pl, B)
     /\ shown' = Written(shown, pl, B)
     /\ app' = [a EXCEPT !.pocLastDisplay = LastDisplay(pl, B, a.pocLastDisplay),
                         !.outputPicturePresent = (@ \/ Waiting(pl) # {})]

SuppressMutant(pl, a) == pl

\* What is left waiting while the pictures before a GDR's recovery point are
\* decoded: nothing.
Suppress(pl, a) ==
  IF a.gdrRecoveryPeriod THEN Suppressed(pl, DOMAIN pl) ELSE pl

\* The part of a loop iteration after the NAL unit is decoded: suppression
\* during GDR recovery, then bumping.
EndOfIteration(pl, a) ==
  /\ WriteOutput(Suppress(pl, a), a)
  /\ discarded' = IF a.gdrRecoveryPeriod
                  THEN Cancelled(pl, DOMAIN pl, "recovery") ELSE discarded

-----------------------------------------------------------------------------
(* The first slice of a picture.                                            *)

RandomAccessSkipMutant(p) ==                          \* RASL pictures decoded
  dec.pocRandomAccess = MAX_INT /\ p.type \notin {"IDR", "CRA", "GDR"}

\* isRandomAccessSkipPicture: nothing can be decoded before the first IRAP or
\* GDR picture, nor the RASL pictures of the CRA at which decoding started.
RandomAccessSkip(p) ==
  /\ p.type # "IDR"
  /\ IF dec.pocRandomAccess = MAX_INT
     THEN p.type \notin {"CRA", "GDR"}
     ELSE p.type = "RASL" /\ p.poc < dec.pocRandomAccess

NewCLVSMutant(p) == p.type = "IDR" \/ app.newCLVS    \* never reset

\* m_newCLVS, set by DecApp before the slice is parsed.
NewCLVS(p) ==
  \/ p.type = "IDR"
  \/ app.eosInLastPu /\ (p.type = "CRA" \/ app.newCLVS)

SkipPicture(p) ==
  /\ app.status = "running" /\ pilot = None /\ curPic = None
  /\ RandomAccessSkip(p)
  /\ EndOfIteration(picList,
       [app EXCEPT !.newCLVS = NewCLVS(p),
                   !.picSkipped = TRUE,
                   !.prevPicSkipped = @ \/ p.type # "RASL"])
  /\ UNCHANGED <<numPics, stream, dec, sps, due>>

FlushesMutant(p) == p.type = "IDR"

\* xFlushOutput before the first slice of a picture that starts a CLVS.
Flushes(p) == p.type = "IDR" \/ (p.type = "CRA" /\ app.eosInLastPu)

\* m_noOutputBeforeRecoveryFlag of an IRAP or GDR picture.
NoOutputBeforeRecovery(p) ==
  p.type = "IDR" \/ (p.type \in {"CRA", "GDR"} /\ dec.firstSliceInSequence)

\* From the NAL unit header to isRandomAccessSkipPicture: flush, parse the
\* slice header, drop prior pictures, infer PicOutputFlag.
BeginPicture(p) ==
  LET nobr  == NoOutputBeforeRecovery(p)
      list  == IF Flushes(p) THEN << >> ELSE picList
      prior == IF nobr /\ p.noPrior
               THEN {i \in DOMAIN list : list[i].poc # p.poc} ELSE {}
      lastNobr == IF p.type \in {"CRA", "GDR"}
                  THEN nobr ELSE dec.lastNoOutputBeforeRecovery
  IN /\ app.status = "running" /\ pilot = None /\ curPic = None
     /\ ~RandomAccessSkip(p)
     /\ numPics < MaxPics
     /\ picList' = Suppressed(list, prior)
     /\ shown' = IF Flushes(p) THEN Written(shown, picList, Waiting(picList)) ELSE shown
     /\ discarded' = Cancelled(list, prior, "prior")
     /\ app' = [app EXCEPT !.newCLVS = NewCLVS(p),
                           !.picSkipped = FALSE,
                           !.pocLastDisplay = IF Flushes(p) THEN -MAX_INT ELSE @]
     /\ dec' = [dec EXCEPT
                  !.lastNoOutputBeforeRecovery = lastNobr,
                  !.pocRandomAccess = IF p.type = "IDR" THEN -MAX_INT
                                      ELSE IF @ = MAX_INT THEN p.poc ELSE @,
                  !.prevGdrRecoveryPoc = IF p.type = "GDR" /\ ~dec.prevGdr
                                         THEN p.poc + p.recovery ELSE @]
     /\ pilot' = [pic |-> p, nobr |-> nobr,
                  output |-> p.output /\ ~(p.type = "RASL" /\ lastNobr)]
     /\ UNCHANGED <<numPics, curPic, refPicList, sps, due>>

-----------------------------------------------------------------------------
(* Lost references.                                                         *)

\* The loop over checkThatAllRefPicsAreAvailable ends at the first missing
\* entry whose POC is not positive, whatever follows it.  The order of the
\* entries is data of the slice header, so any such entry may end it.
Missing == IF pilot.pic.type = "IDR" THEN {} ELSE MissingRefs(picList, pilot.pic.active)

\* xCreateUnavailablePicture, for a CRA or GDR picture that starts decoding.
InsertUnavailablePicture ==
  /\ app.status = "running" /\ pilot # None
  /\ pilot.pic.type \in {"CRA", "GDR"} /\ pilot.nobr
  /\ \E r \in Missing :
       /\ r > 0
       /\ picList' = WithPicture(picList, numPics + 1, sps.buffering[0],
                       [poc |-> r, referenced |-> TRUE, needed |-> FALSE,
                        reconstructed |-> TRUE, cvs |-> pilot.pic.cvs])
  /\ numPics' = numPics + 1
  /\ UNCHANGED <<stream, dec, app, sps, history>>

\* xCreateLostPicture, for any other picture.  The process ends in the read of
\* m_apcSlicePilot->m_pic, unless the pilot is a slice object that an earlier
\* picture of several slices left behind, and in the CHECK on m_slices, unless
\* a used buffer is taken over; such a buffer keeps its old POC, as only the
\* POC of its slice is set.
InsertLostPicture ==
  /\ app.status = "running" /\ pilot # None
  /\ ~(pilot.pic.type \in {"CRA", "GDR"} /\ pilot.nobr)
  /\ \E r \in Missing : r > 0
  /\ \/ /\ app' = [app EXCEPT !.status = "aborted"]
        /\ UNCHANGED <<picList, numPics>>
     \/ \E v \in Victim(picList, sps.buffering[0]) :
          /\ picList' = WithPicture(picList, numPics + 1, sps.buffering[0],
                          [picList[v] EXCEPT !.referenced = TRUE,
                                             !.needed = TRUE,
                                             !.reconstructed = TRUE])
          /\ numPics' = numPics + 1
          /\ UNCHANGED app
  /\ UNCHANGED <<stream, dec, sps, history>>

-----------------------------------------------------------------------------
(* Decoding a picture, to the end of its slice data.                        *)

\* The list after reference marking and the search for a buffer.
Activated ==
  LET p == pilot.pic
      list == IF p.type = "IDR" THEN picList ELSE Marked(picList, p.poc, p.refs)
  IN WithPicture(list, numPics + 1, sps.buffering[p.tid],
       [poc |-> p.poc, referenced |-> TRUE, needed |-> FALSE,
        reconstructed |-> FALSE, cvs |-> p.cvs])

\* What xGetRefPic may find for an entry.  A list that resolves to the current
\* picture itself fails the CHECK in checkRPL.
RefPicsFor(r) == RefPics(Activated, r) \ {numPics + 1}

\* constructRefPicList dereferences what it finds for every entry, unless the
\* slice is an I slice.
AllRefsFound ==
  \A r \in pilot.pic.refs :
    pilot.pic.active # {} \/ r = pilot.pic.poc => RefPicsFor(r) # {}

\* m_refPicList, for every way to resolve the active entries; most resolve to
\* one picture only.
RefPicLists(active) ==
  LET several == {r \in active : \E i, j \in RefPicsFor(r) : i # j}
  IN {[r \in active |-> IF r \in several THEN f[r] ELSE CHOOSE i \in RefPicsFor(r) : TRUE] :
        f \in {g \in [several -> DOMAIN Activated] : \A r \in several : g[r] \in RefPicsFor(r)}}

\* xActivateParameterSets and the rest of xDecodeSlice.  last: reading the
\* slice met the end of the file, and finishPicture runs in this iteration of
\* the loop, before any bumping.
ActivatePicture(last) ==
  LET p == pilot.pic
      a == [app EXCEPT
              !.gdrRecoveryPeriod = @ \/ (app.prevPicSkipped /\ p.type = "GDR"),
              !.prevPicSkipped = @ /\ p.type = "RASL"]
  IN /\ app.status = "running" /\ pilot # None
     /\ Missing = {} \/ \E r \in Missing : r <= 0
     /\ AllRefsFound
     /\ numPics' = numPics + 1
     /\ curPic' = [id |-> numPics + 1, type |-> p.type, output |-> pilot.output]
     /\ \A r \in p.active : RefPicsFor(r) # {}
     /\ refPicList' \in RefPicLists(p.active)
     /\ pilot' = None
     /\ dec' = [dec EXCEPT !.firstSliceInSequence = FALSE]
     /\ IF last
        THEN /\ picList' = Activated
             /\ app' = [a EXCEPT !.status = "lastPicture"]
             /\ UNCHANGED <<shown, discarded>>
        ELSE EndOfIteration(Activated, a)
     /\ UNCHANGED <<sps, due>>

\* The null picture that constructRefPicList dereferences, or the current
\* picture found in its own lists.
FailOnReference ==
  /\ app.status = "running" /\ pilot # None
  /\ Missing = {} \/ \E r \in Missing : r <= 0
  /\ ~AllRefsFound \/ pilot.pic.poc \in pilot.pic.refs
  /\ app' = [app EXCEPT !.status = "aborted"]
  /\ UNCHANGED <<picList, numPics, stream, dec, sps, history>>

-----------------------------------------------------------------------------
(* The end of a picture.                                                    *)

\* DecLib::finishPicture sets m_neededForOutput from the output flag, except
\* for a RASL picture of what DecApp says is a new CLVS.
OutputCurrent(newCLVS) == curPic.output /\ ~(newCLVS /\ curPic.type = "RASL")

Finished(newCLVS) ==
  [picList EXCEPT ![curPic.id].needed = OutputCurrent(newCLVS),
                  ![curPic.id].reconstructed = TRUE]

\* DecApp's variables after the block that calls finishPicture.
AfterFinish(a, recoveryPoc) ==
  [a EXCEPT !.picListSet = TRUE,
            !.gdrRecoveryPeriod = @ /\ picList[curPic.id].poc < recoveryPoc]

\* What becomes of the picture in the histories, when list is the list after
\* finishPicture and the suppression of a GDR recovery may follow.
Accounted(list, a, reason) ==
  LET lost == IF curPic.output /\ ~list[curPic.id].needed THEN {curPic.id} ELSE {}
      hidden == IF a.gdrRecoveryPeriod THEN Waiting(list) ELSE {}
  IN /\ due' = due \cup (IF curPic.output THEN {curPic.id} ELSE {})
     /\ discarded' = [i \in DOMAIN discarded \cup lost \cup hidden |->
                        IF i \in DOMAIN discarded THEN discarded[i]
                        ELSE IF i \in lost THEN reason ELSE "recovery"]

\* updatePrevGDRInSameLayer; m_pic is done with.
CloseCurrent(d) ==
  /\ dec' = [d EXCEPT !.prevGdr = @ \/ curPic.type = "GDR"]
  /\ curPic' = None /\ refPicList' = << >>
  /\ UNCHANGED <<numPics, pilot, sps>>

\* The first NAL unit of another picture follows (bNewPicture).
FinishPicture ==
  LET a == AfterFinish([app EXCEPT !.loopFiltered = FALSE, !.eosInLastPu = FALSE],
                       dec.prevGdrRecoveryPoc)
      list == Finished(app.newCLVS)
  IN /\ app.status = "running" /\ curPic # None
     /\ WriteOutput(Suppress(list, a), a)
     /\ Accounted(list, a, "newCLVS")
     /\ CloseCurrent(dec)

\* The file has ended, in the last slice (status "lastPicture": bumping still
\* follows) or in a NAL unit after it (no bumping).  finishPicture is not
\* called when loopFiltered still is what the last EOS made it.
FinishLastPicture ==
  LET a == AfterFinish([app EXCEPT !.loopFiltered = FALSE, !.status = "lastPicture"],
                       dec.prevGdrRecoveryPoc)
      list == IF app.loopFiltered THEN picList ELSE Finished(app.newCLVS)
  IN /\ app.status \in {"running", "lastPicture"} /\ curPic # None
     /\ IF app.status = "lastPicture"
        THEN WriteOutput(Suppress(list, a), a)
        ELSE picList' = Suppress(list, a) /\ app' = a /\ UNCHANGED shown
     /\ Accounted(list, a, IF app.loopFiltered THEN "unfinished" ELSE "newCLVS")
     /\ CloseCurrent(dec)

-----------------------------------------------------------------------------
(* The end of a sequence and of the stream.                                 *)

\* DecLib::decode resets its members for EOS before DecApp finishes the
\* picture that precedes it, and DecApp has set m_newCLVS by then.
ResetByEos(d) ==
  [d EXCEPT !.pocRandomAccess = MAX_INT, !.prevGdr = FALSE,
            !.prevGdrRecoveryPoc = -MAX_INT]

EndOfSequenceAfterPicture ==
  LET a == AfterFinish([app EXCEPT !.newCLVS = TRUE, !.eosInLastPu = TRUE,
                                   !.loopFiltered = TRUE],
                       -MAX_INT)
      list == Finished(TRUE)
  IN /\ app.status = "running" /\ curPic # None
     /\ WriteOutput(Suppress(list, a), a)
     /\ Accounted(list, a, "newCLVS")
     /\ CloseCurrent([ResetByEos(dec) EXCEPT !.firstSliceInSequence = TRUE])

\* EOS after a skipped picture: there is nothing to finish, and
\* setFirstSliceInSequence is not called.  Before the first finished picture
\* isNewPicture stays false, isEosPresentInPu is never cleared, and the CHECK
\* on the NAL unit after the EOS ends the process.
EndOfSequenceAfterSkip ==
  LET a == [app EXCEPT !.newCLVS = TRUE, !.eosInLastPu = TRUE]
  IN /\ app.status = "running" /\ pilot = None /\ curPic = None
     /\ app.picSkipped
     /\ dec' = ResetByEos(dec)
     /\ IF app.picListSet
        THEN EndOfIteration(picList, a)
        ELSE /\ app' = [a EXCEPT !.status = "aborted"]
             /\ UNCHANGED <<picList, shown, discarded>>
     /\ UNCHANGED <<numPics, stream, sps, due>>

EndOfSequence == EndOfSequenceAfterPicture \/ EndOfSequenceAfterSkip

EndOfStreamMutant ==                                  \* nothing is flushed
  /\ app.status \in {"running", "lastPicture"} /\ pilot = None /\ curPic = None
  /\ app' = [app EXCEPT !.status = "finished"]
  /\ UNCHANGED <<picList, numPics, stream, dec, sps, history>>

\* After the loop: the CHECK that something was output, and the last flush.
EndOfStream ==
  LET present == app.outputPicturePresent \/ Waiting(picList) # {}
  IN /\ app.status \in {"running", "lastPicture"} /\ pilot = None /\ curPic = None
     /\ IF app.picListSet /\ present
        THEN /\ shown' = Written(shown, picList, Waiting(picList))
             /\ picList' = << >>
             /\ app' = [app EXCEPT !.pocLastDisplay = -MAX_INT,
                                   !.outputPicturePresent = present,
                                   !.status = "finished"]
        ELSE /\ app' = [app EXCEPT !.status = "aborted"]
             /\ UNCHANGED <<picList, shown>>
     /\ UNCHANGED <<numPics, stream, dec, sps, due, discarded>>

-----------------------------------------------------------------------------
\* The steps that read nothing new from the stream.
Decode ==
  \/ InsertUnavailablePicture
  \/ InsertLostPicture
  \/ \E last \in BOOLEAN : ActivatePicture(last)
  \/ FailOnReference
  \/ FinishPicture
  \/ FinishLastPicture

Next ==
  \/ \E p \in Pictures : SkipPicture(p) \/ BeginPicture(p)
  \/ Decode
  \/ EndOfSequence
  \/ EndOfStream

Spec == Init /\ [][Next]_vars

-----------------------------------------------------------------------------
(* Properties that hold of every stream.                                    *)

Reasons == {"prior", "recovery", "newCLVS", "unfinished"}

DecLibMembers ==
  [firstSliceInSequence : BOOLEAN, lastNoOutputBeforeRecovery : BOOLEAN,
   pocRandomAccess : Int, prevGdr : BOOLEAN, prevGdrRecoveryPoc : Int]
DecAppVariables ==
  [pocLastDisplay : Int, newCLVS : BOOLEAN, eosInLastPu : BOOLEAN,
   prevPicSkipped : BOOLEAN, picSkipped : BOOLEAN, gdrRecoveryPeriod : BOOLEAN,
   loopFiltered : BOOLEAN, picListSet : BOOLEAN, outputPicturePresent : BOOLEAN,
   status : {"running", "lastPicture", "finished", "aborted"}]

\* Every variable holds a value of its type, and every picture the decoder or
\* a history refers to is one that got a buffer.
TypeOK ==
  /\ numPics \in Nat
  /\ DOMAIN picList \subseteq 1..numPics
  /\ picList \in [DOMAIN picList -> Buffer]
  /\ pilot \in PilotPicture \cup {None}
  /\ curPic \in CurrentPicture \cup {None}
  /\ refPicList \in [DOMAIN refPicList -> 1..numPics]
  /\ dec \in DecLibMembers
  /\ app \in DecAppVariables
  /\ sps \in SpsSet
  /\ DOMAIN shown \subseteq 1..numPics
  /\ shown \in [DOMAIN shown -> [pos : Nat, poc : Int, cvs : Nat]]
  /\ due \subseteq 1..numPics
  /\ DOMAIN discarded \subseteq 1..numPics
  /\ discarded \in [DOMAIN discarded -> Reasons]

\* xGetNewPicBuffer takes over any buffer that does not wait and is not marked
\* reconstructed, referenced or not.  So a waiting picture and, while the
\* stream goes on, a reference picture other than the one being decoded must
\* be marked reconstructed.
FlagsConsistent ==
  \A i \in DOMAIN picList :
    /\ picList[i].needed => picList[i].reconstructed
    /\ picList[i].referenced /\ ~picList[i].reconstructed =>
         (curPic # None /\ curPic.id = i) \/ app.status # "running"

\* The picture being decoded and the pictures its slice predicts from have
\* their buffers until finishPicture: no bumping, marking or insertion between
\* the two takes one away.
DecodesIntoOwnBuffer ==
  curPic # None =>
    /\ curPic.id \in DOMAIN picList
    /\ ~picList[curPic.id].needed /\ ~picList[curPic.id].reconstructed
    /\ \A r \in DOMAIN refPicList :
         /\ refPicList[r] \in DOMAIN picList \ {curPic.id}
         /\ picList[refPicList[r]].poc = r

\* A finished picture with the output flag is never forgotten: it is in the
\* file, waits for it, or its output was cancelled for a reason the process
\* knows.
NoPictureLost == due \subseteq DOMAIN shown \cup Waiting(picList) \cup DOMAIN discarded

\* No picture is written twice, and none is written whose output was cancelled:
\* what waits is not in the file yet, and what was cancelled neither waits nor
\* is in it.
OneFate ==
  /\ Waiting(picList) \cap DOMAIN shown = {}
  /\ DOMAIN discarded \cap (DOMAIN shown \cup Waiting(picList)) = {}

\* A buffer is taken away only from a picture that is in the file if it waited,
\* and that the new picture's lists do not name as a reference.
TakesFreeBuffersOnly ==
  [][\A i \in DOMAIN picList \ DOMAIN picList' :
       /\ picList[i].needed => i \in DOMAIN shown'
       /\ pilot # None /\ picList[i].referenced => picList[i].poc \notin pilot.pic.refs]_vars

\* A lost reference is replaced by a copy of an earlier picture; losing one
\* does not end the process.
ConcealsLostPicture ==
  [][pilot # None /\ (\E r \in Missing : r > 0) => app'.status # "aborted"]_vars

\* While the pictures before a GDR picture's recovery point are decoded nothing
\* is written, neither by bumping nor by a flush.
SilentDuringRecovery ==
  [][app.gdrRecoveryPeriod /\ app'.gdrRecoveryPeriod => shown' = shown]_vars
=============================================================================
