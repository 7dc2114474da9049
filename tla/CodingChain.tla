---------------------------- MODULE CodingChain ----------------------------
(***************************************************************************)
(* The encoder of EncoderGop and the decoder of PictureDecoder, one after  *)
(* the other: access units reach the decoder in coding order.  It may tune *)
(* in late, it may want the lower temporal sub-layers only, and the stream *)
(* may end after any picture.  The conformance CHECKs that the decoder     *)
(* makes of a picture's type and lists are added here.                     *)
(***************************************************************************)
EXTENDS EncoderGop, PictureDecoder

VARIABLES
  highestTid,  \* DecApp::m_iMaxTemporalLayer
  sent,        \* the access unit the decoder works on
  info,        \* Picture members the CHECKs read: buffer number -> record
  check        \* the members of DecLib the CHECKs read

chainVars == <<highestTid, sent, info, check>>
decoderVars == <<vars, chainVars>>

\* The SPS of the encoder's stream: every sub-layer has the same DPB values.
StreamSps == [reorder |-> [t \in Tids |-> cfg.reorder],
              buffering |-> [t \in Tids |-> cfg.buffering]]

ChainInit ==
  /\ EncInit /\ Init
  /\ sps = StreamSps
  /\ highestTid \in Tids
  /\ sent = NoUnit /\ info = << >>
  /\ check = [irapNo |-> 0, irapPoc |-> -MAX_INT, irapType |-> "none", barred |-> {}]

\* A coded picture as PictureDecoder sees it; POC LSBs are long enough.
Received(unit) ==
  [type |-> CASE unit.nal \in Idr -> "IDR" [] unit.nal = "CRA" -> "CRA"
              [] unit.nal = "RASL" -> "RASL" [] OTHER -> "TRAIL",
   tid |-> unit.tid, poc |-> unit.poc, refs |-> unit.refs, active |-> unit.active,
   output |-> TRUE, noPrior |-> FALSE, recovery |-> 0, cvs |-> unit.lastIDR]

\* DecApp passes over NAL units of higher sub-layers; what precedes the
\* decoder's first access unit is not in its file.
Drop ==
  /\ au # NoUnit
  /\ au.tid > highestTid \/ sent = NoUnit
  /\ au' = NoUnit
  /\ UNCHANGED <<cfg, encList, enc, decoderVars>>

Deliver ==
  /\ au # NoUnit /\ au.tid <= highestTid
  /\ SkipPicture(Received(au)) \/ BeginPicture(Received(au))
  /\ sent' = au /\ au' = NoUnit
  /\ UNCHANGED <<cfg, encList, enc, highestTid, info, check>>

\* checkSTSA: an STSA picture bars the references of its own sub-layer from the
\* lists of later pictures.
Activate(last) ==
  /\ ActivatePicture(last)
  /\ info' = [i \in DOMAIN info \cup {numPics'} |->
                IF i \in DOMAIN info THEN info[i]
                ELSE [poc |-> sent.poc, nal |-> sent.nal, tid |-> sent.tid,
                      irapPoc |-> check.irapPoc]]
  /\ check' = IF sent.nal = "STSA"
              THEN [check EXCEPT !.barred = @ \cup
                      {i \in DOMAIN Activated \cap DOMAIN info :
                         Activated[i].referenced /\ info[i].tid = sent.tid}]
              ELSE check
  /\ UNCHANGED <<encVars, highestTid, sent>>

\* updateAssociatedIRAP.
Finish ==
  /\ FinishPicture \/ FinishLastPicture
  /\ check' = IF sent.nal \in Irap
              THEN [check EXCEPT !.irapNo = curPic.id, !.irapPoc = sent.poc, !.irapType = sent.nal]
              ELSE check
  /\ UNCHANGED <<encVars, highestTid, sent, info>>

\* constructRefPicList dereferences what it finds for inactive entries, too.
Fail == FailOnReference /\ UNCHANGED <<encVars, chainVars>>

\* The stream ends: with the encoder's last access unit, or because the rest is
\* missing.  (A file without a picture to decode fails a CHECK after the loop.)
End == numPics > 0 /\ EndOfStream /\ UNCHANGED <<encVars, chainVars>>

ChainNext ==
  \/ EncNext /\ UNCHANGED decoderVars
  \/ Drop
  \/ Deliver
  \/ \E last \in BOOLEAN : Activate(last)
  \/ Fail
  \/ Finish
  \/ End

ChainSpec == ChainInit /\ [][ChainNext]_<<encVars, decoderVars>>

-----------------------------------------------------------------------------
(* The decoder's conformance CHECKs, for the picture of pilot.              *)

Reconstructed == {i \in DOMAIN picList : picList[i].reconstructed}

\* checkCRA: a trailing picture refers to nothing before its IRAP picture.
CheckCRA == sent.poc > check.irapPoc => \A r \in sent.refs : r >= check.irapPoc

\* checkRPL, for the picture i that entry r resolves to.
CheckEntry(r, i) ==
  LET precedes == r < check.irapPoc \/ i < check.irapNo
  IN /\ sent.nal \in Irap \/ check.irapPoc < sent.poc => ~precedes
     /\ r \in sent.active =>
          /\ sent.nal = "RADL" => i >= check.irapNo /\ info[i].nal # "RASL"
          /\ info[i].tid <= sent.tid

CheckRPL == \A r \in sent.refs : \A i \in RefPicsFor(r) : CheckEntry(r, i)

CheckSTSA ==
  \A r \in sent.active : \A i \in RefPicsFor(r) :
    i \notin check.barred /\ (sent.nal = "STSA" => info[i].tid # sent.tid)

-----------------------------------------------------------------------------
(* Properties.                                                              *)

\* Entries for pictures of sub-layers the user does not want.
Dropped == {r \in sent.refs : r \in DOMAIN encList /\ encList[r].tid > highestTid}

\* Whatever the encoder produces from its configurations, and wherever the
\* decoder joins, neither process fails: the configuration passes the check of
\* the GOP structure, the encoder resolves its own lists, and the decoder misses
\* no active reference, resolves every entry except those of sub-layers it drops,
\* and passes its CHECKs on leading, trailing and STSA pictures.  An inter picture keeps an active reference in list 0.
PassesChecks ==
  /\ cfg.valid /\ enc.status # "aborted"
  /\ au # NoUnit => (au.slice # "I" => au.numRefIdx[1] > 0)
  /\ pilot # None =>
       /\ Missing = {}
       /\ sent.active # {} => \A r \in sent.refs \ Dropped : RefPicsFor(r) # {}
       /\ LeadingRestrictions(sent.poc, sent.nal, check.irapPoc, check.irapType,
            {info[i] : i \in Reconstructed})
       /\ CheckCRA /\ CheckRPL /\ CheckSTSA

\* The decoder never ends on a reference it cannot find: a picture of a higher
\* temporal layer among a picture's references is not used for it.
DecodesSubLayers == app.status # "aborted"

\* While a picture is decoded, the decoder's reference pictures are those the
\* encoder kept when it coded the picture, as far as the decoder got them: the
\* two mark their lists in step, although only the decoder's marking follows
\* from the slice header and only the encoder's from decodingRefreshMarking.
SameReferences ==
  curPic # None =>
    {picList[i].poc : i \in {j \in DOMAIN picList : picList[j].referenced}}
      = sent.marked \cap {info[i].poc : i \in DOMAIN info}

\* The DPB sizes computed from one GOP suffice for the stream: the file holds the
\* pictures in the order in which the encoder got them, at the end all that were
\* decoded, although bumping starts as soon as a DPB limit is passed.
FramesInOrder ==
  /\ \A i, j \in DOMAIN shown : shown[i].pos < shown[j].pos <=> shown[i].poc < shown[j].poc
  /\ app.status = "finished" => DOMAIN shown = 1..numPics
=============================================================================
