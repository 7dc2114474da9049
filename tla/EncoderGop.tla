----------------------------- MODULE EncoderGop -----------------------------
(***************************************************************************)
(* The encoder's management of pictures: what EncAppCfg makes of a GOP     *)
(* configuration (reference picture lists for the pictures near the start, *)
(* DPB sizes), EncLib's list of pictures and EncGOP::compressGOP's choice  *)
(* of NAL unit type, reference picture lists and marking for each picture. *)
(* One layer, frames, no long-term references, no recovery points, DRAP or *)
(* composite references; sample coding is left out.                        *)
(***************************************************************************)
EXTENDS Integers, Sequences, FiniteSets, FiniteSetsExt, SequencesExt

CONSTANTS
  Configs,  \* the configurations: GOP rows, intra period, refresh type, frames
  NoUnit    \* no access unit waits

\* A row of a GOP configuration: POC in the GOP, temporal layer, slice type and
\* for each list the POC differences to its references, the active ones first.
GopRow == [poc : Nat \ {0}, tid : 0..6, type : {"B", "P"},
           lists : [1..2 -> [delta : Seq(Int), active : Nat]]]

Ids(rows, tid) == {i \in DOMAIN rows : rows[i].tid = tid}
Size(c) == Len(c.rows)

\* What xCheckParameter asks of the intra period; the last picture of a GOP in
\* output order is coded first, on the lowest temporal layer.
ValidConfig(c) ==
  /\ \A i \in DOMAIN c.rows : c.rows[i] \in GopRow
  /\ {c.rows[i].poc : i \in 1..Size(c)} = 1..Size(c)
  /\ \A i \in 1..Size(c) : c.rows[i].poc = Size(c) => c.rows[i].tid = 0
  /\ IF c.period = -1 THEN c.refresh = 0
     ELSE c.refresh \in {1, 2} /\ c.period > 0 /\ c.period % Size(c) = 0
          /\ (c.refresh = 2 => c.period > Size(c))
ASSUME ConfigsAssumption == \A c \in Configs : ValidConfig(c)

VARIABLES
  cfg,      \* EncCfg after xCheckParameter
  encList,  \* EncLib::m_cListPic: POC -> picture
  enc,      \* the members of EncLib and EncGOP that outlive a picture
  au        \* the access unit just coded, NoUnit once it is delivered

encVars == <<cfg, encList, enc, au>>

-----------------------------------------------------------------------------
(* The configuration.                                                       *)

\* The n-th picture in coding order after POC 0 (from n = 0).
RowOf(rows, n) == rows[(n % Len(rows)) + 1]
PocOf(rows, n) == (n \div Len(rows)) * Len(rows) + RowOf(rows, n).poc

RefPocs(list, poc) == {poc - d : d \in ToSet(list.delta)}
References(rpl, poc) == RefPocs(rpl[1], poc) \cup RefPocs(rpl[2], poc)

\* The references of a list that are not before POC 0.
Kept(list, poc) ==
  LET Old(d) == poc - d < 0
  IN [delta  |-> SelectSeq(list.delta, LAMBDA d : ~Old(d)),
      active |-> Cardinality({i \in DOMAIN list.delta :
                                i <= list.active /\ ~Old(list.delta[i])})]

\* Pictures coded earlier take the place of those before POC 0, the latest
\* first, until the list has as many active entries as the row asks for.  The
\* loop tests that after each candidate, so the first one is always tried.
Replenished(rows, n, l, available) ==
  LET row == RowOf(rows, n)
      poc == PocOf(rows, n)
      wanted == row.lists[l].active
      Try(list, o) ==
        LET new == poc - PocOf(rows, n - o)
            later == {j \in 1..list.active : list.delta[j] > new /\ new > 0}
            place == IF later = {} THEN list.active + 1 ELSE Min(later)
        IN IF \/ o > 1 /\ list.active >= wanted
              \/ RowOf(rows, n - o).tid > row.tid
              \/ PocOf(rows, n - o) \notin available
              \/ new \in ToSet(list.delta)
           THEN list
           ELSE [delta |-> InsertAt(list.delta, place, new), active |-> list.active + 1]
  IN FoldLeft(Try, Kept(row.lists[l], poc), [o \in 1..n |-> o])

\* Follows the pictures in coding order until every row was met with all its
\* references available.  A row some of whose L0 references are before POC 0
\* gets an extra entry that keeps the row's POC.  Only L0 is checked.
RECURSIVE Analysis(_, _, _, _, _)
Analysis(rows, n, verified, extra, available) ==
  LET row == RowOf(rows, n)
      poc == PocOf(rows, n)
      refs == RefPocs(row.lists[1], poc)
      early == \E r \in refs : r < 0
      entry == IF early
               THEN [row EXCEPT !.lists = [l \in 1..2 |-> Replenished(rows, n, l, available)]]
               ELSE row
      ok == verified \cup (IF early THEN {} ELSE {n % Len(rows)})
      extras == IF early THEN Append(extra, entry) ELSE extra
      next == {poc} \cup {r \in References(entry.lists, poc) : r >= 0}
  IN IF \E r \in refs : r >= 0 /\ r \notin available
     THEN [valid |-> FALSE, extras |-> extras]
     ELSE IF Cardinality(ok) = Len(rows) THEN [valid |-> TRUE, extras |-> extras]
     ELSE Analysis(rows, n + 1, ok, extras, next)

NumReorderOfMutant(rows, i) ==                        \* one picture too few
  LET last == Max({j \in DOMAIN rows : rows[j].poc <= rows[i].poc})
  IN Cardinality({j \in 1..(last - 2) :
                    rows[j].tid <= rows[i].tid /\ rows[j].poc > rows[i].poc})

\* dpb_max_num_reorder_pics and dpb_max_dec_pic_buffering: largest values over
\* the GOP's own entries.  sps_sublayer_dpb_params_flag is 0: all sub-layers
\* get the values of the highest one.
NumReorderOf(rows, i) ==
  LET last == Max({j \in DOMAIN rows : rows[j].poc <= rows[i].poc})
  IN Cardinality({j \in 1..(last - 1) :
                    rows[j].tid <= rows[i].tid /\ rows[j].poc > rows[i].poc})

MaxNumReorder(rows) == Max({NumReorderOf(rows, i) : i \in DOMAIN rows})

MaxDecPicBuffering(rows) ==
  LET Refs(row) == Len(row.lists[1].delta)
                   + Len(SelectSeq(row.lists[2].delta,
                                   LAMBDA d : d \notin ToSet(row.lists[1].delta)))
  IN Max({MaxNumReorder(rows) + 1} \cup {Refs(rows[i]) + 1 : i \in DOMAIN rows})

\* m_allRplEntriesHasSameSignFlag: in the active part of every list the POC
\* only rises or only falls, starting at the current picture for L0; for L1,
\* unless it is a copy of L0, the steps after the first have its sign.
AllRplEntriesHasSameSign(entries) ==
  LET Id(e, l, j) == IF j = 0 THEN 0 ELSE -e.lists[l].delta[j]
      Step(e, l, j) == Id(e, l, j) - Id(e, l, j - 1)
      Indices(e, l) == 1..e.lists[l].active
      copied == \A i \in DOMAIN entries : entries[i].lists[1].delta = entries[i].lists[2].delta
  IN \A i \in DOMAIN entries :
       LET e == entries[i]
       IN /\ \/ \A j \in Indices(e, 1) : Step(e, 1, j) >= 0
             \/ \A j \in Indices(e, 1) : Step(e, 1, j) <= 0
          /\ copied \/ \A j \in Indices(e, 2) : (Step(e, 2, j) >= 0) <=> (Id(e, 2, 1) >= 0)

\* The entries: those of the GOP's rows, then the extra ones.
Configured(c) ==
  LET analysis == Analysis(c.rows, 0, {}, << >>, {0})
      entries == c.rows \o analysis.extras
      futureRef == \E i \in DOMAIN entries : \E l \in 1..2 :
                     \E d \in ToSet(entries[i].lists[l].delta) : d < 0
  IN [gop |-> c.rows, rpl |-> entries, valid |-> analysis.valid,
      period |-> c.period, refresh |-> c.refresh, frames |-> c.frames,
      lowDelay |-> ~futureRef /\ c.period # 1,
      sameSign |-> AllRplEntriesHasSameSign(entries),
      reorder |-> MaxNumReorder(c.rows), buffering |-> MaxDecPicBuffering(c.rows)]

GopSize == Len(cfg.gop)

EncInit ==
  /\ cfg \in {Configured(c) : c \in Configs}
  /\ encList = << >>
  /\ enc = [pocLast |-> -1, received |-> 0, picIdInGOP |-> 0, lastIDR |-> 0,
            pocCRA |-> 0, refreshPending |-> FALSE, irapPoc |-> 0,
            irapType |-> "IDR_N_LP", status |-> "receiving"]
  /\ au = NoUnit

-----------------------------------------------------------------------------
(* Receiving pictures (EncLib::encodePrep, xGetNewPicBuffer).               *)

\* xGetNewPicBuffer: once the list is long enough, the unreferenced picture
\* with the lowest POC gives its buffer.
WithInput(list, poc) ==
  LET free == {q \in DOMAIN list : ~list[q].referenced}
      taken == IF Cardinality(DOMAIN list) >= GopSize + cfg.buffering + 2 /\ free # {}
               THEN {Min(free)} ELSE {}
  IN [q \in (DOMAIN list \ taken) \cup {poc} |->
        IF q = poc
        THEN [tid |-> 0, referenced |-> TRUE, reconstructed |-> FALSE,
              nal |-> "TRAIL", irapPoc |-> 0]
        ELSE list[q]]

\* POC 0 is coded alone, then whole GOPs, and what is left at the end.
ReceivePictures ==
  /\ enc.status = "receiving" /\ cfg.valid
  /\ enc.pocLast < cfg.frames - 1
  /\ LET n == IF enc.pocLast = -1 THEN 1
              ELSE Min({GopSize, cfg.frames - 1 - enc.pocLast})
     IN /\ encList' = FoldLeft(WithInput, encList, [i \in 1..n |-> enc.pocLast + i])
        /\ enc' = [enc EXCEPT !.pocLast = @ + n, !.received = n,
                              !.picIdInGOP = 0, !.status = "coding"]
  /\ UNCHANGED <<cfg, au>>

-----------------------------------------------------------------------------
(* NAL unit types and decoding refresh.                                     *)

Irap == {"IDR_N_LP", "IDR_W_RADL", "CRA"}
Idr == {"IDR_N_LP", "IDR_W_RADL"}
Leading == {"RASL", "RADL"}

\* getNalUnitType; lastIDR is the POC of the last IDR picture.
NalUnitType(poc, lastIDR) ==
  CASE poc = 0 -> "IDR_N_LP"
    [] poc # 0 /\ cfg.refresh = 1 /\ poc % cfg.period = 0 -> "CRA"
    [] poc # 0 /\ cfg.refresh = 2 /\ poc % cfg.period = 0 ->
         IF cfg.reorder > 0 THEN "IDR_W_RADL" ELSE "IDR_N_LP"
    [] OTHER -> IF enc.pocCRA > 0 /\ poc < enc.pocCRA THEN "RASL"
                ELSE IF lastIDR > 0 /\ poc < lastIDR THEN "RADL" ELSE "TRAIL"

\* The slice type of initEncSlice, and the GOP row's where it is not I.
SliceType(poc, row) ==
  IF enc.pocLast = 0 \/ poc = 0 \/ (cfg.period > 0 /\ poc % cfg.period = 0)
  THEN "I" ELSE row.type

Unmarked(list, kept) ==
  [q \in DOMAIN list |-> [list[q] EXCEPT !.referenced = @ /\ q \in kept]]

RefreshPendingMutant(poc, nal, lastIDR, irapType) == FALSE   \* never refreshed

\* decodingRefreshMarking: the first picture that follows an IRAP picture in
\* output order frees what was kept for the leading pictures.  m_pocCRA is read
\* before the current picture changes it.
RefreshPending(poc, nal, lastIDR, irapType) ==
  /\ nal \notin Idr /\ enc.refreshPending
  /\ poc > (IF irapType \in Idr THEN lastIDR ELSE enc.pocCRA)

Refreshed(list, poc, nal, lastIDR, irapType) ==
  IF nal \in Idr THEN Unmarked(list, {poc})
  ELSE IF RefreshPending(poc, nal, lastIDR, irapType)
  THEN Unmarked(list, {poc, IF irapType \in Idr THEN lastIDR ELSE enc.pocCRA})
  ELSE list

-----------------------------------------------------------------------------
(* Reference picture lists.                                                 *)

\* selectReferencePictureList without low delay: an extra entry whose POC is
\* the picture's POC in the intra period replaces the GOP's own; after a match
\* the loop passes over the next entry, and the last match counts.
PocInPeriod(poc) ==
  LET first(l) == cfg.rpl[2].lists[l].delta[1]
      period == IF cfg.period > 0 THEN cfg.period
                ELSE IF first(1) * first(2) < 0 THEN 2 * GopSize ELSE 0
  IN IF period = 0 THEN 0 ELSE IF poc % period = 0 THEN period ELSE poc % period

ExtraEntry(poc, gopId) ==
  LET Try(found, k) ==
        IF found.skip THEN [found EXCEPT !.skip = FALSE]
        ELSE IF cfg.rpl[k].poc = PocInPeriod(poc) THEN [idx |-> k, skip |-> TRUE]
        ELSE found
  IN FoldLeft(Try, [idx |-> gopId, skip |-> FALSE],
              [i \in 1..(Len(cfg.rpl) - GopSize) |-> GopSize + i]).idx

\* With low delay the entry follows from the distance to the last IDR picture:
\* the extra entries come in coding order.
LowDelayEntry(poc, gopId, lastIDR) ==
  LET since == poc - lastIDR
  IN IF since < 2 * GopSize + 2
     THEN IF since + GopSize > Len(cfg.rpl) THEN gopId ELSE since + GopSize
     ELSE IF poc % GopSize = 0 THEN GopSize ELSE poc % GopSize

SelectedLists(poc, gopId, lastIDR) ==
  cfg.rpl[IF cfg.lowDelay THEN LowDelayEntry(poc, gopId, lastIDR)
          ELSE ExtraEntry(poc, gopId)].lists

Available(list, poc) == poc \in DOMAIN list /\ list[poc].referenced

\* checkThatAllRefPicsAreAvailable returns the POC of the first entry without
\* a reference picture, so that POC 0 passes for "all are available".
ReportsMissing(list, poc, rpl) ==
  LET missing == SelectSeq(rpl.delta, LAMBDA d : ~Available(list, poc - d))
  IN missing # << >> /\ poc - missing[1] # 0

\* xCreateExplicitReferencePictureSetFromReference: the available entries, then
\* entries of the other list as far as active ones are missing, then (inactive)
\* those of a higher temporal layer.  An IRAP picture keeps none.
ExplicitLists(list, poc, nal, rpl) ==
  LET Entries(l) == IF nal \in Irap THEN << >>
                    ELSE SelectSeq(rpl[l].delta, LAMBDA d : Available(list, poc - d))
      Higher(d) == list[poc - d].tid > list[poc].tid
      Own(l) == SelectSeq(Entries(l), LAMBDA d : ~Higher(d))
      Filled(l) ==
        LET Add(entries, d) ==
              IF /\ Len(entries) < rpl[l].active
                 /\ \A e \in ToSet(entries) :
                      e # d /\ (cfg.sameSign => ((-e >= 0) <=> (-d >= 0)))
              THEN Append(entries, d) ELSE entries
        IN FoldLeft(Add, Own(l), Own(3 - l))
  IN [l \in 1..2 |-> [delta |-> Filled(l) \o SelectSeq(Entries(l), Higher),
                      active |-> Min({Len(Filled(l)), rpl[l].active})]]

ListsUsed(list, poc, nal, rpl) ==
  IF nal \notin Idr /\ \E l \in 1..2 : ReportsMissing(list, poc, rpl[l])
  THEN ExplicitLists(list, poc, nal, rpl) ELSE rpl

MarkingMutant(list, poc, nal, rpl) ==                 \* list 1 forgotten
  IF nal \in Idr THEN list ELSE Unmarked(list, RefPocs(rpl[1], poc) \cup {poc})

\* applyReferencePictureListBasedMarking: what no entry names is freed.
Marking(list, poc, nal, rpl) ==
  IF nal \in Idr THEN list ELSE Unmarked(list, References(rpl, poc) \cup {poc})

\* The conditions of checkLeadingPictureRestrictions on a picture whose
\* associated IRAP picture has POC irapPoc and type irapType, when pics are the
\* reconstructed pictures of the list.  Encoder and decoder both check them.
LeadingRestrictions(poc, nal, irapPoc, irapType, pics) ==
  /\ nal \notin Irap => ((irapPoc > poc) <=> (nal \in Leading))
  /\ nal = "RASL" => irapType \notin Idr
  /\ nal = "RADL" => irapType # "IDR_N_LP"
  /\ \A p \in pics :
       p.poc # poc =>
         /\ nal \in Irap => p.poc < poc
         /\ nal = "RADL" /\ irapPoc > p.irapPoc /\ irapPoc # p.poc => p.poc < poc
         /\ nal \in Leading /\ p.nal \notin Leading /\ p.irapPoc = irapPoc => p.poc <= irapPoc
         /\ nal = "RASL" /\ irapType = "CRA" =>
              /\ p.irapPoc = irapPoc /\ p.nal = "RADL" => p.poc > poc
              /\ p.poc < irapPoc /\ p.nal \in Irap => poc > p.poc

\* Whether a trailing picture becomes a stepwise temporal sub-layer access
\* picture: no other picture of its layer or a higher one is a reference, and
\* no entry of its layer's rows, taken from this picture's POC, is the POC in
\* the GOP of a row on such a layer.
IsStsa(list, poc, tid, nal, rpl) ==
  LET Id(l, i, j) == IF j <= Len(cfg.rpl[i].lists[l].delta) THEN -cfg.rpl[i].lists[l].delta[j] ELSE 0
  IN /\ tid > 0 /\ nal \notin Leading
     /\ \A q \in DOMAIN list : list[q].referenced /\ q # poc => list[q].tid < tid
     /\ \A i \in Ids(cfg.gop, tid) : \A l \in 1..2 : \A j \in 1..rpl[l].active :
          \A k \in 1..GopSize : cfg.gop[k].poc = poc + Id(l, i, j) => cfg.gop[k].tid < tid

-----------------------------------------------------------------------------
(* Coding a picture (EncGOP::compressGOP, EncLib::encode).                  *)

\* The GOP is finished after its last row, and after POC 0.
Advanced(e) ==
  IF e.picIdInGOP + 1 = GopSize \/ e.pocLast = 0
  THEN [e EXCEPT !.received = 0, !.status = "receiving"]
  ELSE [e EXCEPT !.picIdInGOP = @ + 1]

CurrentRow == cfg.gop[enc.picIdInGOP + 1]
CurrentPoc == IF enc.pocLast = 0 THEN 0 ELSE enc.pocLast - enc.received + CurrentRow.poc

\* The rows of a partial GOP that lie beyond the last frame.
PassOverRow ==
  /\ enc.status = "coding" /\ au = NoUnit
  /\ CurrentPoc >= cfg.frames
  /\ enc' = Advanced(enc)
  /\ UNCHANGED <<cfg, encList, au>>

\* A picture whose lists constructRefPicList cannot resolve, or that breaks the
\* restrictions on leading pictures, ends the process.
EncodePicture ==
  LET row  == CurrentRow
      poc  == CurrentPoc
      nal  == NalUnitType(poc, enc.lastIDR)
      lastIDR == IF nal \in Idr THEN poc ELSE enc.lastIDR
      slice == SliceType(poc, row)
      irapPoc  == IF nal \in Irap THEN poc ELSE enc.irapPoc
      irapType == IF nal \in Irap THEN nal ELSE enc.irapType
      begun == [encList EXCEPT ![poc] = [@ EXCEPT !.tid = IF slice = "I" THEN 0 ELSE row.tid,
                                                  !.referenced = TRUE, !.irapPoc = irapPoc]]
      fresh == Refreshed(begun, poc, nal, lastIDR, irapType)
      rpl   == ListsUsed(fresh, poc, nal, SelectedLists(poc, enc.picIdInGOP + 1, lastIDR))
      refs  == References(rpl, poc)
      marked == Marking(fresh, poc, nal, rpl)
      type  == IF nal = "TRAIL" /\ IsStsa(marked, poc, row.tid, nal, rpl) THEN "STSA" ELSE nal
      numRefIdx == [l \in 1..2 |-> IF slice = "I" \/ (l = 2 /\ slice # "B") THEN 0
                                   ELSE rpl[l].active]
      coded == {q \in DOMAIN fresh : fresh[q].reconstructed}
      fails == \/ slice # "I" /\ ~(refs \subseteq DOMAIN encList)
               \/ ~LeadingRestrictions(poc, nal, irapPoc, irapType,
                     {[poc |-> q, nal |-> fresh[q].nal, irapPoc |-> fresh[q].irapPoc] : q \in coded})
  IN /\ enc.status = "coding" /\ au = NoUnit
     /\ poc < cfg.frames
     /\ encList' = [marked EXCEPT ![poc].nal = type, ![poc].reconstructed = TRUE]
     /\ enc' = [Advanced(enc) EXCEPT
                  !.lastIDR = lastIDR, !.irapPoc = irapPoc, !.irapType = irapType,
                  !.pocCRA = IF nal = "CRA" THEN poc ELSE @,
                  !.refreshPending = nal \in Irap \/ (@ /\ ~RefreshPending(poc, nal, lastIDR, irapType)),
                  !.status = IF fails THEN "aborted" ELSE @]
     /\ au' = [nal |-> type, tid |-> row.tid, poc |-> poc, slice |-> slice, lastIDR |-> lastIDR,
               refs |-> IF nal \in Idr THEN {} ELSE refs,
               active |-> UNION {{poc - rpl[l].delta[j] : j \in 1..numRefIdx[l]} : l \in 1..2},
               numRefIdx |-> numRefIdx,
               marked |-> {q \in DOMAIN marked : marked[q].referenced}]
     /\ UNCHANGED cfg

EncNext == ReceivePictures \/ PassOverRow \/ EncodePicture
=============================================================================
