----------------------------- MODULE SliceData -----------------------------
(***************************************************************************)
(* The CTU loops of encoder and decoder over the slices of a picture       *)
(* (EncSlice::encodeSlice and DecSlice::decompressSlice): when entropy     *)
(* contexts and the QP predictor start anew, what a wavefront row takes    *)
(* over from the row above, how the slice data is divided into substreams, *)
(* and what the entry points of the slice header say about them.  The two  *)
(* loops are written differently and have to agree CTU by CTU.             *)
(*                                                                         *)
(* Contexts are the history since they were initialised: <<"coded", ctu>>  *)
(* for a CTU coded with them, <<"above", ctu>> for an update from the bins *)
(* of a CTU, kept in a buffer for its column.  A substream is the sequence *)
(* of its CTUs and has one byte for each.  A CTU is one quantisation group *)
(* with a QP of its own, coded as the difference to the predicted one; so  *)
(* QPs tell which CTU a prediction came from.                              *)
(*                                                                         *)
(* The module has no specification of its own: PictureCoding starts it     *)
(* with the slice maps that PartitionCoding makes.                         *)
(***************************************************************************)
EXTENDS PicturePartition

SliceQp == 0
QpOf(c) == c + 1
None == -1

VARIABLES
  layout,   \* the picture (pic) and its slice map (map)
  sps,      \* wpp and entryPointPresent
  phase,    \* "none", "encode", "decode", "done", or "error" after a misread
  slice,    \* the number of the slice in hand
  idx,      \* the number of its next CTU
  enc,      \* ctx, sync, bins, prevQp, subs, numSubstream, sizes
  dec,      \* ctx, sync, bins, prevQp, subs, sub
  coded,    \* history: the contexts and the QP with which the encoder coded a CTU
  decoded   \* history: the same of the decoder

vars == <<layout, sps, phase, slice, idx, enc, dec, coded, decoded>>

-----------------------------------------------------------------------------
pic == layout.pic
Ctus == 0..(pic.width * pic.height - 1)
ctus == layout.map[slice]
ctu == ctus[idx]
SliceIdx(c) == CHOOSE s \in DOMAIN layout.map : \E i \in DOMAIN layout.map[s] : layout.map[s][i] = c

\* getCURestricted for the CTU above, and the condition of predictQP: in the
\* picture, of the same slice and tile.
AboveInSliceAndTile ==
  /\ CtuY(pic, ctu) > 0
  /\ SliceIdx(ctu - pic.width) = slice
  /\ TileIdx(pic, ctu - pic.width) = TileIdx(pic, ctu)

FirstCtuOfTile == CtuIsTileColBd(pic, ctu) /\ CtuIsTileRowBd(pic, ctu)

PredictQpMutant(qp, prevQp) == prevQp                 \* never from above

\* predictQP for the first CU of a CTU; qp holds the QPs of this side.
PredictQp(qp, prevQp) ==
  IF CtuIsTileColBd(pic, ctu) /\ AboveInSliceAndTile THEN qp[ctu - pic.width] ELSE prevQp

\* updateCtxs with the bins of the column's buffer, except in the first row.
UpdateCtxs(ctx, bins) ==
  IF CtuY(pic, ctu) > 0 THEN Append(ctx, <<"above", bins[CtuX(pic, ctu)]>>) ELSE ctx

SyncStoreMutant(sync, ctx) ==                         \* after every CTU
  IF sps.wpp THEN ctx ELSE sync

\* The contexts kept for the next row: those after the first CTU of a tile's row.
SyncStore(sync, ctx) ==
  IF sps.wpp /\ CtuIsTileColBd(pic, ctu) THEN ctx ELSE sync

-----------------------------------------------------------------------------
(* Entry points.                                                            *)

\* setNumSubstream.
NumSubstreams ==
  Cardinality({i \in 2..Len(ctus) :
    CtuIsTileColBd(pic, ctus[i]) /\ (CtuIsTileRowBd(pic, ctus[i]) \/ sps.wpp)})

NumEntryPointsMutant ==                               \* rows of tiles not counted
  IF ~sps.entryPointPresent THEN 0
  ELSE Cardinality({i \in 2..Len(ctus) : sps.wpp /\ CtuY(pic, ctus[i]) # CtuY(pic, ctus[i - 1])})

\* setNumEntryPoints.
NumEntryPoints ==
  LET col(c) == CtuToTileCol(pic, CtuX(pic, c))
      row(c) == CtuToTileRow(pic, CtuY(pic, c))
  IN IF ~sps.entryPointPresent THEN 0
     ELSE Cardinality({i \in 2..Len(ctus) :
            \/ row(ctus[i]) # row(ctus[i - 1])
            \/ col(ctus[i]) # col(ctus[i - 1])
            \/ sps.wpp /\ CtuY(pic, ctus[i]) # CtuY(pic, ctus[i - 1])})

\* The substreams the encoder allocates for every slice.
Allocated ==
  LET rows == IF sps.wpp THEN pic.height ELSE NumTileRows(pic)
      n == rows * NumTileCols(pic)
  IN IF n > Len(layout.map) THEN n ELSE Len(layout.map)

\* extractSubstream for each entry point, and the rest.
Substreams(data, sizes) ==
  LET start == Boundaries(sizes)
  IN Append([i \in DOMAIN sizes |-> SubSeq(data, start[i] + 1, start[i + 1])],
            SubSeq(data, start[Len(sizes) + 1] + 1, Len(data)))

-----------------------------------------------------------------------------
(* Encoder.                                                                 *)

EncStartMutant ==                                     \* goes on in the next tile
  IF sps.wpp /\ CtuIsTileColBd(pic, ctu) /\ AboveInSliceAndTile THEN enc.sync
  ELSE enc.ctx

\* The contexts with which the encoder begins a CTU.
EncStart ==
  IF FirstCtuOfTile THEN IF idx # 1 THEN << >> ELSE enc.ctx
  ELSE IF sps.wpp /\ CtuIsTileColBd(pic, ctu)
       THEN IF AboveInSliceAndTile THEN enc.sync ELSE IF idx # 1 THEN << >> ELSE enc.ctx
  ELSE enc.ctx

\* The CTU ends a substream: the last one of the slice, of a tile or, with
\* wavefronts, of a tile's row.
LastInSubstream ==
  idx < Len(ctus) =>
    \/ TileIdx(pic, ctus[idx + 1]) # TileIdx(pic, ctu)
    \/ sps.wpp /\ CtuIsTileColBd(pic, ctus[idx + 1])

\* One iteration of encodeSlice.
EncodeCtu ==
  /\ phase = "encode" /\ idx <= Len(ctus)
  /\ LET before == UpdateCtxs(EncStart, enc.bins)
         after == Append(before, <<"coded", ctu>>)
         delta == QpOf(ctu) - PredictQp([c \in Ctus |-> coded[c].qp], enc.prevQp)
         n == Len(enc.subs)
         subs == [enc.subs EXCEPT ![n] = Append(@, [ctu |-> ctu, delta |-> delta])]
         ends == LastInSubstream /\ idx < Len(ctus)
     IN /\ enc' = [ctx |-> after, sync |-> SyncStore(enc.sync, after),
                   bins |-> [enc.bins EXCEPT ![CtuX(pic, ctu)] = ctu],
                   prevQp |-> QpOf(ctu),
                   subs |-> IF ends THEN Append(subs, << >>) ELSE subs,
                   numSubstream |-> enc.numSubstream + (IF ends THEN 1 ELSE 0),
                   sizes |-> IF ends /\ sps.entryPointPresent
                             THEN Append(enc.sizes, Len(subs[n])) ELSE enc.sizes]
        /\ coded' = [coded EXCEPT ![ctu] = [ctx |-> before, qp |-> QpOf(ctu)]]
  /\ idx' = idx + 1
  /\ UNCHANGED <<layout, sps, phase, slice, dec, decoded>>

\* The slice header with its entry points and the substreams, one after the
\* other; the start of decompressSlice.
WriteSlice ==
  /\ phase = "encode" /\ idx > Len(ctus)
  /\ dec' = [dec EXCEPT !.ctx = << >>, !.prevQp = SliceQp, !.sub = 1,
       !.subs = Substreams(FlattenSeq(SubSeq(enc.subs, 1, enc.numSubstream + 1)),
                           SubSeq(enc.sizes, 1, Minimum(NumEntryPoints, Len(enc.sizes))))]
  /\ phase' = "decode" /\ idx' = 1
  /\ UNCHANGED <<layout, sps, slice, enc, coded, decoded>>

-----------------------------------------------------------------------------
(* Decoder.                                                                 *)

\* The contexts with which the decoder begins a CTU.
DecStart ==
  IF FirstCtuOfTile \/ (sps.wpp /\ CtuIsTileColBd(pic, ctu))
  THEN IF ~FirstCtuOfTile /\ AboveInSliceAndTile THEN dec.sync
       ELSE IF idx # 1 THEN << >> ELSE dec.ctx
  ELSE dec.ctx

\* The QP predictor starts anew in each tile and wavefront row.
DecPrevQp ==
  IF FirstCtuOfTile \/ (sps.wpp /\ CtuIsTileColBd(pic, ctu)) THEN SliceQp ELSE dec.prevQp

\* The decoder expects a terminating bit after the CTU, and perhaps another
\* substream.
EndsSubstream ==
  LET x == CtuToTileCol(pic, CtuX(pic, ctu))
      y == CtuToTileRow(pic, CtuY(pic, ctu))
  IN /\ CtuX(pic, ctu) + 1 = TileColumnBd(pic, x + 1)
     /\ CtuY(pic, ctu) + 1 = TileRowBd(pic, y + 1) \/ sps.wpp

NothingLeft == [ctu |-> None, delta |-> 0]

\* The next CTU of the substream in hand, if there is one.
NextItem ==
  IF dec.sub \in DOMAIN dec.subs /\ dec.subs[dec.sub] # << >> THEN Head(dec.subs[dec.sub])
  ELSE NothingLeft

\* One iteration of decompressSlice; an error where it reads anything but the
\* data of the CTU.
DecodeCtu ==
  /\ phase = "decode" /\ idx <= Len(ctus)
  /\ LET before == UpdateCtxs(DecStart, dec.bins)
         after == Append(before, <<"coded", ctu>>)
         qp == PredictQp([c \in Ctus |-> decoded[c].qp], DecPrevQp) + NextItem.delta
         next == idx < Len(ctus) /\ EndsSubstream /\ sps.entryPointPresent
     IN /\ dec' = [ctx |-> after, sync |-> SyncStore(dec.sync, after),
                   bins |-> [dec.bins EXCEPT ![CtuX(pic, ctu)] = ctu],
                   prevQp |-> qp,
                   subs |-> IF NextItem = NothingLeft THEN dec.subs
                            ELSE [dec.subs EXCEPT ![dec.sub] = Tail(@)],
                   sub |-> dec.sub + (IF next THEN 1 ELSE 0)]
        /\ decoded' = [decoded EXCEPT ![ctu] = [ctx |-> before, qp |-> qp]]
        /\ phase' = IF NextItem.ctu = ctu THEN phase ELSE "error"
  /\ idx' = idx + 1
  /\ UNCHANGED <<layout, sps, slice, enc, coded>>

StartSlice(n) ==
  /\ slice' = n /\ idx' = 1
  /\ enc' = [enc EXCEPT !.ctx = << >>, !.prevQp = SliceQp,
                        !.subs = << << >> >>, !.numSubstream = 0, !.sizes = << >>]

NextSlice ==
  /\ phase = "decode" /\ idx > Len(ctus)
  /\ IF slice < Len(layout.map)
     THEN phase' = "encode" /\ StartSlice(slice + 1)
     ELSE phase' = "done" /\ UNCHANGED <<slice, idx, enc>>
  /\ UNCHANGED <<layout, sps, dec, coded, decoded>>

-----------------------------------------------------------------------------
(* Pictures.                                                                *)

Init ==
  /\ phase = "none" /\ slice = 1 /\ idx = 1
  /\ layout = << >> /\ sps = << >> /\ coded = << >> /\ decoded = << >>
  /\ enc = << >> /\ dec = << >>

\* Encoder and decoder are set up for a picture with layout l.
StartPicture(l) ==
  LET columns == [x \in 0..(l.pic.width - 1) |-> None]
      none == [c \in 0..(l.pic.width * l.pic.height - 1) |-> [ctx |-> << >>, qp |-> None]]
  IN /\ phase = "none"
     /\ phase' = "encode" /\ slice' = 1 /\ idx' = 1 /\ layout' = l
     /\ sps' \in [wpp : BOOLEAN, entryPointPresent : BOOLEAN]
     /\ enc' = [ctx |-> << >>, sync |-> << >>, bins |-> columns, prevQp |-> SliceQp,
                subs |-> << << >> >>, numSubstream |-> 0, sizes |-> << >>]
     /\ dec' = [ctx |-> << >>, sync |-> << >>, bins |-> columns, prevQp |-> SliceQp,
                subs |-> << >>, sub |-> 1]
     /\ coded' = none /\ decoded' = none

-----------------------------------------------------------------------------
(* Properties.                                                              *)

CtxElements == {"coded", "above"} \X Ctus
History == [Ctus -> [ctx : Seq(CtxElements), qp : Int]]

\* The variables hold values of their types, and the encoder never needs more
\* substreams than it has allocated.
TypeOK ==
  /\ phase \in {"none", "encode", "decode", "done", "error"}
  /\ phase # "none" =>
       /\ slice \in DOMAIN layout.map /\ idx \in 1..(Len(ctus) + 1)
       /\ coded \in History /\ decoded \in History
       /\ dec.sub \in Nat /\ enc.numSubstream \in Nat
       /\ enc.sizes \in Seq(Nat \ {0})
       /\ Len(enc.subs) <= Allocated

Decoded == {c \in DOMAIN decoded : decoded[c].qp # None}

\* The decoder begins every CTU with the contexts with which the encoder began
\* it, at every start of a slice, a tile and a wavefront row.
ContextsAgree == \A c \in Decoded : decoded[c].ctx = coded[c].ctx

InSameSliceAndTile(c, d) == SliceIdx(c) = SliceIdx(d) /\ TileIdx(pic, c) = TileIdx(pic, d)

\* A wavefront row starts from the contexts after the first CTU of the row above,
\* if it is in the same slice and tile, and not from those of another tile or
\* slice which the kept state may hold; and every CTU below the first row is
\* updated with the bins of the CTU directly above it, in whatever slice.
StartsFromAbove ==
  \A c \in {d \in DOMAIN coded : coded[d].qp # None /\ CtuY(pic, d) > 0} :
    LET up == c - pic.width
        ctx == coded[c].ctx
    IN /\ ctx[Len(ctx)] = <<"above", up>>
       /\ sps.wpp /\ CtuIsTileColBd(pic, c) =>
            Front(ctx) = IF InSameSliceAndTile(c, up) THEN Append(coded[up].ctx, <<"coded", up>>) ELSE << >>

\* No CTU is decoded from the data of another one, and the data of a slice has
\* been used up when its last CTU is decoded.
ReadsOwnData ==
  /\ phase # "error"
  /\ phase = "decode" /\ idx > Len(ctus) =>
       \A i \in DOMAIN dec.subs : dec.subs[i] = << >>

\* When a slice is written there is a size for each of the entry points that the
\* reader will count, and the encoder's two counts of substreams agree.
EntryPointsCounted ==
  phase = "decode" =>
    /\ Len(enc.sizes) = NumEntryPoints
    /\ enc.numSubstream = NumSubstreams

\* Encoder and decoder agree on where the data of each substream is.
SubstreamsFit == ReadsOwnData /\ EntryPointsCounted

\* Every CTU is decoded with the QP with which it was encoded.
QpsAgree == \A c \in Decoded : decoded[c].qp = coded[c].qp

\* So is every CTU of a slice that stays in one tile, where only slices and
\* wavefront rows start the prediction anew.
QpsAgreeInOneTile ==
  \A c \in Decoded :
    (\A d \in ToSet(layout.map[SliceIdx(c)]) : TileIdx(pic, d) = TileIdx(pic, c))
      => decoded[c].qp = coded[c].qp
=============================================================================
