--------------------------- MODULE PictureCoding ---------------------------
(***************************************************************************)
(* A picture from its configuration to its decoded CTUs: PartitionCoding   *)
(* makes the tiles and the slice maps of encoder and decoder, SliceData    *)
(* codes the CTUs of the slices.  The encoder's CTU loop and the decoder's *)
(* run over the same map once the two maps are known to be equal.          *)
(***************************************************************************)
EXTENDS PartitionCoding

VARIABLES
  layout, sps, phase, slice, idx,   \* as in SliceData
  coder, decoder,                   \* enc and dec of SliceData
  coded, decoded

dataVars == <<layout, sps, phase, slice, idx, coder, decoder, coded, decoded>>

Data == INSTANCE SliceData WITH enc <- coder, dec <- decoder

\* The picture is coded with its slice map.  What led to the map is forgotten, so
\* that configurations with the same map are one from here on.
Begin ==
  /\ stage = "done" /\ dec.map = enc.map
  /\ stage' = "coding"
  /\ Data!StartPicture([pic |-> pic, map |-> dec.map])
  /\ slices' = << >> /\ syntax' = << >> /\ at' = 1 /\ config' = << >>
  /\ enc' = [rects |-> << >>, tileIdxDeltaPresent |-> FALSE, map |-> << >>]
  /\ dec' = [rects |-> << >>, tileIdx |-> 0, pos |-> 1, map |-> << >>]
  /\ UNCHANGED pic

Partition == Next /\ UNCHANGED dataVars

EncodeCtu == Data!EncodeCtu /\ UNCHANGED vars
WriteSliceData == Data!WriteSlice /\ UNCHANGED vars
DecodeCtu == Data!DecodeCtu /\ UNCHANGED vars
NextSlice == Data!NextSlice /\ UNCHANGED vars

PictureInit == Init /\ Data!Init

PictureNext == Partition \/ Begin \/ EncodeCtu \/ WriteSliceData \/ DecodeCtu \/ NextSlice

PictureSpec == PictureInit /\ [][PictureNext]_<<vars, dataVars>>

-----------------------------------------------------------------------------
(* Properties.                                                              *)

\* The variables of both parts hold values of their types, with the bounds that
\* PartitionCoding and SliceData state in TypeOK: the reader stays within the
\* picture, the encoder within the substreams it has allocated.
PictureTypeOK == TypeOK /\ Data!TypeOK

\* The decoder begins every CTU with the contexts with which the encoder began
\* it, at every start of a slice, a tile and a wavefront row.
ContextsAgree == Data!ContextsAgree

\* A wavefront row starts from the contexts after the first CTU of the row above,
\* if that CTU is in the same slice and tile, and from initial ones otherwise.
StartsFromAbove == Data!StartsFromAbove

\* No CTU is decoded from the data of another one, none of the data of a slice is
\* left, and there is a size for each of the entry points that the reader will
\* count, where the encoder counts substreams twice, by rules of its own.
SubstreamsFit == Data!SubstreamsFit

\* Every CTU of a slice that stays in one tile is decoded with its QP.
QpsAgreeInOneTile == Data!QpsAgreeInOneTile

\* Every CTU is decoded with its QP.
QpsAgree == Data!QpsAgree
=============================================================================
