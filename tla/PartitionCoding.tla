-------------------------- MODULE PartitionCoding --------------------------
(***************************************************************************)
(* From the slices of an encoder configuration to the slice maps of        *)
(* encoder and decoder.  Rectangular slices: the encoder's application     *)
(* turns pairs of CTU addresses into slice parameters (EncAppCfg), the     *)
(* writer of picture parameter sets leaves out of the parameters what the  *)
(* reader can infer, and both ends build their slice map                   *)
(* (PicturePartition) from the parameters they have.  Raster-scan slices:  *)
(* the configuration has their sizes, and each slice header says which     *)
(* tiles its slice holds.  Syntax elements are numbers in a sequence.      *)
(***************************************************************************)
EXTENDS PicturePartition, FiniteSets, FiniteSetsExt

CONSTANTS
  Sizes,      \* pictures: records of width and height in CTUs
  TileLists,  \* configured lists of tile column widths and row heights
  RasterLists,  \* configured lists of sizes of raster-scan slices, in tiles
  MaxSlices   \* bound: slices of a picture

ASSUME SizesAssumption ==
  \A s \in Sizes : s.width \in Nat \ {0} /\ s.height \in Nat \ {0}
ASSUME TileListsAssumption ==
  TileLists \subseteq Seq(Nat \ {0}) \ {<< >>}
ASSUME RasterListsAssumption ==
  RasterLists \subseteq Seq(Nat \ {0}) \ {<< >>}
ASSUME MaxSlicesAssumption == MaxSlices \in Nat \ {0}

VARIABLES
  stage,    \* "slices", "write", "read", "headers" or "done", "error" after a
            \* CHECK, "coding" when the maps have been taken over
  config,   \* the configured tile lists
  pic,      \* the encoder's picture
  slices,   \* the configured slices: records of the first and the last CTU
  enc,      \* the encoder's parameters, rects and tileIdxDeltaPresent, and map
  syntax,   \* the syntax elements written
  at,       \* the slice the writer or the reader has come to
  dec       \* the reader's state: rects, tileIdx, position in the syntax, map

vars == <<stage, config, pic, slices, enc, syntax, at, dec>>

-----------------------------------------------------------------------------
(* Tiles of the configuration.                                              *)

\* Sizes at the end of the list that repeat the one before are implicit.
Trimmed(list) ==
  LET n == Min({k \in 1..Len(list) : \A j \in k..(Len(list) - 1) : list[j] = list[j + 1]})
  IN SubSeq(list, 1, n)

\* Sizes are cut off where the picture ends.
Clipped(list, size) ==
  LET bd == Boundaries(list)
      n == Cardinality({i \in DOMAIN list : bd[i] < size})
  IN [i \in 1..n |-> Minimum(list[i], size - bd[i])]

Explicit(list, size) == Clipped(Trimmed(list), size)

-----------------------------------------------------------------------------
(* Slices of the configuration: every CTU to the left of a slice and above  *)
(* it is in an earlier slice, as the decoding order demands.                *)

SliceOf(startX, stopX, startY, stopY) ==
  [first |-> startY * pic.width + startX, last |-> (stopY - 1) * pic.width + stopX - 1]

CtusIn(s) ==
  {y * pic.width + x : x \in CtuX(pic, s.first)..CtuX(pic, s.last),
                       y \in CtuY(pic, s.first)..CtuY(pic, s.last)}

Covered == UNION {CtusIn(slices[i]) : i \in DOMAIN slices}

Available(s) ==
  /\ Covered \cap CtusIn(s) = {}
  /\ \A c \in CtusIn(s) :
       /\ CtuX(pic, c) > 0 => c - 1 \in Covered \cup CtusIn(s)
       /\ CtuY(pic, c) > 0 => c - pic.width \in Covered \cup CtusIn(s)

\* A slice of whole tiles.
AddTiles ==
  \E x \in 0..(NumTileCols(pic) - 1), y \in 0..(NumTileRows(pic) - 1) :
  \E x2 \in (x + 1)..NumTileCols(pic), y2 \in (y + 1)..NumTileRows(pic) :
    LET s == SliceOf(TileColumnBd(pic, x), TileColumnBd(pic, x2),
                     TileRowBd(pic, y), TileRowBd(pic, y2))
    IN /\ stage = "slices" /\ Len(slices) < MaxSlices /\ Available(s)
       /\ slices' = Append(slices, s)
       /\ UNCHANGED <<stage, config, pic, enc, syntax, at, dec>>

\* A tile of several slices, with the given heights.
SplitTile ==
  \E x \in 0..(NumTileCols(pic) - 1), y \in 0..(NumTileRows(pic) - 1) :
  \E heights \in SeqOf(1..pic.rows[y + 1], pic.rows[y + 1]) :
    LET n == Len(heights)
        bd == [k \in 1..(n + 1) |-> TileRowBd(pic, y) + Boundaries(heights)[k]]
        strips == [k \in 1..n |->
                     SliceOf(TileColumnBd(pic, x), TileColumnBd(pic, x + 1), bd[k], bd[k + 1])]
    IN /\ n > 1 /\ bd[n + 1] = TileRowBd(pic, y + 1)
       /\ stage = "slices" /\ Len(slices) + n <= MaxSlices
       /\ Available([first |-> strips[1].first, last |-> strips[n].last])
       /\ slices' = slices \o strips
       /\ UNCHANGED <<stage, config, pic, enc, syntax, at, dec>>

NextTileIdxMutant(r) ==                               \* a row of tiles too far
  LET t == r.tileIdx + r.width
  IN IF t % NumTileCols(pic) = 0 THEN t + r.height * NumTileCols(pic) ELSE t

\* The index of the tile that follows slice r unless it is written.
NextTileIdx(r) ==
  LET t == r.tileIdx + r.width
  IN IF t % NumTileCols(pic) = 0 THEN t + (r.height - 1) * NumTileCols(pic) ELSE t

\* The parameters of the configured slices; those of one tile are counted at
\* the first of them.
Configured ==
  LET n == Len(slices)
      startCol(i) == CtuToTileCol(pic, CtuX(pic, slices[i].first))
      startRow(i) == CtuToTileRow(pic, CtuY(pic, slices[i].first))
      width(i) == CtuToTileCol(pic, CtuX(pic, slices[i].last)) - startCol(i) + 1
      height(i) == CtuToTileRow(pic, CtuY(pic, slices[i].last)) - startRow(i) + 1
      tile(i) == startRow(i) * NumTileCols(pic) + startCol(i)
      inTile(i) == width(i) = 1 /\ height(i) = 1
      sameTile(i) == i > 1 /\ inTile(i) /\ inTile(i - 1) /\ tile(i) = tile(i - 1)
      count(i) == Max({j \in 1..(n - i + 1) : \A k \in 1..(j - 1) : sameTile(i + k)})
      rects == [i \in 1..n |->
        [tileIdx |-> tile(i), width |-> width(i), height |-> height(i),
         slicesInTile |-> IF inTile(i) /\ ~sameTile(i) THEN count(i) ELSE 0,
         ctuHeight |-> IF inTile(i)
                       THEN CtuY(pic, slices[i].last) - CtuY(pic, slices[i].first) + 1 ELSE 0]]
  IN [rects |-> rects,
      map |-> << >>,
      tileIdxDeltaPresent |->
        \E i \in 2..n : ~sameTile(i) /\ NextTileIdx(rects[i - 1]) # rects[i].tileIdx]

Configure ==
  /\ stage = "slices" /\ Cardinality(Covered) = pic.width * pic.height
  /\ enc' = [Configured EXCEPT !.map = RectSliceMap(pic, Configured.rects)]
  /\ stage' = IF IsRectSignalling(pic, Configured.rects) THEN "write" ELSE "error"
  /\ at' = 1
  /\ UNCHANGED <<config, pic, slices, syntax, dec>>

-----------------------------------------------------------------------------
(* Writing.                                                                 *)

If(condition, elements) == IF condition THEN elements ELSE << >>

HeightPresent(tileIdx, delta) ==
  /\ tileIdx \div NumTileCols(pic) # NumTileRows(pic) - 1
  /\ delta \/ tileIdx % NumTileCols(pic) = 0

RowHeight(tileIdx) == pic.rows[tileIdx \div NumTileCols(pic) + 1]

NumExpSlicesMutant(heights) ==                        \* a lower last slice dropped too late
  LET m == Len(heights)
  IN IF m = 1 THEN 0
     ELSE IF heights[m - 1] # heights[m] THEN m
     ELSE Min({k \in 1..(m - 1) : \A j \in k..(m - 1) : heights[j] >= heights[m - 1]})

\* How many slice heights of a tile have to be written: not the last one if it
\* is not higher than the one before, nor those equal to the one before them.
NumExpSlices(heights) ==
  LET m == Len(heights)
  IN IF m = 1 THEN 0
     ELSE IF heights[m - 1] < heights[m] THEN m
     ELSE Min({k \in 1..(m - 1) : \A j \in k..(m - 1) : heights[j] = heights[m - 1]})

\* One iteration of the writer's loop; the last slice is inferred.
WriteSlice ==
  LET n == Len(enc.rects)
      r == enc.rects[at]
      delta == enc.tileIdxDeltaPresent
      split == r.width = 1 /\ r.height = 1 /\ RowHeight(r.tileIdx) > 1
      heights == [j \in 1..r.slicesInTile |-> enc.rects[at + j - 1].ctuHeight]
      last == IF split THEN at + r.slicesInTile - 1 ELSE at
  IN /\ stage = "write" /\ at < n
     /\ syntax' = syntax
          \o If(r.tileIdx % NumTileCols(pic) # NumTileCols(pic) - 1, <<r.width - 1>>)
          \o If(HeightPresent(r.tileIdx, delta), <<r.height - 1>>)
          \o If(split, <<NumExpSlices(heights)>>
                       \o [j \in 1..NumExpSlices(heights) |-> heights[j] - 1])
          \o If(last < n /\ delta, <<enc.rects[last + 1].tileIdx - enc.rects[last].tileIdx>>)
     /\ at' = last + 1
     /\ UNCHANGED <<stage, config, pic, slices, enc, dec>>

WriteEnd ==
  /\ stage = "write" /\ at >= Len(enc.rects)
  /\ stage' = "read" /\ at' = 1
  /\ dec' = [rects |-> [i \in DOMAIN enc.rects |-> NoSlice], tileIdx |-> 0, pos |-> 1,
             map |-> << >>]
  /\ UNCHANGED <<config, pic, slices, enc, syntax>>

-----------------------------------------------------------------------------
(* Reading.                                                                 *)

\* What follows the partition in the parameter set reads as 0.
Element(k) == IF k \in DOMAIN syntax THEN syntax[k] ELSE 0

\* The heights of the slices of a tile: those read, then the last of them
\* again, then what remains.
ReadHeights(explicit, rowHeight) ==
  LET rest == rowHeight - Boundaries(explicit)[Len(explicit) + 1]
      uniform == explicit[Len(explicit)]
  IN explicit \o [i \in 1..(rest \div uniform) |-> uniform]
              \o If(rest % uniform > 0, <<rest % uniform>>)

\* One iteration of the reader's loop; it CHECKs tile indices it reads.
ReadSlice ==
  LET n == Len(dec.rects)
      t == dec.tileIdx
      delta == enc.tileIdxDeltaPresent /\ n - 1 > 1
      hasWidth == t % NumTileCols(pic) # NumTileCols(pic) - 1
      w == IF hasWidth THEN Element(dec.pos) + 1 ELSE 1
      p1 == dec.pos + (IF hasWidth THEN 1 ELSE 0)
      hasHeight == HeightPresent(t, delta)
      h == IF hasHeight THEN Element(p1) + 1
           ELSE IF t \div NumTileCols(pic) = NumTileRows(pic) - 1 THEN 1
           ELSE dec.rects[at - 1].height
      p2 == p1 + (IF hasHeight THEN 1 ELSE 0)
      inTile == w = 1 /\ h = 1
      split == inTile /\ RowHeight(t) > 1
      numExp == IF split THEN Element(p2) ELSE 0
      heights == IF numExp = 0 THEN <<RowHeight(t)>>
                 ELSE ReadHeights([j \in 1..numExp |-> Element(p2 + j) + 1], RowHeight(t))
      p3 == p2 + numExp + (IF split THEN 1 ELSE 0)
      last == at + Len(heights) - 1
      rects == [i \in 1..n |->
        IF i < at \/ i > last THEN dec.rects[i]
        ELSE [tileIdx |-> t, width |-> w, height |-> h,
              slicesInTile |-> IF inTile THEN Len(heights) ELSE 0,
              ctuHeight |-> IF inTile THEN heights[i - at + 1] ELSE 0]]
      written == last < n /\ delta
  IN /\ stage = "read" /\ at < n
     /\ dec' = [dec EXCEPT
          !.rects = rects,
          !.tileIdx = IF last >= n THEN t
                      ELSE IF delta THEN t + Element(p3) ELSE NextTileIdx(rects[last]),
          !.pos = p3 + (IF written THEN 1 ELSE 0)]
     /\ at' = last + 1
     /\ stage' = IF written /\ t + Element(p3) \notin 0..(NumTiles(pic) - 1)
                 THEN "error" ELSE stage
     /\ UNCHANGED <<config, pic, slices, enc, syntax>>

\* The end of the parameter set, and its activation; initRectSliceMap CHECKs
\* what it is given.
ReadEnd ==
  LET rects == [dec.rects EXCEPT ![Len(dec.rects)].tileIdx = dec.tileIdx]
      ok == IsRectSignalling(pic, rects)
  IN /\ stage = "read" /\ at >= Len(dec.rects)
     /\ dec' = [dec EXCEPT !.rects = rects,
                           !.map = IF ok THEN RectSliceMap(pic, rects) ELSE << >>]
     /\ stage' = IF ok THEN "done" ELSE "error"
     /\ UNCHANGED <<config, pic, slices, enc, syntax, at>>

-----------------------------------------------------------------------------
(* Raster-scan slices.                                                      *)

\* Sizes are cut off where the picture ends; the last one is repeated.
RasterSizes(list) == InitTiles(Clipped(list, NumTiles(pic)), NumTiles(pic))

\* A slice header tells its first tile if there are several in the picture,
\* and how many tiles it has unless it has only the last one.
RasterHeader(first, num) ==
  If(NumTiles(pic) > 1, <<first>> \o If(NumTiles(pic) - first > 1, <<num - 1>>))

ConfigureRaster ==
  \E list \in RasterLists :
    LET sizes == RasterSizes(list)
        first == Boundaries(sizes)
    IN /\ stage = "slices" /\ slices = << >> /\ Len(sizes) <= MaxSlices
       /\ enc' = [enc EXCEPT !.map = RasterSliceMap(pic, sizes)]
       /\ syntax' = FlattenSeq([i \in DOMAIN sizes |-> RasterHeader(first[i], sizes[i])])
       /\ stage' = IF IsSliceMap(pic, enc'.map) THEN "headers" ELSE "error"
       /\ at' = 1
       /\ UNCHANGED <<config, pic, slices, dec>>

NumTilesRead(first) ==
  IF NumTiles(pic) > 1 /\ NumTiles(pic) - first > 1 THEN Element(dec.pos + 1) + 1 ELSE 1

\* The header of the next slice of the picture.
ReadHeader ==
  LET first == IF NumTiles(pic) > 1 THEN Element(dec.pos) ELSE 0
      num == NumTilesRead(first)
      ok == first + num <= NumTiles(pic)
  IN /\ stage = "headers" /\ at <= Len(enc.map)
     /\ dec' = [dec EXCEPT
          !.pos = @ + Len(RasterHeader(first, num)),
          !.map = IF ok THEN Append(@, FlattenSeq([i \in 1..num |->
                                         CtusOfTiles(pic, first + i - 1, 1, 1)]))
                  ELSE @]
     /\ at' = at + 1
     /\ stage' = IF ~ok THEN "error" ELSE IF at = Len(enc.map) THEN "done" ELSE stage
     /\ UNCHANGED <<config, pic, slices, enc, syntax>>

-----------------------------------------------------------------------------
Init ==
  /\ stage = "slices"
  /\ \E size \in Sizes, cols \in TileLists, rows \in TileLists :
       /\ config = [cols |-> cols, rows |-> rows]
       /\ pic = TiledPicture(Explicit(cols, size.width), Explicit(rows, size.height),
                             size.width, size.height)
  /\ slices = << >> /\ syntax = << >> /\ at = 1
  /\ enc = [rects |-> << >>, tileIdxDeltaPresent |-> FALSE, map |-> << >>]
  /\ dec = [rects |-> << >>, tileIdx |-> 0, pos |-> 1, map |-> << >>]

Next ==
  \/ AddTiles \/ SplitTile \/ Configure \/ WriteSlice \/ WriteEnd \/ ReadSlice \/ ReadEnd
  \/ ConfigureRaster \/ ReadHeader

-----------------------------------------------------------------------------
(* Properties.                                                              *)

\* The variables hold values of their types, and the slice parameters on both
\* sides are as many as there are slices; the reader stays within the picture.
TypeOK ==
  /\ stage \in {"slices", "write", "read", "headers", "done", "error", "coding"}
  /\ slices \in Seq([first : Nat, last : Nat]) /\ Len(slices) <= MaxSlices
  /\ enc \in [rects : Seq(RectSlice), tileIdxDeltaPresent : BOOLEAN, map : Seq(Seq(Nat))]
  /\ dec \in [rects : Seq(RectSlice), tileIdx : Int, pos : Nat, map : Seq(Seq(Nat))]
  /\ stage # "error" => dec.tileIdx \in 0..(NumTiles(pic) - 1)
  /\ syntax \in Seq(Int) /\ at \in Nat
  /\ stage # "slices" => Len(enc.rects) = Len(slices)
  /\ stage \in {"read", "done"} => Len(dec.rects) = Len(slices)

\* Tiles are as the manual describes the lists of the configuration: the last
\* size is repeated until the picture is covered, whatever is left out of the
\* parameter set as implicit.
TilesAsConfigured ==
  LET sized(tiles, list, size) ==
        /\ Boundaries(tiles)[Len(tiles) + 1] = size
        /\ \A i \in 1..(Len(tiles) - 1) : tiles[i] = list[Minimum(i, Len(list))]
        /\ tiles[Len(tiles)] <= list[Minimum(Len(tiles), Len(list))]
  IN stage # "coding" =>
       sized(pic.cols, config.cols, pic.width) /\ sized(pic.rows, config.rows, pic.height)

\* The slice map of the decoder is that of the encoder, CTU for CTU and in the
\* same order, it has the configured slices, and the reader has read everything
\* that was written, although sizes, heights and tile indices are written only
\* where it cannot infer them.
SlicesSurvive ==
  /\ stage # "error"
  /\ stage = "done" =>
    /\ dec.map = enc.map
    /\ IsSliceMap(pic, dec.map)
    /\ \A i \in DOMAIN slices : ToSet(dec.map[i]) = CtusIn(slices[i])
    /\ dec.pos = Len(syntax) + 1

\* What the configuration asks for, the PPS of the decoder says.
PartitionSurvives == TilesAsConfigured /\ SlicesSurvive
=============================================================================
