-------------------------- MODULE PicturePartition --------------------------
(***************************************************************************)
(* How a picture parameter set divides a picture into tiles and slices:    *)
(* the functions of class PPS that turn explicit sizes into tile           *)
(* boundaries and slice parameters into lists of CTU addresses.  A picture *)
(* is a record of its size in CTUs and of the sizes of its tile columns    *)
(* and rows; tiles and CTUs are numbered from 0 in raster order, as in the *)
(* source, and slices from 1, as sequences are.                            *)
(***************************************************************************)
EXTENDS Integers, Sequences, SequencesExt

Minimum(a, b) == IF a < b THEN a ELSE b

\* The boundaries of columns or rows of these sizes: entry i + 1 is where
\* column i starts, the last one where the picture ends.
Boundaries(sizes) ==
  LET bd[i \in 0..Len(sizes)] == IF i = 0 THEN 0 ELSE bd[i - 1] + sizes[i]
  IN [i \in 1..(Len(sizes) + 1) |-> bd[i - 1]]

\* initTiles: explicit sizes, then the last of them again until the picture
\* is covered.
InitTiles(explicit, size) ==
  LET n == Len(explicit)
      rest == size - Boundaries(explicit)[n + 1]
      uniform == explicit[n]
      count == (rest + uniform - 1) \div uniform
  IN explicit \o [i \in 1..count |-> Minimum(uniform, rest - ((i - 1) * uniform))]

\* initTiles for both directions.
TiledPicture(explicitCols, explicitRows, width, height) ==
  [width |-> width, height |-> height,
   cols |-> InitTiles(explicitCols, width), rows |-> InitTiles(explicitRows, height)]

NumTileCols(pic) == Len(pic.cols)
NumTileRows(pic) == Len(pic.rows)
NumTiles(pic) == NumTileCols(pic) * NumTileRows(pic)
TileColumnBd(pic, i) == Boundaries(pic.cols)[i + 1]
TileRowBd(pic, i) == Boundaries(pic.rows)[i + 1]

\* ctuToTileCol and ctuToTileRow.
CtuToTileCol(pic, x) ==
  CHOOSE i \in 0..(NumTileCols(pic) - 1) : TileColumnBd(pic, i) <= x /\ x < TileColumnBd(pic, i + 1)
CtuToTileRow(pic, y) ==
  CHOOSE i \in 0..(NumTileRows(pic) - 1) : TileRowBd(pic, i) <= y /\ y < TileRowBd(pic, i + 1)

CtuX(pic, ctu) == ctu % pic.width
CtuY(pic, ctu) == ctu \div pic.width
CtuIsTileColBd(pic, ctu) ==
  CtuX(pic, ctu) = TileColumnBd(pic, CtuToTileCol(pic, CtuX(pic, ctu)))
CtuIsTileRowBd(pic, ctu) ==
  CtuY(pic, ctu) = TileRowBd(pic, CtuToTileRow(pic, CtuY(pic, ctu)))
TileIdx(pic, ctu) ==
  CtuToTileRow(pic, CtuY(pic, ctu)) * NumTileCols(pic) + CtuToTileCol(pic, CtuX(pic, ctu))

-----------------------------------------------------------------------------
(* Slices as lists of CTU addresses.                                        *)

\* addCtusToSlice: the CTUs of a rectangle in raster order.
CtusOf(pic, startX, stopX, startY, stopY) ==
  LET w == stopX - startX
  IN [i \in 1..(w * (stopY - startY)) |->
        (startY + (i - 1) \div w) * pic.width + startX + ((i - 1) % w)]

CtusOfTile(pic, x, y) ==
  CtusOf(pic, TileColumnBd(pic, x), TileColumnBd(pic, x + 1),
         TileRowBd(pic, y), TileRowBd(pic, y + 1))

\* The tiles of a rectangle of tiles, one after the other in raster order.
CtusOfTiles(pic, tile, w, h) ==
  LET x == tile % NumTileCols(pic)
      y == tile \div NumTileCols(pic)
  IN FlattenSeq([i \in 1..(w * h) |->
                   CtusOfTile(pic, x + ((i - 1) % w), y + (i - 1) \div w)])

\* initRasterSliceMap: slices of consecutive tiles.
RasterSliceMap(pic, numTilesInSlice) ==
  LET first == Boundaries(numTilesInSlice)
  IN [s \in DOMAIN numTilesInSlice |->
        FlattenSeq([i \in 1..numTilesInSlice[s] |->
                      CtusOfTiles(pic, first[s] + i - 1, 1, 1)])]

\* The parameters of a rectangular slice, struct RectSlice.
RectSlice == [tileIdx : Nat, width : Nat, height : Nat, slicesInTile : Nat, ctuHeight : Nat]
NoSlice == [tileIdx |-> 0, width |-> 0, height |-> 0, slicesInTile |-> 0, ctuHeight |-> 0]

\* The last slice takes what is left of the picture.
LastInferred(pic, rects) ==
  LET n == Len(rects)
      tile == rects[n].tileIdx
  IN [rects EXCEPT ![n].width = NumTileCols(pic) - (tile % NumTileCols(pic)),
                   ![n].height = NumTileRows(pic) - tile \div NumTileCols(pic),
                   ![n].slicesInTile = 1]

InTile(r) == r.width <= 1 /\ r.height <= 1

\* The loop over slices steps over all slices of a tile at once: Heads(rects)[i]
\* is the slice with which the iteration that makes slice i begins.
Heads(rects) ==
  LET head[i \in DOMAIN rects] ==
        IF i = 1 THEN 1
        ELSE LET g == head[i - 1]
             IN IF InTile(rects[g]) /\ i < g + rects[g].slicesInTile THEN g ELSE i
  IN head

Inferred(pic, rects) ==
  IF Heads(rects)[Len(rects)] = Len(rects) THEN LastInferred(pic, rects) ELSE rects

\* What initRectSliceMap CHECKs of the parameters.
IsSignalling(pic, given) ==
  LET rects == Inferred(pic, given)
      n == Len(rects)
  IN \A i \in DOMAIN rects :
       LET r == rects[i]
           y == r.tileIdx \div NumTileCols(pic)
       IN /\ r.tileIdx < NumTiles(pic)
          /\ ~InTile(r) => /\ (r.tileIdx % NumTileCols(pic)) + r.width <= NumTileCols(pic)
                           /\ y + r.height <= NumTileRows(pic)
          /\ InTile(r) /\ Heads(rects)[i] = i =>
               /\ r.slicesInTile \in 1..(n - i + 1)
               /\ Boundaries([j \in 1..(r.slicesInTile - 1) |-> rects[i + j - 1].ctuHeight])
                    [r.slicesInTile] < pic.rows[y + 1]

\* initRectSliceMap of slices with parameters, not of one slice per subpicture.
RectSliceMap(pic, given) ==
  LET rects == Inferred(pic, given)
      slice(i) ==
        LET g == Heads(given)[i]
            r == rects[g]
            x == r.tileIdx % NumTileCols(pic)
            y == r.tileIdx \div NumTileCols(pic)
            top == TileRowBd(pic, y)
            above == Boundaries([j \in 1..(i - g) |-> rects[g + j - 1].ctuHeight])[i - g + 1]
        IN IF ~InTile(r) THEN CtusOfTiles(pic, r.tileIdx, r.width, r.height)
           ELSE CtusOf(pic, TileColumnBd(pic, x), TileColumnBd(pic, x + 1), top + above,
                       IF i = g + r.slicesInTile - 1 THEN TileRowBd(pic, y + 1)
                       ELSE top + above + rects[i].ctuHeight)
  IN [i \in DOMAIN given |-> slice(i)]

\* checkSliceMap: the slices are lists of CTUs of the picture, and every CTU of the
\* picture is in one of them, once.
IsSliceMap(pic, map) ==
  LET ctus == 0..(pic.width * pic.height - 1)
      places == UNION {{s} \X DOMAIN map[s] : s \in DOMAIN map}
      ctuAt == [p \in places |-> map[p[1]][p[2]]]
  IN map \in Seq(Seq(ctus)) /\ IsInjective(ctuAt) /\ Range(ctuAt) = ctus

\* What initRectSliceMap CHECKs, of the parameters and of the map.
IsRectSignalling(pic, given) ==
  IsSignalling(pic, given) /\ IsSliceMap(pic, RectSliceMap(pic, given))
=============================================================================
