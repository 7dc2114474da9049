----------------------- MODULE PartitionCodingProofs -----------------------
(***************************************************************************)
(* Theorems about PartitionCoding, for every picture with any tiles, any   *)
(* slices that can be configured, rectangular or in raster scan: what the  *)
(* encoder writes of them in the picture parameter set and in the slice    *)
(* headers is what the decoder makes the same map from.                    *)
(*                                                                         *)
(* First what is configured and written (Elements, Written), then what     *)
(* the reader makes of it (Agrees, HeadersMean), and the steps; last the   *)
(* types of PictureCoding, with the number of substreams of a slice.       *)
(***************************************************************************)
EXTENDS PictureCodingProofs

-----------------------------------------------------------------------------
(* The configured slices: where they go on.                                 *)

\* The tile index that follows the parameters of slice i - 1 is that of slice i.
NextFollows(i) == NextTileIdx(Configured.rects[i - 1]) = Configured.rects[i].tileIdx

\* Where that is: to the right, or where the next row of tiles begins.
LEMMA WhereNext ==
  ASSUME IsTiled(pic), slices \in Seq(Rectangle), NEW i \in 2..Len(slices), NextFollows(i)
  PROVE  LET p == slices[i - 1]
             s == slices[i]
         IN \/ C2(p) + 1 < NumTileCols(pic) /\ C1(s) = C2(p) + 1 /\ R1(s) = R1(p)
            \/ C2(p) + 1 = NumTileCols(pic) /\ C1(s) = 0 /\ R1(s) = R2(p) + 1
<1> DEFINE p == slices[i - 1]  s == slices[i]  m == NumTileCols(pic)
           a == C1(p)  b == C2(p)  u == R1(p)  v == R2(p)  c == C1(s)  w == R1(s)
           r == Configured.rects[i - 1]  t == r.tileIdx + r.width
<1>1. i - 1 \in 1..Len(slices) /\ i \in 1..Len(slices) /\ p \in Rectangle /\ s \in Rectangle
  OBVIOUS
<1>2. r.tileIdx = u * m + a /\ r.width = b - a + 1 /\ r.height = v - u + 1
  BY <1>1, ConfiguredRect
<1>3. Configured.rects[i].tileIdx = w * m + c
  BY <1>1, ConfiguredRect
<1>4. /\ a \in 0..(m - 1) /\ b \in 0..(m - 1) /\ c \in 0..(m - 1) /\ a <= b
      /\ m \in Nat /\ m >= 1
  BY <1>1, RectangleParts, TileColumns
<1>5. u \in Nat /\ v \in Nat /\ w \in Nat /\ u <= v
  <2>1. /\ NumTileRows(pic) \in Nat
        /\ u \in 0..(NumTileRows(pic) - 1) /\ v \in 0..(NumTileRows(pic) - 1)
        /\ w \in 0..(NumTileRows(pic) - 1) /\ u <= v
    BY <1>1, RectangleParts, TileRows
  <2> HIDE DEF u, v, w
  <2> QED
    BY <2>1
<1>6. (IF t % m = 0 THEN t + (r.height - 1) * m ELSE t) = w * m + c
  BY <1>3 DEF NextFollows, NextTileIdx
<1> HIDE DEF a, b, u, v, c, w, m, r
<1>7. u * m \in Nat /\ w * m \in Nat /\ t = u * m + (b + 1)
  BY <1>2, <1>4, <1>5
<1> HIDE DEF t
<1>8. CASE b + 1 < m
  <2>1. b + 1 \in 0..(m - 1)
    BY <1>4, <1>8
  <2>2. t % m = b + 1
    <3>1. (u * m + (b + 1)) % m = b + 1
      BY <1>4, <1>5, <2>1, TileDivides
    <3> QED
      BY <1>7, <3>1
  <2>3. u * m + (b + 1) = w * m + c
    BY <1>4, <1>6, <1>7, <2>2
  <2>4. b + 1 = c /\ u = w
    BY <1>4, <1>5, <2>1, <2>3, TileNumbers
  <2> QED
    BY <1>8, <2>4 DEF b, c, u, w, m
<1>9. CASE b + 1 = m
  <2>1. t = (u + 1) * m + 0 /\ u + 1 \in Nat /\ 0 \in 0..(m - 1)
    BY <1>4, <1>5, <1>7, <1>9
  <2>2. t % m = 0
    BY <1>4, <2>1, TileDivides
  <2>3. (r.height - 1) * m = (v - u) * m
    BY <1>2, <1>4, <1>5
  <2>4. t + (r.height - 1) * m = (v + 1) * m + 0 /\ v + 1 \in Nat
    BY <1>4, <1>5, <2>1, <2>3
  <2>5. (v + 1) * m + 0 = w * m + c
    BY <1>6, <2>2, <2>4
  <2>6. 0 = c /\ v + 1 = w
    BY <1>4, <1>5, <2>1, <2>4, <2>5, TileNumbers
  <2> QED
    BY <1>9, <2>6 DEF b, c, v, w, m
<1> QED
  BY <1>4, <1>8, <1>9

\* A slice to the right of the one before it does not reach lower.
LEMMA NotLower ==
  ASSUME IsTiled(pic), NEW ss, Drawn(ss), NEW i \in 2..Len(ss), ~SameTile(ss, i),
         C1(ss[i]) = C2(ss[i - 1]) + 1, R1(ss[i]) = R1(ss[i - 1])
  PROVE  R2(ss[i]) <= R2(ss[i - 1])
<1> DEFINE p == ss[i - 1]  s == ss[i]  l == NumTileRows(pic)  y == Y2(p) + 1  B(k) == TileRowBd(pic, k)
<1>1. /\ ss \in Seq(Rectangle) /\ Len(ss) \in Nat /\ i - 1 \in 1..Len(ss) /\ i \in 1..Len(ss)
      /\ (i - 1) + 1 = i /\ i \in Nat /\ WholeTiles(ss) /\ Grown(ss)
  BY DEF Drawn
<1>2. p \in Rectangle /\ s \in Rectangle
  BY <1>1
<1>3. /\ X1(s) \in Nat /\ X2(p) \in Nat /\ Y1(s) \in Nat /\ Y2(s) \in Nat /\ Y1(p) \in Nat /\ Y2(p) \in Nat
      /\ Has(p, X2(p), Y2(p)) /\ Has(s, X1(s), Y1(s)) /\ X1(s) <= X2(s) /\ X2(s) \in Nat
      /\ Y1(p) <= Y2(p)
  BY <1>2, HasCorners, RectangleParts
<1>4. /\ l \in Nat /\ R1(p) \in 0..(l - 1) /\ R2(p) \in 0..(l - 1) /\ R2(s) \in 0..(l - 1)
      /\ R1(p) <= R2(p)
      /\ \A k, j \in 0..l : k < j => B(k) < B(j)
      /\ \A k \in 0..l : B(k) \in Nat
  <2>1. /\ l \in Nat /\ pic.height \in Nat
        /\ \A k, j \in 0..l : k < j => B(k) < B(j)
        /\ \A k \in 0..l : B(k) \in 0..pic.height
    BY TileRows
  <2>2. \A k \in 0..l : B(k) \in Nat
    <3> TAKE k \in 0..l
    <3>1. B(k) \in 0..pic.height
      BY <2>1
    <3> HIDE DEF B
    <3> QED
      BY <2>1, <3>1
  <2> QED
    BY <1>2, <2>1, <2>2, RectangleParts
<1>5. X1(s) = X2(p) + 1
  <2>1. WholeColumns(s) /\ WholeColumns(p)
    BY <1>1 DEF WholeTiles
  <2> QED
    BY <2>1 DEF WholeColumns
<1>6. FromTop(s) /\ ToBottom(p) /\ (ToBottom(s) \/ (i < Len(ss) /\ SameTile(ss, i + 1)))
  <2>1. FromTop(s) /\ ToBottom(p)
    BY <1>1 DEF WholeTiles
  <2>2. ToBottom(s) \/ (i # Len(ss) /\ SameTile(ss, i + 1))
    BY <1>1 DEF WholeTiles
  <2> QED
    BY <1>1, <2>1, <2>2
<1> SUFFICES ASSUME R2(s) > R2(p) PROVE FALSE
  BY <1>4
<1>7. ~SameTile(ss, i + 1)
  <2> SUFFICES ASSUME SameTile(ss, i + 1) PROVE FALSE
    OBVIOUS
  <2>1. InOne(ss[i])
    <3>1. (i + 1) - 1 = i
      BY <1>1
    <3> QED
      BY <3>1 DEF SameTile
  <2> QED
    BY <1>4, <2>1 DEF InOne
<1>8. Y1(s) = B(R1(p)) /\ y = B(R2(p) + 1) /\ Y2(s) + 1 = B(R2(s) + 1)
  BY <1>6, <1>7 DEF FromTop, ToBottom
<1>9. B(R1(p)) < B(R2(p) + 1) /\ B(R2(p) + 1) < B(R2(s) + 1)
  <2>1. /\ R1(p) \in 0..l /\ R2(p) + 1 \in 0..l /\ R2(s) + 1 \in 0..l
        /\ R1(p) < R2(p) + 1 /\ R2(p) + 1 < R2(s) + 1
    BY <1>4
  <2> HIDE DEF B
  <2> QED
    BY <1>4, <2>1
<1> HIDE DEF B
<1>10. Has(s, X1(s), y) /\ X1(s) > 0 /\ y \in Nat /\ X1(s) - 1 = X2(p) /\ y > Y2(p)
  BY <1>3, <1>5, <1>8, <1>9 DEF Has
<1>11. LeftBefore(ss, i)
  BY <1>1 DEF Grown
<1>12. \E k \in 1..i : Has(ss[k], X1(s) - 1, y)
  BY <1>3, <1>10, <1>11 DEF LeftBefore
<1>13. PICK k \in 1..i : Has(ss[k], X2(p), y)
  BY <1>10, <1>12
<1>14. i - 1 <= k
  <2>1. k \in 1..Len(ss) /\ X2(p) <= X2(p) /\ Y2(p) <= y
    BY <1>1, <1>3, <1>10
  <2> QED
    BY <1>1, <1>3, <1>10, <1>13, <2>1, FarIsLater
<1>15. CASE k = i
  BY <1>3, <1>5, <1>13, <1>15 DEF Has
<1>16. CASE k = i - 1
  BY <1>3, <1>10, <1>13, <1>16 DEF Has
<1> QED
  BY <1>1, <1>14, <1>15, <1>16
\* If every slice begins where the one before leads to, a slice to the right of another
\* is as high: under a lower one the next row of tiles would begin, which is to the left
\* of the other.
LEMMA SameHeight ==
  ASSUME IsTiled(pic), Drawn(slices), Complete(slices),
         \A k \in 2..Len(slices) : ~SameTile(slices, k) => NextFollows(k),
         NEW i \in 2..Len(slices), ~SameTile(slices, i), C1(slices[i]) # 0
  PROVE  /\ R1(slices[i]) = R1(slices[i - 1]) /\ R2(slices[i]) = R2(slices[i - 1])
<1> DEFINE n == Len(slices)  p == slices[i - 1]  s == slices[i]
           m == NumTileCols(pic)  l == NumTileRows(pic)  B(k) == TileRowBd(pic, k)
           Along(j) == R1(slices[j]) = R1(p) /\ R2(slices[j]) <= R2(s)
           S == {j \in i..n : Along(j)}
<1>1. /\ slices \in Seq(Rectangle) /\ n \in Nat /\ i - 1 \in 1..n /\ i \in 1..n /\ i \in Nat /\ n > 0
      /\ WholeTiles(slices) /\ \A j \in 1..n : slices[j] \in Rectangle
  BY DEF Drawn
<1>2. \A j \in 1..n : R1(slices[j]) \in 0..(l - 1) /\ R2(slices[j]) \in 0..(l - 1)
                      /\ R1(slices[j]) <= R2(slices[j])
  <2> TAKE j \in 1..n
  <2>1. slices[j] \in Rectangle
    BY <1>1
  <2> QED
    BY <2>1, RectangleParts
<1>3. l \in Nat /\ m \in Nat /\ m >= 1 /\ l >= 1
  BY TileColumns, TileRows
<1>4. C1(s) = C2(p) + 1 /\ R1(s) = R1(p)
  BY <1>1, WhereNext
<1>5. R2(s) <= R2(p)
  BY <1>1, <1>4, NotLower
<1> SUFFICES ASSUME R2(s) < R2(p) PROVE FALSE
  BY <1>1, <1>2, <1>4, <1>5
<1>6. i \in S
  <2>1. Along(i)
    BY <1>1, <1>2, <1>4
  <2> HIDE DEF Along
  <2> QED
    BY <1>1, <2>1
<1>7. ASSUME NEW j \in S, j < n PROVE j + 1 \in S
  <2>1. /\ j \in i..n /\ j \in 1..n /\ j + 1 \in 1..n /\ j + 1 \in 2..n /\ j + 1 \in i..n /\ (j + 1) - 1 = j
        /\ j \in Nat /\ j >= i
    BY <1>1, <1>7
  <2>2. Along(j)
    BY <1>7
  <2>3. CASE SameTile(slices, j + 1)
    <3>1. R1(slices[j + 1]) = R1(slices[j]) /\ InOne(slices[j + 1]) /\ InOne(slices[j])
      BY <2>1, <2>3 DEF SameTile
    <3>2. R2(slices[j + 1]) = R2(slices[j])
      BY <3>1 DEF InOne
    <3>3. Along(j + 1)
      BY <2>2, <3>1, <3>2
    <3> HIDE DEF Along
    <3> QED
      BY <2>1, <3>3
  <2>4. CASE ~SameTile(slices, j + 1)
    <3> DEFINE q == slices[j]  z == slices[j + 1]
    <3>1. NextFollows(j + 1)
      BY <2>1, <2>4
    <3>2. \/ C2(q) + 1 < m /\ C1(z) = C2(q) + 1 /\ R1(z) = R1(q)
          \/ C2(q) + 1 = m /\ C1(z) = 0 /\ R1(z) = R2(q) + 1
      BY <1>1, <2>1, <3>1, WhereNext
    <3>3. CASE C1(z) = C2(q) + 1 /\ R1(z) = R1(q)
      <4>1. R2(z) <= R2(q)
        BY <2>1, <2>4, <3>3, NotLower
      <4>2. R2(z) \in Int /\ R2(q) \in Int /\ R2(s) \in Int
        BY <1>1, <1>2, <2>1
      <4>3. Along(j + 1)
        BY <2>2, <3>3, <4>1, <4>2
      <4> HIDE DEF Along
      <4> QED
        BY <2>1, <4>3
    <3>4. CASE C1(z) = 0 /\ R1(z) = R2(q) + 1
      <4>1. /\ R1(p) \in 0..(l - 1) /\ R2(p) \in 0..(l - 1) /\ R1(q) \in 0..(l - 1) /\ R2(q) \in 0..(l - 1)
            /\ R1(z) \in 0..(l - 1) /\ R1(q) <= R2(q) /\ R2(s) \in 0..(l - 1)
            /\ R1(q) = R1(p) /\ R2(q) <= R2(s)
        BY <1>1, <1>2, <2>1, <2>2
      <4>2. R1(p) < R1(z) /\ R1(z) <= R2(p)
        BY <1>3, <3>4, <4>1
      <4>3. FromTop(z) /\ p \in Rectangle /\ z \in Rectangle
        BY <1>1, <2>1, <2>4 DEF WholeTiles
      <4>4. Y1(z) = B(R1(z))
        BY <4>3 DEF FromTop
      <4>5. /\ Has(z, X1(z), Y1(z)) /\ Y1(z) \in Nat /\ X1(z) \in Nat
            /\ Has(p, X2(p), Y2(p)) /\ Y1(p) \in Nat /\ Y2(p) \in Nat /\ X1(p) \in Nat /\ X2(p) \in Nat
            /\ X1(p) <= X2(p)
        BY <4>3, HasCorners, RectangleParts
      <4>6. X1(z) <= X1(p)
        <5>1. WholeColumns(z)
          BY <1>1, <2>1 DEF WholeTiles
        <5>2. X1(z) = TileColumnBd(pic, 0)
          BY <3>4, <5>1 DEF WholeColumns
        <5>3. TileColumnBd(pic, 0) = 0
          <6>1. pic.cols \in Seq(Positive)
            BY DEF IsTiled
          <6> QED
            BY <6>1, BoundariesIncrease DEF TileColumnBd
        <5> QED
          BY <4>5, <5>2, <5>3
      <4>7. Y1(p) <= B(R1(z)) /\ B(R1(z)) <= Y2(p)
        <5>1. /\ pic.height \in Nat
              /\ \A a, b \in 0..l : a < b => B(a) < B(b)
              /\ \A a \in 0..l : B(a) \in 0..pic.height
          BY TileRows
        <5>2. \A y \in 0..(pic.height - 1) : /\ B(CtuToTileRow(pic, y)) <= y
                                             /\ y < B(CtuToTileRow(pic, y) + 1)
          BY TileRows
        <5>3. Y1(p) \in 0..(pic.height - 1) /\ Y2(p) \in 0..(pic.height - 1)
          BY <4>3, RectangleParts
        <5>4. Y1(p) < B(R1(p) + 1) /\ B(R2(p)) <= Y2(p)
          BY <5>2, <5>3 DEF R1, R2
        <5>5. B(R1(p) + 1) <= B(R1(z))
          <6>1. R1(p) + 1 \in 0..l /\ R1(z) \in 0..l
            BY <1>3, <4>1
          <6>2. R1(p) + 1 = R1(z) \/ R1(p) + 1 < R1(z)
            BY <1>3, <4>1, <4>2
          <6>3. B(R1(p) + 1) \in Int /\ B(R1(z)) \in Int
            BY <5>1, <6>1
          <6> HIDE DEF B
          <6> QED
            BY <5>1, <6>1, <6>2, <6>3
        <5>6. B(R1(z)) <= B(R2(p))
          <6>1. R2(p) \in 0..l /\ R1(z) \in 0..l
            BY <1>3, <4>1
          <6>2. R1(z) = R2(p) \/ R1(z) < R2(p)
            BY <1>3, <4>1, <4>2
          <6>3. B(R2(p)) \in Int /\ B(R1(z)) \in Int
            BY <5>1, <6>1
          <6> HIDE DEF B
          <6> QED
            BY <5>1, <6>1, <6>2, <6>3
        <5>7. /\ B(R1(p) + 1) \in Int /\ B(R1(z)) \in Int /\ B(R2(p)) \in Int
          <6>1. R1(p) + 1 \in 0..l /\ R1(z) \in 0..l /\ R2(p) \in 0..l
            BY <1>3, <4>1
          <6> HIDE DEF B
          <6> QED
            BY <5>1, <6>1
        <5> HIDE DEF B
        <5> QED
          BY <4>5, <5>4, <5>5, <5>6, <5>7
      <4>8. Has(p, X1(p), Y1(z))
        BY <4>4, <4>5, <4>7 DEF Has
      <4>9. j + 1 <= i - 1
        <5> DEFINE x == X1(z)  y == Y1(z)  x2 == X1(p)
        <5>1. x \in Nat /\ y \in Nat /\ x2 \in Nat /\ x <= x2 /\ y <= y
          BY <4>5, <4>6
        <5>2. Has(slices[j + 1], x, y) /\ Has(slices[i - 1], x2, y)
          BY <4>5, <4>8
        <5> HIDE DEF x, y, x2
        <5> QED
          BY <1>1, <2>1, <5>1, <5>2, FarIsLater
      <4> QED
        BY <1>1, <2>1, <4>9
    <3> QED
      BY <3>2, <3>3, <3>4
  <2> QED
    BY <2>3, <2>4
<1>8. S = i..n
  <2>1. S \in SUBSET (i..n)
    OBVIOUS
  <2>2. i <= n
    BY <1>1
  <2> HIDE DEF S
  <2> QED
    BY <1>1, <1>6, <1>7, <2>1, <2>2, InductionUpTo
<1>9. n \in S
  <2>1. n \in i..n
    BY <1>1
  <2> HIDE DEF S
  <2> QED
    BY <1>8, <2>1
<1>10. R2(slices[n]) <= R2(s)
  BY <1>9
<1>11. R2(slices[n]) = l - 1
  BY <1>1, LastIsLast
<1> QED
  BY <1>1, <1>2, <1>3, <1>10, <1>11

\* Two slices always lead from the first to the second.
LEMMA TwoFollow ==
  ASSUME IsTiled(pic), Drawn(slices), Len(slices) = 2, ~SameTile(slices, 2), Complete(slices)
  PROVE  NextFollows(2)
<1> DEFINE p == slices[1]  s == slices[2]  m == NumTileCols(pic)  l == NumTileRows(pic)
           a == C1(p)  b == C2(p)  u == R1(p)  v == R2(p)  c == C1(s)  w == R1(s)
           r == Configured.rects[1]  t == r.tileIdx + r.width
<1>1. /\ slices \in Seq(Rectangle) /\ 1 \in 1..Len(slices) /\ 2 \in 1..Len(slices)
      /\ p \in Rectangle /\ s \in Rectangle /\ WholeTiles(slices) /\ Apart(slices) /\ Grown(slices)
  BY DEF Drawn
<1>2. r.tileIdx = u * m + a /\ r.width = b - a + 1 /\ r.height = v - u + 1
  BY <1>1, ConfiguredRect
<1>3. Configured.rects[2].tileIdx = w * m + c
  BY <1>1, ConfiguredRect
<1>4. a = 0 /\ u = 0 /\ X1(p) = 0 /\ Y1(p) = 0
  BY FirstIsFirst
<1>5. /\ m \in Nat /\ m >= 1 /\ l \in Nat /\ b \in 0..(m - 1) /\ v \in 0..(l - 1)
      /\ c \in 0..(m - 1) /\ w \in 0..(l - 1)
  BY <1>1, RectangleParts, TileColumns, TileRows
<1>6. /\ WholeColumns(p) /\ WholeColumns(s) /\ FromTop(s) /\ ToBottom(p) /\ FromTop(p)
  <2>1. 1 + 1 = 2 /\ ~SameTile(slices, 1)
    BY DEF SameTile
  <2> QED
    BY <1>1, <2>1 DEF WholeTiles
<1>7. /\ X1(s) \in Nat /\ X2(s) \in Nat /\ Y1(s) \in Nat /\ Y2(s) \in Nat
      /\ X1(p) \in Nat /\ X2(p) \in Nat /\ Y1(p) \in Nat /\ Y2(p) \in Nat
      /\ Has(s, X1(s), Y1(s)) /\ Has(p, X1(p), Y1(p)) /\ X1(s) <= X2(s) /\ Y1(s) <= Y2(s)
      /\ X2(p) < pic.width /\ Y2(p) < pic.height /\ pic.width \in Nat /\ pic.height \in Nat
      /\ X2(s) < pic.width /\ Y2(s) < pic.height
  <2>1. \A z \in Rectangle :
          /\ X1(z) \in Nat /\ X2(z) \in Nat /\ Y1(z) \in Nat /\ Y2(z) \in Nat /\ Has(z, X1(z), Y1(z))
          /\ X1(z) <= X2(z) /\ Y1(z) <= Y2(z) /\ pic.width \in Nat /\ pic.height \in Nat
          /\ X2(z) < pic.width /\ Y2(z) < pic.height
    <3> TAKE z \in Rectangle
    <3>1. Has(z, X1(z), Y1(z)) /\ X1(z) \in Nat /\ X2(z) \in Nat /\ Y1(z) \in Nat /\ Y2(z) \in Nat
      BY HasCorners
    <3>2. /\ pic.width \in Nat /\ pic.height \in Nat /\ X1(z) <= X2(z) /\ Y1(z) <= Y2(z)
          /\ X2(z) \in 0..(pic.width - 1) /\ Y2(z) \in 0..(pic.height - 1)
      BY RectangleParts
    <3> QED
      BY <3>1, <3>2
  <2> QED
    BY <1>1, <2>1
<1>8. X1(s) = 0 \/ X1(s) = X2(p) + 1
  <2> SUFFICES ASSUME X1(s) > 0 PROVE X1(s) = X2(p) + 1
    BY <1>7
  <2>1. \E k \in 1..2 : Has(slices[k], X1(s) - 1, Y1(s))
    BY <1>1, <1>7 DEF Grown, LeftBefore
  <2>2. Has(p, X1(s) - 1, Y1(s))
    <3>1. ~Has(s, X1(s) - 1, Y1(s))
      BY <1>7 DEF Has
    <3>2. PICK k \in 1..2 : Has(slices[k], X1(s) - 1, Y1(s))
      BY <2>1
    <3>3. k = 1 \/ k = 2
      OBVIOUS
    <3> QED
      BY <3>1, <3>2, <3>3
  <2>3. ~Has(p, X1(s), Y1(s))
    BY <1>1, <1>7 DEF Apart
  <2> QED
    BY <1>7, <2>2, <2>3 DEF Has
<1>9. Y1(s) = 0 \/ Y1(s) = Y2(p) + 1
  <2> SUFFICES ASSUME Y1(s) > 0 PROVE Y1(s) = Y2(p) + 1
    BY <1>7
  <2>1. \E k \in 1..2 : Has(slices[k], X1(s), Y1(s) - 1)
    BY <1>1, <1>7 DEF Grown, UpBefore
  <2>2. Has(p, X1(s), Y1(s) - 1)
    <3>1. ~Has(s, X1(s), Y1(s) - 1)
      BY <1>7 DEF Has
    <3>2. PICK k \in 1..2 : Has(slices[k], X1(s), Y1(s) - 1)
      BY <2>1
    <3>3. k = 1 \/ k = 2
      OBVIOUS
    <3> QED
      BY <3>1, <3>2, <3>3
  <2>3. ~Has(p, X1(s), Y1(s))
    BY <1>1, <1>7 DEF Apart
  <2> QED
    BY <1>7, <2>2, <2>3 DEF Has
<1>10. TileColumnBd(pic, 0) = 0 /\ TileRowBd(pic, 0) = 0
  <2>1. pic.cols \in Seq(Positive) /\ pic.rows \in Seq(Positive)
    BY DEF IsTiled
  <2> QED
    BY <2>1, BoundariesIncrease DEF TileColumnBd, TileRowBd
<1>11. /\ X1(s) = TileColumnBd(pic, c) /\ X2(p) + 1 = TileColumnBd(pic, b + 1)
       /\ Y1(s) = TileRowBd(pic, w) /\ Y2(p) + 1 = TileRowBd(pic, v + 1)
  BY <1>6 DEF WholeColumns, FromTop, ToBottom
<1>12. /\ \A i, j \in 0..m : TileColumnBd(pic, i) = TileColumnBd(pic, j) => i = j
       /\ \A i, j \in 0..l : TileRowBd(pic, i) = TileRowBd(pic, j) => i = j
       /\ TileColumnBd(pic, m) = pic.width
  <2>1. /\ m \in Nat /\ \A i \in 0..m : TileColumnBd(pic, i) \in 0..pic.width
        /\ \A i, j \in 0..m : i < j => TileColumnBd(pic, i) < TileColumnBd(pic, j)
    BY TileColumns
  <2>2. /\ l \in Nat /\ \A i \in 0..l : TileRowBd(pic, i) \in 0..pic.height
        /\ \A i, j \in 0..l : i < j => TileRowBd(pic, i) < TileRowBd(pic, j)
    BY TileRows
  <2>3. \A i, j \in 0..m : TileColumnBd(pic, i) = TileColumnBd(pic, j) => i = j
    <3> TAKE i, j \in 0..m
    <3> HAVE TileColumnBd(pic, i) = TileColumnBd(pic, j)
    <3>1. ~(i < j) /\ ~(j < i)
      <4>1. TileColumnBd(pic, i) \in Int
        BY <1>7, <2>1
      <4> QED
        BY <2>1, <4>1
    <3> QED
      BY <3>1
  <2>4. \A i, j \in 0..l : TileRowBd(pic, i) = TileRowBd(pic, j) => i = j
    <3> TAKE i, j \in 0..l
    <3> HAVE TileRowBd(pic, i) = TileRowBd(pic, j)
    <3>1. ~(i < j) /\ ~(j < i)
      <4>1. TileRowBd(pic, i) \in Int
        BY <1>7, <2>2
      <4> QED
        BY <2>2, <4>1
    <3> QED
      BY <3>1
  <2>5. TileColumnBd(pic, m) = pic.width
    BY DEF IsTiled, TileColumnBd, NumTileCols
  <2> QED
    BY <2>3, <2>4, <2>5
<1>13. \/ b + 1 < m /\ c = b + 1 /\ w = 0
       \/ b + 1 = m /\ c = 0 /\ w = v + 1
  <2>1. X2(s) = pic.width - 1 /\ Y2(s) = pic.height - 1
    BY LastIsLast
  <2>2. ~(X1(s) = 0 /\ Y1(s) = 0)
    BY <1>1, <1>4, <1>7 DEF Apart
  <2>3. /\ (X1(s) = 0 => c = 0) /\ (Y1(s) = 0 => w = 0)
        /\ (X1(s) = X2(p) + 1 => c = b + 1) /\ (Y1(s) = Y2(p) + 1 => w = v + 1)
    <3>1. 0 \in 0..m /\ b + 1 \in 0..m /\ c \in 0..m /\ 0 \in 0..l /\ v + 1 \in 0..l /\ w \in 0..l
      BY <1>5
    <3> QED
      BY <1>10, <1>11, <1>12, <3>1
  <2>4. CASE X1(s) = 0
    <3>1. Y1(s) = Y2(p) + 1
      BY <1>9, <2>2, <2>4
    <3>2. X2(p) = pic.width - 1
      <4>1. \E k \in 1..2 : Has(slices[k], pic.width - 1, 0)
        BY <1>7 DEF Complete
      <4>2. PICK k \in 1..2 : Has(slices[k], pic.width - 1, 0)
        BY <4>1
      <4>3. k = 1
        BY <1>7, <3>1, <4>2 DEF Has
      <4> QED
        BY <1>7, <4>2, <4>3 DEF Has
    <3>3. b + 1 = m
      <4>1. b + 1 \in 0..m /\ m \in 0..m
        BY <1>5
      <4> QED
        BY <1>7, <1>11, <1>12, <3>2, <4>1
    <3> QED
      BY <2>3, <2>4, <3>1, <3>3
  <2>5. CASE X1(s) = X2(p) + 1
    <3>1. c = b + 1 /\ b + 1 < m
      BY <1>5, <2>3, <2>5
    <3>2. Y1(s) = 0
      <4>1. \E k \in 1..2 : Has(slices[k], X1(s), 0)
        BY <1>7 DEF Complete
      <4>2. PICK k \in 1..2 : Has(slices[k], X1(s), 0)
        BY <4>1
      <4>3. k = 2
        BY <1>7, <2>5, <4>2 DEF Has
      <4> QED
        BY <1>7, <4>2, <4>3 DEF Has
    <3> QED
      BY <2>3, <3>1, <3>2
  <2> QED
    BY <1>8, <2>4, <2>5
<1>14. (IF t % m = 0 THEN t + (r.height - 1) * m ELSE t) = w * m + c
  <2> HIDE DEF a, b, u, v, c, w, m, l, r
  <2>1. t = b + 1 /\ r.height = v + 1
    BY <1>2, <1>4, <1>5
  <2>2. CASE b + 1 < m /\ c = b + 1 /\ w = 0
    <3>1. t % m = t /\ t # 0
      BY <1>5, <2>1, <2>2
    <3>2. w * m = 0
      BY <1>5, <2>2
    <3> QED
      BY <1>5, <2>1, <2>2, <3>1, <3>2
  <2>3. CASE b + 1 = m /\ c = 0 /\ w = v + 1
    <3>1. t % m = 0
      BY <1>5, <2>1, <2>3
    <3>2. m + (v + 1 - 1) * m = (v + 1) * m
      BY <1>5
    <3> QED
      BY <1>5, <2>1, <2>3, <3>1, <3>2
  <2> QED
    BY <1>13, <2>2, <2>3
<1> QED
  BY <1>3, <1>14 DEF NextFollows, NextTileIdx
-----------------------------------------------------------------------------
(* The configured slices make a slice map.                                  *)

\* A list that goes through its tiles in order has no CTU twice.
LEMMA ListedOnce ==
  ASSUME NEW p, IsTiled(p), NEW list, InOrder(p, list), Ascends(p, list),
         \A k \in 1..Len(list) : list[k] \in CtusOfPicture(p),
         NEW i \in 1..Len(list), NEW j \in 1..Len(list), list[i] = list[j]
  PROVE  ~(i < j)
<1> SUFFICES ASSUME i < j PROVE FALSE
  OBVIOUS
<1> DEFINE n == Len(list)  T(k) == TileIdx(p, list[k])
           X(k) == CtuX(p, list[k])  Y(k) == CtuY(p, list[k])
           Later(k) == Y(i) < Y(k) \/ (Y(i) = Y(k) /\ X(i) < X(k))
           first == i + 1
           S == {k \in first..j : Later(k)}
<1>1. n \in Nat /\ i \in Nat /\ j \in Nat /\ first \in Nat /\ first <= j /\ i >= 1 /\ j <= n
  BY DEF InOrder
<1>2. \A k \in 1..n : T(k) \in Nat /\ Y(k) \in Nat /\ X(k) \in Nat
  <2> TAKE k \in 1..n
  <2>1. list[k] \in CtusOfPicture(p)
    OBVIOUS
  <2>2. p.height \in Nat /\ p.width \in Nat
    BY DEF IsTiled, Positive
  <2>3. T(k) \in Nat
    BY <2>1, TileOf
  <2>4. Y(k) \in 0..(p.height - 1) /\ X(k) \in 0..(p.width - 1)
    BY <2>1, CtuPlace
  <2> QED
    BY <2>2, <2>3, <2>4
<1>3. \A k \in i..j : T(k) = T(i)
  <2> TAKE k \in i..j
  <2>1. k \in 1..n
    BY <1>1
  <2>2. Len(list) \in Nat /\ \A m \in 1..Len(list) : TileIdx(p, list[m]) \in Nat
    BY <1>1, <1>2
  <2>3. k \in 1..Len(list) /\ i <= k /\ k <= j
    BY <1>1, <2>1
  <2>4. T(i) <= T(k)
    BY <2>2, <2>3, AscendsFar
  <2>5. T(k) <= T(j)
    BY <2>2, <2>3, AscendsFar
  <2>6. T(i) = T(j)
    OBVIOUS
  <2> HIDE DEF T
  <2>7. T(i) \in Nat /\ T(j) \in Nat /\ T(k) \in Nat
    BY <1>1, <1>2, <2>1
  <2> QED
    BY <2>4, <2>5, <2>6, <2>7
<1>4. ASSUME NEW k \in i..j, k < j
      PROVE  (Y(k + 1) = Y(k) /\ X(k + 1) = X(k) + 1) \/ Y(k + 1) = Y(k) + 1
  <2>1. k \in 1..(n - 1) /\ k \in 1..n /\ k + 1 \in 1..n /\ k + 1 \in i..j
    BY <1>1, <1>4
  <2>2. Follows(p, list[k], list[k + 1])
    BY <2>1 DEF InOrder
  <2>3. T(k) = T(k + 1)
    BY <1>3, <2>1
  <2>4. Col(p, list[k]) = Col(p, list[k + 1]) /\ Row(p, list[k]) = Row(p, list[k + 1])
    <3>1. /\ CtuX(p, list[k]) \in 0..(p.width - 1) /\ CtuY(p, list[k]) \in 0..(p.height - 1)
          /\ CtuX(p, list[k + 1]) \in 0..(p.width - 1) /\ CtuY(p, list[k + 1]) \in 0..(p.height - 1)
      BY <2>1 DEF InOrder
    <3> QED
      BY <2>3, <3>1, TileIdxMeans
  <2> QED
    BY <2>2, <2>4 DEF Follows, InRow, InNextRow, InOtherTile
<1>5. X(i) = X(j) /\ Y(i) = Y(j)
  OBVIOUS
<1> HIDE DEF T, X, Y, n
<1>6. first \in S
  <2>1. i \in i..j /\ i < j /\ i \in 1..n
    BY <1>1
  <2>2. Later(first)
    BY <1>2, <1>4, <2>1
  <2> HIDE DEF Later
  <2> QED
    BY <1>1, <2>2
<1>7. \A k \in S : k < j => k + 1 \in S
  <2> SUFFICES ASSUME NEW k \in S, k < j PROVE k + 1 \in S
    OBVIOUS
  <2>1. k \in i..j /\ k \in 1..n /\ k + 1 \in 1..n /\ k + 1 \in first..j /\ i \in 1..n
    BY <1>1
  <2>2. Later(k)
    OBVIOUS
  <2>3. (Y(k + 1) = Y(k) /\ X(k + 1) = X(k) + 1) \/ Y(k + 1) = Y(k) + 1
    BY <1>4, <2>1
  <2>4. /\ Y(i) \in Nat /\ Y(k) \in Nat /\ Y(k + 1) \in Nat
        /\ X(i) \in Nat /\ X(k) \in Nat /\ X(k + 1) \in Nat
    BY <1>2, <2>1
  <2>5. Later(k + 1)
    BY <2>2, <2>3, <2>4
  <2> HIDE DEF Later
  <2> QED
    BY <2>1, <2>5
<1>8. S = first..j
  <2>1. S \in SUBSET (first..j)
    OBVIOUS
  <2> HIDE DEF S
  <2> QED
    BY <1>1, <1>6, <1>7, <2>1, InductionUpTo
<1>9. Later(j)
  <2>1. j \in first..j
    BY <1>1
  <2>2. j \in S
    <3> HIDE DEF S
    <3> QED
      BY <1>8, <2>1
  <2> HIDE DEF Later
  <2> QED
    BY <2>2
<1>10. Y(i) \in Nat /\ X(i) \in Nat
  BY <1>1, <1>2
<1> QED
  BY <1>5, <1>9, <1>10

\* Such lists, if each CTU of the picture is in one of them, make a slice map.
LEMMA MakesSliceMap ==
  ASSUME NEW p, IsTiled(p), NEW map, NEW n \in Nat, DOMAIN map = 1..n, map = [s \in 1..n |-> map[s]],
         \A s \in 1..n : /\ InOrder(p, map[s]) /\ Ascends(p, map[s])
                         /\ \A k \in 1..Len(map[s]) : map[s][k] \in CtusOfPicture(p),
         \A c \in CtusOfPicture(p) :
           /\ \E s \in 1..n : In(c, map[s])
           /\ \A s, t \in 1..n : In(c, map[s]) /\ In(c, map[t]) => s = t
  PROVE  IsSliceMap(p, map)
<1> DEFINE ctus == 0..(p.width * p.height - 1)
           places == UNION {{s} \X DOMAIN map[s] : s \in DOMAIN map}
           ctuAt == [q \in places |-> map[q[1]][q[2]]]
<1>1. ctus = CtusOfPicture(p)
  BY DEF CtusOfPicture
<1>2. \A s \in 1..n : map[s] \in Seq(Nat) /\ Len(map[s]) \in Nat /\ DOMAIN map[s] = 1..Len(map[s])
  <2> TAKE s \in 1..n
  <2>1. map[s] \in Seq(Nat)
    BY DEF InOrder
  <2> QED
    BY <2>1
<1>3. map \in Seq(Seq(ctus))
  <2>1. \A s \in 1..n : map[s] \in Seq(ctus)
    <3> TAKE s \in 1..n
    <3> DEFINE list == map[s]
    <3>1. list \in Seq(Nat)
      BY <1>2
    <3>2. \A k \in 1..Len(list) : list[k] \in ctus
      BY <1>1
    <3> HIDE DEF list, ctus
    <3>3. Len(list) \in Nat /\ list = [k \in 1..Len(list) |-> list[k]]
      BY <3>1
    <3>4. list \in [1..Len(list) -> ctus]
      BY <3>2, <3>3
    <3>5. list \in Seq(ctus)
      BY <3>3, <3>4
    <3> QED
      BY <3>5 DEF list
  <2> HIDE DEF ctus
  <2>2. map \in [1..n -> Seq(ctus)]
    BY <2>1
  <2> QED
    BY <2>2
<1>4. \A q \in places : /\ q[1] \in 1..n /\ q[2] \in 1..Len(map[q[1]]) /\ q = <<q[1], q[2]>>
                        /\ ctuAt[q] = map[q[1]][q[2]]
  BY <1>2
<1>5. \A s \in 1..n : \A k \in 1..Len(map[s]) :
        <<s, k>> \in places /\ ctuAt[<<s, k>>] = map[s][k]
  BY <1>2
<1>6. DOMAIN ctuAt = places
  OBVIOUS
<1>7. ASSUME NEW q \in places, NEW r \in places, ctuAt[q] = ctuAt[r] PROVE q = r
  <2> DEFINE s == q[1]  k == q[2]  t == r[1]  l == r[2]
  <2>1. /\ s \in 1..n /\ t \in 1..n /\ k \in 1..Len(map[s]) /\ l \in 1..Len(map[t])
        /\ map[s][k] = map[t][l] /\ q = <<s, k>> /\ r = <<t, l>>
    BY <1>4, <1>7
  <2> HIDE DEF s, k, t, l
  <2>2. s = t
    <3>1. In(map[s][k], map[s]) /\ In(map[s][k], map[t]) /\ map[s][k] \in CtusOfPicture(p)
      BY <2>1 DEF In
    <3> QED
      BY <2>1, <3>1
  <2>3. k = l
    <3>1. Len(map[s]) \in Nat
      BY <1>2, <2>1
    <3>2. k \in 1..Len(map[s]) /\ l \in 1..Len(map[s]) /\ map[s][k] = map[s][l]
      BY <2>1, <2>2
    <3>3. ~(k < l) /\ ~(l < k)
      BY <2>1, <3>2, ListedOnce
    <3> QED
      BY <3>1, <3>2, <3>3
  <2> QED
    BY <2>1, <2>2, <2>3
<1> HIDE DEF ctuAt, places
<1>8. IsInjective(ctuAt)
  BY <1>6, <1>7 DEF IsInjective
<1>9. Range(ctuAt) = ctus
  <2>1. ASSUME NEW c \in Range(ctuAt) PROVE c \in ctus
    <3>1. PICK q \in places : c = ctuAt[q]
      BY <1>6, <2>1 DEF Range
    <3> QED
      BY <1>1, <1>4, <3>1
  <2>2. ASSUME NEW c \in ctus PROVE c \in Range(ctuAt)
    <3>1. PICK s \in 1..n : In(c, map[s])
      BY <1>1, <2>2
    <3>2. PICK k \in 1..Len(map[s]) : map[s][k] = c
      BY <3>1 DEF In
    <3>3. <<s, k>> \in places /\ ctuAt[<<s, k>>] = c
      BY <1>5, <3>2
    <3> QED
      BY <1>6, <3>3 DEF Range
  <2> QED
    BY <2>1, <2>2
<1> QED
  BY <1>3, <1>8, <1>9 DEF IsSliceMap, ctuAt, places

\* Where a configured slice is, and what room there is for it.
LEMMA RectPlaces ==
  ASSUME IsTiled(pic), slices \in Seq(Rectangle), NEW i \in 1..Len(slices)
  PROVE  LET r == Configured.rects[i]
             m == NumTileCols(pic)
             l == NumTileRows(pic)
         IN /\ r.tileIdx \in Nat /\ r.tileIdx < NumTiles(pic)
            /\ r.tileIdx % m = C1(slices[i]) /\ r.tileIdx \div m = R1(slices[i])
            /\ r.width \in 1..(m - C1(slices[i])) /\ r.height \in 1..(l - R1(slices[i]))
<1> DEFINE m == NumTileCols(pic)  l == NumTileRows(pic)
           a == C1(slices[i])  b == C2(slices[i])  u == R1(slices[i])  v == R2(slices[i])
           r == Configured.rects[i]  t == r.tileIdx
<1>1. slices[i] \in Rectangle
  OBVIOUS
<1>2. a \in 0..(m - 1) /\ u \in 0..(l - 1) /\ b \in 0..(m - 1) /\ v \in 0..(l - 1) /\ a <= b /\ u <= v
  BY <1>1, RectangleParts
<1>3. t = u * m + a /\ r.width = b - a + 1 /\ r.height = v - u + 1
  BY ConfiguredRect
<1>4. m \in Nat /\ m >= 1 /\ l \in Nat /\ l >= 1 /\ NumTiles(pic) = m * l
  BY TileColumns, TileRows DEF NumTiles
<1> HIDE DEF a, b, u, v, m, l, r
<1>5. u \in Nat
  BY <1>4, <1>2
<1>6. t \in Nat /\ t % m = a /\ t \div m = u
  <2>1. u * m + a \in Nat /\ (u * m + a) % m = a /\ (u * m + a) \div m = u
    BY <1>2, <1>4, <1>5, TileDivides
  <2> QED
    BY <1>3, <2>1
<1>7. t < NumTiles(pic)
  <2>1. u * m + m = (u + 1) * m
    BY <1>4, <1>5
  <2>2. (u + 1) * m <= l * m /\ l * m = m * l
    BY <1>2, <1>4, <1>5
  <2>3. u * m \in Nat /\ l * m \in Nat
    BY <1>4, <1>5
  <2> HIDE DEF t
  <2> QED
    BY <1>2, <1>3, <1>4, <2>1, <2>2, <2>3
<1>8. r.width \in 1..(m - a) /\ r.height \in 1..(l - u)
  BY <1>2, <1>3, <1>4
<1> QED
  BY <1>6, <1>7, <1>8 DEF a, u, m, l, r

\* The encoder's parameters pass the checks on parameters.
LEMMA RectSignalled ==
  ASSUME IsTiled(pic), Drawn(slices), Len(slices) > 0
  PROVE  IsSignalling(pic, Configured.rects)
<1> DEFINE n == Len(slices)  given == Configured.rects  rects == Inferred(pic, given)
           m == NumTileCols(pic)  l == NumTileRows(pic)
<1>1. slices \in Seq(Rectangle) /\ n \in Nat /\ n > 0 /\ \A k \in 1..n : slices[k] \in Rectangle
  BY DEF Drawn
<1>2. given \in Seq(RectSlice) /\ Len(given) = n /\ DOMAIN given = 1..n
  <2>1. given \in Seq(RectSlice) /\ DOMAIN given = 1..n
    BY <1>1, ConfiguredMeans
  <2> HIDE DEF given
  <2> QED
    BY <1>1, <2>1
<1>3. m \in Nat /\ m >= 1 /\ l \in Nat /\ l >= 1 /\ NumTiles(pic) = m * l
  BY TileColumns, TileRows DEF NumTiles
<1>4. \A k \in 1..n :
        /\ C1(slices[k]) \in 0..(m - 1) /\ R1(slices[k]) \in 0..(l - 1)
        /\ C2(slices[k]) \in 0..(m - 1) /\ R2(slices[k]) \in 0..(l - 1)
        /\ given[k].tileIdx \in Nat /\ given[k].tileIdx < NumTiles(pic)
        /\ given[k].tileIdx % m = C1(slices[k]) /\ given[k].tileIdx \div m = R1(slices[k])
        /\ given[k].width = C2(slices[k]) - C1(slices[k]) + 1
        /\ given[k].height = R2(slices[k]) - R1(slices[k]) + 1
  <2> TAKE k \in 1..n
  <2>1. slices[k] \in Rectangle
    BY <1>1
  <2> HIDE DEF given, m, l
  <2> QED
    BY <1>1, <2>1, RectPlaces, RectangleParts, ConfiguredRect DEF given, m, l
<1>5. /\ \A k \in 1..(n - 1) : rects[k] = given[k]
      /\ Heads(given)[n] # n => rects = given
      /\ Heads(given)[n] = n =>
           /\ rects[n].tileIdx = given[n].tileIdx
           /\ rects[n].width = m - (given[n].tileIdx % m)
           /\ rects[n].height = l - given[n].tileIdx \div m
           /\ rects[n].slicesInTile = 1
  <2> HIDE DEF given
  <2> QED
    BY <1>1, <1>2, InferredLast
<1>6. rects \in Seq(RectSlice) /\ Len(rects) = n /\ Heads(rects) = Heads(given)
  <2>1. n \in 1..n
    BY <1>1
  <2> HIDE DEF given, rects
  <2> QED
    BY <1>1, <1>2, <1>4, <2>1, InferredMeans DEF rects
<1> HIDE DEF given, rects
<1>7. \A k \in 1..n : Leads(slices, Heads(given)[k], k)
  BY <1>1, HeadsLead DEF given
<1>8. ASSUME NEW i \in 1..n, NEW y, y = rects[i].tileIdx \div m
      PROVE  LET r == rects[i]
             IN /\ r.tileIdx < NumTiles(pic)
                /\ ~InTile(r) => /\ (r.tileIdx % m) + r.width <= m
                                 /\ y + r.height <= l
                /\ InTile(r) /\ Heads(rects)[i] = i =>
                     /\ r.slicesInTile \in 1..(n - i + 1)
                     /\ Boundaries([j \in 1..(r.slicesInTile - 1) |-> rects[i + j - 1].ctuHeight])
                          [r.slicesInTile] < pic.rows[y + 1]
  <2> DEFINE r == rects[i]  s == slices[i]
  <2>1. CASE i = n /\ Heads(given)[n] = n
    <3>1. /\ r.tileIdx = given[i].tileIdx /\ r.width = m - (r.tileIdx % m)
          /\ r.height = l - y /\ r.slicesInTile = 1 /\ y = R1(s) /\ r.tileIdx % m = C1(s)
      BY <1>4, <1>5, <1>8, <2>1
    <3>2. C1(s) \in 0..(m - 1) /\ y \in 0..(l - 1)
      BY <1>4, <3>1
    <3>3. (r.tileIdx % m) + r.width <= m /\ y + r.height <= l
      <4> DEFINE x == r.tileIdx % m
      <4>1. x \in 0..(m - 1) /\ r.width = m - x
        BY <3>1, <3>2
      <4> HIDE DEF x, m, l
      <4>2. x + r.width <= m /\ y + r.height <= l
        BY <1>3, <3>1, <3>2, <4>1
      <4> QED
        BY <4>2 DEF x
    <3>4. Boundaries([j \in 1..(1 - 1) |-> rects[i + j - 1].ctuHeight])[1] = 0
      <4> DEFINE P == [j \in 1..(1 - 1) |-> rects[i + j - 1].ctuHeight]
      <4>1. P \in Seq(Int)
        <5>1. 1..(1 - 1) = {} /\ 1 - 1 = 0
          OBVIOUS
        <5>2. P \in [1..0 -> Int]
          BY <5>1
        <5> HIDE DEF P
        <5> QED
          BY <5>2
      <4> QED
        BY <4>1, BoundariesMeans
    <3>5. pic.rows[y + 1] \in Nat /\ pic.rows[y + 1] > 0
      <4>1. pic.rows \in Seq(Positive)
        BY DEF IsTiled
      <4>2. y + 1 \in 1..Len(pic.rows)
        BY <1>3, <3>2 DEF NumTileRows
      <4>3. pic.rows[y + 1] \in Positive
        BY <4>1, <4>2
      <4> QED
        BY <4>3 DEF Positive
    <3>6. r.tileIdx < NumTiles(pic)
      BY <1>4, <3>1
    <3>7. 1 \in 1..(n - i + 1)
      BY <1>1, <2>1
    <3> QED
      BY <3>1, <3>3, <3>4, <3>5, <3>6, <3>7
  <2>2. CASE ~(i = n /\ Heads(given)[n] = n)
    <3>1. r = given[i]
      <4>1. CASE i = n
        BY <1>5, <2>2, <4>1
      <4>2. CASE i # n
        <5>1. i \in 1..(n - 1)
          BY <1>1, <4>2
        <5> QED
          BY <1>5, <5>1
      <4> QED
        BY <4>1, <4>2
    <3>2. r.tileIdx < NumTiles(pic) /\ y = R1(s) /\ r.tileIdx % m = C1(s)
      BY <1>4, <1>8, <3>1
    <3>3. (r.tileIdx % m) + r.width <= m /\ y + r.height <= l
      <4> DEFINE a == C1(s)  b == C2(s)  u == R1(s)  v == R2(s)  x == r.tileIdx % m
      <4>1. /\ a \in 0..(m - 1) /\ b \in 0..(m - 1) /\ u \in 0..(l - 1) /\ v \in 0..(l - 1)
            /\ r.width = b - a + 1 /\ r.height = v - u + 1 /\ x = a /\ y = u
        BY <1>4, <3>1, <3>2
      <4> HIDE DEF a, b, u, v, m, l, x
      <4>2. x + r.width <= m /\ y + r.height <= l
        BY <1>3, <4>1
      <4> QED
        BY <4>2 DEF x
    <3>4. ASSUME InTile(r), Heads(rects)[i] = i
          PROVE  /\ r.slicesInTile \in 1..(n - i + 1)
                 /\ Boundaries([j \in 1..(r.slicesInTile - 1) |-> rects[i + j - 1].ctuHeight])
                      [r.slicesInTile] < pic.rows[y + 1]
      <4> DEFINE c == r.slicesInTile  k == i + c - 1
                 P == [j \in 1..(c - 1) |-> rects[i + j - 1].ctuHeight]
      <4>1. Leads(slices, i, i)
        BY <1>6, <1>7, <3>4
      <4>2. ~SameTile(slices, i)
        BY <4>1 DEF Leads
      <4>3. InOne(s)
        BY <1>1, <3>1, <3>4, ConfiguredRect DEF given
      <4>4. c \in 1..(n - i + 1) /\ Run(slices, i, c)
        BY <1>1, <3>1, <4>2, <4>3, ConfiguredRect DEF given
      <4> HIDE DEF c
      <4>5. k \in 1..n /\ k \in Nat /\ i \in Nat /\ c \in Nat /\ k >= i /\ k - i = c - 1 /\ c - 1 \in Nat
        BY <1>1, <4>4
      <4>6. \A q \in (i + 1)..k : SameTile(slices, q)
        <5> TAKE q \in (i + 1)..k
        <5>1. q - i \in 1..(c - 1) /\ i + (q - i) = q
          BY <4>5
        <5> QED
          BY <4>4, <5>1 DEF Run
      <4>7. Leads(slices, i, k)
        <5>1. i \in 1..k
          BY <4>5
        <5> QED
          BY <4>2, <4>6, <5>1 DEF Leads
      <4> HIDE DEF k
      <4>8. \A q \in i..k : /\ InOne(slices[q]) /\ q \in 1..n
                            /\ C1(slices[q]) = C1(s) /\ R1(slices[q]) = R1(s)
        <5> TAKE q \in i..k
        <5>1. q \in 1..n
          BY <1>1, <4>5
        <5> QED
          BY <1>1, <4>3, <4>5, <4>7, <5>1, LeadMeans
      <4>9. \A q \in i..k : Y2(slices[q]) - Y1(slices[q]) + 1 \in Int
        <5> TAKE q \in i..k
        <5>1. Y1(slices[q]) \in Nat /\ Y2(slices[q]) \in Nat
          BY <1>1, <4>8, HasCorners
        <5> QED
          BY <5>1
      <4>10. \A j \in 1..(k - i) : P[j] = Y2(slices[i + j - 1]) - Y1(slices[i + j - 1]) + 1
        <5> TAKE j \in 1..(k - i)
        <5>1. i + j - 1 \in i..k /\ i + j - 1 \in 1..(n - 1) /\ i + j - 1 \in 1..n /\ j \in 1..(c - 1)
          BY <1>1, <4>5
        <5>2. rects[i + j - 1] = given[i + j - 1]
          BY <1>5, <5>1
        <5>3. InOne(slices[i + j - 1])
          BY <4>8, <5>1
        <5>4. given[i + j - 1].ctuHeight = Y2(slices[i + j - 1]) - Y1(slices[i + j - 1]) + 1
          BY <1>1, <5>1, <5>3, ConfiguredRect DEF given
        <5> QED
          BY <5>1, <5>2, <5>4
      <4>11. P \in Seq(Int) /\ Len(P) = k - i
        <5>1. \A j \in 1..(k - i) : i + j - 1 \in i..k
          BY <4>5
        <5>2. P = [j \in 1..(k - i) |-> P[j]]
          BY <4>5
        <5> HIDE DEF P
        <5>3. P \in [1..(k - i) -> Int]
          BY <4>9, <4>10, <5>1, <5>2
        <5>4. DOMAIN P = 1..(k - i) /\ k - i \in Nat
          BY <4>5, <5>2
        <5> QED
          BY <5>3, <5>4
      <4> HIDE DEF P
      <4>12. TileRowBd(pic, R1(slices[i])) + Boundaries(P)[k - i + 1] = Y1(slices[k])
        BY <1>1, <4>3, <4>5, <4>7, <4>10, <4>11, StripsStack
      <4>13. k - i + 1 = c
        BY <4>5
      <4>14. /\ TileRowBd(pic, y) \in Nat /\ TileRowBd(pic, y + 1) \in Nat
             /\ TileRowBd(pic, y + 1) = TileRowBd(pic, y) + pic.rows[y + 1] /\ pic.rows[y + 1] \in Nat
        <5>1. y \in 0..(l - 1)
          BY <1>4, <3>2
        <5>2. y \in 0..l /\ y + 1 \in 0..l /\ pic.height \in Nat
          BY <1>3, <5>1, TileRows
        <5>3. TileRowBd(pic, y) \in 0..pic.height /\ TileRowBd(pic, y + 1) \in 0..pic.height
          BY <5>2, TileRows
        <5>4. pic.rows \in Seq(Positive) /\ pic.height \in Positive
              /\ Boundaries(pic.rows)[Len(pic.rows) + 1] = pic.height
          BY DEF IsTiled
        <5>5. y \in 0..(Len(pic.rows) - 1) /\ y + 1 \in 1..Len(pic.rows)
          BY <1>3, <5>1 DEF NumTileRows
        <5>6. Boundaries(pic.rows)[(y + 1) + 1] = Boundaries(pic.rows)[y + 1] + pic.rows[y + 1]
          BY <5>4, <5>5, PartsMean
        <5>7. pic.rows[y + 1] \in Positive
          BY <5>4, <5>5
        <5> QED
          BY <5>2, <5>3, <5>6, <5>7 DEF TileRowBd, Positive
      <4>15. Y1(slices[k]) < TileRowBd(pic, y + 1) /\ Y1(slices[k]) \in Nat
        <5>1. slices[k] \in Rectangle /\ R1(slices[k]) = y
          <6>1. k \in i..k
            BY <4>5
          <6> QED
            BY <1>1, <3>2, <4>5, <4>8, <6>1
        <5>2. Y1(slices[k]) \in 0..(pic.height - 1) /\ pic.height \in Nat
          BY <5>1, RectangleParts
        <5>3. Y1(slices[k]) < TileRowBd(pic, CtuToTileRow(pic, Y1(slices[k])) + 1)
          BY <5>2, TileRows
        <5> QED
          BY <5>1, <5>2, <5>3 DEF R1
      <4>16. Boundaries(P)[c] \in Int
        <5>1. Boundaries(P) \in [1..(Len(P) + 1) -> Int]
          BY <4>11, BoundariesMeans
        <5>2. c \in 1..(Len(P) + 1)
          BY <4>5, <4>11
        <5> QED
          BY <5>1, <5>2
      <4>17. Boundaries(P)[c] < pic.rows[y + 1]
        <5> DEFINE e == TileRowBd(pic, y)  f == TileRowBd(pic, y + 1)  g == Boundaries(P)[c]
                   h == pic.rows[y + 1]  z == Y1(slices[k])
        <5>1. e + g = z /\ z < f /\ f = e + h /\ e \in Nat /\ f \in Nat /\ g \in Int /\ h \in Nat /\ z \in Nat
          BY <3>2, <4>12, <4>13, <4>14, <4>15, <4>16
        <5> HIDE DEF e, f, g, h, z
        <5>2. g < h
          BY <5>1
        <5> QED
          BY <5>2 DEF g, h
      <4> QED
        BY <4>4, <4>17 DEF c, P
    <3> QED
      BY <3>2, <3>3, <3>4
  <2> QED
    BY <2>1, <2>2
<1>9. DOMAIN rects = 1..n
  BY <1>6
<1> QED
  BY <1>6, <1>8, <1>9 DEF IsSignalling, rects, given

\* Their map is a slice map, and has the configured slices.
LEMMA RectMakesMap ==
  ASSUME IsTiled(pic), Drawn(slices), Complete(slices)
  PROVE  /\ Len(slices) > 0 /\ IsRectSignalling(pic, Configured.rects)
         /\ \A i \in DOMAIN slices : ToSet(RectSliceMap(pic, Configured.rects)[i]) = CtusIn(slices[i])
<1> DEFINE n == Len(slices)  map == RectSliceMap(pic, Configured.rects)
<1>1. slices \in Seq(Rectangle) /\ n \in Nat /\ \A k \in 1..n : slices[k] \in Rectangle
  BY DEF Drawn
<1>2. DOMAIN Configured.rects = 1..n /\ Configured.rects \in Seq(RectSlice)
  BY <1>1, ConfiguredMeans
<1>3. n > 0
  <2>1. pic.width - 1 \in 0..(pic.width - 1) /\ pic.height - 1 \in 0..(pic.height - 1)
    <3>1. pic.width \in Nat /\ pic.width >= 1 /\ pic.height \in Nat /\ pic.height >= 1
      BY TileColumns, TileRows
    <3> QED
      BY <3>1
  <2>2. \E i \in 1..n : Has(slices[i], pic.width - 1, pic.height - 1)
    BY <2>1 DEF Complete
  <2> QED
    BY <1>1, <2>2
<1>4. IsSignalling(pic, Configured.rects)
  BY <1>3, RectSignalled
<1>5. DOMAIN map = 1..n /\ map = [s \in 1..n |-> map[s]]
  <2> HIDE DEF map
  <2>1. DOMAIN map = 1..n
    BY <1>2 DEF RectSliceMap, map
  <2>2. map = [s \in DOMAIN map |-> map[s]]
    BY DEF RectSliceMap, map
  <2> QED
    BY <2>1, <2>2
<1>6. \A s \in 1..n : /\ InOrder(pic, map[s]) /\ Ascends(pic, map[s])
                      /\ \A k \in 1..Len(map[s]) : map[s][k] \in CtusOfPicture(pic)
                      /\ ListFor(slices[s], map[s])
  <2> TAKE s \in 1..n
  <2>1. InOrder(pic, map[s])
    BY <1>2, <1>4, RectInOrder
  <2>2. ListFor(slices[s], map[s])
    BY RectLists
  <2> QED
    BY <2>1, <2>2 DEF ListFor
<1> HIDE DEF map
<1>7. ASSUME NEW c \in CtusOfPicture(pic)
      PROVE  /\ \E s \in 1..n : In(c, map[s])
             /\ \A s, t \in 1..n : In(c, map[s]) /\ In(c, map[t]) => s = t
  <2> DEFINE x == CtuX(pic, c)  y == CtuY(pic, c)
  <2>1. x \in 0..(pic.width - 1) /\ y \in 0..(pic.height - 1)
    BY CtuPlace
  <2>2. x \in Nat /\ y \in Nat
    BY <2>1
  <2>3. \A s \in 1..n : In(c, map[s]) <=> Has(slices[s], x, y)
    <3> TAKE s \in 1..n
    <3>1. In(c, map[s]) <=> c \in CtusIn(slices[s])
      BY <1>6 DEF ListFor
    <3>2. slices[s] \in Rectangle
      BY <1>1
    <3> QED
      BY <3>1, <3>2, InSlice
  <2> HIDE DEF x, y
  <2>4. \E s \in 1..n : Has(slices[s], x, y)
    BY <2>1 DEF Complete
  <2>5. \A s, t \in 1..n : Has(slices[s], x, y) /\ Has(slices[t], x, y) => s = t
    BY <2>2 DEF Drawn, Apart
  <2> QED
    BY <2>3, <2>4, <2>5
<1>8. IsSliceMap(pic, map)
  BY <1>1, <1>5, <1>6, <1>7, MakesSliceMap
<1>9. ASSUME NEW i \in 1..n PROVE ToSet(map[i]) = CtusIn(slices[i])
  <2>1. map[i] \in Seq(Nat)
    BY <1>6 DEF InOrder
  <2>2. DOMAIN map[i] = 1..Len(map[i])
    BY <2>1
  <2>3. \A c : c \in ToSet(map[i]) <=> In(c, map[i])
    BY <2>2 DEF ToSet, In
  <2>4. \A c : In(c, map[i]) => c \in CtusOfPicture(pic)
    BY <1>6 DEF In
  <2>5. \A c \in CtusOfPicture(pic) : In(c, map[i]) <=> c \in CtusIn(slices[i])
    BY <1>6 DEF ListFor
  <2>6. CtusIn(slices[i]) \subseteq CtusOfPicture(pic)
    BY <1>1, InSlice
  <2> QED
    BY <2>3, <2>4, <2>5, <2>6
<1>10. DOMAIN slices = 1..n
  BY <1>1
<1> QED
  BY <1>3, <1>4, <1>8, <1>9, <1>10 DEF IsRectSignalling, map

\* So is the map of raster-scan slices that have all tiles.
LEMMA RasterMakesMap ==
  ASSUME NEW p, IsTiled(p), NEW sizes \in Seq(Positive),
         Boundaries(sizes)[Len(sizes) + 1] = NumTiles(p)
  PROVE  IsSliceMap(p, RasterSliceMap(p, sizes))
<1> DEFINE n == Len(sizes)  map == RasterSliceMap(p, sizes)  first == Boundaries(sizes)
<1>1. n \in Nat /\ DOMAIN sizes = 1..n
  OBVIOUS
<1>2. DOMAIN map = 1..n /\ map = [s \in 1..n |-> map[s]]
  BY <1>1 DEF RasterSliceMap
<1>3. \A s \in 1..n : /\ InOrder(p, map[s]) /\ Ascends(p, map[s])
                      /\ \A k \in 1..Len(map[s]) :
                           /\ map[s][k] \in CtusOfPicture(p)
                           /\ first[s] <= TileIdx(p, map[s][k]) /\ TileIdx(p, map[s][k]) < first[s + 1]
  <2> TAKE s \in 1..n
  <2>1. InOrder(p, map[s])
    BY <1>1, RasterInOrder
  <2> QED
    BY <2>1, RasterTiles
<1>4. /\ first \in [1..(n + 1) -> Nat]
      /\ \A i \in 1..n : first[i + 1] = first[i] + sizes[i]
      /\ \A i, j \in 1..(n + 1) : i < j => first[i] < first[j]
  BY BoundariesIncrease
<1>5. NumTileCols(p) \in Nat /\ NumTileCols(p) >= 1 /\ NumTileRows(p) \in Nat
  BY TileColumns, TileRows
<1>6. ASSUME NEW c \in CtusOfPicture(p) PROVE \E s \in 1..n : In(c, map[s])
  <2> DEFINE t == TileIdx(p, c)  m == NumTileCols(p)  a == Col(p, c)  u == Row(p, c)
  <2>1. a \in 0..(m - 1) /\ u \in 0..(NumTileRows(p) - 1) /\ t = u * m + a /\ t \in Nat
    BY TileOf
  <2> HIDE DEF t, m, a, u
  <2>2. m \in Nat /\ u \in Nat /\ m >= 1
    BY <1>5, <2>1 DEF m
  <2>3. t < NumTiles(p) /\ t % m = a /\ t \div m = u
    <3>1. NumTiles(p) = m * NumTileRows(p) /\ m * NumTileRows(p) = NumTileRows(p) * m
      BY <1>5, <2>2 DEF NumTiles, m
    <3>2. (u + 1) * m <= NumTileRows(p) * m /\ u * m + m = (u + 1) * m
      BY <1>5, <2>1, <2>2
    <3>3. u * m \in Nat /\ NumTileRows(p) * m \in Nat
      BY <1>5, <2>2
    <3>4. t < NumTiles(p)
      BY <2>1, <2>2, <3>1, <3>2, <3>3
    <3> QED
      BY <2>1, <2>2, <3>4, TileDivides
  <2>4. PICK i \in 0..(n - 1) : Boundaries(sizes)[i + 1] <= t /\ t < Boundaries(sizes)[i + 2]
    BY <2>1, <2>3, InOnePart
  <2> DEFINE s == i + 1  k == t - first[s] + 1
             lists == [j \in 1..sizes[s] |-> CtusOfTiles(p, first[s] + j - 1, 1, 1)]
  <2>5. s \in 1..n /\ s \in 1..(n + 1) /\ s + 1 = i + 2 /\ s + 1 \in 1..(n + 1)
    BY <1>1
  <2>6. first[s] <= t /\ t < first[s + 1] /\ first[s + 1] = first[s] + sizes[s] /\ first[s] \in Nat
        /\ sizes[s] \in Nat
    <3>1. sizes[s] \in Positive
      BY <2>5
    <3> QED
      BY <1>4, <2>4, <2>5, <3>1 DEF Positive
  <2> HIDE DEF s, first
  <2>7. k \in 1..sizes[s] /\ first[s] + k - 1 = t
    BY <2>1, <2>6
  <2> HIDE DEF k
  <2>8. lists[k] = CtusOfTiles(p, t, 1, 1)
    BY <2>7
  <2>9. lists[k] = CtusOfTile(p, a, u)
    BY <2>1, <2>3, <2>8, OneTile DEF m
  <2>10. In(c, lists[k])
    <3>1. \A d \in CtusOfPicture(p) : In(d, CtusOfTile(p, a, u)) <=> Col(p, d) = a /\ Row(p, d) = u
      BY <2>1, InTileList DEF m
    <3> QED
      BY <2>9, <3>1 DEF a, u
  <2>11. map[s] = FlattenSeq(lists)
    BY <1>1, <2>5 DEF RasterSliceMap, first
  <2>12. lists \in Seq(Seq(Nat)) /\ Len(lists) = sizes[s]
    <3>1. ASSUME NEW j \in 1..sizes[s] PROVE CtusOfTiles(p, first[s] + j - 1, 1, 1) \in Seq(Nat)
      <4> DEFINE v == first[s] + j - 1
      <4>1. v \in Nat /\ v < first[s + 1]
        BY <2>6
      <4>2. first[s + 1] <= NumTiles(p)
        <5>1. n + 1 \in 1..(n + 1) /\ (s + 1 = n + 1 \/ s + 1 < n + 1)
          BY <1>1, <2>5
        <5>2. first[n + 1] = NumTiles(p) /\ first[s + 1] \in Nat
          BY <1>4, <2>5 DEF first
        <5> QED
          BY <1>4, <2>5, <5>1, <5>2 DEF first
      <4>3. NumTiles(p) \in Nat
        BY <1>5 DEF NumTiles
      <4>4. v < NumTiles(p)
        BY <2>6, <4>1, <4>2, <4>3
      <4> HIDE DEF v
      <4>5. /\ v % NumTileCols(p) \in 0..(NumTileCols(p) - 1)
            /\ v \div NumTileCols(p) \in 0..(NumTileRows(p) - 1)
            /\ CtusOfTiles(p, v, 1, 1) = CtusOfTile(p, v % NumTileCols(p), v \div NumTileCols(p))
        BY <4>1, <4>4, OneTile
      <4>6. InOrder(p, CtusOfTile(p, v % NumTileCols(p), v \div NumTileCols(p)))
        BY <4>5, CtusOfTileMeans
      <4>7. CtusOfTiles(p, v, 1, 1) \in Seq(Nat)
        BY <4>5, <4>6 DEF InOrder
      <4> QED
        BY <4>7 DEF v
    <3>2. lists \in [1..sizes[s] -> Seq(Nat)]
      BY <3>1
    <3> HIDE DEF lists
    <3> QED
      BY <2>6, <3>2
  <2> HIDE DEF lists
  <2>13. In(c, FlattenSeq(lists))
    BY <2>7, <2>10, <2>12, InFlatten
  <2>14. In(c, map[s])
    BY <2>11, <2>13
  <2> QED
    BY <2>5, <2>14
<1> HIDE DEF map
<1>7. ASSUME NEW c \in CtusOfPicture(p), NEW s \in 1..n, NEW t \in 1..n, In(c, map[s]), In(c, map[t])
      PROVE  ~(s < t)
  <2> SUFFICES ASSUME s < t PROVE FALSE
    OBVIOUS
  <2>1. TileIdx(p, c) \in Nat
    BY TileOf
  <2>2. TileIdx(p, c) < first[s + 1] /\ first[t] <= TileIdx(p, c)
    BY <1>3, <1>7 DEF In
  <2>3. s + 1 \in 1..(n + 1) /\ t \in 1..(n + 1) /\ (s + 1 = t \/ s + 1 < t)
    BY <1>1
  <2>4. first[s + 1] \in Nat /\ first[t] \in Nat /\ first[s + 1] <= first[t]
    <3> HIDE DEF first
    <3>1. first[s + 1] \in Nat /\ first[t] \in Nat
      BY <1>4, <2>3
    <3> QED
      BY <1>4, <2>3, <3>1
  <2> QED
    BY <2>1, <2>2, <2>4
<1>8. \A c \in CtusOfPicture(p) : \A s, t \in 1..n : In(c, map[s]) /\ In(c, map[t]) => s = t
  BY <1>1, <1>7
<1> QED
  BY <1>1, <1>2, <1>3, <1>6, <1>8, MakesSliceMap DEF map

-----------------------------------------------------------------------------
(* The heights of the slices of a tile.                                     *)

\* How often a height fits into so many times itself and some more.
LEMMA FitsOften ==
  ASSUME NEW k \in Nat, NEW u \in Nat, NEW v \in Nat, v < u
  PROVE  (k * u + v) \div u = k /\ (k * u + v) % u = v
<1>1. v \in 0..(u - 1)
  OBVIOUS
<1> QED
  BY <1>1, TileDivides

\* A sequence made of three parts.
LEMMA ThreeParts ==
  ASSUME NEW h \in Seq(Int), NEW s \in Seq(Int), NEW a \in Seq(Int), NEW b \in Seq(Int),
         Len(h) = Len(s) + Len(a) + Len(b), \A i \in 1..Len(s) : s[i] = h[i],
         \A i \in 1..Len(a) : a[i] = h[Len(s) + i], \A i \in 1..Len(b) : b[i] = h[Len(s) + Len(a) + i]
  PROVE  s \o a \o b = h
<1> DEFINE x == s \o a  r == x \o b
<1>1. /\ x \in Seq(Int) /\ Len(x) = Len(s) + Len(a)
      /\ \A i \in 1..(Len(s) + Len(a)) : x[i] = IF i <= Len(s) THEN s[i] ELSE a[i - Len(s)]
  BY ConcatProperties
<1> HIDE DEF x
<1>2. /\ r \in Seq(Int) /\ Len(r) = Len(x) + Len(b)
      /\ \A i \in 1..(Len(x) + Len(b)) : r[i] = IF i <= Len(x) THEN x[i] ELSE b[i - Len(x)]
  BY <1>1, ConcatProperties
<1> HIDE DEF r
<1>3. Len(s) \in Nat /\ Len(a) \in Nat /\ Len(b) \in Nat
  OBVIOUS
<1> DEFINE p == Len(s)  q == Len(a)  w == Len(b)
<1>4. p \in Nat /\ q \in Nat /\ w \in Nat /\ Len(h) = p + q + w /\ Len(x) = p + q
  BY <1>1, <1>3
<1>5. ASSUME NEW i \in 1..Len(h) PROVE r[i] = h[i]
  <2>1. /\ i \in Nat /\ i >= 1 /\ i <= p + q + w /\ i \in 1..(Len(x) + Len(b))
        /\ r[i] = IF i <= p + q THEN x[i] ELSE b[i - (p + q)]
    <3> HIDE DEF p, q
    <3>1. i \in 1..(p + q + w)
      BY <1>4, <1>5
    <3>2. i \in 1..(Len(x) + Len(b))
      BY <1>4, <3>1
    <3> QED
      BY <1>2, <1>4, <3>1, <3>2
  <2>2. CASE i <= p
    <3>1. i \in 1..p /\ i \in 1..(p + q) /\ i <= p + q
      BY <1>4, <2>1, <2>2
    <3>2. x[i] = s[i] /\ s[i] = h[i]
      BY <1>1, <2>2, <3>1
    <3> QED
      BY <2>1, <3>1, <3>2
  <2>3. CASE i > p /\ i <= p + q
    <3>1. i - p \in 1..q /\ i \in 1..(p + q) /\ p + (i - p) = i /\ ~(i <= p)
      BY <1>4, <2>1, <2>3
    <3>2. x[i] = a[i - p]
      BY <1>1, <3>1
    <3>3. a[i - p] = h[p + (i - p)]
      BY <3>1
    <3> QED
      BY <2>1, <2>3, <3>1, <3>2, <3>3
  <2>4. CASE i > p + q
    <3>1. i - (p + q) \in 1..w /\ p + q + (i - (p + q)) = i /\ ~(i <= p + q)
      BY <1>4, <2>1, <2>4, SMTT(60)
    <3>2. b[i - (p + q)] = h[p + q + (i - (p + q))]
      BY <3>1
    <3> QED
      BY <2>1, <3>1, <3>2
  <2> QED
    BY <1>4, <2>1, <2>2, <2>3, <2>4
<1>6. Len(r) = Len(h)
  BY <1>2, <1>4
<1>7. r = h
  BY <1>2, <1>5, <1>6, SeqEqual
<1> QED
  BY <1>7 DEF r, x

\* From the heights that are written the reader has all of them: it repeats the last
\* of them, and gives what is left to the last slice.
LEMMA HeightsSurvive ==
  ASSUME NEW h \in Seq(Positive), Len(h) > 1
  PROVE  LET e == NumExpSlices(h)
         IN /\ e \in 1..Len(h)
            /\ ReadHeights([j \in 1..e |-> h[j]], Boundaries(h)[Len(h) + 1]) = h
<1> DEFINE m == Len(h)  e == NumExpSlices(h)  s == [j \in 1..e |-> h[j]]
           total == Boundaries(h)[m + 1]  u == h[e]  rest == total - Boundaries(s)[e + 1]
           S == {k \in 1..(m - 1) : \A j \in k..(m - 1) : h[j] = h[m - 1]}
           more == [i \in 1..(rest \div u) |-> u]  one == If(rest % u > 0, <<rest % u>>)
<1>1. m \in Nat /\ m > 1 /\ \A j \in 1..m : h[j] \in Nat /\ h[j] >= 1
  <2>1. m \in Nat /\ m > 1
    OBVIOUS
  <2>2. \A j \in 1..m : h[j] \in Positive
    OBVIOUS
  <2> QED
    BY <2>1, <2>2 DEF Positive
<1>2. \/ h[m - 1] < h[m] /\ e = m
      \/ /\ h[m] <= h[m - 1] /\ e \in 1..(m - 1)
         /\ \A j \in e..(m - 1) : h[j] = h[m - 1]
  <2>1. S \in SUBSET Nat /\ m - 1 \in S
    BY <1>1
  <2>2. Min(S) \in S
    <3> HIDE DEF S
    <3> QED
      BY <2>1, LeastOfAll
  <2>3. m - 1 \in 1..m /\ m \in 1..m
    BY <1>1
  <2>4. h[m - 1] \in Nat /\ h[m] \in Nat
    BY <1>1, <2>3
  <2>5. e = IF h[m - 1] < h[m] THEN m ELSE Min(S)
    BY <1>1 DEF NumExpSlices
  <2> HIDE DEF e, m
  <2> QED
    BY <2>2, <2>4, <2>5
<1>3. e \in 1..m /\ e \in Nat
  BY <1>1, <1>2
<1> HIDE DEF e
<1>4. s \in Seq(Positive) /\ Len(s) = e /\ s[e] = u /\ u \in Nat /\ u >= 1
  <2>1. \A j \in 1..e : j \in 1..m
    BY <1>1, <1>3
  <2>2. s \in [1..e -> Positive]
    BY <2>1
  <2>3. s \in Seq(Positive) /\ Len(s) = e
    <3> HIDE DEF s
    <3> QED
      BY <1>3, <2>2
  <2> QED
    BY <1>1, <1>3, <2>3
<1>5. h \in Seq(Int) /\ s \in Seq(Int)
  BY <1>4 DEF Positive
<1>6. Boundaries(s)[e + 1] = Boundaries(h)[e + 1]
  <2>1. \A i \in 1..e : s[i] = h[i]
    OBVIOUS
  <2>2. e <= Len(s) /\ e <= Len(h) /\ e + 1 \in 1..(e + 1)
    BY <1>1, <1>3, <1>4
  <2> HIDE DEF s
  <2> QED
    BY <1>3, <1>5, <2>1, <2>2, BoundariesPrefix
<1>7. /\ Boundaries(h) \in [1..(m + 1) -> Int]
      /\ \A i \in 1..m : Boundaries(h)[i + 1] = Boundaries(h)[i] + h[i]
  BY <1>5, BoundariesMeans
<1>8. ReadHeights(s, total) = s \o more \o one
  <2> HIDE DEF s
  <2> QED
    BY <1>4, SMTT(60) DEF ReadHeights
<1>9. CASE e = m
  <2>1. rest = 0
    <3>1. m + 1 \in 1..(m + 1)
      BY <1>1
    <3>2. Boundaries(h)[m + 1] \in Int
      BY <1>7, <3>1
    <3> QED
      BY <1>6, <1>9, <3>2
  <2>2. rest \div u = 0 /\ rest % u = 0
    BY <1>4, <2>1
  <2>3. more = << >> /\ one = << >>
    <3>1. 1..0 = {}
      OBVIOUS
    <3>2. one = << >>
      <4> HIDE DEF rest
      <4> QED
        BY <2>2 DEF If
    <3> HIDE DEF rest, u
    <3> QED
      BY <2>2, <3>1, <3>2
  <2>4. s = h
    BY <1>9
  <2>5. h \o << >> \o << >> = h
    OBVIOUS
  <2> QED
    BY <1>3, <1>8, <2>3, <2>4, <2>5 DEF e
<1>10. CASE e < m
  <2> DEFINE v == h[m]  P(j) == Boundaries(h)[j + 1] = Boundaries(h)[e + 1] + (j - e) * u
             T == {j \in e..(m - 1) : P(j)}
  <2>1. /\ e \in 1..(m - 1) /\ \A j \in e..(m - 1) : h[j] = u
        /\ v \in Nat /\ v >= 1 /\ v <= u
    <3>1. /\ e \in 1..(m - 1) /\ h[m] <= h[m - 1]
          /\ \A j \in e..(m - 1) : h[j] = h[m - 1]
      BY <1>1, <1>2, <1>10
    <3>2. e \in e..(m - 1) /\ m \in 1..m
      BY <1>1, <3>1
    <3> QED
      BY <1>1, <3>1, <3>2
  <2>2. T = e..(m - 1)
    <3>1. e \in T
      <4>1. e \in e..(m - 1) /\ (e - e) * u = 0 /\ e + 1 \in 1..(m + 1)
        BY <1>1, <1>4, <2>1
      <4>2. Boundaries(h)[e + 1] \in Int
        BY <1>7, <4>1
      <4> QED
        BY <4>1, <4>2
    <3>2. ASSUME NEW j \in T, j < m - 1 PROVE j + 1 \in T
      <4>1. j \in e..(m - 1) /\ j + 1 \in e..(m - 1) /\ j + 1 \in 1..m /\ j \in Nat /\ j + 1 \in 1..(m + 1)
        BY <1>1, <1>3, <2>1, <3>2
      <4>2. Boundaries(h)[(j + 1) + 1] = Boundaries(h)[j + 1] + u
        BY <1>7, <2>1, <4>1
      <4>3. ((j + 1) - e) * u = (j - e) * u + u /\ (j - e) * u \in Int
        BY <1>3, <1>4, <4>1
      <4>4. Boundaries(h)[e + 1] \in Int
        <5>1. e + 1 \in 1..(m + 1)
          BY <1>1, <2>1
        <5> QED
          BY <1>7, <5>1
      <4>5. Boundaries(h)[j + 1] = Boundaries(h)[e + 1] + (j - e) * u
        BY <3>2
      <4> DEFINE a == Boundaries(h)[(j + 1) + 1]  b == Boundaries(h)[j + 1]  c == Boundaries(h)[e + 1]
                 d == ((j + 1) - e) * u  g == (j - e) * u
      <4> HIDE DEF a, b, c, d, g
      <4>6. a = c + d
        BY <1>4, <4>2, <4>3, <4>4, <4>5, SMTT(60) DEF a, b, c, d, g
      <4>7. P(j + 1)
        BY <4>6 DEF a, c, d
      <4>8. j + 1 \in e..(m - 1)
        BY <4>1
      <4> HIDE DEF m, P
      <4> QED
        BY <4>7, <4>8
    <3>3. T \in SUBSET (e..(m - 1)) /\ e <= m - 1 /\ m - 1 \in Nat
      BY <1>1, <2>1
    <3> HIDE DEF T, m
    <3> QED
      BY <1>3, <3>1, <3>2, <3>3, InductionUpTo
  <2>3. rest = (m - 1 - e) * u + v
    <3>1. m - 1 \in T
      <4>1. m - 1 \in e..(m - 1)
        BY <1>1, <2>1
      <4> HIDE DEF T
      <4> QED
        BY <2>2, <4>1
    <3>2. Boundaries(h)[m] = Boundaries(h)[e + 1] + (m - 1 - e) * u
      <4>1. (m - 1) + 1 = m
        BY <1>1
      <4> QED
        BY <3>1, <4>1
    <3>3. m \in 1..m /\ m \in 1..(m + 1) /\ e + 1 \in 1..(m + 1) /\ (m - 1 - e) * u \in Int
      BY <1>1, <1>4, <2>1
    <3>4. total = Boundaries(h)[m] + v
      BY <1>7, <3>3
    <3>5. Boundaries(h)[m] \in Int /\ Boundaries(h)[e + 1] \in Int
      BY <1>7, <3>3
    <3> QED
      BY <1>6, <2>1, <3>2, <3>3, <3>4, <3>5
  <2> HIDE DEF T, rest
  <2>4. m - 1 - e \in Nat /\ m - e \in Nat
    BY <1>1, <2>1
  <2>5. \/ v = u /\ rest \div u = m - e /\ rest % u = 0
        \/ v < u /\ rest \div u = m - 1 - e /\ rest % u = v
    <3> DEFINE d == m - 1 - e
    <3>1. d \in Nat /\ m - e = d + 1 /\ rest = d * u + v
      BY <1>1, <1>3, <2>3, <2>4
    <3> HIDE DEF u, v, m, d
    <3>2. CASE v < u
      <4>1. (d * u + v) \div u = d /\ (d * u + v) % u = v
        BY <1>4, <2>1, <3>1, <3>2, FitsOften, ZenonT(60)
      <4>2. rest \div u = m - 1 - e /\ rest % u = v
        BY <3>1, <4>1 DEF d
      <4> QED
        BY <3>2, <4>2
    <3>3. CASE v = u
      <4>1. PICK k \in Nat : k = d + 1
        BY <3>1
      <4>2. d * u + u = k * u + 0
        BY <1>4, <3>1, <4>1
      <4>3. 0 \in Nat /\ 0 < u /\ u \in Nat
        BY <1>4
      <4>4. (k * u + 0) \div u = k /\ (k * u + 0) % u = 0
        BY <4>3, FitsOften
      <4>5. rest \div u = m - e /\ rest % u = 0
        BY <3>1, <3>3, <4>1, <4>2, <4>4
      <4> QED
        BY <3>3, <4>5
    <3> QED
      BY <1>4, <2>1, <3>2, <3>3
  <2> DEFINE k == rest \div u
  <2>6. /\ k \in Nat /\ more \in Seq(Int) /\ Len(more) = k /\ \A i \in 1..k : more[i] = u
    <3>1. k \in Nat
      BY <2>4, <2>5
    <3>2. more = [i \in 1..k |-> u]
      OBVIOUS
    <3> HIDE DEF k, more, u
    <3>3. more \in [1..k -> Int]
      BY <1>4, <3>2
    <3> QED
      BY <3>1, <3>2, <3>3
  <2>7. one = IF v = u THEN << >> ELSE <<v>>
    <3> HIDE DEF u, v, m
    <3>1. CASE v = u
      <4>1. ~(rest % u > 0)
        BY <1>4, <2>5, <3>1
      <4> QED
        BY <3>1, <4>1 DEF If
    <3>2. CASE v # u
      <4>1. rest % u = v /\ v > 0
        BY <1>4, <2>1, <2>5, <3>2
      <4> QED
        BY <3>2, <4>1 DEF If
    <3> QED
      BY <3>1, <3>2
  <2>8. one \in Seq(Int) /\ Len(one) = (IF v = u THEN 0 ELSE 1) /\ (v # u => one[1] = v)
    <3> HIDE DEF u, v, one
    <3>1. CASE v = u
      BY <2>7, <3>1
    <3>2. CASE v # u
      <4>1. one = <<v>> /\ v \in Int
        BY <2>1, <2>7, <3>2
      <4> QED
        BY <3>2, <4>1
    <3> QED
      BY <3>1, <3>2
  <2>9. \A i \in 1..k : h[e + i] = u
    <3> TAKE i \in 1..k
    <3>1. e + i \in e..(m - 1) \/ (e + i = m /\ v = u)
      <4> HIDE DEF v, u, m
      <4>1. m \in Nat /\ i \in Nat /\ i >= 1 /\ i <= k
        BY <1>1, <2>6
      <4>2. (v = u /\ k = m - e) \/ k = m - 1 - e
        BY <2>5
      <4> HIDE DEF k
      <4> QED
        BY <1>3, <4>1, <4>2
    <3> QED
      BY <2>1, <3>1
  <2>10. \A i \in 1..Len(one) : one[i] = h[e + k + i]
    <3> TAKE i \in 1..Len(one)
    <3>1. v # u /\ i = 1
      BY <2>8
    <3>2. e + k + i = m
      BY <1>1, <1>3, <2>5, <3>1
    <3> QED
      BY <2>8, <3>1, <3>2
  <2>11. m = e + k + Len(one)
    BY <1>1, <1>3, <2>5, <2>8
  <2>12. \A i \in 1..e : s[i] = h[i]
    OBVIOUS
  <2> HIDE DEF s, more, one, k, u, v
  <2>13. s \o more \o one = h
    <3>1. \A i \in 1..Len(more) : more[i] = h[Len(s) + i]
      BY <1>4, <2>6, <2>9
    <3>2. \A i \in 1..Len(one) : one[i] = h[Len(s) + Len(more) + i]
      BY <1>4, <2>6, <2>10
    <3>3. Len(h) = Len(s) + Len(more) + Len(one) /\ \A i \in 1..Len(s) : s[i] = h[i]
      BY <1>4, <2>6, <2>11, <2>12 DEF m
    <3>4. more \in Seq(Int) /\ one \in Seq(Int)
      BY <2>6, <2>8
    <3> QED
      BY <1>5, <3>1, <3>2, <3>3, <3>4, ThreeParts, ZenonT(60)
  <2> QED
    BY <1>3, <1>8, <2>13 DEF s, e, m, total
<1> QED
  BY <1>1, <1>3, <1>9, <1>10

-----------------------------------------------------------------------------
(* What is written of the configured slices.                                *)

\* Tile indices are written unless every slice follows the one before it.
LEMMA DeltaMeans ==
  ASSUME IsTiled(pic), slices \in Seq(Rectangle)
  PROVE  /\ Configured.tileIdxDeltaPresent \in BOOLEAN
         /\ Configured.tileIdxDeltaPresent <=>
              \E i \in 2..Len(slices) : ~SameTile(slices, i) /\ ~NextFollows(i)
<1> DEFINE n == Len(slices)  R == Configured.rects
           inTile(k) == R[k].width = 1 /\ R[k].height = 1
           sameTile(k) == k > 1 /\ inTile(k) /\ inTile(k - 1) /\ R[k].tileIdx = R[k - 1].tileIdx
           startCol(k) == CtuToTileCol(pic, CtuX(pic, slices[k].first))
           startRow(k) == CtuToTileRow(pic, CtuY(pic, slices[k].first))
           width(k) == CtuToTileCol(pic, CtuX(pic, slices[k].last)) - startCol(k) + 1
           height(k) == CtuToTileRow(pic, CtuY(pic, slices[k].last)) - startRow(k) + 1
           tile(k) == startRow(k) * NumTileCols(pic) + startCol(k)
           one(k) == width(k) = 1 /\ height(k) = 1
           same(k) == k > 1 /\ one(k) /\ one(k - 1) /\ tile(k) = tile(k - 1)
           delta == \E i \in 2..n : ~same(i) /\ NextTileIdx(R[i - 1]) # R[i].tileIdx
<1>1. n \in Nat
  BY SMTT(60)
<1>2. Configured.tileIdxDeltaPresent = delta
  BY SMTT(60) DEF Configured
<1>3. \A k \in 1..n : R[k].width = width(k) /\ R[k].height = height(k) /\ R[k].tileIdx = tile(k)
  BY DEF Configured
<1> HIDE DEF R, width, height, tile
<1>4. ASSUME NEW k \in 2..n PROVE same(k) <=> SameTile(slices, k)
  <2>1. k \in 1..n /\ k - 1 \in 1..n /\ k > 1
    BY <1>1
  <2> DEFINE p == slices[k - 1]  s == slices[k]  m == NumTileCols(pic)
             a == C1(s)  b == C1(p)  u == R1(s)  v == R1(p)
  <2>2. /\ R[k].width = C2(s) - C1(s) + 1 /\ R[k].height = R2(s) - R1(s) + 1
        /\ R[k].tileIdx = u * m + a
    BY <2>1, ConfiguredRect DEF R
  <2>3. /\ R[k - 1].width = C2(p) - C1(p) + 1 /\ R[k - 1].height = R2(p) - R1(p) + 1
        /\ R[k - 1].tileIdx = v * m + b
    BY <2>1, ConfiguredRect DEF R
  <2>4. /\ m \in Nat /\ a \in 0..(m - 1) /\ b \in 0..(m - 1) /\ C2(s) \in Int /\ C2(p) \in Int
    <3>1. s \in Rectangle /\ p \in Rectangle
      BY <2>1
    <3> DEFINE d == C2(s)  e == C2(p)
    <3>2. /\ m \in Nat /\ a \in 0..(m - 1) /\ b \in 0..(m - 1)
          /\ d \in 0..(m - 1) /\ e \in 0..(m - 1)
      BY <3>1, RectangleParts, TileColumns
    <3> HIDE DEF a, b, d, e, m
    <3>3. d \in Int /\ e \in Int
      BY <3>2
    <3> QED
      BY <3>2, <3>3 DEF d, e
  <2>5. u \in Nat /\ v \in Nat /\ R2(s) \in Int /\ R2(p) \in Int
    <3>1. s \in Rectangle /\ p \in Rectangle
      BY <2>1
    <3>2. u \in 0..(NumTileRows(pic) - 1) /\ v \in 0..(NumTileRows(pic) - 1)
          /\ R2(s) \in 0..(NumTileRows(pic) - 1) /\ R2(p) \in 0..(NumTileRows(pic) - 1)
      BY <3>1, RectangleParts
    <3> HIDE DEF u, v
    <3> QED
      BY <3>2, TileRows
  <2>6. one(k) <=> InOne(s)
    <3>1. width(k) = C2(s) - a + 1 /\ height(k) = R2(s) - u + 1
      BY <1>3, <2>1, <2>2
    <3> HIDE DEF a, u
    <3> DEFINE d == C2(s)  e == R2(s)
    <3>2. a \in Int /\ d \in Int /\ u \in Int /\ e \in Int
      BY <2>4, <2>5
    <3> HIDE DEF d, e
    <3>3. (d - a + 1 = 1 <=> d = a) /\ (e - u + 1 = 1 <=> e = u)
      BY <3>2
    <3>4. one(k) <=> d = a /\ e = u
      BY <3>1, <3>3 DEF d, e
    <3> QED
      BY <3>4 DEF InOne, a, u, d, e
  <2>7. one(k - 1) <=> InOne(p)
    <3>1. width(k - 1) = C2(p) - b + 1 /\ height(k - 1) = R2(p) - v + 1
      BY <1>3, <2>1, <2>3
    <3> HIDE DEF b, v
    <3> DEFINE d == C2(p)  e == R2(p)
    <3>2. b \in Int /\ d \in Int /\ v \in Int /\ e \in Int
      BY <2>4, <2>5
    <3> HIDE DEF d, e
    <3>3. (d - b + 1 = 1 <=> d = b) /\ (e - v + 1 = 1 <=> e = v)
      BY <3>2
    <3>4. one(k - 1) <=> d = b /\ e = v
      BY <3>1, <3>3 DEF d, e
    <3> QED
      BY <3>4 DEF InOne, b, v, d, e
  <2>8. tile(k) = tile(k - 1) <=> a = b /\ u = v
    <3>1. tile(k) = u * m + a /\ tile(k - 1) = v * m + b
      BY <1>3, <2>1, <2>2, <2>3
    <3> HIDE DEF a, b, u, v, m
    <3>2. u * m + a = v * m + b => a = b /\ u = v
      BY <2>4, <2>5, TileNumbers
    <3> QED
      BY <3>1, <3>2
  <2> HIDE DEF one
  <2> QED
    BY <2>1, <2>6, <2>7, <2>8 DEF SameTile
<1> HIDE DEF same
<1> QED
  BY <1>2, <1>4 DEF NextFollows, R

\* The slices of a tile: they have its parameters, and their heights fill its row of tiles.
LEMMA TileRun ==
  ASSUME IsTiled(pic), Drawn(slices), NEW i \in 1..Len(slices), ~SameTile(slices, i), InOne(slices[i])
  PROVE  LET r == Configured.rects[i]
             c == r.slicesInTile
             heights == [j \in 1..c |-> Configured.rects[i + j - 1].ctuHeight]
         IN /\ c \in 1..(Len(slices) - i + 1) /\ Run(slices, i, c)
            /\ \A k \in i..(i + c - 1) :
                 LET q == Configured.rects[k]
                 IN q.tileIdx = r.tileIdx /\ q.width = 1 /\ q.height = 1
            /\ heights \in Seq(Positive) /\ Len(heights) = c
            /\ Boundaries(heights)[c + 1] = RowHeight(r.tileIdx) /\ RowHeight(r.tileIdx) \in Positive
<1> DEFINE n == Len(slices)  R == Configured.rects  r == R[i]  c == r.slicesInTile  k == i + c - 1
           H == [j \in 1..c |-> R[i + j - 1].ctuHeight]  P == [j \in 1..(c - 1) |-> H[j]]
           y == R1(slices[i])  B(q) == TileRowBd(pic, q)
<1>1. /\ slices \in Seq(Rectangle) /\ n \in Nat /\ \A q \in 1..n : slices[q] \in Rectangle
      /\ WholeTiles(slices)
  BY DEF Drawn
<1>2. c \in 1..(n - i + 1) /\ Run(slices, i, c)
  BY <1>1, ConfiguredRect
<1> HIDE DEF c
<1>3. k \in 1..n /\ k \in Nat /\ i \in Nat /\ c \in Nat /\ k >= i /\ k - i = c - 1 /\ c - 1 \in Nat /\ c >= 1
  BY <1>1, <1>2
<1>4. Leads(slices, i, k)
  <2>1. \A q \in (i + 1)..k : SameTile(slices, q)
    <3> TAKE q \in (i + 1)..k
    <3>1. q - i \in 1..(c - 1) /\ i + (q - i) = q
      BY <1>3
    <3> QED
      BY <1>2, <3>1 DEF Run
  <2>2. i \in 1..k
    BY <1>3
  <2> QED
    BY <2>1, <2>2 DEF Leads
<1> HIDE DEF k
<1>5. \A q \in i..k : /\ InOne(slices[q]) /\ q \in 1..n
                      /\ C1(slices[q]) = C1(slices[i]) /\ R1(slices[q]) = y
  <2> TAKE q \in i..k
  <2>1. q \in 1..n
    BY <1>1, <1>3
  <2> QED
    BY <1>1, <1>3, <1>4, <2>1, LeadMeans
<1>6. ASSUME NEW q \in i..k
      PROVE  /\ R[q].tileIdx = r.tileIdx /\ R[q].width = 1 /\ R[q].height = 1
             /\ R[q].ctuHeight = Y2(slices[q]) - Y1(slices[q]) + 1 /\ R[q].ctuHeight \in Positive
             /\ R[q].ctuHeight \in Int
  <2>1. q \in 1..n /\ InOne(slices[q]) /\ C1(slices[q]) = C1(slices[i]) /\ R1(slices[q]) = y
    BY <1>5
  <2>2. /\ R[q].tileIdx = R1(slices[q]) * NumTileCols(pic) + C1(slices[q])
        /\ r.tileIdx = y * NumTileCols(pic) + C1(slices[i])
        /\ R[q].width = C2(slices[q]) - C1(slices[q]) + 1
        /\ R[q].height = R2(slices[q]) - R1(slices[q]) + 1
        /\ R[q].ctuHeight = Y2(slices[q]) - Y1(slices[q]) + 1
    BY <1>1, <2>1, ConfiguredRect
  <2> DEFINE z == slices[q]  w == R[q]  a == Y1(z)  b == Y2(z)  d == C1(z)  e == R1(z)
  <2>3. a \in Nat /\ b \in Nat /\ a <= b /\ d \in Int /\ e \in Int
    <3>1. z \in Rectangle
      BY <1>1, <2>1
    <3>2. a \in 0..(pic.height - 1) /\ b \in 0..(pic.height - 1) /\ a <= b
          /\ d \in 0..(NumTileCols(pic) - 1) /\ e \in 0..(NumTileRows(pic) - 1)
      BY <3>1, RectangleParts
    <3> HIDE DEF a, b, d, e
    <3> QED
      BY <3>2
  <2>4. w.width = d - d + 1 /\ w.height = e - e + 1 /\ w.ctuHeight = b - a + 1
    BY <2>1, <2>2 DEF InOne
  <2> HIDE DEF a, b, d, e, w, R
  <2>5. w.width = 1 /\ w.height = 1 /\ w.ctuHeight \in Nat /\ w.ctuHeight # 0
    BY <2>3, <2>4
  <2>6. R[q].tileIdx = r.tileIdx
    BY <2>1, <2>2
  <2> QED
    BY <2>2, <2>5, <2>6 DEF Positive, w
<1> HIDE DEF R
<1>7. \A j \in 1..c : i + j - 1 \in i..k
  BY <1>3
<1>8. H \in Seq(Positive) /\ Len(H) = c /\ H \in Seq(Int)
  <2>1. H \in [1..c -> Positive]
    BY <1>6, <1>7
  <2>2. \A s \in Seq(Positive) : s \in Seq(Int)
    BY DEF Positive
  <2> HIDE DEF H
  <2>3. H \in Seq(Positive) /\ Len(H) = c
    BY <1>3, <2>1
  <2> QED
    BY <2>2, <2>3
<1>9. P \in Seq(Int) /\ Len(P) = c - 1 /\ \A j \in 1..(c - 1) : P[j] = H[j]
  <2>1. \A j \in 1..(c - 1) : H[j] \in Int
    <3> HIDE DEF H
    <3> QED
      BY <1>3, <1>8
  <2>2. P \in [1..(c - 1) -> Int]
    BY <2>1
  <2>3. \A j \in 1..(c - 1) : P[j] = H[j]
    OBVIOUS
  <2> HIDE DEF P, H
  <2> QED
    BY <1>3, <2>2, <2>3
<1>10. B(y) + Boundaries(P)[c] = Y1(slices[k])
  <2>1. \A j \in 1..(k - i) : P[j] = Y2(slices[i + j - 1]) - Y1(slices[i + j - 1]) + 1
    <3> TAKE j \in 1..(k - i)
    <3>1. j \in 1..(c - 1) /\ j \in 1..c /\ i + j - 1 \in i..k
      BY <1>3
    <3>2. P[j] = R[i + j - 1].ctuHeight
      BY <3>1
    <3> QED
      BY <1>6, <3>1, <3>2
  <2>2. Len(P) = k - i /\ k - i + 1 = c
    BY <1>3, <1>9
  <2> HIDE DEF P, B
  <2>3. TileRowBd(pic, R1(slices[i])) + Boundaries(P)[k - i + 1] = Y1(slices[k])
    BY <1>3, <1>4, <1>9, <2>1, <2>2, StripsStack
  <2> QED
    BY <2>2, <2>3 DEF B
<1>11. Boundaries(P)[c] = Boundaries(H)[c]
  <2>1. c - 1 <= Len(P) /\ c - 1 <= Len(H) /\ c \in 1..((c - 1) + 1)
    BY <1>3, <1>8, <1>9
  <2> HIDE DEF P, H
  <2> QED
    BY <1>3, <1>8, <1>9, <2>1, BoundariesPrefix
<1>12. Boundaries(H)[c + 1] = Boundaries(H)[c] + H[c] /\ Boundaries(H)[c] \in Int
  <2>1. c \in 1..Len(H) /\ c \in 1..(Len(H) + 1)
    BY <1>3, <1>8
  <2> HIDE DEF H
  <2> QED
    BY <1>8, <2>1, BoundariesMeans
<1>13. H[c] = Y2(slices[k]) - Y1(slices[k]) + 1
  <2>1. c \in 1..c /\ i + c - 1 = k /\ k \in i..k
    BY <1>3 DEF k
  <2>2. H[c] = R[k].ctuHeight
    BY <2>1
  <2> QED
    BY <1>6, <2>1, <2>2
<1>14. Y2(slices[k]) + 1 = B(y + 1)
  <2>1. k = n \/ ~SameTile(slices, k + 1)
    <3>1. CASE k < n
      <4>1. i + c <= n /\ i + c = k + 1
        BY <1>1, <1>3, <3>1
      <4> QED
        BY <1>2, <4>1 DEF Run
    <3> QED
      BY <1>1, <1>3, <3>1
  <2>2. ToBottom(slices[k])
    BY <1>1, <1>3, <2>1 DEF WholeTiles
  <2>3. R2(slices[k]) = y
    <3>1. k \in i..k
      BY <1>3
    <3> QED
      BY <1>5, <3>1 DEF InOne
  <2> QED
    BY <2>2, <2>3 DEF ToBottom
<1>15. /\ B(y + 1) = B(y) + pic.rows[y + 1] /\ B(y) \in Int /\ pic.rows[y + 1] \in Positive
       /\ RowHeight(r.tileIdx) = pic.rows[y + 1]
  <2>1. NumTileRows(pic) \in Nat /\ y \in 0..(NumTileRows(pic) - 1)
    BY <1>1, RectangleParts, TileRows
  <2>2. pic.rows \in Seq(Positive) /\ pic.height \in Positive
        /\ Boundaries(pic.rows)[Len(pic.rows) + 1] = pic.height
    BY DEF IsTiled
  <2> HIDE DEF y
  <2>3. y \in 0..(Len(pic.rows) - 1) /\ y + 1 \in 1..Len(pic.rows) /\ y \in 0..NumTileRows(pic)
    BY <2>1 DEF NumTileRows
  <2>4. Boundaries(pic.rows)[(y + 1) + 1] = Boundaries(pic.rows)[y + 1] + pic.rows[y + 1]
    BY <2>2, <2>3, PartsMean
  <2>5. B(y) \in 0..pic.height
    BY <2>3, TileRows
  <2>6. B(y) \in Int
    <3> HIDE DEF B
    <3> QED
      BY <2>5
  <2>7. pic.rows[y + 1] \in Positive
    BY <2>2, <2>3
  <2>8. r.tileIdx \div NumTileCols(pic) = y
    BY <1>1, RectPlaces DEF R, y
  <2> QED
    BY <2>4, <2>6, <2>7, <2>8 DEF TileRowBd, RowHeight
<1>16. Boundaries(H)[c + 1] = pic.rows[y + 1]
  <2> DEFINE a == Y1(slices[k])  b == Y2(slices[k])  u == B(y)  v == B(y + 1)  w == pic.rows[y + 1]
             e == Boundaries(H)[c]  f == Boundaries(H)[c + 1]  g == H[c]
  <2>1. a \in Int /\ b \in Int /\ w \in Int
    <3>1. slices[k] \in Rectangle
      BY <1>1, <1>3
    <3>2. a \in Nat /\ b \in Nat
      BY <3>1, HasCorners
    <3> HIDE DEF a, b
    <3> QED
      BY <1>15, <3>2 DEF Positive
  <2>2. u + e = a /\ f = e + g /\ g = b - a + 1 /\ b + 1 = v /\ v = u + w /\ e \in Int /\ u \in Int
    BY <1>10, <1>11, <1>12, <1>13, <1>14, <1>15
  <2> HIDE DEF a, b, u, v, w, e, f, g
  <2>3. f = w
    BY <2>1, <2>2
  <2> QED
    BY <2>3 DEF f, w
<1>17. \A q \in i..(i + c - 1) : R[q].tileIdx = r.tileIdx /\ R[q].width = 1 /\ R[q].height = 1
  BY <1>6 DEF k
<1> QED
  BY <1>2, <1>8, <1>15, <1>16, <1>17 DEF c, R

-----------------------------------------------------------------------------
(* Sequences one after the other.                                           *)

\* What the first sequences are together, one more of them comes after that, and stays
\* there when all of them are put together.
LEMMA FlattenParts ==
  ASSUME NEW T, NEW seqs \in Seq(Seq(T)), NEW i \in 1..Len(seqs)
  PROVE  LET before == FlattenSeq(SubSeq(seqs, 1, i - 1))
             all == FlattenSeq(seqs)
         IN /\ before \in Seq(T) /\ all \in Seq(T)
            /\ FlattenSeq(SubSeq(seqs, 1, i)) = before \o seqs[i]
            /\ \A k \in 1..Len(seqs[i]) :
                 Len(before) + k \in 1..Len(all) /\ all[Len(before) + k] = seqs[i][k]
<1> DEFINE n == Len(seqs)  Upto(j) == FlattenSeq(SubSeq(seqs, 1, j))  a == Upto(i - 1)
           There(j) == \A k \in 1..Len(seqs[i]) :
                         Len(a) + k \in 1..Len(Upto(j)) /\ Upto(j)[Len(a) + k] = seqs[i][k]
           S == {j \in i..n : There(j)}
<1>1. n \in Nat /\ i \in Nat /\ i >= 1 /\ i <= n /\ i - 1 \in 0..n
  OBVIOUS
<1>2. \A j \in 0..n : SubSeq(seqs, 1, j) \in Seq(Seq(T)) /\ Upto(j) \in Seq(T)
  <2> TAKE j \in 0..n
  <2>1. SubSeq(seqs, 1, j) \in Seq(Seq(T))
    OBVIOUS
  <2>2. Upto(j) \in Seq(T)
    <3>1. << >> \in Seq(T)
      OBVIOUS
    <3> QED
      BY <2>1, <3>1, FlattenAppend
  <2> QED
    BY <2>1, <2>2
<1>3. \A j \in 1..n : Upto(j) = Upto(j - 1) \o seqs[j]
  <2> TAKE j \in 1..n
  <2> DEFINE p == SubSeq(seqs, 1, j - 1)
  <2>1. j - 1 \in 0..n /\ seqs[j] \in Seq(T)
    OBVIOUS
  <2>2. p \in Seq(Seq(T))
    BY <1>2, <2>1
  <2>3. Append(p, seqs[j]) = SubSeq(seqs, 1, j)
    OBVIOUS
  <2>4. FlattenSeq(Append(p, seqs[j])) = FlattenSeq(p) \o seqs[j]
    BY <2>1, <2>2, FlattenAppend
  <2> QED
    BY <2>3, <2>4
<1>4. SubSeq(seqs, 1, n) = seqs
  OBVIOUS
<1> HIDE DEF Upto
<1>5. seqs[i] \in Seq(T) /\ a \in Seq(T)
  BY <1>1, <1>2
<1>6. i \in S
  <2>1. Upto(i) = a \o seqs[i]
    BY <1>1, <1>3
  <2> HIDE DEF a
  <2>2. /\ Upto(i) \in Seq(T) /\ Len(Upto(i)) = Len(a) + Len(seqs[i])
        /\ \A k \in 1..(Len(a) + Len(seqs[i])) :
             Upto(i)[k] = IF k <= Len(a) THEN a[k] ELSE seqs[i][k - Len(a)]
    BY <1>5, <2>1, ConcatProperties
  <2>3. There(i)
    <3> TAKE k \in 1..Len(seqs[i])
    <3>1. Len(a) \in Nat /\ Len(seqs[i]) \in Nat
      BY <1>5
    <3>2. Len(a) + k \in 1..(Len(a) + Len(seqs[i])) /\ ~(Len(a) + k <= Len(a)) /\ (Len(a) + k) - Len(a) = k
      BY <3>1
    <3> QED
      BY <2>2, <3>2
  <2> HIDE DEF There
  <2> QED
    BY <1>1, <2>3
<1>7. ASSUME NEW j \in S, j < n PROVE j + 1 \in S
  <2>1. j \in i..n /\ j + 1 \in i..n /\ j + 1 \in 1..n /\ (j + 1) - 1 = j /\ j \in 0..n
    BY <1>1, <1>7
  <2>2. There(j)
    OBVIOUS
  <2> DEFINE u == Upto(j)  v == Upto(j + 1)  s == seqs[j + 1]
  <2>3. v = u \o s /\ u \in Seq(T) /\ s \in Seq(T)
    <3>1. s \in Seq(T)
      BY <2>1
    <3>2. Upto(j + 1) = Upto((j + 1) - 1) \o seqs[j + 1]
      BY <1>3, <2>1
    <3> QED
      BY <1>2, <2>1, <3>1, <3>2
  <2>4. Len(v) = Len(u) + Len(s) /\ \A k \in 1..Len(u) : v[k] = u[k] /\ k \in 1..Len(v)
    <3> HIDE DEF u, v, s
    <3>1. /\ Len(v) = Len(u) + Len(s)
          /\ \A k \in 1..(Len(u) + Len(s)) : v[k] = IF k <= Len(u) THEN u[k] ELSE s[k - Len(u)]
      BY <2>3, ConcatProperties
    <3>2. Len(u) \in Nat /\ Len(s) \in Nat
      BY <2>3
    <3> QED
      BY <3>1, <3>2
  <2>5. There(j + 1)
    BY <2>2, <2>4
  <2> HIDE DEF There
  <2> QED
    BY <2>1, <2>5
<1>8. S = i..n
  <2>1. S \in SUBSET (i..n)
    OBVIOUS
  <2> HIDE DEF S
  <2> QED
    BY <1>1, <1>6, <1>7, <2>1, InductionUpTo
<1>9. There(n)
  <2>1. n \in S
    <3> HIDE DEF S
    <3> QED
      BY <1>1, <1>8
  <2> HIDE DEF There
  <2> QED
    BY <2>1
<1>10. Upto(n) = FlattenSeq(seqs) /\ Upto(n) \in Seq(T)
  <2>1. n \in 0..n
    BY <1>1
  <2>2. Upto(n) \in Seq(T)
    BY <1>2, <2>1
  <2> QED
    BY <1>4, <2>2 DEF Upto
<1> QED
  BY <1>1, <1>3, <1>5, <1>9, <1>10 DEF Upto

\* Sequences without elements add nothing.
LEMMA FlattenSkips ==
  ASSUME NEW T, NEW seqs \in Seq(Seq(T)), NEW i \in 0..Len(seqs), NEW j \in i..Len(seqs),
         \A k \in (i + 1)..j : seqs[k] = << >>
  PROVE  FlattenSeq(SubSeq(seqs, 1, j)) = FlattenSeq(SubSeq(seqs, 1, i))
<1> DEFINE Upto(k) == FlattenSeq(SubSeq(seqs, 1, k))  S == {k \in i..j : Upto(k) = Upto(i)}
<1>1. i \in Nat /\ j \in Nat /\ i <= j /\ j <= Len(seqs)
  OBVIOUS
<1>2. ASSUME NEW k \in S, k < j PROVE k + 1 \in S
  <2>1. k \in i..j /\ k + 1 \in 1..Len(seqs) /\ k + 1 \in (i + 1)..j /\ (k + 1) - 1 = k /\ k + 1 \in i..j
    BY <1>1, <1>2
  <2>2. Upto(k) \in Seq(T) /\ Upto(k + 1) = Upto(k) \o seqs[k + 1]
    BY <2>1, FlattenParts
  <2> HIDE DEF Upto
  <2>3. Upto(k + 1) = Upto(k)
    <3>1. seqs[k + 1] = << >>
      BY <2>1
    <3>2. Upto(k) \o << >> = Upto(k)
      BY <2>2, ConcatEmptySeq
    <3> QED
      BY <2>2, <3>1, <3>2
  <2> QED
    BY <2>1, <2>3
<1>3. i \in S
  BY <1>1
<1>4. S = i..j
  <2>1. S \in SUBSET (i..j)
    OBVIOUS
  <2> HIDE DEF S
  <2> QED
    BY <1>1, <1>2, <1>3, <2>1, InductionUpTo
<1>5. j \in S
  <2> HIDE DEF S
  <2> QED
    BY <1>1, <1>4
<1> QED
  BY <1>5

\* Four sequences one after the other.
LEMMA FourParts ==
  ASSUME NEW a \in Seq(Int), NEW b \in Seq(Int), NEW c \in Seq(Int), NEW d \in Seq(Int),
         NEW x, x = a \o b \o c \o d
  PROVE  /\ x \in Seq(Int) /\ Len(x) = Len(a) + Len(b) + Len(c) + Len(d)
         /\ \A k \in 1..Len(a) : x[k] = a[k]
         /\ \A k \in 1..Len(b) : x[Len(a) + k] = b[k]
         /\ \A k \in 1..Len(c) : x[Len(a) + Len(b) + k] = c[k]
         /\ \A k \in 1..Len(d) : x[Len(a) + Len(b) + Len(c) + k] = d[k]
<1> DEFINE p == a \o b  q == p \o c
<1>0. x = q \o d
  OBVIOUS
<1>1. /\ p \in Seq(Int) /\ Len(p) = Len(a) + Len(b)
      /\ \A k \in 1..(Len(a) + Len(b)) : p[k] = IF k <= Len(a) THEN a[k] ELSE b[k - Len(a)]
  BY ConcatProperties
<1> HIDE DEF p
<1>2. /\ q \in Seq(Int) /\ Len(q) = Len(p) + Len(c)
      /\ \A k \in 1..(Len(p) + Len(c)) : q[k] = IF k <= Len(p) THEN p[k] ELSE c[k - Len(p)]
  <2>1. p \in Seq(Int)
    BY <1>1
  <2> QED
    BY <2>1, ConcatProperties
<1> HIDE DEF q
<1>3. /\ x \in Seq(Int) /\ Len(x) = Len(q) + Len(d)
      /\ \A k \in 1..(Len(q) + Len(d)) : x[k] = IF k <= Len(q) THEN q[k] ELSE d[k - Len(q)]
  <2>1. q \in Seq(Int)
    BY <1>2
  <2> QED
    BY <1>0, <2>1, ConcatProperties
<1> DEFINE la == Len(a)  lb == Len(b)  lc == Len(c)  ld == Len(d)
<1>4. la \in Nat /\ lb \in Nat /\ lc \in Nat /\ ld \in Nat
  OBVIOUS
<1>5. Len(p) = la + lb /\ Len(q) = la + lb + lc /\ Len(x) = la + lb + lc + ld
  BY <1>1, <1>2, <1>3
<1>6. /\ \A k \in 1..(la + lb) : p[k] = IF k <= la THEN a[k] ELSE b[k - la]
      /\ \A k \in 1..(la + lb + lc) : q[k] = IF k <= la + lb THEN p[k] ELSE c[k - (la + lb)]
      /\ \A k \in 1..(la + lb + lc + ld) : x[k] = IF k <= la + lb + lc THEN q[k] ELSE d[k - (la + lb + lc)]
  <2>1. \A k \in 1..(la + lb) : p[k] = IF k <= la THEN a[k] ELSE b[k - la]
    BY <1>1
  <2>2. \A k \in 1..(la + lb + lc) : q[k] = IF k <= la + lb THEN p[k] ELSE c[k - (la + lb)]
    BY <1>2, <1>5
  <2>3. \A k \in 1..(la + lb + lc + ld) : x[k] = IF k <= la + lb + lc THEN q[k] ELSE d[k - (la + lb + lc)]
    BY <1>3, <1>5
  <2> QED
    BY <2>1, <2>2, <2>3
<1> HIDE DEF la, lb, lc, ld
<1>7. \A k \in 1..la : x[k] = a[k]
  <2> TAKE k \in 1..la
  <2>1. k \in 1..(la + lb) /\ k \in 1..(la + lb + lc) /\ k \in 1..(la + lb + lc + ld)
        /\ k <= la /\ k <= la + lb /\ k <= la + lb + lc
    BY <1>4
  <2> QED
    BY <1>6, <2>1
<1>8. \A k \in 1..lb : x[la + k] = b[k]
  <2> TAKE k \in 1..lb
  <2> DEFINE i == la + k
  <2>1. i \in 1..(la + lb) /\ i \in 1..(la + lb + lc) /\ i \in 1..(la + lb + lc + ld)
        /\ ~(i <= la) /\ i <= la + lb /\ i <= la + lb + lc /\ i - la = k
    BY <1>4
  <2> HIDE DEF i
  <2>2. x[i] = b[k]
    BY <1>6, <2>1
  <2> QED
    BY <2>2 DEF i
<1>9. \A k \in 1..lc : x[la + lb + k] = c[k]
  <2> TAKE k \in 1..lc
  <2> DEFINE i == la + lb + k
  <2>1. i \in 1..(la + lb + lc) /\ i \in 1..(la + lb + lc + ld)
        /\ ~(i <= la + lb) /\ i <= la + lb + lc /\ i - (la + lb) = k
    BY <1>4
  <2> HIDE DEF i
  <2>2. x[i] = c[k]
    BY <1>6, <2>1
  <2> QED
    BY <2>2 DEF i
<1>10. \A k \in 1..ld : x[la + lb + lc + k] = d[k]
  <2> TAKE k \in 1..ld
  <2> DEFINE i == la + lb + lc + k
  <2>1. i \in 1..(la + lb + lc + ld) /\ ~(i <= la + lb + lc) /\ i - (la + lb + lc) = k
    BY <1>4
  <2> HIDE DEF i
  <2>2. x[i] = d[k]
    BY <1>6, <2>1
  <2> QED
    BY <2>2 DEF i
<1> QED
  BY <1>3, <1>5, <1>7, <1>8, <1>9, <1>10 DEF la, lb, lc, ld, p, q

-----------------------------------------------------------------------------
(* The syntax elements of the configured slices.                            *)

\* Whether heights of slices are written with slice i, and all the heights of its tile.
Split(i) ==
  LET r == Configured.rects[i] IN r.width = 1 /\ r.height = 1 /\ RowHeight(r.tileIdx) > 1
HeightsOf(i) ==
  [j \in 1..Configured.rects[i].slicesInTile |-> Configured.rects[i + j - 1].ctuHeight]

\* The last of the slices that are written with slice i.
LastWith(i) == IF Split(i) THEN i + Configured.rects[i].slicesInTile - 1 ELSE i

\* What is written with slice i: its width, its height, the heights in its tile, and the
\* way to the next tile.
WidthOf(i) ==
  LET r == Configured.rects[i]
  IN If(r.tileIdx % NumTileCols(pic) # NumTileCols(pic) - 1, <<r.width - 1>>)
HeightOf(i) ==
  LET r == Configured.rects[i]
  IN If(HeightPresent(r.tileIdx, Configured.tileIdxDeltaPresent), <<r.height - 1>>)
SplitOf(i) ==
  If(Split(i), <<NumExpSlices(HeightsOf(i))>>
               \o [j \in 1..NumExpSlices(HeightsOf(i)) |-> HeightsOf(i)[j] - 1])
StepOf(i) ==
  If(LastWith(i) < Len(slices) /\ Configured.tileIdxDeltaPresent,
     <<Configured.rects[LastWith(i) + 1].tileIdx - Configured.rects[LastWith(i)].tileIdx>>)
Chunk(i) == WidthOf(i) \o HeightOf(i) \o SplitOf(i) \o StepOf(i)

\* The slices of a tile are written together, a slice of whole tiles alone.
LEMMA LastMeans ==
  ASSUME IsTiled(pic), Drawn(slices), NEW i \in 1..Len(slices), ~SameTile(slices, i)
  PROVE  LET last == LastWith(i)
             r == Configured.rects[i]
         IN /\ last \in i..Len(slices)
            /\ \A k \in (i + 1)..last : SameTile(slices, k)
            /\ last < Len(slices) => ~SameTile(slices, last + 1)
            /\ \A k \in i..last : Configured.rects[k].tileIdx = r.tileIdx
            /\ InOne(slices[i]) =>
                 /\ last = i + r.slicesInTile - 1 /\ (~Split(i) => r.slicesInTile = 1)
                 /\ \A k \in i..last : Configured.rects[k].width = 1 /\ Configured.rects[k].height = 1
            /\ ~InOne(slices[i]) => last = i /\ ~Split(i)
<1> DEFINE n == Len(slices)  last == LastWith(i)  r == Configured.rects[i]  c == r.slicesInTile
           H == HeightsOf(i)
<1>1. slices \in Seq(Rectangle) /\ n \in Nat /\ i \in Nat
  BY DEF Drawn
<1>2. ~InOne(slices[i]) => last = i /\ ~Split(i)
  <2>1. InTile(r) <=> InOne(slices[i])
    BY <1>1, ConfiguredRect
  <2>2. Split(i) => InTile(r)
    BY DEF Split, InTile
  <2> QED
    BY <2>1, <2>2 DEF LastWith
<1>3. CASE ~InOne(slices[i])
  <2>1. ~SameTile(slices, i + 1)
    <3>1. (i + 1) - 1 = i
      BY <1>1
    <3> QED
      BY <1>3, <3>1 DEF SameTile
  <2>2. last = i
    BY <1>2, <1>3
  <2> HIDE DEF last
  <2>3. (i + 1)..last = {} /\ i..last = {i}
    BY <1>1, <2>2
  <2> QED
    BY <1>1, <1>2, <1>3, <2>1, <2>2, <2>3 DEF last
<1>4. CASE InOne(slices[i])
  <2>1. /\ c \in 1..(n - i + 1) /\ Run(slices, i, c)
        /\ \A k \in i..(i + c - 1) :
             LET q == Configured.rects[k]
             IN q.tileIdx = r.tileIdx /\ q.width = 1 /\ q.height = 1
        /\ H \in Seq(Positive) /\ Len(H) = c
        /\ Boundaries(H)[c + 1] = RowHeight(r.tileIdx) /\ RowHeight(r.tileIdx) \in Positive
    BY <1>4, TileRun DEF HeightsOf
  <2>2. ~Split(i) => c = 1
    <3> SUFFICES ASSUME ~Split(i), c # 1 PROVE FALSE
      OBVIOUS
    <3>1. r.width = 1 /\ r.height = 1
      <4>1. i \in i..(i + c - 1)
        BY <1>1, <2>1
      <4> HIDE DEF c
      <4> QED
        BY <2>1, <4>1
    <3>2. RowHeight(r.tileIdx) = 1
      <4>1. ~(RowHeight(r.tileIdx) > 1)
        BY <3>1 DEF Split
      <4> QED
        BY <2>1, <4>1 DEF Positive
    <3> HIDE DEF c, H
    <3>3. 1 \in 1..(Len(H) + 1) /\ 2 \in 1..(Len(H) + 1) /\ c + 1 \in 1..(Len(H) + 1) /\ 2 < c + 1
      BY <1>1, <2>1
    <3>4. /\ Boundaries(H)[1] = 0 /\ Boundaries(H)[1] < Boundaries(H)[2]
          /\ Boundaries(H)[2] < Boundaries(H)[c + 1] /\ Boundaries(H)[2] \in Nat
      <4>1. /\ Boundaries(H) \in [1..(Len(H) + 1) -> Nat] /\ Boundaries(H)[1] = 0
            /\ \A j, k \in 1..(Len(H) + 1) : j < k => Boundaries(H)[j] < Boundaries(H)[k]
        BY <2>1, BoundariesIncrease
      <4>2. 1 < 2 /\ 2 < c + 1
        BY <3>3
      <4> QED
        BY <3>3, <4>1, <4>2
    <3> QED
      BY <2>1, <3>2, <3>4
  <2>3. last = i + c - 1
    BY <1>1, <2>2 DEF LastWith
  <2> HIDE DEF last, c, H
  <2>4. last \in i..n /\ i + c = last + 1 /\ c \in Nat
    BY <1>1, <2>1, <2>3
  <2>5. \A k \in (i + 1)..last : SameTile(slices, k)
    <3> TAKE k \in (i + 1)..last
    <3>1. k - i \in 1..(c - 1) /\ i + (k - i) = k
      BY <1>1, <2>3, <2>4
    <3> QED
      BY <2>1, <3>1 DEF Run
  <2>6. last < n => ~SameTile(slices, last + 1)
    BY <1>1, <2>1, <2>4 DEF Run
  <2> QED
    BY <1>4, <2>1, <2>2, <2>3, <2>4, <2>5, <2>6 DEF last, c
<1> QED
  BY <1>3, <1>4

\* The heights that the reader has from those written with slice i are those of its tile.
LEMMA HeightsRead ==
  ASSUME IsTiled(pic), Drawn(slices), NEW i \in 1..Len(slices), ~SameTile(slices, i), InOne(slices[i])
  PROVE  LET h == HeightsOf(i)
             e == NumExpSlices(h)
             row == RowHeight(Configured.rects[i].tileIdx)
         IN /\ h \in Seq(Positive) /\ Len(h) = Configured.rects[i].slicesInTile /\ Len(h) > 0
            /\ Split(i) => e \in 0..Len(h)
            /\ ~Split(i) \/ e = 0 => h = <<row>>
            /\ Split(i) /\ e # 0 => ReadHeights([j \in 1..e |-> h[j]], row) = h
<1> DEFINE h == HeightsOf(i)  c == Configured.rects[i].slicesInTile
           row == RowHeight(Configured.rects[i].tileIdx)
<1>1. /\ h \in Seq(Positive) /\ Len(h) = c /\ Boundaries(h)[c + 1] = row /\ c \in Nat /\ c >= 1
  <2>1. /\ c \in 1..(Len(slices) - i + 1) /\ h \in Seq(Positive) /\ Len(h) = c
        /\ Boundaries(h)[c + 1] = row
    BY TileRun DEF HeightsOf
  <2>2. Len(slices) \in Nat
    BY DEF Drawn
  <2> HIDE DEF c, h
  <2>3. c \in Nat /\ c >= 1
    BY <2>1, <2>2
  <2> QED
    BY <2>1, <2>3
<1>2. ~Split(i) => c = 1
  BY LastMeans
<1> HIDE DEF h, c
<1>3. CASE c = 1
  <2>1. h = <<h[1]>>
    BY <1>1, <1>3
  <2>2. Boundaries(h)[1 + 1] = Boundaries(h)[1] + h[1] /\ Boundaries(h)[1] = 0
    <3>1. 1 \in 1..Len(h)
      BY <1>1, <1>3
    <3> QED
      BY <1>1, <3>1, BoundariesIncrease
  <2>3. h[1] \in Nat
    <3>1. h[1] \in Positive
      <4>1. h \in Seq(Positive) /\ 1 \in 1..Len(h)
        BY <1>1, <1>3
      <4> QED
        BY <4>1
    <3> QED
      BY <3>1 DEF Positive
  <2>4. h = <<row>>
    BY <1>1, <1>3, <2>1, <2>2, <2>3
  <2>5. NumExpSlices(h) = 0
    BY <1>1, <1>3 DEF NumExpSlices
  <2> QED
    BY <1>1, <2>4, <2>5 DEF h, c
<1>4. CASE c > 1
  <2>1. /\ NumExpSlices(h) \in 1..Len(h)
        /\ ReadHeights([j \in 1..NumExpSlices(h) |-> h[j]], Boundaries(h)[Len(h) + 1]) = h
    BY <1>1, <1>4, HeightsSurvive
  <2>2. Split(i)
    BY <1>2, <1>4
  <2>3. NumExpSlices(h) # 0 /\ NumExpSlices(h) \in 0..Len(h)
    BY <1>1, <2>1
  <2>4. ReadHeights([j \in 1..NumExpSlices(h) |-> h[j]], row) = h
    BY <1>1, <2>1
  <2> QED
    BY <1>1, <2>2, <2>3, <2>4 DEF h, c
<1> QED
  BY <1>1, <1>3, <1>4

\* An element that is only written on a condition.
LEMMA OneIf ==
  ASSUME NEW P \in BOOLEAN, NEW x \in Int
  PROVE  /\ If(P, <<x>>) \in Seq(Int) /\ Len(If(P, <<x>>)) = (IF P THEN 1 ELSE 0)
         /\ P => If(P, <<x>>)[1] = x
<1>1. CASE P
  BY <1>1 DEF If
<1>2. CASE ~P
  <2>1. << >> \in Seq(Int) /\ Len(<< >>) = 0
    OBVIOUS
  <2> QED
    BY <1>2, <2>1 DEF If
<1> QED
  BY <1>1, <1>2

\* The four parts of what is written with a slice.
LEMMA ChunkParts ==
  ASSUME NEW i, WidthOf(i) \in Seq(Int), HeightOf(i) \in Seq(Int), SplitOf(i) \in Seq(Int),
         StepOf(i) \in Seq(Int)
  PROVE  LET x == Chunk(i)
             wo == WidthOf(i)
             ho == HeightOf(i)
             so == SplitOf(i)
             to == StepOf(i)
         IN /\ x \in Seq(Int) /\ Len(x) = Len(wo) + Len(ho) + Len(so) + Len(to)
            /\ \A k \in 1..Len(wo) : x[k] = wo[k]
            /\ \A k \in 1..Len(ho) : x[Len(wo) + k] = ho[k]
            /\ \A k \in 1..Len(so) : x[Len(wo) + Len(ho) + k] = so[k]
            /\ \A k \in 1..Len(to) : x[Len(wo) + Len(ho) + Len(so) + k] = to[k]
<1>1. Chunk(i) = WidthOf(i) \o HeightOf(i) \o SplitOf(i) \o StepOf(i)
  BY DEF Chunk
<1> QED
  BY <1>1, FourParts

\* Where the elements of slice i are among those that are written with it.
LEMMA ChunkMeans ==
  ASSUME IsTiled(pic), Drawn(slices), NEW i \in 1..Len(slices), ~SameTile(slices, i)
  PROVE  LET r == Configured.rects[i]
             h == HeightsOf(i)
             e == NumExpSlices(h)
             last == LastWith(i)
             hasWidth == r.tileIdx % NumTileCols(pic) # NumTileCols(pic) - 1
             hasHeight == HeightPresent(r.tileIdx, Configured.tileIdxDeltaPresent)
             hasStep == last < Len(slices) /\ Configured.tileIdxDeltaPresent
             a == IF hasWidth THEN 1 ELSE 0
             b == IF hasHeight THEN 1 ELSE 0
             c == IF Split(i) THEN 1 + e ELSE 0
             d == IF hasStep THEN 1 ELSE 0
         IN /\ WidthOf(i) \in Seq(Int) /\ HeightOf(i) \in Seq(Int)
            /\ SplitOf(i) \in Seq(Int) /\ StepOf(i) \in Seq(Int)
            /\ Chunk(i) \in Seq(Int) /\ Len(Chunk(i)) = a + b + c + d
            /\ hasWidth => Chunk(i)[1] = r.width - 1
            /\ hasHeight => Chunk(i)[a + 1] = r.height - 1
            /\ Split(i) => /\ e \in Nat /\ Chunk(i)[a + b + 1] = e
                           /\ \A j \in 1..e : Chunk(i)[a + b + (1 + j)] = h[j] - 1
            /\ hasStep => Chunk(i)[a + b + c + 1]
                            = Configured.rects[last + 1].tileIdx - Configured.rects[last].tileIdx
<1> DEFINE n == Len(slices)  R == Configured.rects  r == R[i]  h == HeightsOf(i)  e == NumExpSlices(h)
           last == LastWith(i)  m == NumTileCols(pic)  delta == Configured.tileIdxDeltaPresent
           hasWidth == r.tileIdx % m # m - 1  hasHeight == HeightPresent(r.tileIdx, delta)
           hasStep == last < n /\ delta
           a == IF hasWidth THEN 1 ELSE 0  b == IF hasHeight THEN 1 ELSE 0
           c == IF Split(i) THEN 1 + e ELSE 0  d == IF hasStep THEN 1 ELSE 0
           step == R[last + 1].tileIdx - R[last].tileIdx
           low == [j \in 1..e |-> h[j] - 1]
<1>1. slices \in Seq(Rectangle) /\ n \in Nat /\ delta \in BOOLEAN
  BY DeltaMeans DEF Drawn
<1>2. /\ r.width - 1 \in Int /\ r.height - 1 \in Int
  <2> DEFINE x == C1(slices[i])  y == R1(slices[i])
  <2>1. r.width \in 1..(m - x) /\ r.height \in 1..(NumTileRows(pic) - y)
    BY <1>1, RectPlaces
  <2> HIDE DEF r, m, x, y
  <2> QED
    BY <2>1
<1>3. WidthOf(i) \in Seq(Int) /\ Len(WidthOf(i)) = a /\ (hasWidth => WidthOf(i)[1] = r.width - 1)
  <2> HIDE DEF r
  <2>1. WidthOf(i) = If(hasWidth, <<r.width - 1>>)
    BY DEF WidthOf, r
  <2>2. hasWidth \in BOOLEAN
    OBVIOUS
  <2> HIDE DEF hasWidth
  <2> QED
    BY <1>2, <2>1, <2>2, OneIf
<1>4. HeightOf(i) \in Seq(Int) /\ Len(HeightOf(i)) = b /\ (hasHeight => HeightOf(i)[1] = r.height - 1)
  <2> HIDE DEF r
  <2>1. HeightOf(i) = If(hasHeight, <<r.height - 1>>)
    BY DEF HeightOf, r
  <2>2. hasHeight \in BOOLEAN
    BY DEF HeightPresent
  <2> HIDE DEF hasHeight
  <2> QED
    BY <1>2, <2>1, <2>2, OneIf
<1>5. last < n => step \in Int
  <2> SUFFICES ASSUME last < n PROVE step \in Int
    OBVIOUS
  <2>1. last \in i..n
    BY LastMeans
  <2> HIDE DEF last
  <2>2. last \in 1..n /\ last + 1 \in 1..n
    BY <1>1, <2>1
  <2>3. R[last].tileIdx \in Nat /\ R[last + 1].tileIdx \in Nat
    BY <1>1, <2>2, RectPlaces
  <2> HIDE DEF R
  <2> QED
    BY <2>3
<1>6. StepOf(i) \in Seq(Int) /\ Len(StepOf(i)) = d /\ (hasStep => StepOf(i)[1] = step)
  <2>1. StepOf(i) = If(hasStep, <<step>>)
    BY DEF StepOf
  <2> HIDE DEF step, last, delta
  <2>2. CASE hasStep
    BY <1>5, <2>1, <2>2, OneIf
  <2>3. CASE ~hasStep
    <3>1. << >> \in Seq(Int) /\ Len(<< >>) = 0
      OBVIOUS
    <3>2. StepOf(i) = << >>
      <4> HIDE DEF hasStep
      <4> QED
        BY <2>1, <2>3 DEF If
    <3> QED
      BY <2>3, <3>1, <3>2
  <2> QED
    BY <2>2, <2>3
<1>7. /\ SplitOf(i) \in Seq(Int) /\ Len(SplitOf(i)) = c
      /\ Split(i) => /\ e \in Nat /\ SplitOf(i)[1] = e
                     /\ \A j \in 1..e : SplitOf(i)[1 + j] = h[j] - 1
  <2> HIDE DEF h
  <2>1. SplitOf(i) = If(Split(i), <<e>> \o low)
    BY DEF SplitOf, h
  <2>2. CASE Split(i)
    <3>1. h \in Seq(Positive) /\ e \in 0..Len(h)
      <4>1. InOne(slices[i])
        BY <2>2, LastMeans
      <4> QED
        BY <2>2, <4>1, HeightsRead DEF h
    <3> HIDE DEF e
    <3>2. e \in Nat /\ \A j \in 1..e : h[j] - 1 \in Int
      <4>1. e \in Nat /\ \A j \in 1..e : j \in 1..Len(h)
        BY <3>1
      <4>2. \A j \in 1..e : h[j] \in Positive
        BY <3>1, <4>1
      <4> QED
        BY <4>1, <4>2 DEF Positive
    <3>3. low \in [1..e -> Int] /\ \A j \in 1..e : low[j] = h[j] - 1
      BY <3>2
    <3> HIDE DEF low
    <3>4. low \in Seq(Int) /\ Len(low) = e /\ <<e>> \in Seq(Int) /\ Len(<<e>>) = 1 /\ <<e>>[1] = e
      BY <3>2, <3>3
    <3> DEFINE one == <<e>>  both == one \o low
    <3>5. one \in Seq(Int) /\ Len(one) = 1 /\ one[1] = e /\ low \in Seq(Int) /\ Len(low) = e
      BY <3>4
    <3> HIDE DEF one
    <3>6. /\ both \in Seq(Int) /\ Len(both) = Len(one) + Len(low)
          /\ \A k \in 1..(Len(one) + Len(low)) : both[k] = IF k <= Len(one) THEN one[k] ELSE low[k - Len(one)]
      BY <3>5, ConcatProperties
    <3> HIDE DEF both
    <3>7. Len(both) = 1 + e /\ both[1] = e
      <4>1. 1 \in 1..(1 + e)
        BY <3>2
      <4> QED
        BY <3>5, <3>6, <4>1
    <3>8. \A j \in 1..e : both[1 + j] = h[j] - 1
      <4> TAKE j \in 1..e
      <4>1. 1 + j \in 1..(1 + e) /\ ~(1 + j <= 1) /\ (1 + j) - 1 = j
        BY <3>2
      <4>2. both[1 + j] = low[(1 + j) - 1]
        BY <3>5, <3>6, <4>1
      <4> QED
        BY <3>3, <4>1, <4>2
    <3>9. SplitOf(i) = both
      BY <2>1, <2>2 DEF If, both, one
    <3> QED
      BY <2>2, <3>2, <3>6, <3>7, <3>8, <3>9
  <2>3. CASE ~Split(i)
    <3>1. << >> \in Seq(Int) /\ Len(<< >>) = 0
      OBVIOUS
    <3>2. SplitOf(i) = << >>
      BY <2>1, <2>3 DEF If
    <3> QED
      BY <2>3, <3>1, <3>2
  <2> QED
    BY <2>2, <2>3
<1> DEFINE x == Chunk(i)
<1>8. x = WidthOf(i) \o HeightOf(i) \o SplitOf(i) \o StepOf(i)
  BY DEF Chunk
<1> HIDE DEF x
<1>9. /\ x \in Seq(Int) /\ Len(x) = a + b + c + d
      /\ \A k \in 1..a : x[k] = WidthOf(i)[k]
      /\ \A k \in 1..b : x[a + k] = HeightOf(i)[k]
      /\ \A k \in 1..c : x[a + b + k] = SplitOf(i)[k]
      /\ \A k \in 1..d : x[a + b + c + k] = StepOf(i)[k]
  <2> DEFINE wo == WidthOf(i)  ho == HeightOf(i)  so == SplitOf(i)  to == StepOf(i)
  <2>1. wo \in Seq(Int) /\ Len(wo) = a
    BY <1>3
  <2>2. ho \in Seq(Int) /\ Len(ho) = b
    BY <1>4
  <2>3. so \in Seq(Int) /\ Len(so) = c
    BY <1>7
  <2>4. to \in Seq(Int) /\ Len(to) = d
    BY <1>6
  <2>5. x = wo \o ho \o so \o to
    BY <1>8
  <2> HIDE DEF a, b, c, d, wo, ho, so, to
  <2>8. wo \in Seq(Int) /\ ho \in Seq(Int) /\ so \in Seq(Int) /\ to \in Seq(Int)
    BY <2>1, <2>2, <2>3, <2>4
  <2>6. /\ x \in Seq(Int) /\ Len(x) = Len(wo) + Len(ho) + Len(so) + Len(to)
        /\ \A k \in 1..Len(wo) : x[k] = wo[k]
        /\ \A k \in 1..Len(ho) : x[Len(wo) + k] = ho[k]
        /\ \A k \in 1..Len(so) : x[Len(wo) + Len(ho) + k] = so[k]
        /\ \A k \in 1..Len(to) : x[Len(wo) + Len(ho) + Len(so) + k] = to[k]
    BY <2>1, <2>2, <2>3, <2>4, <2>5, <2>8, ChunkParts DEF x, wo, ho, so, to
  <2> QED
    BY <2>1, <2>2, <2>3, <2>4, <2>6 DEF wo, ho, so, to
<1> HIDE DEF hasWidth, hasHeight, hasStep
<1>10. hasWidth => x[1] = r.width - 1
  <2> SUFFICES ASSUME hasWidth PROVE x[1] = r.width - 1
    OBVIOUS
  <2>1. 1 \in 1..a
    OBVIOUS
  <2> HIDE DEF a, b, c, d, r
  <2> QED
    BY <1>3, <1>9, <2>1
<1>11. hasHeight => x[a + 1] = r.height - 1
  <2> SUFFICES ASSUME hasHeight PROVE x[a + 1] = r.height - 1
    OBVIOUS
  <2>1. 1 \in 1..b
    OBVIOUS
  <2> HIDE DEF a, b, c, d, r
  <2> QED
    BY <1>4, <1>9, <2>1
<1>12. Split(i) => /\ e \in Nat /\ x[a + b + 1] = e
                   /\ \A j \in 1..e : x[a + b + (1 + j)] = h[j] - 1
  <2> SUFFICES ASSUME Split(i)
               PROVE  /\ e \in Nat /\ x[a + b + 1] = e
                      /\ \A j \in 1..e : x[a + b + (1 + j)] = h[j] - 1
    OBVIOUS
  <2> HIDE DEF e
  <2>1. c = 1 + e /\ e \in Nat /\ 1 \in 1..c /\ \A j \in 1..e : 1 + j \in 1..c
    BY <1>7
  <2> HIDE DEF a, b, c, d, h
  <2> QED
    BY <1>7, <1>9, <2>1
<1>13. hasStep => x[a + b + c + 1] = step
  <2> SUFFICES ASSUME hasStep PROVE x[a + b + c + 1] = step
    OBVIOUS
  <2>1. 1 \in 1..d
    OBVIOUS
  <2> HIDE DEF a, b, c, d, step
  <2> QED
    BY <1>6, <1>9, <2>1
<1> QED
  BY <1>3, <1>4, <1>6, <1>7, <1>9, <1>10, <1>11, <1>12, <1>13
     DEF x, hasWidth, hasHeight, hasStep

\* What is written with each of the slices, nothing with those that are written with an
\* earlier one, nor with the last.
Elements ==
  [i \in 1..Len(slices) |-> IF SameTile(slices, i) \/ i = Len(slices) THEN << >> ELSE Chunk(i)]

\* What has been written when the writer comes to slice k.
Written(k) == FlattenSeq(SubSeq(Elements, 1, k - 1))

\* The elements are sequences of numbers.
LEMMA ElementsMean ==
  ASSUME IsTiled(pic), Drawn(slices)
  PROVE  /\ Elements \in Seq(Seq(Int)) /\ Len(Elements) = Len(slices) /\ Len(slices) \in Nat
         /\ Written(1) = << >>
         /\ Len(slices) > 0 => Written(Len(slices)) = FlattenSeq(Elements)
         /\ Written(Len(slices) + 1) = FlattenSeq(Elements)
<1> DEFINE n == Len(slices)
<1>1. n \in Nat
  BY DEF Drawn
<1>2. << >> \in Seq(Int)
  OBVIOUS
<1>3. \A i \in 1..n : Elements[i] \in Seq(Int)
  <2> TAKE i \in 1..n
  <2>1. CASE SameTile(slices, i) \/ i = n
    BY <1>2, <2>1 DEF Elements
  <2>2. CASE ~(SameTile(slices, i) \/ i = n)
    <3>1. Chunk(i) \in Seq(Int)
      BY <2>2, ChunkMeans
    <3>2. Elements[i] = Chunk(i)
      BY <2>2 DEF Elements
    <3> QED
      BY <3>1, <3>2
  <2> QED
    BY <2>1, <2>2
<1>4. Elements = [i \in 1..n |-> Elements[i]]
  BY DEF Elements
<1> DEFINE e == Elements
<1>5. \A i \in 1..n : e[i] \in Seq(Int)
  BY <1>3
<1>6. e = [i \in 1..n |-> e[i]]
  BY <1>4
<1>7. n > 0 => e[n] = << >>
  BY <1>1 DEF Elements
<1> HIDE DEF e, n
<1>8. e \in Seq(Seq(Int)) /\ Len(e) = n
  BY <1>1, <1>5, <1>6
<1>9. SubSeq(e, 1, (n + 1) - 1) = e
  <2>1. (n + 1) - 1 = n
    BY <1>1
  <2>2. SubSeq(e, 1, n) = e
    BY <1>1, <1>8
  <2> QED
    BY <2>1, <2>2
<1>10. FlattenSeq(SubSeq(e, 1, 1 - 1)) = << >>
  <2>1. SubSeq(e, 1, 1 - 1) = << >>
    BY <1>8
  <2> QED
    BY <2>1 DEF FlattenSeq
<1>11. n > 0 => FlattenSeq(SubSeq(e, 1, n - 1)) = FlattenSeq(e)
  <2> SUFFICES ASSUME n > 0 PROVE FlattenSeq(SubSeq(e, 1, n - 1)) = FlattenSeq(e)
    OBVIOUS
  <2>1. n - 1 \in 0..Len(e) /\ n \in (n - 1)..Len(e) /\ \A k \in ((n - 1) + 1)..n : e[k] = << >>
    BY <1>1, <1>7, <1>8
  <2>2. FlattenSeq(SubSeq(e, 1, n)) = FlattenSeq(SubSeq(e, 1, n - 1))
    BY <1>8, <2>1, FlattenSkips
  <2>3. SubSeq(e, 1, n) = e
    BY <1>1, <1>8
  <2> QED
    BY <2>2, <2>3
<1> QED
  BY <1>1, <1>8, <1>9, <1>10, <1>11 DEF e, n, Written

\* How the writer goes on, and where the elements of slice i are in the end.
LEMMA WrittenStep ==
  ASSUME IsTiled(pic), Drawn(slices), NEW i \in 1..Len(slices), i < Len(slices), ~SameTile(slices, i)
  PROVE  LET last == LastWith(i)
             all == FlattenSeq(Elements)
         IN /\ Written(i) \in Seq(Int) /\ all \in Seq(Int)
            /\ Written(last + 1) = Written(i) \o Chunk(i)
            /\ Len(Written(last + 1)) = Len(Written(i)) + Len(Chunk(i))
            /\ \A k \in 1..Len(Chunk(i)) :
                 Len(Written(i)) + k \in 1..Len(all) /\ all[Len(Written(i)) + k] = Chunk(i)[k]
<1> DEFINE n == Len(slices)  last == LastWith(i)  e == Elements
<1>1. e \in Seq(Seq(Int)) /\ Len(e) = n /\ n \in Nat
  BY ElementsMean
<1>2. last \in i..n /\ \A k \in (i + 1)..last : SameTile(slices, k)
  BY LastMeans
<1>3. e[i] = Chunk(i) /\ \A k \in (i + 1)..last : e[k] = << >>
  <2>1. (i + 1)..last \subseteq 1..n
    <3> HIDE DEF last
    <3> QED
      BY <1>1, <1>2
  <2> HIDE DEF last
  <2>2. e[i] = Chunk(i)
    <3>1. ~(SameTile(slices, i) \/ i = n)
      BY <1>1
    <3>2. e[i] = IF SameTile(slices, i) \/ i = n THEN << >> ELSE Chunk(i)
      BY DEF Elements
    <3> QED
      BY <3>1, <3>2
  <2>3. \A k \in 1..n : SameTile(slices, k) => e[k] = << >>
    BY DEF Elements
  <2> HIDE DEF e, n
  <2> QED
    BY <1>2, <2>1, <2>2, <2>3
<1> HIDE DEF e, last, n
<1>4. /\ FlattenSeq(SubSeq(e, 1, i - 1)) \in Seq(Int) /\ FlattenSeq(e) \in Seq(Int)
      /\ FlattenSeq(SubSeq(e, 1, i)) = FlattenSeq(SubSeq(e, 1, i - 1)) \o e[i]
      /\ \A k \in 1..Len(e[i]) :
           /\ Len(FlattenSeq(SubSeq(e, 1, i - 1))) + k \in 1..Len(FlattenSeq(e))
           /\ FlattenSeq(e)[Len(FlattenSeq(SubSeq(e, 1, i - 1))) + k] = e[i][k]
  <2>1. i \in 1..Len(e)
    BY <1>1 DEF n
  <2> QED
    BY <1>1, <2>1, FlattenParts
<1>5. FlattenSeq(SubSeq(e, 1, last)) = FlattenSeq(SubSeq(e, 1, i))
  <2>1. i \in 0..Len(e) /\ last \in i..Len(e)
    BY <1>1, <1>2
  <2> QED
    BY <1>1, <1>3, <2>1, FlattenSkips
<1>6. (last + 1) - 1 = last
  BY <1>1, <1>2
<1> DEFINE u == Written(i)  v == Chunk(i)
<1>7. u \in Seq(Int) /\ v \in Seq(Int) /\ Written(last + 1) = u \o v
  <2>1. e[i] \in Seq(Int)
    BY <1>1 DEF n
  <2> QED
    BY <1>3, <1>4, <1>5, <1>6, <2>1 DEF Written, e
<1>8. Len(u \o v) = Len(u) + Len(v)
  <2> HIDE DEF u, v
  <2> QED
    BY <1>7
<1> QED
  BY <1>3, <1>4, <1>7, <1>8 DEF Written, e, last

\* Sequences can be put together in any grouping.
LEMMA Regroup == \A u, v, w \in Seq(Int) : (u \o v) \o w = u \o (v \o w)
BY SMTT(60)

-----------------------------------------------------------------------------
(* The parameters on their way.                                             *)

\* Writer and reader have come to a slice that is the first of its tile or has whole
\* tiles, or have gone through all.
RectStage ==
  /\ Drawn(slices) /\ Complete(slices) /\ Len(slices) > 0
  /\ enc = [Configured EXCEPT !.map = RectSliceMap(pic, Configured.rects)]
  /\ at \in 1..(Len(slices) + 1)
  /\ at <= Len(slices) => ~SameTile(slices, at)

\* The encoder has the configured parameters.
LEMMA EncMeans ==
  ASSUME IsTiled(pic), RectStage
  PROVE  /\ enc.rects = Configured.rects /\ enc.map = RectSliceMap(pic, Configured.rects)
         /\ enc.tileIdxDeltaPresent = Configured.tileIdxDeltaPresent
         /\ enc.rects \in Seq(RectSlice) /\ Len(enc.rects) = Len(slices) /\ Len(slices) \in Nat
<1>1. /\ enc.rects = Configured.rects /\ enc.map = RectSliceMap(pic, Configured.rects)
      /\ enc.tileIdxDeltaPresent = Configured.tileIdxDeltaPresent
  BY DEF RectStage, Configured
<1>2. slices \in Seq(Rectangle) /\ Len(slices) \in Nat
  BY DEF RectStage, Drawn
<1>3. Configured.rects \in Seq(RectSlice) /\ DOMAIN Configured.rects = 1..Len(slices)
  BY <1>2, ConfiguredMeans
<1> DEFINE R == Configured.rects  n == Len(slices)
<1>4. R \in Seq(RectSlice) /\ DOMAIN R = 1..n /\ n \in Nat
  BY <1>2, <1>3
<1> HIDE DEF R, n
<1>5. Len(R) = n
  BY <1>4
<1> QED
  BY <1>1, <1>2, <1>3, <1>5 DEF R, n

\* The writer writes what Elements says, and comes to a slice that is not of the same tile.
LEMMA WriteSliceMeans ==
  ASSUME IsTiled(pic), RectStage, syntax = Written(at), WriteSlice
  PROVE  /\ at' \in 1..(Len(slices) + 1)
         /\ at' <= Len(slices) => ~SameTile(slices, at')
         /\ syntax' = Written(at')
<1> DEFINE n == Len(slices)  i == at
<1>1. /\ enc.rects = Configured.rects /\ enc.tileIdxDeltaPresent = Configured.tileIdxDeltaPresent
      /\ Len(enc.rects) = n /\ n \in Nat
  BY EncMeans
<1>2. Drawn(slices) /\ i \in 1..n /\ i < n /\ ~SameTile(slices, i)
  <2>1. Drawn(slices) /\ i \in 1..(n + 1) /\ (i <= n => ~SameTile(slices, i))
    BY SMTT(60) DEF RectStage
  <2>2. i < Len(enc.rects)
    BY DEF WriteSlice
  <2>3. i \in 1..n /\ i < n /\ i <= n
    BY <1>1, <2>1, <2>2
  <2> QED
    BY <2>1, <2>3, SMTT(60)
<1>3. /\ syntax' = syntax \o WidthOf(i) \o HeightOf(i) \o SplitOf(i) \o StepOf(i)
      /\ at' = LastWith(i) + 1
  <2>1. at' = LastWith(i) + 1
    BY <1>1 DEF WriteSlice, LastWith, Split
  <2> DEFINE r == enc.rects[i]  delta == enc.tileIdxDeltaPresent
             split == r.width = 1 /\ r.height = 1 /\ RowHeight(r.tileIdx) > 1
             heights == [j \in 1..r.slicesInTile |-> enc.rects[i + j - 1].ctuHeight]
             last == IF split THEN i + r.slicesInTile - 1 ELSE i
  <2>2. Split(i) <=> split
    BY <1>1 DEF Split
  <2>3. HeightsOf(i) = heights
    BY <1>1 DEF HeightsOf
  <2>4. LastWith(i) = last
    BY <1>1, <2>2 DEF LastWith
  <2>5. /\ WidthOf(i) = If(r.tileIdx % NumTileCols(pic) # NumTileCols(pic) - 1, <<r.width - 1>>)
        /\ HeightOf(i) = If(HeightPresent(r.tileIdx, delta), <<r.height - 1>>)
    BY <1>1 DEF WidthOf, HeightOf
  <2>6. SplitOf(i) = If(split, <<NumExpSlices(heights)>>
                               \o [j \in 1..NumExpSlices(heights) |-> heights[j] - 1])
    <3> HIDE DEF split, heights
    <3> QED
      BY <2>2, <2>3 DEF SplitOf, If
  <2>7. StepOf(i) = If(last < n /\ delta, <<enc.rects[last + 1].tileIdx - enc.rects[last].tileIdx>>)
    <3> HIDE DEF last
    <3> QED
      BY <1>1, <2>4, SMTT(60) DEF StepOf
  <2>8. syntax' = syntax
          \o If(r.tileIdx % NumTileCols(pic) # NumTileCols(pic) - 1, <<r.width - 1>>)
          \o If(HeightPresent(r.tileIdx, delta), <<r.height - 1>>)
          \o If(split, <<NumExpSlices(heights)>>
                       \o [j \in 1..NumExpSlices(heights) |-> heights[j] - 1])
          \o If(last < Len(enc.rects) /\ delta,
                <<enc.rects[last + 1].tileIdx - enc.rects[last].tileIdx>>)
    BY DEF WriteSlice
  <2> HIDE DEF r, delta, split, heights, last
  <2> QED
    BY <1>1, <2>1, <2>5, <2>6, <2>7, <2>8, SMTT(60)
<1>4. /\ WidthOf(i) \in Seq(Int) /\ HeightOf(i) \in Seq(Int) /\ SplitOf(i) \in Seq(Int)
      /\ StepOf(i) \in Seq(Int)
  BY <1>2, ChunkMeans
<1>5. Written(i) \in Seq(Int) /\ Written(LastWith(i) + 1) = Written(i) \o Chunk(i)
  BY <1>2, WrittenStep
<1>6. syntax' = Written(i) \o Chunk(i)
  <2> DEFINE wo == WidthOf(i)  ho == HeightOf(i)  so == SplitOf(i)  to == StepOf(i)
             old == Written(i)  new == Chunk(i)
  <2>1. syntax' = old \o wo \o ho \o so \o to
    BY <1>3
  <2>2. new = wo \o ho \o so \o to
    BY DEF Chunk
  <2>3. wo \in Seq(Int) /\ ho \in Seq(Int) /\ so \in Seq(Int) /\ to \in Seq(Int) /\ old \in Seq(Int)
    BY <1>4, <1>5
  <2> DEFINE p == wo \o ho  q == p \o so
  <2> HIDE DEF wo, ho, so, to, old, new
  <2>4. (old \o wo) \o ho = old \o p
    BY <2>3, Regroup
  <2>5. p \in Seq(Int)
    BY <2>3
  <2> HIDE DEF p
  <2>6. (old \o p) \o so = old \o q
    BY <2>3, <2>5, Regroup, ZenonT(60)
  <2>7. q \in Seq(Int)
    BY <2>3, <2>5
  <2> HIDE DEF q
  <2>8. (old \o q) \o to = old \o (q \o to)
    BY <2>3, <2>7, Regroup, ZenonT(60)
  <2>9. new = q \o to
    BY <2>2 DEF p, q
  <2> QED
    BY <2>1, <2>4, <2>6, <2>8, <2>9 DEF old, new
<1>7. /\ LastWith(i) \in i..n
      /\ LastWith(i) < n => ~SameTile(slices, LastWith(i) + 1)
  BY <1>2, LastMeans
<1> DEFINE last == LastWith(i)
<1> HIDE DEF last
<1>8. last \in i..n /\ (last < n => ~SameTile(slices, last + 1)) /\ at' = last + 1
  BY <1>3, <1>7 DEF last
<1>9. at' \in 1..(n + 1) /\ (at' <= n => last < n)
  BY <1>1, <1>2, <1>8
<1> QED
  BY <1>3, <1>5, <1>6, <1>8, <1>9 DEF last

\* The parameters with which the reader has slice k, if it has come past it, are those
\* of the configuration; how many slices there are in a tile is known at the first.
Agrees(rects, k) ==
  LET r == Configured.rects[k]
  IN /\ rects[k].tileIdx = r.tileIdx /\ rects[k].width = r.width /\ rects[k].height = r.height
     /\ rects[k].ctuHeight = r.ctuHeight
     /\ ~SameTile(slices, k) => rects[k].slicesInTile = r.slicesInTile

\* The reader's state.
Reader == [rects : Seq(RectSlice), tileIdx : Int, pos : Nat, map : Seq(Seq(Nat))]

\* How far the reader has come.
ReadSoFar ==
  /\ RectStage /\ syntax = FlattenSeq(Elements)
  /\ dec \in Reader /\ Len(dec.rects) = Len(slices) /\ dec.map = << >>
  /\ \A k \in 1..(at - 1) : Agrees(dec.rects, k)
  /\ dec.tileIdx = Configured.rects[Minimum(at, Len(slices))].tileIdx
  /\ dec.pos = Len(Written(at)) + 1

\* The next elements to be read are those that were written with the slice.
LEMMA NextRead ==
  ASSUME IsTiled(pic), ReadSoFar, at < Len(slices)
  PROVE  /\ Drawn(slices) /\ Complete(slices) /\ slices \in Seq(Rectangle) /\ Len(slices) \in Nat
         /\ at \in 1..Len(slices) /\ ~SameTile(slices, at)
         /\ dec.tileIdx = Configured.rects[at].tileIdx
         /\ dec.pos \in Nat /\ Len(Chunk(at)) \in Nat
         /\ \A k \in 1..Len(Chunk(at)) : Element(dec.pos + (k - 1)) = Chunk(at)[k]
         /\ (enc.tileIdxDeltaPresent /\ Len(dec.rects) - 1 > 1) = Configured.tileIdxDeltaPresent
<1> DEFINE n == Len(slices)  delta == enc.tileIdxDeltaPresent /\ Len(dec.rects) - 1 > 1
<1>1. Drawn(slices) /\ Complete(slices) /\ slices \in Seq(Rectangle) /\ n \in Nat
  BY DEF ReadSoFar, RectStage, Drawn
<1>2. at \in 1..n /\ ~SameTile(slices, at)
  <2>1. at \in 1..(n + 1) /\ (at <= n => ~SameTile(slices, at))
    BY DEF ReadSoFar, RectStage
  <2>2. at \in 1..n /\ at <= n
    BY <1>1, <2>1
  <2> QED
    BY <2>1, <2>2
<1>3. dec.tileIdx = Configured.rects[at].tileIdx
  <2>1. Minimum(at, n) = at
    BY DEF Minimum
  <2> QED
    BY <2>1 DEF ReadSoFar
<1>4. /\ Written(at) \in Seq(Int) /\ FlattenSeq(Elements) \in Seq(Int)
      /\ \A k \in 1..Len(Chunk(at)) :
           /\ Len(Written(at)) + k \in 1..Len(FlattenSeq(Elements))
           /\ FlattenSeq(Elements)[Len(Written(at)) + k] = Chunk(at)[k]
  BY <1>1, <1>2, WrittenStep
<1>5. Chunk(at) \in Seq(Int)
  BY <1>1, <1>2, ChunkMeans
<1>6. syntax = FlattenSeq(Elements) /\ dec.pos = Len(Written(at)) + 1
  BY DEF ReadSoFar
<1>7. /\ dec.pos \in Nat /\ Len(Chunk(at)) \in Nat
      /\ \A k \in 1..Len(Chunk(at)) : Element(dec.pos + (k - 1)) = Chunk(at)[k]
  <2> DEFINE u == Written(at)  ch == Chunk(at)
  <2>1. /\ u \in Seq(Int) /\ ch \in Seq(Int) /\ syntax \in Seq(Int) /\ dec.pos = Len(u) + 1
        /\ \A k \in 1..Len(ch) : Len(u) + k \in 1..Len(syntax) /\ syntax[Len(u) + k] = ch[k]
    BY <1>4, <1>5, <1>6
  <2> HIDE DEF u, ch
  <2>2. Len(u) \in Nat /\ Len(ch) \in Nat /\ DOMAIN syntax = 1..Len(syntax)
    BY <2>1
  <2>3. \A k \in 1..Len(ch) : Element(dec.pos + (k - 1)) = ch[k]
    <3> TAKE k \in 1..Len(ch)
    <3>1. dec.pos + (k - 1) = Len(u) + k
      BY <2>1, <2>2
    <3>2. Len(u) + k \in DOMAIN syntax /\ syntax[Len(u) + k] = ch[k]
      BY <2>1, <2>2
    <3> QED
      BY <3>1, <3>2 DEF Element
  <2>4. dec.pos \in Nat
    BY <2>1, <2>2
  <2> QED
    BY <2>2, <2>3, <2>4 DEF ch
<1>8. delta = Configured.tileIdxDeltaPresent
  <2>1. /\ Configured.tileIdxDeltaPresent \in BOOLEAN
        /\ Configured.tileIdxDeltaPresent <=>
             \E i \in 2..n : ~SameTile(slices, i) /\ ~NextFollows(i)
    BY <1>1, DeltaMeans
  <2>2. enc.tileIdxDeltaPresent = Configured.tileIdxDeltaPresent /\ Len(dec.rects) = n
    BY EncMeans DEF ReadSoFar
  <2>3. CASE n = 2
    <3>1. ~SameTile(slices, 2) => NextFollows(2)
      BY <1>1, <2>3, TwoFollow
    <3>2. \A i \in 2..n : i = 2
      BY <2>3
    <3>3. ~Configured.tileIdxDeltaPresent
      BY <2>1, <3>1, <3>2
    <3>4. ~delta
      BY <2>2, <3>3
    <3> QED
      BY <2>1, <3>3, <3>4
  <2>4. CASE n > 2
    <3>1. Len(dec.rects) - 1 > 1
      BY <1>1, <2>2, <2>4
    <3> QED
      BY <2>1, <2>2, <3>1
  <2>5. n = 2 \/ n > 2
    <3>1. n \in Nat /\ at \in 1..n /\ at < n
      BY <1>1, <1>2
    <3> HIDE DEF n
    <3> QED
      BY <3>1
  <2> HIDE DEF delta, n
  <2> QED
    BY <2>3, <2>4, <2>5
<1> QED
  BY <1>1, <1>2, <1>3, <1>7, <1>8

\* The reader has the parameters of the slice, and those of its tile.
LEMMA ReadsSlice ==
  ASSUME IsTiled(pic), ReadSoFar, at < Len(slices)
  PROVE  LET r == Configured.rects[at]
             t == dec.tileIdx
             delta == enc.tileIdxDeltaPresent /\ Len(dec.rects) - 1 > 1
             hasWidth == t % NumTileCols(pic) # NumTileCols(pic) - 1
             w == IF hasWidth THEN Element(dec.pos) + 1 ELSE 1
             p1 == dec.pos + (IF hasWidth THEN 1 ELSE 0)
             hasHeight == HeightPresent(t, delta)
             h == IF hasHeight THEN Element(p1) + 1
                  ELSE IF t \div NumTileCols(pic) = NumTileRows(pic) - 1 THEN 1
                  ELSE dec.rects[at - 1].height
             p2 == p1 + (IF hasHeight THEN 1 ELSE 0)
             inTile == w = 1 /\ h = 1
             split == inTile /\ RowHeight(t) > 1
             numExp == IF split THEN Element(p2) ELSE 0
             heights == IF numExp = 0 THEN <<RowHeight(t)>>
                        ELSE ReadHeights([j \in 1..numExp |-> Element(p2 + j) + 1], RowHeight(t))
             p3 == p2 + numExp + (IF split THEN 1 ELSE 0)
             last == LastWith(at)
         IN /\ w = r.width /\ h = r.height /\ (inTile <=> InOne(slices[at]))
            /\ InOne(slices[at]) => heights = HeightsOf(at) /\ Len(heights) = r.slicesInTile
            /\ at + Len(heights) - 1 = last
            /\ p3 \in Nat /\ p3 + (IF last < Len(slices) /\ delta THEN 1 ELSE 0) = dec.pos + Len(Chunk(at))
            /\ last < Len(slices) /\ delta =>
                 Element(p3) = Configured.rects[last + 1].tileIdx - Configured.rects[last].tileIdx
<1> DEFINE n == Len(slices)  i == at  R == Configured.rects  r == R[i]  m == NumTileCols(pic)
           l == NumTileRows(pic)  t == dec.tileIdx  ch == Chunk(i)  last == LastWith(i)
           hs == HeightsOf(i)  e == NumExpSlices(hs)  s == slices[i]
           delta == enc.tileIdxDeltaPresent /\ Len(dec.rects) - 1 > 1
           hasWidth == t % m # m - 1
           w == IF hasWidth THEN Element(dec.pos) + 1 ELSE 1
           a == IF hasWidth THEN 1 ELSE 0
           p1 == dec.pos + a
           hasHeight == HeightPresent(t, delta)
           h == IF hasHeight THEN Element(p1) + 1
                ELSE IF t \div m = l - 1 THEN 1 ELSE dec.rects[i - 1].height
           b == IF hasHeight THEN 1 ELSE 0
           p2 == p1 + b
           inTile == w = 1 /\ h = 1
           split == inTile /\ RowHeight(t) > 1
           numExp == IF split THEN Element(p2) ELSE 0
           heights == IF numExp = 0 THEN <<RowHeight(t)>>
                      ELSE ReadHeights([j \in 1..numExp |-> Element(p2 + j) + 1], RowHeight(t))
           p3 == p2 + numExp + (IF split THEN 1 ELSE 0)
           hasStep == last < n /\ delta
           c == IF Split(i) THEN 1 + e ELSE 0
           d == IF hasStep THEN 1 ELSE 0
<1>1. /\ Drawn(slices) /\ Complete(slices) /\ slices \in Seq(Rectangle) /\ n \in Nat
      /\ i \in 1..n /\ i < n /\ ~SameTile(slices, i) /\ t = r.tileIdx
      /\ dec.pos \in Nat /\ Len(ch) \in Nat
      /\ \A k \in 1..Len(ch) : Element(dec.pos + (k - 1)) = ch[k]
      /\ delta = Configured.tileIdxDeltaPresent
  BY NextRead
<1>2. /\ Len(ch) = a + b + c + d
      /\ hasWidth => ch[1] = r.width - 1
      /\ hasHeight => ch[a + 1] = r.height - 1
      /\ Split(i) => /\ e \in Nat /\ ch[a + b + 1] = e
                     /\ \A j \in 1..e : ch[a + b + (1 + j)] = hs[j] - 1
      /\ hasStep => ch[a + b + c + 1] = R[last + 1].tileIdx - R[last].tileIdx
  <2> HIDE DEF delta
  <2> QED
    BY <1>1, ChunkMeans
<1>3. /\ t \in Nat /\ m \in Nat /\ l \in Nat /\ t % m = C1(s) /\ t \div m = R1(s)
      /\ r.width \in 1..(m - C1(s)) /\ r.height \in 1..(l - R1(s))
      /\ s \in Rectangle /\ C1(s) \in Nat /\ R1(s) \in Nat
      /\ C1(s) \in 0..(m - 1) /\ R1(s) \in 0..(l - 1)
  <2>1. /\ r.tileIdx \in Nat /\ r.tileIdx % m = C1(s) /\ r.tileIdx \div m = R1(s)
        /\ r.width \in 1..(m - C1(s)) /\ r.height \in 1..(l - R1(s))
    BY <1>1, RectPlaces
  <2>2. s \in Rectangle
    BY <1>1
  <2>3. C1(s) \in 0..(m - 1) /\ R1(s) \in 0..(l - 1)
    BY <2>2, RectangleParts
  <2>4. m \in Nat /\ l \in Nat
    BY DEF IsTiled, NumTileCols, NumTileRows
  <2> HIDE DEF r, m, l, s, t
  <2> QED
    BY <1>1, <2>1, <2>2, <2>3, <2>4
<1>4. /\ r.width = C2(s) - C1(s) + 1 /\ r.height = R2(s) - R1(s) + 1 /\ (InTile(r) <=> InOne(s))
      /\ C2(s) \in Nat /\ R2(s) \in Nat
  <2>1. r.width = C2(s) - C1(s) + 1 /\ r.height = R2(s) - R1(s) + 1 /\ (InTile(r) <=> InOne(s))
    BY <1>1, ConfiguredRect
  <2>2. C2(s) \in 0..(m - 1) /\ R2(s) \in 0..(l - 1)
    BY <1>3, RectangleParts
  <2> HIDE DEF r, m, l, s
  <2> QED
    BY <1>3, <2>1, <2>2
<1>5. a \in {0, 1} /\ b \in {0, 1} /\ d \in {0, 1} /\ c \in Nat
  <2> HIDE DEF e, hasWidth, hasHeight, hasStep
  <2> QED
    BY <1>2
<1>a. /\ dec.pos \in Nat /\ Len(ch) \in Nat /\ Len(ch) = a + b + c + d
      /\ a \in Nat /\ b \in Nat /\ c \in Nat /\ d \in Nat
  <2>1. dec.pos \in Nat /\ Len(ch) \in Nat /\ Len(ch) = a + b + c + d
    BY <1>1, <1>2
  <2> HIDE DEF a, b, c, d, ch
  <2> QED
    BY <1>5, <2>1
<1>6. w = r.width
  <2>1. CASE hasWidth
    <3>1. a = 1
      BY <2>1
    <3> HIDE DEF a, b, c, d, hasWidth, hasHeight, hasStep, r, ch
    <3>2. 1 \in 1..Len(ch) /\ dec.pos + (1 - 1) = dec.pos
      BY <1>1, <1>2, <1>5, <3>1
    <3>3. Element(dec.pos) = ch[1]
      BY <1>1, <3>2
    <3>4. r.width \in Int
      BY <1>3
    <3> QED
      BY <1>2, <2>1, <3>3, <3>4
  <2>2. CASE ~hasWidth
    <3>1. C1(s) = m - 1 /\ w = 1
      BY <1>3, <2>2
    <3> HIDE DEF r, m, s, w
    <3> QED
      BY <1>3, <3>1
  <2> QED
    BY <2>1, <2>2
<1>7. h = r.height
  <2>1. CASE hasHeight
    <3>1. b = 1 /\ h = Element(p1) + 1
      BY <2>1
    <3>2. ch[a + 1] = r.height - 1
      BY <1>2, <2>1
    <3> HIDE DEF a, b, c, d, hasWidth, hasHeight, hasStep, r, ch, h
    <3>3. a + 1 \in 1..Len(ch) /\ dec.pos + ((a + 1) - 1) = p1
      BY <1>a, <3>1
    <3> HIDE DEF p1
    <3>4. Element(p1) = ch[a + 1]
      BY <1>1, <3>3
    <3>5. r.height \in Int
      BY <1>3
    <3> QED
      BY <3>1, <3>2, <3>4, <3>5
  <2>2. CASE ~hasHeight /\ t \div m = l - 1
    <3>1. R1(s) = l - 1 /\ h = 1
      BY <1>3, <2>2
    <3> HIDE DEF r, l, m, s, h, t
    <3> QED
      BY <1>3, <3>1
  <2>3. CASE ~hasHeight /\ t \div m # l - 1
    <3>1. ~delta /\ C1(s) # 0 /\ h = dec.rects[i - 1].height
      <4>1. ~delta /\ t % m # 0
        BY <2>3 DEF HeightPresent
      <4> QED
        BY <1>3, <2>3, <4>1
    <3>2. \A k \in 2..n : ~SameTile(slices, k) => NextFollows(k)
      <4>1. ~Configured.tileIdxDeltaPresent
        BY <1>1, <3>1
      <4> QED
        BY <1>1, <4>1, DeltaMeans
    <3>3. i # 1
      <4> SUFFICES ASSUME i = 1 PROVE FALSE
        OBVIOUS
      <4>1. C1(slices[1]) = 0
        BY <1>1, FirstIsFirst
      <4> QED
        BY <3>1, <4>1
    <3>4. i \in 2..n /\ i - 1 \in 1..n /\ i - 1 \in 1..(i - 1)
      <4>1. n \in Nat /\ i \in 1..n
        BY <1>1
      <4> HIDE DEF n
      <4> QED
        BY <3>3, <4>1
    <3>5. R1(s) = R1(slices[i - 1]) /\ R2(s) = R2(slices[i - 1])
      BY <1>1, <3>1, <3>2, <3>4, SameHeight
    <3>6. R[i - 1].height = R2(slices[i - 1]) - R1(slices[i - 1]) + 1
      BY <1>1, <3>4, ConfiguredRect
    <3>7. dec.rects[i - 1].height = R[i - 1].height
      BY <3>4 DEF ReadSoFar, Agrees
    <3> QED
      BY <1>4, <3>1, <3>5, <3>6, <3>7
  <2> QED
    BY <2>1, <2>2, <2>3
<1>8. (inTile <=> InOne(s)) /\ (split <=> Split(i))
  <2>1. r.width = 1 <=> C1(s) = C2(s)
    <3> DEFINE u == r.width  lo == C1(s)  hi == C2(s)
    <3>1. u = hi - lo + 1 /\ lo \in Nat /\ hi \in Nat
      BY <1>3, <1>4
    <3> HIDE DEF u, lo, hi
    <3>2. u = 1 <=> lo = hi
      BY <3>1
    <3> QED
      BY <3>2 DEF u, lo, hi
  <2>2. r.height = 1 <=> R1(s) = R2(s)
    <3> DEFINE u == r.height  lo == R1(s)  hi == R2(s)
    <3>1. u = hi - lo + 1 /\ lo \in Nat /\ hi \in Nat
      BY <1>3, <1>4
    <3> HIDE DEF u, lo, hi
    <3>2. u = 1 <=> lo = hi
      BY <3>1
    <3> QED
      BY <3>2 DEF u, lo, hi
  <2>3. inTile <=> r.width = 1 /\ r.height = 1
    <3> HIDE DEF w, h, r
    <3> QED
      BY <1>6, <1>7
  <2>4. split <=> Split(i)
    <3>1. Split(i) <=> r.width = 1 /\ r.height = 1 /\ RowHeight(t) > 1
      BY <1>1 DEF Split
    <3> HIDE DEF inTile
    <3> QED
      BY <2>3, <3>1
  <2> HIDE DEF inTile, split, r, s
  <2> QED
    BY <2>1, <2>2, <2>3, <2>4 DEF InOne
<1>9. /\ Split(i) => InOne(s)
      /\ InOne(s) => /\ last = i + r.slicesInTile - 1 /\ hs \in Seq(Positive) /\ Len(hs) = r.slicesInTile
                     /\ Len(hs) > 0 /\ (Split(i) => e \in 0..Len(hs))
                     /\ (~Split(i) \/ e = 0 => hs = <<RowHeight(t)>>)
                     /\ (Split(i) /\ e # 0 => ReadHeights([j \in 1..e |-> hs[j]], RowHeight(t)) = hs)
      /\ ~InOne(s) => last = i
  <2>1. ~InOne(s) => last = i /\ ~Split(i)
    BY <1>1, LastMeans
  <2>2. InOne(s) => last = i + r.slicesInTile - 1
    BY <1>1, LastMeans
  <2>3. InOne(s) => /\ hs \in Seq(Positive) /\ Len(hs) = r.slicesInTile
                    /\ Len(hs) > 0 /\ (Split(i) => e \in 0..Len(hs))
                    /\ (~Split(i) \/ e = 0 => hs = <<RowHeight(t)>>)
                    /\ (Split(i) /\ e # 0 => ReadHeights([j \in 1..e |-> hs[j]], RowHeight(t)) = hs)
    <3> SUFFICES ASSUME InOne(slices[i])
                 PROVE  /\ hs \in Seq(Positive) /\ Len(hs) = r.slicesInTile
                        /\ Len(hs) > 0 /\ (Split(i) => e \in 0..Len(hs))
                        /\ (~Split(i) \/ e = 0 => hs = <<RowHeight(t)>>)
                        /\ (Split(i) /\ e # 0 => ReadHeights([j \in 1..e |-> hs[j]], RowHeight(t)) = hs)
      OBVIOUS
    <3>1. /\ hs \in Seq(Positive) /\ Len(hs) = r.slicesInTile
          /\ Len(hs) > 0 /\ (Split(i) => e \in 0..Len(hs))
          /\ (~Split(i) \/ e = 0 => hs = <<RowHeight(r.tileIdx)>>)
          /\ (Split(i) /\ e # 0 => ReadHeights([j \in 1..e |-> hs[j]], RowHeight(r.tileIdx)) = hs)
      BY <1>1, HeightsRead
    <3>2. RowHeight(r.tileIdx) = RowHeight(t)
      BY <1>1
    <3> HIDE DEF hs, e, r, t
    <3> QED
      BY <3>1, <3>2
  <2> HIDE DEF hs, e, r, t, last, s
  <2> QED
    BY <2>1, <2>2, <2>3
<1>10. p2 = dec.pos + (a + b) /\ a + b \in Nat
  <2> HIDE DEF a, b, c, d, ch
  <2> QED
    BY <1>a
<1>11. Split(i) => /\ e \in Nat /\ c = 1 + e /\ Element(p2) = e
                   /\ \A j \in 1..e : Element(p2 + j) = hs[j] - 1
  <2> SUFFICES ASSUME Split(i)
               PROVE  /\ e \in Nat /\ c = 1 + e /\ Element(p2) = e
                      /\ \A j \in 1..e : Element(p2 + j) = hs[j] - 1
    OBVIOUS
  <2> DEFINE q == a + b
  <2>1. c = 1 + e
    OBVIOUS
  <2>2. /\ e \in Nat /\ ch[q + 1] = e /\ \A j \in 1..e : ch[q + (1 + j)] = hs[j] - 1
    BY <1>2
  <2>3. q \in Nat /\ p2 = dec.pos + q
    BY <1>10
  <2>4. Len(ch) = q + c + d
    BY <1>2
  <2>a. dec.pos \in Nat /\ Len(ch) \in Nat /\ d \in Nat
    <3> HIDE DEF a, b, c, d, ch
    <3> QED
      BY <1>a
  <2> HIDE DEF a, b, q, p2, c, d, e, hs, ch
  <2>5. q + 1 \in 1..Len(ch) /\ dec.pos + ((q + 1) - 1) = p2
    BY <2>a, <2>1, <2>2, <2>3, <2>4
  <2>6. Element(p2) = e
    BY <1>1, <2>2, <2>5
  <2>7. \A j \in 1..e : Element(p2 + j) = hs[j] - 1
    <3> TAKE j \in 1..e
    <3>1. q + (1 + j) \in 1..Len(ch) /\ dec.pos + ((q + (1 + j)) - 1) = p2 + j
      BY <2>a, <2>1, <2>2, <2>3, <2>4
    <3> QED
      BY <1>1, <2>2, <3>1
  <2> QED
    BY <2>1, <2>2, <2>6, <2>7
<1>12. numExp = IF Split(i) THEN e ELSE 0
  <2> HIDE DEF split, p2, e
  <2> QED
    BY <1>8, <1>11
<1>13. heights = IF InOne(s) THEN hs ELSE <<RowHeight(t)>>
  <2>1. CASE Split(i) /\ e # 0
    <3>1. numExp = e /\ InOne(s) /\ e \in 0..Len(hs)
      <4> HIDE DEF numExp, e, s, hs
      <4> QED
        BY <1>9, <1>12, <2>1
    <3>2. \A j \in 1..e : Element(p2 + j) + 1 = hs[j]
      <4> TAKE j \in 1..e
      <4>1. Element(p2 + j) = hs[j] - 1
        BY <1>11, <2>1
      <4> HIDE DEF e, hs, s
      <4>2. hs \in Seq(Positive) /\ j \in 1..Len(hs)
        BY <1>9, <3>1
      <4>3. hs[j] \in Positive
        BY <4>2
      <4>4. hs[j] \in Nat
        BY <4>3 DEF Positive
      <4> HIDE DEF p2
      <4> QED
        BY <4>1, <4>4
    <3> DEFINE u == [j \in 1..e |-> Element(p2 + j) + 1]  v == [j \in 1..e |-> hs[j]]
    <3>3. u = v
      <4> HIDE DEF e, hs, p2
      <4> QED
        BY <3>2
    <3>4. heights = ReadHeights(u, RowHeight(t))
      <4>1. heights = ReadHeights([j \in 1..numExp |-> Element(p2 + j) + 1], RowHeight(t))
        <5>1. numExp # 0
          BY <2>1, <3>1
        <5> HIDE DEF numExp
        <5> QED
          BY <5>1
      <4> HIDE DEF heights, numExp, e, p2
      <4> QED
        BY <3>1, <4>1
    <3> HIDE DEF heights, e, hs, s, u
    <3> QED
      BY <1>9, <2>1, <3>1, <3>3, <3>4
  <2>2. CASE ~(Split(i) /\ e # 0)
    <3>1. numExp = 0
      <4> HIDE DEF numExp, e
      <4> QED
        BY <1>12, <2>2
    <3>2. heights = <<RowHeight(t)>>
      <4> HIDE DEF numExp
      <4> QED
        BY <3>1
    <3> HIDE DEF heights, e, hs, s
    <3> QED
      BY <1>9, <2>2, <3>2
  <2> QED
    BY <2>1, <2>2
<1>14. /\ InOne(s) => heights = hs /\ Len(heights) = r.slicesInTile
       /\ i + Len(heights) - 1 = last
  <2> HIDE DEF heights, hs, s, r, last
  <2>1. InOne(s) => heights = hs /\ Len(heights) = r.slicesInTile /\ last = i + r.slicesInTile - 1
    BY <1>9, <1>13
  <2>2. ~InOne(s) => Len(heights) = 1 /\ last = i
    BY <1>9, <1>13
  <2>3. i \in Int
    BY <1>1
  <2>4. CASE InOne(s)
    BY <2>1, <2>4
  <2>5. CASE ~InOne(s)
    <3>1. Len(heights) = 1 /\ last = i
      BY <2>2, <2>5
    <3>2. i + 1 - 1 = i
      BY <2>3
    <3> QED
      BY <2>5, <3>1, <3>2
  <2> QED
    BY <2>4, <2>5
<1>15. p3 = dec.pos + (a + b + c)
  <2>1. CASE Split(i)
    <3>1. numExp = e /\ c = 1 + e /\ split
      <4> HIDE DEF numExp, e, split
      <4> QED
        BY <1>8, <1>11, <1>12, <2>1 DEF split
    <3>2. p3 = p2 + e + 1
      <4> HIDE DEF numExp, e, split, p2
      <4> QED
        BY <3>1
    <3>3. e \in Nat
      BY <1>11, <2>1
    <3> HIDE DEF p3, p2, a, b, c, d, ch, e, split, numExp
    <3> QED
      BY <1>a, <1>10, <3>1, <3>2, <3>3
  <2>2. CASE ~Split(i)
    <3>1. numExp = 0 /\ c = 0 /\ ~split
      <4> HIDE DEF numExp, e, split
      <4> QED
        BY <1>8, <1>12, <2>2
    <3>2. p3 = p2 + 0 + 0
      <4> HIDE DEF numExp, split, p2
      <4> QED
        BY <3>1
    <3> HIDE DEF p3, p2, a, b, c, split, numExp
    <3> QED
      BY <1>1, <1>5, <1>10, <3>1, <3>2
  <2> QED
    BY <2>1, <2>2
<1>16. p3 \in Nat /\ p3 + d = dec.pos + Len(ch)
  <2> HIDE DEF p3, a, b, c, d, ch
  <2> QED
    BY <1>a, <1>15
<1>17. hasStep => Element(p3) = R[last + 1].tileIdx - R[last].tileIdx
  <2> SUFFICES ASSUME hasStep PROVE Element(p3) = R[last + 1].tileIdx - R[last].tileIdx
    OBVIOUS
  <2>1. d = 1
    OBVIOUS
  <2> DEFINE q == a + b + c  step == R[last + 1].tileIdx - R[last].tileIdx
  <2>2. ch[q + 1] = step
    BY <1>2
  <2>3. q \in Nat /\ p3 = dec.pos + q /\ Len(ch) = q + d
    <3>1. Len(ch) = q + d
      BY <1>2
    <3>2. p3 = dec.pos + q
      BY <1>15
    <3>3. q \in Nat
      <4> HIDE DEF a, b, c
      <4> QED
        BY <1>5
    <3> QED
      BY <3>1, <3>2, <3>3
  <2> HIDE DEF q, p3, d, ch, step, last
  <2>4. q + 1 \in 1..Len(ch) /\ dec.pos + ((q + 1) - 1) = p3
    BY <1>1, <2>1, <2>3
  <2>5. Element(p3) = ch[q + 1]
    BY <1>1, <2>4
  <2> QED
    BY <2>2, <2>5 DEF step
<1>18. /\ w = r.width /\ h = r.height /\ (inTile <=> InOne(s))
       /\ InOne(s) => heights = hs /\ Len(heights) = r.slicesInTile
       /\ i + Len(heights) - 1 = last
       /\ p3 \in Nat /\ p3 + d = dec.pos + Len(ch)
       /\ hasStep => Element(p3) = R[last + 1].tileIdx - R[last].tileIdx
  BY <1>6, <1>7, <1>8, <1>14, <1>16, <1>17
<1> QED
  BY <1>18

\* So it has those of the configuration for all slices that it has come past.
LEMMA ReadSliceMeans ==
  ASSUME IsTiled(pic), ReadSoFar, ReadSlice
  PROVE  /\ stage' = stage /\ at' \in 1..(Len(slices) + 1)
         /\ at' <= Len(slices) => ~SameTile(slices, at')
         /\ dec' \in Reader /\ Len(dec'.rects) = Len(slices) /\ dec'.map = << >>
         /\ \A k \in 1..(at' - 1) : Agrees(dec'.rects, k)
         /\ dec'.tileIdx = Configured.rects[Minimum(at', Len(slices))].tileIdx
         /\ dec'.pos = Len(Written(at')) + 1
<1> DEFINE n == Len(dec.rects)  i == at  R == Configured.rects  r == R[i]
           t == dec.tileIdx  ch == Chunk(i)  hs == HeightsOf(i)  s == slices[i]
           delta == enc.tileIdxDeltaPresent /\ n - 1 > 1
           hasWidth == t % NumTileCols(pic) # NumTileCols(pic) - 1
           w == IF hasWidth THEN Element(dec.pos) + 1 ELSE 1
           p1 == dec.pos + (IF hasWidth THEN 1 ELSE 0)
           hasHeight == HeightPresent(t, delta)
           h == IF hasHeight THEN Element(p1) + 1
                ELSE IF t \div NumTileCols(pic) = NumTileRows(pic) - 1 THEN 1
                ELSE dec.rects[i - 1].height
           p2 == p1 + (IF hasHeight THEN 1 ELSE 0)
           inTile == w = 1 /\ h = 1
           split == inTile /\ RowHeight(t) > 1
           numExp == IF split THEN Element(p2) ELSE 0
           heights == IF numExp = 0 THEN <<RowHeight(t)>>
                      ELSE ReadHeights([j \in 1..numExp |-> Element(p2 + j) + 1], RowHeight(t))
           p3 == p2 + numExp + (IF split THEN 1 ELSE 0)
           last == at + Len(heights) - 1
           rects == [k \in 1..n |->
             IF k < i \/ k > last THEN dec.rects[k]
             ELSE [tileIdx |-> t, width |-> w, height |-> h,
                   slicesInTile |-> IF inTile THEN Len(heights) ELSE 0,
                   ctuHeight |-> IF inTile THEN heights[k - i + 1] ELSE 0]]
           written == last < n /\ delta
           next == IF last >= n THEN t ELSE IF delta THEN t + Element(p3) ELSE NextTileIdx(rects[last])
<1>1. /\ i < n
      /\ dec' = [dec EXCEPT !.rects = rects, !.tileIdx = next, !.pos = p3 + (IF written THEN 1 ELSE 0)]
      /\ at' = last + 1
      /\ stage' = IF written /\ t + Element(p3) \notin 0..(NumTiles(pic) - 1) THEN "error" ELSE stage
  BY ZenonT(60) DEF ReadSlice
<1>2. n = Len(slices) /\ dec \in Reader /\ dec.map = << >>
  BY SMTT(60) DEF ReadSoFar
<1>3. i < Len(slices)
  BY <1>1, <1>2
<1>4. /\ w = r.width /\ h = r.height /\ (inTile <=> InOne(s))
      /\ InOne(s) => heights = hs /\ Len(heights) = r.slicesInTile
      /\ last = LastWith(i)
      /\ p3 \in Nat /\ p3 + (IF written THEN 1 ELSE 0) = dec.pos + Len(ch)
      /\ written => Element(p3) = R[last + 1].tileIdx - R[last].tileIdx
  <2> DEFINE to == LastWith(i)
  <2>1. /\ w = r.width /\ h = r.height /\ (inTile <=> InOne(s))
        /\ InOne(s) => heights = hs /\ Len(heights) = r.slicesInTile
        /\ last = to
        /\ p3 \in Nat /\ p3 + (IF to < Len(slices) /\ delta THEN 1 ELSE 0) = dec.pos + Len(ch)
        /\ to < Len(slices) /\ delta => Element(p3) = R[to + 1].tileIdx - R[to].tileIdx
    BY <1>3, ReadsSlice
  <2> HIDE DEF w, h, inTile, heights, last, p3, to, R, r, delta, hs, ch, s
  <2> QED
    BY <1>2, <2>1 DEF to
<1>5. /\ Drawn(slices) /\ slices \in Seq(Rectangle) /\ n \in Nat /\ i \in 1..n /\ ~SameTile(slices, i)
      /\ t = r.tileIdx /\ delta = Configured.tileIdxDeltaPresent /\ dec.pos \in Nat /\ Len(ch) \in Nat
  BY <1>2, <1>3, NextRead
<1> HIDE DEF w, h, inTile, heights, last, p3, delta, written, t
<1>6. /\ last \in i..n
      /\ \A k \in (i + 1)..last : SameTile(slices, k)
      /\ last < n => ~SameTile(slices, last + 1)
      /\ \A k \in i..last : R[k].tileIdx = r.tileIdx
      /\ InOne(s) => /\ last = i + r.slicesInTile - 1
                     /\ \A k \in i..last : R[k].width = 1 /\ R[k].height = 1
      /\ ~InOne(s) => last = i
  <2>1. i \in 1..Len(slices)
    BY <1>2, <1>5
  <2> QED
    BY <1>2, <1>4, <1>5, <2>1, LastMeans
<1>7. R \in Seq(RectSlice) /\ Len(R) = n /\ \A k \in 1..n : R[k] \in RectSlice
  <2>1. R \in Seq(RectSlice) /\ DOMAIN R = 1..Len(slices)
    BY <1>5, ConfiguredMeans
  <2> HIDE DEF R
  <2>2. Len(R) = n
    BY <1>2, <1>5, <2>1
  <2> HIDE DEF n
  <2> QED
    BY <2>1, <2>2
<1>8. rects = [k \in 1..n |-> rects[k]]
  OBVIOUS
<1>9. \A k \in 1..n : k \notin i..last => rects[k] = dec.rects[k]
  <2> TAKE k \in 1..n
  <2>1. k \notin i..last => k < i \/ k > last
    <3>1. i \in Nat /\ last \in Nat /\ k \in Nat
      BY <1>5, <1>6
    <3> HIDE DEF n
    <3> QED
      BY <3>1
  <2> HIDE DEF n
  <2> QED
    BY <2>1
<1>10. \A k \in i..last : /\ k \in 1..n /\ rects[k] \in RectSlice /\ Agrees(rects, k)
  <2> TAKE k \in i..last
  <2>1. k \in 1..n /\ ~(k < i \/ k > last) /\ k \in Nat /\ i \in Nat
    BY <1>5, <1>6
  <2> DEFINE many == IF inTile THEN Len(heights) ELSE 0
             high == IF inTile THEN heights[k - i + 1] ELSE 0
  <2>2. rects[k] = [tileIdx |-> t, width |-> w, height |-> h, slicesInTile |-> many, ctuHeight |-> high]
    BY <2>1
  <2>3. rects[k].tileIdx = t /\ rects[k].width = w /\ rects[k].height = h
        /\ rects[k].slicesInTile = many /\ rects[k].ctuHeight = high
    <3> DEFINE q == rects[k]
    <3>1. q = [tileIdx |-> t, width |-> w, height |-> h, slicesInTile |-> many, ctuHeight |-> high]
      BY <2>2
    <3> HIDE DEF q, many, high
    <3>2. /\ q.tileIdx = t /\ q.width = w /\ q.height = h
          /\ q.slicesInTile = many /\ q.ctuHeight = high
      BY <3>1
    <3> QED
      BY <3>2 DEF q
  <2>4. R[k] \in RectSlice /\ r \in RectSlice
    BY <1>5, <1>7, <2>1
  <2>5. t = R[k].tileIdx
    BY <1>5, <1>6
  <2>6. many = r.slicesInTile
    <3>1. CASE InOne(s)
      BY <1>4, <3>1
    <3>2. CASE ~InOne(s)
      <4>1. i \in 1..Len(slices)
        BY <1>2, <1>5
      <4>2. r.slicesInTile = 0
        BY <1>5, <3>2, <4>1, ConfiguredRect
      <4>3. many = 0
        BY <1>4, <3>2
      <4> QED
        BY <4>2, <4>3
    <3> QED
      BY <3>1, <3>2
  <2>7. high = R[k].ctuHeight
    <3>1. CASE InOne(s)
      <4>1. high = hs[k - i + 1]
        BY <1>4, <3>1
      <4>2. k - i + 1 \in 1..r.slicesInTile /\ i + (k - i + 1) - 1 = k
        <5> DEFINE c == r.slicesInTile
        <5>1. c \in Nat /\ last = i + c - 1
          BY <1>6, <2>4, <3>1 DEF RectSlice
        <5> HIDE DEF c
        <5>2. k - i + 1 \in 1..c /\ i + (k - i + 1) - 1 = k
          BY <2>1, <5>1
        <5> QED
          BY <5>2 DEF c
      <4>3. hs[k - i + 1] = R[i + (k - i + 1) - 1].ctuHeight
        BY <4>2 DEF HeightsOf
      <4> QED
        BY <4>1, <4>2, <4>3
    <3>2. CASE ~InOne(s)
      <4>1. k = i
        BY <1>6, <2>1, <3>2
      <4>2. i \in 1..Len(slices)
        BY <1>2, <1>5
      <4>3. r.ctuHeight = 0
        BY <1>5, <3>2, <4>2, ConfiguredRect
      <4>4. high = 0
        BY <1>4, <3>2
      <4> QED
        BY <4>1, <4>3, <4>4
    <3> QED
      BY <3>1, <3>2
  <2>8. w = R[k].width /\ h = R[k].height
    <3>1. CASE InOne(s)
      <4>1. i \in i..last
        BY <1>5, <1>6
      <4> HIDE DEF R
      <4>2. r.width = 1 /\ r.height = 1 /\ R[k].width = 1 /\ R[k].height = 1
        BY <1>6, <3>1, <4>1
      <4> QED
        BY <1>4, <4>2
    <3>2. CASE ~InOne(s)
      <4>1. k = i
        BY <1>6, <2>1, <3>2
      <4> QED
        BY <1>4, <4>1
    <3> QED
      BY <3>1, <3>2
  <2>9. ~SameTile(slices, k) => k = i
    <3>1. k \in (i + 1)..last \/ k = i
      BY <1>6, <2>1
    <3> QED
      BY <1>6, <3>1
  <2>10. Agrees(rects, k)
    <3> HIDE DEF rects, R, many, high
    <3> QED
      BY <2>3, <2>5, <2>6, <2>7, <2>8, <2>9 DEF Agrees, R
  <2>11. rects[k] \in RectSlice
    <3> HIDE DEF many, high, R, r
    <3>1. t \in Nat /\ w \in Nat /\ h \in Nat /\ many \in Nat /\ high \in Nat
      BY <2>4, <2>5, <2>6, <2>7, <2>8 DEF RectSlice
    <3> HIDE DEF rects
    <3> QED
      BY <2>2, <3>1 DEF RectSlice
  <2> QED
    BY <2>1, <2>10, <2>11
<1> HIDE DEF rects
<1>11. rects \in Seq(RectSlice) /\ Len(rects) = n
  <2>1. \A k \in 1..n : rects[k] \in RectSlice
    <3> TAKE k \in 1..n
    <3>1. dec.rects[k] \in RectSlice
      <4>1. dec.rects \in Seq(RectSlice)
        BY <1>2 DEF Reader
      <4> QED
        BY <4>1
    <3> HIDE DEF n
    <3> QED
      BY <1>9, <1>10, <3>1
  <2> HIDE DEF n
  <2> QED
    BY <1>5, <1>8, <2>1
<1>12. \A k \in 1..((last + 1) - 1) : Agrees(rects, k)
  <2> TAKE k \in 1..((last + 1) - 1)
  <2>1. k \in i..last \/ (k \in 1..(i - 1) /\ k \in 1..n /\ k \notin i..last)
    <3> HIDE DEF n
    <3> QED
      BY <1>5, <1>6
  <2>2. CASE k \in i..last
    BY <1>10, <2>2
  <2>3. CASE k \in 1..(i - 1) /\ k \in 1..n /\ k \notin i..last
    <3>1. Agrees(dec.rects, k)
      BY <2>3 DEF ReadSoFar
    <3>2. rects[k] = dec.rects[k]
      BY <1>9, <2>3
    <3> QED
      BY <3>1, <3>2 DEF Agrees
  <2> QED
    BY <2>1, <2>2, <2>3
<1>13. t \in Nat /\ \A k \in 1..n : R[k].tileIdx \in 0..(NumTiles(pic) - 1) /\ R[k].tileIdx \in Nat
  <2>1. \A k \in 1..n : R[k].tileIdx \in Nat /\ R[k].tileIdx < NumTiles(pic)
    <3> TAKE k \in 1..n
    <3>1. k \in 1..Len(slices)
      BY <1>2
    <3> QED
      BY <1>5, <3>1, RectPlaces
  <2>2. NumTiles(pic) \in Int
    BY DEF IsTiled, NumTiles, NumTileCols, NumTileRows
  <2> HIDE DEF n, R, r
  <2>3. \A k \in 1..n : R[k].tileIdx \in 0..(NumTiles(pic) - 1) /\ R[k].tileIdx \in Nat
    <3> TAKE k \in 1..n
    <3>1. R[k].tileIdx \in Nat /\ R[k].tileIdx < NumTiles(pic)
      BY <2>1
    <3> DEFINE u == R[k].tileIdx  v == NumTiles(pic)
    <3>2. u \in Nat /\ u < v /\ v \in Int
      BY <2>2, <3>1
    <3> HIDE DEF u, v
    <3>3. u \in 0..(v - 1)
      BY <3>2
    <3> QED
      BY <3>1, <3>3 DEF u, v
  <2> QED
    BY <1>5, <2>3 DEF r
<1>14. written => t + Element(p3) = R[last + 1].tileIdx
  <2> SUFFICES ASSUME written PROVE t + Element(p3) = R[last + 1].tileIdx
    OBVIOUS
  <2>1. last \in i..n /\ last < n
    BY <1>6 DEF written
  <2>2. last \in 1..n /\ last + 1 \in 1..n
    <3> HIDE DEF n
    <3> QED
      BY <1>5, <2>1
  <2> DEFINE u == R[last + 1].tileIdx  v == R[last].tileIdx
  <2>3. u \in Nat /\ v \in Nat
    BY <1>13, <2>2
  <2>4. v = t
    <3>1. last \in i..last
      <4> HIDE DEF n
      <4> QED
        BY <1>5, <2>1
    <3> QED
      BY <1>5, <1>6, <3>1
  <2>5. Element(p3) = u - v
    BY <1>4
  <2> HIDE DEF u, v
  <2>6. t + Element(p3) = u
    BY <2>3, <2>4, <2>5
  <2> QED
    BY <2>6 DEF u
<1>15. stage' = stage
  <2>1. written => t + Element(p3) \in 0..(NumTiles(pic) - 1)
    <3> SUFFICES ASSUME written PROVE t + Element(p3) \in 0..(NumTiles(pic) - 1)
      OBVIOUS
    <3>1. last + 1 \in 1..n
      <4>1. last < n
        BY DEF written
      <4> HIDE DEF n
      <4> QED
        BY <1>5, <1>6, <4>1
    <3> QED
      BY <1>13, <1>14, <3>1
  <2> QED
    BY <1>1, <2>1
<1>16. next = R[Minimum(last + 1, n)].tileIdx /\ next \in Nat
  <2>1. CASE last >= n
    <3>1. last = n /\ Minimum(last + 1, n) = n /\ n \in i..last /\ n \in 1..n
      <4> HIDE DEF n
      <4> QED
        BY <1>5, <1>6, <2>1 DEF Minimum
    <3>2. R[n].tileIdx = t
      BY <1>5, <1>6, <3>1
    <3> QED
      BY <1>13, <2>1, <3>1, <3>2
  <2>2. CASE last < n
    <3>1. last \in 1..n /\ last + 1 \in 2..n /\ last + 1 \in 1..n /\ Minimum(last + 1, n) = last + 1
          /\ ~(last >= n) /\ (last + 1) - 1 = last /\ last \in i..last
      <4> HIDE DEF n
      <4> QED
        BY <1>5, <1>6, <2>2 DEF Minimum
    <3>2. CASE delta
      <4>1. next = t + Element(p3)
        BY <3>1, <3>2
      <4>2. written
        BY <2>2, <3>2 DEF written
      <4> QED
        BY <1>13, <1>14, <3>1, <4>1, <4>2
    <3>3. CASE ~delta
      <4>1. next = NextTileIdx(rects[last])
        BY <3>1, <3>3
      <4>2. NextFollows(last + 1)
        <5>1. ~SameTile(slices, last + 1)
          BY <1>6, <2>2
        <5>2. ~Configured.tileIdxDeltaPresent
          BY <1>5, <3>3
        <5>3. last + 1 \in 2..Len(slices)
          BY <1>2, <3>1
        <5> QED
          BY <1>5, <5>1, <5>2, <5>3, DeltaMeans
      <4>3. Agrees(rects, last)
        BY <1>10, <3>1
      <4>4. NextTileIdx(rects[last]) = NextTileIdx(R[last])
        BY <4>3 DEF Agrees, NextTileIdx
      <4>5. NextTileIdx(R[last]) = R[last + 1].tileIdx
        BY <3>1, <4>2 DEF NextFollows
      <4> HIDE DEF next, R
      <4> QED
        BY <1>13, <3>1, <4>1, <4>4, <4>5
    <3> QED
      BY <3>2, <3>3
  <2> QED
    <3>1. last >= n \/ last < n
      <4> HIDE DEF n
      <4> QED
        BY <1>5, <1>6
    <3> QED
      BY <2>1, <2>2, <3>1
<1> DEFINE pos == p3 + (IF written THEN 1 ELSE 0)
<1>17. pos = Len(Written(last + 1)) + 1 /\ pos \in Nat
  <2>1. /\ Written(i) \in Seq(Int)
        /\ Len(Written(last + 1)) = Len(Written(i)) + Len(ch)
    <3>1. i \in 1..Len(slices) /\ i < Len(slices)
      BY <1>2, <1>3, <1>5
    <3>2. /\ Written(i) \in Seq(Int)
          /\ Len(Written(LastWith(i) + 1)) = Len(Written(i)) + Len(ch)
      BY <1>5, <3>1, WrittenStep
    <3> QED
      BY <1>4, <3>2
  <2>2. dec.pos = Len(Written(i)) + 1
    BY DEF ReadSoFar
  <2>3. pos = dec.pos + Len(ch)
    BY <1>4
  <2> DEFINE u == Len(Written(i))  v == Len(ch)  x == Len(Written(last + 1))
  <2>4. u \in Nat /\ v \in Nat /\ x = u + v /\ pos = (u + 1) + v
    BY <1>5, <2>1, <2>2, <2>3
  <2> HIDE DEF u, v, x, pos
  <2>5. pos = x + 1 /\ pos \in Nat
    BY <2>4
  <2> QED
    BY <2>5 DEF x
<1> HIDE DEF next, pos
<1>18. /\ dec' \in Reader /\ dec'.rects = rects /\ dec'.tileIdx = next /\ dec'.pos = pos /\ dec'.map = << >>
  <2>1. dec' = [dec EXCEPT !.rects = rects, !.tileIdx = next, !.pos = pos]
    BY <1>1 DEF pos
  <2>2. rects \in Seq(RectSlice) /\ next \in Int /\ pos \in Nat
    BY <1>11, <1>16, <1>17
  <2>3. /\ dec \in [rects : Seq(RectSlice), tileIdx : Int, pos : Nat, map : Seq(Seq(Nat))]
        /\ dec.map = << >>
    BY <1>2 DEF Reader
  <2> DEFINE S == Seq(RectSlice)  M == Seq(Seq(Nat))
  <2>4. /\ dec \in [rects : S, tileIdx : Int, pos : Nat, map : M] /\ rects \in S
        /\ Reader = [rects : S, tileIdx : Int, pos : Nat, map : M]
    BY <2>2, <2>3 DEF Reader
  <2> HIDE DEF S, M, n
  <2> QED
    BY <2>1, <2>2, <2>3, <2>4
<1>19. at' \in 1..(n + 1) /\ (at' <= n => ~SameTile(slices, at'))
  <2>1. last + 1 \in 1..(n + 1) /\ (last + 1 <= n => last < n)
    <3> HIDE DEF n
    <3> QED
      BY <1>5, <1>6
  <2> QED
    BY <1>1, <1>6, <2>1
<1> QED
  BY <1>1, <1>2, <1>11, <1>12, <1>15, <1>16, <1>17, <1>18, <1>19

\* Iterations begin alike for parameters that differ only where no iteration looks.
LEMMA HeadsAlike ==
  ASSUME NEW given \in Seq(RectSlice), NEW read \in Seq(RectSlice), Len(given) > 0,
         Len(read) = Len(given),
         \A k \in 1..Len(given) :
           LET g == Heads(given)[k]
           IN g < Len(given) => /\ InTile(read[g]) <=> InTile(given[g])
                                /\ read[g].slicesInTile = given[g].slicesInTile
  PROVE  Heads(read) = Heads(given)
<1> DEFINE n == Len(given)  a == Heads(given)  b == Heads(read)  S == {i \in 1..n : b[i] = a[i]}
<1>1. n \in Nat /\ n >= 1
  OBVIOUS
<1>2. /\ a \in [1..n -> 1..n] /\ a[1] = 1
      /\ \A i \in 2..n : a[i] = IF InTile(given[a[i - 1]]) /\ i < a[i - 1] + given[a[i - 1]].slicesInTile
                                THEN a[i - 1] ELSE i
      /\ \A i \in 1..n : a[i] <= i
  BY HeadsMean
<1>3. /\ b \in [1..n -> 1..n] /\ b[1] = 1
      /\ \A i \in 2..n : b[i] = IF InTile(read[b[i - 1]]) /\ i < b[i - 1] + read[b[i - 1]].slicesInTile
                                THEN b[i - 1] ELSE i
  <2> DEFINE l == Len(read)
  <2>1. read \in Seq(RectSlice) /\ l > 0 /\ l = n
    OBVIOUS
  <2> HIDE DEF n
  <2>2. /\ b \in [1..l -> 1..l] /\ b[1] = 1
        /\ \A i \in 2..l : b[i] = IF InTile(read[b[i - 1]]) /\ i < b[i - 1] + read[b[i - 1]].slicesInTile
                                  THEN b[i - 1] ELSE i
    BY <2>1, HeadsMean
  <2> HIDE DEF l, b
  <2> QED
    BY <2>1, <2>2
<1>4. \A k \in 1..n : a[k] < n => /\ InTile(read[a[k]]) <=> InTile(given[a[k]])
                                  /\ read[a[k]].slicesInTile = given[a[k]].slicesInTile
  OBVIOUS
<1> HIDE DEF n, a, b
<1>5. 1 \in S
  BY <1>1, <1>2, <1>3
<1>6. \A i \in S : i < n => i + 1 \in S
  <2> SUFFICES ASSUME NEW i \in S, i < n PROVE i + 1 \in S
    OBVIOUS
  <2>1. i \in 1..n /\ i + 1 \in 2..n /\ i + 1 \in 1..n /\ (i + 1) - 1 = i /\ b[i] = a[i]
    BY <1>1
  <2>2. a[i] < n /\ a[i] \in 1..n
    BY <1>1, <1>2, <2>1
  <2>3. /\ InTile(read[a[i]]) <=> InTile(given[a[i]])
        /\ read[a[i]].slicesInTile = given[a[i]].slicesInTile
    BY <1>4, <2>1, <2>2
  <2>4. a[i + 1] = IF InTile(given[a[i]]) /\ i + 1 < a[i] + given[a[i]].slicesInTile THEN a[i] ELSE i + 1
    BY <1>2, <2>1
  <2>5. b[i + 1] = IF InTile(read[a[i]]) /\ i + 1 < a[i] + read[a[i]].slicesInTile THEN a[i] ELSE i + 1
    BY <1>3, <2>1
  <2>6. b[i + 1] = a[i + 1]
    BY <2>3, <2>4, <2>5
  <2> QED
    BY <2>1, <2>6
<1>7. S = 1..n
  <2>1. S \in SUBSET (1..n) /\ 1 \in Nat /\ 1 <= n
    BY <1>1
  <2> HIDE DEF S
  <2> QED
    BY <1>1, <1>5, <1>6, <2>1, InductionUpTo
<1>8. \A i \in 1..n : b[i] = a[i]
  BY <1>7
<1>9. b = a
  <2>1. a = [i \in 1..n |-> a[i]] /\ b = [i \in 1..n |-> b[i]]
    BY <1>2, <1>3
  <2>2. [i \in 1..n |-> b[i]] = [i \in 1..n |-> a[i]]
    BY <1>8
  <2> QED
    BY <2>1, <2>2
<1> QED
  BY <1>9 DEF a, b

\* Parameters that are those given, but for what is inferred of the last slice and for
\* how many slices follow in the tile of one that is not its first.
Alike(given, read) ==
  LET n == Len(given)
      head == Heads(given)
  IN /\ n > 0 /\ Len(read) = n
     /\ \A k \in 1..n : read[k].tileIdx = given[k].tileIdx /\ given[k].tileIdx < NumTiles(pic)
     /\ \A k \in 1..n : k < n \/ head[n] # n =>
          /\ read[k].width = given[k].width /\ read[k].height = given[k].height
          /\ read[k].ctuHeight = given[k].ctuHeight
     /\ \A k \in 1..n : head[k] < n => read[head[k]].slicesInTile = given[head[k]].slicesInTile

\* What they are once that is inferred.
LEMMA InferredAlike ==
  ASSUME IsTiled(pic), NEW given \in Seq(RectSlice), NEW read \in Seq(RectSlice), Alike(given, read)
  PROVE  LET n == Len(given)
             head == Heads(given)
             a == Inferred(pic, given)
             b == Inferred(pic, read)
         IN /\ n \in Nat /\ n >= 1 /\ head \in [1..n -> 1..n] /\ \A k \in 1..n : head[k] <= k
            /\ Heads(read) = head /\ Heads(a) = head /\ Heads(b) = head
            /\ a \in Seq(RectSlice) /\ Len(a) = n /\ b \in Seq(RectSlice) /\ Len(b) = n
            /\ \A k \in 1..n : /\ b[k].tileIdx = a[k].tileIdx /\ b[k].width = a[k].width
                               /\ b[k].height = a[k].height
                               /\ b[head[k]].slicesInTile = a[head[k]].slicesInTile
                               /\ k < n \/ head[n] # n => b[k].ctuHeight = a[k].ctuHeight
            /\ head[n] = n => a[n].slicesInTile = 1
<1> DEFINE n == Len(given)  head == Heads(given)  a == Inferred(pic, given)  b == Inferred(pic, read)
<1>1. n > 0 /\ Len(read) = n /\ n \in Nat /\ n >= 1
  BY DEF Alike
<1>2. \A k \in 1..n : read[k].tileIdx = given[k].tileIdx /\ given[k].tileIdx < NumTiles(pic)
  BY DEF Alike
<1>3. \A k \in 1..n : k < n \/ head[n] # n =>
        /\ read[k].width = given[k].width /\ read[k].height = given[k].height
        /\ read[k].ctuHeight = given[k].ctuHeight
  BY DEF Alike
<1>4. \A k \in 1..n : head[k] < n => read[head[k]].slicesInTile = given[head[k]].slicesInTile
  BY DEF Alike
<1>5. head \in [1..n -> 1..n] /\ \A k \in 1..n : head[k] <= k
  BY <1>1, HeadsMean
<1>6. Heads(read) = head
  <2>1. \A k \in 1..n : head[k] < n => /\ InTile(read[head[k]]) <=> InTile(given[head[k]])
                                       /\ read[head[k]].slicesInTile = given[head[k]].slicesInTile
    <3> TAKE k \in 1..n
    <3> HIDE DEF head
    <3> HAVE head[k] < n
    <3>1. head[k] \in 1..n
      BY <1>5
    <3>2. InTile(read[head[k]]) <=> InTile(given[head[k]])
      BY <1>3, <3>1 DEF InTile
    <3> QED
      BY <1>4, <3>2
  <2> QED
    BY <1>1, <2>1, HeadsAlike
<1>7. n \in 1..n
  BY <1>1
<1>8. a \in Seq(RectSlice) /\ Len(a) = n /\ Heads(a) = head
  BY <1>1, <1>2, <1>7, InferredMeans
<1>9. b \in Seq(RectSlice) /\ Len(b) = n /\ Heads(b) = head
  <2>1. read[n].tileIdx < NumTiles(pic)
    BY <1>2, <1>7
  <2>2. Len(read) > 0 /\ read[Len(read)].tileIdx < NumTiles(pic)
    BY <1>1, <2>1
  <2> HIDE DEF n, head
  <2>3. b \in Seq(RectSlice) /\ Len(b) = Len(read) /\ Heads(b) = Heads(read)
    BY <2>2, InferredMeans
  <2> HIDE DEF b
  <2> QED
    BY <1>1, <1>6, <2>3
<1>10. /\ \A k \in 1..(n - 1) : a[k] = given[k]
       /\ head[n] # n => a = given
       /\ head[n] = n => /\ a[n].tileIdx = given[n].tileIdx
                         /\ a[n].width = NumTileCols(pic) - (given[n].tileIdx % NumTileCols(pic))
                         /\ a[n].height = NumTileRows(pic) - given[n].tileIdx \div NumTileCols(pic)
                         /\ a[n].slicesInTile = 1
  BY <1>1, InferredLast
<1>11. /\ \A k \in 1..(n - 1) : b[k] = read[k]
       /\ head[n] # n => b = read
       /\ head[n] = n => /\ b[n].tileIdx = read[n].tileIdx
                         /\ b[n].width = NumTileCols(pic) - (read[n].tileIdx % NumTileCols(pic))
                         /\ b[n].height = NumTileRows(pic) - read[n].tileIdx \div NumTileCols(pic)
                         /\ b[n].slicesInTile = 1
  <2> DEFINE l == Len(read)
  <2>1. l > 0 /\ l = n
    BY <1>1
  <2>2. /\ \A k \in 1..(l - 1) : b[k] = read[k]
        /\ Heads(read)[l] # l => b = read
        /\ Heads(read)[l] = l => /\ b[l].tileIdx = read[l].tileIdx
                         /\ b[l].width = NumTileCols(pic) - (read[l].tileIdx % NumTileCols(pic))
                         /\ b[l].height = NumTileRows(pic) - read[l].tileIdx \div NumTileCols(pic)
                         /\ b[l].slicesInTile = 1
    BY <2>1, InferredLast
  <2> HIDE DEF b, l, n, head
  <2> QED
    BY <1>6, <2>1, <2>2
<1> HIDE DEF a, b, head, n
<1>12. \A k \in 1..n : k \in 1..(n - 1) \/ k = n
  BY <1>1
<1>13. \A k \in 1..n : /\ b[k].tileIdx = a[k].tileIdx /\ b[k].width = a[k].width
                       /\ b[k].height = a[k].height
                       /\ k < n \/ head[n] # n => b[k].ctuHeight = a[k].ctuHeight
  <2> TAKE k \in 1..n
  <2>1. CASE k \in 1..(n - 1) \/ head[n] # n
    <3>1. a[k] = given[k] /\ b[k] = read[k] /\ (k < n \/ head[n] # n)
      <4>1. CASE head[n] # n
        BY <1>10, <1>11, <4>1
      <4>2. CASE k \in 1..(n - 1)
        BY <1>1, <1>10, <1>11, <4>2
      <4> QED
        BY <2>1, <4>1, <4>2
    <3> QED
      BY <1>2, <1>3, <3>1
  <2>2. CASE k = n /\ head[n] = n
    <3>1. read[n].tileIdx = given[n].tileIdx /\ ~(n < n)
      BY <1>1, <1>2, <1>7
    <3> QED
      BY <1>10, <1>11, <2>2, <3>1
  <2> QED
    BY <1>12, <2>1, <2>2
<1>14. \A k \in 1..n : b[head[k]].slicesInTile = a[head[k]].slicesInTile
  <2> TAKE k \in 1..n
  <2>1. head[k] \in 1..n /\ head[k] <= k /\ k <= n
    BY <1>1, <1>5
  <2>2. CASE head[k] \in 1..(n - 1)
    <3>1. a[head[k]] = given[head[k]] /\ b[head[k]] = read[head[k]] /\ head[k] < n
      BY <1>1, <1>10, <1>11, <2>2
    <3> QED
      BY <1>4, <3>1
  <2>3. CASE head[k] = n
    <3>1. k = n
      BY <1>1, <2>1, <2>3
    <3> QED
      BY <1>10, <1>11, <2>3, <3>1
  <2> QED
    BY <1>12, <2>1, <2>2, <2>3
<1> QED
  BY <1>1, <1>5, <1>6, <1>8, <1>9, <1>10, <1>13, <1>14 DEF a, b, head, n

\* They pass the same checks, and make the same map.
LEMMA SameSignals ==
  ASSUME IsTiled(pic), NEW given \in Seq(RectSlice), NEW read \in Seq(RectSlice), Alike(given, read)
  PROVE  /\ IsSignalling(pic, given) => IsSignalling(pic, read)
         /\ RectSliceMap(pic, read) = RectSliceMap(pic, given)
<1> DEFINE n == Len(given)  head == Heads(given)  a == Inferred(pic, given)  b == Inferred(pic, read)
<1>1. /\ n \in Nat /\ n >= 1 /\ head \in [1..n -> 1..n] /\ \A k \in 1..n : head[k] <= k
      /\ Heads(read) = head /\ Heads(a) = head /\ Heads(b) = head
      /\ a \in Seq(RectSlice) /\ Len(a) = n /\ b \in Seq(RectSlice) /\ Len(b) = n
      /\ head[n] = n => a[n].slicesInTile = 1
  BY InferredAlike
<1>2. \A k \in 1..n : /\ b[k].tileIdx = a[k].tileIdx /\ b[k].width = a[k].width
                      /\ b[k].height = a[k].height
                      /\ b[head[k]].slicesInTile = a[head[k]].slicesInTile
                      /\ k < n \/ head[n] # n => b[k].ctuHeight = a[k].ctuHeight
  BY InferredAlike
<1>3. Len(read) = n /\ DOMAIN read = 1..n /\ DOMAIN given = 1..n /\ DOMAIN a = 1..n /\ DOMAIN b = 1..n
  <2>1. Len(read) = n
    BY DEF Alike
  <2> HIDE DEF a, b, n
  <2>2. DOMAIN a = 1..n /\ DOMAIN b = 1..n
    BY <1>1
  <2>3. DOMAIN read = 1..n
    BY <2>1
  <2>4. DOMAIN given = 1..n
    BY DEF n
  <2> QED
    BY <2>1, <2>2, <2>3, <2>4
<1>4. IsSignalling(pic, given) => IsSignalling(pic, read)
  <2> SUFFICES ASSUME IsSignalling(pic, given) PROVE IsSignalling(pic, read)
    OBVIOUS
  <2> DEFINE Ok(q, c, hs, i) ==
               LET y == q.tileIdx \div NumTileCols(pic)
               IN /\ q.tileIdx < NumTiles(pic)
                  /\ ~InTile(q) => /\ (q.tileIdx % NumTileCols(pic)) + q.width <= NumTileCols(pic)
                                   /\ y + q.height <= NumTileRows(pic)
                  /\ InTile(q) /\ head[i] = i =>
                       /\ c \in 1..(n - i + 1)
                       /\ Boundaries(hs)[c] < pic.rows[y + 1]
             Upper(q, i) == [j \in 1..(q[i].slicesInTile - 1) |-> q[i + j - 1].ctuHeight]
  <2>1. \A i \in 1..n : Ok(a[i], a[i].slicesInTile, Upper(a, i), i)
    <3>1. \A i \in DOMAIN a :
            LET r == a[i]
                y == r.tileIdx \div NumTileCols(pic)
            IN /\ r.tileIdx < NumTiles(pic)
               /\ ~InTile(r) => /\ (r.tileIdx % NumTileCols(pic)) + r.width <= NumTileCols(pic)
                                /\ y + r.height <= NumTileRows(pic)
               /\ InTile(r) /\ Heads(a)[i] = i =>
                    /\ r.slicesInTile \in 1..(Len(a) - i + 1)
                    /\ Boundaries([j \in 1..(r.slicesInTile - 1) |-> a[i + j - 1].ctuHeight])
                         [r.slicesInTile] < pic.rows[y + 1]
      BY DEF IsSignalling
    <3> HIDE DEF a, n, head
    <3> QED
      BY <1>1, <1>3, <3>1
  <2>2. \A i \in 1..n : Ok(b[i], b[i].slicesInTile, Upper(b, i), i)
    <3> TAKE i \in 1..n
    <3> HIDE DEF a, b, n, head
    <3>1. b[i].tileIdx = a[i].tileIdx /\ b[i].width = a[i].width /\ b[i].height = a[i].height
      BY <1>2
    <3>2. InTile(b[i]) <=> InTile(a[i])
      BY <3>1 DEF InTile
    <3>3. Ok(a[i], a[i].slicesInTile, Upper(a, i), i)
      BY <2>1
    <3>4. CASE InTile(a[i]) /\ head[i] = i
      <4> DEFINE c == a[i].slicesInTile
      <4>1. b[i].slicesInTile = c
        BY <1>2, <3>4
      <4>2. c \in 1..(n - i + 1)
        BY <3>3, <3>4
      <4>3. Upper(b, i) = Upper(a, i)
        <5>1. \A j \in 1..(c - 1) : b[i + j - 1].ctuHeight = a[i + j - 1].ctuHeight
          <6> TAKE j \in 1..(c - 1)
          <6> HIDE DEF c
          <6>1. i + j - 1 \in 1..n /\ i + j - 1 < n
            BY <1>1, <4>2
          <6> QED
            BY <1>2, <6>1
        <5> HIDE DEF c
        <5>2. [j \in 1..(c - 1) |-> b[i + j - 1].ctuHeight] = [j \in 1..(c - 1) |-> a[i + j - 1].ctuHeight]
          BY <5>1
        <5> QED
          BY <4>1, <5>2 DEF c
      <4> HIDE DEF Upper
      <4> QED
        BY <3>1, <3>2, <3>3, <4>1, <4>3
    <3>5. CASE ~(InTile(a[i]) /\ head[i] = i)
      <4> HIDE DEF Upper
      <4> QED
        BY <3>1, <3>2, <3>3, <3>5
    <3> QED
      BY <3>4, <3>5
  <2>3. \A i \in DOMAIN b :
          LET r == b[i]
              y == r.tileIdx \div NumTileCols(pic)
          IN /\ r.tileIdx < NumTiles(pic)
             /\ ~InTile(r) => /\ (r.tileIdx % NumTileCols(pic)) + r.width <= NumTileCols(pic)
                              /\ y + r.height <= NumTileRows(pic)
             /\ InTile(r) /\ Heads(b)[i] = i =>
                  /\ r.slicesInTile \in 1..(Len(b) - i + 1)
                  /\ Boundaries([j \in 1..(r.slicesInTile - 1) |-> b[i + j - 1].ctuHeight])
                       [r.slicesInTile] < pic.rows[y + 1]
    <3> HIDE DEF b, n, head
    <3> QED
      BY <1>1, <1>3, <2>2
  <2> QED
    BY <2>3 DEF IsSignalling
<1>5. RectSliceMap(pic, read) = RectSliceMap(pic, given)
  <2> DEFINE Above(q, i) == Boundaries([j \in 1..(i - head[i]) |-> q[head[i] + j - 1].ctuHeight])[i - head[i] + 1]
             ListOf(r, above, high, i) ==
               LET x == r.tileIdx % NumTileCols(pic)
                   y == r.tileIdx \div NumTileCols(pic)
                   top == TileRowBd(pic, y)
               IN IF ~InTile(r) THEN CtusOfTiles(pic, r.tileIdx, r.width, r.height)
                  ELSE CtusOf(pic, TileColumnBd(pic, x), TileColumnBd(pic, x + 1), top + above,
                              IF i = head[i] + r.slicesInTile - 1 THEN TileRowBd(pic, y + 1)
                              ELSE top + above + high)
  <2>1. RectSliceMap(pic, given) = [i \in 1..n |-> ListOf(a[head[i]], Above(a, i), a[i].ctuHeight, i)]
    <3> HIDE DEF a, n, head
    <3> QED
      BY <1>1, <1>3 DEF RectSliceMap, a, head
  <2>2. RectSliceMap(pic, read) = [i \in 1..n |-> ListOf(b[head[i]], Above(b, i), b[i].ctuHeight, i)]
    <3> HIDE DEF b, n, head
    <3> QED
      BY <1>1, <1>3 DEF RectSliceMap, b
  <2>3. \A i \in 1..n : ListOf(b[head[i]], Above(b, i), b[i].ctuHeight, i)
                          = ListOf(a[head[i]], Above(a, i), a[i].ctuHeight, i)
    <3> TAKE i \in 1..n
    <3> HIDE DEF a, b, n, head
    <3> DEFINE g == head[i]
    <3>1. g \in 1..n /\ g <= i
      BY <1>1
    <3>2. /\ b[g].tileIdx = a[g].tileIdx /\ b[g].width = a[g].width /\ b[g].height = a[g].height
          /\ b[g].slicesInTile = a[g].slicesInTile
      BY <1>2, <3>1
    <3>3. InTile(b[g]) <=> InTile(a[g])
      BY <3>2 DEF InTile
    <3>4. Above(b, i) = Above(a, i)
      <4> HIDE DEF g
      <4>1. \A j \in 1..(i - g) : b[g + j - 1].ctuHeight = a[g + j - 1].ctuHeight
        <5> TAKE j \in 1..(i - g)
        <5>1. g + j - 1 \in 1..n /\ g + j - 1 < n
          BY <1>1, <3>1
        <5> QED
          BY <1>2, <5>1
      <4>2. [j \in 1..(i - g) |-> b[g + j - 1].ctuHeight] = [j \in 1..(i - g) |-> a[g + j - 1].ctuHeight]
        BY <4>1
      <4> QED
        BY <4>2 DEF g
    <3>5. CASE i < n \/ head[n] # n
      <4>1. b[i].ctuHeight = a[i].ctuHeight
        BY <1>2, <3>5
      <4> HIDE DEF Above
      <4> QED
        BY <3>2, <3>3, <3>4, <4>1
    <3>6. CASE i = n /\ head[n] = n
      <4>1. i = head[i] + a[g].slicesInTile - 1
        BY <1>1, <3>6
      <4> HIDE DEF Above
      <4> QED
        BY <3>2, <3>3, <3>4, <4>1
    <3> QED
      BY <1>1, <3>5, <3>6
  <2> HIDE DEF ListOf, Above, a, b, n, head
  <2> QED
    BY <2>1, <2>2, <2>3
<1> QED
  BY <1>4, <1>5

\* In the end the reader's parameters are like those of the configuration.
LEMMA AllAlike ==
  ASSUME IsTiled(pic), ReadSoFar, at >= Len(dec.rects)
  PROVE  LET n == Len(dec.rects)
             rects == [dec.rects EXCEPT ![n].tileIdx = dec.tileIdx]
         IN /\ n = Len(slices) /\ n \in Nat /\ n > 0 /\ dec.tileIdx \in Nat
            /\ dec.tileIdx = Configured.rects[n].tileIdx
            /\ rects \in Seq(RectSlice) /\ Alike(Configured.rects, rects)
            /\ dec.pos = Len(syntax) + 1
<1> DEFINE n == Len(slices)  R == Configured.rects  D == dec.rects  t == dec.tileIdx
           rects == [D EXCEPT ![n].tileIdx = t]  head == Heads(R)
<1>1. /\ Len(D) = n /\ n \in Nat /\ n > 0 /\ D \in Seq(RectSlice) /\ Drawn(slices) /\ slices \in Seq(Rectangle)
      /\ at \in 1..(n + 1) /\ (at <= n => ~SameTile(slices, at))
  BY DEF ReadSoFar, RectStage, Drawn, Reader
<1>2. at = n \/ at = n + 1
  <2> HIDE DEF n, D
  <2> QED
    BY <1>1 DEF D
<1>3. R \in Seq(RectSlice) /\ Len(R) = n
  <2>1. R \in Seq(RectSlice) /\ DOMAIN R = 1..n
    BY <1>1, ConfiguredMeans
  <2> HIDE DEF R, n
  <2> QED
    BY <1>1, <2>1
<1>4. t = R[n].tileIdx
  <2>1. t = R[Minimum(at, n)].tileIdx
    BY DEF ReadSoFar
  <2>2. Minimum(at, n) = n
    <3> HIDE DEF n
    <3> QED
      BY <1>1, <1>2 DEF Minimum
  <2> QED
    BY <2>1, <2>2
<1>5. t \in Nat
  <2> HIDE DEF R, n, t
  <2>1. R[n] \in RectSlice
    BY <1>1, <1>3
  <2> QED
    BY <1>4, <2>1 DEF RectSlice
<1>6. \A k \in 1..(at - 1) : k \in 1..n /\ Agrees(D, k)
  <2>1. \A k \in 1..(at - 1) : Agrees(D, k)
    BY DEF ReadSoFar
  <2>2. \A k \in 1..(at - 1) : k \in 1..n
    <3> HIDE DEF n
    <3> QED
      BY <1>1
  <2> QED
    BY <2>1, <2>2
<1>7. /\ rects \in Seq(RectSlice) /\ Len(rects) = n
      /\ \A k \in 1..n : /\ rects[k].width = D[k].width /\ rects[k].height = D[k].height
                         /\ rects[k].ctuHeight = D[k].ctuHeight /\ rects[k].slicesInTile = D[k].slicesInTile
      /\ \A k \in 1..(n - 1) : rects[k] = D[k]
      /\ rects[n].tileIdx = t
  <2> DEFINE one == [D[n] EXCEPT !.tileIdx = t]
  <2> HIDE DEF n, D, t
  <2>1. D[n] \in RectSlice /\ n \in 1..n /\ DOMAIN D = 1..n
    BY <1>1
  <2>2. /\ one \in RectSlice /\ one.tileIdx = t /\ one.width = D[n].width /\ one.height = D[n].height
        /\ one.ctuHeight = D[n].ctuHeight /\ one.slicesInTile = D[n].slicesInTile
    BY <1>5, <2>1 DEF RectSlice
  <2>3. rects = [D EXCEPT ![n] = one]
    BY <2>1
  <2> HIDE DEF one, rects
  <2>4. rects \in Seq(RectSlice) /\ Len(rects) = n /\ rects[n] = one
        /\ \A k \in 1..n : k # n => rects[k] = D[k]
    BY <1>1, <2>1, <2>2, <2>3
  <2>5. \A k \in 1..(n - 1) : k \in 1..n /\ k # n
    BY <1>1
  <2>6. \A k \in 1..n : /\ rects[k].width = D[k].width /\ rects[k].height = D[k].height
                        /\ rects[k].ctuHeight = D[k].ctuHeight /\ rects[k].slicesInTile = D[k].slicesInTile
    <3> TAKE k \in 1..n
    <3>1. CASE k = n
      BY <2>2, <2>4, <3>1
    <3>2. CASE k # n
      BY <2>4, <3>2
    <3> QED
      BY <3>1, <3>2
  <2> QED
    BY <2>2, <2>4, <2>5, <2>6
<1>8. \A k \in 1..n : Leads(slices, head[k], k)
  BY <1>1, HeadsLead
<1>9. \A k \in 1..n : R[k].tileIdx < NumTiles(pic)
  BY <1>1, RectPlaces
<1> HIDE DEF rects, R, D, head, n, t
<1>10. \A k \in 1..n : k \in 1..(at - 1) \/ k = n
  BY <1>1, <1>2
<1>11. \A k \in 1..n : rects[k].tileIdx = R[k].tileIdx
  <2> TAKE k \in 1..n
  <2>1. CASE k = n
    BY <1>4, <1>7, <2>1
  <2>2. CASE k # n
    <3>1. k \in 1..(at - 1) /\ k \in 1..(n - 1)
      BY <1>1, <1>10, <2>2
    <3>2. D[k].tileIdx = R[k].tileIdx
      BY <1>6, <3>1 DEF Agrees, R
    <3> QED
      BY <1>7, <3>1, <3>2
  <2> QED
    BY <2>1, <2>2
<1>12. \A k \in 1..n : k < n \/ head[n] # n => k \in 1..(at - 1)
  <2> TAKE k \in 1..n
  <2> HAVE k < n \/ head[n] # n
  <2>1. CASE k < n
    BY <1>1, <1>10, <2>1
  <2>2. CASE head[n] # n
    <3>1. n \in 1..n
      BY <1>1
    <3>2. Leads(slices, head[n], n)
      BY <1>8, <3>1
    <3>3. n \in (head[n] + 1)..n
      <4>1. head[n] \in 1..n
        BY <3>2 DEF Leads
      <4> QED
        BY <1>1, <2>2, <4>1
    <3>4. SameTile(slices, n)
      BY <3>2, <3>3 DEF Leads
    <3>5. at = n + 1
      BY <1>1, <1>2, <3>4
    <3> QED
      BY <1>1, <3>5
  <2> QED
    BY <2>1, <2>2
<1>13. \A k \in 1..n : k < n \/ head[n] # n =>
         /\ rects[k].width = R[k].width /\ rects[k].height = R[k].height
         /\ rects[k].ctuHeight = R[k].ctuHeight
  <2> TAKE k \in 1..n
  <2> HAVE k < n \/ head[n] # n
  <2>1. Agrees(D, k)
    BY <1>6, <1>12
  <2> QED
    BY <1>7, <2>1 DEF Agrees, R
<1>14. \A k \in 1..n : head[k] < n => rects[head[k]].slicesInTile = R[head[k]].slicesInTile
  <2> TAKE k \in 1..n
  <2> HAVE head[k] < n
  <2>1. head[k] \in 1..k /\ ~SameTile(slices, head[k])
    BY <1>8 DEF Leads
  <2> DEFINE g == head[k]
  <2> HIDE DEF g
  <2>2. g \in 1..n /\ g \in 1..(at - 1)
    <3>1. g \in 1..k /\ g < n
      BY <2>1 DEF g
    <3> QED
      BY <1>1, <1>2, <3>1
  <2>3. Agrees(D, g) /\ ~SameTile(slices, g)
    BY <1>6, <2>1, <2>2 DEF g
  <2>4. rects[g].slicesInTile = R[g].slicesInTile
    BY <1>7, <2>2, <2>3 DEF Agrees, R
  <2> QED
    BY <2>4 DEF g
<1>15. Alike(R, rects)
  BY <1>1, <1>3, <1>7, <1>9, <1>11, <1>13, <1>14 DEF Alike, head
<1>16. dec.pos = Len(syntax) + 1
  <2>1. /\ Written(n) = FlattenSeq(Elements) /\ Written(n + 1) = FlattenSeq(Elements)
    BY <1>1, ElementsMean DEF n
  <2> QED
    BY <1>2, <2>1 DEF ReadSoFar
<1> QED
  BY <1>1, <1>4, <1>5, <1>7, <1>15, <1>16 DEF rects, R, D, n, t

\* Sequences of items of a set are ones of items of a larger set.
LEMMA SeqsGrow ==
  ASSUME NEW S, NEW T, S \subseteq T, NEW list \in Seq(S)
  PROVE  list \in Seq(T)
<1>1. list = [k \in 1..Len(list) |-> list[k]] /\ Len(list) \in Nat
  OBVIOUS
<1>2. \A k \in 1..Len(list) : list[k] \in T
  OBVIOUS
<1> QED
  BY <1>1, <1>2

\* A slice map is lists of numbers.
LEMMA MapTyped ==
  ASSUME NEW p, IsTiled(p), NEW map, IsSliceMap(p, map)
  PROVE  map \in Seq(Seq(Nat))
<1> DEFINE ctus == 0..(p.width * p.height - 1)
<1>1. map \in Seq(Seq(ctus)) /\ ctus \subseteq Nat
  BY DEF IsSliceMap
<1> HIDE DEF ctus
<1>2. Seq(ctus) \subseteq Seq(Nat)
  BY <1>1, SeqsGrow
<1> DEFINE S == Seq(ctus)  T == Seq(Nat)
<1>3. S \subseteq T /\ map \in Seq(S)
  BY <1>1, <1>2
<1> HIDE DEF S, T
<1>4. map \in Seq(T)
  BY <1>3, SeqsGrow
<1> QED
  BY <1>4 DEF T

\* So is its map.
LEMMA ReadEndMeans ==
  ASSUME IsTiled(pic), ReadSoFar, ReadEnd
  PROVE  /\ stage' = "done" /\ dec' \in Reader /\ Len(dec'.rects) = Len(slices)
         /\ dec'.tileIdx = Configured.rects[Len(slices)].tileIdx
         /\ dec'.map = enc.map /\ IsSliceMap(pic, dec'.map)
         /\ \A i \in DOMAIN slices : ToSet(dec'.map[i]) = CtusIn(slices[i])
         /\ dec'.pos = Len(syntax) + 1
<1> DEFINE n == Len(dec.rects)  R == Configured.rects
           rects == [dec.rects EXCEPT ![n].tileIdx = dec.tileIdx]
           ok == IsRectSignalling(pic, rects)
<1>1. /\ at >= n
      /\ dec' = [dec EXCEPT !.rects = rects, !.map = IF ok THEN RectSliceMap(pic, rects) ELSE << >>]
      /\ stage' = IF ok THEN "done" ELSE "error"
  BY DEF ReadEnd
<1>2. /\ n = Len(slices) /\ n \in Nat /\ n > 0 /\ dec.tileIdx = R[n].tileIdx
      /\ rects \in Seq(RectSlice) /\ Alike(R, rects) /\ dec.pos = Len(syntax) + 1
  BY <1>1, AllAlike
<1>3. Drawn(slices) /\ Complete(slices) /\ dec \in Reader /\ slices \in Seq(Rectangle)
  BY DEF ReadSoFar, RectStage, Drawn
<1>4. R \in Seq(RectSlice)
  BY <1>3, ConfiguredMeans
<1>5. /\ IsSignalling(pic, R) => IsSignalling(pic, rects)
      /\ RectSliceMap(pic, rects) = RectSliceMap(pic, R)
  <2> HIDE DEF rects, R
  <2> QED
    BY <1>2, <1>4, SameSignals
<1>6. /\ IsSignalling(pic, R) /\ IsSliceMap(pic, RectSliceMap(pic, R))
      /\ \A i \in DOMAIN slices : ToSet(RectSliceMap(pic, R)[i]) = CtusIn(slices[i])
  BY <1>3, RectMakesMap DEF IsRectSignalling
<1> HIDE DEF rects, R
<1>7. ok
  BY <1>5, <1>6 DEF IsRectSignalling
<1> HIDE DEF ok
<1> DEFINE map == RectSliceMap(pic, R)
<1>8. /\ dec' = [dec EXCEPT !.rects = rects, !.map = map] /\ stage' = "done"
  BY <1>1, <1>5, <1>7
<1>9. map = enc.map
  BY EncMeans DEF R, ReadSoFar
<1>10. map \in Seq(Seq(Nat))
  <2>1. IsSliceMap(pic, map)
    BY <1>6
  <2> HIDE DEF map
  <2> QED
    BY <2>1, MapTyped
<1> HIDE DEF map
<1>11. /\ dec' \in Reader /\ dec'.rects = rects /\ dec'.map = map /\ dec'.tileIdx = dec.tileIdx
       /\ dec'.pos = dec.pos
  <2> DEFINE S == Seq(RectSlice)  M == Seq(Seq(Nat))
  <2>1. /\ dec \in [rects : S, tileIdx : Int, pos : Nat, map : M] /\ rects \in S /\ map \in M
        /\ Reader = [rects : S, tileIdx : Int, pos : Nat, map : M]
    BY <1>2, <1>3, <1>10 DEF Reader
  <2> HIDE DEF S, M
  <2> QED
    BY <1>8, <2>1
<1>12. Len(rects) = n
  BY <1>2 DEF rects
<1> HIDE DEF n
<1> QED
  BY <1>2, <1>6, <1>8, <1>9, <1>11, <1>12 DEF map, R

-----------------------------------------------------------------------------
(* The slice headers on their way.                                          *)

\* The headers of raster-scan slices of these sizes.
Headers(sizes) ==
  [i \in 1..Len(sizes) |-> RasterHeader(Boundaries(sizes)[i], sizes[i])]

\* Sizes of slices that have all tiles.
SizesOfAll(sizes) ==
  sizes \in Seq(Positive) /\ Boundaries(sizes)[Len(sizes) + 1] = NumTiles(pic)

\* The reader has come to a header.
HeadersSoFar(sizes) ==
  /\ SizesOfAll(sizes) /\ slices = << >>
  /\ enc = [rects |-> << >>, tileIdxDeltaPresent |-> FALSE, map |-> RasterSliceMap(pic, sizes)]
  /\ syntax = FlattenSeq(Headers(sizes))
  /\ at \in 1..Len(sizes)
  /\ dec = [rects |-> << >>, tileIdx |-> 0,
            pos |-> Len(FlattenSeq(SubSeq(Headers(sizes), 1, at - 1))) + 1,
            map |-> SubSeq(RasterSliceMap(pic, sizes), 1, at - 1)]

\* There is a slice, and what is written of each is numbers.
LEMMA HeadersMean ==
  ASSUME IsTiled(pic), NEW sizes, SizesOfAll(sizes)
  PROVE  /\ Len(sizes) \in Nat /\ Len(sizes) > 0 /\ NumTiles(pic) \in Nat
         /\ Headers(sizes) \in Seq(Seq(Int)) /\ Len(Headers(sizes)) = Len(sizes)
         /\ RasterSliceMap(pic, sizes) \in Seq(Seq(Nat))
         /\ Len(RasterSliceMap(pic, sizes)) = Len(sizes)
         /\ \A i \in 1..Len(sizes) :
              /\ sizes[i] \in Nat /\ sizes[i] >= 1 /\ Boundaries(sizes)[i] \in Nat
              /\ Boundaries(sizes)[i] + sizes[i] <= NumTiles(pic)
<1> DEFINE n == Len(sizes)  first == Boundaries(sizes)
<1>1. n \in Nat /\ sizes \in Seq(Positive) /\ first[n + 1] = NumTiles(pic)
  BY DEF SizesOfAll
<1>2. NumTiles(pic) \in Nat /\ NumTiles(pic) >= 1
  <2>1. NumTileCols(pic) \in Nat /\ NumTileRows(pic) \in Nat /\ NumTileCols(pic) >= 1 /\ NumTileRows(pic) >= 1
    BY TileColumns, TileRows
  <2> DEFINE a == NumTileCols(pic)  b == NumTileRows(pic)
  <2> HIDE DEF a, b
  <2>2. a \in Nat /\ b \in Nat /\ a >= 1 /\ b >= 1 => a * b \in Nat /\ a * b >= 1
    OBVIOUS
  <2> QED
    BY <2>1, <2>2 DEF a, b, NumTiles
<1>3. /\ first \in [1..(n + 1) -> Nat] /\ first[1] = 0
      /\ \A i \in 1..n : first[i + 1] = first[i] + sizes[i]
      /\ \A i, j \in 1..(n + 1) : i < j => first[i] < first[j]
  BY <1>1, BoundariesIncrease
<1>4. n > 0
  <2> HIDE DEF first, n
  <2> QED
    BY <1>1, <1>2, <1>3
<1>5. \A i \in 1..n : /\ sizes[i] \in Nat /\ sizes[i] >= 1 /\ first[i] \in Nat
                      /\ first[i] + sizes[i] <= NumTiles(pic)
  <2> TAKE i \in 1..n
  <2>1. sizes[i] \in Positive
    BY <1>1
  <2> HIDE DEF first, n
  <2>2. i \in 1..(n + 1) /\ i + 1 \in 1..(n + 1) /\ n + 1 \in 1..(n + 1) /\ (i + 1 = n + 1 \/ i + 1 < n + 1)
    BY <1>1
  <2>3. first[i + 1] = first[i] + sizes[i] /\ first[i] \in Nat /\ first[i + 1] \in Nat
        /\ first[n + 1] \in Nat
    BY <1>3, <2>2
  <2>4. first[i + 1] <= first[n + 1]
    BY <1>3, <2>2, <2>3
  <2> QED
    BY <1>1, <2>1, <2>3, <2>4 DEF Positive
<1>6. Headers(sizes) \in Seq(Seq(Int)) /\ Len(Headers(sizes)) = n
  <2>1. \A i \in 1..n : RasterHeader(first[i], sizes[i]) \in Seq(Int)
    <3> TAKE i \in 1..n
    <3> DEFINE f == first[i]  s == sizes[i]
    <3>1. f \in Int /\ s \in Int
      BY <1>5
    <3> HIDE DEF f, s
    <3>2. <<f>> \in Seq(Int) /\ <<s - 1>> \in Seq(Int) /\ << >> \in Seq(Int)
      BY <3>1
    <3> DEFINE t == If(NumTiles(pic) - f > 1, <<s - 1>>)
    <3>3. t \in Seq(Int)
      BY <3>2 DEF If
    <3> HIDE DEF t
    <3>4. <<f>> \o t \in Seq(Int)
      BY <3>2, <3>3
    <3>5. RasterHeader(f, s) = If(NumTiles(pic) > 1, <<f>> \o t)
      BY DEF RasterHeader, t
    <3> QED
      BY <3>2, <3>4, <3>5 DEF If, f, s
  <2> DEFINE hs == Headers(sizes)
  <2>2. hs \in [1..n -> Seq(Int)]
    BY <2>1 DEF Headers
  <2> HIDE DEF hs, n
  <2>3. hs \in Seq(Seq(Int)) /\ Len(hs) = n
    BY <1>1, <2>2
  <2> QED
    BY <2>3 DEF hs
<1>7. RasterSliceMap(pic, sizes) \in Seq(Seq(Nat)) /\ Len(RasterSliceMap(pic, sizes)) = n
  <2>1. RasterSliceMap(pic, sizes) \in Seq(Seq(Nat))
    BY <1>1, RasterMakesMap, MapTyped
  <2>2. DOMAIN RasterSliceMap(pic, sizes) = 1..n
    BY <1>1 DEF RasterSliceMap
  <2> DEFINE map == RasterSliceMap(pic, sizes)
  <2>3. map \in Seq(Seq(Nat)) /\ DOMAIN map = 1..n
    BY <2>1, <2>2
  <2> HIDE DEF map, n
  <2>4. Len(map) = n
    BY <1>1, <2>3
  <2> QED
    BY <2>3, <2>4 DEF map
<1> QED
  BY <1>1, <1>2, <1>4, <1>5, <1>6, <1>7

\* The reader's map has come as far as the reader, and ends as the encoder's.
LEMMA ReadHeaderMeans ==
  ASSUME IsTiled(pic), NEW sizes, HeadersSoFar(sizes), ReadHeader
  PROVE  /\ at' = at + 1 /\ stage' = (IF at = Len(sizes) THEN "done" ELSE stage)
         /\ dec' = [rects |-> << >>, tileIdx |-> 0,
                    pos |-> Len(FlattenSeq(SubSeq(Headers(sizes), 1, at))) + 1,
                    map |-> SubSeq(RasterSliceMap(pic, sizes), 1, at)]
<1> DEFINE n == Len(sizes)  i == at  f == Boundaries(sizes)[i]  s == sizes[i]  N == NumTiles(pic)
           hs == Headers(sizes)  map == RasterSliceMap(pic, sizes)
           old == FlattenSeq(SubSeq(hs, 1, i - 1))
<1>1. /\ n \in Nat /\ i \in 1..n /\ N \in Nat /\ hs \in Seq(Seq(Int)) /\ Len(hs) = n
      /\ map \in Seq(Seq(Nat)) /\ Len(map) = n
      /\ s \in Nat /\ s >= 1 /\ f \in Nat /\ f + s <= N
  <2>1. SizesOfAll(sizes) /\ i \in 1..n
    BY DEF HeadersSoFar
  <2> QED
    BY <2>1, HeadersMean
<1>2. hs[i] = RasterHeader(f, s)
  BY <1>1 DEF Headers
<1>3. /\ old \in Seq(Int) /\ FlattenSeq(hs) \in Seq(Int)
      /\ FlattenSeq(SubSeq(hs, 1, i)) = old \o hs[i]
      /\ \A k \in 1..Len(hs[i]) :
           Len(old) + k \in 1..Len(FlattenSeq(hs)) /\ FlattenSeq(hs)[Len(old) + k] = hs[i][k]
  <2> HIDE DEF hs, n
  <2>1. i \in 1..Len(hs)
    BY <1>1
  <2> QED
    BY <1>1, <2>1, FlattenParts
<1>4. hs[i] \in Seq(Int)
  <2> HIDE DEF hs, n
  <2> QED
    BY <1>1
<1>5. /\ syntax = FlattenSeq(hs) /\ dec.pos = Len(old) + 1 /\ dec.map = SubSeq(map, 1, i - 1)
      /\ dec.rects = << >> /\ dec.tileIdx = 0 /\ enc.map = map
      /\ dec = [rects |-> << >>, tileIdx |-> 0, pos |-> Len(old) + 1, map |-> SubSeq(map, 1, i - 1)]
  BY DEF HeadersSoFar
<1>6. \A k \in 1..Len(hs[i]) : Element(dec.pos + (k - 1)) = hs[i][k]
  <2> DEFINE h == hs[i]
  <2>1. /\ h \in Seq(Int) /\ syntax \in Seq(Int) /\ dec.pos = Len(old) + 1 /\ Len(old) \in Nat
        /\ \A k \in 1..Len(h) : Len(old) + k \in 1..Len(syntax) /\ syntax[Len(old) + k] = h[k]
    BY <1>3, <1>4, <1>5
  <2> HIDE DEF h, old
  <2>2. \A k \in 1..Len(h) : Element(dec.pos + (k - 1)) = h[k]
    <3> TAKE k \in 1..Len(h)
    <3>1. dec.pos + (k - 1) = Len(old) + k
      BY <2>1
    <3>2. Len(old) + k \in DOMAIN syntax
      BY <2>1
    <3> QED
      BY <2>1, <3>1, <3>2 DEF Element
  <2> QED
    BY <2>2 DEF h
<1> DEFINE first == IF N > 1 THEN Element(dec.pos) ELSE 0  num == NumTilesRead(first)
           ok == first + num <= N
<1>7. /\ at' = at + 1
      /\ dec' = [dec EXCEPT
           !.pos = @ + Len(RasterHeader(first, num)),
           !.map = IF ok THEN Append(@, FlattenSeq([j \in 1..num |->
                                          CtusOfTiles(pic, first + j - 1, 1, 1)]))
                   ELSE @]
      /\ stage' = IF ~ok THEN "error" ELSE IF at = Len(enc.map) THEN "done" ELSE stage
  BY DEF ReadHeader
<1>8. hs[i] = If(N > 1, <<f>> \o If(N - f > 1, <<s - 1>>))
  BY <1>2 DEF RasterHeader
<1>9. dec.pos \in Nat /\ dec.pos + (1 - 1) = dec.pos /\ dec.pos + (2 - 1) = dec.pos + 1
  <2>1. dec.pos \in Nat
    BY <1>3, <1>5
  <2> QED
    BY <2>1
<1>10. first = f
  <2>1. CASE N > 1
    <3> DEFINE rest == If(N - f > 1, <<s - 1>>)
    <3>1. hs[i] = <<f>> \o rest /\ rest \in Seq(Int)
      BY <1>1, <1>8, <2>1 DEF If
    <3> HIDE DEF hs, rest
    <3>2. 1 \in 1..Len(hs[i]) /\ hs[i][1] = f
      BY <1>1, <3>1
    <3>3. Element(dec.pos + (1 - 1)) = f
      BY <1>6, <3>2
    <3> QED
      BY <1>9, <2>1, <3>3
  <2>2. CASE ~(N > 1)
    <3> HIDE DEF f, s, N
    <3>1. f = 0
      BY <1>1, <2>2
    <3> QED
      BY <2>2, <3>1 DEF N
  <2> QED
    BY <2>1, <2>2
<1>11. num = s
  <2>1. CASE N > 1 /\ N - f > 1
    <3>1. hs[i] = <<f>> \o <<s - 1>>
      BY <1>8, <2>1 DEF If
    <3> HIDE DEF hs
    <3>2. 2 \in 1..Len(hs[i]) /\ hs[i][2] = s - 1
      BY <1>1, <3>1
    <3>3. Element(dec.pos + 1) = s - 1
      BY <1>6, <1>9, <3>2
    <3>4. num = Element(dec.pos + 1) + 1
      BY <1>10, <2>1 DEF NumTilesRead
    <3>5. (s - 1) + 1 = s
      BY <1>1
    <3> QED
      BY <3>3, <3>4, <3>5
  <2>2. CASE ~(N > 1 /\ N - f > 1)
    <3>1. num = 1
      BY <1>10, <2>2 DEF NumTilesRead
    <3> HIDE DEF f, s, N, num
    <3>2. s = 1
      BY <1>1, <2>2
    <3> QED
      BY <3>1, <3>2
  <2> QED
    BY <2>1, <2>2
<1> HIDE DEF first, num
<1>12. ok
  BY <1>1, <1>10, <1>11
<1> HIDE DEF ok
<1>13. map[i] = FlattenSeq([j \in 1..num |-> CtusOfTiles(pic, first + j - 1, 1, 1)])
  <2>1. i \in DOMAIN sizes
    <3>1. sizes \in Seq(Positive)
      BY DEF HeadersSoFar, SizesOfAll
    <3> QED
      BY <1>1, <3>1
  <2> QED
    BY <1>10, <1>11, <2>1 DEF RasterSliceMap
<1>14. RasterHeader(first, num) = hs[i]
  BY <1>2, <1>10, <1>11
<1>15. Append(SubSeq(map, 1, i - 1), map[i]) = SubSeq(map, 1, i)
  <2> HIDE DEF map, n
  <2> QED
    BY <1>1
<1>16. (Len(old) + 1) + Len(hs[i]) = Len(old \o hs[i]) + 1
  <2> DEFINE h == hs[i]
  <2> HIDE DEF old, h
  <2>1. old \in Seq(Int) /\ h \in Seq(Int)
    BY <1>3, <1>4 DEF h
  <2>2. Len(old \o h) = Len(old) + Len(h) /\ Len(old) \in Nat /\ Len(h) \in Nat
    BY <2>1
  <2>3. (Len(old) + 1) + Len(h) = Len(old \o h) + 1
    BY <2>2
  <2> QED
    BY <2>3 DEF h
<1> DEFINE p2 == Len(FlattenSeq(SubSeq(hs, 1, i))) + 1  m2 == SubSeq(map, 1, i)
<1>17. dec' = [dec EXCEPT !.pos = p2, !.map = m2]
  <2>1. dec' = [dec EXCEPT !.pos = dec.pos + Len(RasterHeader(first, num)),
                           !.map = Append(dec.map, FlattenSeq([j \in 1..num |->
                                                     CtusOfTiles(pic, first + j - 1, 1, 1)]))]
    BY <1>7, <1>12
  <2>2. dec.pos + Len(RasterHeader(first, num)) = p2
    BY <1>3, <1>5, <1>14, <1>16
  <2>3. Append(dec.map, FlattenSeq([j \in 1..num |-> CtusOfTiles(pic, first + j - 1, 1, 1)])) = m2
    BY <1>5, <1>13, <1>15
  <2> QED
    BY <2>1, <2>2, <2>3
<1> HIDE DEF p2, m2, old, map, hs, n
<1>18. dec' = [rects |-> << >>, tileIdx |-> 0, pos |-> p2, map |-> m2]
  BY <1>5, <1>17
<1>19. stage' = IF at = n THEN "done" ELSE stage
  BY <1>1, <1>5, <1>7, <1>12
<1> QED
  BY <1>7, <1>18, <1>19 DEF p2, m2, n, map, hs

-----------------------------------------------------------------------------
(* From the configuration to the decoder's map.                             *)

\* What the slices say of their parameters, and of the elements that are written,
\* depends on the picture and the slices alone.
LEMMA SameElements ==
  ASSUME pic' = pic, slices' = slices
  PROVE  /\ Configured' = Configured /\ Elements' = Elements
         /\ (\A k : SameTile(slices, k)' <=> SameTile(slices, k))
         /\ (Drawn(slices)' <=> Drawn(slices)) /\ (Complete(slices)' <=> Complete(slices))
<1>1. Configured' = Configured
  <2> DEFINE For(p, ss) ==
        LET n == Len(ss)
            startCol(i) == CtuToTileCol(p, CtuX(p, ss[i].first))
            startRow(i) == CtuToTileRow(p, CtuY(p, ss[i].first))
            width(i) == CtuToTileCol(p, CtuX(p, ss[i].last)) - startCol(i) + 1
            height(i) == CtuToTileRow(p, CtuY(p, ss[i].last)) - startRow(i) + 1
            tile(i) == startRow(i) * NumTileCols(p) + startCol(i)
            inTile(i) == width(i) = 1 /\ height(i) = 1
            sameTile(i) == i > 1 /\ inTile(i) /\ inTile(i - 1) /\ tile(i) = tile(i - 1)
            count(i) == Max({j \in 1..(n - i + 1) : \A k \in 1..(j - 1) : sameTile(i + k)})
            next(r) == LET t == r.tileIdx + r.width
                       IN IF t % NumTileCols(p) = 0 THEN t + (r.height - 1) * NumTileCols(p) ELSE t
            rects == [i \in 1..n |->
              [tileIdx |-> tile(i), width |-> width(i), height |-> height(i),
               slicesInTile |-> IF inTile(i) /\ ~sameTile(i) THEN count(i) ELSE 0,
               ctuHeight |-> IF inTile(i)
                             THEN CtuY(p, ss[i].last) - CtuY(p, ss[i].first) + 1 ELSE 0]]
        IN [rects |-> rects,
            map |-> << >>,
            tileIdxDeltaPresent |->
              \E i \in 2..n : ~sameTile(i) /\ next(rects[i - 1]) # rects[i].tileIdx]
  <2>1. Configured = For(pic, slices)
    BY ZenonT(60) DEF Configured, NextTileIdx
  <2>2. Configured' = For(pic', slices')
    BY DEF Configured, NextTileIdx
  <2> HIDE DEF For
  <2> QED
    BY <2>1, <2>2, SMTT(60)
<1>2. \A k : SameTile(slices, k)' <=> SameTile(slices, k)
  BY DEF SameTile, InOne, X1, X2, Y1, Y2, C1, C2, R1, R2
<1>3. Drawn(slices)' <=> Drawn(slices)
  BY SameDrawn
<1>4. Complete(slices)' <=> Complete(slices)
  BY DEF Complete, Has, X1, X2, Y1, Y2
<1>5. \A i : /\ (Split(i)' <=> Split(i)) /\ HeightsOf(i)' = HeightsOf(i)
  BY <1>1 DEF Split, RowHeight, HeightsOf
<1>6. \A i : LastWith(i)' = LastWith(i)
  BY <1>1, <1>5 DEF LastWith
<1>7. \A i : /\ WidthOf(i)' = WidthOf(i) /\ HeightOf(i)' = HeightOf(i)
             /\ SplitOf(i)' = SplitOf(i) /\ StepOf(i)' = StepOf(i)
  <2> TAKE i
  <2>1. WidthOf(i)' = WidthOf(i)
    BY <1>1 DEF WidthOf
  <2>2. HeightOf(i)' = HeightOf(i)
    BY <1>1 DEF HeightOf, HeightPresent
  <2>3. SplitOf(i)' = SplitOf(i)
    BY <1>5 DEF SplitOf
  <2>4. StepOf(i)' = StepOf(i)
    BY <1>1, <1>6 DEF StepOf
  <2> QED
    BY <2>1, <2>2, <2>3, <2>4
<1>8. \A i : Chunk(i)' = Chunk(i)
  BY <1>7 DEF Chunk
<1>9. Elements' = Elements
  BY <1>2, <1>8 DEF Elements
<1> QED
  BY <1>1, <1>2, <1>3, <1>4, <1>9

\* Writer and reader at a slice, in the next state.
LEMMA StageNext ==
  ASSUME pic' = pic, slices' = slices, Drawn(slices), Complete(slices), Len(slices) > 0,
         enc' = [Configured EXCEPT !.map = RectSliceMap(pic, Configured.rects)],
         at' \in 1..(Len(slices) + 1), at' <= Len(slices) => ~SameTile(slices, at')
  PROVE  /\ RectStage' /\ Written(at)' = Written(at')
         /\ FlattenSeq(Elements)' = FlattenSeq(Elements)
<1>1. /\ Configured' = Configured /\ Elements' = Elements
      /\ (Drawn(slices)' <=> Drawn(slices)) /\ (Complete(slices)' <=> Complete(slices))
  BY SameElements
<1>2. SameTile(slices, at)' <=> SameTile(slices, at')
  BY DEF SameTile, InOne, X1, X2, Y1, Y2, C1, C2, R1, R2
<1>3. RectStage'
  <2>1. Drawn(slices)' /\ Complete(slices)' /\ Len(slices') > 0
    BY <1>1
  <2>2. enc' = [Configured' EXCEPT !.map = RectSliceMap(pic', Configured'.rects)]
    BY <1>1
  <2>3. at' \in 1..(Len(slices') + 1) /\ (at' <= Len(slices') => ~SameTile(slices, at)')
    BY <1>2
  <2> QED
    BY <2>1, <2>2, <2>3 DEF RectStage
<1> QED
  BY <1>1, <1>3 DEF Written

\* The reader at a slice, in the next state.
LEMMA ReadNext ==
  ASSUME pic' = pic, slices' = slices, enc' = enc, syntax' = syntax, RectStage,
         syntax = FlattenSeq(Elements),
         at' \in 1..(Len(slices) + 1), at' <= Len(slices) => ~SameTile(slices, at'),
         dec' \in Reader, Len(dec'.rects) = Len(slices), dec'.map = << >>,
         \A k \in 1..(at' - 1) : Agrees(dec'.rects, k),
         dec'.tileIdx = Configured.rects[Minimum(at', Len(slices))].tileIdx,
         dec'.pos = Len(Written(at')) + 1
  PROVE  ReadSoFar'
<1>1. /\ Drawn(slices) /\ Complete(slices) /\ Len(slices) > 0
      /\ enc' = [Configured EXCEPT !.map = RectSliceMap(pic, Configured.rects)]
  BY DEF RectStage
<1>2. RectStage' /\ Written(at)' = Written(at') /\ FlattenSeq(Elements)' = FlattenSeq(Elements)
  BY <1>1, StageNext
<1>3. Configured' = Configured /\ (\A k : SameTile(slices, k)' <=> SameTile(slices, k))
  BY SameElements
<1>4. (\A k \in 1..(at - 1) : Agrees(dec.rects, k))'
  BY <1>3 DEF Agrees
<1>5. dec'.tileIdx = Configured'.rects[Minimum(at', Len(slices'))].tileIdx
  BY <1>3
<1>6. dec' \in Reader'
  BY DEF Reader
<1> QED
  BY <1>2, <1>4, <1>5, <1>6 DEF ReadSoFar

\* The reader at a header, in the next state.
LEMMA HeadersNext ==
  ASSUME pic' = pic, slices' = slices, NEW sizes, SizesOfAll(sizes), slices = << >>,
         enc' = [rects |-> << >>, tileIdxDeltaPresent |-> FALSE, map |-> RasterSliceMap(pic, sizes)],
         syntax' = FlattenSeq(Headers(sizes)), at' \in 1..Len(sizes),
         dec' = [rects |-> << >>, tileIdx |-> 0,
                 pos |-> Len(FlattenSeq(SubSeq(Headers(sizes), 1, at' - 1))) + 1,
                 map |-> SubSeq(RasterSliceMap(pic, sizes), 1, at' - 1)]
  PROVE  HeadersSoFar(sizes)'
<1>1. Headers(sizes)' = Headers(sizes)
  BY DEF Headers, RasterHeader
<1>2. SizesOfAll(sizes)'
  BY DEF SizesOfAll
<1> QED
  BY <1>1, <1>2 DEF HeadersSoFar

\* The encoder's parameters and map.
Encoder == [rects : Seq(RectSlice), tileIdxDeltaPresent : BOOLEAN, map : Seq(Seq(Nat))]

\* The reader is through, and its map is the encoder's.
Survived ==
  /\ enc \in Encoder /\ Len(enc.rects) = Len(slices)
  /\ dec \in Reader /\ Len(dec.rects) = Len(slices) /\ dec.tileIdx \in 0..(NumTiles(pic) - 1)
  /\ syntax \in Seq(Int) /\ at \in Nat
  /\ dec.map = enc.map /\ IsSliceMap(pic, dec.map)
  /\ \A i \in DOMAIN slices : ToSet(dec.map[i]) = CtusIn(slices[i])
  /\ dec.pos = Len(syntax) + 1

\* The state before parameters are made, or after they have been forgotten.
NoParameters ==
  /\ syntax = << >> /\ at = 1
  /\ enc = [rects |-> << >>, tileIdxDeltaPresent |-> FALSE, map |-> << >>]
  /\ dec = [rects |-> << >>, tileIdx |-> 0, pos |-> 1, map |-> << >>]

\* What holds at each stage: no CHECK fails, and what has been written and read so far is
\* what the configured slices say.
StageInv ==
  /\ stage \in {"slices", "write", "read", "headers", "done", "coding"}
  /\ Len(slices) <= MaxSlices
  /\ stage = "slices" => NoParameters
  /\ stage = "write" => /\ RectStage /\ syntax = Written(at)
                        /\ dec = [rects |-> << >>, tileIdx |-> 0, pos |-> 1, map |-> << >>]
  /\ stage = "read" => ReadSoFar
  /\ stage = "headers" => \E sizes : HeadersSoFar(sizes)
  /\ stage = "done" => Survived
  /\ stage = "coding" => slices = << >> /\ NoParameters

\* The encoder's parameters are of their type.
LEMMA EncTyped ==
  ASSUME IsTiled(pic), RectStage
  PROVE  enc \in Encoder
<1>1. Drawn(slices) /\ Complete(slices) /\ slices \in Seq(Rectangle)
      /\ enc = [Configured EXCEPT !.map = RectSliceMap(pic, Configured.rects)]
  BY DEF RectStage, Drawn
<1>2. RectSliceMap(pic, Configured.rects) \in Seq(Seq(Nat))
  BY <1>1, RectMakesMap, MapTyped DEF IsRectSignalling
<1>3. Configured.rects \in Seq(RectSlice)
  BY <1>1, ConfiguredMeans
<1>4. Configured.tileIdxDeltaPresent \in BOOLEAN
  BY SMTT(60) DEF Configured
<1>5. Configured = [rects |-> Configured.rects, map |-> << >>,
                    tileIdxDeltaPresent |-> Configured.tileIdxDeltaPresent]
  BY DEF Configured
<1> DEFINE R == Configured.rects  d == Configured.tileIdxDeltaPresent  c == Configured
           m == RectSliceMap(pic, R)  S == Seq(RectSlice)  M == Seq(Seq(Nat))
<1>6. /\ c = [rects |-> R, map |-> << >>, tileIdxDeltaPresent |-> d]
      /\ R \in S /\ d \in BOOLEAN /\ m \in M /\ enc = [c EXCEPT !.map = m]
      /\ Encoder = [rects : S, tileIdxDeltaPresent : BOOLEAN, map : M]
  BY <1>1, <1>2, <1>3, <1>4, <1>5 DEF Encoder
<1> HIDE DEF R, d, c, m, S, M
<1> QED
  BY <1>6

\* Slices are added within the bound.
LEMMA AddKeeps ==
  ASSUME MapsInOrder, StageInv, AddTiles \/ SplitTile
  PROVE  StageInv'
<1>1. /\ stage = "slices" /\ stage' = "slices" /\ NoParameters
      /\ enc' = enc /\ syntax' = syntax /\ at' = at /\ dec' = dec
  BY ZenonT(60) DEF AddTiles, SplitTile, StageInv
<1>2. NoParameters'
  BY <1>1 DEF NoParameters
<1>3. Len(slices') <= MaxSlices
  <2>1. slices \in Seq(Rectangle) /\ Len(slices) \in Nat
    BY DEF MapsInOrder
  <2>2. CASE AddTiles
    <3>1. PICK s : Len(slices) < MaxSlices /\ slices' = Append(slices, s)
      BY <2>2 DEF AddTiles
    <3>2. Len(slices') = Len(slices) + 1
      BY <2>1, <3>1
    <3> QED
      BY <2>1, <3>1, <3>2, MaxSlicesAssumption
  <2>3. CASE SplitTile
    <3> DEFINE Cut(x, y, heights) ==
                 LET bd == [k \in 1..(Len(heights) + 1) |-> TileRowBd(pic, y) + Boundaries(heights)[k]]
                 IN [k \in 1..Len(heights) |->
                      SliceOf(TileColumnBd(pic, x), TileColumnBd(pic, x + 1), bd[k], bd[k + 1])]
    <3>1. PICK x \in 0..(NumTileCols(pic) - 1), y \in 0..(NumTileRows(pic) - 1) :
            \E heights \in SeqOf(1..pic.rows[y + 1], pic.rows[y + 1]) :
              /\ Len(slices) + Len(heights) <= MaxSlices
              /\ slices' = slices \o Cut(x, y, heights)
      BY <2>3 DEF SplitTile
    <3>2. PICK heights \in SeqOf(1..pic.rows[y + 1], pic.rows[y + 1]) :
            /\ Len(slices) + Len(heights) <= MaxSlices
            /\ slices' = slices \o Cut(x, y, heights)
      BY <3>1
    <3> DEFINE n == Len(heights)  strips == Cut(x, y, heights)
               T == Rectangle \cup {strips[k] : k \in 1..n}
    <3>3. n \in Nat
      BY <3>2 DEF SeqOf
    <3>4. strips = [k \in 1..n |-> strips[k]]
      OBVIOUS
    <3> HIDE DEF n, strips
    <3>5. strips \in Seq(T) /\ Len(strips) = n
      BY <3>3, <3>4
    <3>6. slices \in Seq(T)
      BY <2>1, SeqsGrow
    <3> HIDE DEF T
    <3>7. Len(slices \o strips) = Len(slices) + Len(strips)
      BY <3>5, <3>6
    <3> QED
      BY <3>2, <3>5, <3>7, SMTT(60) DEF n, strips
  <2> QED
    BY <2>2, <2>3
<1> QED
  BY <1>1, <1>2, <1>3 DEF StageInv

\* The configured slices cover the picture, and their parameters pass the checks.
LEMMA ConfigureKeeps ==
  ASSUME MapsInOrder, MapsUpFirst, StageInv, Configure
  PROVE  StageInv'
<1>1. /\ stage = "slices" /\ Cardinality(Covered) = pic.width * pic.height
      /\ enc' = [Configured EXCEPT !.map = RectSliceMap(pic, Configured.rects)]
      /\ stage' = IF IsRectSignalling(pic, Configured.rects) THEN "write" ELSE "error"
      /\ at' = 1 /\ pic' = pic /\ slices' = slices /\ syntax' = syntax /\ dec' = dec
  BY DEF Configure
<1>2. /\ IsTiled(pic) /\ slices \in Seq(Rectangle) /\ Drawn(slices) /\ Len(slices) \in Nat
      /\ Len(slices) <= MaxSlices /\ NoParameters
  BY <1>1 DEF MapsInOrder, MapsUpFirst, StageInv
<1>3. Complete(slices)
  BY <1>1, <1>2, AllCovered
<1>4. Len(slices) > 0 /\ stage' = "write"
  BY <1>1, <1>2, <1>3, RectMakesMap
<1>5. at' \in 1..(Len(slices) + 1) /\ ~SameTile(slices, at')
  BY <1>1, <1>2 DEF SameTile
<1>6. RectStage' /\ Written(at)' = Written(at')
  BY <1>1, <1>2, <1>3, <1>4, <1>5, StageNext
<1>7. syntax' = Written(at)'
  BY <1>1, <1>2, <1>6, ElementsMean DEF NoParameters
<1>8. dec' = [rects |-> << >>, tileIdx |-> 0, pos |-> 1, map |-> << >>]
  BY <1>1, <1>2, SMTT(60) DEF NoParameters
<1> QED
  BY <1>1, <1>2, <1>4, <1>6, <1>7, <1>8 DEF StageInv

\* What has been written is what the slices so far say.
LEMMA WriteSliceKeeps ==
  ASSUME MapsInOrder, StageInv, WriteSlice
  PROVE  StageInv'
<1>1. /\ stage = "write" /\ stage' = stage
      /\ pic' = pic /\ slices' = slices /\ enc' = enc /\ dec' = dec
  BY DEF WriteSlice
<1>2. /\ IsTiled(pic) /\ RectStage /\ syntax = Written(at) /\ Len(slices) <= MaxSlices
      /\ dec = [rects |-> << >>, tileIdx |-> 0, pos |-> 1, map |-> << >>]
  BY <1>1 DEF MapsInOrder, StageInv
<1>3. /\ at' \in 1..(Len(slices) + 1) /\ (at' <= Len(slices) => ~SameTile(slices, at'))
      /\ syntax' = Written(at')
  BY <1>2, WriteSliceMeans
<1>4. /\ Drawn(slices) /\ Complete(slices) /\ Len(slices) > 0
      /\ enc' = [Configured EXCEPT !.map = RectSliceMap(pic, Configured.rects)]
  BY <1>1, <1>2 DEF RectStage
<1>5. RectStage' /\ Written(at)' = Written(at')
  BY <1>1, <1>3, <1>4, StageNext
<1> QED
  BY <1>1, <1>2, <1>3, <1>5, SMTT(60) DEF StageInv

\* Everything has been written when the reader begins.
LEMMA WriteEndKeeps ==
  ASSUME MapsInOrder, StageInv, WriteEnd
  PROVE  StageInv'
<1> DEFINE n == Len(slices)
<1>1. /\ stage = "write" /\ stage' = "read" /\ at' = 1 /\ at >= Len(enc.rects)
      /\ dec' = [rects |-> [i \in DOMAIN enc.rects |-> NoSlice], tileIdx |-> 0, pos |-> 1,
                 map |-> << >>]
      /\ pic' = pic /\ slices' = slices /\ enc' = enc /\ syntax' = syntax
  BY DEF WriteEnd
<1>2. IsTiled(pic) /\ RectStage /\ syntax = Written(at) /\ n <= MaxSlices
  BY <1>1 DEF MapsInOrder, StageInv
<1>3. /\ enc.rects \in Seq(RectSlice) /\ Len(enc.rects) = n /\ n \in Nat /\ Drawn(slices) /\ n > 0
      /\ slices \in Seq(Rectangle) /\ at \in 1..(n + 1)
  BY <1>2, EncMeans DEF RectStage, Drawn
<1>4. syntax = FlattenSeq(Elements)
  <2>1. at = n \/ at = n + 1
    BY <1>1, <1>3
  <2> QED
    BY <1>2, <1>3, <2>1, ElementsMean
<1>5. at' \in 1..(n + 1) /\ (at' <= n => ~SameTile(slices, at'))
  BY <1>1, <1>3 DEF SameTile
<1>6. dec' \in Reader /\ Len(dec'.rects) = n /\ dec'.map = << >>
  <2> DEFINE rects == [i \in DOMAIN enc.rects |-> NoSlice]
  <2>1. rects \in Seq(RectSlice) /\ Len(rects) = n
    <3>1. DOMAIN enc.rects = 1..n
      BY <1>3
    <3>2. NoSlice \in RectSlice
      BY DEF NoSlice, RectSlice
    <3>3. rects \in [1..n -> RectSlice]
      BY <3>1, <3>2
    <3> HIDE DEF rects, n
    <3> QED
      BY <1>3, <3>3
  <2>2. << >> \in Seq(Seq(Nat))
    OBVIOUS
  <2>3. dec' = [rects |-> rects, tileIdx |-> 0, pos |-> 1, map |-> << >>]
    BY <1>1
  <2> HIDE DEF rects
  <2> QED
    BY <2>1, <2>2, <2>3 DEF Reader
<1>7. dec'.tileIdx = Configured.rects[Minimum(at', n)].tileIdx
  <2>1. Minimum(at', n) = 1
    <3>1. at' = 1 /\ n \in Nat /\ n > 0
      BY <1>1, <1>3
    <3> HIDE DEF n
    <3> QED
      BY <3>1 DEF Minimum
  <2>2. 1 \in 1..n
    BY <1>3
  <2>3. Configured.rects[1].tileIdx = R1(slices[1]) * NumTileCols(pic) + C1(slices[1])
    BY <1>2, <1>3, <2>2, ConfiguredRect
  <2>4. C1(slices[1]) = 0 /\ R1(slices[1]) = 0
    BY <1>2, <1>3, FirstIsFirst
  <2>5. 0 * NumTileCols(pic) + 0 = 0
    BY <1>2, TileColumns
  <2> QED
    BY <1>1, <2>1, <2>3, <2>4, <2>5
<1>8. dec'.pos = Len(Written(at')) + 1
  <2>1. Written(1) = << >>
    BY <1>2, <1>3, ElementsMean
  <2> QED
    BY <1>1, <2>1
<1>9. \A k \in 1..(at' - 1) : Agrees(dec'.rects, k)
  BY <1>1
<1>10. ReadSoFar'
  BY <1>1, <1>2, <1>4, <1>5, <1>6, <1>7, <1>8, <1>9, ReadNext
<1> QED
  BY <1>1, <1>2, <1>10 DEF StageInv

\* The reader comes to know the parameters of slice after slice.
LEMMA ReadSliceKeeps ==
  ASSUME MapsInOrder, StageInv, ReadSlice
  PROVE  StageInv'
<1>1. /\ stage = "read" /\ pic' = pic /\ slices' = slices /\ enc' = enc /\ syntax' = syntax
  BY DEF ReadSlice
<1>2. IsTiled(pic) /\ ReadSoFar /\ Len(slices) <= MaxSlices
  BY <1>1 DEF MapsInOrder, StageInv
<1>3. /\ stage' = stage /\ at' \in 1..(Len(slices) + 1)
      /\ (at' <= Len(slices) => ~SameTile(slices, at'))
      /\ dec' \in Reader /\ Len(dec'.rects) = Len(slices) /\ dec'.map = << >>
      /\ (\A k \in 1..(at' - 1) : Agrees(dec'.rects, k))
      /\ dec'.tileIdx = Configured.rects[Minimum(at', Len(slices))].tileIdx
      /\ dec'.pos = Len(Written(at')) + 1
  BY <1>2, ReadSliceMeans
<1>4. ReadSoFar'
  <2>1. RectStage /\ syntax = FlattenSeq(Elements)
    BY <1>2 DEF ReadSoFar
  <2> QED
    BY <1>1, <1>3, <2>1, ReadNext
<1> QED
  BY <1>1, <1>2, <1>3, <1>4, SMTT(60) DEF StageInv

\* The map survives.
LEMMA ReadEndKeeps ==
  ASSUME MapsInOrder, StageInv, ReadEnd
  PROVE  StageInv'
<1> DEFINE n == Len(slices)
<1>1. /\ stage = "read" /\ pic' = pic /\ slices' = slices /\ enc' = enc /\ syntax' = syntax
      /\ at' = at
  BY DEF ReadEnd
<1>2. IsTiled(pic) /\ ReadSoFar /\ n <= MaxSlices /\ RectStage
  BY <1>1 DEF MapsInOrder, StageInv, ReadSoFar
<1>3. /\ stage' = "done" /\ dec' \in Reader /\ Len(dec'.rects) = n
      /\ dec'.tileIdx = Configured.rects[n].tileIdx
      /\ dec'.map = enc.map /\ IsSliceMap(pic, dec'.map)
      /\ (\A i \in DOMAIN slices : ToSet(dec'.map[i]) = CtusIn(slices[i]))
      /\ dec'.pos = Len(syntax) + 1
  BY <1>2, ReadEndMeans
<1>4. enc \in Encoder /\ Len(enc.rects) = n /\ n \in Nat /\ slices \in Seq(Rectangle) /\ n > 0
      /\ at \in Nat
  BY <1>2, EncMeans, EncTyped DEF RectStage, Drawn
<1>5. dec'.tileIdx \in 0..(NumTiles(pic) - 1)
  <2>1. n \in 1..n
    BY <1>4
  <2>2. Configured.rects[n].tileIdx \in Nat /\ Configured.rects[n].tileIdx < NumTiles(pic)
    BY <1>2, <1>4, <2>1, RectPlaces
  <2>3. NumTiles(pic) \in Int
    BY <1>2, TileColumns, TileRows DEF NumTiles
  <2> QED
    BY <1>3, <2>2, <2>3
<1>6. syntax \in Seq(Int)
  <2>1. Elements \in Seq(Seq(Int)) /\ syntax = FlattenSeq(Elements)
    BY <1>2, ElementsMean DEF RectStage, ReadSoFar
  <2>2. << >> \in Seq(Int)
    OBVIOUS
  <2> QED
    BY <2>1, <2>2, FlattenAppend
<1>7. Survived'
  <2>1. \A i \in DOMAIN slices' : ToSet(dec'.map[i]) = CtusIn(slices[i])'
    BY <1>1, <1>3 DEF CtusIn
  <2>2. enc' \in Encoder' /\ dec' \in Reader'
    BY <1>1, <1>3, <1>4 DEF Encoder, Reader
  <2> QED
    BY <1>1, <1>3, <1>4, <1>5, <1>6, <2>1, <2>2 DEF Survived
<1> QED
  BY <1>1, <1>2, <1>3, <1>7 DEF StageInv

\* Raster-scan slices have all tiles.
LEMMA ConfigureRasterKeeps ==
  ASSUME MapsInOrder, StageInv, ConfigureRaster
  PROVE  StageInv'
<1>1. PICK list \in RasterLists :
        LET sizes == RasterSizes(list)
            first == Boundaries(sizes)
        IN /\ stage = "slices" /\ slices = << >>
           /\ enc' = [enc EXCEPT !.map = RasterSliceMap(pic, sizes)]
           /\ syntax' = FlattenSeq([i \in DOMAIN sizes |-> RasterHeader(first[i], sizes[i])])
           /\ stage' = IF IsSliceMap(pic, enc'.map) THEN "headers" ELSE "error"
           /\ at' = 1 /\ pic' = pic /\ slices' = slices /\ dec' = dec
  BY DEF ConfigureRaster
<1>2. IsTiled(pic) /\ Len(slices) <= MaxSlices /\ NoParameters
  BY <1>1 DEF MapsInOrder, StageInv
<1>3. PICK sizes : sizes = RasterSizes(list)
  OBVIOUS
<1> DEFINE map == RasterSliceMap(pic, sizes)
<1>4. SizesOfAll(sizes)
  <2>1. list \in Seq(Positive) /\ list # << >>
    BY RasterListsAssumption DEF Positive
  <2> QED
    BY <1>2, <1>3, <2>1, RasterSizesMean DEF SizesOfAll
<1>5. enc' = [rects |-> << >>, tileIdxDeltaPresent |-> FALSE, map |-> map]
  BY <1>1, <1>2, <1>3 DEF NoParameters
<1>6. syntax' = FlattenSeq(Headers(sizes))
  <2>1. syntax' = FlattenSeq([i \in DOMAIN sizes |-> RasterHeader(Boundaries(sizes)[i], sizes[i])])
    BY <1>1, <1>3
  <2>2. DOMAIN sizes = 1..Len(sizes)
    BY <1>4 DEF SizesOfAll
  <2> QED
    BY <2>1, <2>2 DEF Headers
<1>7. /\ Len(sizes) \in Nat /\ Len(sizes) > 0
      /\ Headers(sizes) \in Seq(Seq(Int)) /\ map \in Seq(Seq(Nat))
  BY <1>2, <1>4, HeadersMean
<1>8. stage' = "headers"
  <2>1. IsSliceMap(pic, map)
    BY <1>2, <1>4, RasterMakesMap DEF SizesOfAll
  <2>2. enc'.map = map
    BY <1>5
  <2>3. stage' = IF IsSliceMap(pic, enc'.map) THEN "headers" ELSE "error"
    BY <1>1
  <2> QED
    BY <2>1, <2>2, <2>3
<1>9. at' \in 1..Len(sizes) /\ at' - 1 = 0
  BY <1>1, <1>7
<1>10. dec' = [rects |-> << >>, tileIdx |-> 0,
              pos |-> Len(FlattenSeq(SubSeq(Headers(sizes), 1, at' - 1))) + 1,
              map |-> SubSeq(map, 1, at' - 1)]
  <2> DEFINE hs == Headers(sizes)
  <2> HIDE DEF hs, map
  <2>1. SubSeq(hs, 1, 0) = << >> /\ SubSeq(map, 1, 0) = << >>
    BY <1>7 DEF hs
  <2>2. Len(FlattenSeq(SubSeq(hs, 1, at' - 1))) + 1 = 1 /\ SubSeq(map, 1, at' - 1) = << >>
    <3>1. SubSeq(hs, 1, at' - 1) = << >> /\ SubSeq(map, 1, at' - 1) = << >>
      BY <1>9, <2>1
    <3>2. FlattenSeq(SubSeq(hs, 1, at' - 1)) = << >>
      BY <3>1 DEF FlattenSeq
    <3>3. Len(FlattenSeq(SubSeq(hs, 1, at' - 1))) = 0
      BY <3>2
    <3> QED
      BY <3>1, <3>3
  <2>3. dec' = [rects |-> << >>, tileIdx |-> 0, pos |-> 1, map |-> << >>]
    BY <1>1, <1>2 DEF NoParameters
  <2> QED
    BY <2>2, <2>3 DEF hs
<1>11. HeadersSoFar(sizes)'
  BY <1>1, <1>4, <1>5, <1>6, <1>9, <1>10, HeadersNext
<1> QED
  BY <1>1, <1>2, <1>8, <1>11 DEF StageInv

\* The reader makes the map header by header.
LEMMA ReadHeaderKeeps ==
  ASSUME MapsInOrder, StageInv, ReadHeader
  PROVE  StageInv'
<1>1. /\ stage = "headers" /\ pic' = pic /\ slices' = slices /\ enc' = enc /\ syntax' = syntax
  BY DEF ReadHeader
<1>2. IsTiled(pic) /\ Len(slices) <= MaxSlices /\ \E sizes : HeadersSoFar(sizes)
  BY <1>1 DEF MapsInOrder, StageInv
<1>3. PICK sizes : HeadersSoFar(sizes)
  BY <1>2
<1> DEFINE n == Len(sizes)  map == RasterSliceMap(pic, sizes)  hs == Headers(sizes)
<1>4. /\ SizesOfAll(sizes) /\ slices = << >> /\ syntax = FlattenSeq(hs) /\ at \in 1..n
      /\ enc = [rects |-> << >>, tileIdxDeltaPresent |-> FALSE, map |-> map]
  BY <1>3 DEF HeadersSoFar
<1>5. /\ at' = at + 1 /\ stage' = (IF at = n THEN "done" ELSE stage)
      /\ dec' = [rects |-> << >>, tileIdx |-> 0,
                 pos |-> Len(FlattenSeq(SubSeq(hs, 1, at))) + 1, map |-> SubSeq(map, 1, at)]
  BY <1>2, <1>3, ReadHeaderMeans
<1>6. /\ n \in Nat /\ n > 0 /\ NumTiles(pic) \in Nat /\ hs \in Seq(Seq(Int)) /\ Len(hs) = n
      /\ map \in Seq(Seq(Nat)) /\ Len(map) = n /\ sizes \in Seq(Positive)
  BY <1>2, <1>4, HeadersMean DEF SizesOfAll
<1>7. at' \in Nat /\ at' - 1 = at /\ (at # n => at' \in 1..n)
  <2> HIDE DEF n
  <2> QED
    BY <1>4, <1>5, <1>6
<1>8. CASE at # n
  <2>1. HeadersSoFar(sizes)'
    BY <1>1, <1>4, <1>5, <1>7, <1>8, HeadersNext
  <2> QED
    BY <1>1, <1>2, <1>5, <1>8, <2>1 DEF StageInv
<1>9. CASE at = n
  <2>1. SubSeq(hs, 1, at) = hs /\ SubSeq(map, 1, at) = map
    <3> HIDE DEF hs, map, n
    <3> QED
      BY <1>6, <1>9
  <2>2. dec' = [rects |-> << >>, tileIdx |-> 0, pos |-> Len(syntax) + 1, map |-> map]
    BY <1>4, <1>5, <2>1
  <2>3. IsSliceMap(pic, map)
    BY <1>2, <1>4, RasterMakesMap DEF SizesOfAll
  <2>4. syntax \in Seq(Int)
    <3>1. << >> \in Seq(Int)
      OBVIOUS
    <3> QED
      BY <1>4, <1>6, <3>1, FlattenAppend
  <2>5. 0 \in 0..(NumTiles(pic) - 1)
    <3>1. sizes[1] \in Nat /\ sizes[1] >= 1 /\ Boundaries(sizes)[1] \in Nat
          /\ Boundaries(sizes)[1] + sizes[1] <= NumTiles(pic)
      <4>1. 1 \in 1..n
        BY <1>6
      <4> QED
        BY <1>2, <1>4, <4>1, HeadersMean
    <3> QED
      BY <1>6, <3>1
  <2>6. << >> \in Seq(RectSlice) /\ Len(<< >>) = 0
    OBVIOUS
  <2> HIDE DEF map, hs, n
  <2>7. Survived'
    <3>1. DOMAIN slices' = {}
      BY <1>1, <1>4
    <3>2. enc' \in Encoder' /\ Len(enc'.rects) = Len(slices')
      BY <1>1, <1>4, <1>6, <2>6 DEF Encoder
    <3>3. Len(syntax) + 1 \in Nat
      BY <2>4
    <3>4. dec' \in Reader' /\ Len(dec'.rects) = Len(slices') /\ dec'.tileIdx = 0
          /\ dec'.map = map /\ dec'.pos = Len(syntax) + 1
      BY <1>1, <1>4, <1>6, <2>2, <2>6, <3>3 DEF Reader
    <3> QED
      BY <1>1, <1>4, <1>7, <2>3, <2>4, <2>5, <3>1, <3>2, <3>4 DEF Survived
  <2> QED
    BY <1>1, <1>2, <1>5, <1>9, <2>7 DEF StageInv, n
<1> QED
  BY <1>8, <1>9

\* What does not change stays as it is.
LEMMA StutterKeeps ==
  ASSUME MapsInOrder, StageInv, UNCHANGED vars
  PROVE  StageInv'
<1>1. /\ stage' = stage /\ pic' = pic /\ slices' = slices /\ enc' = enc /\ syntax' = syntax
      /\ at' = at /\ dec' = dec
  BY DEF vars
<1>2. NoParameters' <=> NoParameters
  BY <1>1 DEF NoParameters
<1>3. Survived' <=> Survived
  BY <1>1 DEF Survived, Encoder, Reader, CtusIn
<1>4. ASSUME NEW sizes, HeadersSoFar(sizes) PROVE HeadersSoFar(sizes)'
  <2>1. /\ SizesOfAll(sizes) /\ slices = << >> /\ at \in 1..Len(sizes)
        /\ enc = [rects |-> << >>, tileIdxDeltaPresent |-> FALSE, map |-> RasterSliceMap(pic, sizes)]
        /\ syntax = FlattenSeq(Headers(sizes))
        /\ dec = [rects |-> << >>, tileIdx |-> 0,
                  pos |-> Len(FlattenSeq(SubSeq(Headers(sizes), 1, at - 1))) + 1,
                  map |-> SubSeq(RasterSliceMap(pic, sizes), 1, at - 1)]
    BY <1>4 DEF HeadersSoFar
  <2> QED
    BY <1>1, <2>1, HeadersNext
<1>5. ASSUME ReadSoFar PROVE ReadSoFar'
  BY <1>1, <1>5, ReadNext DEF ReadSoFar, RectStage
<1>6. ASSUME RectStage, syntax = Written(at) PROVE RectStage' /\ syntax' = Written(at)'
  <2>1. RectStage' /\ Written(at)' = Written(at')
    BY <1>1, <1>6, StageNext DEF RectStage
  <2> QED
    BY <1>1, <1>6, <2>1
<1> QED
  BY <1>1, <1>2, <1>3, <1>4, <1>5, <1>6 DEF StageInv

\* The steps of the partition and the loops keep what holds at each stage.
LEMMA StagesKept ==
  ASSUME MapsInOrder, MapsUpFirst, StageInv, [PictureNext]_<<vars, dataVars>>
  PROVE  StageInv'
<1>1. CASE Partition
  BY <1>1, AddKeeps, ConfigureKeeps, WriteSliceKeeps, WriteEndKeeps, ReadSliceKeeps, ReadEndKeeps,
     ConfigureRasterKeeps, ReadHeaderKeeps DEF Partition, Next
<1>2. CASE Begin
  <2>1. /\ stage' = "coding" /\ slices' = << >> /\ syntax' = << >> /\ at' = 1
        /\ enc' = [rects |-> << >>, tileIdxDeltaPresent |-> FALSE, map |-> << >>]
        /\ dec' = [rects |-> << >>, tileIdx |-> 0, pos |-> 1, map |-> << >>]
    BY <1>2 DEF Begin
  <2>2. Len(slices') = 0
    BY <2>1
  <2> QED
    BY <2>1, <2>2, MaxSlicesAssumption DEF StageInv, NoParameters
<1>3. CASE EncodeCtu \/ WriteSliceData \/ DecodeCtu \/ NextSlice \/ UNCHANGED <<vars, dataVars>>
  <2>1. UNCHANGED vars
    BY <1>3 DEF EncodeCtu, WriteSliceData, DecodeCtu, NextSlice
  <2> QED
    BY <2>1, StutterKeeps
<1> QED
  BY <1>1, <1>2, <1>3 DEF PictureNext

\* At the start.
LEMMA FirstStage == PictureInit => StageInv
<1> SUFFICES ASSUME PictureInit PROVE StageInv
  OBVIOUS
<1>1. /\ stage = "slices" /\ slices = << >> /\ NoParameters
  BY DEF PictureInit, Init, NoParameters
<1>2. Len(slices) = 0
  BY <1>1
<1> QED
  BY <1>1, <1>2, MaxSlicesAssumption DEF StageInv

\* What the reader has in the end.
LEMMA StagesSurvive ==
  ASSUME StageInv
  PROVE  SlicesSurvive
BY DEF StageInv, Survived, SlicesSurvive

\* What holds at each stage holds always.
LEMMA StageInvariant == PictureSpec => [](MapsInOrder /\ MapsUpFirst /\ StageInv)
<1>1. PictureInit => MapsInOrder /\ MapsUpFirst /\ StageInv
  <2> SUFFICES ASSUME PictureInit PROVE MapsInOrder /\ MapsUpFirst /\ StageInv
    OBVIOUS
  <2>1. /\ stage = "slices" /\ slices = << >> /\ phase = "none" /\ Init
        /\ enc = [rects |-> << >>, tileIdxDeltaPresent |-> FALSE, map |-> << >>]
    BY DEF PictureInit, Init, Data!Init
  <2>2. MapsInOrder
    BY <2>1, PicturesAreTiled DEF MapsInOrder
  <2> QED
    BY <2>2, FirstUpFirst, FirstStage
<1>2. /\ MapsInOrder /\ MapsUpFirst /\ StageInv /\ [PictureNext]_<<vars, dataVars>>
      => (MapsInOrder /\ MapsUpFirst /\ StageInv)'
  BY MapsStayInOrder, MapsStayUpFirst, StagesKept
<1> QED
  BY <1>1, <1>2, PTL DEF PictureSpec

\* PartitionSurvives: whatever the configured tiles and slices, rectangular or in raster
\* scan, no CHECK fails on the way from them to the map of the decoder, which is the
\* encoder's and has the configured slices, although the parameter set has only what
\* the reader cannot infer; and the reader has read all that was written.
THEOREM ConfigurationSurvives == PictureSpec => []PartitionSurvives
<1>1. StageInv /\ TilesAsConfigured => PartitionSurvives
  BY StagesSurvive DEF PartitionSurvives
<1> QED
  BY <1>1, StageInvariant, TilesFollowLists, PTL

-----------------------------------------------------------------------------
(* How many substreams a slice has.                                         *)

\* The lists of the maps go through their tiles in raster order.
MapsAscend ==
  /\ stage \in {"write", "read", "headers", "done"} =>
       \A s \in DOMAIN enc.map : Ascends(pic, enc.map[s])
  /\ phase # "none" => \A s \in DOMAIN layout.map : Ascends(layout.pic, layout.map[s])

\* So do those of every configuration.
LEMMA PartitionAscends ==
  ASSUME MapsInOrder, MapsUpFirst, MapsAscend, Partition
  PROVE  MapsAscend'
<1>1. Next /\ layout' = layout /\ phase' = phase /\ IsTiled(pic)
  BY DEF Partition, dataVars, MapsInOrder
<1>2. pic' = pic
  BY <1>1 DEF Next, AddTiles, SplitTile, Configure, WriteSlice, WriteEnd, ReadSlice, ReadEnd,
             ConfigureRaster, ReadHeader
<1>3. (phase # "none" => \A s \in DOMAIN layout.map : Ascends(layout.pic, layout.map[s]))'
  BY <1>1 DEF MapsAscend
<1>4. CASE AddTiles \/ SplitTile
  <2>1. stage' = "slices"
    BY <1>4 DEF AddTiles, SplitTile
  <2> QED
    BY <1>3, <2>1 DEF MapsAscend
<1>5. CASE Configure
  <2>1. stage = "slices" /\ enc' = [Configured EXCEPT !.map = RectSliceMap(pic, Configured.rects)]
    BY <1>5 DEF Configure
  <2>2. enc'.map = RectSliceMap(pic, Configured.rects)
    BY <2>1 DEF Configured
  <2>3. Drawn(slices) /\ slices \in Seq(Rectangle)
    BY <2>1 DEF MapsUpFirst, Drawn
  <2>4. DOMAIN enc'.map = 1..Len(slices)
    <3>1. DOMAIN Configured.rects = 1..Len(slices)
      BY <1>1, <2>3, ConfiguredMeans
    <3> QED
      BY <2>2, <3>1 DEF RectSliceMap
  <2>5. \A s \in 1..Len(slices) : Ascends(pic, enc'.map[s])
    BY <1>1, <2>2, <2>3, RectLists
  <2> QED
    BY <1>2, <1>3, <2>4, <2>5 DEF MapsAscend
<1>6. CASE ConfigureRaster
  <2>1. PICK list \in RasterLists : enc' = [enc EXCEPT !.map = RasterSliceMap(pic, RasterSizes(list))]
    BY <1>6 DEF ConfigureRaster
  <2>2. list \in Seq(Positive) /\ list # << >>
    BY RasterListsAssumption DEF Positive
  <2> DEFINE sizes == RasterSizes(list)
  <2>3. sizes \in Seq(Positive) /\ Boundaries(sizes)[Len(sizes) + 1] = NumTiles(pic)
    BY <1>1, <2>2, RasterSizesMean
  <2>4. enc'.map = RasterSliceMap(pic, sizes)
    BY <2>1 DEF MapsInOrder
  <2> HIDE DEF sizes
  <2>5. DOMAIN enc'.map = 1..Len(sizes)
    BY <2>3, <2>4 DEF RasterSliceMap
  <2>6. \A s \in 1..Len(sizes) : Ascends(pic, enc'.map[s])
    BY <1>1, <2>3, <2>4, RasterTiles
  <2> QED
    BY <1>2, <1>3, <2>5, <2>6 DEF MapsAscend
<1>7. CASE WriteSlice \/ WriteEnd \/ ReadSlice \/ ReadEnd \/ ReadHeader
  <2>1. stage \in {"write", "read", "headers"} /\ enc' = enc
    BY <1>7 DEF WriteSlice, WriteEnd, ReadSlice, ReadEnd, ReadHeader
  <2> QED
    BY <1>2, <1>3, <2>1 DEF MapsAscend
<1> QED
  BY <1>1, <1>4, <1>5, <1>6, <1>7 DEF Next

\* And those of the loops.
LEMMA MapsStayAscending ==
  ASSUME MapsInOrder, MapsUpFirst, MapsAscend, [PictureNext]_<<vars, dataVars>>
  PROVE  MapsAscend'
<1>1. CASE Partition
  BY <1>1, PartitionAscends
<1>2. CASE Begin
  <2>1. /\ stage = "done" /\ dec.map = enc.map /\ stage' = "coding"
        /\ layout' = [pic |-> pic, map |-> dec.map]
    BY <1>2 DEF Begin, Data!StartPicture
  <2>2. \A s \in DOMAIN enc.map : Ascends(pic, enc.map[s])
    BY <2>1 DEF MapsAscend
  <2> QED
    BY <2>1, <2>2 DEF MapsAscend
<1>3. CASE EncodeCtu \/ WriteSliceData \/ DecodeCtu \/ NextSlice \/ UNCHANGED <<vars, dataVars>>
  <2>1. UNCHANGED vars /\ layout' = layout /\ (phase = "none" => phase' = "none")
    <3>1. CASE EncodeCtu
      BY <3>1 DEF EncodeCtu, Data!EncodeCtu
    <3>2. CASE WriteSliceData
      BY <3>2 DEF WriteSliceData, Data!WriteSlice
    <3>3. CASE DecodeCtu
      BY <3>3 DEF DecodeCtu, Data!DecodeCtu
    <3>4. CASE NextSlice
      BY <3>4 DEF NextSlice, Data!NextSlice
    <3>5. CASE UNCHANGED <<vars, dataVars>>
      BY <3>5 DEF dataVars
    <3> QED
      BY <1>3, <3>1, <3>2, <3>3, <3>4, <3>5
  <2> QED
    BY <2>1 DEF MapsAscend, vars
<1> QED
  BY <1>1, <1>2, <1>3 DEF PictureNext

\* A list that goes through tiles in raster order goes through each in raster order:
\* of two CTUs of a tile the later one is lower, or in the same row to the right.
LEMMA LaterInTile ==
  ASSUME NEW p, IsTiled(p), NEW list, InOrder(p, list), Ascends(p, list),
         \A k \in 1..Len(list) : list[k] \in CtusOfPicture(p),
         NEW i \in 1..Len(list), NEW j \in 1..Len(list), i < j,
         TileIdx(p, list[i]) = TileIdx(p, list[j])
  PROVE  \/ CtuY(p, list[i]) < CtuY(p, list[j])
         \/ CtuY(p, list[i]) = CtuY(p, list[j]) /\ CtuX(p, list[i]) < CtuX(p, list[j])
<1> DEFINE n == Len(list)  T(k) == TileIdx(p, list[k])
           X(k) == CtuX(p, list[k])  Y(k) == CtuY(p, list[k])
           Later(k) == Y(i) < Y(k) \/ (Y(i) = Y(k) /\ X(i) < X(k))
<1>1. n \in Nat /\ i \in 1..n /\ j \in 1..n
  BY DEF InOrder
<1>2. \A k \in 1..n : T(k) \in Nat /\ Y(k) \in Int /\ X(k) \in Int
  <2> TAKE k \in 1..n
  <2>1. list[k] \in CtusOfPicture(p)
    OBVIOUS
  <2>2. T(k) \in Nat
    BY <2>1, TileOf
  <2>3. X(k) \in 0..(p.width - 1) /\ Y(k) \in 0..(p.height - 1)
    BY <2>1, CtuPlace
  <2> HIDE DEF X, Y, T
  <2> QED
    BY <2>2, <2>3
<1>3. \A k \in i..j : T(k) = T(i)
  <2> TAKE k \in i..j
  <2>1. k \in 1..n
    BY <1>1
  <2>2. Len(list) \in Nat /\ \A m \in 1..Len(list) : TileIdx(p, list[m]) \in Nat
    BY <1>1, <1>2
  <2>3. k \in 1..Len(list) /\ i <= k /\ k <= j
    BY <1>1, <2>1
  <2>4. T(i) <= T(k)
    BY <2>2, <2>3, AscendsFar
  <2>5. T(k) <= T(j)
    BY <2>2, <2>3, AscendsFar
  <2>6. T(j) = T(i)
    OBVIOUS
  <2> HIDE DEF T
  <2>7. T(i) \in Nat /\ T(j) \in Nat /\ T(k) \in Nat
    BY <1>1, <1>2, <2>1
  <2> QED
    BY <2>4, <2>5, <2>6, <2>7
<1>4. ASSUME NEW k \in i..j, k < j
      PROVE  Y(k + 1) = Y(k) + 1 \/ (Y(k + 1) = Y(k) /\ X(k + 1) = X(k) + 1)
  <2>1. k \in 1..(n - 1) /\ k \in 1..n /\ k + 1 \in 1..n /\ k + 1 \in i..j
    BY <1>1, <1>4
  <2>2. Follows(p, list[k], list[k + 1])
    BY <2>1 DEF InOrder
  <2>3. T(k) = T(k + 1)
    BY <1>3, <2>1
  <2>4. Col(p, list[k]) = Col(p, list[k + 1]) /\ Row(p, list[k]) = Row(p, list[k + 1])
    <3>1. /\ CtuX(p, list[k]) \in 0..(p.width - 1) /\ CtuY(p, list[k]) \in 0..(p.height - 1)
          /\ CtuX(p, list[k + 1]) \in 0..(p.width - 1) /\ CtuY(p, list[k + 1]) \in 0..(p.height - 1)
      BY <2>1 DEF InOrder
    <3> QED
      BY <2>3, <3>1, TileIdxMeans
  <2> QED
    BY <2>2, <2>4 DEF Follows, InRow, InNextRow, InOtherTile
<1> HIDE DEF T, X, Y, n
<1> DEFINE S == {k \in (i + 1)..j : Later(k)}
<1>5. i + 1 \in S
  <2>1. i \in i..j /\ i + 1 \in (i + 1)..j /\ i \in 1..n /\ i + 1 \in 1..n
    BY <1>1
  <2>2. Y(i + 1) = Y(i) + 1 \/ (Y(i + 1) = Y(i) /\ X(i + 1) = X(i) + 1)
    BY <1>4, <2>1
  <2>3. X(i) \in Int /\ Y(i) \in Int
    BY <1>2, <2>1
  <2>4. Later(i + 1)
    BY <2>2, <2>3
  <2> HIDE DEF Later
  <2> QED
    BY <2>1, <2>4
<1>6. \A k \in S : k < j => k + 1 \in S
  <2> SUFFICES ASSUME NEW k \in S, k < j PROVE k + 1 \in S
    OBVIOUS
  <2>1. k \in (i + 1)..j /\ Later(k)
    OBVIOUS
  <2>2. k \in i..j /\ k \in 1..n /\ k + 1 \in 1..n /\ k + 1 \in (i + 1)..j
    BY <1>1, <2>1
  <2>3. Y(k + 1) = Y(k) + 1 \/ (Y(k + 1) = Y(k) /\ X(k + 1) = X(k) + 1)
    BY <1>4, <2>2
  <2>4. X(i) \in Int /\ Y(i) \in Int /\ X(k) \in Int /\ Y(k) \in Int
    BY <1>1, <1>2, <2>2
  <2>5. Later(k + 1)
    BY <2>1, <2>3, <2>4
  <2> HIDE DEF Later
  <2> QED
    BY <2>2, <2>5
<1> HIDE DEF Later
<1>7. S = (i + 1)..j
  <2>1. S \in SUBSET ((i + 1)..j) /\ i + 1 \in Nat /\ j \in Nat /\ i + 1 <= j
    BY <1>1
  <2> HIDE DEF S
  <2> QED
    BY <1>5, <1>6, <2>1, InductionUpTo
<1>8. Later(j)
  <2>1. j \in S
    BY <1>1, <1>7
  <2> QED
    BY <2>1
<1> QED
  BY <1>8 DEF Later, X, Y

\* The row of a CTU of the slice in hand, of which each column of tiles has a substream
\* of its own, and how many rows there are: rows of CTUs with wavefronts, else of tiles.
RowOf(i) == IF sps.wpp THEN CtuY(layout.pic, At(i)) ELSE Row(layout.pic, At(i))
NumRows == IF sps.wpp THEN layout.pic.height ELSE NumTileRows(layout.pic)

\* Where those are.
LEMMA RowAndColumn ==
  ASSUME MapsChecked, MapsInOrder, Looping, Shapes, NEW i \in 1..Len(List)
  PROVE  /\ At(i) \in CtusOfPicture(layout.pic)
         /\ Col(layout.pic, At(i)) \in 0..(NumTileCols(layout.pic) - 1)
         /\ Row(layout.pic, At(i)) \in 0..(NumTileRows(layout.pic) - 1)
         /\ RowOf(i) \in 0..(NumRows - 1)
         /\ CtuX(layout.pic, At(i)) \in Nat /\ CtuY(layout.pic, At(i)) \in Nat
         /\ CtuX(layout.pic, At(i)) < TileColumnBd(layout.pic, Col(layout.pic, At(i)) + 1)
         /\ CtuY(layout.pic, At(i)) < TileRowBd(layout.pic, Row(layout.pic, At(i)) + 1)
<1> DEFINE p == layout.pic  c == At(i)
<1>1. IsTiled(p) /\ c \in CtusOfPicture(p)
  <2>1. At(i) \in Data!Ctus
    BY CtusOfSlice DEF List
  <2> QED
    BY <2>1 DEF MapsInOrder, Looping, Data!Ctus, Data!pic, CtusOfPicture
<1> HIDE DEF c
<1>2. CtuX(p, c) \in 0..(p.width - 1) /\ CtuY(p, c) \in 0..(p.height - 1)
  BY <1>1, CtuPlace
<1>3. /\ Col(p, c) \in 0..(NumTileCols(p) - 1)
      /\ CtuX(p, c) < TileColumnBd(p, Col(p, c) + 1)
  BY <1>1, <1>2, TileColumns DEF Col
<1>4. /\ Row(p, c) \in 0..(NumTileRows(p) - 1)
      /\ CtuY(p, c) < TileRowBd(p, Row(p, c) + 1)
  BY <1>1, <1>2, TileRows DEF Row
<1>5. RowOf(i) \in 0..(NumRows - 1)
  BY <1>2, <1>4 DEF RowOf, NumRows, c
<1>6. CtuX(p, c) \in Nat /\ CtuY(p, c) \in Nat
  BY <1>2
<1> QED
  BY <1>1, <1>3, <1>4, <1>5, <1>6 DEF c

\* After the end of a substream the slice has nothing more of its row and column.
LEMMA EndsApart ==
  ASSUME MapsChecked, MapsInOrder, MapsAscend, Looping, Shapes,
         NEW i \in 1..Len(List), NEW j \in 1..Len(List), i < j, Ends(i)
  PROVE  Col(layout.pic, At(i)) # Col(layout.pic, At(j)) \/ RowOf(i) # RowOf(j)
<1> DEFINE p == layout.pic  c == At(i)  d == At(j)
<1> SUFFICES ASSUME Col(p, c) = Col(p, d), RowOf(i) = RowOf(j)
             PROVE  FALSE
  OBVIOUS
<1>1. /\ IsTiled(p) /\ InOrder(p, List) /\ Ascends(p, List)
      /\ \A k \in 1..Len(List) : List[k] \in CtusOfPicture(p)
  <2>1. IsTiled(p) /\ InOrder(p, List)
    BY ListInOrder
  <2>2. Ascends(p, List)
    BY DEF MapsAscend, Looping, Shapes, List
  <2>3. \A k \in 1..Len(List) : List[k] \in CtusOfPicture(p)
    <3>1. \A k \in 1..Len(List) : At(k) = List[k]
      BY DEF At, List
    <3> QED
      BY <3>1, RowAndColumn
  <2> QED
    BY <2>1, <2>2, <2>3
<1>2. /\ CtuX(p, c) \in Nat /\ CtuY(p, c) \in Nat /\ CtuX(p, d) \in Nat /\ CtuY(p, d) \in Nat
      /\ CtuX(p, d) < TileColumnBd(p, Col(p, d) + 1)
      /\ CtuY(p, d) < TileRowBd(p, Row(p, d) + 1)
  BY RowAndColumn
<1>3. c = List[i] /\ d = List[j]
  BY DEF At, List
<1>4. Row(p, c) = Row(p, d)
  BY DEF RowOf, Row
<1>5. TileIdx(p, c) = TileIdx(p, d)
  BY <1>4 DEF TileIdx, Col, Row
<1>6. CtuY(p, c) < CtuY(p, d) \/ (CtuY(p, c) = CtuY(p, d) /\ CtuX(p, c) < CtuX(p, d))
  BY <1>1, <1>3, <1>5, LaterInTile
<1>7. CtuX(p, c) + 1 = TileColumnBd(p, Col(p, c) + 1)
  BY DEF Ends, AtRightEdge
<1>8. ~(CtuX(p, c) < CtuX(p, d))
  BY <1>2, <1>7
<1>9. CASE sps.wpp
  <2>1. CtuY(p, c) = CtuY(p, d)
    BY <1>9 DEF RowOf
  <2> QED
    BY <1>2, <1>6, <1>8, <2>1
<1>10. CASE ~sps.wpp
  <2>1. CtuY(p, c) + 1 = TileRowBd(p, Row(p, c) + 1)
    BY <1>10 DEF Ends, AtBottomEdge
  <2>2. ~(CtuY(p, c) < CtuY(p, d))
    BY <1>2, <1>4, <2>1
  <2> QED
    BY <1>6, <1>8, <2>2
<1> QED
  BY <1>9, <1>10

\* There are fewer ends before the last CTU of a slice than substreams allocated.
LEMMA SubstreamsAllocated ==
  ASSUME MapsChecked, MapsInOrder, MapsAscend, Looping, Shapes, NEW k
  PROVE  /\ IsFiniteSet(EndsBefore(k)) /\ Cardinality(EndsBefore(k)) + 1 <= Data!Allocated
<1> DEFINE p == layout.pic  L == Len(List)  E == EndsBefore(k)  S == E \cup {L}
           m == NumTileCols(p)  r == NumRows  T == (0..(m - 1)) \X (0..(r - 1))
           key(i) == <<Col(p, At(i)), RowOf(i)>>
<1>1. L \in Nat /\ IsTiled(p)
  BY ListInOrder
<1>2. IsFiniteSet(E) /\ Cardinality(E) \in Nat /\ E \subseteq 1..(L - 1) /\ \A i \in E : Ends(i)
  <2>1. E \subseteq 1..(L - 1) /\ \A i \in E : Ends(i)
    BY DEF EndsBefore
  <2> HIDE DEF E
  <2>2. IsFiniteSet(1..(L - 1))
    BY <1>1, FS_Interval
  <2>3. IsFiniteSet(E)
    BY <2>1, <2>2, FS_Subset
  <2> QED
    BY <2>1, <2>3, FS_CardinalityType
<1>3. m \in Nat /\ m >= 1 /\ r \in Nat /\ r >= 1
  BY <1>1, TileColumns, TileRows DEF NumRows
<1>4. Len(layout.map) \in Nat /\ Len(layout.map) >= 1
  <2>1. layout.map \in Seq(Seq(0..(p.width * p.height - 1))) /\ slice \in DOMAIN layout.map
    BY MapMeans DEF MapsChecked, Looping, Shapes
  <2> DEFINE D == Seq(0..(p.width * p.height - 1))
  <2>2. layout.map \in Seq(D)
    BY <2>1
  <2> HIDE DEF D
  <2>3. slice \in 1..Len(layout.map) /\ Len(layout.map) \in Nat
    BY <2>1, <2>2
  <2> QED
    BY <2>3
<1>5. r * m \in Nat /\ r * m = m * r
  <2> HIDE DEF r, m
  <2> QED
    BY <1>3
<1>6. Data!Allocated = IF r * m > Len(layout.map) THEN r * m ELSE Len(layout.map)
  <2>1. Data!NumTileCols(Data!pic) = m /\ Data!NumTileRows(Data!pic) = NumTileRows(p) /\ Data!pic = p
    BY DEF Data!NumTileCols, NumTileCols, Data!NumTileRows, NumTileRows, Data!pic
  <2> QED
    BY <2>1 DEF Data!Allocated, NumRows
<1> DEFINE q == r * m
<1> HIDE DEF E, L, m, r, q
<1>7. q \in Nat /\ q = m * r /\ Data!Allocated = IF q > Len(layout.map) THEN q ELSE Len(layout.map)
  BY <1>5, <1>6 DEF q
<1>8. q <= Data!Allocated /\ 1 <= Data!Allocated /\ Data!Allocated \in Nat
  BY <1>4, <1>7
<1>9. CASE E = {}
  <2>1. Cardinality(E) = 0
    <3>1. Cardinality({}) = 0
      BY FS_EmptySet
    <3> QED
      BY <1>9, <3>1
  <2>2. Cardinality(E) + 1 <= Data!Allocated
    BY <1>8, <2>1
  <2> QED
    BY <1>2, <2>2 DEF E
<1>10. CASE E # {}
  <2>1. L \in 1..L /\ L \notin E /\ S \subseteq 1..L
    <3>1. PICK e \in E : TRUE
      BY <1>10
    <3>2. e \in 1..(L - 1) /\ L \in Nat
      BY <1>1, <1>2, <3>1 DEF L
    <3>3. L \in 1..L /\ L \notin 1..(L - 1) /\ 1..(L - 1) \subseteq 1..L
      BY <3>2
    <3> QED
      BY <1>2, <3>3
  <2>2. IsFiniteSet(S) /\ Cardinality(S) = Cardinality(E) + 1
    BY <1>2, <2>1, FS_AddElement
  <2>3. IsFiniteSet(T) /\ Cardinality(T) = q
    <3>1. /\ IsFiniteSet(0..(m - 1)) /\ Cardinality(0..(m - 1)) = m
          /\ IsFiniteSet(0..(r - 1)) /\ Cardinality(0..(r - 1)) = r
      BY <1>3, FS_Interval
    <3> DEFINE A == 0..(m - 1)  B == 0..(r - 1)
    <3>2. IsFiniteSet(A) /\ IsFiniteSet(B) /\ Cardinality(A) = m /\ Cardinality(B) = r
      BY <3>1
    <3> HIDE DEF A, B
    <3>3. IsFiniteSet(A \X B) /\ Cardinality(A \X B) = Cardinality(A) * Cardinality(B)
      BY <3>2, FS_Product
    <3>4. Cardinality(A \X B) = q
      BY <1>7, <3>2, <3>3
    <3> QED
      BY <3>3, <3>4 DEF A, B
  <2> DEFINE f == [i \in S |-> key(i)]
  <2>4. f \in [S -> T]
    <3>1. \A i \in S : key(i) \in T
      <4> TAKE i \in S
      <4>1. i \in 1..Len(List)
        BY <2>1 DEF L
      <4>2. Col(p, At(i)) \in 0..(m - 1) /\ RowOf(i) \in 0..(r - 1)
        BY <4>1, RowAndColumn DEF m, r
      <4> QED
        BY <4>2
    <3> HIDE DEF S, T, key
    <3> QED
      BY <3>1
  <2>5. \A i, j \in S : i < j => key(i) # key(j)
    <3> TAKE i \in S, j \in S
    <3> SUFFICES ASSUME i < j PROVE key(i) # key(j)
      OBVIOUS
    <3>1. i \in 1..Len(List) /\ j \in 1..Len(List) /\ i \in E
      <4>1. i \in 1..L /\ j \in 1..L
        BY <2>1
      <4>2. i # L
        BY <1>1, <4>1
      <4> QED
        BY <4>1, <4>2 DEF L
    <3>2. Ends(i)
      BY <1>2, <3>1
    <3> QED
      BY <3>1, <3>2, EndsApart
  <2>6. ~(Cardinality(T) < Cardinality(S))
    <3> SUFFICES ASSUME Cardinality(T) < Cardinality(S) PROVE FALSE
      OBVIOUS
    <3> HIDE DEF S, T, f, key
    <3>1. \E i, j \in S : i # j /\ f[i] = f[j]
      BY <2>2, <2>3, <2>4, FS_PigeonHole
    <3>2. PICK i \in S, j \in S : i # j /\ f[i] = f[j]
      BY <3>1
    <3>3. key(i) = key(j)
      BY <3>2 DEF f
    <3>4. i < j \/ j < i
      <4>1. i \in 1..L /\ j \in 1..L
        BY <2>1
      <4> QED
        BY <3>2, <4>1
    <3> QED
      BY <2>5, <3>3, <3>4
  <2>7. Cardinality(E) + 1 <= q
    BY <1>2, <1>7, <2>2, <2>3, <2>6
  <2>8. Cardinality(E) + 1 <= Data!Allocated
    BY <1>2, <1>8, <1>7, <2>7
  <2> QED
    BY <1>2, <2>8 DEF E
<1> QED
  BY <1>2, <1>9, <1>10 DEF E

-----------------------------------------------------------------------------
(* Types.                                                                   *)

\* There is a tile.
LEMMA SomeTile ==
  ASSUME IsTiled(pic)
  PROVE  NumTiles(pic) \in Nat /\ NumTiles(pic) >= 1 /\ 0 \in 0..(NumTiles(pic) - 1)
<1> DEFINE c == NumTileCols(pic)  r == NumTileRows(pic)
<1>1. c \in Nat /\ c >= 1 /\ r \in Nat /\ r >= 1
  BY TileColumns, TileRows
<1>2. NumTiles(pic) = c * r \/ NumTiles(pic) = r * c
  BY DEF NumTiles
<1> HIDE DEF c, r
<1>3. c * r \in Nat /\ c * r >= 1 /\ r * c = c * r
  BY <1>1
<1>4. NumTiles(pic) \in Nat /\ NumTiles(pic) >= 1
  BY <1>2, <1>3
<1> DEFINE n == NumTiles(pic)
<1> HIDE DEF n
<1>5. n \in Nat /\ n >= 1
  BY <1>4 DEF n
<1>6. 0 \in 0..(n - 1)
  BY <1>5
<1> QED
  BY <1>4, <1>6 DEF n

\* What holds at each stage gives the variables their types.
LEMMA StageTyped ==
  ASSUME MapsInOrder, StageInv
  PROVE  TypeOK
<1>1. IsTiled(pic) /\ slices \in Seq(Rectangle) /\ Len(slices) <= MaxSlices
  BY DEF MapsInOrder, StageInv
<1>2. slices \in Seq([first : Nat, last : Nat])
  <2>1. Rectangle \subseteq [first : Nat, last : Nat]
    BY DEF Rectangle
  <2> QED
    BY <1>1, <2>1, SeqsGrow
<1>3. IsTiled(pic) => 0 \in 0..(NumTiles(pic) - 1)
  BY SomeTile
<1>4. << >> \in Seq(RectSlice) /\ << >> \in Seq(Seq(Nat)) /\ << >> \in Seq(Int) /\ Len(<< >>) = 0
  OBVIOUS
<1> DEFINE Good == /\ enc \in Encoder /\ dec \in Reader
                   /\ dec.tileIdx \in 0..(NumTiles(pic) - 1)
                   /\ syntax \in Seq(Int) /\ at \in Nat
                   /\ (stage # "slices" => Len(enc.rects) = Len(slices))
                   /\ (stage \in {"read", "done"} => Len(dec.rects) = Len(slices))
<1>5. ASSUME NoParameters, stage = "slices" \/ stage = "coding" PROVE Good
  <2>1. /\ enc = [rects |-> << >>, tileIdxDeltaPresent |-> FALSE, map |-> << >>]
        /\ dec = [rects |-> << >>, tileIdx |-> 0, pos |-> 1, map |-> << >>]
        /\ syntax = << >> /\ at = 1
    BY <1>5 DEF NoParameters
  <2>2. enc \in Encoder /\ dec \in Reader
    BY <1>4, <2>1 DEF Encoder, Reader
  <2>3. stage # "slices" => Len(enc.rects) = Len(slices)
    BY <1>4, <1>5, <2>1 DEF StageInv
  <2> QED
    BY <1>1, <1>3, <1>4, <1>5, <2>1, <2>2, <2>3
<1>6. ASSUME stage = "write" \/ stage = "read" PROVE Good
  <2>1. RectStage
    BY <1>6 DEF StageInv, ReadSoFar
  <2>2. /\ enc \in Encoder /\ Len(enc.rects) = Len(slices) /\ Len(slices) \in Nat
        /\ Drawn(slices) /\ Len(slices) > 0 /\ at \in 1..(Len(slices) + 1)
    BY <1>1, <2>1, EncTyped, EncMeans DEF RectStage
  <2>3. at \in Nat
    BY <2>2
  <2>4. /\ Elements \in Seq(Seq(Int)) /\ Len(Elements) = Len(slices)
    BY <1>1, <2>2, ElementsMean
  <2>5. syntax \in Seq(Int)
    <3>1. CASE stage = "write"
      <4>1. syntax = FlattenSeq(SubSeq(Elements, 1, at - 1))
        BY <3>1 DEF StageInv, Written
      <4> DEFINE e == Elements  n == Len(slices)
      <4> HIDE DEF e, n
      <4>2. e \in Seq(Seq(Int)) /\ Len(e) = n /\ at \in 1..(n + 1) /\ n \in Nat
        BY <2>2, <2>4 DEF e, n
      <4>3. SubSeq(e, 1, at - 1) \in Seq(Seq(Int))
        BY <4>2
      <4>4. FlattenSeq(SubSeq(e, 1, at - 1)) \in Seq(Int)
        BY <1>4, <4>3, FlattenAppend
      <4> QED
        BY <4>1, <4>4 DEF e
    <3>2. CASE stage = "read"
      <4>1. syntax = FlattenSeq(Elements)
        BY <3>2 DEF StageInv, ReadSoFar
      <4> QED
        BY <1>4, <2>4, <4>1, FlattenAppend
    <3> QED
      BY <1>6, <3>1, <3>2
  <2>6. dec \in Reader /\ dec.tileIdx \in 0..(NumTiles(pic) - 1)
    <3>1. CASE stage = "write"
      <4>1. dec = [rects |-> << >>, tileIdx |-> 0, pos |-> 1, map |-> << >>]
        BY <3>1 DEF StageInv
      <4> QED
        BY <1>1, <1>3, <1>4, <4>1 DEF Reader
    <3>2. CASE stage = "read"
      <4>1. dec \in Reader /\ dec.tileIdx = Configured.rects[Minimum(at, Len(slices))].tileIdx
        BY <3>2 DEF StageInv, ReadSoFar
      <4> DEFINE k == Minimum(at, Len(slices))
      <4>2. k \in 1..Len(slices)
        <5> DEFINE n == Len(slices)
        <5> HIDE DEF n
        <5>1. n \in Nat /\ n > 0 /\ at \in 1..(n + 1)
          BY <2>2 DEF n
        <5>2. Minimum(at, n) \in 1..n
          BY <5>1 DEF Minimum
        <5> QED
          BY <5>2 DEF n
      <4>3. Configured.rects[k].tileIdx \in Nat /\ Configured.rects[k].tileIdx < NumTiles(pic)
        BY <1>1, <2>2, <4>2, RectPlaces
      <4> DEFINE N == NumTiles(pic)  t == dec.tileIdx
      <4>4. N \in Nat /\ t \in Nat /\ t < N
        BY <1>1, <4>1, <4>3, SomeTile
      <4> HIDE DEF N, t
      <4>5. t \in 0..(N - 1)
        BY <4>4
      <4> QED
        BY <4>1, <4>5 DEF N, t
    <3> QED
      BY <1>6, <3>1, <3>2
  <2>7. stage \in {"read", "done"} => Len(dec.rects) = Len(slices)
    BY <1>6 DEF StageInv, ReadSoFar
  <2> QED
    BY <2>2, <2>3, <2>5, <2>6, <2>7
<1>7. ASSUME stage = "headers" PROVE Good
  <2>1. PICK sizes : HeadersSoFar(sizes)
    BY <1>7 DEF StageInv
  <2> DEFINE hs == Headers(sizes)  map == RasterSliceMap(pic, sizes)  n == Len(sizes)
             pos == Len(FlattenSeq(SubSeq(hs, 1, at - 1))) + 1
  <2>2. /\ SizesOfAll(sizes) /\ slices = << >> /\ syntax = FlattenSeq(hs) /\ at \in 1..n
        /\ enc = [rects |-> << >>, tileIdxDeltaPresent |-> FALSE, map |-> map]
        /\ dec = [rects |-> << >>, tileIdx |-> 0, pos |-> pos, map |-> SubSeq(map, 1, at - 1)]
    BY <2>1 DEF HeadersSoFar
  <2>3. /\ n \in Nat /\ hs \in Seq(Seq(Int)) /\ Len(hs) = n /\ map \in Seq(Seq(Nat)) /\ Len(map) = n
    BY <1>1, <2>2, HeadersMean
  <2>4. syntax \in Seq(Int)
    BY <1>4, <2>2, <2>3, FlattenAppend
  <2>5. pos \in Nat /\ SubSeq(map, 1, at - 1) \in Seq(Seq(Nat)) /\ at \in Nat
    <3> HIDE DEF hs, map, n
    <3>1. SubSeq(hs, 1, at - 1) \in Seq(Seq(Int)) /\ SubSeq(map, 1, at - 1) \in Seq(Seq(Nat)) /\ at \in Nat
      BY <2>2, <2>3
    <3>2. FlattenSeq(SubSeq(hs, 1, at - 1)) \in Seq(Int)
      BY <1>4, <3>1, FlattenAppend
    <3> QED
      BY <3>1, <3>2
  <2> HIDE DEF hs, map, n, pos
  <2>6. enc \in Encoder /\ dec \in Reader /\ dec.tileIdx = 0 /\ Len(enc.rects) = Len(slices)
    BY <1>4, <2>2, <2>3, <2>5 DEF Encoder, Reader
  <2> QED
    BY <1>1, <1>3, <1>7, <2>2, <2>4, <2>5, <2>6
<1>8. ASSUME stage = "done" PROVE Good
  BY <1>8 DEF StageInv, Survived
<1>9. Good
  BY <1>5, <1>6, <1>7, <1>8 DEF StageInv
<1>10. stage \in {"slices", "write", "read", "headers", "done", "error", "coding"}
  BY DEF StageInv
<1> QED
  BY <1>1, <1>2, <1>9, <1>10 DEF TypeOK, Encoder, Reader

\* What a loop keeps of where it is, and of its substreams.
LoopTyped ==
  /\ slice \in DOMAIN layout.map /\ idx \in 1..(Len(List) + 1)
  /\ coder.numSubstream \in Nat /\ coder.sizes \in Seq(Positive)
  /\ Len(coder.subs) <= Data!Allocated
  /\ phase = "decode" => decoder.sub \in Nat

\* It keeps no more than it may.
LEMMA LoopsTyped == LoopInv /\ FitInv /\ MapsAscend /\ Looping => LoopTyped
<1> SUFFICES ASSUME LoopInv, FitInv, MapsAscend, Looping PROVE LoopTyped
  OBVIOUS
<1>1. MapsChecked /\ MapsInOrder /\ Shapes /\ CodedTyped
  BY DEF LoopInv, FitInv
<1>2. Divided(IF phase = "encode" THEN idx ELSE Len(List) + 1)
  BY DEF FitInv
<1> DEFINE k == IF phase = "encode" THEN idx ELSE Len(List) + 1
<1>3. /\ coder.numSubstream \in Nat /\ Len(coder.subs) = Cardinality(EndsBefore(k)) + 1
      /\ (sps.entryPointPresent => coder.sizes \in Seq(Positive))
      /\ (~sps.entryPointPresent => coder.sizes = << >>)
  BY <1>2 DEF Divided
<1> HIDE DEF k
<1>4. Len(coder.subs) <= Data!Allocated
  BY <1>1, <1>3, SubstreamsAllocated
<1>5. coder.sizes \in Seq(Positive)
  <2>1. << >> \in Seq(Positive)
    OBVIOUS
  <2> QED
    BY <1>3, <2>1
<1>6. phase = "decode" => decoder.sub \in Nat
  <2>1. Len(coder.sizes) \in Nat
    BY <1>5
  <2> SUFFICES ASSUME phase = "decode" PROVE decoder.sub \in Nat
    OBVIOUS
  <2>2. decoder.sub \in 1..(Len(coder.sizes) + 1)
    BY DEF FitInv, Reading
  <2> QED
    BY <2>1, <2>2
<1>7. slice \in DOMAIN layout.map /\ idx \in 1..(Len(List) + 1)
  BY <1>1 DEF Shapes, List
<1> QED
  BY <1>3, <1>4, <1>5, <1>6, <1>7 DEF LoopTyped

\* The variables of the loops have their types, also when the loops are through; the
\* decoder predicts from a QP.
DataInv ==
  /\ phase \in {"none", "encode", "decode", "done"}
  /\ phase # "none" =>
       /\ LoopTyped /\ decoder.sub \in Nat
       /\ coded \in Data!History /\ decoded \in Data!History
  /\ phase = "decode" => decoder.prevQp \in Int

\* Those are the types that SliceData states.
LEMMA DataTyped == DataInv => Data!TypeOK
BY DEF DataInv, LoopTyped, Data!TypeOK, Data!ctus, List, Positive

\* What a CTU adds to the history.
LEMMA HistoryAdd ==
  ASSUME NEW h \in Data!History, NEW c \in Data!Ctus,
         NEW ctx \in Seq(Data!CtxElements), NEW qp \in Int
  PROVE  [h EXCEPT ![c] = [ctx |-> ctx, qp |-> qp]] \in Data!History
<1> DEFINE C == Data!Ctus  S == Seq(Data!CtxElements)
<1>1. Data!History = [C -> [ctx : S, qp : Int]]
  BY DEF Data!History
<1>2. h \in [C -> [ctx : S, qp : Int]] /\ c \in C /\ ctx \in S /\ qp \in Int
  BY <1>1
<1> HIDE DEF C, S
<1>3. [h EXCEPT ![c] = [ctx |-> ctx, qp |-> qp]] \in [C -> [ctx : S, qp : Int]]
  BY <1>2
<1> QED
  BY <1>1, <1>3

\* The history is of the same type while the picture is the same.
LEMMA SameHistory ==
  ASSUME layout' = layout
  PROVE  /\ Data!History' = Data!History /\ List' = layout.map[slice']
         /\ Data!CtxElements' = Data!CtxElements /\ Data!Ctus' = Data!Ctus
<1>1. Data!Ctus' = Data!Ctus
  BY DEF Data!Ctus, Data!pic
<1> QED
  BY <1>1 DEF Data!History, Data!CtxElements, List

\* The encoder remembers contexts and a QP.
LEMMA EncodeRemembers ==
  ASSUME LoopInv, FitInv, UpInv, DataInv, Data!EncodeCtu
  PROVE  /\ phase = "encode" /\ phase' = "encode" /\ UNCHANGED <<layout, decoder, decoded>>
         /\ coded' \in Data!History
<1>1. /\ phase = "encode" /\ Looping
  BY DEF Data!EncodeCtu, Looping
<1>2. MapsChecked /\ MapsInOrder /\ Shapes /\ CodedTyped /\ Known /\ coded \in Data!History
  BY <1>1 DEF LoopInv, FitInv, UpInv, Known, DataInv
<1>3. /\ phase' = phase /\ idx \in 1..Len(List) /\ UNCHANGED <<layout, decoder, decoded>>
      /\ \E ctx : coded' = [coded EXCEPT ![At(idx)] = [ctx |-> ctx, qp |-> Data!QpOf(At(idx))]]
  BY <1>1, <1>2, EncodeFields
<1>4. PICK ctx : coded' = [coded EXCEPT ![At(idx)] = [ctx |-> ctx, qp |-> Data!QpOf(At(idx))]]
  BY <1>3
<1>5. At(idx) \in Data!Ctus /\ DOMAIN coded = Data!Ctus
  BY <1>1, <1>2, <1>3, NextIsNew DEF Shapes
<1>6. coded'[At(idx)].ctx = ctx
  BY <1>4, <1>5
<1>7. ctx \in Seq(Data!CtxElements)
  BY <1>2, <1>6, BeginsFromAbove
<1>8. Data!QpOf(At(idx)) \in Int
  BY <1>1, <1>2, <1>3, NewItemTyped
<1>9. coded' \in Data!History
  BY <1>2, <1>4, <1>5, <1>7, <1>8, HistoryAdd
<1> QED
  BY <1>1, <1>3, <1>9

\* The QP the decoder predicts is a number.
LEMMA DecoderPredicts ==
  ASSUME LoopInv, FitInv, DataInv, Looping, idx \in 1..Len(List), decoder.prevQp \in Int
  PROVE  Data!PredictQp([c \in Data!Ctus |-> decoded[c].qp], Data!DecPrevQp) \in Int
<1>1. MapsChecked /\ MapsInOrder /\ Shapes /\ decoded \in Data!History
  BY DEF LoopInv, FitInv, DataInv, Looping
<1>2. Data!ctu = At(idx) /\ Data!pic = layout.pic
  BY DEF Data!ctu, Data!ctus, Data!pic, At
<1>3. Data!DecPrevQp \in Int
  BY DEF Data!DecPrevQp, Data!SliceQp
<1>4. \A c \in Data!Ctus : decoded[c].qp \in Int
  BY <1>1 DEF Data!History
<1>5. CASE Data!AboveInSliceAndTile
  <2>1. CtuY(layout.pic, At(idx)) > 0
    BY <1>2, <1>5, SameOperators DEF Data!AboveInSliceAndTile
  <2>2. At(idx) - layout.pic.width \in Data!Ctus
    BY <1>1, <2>1, AboveIsInPicture
  <2> QED
    BY <1>2, <1>3, <1>4, <2>2 DEF Data!PredictQp
<1>6. CASE ~Data!AboveInSliceAndTile
  BY <1>3, <1>6 DEF Data!PredictQp
<1> QED
  BY <1>5, <1>6

\* The decoder remembers the contexts of the encoder and a QP.
LEMMA DecodeRemembers ==
  ASSUME LoopInv, FitInv, DataInv, Data!DecodeCtu
  PROVE  /\ phase = "decode" /\ phase' = "decode" /\ UNCHANGED <<layout, coded>>
         /\ decoded' \in Data!History /\ decoder'.prevQp \in Int
<1>1. phase = "decode" /\ Looping
  BY DEF Data!DecodeCtu, Looping
<1>2. /\ MapsChecked /\ MapsInOrder /\ Shapes /\ SameStates /\ CodedTyped /\ Divided(Len(List) + 1) /\ Reading
      /\ coded \in Data!History /\ decoded \in Data!History /\ decoder.prevQp \in Int
  BY <1>1 DEF LoopInv, FitInv, DataInv
<1>3. phase' = "decode" /\ Data!NextItem = Items[idx] /\ idx \in 1..Len(List)
  BY <1>1, <1>2, ReadingStep
<1>4. Data!NextItem.delta \in Int
  <2>1. Items \in Seq(Item) /\ Len(Items) = Len(List)
    BY <1>1, <1>2, StopsMean
  <2> DEFINE L == Len(List)
  <2> HIDE DEF L
  <2>2. Items[idx] \in Item
    BY <1>3, <2>1 DEF L
  <2> QED
    BY <1>3, <2>2 DEF Item
<1> DEFINE qp == Data!PredictQp([c \in Data!Ctus |-> decoded[c].qp], Data!DecPrevQp) + Data!NextItem.delta
           before == Data!UpdateCtxs(Data!DecStart, decoder.bins)
<1>5. qp \in Int
  BY <1>1, <1>2, <1>3, <1>4, DecoderPredicts
<1>6. /\ decoded' = [decoded EXCEPT ![Data!ctu] = [ctx |-> before, qp |-> qp]]
      /\ decoder'.prevQp = qp /\ UNCHANGED <<layout, coded>>
  BY DEF Data!DecodeCtu
<1>7. Data!ctu = At(idx)
  BY DEF Data!ctu, Data!ctus, At
<1>8. At(idx) \in Data!Ctus /\ DOMAIN decoded = Data!Ctus
  BY <1>1, <1>2, <1>3, CtusOfSlice DEF Shapes, List
<1> HIDE DEF qp, before
<1>9. decoded'[At(idx)].ctx = before
  BY <1>6, <1>7, <1>8
<1>10. before = coded[At(idx)].ctx
  <2>1. decoded'[At(idx)].ctx = Before(idx, State(decoder))
    BY <1>2, <1>8, DecodeStep
  <2>2. PICK states : Coded(states, Len(List) + 1) /\ states[idx] = State(decoder)
    BY <1>1, <1>2 DEF SameStates, List
  <2>3. idx \in 1..((Len(List) + 1) - 1)
    <3>1. Len(List) \in Nat
      BY <1>1, <1>2, ListInOrder
    <3> QED
      BY <1>3, <3>1
  <2>4. coded[At(idx)].ctx = Before(idx, states[idx])
    BY <2>2, <2>3 DEF Coded
  <2> QED
    BY <1>9, <2>1, <2>2, <2>4
<1>11. coded[At(idx)].ctx \in Seq(Data!CtxElements)
  BY <1>2, <1>8 DEF Data!History
<1>12. decoded' \in Data!History
  BY <1>2, <1>5, <1>6, <1>7, <1>8, <1>10, <1>11, HistoryAdd
<1> QED
  BY <1>1, <1>3, <1>5, <1>6, <1>12

\* At the start of a picture there is nothing to remember.
LEMMA BeginTyped ==
  ASSUME Begin
  PROVE  /\ phase' = "encode" /\ decoder'.sub = 1
         /\ coded' \in Data!History' /\ decoded' \in Data!History'
<1>1. /\ phase' = "encode" /\ decoder'.sub = 1
      /\ coded' = [c \in Data!Ctus' |-> [ctx |-> << >>, qp |-> Data!None]]
      /\ decoded' = [c \in Data!Ctus' |-> [ctx |-> << >>, qp |-> Data!None]]
  BY DEF Begin, Data!StartPicture, Data!Ctus, Data!pic
<1> DEFINE C == Data!Ctus'  S == Seq(Data!CtxElements')
<1>2. Data!History' = [C -> [ctx : S, qp : Int]]
  BY DEF Data!History
<1>3. << >> \in S /\ Data!None \in Int
  BY DEF Data!None
<1>4. coded' = [c \in C |-> [ctx |-> << >>, qp |-> Data!None]] /\ decoded' = coded'
  BY <1>1
<1> HIDE DEF C, S
<1>5. coded' \in [C -> [ctx : S, qp : Int]]
  BY <1>3, <1>4
<1> QED
  BY <1>1, <1>2, <1>4, <1>5

\* Every step keeps the types.
LEMMA DataStep ==
  ASSUME LoopInv, LoopInv', FitInv, UpInv, DataInv, (Looping' => LoopTyped'),
         [PictureNext]_<<vars, dataVars>>
  PROVE  DataInv'
<1>1. CASE Partition \/ UNCHANGED <<vars, dataVars>>
  <2>1. UNCHANGED <<layout, sps, phase, slice, idx, coder, decoder, coded, decoded>>
    BY <1>1 DEF Partition, dataVars
  <2>2. Data!History' = Data!History /\ List' = List /\ Data!Allocated' = Data!Allocated
    BY <2>1, SameHistory DEF List, Data!Allocated, Data!NumTileCols, Data!NumTileRows, Data!pic
  <2> QED
    BY <2>1, <2>2 DEF DataInv, LoopTyped
<1>2. CASE Begin
  <2>1. /\ phase' = "encode" /\ decoder'.sub = 1
        /\ coded' \in Data!History' /\ decoded' \in Data!History'
    BY <1>2, BeginTyped
  <2>2. Looping'
    BY <2>1 DEF Looping
  <2> QED
    BY <2>1, <2>2 DEF DataInv
<1>3. CASE EncodeCtu
  <2>1. /\ phase = "encode" /\ phase' = "encode" /\ UNCHANGED <<layout, decoder, decoded>>
        /\ coded' \in Data!History
    BY <1>3, EncodeRemembers DEF EncodeCtu
  <2>2. Looping' /\ Data!History' = Data!History
    BY <2>1, SameHistory DEF Looping
  <2> QED
    BY <2>1, <2>2 DEF DataInv
<1>4. CASE WriteSliceData
  <2>1. /\ phase = "encode" /\ phase' = "decode" /\ UNCHANGED <<layout, coded, decoded>>
        /\ \E subs : decoder' = [decoder EXCEPT !.ctx = << >>, !.prevQp = Data!SliceQp, !.sub = 1,
                                                !.subs = subs]
    BY <1>4 DEF WriteSliceData, Data!WriteSlice
  <2>2. Looping /\ Looping' /\ Data!History' = Data!History
    BY <2>1, SameHistory DEF Looping
  <2>3. IsDecoder(decoder)
    BY <2>2 DEF LoopInv, Shapes
  <2>4. decoder'.prevQp = Data!SliceQp /\ decoder'.sub = 1
    <3> DEFINE d == decoder
    <3>1. d = [ctx |-> d.ctx, sync |-> d.sync, bins |-> d.bins, prevQp |-> d.prevQp,
               subs |-> d.subs, sub |-> d.sub]
      BY <2>3 DEF IsDecoder
    <3> QED
      BY <2>1, <3>1
  <2>5. Data!SliceQp \in Int
    BY DEF Data!SliceQp
  <2> QED
    BY <2>1, <2>2, <2>4, <2>5 DEF DataInv
<1>5. CASE DecodeCtu
  <2>1. /\ phase = "decode" /\ phase' = "decode" /\ UNCHANGED <<layout, coded>>
        /\ decoded' \in Data!History /\ decoder'.prevQp \in Int
    BY <1>5, DecodeRemembers DEF DecodeCtu
  <2>2. Looping' /\ Data!History' = Data!History
    BY <2>1, SameHistory DEF Looping
  <2> QED
    BY <2>1, <2>2 DEF DataInv, LoopTyped
<1>6. CASE NextSlice
  <2>1. /\ phase = "decode" /\ UNCHANGED <<layout, sps, decoder, coded, decoded>>
        /\ IF slice < Len(layout.map) THEN phase' = "encode"
           ELSE phase' = "done" /\ UNCHANGED <<slice, idx, coder>>
    BY <1>6 DEF NextSlice, Data!NextSlice
  <2>2. Data!History' = Data!History
    BY <2>1, SameHistory
  <2>3. CASE phase' = "encode"
    <3>1. Looping'
      BY <2>3 DEF Looping
    <3> QED
      BY <2>1, <2>2, <2>3, <3>1 DEF DataInv
  <2>4. CASE phase' = "done" /\ UNCHANGED <<slice, idx, coder>>
    <3>1. List' = List /\ Data!Allocated' = Data!Allocated
      BY <2>1, <2>4 DEF List, Data!Allocated, Data!NumTileCols, Data!NumTileRows, Data!pic
    <3> QED
      BY <2>1, <2>2, <2>4, <3>1 DEF DataInv, LoopTyped
  <2> QED
    BY <2>1, <2>3, <2>4
<1> QED
  BY <1>1, <1>2, <1>3, <1>4, <1>5, <1>6 DEF PictureNext

\* The lists of the maps in use go through their tiles in raster order.
LEMMA AscendInvariant == PictureSpec => []MapsAscend
<1>1. PictureInit => MapsAscend
  BY DEF PictureInit, Init, Data!Init, MapsAscend
<1>2. MapsInOrder /\ MapsUpFirst /\ MapsAscend /\ [PictureNext]_<<vars, dataVars>> => MapsAscend'
  BY MapsStayAscending
<1> QED
  BY <1>1, <1>2, StageInvariant, PTL DEF PictureSpec

\* PictureTypeOK: whatever the configuration, the slice parameters of both ends are as
\* many as the slices, the reader stays within the tiles of the picture, and the
\* encoder needs no more substreams for a slice than it allocates for every slice of
\* the picture, with wavefronts or without.
THEOREM TypesHold == PictureSpec => []PictureTypeOK
<1>1. PictureInit => DataInv
  BY DEF PictureInit, Data!Init, DataInv
<1>2. LoopInv /\ FitInv /\ MapsAscend => (Looping => LoopTyped)
  BY LoopsTyped
<1>3. LoopInv /\ LoopInv' /\ FitInv /\ UpInv /\ DataInv /\ (Looping' => LoopTyped')
      /\ [PictureNext]_<<vars, dataVars>> => DataInv'
  BY DataStep
<1>4. MapsInOrder /\ StageInv /\ DataInv => PictureTypeOK
  BY StageTyped, DataTyped DEF PictureTypeOK
<1> QED
  BY <1>1, <1>2, <1>3, <1>4, LoopInvariant, FitInvariant, UpInvariant, AscendInvariant,
     StageInvariant, PTL DEF PictureSpec
=============================================================================
