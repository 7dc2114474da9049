----------------------- MODULE PicturePartitionProofs -----------------------
(***************************************************************************)
(* What the functions of PicturePartition return, for every picture: the   *)
(* tiles cover it, a slice is a list of CTUs that goes through the rows of *)
(* a tile and from tile to tile, the rules by which encoder, decoder and   *)
(* slice header find the ends of substreams agree on such lists, and a CTU *)
(* comes after the one above it.                                           *)
(***************************************************************************)
EXTENDS PicturePartition, FiniteOrders, SequenceTheorems

-----------------------------------------------------------------------------
(* Boundaries.                                                              *)

\* Every part starts where the one before it ends.
LEMMA BoundariesMeans ==
  ASSUME NEW sizes \in Seq(Int)
  PROVE  /\ Boundaries(sizes) \in [1..(Len(sizes) + 1) -> Int]
         /\ Boundaries(sizes)[1] = 0
         /\ \A i \in 1..Len(sizes) :
              Boundaries(sizes)[i + 1] = Boundaries(sizes)[i] + sizes[i]
<1> DEFINE L == Len(sizes)
           Rec(g) == g = [i \in 0..L |-> IF i = 0 THEN 0 ELSE g[i - 1] + sizes[i]]
           bd == CHOOSE g : Rec(g)
<1>1. Boundaries(sizes) = [i \in 1..(L + 1) |-> bd[i - 1]]
  BY DEF Boundaries
<1>2. L \in Nat /\ \A i \in 1..L : sizes[i] \in Int
  OBVIOUS
<1> HIDE DEF L
<1>3. \E g : Rec(g)
  <2> DEFINE S == {n \in Nat : n <= L =>
                     \E g \in [0..n -> Int] : g[0] = 0 /\ \A i \in 1..n : g[i] = g[i - 1] + sizes[i]}
  <2>1. 0 \in S
    <3> DEFINE h == [i \in 0..0 |-> 0]
    <3>1. h \in [0..0 -> Int] /\ h[0] = 0 /\ \A i \in 1..0 : h[i] = h[i - 1] + sizes[i]
      OBVIOUS
    <3> HIDE DEF h
    <3> QED
      BY <3>1
  <2>2. ASSUME NEW n \in S PROVE n + 1 \in S
    <3>1. SUFFICES ASSUME n + 1 <= L
                   PROVE  \E g \in [0..(n + 1) -> Int] :
                            g[0] = 0 /\ \A i \in 1..(n + 1) : g[i] = g[i - 1] + sizes[i]
      OBVIOUS
    <3> HIDE DEF bd, Rec
    <3>a. n \in Nat /\ n <= L
      BY <1>2, <3>1
    <3>b. \E g \in [0..n -> Int] : g[0] = 0 /\ \A i \in 1..n : g[i] = g[i - 1] + sizes[i]
      BY <3>a
    <3>2. PICK g \in [0..n -> Int] : g[0] = 0 /\ \A i \in 1..n : g[i] = g[i - 1] + sizes[i]
      BY <3>b
    <3> DEFINE h == [i \in 0..(n + 1) |-> IF i = n + 1 THEN g[n] + sizes[n + 1] ELSE g[i]]
    <3>3. h \in [0..(n + 1) -> Int]
      BY <1>2, <3>1, <3>2
    <3>4. h[0] = 0 /\ \A i \in 1..(n + 1) : h[i] = h[i - 1] + sizes[i]
      BY <3>2
    <3> QED
      BY <3>3, <3>4
  <2> HIDE DEF S
  <2>3. L \in S
    BY <1>2, <2>1, <2>2, Induction DEF S
  <2>4. L <= L
    BY <1>2
  <2>5. PICK g \in [0..L -> Int] : g[0] = 0 /\ \A i \in 1..L : g[i] = g[i - 1] + sizes[i]
    BY <2>3, <2>4 DEF S
  <2>6. g = [i \in 0..L |-> IF i = 0 THEN 0 ELSE g[i - 1] + sizes[i]]
    BY <1>2, <2>5
  <2> QED
    BY <2>6
<1>4. Rec(bd)
  BY <1>3
<1> HIDE DEF bd
<1>5. bd[0] = 0 /\ \A i \in 1..L : bd[i] = bd[i - 1] + sizes[i]
  BY <1>2, <1>4
<1>6. \A n \in 0..L : bd[n] \in Int
  <2> DEFINE S == {n \in Nat : n <= L => bd[n] \in Int}
  <2>1. 0 \in S
    BY <1>5
  <2>2. ASSUME NEW n \in S PROVE n + 1 \in S
    BY <1>2, <1>5
  <2> HIDE DEF S
  <2>3. \A n \in Nat : n \in S
    BY <2>1, <2>2, Induction DEF S
  <2> QED
    BY <1>2, <2>3 DEF S
<1> QED
  BY <1>1, <1>2, <1>5, <1>6 DEF L

Positive == Nat \ {0}

\* Boundaries of positive sizes increase, from 0 on.
LEMMA BoundariesIncrease ==
  ASSUME NEW sizes \in Seq(Positive)
  PROVE  /\ Boundaries(sizes) \in [1..(Len(sizes) + 1) -> Nat]
         /\ Boundaries(sizes)[1] = 0
         /\ \A i \in 1..Len(sizes) :
              Boundaries(sizes)[i + 1] = Boundaries(sizes)[i] + sizes[i]
         /\ \A i, j \in 1..(Len(sizes) + 1) : i < j => Boundaries(sizes)[i] < Boundaries(sizes)[j]
<1> DEFINE L == Len(sizes)
           bd == Boundaries(sizes)
<1>1. L \in Nat /\ \A i \in 1..L : sizes[i] \in Nat /\ sizes[i] >= 1
  BY DEF Positive
<1>2. sizes \in Seq(Int)
  BY DEF Positive
<1>3. /\ bd \in [1..(L + 1) -> Int] /\ bd[1] = 0
      /\ \A i \in 1..L : bd[i + 1] = bd[i] + sizes[i]
  BY <1>2, BoundariesMeans
<1> HIDE DEF L, bd
<1>4. \A i, j \in 1..(L + 1) : i < j => bd[i] < bd[j]
  <2> DEFINE S == {n \in Nat : \A i, j \in 1..(L + 1) : i < j /\ j <= n => bd[i] < bd[j]}
  <2>1. 0 \in S
    OBVIOUS
  <2>2. ASSUME NEW n \in S PROVE n + 1 \in S
    <3>1. SUFFICES ASSUME NEW i \in 1..(L + 1), NEW j \in 1..(L + 1), i < j, j = n + 1
                   PROVE  bd[i] < bd[j]
      OBVIOUS
    <3>2. n \in 1..L /\ bd[n + 1] = bd[n] + sizes[n] /\ bd[n] \in Int /\ sizes[n] >= 1
      BY <1>1, <1>3, <3>1
    <3>3. CASE i = n
      BY <1>1, <3>1, <3>2, <3>3
    <3>4. CASE i < n
      <4>1. bd[i] < bd[n]
        BY <1>1, <3>1, <3>2, <3>4
      <4> QED
        BY <1>1, <1>3, <3>1, <3>2, <4>1
    <3> QED
      BY <3>1, <3>3, <3>4
  <2> HIDE DEF S
  <2>3. \A n \in Nat : n \in S
    BY <2>1, <2>2, Induction DEF S
  <2>4. L + 1 \in S
    BY <1>1, <2>3
  <2> QED
    BY <2>4 DEF S
<1>5. \A i \in 1..(L + 1) : bd[i] >= 0
  <2> SUFFICES ASSUME NEW i \in 1..(L + 1) PROVE bd[i] >= 0
    OBVIOUS
  <2>1. i = 1 \/ bd[1] < bd[i]
    BY <1>1, <1>4
  <2> QED
    BY <1>1, <1>3, <2>1
<1>6. bd \in [1..(L + 1) -> Nat]
  BY <1>3, <1>5
<1> QED
  BY <1>3, <1>4, <1>6 DEF L, bd

\* What lies before the last boundary lies in one of the parts.
LEMMA InOnePart ==
  ASSUME NEW sizes \in Seq(Positive), NEW x \in Nat,
         x < Boundaries(sizes)[Len(sizes) + 1]
  PROVE  \E i \in 0..(Len(sizes) - 1) :
           /\ Boundaries(sizes)[i + 1] <= x /\ x < Boundaries(sizes)[i + 2]
           /\ \A j \in 0..(Len(sizes) - 1) :
                Boundaries(sizes)[j + 1] <= x /\ x < Boundaries(sizes)[j + 2] => j = i
<1> DEFINE L == Len(sizes)
           bd == Boundaries(sizes)
<1>1. /\ bd \in [1..(L + 1) -> Nat] /\ bd[1] = 0 /\ L \in Nat
      /\ \A i, j \in 1..(L + 1) : i < j => bd[i] < bd[j]
  BY BoundariesIncrease
<1>2. x < bd[L + 1]
  OBVIOUS
<1> HIDE DEF L, bd
<1> DEFINE S == {n \in 1..(L + 1) : x < bd[n]}
<1>3. S \in SUBSET Nat /\ L + 1 \in S
  BY <1>1, <1>2
<1>4. PICK m \in S : \A n \in S : m <= n
  BY <1>3, LeastNatural
<1>5. m \in 2..(L + 1) /\ x < bd[m] /\ bd[m - 1] <= x
  BY <1>1, <1>4
<1>6. \A j \in 0..(L - 1) : bd[j + 1] <= x /\ x < bd[j + 2] => j = m - 2
  <2> SUFFICES ASSUME NEW j \in 0..(L - 1), bd[j + 1] <= x, x < bd[j + 2], j # m - 2
               PROVE  FALSE
    OBVIOUS
  <2>1. j + 2 \in S
    BY <1>1
  <2>2. m < j + 2
    BY <1>1, <1>4, <1>5, <2>1
  <2>3. m <= j + 1 /\ m \in 1..(L + 1) /\ j + 1 \in 1..(L + 1)
    BY <1>1, <1>5, <2>2
  <2>4. bd[m] \in Nat /\ bd[j + 1] \in Nat /\ (m = j + 1 \/ bd[m] < bd[j + 1])
    BY <1>1, <2>3
  <2>5. bd[m] <= bd[j + 1]
    BY <2>4
  <2> QED
    BY <1>5, <2>4, <2>5
<1>7. /\ m - 2 \in 0..(L - 1) /\ (m - 2) + 1 = m - 1 /\ (m - 2) + 2 = m
  BY <1>1, <1>5
<1> QED
  BY <1>5, <1>6, <1>7 DEF L, bd

\* Boundaries depend on the sizes before them.
LEMMA BoundariesPrefix ==
  ASSUME NEW s \in Seq(Int), NEW t \in Seq(Int), NEW n \in Nat, n <= Len(s), n <= Len(t),
         \A i \in 1..n : s[i] = t[i]
  PROVE  \A i \in 1..(n + 1) : Boundaries(s)[i] = Boundaries(t)[i]
<1> DEFINE S == {k \in Nat : k <= n => Boundaries(s)[k + 1] = Boundaries(t)[k + 1]}
<1>1. 0 \in S
  BY BoundariesMeans
<1>2. ASSUME NEW k \in S PROVE k + 1 \in S
  <2>1. SUFFICES ASSUME k + 1 <= n
                 PROVE  Boundaries(s)[k + 2] = Boundaries(t)[k + 2]
    OBVIOUS
  <2>2. k + 1 \in 1..n /\ k + 1 \in 1..Len(s) /\ k + 1 \in 1..Len(t) /\ (k + 1) + 1 = k + 2
    BY <2>1
  <2>3. /\ Boundaries(s)[k + 2] = Boundaries(s)[k + 1] + s[k + 1]
        /\ Boundaries(t)[k + 2] = Boundaries(t)[k + 1] + t[k + 1]
    BY <2>2, BoundariesMeans
  <2> QED
    BY <2>1, <2>2, <2>3
<1> HIDE DEF S
<1>3. \A k \in Nat : k \in S
  BY <1>1, <1>2, Induction DEF S
<1> QED
  <2> TAKE i \in 1..(n + 1)
  <2>1. i - 1 \in S /\ i - 1 <= n /\ (i - 1) + 1 = i
    BY <1>3
  <2> QED
    BY <2>1 DEF S

\* Boundaries of sizes that may be 0 do not decrease.
LEMMA BoundariesGrow ==
  ASSUME NEW sizes \in Seq(Nat)
  PROVE  /\ Boundaries(sizes) \in [1..(Len(sizes) + 1) -> Nat]
         /\ \A i, j \in 1..(Len(sizes) + 1) : i <= j => Boundaries(sizes)[i] <= Boundaries(sizes)[j]
<1> DEFINE L == Len(sizes)
           bd == Boundaries(sizes)
<1>1. L \in Nat /\ \A i \in 1..L : sizes[i] \in Nat
  OBVIOUS
<1>2. sizes \in Seq(Int)
  OBVIOUS
<1>3. /\ bd \in [1..(L + 1) -> Int] /\ bd[1] = 0
      /\ \A i \in 1..L : bd[i + 1] = bd[i] + sizes[i]
  BY <1>2, BoundariesMeans
<1> HIDE DEF L, bd
<1>4. \A i, j \in 1..(L + 1) : i <= j => bd[i] <= bd[j]
  <2> DEFINE S == {n \in Nat : \A i, j \in 1..(L + 1) : i <= j /\ j <= n => bd[i] <= bd[j]}
  <2>1. 0 \in S
    OBVIOUS
  <2>2. ASSUME NEW n \in S PROVE n + 1 \in S
    <3>1. SUFFICES ASSUME NEW i \in 1..(L + 1), NEW j \in 1..(L + 1), i <= j, j = n + 1
                   PROVE  bd[i] <= bd[j]
      OBVIOUS
    <3>2. CASE i = j
      BY <1>3, <3>2
    <3>3. CASE i < j
      <4>a. n \in 1..L /\ n \in 1..(L + 1) /\ i <= n /\ n <= n
        BY <1>1, <3>1, <3>3
      <4>1. bd[n + 1] = bd[n] + sizes[n] /\ bd[n] \in Int /\ sizes[n] \in Nat
        BY <1>1, <1>3, <4>a
      <4>2. bd[i] <= bd[n]
        BY <3>1, <4>a
      <4>3. bd[i] \in Int
        BY <1>3, <3>1
      <4> HIDE DEF S
      <4> QED
        BY <3>1, <4>1, <4>2, <4>3
    <3> QED
      BY <3>1, <3>2, <3>3
  <2> HIDE DEF S
  <2>3. \A n \in Nat : n \in S
    BY <2>1, <2>2, Induction DEF S
  <2>4. L + 1 \in S
    BY <1>1, <2>3
  <2> QED
    BY <2>4 DEF S
<1>5. \A i \in 1..(L + 1) : bd[i] >= 0
  BY <1>1, <1>3, <1>4
<1>6. bd \in [1..(L + 1) -> Nat]
  BY <1>3, <1>5
<1> QED
  BY <1>4, <1>6 DEF L, bd

-----------------------------------------------------------------------------
(* Tiles.                                                                   *)

\* How many parts of size u fit into a.
LEMMA HowManyFit ==
  ASSUME NEW a \in Nat, NEW u \in Nat, u >= 1
  PROVE  /\ a \div u \in Nat /\ (a \div u) * u <= a /\ a < (a \div u) * u + u
         /\ (a \div u) * u \in Nat /\ (a \div u - 1) * u = (a \div u) * u - u
<1> DEFINE c == a \div u  m == a % u
<1>1. c \in Int /\ m \in 0..(u - 1)
  OBVIOUS
<1>2. a = u * c + m
  OBVIOUS
<1> HIDE DEF c, m
<1>3. c >= 0
  <2>1. SUFFICES ASSUME c <= -1 PROVE FALSE
    BY <1>1
  <2>2. u * c <= -u
    BY <1>1, <2>1
  <2> QED
    BY <1>1, <1>2, <2>2
<1>4. u * c \in Nat /\ c * u = u * c
  BY <1>1, <1>3
<1>5. (c - 1) * u = c * u - u
  BY <1>1
<1> QED
  BY <1>1, <1>2, <1>4, <1>5, <1>3 DEF c

\* Explicit sizes that fit are kept; those added repeat the last of them, and the
\* last one ends with the picture.
LEMMA InitTilesMeans ==
  ASSUME NEW explicit \in Seq(Positive), explicit # << >>, NEW size \in Positive,
         Boundaries(explicit)[Len(explicit) + 1] <= size
  PROVE  LET tiles == InitTiles(explicit, size)
             n == Len(explicit)
         IN /\ tiles \in Seq(Positive) /\ Len(tiles) >= n
            /\ Boundaries(tiles)[Len(tiles) + 1] = size
            /\ \A i \in 1..n : tiles[i] = explicit[i]
            /\ \A i \in (n + 1)..Len(tiles) :
                 /\ tiles[i] <= explicit[n]
                 /\ i < Len(tiles) => tiles[i] = explicit[n]
<1> DEFINE n == Len(explicit)
           B == Boundaries(explicit)[n + 1]
           rest == size - B
           u == explicit[n]
           count == (rest + u - 1) \div u
           added == [i \in 1..count |-> Minimum(u, rest - ((i - 1) * u))]
           tiles == InitTiles(explicit, size)
<1>1. tiles = explicit \o added
  BY DEF InitTiles
<1>2. n \in Nat /\ n >= 1 /\ \A i \in 1..n : explicit[i] \in Nat /\ explicit[i] >= 1
  BY DEF Positive
<1>3. B \in Nat /\ rest \in Nat /\ u \in Nat /\ u >= 1
  BY <1>2, BoundariesIncrease DEF Positive
<1>4. count \in Nat /\ count * u >= rest /\ (count >= 1 => (count - 1) * u < rest)
  <2> DEFINE a == rest + u - 1  c == a \div u
  <2>1. a \in Nat /\ rest = a - u + 1
    BY <1>3
  <2> HIDE DEF a, u, rest
  <2>2. c \in Nat /\ c * u <= a /\ a < c * u + u /\ c * u \in Nat /\ (c - 1) * u = c * u - u
    BY <1>3, <2>1, HowManyFit
  <2> HIDE DEF c
  <2>4. c \in Nat /\ c * u >= rest /\ (c - 1) * u < rest
    BY <1>3, <2>1, <2>2
  <2> QED
    BY <2>4 DEF c, a
<1> DEFINE c == count  r == rest
<1>5. \A i \in 1..c : /\ added[i] \in Positive /\ added[i] <= u
                      /\ i < c => added[i] = u
                      /\ added[i] = Minimum(u, r - ((i - 1) * u))
  <2> TAKE i \in 1..c
  <2>1. (i - 1) * u < r /\ (i < c => i * u < r) /\ (i - 1) * u \in Nat /\ i * u = (i - 1) * u + u
    <3>1. c \in Nat /\ r \in Nat /\ u \in Nat /\ u >= 1 /\ c >= i /\ i >= 1 /\ (c - 1) * u < r
      BY <1>3, <1>4
    <3> HIDE DEF c, r, u
    <3>2. (i - 1) * u <= (c - 1) * u
      BY <3>1
    <3>3. i < c => i * u <= (c - 1) * u
      BY <3>1
    <3>4. (i - 1) * u \in Nat /\ i * u = (i - 1) * u + u /\ (c - 1) * u \in Nat /\ i * u \in Nat
      BY <3>1
    <3> QED
      BY <3>1, <3>2, <3>3, <3>4
  <2>2. added[i] = Minimum(u, r - ((i - 1) * u))
    OBVIOUS
  <2>3. r \in Nat /\ u \in Nat /\ u >= 1
    BY <1>3
  <2> DEFINE m == (i - 1) * u
  <2>4. added[i] = IF u < r - m THEN u ELSE r - m
    BY <2>2 DEF Minimum
  <2>5. m \in Nat /\ m < r /\ (i < c => m + u < r)
    BY <2>1, <2>3
  <2> HIDE DEF added, c, r, u, m
  <2>6. added[i] \in Positive /\ added[i] <= u /\ (i < c => added[i] = u)
    BY <2>3, <2>4, <2>5 DEF Positive
  <2> QED
    BY <2>2, <2>6
<1>6. added \in Seq(Positive) /\ Len(added) = c
  <2>1. DOMAIN added = 1..c /\ added = [i \in 1..c |-> added[i]]
    OBVIOUS
  <2> HIDE DEF added, c
  <2>2. added \in [1..c -> Positive] /\ c \in Nat
    BY <1>4, <1>5, <2>1 DEF c
  <2> QED
    BY <2>1, <2>2
<1> HIDE DEF added, c, r, tiles
<1>7. /\ tiles \in Seq(Positive) /\ Len(tiles) = n + c
      /\ \A i \in 1..n : tiles[i] = explicit[i]
      /\ \A i \in 1..c : tiles[n + i] = added[i]
  <2>1. n = Len(explicit) /\ explicit \in Seq(Positive)
    OBVIOUS
  <2> HIDE DEF n
  <2>2. /\ tiles \in Seq(Positive) /\ Len(tiles) = n + c
        /\ \A i \in 1..(n + c) : tiles[i] = IF i <= n THEN explicit[i] ELSE added[i - n]
    BY <1>1, <1>6, <2>1, ConcatProperties
  <2>3. c \in Nat
    BY <1>6, LenProperties
  <2>4. ASSUME NEW i \in 1..n PROVE tiles[i] = explicit[i]
    BY <1>2, <2>2, <2>3
  <2>5. ASSUME NEW i \in 1..c PROVE tiles[n + i] = added[i]
    <3>1. n + i \in 1..(n + c) /\ ~(n + i <= n) /\ (n + i) - n = i
      BY <1>2, <2>3
    <3> QED
      BY <2>2, <3>1
  <2> QED
    BY <2>2, <2>4, <2>5
<1>8. Boundaries(tiles)[n + 1] = B
  <2>1. tiles \in Seq(Int) /\ explicit \in Seq(Int) /\ n <= Len(tiles) /\ c \in Nat
    BY <1>2, <1>4, <1>7 DEF Positive, c
  <2>2. n <= Len(explicit)
    BY <1>2
  <2> QED
    <3> HIDE DEF n
    <3>1. \A i \in 1..(n + 1) : Boundaries(explicit)[i] = Boundaries(tiles)[i]
      BY <1>2, <1>7, <2>1, <2>2, BoundariesPrefix
    <3> QED
      BY <1>2, <3>1
<1> DEFINE S == {k \in Nat : k <= c => Boundaries(tiles)[n + 1 + k] = B + Minimum(k * u, r)}
<1> HIDE DEF n, u, B
<1>9. r \in Nat /\ c \in Nat /\ r = size - B /\ size \in Nat
  BY <1>3, <1>4 DEF c, r, Positive
<1>10. 0 \in S
  BY <1>2, <1>3, <1>8, <1>9 DEF Minimum
<1>11. ASSUME NEW k \in S PROVE k + 1 \in S
  <2>1. SUFFICES ASSUME k + 1 <= c
                 PROVE  Boundaries(tiles)[n + 1 + (k + 1)] = B + Minimum((k + 1) * u, r)
    OBVIOUS
  <2>2. k + 1 \in 1..c /\ n + 1 + k \in 1..Len(tiles) /\ (n + 1 + k) + 1 = n + 1 + (k + 1)
        /\ n + 1 + k = n + (k + 1)
    BY <1>2, <1>7, <1>9, <2>1
  <2>3. tiles \in Seq(Int)
    BY <1>7 DEF Positive
  <2>4. Boundaries(tiles)[n + 1 + (k + 1)] = Boundaries(tiles)[n + 1 + k] + tiles[n + (k + 1)]
    BY <2>2, <2>3, BoundariesMeans
  <2>5. tiles[n + (k + 1)] = Minimum(u, r - (k * u))
    BY <1>5, <1>7, <2>2
  <2>6. Boundaries(tiles)[n + 1 + k] = B + Minimum(k * u, r)
    BY <2>1, <1>9
  <2>7. k * u \in Nat /\ (k + 1) * u = k * u + u /\ k * u < r
    <3>1. k <= c - 1 /\ (c - 1) * u < r
      BY <1>4, <1>9, <2>1 DEF c, r
    <3>2. k * u <= (c - 1) * u
      BY <1>3, <1>9, <3>1
    <3> QED
      BY <1>3, <1>9, <3>1, <3>2
  <2> QED
    BY <1>3, <1>9, <2>4, <2>5, <2>6, <2>7 DEF Minimum
<1>12. c \in S
  <2> HIDE DEF S
  <2> QED
    BY <1>9, <1>10, <1>11, Induction DEF S
<1>13. Boundaries(tiles)[Len(tiles) + 1] = size
  <2>1. Boundaries(tiles)[n + 1 + c] = B + Minimum(c * u, r) /\ n + 1 + c = Len(tiles) + 1
    BY <1>2, <1>7, <1>9, <1>12
  <2>2. c * u >= r /\ c * u \in Nat
    BY <1>3, <1>4, <1>9 DEF c, r
  <2>3. Minimum(c * u, r) = r
    BY <1>9, <2>2 DEF Minimum
  <2> QED
    BY <1>3, <1>9, <2>1, <2>3
<1>14. \A i \in (n + 1)..Len(tiles) : /\ tiles[i] <= u
                                      /\ i < Len(tiles) => tiles[i] = u
  <2> TAKE i \in (n + 1)..Len(tiles)
  <2>1. i - n \in 1..c /\ n + (i - n) = i /\ (i < Len(tiles) => i - n < c)
    BY <1>2, <1>7, <1>9
  <2> QED
    BY <1>5, <1>7, <2>1
<1> QED
  BY <1>2, <1>7, <1>9, <1>13, <1>14 DEF tiles, n, u

\* The tile columns, and the rows, divide the picture.
IsTiled(pic) ==
  /\ pic.width \in Positive /\ pic.height \in Positive
  /\ pic.cols \in Seq(Positive) /\ Boundaries(pic.cols)[Len(pic.cols) + 1] = pic.width
  /\ pic.rows \in Seq(Positive) /\ Boundaries(pic.rows)[Len(pic.rows) + 1] = pic.height

\* Parts of these sizes divide what there is of this size.
LEMMA PartsMean ==
  ASSUME NEW sizes \in Seq(Positive), NEW size \in Positive,
         Boundaries(sizes)[Len(sizes) + 1] = size
  PROVE  /\ Len(sizes) \in Positive
         /\ \A i \in 0..Len(sizes) : Boundaries(sizes)[i + 1] \in 0..size
         /\ Boundaries(sizes)[0 + 1] = 0
         /\ \A i, j \in 0..Len(sizes) : i < j => Boundaries(sizes)[i + 1] < Boundaries(sizes)[j + 1]
         /\ \A i \in 0..(Len(sizes) - 1) :
              Boundaries(sizes)[(i + 1) + 1] = Boundaries(sizes)[i + 1] + sizes[i + 1]
<1> DEFINE L == Len(sizes)
           bd == Boundaries(sizes)
<1>1. /\ bd \in [1..(L + 1) -> Nat] /\ bd[1] = 0
      /\ \A i \in 1..L : bd[i + 1] = bd[i] + sizes[i]
      /\ \A i, j \in 1..(L + 1) : i < j => bd[i] < bd[j]
      /\ L \in Nat /\ bd[L + 1] = size /\ size \in Nat /\ size >= 1
  BY BoundariesIncrease DEF Positive
<1> HIDE DEF L, bd
<1>2. L \in Positive
  BY <1>1 DEF Positive
<1>3. \A i \in 0..L : bd[i + 1] \in 0..size
  <2> TAKE i \in 0..L
  <2>1. i + 1 \in 1..(L + 1) /\ L + 1 \in 1..(L + 1) /\ (i + 1 = L + 1 \/ i + 1 < L + 1)
    BY <1>1
  <2> QED
    BY <1>1, <2>1
<1>4. \A i, j \in 0..L : i < j => bd[i + 1] < bd[j + 1]
  BY <1>1
<1>5. \A i \in 0..(L - 1) : bd[(i + 1) + 1] = bd[i + 1] + sizes[i + 1]
  BY <1>1
<1> QED
  BY <1>1, <1>2, <1>3, <1>4, <1>5 DEF L, bd

\* Where the tile columns are, and in which of them a CTU column is.
LEMMA TileColumns ==
  ASSUME NEW pic, IsTiled(pic)
  PROVE  /\ NumTileCols(pic) \in Nat /\ NumTileCols(pic) >= 1
         /\ pic.width \in Nat /\ pic.width >= 1
         /\ \A i \in 0..NumTileCols(pic) : TileColumnBd(pic, i) \in 0..pic.width
         /\ \A i, j \in 0..NumTileCols(pic) : i < j => TileColumnBd(pic, i) < TileColumnBd(pic, j)
         /\ \A x \in 0..(pic.width - 1) :
              /\ CtuToTileCol(pic, x) \in 0..(NumTileCols(pic) - 1)
              /\ TileColumnBd(pic, CtuToTileCol(pic, x)) <= x
              /\ x < TileColumnBd(pic, CtuToTileCol(pic, x) + 1)
         /\ \A i \in 0..(NumTileCols(pic) - 1), x \in Nat :
              TileColumnBd(pic, i) <= x /\ x < TileColumnBd(pic, i + 1) => CtuToTileCol(pic, x) = i
<1> DEFINE N == NumTileCols(pic)
           In(i, x) == TileColumnBd(pic, i) <= x /\ x < TileColumnBd(pic, i + 1)
<1>1. /\ N \in Positive /\ pic.width \in Positive /\ N = Len(pic.cols)
      /\ \A i \in 0..N : TileColumnBd(pic, i) \in 0..pic.width
      /\ \A i, j \in 0..N : i < j => TileColumnBd(pic, i) < TileColumnBd(pic, j)
  BY PartsMean DEF IsTiled, NumTileCols, TileColumnBd
<1>2. ASSUME NEW x \in 0..(pic.width - 1)
      PROVE  \E i \in 0..(N - 1) : In(i, x) /\ \A j \in 0..(N - 1) : In(j, x) => j = i
  <2>1. x \in Nat /\ x < pic.width
    BY <1>1 DEF Positive
  <2>2. \A i \in 0..(N - 1) : /\ TileColumnBd(pic, i) = Boundaries(pic.cols)[i + 1]
                              /\ TileColumnBd(pic, i + 1) = Boundaries(pic.cols)[i + 2]
    BY <1>1 DEF TileColumnBd, Positive
  <2>3. \E i \in 0..(N - 1) :
          /\ Boundaries(pic.cols)[i + 1] <= x /\ x < Boundaries(pic.cols)[i + 2]
          /\ \A j \in 0..(N - 1) :
               Boundaries(pic.cols)[j + 1] <= x /\ x < Boundaries(pic.cols)[j + 2] => j = i
    BY <1>1, <2>1, InOnePart DEF IsTiled
  <2> QED
    BY <2>2, <2>3
<1>3. ASSUME NEW x \in 0..(pic.width - 1)
      PROVE  CtuToTileCol(pic, x) \in 0..(N - 1) /\ In(CtuToTileCol(pic, x), x)
  <2>1. CtuToTileCol(pic, x) = CHOOSE i \in 0..(N - 1) : In(i, x)
    BY DEF CtuToTileCol
  <2> HIDE DEF In, N
  <2> QED
    BY <1>2, <2>1
<1>4. ASSUME NEW i \in 0..(N - 1), NEW x \in Nat, In(i, x)
      PROVE  CtuToTileCol(pic, x) = i
  <2>1. TileColumnBd(pic, i + 1) \in 0..pic.width
    BY <1>1 DEF Positive
  <2>2. x \in 0..(pic.width - 1)
    BY <1>1, <1>4, <2>1 DEF Positive
  <2> QED
    BY <1>2, <1>3, <1>4, <2>2
<1> QED
  BY <1>1, <1>3, <1>4 DEF Positive

\* The same of tile rows.
LEMMA TileRows ==
  ASSUME NEW pic, IsTiled(pic)
  PROVE  /\ NumTileRows(pic) \in Nat /\ NumTileRows(pic) >= 1
         /\ pic.height \in Nat /\ pic.height >= 1
         /\ \A i \in 0..NumTileRows(pic) : TileRowBd(pic, i) \in 0..pic.height
         /\ \A i, j \in 0..NumTileRows(pic) : i < j => TileRowBd(pic, i) < TileRowBd(pic, j)
         /\ \A y \in 0..(pic.height - 1) :
              /\ CtuToTileRow(pic, y) \in 0..(NumTileRows(pic) - 1)
              /\ TileRowBd(pic, CtuToTileRow(pic, y)) <= y
              /\ y < TileRowBd(pic, CtuToTileRow(pic, y) + 1)
         /\ \A i \in 0..(NumTileRows(pic) - 1), y \in Nat :
              TileRowBd(pic, i) <= y /\ y < TileRowBd(pic, i + 1) => CtuToTileRow(pic, y) = i
<1> DEFINE N == NumTileRows(pic)
           In(i, y) == TileRowBd(pic, i) <= y /\ y < TileRowBd(pic, i + 1)
<1>1. /\ N \in Positive /\ pic.height \in Positive /\ N = Len(pic.rows)
      /\ \A i \in 0..N : TileRowBd(pic, i) \in 0..pic.height
      /\ \A i, j \in 0..N : i < j => TileRowBd(pic, i) < TileRowBd(pic, j)
  BY PartsMean DEF IsTiled, NumTileRows, TileRowBd
<1>2. ASSUME NEW y \in 0..(pic.height - 1)
      PROVE  \E i \in 0..(N - 1) : In(i, y) /\ \A j \in 0..(N - 1) : In(j, y) => j = i
  <2>1. y \in Nat /\ y < pic.height
    BY <1>1 DEF Positive
  <2>2. \A i \in 0..(N - 1) : /\ TileRowBd(pic, i) = Boundaries(pic.rows)[i + 1]
                              /\ TileRowBd(pic, i + 1) = Boundaries(pic.rows)[i + 2]
    BY <1>1 DEF TileRowBd, Positive
  <2>3. \E i \in 0..(N - 1) :
          /\ Boundaries(pic.rows)[i + 1] <= y /\ y < Boundaries(pic.rows)[i + 2]
          /\ \A j \in 0..(N - 1) :
               Boundaries(pic.rows)[j + 1] <= y /\ y < Boundaries(pic.rows)[j + 2] => j = i
    BY <1>1, <2>1, InOnePart DEF IsTiled
  <2> QED
    BY <2>2, <2>3
<1>3. ASSUME NEW y \in 0..(pic.height - 1)
      PROVE  CtuToTileRow(pic, y) \in 0..(N - 1) /\ In(CtuToTileRow(pic, y), y)
  <2>1. CtuToTileRow(pic, y) = CHOOSE i \in 0..(N - 1) : In(i, y)
    BY DEF CtuToTileRow
  <2> HIDE DEF In, N
  <2> QED
    BY <1>2, <2>1
<1>4. ASSUME NEW i \in 0..(N - 1), NEW y \in Nat, In(i, y)
      PROVE  CtuToTileRow(pic, y) = i
  <2>1. TileRowBd(pic, i + 1) \in 0..pic.height
    BY <1>1 DEF Positive
  <2>2. y \in 0..(pic.height - 1)
    BY <1>1, <1>4, <2>1 DEF Positive
  <2> QED
    BY <1>2, <1>3, <1>4, <2>2
<1> QED
  BY <1>1, <1>3, <1>4 DEF Positive

\* Columns of tiles, and rows, go from left to right and from top to bottom.
LEMMA TilesMonotone ==
  ASSUME NEW pic, IsTiled(pic)
  PROVE  /\ \A x, x2 \in 0..(pic.width - 1) : x <= x2 => CtuToTileCol(pic, x) <= CtuToTileCol(pic, x2)
         /\ \A y, y2 \in 0..(pic.height - 1) : y <= y2 => CtuToTileRow(pic, y) <= CtuToTileRow(pic, y2)
<1>1. ASSUME NEW x \in 0..(pic.width - 1), NEW x2 \in 0..(pic.width - 1), x <= x2
      PROVE  CtuToTileCol(pic, x) <= CtuToTileCol(pic, x2)
  <2> DEFINE i == CtuToTileCol(pic, x)  j == CtuToTileCol(pic, x2)  n == NumTileCols(pic)
             w == pic.width
  <2>1. /\ n \in Nat /\ w \in Nat /\ i \in 0..(n - 1) /\ j \in 0..(n - 1)
        /\ TileColumnBd(pic, i) <= x /\ x2 < TileColumnBd(pic, j + 1)
        /\ \A k \in 0..n : TileColumnBd(pic, k) \in 0..w
        /\ \A k, l \in 0..n : k < l => TileColumnBd(pic, k) < TileColumnBd(pic, l)
    BY <1>1, TileColumns
  <2> HIDE DEF i, j, n, w
  <2>2. SUFFICES ASSUME j < i PROVE FALSE
    BY <2>1 DEF i, j
  <2>3. i \in 0..n /\ j + 1 \in 0..n /\ j + 1 <= i
    BY <2>1, <2>2
  <2>4. /\ TileColumnBd(pic, i) \in 0..w /\ TileColumnBd(pic, j + 1) \in 0..w
        /\ (j + 1 < i => TileColumnBd(pic, j + 1) < TileColumnBd(pic, i))
    BY <2>1, <2>3
  <2>5. x \in Int /\ x2 \in Int
    BY <1>1
  <2>6. TileColumnBd(pic, j + 1) <= TileColumnBd(pic, i)
    BY <2>1, <2>3, <2>4
  <2> QED
    BY <1>1, <2>1, <2>4, <2>5, <2>6
<1>2. ASSUME NEW x \in 0..(pic.height - 1), NEW x2 \in 0..(pic.height - 1), x <= x2
      PROVE  CtuToTileRow(pic, x) <= CtuToTileRow(pic, x2)
  <2> DEFINE i == CtuToTileRow(pic, x)  j == CtuToTileRow(pic, x2)  n == NumTileRows(pic)
             w == pic.height
  <2>1. /\ n \in Nat /\ w \in Nat /\ i \in 0..(n - 1) /\ j \in 0..(n - 1)
        /\ TileRowBd(pic, i) <= x /\ x2 < TileRowBd(pic, j + 1)
        /\ \A k \in 0..n : TileRowBd(pic, k) \in 0..w
        /\ \A k, l \in 0..n : k < l => TileRowBd(pic, k) < TileRowBd(pic, l)
    BY <1>2, TileRows
  <2> HIDE DEF i, j, n, w
  <2>2. SUFFICES ASSUME j < i PROVE FALSE
    BY <2>1 DEF i, j
  <2>3. i \in 0..n /\ j + 1 \in 0..n /\ j + 1 <= i
    BY <2>1, <2>2
  <2>4. /\ TileRowBd(pic, i) \in 0..w /\ TileRowBd(pic, j + 1) \in 0..w
        /\ (j + 1 < i => TileRowBd(pic, j + 1) < TileRowBd(pic, i))
    BY <2>1, <2>3
  <2>5. x \in Int /\ x2 \in Int
    BY <1>2
  <2>6. TileRowBd(pic, j + 1) <= TileRowBd(pic, i)
    BY <2>1, <2>3, <2>4
  <2> QED
    BY <1>2, <2>1, <2>4, <2>5, <2>6
<1> QED
  BY <1>1, <1>2

-----------------------------------------------------------------------------
(* The order of CTUs.                                                       *)

Col(pic, ctu) == CtuToTileCol(pic, CtuX(pic, ctu))
Row(pic, ctu) == CtuToTileRow(pic, CtuY(pic, ctu))
AtRightEdge(pic, ctu) == CtuX(pic, ctu) + 1 = TileColumnBd(pic, Col(pic, ctu) + 1)
AtBottomEdge(pic, ctu) == CtuY(pic, ctu) + 1 = TileRowBd(pic, Row(pic, ctu) + 1)

\* d comes after c in a row of a tile, in the next row of the tile, or in another
\* tile.
InRow(pic, c, d) ==
  /\ Col(pic, d) = Col(pic, c) /\ Row(pic, d) = Row(pic, c)
  /\ CtuY(pic, d) = CtuY(pic, c) /\ CtuX(pic, d) = CtuX(pic, c) + 1
  /\ ~AtRightEdge(pic, c) /\ ~CtuIsTileColBd(pic, d)
InNextRow(pic, c, d) ==
  /\ Col(pic, d) = Col(pic, c) /\ Row(pic, d) = Row(pic, c)
  /\ CtuY(pic, d) = CtuY(pic, c) + 1
  /\ AtRightEdge(pic, c) /\ CtuIsTileColBd(pic, d)
  /\ ~AtBottomEdge(pic, c) /\ ~CtuIsTileRowBd(pic, d)
InOtherTile(pic, c, d) ==
  /\ Col(pic, d) # Col(pic, c) \/ Row(pic, d) # Row(pic, c)
  /\ AtRightEdge(pic, c) /\ AtBottomEdge(pic, c)
  /\ CtuIsTileColBd(pic, d) /\ CtuIsTileRowBd(pic, d)

Follows(pic, c, d) == InRow(pic, c, d) \/ InNextRow(pic, c, d) \/ InOtherTile(pic, c, d)

\* A list of CTUs goes through rows of tiles, and starts with one.
InOrder(pic, list) ==
  /\ list \in Seq(Nat)
  /\ \A k \in 1..(Len(list) - 1) : Follows(pic, list[k], list[k + 1])
  /\ Len(list) > 0 => CtuIsTileColBd(pic, list[1])
  /\ \A k \in 1..Len(list) : /\ CtuY(pic, list[k]) \in 0..(pic.height - 1)
                             /\ CtuX(pic, list[k]) \in 0..(pic.width - 1)

\* The coordinates of a CTU.
LEMMA Coordinates ==
  ASSUME NEW pic, IsTiled(pic), NEW x \in 0..(pic.width - 1), NEW y \in Nat,
         NEW c, c = y * pic.width + x
  PROVE  c \in Nat /\ CtuX(pic, c) = x /\ CtuY(pic, c) = y
<1>1. pic.width \in Nat \ {0}
  BY DEF IsTiled, Positive
<1> DEFINE w == pic.width
<1>2. w \in Nat \ {0} /\ x \in 0..(w - 1) /\ c = y * w + x
  BY <1>1
<1> HIDE DEF w
<1>3. c \in Nat /\ c % w = x /\ c \div w = y
  BY <1>2
<1> QED
  BY <1>3 DEF w, CtuX, CtuY

\* The CTUs of some rows of a tile, row by row.
LEMMA CtusOfMeans ==
  ASSUME NEW pic, IsTiled(pic), NEW i \in 0..(NumTileCols(pic) - 1), NEW j \in 0..(NumTileRows(pic) - 1),
         NEW top \in Nat, NEW bottom \in Nat, TileRowBd(pic, j) <= top, bottom <= TileRowBd(pic, j + 1)
  PROVE  LET list == CtusOf(pic, TileColumnBd(pic, i), TileColumnBd(pic, i + 1), top, bottom)
         IN /\ InOrder(pic, list)
            /\ \A k \in 1..Len(list) : Col(pic, list[k]) = i /\ Row(pic, list[k]) = j
            /\ top < bottom =>
                 /\ Len(list) > 0
                 /\ top = TileRowBd(pic, j) => CtuIsTileRowBd(pic, list[1])
                 /\ AtRightEdge(pic, list[Len(list)])
                 /\ bottom = TileRowBd(pic, j + 1) => AtBottomEdge(pic, list[Len(list)])
<1> DEFINE left == TileColumnBd(pic, i)
           right == TileColumnBd(pic, i + 1)
           w == right - left
           n == w * (bottom - top)
           X(k) == left + ((k - 1) % w)
           Y(k) == top + (k - 1) \div w
           list == CtusOf(pic, left, right, top, bottom)
<1>1. /\ left \in Nat /\ right \in Nat /\ left < right /\ right <= pic.width /\ pic.width \in Nat
      /\ \A x \in Nat : left <= x /\ x < right => CtuToTileCol(pic, x) = i
  BY TileColumns
<1>2. /\ TileRowBd(pic, j) \in Nat /\ TileRowBd(pic, j + 1) \in Nat /\ pic.height \in Nat
      /\ TileRowBd(pic, j) < TileRowBd(pic, j + 1) /\ TileRowBd(pic, j + 1) <= pic.height
      /\ \A y \in Nat : TileRowBd(pic, j) <= y /\ y < TileRowBd(pic, j + 1) => CtuToTileRow(pic, y) = j
  BY TileRows
<1>3. w \in Nat /\ w >= 1 /\ n \in Int
  BY <1>1
<1>4. list = [k \in 1..n |-> Y(k) * pic.width + X(k)]
  <2>1. \A k \in 1..n : (top + (k - 1) \div w) * pic.width + left + ((k - 1) % w)
                          = Y(k) * pic.width + X(k)
    <3> TAKE k \in 1..n
    <3>1. (k - 1) \div w \in Int /\ (k - 1) % w \in Int
      BY <1>3
    <3> DEFINE q == (k - 1) \div w   r == (k - 1) % w
    <3>2. q \in Int /\ r \in Int
      BY <3>1
    <3> HIDE DEF q, r, left
    <3>3. (top + q) * pic.width \in Int
      BY <1>1, <3>2
    <3>4. (top + q) * pic.width + left + r = (top + q) * pic.width + (left + r)
      BY <1>1, <3>2, <3>3 DEF left
    <3> QED
      BY <3>4 DEF q, r, left
  <2> QED
    BY <2>1 DEF CtusOf
<1>5. ASSUME NEW k \in 1..n
      PROVE  /\ X(k) \in left..(right - 1) /\ Y(k) \in top..(bottom - 1)
             /\ X(k) \in Nat /\ Y(k) \in Nat /\ X(k) \in 0..(pic.width - 1)
             /\ Y(k) \in TileRowBd(pic, j)..(TileRowBd(pic, j + 1) - 1)
             /\ Y(k) \in 0..(pic.height - 1)
  <2> DEFINE q == (k - 1) \div w   r == (k - 1) % w   h == bottom - top
  <2>1. q \in Nat /\ r \in 0..(w - 1) /\ k - 1 = w * q + r /\ k - 1 < w * h /\ h \in Int /\ k - 1 \in Nat
    BY <1>3
  <2> HIDE DEF q, r, h, w
  <2>2. q < h
    BY <1>3, <2>1
  <2> HIDE DEF left, right
  <2>3. left + r \in left..(right - 1) /\ top + q \in top..(bottom - 1)
    BY <1>1, <2>1, <2>2 DEF w, h
  <2>4. X(k) = left + r /\ Y(k) = top + q
    BY DEF q, r
  <2> HIDE DEF X, Y
  <2> QED
    BY <1>1, <1>2, <2>3, <2>4
<1>6. ASSUME NEW k \in 1..n
      PROVE  /\ list[k] \in Nat /\ CtuX(pic, list[k]) = X(k) /\ CtuY(pic, list[k]) = Y(k)
             /\ Col(pic, list[k]) = i /\ Row(pic, list[k]) = j
  <2>1. list[k] = Y(k) * pic.width + X(k)
    BY <1>4
  <2>2. list[k] \in Nat /\ CtuX(pic, list[k]) = X(k) /\ CtuY(pic, list[k]) = Y(k)
    <3> HIDE DEF X, Y, list
    <3> QED
      BY <1>5, <2>1, Coordinates
  <2> HIDE DEF X, Y, list, left, right
  <2>3. left <= X(k) /\ X(k) < right /\ TileRowBd(pic, j) <= Y(k) /\ Y(k) < TileRowBd(pic, j + 1)
    BY <1>1, <1>2, <1>5
  <2> QED
    BY <1>1, <1>2, <1>5, <2>2, <2>3 DEF Col, Row
<1>7. ASSUME NEW k \in 1..(n - 1)
      PROVE  \/ X(k) + 1 < right /\ X(k + 1) = X(k) + 1 /\ Y(k + 1) = Y(k)
             \/ X(k) + 1 = right /\ X(k + 1) = left /\ Y(k + 1) = Y(k) + 1
  <2> DEFINE q == (k - 1) \div w   r == (k - 1) % w
  <2>1. q \in Nat /\ r \in 0..(w - 1) /\ k - 1 = w * q + r
    BY <1>3
  <2>2. X(k) = left + r /\ Y(k) = top + q /\ X(k + 1) = left + (k % w) /\ Y(k + 1) = top + k \div w
    BY <1>3
  <2> HIDE DEF q, r, w, X, Y
  <2>3. CASE r + 1 < w
    <3>1. k = w * q + (r + 1)
      BY <1>3, <2>1
    <3>2. k % w = r + 1 /\ k \div w = q
      BY <1>3, <2>1, <2>3, <3>1
    <3> HIDE DEF left, right
    <3> QED
      BY <1>1, <2>1, <2>2, <2>3, <3>2 DEF w
  <2>4. CASE r + 1 = w
    <3>1. k = w * (q + 1) + 0
      BY <1>3, <2>1, <2>4
    <3>2. k % w = 0 /\ k \div w = q + 1
      BY <1>3, <2>1, <2>4, <3>1
    <3> HIDE DEF left, right
    <3> QED
      BY <1>1, <2>1, <2>2, <2>4, <3>2 DEF w
  <2> QED
    BY <1>3, <2>1, <2>3, <2>4
<1>8. n >= 1 => /\ X(1) = left /\ Y(1) = top
                /\ X(n) + 1 = right /\ Y(n) + 1 = bottom
  <2> SUFFICES ASSUME n >= 1
               PROVE  X(1) = left /\ Y(1) = top /\ X(n) + 1 = right /\ Y(n) + 1 = bottom
    OBVIOUS
  <2> DEFINE h == bottom - top
  <2>1. n - 1 = w * (h - 1) + (w - 1) /\ h \in Int
    BY <1>3
  <2>2. (n - 1) \div w = h - 1 /\ (n - 1) % w = w - 1
    <3> HIDE DEF n, w, h
    <3> QED
      BY <1>3, <2>1
  <2>3. 0 \div w = 0 /\ 0 % w = 0
    <3> HIDE DEF w
    <3> QED
      BY <1>3
  <2>4. X(1) = left + (0 % w) /\ Y(1) = top + 0 \div w
    OBVIOUS
  <2>5. X(n) = left + ((n - 1) % w) /\ Y(n) = top + (n - 1) \div w
    OBVIOUS
  <2>6. w = right - left /\ h = bottom - top
    OBVIOUS
  <2> HIDE DEF left, right, w, h, n, X, Y
  <2> QED
    BY <1>1, <2>2, <2>3, <2>4, <2>5, <2>6
<1>9. Len(list) = (IF n >= 0 THEN n ELSE 0) /\ list \in Seq(Nat) /\ (top < bottom => n >= 1)
  <2>1. top < bottom => n >= 1
    <3> HIDE DEF w
    <3> QED
      BY <1>3
  <2> DEFINE m == IF n >= 0 THEN n ELSE 0
  <2>2. 1..n = 1..m /\ m \in Nat
    BY <1>3
  <2>3. \A k \in 1..m : list[k] \in Nat
    BY <1>6, <2>2
  <2>4. list = [k \in 1..m |-> list[k]]
    BY <1>4, <2>2
  <2>5. m = IF n >= 0 THEN n ELSE 0
    OBVIOUS
  <2> HIDE DEF list, m, n
  <2>6. list \in [1..m -> Nat] /\ DOMAIN list = 1..m
    BY <2>3, <2>4
  <2>7. list \in Seq(Nat) /\ Len(list) = m
    BY <2>2, <2>6
  <2> QED
    BY <2>1, <2>5, <2>7
<1> HIDE DEF list, X, Y, n, w, left, right
<1>10. ASSUME NEW k \in 1..n
       PROVE  /\ AtRightEdge(pic, list[k]) <=> X(k) + 1 = right
              /\ CtuIsTileColBd(pic, list[k]) <=> X(k) = left
              /\ AtBottomEdge(pic, list[k]) <=> Y(k) + 1 = TileRowBd(pic, j + 1)
              /\ CtuIsTileRowBd(pic, list[k]) <=> Y(k) = TileRowBd(pic, j)
  BY <1>6 DEF AtRightEdge, AtBottomEdge, CtuIsTileColBd, CtuIsTileRowBd, Col, Row, left, right
<1>11. ASSUME NEW k \in 1..(n - 1) PROVE Follows(pic, list[k], list[k + 1])
  <2>1. k \in 1..n /\ k + 1 \in 1..n
    BY <1>3
  <2>2. CASE X(k) + 1 < right /\ X(k + 1) = X(k) + 1 /\ Y(k + 1) = Y(k)
    <3>1. X(k) + 1 # right /\ X(k + 1) # left
      BY <1>1, <1>5, <2>1, <2>2
    <3> QED
      BY <1>6, <1>10, <2>1, <2>2, <3>1 DEF Follows, InRow
  <2>3. CASE X(k) + 1 = right /\ X(k + 1) = left /\ Y(k + 1) = Y(k) + 1
    <3>1. Y(k) + 1 # TileRowBd(pic, j + 1) /\ Y(k + 1) # TileRowBd(pic, j)
      BY <1>2, <1>5, <2>1, <2>3
    <3> QED
      BY <1>6, <1>10, <2>1, <2>3, <3>1 DEF Follows, InNextRow
  <2> QED
    BY <1>7, <2>2, <2>3
<1>12. \A k \in 1..Len(list) : k \in 1..n
  BY <1>3, <1>9
<1>13. InOrder(pic, list)
  <2>1. \A k \in 1..(Len(list) - 1) : k \in 1..(n - 1)
    BY <1>3, <1>9
  <2>2. Len(list) > 0 => CtuIsTileColBd(pic, list[1])
    BY <1>3, <1>8, <1>9, <1>10
  <2> QED
    BY <1>5, <1>6, <1>9, <1>11, <1>12, <2>1, <2>2 DEF InOrder
<1>14. top < bottom =>
         /\ Len(list) > 0
         /\ top = TileRowBd(pic, j) => CtuIsTileRowBd(pic, list[1])
         /\ AtRightEdge(pic, list[Len(list)])
         /\ bottom = TileRowBd(pic, j + 1) => AtBottomEdge(pic, list[Len(list)])
  <2> SUFFICES ASSUME top < bottom
               PROVE  /\ Len(list) > 0
                      /\ top = TileRowBd(pic, j) => CtuIsTileRowBd(pic, list[1])
                      /\ AtRightEdge(pic, list[Len(list)])
                      /\ bottom = TileRowBd(pic, j + 1) => AtBottomEdge(pic, list[Len(list)])
    OBVIOUS
  <2>1. n >= 1 /\ Len(list) = n /\ 1 \in 1..n /\ n \in 1..n
    BY <1>3, <1>9
  <2> QED
    BY <1>8, <1>10, <2>1
<1> QED
  BY <1>6, <1>12, <1>13, <1>14 DEF list, left, right

-----------------------------------------------------------------------------
(* Sequences of sequences.                                                  *)

\* FlattenSeq appends one sequence after the other.
LEMMA FlattenMeans ==
  ASSUME NEW T, NEW seqs \in Seq(Seq(T)), Len(seqs) > 0
  PROVE  \E f \in [1..Len(seqs) -> Seq(T)] :
           /\ f[1] = seqs[1]
           /\ \A i \in 2..Len(seqs) : f[i] = f[i - 1] \o seqs[i]
           /\ FlattenSeq(seqs) = f[Len(seqs)]
<1> DEFINE L == Len(seqs)
           Rec(g) == g = [i \in 1..L |-> IF i = 1 THEN seqs[i] ELSE g[i - 1] \o seqs[i]]
           flatten == CHOOSE g : Rec(g)
           Is(g, n) == g[1] = seqs[1] /\ \A i \in 2..n : g[i] = g[i - 1] \o seqs[i]
<1>1. L \in Nat /\ L >= 1 /\ \A i \in 1..L : seqs[i] \in Seq(T)
  OBVIOUS
<1>2. FlattenSeq(seqs) = flatten[L]
  BY <1>1 DEF FlattenSeq
<1> HIDE DEF L
<1>3. \E g \in [1..L -> Seq(T)] : Is(g, L)
  <2> DEFINE P(n) == \E g \in [1..n -> Seq(T)] : Is(g, n)
             S == {n \in 1..L : P(n)}
  <2>1. P(1)
    <3> DEFINE h == [i \in 1..1 |-> seqs[1]]
    <3>1. h \in [1..1 -> Seq(T)] /\ h[1] = seqs[1] /\ 2..1 = {}
      BY <1>1
    <3> HIDE DEF h
    <3>2. Is(h, 1)
      BY <3>1
    <3> QED
      BY <3>1, <3>2
  <2>2. ASSUME NEW n \in 1..L, n < L, P(n) PROVE P(n + 1)
    <3>2. PICK g \in [1..n -> Seq(T)] : Is(g, n)
      BY <2>2
    <3> DEFINE h == [i \in 1..(n + 1) |-> IF i = n + 1 THEN g[n] \o seqs[n + 1] ELSE g[i]]
    <3>1. n + 1 \in 1..L /\ n \in 1..n /\ n \in Nat /\ n + 1 \in 1..(n + 1)
      BY <1>1, <2>2
    <3>3. g[n] \o seqs[n + 1] \in Seq(T)
      <4>1. g[n] \in Seq(T) /\ seqs[n + 1] \in Seq(T)
        BY <1>1, <3>1, <3>2
      <4> QED
        BY <4>1, ConcatProperties
    <3>4. h \in [1..(n + 1) -> Seq(T)]
      BY <3>2, <3>3
    <3>5. \A i \in 1..n : h[i] = g[i]
      BY <3>1
    <3>6. h[n + 1] = g[n] \o seqs[n + 1]
      BY <3>1
    <3> HIDE DEF h
    <3>7. ASSUME NEW i \in 2..(n + 1) PROVE h[i] = h[i - 1] \o seqs[i]
      <4>1. CASE i = n + 1
        <5>1. i - 1 = n
          BY <3>1, <4>1
        <5> QED
          BY <3>1, <3>5, <3>6, <4>1, <5>1
      <4>2. CASE i # n + 1
        <5>1. i \in 2..n /\ i \in 1..n /\ i - 1 \in 1..n
          BY <4>2
        <5> QED
          BY <3>2, <3>5, <5>1
      <4> QED
        BY <4>1, <4>2
    <3>8. h[1] = seqs[1]
      BY <3>1, <3>2, <3>5
    <3> QED
      BY <3>4, <3>7, <3>8
  <2> HIDE DEF P
  <2>5. /\ 1 <= L /\ S \in SUBSET (1..L) /\ 1 \in S
        /\ \A n \in S : n < L => n + 1 \in S
    BY <1>1, <2>1, <2>2
  <2> HIDE DEF S
  <2>6. S = 1..L
    BY <1>1, <2>5, InductionUpTo
  <2>3. \A n \in 1..L : P(n)
    BY <2>6 DEF S
  <2>4. P(L)
    BY <1>1, <2>3
  <2> QED
    BY <2>4 DEF P
<1>4. PICK g \in [1..L -> Seq(T)] : Is(g, L)
  BY <1>3
<1>5. Rec(g)
  <2>1. \A i \in 1..L : i = 1 \/ i \in 2..L
    BY <1>1
  <2> QED
    BY <1>4, <2>1
<1>6. Rec(flatten)
  BY <1>5
<1> HIDE DEF flatten
<1>7. /\ DOMAIN flatten = 1..L /\ Is(flatten, L)
  <2>1. flatten = [i \in 1..L |-> IF i = 1 THEN seqs[i] ELSE flatten[i - 1] \o seqs[i]]
    BY <1>6
  <2>2. 1 \in 1..L /\ \A i \in 2..L : i \in 1..L /\ i # 1
    BY <1>1
  <2> QED
    BY <2>1, <2>2
<1>8. flatten = g
  <2> DEFINE S == {n \in 1..L : flatten[n] = g[n]}
  <2>1. 1 \in S
    BY <1>1, <1>4, <1>7
  <2>2. ASSUME NEW n \in S, n < L PROVE n + 1 \in S
    <3>1. n + 1 \in 2..L /\ n + 1 \in 1..L /\ (n + 1) - 1 = n
      BY <1>1, <2>2
    <3> QED
      BY <1>4, <1>7, <3>1
  <2>5. /\ 1 <= L /\ S \in SUBSET (1..L) /\ 1 \in S
        /\ \A n \in S : n < L => n + 1 \in S
    BY <1>1, <2>1, <2>2
  <2> HIDE DEF S
  <2>3. S = 1..L
    BY <1>1, <2>5, InductionUpTo
  <2>4. ASSUME NEW i \in 1..L PROVE flatten[i] = g[i]
    BY <2>3 DEF S
  <2>6. flatten = [i \in 1..L |-> flatten[i]]
    BY <1>6
  <2>7. g = [i \in 1..L |-> g[i]]
    BY <1>4
  <2> QED
    BY <2>4, <2>6, <2>7
<1> QED
  BY <1>2, <1>4, <1>8 DEF L

\* Appended sequences come last.
LEMMA FlattenAppend ==
  ASSUME NEW T, NEW seqs \in Seq(Seq(T)), NEW s \in Seq(T)
  PROVE  /\ FlattenSeq(seqs) \in Seq(T)
         /\ FlattenSeq(Append(seqs, s)) = FlattenSeq(seqs) \o s
<1> DEFINE L == Len(seqs)
           more == Append(seqs, s)
<1>1. /\ more \in Seq(Seq(T)) /\ Len(more) = L + 1 /\ L \in Nat /\ more[L + 1] = s
      /\ \A i \in 1..L : more[i] = seqs[i]
  OBVIOUS
<1> HIDE DEF more
<1>2. PICK g \in [1..(L + 1) -> Seq(T)] :
        /\ g[1] = more[1]
        /\ \A i \in 2..(L + 1) : g[i] = g[i - 1] \o more[i]
        /\ FlattenSeq(more) = g[L + 1]
  <2> HIDE DEF L
  <2>1. Len(more) > 0
    BY <1>1
  <2>2. \E g \in [1..Len(more) -> Seq(T)] :
          /\ g[1] = more[1]
          /\ \A i \in 2..Len(more) : g[i] = g[i - 1] \o more[i]
          /\ FlattenSeq(more) = g[Len(more)]
    BY <1>1, <2>1, FlattenMeans
  <2> QED
    BY <1>1, <2>2
<1>3. CASE L = 0
  <2>1. seqs = << >> /\ FlattenSeq(seqs) = << >>
    BY <1>3 DEF FlattenSeq
  <2>2. FlattenSeq(more) = s
    BY <1>1, <1>2, <1>3
  <2>3. << >> \o s = s
    BY ConcatEmptySeq
  <2>4. << >> \in Seq(T)
    OBVIOUS
  <2> QED
    BY <2>1, <2>2, <2>3, <2>4 DEF more
<1>4. CASE L > 0
  <2>1. PICK f \in [1..L -> Seq(T)] :
          /\ f[1] = seqs[1]
          /\ \A i \in 2..L : f[i] = f[i - 1] \o seqs[i]
          /\ FlattenSeq(seqs) = f[L]
    BY <1>4, FlattenMeans
  <2> HIDE DEF L
  <2> DEFINE S == {n \in 1..L : f[n] = g[n]}
  <2>2. 1 \in S
    BY <1>1, <1>2, <1>4, <2>1
  <2>6. L \in Nat
    BY <1>1
  <2>3. ASSUME NEW n \in S, n < L PROVE n + 1 \in S
    <3>2. /\ n + 1 \in 2..L /\ n + 1 \in 2..(L + 1) /\ n + 1 \in 1..L /\ (n + 1) - 1 = n
      BY <2>3, <2>6
    <3>3. f[n + 1] = f[n] \o seqs[n + 1] /\ g[n + 1] = g[n] \o more[n + 1]
      BY <1>2, <2>1, <3>2
    <3>4. more[n + 1] = seqs[n + 1]
      BY <1>1, <3>2
    <3> QED
      BY <3>2, <3>3, <3>4
  <2>7. /\ 1 <= L /\ S \in SUBSET (1..L) /\ 1 \in S
        /\ \A n \in S : n < L => n + 1 \in S
    BY <1>4, <2>2, <2>3, <2>6
  <2> HIDE DEF S
  <2>4. S = 1..L
    BY <2>6, <2>7, InductionUpTo
  <2>5. f[L] = g[L] /\ g[L + 1] = g[L] \o s /\ L \in 1..L
    <3>1. L + 1 \in 2..(L + 1) /\ (L + 1) - 1 = L /\ L \in 1..L
      BY <1>4, <2>6
    <3>2. g[L + 1] = g[L] \o more[L + 1] /\ more[L + 1] = s
      BY <1>1, <1>2, <3>1
    <3>3. f[L] = g[L]
      BY <2>4, <3>1 DEF S
    <3> QED
      BY <3>1, <3>2, <3>3
  <2> HIDE DEF S
  <2> QED
    BY <1>2, <2>1, <2>5 DEF more
<1> QED
  BY <1>1, <1>3, <1>4

-----------------------------------------------------------------------------
(* Slices.                                                                  *)

\* Two lists in order, one after the other.
LEMMA ConcatInOrder ==
  ASSUME NEW pic, NEW a, NEW b, InOrder(pic, a), InOrder(pic, b), Len(a) > 0, Len(b) > 0,
         Follows(pic, a[Len(a)], b[1])
  PROVE  /\ InOrder(pic, a \o b) /\ Len(a \o b) > 0
         /\ (a \o b)[1] = a[1] /\ (a \o b)[Len(a \o b)] = b[Len(b)]
<1> DEFINE m == Len(a)  n == Len(b)  c == a \o b
<1>1. a \in Seq(Nat) /\ b \in Seq(Nat) /\ m \in Nat /\ n \in Nat /\ m >= 1 /\ n >= 1
  BY DEF InOrder
<1>2. /\ c \in Seq(Nat) /\ Len(c) = m + n
      /\ \A i \in 1..(m + n) : c[i] = IF i <= m THEN a[i] ELSE b[i - m]
  BY <1>1, ConcatProperties
<1>3. /\ \A k \in 1..(m - 1) : Follows(pic, a[k], a[k + 1])
      /\ \A k \in 1..(n - 1) : Follows(pic, b[k], b[k + 1])
      /\ Follows(pic, a[m], b[1]) /\ CtuIsTileColBd(pic, a[1])
      /\ \A k \in 1..m : CtuY(pic, a[k]) \in 0..(pic.height - 1) /\ CtuX(pic, a[k]) \in 0..(pic.width - 1)
      /\ \A k \in 1..n : CtuY(pic, b[k]) \in 0..(pic.height - 1) /\ CtuX(pic, b[k]) \in 0..(pic.width - 1)
  BY DEF InOrder
<1> HIDE DEF m, n, c
<1>4. ASSUME NEW k \in 1..(m + n - 1) PROVE Follows(pic, c[k], c[k + 1])
  <2>1. CASE k < m
    <3>0. /\ k \in 1..(m - 1) /\ k \in 1..(m + n) /\ k + 1 \in 1..(m + n)
          /\ k <= m /\ k + 1 <= m
      BY <1>1, <2>1
    <3>1. c[k] = a[k] /\ c[k + 1] = a[k + 1]
      BY <1>2, <3>0
    <3> QED
      BY <1>3, <3>0, <3>1
  <2>2. CASE k = m
    <3>0. /\ k \in 1..(m + n) /\ k + 1 \in 1..(m + n)
          /\ k <= m /\ ~(k + 1 <= m) /\ (k + 1) - m = 1
      BY <1>1, <2>2
    <3>1. c[k] = a[k] /\ c[k + 1] = b[1]
      BY <1>2, <3>0
    <3> QED
      BY <1>3, <2>2, <3>1
  <2>3. CASE k > m
    <3>0. /\ k \in 1..(m + n) /\ k + 1 \in 1..(m + n) /\ k - m \in 1..(n - 1)
          /\ ~(k <= m) /\ ~(k + 1 <= m) /\ (k + 1) - m = (k - m) + 1
      BY <1>1, <2>3
    <3>1. c[k] = b[k - m] /\ c[k + 1] = b[(k - m) + 1]
      BY <1>2, <3>0
    <3> QED
      BY <1>3, <3>0, <3>1
  <2> QED
    BY <1>1, <2>1, <2>2, <2>3
<1>5. c[1] = a[1] /\ c[m + n] = b[n]
  <2>1. 1 \in 1..(m + n) /\ 1 <= m /\ m + n \in 1..(m + n) /\ ~(m + n <= m) /\ (m + n) - m = n
    BY <1>1
  <2> QED
    BY <1>2, <2>1
<1>6. \A k \in 1..(m + n) : CtuY(pic, c[k]) \in 0..(pic.height - 1) /\ CtuX(pic, c[k]) \in 0..(pic.width - 1)
  <2> TAKE k \in 1..(m + n)
  <2>1. IF k <= m THEN k \in 1..m ELSE k - m \in 1..n
    BY <1>1
  <2> QED
    BY <1>2, <1>3, <2>1
<1>7. InOrder(pic, c)
  <2>1. /\ \A k \in 1..(Len(c) - 1) : Follows(pic, c[k], c[k + 1])
        /\ CtuIsTileColBd(pic, c[1])
    BY <1>1, <1>2, <1>3, <1>4, <1>5
  <2> QED
    BY <1>2, <1>6, <2>1 DEF InOrder
<1> QED
  BY <1>1, <1>2, <1>5, <1>7 DEF c, m, n

\* Several lists in order, each of which begins another tile.
LEMMA FlattenInOrder ==
  ASSUME NEW pic, NEW lists \in Seq(Seq(Nat)),
         \A k \in 1..Len(lists) : InOrder(pic, lists[k]) /\ Len(lists[k]) > 0,
         \A k \in 1..(Len(lists) - 1) :
           Follows(pic, lists[k][Len(lists[k])], lists[k + 1][1])
  PROVE  InOrder(pic, FlattenSeq(lists))
<1> DEFINE L == Len(lists)
<1>1. L \in Nat
  OBVIOUS
<1>2. CASE L = 0
  <2>1. FlattenSeq(lists) = << >>
    BY <1>2 DEF FlattenSeq
  <2> QED
    BY <2>1 DEF InOrder
<1>3. CASE L > 0
  <2>1. PICK f \in [1..L -> Seq(Nat)] :
          /\ f[1] = lists[1]
          /\ \A i \in 2..L : f[i] = f[i - 1] \o lists[i]
          /\ FlattenSeq(lists) = f[L]
    BY <1>3, FlattenMeans
  <2> HIDE DEF L
  <2> DEFINE Good(n) == /\ InOrder(pic, f[n]) /\ Len(f[n]) > 0
                        /\ f[n][Len(f[n])] = lists[n][Len(lists[n])]
             S == {n \in 1..L : Good(n)}
  <2>2. Good(1)
    BY <1>1, <1>3, <2>1 DEF L
  <2>3. ASSUME NEW n \in 1..L, Good(n), n < L PROVE Good(n + 1)
    <3> DEFINE a == f[n]  b == lists[n + 1]
    <3>2. n + 1 \in 2..L /\ n + 1 \in 1..L /\ n \in 1..(L - 1) /\ (n + 1) - 1 = n
      BY <1>1, <2>3
    <3>3. f[n + 1] = a \o b
      BY <2>1, <3>2
    <3>4. InOrder(pic, a) /\ Len(a) > 0 /\ a[Len(a)] = lists[n][Len(lists[n])]
      BY <2>3
    <3>5. InOrder(pic, b) /\ Len(b) > 0 /\ Follows(pic, lists[n][Len(lists[n])], b[1])
      BY <3>2 DEF L
    <3> HIDE DEF a, b
    <3>6. InOrder(pic, a \o b) /\ Len(a \o b) > 0 /\ (a \o b)[Len(a \o b)] = b[Len(b)]
      BY <3>4, <3>5, ConcatInOrder
    <3> QED
      BY <3>3, <3>6 DEF b
  <2> HIDE DEF Good
  <2>6. L \in Nat
    BY <1>1 DEF L
  <2>7. /\ 1 <= L /\ S \in SUBSET (1..L) /\ 1 \in S
        /\ \A n \in S : n < L => n + 1 \in S
    BY <1>3, <2>2, <2>3, <2>6
  <2> HIDE DEF S
  <2>8. S = 1..L
    BY <2>6, <2>7, InductionUpTo
  <2>4. \A n \in 1..L : Good(n)
    BY <2>8 DEF S
  <2>5. Good(L)
    BY <1>1, <1>3, <2>4
  <2> QED
    BY <2>1, <2>5 DEF Good
<1> QED
  BY <1>1, <1>2, <1>3

\* The CTUs of a tile.
LEMMA CtusOfTileMeans ==
  ASSUME NEW pic, IsTiled(pic),
         NEW x \in 0..(NumTileCols(pic) - 1), NEW y \in 0..(NumTileRows(pic) - 1)
  PROVE  LET list == CtusOfTile(pic, x, y)
         IN /\ InOrder(pic, list) /\ Len(list) > 0
            /\ \A k \in 1..Len(list) : Col(pic, list[k]) = x /\ Row(pic, list[k]) = y
            /\ CtuIsTileColBd(pic, list[1]) /\ CtuIsTileRowBd(pic, list[1])
            /\ AtRightEdge(pic, list[Len(list)]) /\ AtBottomEdge(pic, list[Len(list)])
<1> DEFINE top == TileRowBd(pic, y)  bottom == TileRowBd(pic, y + 1)
<1>1. top \in Nat /\ bottom \in Nat /\ top < bottom /\ top <= top /\ bottom <= bottom
  BY TileRows
<1>2. CtusOfTile(pic, x, y) =
        CtusOf(pic, TileColumnBd(pic, x), TileColumnBd(pic, x + 1), top, bottom)
  BY DEF CtusOfTile
<1>3. TileRowBd(pic, y) = top /\ TileRowBd(pic, y + 1) = bottom
  OBVIOUS
<1> DEFINE list == CtusOf(pic, TileColumnBd(pic, x), TileColumnBd(pic, x + 1), top, bottom)
<1> HIDE DEF top, bottom
<1>4. /\ InOrder(pic, list)
      /\ \A k \in 1..Len(list) : Col(pic, list[k]) = x /\ Row(pic, list[k]) = y
      /\ Len(list) > 0 /\ CtuIsTileRowBd(pic, list[1])
      /\ AtRightEdge(pic, list[Len(list)]) /\ AtBottomEdge(pic, list[Len(list)])
  BY <1>1, <1>3, CtusOfMeans
<1> HIDE DEF list
<1>5. CtuIsTileColBd(pic, list[1])
  BY <1>4 DEF InOrder
<1> QED
  BY <1>2, <1>4, <1>5 DEF list

\* Tiles that differ, one after the other.
LEMMA TilesFollow ==
  ASSUME NEW pic, IsTiled(pic),
         NEW x1 \in 0..(NumTileCols(pic) - 1), NEW y1 \in 0..(NumTileRows(pic) - 1),
         NEW x2 \in 0..(NumTileCols(pic) - 1), NEW y2 \in 0..(NumTileRows(pic) - 1),
         x1 # x2 \/ y1 # y2
  PROVE  LET a == CtusOfTile(pic, x1, y1)
         IN Follows(pic, a[Len(a)], CtusOfTile(pic, x2, y2)[1])
<1> DEFINE a == CtusOfTile(pic, x1, y1)  b == CtusOfTile(pic, x2, y2)
<1>1. /\ Len(a) \in 1..Len(a) /\ AtRightEdge(pic, a[Len(a)]) /\ AtBottomEdge(pic, a[Len(a)])
      /\ Col(pic, a[Len(a)]) = x1 /\ Row(pic, a[Len(a)]) = y1
  <2>1. Len(a) > 0 /\ Len(a) \in Nat
    BY CtusOfTileMeans DEF InOrder
  <2> QED
    BY <2>1, CtusOfTileMeans
<1>2. /\ CtuIsTileColBd(pic, b[1]) /\ CtuIsTileRowBd(pic, b[1])
      /\ Col(pic, b[1]) = x2 /\ Row(pic, b[1]) = y2
  <2>1. Len(b) > 0 /\ Len(b) \in Nat
    BY CtusOfTileMeans DEF InOrder
  <2> QED
    BY <2>1, CtusOfTileMeans
<1> QED
  BY <1>1, <1>2 DEF Follows, InOtherTile

\* The CTUs of a rectangle of tiles.
LEMMA CtusOfTilesMeans ==
  ASSUME NEW pic, IsTiled(pic), NEW tile \in Nat, tile < NumTiles(pic), NEW w \in Nat, NEW h \in Nat,
         (tile % NumTileCols(pic)) + w <= NumTileCols(pic),
         (tile \div NumTileCols(pic)) + h <= NumTileRows(pic)
  PROVE  InOrder(pic, CtusOfTiles(pic, tile, w, h))
<1> DEFINE x == tile % NumTileCols(pic)
           y == tile \div NumTileCols(pic)
           n == w * h
           X(i) == x + ((i - 1) % w)
           Y(i) == y + (i - 1) \div w
           lists == [i \in 1..n |-> CtusOfTile(pic, X(i), Y(i))]
<1>1. /\ NumTileCols(pic) \in Nat /\ NumTileCols(pic) >= 1
      /\ NumTileRows(pic) \in Nat /\ NumTileRows(pic) >= 1
  BY TileColumns, TileRows
<1>2. x \in Nat /\ y \in Nat /\ n \in Nat
  BY <1>1
<1>3. CtusOfTiles(pic, tile, w, h) = FlattenSeq(lists)
  BY DEF CtusOfTiles
<1>4. ASSUME NEW i \in 1..n
      PROVE  X(i) \in 0..(NumTileCols(pic) - 1) /\ Y(i) \in 0..(NumTileRows(pic) - 1)
  <2>1. w >= 1
    BY <1>2
  <2> DEFINE q == (i - 1) \div w  r == (i - 1) % w
  <2>2. q \in Nat /\ r \in 0..(w - 1) /\ i - 1 = w * q + r /\ i - 1 < w * h
    BY <2>1
  <2>3. x + w <= NumTileCols(pic) /\ y + h <= NumTileRows(pic)
    OBVIOUS
  <2> HIDE DEF q, r, x, y, n
  <2>4. q < h
    BY <2>1, <2>2
  <2>5. x + r \in 0..(NumTileCols(pic) - 1) /\ y + q \in 0..(NumTileRows(pic) - 1)
    BY <1>1, <1>2, <2>2, <2>3, <2>4
  <2> QED
    BY <2>5 DEF q, r
<1>5. ASSUME NEW i \in 1..(n - 1) PROVE X(i) # X(i + 1) \/ Y(i) # Y(i + 1)
  <2>1. w >= 1 /\ i - 1 \in Nat /\ (i + 1) - 1 = i /\ i \in Nat
    BY <1>2
  <2>2. (i - 1) % w # i % w \/ (i - 1) \div w # i \div w
    <3>1. /\ i - 1 = w * ((i - 1) \div w) + ((i - 1) % w)
          /\ i = w * (i \div w) + (i % w)
      BY <2>1
    <3> QED
      BY <2>1, <3>1
  <2>3. /\ (i - 1) % w \in Int /\ i % w \in Int /\ (i - 1) \div w \in Int /\ i \div w \in Int
    BY <2>1
  <2> HIDE DEF x, y
  <2>4. X(i + 1) = x + (i % w) /\ Y(i + 1) = y + (i \div w)
    BY <2>1
  <2> QED
    BY <1>2, <2>2, <2>3, <2>4
<1> HIDE DEF X, Y, n
<1>6. \A i \in 1..n : InOrder(pic, lists[i]) /\ Len(lists[i]) > 0 /\ lists[i] \in Seq(Nat)
  BY <1>4, CtusOfTileMeans DEF InOrder
<1>7. lists \in Seq(Seq(Nat)) /\ Len(lists) = n
  <2>1. lists = [i \in 1..n |-> lists[i]]
    OBVIOUS
  <2> HIDE DEF lists
  <2>2. lists \in [1..n -> Seq(Nat)] /\ DOMAIN lists = 1..n
    BY <1>6, <2>1
  <2> QED
    BY <1>2, <2>2
<1>8. ASSUME NEW i \in 1..(n - 1)
      PROVE  Follows(pic, lists[i][Len(lists[i])], lists[i + 1][1])
  <2>1. i \in 1..n /\ i + 1 \in 1..n
    BY <1>2
  <2>2. lists[i] = CtusOfTile(pic, X(i), Y(i)) /\ lists[i + 1] = CtusOfTile(pic, X(i + 1), Y(i + 1))
    BY <2>1
  <2> QED
    BY <1>4, <1>5, <2>1, <2>2, TilesFollow
<1> HIDE DEF lists
<1> QED
  BY <1>3, <1>6, <1>7, <1>8, FlattenInOrder

\* One tile.
LEMMA OneTile ==
  ASSUME NEW pic, IsTiled(pic), NEW tile \in Nat, tile < NumTiles(pic)
  PROVE  /\ tile % NumTileCols(pic) \in 0..(NumTileCols(pic) - 1)
         /\ tile \div NumTileCols(pic) \in 0..(NumTileRows(pic) - 1)
         /\ CtusOfTiles(pic, tile, 1, 1) =
              CtusOfTile(pic, tile % NumTileCols(pic), tile \div NumTileCols(pic))
<1> DEFINE c == NumTileCols(pic)
           x == tile % c
           y == tile \div c
           lists == [i \in 1..(1 * 1) |-> CtusOfTile(pic, x + ((i - 1) % 1), y + (i - 1) \div 1)]
<1>1. c \in Nat /\ c >= 1 /\ NumTileRows(pic) \in Nat /\ tile < c * NumTileRows(pic)
  BY TileColumns, TileRows DEF NumTiles
<1>2. x \in 0..(c - 1) /\ y \in 0..(NumTileRows(pic) - 1)
  <2>1. x \in 0..(c - 1) /\ y \in Nat /\ tile = c * y + x
    BY <1>1
  <2> HIDE DEF c, x, y
  <2>2. y < NumTileRows(pic)
    BY <1>1, <2>1
  <2> QED
    BY <1>1, <2>1, <2>2
<1>3. CtusOfTiles(pic, tile, 1, 1) = FlattenSeq(lists)
  BY DEF CtusOfTiles
<1> HIDE DEF x, y, c
<1>4. 1 * 1 = 1 /\ x + ((1 - 1) % 1) = x /\ y + (1 - 1) \div 1 = y
  BY <1>1, <1>2
<1>5. lists = << CtusOfTile(pic, x, y) >>
  <2>1. \A i \in 1..(1 * 1) : i = 1
    BY <1>4
  <2>2. lists = [i \in 1..1 |-> CtusOfTile(pic, x, y)]
    BY <1>4, <2>1
  <2> HIDE DEF lists
  <2>3. << CtusOfTile(pic, x, y) >> = [i \in 1..1 |-> CtusOfTile(pic, x, y)]
    OBVIOUS
  <2> QED
    BY <2>2, <2>3
<1> HIDE DEF lists
<1>6. FlattenSeq(lists) = CtusOfTile(pic, x, y)
  <2> DEFINE t == CtusOfTile(pic, x, y)
  <2>1. t \in Seq(Nat)
    BY <1>2, CtusOfTileMeans DEF InOrder, c
  <2> HIDE DEF t
  <2> DEFINE q == << t >>
  <2>2. q \in Seq(Seq(Nat)) /\ Len(q) = 1 /\ q[1] = t
    BY <2>1
  <2> HIDE DEF q
  <2>4. Len(q) > 0
    BY <2>2
  <2>7. \E f : f[1] = q[1] /\ FlattenSeq(q) = f[Len(q)]
    BY <2>2, <2>4, FlattenMeans
  <2>5. PICK f : f[1] = q[1] /\ FlattenSeq(q) = f[Len(q)]
    BY <2>7
  <2>8. q[1] = t /\ Len(q) = 1
    BY <2>2
  <2>6. f[1] = t /\ FlattenSeq(q) = f[Len(q)] /\ Len(q) = 1
    BY <2>5, <2>8
  <2>3. FlattenSeq(q) = t
    BY <2>6
  <2> QED
    BY <1>5, <2>3 DEF t, q
<1> QED
  BY <1>2, <1>3, <1>6 DEF c, x, y

\* Raster-scan slices of consecutive tiles.
LEMMA RasterInOrder ==
  ASSUME NEW pic, IsTiled(pic), NEW sizes \in Seq(Positive),
         Boundaries(sizes)[Len(sizes) + 1] = NumTiles(pic)
  PROVE  \A s \in DOMAIN sizes : InOrder(pic, RasterSliceMap(pic, sizes)[s])
<1> TAKE s \in DOMAIN sizes
<1> DEFINE first == Boundaries(sizes)[s]
           n == sizes[s]
           lists == [i \in 1..n |-> CtusOfTiles(pic, first + i - 1, 1, 1)]
           c == NumTileCols(pic)
           X(i) == (first + i - 1) % c
           Y(i) == (first + i - 1) \div c
<1>1. RasterSliceMap(pic, sizes)[s] = FlattenSeq(lists)
  BY DEF RasterSliceMap
<1>2. /\ s \in 1..Len(sizes) /\ n \in Nat /\ first \in Nat /\ first + n <= NumTiles(pic)
      /\ NumTiles(pic) \in Nat /\ c \in Nat /\ c >= 1
  <2>1. s \in 1..Len(sizes) /\ n \in Nat /\ Len(sizes) \in Nat
    BY DEF Positive
  <2>2. c \in Nat /\ c >= 1 /\ NumTileRows(pic) \in Nat
    BY TileColumns, TileRows
  <2>3. NumTiles(pic) \in Nat
    BY <2>2 DEF NumTiles
  <2>4. /\ Boundaries(sizes) \in [1..(Len(sizes) + 1) -> Nat]
        /\ Boundaries(sizes)[s + 1] = first + n
        /\ \A i, j \in 1..(Len(sizes) + 1) : i < j => Boundaries(sizes)[i] < Boundaries(sizes)[j]
    BY <2>1, BoundariesIncrease
  <2>5. s + 1 = Len(sizes) + 1 \/ s + 1 < Len(sizes) + 1
    BY <2>1
  <2>6. first \in Nat /\ first + n \in Nat
    BY <2>1, <2>4
  <2>7. first + n = NumTiles(pic) \/ first + n < NumTiles(pic)
    BY <2>1, <2>4, <2>5
  <2> QED
    BY <2>1, <2>2, <2>3, <2>6, <2>7
<1> HIDE DEF first, n
<1>3. ASSUME NEW i \in 1..n
      PROVE  /\ X(i) \in 0..(c - 1) /\ Y(i) \in 0..(NumTileRows(pic) - 1)
             /\ lists[i] = CtusOfTile(pic, X(i), Y(i))
  <2>1. first + i - 1 \in Nat /\ first + i - 1 < NumTiles(pic)
    BY <1>2
  <2> QED
    BY <2>1, OneTile
<1>4. ASSUME NEW i \in 1..(n - 1) PROVE X(i) # X(i + 1) \/ Y(i) # Y(i + 1)
  <2> DEFINE t == first + i - 1
  <2>1. t \in Nat /\ first + (i + 1) - 1 = t + 1
    BY <1>2
  <2> HIDE DEF t, c
  <2>2. t = c * (t \div c) + (t % c) /\ t + 1 = c * ((t + 1) \div c) + ((t + 1) % c)
    BY <1>2, <2>1
  <2>3. t % c # (t + 1) % c \/ t \div c # (t + 1) \div c
    BY <1>2, <2>1, <2>2
  <2> QED
    BY <2>1, <2>3 DEF t
<1>5. \A i \in 1..n : InOrder(pic, lists[i]) /\ Len(lists[i]) > 0 /\ lists[i] \in Seq(Nat)
  <2>1. TAKE i \in 1..n
  <2>2. /\ X(i) \in 0..(NumTileCols(pic) - 1) /\ Y(i) \in 0..(NumTileRows(pic) - 1)
        /\ lists[i] = CtusOfTile(pic, X(i), Y(i))
    BY <1>3
  <2> HIDE DEF X, Y, lists
  <2>3. InOrder(pic, lists[i]) /\ Len(lists[i]) > 0
    BY <2>2, CtusOfTileMeans
  <2> QED
    BY <2>3 DEF InOrder
<1>6. lists \in Seq(Seq(Nat)) /\ Len(lists) = n
  <2>1. lists = [i \in 1..n |-> lists[i]]
    OBVIOUS
  <2> HIDE DEF lists
  <2>2. lists \in [1..n -> Seq(Nat)] /\ DOMAIN lists = 1..n
    BY <1>5, <2>1
  <2> QED
    BY <1>2, <2>2
<1> HIDE DEF X, Y, lists
<1>7. ASSUME NEW i \in 1..(n - 1)
      PROVE  Follows(pic, lists[i][Len(lists[i])], lists[i + 1][1])
  <2>1. i \in 1..n /\ i + 1 \in 1..n
    BY <1>2
  <2> QED
    BY <1>3, <1>4, <2>1, TilesFollow
<1> QED
  BY <1>1, <1>5, <1>6, <1>7, FlattenInOrder

\* What the loop over slices steps over belongs to a slice of the same tile.
LEMMA HeadsMean ==
  ASSUME NEW rects \in Seq(RectSlice), Len(rects) > 0
  PROVE  LET head == Heads(rects)
             n == Len(rects)
             skips(g, i) == InTile(rects[g]) /\ i < g + rects[g].slicesInTile
         IN /\ head \in [1..n -> 1..n] /\ head[1] = 1
            /\ \A i \in 2..n : head[i] = IF skips(head[i - 1], i) THEN head[i - 1] ELSE i
            /\ \A i \in 1..n : /\ head[i] <= i /\ head[head[i]] = head[i]
                               /\ head[i] = i \/ skips(head[i], i)
<1> DEFINE n == Len(rects)
           skips(g, i) == InTile(rects[g]) /\ i < g + rects[g].slicesInTile
           Rec(h) == h = [i \in 1..n |-> IF i = 1 THEN 1
                                         ELSE IF skips(h[i - 1], i) THEN h[i - 1] ELSE i]
           head == CHOOSE h : Rec(h)
           Is(h, k) == h[1] = 1 /\ \A i \in 2..k : h[i] = IF skips(h[i - 1], i) THEN h[i - 1] ELSE i
<1>1. n \in Nat /\ n >= 1 /\ DOMAIN rects = 1..n
  OBVIOUS
<1>2. Heads(rects) = head
  BY <1>1 DEF Heads
<1> HIDE DEF n, skips
<1>3. \E h \in [1..n -> 1..n] : Is(h, n)
  <2> DEFINE P(k) == \E h \in [1..k -> 1..n] : Is(h, k)
             S == {k \in 1..n : P(k)}
  <2>1. P(1)
    <3> DEFINE h == [i \in 1..1 |-> 1]
    <3>1. h \in [1..1 -> 1..n] /\ h[1] = 1 /\ 2..1 = {}
      BY <1>1
    <3> HIDE DEF h
    <3>2. Is(h, 1)
      BY <3>1
    <3> QED
      BY <3>1, <3>2
  <2>2. ASSUME NEW k \in 1..n, k < n, P(k) PROVE P(k + 1)
    <3>1. PICK g \in [1..k -> 1..n] : Is(g, k)
      BY <2>2
    <3> DEFINE next == IF skips(g[k], k + 1) THEN g[k] ELSE k + 1
               h == [i \in 1..(k + 1) |-> IF i = k + 1 THEN next ELSE g[i]]
    <3>2. k + 1 \in 1..n /\ k \in 1..k /\ k \in Nat /\ k + 1 \in 1..(k + 1)
      BY <1>1, <2>2
    <3>3. next \in 1..n
      BY <3>1, <3>2
    <3> HIDE DEF next
    <3>4. h \in [1..(k + 1) -> 1..n]
      BY <3>1, <3>3
    <3>5. (\A i \in 1..k : h[i] = g[i]) /\ h[k + 1] = next
      BY <3>2
    <3> HIDE DEF h
    <3>6. ASSUME NEW i \in 2..(k + 1) PROVE h[i] = IF skips(h[i - 1], i) THEN h[i - 1] ELSE i
      <4>1. CASE i = k + 1
        <5>1. i - 1 = k
          BY <3>2, <4>1
        <5> QED
          BY <3>2, <3>5, <4>1, <5>1 DEF next
      <4>2. CASE i # k + 1
        <5>1. i \in 2..k /\ i \in 1..k /\ i - 1 \in 1..k
          BY <4>2
        <5> QED
          BY <3>1, <3>5, <5>1
      <4> QED
        BY <4>1, <4>2
    <3>7. h[1] = 1
      BY <3>1, <3>2, <3>5
    <3> QED
      BY <3>4, <3>6, <3>7
  <2> HIDE DEF P
  <2>3. /\ 1 <= n /\ S \in SUBSET (1..n) /\ 1 \in S
        /\ \A k \in S : k < n => k + 1 \in S
    BY <1>1, <2>1, <2>2
  <2> HIDE DEF S
  <2>4. S = 1..n
    BY <1>1, <2>3, InductionUpTo
  <2>5. n \in 1..n
    BY <1>1
  <2>6. P(n)
    BY <2>4, <2>5 DEF S
  <2> QED
    BY <2>6 DEF P
<1>4. PICK g \in [1..n -> 1..n] : Is(g, n)
  BY <1>3
<1>5. Rec(g)
  <2>1. \A i \in 1..n : i = 1 \/ i \in 2..n
    BY <1>1
  <2>2. g = [i \in 1..n |-> g[i]]
    BY <1>4
  <2> QED
    BY <1>4, <2>1, <2>2
<1>6. Rec(head)
  BY <1>5
<1> HIDE DEF head
<1>7. DOMAIN head = 1..n /\ Is(head, n)
  <2>1. head = [i \in 1..n |-> IF i = 1 THEN 1
                               ELSE IF skips(head[i - 1], i) THEN head[i - 1] ELSE i]
    BY <1>6
  <2>2. 1 \in 1..n /\ \A i \in 2..n : i \in 1..n /\ i # 1
    BY <1>1
  <2>3. DOMAIN head = 1..n /\ head[1] = 1
    BY <2>1, <2>2
  <2>4. ASSUME NEW i \in 2..n PROVE head[i] = IF skips(head[i - 1], i) THEN head[i - 1] ELSE i
    <3>1. head[i] = IF i = 1 THEN 1 ELSE IF skips(head[i - 1], i) THEN head[i - 1] ELSE i
      BY <2>1, <2>2 DEF skips
    <3> QED
      BY <2>2, <3>1
  <2> QED
    BY <2>3, <2>4
<1> DEFINE Good(i) == /\ head[i] \in 1..n /\ head[i] <= i /\ head[head[i]] = head[i]
                      /\ head[i] = i \/ skips(head[i], i)
<1>8. \A i \in 1..n : Good(i)
  <2> DEFINE S == {i \in 1..n : Good(i)}
  <2>1. Good(1)
    BY <1>1, <1>7
  <2>2. ASSUME NEW i \in 1..n, i < n, Good(i) PROVE Good(i + 1)
    <3>1. i + 1 \in 2..n /\ (i + 1) - 1 = i /\ i + 1 \in 1..n
      BY <1>1, <2>2
    <3>2. head[i + 1] = IF skips(head[i], i + 1) THEN head[i] ELSE i + 1
      BY <1>7, <3>1
    <3>3. CASE skips(head[i], i + 1)
      <4>1. head[i + 1] = head[i]
        BY <3>2, <3>3
      <4> QED
        BY <2>2, <3>1, <3>3, <4>1
    <3>4. CASE ~skips(head[i], i + 1)
      BY <3>1, <3>2, <3>4
    <3> QED
      BY <3>3, <3>4
  <2> HIDE DEF Good
  <2>3. /\ 1 <= n /\ S \in SUBSET (1..n) /\ 1 \in S
        /\ \A k \in S : k < n => k + 1 \in S
    BY <1>1, <2>1, <2>2
  <2> HIDE DEF S
  <2>4. S = 1..n
    BY <1>1, <2>3, InductionUpTo
  <2> QED
    BY <2>4 DEF S
<1>9. head = [i \in 1..n |-> head[i]]
  BY <1>6
<1>10. head \in [1..n -> 1..n]
  BY <1>8, <1>9
<1> QED
  BY <1>2, <1>7, <1>8, <1>10 DEF n, skips

\* What is inferred for the last slice leaves the others, and where the iterations
\* begin, as they are.
LEMMA InferredMeans ==
  ASSUME NEW pic, IsTiled(pic), NEW given \in Seq(RectSlice), Len(given) > 0,
         given[Len(given)].tileIdx < NumTiles(pic)
  PROVE  LET rects == Inferred(pic, given)
         IN /\ rects \in Seq(RectSlice) /\ Len(rects) = Len(given)
            /\ Heads(rects) = Heads(given)
<1> DEFINE n == Len(given)
           rects == Inferred(pic, given)
           tile == given[n].tileIdx
           width == NumTileCols(pic) - (tile % NumTileCols(pic))
           height == NumTileRows(pic) - tile \div NumTileCols(pic)
           last == [given[n] EXCEPT !.width = width, !.height = height, !.slicesInTile = 1]
<1>1. n \in Nat /\ n >= 1 /\ n \in 1..n /\ DOMAIN given = 1..n /\ \A i \in 1..n : given[i] \in RectSlice
  OBVIOUS
<1>2. tile \in Nat /\ tile < NumTiles(pic)
  BY <1>1 DEF RectSlice
<1>3. width \in Nat /\ height \in Nat
  <2>1. /\ tile % NumTileCols(pic) \in 0..(NumTileCols(pic) - 1)
        /\ tile \div NumTileCols(pic) \in 0..(NumTileRows(pic) - 1)
        /\ NumTileCols(pic) \in Nat /\ NumTileRows(pic) \in Nat
    BY <1>2, OneTile, TileColumns, TileRows
  <2> HIDE DEF tile
  <2> QED
    BY <2>1
<1> HIDE DEF width, height
<1>4. last \in RectSlice
  BY <1>1, <1>3 DEF RectSlice
<1>5. LastInferred(pic, given) = [given EXCEPT ![n] = last]
  BY <1>1 DEF LastInferred, width, height
<1> HIDE DEF n, last, rects
<1>6. rects = given \/ rects = [given EXCEPT ![n] = last]
  BY <1>5 DEF Inferred, rects
<1>7. /\ rects \in Seq(RectSlice) /\ Len(rects) = n
      /\ \A i \in 1..n : i < n => rects[i] = given[i]
  <2>1. CASE rects = given
    BY <2>1 DEF n
  <2>2. CASE rects = [given EXCEPT ![n] = last]
    <3>1. rects \in [1..n -> RectSlice] /\ DOMAIN rects = 1..n
      BY <1>1, <1>4, <2>2
    <3>2. rects \in Seq(RectSlice) /\ Len(rects) = n
      BY <1>1, <3>1
    <3> QED
      BY <1>1, <2>2, <3>2
  <2> QED
    BY <1>6, <2>1, <2>2
<1> DEFINE a == Heads(given)  b == Heads(rects)
<1>8. /\ a \in [1..n -> 1..n] /\ a[1] = 1 /\ \A i \in 1..n : a[i] <= i
      /\ \A i \in 2..n : a[i] = IF InTile(given[a[i - 1]]) /\ i < a[i - 1] + given[a[i - 1]].slicesInTile
                                THEN a[i - 1] ELSE i
  BY <1>1, HeadsMean DEF n
<1>9. /\ b \in [1..n -> 1..n] /\ b[1] = 1
      /\ \A i \in 2..n : b[i] = IF InTile(rects[b[i - 1]]) /\ i < b[i - 1] + rects[b[i - 1]].slicesInTile
                                THEN b[i - 1] ELSE i
  <2>1. Len(rects) > 0
    BY <1>1, <1>7
  <2>2. /\ b \in [1..Len(rects) -> 1..Len(rects)] /\ b[1] = 1
        /\ \A i \in 2..Len(rects) :
             b[i] = IF InTile(rects[b[i - 1]]) /\ i < b[i - 1] + rects[b[i - 1]].slicesInTile
                    THEN b[i - 1] ELSE i
    BY <1>7, <2>1, HeadsMean
  <2> QED
    BY <1>7, <2>2
<1> HIDE DEF a, b
<1>10. a = b
  <2> DEFINE S == {i \in 1..n : a[i] = b[i]}
  <2>1. 1 \in S
    BY <1>1, <1>8, <1>9
  <2>2. ASSUME NEW i \in S, i < n PROVE i + 1 \in S
    <3>1. i + 1 \in 2..n /\ (i + 1) - 1 = i /\ i + 1 \in 1..n /\ i \in 1..n
      BY <1>1, <2>2
    <3>2. a[i] \in 1..n /\ a[i] <= i /\ a[i] < n /\ b[i] = a[i]
      BY <1>1, <1>8, <2>2, <3>1
    <3>3. rects[a[i]] = given[a[i]]
      BY <1>7, <3>2
    <3> DEFINE g == given[a[i]]
    <3>4. a[i + 1] = IF InTile(g) /\ i + 1 < a[i] + g.slicesInTile THEN a[i] ELSE i + 1
      BY <1>8, <3>1
    <3>5. b[i + 1] = IF InTile(g) /\ i + 1 < a[i] + g.slicesInTile THEN a[i] ELSE i + 1
      BY <1>9, <3>1, <3>2, <3>3
    <3> QED
      BY <3>1, <3>4, <3>5
  <2>3. /\ 1 <= n /\ S \in SUBSET (1..n) /\ 1 \in S
        /\ \A i \in S : i < n => i + 1 \in S
    BY <1>1, <2>1, <2>2
  <2> HIDE DEF S
  <2>4. S = 1..n
    BY <1>1, <2>3, InductionUpTo
  <2>5. \A i \in 1..n : a[i] = b[i]
    BY <2>4 DEF S
  <2>6. a = [i \in 1..n |-> a[i]] /\ b = [i \in 1..n |-> b[i]]
    BY <1>8, <1>9
  <2> QED
    BY <2>5, <2>6
<1> QED
  BY <1>7, <1>10 DEF a, b, n, rects

\* Rectangular slices: rectangles of tiles, or rows of one tile.
LEMMA RectInOrder ==
  ASSUME NEW pic, IsTiled(pic), NEW given \in Seq(RectSlice), IsSignalling(pic, given)
  PROVE  \A i \in DOMAIN given : InOrder(pic, RectSliceMap(pic, given)[i])
<1> TAKE i \in DOMAIN given
<1> DEFINE n == Len(given)
           rects == Inferred(pic, given)
           g == Heads(given)[i]
           r == rects[g]
           x == r.tileIdx % NumTileCols(pic)
           y == r.tileIdx \div NumTileCols(pic)
<1>1. n \in Nat /\ n >= 1 /\ i \in 1..n /\ DOMAIN given = 1..n
  OBVIOUS
<1>2. DOMAIN rects = 1..n
  BY <1>1 DEF Inferred, LastInferred
<1>3. given[n].tileIdx < NumTiles(pic)
  <2>3. \A k \in DOMAIN rects : rects[k].tileIdx < NumTiles(pic)
    BY DEF IsSignalling
  <2>1. rects[n].tileIdx < NumTiles(pic)
    <3> HIDE DEF rects
    <3> QED
      BY <1>1, <1>2, <2>3
  <2>2. rects[n].tileIdx = given[n].tileIdx
    <3>1. given[n] \in RectSlice
      BY <1>1
    <3> QED
      BY <1>1, <3>1 DEF Inferred, LastInferred, RectSlice
  <2> QED
    BY <2>1, <2>2
<1>4. rects \in Seq(RectSlice) /\ Len(rects) = n /\ Heads(rects) = Heads(given)
  BY <1>1, <1>3, InferredMeans
<1>5. g \in 1..n /\ g <= i /\ Heads(rects)[g] = g
      /\ (g = i \/ (InTile(r) /\ i < g + r.slicesInTile))
  BY <1>1, <1>4, HeadsMean
<1>6. /\ \A k \in 1..n : rects[k] \in RectSlice
      /\ r \in RectSlice /\ r.tileIdx \in Nat /\ r.tileIdx < NumTiles(pic)
      /\ ~InTile(r) => x + r.width <= NumTileCols(pic) /\ y + r.height <= NumTileRows(pic)
      /\ InTile(r) => /\ r.slicesInTile \in 1..(n - g + 1)
                      /\ Boundaries([j \in 1..(r.slicesInTile - 1) |-> rects[g + j - 1].ctuHeight])
                           [r.slicesInTile] < pic.rows[y + 1]
  <2>1. \A k \in 1..n : rects[k] \in RectSlice
    BY <1>4
  <2>2. /\ r.tileIdx < NumTiles(pic)
        /\ ~InTile(r) => x + r.width <= NumTileCols(pic) /\ y + r.height <= NumTileRows(pic)
        /\ InTile(r) => /\ r.slicesInTile \in 1..(n - g + 1)
                        /\ Boundaries([j \in 1..(r.slicesInTile - 1) |-> rects[g + j - 1].ctuHeight])
                             [r.slicesInTile] < pic.rows[y + 1]
    BY <1>2, <1>4, <1>5 DEF IsSignalling
  <2> QED
    BY <1>5, <2>1, <2>2 DEF RectSlice
<1> DEFINE top == TileRowBd(pic, y)
           above == Boundaries([j \in 1..(i - g) |-> rects[g + j - 1].ctuHeight])[i - g + 1]
           bottom == IF i = g + r.slicesInTile - 1 THEN TileRowBd(pic, y + 1)
                     ELSE top + above + rects[i].ctuHeight
<1>7. RectSliceMap(pic, given)[i] =
        IF ~InTile(r) THEN CtusOfTiles(pic, r.tileIdx, r.width, r.height)
        ELSE CtusOf(pic, TileColumnBd(pic, x), TileColumnBd(pic, x + 1), top + above, bottom)
  BY DEF RectSliceMap
<1>8. CASE ~InTile(r)
  <2>1. r.width \in Nat /\ r.height \in Nat
    BY <1>6 DEF RectSlice
  <2> QED
    BY <1>6, <1>7, <1>8, <2>1, CtusOfTilesMeans
<1>9. CASE InTile(r)
  <2> DEFINE s == r.slicesInTile  m == i - g
             H == [j \in 1..(s - 1) |-> rects[g + j - 1].ctuHeight]
             P == [j \in 1..m |-> rects[g + j - 1].ctuHeight]
  <2>1. /\ s \in 1..(n - g + 1) /\ m \in 0..(s - 1) /\ s \in Nat /\ m \in Nat /\ g \in 1..n
        /\ Boundaries(H)[s] < pic.rows[y + 1]
    BY <1>1, <1>5, <1>6, <1>9
  <2>2. \A k \in 1..n : rects[k].ctuHeight \in Nat
    BY <1>6 DEF RectSlice
  <2> HIDE DEF s, m, g, rects, n
  <2>3. \A j \in 1..(s - 1) : g + j - 1 \in 1..n
    BY <1>1, <2>1
  <2>4. /\ H \in Seq(Nat) /\ Len(H) = s - 1 /\ P \in Seq(Nat) /\ Len(P) = m
        /\ \A j \in 1..m : P[j] = H[j]
    <3>1. s - 1 \in Nat /\ \A j \in 1..m : j \in 1..(s - 1)
      BY <2>1
    <3>2. \A j \in 1..(s - 1) : H[j] \in Nat
      BY <2>2, <2>3
    <3>3. \A j \in 1..m : P[j] = H[j]
      BY <3>1
    <3>4. H = [j \in 1..(s - 1) |-> H[j]] /\ P = [j \in 1..m |-> P[j]]
      OBVIOUS
    <3> HIDE DEF H, P
    <3>5. H \in [1..(s - 1) -> Nat] /\ DOMAIN H = 1..(s - 1)
      BY <3>2, <3>4
    <3>6. P \in [1..m -> Nat] /\ DOMAIN P = 1..m
      BY <3>1, <3>2, <3>3, <3>4
    <3>7. H \in Seq(Nat) /\ Len(H) = s - 1
      BY <3>1, <3>5
    <3>8. P \in Seq(Nat) /\ Len(P) = m
      BY <2>1, <3>6
    <3> QED
      BY <3>3, <3>7, <3>8
  <2>5. /\ Boundaries(H) \in [1..((s - 1) + 1) -> Nat]
        /\ \A j, k \in 1..((s - 1) + 1) : j <= k => Boundaries(H)[j] <= Boundaries(H)[k]
    BY <2>4, BoundariesGrow
  <2>6. above = Boundaries(H)[m + 1]
    <3>1. above = Boundaries(P)[m + 1]
      BY DEF m
    <3> HIDE DEF H, P, above
    <3>2. H \in Seq(Int) /\ P \in Seq(Int) /\ m <= Len(H) /\ m <= Len(P)
      BY <2>1, <2>4
    <3>3. \A j \in 1..(m + 1) : Boundaries(P)[j] = Boundaries(H)[j]
      BY <2>1, <2>4, <3>2, BoundariesPrefix
    <3> QED
      BY <2>1, <3>1, <3>3
  <2>7. x \in 0..(NumTileCols(pic) - 1) /\ y \in 0..(NumTileRows(pic) - 1)
    BY <1>6, OneTile
  <2>8. top \in Nat /\ TileRowBd(pic, y + 1) = top + pic.rows[y + 1] /\ pic.rows[y + 1] \in Nat
    <3>1. /\ y \in 0..(Len(pic.rows) - 1) /\ Len(pic.rows) \in Positive
          /\ Boundaries(pic.rows)[(y + 1) + 1] = Boundaries(pic.rows)[y + 1] + pic.rows[y + 1]
      BY <2>7, PartsMean DEF IsTiled, NumTileRows
    <3>2. pic.rows[y + 1] \in Positive
      BY <3>1 DEF IsTiled, Positive
    <3>3. top \in Nat
      BY <2>7, TileRows
    <3> QED
      BY <3>1, <3>2, <3>3 DEF TileRowBd, Positive
  <2> HIDE DEF x, y, top, above, H, P, r
  <2>9. above \in Nat /\ above <= Boundaries(H)[s] /\ Boundaries(H)[s] \in Nat
    <3>1. m + 1 \in 1..((s - 1) + 1) /\ s \in 1..((s - 1) + 1) /\ m + 1 <= s
      BY <2>1
    <3> QED
      BY <2>5, <2>6, <3>1
  <2>10. bottom \in Nat /\ bottom <= TileRowBd(pic, y + 1)
    <3>1. CASE i = g + s - 1
      BY <2>8, <3>1 DEF s
    <3>2. CASE i # g + s - 1
      <4>a. g \in Int /\ i \in Int /\ m = i - g
        BY <1>1, <2>1 DEF m
      <4>d. m < s /\ s \in Int
        BY <2>1
      <4>e. m + 1 # s
        BY <3>2, <4>a, <4>d
      <4>b. m + 1 < s
        BY <4>a, <4>d, <4>e
      <4>c. g + (m + 1) - 1 = i
        BY <4>a
      <4>1. m + 1 \in 1..(s - 1) /\ g + (m + 1) - 1 = i /\ (m + 1) + 1 \in 1..((s - 1) + 1)
            /\ (m + 1) + 1 <= s /\ s \in 1..((s - 1) + 1)
        <5>1. m \in Nat /\ s \in Nat /\ s >= 1
          BY <2>1
        <5> QED
          BY <4>b, <4>c, <5>1
      <4>2. H[m + 1] = rects[i].ctuHeight /\ rects[i].ctuHeight \in Nat
        BY <1>1, <2>2, <4>1 DEF H, n
      <4>3. Boundaries(H)[(m + 1) + 1] = Boundaries(H)[m + 1] + H[m + 1]
        <5>1. H \in Seq(Int) /\ m + 1 \in 1..Len(H)
          BY <2>4, <4>1
        <5> QED
          BY <5>1, BoundariesMeans
      <4>4. above + rects[i].ctuHeight <= Boundaries(H)[s]
        BY <2>5, <2>6, <4>1, <4>2, <4>3
      <4>5. bottom = top + above + rects[i].ctuHeight
        BY <3>2 DEF s
      <4> DEFINE u == Boundaries(H)[s]  c == rects[i].ctuHeight  v == pic.rows[y + 1]
      <4>6. u \in Nat /\ c \in Nat /\ v \in Nat /\ above \in Nat /\ top \in Nat /\ above + c <= u /\ u < v
        BY <2>1, <2>8, <2>9, <4>2, <4>4
      <4>7. bottom = top + above + c /\ TileRowBd(pic, y + 1) = top + v
        BY <2>8, <4>5
      <4> HIDE DEF u, c, v, bottom
      <4> QED
        BY <4>6, <4>7
    <3> QED
      BY <3>1, <3>2
  <2> HIDE DEF bottom
  <2>11. top + above \in Nat /\ TileRowBd(pic, y) <= top + above
    BY <2>8, <2>9 DEF top
  <2>12. InOrder(pic, CtusOf(pic, TileColumnBd(pic, x), TileColumnBd(pic, x + 1), top + above, bottom))
    BY <2>7, <2>10, <2>11, CtusOfMeans
  <2> QED
    BY <1>7, <1>9, <2>12
<1> QED
  BY <1>8, <1>9

-----------------------------------------------------------------------------
(* Where substreams end.                                                    *)

\* Tiles are numbered row by row.
LEMMA TileIdxMeans ==
  ASSUME NEW pic, IsTiled(pic), NEW c, NEW d,
         CtuX(pic, c) \in 0..(pic.width - 1), CtuY(pic, c) \in 0..(pic.height - 1),
         CtuX(pic, d) \in 0..(pic.width - 1), CtuY(pic, d) \in 0..(pic.height - 1)
  PROVE  TileIdx(pic, c) = TileIdx(pic, d) <=> Col(pic, c) = Col(pic, d) /\ Row(pic, c) = Row(pic, d)
<1> DEFINE n == NumTileCols(pic)
<1>1. /\ n \in Nat /\ n >= 1
      /\ Col(pic, c) \in 0..(n - 1) /\ Col(pic, d) \in 0..(n - 1)
      /\ Row(pic, c) \in Nat /\ Row(pic, d) \in Nat
  BY TileColumns, TileRows DEF Col, Row
<1>2. /\ TileIdx(pic, c) = Row(pic, c) * n + Col(pic, c)
      /\ TileIdx(pic, d) = Row(pic, d) * n + Col(pic, d)
  BY DEF TileIdx, Row, Col
<1> DEFINE a == Row(pic, c)  b == Row(pic, d)  p == Col(pic, c)  q == Col(pic, d)
<1>3. n \in Nat /\ n >= 1 /\ a \in Nat /\ b \in Nat /\ p \in 0..(n - 1) /\ q \in 0..(n - 1)
  BY <1>1
<1>4. TileIdx(pic, c) = n * a + p /\ TileIdx(pic, d) = n * b + q
  BY <1>2, <1>3
<1> HIDE DEF n, a, b, p, q
<1>5. n * a + p = n * b + q => a = b /\ p = q
  BY <1>3
<1>6. TileIdx(pic, c) = TileIdx(pic, d) <=> a = b /\ p = q
  BY <1>4, <1>5
<1> QED
  BY <1>6 DEF a, b, p, q

\* The rules by which the encoder ends a substream, the decoder does, and two
\* functions count them, say the same of CTUs that follow one another.
LEMMA EndsAlike ==
  ASSUME NEW pic, IsTiled(pic), NEW wpp \in BOOLEAN, NEW c, NEW d, Follows(pic, c, d),
         CtuX(pic, c) \in 0..(pic.width - 1), CtuY(pic, c) \in 0..(pic.height - 1),
         CtuX(pic, d) \in 0..(pic.width - 1), CtuY(pic, d) \in 0..(pic.height - 1)
  PROVE  LET ends == AtRightEdge(pic, c) /\ (AtBottomEdge(pic, c) \/ wpp)
         IN /\ (TileIdx(pic, d) # TileIdx(pic, c) \/ (wpp /\ CtuIsTileColBd(pic, d))) <=> ends
            /\ (CtuIsTileColBd(pic, d) /\ (CtuIsTileRowBd(pic, d) \/ wpp)) <=> ends
            /\ (\/ Row(pic, d) # Row(pic, c) \/ Col(pic, d) # Col(pic, c)
                \/ wpp /\ CtuY(pic, d) # CtuY(pic, c)) <=> ends
<1>1. TileIdx(pic, d) = TileIdx(pic, c) <=> Col(pic, d) = Col(pic, c) /\ Row(pic, d) = Row(pic, c)
  BY TileIdxMeans
<1>2. CASE InRow(pic, c, d)
  BY <1>1, <1>2 DEF InRow
<1>3. CASE InNextRow(pic, c, d)
  <2>1. CtuY(pic, d) # CtuY(pic, c)
    BY <1>3 DEF InNextRow
  <2> QED
    BY <1>1, <1>3, <2>1 DEF InNextRow
<1>4. CASE InOtherTile(pic, c, d)
  BY <1>1, <1>4 DEF InOtherTile
<1> QED
  BY <1>2, <1>3, <1>4 DEF Follows

-----------------------------------------------------------------------------
(* What CTUs lists have.                                                    *)

In(c, list) == \E k \in 1..Len(list) : list[k] = c

\* The CTUs of the picture.
CtusOfPicture(pic) == 0..(pic.width * pic.height - 1)

\* Each CTU is in a column and a row.
LEMMA CtuPlace ==
  ASSUME NEW pic, IsTiled(pic), NEW c \in CtusOfPicture(pic)
  PROVE  /\ CtuX(pic, c) \in 0..(pic.width - 1) /\ CtuY(pic, c) \in 0..(pic.height - 1)
         /\ c = CtuY(pic, c) * pic.width + CtuX(pic, c)
<1> DEFINE w == pic.width  h == pic.height  y == c \div w
<1>1. w \in Nat /\ w >= 1 /\ h \in Nat /\ h >= 1
  BY DEF IsTiled, Positive
<1>2. CtuX(pic, c) = c % w /\ CtuY(pic, c) = y
  BY DEF CtuX, CtuY
<1>3. c \in 0..(w * h - 1)
  BY DEF CtusOfPicture
<1> HIDE DEF w, h
<1>4. w * h \in Nat /\ c \in Nat /\ c < w * h
  <2>1. w * h \in Nat
    BY <1>1
  <2> QED
    BY <1>3, <2>1
<1>5. /\ c % w \in 0..(w - 1) /\ y \in Nat /\ y * w <= c /\ c = y * w + (c % w)
  <2>1. c \div w \in Nat /\ c % w \in 0..(w - 1) /\ c = (c \div w) * w + (c % w)
    BY <1>1, <1>4
  <2> QED
    BY <1>1, <2>1
<1> HIDE DEF y
<1>6. y < h
  <2> SUFFICES ASSUME y >= h PROVE FALSE
    BY <1>1, <1>5
  <2>1. y * w >= h * w
    BY <1>1, <1>5
  <2>2. h * w = w * h
    BY <1>1
  <2>3. y * w \in Nat
    BY <1>1, <1>5
  <2> QED
    BY <1>4, <1>5, <2>1, <2>2, <2>3
<1> QED
  BY <1>1, <1>2, <1>5, <1>6 DEF w, h

\* The number of the CTU in this column and row.
LEMMA CtuAt ==
  ASSUME NEW pic, IsTiled(pic), NEW x \in 0..(pic.width - 1), NEW y \in 0..(pic.height - 1)
  PROVE  /\ y * pic.width + x \in CtusOfPicture(pic)
         /\ CtuX(pic, y * pic.width + x) = x /\ CtuY(pic, y * pic.width + x) = y
<1> DEFINE w == pic.width  h == pic.height  c == y * w + x
<1>1. w \in Nat /\ w >= 1 /\ h \in Nat /\ h >= 1
  BY DEF IsTiled, Positive
<1>2. c \in Nat /\ CtuX(pic, c) = x /\ CtuY(pic, c) = y
  <2>1. y \in Nat
    BY <1>1
  <2> QED
    BY <2>1, Coordinates
<1>3. x \in 0..(w - 1) /\ y \in 0..(h - 1)
  OBVIOUS
<1> HIDE DEF w, h
<1>4. c <= w * h - 1 /\ w * h \in Nat
  <2>1. y * w <= (h - 1) * w /\ (h - 1) * w = w * h - w /\ y * w \in Nat /\ w * h \in Nat
    BY <1>1, <1>3
  <2> QED
    BY <1>1, <1>3, <2>1
<1>5. c \in 0..(w * h - 1)
  BY <1>2, <1>4
<1> QED
  BY <1>2, <1>5 DEF w, h, CtusOfPicture

\* A CTU and its place.
LEMMA SamePlace ==
  ASSUME NEW pic, IsTiled(pic), NEW c \in CtusOfPicture(pic), NEW d \in CtusOfPicture(pic),
         CtuX(pic, c) = CtuX(pic, d), CtuY(pic, c) = CtuY(pic, d)
  PROVE  c = d
BY CtuPlace

\* CtusOf has the CTUs of its rectangle.
LEMMA InCtusOf ==
  ASSUME NEW pic, IsTiled(pic), NEW left \in Nat, NEW right \in Nat, left < right, right <= pic.width,
         NEW top \in Nat, NEW bottom \in Nat, bottom <= pic.height
  PROVE  LET list == CtusOf(pic, left, right, top, bottom)
         IN /\ \A k \in 1..Len(list) : list[k] \in CtusOfPicture(pic)
            /\ \A c \in CtusOfPicture(pic) :
                 In(c, list) <=> CtuX(pic, c) \in left..(right - 1) /\ CtuY(pic, c) \in top..(bottom - 1)
<1> DEFINE w == right - left
           n == w * (bottom - top)
           X(k) == left + ((k - 1) % w)
           Y(k) == top + (k - 1) \div w
           list == CtusOf(pic, left, right, top, bottom)
<1>1. pic.width \in Nat /\ pic.height \in Nat
  BY DEF IsTiled, Positive
<1>2. w \in Nat /\ w >= 1 /\ n \in Int /\ w = right - left
  <2>1. w \in Nat /\ w >= 1
    OBVIOUS
  <2> HIDE DEF w
  <2> QED
    BY <2>1 DEF w
<1> HIDE DEF w
<1>3. list = [k \in 1..n |-> Y(k) * pic.width + X(k)]
  <2>1. \A k \in 1..n : (top + (k - 1) \div w) * pic.width + left + ((k - 1) % w)
                          = Y(k) * pic.width + X(k)
    <3> TAKE k \in 1..n
    <3> DEFINE q == (k - 1) \div w   r == (k - 1) % w
    <3>1. q \in Int /\ r \in Int
      BY <1>2
    <3> HIDE DEF q, r
    <3>2. (top + q) * pic.width \in Int
      BY <1>1, <3>1
    <3>3. (top + q) * pic.width + left + r = (top + q) * pic.width + (left + r)
      BY <1>1, <3>1, <3>2
    <3> QED
      BY <3>3 DEF q, r
  <2> QED
    BY <2>1 DEF CtusOf, w
<1>4. Len(list) = (IF n >= 0 THEN n ELSE 0) /\ DOMAIN list = 1..n
  <2> DEFINE m == IF n >= 0 THEN n ELSE 0
  <2>1. 1..n = 1..m /\ m \in Nat
    BY <1>2
  <2>2. DOMAIN list = 1..m /\ list = [k \in 1..m |-> list[k]]
    BY <1>3, <2>1
  <2> HIDE DEF list, m, n
  <2>3. Len(list) = m
    BY <2>1, <2>2
  <2> QED
    BY <2>1, <2>2, <2>3 DEF m
<1>5. \A k \in 1..Len(list) : k \in 1..n
  BY <1>2, <1>4
<1>6. ASSUME NEW k \in 1..n
      PROVE  X(k) \in left..(right - 1) /\ Y(k) \in top..(bottom - 1)
  <2> DEFINE q == (k - 1) \div w   r == (k - 1) % w   h == bottom - top
  <2>1. q \in Nat /\ r \in 0..(w - 1) /\ k - 1 = w * q + r /\ k - 1 < w * h /\ h \in Int /\ k - 1 \in Nat
    BY <1>2
  <2> HIDE DEF q, r, h
  <2>2. q < h
    BY <1>2, <2>1
  <2>3. left + r \in left..(right - 1) /\ top + q \in top..(bottom - 1)
    BY <1>2, <2>1, <2>2 DEF h
  <2> QED
    BY <2>3 DEF q, r
<1>7. ASSUME NEW k \in 1..n
      PROVE  /\ list[k] \in CtusOfPicture(pic) /\ CtuX(pic, list[k]) = X(k) /\ CtuY(pic, list[k]) = Y(k)
  <2>1. list[k] = Y(k) * pic.width + X(k)
    BY <1>3
  <2>2. X(k) \in left..(right - 1) /\ Y(k) \in top..(bottom - 1)
    BY <1>6
  <2> HIDE DEF X, Y, list
  <2>3. X(k) \in 0..(pic.width - 1) /\ Y(k) \in 0..(pic.height - 1)
    BY <1>1, <2>2
  <2> QED
    BY <2>1, <2>3, CtuAt
<1>8. ASSUME NEW c \in CtusOfPicture(pic),
             CtuX(pic, c) \in left..(right - 1), CtuY(pic, c) \in top..(bottom - 1)
      PROVE  In(c, list)
  <2> DEFINE r == CtuX(pic, c) - left  q == CtuY(pic, c) - top  h == bottom - top
             k == w * q + r + 1
  <2>1. r \in 0..(w - 1) /\ q \in 0..(h - 1) /\ h \in Nat
    BY <1>2, <1>8
  <2>2. left + r = CtuX(pic, c) /\ top + q = CtuY(pic, c)
    BY <1>8
  <2> HIDE DEF r, q, h
  <2>3. w * q \in Nat /\ w * h \in Nat /\ w * (q + 1) = w * q + w /\ w * (q + 1) <= w * h
    <3>1. q \in Nat /\ q + 1 <= h /\ q + 1 \in Nat
      BY <2>1
    <3> QED
      BY <1>2, <2>1, <3>1
  <2>4. k - 1 = w * q + r /\ k \in 1..(w * h)
    BY <1>2, <2>1, <2>3
  <2>5. (k - 1) \div w = q /\ (k - 1) % w = r
    <3> HIDE DEF k
    <3>1. k - 1 \in Nat /\ q \in Nat
      BY <2>1, <2>3, <2>4
    <3> QED
      BY <1>2, <2>1, <2>4, <3>1
  <2> HIDE DEF k
  <2>6. X(k) = CtuX(pic, c) /\ Y(k) = CtuY(pic, c)
    BY <2>2, <2>5
  <2>7. k \in 1..n
    BY <2>4 DEF h
  <2>8. list[k] = c
    BY <1>7, <2>6, <2>7, SamePlace
  <2>9. k \in 1..Len(list)
    BY <1>2, <1>4, <2>7
  <2> QED
    BY <2>8, <2>9 DEF In
<1>9. ASSUME NEW c \in CtusOfPicture(pic), In(c, list)
      PROVE  CtuX(pic, c) \in left..(right - 1) /\ CtuY(pic, c) \in top..(bottom - 1)
  <2>1. PICK k \in 1..Len(list) : list[k] = c
    BY <1>9 DEF In
  <2> QED
    BY <1>5, <1>6, <1>7, <2>1
<1> HIDE DEF list
<1> QED
  BY <1>5, <1>7, <1>8, <1>9 DEF list

\* A sequence of sequences has what they have.
LEMMA InFlatten ==
  ASSUME NEW T, NEW seqs \in Seq(Seq(T))
  PROVE  \A c : In(c, FlattenSeq(seqs)) <=> \E i \in 1..Len(seqs) : In(c, seqs[i])
<1> DEFINE L == Len(seqs)
<1>1. L \in Nat
  OBVIOUS
<1>2. CASE L = 0
  <2>1. FlattenSeq(seqs) = << >>
    BY <1>2 DEF FlattenSeq
  <2> QED
    BY <1>2, <2>1 DEF In
<1>3. CASE L > 0
  <2>1. PICK f \in [1..L -> Seq(T)] :
          /\ f[1] = seqs[1]
          /\ \A i \in 2..L : f[i] = f[i - 1] \o seqs[i]
          /\ FlattenSeq(seqs) = f[L]
    BY <1>3, FlattenMeans
  <2>2. \A i \in 1..L : seqs[i] \in Seq(T)
    OBVIOUS
  <2> HIDE DEF L
  <2> DEFINE Good(n) == \A c : In(c, f[n]) <=> \E i \in 1..n : In(c, seqs[i])
             S == {n \in 1..L : Good(n)}
  <2>3. Good(1)
    <3>1. \A i \in 1..1 : i = 1
      OBVIOUS
    <3>2. 1 \in 1..1
      OBVIOUS
    <3> QED
      BY <2>1, <3>1, <3>2
  <2>4. ASSUME NEW n \in 1..L, Good(n), n < L PROVE Good(n + 1)
    <3> DEFINE a == f[n]  b == seqs[n + 1]
    <3>1. n + 1 \in 2..L /\ n + 1 \in 1..L /\ (n + 1) - 1 = n /\ n \in Nat
      BY <1>1, <2>4
    <3>2. f[n + 1] = a \o b
      BY <2>1, <3>1
    <3>3. a \in Seq(T) /\ b \in Seq(T)
      BY <2>1, <2>2, <3>1
    <3>4. \A c : In(c, a) <=> \E i \in 1..n : In(c, seqs[i])
      BY <2>4
    <3>5. \A c : In(c, a \o b) <=> In(c, a) \/ In(c, b)
      <4> HIDE DEF a, b
      <4>1. /\ Len(a \o b) = Len(a) + Len(b) /\ Len(a) \in Nat /\ Len(b) \in Nat
            /\ \A k \in 1..Len(a) : (a \o b)[k] = a[k]
            /\ \A k \in 1..Len(b) : (a \o b)[Len(a) + k] = b[k]
            /\ \A k \in 1..(Len(a) + Len(b)) : k \in 1..Len(a) \/ k - Len(a) \in 1..Len(b)
        BY <3>3
      <4> TAKE c
      <4>2. ASSUME In(c, a) PROVE In(c, a \o b)
        <5>1. PICK k \in 1..Len(a) : a[k] = c
          BY <4>2 DEF In
        <5>2. k \in 1..Len(a \o b) /\ (a \o b)[k] = c
          BY <4>1, <5>1
        <5> QED
          BY <5>2 DEF In
      <4>3. ASSUME In(c, b) PROVE In(c, a \o b)
        <5>1. PICK k \in 1..Len(b) : b[k] = c
          BY <4>3 DEF In
        <5>2. Len(a) + k \in 1..Len(a \o b) /\ (a \o b)[Len(a) + k] = c
          BY <4>1, <5>1
        <5> QED
          BY <5>2 DEF In
      <4>4. ASSUME In(c, a \o b) PROVE In(c, a) \/ In(c, b)
        <5>1. PICK k \in 1..Len(a \o b) : (a \o b)[k] = c
          BY <4>4 DEF In
        <5>2. CASE k \in 1..Len(a)
          BY <4>1, <5>1, <5>2 DEF In
        <5>3. CASE k - Len(a) \in 1..Len(b)
          <6> DEFINE j == k - Len(a)
          <6>1. j \in 1..Len(b) /\ k = Len(a) + j
            BY <4>1, <5>1, <5>3
          <6>2. b[j] = c
            BY <4>1, <5>1, <6>1
          <6> QED
            BY <6>1, <6>2 DEF In
        <5> QED
          BY <4>1, <5>1, <5>2, <5>3
      <4> QED
        BY <4>2, <4>3, <4>4
    <3>6. \A i : i \in 1..(n + 1) <=> i \in 1..n \/ i = n + 1
      BY <3>1
    <3> HIDE DEF a
    <3> QED
      BY <3>2, <3>4, <3>5, <3>6
  <2> HIDE DEF Good
  <2>5. /\ 1 <= L /\ S \in SUBSET (1..L) /\ 1 \in S
        /\ \A n \in S : n < L => n + 1 \in S
    BY <1>1, <1>3, <2>3, <2>4
  <2> HIDE DEF S
  <2>6. S = 1..L
    BY <1>1, <2>5, InductionUpTo
  <2>7. L \in 1..L
    BY <1>1, <1>3
  <2>8. Good(L)
    BY <2>6, <2>7 DEF S
  <2> QED
    BY <2>1, <2>8 DEF Good, L
<1> QED
  BY <1>1, <1>2, <1>3

\* A list goes through its tiles in raster order.
Ascends(pic, list) ==
  \A k \in 1..(Len(list) - 1) : TileIdx(pic, list[k]) <= TileIdx(pic, list[k + 1])

\* Lists of CTUs of one tile each, for tiles in raster order, make such a list.
LEMMA FlattenAscends ==
  ASSUME NEW pic, NEW lists \in Seq(Seq(Nat)), NEW t \in [1..Len(lists) -> Nat],
         \A i \in 1..Len(lists) :
           Len(lists[i]) > 0 /\ \A k \in 1..Len(lists[i]) : TileIdx(pic, lists[i][k]) = t[i],
         \A i \in 1..(Len(lists) - 1) : t[i] <= t[i + 1]
  PROVE  Ascends(pic, FlattenSeq(lists))
<1> DEFINE L == Len(lists)
<1>1. L \in Nat /\ \A i \in 1..L : lists[i] \in Seq(Nat)
  OBVIOUS
<1>2. CASE L = 0
  <2>1. FlattenSeq(lists) = << >>
    BY <1>2 DEF FlattenSeq
  <2>2. 1..(Len(FlattenSeq(lists)) - 1) = {}
    BY <2>1
  <2> QED
    BY <2>2 DEF Ascends
<1>3. CASE L > 0
  <2>1. PICK f \in [1..L -> Seq(Nat)] :
          /\ f[1] = lists[1]
          /\ \A i \in 2..L : f[i] = f[i - 1] \o lists[i]
          /\ FlattenSeq(lists) = f[L]
    BY <1>3, FlattenMeans
  <2> HIDE DEF L
  <2> DEFINE Good(n) == /\ Ascends(pic, f[n]) /\ Len(f[n]) > 0
                        /\ TileIdx(pic, f[n][Len(f[n])]) = t[n]
             S == {n \in 1..L : Good(n)}
  <2>2. \A i \in 1..L : /\ Len(lists[i]) > 0 /\ Len(lists[i]) \in Nat /\ t[i] \in Nat
                        /\ \A k \in 1..Len(lists[i]) : TileIdx(pic, lists[i][k]) = t[i]
    <3> TAKE i \in 1..L
    <3>1. i \in 1..Len(lists) /\ lists[i] \in Seq(Nat)
      BY <1>1 DEF L
    <3>2. Len(lists[i]) \in Nat
      BY <3>1
    <3>3. t[i] \in Nat
      BY <3>1, Zenon
    <3>4. Len(lists[i]) > 0 /\ \A k \in 1..Len(lists[i]) : TileIdx(pic, lists[i][k]) = t[i]
      BY <3>1, Zenon
    <3> QED
      BY <3>2, <3>3, <3>4
  <2>3. Good(1)
    <3>1. 1 \in 1..L
      BY <1>1, <1>3
    <3>2. \A k \in 1..(Len(f[1]) - 1) : k \in 1..Len(f[1]) /\ k + 1 \in 1..Len(f[1])
      BY <2>1, <2>2, <3>1
    <3>3. Len(f[1]) \in 1..Len(f[1])
      BY <2>1, <2>2, <3>1
    <3>4. \A k \in 1..Len(f[1]) : TileIdx(pic, f[1][k]) = t[1]
      BY <2>1, <2>2, <3>1
    <3>5. t[1] \in Nat /\ Len(f[1]) > 0
      BY <2>1, <2>2, <3>1
    <3>6. Ascends(pic, f[1])
      BY <3>2, <3>4, <3>5 DEF Ascends
    <3> QED
      BY <3>3, <3>4, <3>5, <3>6
  <2>4. ASSUME NEW n \in 1..L, Good(n), n < L PROVE Good(n + 1)
    <3> DEFINE a == f[n]  b == lists[n + 1]
    <3>1. n + 1 \in 2..L /\ n + 1 \in 1..L /\ (n + 1) - 1 = n /\ n \in 1..(L - 1)
      BY <1>1, <2>4
    <3>2. f[n + 1] = a \o b
      BY <2>1, <3>1
    <3>3. a \in Seq(Nat) /\ b \in Seq(Nat) /\ Len(b) > 0
      BY <1>1, <2>1, <2>2, <3>1
    <3>4. t[n] <= t[n + 1]
      BY <3>1 DEF L
    <3>5. /\ Ascends(pic, a) /\ Len(a) > 0 /\ TileIdx(pic, a[Len(a)]) = t[n]
      BY <2>4
    <3>6. \A k \in 1..Len(b) : TileIdx(pic, b[k]) = t[n + 1]
      BY <2>2, <3>1
    <3>7. t[n + 1] \in Nat
      BY <2>2, <3>1
    <3> HIDE DEF a, b
    <3>8. /\ Len(a \o b) = Len(a) + Len(b) /\ Len(a) \in Nat /\ Len(b) \in Nat
          /\ \A k \in 1..Len(a) : (a \o b)[k] = a[k]
          /\ \A k \in 1..(Len(a) + Len(b)) : k > Len(a) =>
               k - Len(a) \in 1..Len(b) /\ (a \o b)[k] = b[k - Len(a)]
      BY <3>3
    <3> DEFINE s == a \o b
    <3>9. ASSUME NEW k \in 1..(Len(s) - 1) PROVE TileIdx(pic, s[k]) <= TileIdx(pic, s[k + 1])
      <4>1. k \in Nat /\ k + 1 \in 1..(Len(a) + Len(b)) /\ k \in 1..(Len(a) + Len(b))
        BY <3>8
      <4>2. CASE k < Len(a)
        <5>1. k \in 1..(Len(a) - 1) /\ k \in 1..Len(a) /\ k + 1 \in 1..Len(a)
          BY <3>8, <4>1, <4>2
        <5>2. s[k] = a[k] /\ s[k + 1] = a[k + 1]
          BY <3>8, <5>1
        <5> QED
          BY <3>5, <5>1, <5>2 DEF Ascends
      <4>3. CASE k = Len(a)
        <5>1. k \in 1..Len(a) /\ k + 1 > Len(a)
          BY <3>5, <3>8, <4>3
        <5>2. TileIdx(pic, s[k]) = t[n] /\ TileIdx(pic, s[k + 1]) = t[n + 1]
          BY <3>5, <3>6, <3>8, <4>1, <4>3, <5>1
        <5> QED
          BY <3>4, <5>2
      <4>4. CASE k > Len(a)
        <5>1. k + 1 > Len(a)
          BY <3>8, <4>1, <4>4
        <5>2. TileIdx(pic, s[k]) = t[n + 1] /\ TileIdx(pic, s[k + 1]) = t[n + 1]
          BY <3>6, <3>8, <4>1, <4>4, <5>1
        <5> QED
          BY <3>7, <5>2
      <4> QED
        BY <3>8, <4>1, <4>2, <4>3, <4>4
    <3>10. TileIdx(pic, s[Len(s)]) = t[n + 1] /\ Len(s) > 0
      <4>1. Len(s) \in 1..(Len(a) + Len(b)) /\ Len(s) > Len(a)
        BY <3>3, <3>8
      <4> QED
        BY <3>6, <3>8, <4>1
    <3> QED
      BY <3>2, <3>9, <3>10 DEF Ascends
  <2> HIDE DEF Good
  <2>5. /\ 1 <= L /\ S \in SUBSET (1..L) /\ 1 \in S
        /\ \A n \in S : n < L => n + 1 \in S
    BY <1>1, <1>3, <2>3, <2>4
  <2> HIDE DEF S
  <2>6. S = 1..L
    BY <1>1, <2>5, InductionUpTo
  <2>7. L \in 1..L
    BY <1>1, <1>3
  <2>8. Good(L)
    BY <2>6, <2>7 DEF S
  <2> QED
    BY <2>1, <2>8 DEF Good
<1> QED
  BY <1>1, <1>2, <1>3

\* Which tile a CTU is in.
LEMMA TileOf ==
  ASSUME NEW pic, IsTiled(pic), NEW c \in CtusOfPicture(pic)
  PROVE  /\ Col(pic, c) \in 0..(NumTileCols(pic) - 1) /\ Row(pic, c) \in 0..(NumTileRows(pic) - 1)
         /\ TileIdx(pic, c) = Row(pic, c) * NumTileCols(pic) + Col(pic, c)
         /\ TileIdx(pic, c) \in Nat
<1>1. CtuX(pic, c) \in 0..(pic.width - 1) /\ CtuY(pic, c) \in 0..(pic.height - 1)
  BY CtuPlace
<1>2. Col(pic, c) \in 0..(NumTileCols(pic) - 1) /\ Row(pic, c) \in 0..(NumTileRows(pic) - 1)
  BY <1>1, TileColumns, TileRows DEF Col, Row
<1>3. TileIdx(pic, c) = Row(pic, c) * NumTileCols(pic) + Col(pic, c)
  BY DEF TileIdx, Row, Col
<1>4. NumTileCols(pic) \in Nat /\ NumTileRows(pic) \in Nat
  BY TileColumns, TileRows
<1>5. Row(pic, c) * NumTileCols(pic) + Col(pic, c) \in Nat
  BY <1>2, <1>4
<1> QED
  BY <1>2, <1>3, <1>5

\* The CTUs of a tile.
LEMMA InTileList ==
  ASSUME NEW pic, IsTiled(pic),
         NEW i \in 0..(NumTileCols(pic) - 1), NEW j \in 0..(NumTileRows(pic) - 1)
  PROVE  LET list == CtusOfTile(pic, i, j)
         IN /\ \A k \in 1..Len(list) :
                 list[k] \in CtusOfPicture(pic) /\ TileIdx(pic, list[k]) = j * NumTileCols(pic) + i
            /\ \A c \in CtusOfPicture(pic) : In(c, list) <=> Col(pic, c) = i /\ Row(pic, c) = j
<1> DEFINE list == CtusOfTile(pic, i, j)
           left == TileColumnBd(pic, i)  right == TileColumnBd(pic, i + 1)
           top == TileRowBd(pic, j)  bottom == TileRowBd(pic, j + 1)
<1>1. /\ left \in Nat /\ right \in Nat /\ left < right /\ right <= pic.width /\ pic.width \in Nat
      /\ \A x \in Nat : left <= x /\ x < right => CtuToTileCol(pic, x) = i
  <2>1. i \in 0..NumTileCols(pic) /\ i + 1 \in 0..NumTileCols(pic) /\ i < i + 1
    BY TileColumns
  <2> QED
    BY <2>1, TileColumns
<1>2. /\ top \in Nat /\ bottom \in Nat /\ top < bottom /\ bottom <= pic.height /\ pic.height \in Nat
      /\ \A y \in Nat : top <= y /\ y < bottom => CtuToTileRow(pic, y) = j
  <2>1. j \in 0..NumTileRows(pic) /\ j + 1 \in 0..NumTileRows(pic) /\ j < j + 1
    BY TileRows
  <2> QED
    BY <2>1, TileRows
<1>3. list = CtusOf(pic, left, right, top, bottom)
  BY DEF CtusOfTile
<1> HIDE DEF list, left, right, top, bottom
<1>4. /\ \A k \in 1..Len(list) : list[k] \in CtusOfPicture(pic)
      /\ \A c \in CtusOfPicture(pic) :
           In(c, list) <=> CtuX(pic, c) \in left..(right - 1) /\ CtuY(pic, c) \in top..(bottom - 1)
  BY <1>1, <1>2, <1>3, InCtusOf
<1>5. ASSUME NEW c \in CtusOfPicture(pic)
      PROVE  /\ CtuX(pic, c) \in left..(right - 1) <=> Col(pic, c) = i
             /\ CtuY(pic, c) \in top..(bottom - 1) <=> Row(pic, c) = j
  <2>1. CtuX(pic, c) \in 0..(pic.width - 1) /\ CtuY(pic, c) \in 0..(pic.height - 1)
    BY CtuPlace
  <2>2. /\ TileColumnBd(pic, Col(pic, c)) <= CtuX(pic, c) /\ CtuX(pic, c) < TileColumnBd(pic, Col(pic, c) + 1)
        /\ TileRowBd(pic, Row(pic, c)) <= CtuY(pic, c) /\ CtuY(pic, c) < TileRowBd(pic, Row(pic, c) + 1)
    BY <2>1, TileColumns, TileRows DEF Col, Row
  <2>3. CtuX(pic, c) \in left..(right - 1) => Col(pic, c) = i
    BY <1>1, <2>1 DEF Col
  <2>4. CtuY(pic, c) \in top..(bottom - 1) => Row(pic, c) = j
    BY <1>2, <2>1 DEF Row
  <2>5. Col(pic, c) = i => CtuX(pic, c) \in left..(right - 1)
    <3> SUFFICES ASSUME Col(pic, c) = i PROVE CtuX(pic, c) \in left..(right - 1)
      OBVIOUS
    <3>1. left <= CtuX(pic, c) /\ CtuX(pic, c) < right
      BY <2>2 DEF left, right
    <3> QED
      BY <1>1, <2>1, <3>1
  <2>6. Row(pic, c) = j => CtuY(pic, c) \in top..(bottom - 1)
    <3> SUFFICES ASSUME Row(pic, c) = j PROVE CtuY(pic, c) \in top..(bottom - 1)
      OBVIOUS
    <3>1. top <= CtuY(pic, c) /\ CtuY(pic, c) < bottom
      BY <2>2 DEF top, bottom
    <3> QED
      BY <1>2, <2>1, <3>1
  <2> QED
    BY <2>3, <2>4, <2>5, <2>6
<1>6. \A c \in CtusOfPicture(pic) : In(c, list) <=> Col(pic, c) = i /\ Row(pic, c) = j
  BY <1>4, <1>5
<1>7. ASSUME NEW k \in 1..Len(list)
      PROVE  list[k] \in CtusOfPicture(pic) /\ TileIdx(pic, list[k]) = j * NumTileCols(pic) + i
  <2>1. list[k] \in CtusOfPicture(pic) /\ In(list[k], list)
    BY <1>4 DEF In
  <2>2. Col(pic, list[k]) = i /\ Row(pic, list[k]) = j
    BY <1>6, <2>1
  <2> QED
    BY <2>1, <2>2, TileOf
<1> QED
  BY <1>6, <1>7 DEF list

\* The CTUs of a rectangle of tiles.
LEMMA InTilesList ==
  ASSUME NEW pic, IsTiled(pic), NEW x \in 0..(NumTileCols(pic) - 1), NEW y \in 0..(NumTileRows(pic) - 1),
         NEW w \in Nat, NEW h \in Nat, w >= 1, x + w <= NumTileCols(pic), y + h <= NumTileRows(pic),
         NEW tile \in Nat, tile % NumTileCols(pic) = x, tile \div NumTileCols(pic) = y
  PROVE  LET list == CtusOfTiles(pic, tile, w, h)
         IN /\ Ascends(pic, list)
            /\ \A k \in 1..Len(list) : list[k] \in CtusOfPicture(pic)
            /\ \A c \in CtusOfPicture(pic) :
                 In(c, list) <=> Col(pic, c) \in x..(x + w - 1) /\ Row(pic, c) \in y..(y + h - 1)
<1> DEFINE n == w * h
           X(i) == x + ((i - 1) % w)
           Y(i) == y + (i - 1) \div w
           lists == [i \in 1..n |-> CtusOfTile(pic, X(i), Y(i))]
           m == NumTileCols(pic)
           t == [i \in 1..n |-> Y(i) * m + X(i)]
           list == CtusOfTiles(pic, tile, w, h)
<1>1. /\ NumTileCols(pic) \in Nat /\ NumTileRows(pic) \in Nat /\ n \in Nat /\ x \in Nat /\ y \in Nat
      /\ m \in Nat
  BY TileColumns, TileRows
<1>2. list = FlattenSeq(lists)
  BY DEF CtusOfTiles
<1>3. ASSUME NEW i \in 1..n
      PROVE  /\ X(i) \in x..(x + w - 1) /\ Y(i) \in y..(y + h - 1)
             /\ X(i) \in 0..(m - 1) /\ Y(i) \in 0..(NumTileRows(pic) - 1)
  <2> DEFINE q == (i - 1) \div w  r == (i - 1) % w
  <2>1. q \in Nat /\ r \in 0..(w - 1) /\ i - 1 = w * q + r /\ i - 1 < w * h
    OBVIOUS
  <2> HIDE DEF q, r, n
  <2>2. q < h
    BY <2>1
  <2>3. x + r \in x..(x + w - 1) /\ y + q \in y..(y + h - 1)
    BY <1>1, <2>1, <2>2
  <2>4. x + r \in 0..(m - 1) /\ y + q \in 0..(NumTileRows(pic) - 1)
    BY <1>1, <2>1, <2>2
  <2> QED
    BY <2>3, <2>4 DEF q, r
<1>4. ASSUME NEW a \in x..(x + w - 1), NEW b \in y..(y + h - 1)
      PROVE  \E i \in 1..n : X(i) = a /\ Y(i) = b
  <2> DEFINE r == a - x  q == b - y  k == w * q + r + 1
  <2>1. r \in 0..(w - 1) /\ q \in 0..(h - 1) /\ x + r = a /\ y + q = b
    BY <1>1
  <2> HIDE DEF r, q
  <2>2. w * q \in Nat /\ w * h \in Nat /\ w * (q + 1) = w * q + w /\ w * (q + 1) <= w * h
    <3>1. q \in Nat /\ q + 1 <= h /\ q + 1 \in Nat
      BY <2>1
    <3> QED
      BY <2>1, <3>1
  <2>3. k - 1 = w * q + r /\ k \in 1..(w * h)
    BY <2>1, <2>2
  <2>4. (k - 1) \div w = q /\ (k - 1) % w = r
    <3> HIDE DEF k
    <3>1. k - 1 \in Nat /\ q \in Nat
      BY <2>1, <2>2, <2>3
    <3> QED
      BY <2>1, <2>3, <3>1
  <2> HIDE DEF k
  <2>5. k \in 1..n /\ X(k) = a /\ Y(k) = b
    BY <2>1, <2>3, <2>4
  <2> QED
    BY <2>5
<1>5. ASSUME NEW i \in 1..(n - 1) PROVE t[i] <= t[i + 1]
  <2>1. i \in 1..n /\ i + 1 \in 1..n /\ (i + 1) - 1 = i
    BY <1>1
  <2>2. t[i] = Y(i) * m + X(i) /\ t[i + 1] = Y(i + 1) * m + X(i + 1)
    BY <2>1
  <2>3. X(i + 1) = x + (i % w) /\ Y(i + 1) = y + i \div w
    BY <2>1
  <2> DEFINE q == (i - 1) \div w  r == (i - 1) % w
  <2>4. q \in Nat /\ r \in 0..(w - 1) /\ i - 1 = w * q + r /\ i \in Nat
    BY <1>1
  <2>5. X(i) = x + r /\ Y(i) = y + q
    OBVIOUS
  <2> HIDE DEF X, Y, t, q, r
  <2>6. CASE r + 1 < w
    <3>1. i = w * q + (r + 1)
      BY <2>4
    <3>2. i % w = r + 1 /\ i \div w = q
      BY <2>4, <2>6, <3>1
    <3>3. (y + q) * m \in Nat
      BY <1>1, <2>4
    <3>4. t[i] = (y + q) * m + (x + r) /\ t[i + 1] = (y + q) * m + (x + (r + 1))
      BY <2>2, <2>3, <2>5, <3>2
    <3> QED
      BY <1>1, <2>4, <3>3, <3>4
  <2>7. CASE r + 1 = w
    <3>1. i = w * (q + 1) + 0
      BY <2>4, <2>7
    <3>2. i % w = 0 /\ i \div w = q + 1
      BY <2>4, <3>1
    <3>3. (y + (q + 1)) * m = (y + q) * m + m /\ (y + q) * m \in Nat
      BY <1>1, <2>4
    <3>4. t[i] = (y + q) * m + (x + r) /\ t[i + 1] = (y + (q + 1)) * m + (x + 0)
      BY <2>2, <2>3, <2>5, <3>2
    <3>5. x + r < m
      BY <1>3, <2>1, <2>5, <1>1, <2>4
    <3> QED
      BY <1>1, <2>4, <3>3, <3>4, <3>5
  <2> QED
    BY <2>4, <2>6, <2>7
<1> HIDE DEF X, Y, n, list
<1>6. \A i \in 1..n : /\ lists[i] = CtusOfTile(pic, X(i), Y(i)) /\ t[i] = Y(i) * m + X(i)
                      /\ t[i] \in Nat
  <2> TAKE i \in 1..n
  <2>1. Y(i) \in Nat /\ X(i) \in Nat
    BY <1>1, <1>3
  <2>2. Y(i) * m + X(i) \in Nat
    BY <1>1, <2>1
  <2> QED
    BY <2>2
<1>7. \A i \in 1..n : lists[i] \in Seq(Nat) /\ Len(lists[i]) > 0
  BY <1>3, <1>6, CtusOfTileMeans DEF InOrder
<1>8. lists \in Seq(Seq(Nat)) /\ Len(lists) = n /\ t \in [1..n -> Nat]
  <2>1. lists = [i \in 1..n |-> lists[i]] /\ t = [i \in 1..n |-> t[i]]
    OBVIOUS
  <2>2. \A i \in 1..n : t[i] \in Nat
    BY <1>6
  <2> HIDE DEF lists, t
  <2>3. lists \in [1..n -> Seq(Nat)] /\ DOMAIN lists = 1..n
    BY <1>7, <2>1
  <2>4. lists \in Seq(Seq(Nat)) /\ Len(lists) = n
    BY <1>1, <2>3
  <2>5. t \in [1..n -> Nat]
    BY <2>1, <2>2
  <2> QED
    BY <2>4, <2>5
<1> HIDE DEF lists, t
<1>9. ASSUME NEW i \in 1..n
      PROVE  /\ \A k \in 1..Len(lists[i]) :
                  lists[i][k] \in CtusOfPicture(pic) /\ TileIdx(pic, lists[i][k]) = t[i]
             /\ \A c \in CtusOfPicture(pic) :
                  In(c, lists[i]) <=> Col(pic, c) = X(i) /\ Row(pic, c) = Y(i)
  BY <1>3, <1>6, InTileList
<1>10. Ascends(pic, list)
  <2>1. \A i \in 1..Len(lists) :
          Len(lists[i]) > 0 /\ \A k \in 1..Len(lists[i]) : TileIdx(pic, lists[i][k]) = t[i]
    BY <1>7, <1>8, <1>9
  <2>2. \A i \in 1..(Len(lists) - 1) : t[i] <= t[i + 1]
    BY <1>5, <1>8
  <2>3. t \in [1..Len(lists) -> Nat]
    BY <1>8
  <2> QED
    BY <1>2, <1>8, <2>1, <2>2, <2>3, FlattenAscends
<1>11. \A c : In(c, list) <=> \E i \in 1..n : In(c, lists[i])
  BY <1>2, <1>8, InFlatten
<1>12. \A k \in 1..Len(list) : list[k] \in CtusOfPicture(pic)
  <2> TAKE k \in 1..Len(list)
  <2>1. In(list[k], list)
    BY DEF In
  <2>2. PICK i \in 1..n : In(list[k], lists[i])
    BY <1>11, <2>1
  <2>3. PICK l \in 1..Len(lists[i]) : lists[i][l] = list[k]
    BY <2>2 DEF In
  <2> QED
    BY <1>9, <2>3
<1>13. ASSUME NEW c \in CtusOfPicture(pic)
       PROVE  In(c, list) <=> Col(pic, c) \in x..(x + w - 1) /\ Row(pic, c) \in y..(y + h - 1)
  <2>1. ASSUME In(c, list)
        PROVE  Col(pic, c) \in x..(x + w - 1) /\ Row(pic, c) \in y..(y + h - 1)
    <3>1. PICK i \in 1..n : In(c, lists[i])
      BY <1>11, <2>1
    <3> QED
      BY <1>3, <1>9, <3>1
  <2>2. ASSUME Col(pic, c) \in x..(x + w - 1), Row(pic, c) \in y..(y + h - 1)
        PROVE  In(c, list)
    <3>1. PICK i \in 1..n : X(i) = Col(pic, c) /\ Y(i) = Row(pic, c)
      BY <1>4, <2>2
    <3>2. In(c, lists[i])
      BY <1>9, <3>1
    <3> QED
      BY <1>11, <3>2
  <2> QED
    BY <2>1, <2>2
<1> QED
  BY <1>10, <1>12, <1>13 DEF list

-----------------------------------------------------------------------------
(* The CTU above another.                                                   *)

\* It is one row higher, in a tile that is not later.
LEMMA AbovePlace ==
  ASSUME NEW pic, IsTiled(pic), NEW c \in CtusOfPicture(pic), CtuY(pic, c) > 0
  PROVE  /\ c - pic.width \in CtusOfPicture(pic)
         /\ CtuX(pic, c - pic.width) = CtuX(pic, c)
         /\ CtuY(pic, c - pic.width) = CtuY(pic, c) - 1
         /\ TileIdx(pic, c - pic.width) <= TileIdx(pic, c)
<1> DEFINE w == pic.width  x == CtuX(pic, c)  y == CtuY(pic, c)  d == c - w
<1>1. w \in Nat /\ w >= 1 /\ pic.height \in Nat
  BY DEF IsTiled, Positive
<1>2. x \in 0..(w - 1) /\ y \in 0..(pic.height - 1) /\ c = y * w + x
  BY CtuPlace
<1>3. y > 0
  OBVIOUS
<1> HIDE DEF x, y, d
<1>4. d = (y - 1) * w + x
  <2>1. (y - 1) * w = y * w - w /\ y * w \in Int
    BY <1>1, <1>2
  <2> QED
    BY <1>1, <1>2, <2>1 DEF d
<1>5. y - 1 \in 0..(pic.height - 1) /\ y - 1 <= y
  BY <1>1, <1>2, <1>3
<1>6. d \in CtusOfPicture(pic) /\ CtuX(pic, d) = x /\ CtuY(pic, d) = y - 1
  BY <1>2, <1>4, <1>5, CtuAt
<1>7. Col(pic, d) = Col(pic, c) /\ Row(pic, d) <= Row(pic, c)
  <2>1. CtuToTileRow(pic, y - 1) <= CtuToTileRow(pic, y)
    BY <1>2, <1>5, TilesMonotone
  <2> QED
    BY <1>6, <2>1 DEF Col, Row, x, y
<1> DEFINE n == NumTileCols(pic)  a == Row(pic, d)  b == Row(pic, c)  e == Col(pic, c)
<1>8. TileIdx(pic, d) = a * n + e /\ TileIdx(pic, c) = b * n + e
      /\ a \in Int /\ b \in Int /\ e \in Int /\ n \in Nat /\ a <= b
  <2>1. n \in Nat
    BY TileColumns
  <2> QED
    BY <1>6, <1>7, <2>1, TileOf
<1> HIDE DEF n, a, b, e
<1>9. a * n <= b * n /\ a * n \in Int /\ b * n \in Int
  BY <1>8
<1>10. TileIdx(pic, d) <= TileIdx(pic, c)
  BY <1>8, <1>9
<1> QED
  BY <1>6, <1>10 DEF d, x, y

\* A list that goes through its tiles in order does so over any distance.
LEMMA AscendsFar ==
  ASSUME NEW pic, NEW list, Len(list) \in Nat, Ascends(pic, list),
         \A k \in 1..Len(list) : TileIdx(pic, list[k]) \in Nat,
         NEW i \in 1..Len(list), NEW j \in 1..Len(list), i <= j
  PROVE  TileIdx(pic, list[i]) <= TileIdx(pic, list[j])
<1> DEFINE T(k) == TileIdx(pic, list[k])
           S == {k \in i..j : T(i) <= T(k)}
<1>1. \A k \in 1..Len(list) : T(k) \in Nat
  OBVIOUS
<1>2. \A k \in 1..(Len(list) - 1) : T(k) <= T(k + 1)
  BY DEF Ascends
<1> HIDE DEF T
<1>3. i \in S
  BY <1>1
<1>4. \A k \in S : k < j => k + 1 \in S
  <2> SUFFICES ASSUME NEW k \in S, k < j PROVE k + 1 \in S
    OBVIOUS
  <2>1. k \in 1..(Len(list) - 1) /\ k \in 1..Len(list) /\ k + 1 \in 1..Len(list) /\ k + 1 \in i..j
    OBVIOUS
  <2>2. T(i) <= T(k) /\ T(k) <= T(k + 1) /\ T(i) \in Nat /\ T(k) \in Nat /\ T(k + 1) \in Nat
    BY <1>1, <1>2, <2>1
  <2> QED
    BY <2>1, <2>2
<1>5. S = i..j
  <2>1. S \in SUBSET (i..j) /\ i \in Nat /\ j \in Nat
    OBVIOUS
  <2> HIDE DEF S
  <2> QED
    BY <1>3, <1>4, <2>1, InductionUpTo
<1>6. j \in S
  BY <1>5
<1> QED
  BY <1>6 DEF T

\* In such a list the CTU above comes first: while the list stays in a tile it goes
\* down, and it does not come back to a tile.
LEMMA AboveIsEarlier ==
  ASSUME NEW pic, IsTiled(pic), NEW list, InOrder(pic, list), Ascends(pic, list),
         \A k \in 1..Len(list) : list[k] \in CtusOfPicture(pic),
         NEW i \in 1..Len(list), NEW j \in 1..Len(list),
         CtuY(pic, list[i]) > 0, list[j] = list[i] - pic.width
  PROVE  j < i
<1> DEFINE n == Len(list)  T(k) == TileIdx(pic, list[k])  Y(k) == CtuY(pic, list[k])
<1>1. n \in Nat /\ i \in 1..n /\ j \in 1..n
  BY DEF InOrder
<1>2. \A k \in 1..n : T(k) \in Nat /\ Y(k) \in Nat
  <2> TAKE k \in 1..n
  <2>1. list[k] \in CtusOfPicture(pic)
    OBVIOUS
  <2>2. pic.height \in Nat
    BY DEF IsTiled, Positive
  <2>3. T(k) \in Nat
    BY <2>1, TileOf
  <2>4. Y(k) \in 0..(pic.height - 1)
    BY <2>1, CtuPlace
  <2> QED
    BY <2>2, <2>3, <2>4
<1>3. Y(j) = Y(i) - 1 /\ T(j) <= T(i)
  BY AbovePlace
<1>4. SUFFICES ASSUME i <= j PROVE FALSE
  BY <1>1
<1>5. \A k \in i..j : T(k) = T(i)
  <2> TAKE k \in i..j
  <2>1. k \in 1..n
    BY <1>1
  <2>a. Len(list) \in Nat /\ \A m \in 1..Len(list) : TileIdx(pic, list[m]) \in Nat
    BY <1>1, <1>2
  <2>b. k \in 1..Len(list) /\ i <= k /\ k <= j
    BY <1>1, <2>1
  <2>c. T(i) <= T(k)
    BY <2>a, <2>b, AscendsFar
  <2>d. T(k) <= T(j)
    BY <2>a, <2>b, AscendsFar
  <2>2. T(i) <= T(k) /\ T(k) <= T(j)
    BY <2>c, <2>d
  <2> HIDE DEF T
  <2>3. T(i) \in Nat /\ T(j) \in Nat /\ T(k) \in Nat
    BY <1>1, <1>2, <2>1
  <2> QED
    BY <1>3, <2>2, <2>3
<1>6. ASSUME NEW k \in i..j, k < j PROVE Y(k) <= Y(k + 1)
  <2>1. k \in 1..(n - 1) /\ k \in 1..n /\ k + 1 \in 1..n /\ k + 1 \in i..j
    BY <1>1, <1>6
  <2>2. Follows(pic, list[k], list[k + 1])
    BY <2>1 DEF InOrder
  <2>3. T(k) = T(k + 1)
    BY <1>5, <2>1
  <2>4. Col(pic, list[k]) = Col(pic, list[k + 1]) /\ Row(pic, list[k]) = Row(pic, list[k + 1])
    <3>1. /\ CtuX(pic, list[k]) \in 0..(pic.width - 1) /\ CtuY(pic, list[k]) \in 0..(pic.height - 1)
          /\ CtuX(pic, list[k + 1]) \in 0..(pic.width - 1) /\ CtuY(pic, list[k + 1]) \in 0..(pic.height - 1)
      BY <2>1 DEF InOrder
    <3> QED
      BY <2>3, <3>1, TileIdxMeans
  <2>5. Y(k + 1) = Y(k) \/ Y(k + 1) = Y(k) + 1
    BY <2>2, <2>4 DEF Follows, InRow, InNextRow, InOtherTile
  <2>6. Y(k) \in Nat
    BY <1>2, <2>1
  <2> QED
    BY <2>5, <2>6
<1> HIDE DEF T, Y, n
<1> DEFINE S == {k \in i..j : Y(i) <= Y(k)}
<1>7. i \in S
  BY <1>1, <1>2, <1>4
<1>8. \A k \in S : k < j => k + 1 \in S
  <2> SUFFICES ASSUME NEW k \in S, k < j PROVE k + 1 \in S
    OBVIOUS
  <2>1. k \in i..j /\ k \in 1..n /\ k + 1 \in 1..n /\ k + 1 \in i..j
    BY <1>1
  <2>2. Y(i) <= Y(k) /\ Y(k) <= Y(k + 1) /\ Y(i) \in Nat /\ Y(k) \in Nat /\ Y(k + 1) \in Nat
    BY <1>1, <1>2, <1>6, <2>1
  <2> QED
    BY <2>1, <2>2
<1>9. S = i..j
  <2>1. S \in SUBSET (i..j) /\ i \in Nat /\ j \in Nat
    BY <1>1
  <2> HIDE DEF S
  <2> QED
    BY <1>4, <1>7, <1>8, <2>1, InductionUpTo
<1>10. Y(i) <= Y(j)
  <2>1. j \in S
    BY <1>1, <1>4, <1>9
  <2> QED
    BY <2>1
<1> QED
  BY <1>1, <1>2, <1>3, <1>10

\* In every list of this map, and from list to list, the CTU above comes first.
UpFirst(pic, map) ==
  \A s, t \in DOMAIN map : \A i \in DOMAIN map[s], j \in DOMAIN map[t] :
    CtuY(pic, map[s][i]) > 0 /\ map[t][j] = map[s][i] - pic.width
      => t < s \/ (t = s /\ j < i)

\* The tiles of a raster-scan slice.
LEMMA RasterTiles ==
  ASSUME NEW pic, IsTiled(pic), NEW sizes \in Seq(Positive),
         Boundaries(sizes)[Len(sizes) + 1] = NumTiles(pic), NEW s \in 1..Len(sizes)
  PROVE  LET list == RasterSliceMap(pic, sizes)[s]
         IN /\ Ascends(pic, list)
            /\ \A k \in 1..Len(list) :
                 /\ list[k] \in CtusOfPicture(pic)
                 /\ Boundaries(sizes)[s] <= TileIdx(pic, list[k])
                 /\ TileIdx(pic, list[k]) < Boundaries(sizes)[s + 1]
<1> DEFINE first == Boundaries(sizes)[s]
           n == sizes[s]
           lists == [i \in 1..n |-> CtusOfTiles(pic, first + i - 1, 1, 1)]
           t == [i \in 1..n |-> first + i - 1]
           list == RasterSliceMap(pic, sizes)[s]
<1>1. list = FlattenSeq(lists)
  BY DEF RasterSliceMap
<1>2. /\ first \in Nat /\ n \in Nat /\ Boundaries(sizes)[s + 1] = first + n
      /\ first + n <= NumTiles(pic) /\ NumTiles(pic) \in Nat
      /\ NumTileCols(pic) \in Nat /\ NumTileCols(pic) >= 1
  <2>1. /\ Boundaries(sizes) \in [1..(Len(sizes) + 1) -> Nat]
        /\ \A i \in 1..Len(sizes) : Boundaries(sizes)[i + 1] = Boundaries(sizes)[i] + sizes[i]
        /\ \A i, j \in 1..(Len(sizes) + 1) : i < j => Boundaries(sizes)[i] < Boundaries(sizes)[j]
    BY BoundariesIncrease
  <2>2. sizes[s] \in Nat
    BY DEF Positive
  <2>3. s \in 1..(Len(sizes) + 1) /\ s + 1 \in 1..(Len(sizes) + 1) /\ Len(sizes) + 1 \in 1..(Len(sizes) + 1)
        /\ (s + 1 = Len(sizes) + 1 \/ s + 1 < Len(sizes) + 1)
    OBVIOUS
  <2>4. Boundaries(sizes)[s + 1] <= NumTiles(pic) /\ NumTiles(pic) \in Nat
    <3>1. Boundaries(sizes)[s + 1] \in Nat /\ Boundaries(sizes)[Len(sizes) + 1] \in Nat
      BY <2>1, <2>3
    <3> QED
      BY <2>1, <2>3, <3>1
  <2>5. NumTileCols(pic) \in Nat /\ NumTileCols(pic) >= 1
    BY TileColumns
  <2> QED
    BY <2>1, <2>2, <2>3, <2>4, <2>5
<1> HIDE DEF first, n
<1>3. ASSUME NEW i \in 1..n
      PROVE  /\ lists[i] \in Seq(Nat) /\ Len(lists[i]) > 0 /\ t[i] \in Nat
             /\ first <= t[i] /\ t[i] < first + n
             /\ \A k \in 1..Len(lists[i]) :
                  lists[i][k] \in CtusOfPicture(pic) /\ TileIdx(pic, lists[i][k]) = t[i]
  <2> DEFINE u == first + i - 1  c == NumTileCols(pic)  x == u % c  y == u \div c
  <2>1. u \in Nat /\ u < NumTiles(pic) /\ lists[i] = CtusOfTiles(pic, u, 1, 1) /\ t[i] = u
        /\ first <= u /\ u < first + n
    BY <1>2
  <2> HIDE DEF u, lists, t
  <2>2. x \in 0..(c - 1) /\ y \in 0..(NumTileRows(pic) - 1) /\ lists[i] = CtusOfTile(pic, x, y)
    BY <2>1, OneTile
  <2>3. y * c + x = u
    <3> HIDE DEF c
    <3>1. c \in Nat /\ c >= 1
      BY <1>2 DEF c
    <3>2. u = c * (u \div c) + (u % c) /\ u \div c \in Int /\ c * (u \div c) = (u \div c) * c
      BY <2>1, <3>1
    <3> QED
      BY <3>2
  <2> HIDE DEF x, y
  <2>4. lists[i] \in Seq(Nat) /\ Len(lists[i]) > 0
    BY <2>2, CtusOfTileMeans DEF InOrder
  <2>5. \A k \in 1..Len(lists[i]) :
          lists[i][k] \in CtusOfPicture(pic) /\ TileIdx(pic, lists[i][k]) = y * c + x
    BY <2>2, InTileList
  <2> QED
    BY <2>1, <2>3, <2>4, <2>5
<1>4. /\ DOMAIN lists = 1..n /\ lists = [i \in 1..n |-> lists[i]]
      /\ t = [i \in 1..n |-> t[i]] /\ \A i \in 1..(n - 1) : t[i] <= t[i + 1]
  <2>1. \A i \in 1..(n - 1) : t[i] <= t[i + 1]
    <3> TAKE i \in 1..(n - 1)
    <3>1. t[i] = first + i - 1 /\ t[i + 1] = first + (i + 1) - 1
      BY <1>2
    <3> HIDE DEF t
    <3> QED
      BY <1>2, <3>1
  <2> QED
    BY <2>1
<1> HIDE DEF lists, t
<1>5. lists \in Seq(Seq(Nat)) /\ Len(lists) = n
  <2>1. lists \in [1..n -> Seq(Nat)] /\ DOMAIN lists = 1..n
    BY <1>3, <1>4
  <2>2. n \in Nat
    BY <1>2
  <2> QED
    BY <2>1, <2>2
<1>6. t \in [1..n -> Nat]
  BY <1>3, <1>4
<1>7. Ascends(pic, list)
  <2>1. \A i \in 1..Len(lists) :
          Len(lists[i]) > 0 /\ \A k \in 1..Len(lists[i]) : TileIdx(pic, lists[i][k]) = t[i]
    BY <1>3, <1>5
  <2> QED
    BY <1>1, <1>4, <1>5, <1>6, <2>1, FlattenAscends
<1>8. ASSUME NEW k \in 1..Len(list)
      PROVE  /\ list[k] \in CtusOfPicture(pic)
             /\ first <= TileIdx(pic, list[k]) /\ TileIdx(pic, list[k]) < first + n
  <2>1. In(list[k], list)
    BY DEF In
  <2>2. PICK i \in 1..n : In(list[k], lists[i])
    BY <1>1, <1>5, <2>1, InFlatten
  <2>3. PICK l \in 1..Len(lists[i]) : lists[i][l] = list[k]
    BY <2>2 DEF In
  <2> QED
    BY <1>3, <2>3
<1> QED
  BY <1>2, <1>7, <1>8 DEF first

\* In raster-scan slices the CTU above comes first.
LEMMA RasterUpFirst ==
  ASSUME NEW pic, IsTiled(pic), NEW sizes \in Seq(Positive),
         Boundaries(sizes)[Len(sizes) + 1] = NumTiles(pic)
  PROVE  UpFirst(pic, RasterSliceMap(pic, sizes))
<1> DEFINE map == RasterSliceMap(pic, sizes)  first == Boundaries(sizes)
<1>1. DOMAIN map = 1..Len(sizes) /\ Len(sizes) \in Nat
  BY DEF RasterSliceMap
<1>2. ASSUME NEW s \in 1..Len(sizes)
      PROVE  /\ InOrder(pic, map[s]) /\ Ascends(pic, map[s])
             /\ DOMAIN map[s] = 1..Len(map[s])
             /\ \A k \in 1..Len(map[s]) :
                  /\ map[s][k] \in CtusOfPicture(pic)
                  /\ first[s] <= TileIdx(pic, map[s][k]) /\ TileIdx(pic, map[s][k]) < first[s + 1]
  <2>1. InOrder(pic, map[s])
    BY RasterInOrder
  <2>2. map[s] \in Seq(Nat)
    BY <2>1 DEF InOrder
  <2>3. DOMAIN map[s] = 1..Len(map[s])
    BY <2>2
  <2> QED
    BY <2>1, <2>3, RasterTiles
<1> HIDE DEF map
<1>3. ASSUME NEW s \in 1..Len(sizes), NEW t \in 1..Len(sizes),
             NEW i \in 1..Len(map[s]), NEW j \in 1..Len(map[t]),
             CtuY(pic, map[s][i]) > 0, map[t][j] = map[s][i] - pic.width
      PROVE  t < s \/ (t = s /\ j < i)
  <2>1. CASE t < s
    BY <2>1
  <2>2. CASE t = s
    <3>1. j < i
      BY <1>2, <1>3, <2>2, AboveIsEarlier
    <3> QED
      BY <2>2, <3>1
  <2>3. CASE t > s
    <3> DEFINE c == map[s][i]  d == map[t][j]
    <3>1. c \in CtusOfPicture(pic) /\ TileIdx(pic, c) < first[s + 1] /\ first[t] <= TileIdx(pic, d)
      BY <1>2
    <3>2. TileIdx(pic, d) <= TileIdx(pic, c)
      BY <1>3, <3>1, AbovePlace
    <3>3. first[s + 1] <= first[t] /\ first[s + 1] \in Nat /\ first[t] \in Nat
      <4>1. /\ first \in [1..(Len(sizes) + 1) -> Nat]
            /\ \A k, l \in 1..(Len(sizes) + 1) : k < l => first[k] < first[l]
        BY BoundariesIncrease
      <4>2. s + 1 \in 1..(Len(sizes) + 1) /\ t \in 1..(Len(sizes) + 1) /\ (s + 1 = t \/ s + 1 < t)
        BY <1>1, <2>3
      <4>3. first[s + 1] \in Nat /\ first[t] \in Nat
        BY <4>1, <4>2
      <4> QED
        BY <4>1, <4>2, <4>3
    <3>4. TileIdx(pic, c) \in Nat /\ TileIdx(pic, d) \in Nat
      <4>1. d \in CtusOfPicture(pic)
        BY <1>2
      <4> QED
        BY <3>1, <4>1, TileOf
    <3> HIDE DEF c, d, first
    <3> QED
      BY <3>1, <3>2, <3>3, <3>4
  <2> QED
    BY <2>1, <2>2, <2>3
<1> QED
  <2>1. \A s \in 1..Len(sizes) : DOMAIN map[s] = 1..Len(map[s])
    BY <1>2
  <2> QED
    BY <1>1, <1>3, <2>1 DEF UpFirst, map
=============================================================================
