----------------------- MODULE ConformingStreamProofs -----------------------
(***************************************************************************)
(* Theorems about the decoder and its streams, for every number and kind   *)
(* of pictures, every DPB size and every stream.                           *)
(*                                                                         *)
(* First, about PictureDecoder, which any stream may enter: what the       *)
(* operations of PictureList return, preserve and bound, for a list of any *)
(* length and without reference to the process; then the invariants and    *)
(* step properties that the run any_stream checks on a small instance.     *)
(*                                                                         *)
(* Then, about ConformingStream without the situations the decoder does    *)
(* not handle: the decoder finds every reference, does not fail and        *)
(* cancels no output of its own accord.  Last, what comes out: the file is *)
(* in output order, what waits and the list keep to the limits, and the    *)
(* stream implements DecodedVideo, the file growing at its end by decoded  *)
(* pictures, each once and in output order.                                *)
(***************************************************************************)
EXTENDS ConformingStream, FiniteOrders, SequenceTheorems

-----------------------------------------------------------------------------
(* The operations of PictureList.                                           *)

\* A list whose newest picture has at most number n.
IsList(pl, n) == DOMAIN pl \subseteq 1..n /\ pl \in [DOMAIN pl -> Buffer]

\* A set of buffer numbers is finite.
LEMMA FiniteNumbers ==
  ASSUME NEW n \in Nat, NEW S, S \subseteq 1..n
  PROVE  IsFiniteSet(S) /\ Cardinality(S) \in Nat
<1>1. IsFiniteSet(1..n)
  BY FS_Interval
<1>2. IsFiniteSet(S)
  BY <1>1, FS_Subset
<1> QED
  BY <1>2, FS_CardinalityType

\* sortPicList leaves one order: of two pictures of the list one comes before
\* the other, and coming before is transitive.
LEMMA BeforeIsOrder ==
  ASSUME NEW n \in Nat, NEW pl, IsList(pl, n),
         NEW i \in DOMAIN pl, NEW j \in DOMAIN pl, NEW k \in DOMAIN pl
  PROVE  /\ i # j => Before(pl, i, j) \/ Before(pl, j, i)
         /\ ~Before(pl, i, i)
         /\ Before(pl, i, j) /\ Before(pl, j, k) => Before(pl, i, k)
<1>1. \A x \in DOMAIN pl : x \in Int /\ pl[x].poc \in Int
  BY DEF IsList, Buffer
<1> QED
  BY <1>1 DEF Before

\* Among some pictures of the list one comes last.
LEMMA LastOfList ==
  ASSUME NEW n \in Nat, NEW pl, IsList(pl, n), NEW B \in SUBSET DOMAIN pl, B # {}
  PROVE  \E i \in B : \A j \in B : i = j \/ Before(pl, j, i)
<1> DEFINE Order == {ij \in B \X B : Before(pl, ij[1], ij[2])}
<1>1. IsFiniteSet(B)
  BY FiniteNumbers DEF IsList
<1>2. \A i, j \in B : <<i, j>> \in Order <=> Before(pl, i, j)
  OBVIOUS
<1> HIDE DEF Order
<1>3. \A i \in B : <<i, i>> \notin Order
  BY <1>2, BeforeIsOrder
<1>4. \A i, j, k \in B : <<i, j>> \in Order /\ <<j, k>> \in Order => <<i, k>> \in Order
  BY <1>2, BeforeIsOrder
<1>5. PICK i \in B : \A j \in B : <<i, j>> \notin Order
  BY <1>1, <1>3, <1>4, LastElement
<1> QED
  BY <1>2, <1>5, BeforeIsOrder

\* A call of xWriteOutput writes only waiting pictures of the list.
LEMMA BumpedWait ==
  ASSUME NEW pl, NEW last, NEW r, NEW b
  PROVE  Bumped(pl, last, r, b) \subseteq Waiting(pl)
BY DEF Bumped, Displayable, Waiting

\* Writing pictures keeps the list, its POCs and its reference marks; of the
\* flags it only lowers needed, of the written pictures, and reconstructed,
\* of those of them that are not references.
LEMMA AfterOutputKeeps ==
  ASSUME NEW n \in Nat, NEW pl, IsList(pl, n), NEW B \in SUBSET DOMAIN pl
  PROVE  LET out == AfterOutput(pl, B)
         IN /\ IsList(out, n) /\ DOMAIN out = DOMAIN pl
            /\ \A i \in DOMAIN pl :
                 /\ out[i].poc = pl[i].poc /\ out[i].cvs = pl[i].cvs
                 /\ out[i].referenced = pl[i].referenced
                 /\ out[i].needed = (pl[i].needed /\ i \notin B)
                 /\ out[i].reconstructed =
                      (pl[i].reconstructed /\ (i \notin B \/ pl[i].referenced))
            /\ Waiting(out) = Waiting(pl) \ B
<1> DEFINE out == AfterOutput(pl, B)
<1>1. DOMAIN out = DOMAIN pl
  BY DEF AfterOutput
<1>2. ASSUME NEW i \in DOMAIN pl
      PROVE  /\ out[i] \in Buffer
             /\ out[i].poc = pl[i].poc /\ out[i].cvs = pl[i].cvs
             /\ out[i].referenced = pl[i].referenced
             /\ out[i].needed = (pl[i].needed /\ i \notin B)
             /\ out[i].reconstructed =
                  (pl[i].reconstructed /\ (i \notin B \/ pl[i].referenced))
  <2>1. pl[i] \in Buffer
    BY DEF IsList
  <2>2. CASE i \in B
    BY <2>1, <2>2 DEF AfterOutput, Buffer
  <2>3. CASE i \notin B
    BY <2>1, <2>3 DEF AfterOutput, Buffer
  <2> QED
    BY <2>2, <2>3
<1>3. out = [i \in DOMAIN out |-> out[i]]
  BY DEF AfterOutput
<1>4. IsList(out, n)
  BY <1>1, <1>2, <1>3 DEF IsList
<1>5. Waiting(out) = Waiting(pl) \ B
  BY <1>1, <1>2 DEF Waiting
<1> QED
  BY <1>1, <1>2, <1>4, <1>5

\* The last displayed POC stays a POC.
LEMMA LastDisplayType ==
  ASSUME NEW n \in Nat, NEW pl, IsList(pl, n), NEW B \in SUBSET DOMAIN pl,
         NEW last \in Int
  PROVE  LastDisplay(pl, B, last) \in Int
<1>1. CASE B = {}
  BY <1>1 DEF LastDisplay
<1>2. CASE B # {}
  <2> DEFINE i == CHOOSE x \in B : \A j \in B : x = j \/ Before(pl, j, x)
  <2>1. i \in B
    BY <1>2, LastOfList
  <2>2. LastDisplay(pl, B, last) = pl[i].poc
    BY <1>2 DEF LastDisplay
  <2> QED
    BY <2>1, <2>2 DEF IsList, Buffer
<1> QED
  BY <1>1, <1>2

\* Suppressing output changes nothing but the needed flag of the suppressed
\* pictures.
LEMMA SuppressedKeeps ==
  ASSUME NEW n \in Nat, NEW pl, IsList(pl, n), NEW S
  PROVE  LET out == Suppressed(pl, S)
         IN /\ IsList(out, n) /\ DOMAIN out = DOMAIN pl
            /\ \A i \in DOMAIN pl :
                 /\ out[i].poc = pl[i].poc /\ out[i].cvs = pl[i].cvs
                 /\ out[i].referenced = pl[i].referenced
                 /\ out[i].needed = (pl[i].needed /\ i \notin S)
                 /\ out[i].reconstructed = pl[i].reconstructed
            /\ Waiting(out) = Waiting(pl) \ S
<1> DEFINE out == Suppressed(pl, S)
<1>1. DOMAIN out = DOMAIN pl
  BY DEF Suppressed
<1>2. ASSUME NEW i \in DOMAIN pl
      PROVE  /\ out[i] \in Buffer
             /\ out[i].poc = pl[i].poc /\ out[i].cvs = pl[i].cvs
             /\ out[i].referenced = pl[i].referenced
             /\ out[i].needed = (pl[i].needed /\ i \notin S)
             /\ out[i].reconstructed = pl[i].reconstructed
  <2>1. pl[i] \in Buffer
    BY DEF IsList
  <2> QED
    BY <2>1 DEF Suppressed, Buffer
<1>3. out = [i \in DOMAIN out |-> out[i]]
  BY DEF Suppressed
<1>4. IsList(out, n)
  BY <1>1, <1>2, <1>3 DEF IsList
<1>5. Waiting(out) = Waiting(pl) \ S
  BY <1>1, <1>2 DEF Waiting
<1> QED
  BY <1>1, <1>2, <1>4, <1>5

\* Reference marking only takes marks away.
LEMMA MarkedKeeps ==
  ASSUME NEW n \in Nat, NEW pl, IsList(pl, n), NEW poc, NEW entries
  PROVE  LET out == Marked(pl, poc, entries)
         IN /\ IsList(out, n) /\ DOMAIN out = DOMAIN pl
            /\ \A i \in DOMAIN pl :
                 /\ out[i].poc = pl[i].poc /\ out[i].cvs = pl[i].cvs
                 /\ out[i].referenced =
                      (pl[i].referenced /\ pl[i].poc \in entries \cup {poc})
                 /\ out[i].needed = pl[i].needed
                 /\ out[i].reconstructed = pl[i].reconstructed
            /\ Waiting(out) = Waiting(pl)
<1> DEFINE out == Marked(pl, poc, entries)
<1>1. DOMAIN out = DOMAIN pl
  BY DEF Marked
<1>2. ASSUME NEW i \in DOMAIN pl
      PROVE  /\ out[i] \in Buffer
             /\ out[i].poc = pl[i].poc /\ out[i].cvs = pl[i].cvs
             /\ out[i].referenced =
                  (pl[i].referenced /\ pl[i].poc \in entries \cup {poc})
             /\ out[i].needed = pl[i].needed
             /\ out[i].reconstructed = pl[i].reconstructed
  <2>1. pl[i] \in Buffer
    BY DEF IsList
  <2> QED
    BY <2>1 DEF Marked, Buffer
<1>3. out = [i \in DOMAIN out |-> out[i]]
  BY DEF Marked
<1>4. IsList(out, n)
  BY <1>1, <1>2, <1>3 DEF IsList
<1>5. Waiting(out) = Waiting(pl)
  BY <1>1, <1>2 DEF Waiting
<1> QED
  BY <1>1, <1>2, <1>4, <1>5

\* xGetNewPicBuffer enters the new picture, keeps every other picture as it
\* is, and removes only pictures that neither wait nor are both decoded and
\* referenced.
LEMMA WithPictureKeeps ==
  ASSUME NEW n \in Nat, NEW pl, IsList(pl, n), NEW limit, NEW pic \in Buffer
  PROVE  LET out == WithPicture(pl, n + 1, limit, pic)
         IN /\ IsList(out, n + 1)
            /\ DOMAIN out = (DOMAIN pl \ Victim(pl, limit)) \cup {n + 1}
            /\ n + 1 \notin DOMAIN pl
            /\ out[n + 1] = pic
            /\ \A i \in DOMAIN out \ {n + 1} : out[i] = pl[i]
            /\ \A v \in Victim(pl, limit) :
                 /\ v \in DOMAIN pl /\ ~pl[v].needed
                 /\ ~pl[v].reconstructed \/ ~pl[v].referenced
<1> DEFINE out == WithPicture(pl, n + 1, limit, pic)
<1>1. DOMAIN out = (DOMAIN pl \ Victim(pl, limit)) \cup {n + 1}
  BY DEF WithPicture
<1>2. n + 1 \notin DOMAIN pl
  BY DEF IsList
<1>3. out[n + 1] = pic
  BY DEF WithPicture
<1>4. \A i \in DOMAIN out \ {n + 1} : i \in DOMAIN pl /\ out[i] = pl[i]
  BY DEF WithPicture
<1>5. Victim(pl, limit) \subseteq Reusable(pl)
  BY DEF Victim
<1>6. DOMAIN out \subseteq 1..(n + 1)
  BY <1>1 DEF IsList
<1>7. \A i \in DOMAIN out : out[i] \in Buffer
  BY <1>3, <1>4 DEF IsList
<1>8. out = [i \in DOMAIN out |-> out[i]]
  BY DEF WithPicture
<1>9. IsList(out, n + 1)
  BY <1>6, <1>7, <1>8 DEF IsList
<1> QED
  BY <1>1, <1>2, <1>3, <1>4, <1>5, <1>9 DEF Reusable

-----------------------------------------------------------------------------
(* Which pictures a call of xWriteOutput writes, and what it leaves.        *)

References(pl) == {i \in DOMAIN pl : pl[i].referenced}

InUse(pl) == Waiting(pl) \cup References(pl)

\* The waiting pictures that do not come before picture i.
Rest(pl, i) == {j \in Waiting(pl) : ~Before(pl, j, i)}

\* Sets of pictures of a list are finite.
LEMMA FinitePictures ==
  ASSUME NEW n \in Nat, NEW pl, IsList(pl, n), NEW S, S \subseteq DOMAIN pl
  PROVE  IsFiniteSet(S) /\ Cardinality(S) \in Nat
BY FiniteNumbers DEF IsList

\* The condition of the loop, in terms of what is left from a picture on.
LEMMA BumpedMeans ==
  ASSUME NEW n \in Nat, NEW pl, IsList(pl, n), NEW last,
         Displayable(pl, last) = Waiting(pl), NEW r \in Nat, NEW b \in Nat,
         NEW i \in Waiting(pl)
  PROVE  i \in Bumped(pl, last, r, b) <=>
           \/ Cardinality(Rest(pl, i)) > r
           \/ Cardinality(Rest(pl, i) \cup References(pl)) > b
<1> DEFINE W == Waiting(pl)
           R == References(pl)
           Prior == {j \in W : Before(pl, j, i)}
           Gone == {j \in Prior : ~pl[j].referenced}
<1>1. /\ W \subseteq DOMAIN pl /\ R \subseteq DOMAIN pl /\ W \cup R \subseteq DOMAIN pl
      /\ Prior \subseteq DOMAIN pl /\ Gone \subseteq DOMAIN pl
  BY DEF Waiting, References
<1>2. /\ IsFiniteSet(W) /\ IsFiniteSet(W \cup R) /\ Cardinality(W) \in Nat
      /\ Cardinality(W \cup R) \in Nat
      /\ Cardinality(Prior) \in Nat /\ Cardinality(Gone) \in Nat
  <2> HIDE DEF W, R, Prior, Gone
  <2> QED
    BY <1>1, FinitePictures
<1>3. Cardinality(W \ Prior) = Cardinality(W) - Cardinality(Prior)
  <2>1. W \cap Prior = Prior
    OBVIOUS
  <2> HIDE DEF W, Prior
  <2> QED
    BY <1>2, <2>1, FS_Difference
<1>4. Cardinality((W \cup R) \ Gone) = Cardinality(W \cup R) - Cardinality(Gone)
  <2>1. (W \cup R) \cap Gone = Gone
    OBVIOUS
  <2> HIDE DEF W, R, Gone
  <2> QED
    BY <1>2, <2>1, FS_Difference
<1>5. W \ Prior = Rest(pl, i)
  BY DEF Rest
<1>6. (W \cup R) \ Gone = Rest(pl, i) \cup References(pl)
  <2>1. \A j \in W \cup R : j \in R <=> pl[j].referenced
    BY <1>1 DEF References
  <2>2. R = References(pl)
    OBVIOUS
  <2> HIDE DEF R
  <2> QED
    BY <2>1, <2>2 DEF Rest
<1>7. Fullness(pl, last) = Cardinality(W \cup R)
  BY DEF Fullness, References
<1>8. i \in Bumped(pl, last, r, b) <=>
        \/ Cardinality(W) - Cardinality(Prior) > r
        \/ Cardinality(W \cup R) - Cardinality(Gone) > b
  <2>1. Bumped(pl, last, r, b) =
          {k \in W : \/ Cardinality(W) - Cardinality({j \in W : Before(pl, j, k)}) > r
                     \/ Fullness(pl, last)
                        - Cardinality({j \in {m \in W : Before(pl, m, k)} : ~pl[j].referenced}) > b}
    BY DEF Bumped
  <2> QED
    BY <2>1, <1>7
<1> QED
  BY <1>3, <1>4, <1>5, <1>6, <1>8

\* Of two waiting pictures the first is written if the second is.
LEMMA BumpedInOrder ==
  ASSUME NEW n \in Nat, NEW pl, IsList(pl, n), NEW last,
         Displayable(pl, last) = Waiting(pl), NEW r \in Nat, NEW b \in Nat,
         NEW i \in Bumped(pl, last, r, b), NEW j \in Waiting(pl), Before(pl, j, i)
  PROVE  j \in Bumped(pl, last, r, b)
<1>1. i \in Waiting(pl) /\ Waiting(pl) \subseteq DOMAIN pl
  BY BumpedWait DEF Waiting
<1>2. Rest(pl, i) \subseteq Rest(pl, j)
  BY <1>1, BeforeIsOrder DEF Rest
<1>3. IsFiniteSet(Rest(pl, j)) /\ IsFiniteSet(Rest(pl, j) \cup References(pl))
  BY <1>1, FinitePictures DEF Rest, References
<1>4. /\ Cardinality(Rest(pl, i)) <= Cardinality(Rest(pl, j))
      /\ Cardinality(Rest(pl, i) \cup References(pl))
           <= Cardinality(Rest(pl, j) \cup References(pl))
      /\ Cardinality(Rest(pl, i)) \in Nat /\ Cardinality(Rest(pl, j)) \in Nat
      /\ Cardinality(Rest(pl, i) \cup References(pl)) \in Nat
      /\ Cardinality(Rest(pl, j) \cup References(pl)) \in Nat
  BY <1>2, <1>3, SubsetSize
<1>5. \/ Cardinality(Rest(pl, i)) > r
      \/ Cardinality(Rest(pl, i) \cup References(pl)) > b
  BY <1>1, BumpedMeans
<1> QED
  BY <1>4, <1>5, BumpedMeans

\* What is left waiting keeps to the limits, and with the references it does
\* unless nothing is left.
LEMMA BumpedLeaves ==
  ASSUME NEW n \in Nat, NEW pl, IsList(pl, n), NEW last,
         Displayable(pl, last) = Waiting(pl), NEW r \in Nat, NEW b \in Nat
  PROVE  LET left == Waiting(pl) \ Bumped(pl, last, r, b)
         IN /\ Cardinality(left) <= r
            /\ left # {} => Cardinality(left \cup References(pl)) <= b
<1> DEFINE left == Waiting(pl) \ Bumped(pl, last, r, b)
           Order == {ij \in left \X left : Before(pl, ij[2], ij[1])}
<1>1. left \subseteq DOMAIN pl /\ left \subseteq Waiting(pl) /\ IsFiniteSet(left)
  BY FinitePictures DEF Waiting
<1>2. CASE left = {}
  BY <1>2, FS_EmptySet
<1>3. CASE left # {}
  <2>1. \A i, j \in left : <<i, j>> \in Order <=> Before(pl, j, i)
    OBVIOUS
  <2> HIDE DEF Order
  <2>2. \A i \in left : <<i, i>> \notin Order
    BY <1>1, <2>1, BeforeIsOrder
  <2>3. \A i, j, k \in left : <<i, j>> \in Order /\ <<j, k>> \in Order => <<i, k>> \in Order
    <3> HIDE DEF left
    <3> QED
      BY <1>1, <2>1, BeforeIsOrder
  <2>4. PICK i \in left : \A j \in left : <<i, j>> \notin Order
    <3> HIDE DEF left
    <3> QED
      BY <1>1, <1>3, <2>2, <2>3, LastElement
  <2>5. left \subseteq Rest(pl, i)
    BY <2>1, <2>4 DEF Rest
  <2>6. /\ Cardinality(Rest(pl, i)) <= r
        /\ Cardinality(Rest(pl, i) \cup References(pl)) <= b
    <3>1. /\ ~(Cardinality(Rest(pl, i)) > r)
          /\ ~(Cardinality(Rest(pl, i) \cup References(pl)) > b)
      BY <2>4, BumpedMeans
    <3>2. /\ Cardinality(Rest(pl, i)) \in Nat
          /\ Cardinality(Rest(pl, i) \cup References(pl)) \in Nat
      BY FinitePictures DEF Rest, References, Waiting
    <3> QED
      BY <3>1, <3>2
  <2>7. IsFiniteSet(Rest(pl, i)) /\ IsFiniteSet(Rest(pl, i) \cup References(pl))
    BY FinitePictures DEF Rest, References, Waiting
  <2> HIDE DEF left
  <2>8. /\ Cardinality(left) <= Cardinality(Rest(pl, i))
        /\ Cardinality(left \cup References(pl))
             <= Cardinality(Rest(pl, i) \cup References(pl))
        /\ Cardinality(left) \in Nat /\ Cardinality(Rest(pl, i)) \in Nat
        /\ Cardinality(left \cup References(pl)) \in Nat
        /\ Cardinality(Rest(pl, i) \cup References(pl)) \in Nat
    BY <2>5, <2>7, SubsetSize
  <2>9. Cardinality(left) <= r /\ Cardinality(left \cup References(pl)) <= b
    BY <2>6, <2>8
  <2> QED
    BY <2>9 DEF left
<1> QED
  BY <1>2, <1>3

-----------------------------------------------------------------------------
(* The size of the list.                                                    *)

\* One picture is taken over if any can be.
LEMMA VictimExists ==
  ASSUME NEW n \in Nat, NEW pl, IsList(pl, n), NEW limit \in Nat,
         Cardinality(DOMAIN pl) >= limit, Reusable(pl) # {}
  PROVE  Victim(pl, limit) # {}
<1> DEFINE S == Reusable(pl)
           Order == {ij \in S \X S : Before(pl, ij[2], ij[1])}
<1>1. S \subseteq DOMAIN pl /\ IsFiniteSet(S)
  BY FinitePictures DEF Reusable
<1>2. \A i, j \in S : <<i, j>> \in Order <=> Before(pl, j, i)
  OBVIOUS
<1> HIDE DEF Order, S
<1>3. \A i \in S : <<i, i>> \notin Order
  BY <1>1, <1>2, BeforeIsOrder
<1>4. \A i, j, k \in S : <<i, j>> \in Order /\ <<j, k>> \in Order => <<i, k>> \in Order
  BY <1>1, <1>2, BeforeIsOrder
<1>5. S # {}
  BY DEF S
<1>6. PICK i \in S : \A j \in S : <<i, j>> \notin Order
  BY <1>1, <1>3, <1>4, <1>5, LastElement
<1>7. \A j \in S : i = j \/ Before(pl, i, j)
  BY <1>1, <1>2, <1>6, BeforeIsOrder
<1>8. ~(Cardinality(DOMAIN pl) < limit)
  BY FinitePictures
<1> QED
  BY <1>6, <1>7, <1>8 DEF Victim, S

\* A new picture makes the list longer only below the limit, or when every
\* picture of it is in use.
LEMMA ListSize ==
  ASSUME NEW n \in Nat, NEW pl, IsList(pl, n), NEW limit \in Nat, NEW pic \in Buffer
  PROVE  LET size == Cardinality(DOMAIN WithPicture(pl, n + 1, limit, pic))
         IN \/ size <= limit
            \/ size <= Cardinality(DOMAIN pl)
            \/ size <= Cardinality(InUse(pl)) + 1
<1> DEFINE out == WithPicture(pl, n + 1, limit, pic)
           D == DOMAIN pl
           V == Victim(pl, limit)
<1>1. DOMAIN out = (D \ V) \cup {n + 1} /\ n + 1 \notin D
  BY DEF WithPicture, IsList
<1>2. IsFiniteSet(D) /\ Cardinality(D) \in Nat
  BY FinitePictures
<1>3. IsFiniteSet(D \ V) /\ Cardinality(D \ V) \in Nat /\ Cardinality(D \ V) <= Cardinality(D)
  <2> HIDE DEF D, V
  <2> QED
    BY <1>2, SubsetSize
<1> HIDE DEF out
<1>4. Cardinality(DOMAIN out) = Cardinality(D \ V) + 1
  <2>1. n + 1 \notin D \ V
    BY <1>1
  <2> HIDE DEF D, V
  <2> QED
    BY <1>1, <1>3, <2>1, FS_AddElement
<1>5. CASE Cardinality(D) < limit
  BY <1>2, <1>3, <1>4, <1>5 DEF out
<1>6. CASE ~(Cardinality(D) < limit) /\ Reusable(pl) # {}
  <2>1. PICK v \in V : TRUE
    BY <1>2, <1>6, VictimExists
  <2>2. v \in D
    BY <2>1 DEF Victim, Reusable
  <2> HIDE DEF D, V
  <2>3. D \ V \subseteq D \ {v} /\ IsFiniteSet(D \ {v})
    BY <1>2, <2>1, FS_RemoveElement
  <2>4. Cardinality(D \ {v}) = Cardinality(D) - 1
    BY <1>2, <2>2, FS_RemoveElement
  <2>5. Cardinality(D \ V) <= Cardinality(D \ {v})
    BY <2>3, SubsetSize
  <2>6. Cardinality(DOMAIN out) <= Cardinality(D)
    BY <1>2, <1>3, <1>4, <2>4, <2>5
  <2> QED
    BY <2>6 DEF out, D
<1>7. CASE Reusable(pl) = {}
  <2>1. D \subseteq InUse(pl)
    BY <1>7 DEF Reusable, InUse, Waiting, References
  <2>2. IsFiniteSet(InUse(pl))
    BY FinitePictures DEF InUse, Waiting, References
  <2>3. Cardinality(D) <= Cardinality(InUse(pl)) /\ Cardinality(InUse(pl)) \in Nat
    BY <2>1, <2>2, SubsetSize
  <2>4. Cardinality(DOMAIN out) <= Cardinality(InUse(pl)) + 1
    BY <1>2, <1>3, <1>4, <2>3
  <2> QED
    BY <2>4 DEF out
<1> QED
  BY <1>5, <1>6, <1>7

-----------------------------------------------------------------------------
(* The inductive invariant.                                                 *)

\* A picture is read only when the previous one is finished, and the fate of
\* the picture being decoded is still open.
OneAtATime ==
  /\ pilot # None => curPic = None
  /\ curPic # None => curPic.id \notin DOMAIN shown \cup DOMAIN discarded \cup due

\* Between two pictures of a GDR recovery nothing waits.
NothingWaitsInRecovery ==
  app.gdrRecoveryPeriod /\ pilot = None /\ (curPic = None \/ app.status = "running")
    => Waiting(picList) = {}

\* TypeOK alone is inductive only with the rest: that finishPicture finds the
\* current buffer in the list needs DecodesIntoOwnBuffer, which needs
\* OneAtATime, and so on round.
Inv ==
  /\ TypeOK
  /\ OneAtATime
  /\ FlagsConsistent
  /\ DecodesIntoOwnBuffer
  /\ NoPictureLost
  /\ OneFate
  /\ NothingWaitsInRecovery

\* The same facts about a list and histories that are not the state's.
Entry == [pos : Nat, poc : Int, cvs : Nat]

IsFile(file, n) == DOMAIN file \subseteq 1..n /\ file \in [DOMAIN file -> Entry]

Histories(n, file, gone, owed) ==
  /\ IsFile(file, n)
  /\ DOMAIN gone \subseteq 1..n /\ gone \in [DOMAIN gone -> Reasons]
  /\ owed \subseteq 1..n

Fates(pl, file, gone, owed) ==
  /\ Waiting(pl) \cap DOMAIN file = {}
  /\ DOMAIN gone \cap (DOMAIN file \cup Waiting(pl)) = {}
  /\ owed \subseteq DOMAIN file \cup Waiting(pl) \cup DOMAIN gone

\* Waiting pictures are reconstructed, and so are references outside X.
Settled(pl, X) ==
  \A i \in DOMAIN pl :
    /\ pl[i].needed => pl[i].reconstructed
    /\ pl[i].referenced /\ ~pl[i].reconstructed => i \in X

\* Only flags were lowered between pl and out, and no reference was lost.
Lowered(out, pl) ==
  /\ DOMAIN out = DOMAIN pl
  /\ \A i \in DOMAIN pl :
       /\ out[i].poc = pl[i].poc /\ out[i].cvs = pl[i].cvs
       /\ out[i].referenced = pl[i].referenced
       /\ out[i].needed => pl[i].needed
       /\ out[i].reconstructed => pl[i].reconstructed
       /\ pl[i].reconstructed /\ (pl[i].referenced \/ out[i].needed)
            => out[i].reconstructed

\* Lowering flags leaves a settled list settled.
LEMMA LoweredSettled ==
  ASSUME NEW out, NEW pl, NEW X, Lowered(out, pl), Settled(pl, X)
  PROVE  Settled(out, X)
BY DEF Lowered, Settled

\* Appending to the output file keeps its type and what is in it.
LEMMA WrittenKeeps ==
  ASSUME NEW n \in Nat, NEW pl, IsList(pl, n), NEW file, IsFile(file, n),
         NEW B \in SUBSET DOMAIN pl
  PROVE  /\ IsFile(Written(file, pl, B), n)
         /\ DOMAIN Written(file, pl, B) = DOMAIN file \cup B
         /\ B = {} => Written(file, pl, B) = file
<1> DEFINE out == Written(file, pl, B)
           Up(i) == {j \in B : j = i \/ Before(pl, j, i)}
<1>1. DOMAIN out = DOMAIN file \cup B /\ DOMAIN out \subseteq 1..n
  BY DEF Written, IsList, IsFile
<1>2. Cardinality(DOMAIN file) \in Nat
  BY FiniteNumbers DEF IsFile
<1>3. ASSUME NEW i \in DOMAIN out
      PROVE  out[i] \in Entry
  <2>1. CASE i \in B
    <3>1. Up(i) \subseteq 1..n
      BY DEF IsList
    <3>2. Cardinality(Up(i)) \in Nat
      BY <3>1, FiniteNumbers
    <3>3. pl[i].poc \in Int /\ pl[i].cvs \in Nat
      BY <2>1 DEF IsList, Buffer
    <3>4. out[i] = [pos |-> Cardinality(DOMAIN file) + Cardinality(Up(i)),
                    poc |-> pl[i].poc, cvs |-> pl[i].cvs]
      BY <2>1 DEF Written
    <3> QED
      BY <3>2, <3>3, <3>4, <1>2 DEF Entry
  <2>2. CASE i \notin B
    BY <1>1, <2>2 DEF Written, IsFile
  <2> QED
    BY <2>1, <2>2
<1>4. out = [i \in DOMAIN out |-> out[i]]
  BY DEF Written
<1>5. IsFile(out, n)
  BY <1>1, <1>3, <1>4 DEF IsFile
<1>6. ASSUME B = {}
      PROVE  out = file
  <2>1. DOMAIN out = DOMAIN file
    BY <1>1, <1>6
  <2>2. \A i \in DOMAIN out : out[i] = file[i]
    BY <1>6 DEF Written
  <2>3. file = [i \in DOMAIN file |-> file[i]]
    BY DEF IsFile
  <2> QED
    BY <2>1, <2>2, <2>3, <1>4
<1> QED
  BY <1>1, <1>5, <1>6

\* What a call of xWriteOutput does to list, file and DecApp's variables.
LEMMA WriteOutputEffect ==
  ASSUME NEW n \in Nat, NEW pl, IsList(pl, n), NEW a \in DecAppVariables,
         Histories(n, shown, discarded, due), WriteOutput(pl, a)
  PROVE  /\ IsList(picList', n) /\ Lowered(picList', pl)
         /\ app' \in DecAppVariables
         /\ app'.gdrRecoveryPeriod = a.gdrRecoveryPeriod /\ app'.status = a.status
         /\ IsFile(shown', n)
         /\ Waiting(picList') \subseteq Waiting(pl)
         /\ DOMAIN shown' = DOMAIN shown \cup (Waiting(pl) \ Waiting(picList'))
         /\ Waiting(pl) = {} => shown' = shown
<1> DEFINE B == Bumped(pl, a.pocLastDisplay, sps.reorder[MaxTid], sps.buffering[MaxTid])
<1>1. picList' = AfterOutput(pl, B) /\ shown' = Written(shown, pl, B)
  BY DEF WriteOutput
<1>2. B \subseteq Waiting(pl) /\ B \in SUBSET DOMAIN pl
  BY BumpedWait DEF Waiting
<1> HIDE DEF B
<1>3. /\ IsList(picList', n) /\ Waiting(picList') = Waiting(pl) \ B
      /\ DOMAIN picList' = DOMAIN pl
      /\ \A i \in DOMAIN pl :
           /\ picList'[i].poc = pl[i].poc /\ picList'[i].cvs = pl[i].cvs
           /\ picList'[i].referenced = pl[i].referenced
           /\ picList'[i].needed = (pl[i].needed /\ i \notin B)
           /\ picList'[i].reconstructed =
                (pl[i].reconstructed /\ (i \notin B \/ pl[i].referenced))
  BY <1>1, <1>2, AfterOutputKeeps
<1>4. Lowered(picList', pl)
  BY <1>3 DEF Lowered
<1>5. /\ DOMAIN shown' = DOMAIN shown \cup B
      /\ IsFile(shown', n)
      /\ B = {} => shown' = shown
  BY <1>1, <1>2, WrittenKeeps DEF Histories
<1>6. LastDisplay(pl, B, a.pocLastDisplay) \in Int
  BY <1>2, LastDisplayType DEF DecAppVariables
<1>7. app' = [a EXCEPT !.pocLastDisplay = LastDisplay(pl, B, a.pocLastDisplay),
                       !.outputPicturePresent = (@ \/ Waiting(pl) # {})]
  BY DEF WriteOutput, B
<1>8. /\ app' \in DecAppVariables
      /\ app'.gdrRecoveryPeriod = a.gdrRecoveryPeriod /\ app'.status = a.status
  BY <1>6, <1>7 DEF DecAppVariables
<1> QED
  BY <1>2, <1>3, <1>4, <1>5, <1>8

\* Suppression during a GDR recovery lowers needed flags only.
LEMMA SuppressEffect ==
  ASSUME NEW n \in Nat, NEW pl, IsList(pl, n), NEW a \in DecAppVariables
  PROVE  /\ IsList(Suppress(pl, a), n) /\ Lowered(Suppress(pl, a), pl)
         /\ Waiting(Suppress(pl, a)) = IF a.gdrRecoveryPeriod THEN {} ELSE Waiting(pl)
<1>1. CASE a.gdrRecoveryPeriod
  <2>1. Suppress(pl, a) = Suppressed(pl, DOMAIN pl)
    BY <1>1 DEF Suppress
  <2>2. Waiting(pl) \subseteq DOMAIN pl
    BY DEF Waiting
  <2> DEFINE out == Suppressed(pl, DOMAIN pl)
  <2>3. /\ IsList(out, n) /\ DOMAIN out = DOMAIN pl
        /\ \A i \in DOMAIN pl :
             /\ out[i].poc = pl[i].poc /\ out[i].cvs = pl[i].cvs
             /\ out[i].referenced = pl[i].referenced
             /\ out[i].needed = (pl[i].needed /\ i \notin DOMAIN pl)
             /\ out[i].reconstructed = pl[i].reconstructed
        /\ Waiting(out) = Waiting(pl) \ DOMAIN pl
    BY SuppressedKeeps
  <2> HIDE DEF out
  <2>4. Lowered(out, pl)
    BY <2>3 DEF Lowered
  <2> QED
    BY <1>1, <2>1, <2>2, <2>3, <2>4 DEF out
<1>2. CASE ~a.gdrRecoveryPeriod
  BY <1>2 DEF Suppress, Lowered
<1> QED
  BY <1>1, <1>2

\* What the end of a loop iteration, with list pl, does to the list and to the
\* fates of the pictures, when those of X are cancelled besides.
LEMMA IterationEffect ==
  ASSUME NEW n \in Nat, NEW pl, IsList(pl, n), NEW a \in DecAppVariables,
         Histories(n, shown, discarded, due), Fates(pl, shown, discarded, due),
         \/ WriteOutput(Suppress(pl, a), a)
         \/ picList' = Suppress(pl, a) /\ app' = a /\ shown' = shown,
         NEW X, X \subseteq 1..n, X \cap (Waiting(pl) \cup DOMAIN shown) = {},
         due' \subseteq 1..n, due' \subseteq due \cup X \cup Waiting(pl),
         DOMAIN discarded' = DOMAIN discarded \cup X
                             \cup IF a.gdrRecoveryPeriod THEN Waiting(pl) ELSE {},
         discarded' \in [DOMAIN discarded' -> Reasons]
  PROVE  /\ IsList(picList', n) /\ Lowered(picList', pl)
         /\ app' \in DecAppVariables
         /\ app'.gdrRecoveryPeriod = a.gdrRecoveryPeriod /\ app'.status = a.status
         /\ Histories(n, shown', discarded', due')
         /\ Fates(picList', shown', discarded', due')
         /\ DOMAIN shown' \subseteq DOMAIN shown \cup Waiting(pl)
         /\ a.gdrRecoveryPeriod => Waiting(picList') = {} /\ shown' = shown
<1> DEFINE sl == Suppress(pl, a)
<1>1. /\ IsList(sl, n) /\ Lowered(sl, pl)
      /\ Waiting(sl) = IF a.gdrRecoveryPeriod THEN {} ELSE Waiting(pl)
  BY SuppressEffect
<1> HIDE DEF sl
<1>2. /\ IsList(picList', n) /\ Lowered(picList', sl)
      /\ app' \in DecAppVariables
      /\ app'.gdrRecoveryPeriod = a.gdrRecoveryPeriod /\ app'.status = a.status
      /\ IsFile(shown', n)
      /\ Waiting(picList') \subseteq Waiting(sl)
      /\ DOMAIN shown' = DOMAIN shown \cup (Waiting(sl) \ Waiting(picList'))
      /\ Waiting(sl) = {} => shown' = shown
  <2>1. CASE WriteOutput(sl, a)
    BY <2>1, <1>1, WriteOutputEffect
  <2>2. CASE picList' = sl /\ app' = a /\ shown' = shown
    BY <2>2, <1>1 DEF Lowered, Histories
  <2> QED
    BY <2>1, <2>2 DEF sl
<1>3. Lowered(picList', pl)
  BY <1>1, <1>2 DEF Lowered
<1>4. Waiting(pl) \subseteq 1..n
  BY DEF Waiting, IsList
<1>5. Histories(n, shown', discarded', due')
  BY <1>2, <1>4 DEF Histories
<1>6. Fates(picList', shown', discarded', due')
  BY <1>1, <1>2 DEF Fates
<1> QED
  BY <1>1, <1>2, <1>3, <1>5, <1>6

\* EndOfIteration as such an end.
LEMMA EndOfIterationEffect ==
  ASSUME NEW n \in Nat, NEW pl, IsList(pl, n), NEW a \in DecAppVariables,
         Histories(n, shown, discarded, due), Fates(pl, shown, discarded, due),
         EndOfIteration(pl, a), due' = due
  PROVE  /\ IsList(picList', n) /\ Lowered(picList', pl)
         /\ app' \in DecAppVariables
         /\ app'.gdrRecoveryPeriod = a.gdrRecoveryPeriod /\ app'.status = a.status
         /\ Histories(n, shown', discarded', due')
         /\ Fates(picList', shown', discarded', due')
         /\ DOMAIN shown' \subseteq DOMAIN shown \cup Waiting(pl)
         /\ DOMAIN discarded' \subseteq DOMAIN discarded \cup Waiting(pl)
         /\ a.gdrRecoveryPeriod => Waiting(picList') = {} /\ shown' = shown
<1>1. Waiting(pl) \cap DOMAIN pl = Waiting(pl)
  BY DEF Waiting
<1>2. DOMAIN discarded' = DOMAIN discarded \cup {}
                          \cup IF a.gdrRecoveryPeriod THEN Waiting(pl) ELSE {}
  BY <1>1 DEF EndOfIteration, Cancelled
<1>3. discarded' \in [DOMAIN discarded' -> Reasons]
  <2>1. discarded \in [DOMAIN discarded -> Reasons]
    BY DEF Histories
  <2> QED
    BY <2>1 DEF EndOfIteration, Cancelled, Reasons
<1>4. WriteOutput(Suppress(pl, a), a)
  BY DEF EndOfIteration
<1>5. due' \subseteq 1..n /\ due' \subseteq due \cup {} \cup Waiting(pl)
  BY DEF Histories
<1>6. {} \subseteq 1..n /\ {} \cap (Waiting(pl) \cup DOMAIN shown) = {}
  OBVIOUS
<1>7. /\ IsList(picList', n) /\ Lowered(picList', pl)
      /\ app' \in DecAppVariables
      /\ app'.gdrRecoveryPeriod = a.gdrRecoveryPeriod /\ app'.status = a.status
      /\ Histories(n, shown', discarded', due')
      /\ Fates(picList', shown', discarded', due')
      /\ DOMAIN shown' \subseteq DOMAIN shown \cup Waiting(pl)
      /\ a.gdrRecoveryPeriod => Waiting(picList') = {} /\ shown' = shown
  BY <1>2, <1>3, <1>4, <1>5, <1>6, IterationEffect
<1> QED
  BY <1>2, <1>7

-----------------------------------------------------------------------------
(* Inv and its parts.                                                       *)

\* What Inv says of list and histories, in the terms of the lemmas above.
LEMMA InvFacts ==
  ASSUME Inv
  PROVE  /\ numPics \in Nat /\ IsList(picList, numPics)
         /\ Histories(numPics, shown, discarded, due)
         /\ Fates(picList, shown, discarded, due)
         /\ app \in DecAppVariables /\ dec \in DecLibMembers
         /\ \A i \in DOMAIN picList : picList[i] \in Buffer
BY DEF Inv, TypeOK, NoPictureLost, OneFate, IsList, Histories, IsFile, Entry, Fates

\* The converse for the types, after a step.
LEMMA TypeOfNext ==
  ASSUME numPics' \in Nat, IsList(picList', numPics'),
         Histories(numPics', shown', discarded', due'),
         app' \in DecAppVariables, dec' \in DecLibMembers, sps' \in SpsSet,
         pilot' \in PilotPicture \cup {None}, curPic' \in CurrentPicture \cup {None},
         refPicList' \in [DOMAIN refPicList' -> 1..numPics']
  PROVE  TypeOK'
BY DEF TypeOK, IsList, Histories, IsFile, Entry

\* The converse for the fates of pictures.
LEMMA FatesOfNext ==
  ASSUME Fates(picList', shown', discarded', due')
  PROVE  NoPictureLost' /\ OneFate'
BY DEF Fates, NoPictureLost, OneFate

\* Between two pictures every reference picture is reconstructed.
LEMMA SettledBetween ==
  ASSUME FlagsConsistent, app.status = "running", curPic = None
  PROVE  Settled(picList, {})
BY DEF FlagsConsistent, Settled

\* A list settled but for the current picture is consistent.
LEMMA FlagsOfNext ==
  ASSUME Settled(picList', {}) \/ (curPic' # None /\ Settled(picList', {curPic'.id}))
  PROVE  FlagsConsistent'
BY DEF FlagsConsistent, Settled

\* EndOfIteration between two pictures keeps the invariant.
LEMMA BetweenPicturesStep ==
  ASSUME Inv, pilot = None, curPic = None, app.status = "running",
         NEW a \in DecAppVariables,
         a.gdrRecoveryPeriod = app.gdrRecoveryPeriod,
         EndOfIteration(picList, a), dec' \in DecLibMembers,
         UNCHANGED <<numPics, stream, sps, due>>
  PROVE  Inv'
<1> USE DEF stream
<1>1. /\ IsList(picList', numPics) /\ Lowered(picList', picList)
      /\ app' \in DecAppVariables
      /\ app'.gdrRecoveryPeriod = a.gdrRecoveryPeriod /\ app'.status = a.status
      /\ Histories(numPics, shown', discarded', due')
      /\ Fates(picList', shown', discarded', due')
      /\ a.gdrRecoveryPeriod => Waiting(picList') = {}
  BY InvFacts, EndOfIterationEffect
<1>2. TypeOK'
  BY <1>1, TypeOfNext DEF Inv, TypeOK
<1>3. OneAtATime'
  BY DEF OneAtATime
<1>4. FlagsConsistent'
  BY <1>1, SettledBetween, LoweredSettled, FlagsOfNext DEF Inv
<1>5. DecodesIntoOwnBuffer'
  BY DEF DecodesIntoOwnBuffer
<1>6. NothingWaitsInRecovery'
  BY <1>1 DEF NothingWaitsInRecovery
<1> QED
  BY <1>1, <1>2, <1>3, <1>4, <1>5, <1>6, FatesOfNext DEF Inv

\* SkipPicture keeps the invariant.
LEMMA SkipPictureStep ==
  ASSUME Inv, NEW p \in CodedPicture, SkipPicture(p)
  PROVE  Inv'
<1> DEFINE a == [app EXCEPT !.newCLVS = NewCLVS(p), !.picSkipped = TRUE,
                            !.prevPicSkipped = @ \/ p.type # "RASL"]
<1>1. app \in DecAppVariables /\ NewCLVS(p) \in BOOLEAN
  BY DEF Inv, TypeOK, NewCLVS
<1>2. a \in DecAppVariables /\ a.gdrRecoveryPeriod = app.gdrRecoveryPeriod
  BY <1>1 DEF DecAppVariables
<1>3. EndOfIteration(picList, a)
  BY DEF SkipPicture
<1> HIDE DEF a
<1> QED
  BY <1>2, <1>3, BetweenPicturesStep DEF SkipPicture, Inv, TypeOK

\* What an EOS resets keeps its type.
LEMMA ResetByEosType ==
  ASSUME NEW d \in DecLibMembers
  PROVE  /\ ResetByEos(d) \in DecLibMembers
         /\ [ResetByEos(d) EXCEPT !.firstSliceInSequence = TRUE] \in DecLibMembers
<1>1. MAX_INT \in Int /\ -MAX_INT \in Int
  BY DEF MAX_INT
<1> QED
  BY <1>1 DEF ResetByEos, DecLibMembers

\* So does an EOS after a skipped picture.
LEMMA EndOfSequenceAfterSkipStep ==
  ASSUME Inv, EndOfSequenceAfterSkip
  PROVE  Inv'
<1> DEFINE a == [app EXCEPT !.newCLVS = TRUE, !.eosInLastPu = TRUE]
<1>1. a \in DecAppVariables /\ a.gdrRecoveryPeriod = app.gdrRecoveryPeriod
  BY DEF Inv, TypeOK, DecAppVariables
<1>2. dec' \in DecLibMembers
  BY InvFacts, ResetByEosType DEF EndOfSequenceAfterSkip
<1>3. CASE app.picListSet
  <2>1. EndOfIteration(picList, a)
    BY <1>3 DEF EndOfSequenceAfterSkip
  <2> HIDE DEF a
  <2> QED
    BY <2>1, <1>1, <1>2, BetweenPicturesStep DEF EndOfSequenceAfterSkip
<1>4. CASE ~app.picListSet
  <2>1. /\ app' = [a EXCEPT !.status = "aborted"]
        /\ UNCHANGED <<picList, shown, discarded, numPics, stream, sps, due>>
    BY <1>4 DEF EndOfSequenceAfterSkip
  <2>2. app' \in DecAppVariables /\ app'.gdrRecoveryPeriod = app.gdrRecoveryPeriod
    BY <2>1, <1>1 DEF DecAppVariables
  <2>3. curPic = None /\ pilot = None /\ app.status = "running"
    BY DEF EndOfSequenceAfterSkip
  <2>4. Settled(picList, {})
    BY <2>3, SettledBetween DEF Inv
  <2>5. TypeOK' /\ OneAtATime' /\ DecodesIntoOwnBuffer' /\ NoPictureLost' /\ OneFate'
    BY <2>1, <2>2, <1>2, <2>3
       DEF Inv, TypeOK, OneAtATime, DecodesIntoOwnBuffer, NoPictureLost, OneFate, stream
  <2>6. FlagsConsistent'
    BY <2>1, <2>4 DEF FlagsConsistent, Settled
  <2>7. NothingWaitsInRecovery'
    BY <2>1, <2>2, <2>3 DEF Inv, NothingWaitsInRecovery, stream
  <2> QED
    BY <2>5, <2>6, <2>7 DEF Inv
<1> QED
  BY <1>3, <1>4

-----------------------------------------------------------------------------
(* The start of a picture and the end of the stream.                        *)

\* The list without pictures is a list, and nothing waits in it.
LEMMA EmptyList ==
  ASSUME NEW n \in Nat
  PROVE  IsList(<< >>, n) /\ Waiting(<< >>) = {} /\ Settled(<< >>, {})
<1>1. DOMAIN << >> = {}
  OBVIOUS
<1> QED
  BY <1>1 DEF IsList, Waiting, Settled

\* Cancelling output keeps the type of the history of discarded pictures.
LEMMA CancelledKeeps ==
  ASSUME NEW n \in Nat, Histories(n, shown, discarded, due),
         NEW pl, IsList(pl, n), NEW S, NEW reason \in Reasons
  PROVE  /\ DOMAIN Cancelled(pl, S, reason) = DOMAIN discarded \cup (S \cap Waiting(pl))
         /\ DOMAIN Cancelled(pl, S, reason) \subseteq 1..n
         /\ Cancelled(pl, S, reason) \in [DOMAIN Cancelled(pl, S, reason) -> Reasons]
<1>1. DOMAIN discarded \subseteq 1..n /\ discarded \in [DOMAIN discarded -> Reasons]
  BY DEF Histories
<1>2. Waiting(pl) \subseteq 1..n
  BY DEF Waiting, IsList
<1> QED
  BY <1>1, <1>2 DEF Cancelled

\* A flush appends all that waits to the output file.
LEMMA FlushedFile ==
  ASSUME Inv
  PROVE  /\ IsFile(Written(shown, picList, Waiting(picList)), numPics)
         /\ DOMAIN Written(shown, picList, Waiting(picList))
              = DOMAIN shown \cup Waiting(picList)
<1> DEFINE B == Waiting(picList)
<1>1. B \in SUBSET DOMAIN picList
  BY DEF Waiting
<1>2. numPics \in Nat /\ IsList(picList, numPics) /\ IsFile(shown, numPics)
  BY InvFacts DEF Histories
<1> HIDE DEF B
<1>3. /\ IsFile(Written(shown, picList, B), numPics)
      /\ DOMAIN Written(shown, picList, B) = DOMAIN shown \cup B
  BY <1>1, <1>2, WrittenKeeps
<1> QED
  BY <1>3 DEF B

\* BeginPicture keeps the invariant.
LEMMA BeginPictureStep ==
  ASSUME Inv, NEW p \in CodedPicture, BeginPicture(p)
  PROVE  Inv'
<1> DEFINE nobr == NoOutputBeforeRecovery(p)
           list == IF Flushes(p) THEN << >> ELSE picList
           prior == IF nobr /\ p.noPrior
                    THEN {i \in DOMAIN list : list[i].poc # p.poc} ELSE {}
<1>1. p \in CodedPicture
  OBVIOUS
<1>2. pilot = None /\ curPic = None /\ app.status = "running"
  BY DEF BeginPicture
<1>3. /\ picList' = Suppressed(list, prior)
      /\ shown' = IF Flushes(p) THEN Written(shown, picList, Waiting(picList)) ELSE shown
      /\ discarded' = Cancelled(list, prior, "prior")
      /\ UNCHANGED <<numPics, curPic, refPicList, sps, due>>
  BY DEF BeginPicture
<1>4. IsList(list, numPics) /\ Settled(list, {})
  BY <1>2, InvFacts, EmptyList, SettledBetween DEF Inv
<1> HIDE DEF prior
<1>5. /\ IsList(picList', numPics) /\ Waiting(picList') = Waiting(list) \ prior
      /\ DOMAIN picList' = DOMAIN list
      /\ \A i \in DOMAIN list :
           /\ picList'[i].referenced = list[i].referenced
           /\ picList'[i].needed = (list[i].needed /\ i \notin prior)
           /\ picList'[i].reconstructed = list[i].reconstructed
  <2> HIDE DEF list
  <2> QED
    BY <1>3, <1>4, InvFacts, SuppressedKeeps
<1>6. Settled(picList', {})
  BY <1>4, <1>5 DEF Settled
<1>7. /\ DOMAIN discarded' = DOMAIN discarded \cup (prior \cap Waiting(list))
      /\ DOMAIN discarded' \subseteq 1..numPics
      /\ discarded' \in [DOMAIN discarded' -> Reasons]
  <2>1. "prior" \in Reasons
    BY DEF Reasons
  <2> HIDE DEF list
  <2> QED
    BY <1>3, <1>4, <2>1, InvFacts, CancelledKeeps
<1>8. /\ IsFile(shown', numPics)
      /\ DOMAIN shown' = IF Flushes(p) THEN DOMAIN shown \cup Waiting(picList)
                                       ELSE DOMAIN shown
  BY <1>3, FlushedFile, InvFacts DEF Histories
<1>9. Waiting(list) = IF Flushes(p) THEN {} ELSE Waiting(picList)
  BY InvFacts, EmptyList
<1> HIDE DEF list
<1>10. Histories(numPics, shown', discarded', due')
  BY <1>3, <1>7, <1>8, InvFacts DEF Histories
<1>11. Fates(picList', shown', discarded', due')
  BY <1>3, <1>5, <1>7, <1>8, <1>9, InvFacts DEF Fates
<1>12. pilot' \in PilotPicture /\ pilot' # None
  <2>1. /\ p.output \in BOOLEAN /\ dec.lastNoOutputBeforeRecovery \in BOOLEAN
        /\ nobr \in BOOLEAN
    BY <1>1, InvFacts DEF CodedPicture, DecLibMembers, NoOutputBeforeRecovery
  <2>2. pilot' = [pic |-> p, nobr |-> nobr,
                  output |-> p.output /\ ~(p.type = "RASL" /\
                               (IF p.type \in {"CRA", "GDR"}
                                THEN nobr ELSE dec.lastNoOutputBeforeRecovery))]
    BY DEF BeginPicture
  <2>3. pilot' \in PilotPicture
    BY <1>1, <2>1, <2>2 DEF PilotPicture
  <2> QED
    BY <2>3, NoneAssumption
<1>13. dec' \in DecLibMembers
  <2>1. dec \in DecLibMembers /\ nobr \in BOOLEAN
    BY InvFacts DEF DecLibMembers, NoOutputBeforeRecovery
  <2>2. p.poc \in Int /\ p.poc + p.recovery \in Int /\ -MAX_INT \in Int
    BY <1>1 DEF CodedPicture, MAX_INT
  <2>3. dec' = [dec EXCEPT
                  !.lastNoOutputBeforeRecovery =
                     IF p.type \in {"CRA", "GDR"}
                     THEN nobr ELSE dec.lastNoOutputBeforeRecovery,
                  !.pocRandomAccess = IF p.type = "IDR" THEN -MAX_INT
                                      ELSE IF @ = MAX_INT THEN p.poc ELSE @,
                  !.prevGdrRecoveryPoc = IF p.type = "GDR" /\ ~dec.prevGdr
                                         THEN p.poc + p.recovery ELSE @]
    BY DEF BeginPicture
  <2> HIDE DEF nobr
  <2> QED
    BY <2>1, <2>2, <2>3 DEF DecLibMembers
<1>14. app' \in DecAppVariables
  <2>1. app \in DecAppVariables /\ NewCLVS(p) \in BOOLEAN /\ -MAX_INT \in Int
    BY InvFacts DEF NewCLVS, MAX_INT
  <2>2. app' = [app EXCEPT !.newCLVS = NewCLVS(p), !.picSkipped = FALSE,
                  !.pocLastDisplay = IF Flushes(p) THEN -MAX_INT ELSE @]
    BY DEF BeginPicture
  <2> QED
    BY <2>1, <2>2 DEF DecAppVariables
<1>15. TypeOK'
  BY <1>3, <1>5, <1>10, <1>12, <1>13, <1>14, TypeOfNext DEF Inv, TypeOK
<1>16. OneAtATime' /\ DecodesIntoOwnBuffer' /\ NothingWaitsInRecovery'
  BY <1>2, <1>3, <1>12 DEF OneAtATime, DecodesIntoOwnBuffer, NothingWaitsInRecovery
<1> QED
  BY <1>6, <1>11, <1>15, <1>16, FlagsOfNext, FatesOfNext DEF Inv

\* A step to status "aborted" that changes nothing else keeps the invariant.
LEMMA AbortStep ==
  ASSUME Inv, app' = [app EXCEPT !.status = "aborted"],
         UNCHANGED <<picList, numPics, stream, dec, sps, history>>
  PROVE  Inv'
<1> USE DEF stream, history
<1>1. /\ app' \in DecAppVariables /\ app'.status = "aborted"
      /\ app'.gdrRecoveryPeriod = app.gdrRecoveryPeriod
  BY InvFacts DEF DecAppVariables
<1>2. TypeOK' /\ OneAtATime' /\ DecodesIntoOwnBuffer' /\ NoPictureLost' /\ OneFate'
  BY <1>1 DEF Inv, TypeOK, OneAtATime, DecodesIntoOwnBuffer, NoPictureLost, OneFate
<1>3. FlagsConsistent' /\ NothingWaitsInRecovery'
  BY <1>1 DEF Inv, FlagsConsistent, NothingWaitsInRecovery
<1> QED
  BY <1>2, <1>3 DEF Inv

\* EndOfStream keeps the invariant, with its last flush or when its CHECK ends
\* the process.
LEMMA EndOfStreamStep ==
  ASSUME Inv, EndOfStream
  PROVE  Inv'
<1> DEFINE present == app.outputPicturePresent \/ Waiting(picList) # {}
<1>1. pilot = None /\ curPic = None
  BY DEF EndOfStream
<1>2. UNCHANGED <<numPics, stream, dec, sps, due, discarded>>
  BY DEF EndOfStream
<1>3. CASE ~(app.picListSet /\ present)
  BY <1>2, <1>3, AbortStep DEF EndOfStream, history
<1>4. CASE app.picListSet /\ present
  <2>1. /\ shown' = Written(shown, picList, Waiting(picList))
        /\ picList' = << >>
        /\ app' = [app EXCEPT !.pocLastDisplay = -MAX_INT,
                              !.outputPicturePresent = present,
                              !.status = "finished"]
    BY <1>4 DEF EndOfStream
  <2>2. app' \in DecAppVariables
    <3>1. -MAX_INT \in Int /\ present \in BOOLEAN
      BY DEF MAX_INT
    <3> HIDE DEF present
    <3> QED
      BY <2>1, <3>1, InvFacts DEF DecAppVariables
  <2>3. IsList(picList', numPics) /\ Waiting(picList') = {} /\ Settled(picList', {})
    BY <2>1, InvFacts, EmptyList
  <2>5. IsFile(shown', numPics) /\ DOMAIN shown' = DOMAIN shown \cup Waiting(picList)
    BY <2>1, FlushedFile
  <2>6. /\ Histories(numPics, shown', discarded', due')
        /\ Fates(picList', shown', discarded', due')
    BY <1>2, <2>3, <2>5, InvFacts DEF Histories, Fates
  <2>7. TypeOK'
    BY <1>2, <2>2, <2>3, <2>6, TypeOfNext DEF Inv, TypeOK, stream
  <2>8. OneAtATime' /\ DecodesIntoOwnBuffer' /\ NothingWaitsInRecovery'
    BY <1>1, <1>2, <2>3
       DEF OneAtATime, DecodesIntoOwnBuffer, NothingWaitsInRecovery, stream
  <2> QED
    BY <2>3, <2>6, <2>7, <2>8, FlagsOfNext, FatesOfNext DEF Inv
<1> QED
  BY <1>3, <1>4

-----------------------------------------------------------------------------
(* Pictures entering the list.                                              *)

\* The fields a picture may enter the list with.
NewBuffer == {b \in Buffer : b.needed => b.reconstructed}

\* out is list pl with the new picture pic in buffer m: nothing that waits is
\* removed, and only the new picture may be a reference not reconstructed.
Entered(out, pl, m, pic) ==
  /\ IsList(out, m)
  /\ pic.needed => Waiting(out) = Waiting(pl) \cup {m}
  /\ ~pic.needed => Waiting(out) = Waiting(pl)
  /\ Settled(out, {m})
  /\ pic.reconstructed => Settled(out, {})
  /\ out[m] = pic /\ m \in DOMAIN out
  /\ \A i \in DOMAIN out \ {m} : i \in DOMAIN pl /\ out[i] = pl[i]
  /\ \A i \in DOMAIN pl \ DOMAIN out : ~pl[i].needed /\ ~pl[i].referenced

\* xGetNewPicBuffer enters a new picture into a settled list in this way.
LEMMA NewPicture ==
  ASSUME NEW n \in Nat, NEW pl, IsList(pl, n), Settled(pl, {}), NEW limit,
         NEW pic \in NewBuffer
  PROVE  Entered(WithPicture(pl, n + 1, limit, pic), pl, n + 1, pic)
<1> DEFINE out == WithPicture(pl, n + 1, limit, pic)
<1>1. pic \in Buffer
  BY DEF NewBuffer
<1>2. /\ IsList(out, n + 1)
      /\ DOMAIN out = (DOMAIN pl \ Victim(pl, limit)) \cup {n + 1}
      /\ n + 1 \notin DOMAIN pl
      /\ out[n + 1] = pic
      /\ \A i \in DOMAIN out \ {n + 1} : out[i] = pl[i]
      /\ \A v \in Victim(pl, limit) :
           /\ v \in DOMAIN pl /\ ~pl[v].needed
           /\ ~pl[v].reconstructed \/ ~pl[v].referenced
  BY <1>1, WithPictureKeeps
<1> HIDE DEF out
<1>3. /\ pic.needed => Waiting(out) = Waiting(pl) \cup {n + 1}
      /\ ~pic.needed => Waiting(out) = Waiting(pl)
  BY <1>2 DEF Waiting
<1>4. Settled(out, {n + 1}) /\ (pic.reconstructed => Settled(out, {}))
  BY <1>2 DEF Settled, NewBuffer
<1>5. \A i \in DOMAIN pl \ DOMAIN out : ~pl[i].needed /\ ~pl[i].referenced
  BY <1>2 DEF Settled
<1>6. \A i \in DOMAIN out \ {n + 1} : i \in DOMAIN pl /\ out[i] = pl[i]
  BY <1>2
<1> QED
  BY <1>2, <1>3, <1>4, <1>5, <1>6 DEF Entered, out

\* A picture inserted for a missing reference keeps the invariant.
LEMMA InsertStep ==
  ASSUME Inv, app.status = "running", pilot # None,
         NEW pic \in Buffer, pic.reconstructed, NEW limit,
         picList' = WithPicture(picList, numPics + 1, limit, pic),
         numPics' = numPics + 1, UNCHANGED <<stream, dec, app, sps, history>>
  PROVE  Inv'
<1> USE DEF stream, history
<1>1. curPic = None
  BY DEF Inv, OneAtATime
<1>2. numPics \in Nat /\ IsList(picList, numPics) /\ Settled(picList, {})
  BY <1>1, InvFacts, SettledBetween DEF Inv
<1>3. /\ IsList(picList', numPics + 1) /\ Settled(picList', {})
      /\ pic.needed => Waiting(picList') = Waiting(picList) \cup {numPics + 1}
      /\ ~pic.needed => Waiting(picList') = Waiting(picList)
  <2>1. pic \in NewBuffer
    BY DEF NewBuffer
  <2>2. Entered(picList', picList, numPics + 1, pic)
    BY <1>2, <2>1, NewPicture
  <2> QED
    BY <2>2 DEF Entered
<1>4. /\ Histories(numPics, shown, discarded, due)
      /\ Fates(picList, shown, discarded, due)
  BY InvFacts
<1>5. Histories(numPics', shown', discarded', due')
  BY <1>2, <1>4 DEF Histories, IsFile
<1>6. Fates(picList', shown', discarded', due')
  BY <1>2, <1>3, <1>4 DEF Histories, IsFile, Fates
<1>7. refPicList' \in [DOMAIN refPicList' -> 1..numPics']
  BY <1>2 DEF Inv, TypeOK
<1>8. TypeOK'
  BY <1>2, <1>3, <1>5, <1>7, TypeOfNext DEF Inv, TypeOK
<1>9. OneAtATime' /\ DecodesIntoOwnBuffer' /\ NothingWaitsInRecovery'
  BY <1>1 DEF OneAtATime, DecodesIntoOwnBuffer, NothingWaitsInRecovery
<1> QED
  BY <1>3, <1>6, <1>8, <1>9, FlagsOfNext, FatesOfNext DEF Inv

\* The picture whose header is read is a coded picture.
LEMMA PilotType ==
  ASSUME Inv, pilot # None
  PROVE  /\ pilot \in PilotPicture /\ pilot.pic \in CodedPicture
         /\ pilot.pic.poc \in Int /\ pilot.pic.cvs \in Nat /\ pilot.pic.type \in Types
         /\ pilot.pic.active \subseteq Int /\ pilot.output \in BOOLEAN
BY DEF Inv, TypeOK, PilotPicture, CodedPicture

\* InsertUnavailablePicture keeps the invariant.
LEMMA InsertUnavailablePictureStep ==
  ASSUME Inv, InsertUnavailablePicture
  PROVE  Inv'
<1>1. PICK r \in Missing :
        picList' = WithPicture(picList, numPics + 1, sps.buffering[0],
                     [poc |-> r, referenced |-> TRUE, needed |-> FALSE,
                      reconstructed |-> TRUE, cvs |-> pilot.pic.cvs])
  BY DEF InsertUnavailablePicture
<1>2. r \in Int /\ pilot.pic.cvs \in Nat
  BY PilotType DEF InsertUnavailablePicture, Missing, MissingRefs
<1> DEFINE pic == [poc |-> r, referenced |-> TRUE, needed |-> FALSE,
                   reconstructed |-> TRUE, cvs |-> pilot.pic.cvs]
<1>3. pic \in Buffer /\ pic.reconstructed
  BY <1>2 DEF Buffer
<1>4. picList' = WithPicture(picList, numPics + 1, sps.buffering[0], pic)
  BY <1>1
<1> HIDE DEF pic
<1> QED
  BY <1>3, <1>4, InsertStep DEF InsertUnavailablePicture

\* InsertLostPicture keeps the invariant, whether it inserts or aborts.
LEMMA InsertLostPictureStep ==
  ASSUME Inv, InsertLostPicture
  PROVE  Inv'
<1>1. CASE app' = [app EXCEPT !.status = "aborted"] /\ UNCHANGED <<picList, numPics>>
  BY <1>1, AbortStep DEF InsertLostPicture
<1>2. ASSUME NEW v \in Victim(picList, sps.buffering[0]),
             picList' = WithPicture(picList, numPics + 1, sps.buffering[0],
                          [picList[v] EXCEPT !.referenced = TRUE, !.needed = TRUE,
                                             !.reconstructed = TRUE]),
             numPics' = numPics + 1, UNCHANGED app
      PROVE  Inv'
  <2> DEFINE pic == [picList[v] EXCEPT !.referenced = TRUE, !.needed = TRUE,
                                       !.reconstructed = TRUE]
  <2>1. v \in DOMAIN picList
    BY DEF Victim, Reusable
  <2>2. pic \in Buffer /\ pic.reconstructed
    BY <2>1, InvFacts DEF Buffer
  <2>3. picList' = WithPicture(picList, numPics + 1, sps.buffering[0], pic)
    BY <1>2
  <2> HIDE DEF pic
  <2> QED
    BY <1>2, <2>2, <2>3, InsertStep DEF InsertLostPicture
<1> QED
  BY <1>1, <1>2 DEF InsertLostPicture

-----------------------------------------------------------------------------
(* The start of decoding a picture.                                         *)

\* FailOnReference keeps the invariant.
LEMMA FailOnReferenceStep ==
  ASSUME Inv, FailOnReference
  PROVE  Inv'
BY AbortStep DEF FailOnReference

\* After marking and the search for a buffer the list holds the new picture,
\* all that waited, and every picture that its lists name as a reference.
LEMMA ActivatedList ==
  ASSUME Inv, app.status = "running", pilot # None
  PROVE  /\ IsList(Activated, numPics + 1)
         /\ Waiting(Activated) = Waiting(picList)
         /\ Settled(Activated, {numPics + 1})
         /\ numPics + 1 \in DOMAIN Activated
         /\ ~Activated[numPics + 1].needed /\ ~Activated[numPics + 1].reconstructed
         /\ \A i \in DOMAIN picList \ DOMAIN Activated :
              /\ ~picList[i].needed
              /\ picList[i].referenced => picList[i].poc \notin pilot.pic.refs
<1> DEFINE list == IF pilot.pic.type = "IDR" THEN picList
                   ELSE Marked(picList, pilot.pic.poc, pilot.pic.refs)
           pic == [poc |-> pilot.pic.poc, referenced |-> TRUE, needed |-> FALSE,
                   reconstructed |-> FALSE, cvs |-> pilot.pic.cvs]
<1>1. curPic = None
  BY DEF Inv, OneAtATime
<1>2. numPics \in Nat /\ IsList(picList, numPics) /\ Settled(picList, {})
  BY <1>1, InvFacts, SettledBetween DEF Inv
<1>3. /\ IsList(list, numPics) /\ DOMAIN list = DOMAIN picList
      /\ Waiting(list) = Waiting(picList) /\ Settled(list, {})
      /\ \A i \in DOMAIN list :
           /\ picList[i].needed => list[i].needed
           /\ picList[i].referenced /\ picList[i].poc \in pilot.pic.refs
                => list[i].referenced \/ pilot.pic.type = "IDR"
           /\ pilot.pic.type = "IDR" => list[i] = picList[i]
  <2>1. CASE pilot.pic.type = "IDR"
    BY <1>2, <2>1
  <2>2. CASE pilot.pic.type # "IDR"
    <3> DEFINE out == Marked(picList, pilot.pic.poc, pilot.pic.refs)
    <3>1. /\ IsList(out, numPics) /\ DOMAIN out = DOMAIN picList
          /\ \A i \in DOMAIN picList :
               /\ out[i].referenced = (picList[i].referenced /\
                    picList[i].poc \in pilot.pic.refs \cup {pilot.pic.poc})
               /\ out[i].needed = picList[i].needed
               /\ out[i].reconstructed = picList[i].reconstructed
          /\ Waiting(out) = Waiting(picList)
      BY <1>2, MarkedKeeps
    <3> HIDE DEF out
    <3>2. Settled(out, {})
      BY <1>2, <3>1 DEF Settled
    <3>3. list = out
      BY <2>2 DEF out
    <3> HIDE DEF list
    <3> QED
      BY <2>2, <3>1, <3>2, <3>3
  <2> QED
    BY <2>1, <2>2
<1>4. pic \in NewBuffer
  <2>1. pilot.pic.poc \in Int /\ pilot.pic.cvs \in Nat
    BY PilotType
  <2> QED
    BY <2>1 DEF NewBuffer, Buffer
<1>5. Activated = WithPicture(list, numPics + 1, sps.buffering[pilot.pic.tid], pic)
  BY DEF Activated
<1>6. ~pic.needed /\ ~pic.reconstructed
  OBVIOUS
<1> HIDE DEF list, pic
<1>7. Entered(Activated, list, numPics + 1, pic)
  BY <1>2, <1>3, <1>4, <1>5, NewPicture
<1>8. ASSUME NEW i \in DOMAIN picList \ DOMAIN Activated
      PROVE  /\ ~picList[i].needed
             /\ picList[i].referenced => picList[i].poc \notin pilot.pic.refs
  BY <1>3, <1>7 DEF Entered
<1> QED
  BY <1>3, <1>6, <1>7, <1>8 DEF Entered

\* A list that is built for entries with pictures resolves each to one of them.
LEMMA RefPicListsResolve ==
  ASSUME NEW active, \A r \in active : RefPicsFor(r) # {},
         NEW list \in RefPicLists(active)
  PROVE  /\ list \in [active -> DOMAIN Activated]
         /\ \A r \in active : list[r] \in RefPicsFor(r)
<1> DEFINE several == {r \in active : \E i, j \in RefPicsFor(r) : i # j}
<1>1. PICK f \in {g \in [several -> DOMAIN Activated] :
                   \A r \in several : g[r] \in RefPicsFor(r)} :
        list = [r \in active |-> IF r \in several THEN f[r]
                                ELSE CHOOSE i \in RefPicsFor(r) : TRUE]
  BY DEF RefPicLists
<1>2. \A r \in active : list[r] \in RefPicsFor(r)
  BY <1>1
<1>3. \A r \in active : RefPicsFor(r) \subseteq DOMAIN Activated
  BY DEF RefPicsFor, RefPics
<1> QED
  BY <1>1, <1>2, <1>3

\* ActivatePicture keeps the invariant: its lists resolve to buffers other
\* than its own, and it enters the list as neither waiting nor reconstructed.
LEMMA ActivatePictureStep ==
  ASSUME Inv, NEW last \in BOOLEAN, ActivatePicture(last)
  PROVE  Inv'
<1> DEFINE p == pilot.pic
           n == numPics + 1
           a == [app EXCEPT
                   !.gdrRecoveryPeriod = @ \/ (app.prevPicSkipped /\ p.type = "GDR"),
                   !.prevPicSkipped = @ /\ p.type = "RASL"]
<1>1. /\ app.status = "running" /\ pilot # None /\ numPics \in Nat /\ n \in Nat
      /\ numPics' = n /\ pilot' = None /\ due' = due /\ sps' = sps
      /\ curPic' = [id |-> n, type |-> p.type, output |-> pilot.output]
      /\ dec' = [dec EXCEPT !.firstSliceInSequence = FALSE]
      /\ refPicList' \in [p.active -> DOMAIN Activated]
      /\ \A r \in p.active : refPicList'[r] \in RefPicsFor(r)
  <2>1. /\ \A r \in p.active : RefPicsFor(r) # {}
        /\ refPicList' \in RefPicLists(p.active)
    BY DEF ActivatePicture
  <2>2. /\ refPicList' \in [p.active -> DOMAIN Activated]
        /\ \A r \in p.active : refPicList'[r] \in RefPicsFor(r)
    BY <2>1, RefPicListsResolve
  <2> QED
    BY <2>2, InvFacts DEF ActivatePicture
<1>2. /\ IsList(Activated, n) /\ Waiting(Activated) = Waiting(picList)
      /\ Settled(Activated, {n}) /\ n \in DOMAIN Activated
      /\ ~Activated[n].needed /\ ~Activated[n].reconstructed
  BY <1>1, ActivatedList
<1>3. curPic' \in CurrentPicture /\ curPic' # None
  <2>1. curPic' \in CurrentPicture
    BY <1>1, PilotType DEF CurrentPicture
  <2> QED
    BY <2>1, NoneAssumption
<1>4. a \in DecAppVariables
  BY InvFacts DEF DecAppVariables
<1>5. /\ Histories(numPics, shown, discarded, due) /\ Histories(n, shown, discarded, due)
      /\ Fates(Activated, shown, discarded, due)
      /\ n \notin DOMAIN shown \cup DOMAIN discarded \cup due \cup Waiting(picList)
  <2>1. Histories(numPics, shown, discarded, due) /\ Fates(picList, shown, discarded, due)
    BY InvFacts
  <2>2. Waiting(picList) \subseteq 1..numPics
    BY InvFacts DEF Waiting, IsList
  <2> QED
    BY <1>1, <1>2, <2>1, <2>2 DEF Histories, IsFile, Fates
<1>6. /\ IsList(picList', n) /\ Lowered(picList', Activated)
      /\ app' \in DecAppVariables
      /\ Histories(n, shown', discarded', due')
      /\ Fates(picList', shown', discarded', due')
      /\ DOMAIN shown' \subseteq DOMAIN shown \cup Waiting(picList)
      /\ DOMAIN discarded' \subseteq DOMAIN discarded \cup Waiting(picList)
      /\ app'.gdrRecoveryPeriod /\ app'.status = "running" => Waiting(picList') = {}
  <2>1. CASE last
    <3>1. /\ picList' = Activated /\ app' = [a EXCEPT !.status = "lastPicture"]
          /\ shown' = shown /\ discarded' = discarded
      BY <2>1 DEF ActivatePicture
    <3> HIDE DEF a
    <3>2. app' \in DecAppVariables /\ app'.status = "lastPicture"
      BY <3>1, <1>4 DEF DecAppVariables
    <3> QED
      BY <1>1, <1>2, <1>5, <3>1, <3>2 DEF Lowered
  <2>2. CASE ~last
    <3>1. EndOfIteration(Activated, a)
      BY <2>2 DEF ActivatePicture
    <3> HIDE DEF a, n
    <3> QED
      BY <1>1, <1>2, <1>4, <1>5, <3>1, EndOfIterationEffect
  <2> QED
    BY <2>1, <2>2
<1> HIDE DEF n, a
<1>7. TypeOK'
  <2>1. dec' \in DecLibMembers
    BY <1>1, InvFacts DEF DecLibMembers
  <2>2. sps' \in SpsSet /\ refPicList' \in [DOMAIN refPicList' -> 1..numPics']
    BY <1>1, <1>2 DEF Inv, TypeOK, IsList
  <2> QED
    BY <1>1, <1>3, <1>6, <2>1, <2>2, TypeOfNext
<1>8. OneAtATime'
  <2>1. curPic'.id = n
    BY <1>1
  <2> QED
    BY <1>1, <1>5, <1>6, <2>1 DEF OneAtATime
<1>9. FlagsConsistent'
  <2>1. Settled(picList', {n})
    BY <1>2, <1>6, LoweredSettled
  <2> QED
    BY <1>1, <1>3, <2>1, FlagsOfNext
<1>10. DecodesIntoOwnBuffer'
  <2>1. DOMAIN picList' = DOMAIN Activated /\ curPic'.id = n
    BY <1>1, <1>6 DEF Lowered
  <2>2. ~picList'[n].needed /\ ~picList'[n].reconstructed
    BY <1>2, <1>6 DEF Lowered
  <2>3. ASSUME NEW r \in DOMAIN refPicList'
        PROVE  /\ refPicList'[r] \in DOMAIN picList' \ {n}
               /\ picList'[refPicList'[r]].poc = r
    <3>1. refPicList'[r] \in DOMAIN Activated \ {n} /\ Activated[refPicList'[r]].poc = r
      BY <1>1 DEF RefPicsFor, RefPics, n
    <3> QED
      BY <1>6, <2>1, <3>1 DEF Lowered
  <2> QED
    BY <1>2, <2>1, <2>2, <2>3 DEF DecodesIntoOwnBuffer
<1>11. NothingWaitsInRecovery'
  BY <1>3, <1>6 DEF NothingWaitsInRecovery
<1> QED
  BY <1>6, <1>7, <1>8, <1>9, <1>10, <1>11, FatesOfNext DEF Inv

-----------------------------------------------------------------------------
(* The end of a picture.                                                    *)

\* finishPicture marks the current picture reconstructed and decides whether it
\* waits; the other pictures stay as they are.
LEMMA FinishedList ==
  ASSUME Inv, curPic # None, NEW c \in BOOLEAN
  PROVE  /\ IsList(Finished(c), numPics)
         /\ Waiting(picList) \subseteq Waiting(Finished(c))
         /\ Waiting(Finished(c)) \subseteq Waiting(picList) \cup {curPic.id}
         /\ Settled(Finished(c), DOMAIN Finished(c))
         /\ app.status = "running" => Settled(Finished(c), {})
<1> DEFINE list == Finished(c)
<1>1. /\ curPic.id \in DOMAIN picList /\ ~picList[curPic.id].needed
      /\ picList[curPic.id] \in Buffer
  BY InvFacts DEF Inv, DecodesIntoOwnBuffer
<1>2. OutputCurrent(c) \in BOOLEAN
  BY DEF OutputCurrent, Inv, TypeOK, CurrentPicture
<1>3. /\ DOMAIN list = DOMAIN picList
      /\ list[curPic.id] \in Buffer /\ list[curPic.id].reconstructed
      /\ \A i \in DOMAIN picList \ {curPic.id} : list[i] = picList[i]
      /\ list = [i \in DOMAIN list |-> list[i]]
  <2>1. picList = [i \in DOMAIN picList |-> picList[i]]
    BY InvFacts DEF IsList
  <2>2. list = [i \in DOMAIN picList |->
                  IF i = curPic.id
                  THEN [picList[i] EXCEPT !.needed = OutputCurrent(c), !.reconstructed = TRUE]
                  ELSE picList[i]]
    BY <2>1, <1>1 DEF Finished
  <2>3. [picList[curPic.id] EXCEPT !.needed = OutputCurrent(c), !.reconstructed = TRUE]
          \in {b \in Buffer : b.reconstructed}
    BY <1>1, <1>2 DEF Buffer
  <2> HIDE DEF list
  <2> QED
    BY <2>2, <2>3, <1>1
<1> HIDE DEF list
<1>4. IsList(list, numPics)
  BY <1>1, <1>3, InvFacts DEF IsList
<1>5. Waiting(picList) \subseteq Waiting(list)
  BY <1>1, <1>3 DEF Waiting
<1>6. Waiting(list) \subseteq Waiting(picList) \cup {curPic.id}
  BY <1>1, <1>3 DEF Waiting
<1>7. Settled(list, DOMAIN list)
  BY <1>1, <1>3 DEF Inv, FlagsConsistent, Settled
<1>8. app.status = "running" => Settled(list, {})
  BY <1>1, <1>3 DEF Inv, FlagsConsistent, Settled
<1> QED
  BY <1>4, <1>5, <1>6, <1>7, <1>8 DEF list

\* The iteration of the loop that ends a picture keeps the invariant.
LEMMA CloseStep ==
  ASSUME Inv, curPic # None, NEW list, IsList(list, numPics),
         curPic.id \in DOMAIN list,
         Waiting(picList) \subseteq Waiting(list),
         Waiting(list) \subseteq Waiting(picList) \cup {curPic.id},
         Settled(list, DOMAIN list),
         NEW a \in DecAppVariables, a.status = "running" => Settled(list, {}),
         NEW reason \in Reasons, NEW d \in DecLibMembers,
         \/ WriteOutput(Suppress(list, a), a)
         \/ picList' = Suppress(list, a) /\ app' = a /\ shown' = shown,
         Accounted(list, a, reason), CloseCurrent(d)
  PROVE  Inv'
<1> DEFINE X == IF curPic.output /\ ~list[curPic.id].needed THEN {curPic.id} ELSE {}
<1>1. /\ Histories(numPics, shown, discarded, due) /\ Fates(picList, shown, discarded, due)
      /\ numPics \in Nat /\ IsList(picList, numPics)
      /\ curPic.id \notin DOMAIN shown \cup DOMAIN discarded \cup due
  BY InvFacts DEF Inv, OneAtATime
<1>2. /\ dec' = [d EXCEPT !.prevGdr = @ \/ curPic.type = "GDR"]
      /\ curPic' = None /\ refPicList' = << >>
      /\ UNCHANGED <<numPics, pilot, sps>>
  BY DEF CloseCurrent
<1>3. /\ due' = due \cup (IF curPic.output THEN {curPic.id} ELSE {})
      /\ DOMAIN discarded' = DOMAIN discarded \cup X
                             \cup IF a.gdrRecoveryPeriod THEN Waiting(list) ELSE {}
  BY DEF Accounted
<1>4. discarded' \in [DOMAIN discarded' -> Reasons]
  <2>1. discarded \in [DOMAIN discarded -> Reasons] /\ "recovery" \in Reasons
    BY <1>1 DEF Histories, Reasons
  <2> QED
    BY <2>1 DEF Accounted
<1>5. X \subseteq {curPic.id} /\ curPic.id \in 1..numPics
  BY DEF IsList
<1>6. /\ X \subseteq 1..numPics /\ X \cap (Waiting(list) \cup DOMAIN shown) = {}
      /\ due' \subseteq 1..numPics /\ due' \subseteq due \cup X \cup Waiting(list)
  BY <1>1, <1>3, <1>5 DEF Waiting, Histories
<1>7. Fates(list, shown, discarded, due)
  BY <1>1 DEF Fates
<1> HIDE DEF X
<1>8. /\ IsList(picList', numPics) /\ Lowered(picList', list)
      /\ app' \in DecAppVariables
      /\ app'.gdrRecoveryPeriod = a.gdrRecoveryPeriod /\ app'.status = a.status
      /\ Histories(numPics, shown', discarded', due')
      /\ Fates(picList', shown', discarded', due')
      /\ a.gdrRecoveryPeriod => Waiting(picList') = {}
  BY <1>1, <1>3, <1>4, <1>6, <1>7, IterationEffect
<1>9. dec' \in DecLibMembers
  BY <1>2 DEF DecLibMembers
<1>10. refPicList' \in [DOMAIN refPicList' -> 1..numPics']
  BY <1>2
<1>11. TypeOK'
  BY <1>1, <1>2, <1>8, <1>9, <1>10, TypeOfNext DEF Inv, TypeOK
<1>12. OneAtATime' /\ DecodesIntoOwnBuffer'
  BY <1>2 DEF OneAtATime, DecodesIntoOwnBuffer
<1>13. FlagsConsistent'
  BY <1>8 DEF Lowered, Settled, FlagsConsistent
<1>14. NothingWaitsInRecovery'
  BY <1>8 DEF NothingWaitsInRecovery
<1> QED
  BY <1>8, <1>11, <1>12, <1>13, <1>14, FatesOfNext DEF Inv

\* DecApp's variables keep their types when a picture is finished.
LEMMA AfterFinishType ==
  ASSUME NEW a \in DecAppVariables, NEW recoveryPoc
  PROVE  /\ AfterFinish(a, recoveryPoc) \in DecAppVariables
         /\ AfterFinish(a, recoveryPoc).status = a.status
<1> DEFINE period == a.gdrRecoveryPeriod /\ picList[curPic.id].poc < recoveryPoc
<1>1. AfterFinish(a, recoveryPoc) = [a EXCEPT !.picListSet = TRUE,
                                              !.gdrRecoveryPeriod = period]
  BY DEF AfterFinish
<1>2. period \in BOOLEAN
  OBVIOUS
<1> HIDE DEF period
<1> QED
  BY <1>1, <1>2 DEF DecAppVariables

\* FinishPicture keeps the invariant.
LEMMA FinishPictureStep ==
  ASSUME Inv, FinishPicture
  PROVE  Inv'
<1> DEFINE b == [app EXCEPT !.loopFiltered = FALSE, !.eosInLastPu = FALSE]
           a == AfterFinish(b, dec.prevGdrRecoveryPoc)
           list == Finished(app.newCLVS)
<1>1. /\ curPic # None /\ app.status = "running"
      /\ WriteOutput(Suppress(list, a), a)
      /\ Accounted(list, a, "newCLVS") /\ CloseCurrent(dec)
  BY DEF FinishPicture
<1>2. b \in DecAppVariables /\ b.status = app.status /\ app.newCLVS \in BOOLEAN
  BY InvFacts DEF DecAppVariables
<1> HIDE DEF b
<1>3. a \in DecAppVariables /\ a.status = app.status
  BY <1>2, AfterFinishType
<1>4. curPic.id \in DOMAIN list
  BY <1>1, InvFacts DEF Finished, Inv, DecodesIntoOwnBuffer, IsList
<1>5. "newCLVS" \in Reasons
  BY DEF Reasons
<1>6. /\ IsList(list, numPics) /\ Waiting(picList) \subseteq Waiting(list)
      /\ Waiting(list) \subseteq Waiting(picList) \cup {curPic.id}
      /\ Settled(list, DOMAIN list) /\ Settled(list, {})
  BY <1>1, <1>2, FinishedList
<1> HIDE DEF a, list
<1> QED
  BY <1>1, <1>3, <1>4, <1>5, <1>6, InvFacts, CloseStep

\* An EOS after a picture keeps the invariant.
LEMMA EndOfSequenceAfterPictureStep ==
  ASSUME Inv, EndOfSequenceAfterPicture
  PROVE  Inv'
<1> DEFINE b == [app EXCEPT !.newCLVS = TRUE, !.eosInLastPu = TRUE, !.loopFiltered = TRUE]
           a == AfterFinish(b, -MAX_INT)
           list == Finished(TRUE)
           d == [ResetByEos(dec) EXCEPT !.firstSliceInSequence = TRUE]
<1>1. /\ curPic # None /\ app.status = "running"
      /\ WriteOutput(Suppress(list, a), a)
      /\ Accounted(list, a, "newCLVS") /\ CloseCurrent(d)
  BY DEF EndOfSequenceAfterPicture
<1>2. b \in DecAppVariables /\ b.status = app.status
  BY InvFacts DEF DecAppVariables
<1> HIDE DEF b
<1>3. a \in DecAppVariables /\ a.status = app.status /\ d \in DecLibMembers
  BY <1>2, InvFacts, AfterFinishType, ResetByEosType
<1>4. curPic.id \in DOMAIN list
  BY <1>1, InvFacts DEF Finished, Inv, DecodesIntoOwnBuffer, IsList
<1>5. "newCLVS" \in Reasons
  BY DEF Reasons
<1>6. /\ IsList(list, numPics) /\ Waiting(picList) \subseteq Waiting(list)
      /\ Waiting(list) \subseteq Waiting(picList) \cup {curPic.id}
      /\ Settled(list, DOMAIN list) /\ Settled(list, {})
  BY <1>1, FinishedList
<1> HIDE DEF a, list, d
<1> QED
  BY <1>1, <1>3, <1>4, <1>5, <1>6, InvFacts, CloseStep

\* FinishLastPicture keeps the invariant, with or without finishPicture.
LEMMA FinishLastPictureStep ==
  ASSUME Inv, FinishLastPicture
  PROVE  Inv'
<1> DEFINE b == [app EXCEPT !.loopFiltered = FALSE, !.status = "lastPicture"]
           a == AfterFinish(b, dec.prevGdrRecoveryPoc)
           list == IF app.loopFiltered THEN picList ELSE Finished(app.newCLVS)
           reason == IF app.loopFiltered THEN "unfinished" ELSE "newCLVS"
<1>1. /\ curPic # None
      /\ \/ WriteOutput(Suppress(list, a), a)
         \/ picList' = Suppress(list, a) /\ app' = a /\ shown' = shown
      /\ Accounted(list, a, reason) /\ CloseCurrent(dec)
  BY DEF FinishLastPicture
<1>2. b \in DecAppVariables /\ b.status = "lastPicture" /\ app.newCLVS \in BOOLEAN
  BY InvFacts DEF DecAppVariables
<1> HIDE DEF b
<1>3. a \in DecAppVariables /\ a.status = "lastPicture"
  BY <1>2, AfterFinishType
<1>4. /\ curPic.id \in DOMAIN list
      /\ IsList(list, numPics) /\ Waiting(picList) \subseteq Waiting(list)
      /\ Waiting(list) \subseteq Waiting(picList) \cup {curPic.id}
      /\ Settled(list, DOMAIN list)
  <2>1. curPic.id \in DOMAIN picList
    BY <1>1 DEF Inv, DecodesIntoOwnBuffer
  <2>2. CASE app.loopFiltered
    BY <2>1, <2>2, InvFacts DEF Inv, FlagsConsistent, Settled
  <2>3. CASE ~app.loopFiltered
    <3>1. DOMAIN Finished(app.newCLVS) = DOMAIN picList
      BY InvFacts DEF Finished, IsList
    <3> QED
      BY <2>1, <2>3, <3>1, <1>1, <1>2, FinishedList
  <2> QED
    BY <2>2, <2>3
<1>5. reason \in Reasons
  BY DEF Reasons
<1> HIDE DEF a, list, reason
<1> QED
  BY <1>1, <1>3, <1>4, <1>5, InvFacts, CloseStep

-----------------------------------------------------------------------------
(* The theorems about any stream.                                           *)

\* The process starts in a state of the invariant.
LEMMA InitInv == Init => Inv
<1> SUFFICES ASSUME Init
             PROVE  Inv
  OBVIOUS
<1>1. /\ picList = << >> /\ numPics = 0 /\ pilot = None /\ curPic = None
      /\ refPicList = << >> /\ sps \in SpsSet
      /\ shown = << >> /\ due = {} /\ discarded = << >>
  BY DEF Init
<1>2. DOMAIN << >> = {}
  OBVIOUS
<1>3. MAX_INT \in Int /\ -MAX_INT \in Int
  BY DEF MAX_INT
<1>4. app \in DecAppVariables /\ dec \in DecLibMembers
  BY <1>3 DEF Init, DecAppVariables, DecLibMembers
<1>5. TypeOK
  BY <1>1, <1>2, <1>4 DEF TypeOK
<1>6. Waiting(picList) = {}
  BY <1>1, <1>2 DEF Waiting
<1> QED
  BY <1>1, <1>2, <1>5, <1>6
     DEF Inv, OneAtATime, FlagsConsistent, DecodesIntoOwnBuffer, NoPictureLost,
         OneFate, NothingWaitsInRecovery

\* Every step of the process keeps the invariant.
LEMMA NextInv == Inv /\ [Next]_vars => Inv'
<1> SUFFICES ASSUME Inv, [Next]_vars
             PROVE  Inv'
  OBVIOUS
<1>1. ASSUME NEW p \in Pictures, SkipPicture(p) \/ BeginPicture(p)
      PROVE  Inv'
  BY <1>1, PicturesAssumption, SkipPictureStep, BeginPictureStep
<1>2. CASE Decode
  BY <1>2, InsertUnavailablePictureStep, InsertLostPictureStep, ActivatePictureStep,
     FailOnReferenceStep, FinishPictureStep, FinishLastPictureStep DEF Decode
<1>3. CASE EndOfSequence
  BY <1>3, EndOfSequenceAfterPictureStep, EndOfSequenceAfterSkipStep DEF EndOfSequence
<1>4. CASE EndOfStream
  BY <1>4, EndOfStreamStep
<1>5. CASE UNCHANGED vars
  BY <1>5 DEF Inv, TypeOK, OneAtATime, FlagsConsistent, DecodesIntoOwnBuffer,
     NoPictureLost, OneFate, NothingWaitsInRecovery, vars, stream, history
<1> QED
  BY <1>1, <1>2, <1>3, <1>4, <1>5 DEF Next

\* The invariant holds throughout.
THEOREM Invariance == Spec => []Inv
BY InitInv, NextInv, PTL DEF Spec

\* Every variable keeps its type, whatever the stream.
THEOREM TypeCorrect == Spec => []TypeOK
<1>1. Inv => TypeOK
  BY DEF Inv
<1> QED
  BY <1>1, Invariance, PTL

\* A waiting or reference picture is always marked reconstructed, so that
\* xGetNewPicBuffer does not take it over; the one being decoded is the only
\* exception while the stream goes on.
THEOREM FlagsStayConsistent == Spec => []FlagsConsistent
<1>1. Inv => FlagsConsistent
  BY DEF Inv
<1> QED
  BY <1>1, Invariance, PTL

\* From activation to finishPicture the current picture and its reference
\* pictures keep their buffers.
THEOREM OwnBuffer == Spec => []DecodesIntoOwnBuffer
<1>1. Inv => DecodesIntoOwnBuffer
  BY DEF Inv
<1> QED
  BY <1>1, Invariance, PTL

\* Every finished picture with the output flag is written, waits, or was
\* cancelled for a known reason.
THEOREM NothingLost == Spec => []NoPictureLost
<1>1. Inv => NoPictureLost
  BY DEF Inv
<1> QED
  BY <1>1, Invariance, PTL

\* No picture is written twice, or written after its output was cancelled.
THEOREM EachFateOnce == Spec => []OneFate
<1>1. Inv => OneFate
  BY DEF Inv
<1> QED
  BY <1>1, Invariance, PTL

-----------------------------------------------------------------------------
(* The properties of steps.                                                 *)

\* Output at the end of an iteration keeps the buffers, and is silent when the
\* recovery period goes on.
LEMMA OutputOfIteration ==
  ASSUME Inv, NEW n \in Nat, n \in {numPics, numPics + 1},
         NEW pl, IsList(pl, n), NEW a \in DecAppVariables,
         \/ WriteOutput(Suppress(pl, a), a)
         \/ picList' = Suppress(pl, a) /\ app' = a /\ shown' = shown
  PROVE  DOMAIN picList' = DOMAIN pl /\ (app'.gdrRecoveryPeriod => shown' = shown)
<1>1. Histories(n, shown, discarded, due)
  BY InvFacts DEF Histories, IsFile
<1> DEFINE sl == Suppress(pl, a)
<1>2. /\ IsList(sl, n) /\ DOMAIN sl = DOMAIN pl
      /\ a.gdrRecoveryPeriod => Waiting(sl) = {}
  BY SuppressEffect DEF Lowered
<1>3. WriteOutput(sl, a) \/ (picList' = sl /\ shown' = shown)
  OBVIOUS
<1> HIDE DEF sl
<1>4. CASE WriteOutput(sl, a)
  BY <1>1, <1>2, <1>4, WriteOutputEffect DEF Lowered
<1>5. CASE picList' = sl /\ shown' = shown
  BY <1>2, <1>5
<1> QED
  BY <1>3, <1>4, <1>5

\* All actions that end an iteration of the loop between or after pictures.
LEMMA IterationOfStep ==
  ASSUME Inv, \/ \E p \in Pictures : SkipPicture(p)
              \/ FinishPicture \/ FinishLastPicture \/ EndOfSequence
  PROVE  DOMAIN picList' = DOMAIN picList /\ (app'.gdrRecoveryPeriod => shown' = shown)
<1>1. /\ numPics \in Nat /\ IsList(picList, numPics) /\ app \in DecAppVariables
      /\ app.newCLVS \in BOOLEAN
  BY InvFacts DEF DecAppVariables
<1>2. ASSUME NEW a \in DecAppVariables, EndOfIteration(picList, a)
      PROVE  DOMAIN picList' = DOMAIN picList /\ (app'.gdrRecoveryPeriod => shown' = shown)
  BY <1>1, <1>2, OutputOfIteration DEF EndOfIteration
<1>3. ASSUME NEW p \in Pictures, SkipPicture(p)
      PROVE  DOMAIN picList' = DOMAIN picList /\ (app'.gdrRecoveryPeriod => shown' = shown)
  <2> DEFINE a == [app EXCEPT !.newCLVS = NewCLVS(p), !.picSkipped = TRUE,
                              !.prevPicSkipped = @ \/ p.type # "RASL"]
  <2>1. NewCLVS(p) \in BOOLEAN
    BY <1>1 DEF NewCLVS
  <2>2. a \in DecAppVariables
    BY <1>1, <2>1 DEF DecAppVariables
  <2>3. EndOfIteration(picList, a)
    BY <1>3 DEF SkipPicture
  <2> HIDE DEF a
  <2> QED
    BY <1>2, <2>2, <2>3
<1>4. CASE EndOfSequenceAfterSkip
  <2> DEFINE a == [app EXCEPT !.newCLVS = TRUE, !.eosInLastPu = TRUE]
  <2>1. a \in DecAppVariables
    BY <1>1 DEF DecAppVariables
  <2>2. EndOfIteration(picList, a) \/ (picList' = picList /\ shown' = shown)
    BY <1>4 DEF EndOfSequenceAfterSkip
  <2> HIDE DEF a
  <2> QED
    BY <1>2, <2>1, <2>2
<1>5. ASSUME NEW c \in BOOLEAN, curPic # None
      PROVE  IsList(Finished(c), numPics) /\ DOMAIN Finished(c) = DOMAIN picList
  BY <1>5, FinishedList DEF Finished
<1>6. ASSUME curPic # None,
             NEW list, IsList(list, numPics), DOMAIN list = DOMAIN picList,
             NEW b \in DecAppVariables, NEW poc,
             \/ WriteOutput(Suppress(list, AfterFinish(b, poc)), AfterFinish(b, poc))
             \/ /\ picList' = Suppress(list, AfterFinish(b, poc))
                /\ app' = AfterFinish(b, poc) /\ shown' = shown
      PROVE  DOMAIN picList' = DOMAIN picList /\ (app'.gdrRecoveryPeriod => shown' = shown)
  <2> DEFINE a == AfterFinish(b, poc)
  <2>1. a \in DecAppVariables
    BY AfterFinishType
  <2>2. \/ WriteOutput(Suppress(list, a), a)
        \/ picList' = Suppress(list, a) /\ app' = a /\ shown' = shown
    BY <1>6
  <2> HIDE DEF a
  <2>3. DOMAIN picList' = DOMAIN list /\ (app'.gdrRecoveryPeriod => shown' = shown)
    BY <1>1, <2>1, <2>2, <1>6, OutputOfIteration
  <2> QED
    BY <2>3, <1>6
<1>7. CASE FinishPicture
  <2> DEFINE b == [app EXCEPT !.loopFiltered = FALSE, !.eosInLastPu = FALSE]
             list == Finished(app.newCLVS)
  <2>1. /\ curPic # None
        /\ WriteOutput(Suppress(list, AfterFinish(b, dec.prevGdrRecoveryPoc)),
                       AfterFinish(b, dec.prevGdrRecoveryPoc))
    BY <1>7 DEF FinishPicture
  <2>2. b \in DecAppVariables
    BY <1>1 DEF DecAppVariables
  <2>3. IsList(list, numPics) /\ DOMAIN list = DOMAIN picList
    BY <1>1, <1>5, <2>1
  <2> HIDE DEF b, list
  <2> QED
    BY <1>6, <2>1, <2>2, <2>3
<1>8. CASE FinishLastPicture
  <2> DEFINE b == [app EXCEPT !.loopFiltered = FALSE, !.status = "lastPicture"]
             list == IF app.loopFiltered THEN picList ELSE Finished(app.newCLVS)
             a == AfterFinish(b, dec.prevGdrRecoveryPoc)
  <2>1. /\ curPic # None
        /\ \/ WriteOutput(Suppress(list, a), a)
           \/ picList' = Suppress(list, a) /\ app' = a /\ shown' = shown
    BY <1>8 DEF FinishLastPicture
  <2>2. b \in DecAppVariables
    BY <1>1 DEF DecAppVariables
  <2>3. IsList(list, numPics) /\ DOMAIN list = DOMAIN picList
    BY <1>1, <1>5, <2>1
  <2> HIDE DEF b, list
  <2> QED
    BY <1>6, <2>1, <2>2, <2>3
<1>9. CASE EndOfSequenceAfterPicture
  <2> DEFINE b == [app EXCEPT !.newCLVS = TRUE, !.eosInLastPu = TRUE, !.loopFiltered = TRUE]
             list == Finished(TRUE)
  <2>1. /\ curPic # None
        /\ WriteOutput(Suppress(list, AfterFinish(b, -MAX_INT)), AfterFinish(b, -MAX_INT))
    BY <1>9 DEF EndOfSequenceAfterPicture
  <2>2. b \in DecAppVariables
    BY <1>1 DEF DecAppVariables
  <2>3. IsList(list, numPics) /\ DOMAIN list = DOMAIN picList
    BY <1>5, <2>1
  <2> HIDE DEF b, list
  <2> QED
    BY <1>6, <2>1, <2>2, <2>3
<1> QED
  BY <1>3, <1>4, <1>7, <1>8, <1>9 DEF EndOfSequence

\* A picture inserted for a missing reference removes only pictures that
\* neither wait nor are references.
LEMMA InsertRemoves ==
  ASSUME Inv, app.status = "running", pilot # None,
         NEW pic \in NewBuffer, NEW limit,
         picList' = WithPicture(picList, numPics + 1, limit, pic)
  PROVE  \A i \in DOMAIN picList \ DOMAIN picList' :
           ~picList[i].needed /\ ~picList[i].referenced
<1>1. curPic = None
  BY DEF Inv, OneAtATime
<1>2. numPics \in Nat /\ IsList(picList, numPics) /\ Settled(picList, {})
  BY <1>1, InvFacts, SettledBetween DEF Inv
<1>3. Entered(picList', picList, numPics + 1, pic)
  BY <1>2, NewPicture
<1> QED
  BY <1>3 DEF Entered

\* InsertUnavailablePicture and InsertLostPicture do.
LEMMA InsertionRemoves ==
  ASSUME Inv, InsertUnavailablePicture \/ InsertLostPicture
  PROVE  \A i \in DOMAIN picList \ DOMAIN picList' :
           ~picList[i].needed /\ ~picList[i].referenced
<1>1. CASE InsertUnavailablePicture
  <2>1. PICK r \in Missing :
          picList' = WithPicture(picList, numPics + 1, sps.buffering[0],
                       [poc |-> r, referenced |-> TRUE, needed |-> FALSE,
                        reconstructed |-> TRUE, cvs |-> pilot.pic.cvs])
    BY <1>1 DEF InsertUnavailablePicture
  <2>2. r \in Int /\ pilot.pic.cvs \in Nat
    BY <1>1, PilotType DEF InsertUnavailablePicture, Missing, MissingRefs
  <2> DEFINE pic == [poc |-> r, referenced |-> TRUE, needed |-> FALSE,
                     reconstructed |-> TRUE, cvs |-> pilot.pic.cvs]
  <2>3. pic \in NewBuffer
    BY <2>2 DEF Buffer, NewBuffer
  <2>4. picList' = WithPicture(picList, numPics + 1, sps.buffering[0], pic)
    BY <2>1
  <2> HIDE DEF pic
  <2> QED
    BY <1>1, <2>3, <2>4, InsertRemoves DEF InsertUnavailablePicture
<1>2. CASE InsertLostPicture
  <2>1. CASE UNCHANGED picList
    BY <2>1
  <2>2. ASSUME NEW v \in Victim(picList, sps.buffering[0]),
               picList' = WithPicture(picList, numPics + 1, sps.buffering[0],
                            [picList[v] EXCEPT !.referenced = TRUE, !.needed = TRUE,
                                               !.reconstructed = TRUE])
        PROVE  \A i \in DOMAIN picList \ DOMAIN picList' :
                 ~picList[i].needed /\ ~picList[i].referenced
    <3> DEFINE pic == [picList[v] EXCEPT !.referenced = TRUE, !.needed = TRUE,
                                         !.reconstructed = TRUE]
    <3>1. v \in DOMAIN picList
      BY DEF Victim, Reusable
    <3>2. pic \in NewBuffer
      BY <3>1, InvFacts DEF Buffer, NewBuffer
    <3>3. picList' = WithPicture(picList, numPics + 1, sps.buffering[0], pic)
      BY <2>2
    <3> HIDE DEF pic
    <3> QED
      BY <1>2, <3>2, <3>3, InsertRemoves DEF InsertLostPicture
  <2> QED
    BY <1>2, <2>1, <2>2 DEF InsertLostPicture
<1> QED
  BY <1>1, <1>2

\* A buffer is only ever taken from a picture that is in the file if it
\* waited, and that the new picture's lists do not name.
THEOREM FreeBuffersOnly == Spec => TakesFreeBuffersOnly
<1> DEFINE Free ==
      \A i \in DOMAIN picList \ DOMAIN picList' :
        /\ picList[i].needed => i \in DOMAIN shown'
        /\ pilot # None /\ picList[i].referenced => picList[i].poc \notin pilot.pic.refs
<1>1. ASSUME Inv, Next
      PROVE  Free
  <2>1. CASE \/ \E p \in Pictures : SkipPicture(p)
             \/ FinishPicture \/ FinishLastPicture \/ EndOfSequence
    BY <1>1, <2>1, IterationOfStep
  <2>2. ASSUME NEW p \in Pictures, BeginPicture(p)
        PROVE  Free
    <3>1. CASE Flushes(p)
      <4>1. pilot = None /\ shown' = Written(shown, picList, Waiting(picList))
        BY <2>2, <3>1 DEF BeginPicture
      <4> QED
        BY <1>1, <4>1, FlushedFile DEF Waiting
    <3>2. CASE ~Flushes(p)
      <4>1. DOMAIN picList' = DOMAIN picList
        BY <2>2, <3>2 DEF BeginPicture, Suppressed
      <4> QED
        BY <4>1
    <3> QED
      BY <3>1, <3>2
  <2>3. CASE InsertUnavailablePicture \/ InsertLostPicture
    BY <1>1, <2>3, InsertionRemoves
  <2>4. ASSUME NEW last \in BOOLEAN, ActivatePicture(last)
        PROVE  Free
    <3>1. app.status = "running" /\ pilot # None
      BY <2>4 DEF ActivatePicture
    <3>2. DOMAIN picList' = DOMAIN Activated
      BY <2>4 DEF ActivatePicture, EndOfIteration, WriteOutput, AfterOutput,
                  Suppress, Suppressed
    <3> QED
      BY <1>1, <3>1, <3>2, ActivatedList
  <2>5. CASE FailOnReference
    BY <2>5 DEF FailOnReference
  <2>6. CASE EndOfStream
    <3>1. CASE UNCHANGED picList
      BY <3>1
    <3>2. CASE shown' = Written(shown, picList, Waiting(picList))
      <4>1. pilot = None
        BY <2>6 DEF EndOfStream
      <4> QED
        BY <1>1, <3>2, <4>1, FlushedFile DEF Waiting
    <3> QED
      BY <2>6, <3>1, <3>2 DEF EndOfStream
  <2> QED
    BY <1>1, <2>1, <2>2, <2>3, <2>4, <2>5, <2>6 DEF Next, Decode
<1>2. Inv /\ [Next]_vars => [Free]_vars
  BY <1>1
<1> QED
  BY <1>2, Invariance, PTL DEF Spec, TakesFreeBuffersOnly

\* While a GDR recovery period goes on nothing is written.
THEOREM SilentRecovery == Spec => SilentDuringRecovery
<1> DEFINE Silent == app.gdrRecoveryPeriod /\ app'.gdrRecoveryPeriod => shown' = shown
<1>1. ASSUME Inv, Next
      PROVE  Silent
  <2>1. CASE \/ \E p \in Pictures : SkipPicture(p)
             \/ FinishPicture \/ FinishLastPicture \/ EndOfSequence
    BY <1>1, <2>1, IterationOfStep
  <2>2. app.gdrRecoveryPeriod /\ pilot = None /\ curPic = None
          => Written(shown, picList, Waiting(picList)) = shown
    <3>1. \A B \in SUBSET DOMAIN picList : B = {} => Written(shown, picList, B) = shown
      <4>1. numPics \in Nat /\ IsList(picList, numPics) /\ IsFile(shown, numPics)
        BY <1>1, InvFacts DEF Histories
      <4> QED
        BY <4>1, WrittenKeeps
    <3> QED
      BY <1>1, <3>1 DEF Inv, NothingWaitsInRecovery
  <2>3. ASSUME NEW p \in Pictures, BeginPicture(p)
        PROVE  Silent
    BY <2>2, <2>3 DEF BeginPicture
  <2>4. CASE InsertUnavailablePicture \/ InsertLostPicture \/ FailOnReference
    BY <2>4 DEF InsertUnavailablePicture, InsertLostPicture, FailOnReference, history
  <2>5. ASSUME NEW last \in BOOLEAN, ActivatePicture(last)
        PROVE  Silent
    <3> DEFINE a == [app EXCEPT
                       !.gdrRecoveryPeriod = @ \/ (app.prevPicSkipped /\ pilot.pic.type = "GDR"),
                       !.prevPicSkipped = @ /\ pilot.pic.type = "RASL"]
    <3>1. a \in DecAppVariables
      BY <1>1, InvFacts DEF DecAppVariables
    <3>2. UNCHANGED shown \/ EndOfIteration(Activated, a)
      BY <2>5 DEF ActivatePicture
    <3>3. IsList(Activated, numPics + 1) /\ numPics + 1 \in Nat
      BY <1>1, <2>5, ActivatedList, InvFacts DEF ActivatePicture
    <3> HIDE DEF a
    <3> QED
      BY <1>1, <3>1, <3>2, <3>3, OutputOfIteration DEF EndOfIteration
  <2>6. CASE EndOfStream
    BY <2>2, <2>6 DEF EndOfStream
  <2> QED
    BY <1>1, <2>1, <2>3, <2>4, <2>5, <2>6 DEF Next, Decode
<1>2. Inv /\ [Next]_vars => [Silent]_vars
  BY <1>1 DEF vars, history
<1> QED
  BY <1>2, Invariance, PTL DEF Spec, SilentDuringRecovery

-----------------------------------------------------------------------------
(* The invariant of the encoder, the decoder and what links them.           *)

\* Where decoding of the sequence began: the pictures below were skipped.
First == dec.pocRandomAccess

Live == app.status \in {"running", "lastPicture"}

Between == pilot = None /\ curPic = None

EncType ==
  /\ enc \in [cvs : Nat, start : BOOLEAN, irap : Int, irapType : {"IDR", "CRA", "GDR"},
              last : Int, future : SUBSET Int, prior : SUBSET Int,
              srefs : SUBSET [poc : Int, tid : Tids, leading : BOOLEAN],
              coded : SUBSET [poc : Int, tid : Tids, output : BOOLEAN]]
  /\ IsFiniteSet(enc.srefs) /\ IsFiniteSet(enc.coded)

\* The flags of the loop follow the encoder: an EOS is remembered until the
\* next sequence's first picture is finished, and a RASL picture never counts
\* as one of a new sequence.
Control ==
  /\ enc.start => Between
  /\ enc.start <=> First = MAX_INT
  /\ enc.cvs = 0 => enc.start /\ dec.firstSliceInSequence
  /\ Between /\ app.status = "running" => (app.eosInLastPu <=> enc.start /\ enc.cvs > 0)
  /\ Between /\ enc.cvs > 0 => app.picListSet
  /\ pilot # None /\ pilot.pic.type = "RASL" => ~app.newCLVS
  /\ curPic # None /\ curPic.type = "RASL" => ~app.newCLVS
  /\ curPic = None => DOMAIN refPicList = {}
  /\ DiscardsOnRequestOnly

\* What the encoder knows of the sequence: POCs are not repeated, and only the
\* leading pictures of the first picture, if that is a CRA, are skipped.
CodedOnce ==
  /\ enc.start => enc.future = {} /\ enc.srefs = {} /\ enc.coded = {}
  /\ ~enc.start =>
       /\ First <= enc.irap /\ 0 <= enc.irap /\ enc.irap <= enc.last
       /\ \A q \in enc.coded : -MaxLeading <= q.poc /\ q.poc <= enc.last
       /\ \A q, r \in enc.coded : q.poc = r.poc => q = r
       /\ \A x \in enc.future :
            x >= -MaxLeading /\ x # enc.irap /\ x \notin Pocs(enc.coded)
       /\ \A x \in enc.future : x < First => enc.irapType = "CRA" /\ First = enc.irap
       /\ \A q \in enc.srefs :
            IF q.poc >= First THEN q.poc \in Pocs(enc.coded)
                              ELSE q.leading /\ First = enc.irap

\* The list has a picture with this POC that is marked as a reference.
HasReference(r) == \E i \in DOMAIN picList : picList[i].poc = r /\ picList[i].referenced

\* The buffers hold pictures of the sequence only, one for each POC.
OnePicturePerPoc ==
  /\ \A i \in DOMAIN picList :
       picList[i].cvs = enc.cvs /\ enc.cvs > 0 /\ picList[i].poc > -MAX_INT
  /\ \A i, j \in DOMAIN picList : picList[i].poc = picList[j].poc => i = j
  /\ ~enc.start => \A i \in DOMAIN picList :
       picList[i].poc \in Pocs(enc.coded) \/ picList[i].poc < First

\* What the encoder may still refer to, the decoder has.
ReferencesKept ==
  Live => \A q \in enc.srefs : q.poc >= First =>
            HasReference(q.poc) \/ (pilot # None /\ q.poc = pilot.pic.poc)

\* The picture whose header is read is new to the list and finds in it all that
\* its lists name, unless it is a GDR picture that starts the stream.
PilotIsNext ==
  pilot # None =>
    LET p == pilot.pic
    IN /\ p.cvs = enc.cvs /\ p.poc >= First /\ p.poc \notin enc.future
       /\ \E q \in enc.coded : q.poc = p.poc /\ (pilot.output => q.output)
       /\ p.active \subseteq p.refs /\ p.poc \notin p.refs /\ IsFiniteSet(p.refs)
       /\ \A i \in DOMAIN picList : picList[i].poc # p.poc
       /\ \A q \in enc.srefs : q.poc \in p.refs \cup {p.poc} \/ q.poc < First
       /\ p.type = "IDR" => p.refs = {} /\ DOMAIN picList = {}
       /\ IF p.type = "GDR"
          THEN /\ pilot.nobr /\ p.active = p.refs /\ p.refs \subseteq 1..(First - 1)
               /\ \A i \in DOMAIN picList :
                    /\ picList[i].poc \in p.refs
                    /\ picList[i].referenced /\ ~picList[i].needed
          ELSE \A r \in p.refs : HasReference(r)

CurrentIsCoded ==
  curPic # None =>
    LET p == picList[curPic.id]
    IN /\ p.poc >= First /\ p.referenced /\ p.poc \notin enc.future
       /\ \E q \in enc.coded : q.poc = p.poc /\ (curPic.output => q.output)

\* The CHECK after the loop does not fail: a picture that is to be output was
\* seen waiting, or still waits.
SomethingToOutput ==
  /\ app.status = "running" /\ Waiting(picList) # {} => app.outputPicturePresent
  /\ Live => \A i \in due : \/ i \in DOMAIN discarded /\ discarded[i] = "recovery"
                            \/ app.outputPicturePresent \/ i \in Waiting(picList)
  /\ due # {} => enc.cvs > 0

MaxReorder == sps.reorder[MaxTid]
MaxBuffering == sps.buffering[MaxTid]

\* What decoding needs; it is inductive.
DecodingInv ==
  /\ Inv /\ EncType /\ Control /\ CodedOnce
  /\ OnePicturePerPoc /\ ReferencesKept /\ PilotIsNext /\ CurrentIsCoded
  /\ PredictsFromOwnSequence /\ SomethingToOutput /\ NeverAborts

-----------------------------------------------------------------------------
(* The steps of the stream.                                                 *)

\* The parts of the invariant as facts.
LEMMA EncFacts ==
  ASSUME EncType
  PROVE  /\ enc.cvs \in Nat /\ enc.start \in BOOLEAN /\ enc.irap \in Int /\ enc.last \in Int
         /\ enc.irapType \in {"IDR", "CRA", "GDR"}
         /\ enc.future \subseteq Int /\ enc.prior \subseteq Int
         /\ \A q \in enc.srefs : q.poc \in Int /\ q.tid \in Tids /\ q.leading \in BOOLEAN
         /\ \A q \in enc.coded : q.poc \in Int /\ q.tid \in Tids /\ q.output \in BOOLEAN
         /\ IsFiniteSet(enc.srefs) /\ IsFiniteSet(enc.coded)
BY DEF EncType

\* The POCs of a finite set of pictures.
LEMMA PocsFinite ==
  ASSUME NEW S, IsFiniteSet(S)
  PROVE  IsFiniteSet(Pocs(S)) /\ Cardinality(Pocs(S)) <= Cardinality(S)
<1> DEFINE f == [q \in S |-> q.poc]
<1>1. f \in Surjection(S, Pocs(S))
  BY DEF Surjection, Pocs
<1> QED
  BY <1>1, FS_Surjection

\* FitsDpb for the highest sub-layer, which holds all pictures.
Fits(p, coded, future) ==
  LET mustWait == {q \in coded : q.output /\ \E x \in future \cup {p.poc} : x < q.poc}
  IN /\ p.output => Cardinality({q \in coded : q.output /\ q.poc > p.poc}) <= MaxReorder
     /\ Cardinality(Pocs(mustWait) \cup p.refs \cup {p.poc}) <= MaxBuffering

\* A picture that keeps the DPB parameters keeps those of the highest sub-layer.
LEMMA FitsHighestLayer ==
  ASSUME NEW p, p.tid \in Tids, NEW coded, \A q \in coded : q.tid \in Tids, NEW future,
         FitsDpb(p, coded, future)
  PROVE  Fits(p, coded, future)
<1> DEFINE below == {q \in coded : q.tid <= MaxTid /\ q.output}
<1>1. MaxTid \in {u \in Tids : u >= p.tid}
  BY MaxTidAssumption DEF Tids
<1>2. /\ p.output => Cardinality({q \in below : q.poc > p.poc}) <= sps.reorder[MaxTid]
      /\ Cardinality(Pocs({q \in below : \E x \in future \cup {p.poc} : x < q.poc})
                     \cup p.refs \cup {p.poc}) <= sps.buffering[MaxTid]
  BY <1>1 DEF FitsDpb
<1>3. \A q \in coded : q.tid <= MaxTid
  BY MaxTidAssumption DEF Tids
<1>4. /\ {q \in below : q.poc > p.poc} = {q \in coded : q.output /\ q.poc > p.poc}
      /\ {q \in below : \E x \in future \cup {p.poc} : x < q.poc}
           = {q \in coded : q.output /\ \E x \in future \cup {p.poc} : x < q.poc}
  BY <1>3
<1> QED
  BY <1>2, <1>4 DEF Fits, MaxReorder, MaxBuffering

\* A picture that starts a coded video sequence.
NewSequence(p, future) ==
  /\ p \in CodedPicture /\ p.type \in {"IDR", "CRA", "GDR"} /\ (p.type = "IDR" \/ enc.start)
  /\ IF p.type = "GDR"
     THEN /\ enc.cvs = 0 /\ p.poc = GdrPoc
          /\ p.active = p.refs /\ p.refs \subseteq 1..(GdrPoc - 1)
          /\ \A x \in future : x > GdrPoc
     ELSE p.poc = 0 /\ p.refs = {} /\ p.active = {}
  /\ p.cvs = enc.cvs + 1
  /\ future \subseteq Int /\ \A x \in future : x >= -MaxLeading /\ x # p.poc
  /\ Cardinality(p.refs \cup {p.poc}) <= MaxBuffering
  /\ Feed(p, TRUE, future)

\* A CRA picture within a sequence.
NextSegment(p, future) ==
  /\ p \in CodedPicture /\ p.type = "CRA" /\ ~enc.start /\ enc.future = {}
  /\ p.poc > enc.last /\ p.active = {} /\ ~p.noPrior /\ p.cvs = enc.cvs
  /\ \E S \in SUBSET Nameable(enc.last + 1) : p.refs = Pocs(S)
  /\ future \subseteq Int /\ \A x \in future : x > enc.last /\ x # p.poc
  /\ Cardinality(p.refs \cup {p.poc}) <= MaxBuffering
  /\ Feed(p, TRUE, future)

\* A leading or trailing picture.
LaterPicture(p) ==
  /\ p \in CodedPicture /\ p.type \in {"RASL", "TRAIL"} /\ p.poc \in enc.future /\ ~enc.start
  /\ p.type = "RASL" <=> p.poc < enc.irap /\ enc.irapType = "CRA"
  /\ p.active \subseteq p.refs /\ p.cvs = enc.cvs
  /\ \E S \in SUBSET Nameable(p.poc) : p.refs = Pocs(S)
  /\ Fits(p, enc.coded, enc.future \ {p.poc})
  /\ Feed(p, FALSE, enc.future \ {p.poc})

\* CodePicture feeds such a picture, whatever it chose.
LEMMA CodePictureSteps ==
  ASSUME DecodingInv, CodePicture
  PROVE  \E p : LaterPicture(p)
<1>1. EncType /\ CodedOnce
  BY DEF DecodingInv
<1>2. PICK poc \in enc.future, tid \in Tids, output \in OutputFlags :
        \E named \in SUBSET Nameable(poc) :
          LET leading == poc < enc.irap
              p == [type |-> IF leading /\ enc.irapType = "CRA" THEN "RASL" ELSE "TRAIL",
                    tid |-> tid, poc |-> poc, refs |-> Pocs(named),
                    active |-> Pocs({q \in named : q.tid <= tid}),
                    output |-> output, noPrior |-> FALSE, recovery |-> 0, cvs |-> enc.cvs]
          IN /\ leading \/ \A x \in enc.future : x > enc.irap
             /\ p.active # {}
             /\ FitsDpb(p, enc.coded, enc.future \ {poc})
             /\ Feed(p, FALSE, enc.future \ {poc})
  BY Zenon DEF CodePicture
<1>3. PICK named \in SUBSET Nameable(poc) :
          LET leading == poc < enc.irap
              p == [type |-> IF leading /\ enc.irapType = "CRA" THEN "RASL" ELSE "TRAIL",
                    tid |-> tid, poc |-> poc, refs |-> Pocs(named),
                    active |-> Pocs({q \in named : q.tid <= tid}),
                    output |-> output, noPrior |-> FALSE, recovery |-> 0, cvs |-> enc.cvs]
          IN /\ leading \/ \A x \in enc.future : x > enc.irap
             /\ p.active # {}
             /\ FitsDpb(p, enc.coded, enc.future \ {poc})
             /\ Feed(p, FALSE, enc.future \ {poc})
  BY Zenon, <1>2
<1> DEFINE type == IF poc < enc.irap /\ enc.irapType = "CRA" THEN "RASL" ELSE "TRAIL"
           active == Pocs({q \in named : q.tid <= tid})
           p == [type |-> type, tid |-> tid, poc |-> poc, refs |-> Pocs(named),
                 active |-> active, output |-> output, noPrior |-> FALSE, recovery |-> 0,
                 cvs |-> enc.cvs]
<1>4. FitsDpb(p, enc.coded, enc.future \ {poc}) /\ Feed(p, FALSE, enc.future \ {poc})
  BY <1>3
<1>5. named \subseteq enc.srefs
  BY DEF Nameable
<1>6. active \subseteq Pocs(named) /\ Pocs(named) \subseteq Int
  BY <1>1, <1>5, EncFacts DEF Pocs
<1>7. type \in Types /\ type \in {"RASL", "TRAIL"}
  BY DEF Types
<1>8. output \in BOOLEAN /\ poc \in Int /\ enc.cvs \in Nat
  BY <1>1, EncFacts, StreamAssumption
<1> HIDE DEF active, type
<1>9. p \in CodedPicture
  BY <1>6, <1>7, <1>8 DEF CodedPicture
<1>10. Fits(p, enc.coded, enc.future \ {poc})
  <2>1. p.tid \in Tids /\ \A q \in enc.coded : q.tid \in Tids
    BY <1>1, EncFacts
  <2> HIDE DEF p
  <2> QED
    BY <1>4, <2>1, FitsHighestLayer
<1>11. ~enc.start
  BY <1>1 DEF CodedOnce
<1>12. p.type = "RASL" <=> p.poc < enc.irap /\ enc.irapType = "CRA"
  BY DEF type
<1>13. p.poc \in enc.future /\ p.cvs = enc.cvs /\ p.poc = poc
  OBVIOUS
<1>14. p.active \subseteq p.refs /\ \E S \in SUBSET Nameable(p.poc) : p.refs = Pocs(S)
  BY <1>6
<1> HIDE DEF p
<1>15. p.type \in {"RASL", "TRAIL"}
  BY <1>7 DEF p
<1>16. LaterPicture(p)
  BY <1>4, <1>9, <1>10, <1>11, <1>12, <1>13, <1>14, <1>15 DEF LaterPicture
<1> QED
  BY <1>16

\* StartSegment feeds one that starts a sequence or a CRA within one.
LEMMA StartSegmentSteps ==
  ASSUME DecodingInv, Situations = {}, StartSegment
  PROVE  \E p, future : NewSequence(p, future) \/ NextSegment(p, future)
<1>1. EncType /\ CodedOnce /\ Control
  BY DEF DecodingInv
<1>2. PICK type \in IF ~enc.start THEN {"IDR", "CRA"}
                    ELSE IF enc.cvs = 0 \/ "GdrAfterEos" \in Situations THEN FirstTypes
                    ELSE FirstTypes \ {"GDR"} :
      \E nl \in IF type = "GDR" THEN {0} ELSE 0..MaxLeading, nt \in 0..MaxTrailing,
         refs \in StartRefs(type), output \in OutputFlags, noPrior \in BOOLEAN,
         recovery \in IF type = "GDR" THEN Recoveries ELSE {0} :
        LET new == type = "IDR" \/ enc.start
            poc == IF type = "GDR" THEN GdrPoc ELSE IF new THEN 0 ELSE enc.last + nl + 1
            p == [type |-> type, tid |-> 0, poc |-> poc, refs |-> refs,
                  active |-> IF type = "GDR" THEN refs ELSE {},
                  output |-> output, noPrior |-> noPrior, recovery |-> recovery,
                  cvs |-> IF new THEN enc.cvs + 1 ELSE enc.cvs]
        IN /\ enc.future = {}
           /\ app.gdrRecoveryPeriod => "IrapInRecovery" \in Situations
           /\ noPrior => new
           /\ FitsDpb(p, IF new THEN {} ELSE enc.coded, (poc - nl)..(poc - 1))
           /\ Feed(p, TRUE, ((poc - nl)..(poc + nt)) \ {poc})
  BY DEF StartSegment
<1> DEFINE new == type = "IDR" \/ enc.start
<1>3. PICK nl \in IF type = "GDR" THEN {0} ELSE 0..MaxLeading, nt \in 0..MaxTrailing,
           refs \in StartRefs(type), output \in OutputFlags, noPrior \in BOOLEAN,
           recovery \in IF type = "GDR" THEN Recoveries ELSE {0} :
        LET poc == IF type = "GDR" THEN GdrPoc ELSE IF new THEN 0 ELSE enc.last + nl + 1
            p == [type |-> type, tid |-> 0, poc |-> poc, refs |-> refs,
                  active |-> IF type = "GDR" THEN refs ELSE {},
                  output |-> output, noPrior |-> noPrior, recovery |-> recovery,
                  cvs |-> IF new THEN enc.cvs + 1 ELSE enc.cvs]
        IN /\ enc.future = {}
           /\ app.gdrRecoveryPeriod => "IrapInRecovery" \in Situations
           /\ noPrior => new
           /\ FitsDpb(p, IF new THEN {} ELSE enc.coded, (poc - nl)..(poc - 1))
           /\ Feed(p, TRUE, ((poc - nl)..(poc + nt)) \ {poc})
  BY <1>2
<1> DEFINE poc == IF type = "GDR" THEN GdrPoc ELSE IF new THEN 0 ELSE enc.last + nl + 1
           active == IF type = "GDR" THEN refs ELSE {}
           cvs == IF new THEN enc.cvs + 1 ELSE enc.cvs
           p == [type |-> type, tid |-> 0, poc |-> poc, refs |-> refs, active |-> active,
                 output |-> output, noPrior |-> noPrior, recovery |-> recovery, cvs |-> cvs]
           future == ((poc - nl)..(poc + nt)) \ {poc}
<1>4. /\ enc.future = {} /\ (noPrior => new)
      /\ FitsDpb(p, IF new THEN {} ELSE enc.coded, (poc - nl)..(poc - 1))
      /\ Feed(p, TRUE, future)
  BY <1>3
<1>5. /\ type \in {"IDR", "CRA", "GDR"} /\ type \in Types
      /\ type = "GDR" => enc.start /\ enc.cvs = 0
      /\ ~new => type = "CRA" /\ ~enc.start
  BY StreamAssumption DEF Types
<1>6. /\ nl \in Nat /\ nt \in Nat /\ nl <= MaxLeading /\ (type = "GDR" => nl = 0)
      /\ output \in BOOLEAN /\ recovery \in Nat
  BY StreamAssumption
<1>7. /\ type = "GDR" => refs \subseteq 1..(GdrPoc - 1)
      /\ ~new => \E S \in SUBSET Nameable(enc.last + 1) : refs = Pocs(S)
      /\ type # "GDR" /\ new => refs = {}
  BY <1>5, StreamAssumption DEF StartRefs
<1>8. /\ refs \subseteq Int /\ active \subseteq Int /\ poc \in Int /\ cvs \in Nat
      /\ enc.last \in Int /\ 0 \in Tids
  <2>1. enc.last \in Int /\ enc.cvs \in Nat /\ GdrPoc \in Nat /\ 0 \in Tids
    BY <1>1, EncFacts, StreamAssumption, MaxTidAssumption DEF Tids
  <2>2. ASSUME NEW S \in SUBSET Nameable(enc.last + 1)
        PROVE  Pocs(S) \subseteq Int
    BY <1>1, EncFacts DEF Nameable, Pocs
  <2>3. refs \subseteq Int
    BY <1>7, <2>1, <2>2, <1>5
  <2> QED
    BY <1>6, <2>1, <2>3
<1>9. Cardinality(p.refs \cup {p.poc}) <= MaxBuffering
  <2> DEFINE coded == IF new THEN {} ELSE enc.coded
             lead == (poc - nl)..(poc - 1)
  <2>1. p.tid \in Tids /\ \A q \in coded : q.tid \in Tids
    BY <1>1, <1>8, EncFacts
  <2>2. FitsDpb(p, coded, lead)
    BY <1>4
  <2>3. coded \subseteq enc.coded
    OBVIOUS
  <2> HIDE DEF p, coded, lead
  <2>4. Fits(p, coded, lead)
    BY <2>1, <2>2, FitsHighestLayer
  <2> DEFINE mustWait == {q \in coded : q.output /\ \E x \in lead \cup {p.poc} : x < q.poc}
             all == Pocs(mustWait) \cup p.refs \cup {p.poc}
  <2>5. Cardinality(all) <= MaxBuffering
    BY <2>4 DEF Fits
  <2>6. IsFiniteSet(all)
    <3>1. IsFiniteSet(mustWait)
      BY <1>1, <2>3, EncFacts, FS_Subset
    <3> HIDE DEF mustWait
    <3>2. IsFiniteSet(Pocs(mustWait))
      BY <3>1, PocsFinite
    <3>3. IsFiniteSet(p.refs)
      <4>1. IsFiniteSet(refs)
        <5>1. CASE type = "GDR"
          <6>1. GdrPoc - 1 \in Int /\ refs \subseteq 1..(GdrPoc - 1)
            BY <1>7, <5>1, StreamAssumption
          <6>2. IsFiniteSet(1..(GdrPoc - 1))
            BY <6>1, FS_Interval
          <6> QED
            BY <6>1, <6>2, FS_Subset
        <5>2. CASE ~new
          <6>1. PICK S \in SUBSET Nameable(enc.last + 1) : refs = Pocs(S)
            BY <1>7, <5>2
          <6>2. IsFiniteSet(S)
            BY <1>1, EncFacts, FS_Subset DEF Nameable
          <6> QED
            BY <6>1, <6>2, PocsFinite
        <5>3. CASE type # "GDR" /\ new
          BY <1>7, <5>3, FS_EmptySet
        <5> QED
          BY <5>1, <5>2, <5>3
      <4> QED
        BY <4>1 DEF p
    <3> QED
      BY <3>2, <3>3, FS_Union, FS_Singleton
  <2>7. p.refs \cup {p.poc} \subseteq all
    OBVIOUS
  <2>8. MaxBuffering \in Nat
    BY SpsAssumption, MaxTidAssumption
       DEF DecodingInv, Inv, TypeOK, Sps, Tids, MaxBuffering
  <2> HIDE DEF all
  <2>9. /\ Cardinality(p.refs \cup {p.poc}) <= Cardinality(all)
        /\ Cardinality(p.refs \cup {p.poc}) \in Nat /\ Cardinality(all) \in Nat
    BY <2>6, <2>7, SubsetSize
  <2> QED
    BY <2>5, <2>8, <2>9
<1>10. future \subseteq Int
  BY <1>6, <1>8
<1> HIDE DEF active, cvs
<1>11. p \in CodedPicture
  <2> HIDE DEF poc
  <2> QED
    BY <1>5, <1>6, <1>8 DEF CodedPicture
<1>12. CASE new
  <2>1. cvs = enc.cvs + 1 /\ (type = "GDR" => active = refs) /\ (type # "GDR" => active = {})
    BY <1>12 DEF cvs, active
  <2>2. \A x \in future : x >= -MaxLeading /\ x # poc /\ (type = "GDR" => x > GdrPoc)
    <3>1. poc \in Nat /\ (type = "GDR" => poc = GdrPoc)
      BY <1>12, StreamAssumption
    <3> HIDE DEF poc
    <3> QED
      BY <1>6, <3>1, StreamAssumption
  <2>3. (type = "GDR" => poc = GdrPoc) /\ (type # "GDR" => poc = 0)
    BY <1>12
  <2> HIDE DEF future, poc
  <2>4. NewSequence(p, future)
    BY <1>4, <1>5, <1>7, <1>9, <1>10, <1>11, <1>12, <2>1, <2>2, <2>3 DEF NewSequence
  <2> QED
    BY <2>4
<1>13. CASE ~new
  <2>1. cvs = enc.cvs /\ active = {} /\ ~noPrior
    BY <1>4, <1>5, <1>13 DEF cvs, active
  <2>2. poc = enc.last + nl + 1
    BY <1>5, <1>13
  <2>3. poc > enc.last /\ \A x \in future : x > enc.last /\ x # poc
    <3> HIDE DEF poc
    <3> QED
      BY <1>6, <1>8, <2>2
  <2> HIDE DEF future, poc
  <2>4. NextSegment(p, future)
    BY <1>4, <1>5, <1>7, <1>9, <1>10, <1>11, <1>13, <2>1, <2>3 DEF NextSegment
  <2> QED
    BY <2>4
<1> QED
  BY <1>12, <1>13

-----------------------------------------------------------------------------
(* What a picture within a sequence is to the encoder and to the decoder.   *)

\* All the proofs need of MAX_INT.
LEMMA MaxIntType == MAX_INT \in Nat \ {0}
BY SMT DEF MAX_INT

\* The encoder's state keeps its type.
LEMMA EncodedType ==
  ASSUME EncType, NEW p \in CodedPicture, NEW first \in BOOLEAN,
         first => p.type \in {"IDR", "CRA", "GDR"}, NEW future \in SUBSET Int,
         enc' = Encoded(p, first, future)
  PROVE  EncType'
<1> DEFINE new == first /\ (p.type = "IDR" \/ enc.start)
           ref == [poc |-> p.poc, tid |-> p.tid, leading |-> ~first /\ p.poc < enc.irap]
           kept == {q \in enc.srefs : ~new /\ q.poc \in p.refs}
           cut == IF new /\ p.type = "CRA" THEN {CutOff} ELSE {}
           old == IF new THEN {} ELSE enc.coded
           coded == [poc |-> p.poc, tid |-> p.tid, output |-> p.output]
<1>1. /\ p.cvs \in Nat /\ p.poc \in Int /\ p.tid \in Tids /\ p.output \in BOOLEAN
      /\ p.refs \in SUBSET Int
  BY DEF CodedPicture
<1>2. /\ enc.srefs \subseteq [poc : Int, tid : Tids, leading : BOOLEAN]
      /\ enc.coded \subseteq [poc : Int, tid : Tids, output : BOOLEAN]
      /\ IsFiniteSet(enc.srefs) /\ IsFiniteSet(enc.coded)
  BY DEF EncType
<1>3. kept \subseteq enc.srefs /\ old \subseteq enc.coded
  OBVIOUS
<1>4. ref \in [poc : Int, tid : Tids, leading : BOOLEAN]
  <2>1. (~first /\ p.poc < enc.irap) \in BOOLEAN
    OBVIOUS
  <2> QED
    BY <1>1, <2>1
<1>5. cut \subseteq [poc : Int, tid : Tids, leading : BOOLEAN] /\ IsFiniteSet(cut)
  <2>1. -MaxLeading - 1 \in Int /\ 0 \in Tids
    BY StreamAssumption, MaxTidAssumption DEF Tids
  <2>2. CutOff \in [poc : Int, tid : Tids, leading : BOOLEAN]
    BY <2>1 DEF CutOff
  <2> QED
    BY <2>2, FS_Singleton, FS_EmptySet
<1>6. IsFiniteSet(kept) /\ IsFiniteSet(old)
  <2> HIDE DEF kept, old
  <2> QED
    BY <1>2, <1>3, FS_Subset
<1>7. IsFiniteSet(kept \cup {ref} \cup cut) /\ IsFiniteSet(old \cup {coded})
  <2> HIDE DEF kept, ref, cut, old, coded
  <2> QED
    BY <1>5, <1>6, FS_Union, FS_Singleton
<1>8. coded \in [poc : Int, tid : Tids, output : BOOLEAN]
  BY <1>1
<1>9. /\ enc'.cvs \in Nat /\ enc'.start \in BOOLEAN /\ enc'.irap \in Int
      /\ enc'.irapType \in {"IDR", "CRA", "GDR"} /\ enc'.last \in Int
      /\ enc'.future \in SUBSET Int /\ enc'.prior \in SUBSET Int
      /\ enc'.srefs = kept \cup {ref} \cup cut /\ enc'.coded = old \cup {coded}
      /\ enc' = [cvs |-> enc'.cvs, start |-> enc'.start, irap |-> enc'.irap,
                 irapType |-> enc'.irapType, last |-> enc'.last,
                 future |-> enc'.future, prior |-> enc'.prior,
                 srefs |-> enc'.srefs, coded |-> enc'.coded]
  <2> HIDE DEF new
  <2> QED
    BY <1>1 DEF Encoded, EncType, new
<1> HIDE DEF kept, ref, cut, old, coded
<1>10. /\ enc'.srefs \in SUBSET [poc : Int, tid : Tids, leading : BOOLEAN]
       /\ enc'.coded \in SUBSET [poc : Int, tid : Tids, output : BOOLEAN]
  BY <1>2, <1>3, <1>4, <1>5, <1>8, <1>9
<1> QED
  BY <1>7, <1>9, <1>10 DEF EncType

\* A picture within a sequence, as the decoder sees it and as the encoder
\* remembers it.
NextPicture(p) ==
  /\ p \in CodedPicture /\ p.type \in {"CRA", "RASL", "TRAIL"} /\ ~enc.start
  /\ p.cvs = enc.cvs /\ p.poc >= -MaxLeading /\ (p.type = "CRA" => ~p.noPrior)
  /\ p.poc < First => p.type = "RASL"
  /\ p.active \subseteq p.refs /\ p.poc \notin Pocs(enc.coded)
  /\ IsFiniteSet(p.refs)
  /\ \A r \in p.refs : \E q \in enc.srefs : q.poc = r
  /\ p.poc >= First => \A r \in p.refs : r >= First /\ r # p.poc
  /\ enc'.cvs = enc.cvs /\ ~enc'.start /\ p.poc \notin enc'.future
  /\ enc'.coded = enc.coded \cup {[poc |-> p.poc, tid |-> p.tid, output |-> p.output]}
  /\ \A q \in enc'.srefs : q.poc = p.poc \/ (q \in enc.srefs /\ q.poc \in p.refs)
  /\ IF p.poc < First THEN SkipPicture(p) ELSE BeginPicture(p)
  /\ First' = First

\* What the encoder still may name for a picture that is decoded was decoded.
LEMMA NameableDecoded ==
  ASSUME EncType, CodedOnce, ~enc.start, First \in Int, NEW poc \in Int, poc >= First,
         poc # enc.irap, poc \notin Pocs(enc.coded), NEW q \in Nameable(poc)
  PROVE  q \in enc.srefs /\ q.poc >= First /\ q.poc # poc
<1>1. q \in enc.srefs /\ (poc > enc.irap => ~q.leading) /\ q.poc \in Int /\ enc.irap \in Int
  BY EncFacts DEF Nameable
<1>2. IF q.poc >= First THEN q.poc \in Pocs(enc.coded) ELSE q.leading /\ First = enc.irap
  BY <1>1 DEF CodedOnce
<1> QED
  BY <1>1, <1>2

\* The leading pictures of the first picture of a sequence, if that is a CRA,
\* are skipped, and no others.
LEMMA SkippedBelowFirst ==
  ASSUME NEW p \in CodedPicture, First \in Int, First # MAX_INT,
         p.type # "IDR", p.poc < First => p.type = "RASL",
         NEW first, NEW future, Feed(p, first, future)
  PROVE  /\ IF p.poc < First THEN SkipPicture(p) ELSE BeginPicture(p)
         /\ First' = First
<1>1. RandomAccessSkip(p) <=> p.poc < First
  BY DEF RandomAccessSkip, First
<1>2. SkipPicture(p) => RandomAccessSkip(p) /\ dec' = dec
  BY DEF SkipPicture
<1>3. BeginPicture(p) => ~RandomAccessSkip(p) /\ dec'.pocRandomAccess = dec.pocRandomAccess
  <2>1. BeginPicture(p) =>
          dec'.pocRandomAccess = IF p.type = "IDR" THEN -MAX_INT
                                 ELSE IF dec.pocRandomAccess = MAX_INT THEN p.poc
                                 ELSE dec.pocRandomAccess
    BY DEF BeginPicture
  <2> QED
    BY <2>1 DEF BeginPicture, First
<1>4. SkipPicture(p) \/ BeginPicture(p)
  BY DEF Feed
<1> QED
  BY <1>1, <1>2, <1>3, <1>4 DEF First

\* The POCs of one more picture.
LEMMA PocsOfMore ==
  ASSUME NEW S, NEW q
  PROVE  Pocs(S \cup {q}) = Pocs(S) \cup {q.poc}
BY DEF Pocs

\* What the invariant says of the sequence that is being decoded.
LEMMA SequenceFacts ==
  ASSUME DecodingInv, ~enc.start
  PROVE  /\ EncType /\ CodedOnce /\ First \in Int /\ First # MAX_INT
         /\ First <= enc.irap /\ 0 <= enc.irap /\ enc.irap <= enc.last
         /\ enc.irap \in Int /\ enc.last \in Int /\ enc.cvs \in Nat
         /\ \A q \in enc.coded : q.poc \in Int /\ -MaxLeading <= q.poc /\ q.poc <= enc.last
         /\ MaxLeading \in Nat
BY EncFacts, InvFacts, StreamAssumption DEF DecodingInv, Control, CodedOnce, First, DecLibMembers

\* A leading or trailing picture is such a picture.
LEMMA LaterPictureIsNext ==
  ASSUME DecodingInv, NEW p, LaterPicture(p)
  PROVE  NextPicture(p) /\ EncType' /\ CodedOnce'
<1> DEFINE ref == [poc |-> p.poc, tid |-> p.tid, leading |-> p.poc < enc.irap]
           coded == [poc |-> p.poc, tid |-> p.tid, output |-> p.output]
<1>1. /\ p \in CodedPicture /\ p.type \in {"RASL", "TRAIL"} /\ p.poc \in enc.future
      /\ p.poc \in Int /\ ~enc.start /\ p.active \subseteq p.refs /\ p.cvs = enc.cvs
      /\ Feed(p, FALSE, enc.future \ {p.poc})
      /\ p.type = "RASL" <=> p.poc < enc.irap /\ enc.irapType = "CRA"
  BY DEF LaterPicture, CodedPicture
<1>2. /\ EncType /\ CodedOnce /\ First \in Int /\ First # MAX_INT
      /\ First <= enc.irap /\ enc.irap <= enc.last
      /\ enc.irap \in Int /\ enc.last \in Int /\ MaxLeading \in Nat
      /\ \A q \in enc.coded : q.poc \in Int /\ -MaxLeading <= q.poc /\ q.poc <= enc.last
  BY <1>1, SequenceFacts
<1>3. /\ p.poc >= -MaxLeading /\ p.poc # enc.irap /\ p.poc \notin Pocs(enc.coded)
      /\ p.poc < First => enc.irapType = "CRA" /\ First = enc.irap
  BY <1>1, <1>2 DEF CodedOnce
<1>4. p.poc < First => p.type = "RASL"
  BY <1>1, <1>2, <1>3
<1>5. /\ IF p.poc < First THEN SkipPicture(p) ELSE BeginPicture(p)
      /\ First' = First
  <2>1. p.type # "IDR"
    BY <1>1
  <2> QED
    BY <1>1, <1>2, <1>4, <2>1, SkippedBelowFirst
<1>6. PICK S \in SUBSET Nameable(p.poc) : p.refs = Pocs(S)
  BY DEF LaterPicture
<1>7. S \subseteq enc.srefs
  BY DEF Nameable
<1>8. IsFiniteSet(p.refs) /\ \A r \in p.refs : \E q \in enc.srefs : q.poc = r
  <2>1. IsFiniteSet(S)
    BY <1>2, <1>7, EncFacts, FS_Subset
  <2> QED
    BY <1>6, <1>7, <2>1, PocsFinite DEF Pocs
<1>9. p.poc >= First => \A r \in p.refs : r >= First /\ r # p.poc
  BY <1>1, <1>2, <1>3, <1>6, NameableDecoded DEF Pocs
<1>10. /\ enc'.cvs = enc.cvs /\ ~enc'.start /\ enc'.irap = enc.irap
       /\ enc'.irapType = enc.irapType /\ enc'.future = enc.future \ {p.poc}
       /\ enc'.last = IF p.poc > enc.last THEN p.poc ELSE enc.last
       /\ enc'.coded = enc.coded \cup {coded}
       /\ enc'.srefs = {q \in enc.srefs : q.poc \in p.refs} \cup {ref}
  BY <1>1 DEF Feed, Encoded
<1>11. EncType'
  <2>1. enc.future \ {p.poc} \in SUBSET Int /\ enc' = Encoded(p, FALSE, enc.future \ {p.poc})
    BY <1>1, <1>2, EncFacts DEF Feed
  <2> QED
    BY <1>1, <1>2, <2>1, EncodedType
<1>12. NextPicture(p)
  BY <1>1, <1>3, <1>4, <1>5, <1>8, <1>9, <1>10 DEF NextPicture
<1>13. CodedOnce'
  <2> DEFINE new == Pocs(enc'.coded)
  <2>1. new = Pocs(enc.coded) \cup {p.poc}
    <3>1. coded.poc = p.poc
      OBVIOUS
    <3> HIDE DEF coded
    <3> QED
      BY <1>10, <3>1, PocsOfMore
  <2> HIDE DEF new
  <2>2. enc'.irap <= enc'.last /\ First' <= enc'.irap /\ 0 <= enc'.irap
    BY <1>1, <1>2, <1>5, <1>10, SequenceFacts
  <2>3. \A q \in enc'.coded : -MaxLeading <= q.poc /\ q.poc <= enc'.last
    BY <1>1, <1>2, <1>3, <1>10
  <2>4. \A q, r \in enc'.coded : q.poc = r.poc => q = r
    BY <1>2, <1>1, <1>3, <1>10 DEF CodedOnce, Pocs
  <2>5. \A x \in enc'.future : x >= -MaxLeading /\ x # enc'.irap /\ x \notin new
    BY <1>1, <1>2, <1>10, <2>1 DEF CodedOnce
  <2>6. \A x \in enc'.future : x < First' => enc'.irapType = "CRA" /\ First' = enc'.irap
    BY <1>1, <1>2, <1>5, <1>10 DEF CodedOnce
  <2>7. \A q \in enc'.srefs :
          IF q.poc >= First' THEN q.poc \in new
                             ELSE q.leading /\ First' = enc'.irap
    <3>1. ASSUME NEW q \in enc.srefs
          PROVE  IF q.poc >= First THEN q.poc \in Pocs(enc.coded)
                                   ELSE q.leading /\ First = enc.irap
      BY <1>1, <1>2 DEF CodedOnce
    <3>2. ref.poc = p.poc /\ p.poc \in new /\ (p.poc < First => ref.leading /\ First = enc.irap)
      BY <1>1, <1>2, <1>3, <2>1
    <3> HIDE DEF ref
    <3>3. p.poc >= First \/ p.poc < First
      BY <1>1, <1>2
    <3> QED
      BY <1>5, <1>10, <2>1, <3>1, <3>2, <3>3
  <2> QED
    BY <1>10, <2>2, <2>3, <2>4, <2>5, <2>6, <2>7 DEF CodedOnce, new
<1> QED
  BY <1>11, <1>12, <1>13

\* So is a CRA picture within a sequence.
LEMMA NextSegmentIsNext ==
  ASSUME DecodingInv, NEW p, NEW future, NextSegment(p, future)
  PROVE  NextPicture(p) /\ EncType' /\ CodedOnce'
<1> DEFINE ref == [poc |-> p.poc, tid |-> p.tid, leading |-> FALSE]
           coded == [poc |-> p.poc, tid |-> p.tid, output |-> p.output]
<1>1. /\ p \in CodedPicture /\ p.type = "CRA" /\ p.poc > enc.last
      /\ p.poc \in Int /\ ~enc.start /\ p.active = {} /\ p.cvs = enc.cvs /\ ~p.noPrior
      /\ future \in SUBSET Int /\ \A x \in future : x > enc.last /\ x # p.poc
      /\ Feed(p, TRUE, future)
  BY DEF NextSegment, CodedPicture
<1>2. /\ EncType /\ CodedOnce /\ First \in Int /\ First # MAX_INT
      /\ First <= enc.irap /\ 0 <= enc.irap /\ enc.irap <= enc.last
      /\ enc.irap \in Int /\ enc.last \in Int /\ MaxLeading \in Nat
      /\ \A q \in enc.coded : q.poc \in Int /\ -MaxLeading <= q.poc /\ q.poc <= enc.last
  BY <1>1, SequenceFacts
<1>3. /\ p.poc >= -MaxLeading /\ p.poc >= First /\ p.poc \notin Pocs(enc.coded)
      /\ \A x \in future : x >= -MaxLeading /\ x >= First /\ x \notin Pocs(enc.coded)
  BY <1>1, <1>2 DEF Pocs
<1>4. BeginPicture(p) /\ First' = First
  <2>1. p.type # "IDR" /\ ~(p.poc < First)
    BY <1>1, <1>2
  <2> QED
    BY <1>1, <1>2, <2>1, SkippedBelowFirst
<1>5. PICK S \in SUBSET Nameable(enc.last + 1) : p.refs = Pocs(S)
  BY DEF NextSegment
<1>6. S \subseteq enc.srefs
  BY DEF Nameable
<1>7. IsFiniteSet(p.refs) /\ \A r \in p.refs : \E q \in enc.srefs : q.poc = r
  <2>1. IsFiniteSet(S)
    BY <1>2, <1>6, EncFacts, FS_Subset
  <2> QED
    BY <1>5, <1>6, <2>1, PocsFinite DEF Pocs
<1>8. \A r \in p.refs : r >= First /\ r \in Pocs(enc.coded) /\ r # p.poc
  <2>1. ASSUME NEW q \in S
        PROVE  q.poc >= First /\ q.poc \in Pocs(enc.coded) /\ q.poc # p.poc
    <3>1. enc.last + 1 \in Int /\ enc.last + 1 >= First /\ enc.last + 1 # enc.irap
      BY <1>2
    <3>2. enc.last + 1 \notin Pocs(enc.coded)
      BY <1>2 DEF Pocs
    <3>3. q \in Nameable(enc.last + 1)
      OBVIOUS
    <3>4. q \in enc.srefs /\ q.poc >= First
      BY <1>1, <1>2, <3>1, <3>2, <3>3, NameableDecoded
    <3>5. q.poc \in Pocs(enc.coded)
      BY <1>1, <1>2, <3>4 DEF CodedOnce
    <3> QED
      BY <1>3, <3>4, <3>5
  <2> QED
    BY <1>5, <2>1 DEF Pocs
<1>9. /\ enc'.cvs = enc.cvs /\ ~enc'.start /\ enc'.irap = p.poc
      /\ enc'.irapType = "CRA" /\ enc'.future = future /\ enc'.last = p.poc
      /\ enc'.coded = enc.coded \cup {coded}
      /\ enc'.srefs = {q \in enc.srefs : q.poc \in p.refs} \cup {ref}
  BY <1>1 DEF Feed, Encoded
<1>10. EncType'
  <2>1. enc' = Encoded(p, TRUE, future)
    BY <1>1 DEF Feed
  <2> QED
    BY <1>1, <1>2, <2>1, EncodedType
<1>11. NextPicture(p)
  BY <1>1, <1>2, <1>3, <1>4, <1>7, <1>8, <1>9 DEF NextPicture
<1>12. CodedOnce'
  <2> DEFINE new == Pocs(enc'.coded)
  <2>1. new = Pocs(enc.coded) \cup {p.poc}
    <3>1. coded.poc = p.poc
      OBVIOUS
    <3> HIDE DEF coded
    <3> QED
      BY <1>9, <3>1, PocsOfMore
  <2> HIDE DEF new
  <2>2. enc'.irap <= enc'.last /\ First' <= enc'.irap /\ 0 <= enc'.irap
    BY <1>1, <1>2, <1>4, <1>9
  <2>3. \A q \in enc'.coded : -MaxLeading <= q.poc /\ q.poc <= enc'.last
    BY <1>1, <1>2, <1>3, <1>9
  <2>4. \A q, r \in enc'.coded : q.poc = r.poc => q = r
    BY <1>2, <1>1, <1>3, <1>9 DEF CodedOnce, Pocs
  <2>5. \A x \in enc'.future : x >= -MaxLeading /\ x # enc'.irap /\ x \notin new
    BY <1>1, <1>3, <1>9, <2>1
  <2>6. \A x \in enc'.future : ~(x < First')
    <3>1. \A x \in future : x \in Int /\ x >= First
      BY <1>1, <1>3
    <3> QED
      BY <1>2, <1>4, <1>9, <3>1
  <2>7. \A q \in enc'.srefs : q.poc >= First' /\ q.poc \in new
    <3>1. ref.poc = p.poc
      OBVIOUS
    <3> HIDE DEF ref
    <3> QED
      BY <1>3, <1>4, <1>8, <1>9, <2>1, <3>1
  <2> QED
    BY <1>9, <2>2, <2>3, <2>4, <2>5, <2>6, <2>7 DEF CodedOnce, new
<1> QED
  BY <1>10, <1>11, <1>12

\* A picture that starts a sequence, likewise.
FirstPicture(p) ==
  /\ p \in CodedPicture /\ BeginPicture(p) /\ p.type \in {"IDR", "CRA", "GDR"}
  /\ p.cvs = enc.cvs + 1 /\ enc'.cvs = p.cvs /\ ~enc'.start /\ p.poc >= 0
  /\ enc'.coded = {[poc |-> p.poc, tid |-> p.tid, output |-> p.output]}
  /\ p.poc \notin enc'.future
  /\ First' \in Int /\ First' # MAX_INT /\ First' <= p.poc
  /\ p.type # "IDR" => enc.start /\ First' = p.poc
  /\ \A q \in enc'.srefs : q.poc = p.poc \/ q.poc < First'
  /\ p.active = p.refs
  /\ IF p.type = "GDR" THEN enc.cvs = 0 /\ p.refs \subseteq 1..(p.poc - 1) ELSE p.refs = {}

\* That is what NewSequence feeds the decoder.
LEMMA NewSequenceIsFirst ==
  ASSUME DecodingInv, NEW p, NEW future, NewSequence(p, future)
  PROVE  FirstPicture(p) /\ EncType' /\ CodedOnce'
<1> DEFINE ref == [poc |-> p.poc, tid |-> p.tid, leading |-> FALSE]
           coded == [poc |-> p.poc, tid |-> p.tid, output |-> p.output]
           cut == IF p.type = "CRA" THEN {CutOff} ELSE {}
<1>1. /\ p \in CodedPicture /\ p.type \in {"IDR", "CRA", "GDR"} /\ p.poc \in Int
      /\ p.type = "IDR" \/ enc.start
      /\ p.cvs = enc.cvs + 1 /\ p.active = p.refs
      /\ future \in SUBSET Int /\ \A x \in future : x \in Int /\ x >= -MaxLeading /\ x # p.poc
      /\ Feed(p, TRUE, future)
  BY DEF NewSequence, CodedPicture
<1>2. /\ IF p.type = "GDR" THEN enc.cvs = 0 /\ p.refs \subseteq 1..(p.poc - 1) ELSE p.refs = {}
      /\ p.poc >= 0 /\ p.poc < MAX_INT /\ p.poc # MAX_INT
      /\ p.type = "CRA" => p.poc = 0
      /\ p.type = "GDR" => \A x \in future : x > p.poc
  <2>1. GdrPoc \in Nat /\ GdrPoc < MAX_INT /\ MAX_INT \in Nat \ {0}
    BY StreamAssumption, MaxIntType
  <2>2. IF p.type = "GDR"
        THEN /\ enc.cvs = 0 /\ p.poc = GdrPoc /\ p.refs \subseteq 1..(GdrPoc - 1)
             /\ \A x \in future : x > GdrPoc
        ELSE p.poc = 0 /\ p.refs = {}
    BY DEF NewSequence
  <2>3. CASE p.type = "GDR"
    BY <2>1, <2>2, <2>3
  <2>4. CASE p.type # "GDR"
    BY <2>1, <2>2, <2>4
  <2> QED
    BY <2>3, <2>4
<1>3. EncType /\ MaxLeading \in Nat /\ dec \in DecLibMembers /\ MAX_INT \in Nat \ {0}
      /\ (enc.start => First = MAX_INT)
  BY StreamAssumption, MaxIntType, InvFacts DEF DecodingInv, Control
<1>4. ~RandomAccessSkip(p)
  BY <1>1, <1>3 DEF RandomAccessSkip, First
<1>5. BeginPicture(p)
  BY <1>1, <1>4 DEF Feed, SkipPicture
<1>6. First' = IF p.type = "IDR" THEN -MAX_INT ELSE p.poc
  <2>1. dec'.pocRandomAccess = IF p.type = "IDR" THEN -MAX_INT
                               ELSE IF dec.pocRandomAccess = MAX_INT THEN p.poc
                               ELSE dec.pocRandomAccess
    BY <1>3, <1>5 DEF BeginPicture, DecLibMembers
  <2> QED
    BY <1>1, <1>3, <2>1 DEF First
<1>7. /\ First' \in Int /\ First' # MAX_INT /\ First' <= p.poc
      /\ p.type # "IDR" => enc.start /\ First' = p.poc
  BY <1>1, <1>2, <1>3, <1>6
<1>8. /\ enc'.cvs = p.cvs /\ ~enc'.start /\ enc'.irap = p.poc
      /\ enc'.irapType = p.type /\ enc'.future = future /\ enc'.last = p.poc
      /\ enc'.coded = {coded} /\ enc'.srefs = {ref} \cup cut
  BY <1>1 DEF Feed, Encoded
<1>9. EncType'
  <2>1. enc' = Encoded(p, TRUE, future)
    BY <1>1 DEF Feed
  <2> QED
    BY <1>1, <1>3, <2>1, EncodedType
<1>10. \A q \in enc'.srefs :
         q = ref \/ (p.type = "CRA" /\ q = CutOff /\ q.poc < First' /\ q.leading)
  BY <1>2, <1>3, <1>6, <1>8 DEF CutOff
<1>11. ref.poc = p.poc /\ coded.poc = p.poc
  OBVIOUS
<1>12. FirstPicture(p)
  <2>1. \A q \in enc'.srefs : q.poc = p.poc \/ q.poc < First'
    BY <1>10, <1>11
  <2> QED
    BY <1>1, <1>2, <1>5, <1>7, <1>8, <2>1 DEF FirstPicture
<1>13. CodedOnce'
  <2> HIDE DEF ref, coded, cut
  <2>1. Pocs(enc'.coded) = {p.poc}
    BY <1>8, <1>11 DEF Pocs
  <2>2. First' <= enc'.irap /\ 0 <= enc'.irap /\ enc'.irap <= enc'.last
    BY <1>1, <1>2, <1>7, <1>8
  <2>3. \A q \in enc'.coded : -MaxLeading <= q.poc /\ q.poc <= enc'.last
    BY <1>1, <1>2, <1>3, <1>8, <1>11
  <2>4. \A q, r \in enc'.coded : q.poc = r.poc => q = r
    BY <1>8
  <2>5. \A x \in enc'.future : x >= -MaxLeading /\ x # enc'.irap /\ x \notin Pocs(enc'.coded)
    BY <1>1, <1>8, <2>1
  <2>6. \A x \in enc'.future : x < First' => enc'.irapType = "CRA" /\ First' = enc'.irap
    <3>1. CASE p.type = "IDR"
      <4>1. MaxLeading < MAX_INT
        BY StreamAssumption
      <4>2. \A x \in future : ~(x < First')
        <5>1. First' = -MAX_INT
          BY <1>6, <3>1
        <5>2. \A x \in future : x \in Int /\ x >= -MaxLeading
          BY <1>1
        <5> QED
          BY <1>3, <4>1, <5>1, <5>2
      <4> QED
        BY <1>8, <4>2
    <3>2. CASE p.type = "CRA"
      BY <1>8, <1>7, <3>2
    <3>3. CASE p.type = "GDR"
      <4>1. \A x \in future : x \in Int /\ x > p.poc
        BY <1>1, <1>2, <3>3
      <4>2. First' = p.poc /\ enc'.future = future
        BY <1>7, <1>8, <3>3
      <4>3. \A x \in future : ~(x < First')
        BY <1>1, <4>1, <4>2
      <4> QED
        BY <4>2, <4>3
    <3> QED
      BY <1>1, <3>1, <3>2, <3>3
  <2>7. \A q \in enc'.srefs : IF q.poc >= First' THEN q.poc \in Pocs(enc'.coded)
                                                 ELSE q.leading /\ First' = enc'.irap
    <3>1. ref.poc >= First' /\ ref.poc \in Pocs(enc'.coded)
      BY <1>1, <1>7, <1>11, <2>1
    <3>2. ASSUME p.type = "CRA", CutOff.poc < First', CutOff.leading
          PROVE  ~(CutOff.poc >= First') /\ CutOff.leading /\ First' = enc'.irap
      <4>1. CutOff.poc \in Int
        BY <1>3 DEF CutOff
      <4> QED
        BY <1>7, <1>8, <3>2, <4>1
    <3> QED
      BY <1>10, <3>1, <3>2
  <2> QED
    BY <1>8, <2>2, <2>3, <2>4, <2>5, <2>6, <2>7 DEF CodedOnce
<1> QED
  BY <1>9, <1>12, <1>13

-----------------------------------------------------------------------------
(* The steps that read the header of a picture.                             *)

\* A picture that starts a sequence empties the buffers into the file.
LEMMA BeginFirst ==
  ASSUME DecodingInv, NEW p, FirstPicture(p)
  PROVE  /\ DOMAIN picList' = {} /\ discarded' = discarded
         /\ shown' = Written(shown, picList, Waiting(picList))
         /\ Waiting(picList) # {} => app.outputPicturePresent
         /\ Flushes(p) \/ enc.cvs = 0
         /\ app'.pocLastDisplay = IF Flushes(p) THEN -MAX_INT ELSE app.pocLastDisplay
         /\ app'.outputPicturePresent = app.outputPicturePresent
         /\ app.status = "running" /\ app'.status = "running" /\ pilot = None /\ curPic = None
         /\ pilot' # None /\ pilot'.pic = p /\ (pilot'.output => p.output)
         /\ p.type = "GDR" => pilot'.nobr
         /\ UNCHANGED <<numPics, curPic, refPicList, sps, due>>
<1> DEFINE list == IF Flushes(p) THEN << >> ELSE picList
           prior == IF NoOutputBeforeRecovery(p) /\ p.noPrior
                    THEN {i \in DOMAIN list : list[i].poc # p.poc} ELSE {}
<1>1. /\ p \in CodedPicture /\ BeginPicture(p) /\ p.type \in {"IDR", "CRA", "GDR"}
      /\ p.type # "IDR" => enc.start
      /\ p.type = "GDR" => enc.cvs = 0
  BY DEF FirstPicture
<1>2. /\ app.status = "running" /\ pilot = None /\ curPic = None
      /\ picList' = Suppressed(list, prior)
      /\ shown' = IF Flushes(p) THEN Written(shown, picList, Waiting(picList)) ELSE shown
      /\ discarded' = Cancelled(list, prior, "prior")
      /\ app' = [app EXCEPT !.newCLVS = NewCLVS(p), !.picSkipped = FALSE,
                            !.pocLastDisplay = IF Flushes(p) THEN -MAX_INT ELSE @]
      /\ UNCHANGED <<numPics, curPic, refPicList, sps, due>>
  BY <1>1 DEF BeginPicture
<1>3. /\ app \in DecAppVariables /\ enc.cvs \in Nat /\ numPics \in Nat
      /\ IsList(picList, numPics) /\ IsFile(shown, numPics)
      /\ discarded \in [DOMAIN discarded -> Reasons]
  BY InvFacts, EncFacts DEF DecodingInv, Histories
<1>4. Flushes(p) \/ enc.cvs = 0
  BY <1>1, <1>2, <1>3 DEF Flushes, DecodingInv, Control, Between
<1>5. enc.cvs = 0 => DOMAIN picList = {}
  <2>1. \A i \in DOMAIN picList : enc.cvs > 0
    BY DEF DecodingInv, OnePicturePerPoc
  <2> QED
    BY <2>1, SMT
<1>6. DOMAIN list = {}
  BY <1>4, <1>5
<1>7. DOMAIN picList' = {} /\ discarded' = discarded
  <2> HIDE DEF list, prior
  <2>1. Waiting(list) = {} /\ DOMAIN Suppressed(list, prior) = {}
    BY <1>6 DEF Waiting, Suppressed
  <2>2. Cancelled(list, prior, "prior") = discarded
    BY <1>3, <2>1 DEF Cancelled
  <2> QED
    BY <1>2, <2>1, <2>2
<1>8. shown' = Written(shown, picList, Waiting(picList))
  <2>1. CASE Flushes(p)
    BY <1>2, <2>1
  <2>2. CASE ~Flushes(p)
    <3>1. Waiting(picList) = {} /\ {} \in SUBSET DOMAIN picList
      BY <1>4, <1>5, <2>2 DEF Waiting
    <3>2. Written(shown, picList, {}) = shown
      BY <1>3, <3>1, WrittenKeeps
    <3> QED
      BY <1>2, <2>2, <3>1, <3>2
  <2> QED
    BY <2>1, <2>2
<1>9. Waiting(picList) # {} => app.outputPicturePresent
  BY <1>2 DEF DecodingInv, SomethingToOutput
<1>10. /\ app'.pocLastDisplay = IF Flushes(p) THEN -MAX_INT ELSE app.pocLastDisplay
       /\ app'.outputPicturePresent = app.outputPicturePresent /\ app'.status = "running"
  BY <1>2, <1>3 DEF DecAppVariables
<1>11. /\ pilot' # None /\ pilot'.pic = p /\ (pilot'.output => p.output)
       /\ pilot'.nobr = NoOutputBeforeRecovery(p)
  <2>1. Inv'
    BY <1>1, BeginPictureStep DEF DecodingInv
  <2>2. /\ pilot'.pic = p /\ (pilot'.output => p.output)
        /\ pilot'.nobr = NoOutputBeforeRecovery(p)
        /\ pilot' = [pic |-> p, nobr |-> NoOutputBeforeRecovery(p), output |-> pilot'.output]
        /\ pilot'.output \in BOOLEAN
    BY <1>1 DEF BeginPicture, CodedPicture
  <2>3. NoOutputBeforeRecovery(p) \in BOOLEAN
    BY InvFacts DEF NoOutputBeforeRecovery, DecLibMembers, DecodingInv
  <2>4. pilot' \in PilotPicture
    BY <1>1, <2>2, <2>3 DEF PilotPicture
  <2> QED
    BY <2>2, <2>4, NoneAssumption
<1>12. p.type = "GDR" => NoOutputBeforeRecovery(p)
  BY <1>1 DEF DecodingInv, Control, NoOutputBeforeRecovery
<1> QED
  BY <1>2, <1>4, <1>7, <1>8, <1>9, <1>10, <1>11, <1>12

\* The header of a picture that starts a sequence keeps the invariant: what the
\* flush leaves, nothing, is no picture of another sequence.
LEMMA FirstPictureStep ==
  ASSUME DecodingInv, NEW p, FirstPicture(p), EncType', CodedOnce'
  PROVE  DecodingInv'
<1>1. /\ p \in CodedPicture /\ BeginPicture(p) /\ p.type \in {"IDR", "CRA", "GDR"}
      /\ p.cvs = enc.cvs + 1 /\ enc'.cvs = p.cvs /\ ~enc'.start /\ p.poc >= 0
      /\ enc'.coded = {[poc |-> p.poc, tid |-> p.tid, output |-> p.output]}
      /\ p.poc \notin enc'.future
      /\ First' \in Int /\ First' # MAX_INT /\ First' <= p.poc
      /\ p.type # "IDR" => enc.start /\ First' = p.poc
      /\ \A q \in enc'.srefs : q.poc = p.poc \/ q.poc < First'
      /\ p.active = p.refs
      /\ IF p.type = "GDR" THEN enc.cvs = 0 /\ p.refs \subseteq 1..(p.poc - 1) ELSE p.refs = {}
  BY DEF FirstPicture
<1>2. /\ DOMAIN picList' = {} /\ discarded' = discarded
      /\ shown' = Written(shown, picList, Waiting(picList))
      /\ Waiting(picList) # {} => app.outputPicturePresent
      /\ app'.outputPicturePresent = app.outputPicturePresent
      /\ app.status = "running" /\ app'.status = "running" /\ pilot = None /\ curPic = None
      /\ pilot' # None /\ pilot'.pic = p /\ (pilot'.output => p.output)
      /\ p.type = "GDR" => pilot'.nobr
      /\ UNCHANGED <<numPics, curPic, refPicList, sps, due>>
  BY BeginFirst
<1>3. enc.cvs \in Nat /\ p.poc \in Int /\ p.refs \subseteq Int
  BY <1>1, EncFacts DEF DecodingInv, CodedPicture
<1>4. Inv'
  BY <1>1, BeginPictureStep DEF DecodingInv
<1>5. Control'
  <2>1. DiscardsOnRequestOnly'
    BY <1>2 DEF DecodingInv, Control, DiscardsOnRequestOnly
  <2>2. DOMAIN refPicList' = {}
    BY <1>2 DEF DecodingInv, Control
  <2> QED
    BY <1>1, <1>2, <1>3, <2>1, <2>2 DEF Control, Between
<1>6. OnePicturePerPoc'
  BY <1>2 DEF OnePicturePerPoc
<1>7. ReferencesKept'
  <2>1. \A q \in enc'.srefs : q.poc >= First' => q.poc = p.poc
    <3>1. \A q \in enc'.srefs : q.poc \in Int
      BY EncFacts DEF EncType
    <3> QED
      BY <1>1, <3>1
  <2> QED
    BY <1>2, <2>1 DEF ReferencesKept
<1>8. PilotIsNext'
  <2>1. \E q \in enc'.coded : q.poc = p.poc /\ (pilot'.output => q.output)
    BY <1>1, <1>2
  <2>2. p.poc \notin p.refs /\ IsFiniteSet(p.refs)
    <3>1. IsFiniteSet(1..(p.poc - 1))
      BY <1>3, FS_Interval
    <3> QED
      BY <1>1, <1>3, <3>1, FS_Subset, FS_EmptySet
  <2>3. p.type = "GDR" => p.refs \subseteq 1..(First' - 1)
    BY <1>1
  <2> QED
    BY <1>1, <1>2, <1>3, <2>1, <2>2, <2>3 DEF PilotIsNext
<1>9. CurrentIsCoded' /\ PredictsFromOwnSequence'
  BY <1>2, <1>5 DEF CurrentIsCoded, PredictsFromOwnSequence, Control
<1>10. SomethingToOutput'
  <2>1. Waiting(picList') = {}
    BY <1>2 DEF Waiting
  <2>2. \A i \in due : \/ i \in DOMAIN discarded /\ discarded[i] = "recovery"
                       \/ app.outputPicturePresent
    BY <1>2 DEF DecodingInv, SomethingToOutput, Live
  <2> QED
    BY <1>1, <1>2, <1>3, <2>1, <2>2 DEF SomethingToOutput, DecodingInv
<1>11. NeverAborts'
  BY <1>2 DEF NeverAborts
<1> QED
  BY <1>4, <1>5, <1>6, <1>7, <1>8, <1>9, <1>10, <1>11 DEF DecodingInv

\* A picture within a sequence that is decoded changes neither buffers nor
\* file.
LEMMA BeginNext ==
  ASSUME DecodingInv, NEW p, NextPicture(p), p.poc >= First
  PROVE  /\ picList' = picList /\ shown' = shown /\ discarded' = discarded
         /\ app'.outputPicturePresent = app.outputPicturePresent
         /\ app'.pocLastDisplay = app.pocLastDisplay
         /\ app.status = "running" /\ app'.status = "running" /\ pilot = None /\ curPic = None
         /\ pilot' # None /\ pilot'.pic = p /\ (pilot'.output => p.output)
         /\ p.type = "RASL" => ~app'.newCLVS
         /\ UNCHANGED <<numPics, curPic, refPicList, sps, due>>
         /\ BeginPicture(p)
<1> DEFINE prior == IF NoOutputBeforeRecovery(p) /\ p.noPrior
                    THEN {i \in DOMAIN picList : picList[i].poc # p.poc} ELSE {}
<1>1. /\ p \in CodedPicture /\ p.type \in {"CRA", "RASL", "TRAIL"} /\ ~enc.start
      /\ p.type = "CRA" => ~p.noPrior
      /\ p.poc \in Int /\ First \in Int /\ ~(p.poc < First)
  BY InvFacts DEF NextPicture, CodedPicture, First, DecLibMembers, DecodingInv
<1>2. BeginPicture(p)
  BY <1>1 DEF NextPicture
<1>3. app.status = "running" /\ pilot = None /\ curPic = None
  BY <1>2 DEF BeginPicture
<1>4. ~app.eosInLastPu
  BY <1>1, <1>3 DEF DecodingInv, Control, Between
<1>5. ~Flushes(p) /\ prior = {}
  BY <1>1, <1>4 DEF Flushes, NoOutputBeforeRecovery
<1>6. /\ picList' = Suppressed(picList, prior) /\ shown' = shown
      /\ discarded' = Cancelled(picList, prior, "prior")
      /\ app' = [app EXCEPT !.newCLVS = NewCLVS(p), !.picSkipped = FALSE,
                            !.pocLastDisplay = @]
      /\ UNCHANGED <<numPics, curPic, refPicList, sps, due>>
  BY <1>2, <1>5 DEF BeginPicture
<1> HIDE DEF prior
<1>7. /\ app \in DecAppVariables /\ IsList(picList, numPics)
      /\ discarded \in [DOMAIN discarded -> Reasons]
  BY InvFacts DEF DecodingInv, Histories
<1>8. picList' = picList
  <2>1. \A i \in DOMAIN picList : [picList[i] EXCEPT !.needed = picList[i].needed /\ i \notin {}]
                                  = picList[i]
    BY <1>7 DEF IsList, Buffer
  <2>2. picList = [i \in DOMAIN picList |-> picList[i]]
    BY <1>7 DEF IsList
  <2> QED
    BY <1>5, <1>6, <2>1, <2>2 DEF Suppressed
<1>9. discarded' = discarded
  <2>1. DOMAIN discarded \cup ({} \cap Waiting(picList)) = DOMAIN discarded
    OBVIOUS
  <2> QED
    BY <1>5, <1>6, <1>7, <2>1 DEF Cancelled
<1>10. /\ app'.outputPicturePresent = app.outputPicturePresent
       /\ app'.pocLastDisplay = app.pocLastDisplay /\ app'.status = "running"
       /\ app'.newCLVS = NewCLVS(p)
  BY <1>3, <1>6, <1>7 DEF DecAppVariables
<1>11. p.type = "RASL" => ~NewCLVS(p)
  BY <1>4 DEF NewCLVS
<1>12. /\ pilot' # None /\ pilot'.pic = p /\ (pilot'.output => p.output)
  <2>1. /\ pilot'.pic = p /\ (pilot'.output => p.output)
        /\ pilot' = [pic |-> p, nobr |-> NoOutputBeforeRecovery(p), output |-> pilot'.output]
        /\ pilot'.output \in BOOLEAN
    BY <1>1, <1>2 DEF BeginPicture, CodedPicture
  <2>2. NoOutputBeforeRecovery(p) \in BOOLEAN
    BY InvFacts DEF NoOutputBeforeRecovery, DecLibMembers, DecodingInv
  <2>3. pilot' \in PilotPicture
    BY <1>1, <2>1, <2>2 DEF PilotPicture
  <2> QED
    BY <2>1, <2>3, NoneAssumption
<1> QED
  BY <1>2, <1>3, <1>6, <1>8, <1>9, <1>10, <1>11, <1>12

\* So does the header of a picture within a sequence: its references are there.
LEMMA NextPictureStep ==
  ASSUME DecodingInv, NEW p, NextPicture(p), EncType', CodedOnce', p.poc >= First
  PROVE  DecodingInv'
<1>1. /\ p \in CodedPicture /\ p.type \in {"CRA", "RASL", "TRAIL"} /\ ~enc.start
      /\ p.cvs = enc.cvs
      /\ p.active \subseteq p.refs /\ p.poc \notin Pocs(enc.coded)
      /\ IsFiniteSet(p.refs)
      /\ \A r \in p.refs : \E q \in enc.srefs : q.poc = r
      /\ \A r \in p.refs : r >= First /\ r # p.poc
      /\ enc'.cvs = enc.cvs /\ ~enc'.start /\ p.poc \notin enc'.future
      /\ enc'.coded = enc.coded \cup {[poc |-> p.poc, tid |-> p.tid, output |-> p.output]}
      /\ \A q \in enc'.srefs : q.poc = p.poc \/ (q \in enc.srefs /\ q.poc \in p.refs)
      /\ First' = First
  BY DEF NextPicture
<1>2. /\ picList' = picList /\ shown' = shown /\ discarded' = discarded
      /\ app'.outputPicturePresent = app.outputPicturePresent
      /\ app.status = "running" /\ app'.status = "running" /\ pilot = None /\ curPic = None
      /\ pilot' # None /\ pilot'.pic = p /\ (pilot'.output => p.output)
      /\ p.type = "RASL" => ~app'.newCLVS
      /\ UNCHANGED <<numPics, curPic, refPicList, sps, due>>
      /\ BeginPicture(p)
  BY BeginNext
<1>3. /\ enc.cvs \in Nat /\ p.poc \in Int /\ First \in Int /\ First # MAX_INT
      /\ enc.cvs > 0
  <2>1. enc.cvs # 0
    BY <1>1 DEF DecodingInv, Control
  <2> QED
    BY <1>1, <2>1, SequenceFacts DEF CodedPicture
<1>4. Inv'
  BY <1>1, <1>2, BeginPictureStep DEF DecodingInv
<1>5. Control'
  <2>1. DiscardsOnRequestOnly' /\ DOMAIN refPicList' = {}
    BY <1>2 DEF DecodingInv, Control, DiscardsOnRequestOnly
  <2> QED
    BY <1>1, <1>2, <1>3, <2>1 DEF Control, Between
<1>6. /\ \A i \in DOMAIN picList :
           /\ picList[i].cvs = enc.cvs /\ enc.cvs > 0 /\ picList[i].poc > -MAX_INT
           /\ picList[i].poc \in Pocs(enc.coded) \/ picList[i].poc < First
      /\ \A i, j \in DOMAIN picList : picList[i].poc = picList[j].poc => i = j
  BY <1>1 DEF DecodingInv, OnePicturePerPoc
<1>7. OnePicturePerPoc'
  <2>1. Pocs(enc.coded) \subseteq Pocs(enc'.coded)
    BY <1>1 DEF Pocs
  <2> QED
    BY <1>1, <1>2, <1>6, <2>1 DEF OnePicturePerPoc
<1>8. \A r \in p.refs : HasReference(r)
  <2>1. \A q \in enc.srefs : q.poc >= First => HasReference(q.poc)
    BY <1>2 DEF DecodingInv, ReferencesKept, Live
  <2> QED
    BY <1>1, <2>1
<1>9. \A r \in p.refs : HasReference(r)'
  BY <1>2, <1>8 DEF HasReference
<1>10. ReferencesKept'
  BY <1>1, <1>2, <1>9 DEF ReferencesKept
<1>11. PilotIsNext'
  <2>1. \E q \in enc'.coded : q.poc = p.poc /\ (pilot'.output => q.output)
    BY <1>1, <1>2
  <2>2. \A i \in DOMAIN picList : picList[i].poc # p.poc
    BY <1>1, <1>3, <1>6
  <2>3. \A q \in enc'.srefs : q.poc \in p.refs \cup {p.poc}
    BY <1>1
  <2> QED
    BY <1>1, <1>2, <1>9, <2>1, <2>2, <2>3 DEF PilotIsNext
<1>12. CurrentIsCoded' /\ PredictsFromOwnSequence'
  BY <1>2, <1>5 DEF CurrentIsCoded, PredictsFromOwnSequence, Control
<1>13. SomethingToOutput'
  BY <1>1, <1>2 DEF SomethingToOutput, DecodingInv, Live
<1>14. NeverAborts'
  BY <1>2 DEF NeverAborts
<1> QED
  BY <1>4, <1>5, <1>7, <1>10, <1>11, <1>12, <1>13, <1>14 DEF DecodingInv

-----------------------------------------------------------------------------
(* The steps that end an iteration of the loop.                             *)

\* DecApp's variables that output does not touch.
SameFlags(a, b) ==
  /\ a.newCLVS = b.newCLVS /\ a.eosInLastPu = b.eosInLastPu /\ a.picListSet = b.picListSet
  /\ a.gdrRecoveryPeriod = b.gdrRecoveryPeriod /\ a.status = b.status
  /\ b.outputPicturePresent => a.outputPicturePresent

\* Bumping lowers flags only, and takes note of what waited.
LEMMA OutputEffect ==
  ASSUME NEW n \in Nat, NEW pl, IsList(pl, n), NEW a \in DecAppVariables,
         \/ WriteOutput(Suppress(pl, a), a)
         \/ picList' = Suppress(pl, a) /\ app' = a /\ a.status # "running"
  PROVE  /\ Lowered(picList', pl) /\ SameFlags(app', a)
         /\ Waiting(picList') \subseteq Waiting(pl)
         /\ a.status = "running" /\ Waiting(picList') # {} => app'.outputPicturePresent
         /\ \A i \in Waiting(pl) : \/ i \in Waiting(picList') \/ a.gdrRecoveryPeriod
                                   \/ app'.outputPicturePresent
<1> DEFINE sl == Suppress(pl, a)
           B == Bumped(sl, a.pocLastDisplay, sps.reorder[MaxTid], sps.buffering[MaxTid])
           b == [a EXCEPT !.pocLastDisplay = LastDisplay(sl, B, a.pocLastDisplay),
                          !.outputPicturePresent = (@ \/ Waiting(sl) # {})]
<1>1. /\ IsList(sl, n) /\ Lowered(sl, pl)
      /\ Waiting(sl) = IF a.gdrRecoveryPeriod THEN {} ELSE Waiting(pl)
  BY SuppressEffect
<1>2. CASE WriteOutput(sl, a)
  <2>1. picList' = AfterOutput(sl, B) /\ app' = b
    BY <1>2 DEF WriteOutput
  <2>2. B \subseteq Waiting(sl) /\ B \in SUBSET DOMAIN sl
    <3> HIDE DEF sl
    <3> QED
      BY BumpedWait DEF Waiting
  <2> HIDE DEF sl, B
  <2>3. /\ DOMAIN picList' = DOMAIN sl /\ Waiting(picList') = Waiting(sl) \ B
        /\ \A i \in DOMAIN sl :
             /\ picList'[i].poc = sl[i].poc /\ picList'[i].cvs = sl[i].cvs
             /\ picList'[i].referenced = sl[i].referenced
             /\ picList'[i].needed = (sl[i].needed /\ i \notin B)
             /\ picList'[i].reconstructed =
                  (sl[i].reconstructed /\ (i \notin B \/ sl[i].referenced))
    BY <1>1, <2>1, <2>2, AfterOutputKeeps
  <2>4. Lowered(picList', pl)
    BY <1>1, <2>3 DEF Lowered
  <2>5. SameFlags(app', a) /\ (Waiting(sl) # {} => app'.outputPicturePresent)
    BY <2>1 DEF SameFlags, DecAppVariables
  <2> QED
    BY <1>1, <2>2, <2>3, <2>4, <2>5
<1>3. CASE picList' = sl /\ app' = a /\ a.status # "running"
  <2> HIDE DEF sl
  <2> QED
    BY <1>1, <1>3 DEF SameFlags
<1> QED
  BY <1>2, <1>3

\* The same pictures and references, with whatever other flags.
SamePictures(out, pl) ==
  /\ DOMAIN out = DOMAIN pl
  /\ \A i \in DOMAIN pl : /\ out[i].poc = pl[i].poc /\ out[i].cvs = pl[i].cvs
                          /\ out[i].referenced = pl[i].referenced

\* Bumping and suppressing change flags only.
LEMMA LoweredSame ==
  ASSUME NEW out, NEW pl, Lowered(out, pl)
  PROVE  SamePictures(out, pl)
BY DEF Lowered, SamePictures

\* The buffers stay as they are but for flags.
LEMMA ListStays ==
  ASSUME OnePicturePerPoc, ReferencesKept, SamePictures(picList', picList),
         enc'.cvs = enc.cvs,
         \/ enc'.start
         \/ ~enc.start /\ First' = First /\ Pocs(enc.coded) \subseteq Pocs(enc'.coded),
         Live' => /\ Live /\ pilot' = pilot
                  /\ \A q \in enc'.srefs : q.poc >= First' => q \in enc.srefs /\ First' = First
  PROVE  OnePicturePerPoc' /\ ReferencesKept'
<1>1. /\ DOMAIN picList' = DOMAIN picList
      /\ \A i \in DOMAIN picList :
           /\ picList'[i].poc = picList[i].poc /\ picList'[i].cvs = picList[i].cvs
           /\ picList'[i].referenced = picList[i].referenced
  BY DEF SamePictures
<1>2. OnePicturePerPoc'
  BY <1>1 DEF OnePicturePerPoc
<1>3. ASSUME NEW r, HasReference(r)
      PROVE  HasReference(r)'
  BY <1>1, <1>3 DEF HasReference
<1>4. ReferencesKept'
  BY <1>3 DEF ReferencesKept
<1> QED
  BY <1>2, <1>4

\* An iteration without a picture.
LEMMA IdleIteration ==
  ASSUME DecodingInv, pilot = None, curPic = None, app.status = "running",
         NEW a \in DecAppVariables, SameFlags(a, [app EXCEPT !.newCLVS = a.newCLVS,
                                                             !.eosInLastPu = a.eosInLastPu]),
         EndOfIteration(picList, a), due' = due, enc'.cvs = enc.cvs
  PROVE  /\ Lowered(picList', picList) /\ SameFlags(app', a)
         /\ discarded' = discarded /\ SomethingToOutput'
<1>1. numPics \in Nat /\ IsList(picList, numPics) /\ app \in DecAppVariables
  BY InvFacts DEF DecodingInv
<1>2. /\ a.status = "running" /\ a.gdrRecoveryPeriod = app.gdrRecoveryPeriod
      /\ app.outputPicturePresent => a.outputPicturePresent
  BY <1>1 DEF SameFlags, DecAppVariables
<1>3. a.gdrRecoveryPeriod => Waiting(picList) = {}
  BY <1>2 DEF DecodingInv, Inv, NothingWaitsInRecovery
<1>4. WriteOutput(Suppress(picList, a), a)
  BY DEF EndOfIteration
<1>5. /\ Lowered(picList', picList) /\ SameFlags(app', a)
      /\ Waiting(picList') # {} => app'.outputPicturePresent
      /\ \A i \in Waiting(picList) : \/ i \in Waiting(picList') \/ a.gdrRecoveryPeriod
                                     \/ app'.outputPicturePresent
  BY <1>1, <1>2, <1>4, OutputEffect
<1>6. discarded' = discarded
  <2>1. discarded \in [DOMAIN discarded -> Reasons]
    BY InvFacts DEF Histories, DecodingInv
  <2>2. CASE a.gdrRecoveryPeriod
    <3>1. discarded' = Cancelled(picList, DOMAIN picList, "recovery")
      BY <2>2 DEF EndOfIteration
    <3>2. DOMAIN discarded \cup (DOMAIN picList \cap Waiting(picList)) = DOMAIN discarded
      BY <1>3, <2>2
    <3> QED
      BY <2>1, <3>1, <3>2 DEF Cancelled
  <2>3. CASE ~a.gdrRecoveryPeriod
    BY <2>3 DEF EndOfIteration
  <2> QED
    BY <2>2, <2>3
<1>7. SomethingToOutput'
  <2>1. /\ \A i \in due : \/ i \in DOMAIN discarded /\ discarded[i] = "recovery"
                          \/ app.outputPicturePresent \/ i \in Waiting(picList)
        /\ due # {} => enc.cvs > 0
    BY DEF DecodingInv, SomethingToOutput, Live
  <2>2. app'.outputPicturePresent \/ ~app.outputPicturePresent
    BY <1>2, <1>5 DEF SameFlags
  <2>3. \A i \in due' : \/ i \in DOMAIN discarded' /\ discarded'[i] = "recovery"
                        \/ app'.outputPicturePresent \/ i \in Waiting(picList')
    BY <1>3, <1>5, <1>6, <2>1, <2>2
  <2> QED
    BY <1>5, <2>1, <2>3 DEF SomethingToOutput
<1> QED
  BY <1>5, <1>6, <1>7

\* A picture that is skipped.
LEMMA SkippedPictureStep ==
  ASSUME DecodingInv, NEW p, NextPicture(p), EncType', CodedOnce', p.poc < First
  PROVE  DecodingInv'
<1> DEFINE a == [app EXCEPT !.newCLVS = NewCLVS(p), !.picSkipped = TRUE,
                            !.prevPicSkipped = @ \/ p.type # "RASL"]
<1>1. /\ p \in CodedPicture /\ SkipPicture(p) /\ p.type = "RASL" /\ ~enc.start
      /\ enc'.cvs = enc.cvs /\ ~enc'.start /\ First' = First
      /\ enc'.coded = enc.coded \cup {[poc |-> p.poc, tid |-> p.tid, output |-> p.output]}
      /\ \A q \in enc'.srefs : q.poc = p.poc \/ (q \in enc.srefs /\ q.poc \in p.refs)
  BY DEF NextPicture
<1>2. /\ app.status = "running" /\ pilot = None /\ curPic = None
      /\ EndOfIteration(picList, a)
      /\ UNCHANGED <<numPics, pilot, curPic, refPicList, dec, sps, due>>
  BY <1>1 DEF SkipPicture, stream
<1>3. app \in DecAppVariables /\ NewCLVS(p) \in BOOLEAN
  BY InvFacts DEF DecodingInv, NewCLVS, DecAppVariables
<1>4. /\ a \in DecAppVariables /\ a.eosInLastPu = app.eosInLastPu
      /\ a.picListSet = app.picListSet /\ a.status = "running"
      /\ SameFlags(a, [app EXCEPT !.newCLVS = a.newCLVS, !.eosInLastPu = a.eosInLastPu])
  BY <1>2, <1>3 DEF DecAppVariables, SameFlags
<1> HIDE DEF a
<1>5. /\ Lowered(picList', picList) /\ SameFlags(app', a)
      /\ discarded' = discarded /\ SomethingToOutput'
  BY <1>1, <1>2, <1>4, IdleIteration
<1>6. app'.eosInLastPu = app.eosInLastPu /\ app'.picListSet = app.picListSet
      /\ app'.status = "running"
  BY <1>4, <1>5 DEF SameFlags
<1>7. Inv'
  BY <1>1, SkipPictureStep DEF DecodingInv
<1>8. Control'
  <2>1. DiscardsOnRequestOnly' /\ DOMAIN refPicList' = {}
    BY <1>2, <1>5 DEF DecodingInv, Control, DiscardsOnRequestOnly
  <2> QED
    BY <1>1, <1>2, <1>6, <2>1 DEF DecodingInv, Control, Between
<1>9. OnePicturePerPoc' /\ ReferencesKept'
  <2>1. Pocs(enc.coded) \subseteq Pocs(enc'.coded)
    BY <1>1 DEF Pocs
  <2>2. p.poc \in Int /\ First \in Int
    BY <1>1, SequenceFacts DEF CodedPicture
  <2>3. \A q \in enc'.srefs : q.poc >= First' => q \in enc.srefs
    BY <1>1, <2>2
  <2>4. Live /\ pilot' = pilot
    BY <1>2 DEF Live
  <2>5. OnePicturePerPoc /\ ReferencesKept
    BY DEF DecodingInv
  <2> QED
    BY <1>1, <1>5, <2>1, <2>3, <2>4, <2>5, LoweredSame, ListStays
<1>10. PilotIsNext' /\ CurrentIsCoded' /\ PredictsFromOwnSequence' /\ NeverAborts'
  BY <1>2, <1>6, <1>8
     DEF PilotIsNext, CurrentIsCoded, PredictsFromOwnSequence, NeverAborts, Control
<1> QED
  BY <1>5, <1>7, <1>8, <1>9, <1>10 DEF DecodingInv

\* What an EOS makes the encoder forget.
Forgotten ==
  /\ ~enc.start
  /\ enc' = [enc EXCEPT !.start = TRUE, !.future = {}, !.prior = {},
                        !.srefs = {}, !.coded = {}]

\* What is left of the encoder's state after an EOS.
LEMMA ForgottenFacts ==
  ASSUME DecodingInv, Forgotten
  PROVE  /\ EncType' /\ enc'.start /\ enc'.cvs = enc.cvs /\ enc.cvs \in Nat /\ enc.cvs > 0
         /\ enc'.srefs = {} /\ enc'.coded = {} /\ enc'.future = {}
         /\ CodedOnce'
<1>1. EncType /\ (enc.cvs = 0 => enc.start)
  BY DEF DecodingInv, Control
<1>2. enc.cvs \in Nat /\ enc.cvs > 0
  BY <1>1, EncFacts DEF Forgotten
<1>3. /\ enc'.start /\ enc'.cvs = enc.cvs
      /\ enc'.srefs = {} /\ enc'.coded = {} /\ enc'.future = {}
  BY <1>1 DEF Forgotten, EncType
<1>4. EncType'
  <2>1. IsFiniteSet({})
    BY FS_EmptySet
  <2> QED
    BY <1>1, <2>1 DEF Forgotten, EncType
<1> QED
  BY <1>2, <1>3, <1>4 DEF CodedOnce

\* An EOS after a skipped picture.
LEMMA EosAfterSkipStep ==
  ASSUME DecodingInv, Forgotten, EndOfSequenceAfterSkip
  PROVE  DecodingInv'
<1> DEFINE a == [app EXCEPT !.newCLVS = TRUE, !.eosInLastPu = TRUE]
<1>1. /\ EncType' /\ enc'.start /\ enc'.cvs = enc.cvs /\ enc.cvs \in Nat /\ enc.cvs > 0
      /\ enc'.srefs = {} /\ CodedOnce'
  BY ForgottenFacts
<1>2. /\ app.status = "running" /\ pilot = None /\ curPic = None
      /\ dec' = ResetByEos(dec)
      /\ UNCHANGED <<numPics, pilot, curPic, refPicList, sps, due>>
  BY DEF EndOfSequenceAfterSkip, stream
<1>3. app.picListSet
  BY <1>1, <1>2 DEF DecodingInv, Control, Between
<1>4. EndOfIteration(picList, a)
  BY <1>3 DEF EndOfSequenceAfterSkip
<1>5. app \in DecAppVariables /\ dec \in DecLibMembers
  BY InvFacts DEF DecodingInv
<1>6. /\ a \in DecAppVariables /\ a.eosInLastPu /\ a.picListSet /\ a.status = "running"
      /\ SameFlags(a, [app EXCEPT !.newCLVS = a.newCLVS, !.eosInLastPu = a.eosInLastPu])
  BY <1>2, <1>3, <1>5 DEF DecAppVariables, SameFlags
<1> HIDE DEF a
<1>7. /\ Lowered(picList', picList) /\ SameFlags(app', a)
      /\ discarded' = discarded /\ SomethingToOutput'
  BY <1>1, <1>2, <1>4, <1>6, IdleIteration
<1>8. app'.eosInLastPu /\ app'.picListSet /\ app'.status = "running"
  BY <1>6, <1>7 DEF SameFlags
<1>9. First' = MAX_INT
  BY <1>2, <1>5 DEF First, ResetByEos, DecLibMembers
<1>10. Inv'
  BY EndOfSequenceAfterSkipStep DEF DecodingInv
<1>11. Control'
  <2>1. DiscardsOnRequestOnly' /\ DOMAIN refPicList' = {}
    BY <1>2, <1>7 DEF DecodingInv, Control, DiscardsOnRequestOnly
  <2> QED
    BY <1>1, <1>2, <1>8, <1>9, <2>1 DEF Control, Between
<1>12. OnePicturePerPoc' /\ ReferencesKept'
  <2>1. Live /\ pilot' = pilot
    BY <1>2 DEF Live
  <2>2. OnePicturePerPoc /\ ReferencesKept
    BY DEF DecodingInv
  <2> QED
    BY <1>1, <1>7, <2>1, <2>2, LoweredSame, ListStays
<1>13. PilotIsNext' /\ CurrentIsCoded' /\ PredictsFromOwnSequence' /\ NeverAborts'
  BY <1>2, <1>8, <1>11
     DEF PilotIsNext, CurrentIsCoded, PredictsFromOwnSequence, NeverAborts, Control
<1> QED
  BY <1>1, <1>7, <1>10, <1>11, <1>12, <1>13 DEF DecodingInv

-----------------------------------------------------------------------------
(* The steps that decode a picture.                                         *)

\* Nothing is lost for a picture other than a GDR picture that starts the
\* stream.
LEMMA NothingMissing ==
  ASSUME DecodingInv, pilot # None, pilot.pic.type # "GDR"
  PROVE  Missing = {}
<1>1. /\ pilot.pic.active \subseteq pilot.pic.refs
      /\ \A r \in pilot.pic.refs : HasReference(r)
  BY DEF DecodingInv, PilotIsNext
<1> QED
  BY <1>1 DEF Missing, MissingRefs, HasReference

\* A picture inserted for a lost reference of that GDR picture.
LEMMA InsertedPictureStep ==
  ASSUME DecodingInv, InsertUnavailablePicture, enc' = enc
  PROVE  DecodingInv'
<1> DEFINE p == pilot.pic
<1>1. PICK r \in Missing :
        /\ r > 0
        /\ picList' = WithPicture(picList, numPics + 1, sps.buffering[0],
                        [poc |-> r, referenced |-> TRUE, needed |-> FALSE,
                         reconstructed |-> TRUE, cvs |-> p.cvs])
  BY DEF InsertUnavailablePicture
<1> DEFINE pic == [poc |-> r, referenced |-> TRUE, needed |-> FALSE,
                   reconstructed |-> TRUE, cvs |-> p.cvs]
<1>2. /\ app.status = "running" /\ pilot # None /\ pilot' = pilot /\ curPic' = curPic
      /\ UNCHANGED <<refPicList, dec, app, sps, shown, due, discarded>>
  BY DEF InsertUnavailablePicture, stream, history
<1>3. /\ curPic = None /\ numPics \in Nat /\ IsList(picList, numPics) /\ Settled(picList, {})
      /\ First \in Int
  <2>1. curPic = None
    BY <1>2 DEF DecodingInv, Inv, OneAtATime
  <2> QED
    BY <1>2, <2>1, InvFacts, SettledBetween DEF DecodingInv, Inv, First, DecLibMembers
<1>4. p.type = "GDR"
  BY <1>1, <1>2, NothingMissing
<1>5. /\ p.cvs = enc.cvs /\ p.active = p.refs /\ p.refs \subseteq 1..(First - 1)
      /\ \A i \in DOMAIN picList : /\ picList[i].poc \in p.refs
                                   /\ picList[i].referenced /\ ~picList[i].needed
      /\ p.poc \notin p.refs
  BY <1>2, <1>4 DEF DecodingInv, PilotIsNext
<1>6. r \in p.refs /\ \A i \in DOMAIN picList : picList[i].poc # r
  BY <1>1, <1>4, <1>5 DEF Missing, MissingRefs
<1>7. /\ ~enc.start /\ enc.cvs \in Nat /\ enc.cvs > 0 /\ r \in Int /\ r < First
      /\ r > -MAX_INT
  <2>1. ~enc.start /\ enc.cvs # 0
    BY <1>2 DEF DecodingInv, Control, Between
  <2> QED
    BY <1>1, <1>3, <1>5, <1>6, <2>1, SequenceFacts, MaxIntType
<1>8. pic \in NewBuffer /\ ~pic.needed /\ pic.referenced /\ pic.poc = r /\ pic.cvs = enc.cvs
  BY <1>5, <1>7 DEF NewBuffer, Buffer
<1>9. picList' = WithPicture(picList, numPics + 1, sps.buffering[0], pic)
  BY <1>1
<1> HIDE DEF pic
<1> DEFINE m == numPics + 1
<1>10. Entered(picList', picList, m, pic)
  BY <1>3, <1>8, <1>9, NewPicture
<1>11. /\ m \in DOMAIN picList' /\ picList'[m] = pic /\ Waiting(picList') = Waiting(picList)
       /\ \A i \in DOMAIN picList' \ {m} : i \in DOMAIN picList /\ picList'[i] = picList[i]
       /\ \A i \in DOMAIN picList \ DOMAIN picList' : ~picList[i].referenced
       /\ m \notin DOMAIN picList
  BY <1>3, <1>8, <1>10 DEF Entered, IsList
<1> HIDE DEF m, p
<1>12. \A i \in DOMAIN picList : i \in DOMAIN picList' /\ picList'[i] = picList[i]
  BY <1>5, <1>11
<1>13. Inv'
  BY InsertUnavailablePictureStep DEF DecodingInv
<1>14. EncType' /\ CodedOnce' /\ Control'
  BY <1>2, <1>3
     DEF DecodingInv, EncType, CodedOnce, Control, Between, First, DiscardsOnRequestOnly, Pocs
<1>15. OnePicturePerPoc'
  <2>1. /\ \A i \in DOMAIN picList :
             /\ picList[i].cvs = enc.cvs /\ enc.cvs > 0 /\ picList[i].poc > -MAX_INT
             /\ picList[i].poc \in Pocs(enc.coded) \/ picList[i].poc < First
        /\ \A i, j \in DOMAIN picList : picList[i].poc = picList[j].poc => i = j
    BY <1>7 DEF DecodingInv, OnePicturePerPoc
  <2>2. First' = First
    BY <1>2 DEF First
  <2>3. \A i \in DOMAIN picList' :
          /\ picList'[i].cvs = enc.cvs /\ picList'[i].poc > -MAX_INT
          /\ picList'[i].poc \in Pocs(enc.coded) \/ picList'[i].poc < First
    BY <1>7, <1>8, <1>11, <2>1
  <2>4. \A i, j \in DOMAIN picList' : picList'[i].poc = picList'[j].poc => i = j
    BY <1>6, <1>8, <1>11, <2>1
  <2> QED
    BY <1>7, <2>2, <2>3, <2>4 DEF OnePicturePerPoc
<1>16. ReferencesKept'
  <2>1. ASSUME NEW x, HasReference(x)
        PROVE  HasReference(x)'
    BY <1>12, <2>1 DEF HasReference
  <2>2. \A q \in enc.srefs : q.poc >= First =>
          HasReference(q.poc) \/ q.poc = pilot.pic.poc
    BY <1>2 DEF DecodingInv, ReferencesKept, Live
  <2> QED
    BY <1>2, <2>1, <2>2 DEF ReferencesKept, First
<1>17. PilotIsNext'
  <2>1. /\ p.cvs = enc.cvs /\ p.poc >= First /\ p.poc \notin enc.future
        /\ \E q \in enc.coded : q.poc = p.poc /\ (pilot.output => q.output)
        /\ p.active \subseteq p.refs /\ p.poc \notin p.refs /\ IsFiniteSet(p.refs)
        /\ \A q \in enc.srefs : q.poc \in p.refs \cup {p.poc} \/ q.poc < First
        /\ \A i \in DOMAIN picList : picList[i].poc # p.poc
        /\ pilot.nobr
    BY <1>2, <1>4 DEF DecodingInv, PilotIsNext, p
  <2>2. \A i \in DOMAIN picList' : /\ picList'[i].poc \in p.refs
                                   /\ picList'[i].referenced /\ ~picList'[i].needed
    <3>1. pic.poc \in p.refs /\ pic.referenced /\ ~pic.needed
      BY <1>6, <1>8
    <3> QED
      BY <1>5, <1>11, <3>1
  <2>3. \A i \in DOMAIN picList' : picList'[i].poc # p.poc
    BY <1>5, <2>2
  <2>4. First' = First /\ pilot'.pic = p
    BY <1>2 DEF First, p
  <2> QED
    BY <1>2, <1>4, <1>5, <2>1, <2>2, <2>3, <2>4 DEF PilotIsNext
<1>18. CurrentIsCoded' /\ PredictsFromOwnSequence'
  BY <1>2, <1>3, <1>14 DEF CurrentIsCoded, PredictsFromOwnSequence, Control
<1>19. SomethingToOutput'
  BY <1>2, <1>11 DEF DecodingInv, SomethingToOutput, Live
<1>20. NeverAborts'
  BY <1>2 DEF NeverAborts
<1> QED
  BY <1>13, <1>14, <1>15, <1>16, <1>17, <1>18, <1>19, <1>20 DEF DecodingInv

\* Every entry of the lists has its picture once nothing has to be inserted.
LEMMA ReferencesThere ==
  ASSUME DecodingInv, pilot # None, Missing = {} \/ \E r \in Missing : r <= 0
  PROVE  Missing = {} /\ \A r \in pilot.pic.refs : HasReference(r)
<1>1. CASE pilot.pic.type # "GDR"
  BY <1>1, NothingMissing DEF DecodingInv, PilotIsNext
<1>2. CASE pilot.pic.type = "GDR"
  <2>1. pilot.pic.active = pilot.pic.refs /\ pilot.pic.refs \subseteq 1..(First - 1)
    BY <1>2 DEF DecodingInv, PilotIsNext
  <2>2. \A r \in pilot.pic.active : r \in Int /\ ~(r <= 0)
    BY <2>1, InvFacts DEF DecodingInv, First, DecLibMembers
  <2>3. Missing = {}
    BY <2>2 DEF Missing, MissingRefs
  <2> QED
    BY <1>2, <2>1, <2>3 DEF Missing, MissingRefs, HasReference
<1> QED
  BY <1>1, <1>2

\* The list in which picture m is to be decoded.
DecodableList(pl, m) ==
  LET p == pilot.pic
  IN /\ IsList(pl, m) /\ m \in DOMAIN pl
     /\ pl[m] = [poc |-> p.poc, referenced |-> TRUE, needed |-> FALSE,
                 reconstructed |-> FALSE, cvs |-> p.cvs]
     /\ m \notin DOMAIN picList
     /\ \A i \in DOMAIN pl \ {m} :
          /\ i \in DOMAIN picList
          /\ pl[i].poc = picList[i].poc /\ pl[i].cvs = picList[i].cvs
          /\ pl[i].needed = picList[i].needed
          /\ pl[i].referenced => pl[i].poc \in p.refs
     /\ \A r \in p.refs : \E i \in DOMAIN pl \ {m} :
          pl[i].poc = r /\ pl[i].referenced /\ pl[i].reconstructed
     /\ \A i, j \in DOMAIN pl : pl[i].poc = pl[j].poc => i = j
     /\ \A i \in DOMAIN pl : pl[i].cvs = enc.cvs
     /\ Waiting(pl) = Waiting(picList)

\* Marking and taking a buffer leave such a list.
LEMMA ActivatedPictures ==
  ASSUME DecodingInv, app.status = "running", pilot # None,
         Missing = {} \/ \E r \in Missing : r <= 0
  PROVE  DecodableList(Activated, numPics + 1)
<1> DEFINE p == pilot.pic
           m == numPics + 1
           list == IF p.type = "IDR" THEN picList ELSE Marked(picList, p.poc, p.refs)
           pic == [poc |-> p.poc, referenced |-> TRUE, needed |-> FALSE,
                   reconstructed |-> FALSE, cvs |-> p.cvs]
<1>1. curPic = None
  BY DEF DecodingInv, Inv, OneAtATime
<1>2. numPics \in Nat /\ IsList(picList, numPics) /\ Settled(picList, {})
  BY <1>1, InvFacts, SettledBetween DEF DecodingInv, Inv
<1>3. /\ p.poc \in Int /\ p.cvs \in Nat /\ p.cvs = enc.cvs /\ p.poc \notin p.refs
      /\ \A i \in DOMAIN picList : picList[i].poc # p.poc
      /\ p.type = "IDR" => p.refs = {} /\ DOMAIN picList = {}
  BY PilotType DEF DecodingInv, PilotIsNext
<1>4. \A r \in p.refs : HasReference(r)
  BY ReferencesThere
<1>5. /\ IsList(list, numPics) /\ DOMAIN list = DOMAIN picList
      /\ \A i \in DOMAIN picList :
           /\ list[i].poc = picList[i].poc /\ list[i].cvs = picList[i].cvs
           /\ list[i].referenced = (picList[i].referenced /\ picList[i].poc \in p.refs)
           /\ list[i].needed = picList[i].needed
           /\ list[i].reconstructed = picList[i].reconstructed
      /\ Waiting(list) = Waiting(picList)
  <2>1. CASE p.type = "IDR"
    BY <1>2, <1>3, <2>1
  <2>2. CASE p.type # "IDR"
    <3> DEFINE out == Marked(picList, p.poc, p.refs)
    <3>1. /\ IsList(out, numPics) /\ DOMAIN out = DOMAIN picList
          /\ \A i \in DOMAIN picList :
               /\ out[i].poc = picList[i].poc /\ out[i].cvs = picList[i].cvs
               /\ out[i].referenced =
                    (picList[i].referenced /\ picList[i].poc \in p.refs \cup {p.poc})
               /\ out[i].needed = picList[i].needed
               /\ out[i].reconstructed = picList[i].reconstructed
          /\ Waiting(out) = Waiting(picList)
      BY <1>2, MarkedKeeps
    <3>2. list = out
      BY <2>2
    <3> HIDE DEF out, list, p
    <3> QED
      BY <1>3, <3>1, <3>2
  <2> QED
    BY <2>1, <2>2
<1>6. pic \in NewBuffer
  BY <1>3 DEF NewBuffer, Buffer
<1>7. Activated = WithPicture(list, m, sps.buffering[p.tid], pic)
  BY DEF Activated
<1>8. ~pic.needed /\ pic.poc = p.poc /\ pic.cvs = p.cvs
  OBVIOUS
<1> HIDE DEF list
<1>9. Settled(list, {})
  BY <1>2, <1>5 DEF Settled
<1>10. Entered(Activated, list, m, pic)
  <2> HIDE DEF pic, p
  <2> QED
    BY <1>2, <1>5, <1>6, <1>7, <1>9, NewPicture
<1>11. /\ IsList(Activated, m) /\ m \in DOMAIN Activated /\ Activated[m] = pic
       /\ Waiting(Activated) = Waiting(picList)
       /\ \A i \in DOMAIN Activated \ {m} : i \in DOMAIN picList /\ Activated[i] = list[i]
       /\ \A i \in DOMAIN picList \ DOMAIN Activated : ~list[i].referenced
  <2> HIDE DEF pic, m, p
  <2> QED
    BY <1>5, <1>8, <1>10 DEF Entered
<1>12. m \notin DOMAIN picList
  BY <1>2 DEF IsList
<1> HIDE DEF p, m
<1>13. \A i \in DOMAIN Activated \ {m} :
         /\ i \in DOMAIN picList
         /\ Activated[i].poc = picList[i].poc /\ Activated[i].cvs = picList[i].cvs
         /\ Activated[i].needed = picList[i].needed
         /\ Activated[i].referenced => Activated[i].poc \in p.refs
  BY <1>5, <1>11
<1>14. \A r \in p.refs : \E i \in DOMAIN Activated \ {m} :
         Activated[i].poc = r /\ Activated[i].referenced /\ Activated[i].reconstructed
  <2>1. ASSUME NEW r \in p.refs
        PROVE  \E i \in DOMAIN Activated \ {m} :
                 Activated[i].poc = r /\ Activated[i].referenced /\ Activated[i].reconstructed
    <3>1. PICK i \in DOMAIN picList : picList[i].poc = r /\ picList[i].referenced
      BY <1>4 DEF HasReference
    <3>2. list[i].poc = r /\ list[i].referenced /\ list[i].reconstructed
      BY <1>2, <1>5, <3>1 DEF Settled
    <3>3. i \in DOMAIN Activated \ {m}
      BY <1>11, <1>12, <3>2
    <3> QED
      BY <1>11, <3>2, <3>3
  <2> QED
    BY <2>1
<1>15. \A i, j \in DOMAIN Activated : Activated[i].poc = Activated[j].poc => i = j
  <2>1. \A i, j \in DOMAIN picList : picList[i].poc = picList[j].poc => i = j
    BY DEF DecodingInv, OnePicturePerPoc
  <2> HIDE DEF pic
  <2> QED
    BY <1>3, <1>8, <1>11, <1>13, <2>1
<1>16. \A i \in DOMAIN Activated : Activated[i].cvs = enc.cvs
  <2>1. \A i \in DOMAIN picList : picList[i].cvs = enc.cvs
    BY DEF DecodingInv, OnePicturePerPoc
  <2> HIDE DEF pic
  <2> QED
    BY <1>3, <1>8, <1>11, <1>13, <2>1
<1> QED
  BY <1>11, <1>12, <1>13, <1>14, <1>15, <1>16 DEF DecodableList, p, m

\* Cancelling the output of pictures in a recovery is what the stream asks for.
LEMMA CancelledOnRequest ==
  ASSUME DecodingInv, NEW pl,
         Waiting(pl) \cap DOMAIN discarded = {}, NEW gdr \in BOOLEAN,
         discarded' = IF gdr THEN Cancelled(pl, DOMAIN pl, "recovery") ELSE discarded
  PROVE  /\ DiscardsOnRequestOnly'
         /\ \A i \in DOMAIN discarded : i \in DOMAIN discarded' /\ discarded'[i] = discarded[i]
         /\ gdr => \A i \in Waiting(pl) : i \in DOMAIN discarded' /\ discarded'[i] = "recovery"
<1>1. DiscardsOnRequestOnly
  BY DEF DecodingInv, Control
<1>2. CASE gdr
  <2>1. /\ DOMAIN discarded' = DOMAIN discarded \cup Waiting(pl)
        /\ \A i \in DOMAIN discarded' :
             discarded'[i] = IF i \in DOMAIN discarded THEN discarded[i] ELSE "recovery"
    BY <1>2 DEF Cancelled, Waiting
  <2> QED
    BY <1>1, <2>1 DEF DiscardsOnRequestOnly
<1>3. CASE ~gdr
  BY <1>1, <1>3 DEF DiscardsOnRequestOnly
<1> QED
  BY <1>2, <1>3

\* What the start of decoding does to the rest of the state.
LEMMA ActivateEffect ==
  ASSUME DecodingInv, NEW last \in BOOLEAN, ActivatePicture(last), enc' = enc
  PROVE  /\ app.status = "running" /\ pilot # None /\ curPic = None /\ numPics \in Nat
         /\ numPics' = numPics + 1 /\ pilot' = None /\ due' = due /\ sps' = sps /\ First' = First
         /\ dec'.firstSliceInSequence = FALSE
         /\ curPic' # None /\ curPic'.id = numPics + 1 /\ curPic'.type = pilot.pic.type
         /\ curPic'.output = pilot.output
         /\ DecodableList(Activated, numPics + 1)
         /\ \A r \in DOMAIN refPicList' : r \in pilot.pic.refs /\ refPicList'[r] \in RefPicsFor(r)
         /\ Lowered(picList', Activated)
         /\ app'.newCLVS = app.newCLVS /\ app'.status \in {"running", "lastPicture"}
         /\ DiscardsOnRequestOnly' /\ SomethingToOutput'
<1> DEFINE p == pilot.pic
           a == [app EXCEPT
                   !.gdrRecoveryPeriod = @ \/ (app.prevPicSkipped /\ p.type = "GDR"),
                   !.prevPicSkipped = @ /\ p.type = "RASL"]
<1>1. /\ app.status = "running" /\ pilot # None
      /\ Missing = {} \/ \E r \in Missing : r <= 0
      /\ numPics' = numPics + 1 /\ pilot' = None /\ due' = due /\ sps' = sps
      /\ curPic' = [id |-> numPics + 1, type |-> p.type, output |-> pilot.output]
      /\ dec' = [dec EXCEPT !.firstSliceInSequence = FALSE]
      /\ \A r \in p.active : RefPicsFor(r) # {}
      /\ refPicList' \in RefPicLists(p.active)
      /\ IF last
         THEN /\ picList' = Activated
              /\ app' = [a EXCEPT !.status = "lastPicture"]
              /\ UNCHANGED <<shown, discarded>>
         ELSE EndOfIteration(Activated, a)
  BY DEF ActivatePicture
<1>2. /\ curPic = None /\ numPics \in Nat /\ app \in DecAppVariables /\ dec \in DecLibMembers
      /\ Waiting(picList) \cap DOMAIN discarded = {}
  BY <1>1, InvFacts DEF DecodingInv, Inv, OneAtATime, Fates
<1>3. DecodableList(Activated, numPics + 1)
  BY <1>1, ActivatedPictures
<1>4. IsList(Activated, numPics + 1) /\ Waiting(Activated) = Waiting(picList)
  BY <1>3 DEF DecodableList
<1>5. First' = First /\ dec'.firstSliceInSequence = FALSE
  BY <1>1, <1>2 DEF First, DecLibMembers
<1>6. /\ a \in DecAppVariables /\ a.status = "running" /\ a.newCLVS = app.newCLVS
      /\ a.outputPicturePresent = app.outputPicturePresent
  BY <1>1, <1>2 DEF DecAppVariables
<1>7. curPic' # None
  <2>1. Inv'
    BY ActivatePictureStep DEF DecodingInv
  <2>2. curPic' \in CurrentPicture
    BY <1>1, <1>2, PilotType DEF CurrentPicture, DecodingInv
  <2> QED
    BY <2>2, NoneAssumption
<1>8. \A r \in DOMAIN refPicList' : r \in p.refs /\ refPicList'[r] \in RefPicsFor(r)
  <2>1. p.active \subseteq p.refs
    BY <1>1 DEF DecodingInv, PilotIsNext
  <2> QED
    BY <1>1, <2>1, RefPicListsResolve
<1>9. /\ Lowered(picList', Activated)
      /\ app'.newCLVS = app.newCLVS /\ app'.status \in {"running", "lastPicture"}
      /\ DiscardsOnRequestOnly' /\ SomethingToOutput'
  <2>1. /\ \A i \in due : \/ i \in DOMAIN discarded /\ discarded[i] = "recovery"
                          \/ app.outputPicturePresent \/ i \in Waiting(picList)
        /\ due # {} => enc.cvs > 0
    BY <1>1 DEF DecodingInv, SomethingToOutput, Live
  <2>2. CASE last
    <3>1. /\ picList' = Activated /\ discarded' = discarded
          /\ app' = [a EXCEPT !.status = "lastPicture"]
      BY <1>1, <2>2
    <3>2. /\ app'.newCLVS = app.newCLVS /\ app'.status = "lastPicture"
          /\ app'.outputPicturePresent = app.outputPicturePresent
      BY <1>2, <3>1 DEF DecAppVariables
    <3>3. DiscardsOnRequestOnly'
      BY <3>1 DEF DecodingInv, Control, DiscardsOnRequestOnly
    <3>4. SomethingToOutput'
      BY <1>1, <1>4, <2>1, <3>1, <3>2 DEF SomethingToOutput
    <3> QED
      BY <3>1, <3>2, <3>3, <3>4 DEF Lowered
  <2>3. CASE ~last
    <3> HIDE DEF a
    <3>1. /\ WriteOutput(Suppress(Activated, a), a)
          /\ discarded' = IF a.gdrRecoveryPeriod
                          THEN Cancelled(Activated, DOMAIN Activated, "recovery") ELSE discarded
      BY <1>1, <2>3 DEF EndOfIteration
    <3>2. numPics + 1 \in Nat /\ a.gdrRecoveryPeriod \in BOOLEAN
      BY <1>2, <1>6 DEF DecAppVariables
    <3>3. /\ Lowered(picList', Activated) /\ SameFlags(app', a)
          /\ Waiting(picList') # {} => app'.outputPicturePresent
          /\ \A i \in Waiting(Activated) :
               \/ i \in Waiting(picList') \/ a.gdrRecoveryPeriod \/ app'.outputPicturePresent
      BY <1>4, <1>6, <3>1, <3>2, OutputEffect
    <3>4. /\ DiscardsOnRequestOnly'
          /\ \A i \in DOMAIN discarded : i \in DOMAIN discarded' /\ discarded'[i] = discarded[i]
          /\ a.gdrRecoveryPeriod =>
               \A i \in Waiting(Activated) : i \in DOMAIN discarded' /\ discarded'[i] = "recovery"
      BY <1>2, <1>4, <3>1, <3>2, CancelledOnRequest
    <3>5. SomethingToOutput'
      <4>1. app.outputPicturePresent => app'.outputPicturePresent
        BY <1>6, <3>3 DEF SameFlags
      <4>2. \A i \in due' : \/ i \in DOMAIN discarded' /\ discarded'[i] = "recovery"
                            \/ app'.outputPicturePresent \/ i \in Waiting(picList')
        BY <1>1, <1>4, <2>1, <3>3, <3>4, <4>1
      <4> QED
        BY <1>1, <2>1, <3>3, <4>2 DEF SomethingToOutput
    <3>6. app'.newCLVS = app.newCLVS /\ app'.status = "running"
      BY <1>6, <3>3 DEF SameFlags
    <3> QED
      BY <3>3, <3>4, <3>5, <3>6
  <2> QED
    BY <2>2, <2>3
<1>10. /\ curPic'.id = numPics + 1 /\ curPic'.type = p.type /\ curPic'.output = pilot.output
  BY <1>1
<1> QED
  BY <1>1, <1>2, <1>3, <1>5, <1>7, <1>8, <1>9, <1>10

\* The picture is decoded: its slice predicts from what its lists name.
LEMMA ActivatedPictureStep ==
  ASSUME DecodingInv, NEW last \in BOOLEAN, ActivatePicture(last), enc' = enc
  PROVE  DecodingInv'
<1> DEFINE p == pilot.pic
           m == numPics + 1
<1>1. /\ app.status = "running" /\ pilot # None /\ curPic = None /\ numPics \in Nat
      /\ numPics' = m /\ pilot' = None /\ due' = due /\ sps' = sps /\ First' = First
      /\ curPic' # None /\ curPic'.id = m /\ curPic'.type = p.type
      /\ curPic'.output = pilot.output
      /\ DecodableList(Activated, m)
      /\ \A r \in DOMAIN refPicList' : r \in p.refs /\ refPicList'[r] \in RefPicsFor(r)
      /\ Lowered(picList', Activated)
      /\ app'.newCLVS = app.newCLVS /\ app'.status \in {"running", "lastPicture"}
      /\ DiscardsOnRequestOnly' /\ SomethingToOutput'
  BY ActivateEffect
<1> DEFINE pic == [poc |-> p.poc, referenced |-> TRUE, needed |-> FALSE,
                   reconstructed |-> FALSE, cvs |-> p.cvs]
<1>2. /\ m \in DOMAIN Activated /\ Activated[m] = pic /\ m \notin DOMAIN picList
      /\ \A i \in DOMAIN Activated \ {m} :
           /\ i \in DOMAIN picList
           /\ Activated[i].poc = picList[i].poc /\ Activated[i].cvs = picList[i].cvs
           /\ Activated[i].referenced => Activated[i].poc \in p.refs
      /\ \A r \in p.refs : \E i \in DOMAIN Activated \ {m} :
           Activated[i].poc = r /\ Activated[i].referenced /\ Activated[i].reconstructed
      /\ \A i, j \in DOMAIN Activated : Activated[i].poc = Activated[j].poc => i = j
      /\ \A i \in DOMAIN Activated : Activated[i].cvs = enc.cvs
  BY <1>1 DEF DecodableList
<1>3. pic.poc = p.poc /\ pic.referenced /\ pic.cvs = p.cvs
  OBVIOUS
<1>4. /\ p.cvs = enc.cvs /\ p.poc >= First /\ p.poc \notin enc.future
      /\ \E q \in enc.coded : q.poc = p.poc /\ (pilot.output => q.output)
      /\ \A q \in enc.srefs : q.poc \in p.refs \cup {p.poc} \/ q.poc < First
  BY <1>1 DEF DecodingInv, PilotIsNext
<1>5. ~enc.start /\ enc.cvs > 0 /\ First \in Int /\ p.poc \in Int
  <2>1. ~enc.start /\ enc.cvs # 0
    BY <1>1 DEF DecodingInv, Control, Between
  <2> QED
    BY <1>1, <2>1, SequenceFacts, PilotType DEF DecodingInv
<1> HIDE DEF pic, m, p
<1>6. /\ DOMAIN picList' = DOMAIN Activated
      /\ \A i \in DOMAIN Activated :
           /\ picList'[i].poc = Activated[i].poc /\ picList'[i].cvs = Activated[i].cvs
           /\ picList'[i].referenced = Activated[i].referenced
           /\ Activated[i].reconstructed /\ Activated[i].referenced => picList'[i].reconstructed
  BY <1>1 DEF Lowered
<1>7. Inv'
  BY ActivatePictureStep DEF DecodingInv
<1>8. EncType' /\ CodedOnce'
  BY <1>1 DEF DecodingInv, EncType, CodedOnce, Pocs
<1>9. Control'
  <2>1. p.type = "RASL" => ~app.newCLVS
    BY <1>1 DEF DecodingInv, Control, p
  <2>2. First # MAX_INT
    BY <1>5 DEF DecodingInv, Control
  <2>3. enc.cvs # 0
    BY <1>5, SequenceFacts
  <2> QED
    BY <1>1, <1>5, <2>1, <2>2, <2>3 DEF Control, Between
<1>10. OnePicturePerPoc'
  <2>1. /\ \A i \in DOMAIN picList :
             /\ picList[i].poc > -MAX_INT
             /\ picList[i].poc \in Pocs(enc.coded) \/ picList[i].poc < First
    BY <1>5 DEF DecodingInv, OnePicturePerPoc
  <2>2. p.poc \in Pocs(enc.coded)
    BY <1>4 DEF Pocs
  <2>3. p.poc > -MAX_INT
    <3>1. p.poc >= -MaxLeading /\ MaxLeading \in Nat
      BY <1>4, <1>5, SequenceFacts
    <3> QED
      BY <1>5, <3>1, StreamAssumption, MaxIntType
  <2>4. \A i \in DOMAIN Activated :
          /\ Activated[i].poc > -MAX_INT
          /\ Activated[i].poc \in Pocs(enc.coded) \/ Activated[i].poc < First
    BY <1>2, <1>3, <2>1, <2>2, <2>3
  <2> QED
    BY <1>1, <1>2, <1>5, <1>6, <2>4 DEF OnePicturePerPoc
<1>11. ReferencesKept'
  <2>1. \A r \in p.refs \cup {p.poc} : HasReference(r)'
    BY <1>2, <1>3, <1>6 DEF HasReference
  <2>2. \A q \in enc.srefs : q.poc >= First => q.poc \in p.refs \cup {p.poc}
    <3>1. \A q \in enc.srefs : q.poc \in Int
      BY EncFacts DEF DecodingInv
    <3> QED
      BY <1>4, <1>5, <3>1
  <2> QED
    BY <1>1, <2>1, <2>2 DEF ReferencesKept
<1>12. PilotIsNext'
  BY <1>1 DEF PilotIsNext
<1>13. CurrentIsCoded'
  BY <1>1, <1>2, <1>3, <1>4, <1>6 DEF CurrentIsCoded, m
<1>14. PredictsFromOwnSequence'
  <2>1. ASSUME NEW r \in DOMAIN refPicList'
        PROVE  LET ref == picList'[refPicList'[r]]
               IN ref.referenced /\ ref.reconstructed /\ ref.cvs = enc.cvs
    <3>1. r \in p.refs /\ refPicList'[r] \in DOMAIN Activated /\ Activated[refPicList'[r]].poc = r
      BY <1>1 DEF RefPicsFor, RefPics
    <3>2. PICK i \in DOMAIN Activated :
            Activated[i].poc = r /\ Activated[i].referenced /\ Activated[i].reconstructed
      BY <1>2, <3>1
    <3>3. refPicList'[r] = i
      BY <1>2, <3>1, <3>2
    <3> QED
      BY <1>2, <1>6, <3>2, <3>3
  <2>2. picList'[curPic'.id].cvs = enc.cvs
    BY <1>1, <1>2, <1>6 DEF m
  <2> QED
    BY <2>1, <2>2 DEF PredictsFromOwnSequence
<1>15. NeverAborts'
  BY <1>1 DEF NeverAborts
<1> QED
  BY <1>1, <1>7, <1>8, <1>9, <1>10, <1>11, <1>12, <1>13, <1>14, <1>15 DEF DecodingInv

-----------------------------------------------------------------------------
(* The steps that finish a picture.                                         *)

\* What finishPicture changes in the list: a RASL picture is never taken for
\* one of a new sequence.
LEMMA FinishedPicture ==
  ASSUME Inv, curPic # None, NEW c \in BOOLEAN, c => curPic.type # "RASL"
  PROVE  /\ SamePictures(Finished(c), picList) /\ curPic.id \in DOMAIN picList
         /\ Finished(c)[curPic.id].needed = curPic.output
         /\ Finished(c)[curPic.id].reconstructed
         /\ \A i \in DOMAIN picList \ {curPic.id} : Finished(c)[i] = picList[i]
         /\ Waiting(Finished(c)) = Waiting(picList) \cup (IF curPic.output THEN {curPic.id} ELSE {})
<1> DEFINE list == Finished(c)
<1>1. /\ curPic.id \in DOMAIN picList /\ ~picList[curPic.id].needed
      /\ picList[curPic.id] \in Buffer /\ IsList(picList, numPics)
      /\ curPic.output \in BOOLEAN
  BY InvFacts DEF Inv, DecodesIntoOwnBuffer, TypeOK, CurrentPicture
<1>2. OutputCurrent(c) = curPic.output
  BY <1>1 DEF OutputCurrent
<1>3. /\ DOMAIN list = DOMAIN picList
      /\ list[curPic.id] = [picList[curPic.id] EXCEPT !.needed = curPic.output,
                                                      !.reconstructed = TRUE]
      /\ \A i \in DOMAIN picList \ {curPic.id} : list[i] = picList[i]
  BY <1>1, <1>2 DEF Finished, IsList
<1> HIDE DEF list
<1>4. /\ list[curPic.id].needed = curPic.output /\ list[curPic.id].reconstructed
      /\ list[curPic.id].poc = picList[curPic.id].poc
      /\ list[curPic.id].cvs = picList[curPic.id].cvs
      /\ list[curPic.id].referenced = picList[curPic.id].referenced
  BY <1>1, <1>3 DEF Buffer
<1>5. SamePictures(list, picList)
  BY <1>3, <1>4 DEF SamePictures
<1>6. Waiting(list) = Waiting(picList) \cup (IF curPic.output THEN {curPic.id} ELSE {})
  BY <1>1, <1>3, <1>4 DEF Waiting
<1> QED
  BY <1>1, <1>3, <1>4, <1>5, <1>6 DEF list

\* What every way of finishing the current picture does.
LEMMA CloseEffect ==
  ASSUME DecodingInv, curPic # None, Live, NEW c \in BOOLEAN, c => curPic.type # "RASL",
         NEW a \in DecAppVariables, app.outputPicturePresent => a.outputPicturePresent,
         \/ WriteOutput(Suppress(Finished(c), a), a)
         \/ picList' = Suppress(Finished(c), a) /\ app' = a /\ a.status # "running",
         NEW reason, Accounted(Finished(c), a, reason), NEW d, CloseCurrent(d),
         enc'.cvs = enc.cvs
  PROVE  /\ SamePictures(picList', picList) /\ SameFlags(app', a)
         /\ curPic' = None /\ pilot' = pilot /\ pilot = None /\ DOMAIN refPicList' = {}
         /\ numPics' = numPics /\ sps' = sps
         /\ dec' = [d EXCEPT !.prevGdr = @ \/ curPic.type = "GDR"]
         /\ DiscardsOnRequestOnly' /\ SomethingToOutput'
<1> DEFINE list == Finished(c)
           cur == IF curPic.output THEN {curPic.id} ELSE {}
<1>1. /\ SamePictures(list, picList) /\ list[curPic.id].needed = curPic.output
      /\ Waiting(list) = Waiting(picList) \cup cur
  BY FinishedPicture DEF DecodingInv
<1>2. /\ numPics \in Nat /\ IsList(list, numPics)
      /\ Waiting(picList) \cap DOMAIN discarded = {}
      /\ curPic.id \notin DOMAIN discarded
  BY InvFacts, FinishedList DEF DecodingInv, Inv, OneAtATime, Fates
<1>3. /\ curPic' = None /\ pilot' = pilot /\ pilot = None /\ DOMAIN refPicList' = {}
      /\ numPics' = numPics /\ sps' = sps
      /\ dec' = [d EXCEPT !.prevGdr = @ \/ curPic.type = "GDR"]
  BY DEF CloseCurrent, DecodingInv, Inv, OneAtATime
<1>4. /\ due' = due \cup cur
      /\ discarded' = [i \in DOMAIN discarded
                              \cup (IF curPic.output /\ ~list[curPic.id].needed
                                    THEN {curPic.id} ELSE {})
                              \cup (IF a.gdrRecoveryPeriod THEN Waiting(list) ELSE {}) |->
                         IF i \in DOMAIN discarded THEN discarded[i]
                         ELSE IF i \in (IF curPic.output /\ ~list[curPic.id].needed
                                        THEN {curPic.id} ELSE {}) THEN reason ELSE "recovery"]
  BY DEF Accounted
<1> HIDE DEF list
<1>5. /\ Lowered(picList', list) /\ SameFlags(app', a)
      /\ Waiting(picList') \subseteq Waiting(list)
      /\ a.status = "running" /\ Waiting(picList') # {} => app'.outputPicturePresent
      /\ \A i \in Waiting(list) : \/ i \in Waiting(picList') \/ a.gdrRecoveryPeriod
                                  \/ app'.outputPicturePresent
  BY <1>2, OutputEffect DEF list
<1>6. SamePictures(picList', picList)
  BY <1>1, <1>5, LoweredSame DEF SamePictures
<1>7. /\ DOMAIN discarded' = DOMAIN discarded
                             \cup (IF a.gdrRecoveryPeriod THEN Waiting(list) ELSE {})
      /\ \A i \in DOMAIN discarded' :
           discarded'[i] = IF i \in DOMAIN discarded THEN discarded[i] ELSE "recovery"
  BY <1>1, <1>4
<1>8. DiscardsOnRequestOnly'
  BY <1>7 DEF DecodingInv, Control, DiscardsOnRequestOnly
<1>9. SomethingToOutput'
  <2>1. \A i \in due : \/ i \in DOMAIN discarded /\ discarded[i] = "recovery"
                       \/ app.outputPicturePresent \/ i \in Waiting(picList)
    BY DEF DecodingInv, SomethingToOutput
  <2>2. \A i \in due' : \/ i \in DOMAIN discarded /\ discarded[i] = "recovery"
                        \/ app.outputPicturePresent \/ i \in Waiting(list)
    BY <1>1, <1>4, <2>1
  <2>3. app.outputPicturePresent => app'.outputPicturePresent
    BY <1>5 DEF SameFlags
  <2>4. \A i \in Waiting(list) : i \notin DOMAIN discarded
    BY <1>1, <1>2
  <2>5. \A i \in due' : \/ i \in DOMAIN discarded' /\ discarded'[i] = "recovery"
                        \/ app'.outputPicturePresent \/ i \in Waiting(picList')
    BY <1>5, <1>7, <2>2, <2>3, <2>4
  <2>6. enc'.cvs > 0
    <3>1. ~enc.start /\ enc.cvs # 0
      BY DEF DecodingInv, Control, Between
    <3> QED
      BY <3>1, SequenceFacts
  <2>7. app'.status = "running" /\ Waiting(picList') # {} => app'.outputPicturePresent
    BY <1>5 DEF SameFlags
  <2> QED
    BY <2>5, <2>6, <2>7 DEF SomethingToOutput
<1> QED
  BY <1>3, <1>5, <1>6, <1>8, <1>9

\* The invariant after such a step, when the encoder goes on or has just
\* forgotten the sequence.
LEMMA ClosedStep ==
  ASSUME DecodingInv, curPic # None, Live, Inv', EncType', CodedOnce',
         SamePictures(picList', picList), curPic' = None, pilot' = None,
         DOMAIN refPicList' = {}, DiscardsOnRequestOnly', SomethingToOutput',
         enc'.cvs = enc.cvs, app'.picListSet, app'.status \in {"running", "lastPicture"},
         app'.status = "running" => (app'.eosInLastPu <=> enc'.start),
         \/ enc' = enc /\ First' = First
         \/ enc'.start /\ First' = MAX_INT /\ enc'.srefs = {}
  PROVE  DecodingInv'
<1>1. ~enc.start /\ enc.cvs > 0 /\ enc.cvs # 0 /\ First # MAX_INT /\ pilot = None
  <2>1. ~enc.start /\ enc.cvs # 0 /\ pilot = None
    BY DEF DecodingInv, Control, Between, Inv, OneAtATime
  <2> QED
    BY <2>1, SequenceFacts
<1>2. Control'
  BY <1>1 DEF Control, Between
<1>3. OnePicturePerPoc' /\ ReferencesKept'
  <2>1. OnePicturePerPoc /\ ReferencesKept
    BY DEF DecodingInv
  <2> QED
    BY <1>1, <2>1, ListStays
<1>4. PilotIsNext' /\ CurrentIsCoded' /\ PredictsFromOwnSequence' /\ NeverAborts'
  BY DEF PilotIsNext, CurrentIsCoded, PredictsFromOwnSequence, NeverAborts
<1> QED
  BY <1>2, <1>3, <1>4 DEF DecodingInv

\* The flags after finishPicture.
LEMMA AfterFinishFlags ==
  ASSUME NEW a \in DecAppVariables, NEW recoveryPoc
  PROVE  LET b == AfterFinish(a, recoveryPoc)
         IN /\ b \in DecAppVariables /\ b.status = a.status /\ b.picListSet
            /\ b.eosInLastPu = a.eosInLastPu /\ b.outputPicturePresent = a.outputPicturePresent
            /\ b.newCLVS = a.newCLVS /\ b.pocLastDisplay = a.pocLastDisplay
<1> DEFINE period == a.gdrRecoveryPeriod /\ picList[curPic.id].poc < recoveryPoc
           b == [a EXCEPT !.picListSet = TRUE, !.gdrRecoveryPeriod = period]
<1>1. AfterFinish(a, recoveryPoc) = b
  BY DEF AfterFinish
<1>2. period \in BOOLEAN
  OBVIOUS
<1> HIDE DEF period
<1>3. /\ b \in DecAppVariables /\ b.status = a.status /\ b.picListSet
      /\ b.eosInLastPu = a.eosInLastPu /\ b.outputPicturePresent = a.outputPicturePresent
      /\ b.newCLVS = a.newCLVS /\ b.pocLastDisplay = a.pocLastDisplay
  BY <1>2 DEF DecAppVariables
<1> QED
  BY <1>1, <1>3

\* Finishing a picture when the next one follows.
LEMMA FinishedPictureStep ==
  ASSUME DecodingInv, FinishPicture, enc' = enc
  PROVE  DecodingInv'
<1> DEFINE b == [app EXCEPT !.loopFiltered = FALSE, !.eosInLastPu = FALSE]
           a == AfterFinish(b, dec.prevGdrRecoveryPoc)
<1>1. /\ app.status = "running" /\ curPic # None
      /\ WriteOutput(Suppress(Finished(app.newCLVS), a), a)
      /\ Accounted(Finished(app.newCLVS), a, "newCLVS") /\ CloseCurrent(dec)
  BY DEF FinishPicture
<1>2. app \in DecAppVariables /\ dec \in DecLibMembers /\ app.newCLVS \in BOOLEAN
  BY InvFacts DEF DecodingInv, DecAppVariables
<1>3. /\ b \in DecAppVariables /\ b.status = "running" /\ ~b.eosInLastPu
      /\ b.outputPicturePresent = app.outputPicturePresent
  BY <1>1, <1>2 DEF DecAppVariables
<1> HIDE DEF b
<1>4. /\ a \in DecAppVariables /\ a.status = "running" /\ a.picListSet /\ ~a.eosInLastPu
      /\ a.outputPicturePresent = app.outputPicturePresent
  BY <1>3, AfterFinishFlags
<1> HIDE DEF a
<1>5. Live /\ (app.newCLVS => curPic.type # "RASL")
  BY <1>1 DEF Live, DecodingInv, Control
<1>6. /\ SamePictures(picList', picList) /\ SameFlags(app', a)
      /\ curPic' = None /\ pilot' = pilot /\ pilot = None /\ DOMAIN refPicList' = {}
      /\ dec' = [dec EXCEPT !.prevGdr = @ \/ curPic.type = "GDR"]
      /\ DiscardsOnRequestOnly' /\ SomethingToOutput'
  BY <1>1, <1>2, <1>4, <1>5, CloseEffect
<1>7. First' = First /\ app'.picListSet /\ app'.status = "running" /\ ~app'.eosInLastPu
  BY <1>2, <1>4, <1>6 DEF First, DecLibMembers, SameFlags
<1>8. EncType' /\ CodedOnce' /\ ~enc'.start
  BY <1>1, <1>7 DEF DecodingInv, EncType, CodedOnce, Pocs, Control, Between
<1>9. Inv'
  BY FinishPictureStep DEF DecodingInv
<1> QED
  BY <1>1, <1>5, <1>6, <1>7, <1>8, <1>9, ClosedStep

\* Finishing the last picture of the file.
LEMMA FinishedLastPictureStep ==
  ASSUME DecodingInv, FinishLastPicture, ~app.loopFiltered, enc' = enc
  PROVE  DecodingInv'
<1> DEFINE b == [app EXCEPT !.loopFiltered = FALSE, !.status = "lastPicture"]
           a == AfterFinish(b, dec.prevGdrRecoveryPoc)
<1>1. /\ Live /\ curPic # None
      /\ \/ WriteOutput(Suppress(Finished(app.newCLVS), a), a)
         \/ picList' = Suppress(Finished(app.newCLVS), a) /\ app' = a
      /\ Accounted(Finished(app.newCLVS), a, "newCLVS") /\ CloseCurrent(dec)
  BY DEF FinishLastPicture, Live
<1>2. app \in DecAppVariables /\ dec \in DecLibMembers /\ app.newCLVS \in BOOLEAN
  BY InvFacts DEF DecodingInv, DecAppVariables
<1>3. /\ b \in DecAppVariables /\ b.status = "lastPicture"
      /\ b.outputPicturePresent = app.outputPicturePresent
  BY <1>2 DEF DecAppVariables
<1> HIDE DEF b
<1>4. /\ a \in DecAppVariables /\ a.status = "lastPicture" /\ a.picListSet
      /\ a.outputPicturePresent = app.outputPicturePresent
  BY <1>3, AfterFinishFlags
<1> HIDE DEF a
<1>5. app.newCLVS => curPic.type # "RASL"
  BY <1>1 DEF DecodingInv, Control
<1>6. /\ SamePictures(picList', picList) /\ SameFlags(app', a)
      /\ curPic' = None /\ pilot' = pilot /\ pilot = None /\ DOMAIN refPicList' = {}
      /\ dec' = [dec EXCEPT !.prevGdr = @ \/ curPic.type = "GDR"]
      /\ DiscardsOnRequestOnly' /\ SomethingToOutput'
  BY <1>1, <1>2, <1>4, <1>5, CloseEffect
<1>7. First' = First /\ app'.picListSet /\ app'.status = "lastPicture"
  BY <1>2, <1>4, <1>6 DEF First, DecLibMembers, SameFlags
<1>8. EncType' /\ CodedOnce'
  BY <1>7 DEF DecodingInv, EncType, CodedOnce, Pocs
<1>9. Inv'
  BY FinishLastPictureStep DEF DecodingInv
<1> QED
  BY <1>1, <1>6, <1>7, <1>8, <1>9, ClosedStep

\* An EOS after a picture that is not a RASL picture.
LEMMA EosAfterPictureStep ==
  ASSUME DecodingInv, Forgotten, EndOfSequenceAfterPicture, curPic.type # "RASL"
  PROVE  DecodingInv'
<1> DEFINE b == [app EXCEPT !.newCLVS = TRUE, !.eosInLastPu = TRUE, !.loopFiltered = TRUE]
           a == AfterFinish(b, -MAX_INT)
           d == [ResetByEos(dec) EXCEPT !.firstSliceInSequence = TRUE]
<1>1. /\ app.status = "running" /\ curPic # None
      /\ WriteOutput(Suppress(Finished(TRUE), a), a)
      /\ Accounted(Finished(TRUE), a, "newCLVS") /\ CloseCurrent(d)
  BY DEF EndOfSequenceAfterPicture
<1>2. app \in DecAppVariables /\ dec \in DecLibMembers
  BY InvFacts DEF DecodingInv
<1>3. /\ b \in DecAppVariables /\ b.status = "running" /\ b.eosInLastPu
      /\ b.outputPicturePresent = app.outputPicturePresent
  BY <1>1, <1>2 DEF DecAppVariables
<1> HIDE DEF b
<1>4. /\ a \in DecAppVariables /\ a.status = "running" /\ a.picListSet /\ a.eosInLastPu
      /\ a.outputPicturePresent = app.outputPicturePresent
  BY <1>3, AfterFinishFlags
<1>5. d.pocRandomAccess = MAX_INT /\ d \in DecLibMembers
  BY <1>2, ResetByEosType DEF ResetByEos, DecLibMembers
<1>6. /\ EncType' /\ enc'.start /\ enc'.cvs = enc.cvs /\ enc'.srefs = {} /\ CodedOnce'
  BY ForgottenFacts
<1> HIDE DEF a, d
<1>7. Live
  BY <1>1 DEF Live
<1>8. /\ SamePictures(picList', picList) /\ SameFlags(app', a)
      /\ curPic' = None /\ pilot' = pilot /\ pilot = None /\ DOMAIN refPicList' = {}
      /\ dec' = [d EXCEPT !.prevGdr = @ \/ curPic.type = "GDR"]
      /\ DiscardsOnRequestOnly' /\ SomethingToOutput'
  BY <1>1, <1>4, <1>6, <1>7, CloseEffect
<1>9. First' = MAX_INT /\ app'.picListSet /\ app'.status = "running" /\ app'.eosInLastPu
  BY <1>4, <1>5, <1>8 DEF First, DecLibMembers, SameFlags
<1>10. Inv'
  BY EndOfSequenceAfterPictureStep DEF DecodingInv
<1> QED
  BY <1>1, <1>6, <1>7, <1>8, <1>9, <1>10, ClosedStep

-----------------------------------------------------------------------------
(* The end of the stream, and the invariant of decoding.                    *)

\* The last flush: the CHECK that something was output does not fail.
LEMMA LastFlushStep ==
  ASSUME DecodingInv, EncodeEnd
  PROVE  DecodingInv'
<1>1. /\ Live /\ Between /\ EndOfStream /\ enc' = enc
      /\ UNCHANGED <<numPics, pilot, curPic, refPicList, dec, sps, due, discarded>>
  BY DEF EncodeEnd, EndOfStream, Live, Between, stream
<1>2. app.picListSet /\ (app.outputPicturePresent \/ Waiting(picList) # {})
  <2>1. PICK i \in due : i \in DOMAIN discarded => discarded[i] # "recovery"
    BY DEF EncodeEnd
  <2>2. app.outputPicturePresent \/ i \in Waiting(picList)
    BY <1>1, <2>1 DEF DecodingInv, SomethingToOutput
  <2>3. enc.cvs > 0
    BY <2>1 DEF DecodingInv, SomethingToOutput
  <2> QED
    BY <1>1, <2>2, <2>3 DEF DecodingInv, Control
<1>3. DOMAIN picList' = {} /\ app'.picListSet /\ app'.status = "finished"
  <2>1. /\ picList' = << >>
        /\ app' = [app EXCEPT !.pocLastDisplay = -MAX_INT,
                              !.outputPicturePresent = TRUE,
                              !.status = "finished"]
    BY <1>1, <1>2 DEF EndOfStream
  <2>2. app \in DecAppVariables
    BY InvFacts DEF DecodingInv
  <2> QED
    BY <1>2, <2>1, <2>2 DEF DecAppVariables
<1>4. Inv'
  BY <1>1, EndOfStreamStep DEF DecodingInv
<1>5. EncType' /\ CodedOnce' /\ Control'
  BY <1>1, <1>3
     DEF DecodingInv, EncType, CodedOnce, Control, Between, First, DiscardsOnRequestOnly, Pocs
<1>6. OnePicturePerPoc' /\ ReferencesKept' /\ SomethingToOutput' /\ NeverAborts'
  BY <1>1, <1>3
     DEF DecodingInv, OnePicturePerPoc, ReferencesKept, SomethingToOutput, NeverAborts, Live
<1>7. PilotIsNext' /\ CurrentIsCoded' /\ PredictsFromOwnSequence'
  BY <1>1, <1>5
     DEF PilotIsNext, CurrentIsCoded, PredictsFromOwnSequence, Control, Between
<1> QED
  BY <1>4, <1>5, <1>6, <1>7 DEF DecodingInv

\* No reference is lost within a stream, and none is missing when the lists are
\* built.
LEMMA NoFailingStep ==
  ASSUME DecodingInv
  PROVE  ~InsertLostPicture /\ ~FailOnReference
<1>1. ASSUME InsertLostPicture
      PROVE  FALSE
  <2>1. /\ pilot # None /\ Missing # {}
        /\ ~(pilot.pic.type \in {"CRA", "GDR"} /\ pilot.nobr)
    BY <1>1 DEF InsertLostPicture
  <2>2. pilot.pic.type = "GDR"
    BY <2>1, NothingMissing
  <2> QED
    BY <2>1, <2>2 DEF DecodingInv, PilotIsNext
<1>2. ASSUME FailOnReference
      PROVE  FALSE
  <2>1. /\ app.status = "running" /\ pilot # None
        /\ Missing = {} \/ \E r \in Missing : r <= 0
        /\ ~AllRefsFound \/ pilot.pic.poc \in pilot.pic.refs
    BY <1>2 DEF FailOnReference
  <2>2. DecodableList(Activated, numPics + 1)
    BY <2>1, ActivatedPictures
  <2>3. \A r \in pilot.pic.refs : RefPicsFor(r) # {}
    BY <2>2 DEF DecodableList, RefPicsFor, RefPics
  <2> QED
    BY <2>1, <2>3 DEF AllRefsFound, DecodingInv, PilotIsNext
<1> QED
  BY <1>1, <1>2

\* The status after the last picture.
LEMMA LastPictureStatus ==
  ASSUME DecodingInv, FinishLastPicture
  PROVE  app'.status = "lastPicture"
<1> DEFINE b == [app EXCEPT !.loopFiltered = FALSE, !.status = "lastPicture"]
           a == AfterFinish(b, dec.prevGdrRecoveryPoc)
           list == IF app.loopFiltered THEN picList ELSE Finished(app.newCLVS)
<1>1. WriteOutput(Suppress(list, a), a) \/ app' = a
  BY DEF FinishLastPicture
<1>2. b \in DecAppVariables /\ b.status = "lastPicture"
  BY InvFacts DEF DecodingInv, DecAppVariables
<1> HIDE DEF b, list
<1>3. a \in DecAppVariables /\ a.status = "lastPicture"
  BY <1>2, AfterFinishFlags
<1> HIDE DEF a
<1> QED
  BY <1>1, <1>3 DEF WriteOutput, DecAppVariables

\* The first state.
LEMMA DecodingInit ==
  ASSUME StreamInit
  PROVE  DecodingInv
<1>1. Init /\ EncInit
  BY DEF StreamInit
<1>2. Inv
  BY <1>1, InitInv
<1>3. /\ First = MAX_INT /\ pilot = None /\ curPic = None /\ DOMAIN refPicList = {}
      /\ DOMAIN picList = {} /\ due = {} /\ DOMAIN discarded = {}
      /\ app.status = "running" /\ ~app.eosInLastPu /\ dec.firstSliceInSequence
  BY <1>1 DEF Init, First
<1>4. /\ enc.cvs = 0 /\ enc.start /\ enc.irap = 0 /\ enc.irapType = "IDR" /\ enc.last = 0
      /\ enc.future = {} /\ enc.prior = {} /\ enc.srefs = {} /\ enc.coded = {}
      /\ enc = [cvs |-> enc.cvs, start |-> enc.start, irap |-> enc.irap,
                irapType |-> enc.irapType, last |-> enc.last, future |-> enc.future,
                prior |-> enc.prior, srefs |-> enc.srefs, coded |-> enc.coded]
  BY <1>1 DEF EncInit
<1>5. EncType
  <2>1. /\ 0 \in Nat /\ TRUE \in BOOLEAN /\ "IDR" \in {"IDR", "CRA", "GDR"} /\ IsFiniteSet({})
        /\ {} \in SUBSET Int /\ {} \in SUBSET [poc : Int, tid : Tids, leading : BOOLEAN]
        /\ {} \in SUBSET [poc : Int, tid : Tids, output : BOOLEAN]
    BY FS_EmptySet
  <2>2. IsFiniteSet(enc.srefs) /\ IsFiniteSet(enc.coded)
    BY <1>4, <2>1
  <2> QED
    BY <1>1, <2>1, <2>2 DEF EncType, EncInit
<1>6. CodedOnce
  BY <1>4 DEF CodedOnce
<1>7. Control
  BY <1>3, <1>4 DEF Control, Between, DiscardsOnRequestOnly
<1>8. OnePicturePerPoc /\ ReferencesKept /\ PilotIsNext /\ CurrentIsCoded
  BY <1>3, <1>4 DEF OnePicturePerPoc, ReferencesKept, PilotIsNext, CurrentIsCoded
<1>9. PredictsFromOwnSequence /\ SomethingToOutput /\ NeverAborts
  BY <1>3, <1>4 DEF PredictsFromOwnSequence, SomethingToOutput, NeverAborts, Waiting
<1> QED
  BY <1>2, <1>5, <1>6, <1>7, <1>8, <1>9 DEF DecodingInv

\* Every step keeps the invariant.
LEMMA DecodingNext ==
  ASSUME Situations = {}, DecodingInv, [StreamNext]_svars
  PROVE  DecodingInv'
<1>1. CASE StartSegment
  <2>1. PICK p, future : NewSequence(p, future) \/ NextSegment(p, future)
    BY <1>1, StartSegmentSteps
  <2>2. CASE NewSequence(p, future)
    BY <2>2, NewSequenceIsFirst, FirstPictureStep
  <2>3. CASE NextSegment(p, future)
    <3>1. NextPicture(p) /\ EncType' /\ CodedOnce'
      BY <2>3, NextSegmentIsNext
    <3>2. p.poc >= First
      <4>1. ~enc.start /\ p.poc \in Int /\ p.poc > enc.last
        BY <2>3 DEF NextSegment, CodedPicture
      <4> QED
        BY <4>1, SequenceFacts
    <3> QED
      BY <3>1, <3>2, NextPictureStep
  <2> QED
    BY <2>1, <2>2, <2>3
<1>2. CASE CodePicture
  <2>1. PICK p : LaterPicture(p)
    BY <1>2, CodePictureSteps
  <2>2. NextPicture(p) /\ EncType' /\ CodedOnce'
    BY <2>1, LaterPictureIsNext
  <2>3. p.poc \in Int /\ First \in Int
    BY <2>2, SequenceFacts DEF NextPicture, CodedPicture
  <2> QED
    BY <2>2, <2>3, NextPictureStep, SkippedPictureStep
<1>3. CASE EncodeEos
  <2>1. Forgotten
    BY <1>3 DEF EncodeEos, Forgotten
  <2>2. EndOfSequenceAfterSkip \/ (EndOfSequenceAfterPicture /\ curPic.type # "RASL")
    BY <1>3 DEF EncodeEos, EndOfSequence, EndOfSequenceAfterPicture
  <2> QED
    BY <2>1, <2>2, EosAfterSkipStep, EosAfterPictureStep
<1>4. CASE DecodeNext
  <2>1. /\ enc' = enc /\ Decode
        /\ app.loopFiltered /\ app'.status = "lastPicture" => FALSE
    BY <1>4 DEF DecodeNext
  <2>2. CASE FinishLastPicture
    BY <2>1, <2>2, LastPictureStatus, FinishedLastPictureStep
  <2> QED
    BY <2>1, <2>2, InsertedPictureStep, NoFailingStep, ActivatedPictureStep,
       FinishedPictureStep DEF Decode
<1>5. CASE EncodeEnd
  BY <1>5, LastFlushStep
<1>6. CASE UNCHANGED svars
  <2>1. UNCHANGED <<picList, numPics, pilot, curPic, refPicList, dec, app, sps,
                    shown, due, discarded, enc>>
    BY <1>6 DEF svars, vars, stream, history
  <2>2. Inv'
    BY <2>1 DEF DecodingInv, Inv, TypeOK, OneAtATime, FlagsConsistent,
       DecodesIntoOwnBuffer, NoPictureLost, OneFate, NothingWaitsInRecovery
  <2>3. EncType' /\ Control' /\ CodedOnce'
    BY <2>1 DEF DecodingInv, EncType, Control, CodedOnce, Between, First,
       DiscardsOnRequestOnly, Pocs
  <2>4. OnePicturePerPoc' /\ ReferencesKept' /\ PilotIsNext' /\ CurrentIsCoded'
    BY <2>1 DEF DecodingInv, OnePicturePerPoc, ReferencesKept, PilotIsNext,
       CurrentIsCoded, HasReference, Live, First, Pocs
  <2>5. PredictsFromOwnSequence' /\ SomethingToOutput' /\ NeverAborts'
    BY <2>1 DEF DecodingInv, PredictsFromOwnSequence, SomethingToOutput, NeverAborts,
       Live, Waiting
  <2> QED
    BY <2>2, <2>3, <2>4, <2>5 DEF DecodingInv
<1> QED
  BY <1>1, <1>2, <1>3, <1>4, <1>5, <1>6 DEF StreamNext

\* The invariant holds throughout, if the stream keeps clear of the situations
\* the decoder does not handle.
THEOREM DecodingInvariance == Situations = {} => (StreamSpec => []DecodingInv)
<1>1. ASSUME Situations = {}
      PROVE  StreamSpec => []DecodingInv
  <2>1. DecodingInv /\ [StreamNext]_svars => DecodingInv'
    BY <1>1, DecodingNext
  <2> QED
    BY <2>1, DecodingInit, PTL DEF StreamSpec
<1> QED
  BY <1>1

\* Every stream of an encoder that keeps the rules is decoded to its end: no
\* reference is lost, none fails the look-up, and the CHECK after the loop finds
\* that something was output.
THEOREM DecodesToTheEnd == Situations = {} => (StreamSpec => []NeverAborts)
<1>1. DecodingInv => NeverAborts
  BY DEF DecodingInv
<1> QED
  BY <1>1, DecodingInvariance, PTL

\* Every active entry of the reference picture lists leads to a finished picture
\* of the same sequence that is still marked as a reference.
THEOREM OwnReferences == Situations = {} => (StreamSpec => []PredictsFromOwnSequence)
<1>1. DecodingInv => PredictsFromOwnSequence
  BY DEF DecodingInv
<1> QED
  BY <1>1, DecodingInvariance, PTL

\* Output is cancelled only by no_output_of_prior_pics_flag or before the
\* recovery point of a GDR picture.
THEOREM CancelledOnRequestOnly == Situations = {} => (StreamSpec => []DiscardsOnRequestOnly)
<1>1. DecodingInv => DiscardsOnRequestOnly
  BY DEF DecodingInv, Control
<1> QED
  BY <1>1, DecodingInvariance, PTL

-----------------------------------------------------------------------------
(* What comes out: the invariant.                                           *)

\* What a file is whose last sequence is n: in output order, sequence after
\* sequence and by POC, each POC of a sequence once.
FileKept(file, n) ==
  /\ \A s \in DOMAIN file :
       file[s].cvs <= n /\ file[s].pos \in 1..Cardinality(DOMAIN file)
  /\ \A s, t \in DOMAIN file :
       \/ file[s].cvs < file[t].cvs
       \/ file[s].cvs = file[t].cvs /\ file[s].poc < file[t].poc
       => file[s].pos < file[t].pos
  /\ \A s, t \in DOMAIN file :
       file[s].cvs = file[t].cvs /\ file[s].poc = file[t].poc => s = t

\* The pictures of sequence n in the file come before all of S.
Precedes(file, pl, S, n) ==
  \A i \in S, s \in DOMAIN file : file[s].cvs = n => file[s].poc < pl[i].poc

\* The last displayed POC, if there is one, is that of a picture of sequence n.
LastIsShown(file, last, n) ==
  last # -MAX_INT =>
    n > 0 /\ \E s \in DOMAIN file : file[s].cvs = n /\ file[s].poc = last

FileInOrder ==
  /\ FileKept(shown, enc.cvs)
  /\ Precedes(shown, picList, Waiting(picList), enc.cvs)
  /\ LastIsShown(shown, app.pocLastDisplay, enc.cvs)

\* What is out or waits was coded with the output flag.
OutputIsCoded ==
  ~enc.start =>
    /\ \A s \in DOMAIN shown : shown[s].cvs = enc.cvs => shown[s].poc \in Pocs(enc.coded)
    /\ \A i \in Waiting(picList) : \E q \in enc.coded : q.output /\ q.poc = picList[i].poc

\* The POC of the picture whose header is read or which is being decoded, and
\* those of the pictures still to be decoded, this one included.
InProgress ==
  IF pilot # None THEN {pilot.pic.poc}
  ELSE IF curPic # None THEN {picList[curPic.id].poc} ELSE {}
ToCome == enc.future \cup InProgress

\* The output pictures coded so far that follow POC x.
Following(x) == {q \in enc.coded : q.output /\ q.poc > x}

\* Those that must wait, as a picture still to come or the one with this POC
\* comes before them.
MustWait(poc) ==
  {q \in enc.coded : q.output /\ q.poc # poc /\ \E x \in enc.future \cup {poc} : x < q.poc}

\* Nothing is out that a picture to come may have to precede: there are more
\* pictures to be output after that one than may be reordered.
NothingTooEarly ==
  ~enc.start /\ Live =>
    \A x \in ToCome, s \in DOMAIN shown : shown[s].cvs = enc.cvs =>
      x # shown[s].poc /\ (x < shown[s].poc => Cardinality(Following(x)) > MaxReorder)

ReferencePocs(pl) == {pl[i].poc : i \in References(pl)}

\* The picture in progress fits the DPB parameters.
PictureFits ==
  /\ pilot # None =>
       /\ pilot.output => Cardinality(Following(pilot.pic.poc)) <= MaxReorder
       /\ Cardinality(Pocs(MustWait(pilot.pic.poc)) \cup pilot.pic.refs \cup {pilot.pic.poc})
            <= MaxBuffering
  /\ curPic # None =>
       /\ curPic.output => Cardinality(Following(picList[curPic.id].poc)) <= MaxReorder
       /\ Cardinality(Pocs(MustWait(picList[curPic.id].poc)) \cup ReferencePocs(picList))
            <= MaxBuffering

\* The limits are kept whenever the loop reads on, and the list is extended by
\* one picture at most.
WithinLimits ==
  /\ app.status = "running" => /\ Cardinality(Waiting(picList)) <= MaxReorder
                               /\ Cardinality(InUse(picList)) <= MaxBuffering
  /\ AtMostOneExtension

\* With DecodingInv it is inductive.
OutputInv ==
  FileInOrder /\ OutputIsCoded /\ NothingTooEarly /\ PictureFits /\ WithinLimits

-----------------------------------------------------------------------------
(* The file.                                                                *)

\* A list of one sequence, with one picture for each POC.
OneSequence(pl, n) ==
  /\ \A i \in DOMAIN pl : pl[i].cvs = n /\ pl[i].poc > -MAX_INT
  /\ \A i, j \in DOMAIN pl : pl[i].poc = pl[j].poc => i = j

\* B are the first waiting pictures of the list.
FirstToWait(pl, B) ==
  B \subseteq Waiting(pl) /\ \A i \in B, j \in Waiting(pl) : Before(pl, j, i) => j \in B

\* The file out is in order, ends before what still waits, and consists of file
\* and the pictures of B.
Appended(out, file, pl, B, n) ==
  /\ FileKept(out, n) /\ Precedes(out, pl, Waiting(pl) \ B, n)
  /\ DOMAIN out = DOMAIN file \cup B
  /\ \A s \in DOMAIN file : out[s] = file[s]
  /\ \A s \in B : out[s].poc = pl[s].poc /\ out[s].cvs = n

\* Appending waiting pictures in list order keeps the file in order, if none
\* of those left behind comes before one that is written.
LEMMA AppendedFile ==
  ASSUME NEW n \in Nat, NEW pl, IsList(pl, n), NEW file, IsFile(file, n), NEW cvs \in Nat,
         Waiting(pl) \cap DOMAIN file = {}, OneSequence(pl, cvs),
         FileKept(file, cvs), Precedes(file, pl, Waiting(pl), cvs),
         NEW B, FirstToWait(pl, B), NEW out, out = Written(file, pl, B)
  PROVE  Appended(out, file, pl, B, cvs)
<1> DEFINE Up(i) == {j \in B : j = i \/ Before(pl, j, i)}
           N == Cardinality(DOMAIN file)
<1>1. /\ Waiting(pl) \subseteq DOMAIN pl /\ B \subseteq Waiting(pl) /\ B \cap DOMAIN file = {}
      /\ IsFiniteSet(B) /\ IsFiniteSet(DOMAIN file)
      /\ N \in Nat /\ Cardinality(B) \in Nat
  BY FinitePictures, FiniteNumbers DEF Waiting, IsFile, FirstToWait
<1>2. DOMAIN out = DOMAIN file \cup B /\ \A s \in DOMAIN file : out[s] = file[s]
  BY <1>1 DEF Written
<1>3. \A s \in B : /\ out[s].pos = N + Cardinality(Up(s))
                   /\ out[s].poc = pl[s].poc /\ out[s].cvs = cvs
  BY <1>1 DEF Written, OneSequence
<1>4. /\ \A s \in DOMAIN file : file[s].poc \in Int /\ file[s].cvs \in Nat /\ file[s].pos \in Nat
      /\ \A s \in Waiting(pl) : pl[s].poc \in Int /\ s \in Int
  BY <1>1 DEF IsFile, Entry, IsList, Buffer
<1>5. Cardinality(DOMAIN out) = N + Cardinality(B)
  <2>1. Cardinality(DOMAIN file \cup B)
          = N + Cardinality(B) - Cardinality(DOMAIN file \cap B)
    BY <1>1, FS_Union
  <2>2. DOMAIN file \cap B = {} /\ Cardinality({}) = 0
    BY <1>1, FS_EmptySet
  <2> HIDE DEF N
  <2>3. Cardinality(DOMAIN file \cap B) = 0
    BY <2>2
  <2> QED
    BY <1>1, <1>2, <2>1, <2>3
<1>6. \A s \in B : IsFiniteSet(Up(s)) /\ Cardinality(Up(s)) \in 1..Cardinality(B)
  <2>1. ASSUME NEW s \in B
        PROVE  IsFiniteSet(Up(s)) /\ Cardinality(Up(s)) \in 1..Cardinality(B)
    <3>1. Up(s) \subseteq B /\ s \in Up(s) /\ Up(s) # {}
      OBVIOUS
    <3> HIDE DEF Up
    <3>2. IsFiniteSet(Up(s)) /\ Cardinality(Up(s)) \in Nat
          /\ Cardinality(Up(s)) <= Cardinality(B)
      BY <1>1, <3>1, SubsetSize
    <3>3. Cardinality(Up(s)) # 0
      BY <3>1, <3>2, FS_EmptySet
    <3> QED
      BY <1>1, <3>2, <3>3
  <2> QED
    BY <2>1
<1>7. ASSUME NEW s \in B, NEW t \in B, pl[s].poc < pl[t].poc
      PROVE  Cardinality(Up(s)) < Cardinality(Up(t))
  <2>1. Before(pl, s, t) /\ ~Before(pl, t, s) /\ s # t
    BY <1>1, <1>4, <1>7 DEF Before
  <2>2. \A j \in B : Before(pl, j, s) => Before(pl, j, t)
    BY <1>1, <2>1, BeforeIsOrder
  <2>3. Up(s) \subseteq Up(t) /\ t \in Up(t) /\ t \notin Up(s)
    BY <2>1, <2>2
  <2>4. IsFiniteSet(Up(t)) /\ Cardinality(Up(s)) \in Nat /\ Cardinality(Up(t)) \in Nat
    BY <1>6
  <2> HIDE DEF Up
  <2>5. Cardinality(Up(s)) <= Cardinality(Up(t))
        /\ (Cardinality(Up(s)) = Cardinality(Up(t)) => Up(s) = Up(t))
    BY <2>3, <2>4, FS_Subset
  <2> QED
    BY <2>3, <2>4, <2>5
<1> HIDE DEF Up, N
<1>8. \A s \in DOMAIN file : file[s].cvs <= cvs /\ file[s].pos \in 1..N
  BY DEF FileKept, N
<1>9. \A s \in DOMAIN out : out[s].cvs <= cvs /\ out[s].pos \in 1..Cardinality(DOMAIN out)
  BY <1>1, <1>2, <1>3, <1>4, <1>5, <1>6, <1>8
<1>10. ASSUME NEW s \in DOMAIN out, NEW t \in DOMAIN out,
              \/ out[s].cvs < out[t].cvs
              \/ out[s].cvs = out[t].cvs /\ out[s].poc < out[t].poc
       PROVE  out[s].pos < out[t].pos
  <2>1. CASE s \in DOMAIN file /\ t \in DOMAIN file
    BY <1>2, <1>10, <2>1 DEF FileKept
  <2>2. CASE s \in DOMAIN file /\ t \in B
    BY <1>1, <1>2, <1>3, <1>4, <1>6, <1>8, <2>2
  <2>3. CASE s \in B /\ t \in DOMAIN file
    <3>1. out[s].cvs = cvs /\ out[t].cvs <= cvs /\ out[s].poc = pl[s].poc /\ out[t] = file[t]
      BY <1>2, <1>3, <1>8, <2>3
    <3>2. file[t].cvs = cvs => file[t].poc < pl[s].poc
      BY <1>1, <2>3 DEF Precedes
    <3> QED
      BY <1>1, <1>4, <1>10, <2>3, <3>1, <3>2
  <2>4. CASE s \in B /\ t \in B
    <3>1. pl[s].poc < pl[t].poc
      BY <1>3, <1>10, <2>4
    <3>2. Cardinality(Up(s)) < Cardinality(Up(t))
      BY <1>7, <2>4, <3>1
    <3> QED
      BY <1>1, <1>3, <1>6, <2>4, <3>2
  <2> QED
    BY <1>2, <2>1, <2>2, <2>3, <2>4
<1>11. ASSUME NEW s \in DOMAIN out, NEW t \in DOMAIN out,
              out[s].cvs = out[t].cvs, out[s].poc = out[t].poc
       PROVE  s = t
  <2>1. CASE s \in DOMAIN file /\ t \in DOMAIN file
    BY <1>2, <1>11, <2>1 DEF FileKept
  <2>2. ASSUME NEW x \in DOMAIN file, NEW y \in B, out[x].cvs = out[y].cvs
        PROVE  out[x].poc # out[y].poc
    <3>1. file[x].poc < pl[y].poc
      BY <1>1, <1>2, <1>3, <2>2 DEF Precedes
    <3> QED
      BY <1>2, <1>3, <1>4, <3>1
  <2>3. CASE s \in B /\ t \in B
    BY <1>1, <1>3, <1>11, <2>3 DEF OneSequence
  <2> QED
    BY <1>2, <1>11, <2>1, <2>2, <2>3
<1>12. Precedes(out, pl, Waiting(pl) \ B, cvs)
  <2>1. ASSUME NEW i \in Waiting(pl) \ B, NEW s \in DOMAIN out, out[s].cvs = cvs
        PROVE  out[s].poc < pl[i].poc
    <3>1. CASE s \in DOMAIN file
      BY <1>2, <2>1, <3>1 DEF Precedes
    <3>2. CASE s \in B
      <4>1. ~Before(pl, i, s) /\ i # s /\ s \in Waiting(pl) /\ pl[i].poc # pl[s].poc
        BY <1>1, <2>1, <3>2 DEF FirstToWait, OneSequence
      <4> QED
        BY <1>3, <1>4, <2>1, <3>2, <4>1 DEF Before
    <3> QED
      BY <1>2, <3>1, <3>2
  <2> QED
    BY <2>1 DEF Precedes
<1>13. FileKept(out, cvs)
  BY <1>9, <1>10, <1>11 DEF FileKept
<1> QED
  BY <1>2, <1>3, <1>12, <1>13 DEF Appended

-----------------------------------------------------------------------------
(* Bumping.                                                                 *)

\* xWriteOutput passes over no waiting picture of such a list.
LEMMA AllDisplayable ==
  ASSUME NEW n \in Nat, NEW pl, IsList(pl, n), NEW cvs, OneSequence(pl, cvs),
         NEW file, IsFile(file, n), NEW last \in Int, LastIsShown(file, last, cvs),
         Precedes(file, pl, Waiting(pl), cvs)
  PROVE  Displayable(pl, last) = Waiting(pl)
<1>1. ASSUME NEW i \in Waiting(pl)
      PROVE  pl[i].poc >= last
  <2>1. i \in DOMAIN pl /\ pl[i].poc \in Int /\ pl[i].poc > -MAX_INT /\ -MAX_INT \in Int
    BY MaxIntType DEF Waiting, IsList, Buffer, OneSequence
  <2>2. CASE last = -MAX_INT
    BY <2>1, <2>2
  <2>3. CASE last # -MAX_INT
    <3>1. PICK s \in DOMAIN file : file[s].cvs = cvs /\ file[s].poc = last
      BY <2>3 DEF LastIsShown
    <3>2. last < pl[i].poc
      BY <3>1 DEF Precedes
    <3> QED
      BY <2>1, <3>2
  <2> QED
    BY <2>2, <2>3
<1> QED
  BY <1>1 DEF Displayable, Waiting

\* What a call of xWriteOutput does to a list of sequence n: the file stays in
\* order and ends before what still waits, which keeps to the limits, and a
\* picture was written because too many wait from it on.
BumpedOut(pl, n) ==
  /\ Lowered(picList', pl) /\ Waiting(picList') \subseteq Waiting(pl)
  /\ FileKept(shown', n) /\ Precedes(shown', picList', Waiting(picList'), n)
  /\ LastIsShown(shown', app'.pocLastDisplay, n)
  /\ Cardinality(Waiting(picList')) <= MaxReorder
  /\ Waiting(picList') # {} => Cardinality(InUse(picList')) <= MaxBuffering
  /\ DOMAIN shown \subseteq DOMAIN shown' /\ \A s \in DOMAIN shown : shown'[s] = shown[s]
  /\ \A s \in DOMAIN shown' \ DOMAIN shown :
       /\ s \in Waiting(pl) /\ shown'[s].poc = pl[s].poc /\ shown'[s].cvs = n
       /\ \/ Cardinality(Rest(pl, s)) > MaxReorder
          \/ Cardinality(Rest(pl, s) \cup References(pl)) > MaxBuffering

\* xWriteOutput writes Bumped, which ends before all that it leaves.
LEMMA BumpingEffect ==
  ASSUME NEW n \in Nat, NEW pl, IsList(pl, n), NEW cvs \in Nat, cvs > 0, OneSequence(pl, cvs),
         IsFile(shown, n), Waiting(pl) \cap DOMAIN shown = {}, MaxReorder \in Nat,
         MaxBuffering \in Nat, FileKept(shown, cvs), Precedes(shown, pl, Waiting(pl), cvs),
         NEW a \in DecAppVariables, LastIsShown(shown, a.pocLastDisplay, cvs),
         WriteOutput(pl, a)
  PROVE  BumpedOut(pl, cvs)
<1> DEFINE last == a.pocLastDisplay
           B == Bumped(pl, last, MaxReorder, MaxBuffering)
           file == Written(shown, pl, B)
<1>1. /\ picList' = AfterOutput(pl, B) /\ shown' = file
      /\ app'.pocLastDisplay = LastDisplay(pl, B, last)
  <2>1. app' = [a EXCEPT !.pocLastDisplay = LastDisplay(pl, B, last),
                         !.outputPicturePresent = (@ \/ Waiting(pl) # {})]
    BY DEF WriteOutput, MaxReorder, MaxBuffering
  <2> QED
    BY <2>1 DEF WriteOutput, MaxReorder, MaxBuffering, DecAppVariables
<1>2. last \in Int
  BY DEF DecAppVariables
<1>3. Displayable(pl, last) = Waiting(pl)
  BY <1>2, AllDisplayable
<1>4. B \in SUBSET Waiting(pl) /\ B \in SUBSET DOMAIN pl /\ Waiting(pl) \subseteq DOMAIN pl
  BY BumpedWait DEF Waiting
<1>5. FirstToWait(pl, B)
  <2> HIDE DEF last
  <2> QED
    BY <1>3, <1>4, BumpedInOrder DEF FirstToWait
<1>6. \A i \in B : \/ Cardinality(Rest(pl, i)) > MaxReorder
                   \/ Cardinality(Rest(pl, i) \cup References(pl)) > MaxBuffering
  <2> HIDE DEF last
  <2> QED
    BY <1>3, <1>4, BumpedMeans
<1>7. /\ Cardinality(Waiting(pl) \ B) <= MaxReorder
      /\ Waiting(pl) \ B # {} =>
           Cardinality((Waiting(pl) \ B) \cup References(pl)) <= MaxBuffering
  <2> HIDE DEF last
  <2> QED
    BY <1>3, BumpedLeaves
<1> HIDE DEF B, last, file
<1>8. /\ DOMAIN picList' = DOMAIN pl /\ Waiting(picList') = Waiting(pl) \ B
      /\ \A i \in DOMAIN pl :
           /\ picList'[i].poc = pl[i].poc /\ picList'[i].cvs = pl[i].cvs
           /\ picList'[i].referenced = pl[i].referenced
           /\ picList'[i].needed = (pl[i].needed /\ i \notin B)
           /\ picList'[i].reconstructed =
                (pl[i].reconstructed /\ (i \notin B \/ pl[i].referenced))
  <2> DEFINE out == AfterOutput(pl, B)
  <2>1. /\ DOMAIN out = DOMAIN pl /\ Waiting(out) = Waiting(pl) \ B
        /\ \A i \in DOMAIN pl :
             /\ out[i].poc = pl[i].poc /\ out[i].cvs = pl[i].cvs
             /\ out[i].referenced = pl[i].referenced
             /\ out[i].needed = (pl[i].needed /\ i \notin B)
             /\ out[i].reconstructed =
                  (pl[i].reconstructed /\ (i \notin B \/ pl[i].referenced))
    BY <1>4, AfterOutputKeeps
  <2> HIDE DEF out
  <2>2. picList' = out
    BY <1>1 DEF out
  <2> QED
    BY <2>1, <2>2
<1>9. References(picList') = References(pl) /\ Lowered(picList', pl)
  BY <1>4, <1>8 DEF References, Lowered, Waiting
<1>10. /\ FileKept(file, cvs) /\ Precedes(file, pl, Waiting(pl) \ B, cvs)
       /\ DOMAIN file = DOMAIN shown \cup B
       /\ \A s \in DOMAIN shown : file[s] = shown[s]
       /\ \A s \in B : file[s].poc = pl[s].poc /\ file[s].cvs = cvs
  <2>1. file = Written(shown, pl, B)
    BY DEF file
  <2>2. Appended(file, shown, pl, B, cvs)
    BY <1>5, <2>1, AppendedFile
  <2> QED
    BY <2>2 DEF Appended
<1>11. Precedes(shown', picList', Waiting(picList'), cvs)
  BY <1>1, <1>4, <1>8, <1>10 DEF Precedes
<1>12. LastIsShown(shown', app'.pocLastDisplay, cvs)
  <2>1. CASE B = {}
    <3>1. app'.pocLastDisplay = last
      BY <1>1, <2>1 DEF LastDisplay
    <3> QED
      BY <1>1, <1>10, <3>1 DEF LastIsShown, last
  <2>2. CASE B # {}
    <3> DEFINE i == CHOOSE x \in B : \A j \in B : x = j \/ Before(pl, j, x)
    <3>1. i \in B
      BY <1>4, <2>2, LastOfList
    <3>2. LastDisplay(pl, B, last) = pl[i].poc
      BY <2>2 DEF LastDisplay
    <3> HIDE DEF i
    <3> QED
      BY <1>1, <1>10, <3>1, <3>2 DEF LastIsShown
  <2> QED
    BY <2>1, <2>2
<1>13. \A s \in DOMAIN shown' \ DOMAIN shown :
         /\ s \in Waiting(pl) /\ shown'[s].poc = pl[s].poc /\ shown'[s].cvs = cvs
         /\ \/ Cardinality(Rest(pl, s)) > MaxReorder
            \/ Cardinality(Rest(pl, s) \cup References(pl)) > MaxBuffering
  BY <1>1, <1>4, <1>6, <1>10
<1>14. DOMAIN shown \subseteq DOMAIN shown' /\ \A s \in DOMAIN shown : shown'[s] = shown[s]
  BY <1>1, <1>10
<1>15. InUse(picList') = (Waiting(pl) \ B) \cup References(pl)
  BY <1>8, <1>9 DEF InUse
<1>16. /\ Cardinality(Waiting(picList')) <= MaxReorder
       /\ Waiting(picList') # {} => Cardinality(InUse(picList')) <= MaxBuffering
  BY <1>7, <1>8, <1>15
<1>17. FileKept(shown', cvs) /\ Waiting(picList') \subseteq Waiting(pl)
  BY <1>1, <1>8, <1>10
<1> QED
  BY <1>9, <1>11, <1>12, <1>13, <1>14, <1>16, <1>17 DEF BumpedOut

\* The POCs of pictures of such a list are as many as the pictures.
LEMMA ListPocs ==
  ASSUME NEW n \in Nat, NEW pl, IsList(pl, n), NEW cvs, OneSequence(pl, cvs),
         NEW S, S \subseteq DOMAIN pl
  PROVE  /\ IsFiniteSet({pl[i].poc : i \in S})
         /\ Cardinality({pl[i].poc : i \in S}) = Cardinality(S)
<1> DEFINE f == [i \in S |-> pl[i].poc]
<1>1. IsFiniteSet(S)
  BY FinitePictures
<1>2. \A i, j \in S : f[i] = f[j] => i = j
  BY DEF OneSequence
<1>3. {f[i] : i \in S} = {pl[i].poc : i \in S}
  OBVIOUS
<1> HIDE DEF f
<1>4. IsFiniteSet({f[i] : i \in S}) /\ Cardinality({f[i] : i \in S}) = Cardinality(S)
  BY <1>1, <1>2, SameNumber
<1> QED
  BY <1>3, <1>4

\* When c is the POC in progress and the DPB parameters hold for it, a picture
\* is written before one to come only if that one cannot precede it.
LEMMA WrittenInTime ==
  ASSUME EncType, NEW n \in Nat, NEW pl, IsList(pl, n), OneSequence(pl, enc.cvs),
         \A i \in Waiting(pl) : \E q \in enc.coded : q.output /\ q.poc = pl[i].poc,
         NEW c \in Int, MaxReorder \in Nat, MaxBuffering \in Nat,
         Cardinality(Pocs(MustWait(c)) \cup ReferencePocs(pl)) <= MaxBuffering,
         \A i \in Waiting(pl) : pl[i].poc = c => c \in ReferencePocs(pl),
         NEW x \in enc.future \cup {c}, NEW s \in Waiting(pl), x < pl[s].poc,
         \/ Cardinality(Rest(pl, s)) > MaxReorder
         \/ Cardinality(Rest(pl, s) \cup References(pl)) > MaxBuffering
  PROVE  Cardinality(Following(x)) > MaxReorder
<1>1. /\ Waiting(pl) \subseteq DOMAIN pl /\ References(pl) \subseteq DOMAIN pl
      /\ Rest(pl, s) \subseteq Waiting(pl)
  BY DEF Waiting, References, Rest
<1>2. /\ x \in Int /\ IsFiniteSet(enc.coded) /\ \A q \in enc.coded : q.poc \in Int
      /\ \A i \in DOMAIN pl : pl[i].poc \in Int /\ i \in Int
  BY EncFacts DEF IsList, Buffer
<1>3. ASSUME NEW j \in Rest(pl, s)
      PROVE  \E q \in enc.coded : q.output /\ q.poc = pl[j].poc /\ x < q.poc
  <2>1. j \in DOMAIN pl /\ s \in DOMAIN pl /\ ~Before(pl, j, s) /\ j \in Waiting(pl)
    BY <1>1, <1>3 DEF Rest
  <2>2. x < pl[j].poc
    BY <1>2, <2>1 DEF Before
  <2> QED
    BY <2>1, <2>2
<1>4. \A S : S \subseteq DOMAIN pl =>
        /\ IsFiniteSet({pl[i].poc : i \in S})
        /\ Cardinality({pl[i].poc : i \in S}) = Cardinality(S)
  <2>1. ASSUME NEW S, S \subseteq DOMAIN pl
        PROVE  /\ IsFiniteSet({pl[i].poc : i \in S})
               /\ Cardinality({pl[i].poc : i \in S}) = Cardinality(S)
    <3>1. n \in Nat /\ IsList(pl, n) /\ OneSequence(pl, enc.cvs)
      OBVIOUS
    <3> QED
      BY ONLY <2>1, <3>1, ListPocs
  <2> QED
    BY <2>1
<1>5. CASE Cardinality(Rest(pl, s)) > MaxReorder
  <2> DEFINE F == Following(x)
             R == {pl[i].poc : i \in Rest(pl, s)}
  <2>1. IsFiniteSet(F)
    BY <1>2, FS_Subset DEF Following
  <2>2. R \subseteq Pocs(F)
    BY <1>3, <1>2 DEF Following, Pocs
  <2>3. IsFiniteSet(R) /\ Cardinality(R) = Cardinality(Rest(pl, s))
    BY <1>1, ListPocs
  <2> HIDE DEF F, R
  <2>4. /\ IsFiniteSet(Pocs(F)) /\ Cardinality(Pocs(F)) <= Cardinality(F)
        /\ Cardinality(Pocs(F)) \in Nat /\ Cardinality(F) \in Nat
    BY <2>1, PocsFinite, FS_CardinalityType
  <2>5. Cardinality(R) <= Cardinality(Pocs(F)) /\ Cardinality(R) \in Nat
    BY <2>2, <2>4, SubsetSize
  <2> QED
    BY <1>5, <2>3, <2>4, <2>5 DEF F
<1>6. CASE Cardinality(Rest(pl, s) \cup References(pl)) > MaxBuffering
  <2> DEFINE S == Rest(pl, s) \cup References(pl)
             R == {pl[i].poc : i \in S}
             M == Pocs(MustWait(c)) \cup ReferencePocs(pl)
  <2>1. IsFiniteSet(M)
    <3>1. IsFiniteSet(MustWait(c))
      BY <1>2, FS_Subset DEF MustWait
    <3>2. IsFiniteSet(ReferencePocs(pl))
      BY <1>1, ListPocs DEF ReferencePocs
    <3> QED
      BY <3>1, <3>2, PocsFinite, FS_Union
  <2>2. R \subseteq M
    <3>1. ASSUME NEW j \in Rest(pl, s)
          PROVE  pl[j].poc \in M
      <4>1. CASE pl[j].poc = c
        BY <1>1, <4>1
      <4>2. CASE pl[j].poc # c
        <5>1. PICK q \in enc.coded : q.output /\ q.poc = pl[j].poc /\ x < q.poc
          BY <1>3
        <5>2. q \in MustWait(c)
          BY <4>2, <5>1 DEF MustWait
        <5> QED
          BY <5>1, <5>2 DEF Pocs
      <4> QED
        BY <4>1, <4>2
    <3> QED
      BY <3>1 DEF ReferencePocs
  <2>3. IsFiniteSet(R) /\ Cardinality(R) = Cardinality(S)
    <3>1. S \subseteq DOMAIN pl
      BY <1>1
    <3>2. R = {pl[i].poc : i \in S}
      OBVIOUS
    <3> HIDE DEF S, R
    <3> QED
      BY <1>4, <3>1, <3>2
  <2>4. Cardinality(M) <= MaxBuffering /\ Cardinality(S) > MaxBuffering
    BY <1>6
  <2> HIDE DEF R, M, S
  <2>5. /\ Cardinality(R) <= Cardinality(M) /\ Cardinality(R) \in Nat /\ Cardinality(M) \in Nat
    BY <2>1, <2>2, SubsetSize
  <2> QED
    BY <2>3, <2>4, <2>5
<1> QED
  BY <1>5, <1>6

\* What the invariants say of list and file.
LEMMA OutputFacts ==
  ASSUME DecodingInv, OutputInv
  PROVE  /\ numPics \in Nat /\ IsList(picList, numPics) /\ IsFile(shown, numPics)
         /\ enc.cvs \in Nat /\ MaxReorder \in Nat /\ MaxBuffering \in Nat
         /\ OneSequence(picList, enc.cvs) /\ Waiting(picList) \cap DOMAIN shown = {}
         /\ FileKept(shown, enc.cvs) /\ Precedes(shown, picList, Waiting(picList), enc.cvs)
         /\ LastIsShown(shown, app.pocLastDisplay, enc.cvs)
         /\ app \in DecAppVariables /\ app.pocLastDisplay \in Int
<1>1. MaxReorder \in Nat /\ MaxBuffering \in Nat
  BY SpsAssumption, MaxTidAssumption
     DEF DecodingInv, Inv, TypeOK, Sps, Tids, MaxBuffering, MaxReorder
<1>2. OneSequence(picList, enc.cvs)
  BY DEF DecodingInv, OnePicturePerPoc, OneSequence
<1>3. /\ numPics \in Nat /\ IsList(picList, numPics) /\ IsFile(shown, numPics)
      /\ Waiting(picList) \cap DOMAIN shown = {} /\ app \in DecAppVariables
      /\ app.pocLastDisplay \in Int /\ enc.cvs \in Nat
  BY InvFacts, EncFacts DEF DecodingInv, Histories, Fates, DecAppVariables
<1> QED
  BY <1>1, <1>2, <1>3 DEF OutputInv, FileInOrder

\* Lowering flags keeps POCs and sequence.
LEMMA LoweredSequence ==
  ASSUME NEW out, NEW pl, NEW n, Lowered(out, pl), OneSequence(pl, n)
  PROVE  OneSequence(out, n) /\ References(out) = References(pl)
         /\ ReferencePocs(out) = ReferencePocs(pl)
<1>1. OneSequence(out, n)
  BY DEF Lowered, OneSequence
<1>2. References(out) = References(pl)
  BY DEF Lowered, References
<1>3. \A i \in References(pl) : out[i].poc = pl[i].poc
  BY DEF Lowered, References
<1> QED
  BY <1>1, <1>2, <1>3 DEF ReferencePocs

\* Between two pictures nothing is written.
LEMMA IdleOutput ==
  ASSUME DecodingInv, OutputInv, pilot = None, curPic = None, app.status = "running",
         NEW a \in DecAppVariables, a.pocLastDisplay = app.pocLastDisplay,
         a.gdrRecoveryPeriod = app.gdrRecoveryPeriod, EndOfIteration(picList, a)
  PROVE  /\ Lowered(picList', picList) /\ Waiting(picList') = Waiting(picList)
         /\ shown' = shown /\ app'.pocLastDisplay = app.pocLastDisplay
<1> DEFINE sl == Suppress(picList, a)
           B == Bumped(sl, a.pocLastDisplay, MaxReorder, MaxBuffering)
<1>1. /\ numPics \in Nat /\ IsList(picList, numPics) /\ IsFile(shown, numPics)
      /\ enc.cvs \in Nat /\ MaxReorder \in Nat /\ MaxBuffering \in Nat
      /\ OneSequence(picList, enc.cvs)
      /\ Precedes(shown, picList, Waiting(picList), enc.cvs)
      /\ LastIsShown(shown, app.pocLastDisplay, enc.cvs) /\ app.pocLastDisplay \in Int
  BY OutputFacts
<1>2. a.gdrRecoveryPeriod => Waiting(picList) = {}
  BY DEF DecodingInv, Inv, NothingWaitsInRecovery
<1>3. IsList(sl, numPics) /\ Lowered(sl, picList) /\ Waiting(sl) = Waiting(picList)
  BY <1>1, <1>2, SuppressEffect
<1>4. /\ picList' = AfterOutput(sl, B) /\ shown' = Written(shown, sl, B)
      /\ app' = [a EXCEPT !.pocLastDisplay = LastDisplay(sl, B, a.pocLastDisplay),
                          !.outputPicturePresent = (@ \/ Waiting(sl) # {})]
  BY DEF EndOfIteration, WriteOutput, MaxReorder, MaxBuffering
<1> HIDE DEF sl
<1>5. OneSequence(sl, enc.cvs) /\ References(sl) = References(picList)
  BY <1>1, <1>3, LoweredSequence
<1>6. Precedes(shown, sl, Waiting(sl), enc.cvs)
  BY <1>1, <1>3 DEF Precedes, Lowered, Waiting
<1>7. Displayable(sl, a.pocLastDisplay) = Waiting(sl)
  BY <1>1, <1>3, <1>5, <1>6, AllDisplayable
<1>8. B = {}
  <2>1. ASSUME NEW i \in B
        PROVE  FALSE
    <3>1. i \in Waiting(sl)
      BY BumpedWait
    <3>2. \/ Cardinality(Rest(sl, i)) > MaxReorder
          \/ Cardinality(Rest(sl, i) \cup References(sl)) > MaxBuffering
      BY <1>1, <1>3, <1>7, <2>1, <3>1, BumpedMeans
    <3>3. /\ Cardinality(Waiting(picList)) <= MaxReorder
          /\ Cardinality(InUse(picList)) <= MaxBuffering
      BY DEF OutputInv, WithinLimits
    <3>4. /\ Rest(sl, i) \subseteq Waiting(picList)
          /\ Rest(sl, i) \cup References(sl) \subseteq InUse(picList)
      BY <1>3, <1>5 DEF Rest, InUse
    <3>5. IsFiniteSet(Waiting(picList)) /\ IsFiniteSet(InUse(picList))
      BY <1>1, FinitePictures DEF Waiting, InUse, References
    <3>6. /\ Cardinality(Rest(sl, i)) <= Cardinality(Waiting(picList))
          /\ Cardinality(Rest(sl, i)) \in Nat /\ Cardinality(Waiting(picList)) \in Nat
      BY <3>4, <3>5, SubsetSize
    <3>7. /\ Cardinality(Rest(sl, i) \cup References(sl)) <= Cardinality(InUse(picList))
          /\ Cardinality(Rest(sl, i) \cup References(sl)) \in Nat
          /\ Cardinality(InUse(picList)) \in Nat
      BY <3>4, <3>5, SubsetSize
    <3> QED
      BY <1>1, <3>2, <3>3, <3>6, <3>7
  <2> QED
    BY <2>1
<1> HIDE DEF B
<1>9. shown' = shown
  BY <1>1, <1>3, <1>4, <1>8, WrittenKeeps
<1>10. app'.pocLastDisplay = app.pocLastDisplay
  BY <1>4, <1>8 DEF LastDisplay, DecAppVariables
<1>11. Lowered(picList', sl) /\ Waiting(picList') = Waiting(sl)
  <2> DEFINE out == AfterOutput(sl, {})
  <2>1. /\ DOMAIN out = DOMAIN sl /\ Waiting(out) = Waiting(sl) \ {}
        /\ \A i \in DOMAIN sl :
             /\ out[i].poc = sl[i].poc /\ out[i].cvs = sl[i].cvs
             /\ out[i].referenced = sl[i].referenced
             /\ out[i].needed = (sl[i].needed /\ i \notin {})
             /\ out[i].reconstructed =
                  (sl[i].reconstructed /\ (i \notin {} \/ sl[i].referenced))
    <3>1. PICK E : E = {}
      OBVIOUS
    <3>2. E \in SUBSET DOMAIN sl /\ numPics \in Nat
      BY <1>1, <3>1
    <3>3. /\ DOMAIN AfterOutput(sl, E) = DOMAIN sl /\ Waiting(AfterOutput(sl, E)) = Waiting(sl) \ E
          /\ \A i \in DOMAIN sl :
               LET out1 == AfterOutput(sl, E)
               IN /\ out1[i].poc = sl[i].poc /\ out1[i].cvs = sl[i].cvs
                  /\ out1[i].referenced = sl[i].referenced
                  /\ out1[i].needed = (sl[i].needed /\ i \notin E)
                  /\ out1[i].reconstructed =
                       (sl[i].reconstructed /\ (i \notin E \/ sl[i].referenced))
      BY <1>3, <3>2, AfterOutputKeeps
    <3> QED
      BY <3>1, <3>3
  <2> HIDE DEF out
  <2>2. picList' = out
    BY <1>4, <1>8 DEF out
  <2> QED
    BY <2>1, <2>2 DEF Lowered
<1>12. Lowered(picList', picList)
  BY <1>3, <1>11 DEF Lowered
<1> QED
  BY <1>3, <1>9, <1>10, <1>11, <1>12

-----------------------------------------------------------------------------
(* Steps that write nothing.                                                *)

\* The pictures that follow a POC become more as the sequence goes on.
LEMMA FollowingGrows ==
  ASSUME EncType, EncType', enc.coded \subseteq enc'.coded, NEW x
  PROVE  /\ Cardinality(Following(x)) \in Nat /\ Cardinality(Following(x)') \in Nat
         /\ Cardinality(Following(x)) <= Cardinality(Following(x)')
<1>1. IsFiniteSet(enc'.coded) /\ IsFiniteSet(enc.coded)
  BY DEF EncType
<1>2. Following(x)' \subseteq enc'.coded /\ Following(x) \subseteq enc.coded
      /\ Following(x) \subseteq Following(x)'
  BY DEF Following
<1>3. IsFiniteSet(Following(x)')
  BY <1>1, <1>2, FS_Subset
<1> QED
  BY <1>2, <1>3, SubsetSize

\* The file and what waits stay, in a sequence that goes on or is forgotten.
NothingWritten ==
  /\ shown' = shown /\ app'.pocLastDisplay = app.pocLastDisplay
  /\ enc'.cvs = enc.cvs /\ sps' = sps
  /\ \A i \in Waiting(picList') : i \in Waiting(picList) /\ picList'[i].poc = picList[i].poc

SequenceGoesOn ==
  /\ ~enc.start /\ Live /\ enc.coded \subseteq enc'.coded
  /\ \A x \in ToCome' : x \in ToCome \/ (x \in Int /\ x > enc.last)

\* Such a step keeps the file in order and nothing out too early.
LEMMA QuietStep ==
  ASSUME DecodingInv, OutputInv, EncType', NothingWritten, enc'.start \/ SequenceGoesOn
  PROVE  FileInOrder' /\ OutputIsCoded' /\ NothingTooEarly'
<1>1. /\ FileKept(shown, enc.cvs) /\ Precedes(shown, picList, Waiting(picList), enc.cvs)
      /\ LastIsShown(shown, app.pocLastDisplay, enc.cvs)
  BY OutputFacts
<1>2. FileInOrder'
  <2>1. Precedes(shown, picList', Waiting(picList'), enc.cvs)
    BY <1>1 DEF Precedes, NothingWritten
  <2> QED
    BY <1>1, <2>1 DEF FileInOrder, NothingWritten
<1>3. CASE enc'.start
  BY <1>2, <1>3 DEF OutputIsCoded, NothingTooEarly
<1>4. CASE SequenceGoesOn
  <2>1. OutputIsCoded'
    <3>1. \A s \in DOMAIN shown : shown[s].cvs = enc.cvs => shown[s].poc \in Pocs(enc.coded)
      BY <1>4 DEF OutputInv, OutputIsCoded, SequenceGoesOn
    <3>2. \A i \in Waiting(picList) : \E q \in enc.coded : q.output /\ q.poc = picList[i].poc
      BY <1>4 DEF OutputInv, OutputIsCoded, SequenceGoesOn
    <3>3. Pocs(enc.coded) \subseteq Pocs(enc'.coded)
      BY <1>4 DEF Pocs, SequenceGoesOn
    <3>4. \A s \in DOMAIN shown' : shown'[s].cvs = enc'.cvs => shown'[s].poc \in Pocs(enc'.coded)
      BY <3>1, <3>3 DEF NothingWritten
    <3>5. \A i \in Waiting(picList') :
            \E q \in enc'.coded : q.output /\ q.poc = picList'[i].poc
      BY <1>4, <3>2 DEF NothingWritten, SequenceGoesOn
    <3> QED
      BY <3>4, <3>5 DEF OutputIsCoded
  <2>2. ASSUME NEW x \in ToCome', NEW s \in DOMAIN shown, shown[s].cvs = enc.cvs
        PROVE  x # shown[s].poc /\ (x < shown[s].poc => Cardinality(Following(x)') > MaxReorder')
    <3>1. MaxReorder' = MaxReorder /\ MaxReorder \in Nat
      BY OutputFacts DEF MaxReorder, NothingWritten
    <3>2. CASE x \in ToCome
      <4>1. x # shown[s].poc /\ (x < shown[s].poc => Cardinality(Following(x)) > MaxReorder)
        BY <1>4, <2>2, <3>2 DEF OutputInv, NothingTooEarly, SequenceGoesOn
      <4>2. EncType /\ enc.coded \subseteq enc'.coded
        BY <1>4 DEF DecodingInv, SequenceGoesOn
      <4>3. /\ Cardinality(Following(x)) \in Nat /\ Cardinality(Following(x)') \in Nat
            /\ Cardinality(Following(x)) <= Cardinality(Following(x)')
        BY <4>2, FollowingGrows
      <4> QED
        BY <3>1, <4>1, <4>3
    <3>3. CASE x \in Int /\ x > enc.last
      <4>1. shown[s].poc \in Pocs(enc.coded)
        BY <1>4, <2>2 DEF OutputInv, OutputIsCoded, SequenceGoesOn
      <4>2. PICK q \in enc.coded : q.poc = shown[s].poc
        BY <4>1 DEF Pocs
      <4>3. q.poc \in Int /\ enc.last \in Int /\ q.poc <= enc.last
        BY <1>4, SequenceFacts DEF SequenceGoesOn
      <4> QED
        BY <3>3, <4>2, <4>3
    <3> QED
      BY <1>4, <2>2, <3>2, <3>3 DEF SequenceGoesOn
  <2>3. NothingTooEarly'
    BY <2>2 DEF NothingTooEarly, NothingWritten
  <2> QED
    BY <1>2, <2>1, <2>3
<1> QED
  BY <1>3, <1>4

\* Where no picture is added and no flag raised the limits are kept.
LEMMA LimitsStay ==
  ASSUME DecodingInv, OutputInv, app.status = "running", Lowered(picList', picList),
         sps' = sps
  PROVE  WithinLimits'
<1>1. IsList(picList, numPics) /\ numPics \in Nat /\ MaxReorder \in Nat /\ MaxBuffering \in Nat
  BY OutputFacts
<1>2. /\ Cardinality(Waiting(picList)) <= MaxReorder
      /\ Cardinality(InUse(picList)) <= MaxBuffering
      /\ Cardinality(DOMAIN picList) <= sps.buffering[MaxTid] + 1
  BY DEF OutputInv, WithinLimits, AtMostOneExtension
<1>3. /\ DOMAIN picList' = DOMAIN picList
      /\ Waiting(picList') \subseteq Waiting(picList)
      /\ InUse(picList') \subseteq InUse(picList)
  BY DEF Lowered, Waiting, InUse, References
<1>4. IsFiniteSet(Waiting(picList)) /\ IsFiniteSet(InUse(picList))
  BY <1>1, FinitePictures DEF Waiting, InUse, References
<1>5. /\ Cardinality(Waiting(picList')) <= Cardinality(Waiting(picList))
      /\ Cardinality(Waiting(picList')) \in Nat /\ Cardinality(Waiting(picList)) \in Nat
  BY <1>3, <1>4, SubsetSize
<1>6. /\ Cardinality(InUse(picList')) <= Cardinality(InUse(picList))
      /\ Cardinality(InUse(picList')) \in Nat /\ Cardinality(InUse(picList)) \in Nat
  BY <1>3, <1>4, SubsetSize
<1>7. /\ Cardinality(Waiting(picList')) <= MaxReorder
      /\ Cardinality(InUse(picList')) <= MaxBuffering
  BY <1>1, <1>2, <1>5, <1>6
<1>8. /\ MaxReorder' = MaxReorder /\ MaxBuffering' = MaxBuffering
      /\ AtMostOneExtension'
  BY <1>2, <1>3 DEF MaxReorder, MaxBuffering, AtMostOneExtension
<1> QED
  BY <1>7, <1>8 DEF WithinLimits

\* A picture fits the DPB parameters.
NewFits(p) ==
  /\ p.output => Cardinality(Following(p.poc)') <= MaxReorder
  /\ Cardinality(Pocs(MustWait(p.poc)') \cup p.refs \cup {p.poc}) <= MaxBuffering

\* What is still to come after it was expected, or follows all that was coded.
ComesLater(p) ==
  \A x \in enc'.future \cup {p.poc} : x \in enc.future \/ (x \in Int /\ x > enc.last)

\* A leading or trailing picture is coded under these conditions.
LEMMA LaterPictureFits ==
  ASSUME DecodingInv, NEW p, LaterPicture(p)
  PROVE  NewFits(p) /\ ComesLater(p) /\ enc'.future \subseteq enc.future
<1>1. /\ p.poc \in enc.future /\ ~enc.start /\ Fits(p, enc.coded, enc.future \ {p.poc})
      /\ enc'.future = enc.future \ {p.poc}
      /\ enc'.coded = enc.coded \cup {[poc |-> p.poc, tid |-> p.tid, output |-> p.output]}
  BY DEF LaterPicture, Feed, Encoded
<1>2. p.poc \notin Pocs(enc.coded) /\ p.poc \in Int
  BY <1>1, EncFacts DEF DecodingInv, CodedOnce
<1>3. \A q \in enc.coded : q.poc # p.poc
  BY <1>2 DEF Pocs
<1>4. Following(p.poc)' = {q \in enc.coded : q.output /\ q.poc > p.poc}
  BY <1>1, <1>2 DEF Following
<1>5. MustWait(p.poc)' = {q \in enc.coded : /\ q.output
                                           /\ \E x \in (enc.future \ {p.poc}) \cup {p.poc} : x < q.poc}
  BY <1>1, <1>3 DEF MustWait
<1>6. NewFits(p)
  BY <1>1, <1>4, <1>5 DEF Fits, NewFits
<1> QED
  BY <1>1, <1>6 DEF ComesLater

\* So is a CRA picture within a sequence: it follows all others.
LEMMA NextSegmentFits ==
  ASSUME DecodingInv, NEW p, NEW future, NextSegment(p, future)
  PROVE  NewFits(p) /\ ComesLater(p)
<1>1. /\ p.poc > enc.last /\ ~enc.start /\ p.poc \in Int
      /\ future \subseteq Int /\ \A x \in future : x > enc.last /\ x # p.poc
      /\ Cardinality(p.refs \cup {p.poc}) <= MaxBuffering
      /\ enc'.future = future
      /\ enc'.coded = enc.coded \cup {[poc |-> p.poc, tid |-> p.tid, output |-> p.output]}
  BY DEF NextSegment, Feed, Encoded, CodedPicture
<1>2. \A q \in enc.coded : q.poc \in Int /\ q.poc <= enc.last
  BY <1>1, SequenceFacts
<1>3. enc.last \in Int /\ MaxReorder \in Nat
  BY <1>1, SequenceFacts, SpsAssumption, MaxTidAssumption
     DEF DecodingInv, Inv, TypeOK, Sps, Tids, MaxReorder
<1>4. Following(p.poc)' = {}
  BY <1>1, <1>2, <1>3 DEF Following
<1>5. MustWait(p.poc)' = {}
  <2>1. ASSUME NEW q \in MustWait(p.poc)'
        PROVE  FALSE
    <3>1. /\ q \in enc'.coded /\ q.poc # p.poc
          /\ \E x \in enc'.future \cup {p.poc} : x < q.poc
      BY DEF MustWait
    <3>2. q \in enc.coded
      BY <1>1, <3>1
    <3>3. PICK x \in future \cup {p.poc} : x < q.poc
      BY <1>1, <3>1
    <3>4. x \in Int /\ x > enc.last
      BY <1>1
    <3> QED
      BY <1>2, <1>3, <3>2, <3>3, <3>4
  <2> QED
    BY <2>1
<1>6. Pocs({}) = {} /\ Cardinality({}) = 0
  BY FS_EmptySet DEF Pocs
<1>7. NewFits(p)
  <2>1. Pocs({}) \cup p.refs \cup {p.poc} = p.refs \cup {p.poc}
    BY <1>6
  <2>2. Cardinality(Following(p.poc)') <= MaxReorder
    BY <1>3, <1>4, <1>6
  <2>3. Pocs(MustWait(p.poc)') \cup p.refs \cup {p.poc} = p.refs \cup {p.poc}
    BY <1>5, <2>1
  <2> QED
    BY <1>1, <2>2, <2>3 DEF NewFits
<1> QED
  BY <1>1, <1>7 DEF ComesLater

\* And the first picture of a sequence.
LEMMA NewSequenceFits ==
  ASSUME DecodingInv, NEW p, NEW future, NewSequence(p, future)
  PROVE  NewFits(p)
<1>1. /\ FirstPicture(p) /\ p.poc \in Int /\ Cardinality(p.refs \cup {p.poc}) <= MaxBuffering
  BY NewSequenceIsFirst DEF NewSequence, CodedPicture
<1>2. enc'.coded = {[poc |-> p.poc, tid |-> p.tid, output |-> p.output]}
  BY <1>1 DEF FirstPicture
<1>3. Following(p.poc)' = {} /\ MustWait(p.poc)' = {}
  BY <1>1, <1>2 DEF Following, MustWait
<1>4. Pocs({}) = {} /\ Cardinality({}) = 0
  BY FS_EmptySet DEF Pocs
<1>5. Pocs({}) \cup p.refs \cup {p.poc} = p.refs \cup {p.poc}
  BY <1>4
<1>6. MaxReorder \in Nat
  BY SpsAssumption, MaxTidAssumption DEF DecodingInv, Inv, TypeOK, Sps, Tids, MaxReorder
<1> QED
  BY <1>1, <1>3, <1>4, <1>5, <1>6 DEF NewFits

-----------------------------------------------------------------------------
(* The steps that read the header of a picture.                             *)

\* The picture whose header is read now fits.
LEMMA PilotFits ==
  ASSUME NEW p, NewFits(p), pilot'.pic = p, pilot'.output => p.output, curPic' = None,
         sps' = sps
  PROVE  PictureFits'
<1>1. MaxReorder' = MaxReorder /\ MaxBuffering' = MaxBuffering
  BY DEF MaxReorder, MaxBuffering
<1> QED
  BY <1>1 DEF NewFits, PictureFits, Following, MustWait

\* A picture that starts a sequence: the flush writes all that waits.
LEMMA FirstPictureOutput ==
  ASSUME DecodingInv, OutputInv, NEW p, FirstPicture(p), NewFits(p)
  PROVE  OutputInv'
<1> DEFINE W == Waiting(picList)
<1>1. /\ DOMAIN picList' = {}
      /\ shown' = Written(shown, picList, W)
      /\ Flushes(p) \/ enc.cvs = 0
      /\ app'.pocLastDisplay = IF Flushes(p) THEN -MAX_INT ELSE app.pocLastDisplay
      /\ curPic' = None /\ pilot'.pic = p /\ (pilot'.output => p.output) /\ sps' = sps
  BY BeginFirst
<1>2. enc'.cvs = enc.cvs + 1
  BY DEF FirstPicture
<1>3. /\ numPics \in Nat /\ IsList(picList, numPics) /\ IsFile(shown, numPics)
      /\ enc.cvs \in Nat /\ MaxReorder \in Nat /\ MaxBuffering \in Nat
      /\ OneSequence(picList, enc.cvs) /\ W \cap DOMAIN shown = {}
      /\ FileKept(shown, enc.cvs) /\ Precedes(shown, picList, W, enc.cvs)
      /\ LastIsShown(shown, app.pocLastDisplay, enc.cvs)
  BY OutputFacts
<1>4. FirstToWait(picList, W)
  BY DEF FirstToWait
<1> HIDE DEF W
<1>5. Appended(shown', shown, picList, W, enc.cvs)
  BY <1>1, <1>3, <1>4, AppendedFile DEF W
<1>6. FileKept(shown', enc.cvs)
  BY <1>5 DEF Appended
<1>7. \A s \in DOMAIN shown' : shown'[s].cvs <= enc.cvs /\ shown'[s].cvs \in Nat
  <2>1. IsFile(shown', numPics)
    BY <1>1, FlushedFile DEF W, DecodingInv
  <2> QED
    BY <1>6, <2>1 DEF FileKept, IsFile, Entry
<1>8. FileKept(shown', enc'.cvs)
  <2>1. \A s \in DOMAIN shown' : shown'[s].cvs <= enc'.cvs
    BY <1>2, <1>3, <1>7
  <2> QED
    BY <1>6, <2>1 DEF FileKept
<1>9. LastIsShown(shown', app'.pocLastDisplay, enc'.cvs)
  <2>1. app'.pocLastDisplay = -MAX_INT
    <3>1. enc.cvs = 0 => app.pocLastDisplay = -MAX_INT
      BY <1>3 DEF LastIsShown
    <3> QED
      BY <1>1, <3>1
  <2> QED
    BY <2>1 DEF LastIsShown
<1>10. Waiting(picList') = {} /\ InUse(picList') = {} /\ Cardinality({}) = 0
  BY <1>1, FS_EmptySet DEF Waiting, InUse, References
<1>11. FileInOrder'
  BY <1>8, <1>9, <1>10 DEF FileInOrder, Precedes
<1>12. \A s \in DOMAIN shown' : shown'[s].cvs # enc'.cvs
  BY <1>2, <1>3, <1>7
<1>13. OutputIsCoded' /\ NothingTooEarly'
  BY <1>10, <1>12 DEF OutputIsCoded, NothingTooEarly
<1>14. WithinLimits'
  BY <1>1, <1>3, <1>10 DEF WithinLimits, AtMostOneExtension, MaxReorder, MaxBuffering
<1>15. PictureFits'
  BY <1>1, PilotFits
<1> QED
  BY <1>11, <1>13, <1>14, <1>15 DEF OutputInv

\* A picture within a sequence.
LEMMA NextPictureOutput ==
  ASSUME DecodingInv, OutputInv, NEW p, NextPicture(p), EncType', p.poc >= First,
         NewFits(p), ComesLater(p)
  PROVE  OutputInv'
<1>1. /\ picList' = picList /\ shown' = shown /\ app'.pocLastDisplay = app.pocLastDisplay
      /\ app.status = "running" /\ app'.status = "running" /\ pilot = None /\ curPic = None
      /\ pilot' # None /\ pilot'.pic = p /\ (pilot'.output => p.output)
      /\ UNCHANGED <<curPic, sps>>
  BY BeginNext
<1>2. /\ ~enc.start /\ enc'.cvs = enc.cvs
      /\ enc'.coded = enc.coded \cup {[poc |-> p.poc, tid |-> p.tid, output |-> p.output]}
  BY DEF NextPicture
<1>3. NothingWritten
  BY <1>1, <1>2 DEF NothingWritten
<1>4. SequenceGoesOn
  <2>1. ToCome' = enc'.future \cup {p.poc}
    BY <1>1 DEF ToCome, InProgress
  <2>2. enc.future \subseteq ToCome
    BY DEF ToCome
  <2> QED
    BY <1>1, <1>2, <2>1, <2>2 DEF ComesLater, SequenceGoesOn, Live
<1>5. FileInOrder' /\ OutputIsCoded' /\ NothingTooEarly'
  BY <1>3, <1>4, QuietStep
<1>6. WithinLimits'
  BY <1>1 DEF OutputInv, WithinLimits, AtMostOneExtension, MaxReorder, MaxBuffering
<1>7. PictureFits'
  BY <1>1, PilotFits
<1> QED
  BY <1>5, <1>6, <1>7 DEF OutputInv

\* Lowered flags do not add to what waits.
LEMMA LoweredWaits ==
  ASSUME NEW out, NEW pl, Lowered(out, pl)
  PROVE  \A i \in Waiting(out) : i \in Waiting(pl) /\ out[i].poc = pl[i].poc
BY DEF Lowered, Waiting

\* A picture that is skipped.
LEMMA SkippedPictureOutput ==
  ASSUME DecodingInv, OutputInv, NEW p, NextPicture(p), EncType', p.poc < First,
         enc'.future \subseteq enc.future
  PROVE  OutputInv'
<1> DEFINE a == [app EXCEPT !.newCLVS = NewCLVS(p), !.picSkipped = TRUE,
                            !.prevPicSkipped = @ \/ p.type # "RASL"]
<1>1. /\ SkipPicture(p) /\ ~enc.start /\ enc'.cvs = enc.cvs
      /\ enc'.coded = enc.coded \cup {[poc |-> p.poc, tid |-> p.tid, output |-> p.output]}
  BY DEF NextPicture
<1>2. /\ app.status = "running" /\ pilot = None /\ curPic = None
      /\ EndOfIteration(picList, a) /\ UNCHANGED <<pilot, curPic, sps>>
  BY <1>1 DEF SkipPicture, stream
<1>3. app \in DecAppVariables /\ NewCLVS(p) \in BOOLEAN
  BY InvFacts DEF DecodingInv, NewCLVS, DecAppVariables
<1>4. /\ a \in DecAppVariables /\ a.pocLastDisplay = app.pocLastDisplay
      /\ a.gdrRecoveryPeriod = app.gdrRecoveryPeriod
  BY <1>3 DEF DecAppVariables
<1> HIDE DEF a
<1>5. /\ Lowered(picList', picList) /\ shown' = shown
      /\ app'.pocLastDisplay = app.pocLastDisplay
  BY <1>2, <1>4, IdleOutput
<1>6. NothingWritten
  BY <1>1, <1>2, <1>5, LoweredWaits DEF NothingWritten
<1>7. SequenceGoesOn
  BY <1>1, <1>2 DEF SequenceGoesOn, ToCome, InProgress, Live
<1>8. FileInOrder' /\ OutputIsCoded' /\ NothingTooEarly'
  BY <1>6, <1>7, QuietStep
<1>9. WithinLimits' /\ PictureFits'
  BY <1>2, <1>5, LimitsStay DEF PictureFits
<1> QED
  BY <1>8, <1>9 DEF OutputInv

\* An EOS after it.
LEMMA EosAfterSkipOutput ==
  ASSUME DecodingInv, OutputInv, Forgotten, EndOfSequenceAfterSkip
  PROVE  OutputInv'
<1> DEFINE a == [app EXCEPT !.newCLVS = TRUE, !.eosInLastPu = TRUE]
<1>1. /\ EncType' /\ enc'.start /\ enc'.cvs = enc.cvs /\ enc.cvs > 0 /\ enc.cvs \in Nat
  BY ForgottenFacts
<1>2. /\ app.status = "running" /\ pilot = None /\ curPic = None
      /\ UNCHANGED <<pilot, curPic, sps>>
  BY DEF EndOfSequenceAfterSkip, stream
<1>3. EndOfIteration(picList, a)
  <2>1. app.picListSet
    BY <1>1, <1>2 DEF DecodingInv, Control, Between
  <2> QED
    BY <2>1 DEF EndOfSequenceAfterSkip
<1>4. /\ a \in DecAppVariables /\ a.pocLastDisplay = app.pocLastDisplay
      /\ a.gdrRecoveryPeriod = app.gdrRecoveryPeriod
  BY InvFacts DEF DecodingInv, DecAppVariables
<1> HIDE DEF a
<1>5. /\ Lowered(picList', picList) /\ shown' = shown
      /\ app'.pocLastDisplay = app.pocLastDisplay
  BY <1>2, <1>3, <1>4, IdleOutput
<1>6. NothingWritten
  BY <1>1, <1>2, <1>5, LoweredWaits DEF NothingWritten
<1>7. FileInOrder' /\ OutputIsCoded' /\ NothingTooEarly'
  BY <1>1, <1>6, QuietStep
<1>8. WithinLimits' /\ PictureFits'
  BY <1>2, <1>5, LimitsStay DEF PictureFits
<1> QED
  BY <1>7, <1>8 DEF OutputInv

-----------------------------------------------------------------------------
(* The steps that decode a picture.                                         *)

\* A picture inserted for a lost reference neither waits nor exceeds what the
\* GDR picture was allowed to refer to.
LEMMA InsertedPictureOutput ==
  ASSUME DecodingInv, OutputInv, DecodingInv', InsertUnavailablePicture, enc' = enc
  PROVE  OutputInv'
<1> DEFINE p == pilot.pic
<1>1. /\ app.status = "running" /\ pilot # None /\ pilot' = pilot /\ curPic' = curPic
      /\ UNCHANGED <<app, sps, shown>>
  BY DEF InsertUnavailablePicture, stream, history
<1>2. curPic = None /\ ~enc.start
  BY <1>1 DEF DecodingInv, Inv, OneAtATime, Control, Between
<1>3. p.type = "GDR"
  BY <1>1, NothingMissing DEF InsertUnavailablePicture
<1>4. \A i \in DOMAIN picList' : picList'[i].poc \in p.refs /\ ~picList'[i].needed
  BY <1>1, <1>3 DEF DecodingInv, PilotIsNext
<1>5. /\ numPics' \in Nat /\ IsList(picList', numPics') /\ OneSequence(picList', enc.cvs)
      /\ IsFiniteSet(p.refs)
  <2>1. numPics' \in Nat /\ IsList(picList', numPics')
    BY DEF DecodingInv, Inv, TypeOK, IsList
  <2>2. OneSequence(picList', enc.cvs)
    BY DEF DecodingInv, OnePicturePerPoc, OneSequence
  <2> QED
    BY <1>1, <2>1, <2>2 DEF DecodingInv, PilotIsNext
<1>6. Waiting(picList') = {} /\ Cardinality({}) = 0
  BY <1>4, FS_EmptySet DEF Waiting
<1>7. NothingWritten /\ SequenceGoesOn
  BY <1>1, <1>2, <1>6
     DEF NothingWritten, SequenceGoesOn, ToCome, InProgress, Live
<1>8. FileInOrder' /\ OutputIsCoded' /\ NothingTooEarly'
  BY <1>7, QuietStep DEF DecodingInv
<1>9. MaxReorder' = MaxReorder /\ MaxBuffering' = MaxBuffering
      /\ MaxReorder \in Nat /\ MaxBuffering \in Nat
  BY <1>1, OutputFacts DEF MaxReorder, MaxBuffering
<1>10. Cardinality(Pocs(MustWait(p.poc)) \cup p.refs \cup {p.poc}) <= MaxBuffering
  BY <1>1 DEF OutputInv, PictureFits
<1>11. Cardinality(DOMAIN picList') <= MaxBuffering /\ Cardinality(DOMAIN picList') \in Nat
  <2> DEFINE M == Pocs(MustWait(p.poc)) \cup p.refs \cup {p.poc}
             R == {picList'[i].poc : i \in DOMAIN picList'}
  <2>1. IsFiniteSet(M)
    <3>1. IsFiniteSet(MustWait(p.poc))
      BY EncFacts, FS_Subset DEF MustWait, DecodingInv
    <3>2. IsFiniteSet(Pocs(MustWait(p.poc)) \cup p.refs) /\ IsFiniteSet({p.poc})
      BY <1>5, <3>1, PocsFinite, FS_Union, FS_Singleton
    <3> QED
      BY <3>2, FS_Union
  <2>2. R \subseteq M
    BY <1>4
  <2>3. Cardinality(R) = Cardinality(DOMAIN picList')
    <3>1. ASSUME NEW D, D \subseteq DOMAIN picList'
          PROVE  Cardinality({picList'[i].poc : i \in D}) = Cardinality(D)
      BY ONLY <1>5, <3>1, ListPocs
    <3> QED
      BY <3>1
  <2>4. Cardinality(M) <= MaxBuffering
    BY <1>10
  <2> HIDE DEF M, R
  <2>5. Cardinality(R) <= Cardinality(M) /\ Cardinality(R) \in Nat /\ Cardinality(M) \in Nat
    BY <2>1, <2>2, SubsetSize
  <2> QED
    BY <1>9, <2>3, <2>4, <2>5
<1>12. Cardinality(InUse(picList')) <= MaxBuffering
  <2>1. InUse(picList') \subseteq DOMAIN picList' /\ IsFiniteSet(DOMAIN picList')
    BY <1>5, FinitePictures DEF InUse, Waiting, References
  <2>2. /\ Cardinality(InUse(picList')) <= Cardinality(DOMAIN picList')
        /\ Cardinality(InUse(picList')) \in Nat
    BY <2>1, SubsetSize
  <2> QED
    BY <1>9, <1>11, <2>2
<1>13. WithinLimits'
  <2>1. AtMostOneExtension'
    BY <1>1, <1>9, <1>11 DEF AtMostOneExtension, MaxBuffering
  <2> QED
    BY <1>6, <1>9, <1>12, <2>1 DEF WithinLimits
<1>14. PictureFits'
  BY <1>1, <1>2, <1>9 DEF OutputInv, PictureFits, Following, MustWait
<1> QED
  BY <1>8, <1>13, <1>14 DEF OutputInv

\* A list that may be bumped when the picture with POC c is in progress.
Bumpable(pl, n, c) ==
  /\ n \in Nat /\ IsList(pl, n) /\ OneSequence(pl, enc.cvs) /\ IsFile(shown, n)
  /\ Waiting(pl) \cap DOMAIN shown = {} /\ Precedes(shown, pl, Waiting(pl), enc.cvs)
  /\ \A i \in Waiting(pl) : \E q \in enc.coded : q.output /\ q.poc = pl[i].poc
  /\ c \in Int /\ InProgress = {c}
  /\ \A i \in Waiting(pl) : pl[i].poc = c => c \in ReferencePocs(pl)
  /\ Cardinality(Pocs(MustWait(c)) \cup ReferencePocs(pl)) <= MaxBuffering

\* It may still be bumped after some of its pictures were suppressed.
LEMMA BumpableLowered ==
  ASSUME NEW pl, NEW n, NEW c, Bumpable(pl, n, c), NEW out, Lowered(out, pl), IsList(out, n)
  PROVE  Bumpable(out, n, c)
<1>1. \A i \in Waiting(out) : i \in Waiting(pl) /\ out[i].poc = pl[i].poc
  BY LoweredWaits
<1>2. OneSequence(out, enc.cvs) /\ ReferencePocs(out) = ReferencePocs(pl)
  BY LoweredSequence DEF Bumpable
<1>3. Precedes(shown, out, Waiting(out), enc.cvs)
  BY <1>1 DEF Bumpable, Precedes
<1> QED
  BY <1>1, <1>2, <1>3 DEF Bumpable

\* What may be still to come after the step: nothing of the sequence any more,
\* or part of what was, and nothing that waits.
StillToCome(pl, c) ==
  \/ enc'.start /\ enc'.cvs = enc.cvs
  \/ enc' = enc /\ \A x \in ToCome' :
       x \in enc.future \cup {c} /\ \A i \in Waiting(pl) : pl[i].poc # x

\* What a step with bumping keeps.
LEMMA BumpedStep ==
  ASSUME DecodingInv, OutputInv, ~enc.start, Live, NEW pl, NEW n, NEW c, Bumpable(pl, n, c),
         NEW a \in DecAppVariables, a.pocLastDisplay = app.pocLastDisplay, WriteOutput(pl, a),
         sps' = sps, StillToCome(pl, c)
  PROVE  /\ Lowered(picList', pl) /\ FileInOrder' /\ OutputIsCoded' /\ NothingTooEarly'
         /\ Cardinality(Waiting(picList')) <= MaxReorder
         /\ Cardinality(InUse(picList')) <= MaxBuffering
<1>1. /\ n \in Nat /\ IsList(pl, n) /\ OneSequence(pl, enc.cvs) /\ IsFile(shown, n)
      /\ Waiting(pl) \cap DOMAIN shown = {} /\ Precedes(shown, pl, Waiting(pl), enc.cvs)
      /\ \A i \in Waiting(pl) : \E q \in enc.coded : q.output /\ q.poc = pl[i].poc
      /\ c \in Int /\ InProgress = {c}
      /\ \A i \in Waiting(pl) : pl[i].poc = c => c \in ReferencePocs(pl)
      /\ Cardinality(Pocs(MustWait(c)) \cup ReferencePocs(pl)) <= MaxBuffering
  BY DEF Bumpable
<1>2. /\ enc.cvs \in Nat /\ MaxReorder \in Nat /\ MaxBuffering \in Nat
      /\ FileKept(shown, enc.cvs) /\ LastIsShown(shown, app.pocLastDisplay, enc.cvs)
  BY OutputFacts
<1>3. enc.cvs > 0 /\ enc'.cvs = enc.cvs
  BY <1>2 DEF DecodingInv, Control, StillToCome
<1>4. BumpedOut(pl, enc.cvs)
  BY <1>1, <1>2, <1>3, BumpingEffect
<1>5. /\ Lowered(picList', pl) /\ Waiting(picList') \subseteq Waiting(pl)
      /\ FileKept(shown', enc.cvs) /\ Precedes(shown', picList', Waiting(picList'), enc.cvs)
      /\ LastIsShown(shown', app'.pocLastDisplay, enc.cvs)
      /\ Cardinality(Waiting(picList')) <= MaxReorder
      /\ Waiting(picList') # {} => Cardinality(InUse(picList')) <= MaxBuffering
      /\ DOMAIN shown \subseteq DOMAIN shown' /\ \A s \in DOMAIN shown : shown'[s] = shown[s]
      /\ \A s \in DOMAIN shown' \ DOMAIN shown :
           /\ s \in Waiting(pl) /\ shown'[s].poc = pl[s].poc /\ shown'[s].cvs = enc.cvs
           /\ \/ Cardinality(Rest(pl, s)) > MaxReorder
              \/ Cardinality(Rest(pl, s) \cup References(pl)) > MaxBuffering
  BY <1>4 DEF BumpedOut
<1>6. FileInOrder'
  BY <1>3, <1>5 DEF FileInOrder
<1>7. Cardinality(InUse(picList')) <= MaxBuffering
  <2>1. CASE Waiting(picList') # {}
    BY <1>5, <2>1
  <2>2. CASE Waiting(picList') = {}
    <3>1. InUse(picList') = References(pl)
      BY <1>5, <2>2 DEF InUse, Lowered, References
    <3>2. References(pl) \subseteq DOMAIN pl
      BY DEF References
    <3>3. /\ IsFiniteSet(ReferencePocs(pl))
          /\ Cardinality(ReferencePocs(pl)) = Cardinality(References(pl))
      <4>1. n \in Nat /\ IsList(pl, n) /\ OneSequence(pl, enc.cvs)
        BY <1>1
      <4> QED
        BY ONLY <3>2, <4>1, ListPocs DEF ReferencePocs
    <3>4. IsFiniteSet(Pocs(MustWait(c)))
      <4>1. IsFiniteSet(MustWait(c))
        BY EncFacts, FS_Subset DEF MustWait, DecodingInv
      <4> QED
        BY <4>1, PocsFinite
    <3>5. IsFiniteSet(Pocs(MustWait(c)) \cup ReferencePocs(pl))
      BY <3>3, <3>4, FS_Union
    <3>6. /\ Cardinality(ReferencePocs(pl)) <= Cardinality(Pocs(MustWait(c)) \cup ReferencePocs(pl))
          /\ Cardinality(ReferencePocs(pl)) \in Nat
          /\ Cardinality(Pocs(MustWait(c)) \cup ReferencePocs(pl)) \in Nat
      BY <3>5, SubsetSize
    <3> QED
      BY <1>1, <1>2, <3>1, <3>3, <3>6
  <2> QED
    BY <2>1, <2>2
<1>8. CASE enc'.start
  BY <1>5, <1>6, <1>7, <1>8 DEF OutputIsCoded, NothingTooEarly
<1>9. CASE enc' = enc /\ \A x \in ToCome' :
             x \in enc.future \cup {c} /\ \A i \in Waiting(pl) : pl[i].poc # x
  <2>1. OutputIsCoded'
    <3>1. \A s \in DOMAIN shown : shown[s].cvs = enc.cvs => shown[s].poc \in Pocs(enc.coded)
      BY DEF OutputInv, OutputIsCoded
    <3>2. ASSUME NEW s \in DOMAIN shown', shown'[s].cvs = enc.cvs
          PROVE  shown'[s].poc \in Pocs(enc.coded)
      <4>1. CASE s \in DOMAIN shown
        BY <1>5, <3>1, <3>2, <4>1
      <4>2. CASE s \notin DOMAIN shown
        <5>1. s \in Waiting(pl) /\ shown'[s].poc = pl[s].poc
          BY <1>5, <4>2
        <5>2. PICK q \in enc.coded : q.poc = pl[s].poc
          BY <1>1, <5>1
        <5> QED
          BY <5>1, <5>2 DEF Pocs
      <4> QED
        BY <4>1, <4>2
    <3>3. \A i \in Waiting(picList') : \E q \in enc.coded : q.output /\ q.poc = picList'[i].poc
      <4>1. \A i \in Waiting(picList') : i \in Waiting(pl) /\ picList'[i].poc = pl[i].poc
        BY <1>5, LoweredWaits
      <4> QED
        BY <1>1, <4>1
    <3> QED
      BY <1>9, <3>2, <3>3 DEF OutputIsCoded
  <2>2. ASSUME NEW x \in ToCome', NEW s \in DOMAIN shown', shown'[s].cvs = enc.cvs
        PROVE  /\ x # shown'[s].poc
               /\ x < shown'[s].poc => Cardinality(Following(x)) > MaxReorder
    <3>1. CASE s \in DOMAIN shown
      <4>1. x \in ToCome /\ shown[s].cvs = enc.cvs /\ shown'[s] = shown[s]
        BY <1>1, <1>5, <1>9, <2>2, <3>1 DEF ToCome
      <4> QED
        BY <3>1, <4>1 DEF OutputInv, NothingTooEarly
    <3>2. CASE s \notin DOMAIN shown
      <4>1. /\ s \in Waiting(pl) /\ shown'[s].poc = pl[s].poc
            /\ \/ Cardinality(Rest(pl, s)) > MaxReorder
               \/ Cardinality(Rest(pl, s) \cup References(pl)) > MaxBuffering
        BY <1>5, <2>2, <3>2
      <4>2. x \in enc.future \cup {c} /\ x # pl[s].poc
        BY <1>9, <2>2, <4>1
      <4>3. x < pl[s].poc => Cardinality(Following(x)) > MaxReorder
        BY <1>1, <1>2, <4>1, <4>2, WrittenInTime DEF DecodingInv
      <4> QED
        BY <4>1, <4>2, <4>3
    <3> QED
      BY <3>1, <3>2
  <2>3. NothingTooEarly'
    <3>1. MaxReorder' = MaxReorder
      BY DEF MaxReorder
    <3>2. \A x : Following(x)' = Following(x)
      BY <1>9 DEF Following
    <3> QED
      BY <1>9, <2>2, <3>1, <3>2 DEF NothingTooEarly
  <2> QED
    BY <1>5, <1>6, <1>7, <2>1, <2>3
<1> QED
  BY <1>8, <1>9 DEF StillToCome

\* A POC still to come is not that of a picture that waits.
LEMMA ToComeIsNew ==
  ASSUME DecodingInv, OutputInv, ~enc.start, NEW x \in enc.future, NEW i \in Waiting(picList)
  PROVE  picList[i].poc # x
<1>1. PICK q \in enc.coded : q.poc = picList[i].poc
  BY DEF OutputInv, OutputIsCoded
<1>2. x \notin Pocs(enc.coded)
  BY DEF DecodingInv, CodedOnce
<1> QED
  BY <1>1, <1>2 DEF Pocs

\* The list in which a picture is decoded may be bumped.
LEMMA ActivatedBumpable ==
  ASSUME DecodingInv, OutputInv, app.status = "running", pilot # None, numPics \in Nat,
         DecodableList(Activated, numPics + 1), OneSequence(Activated, enc.cvs)
  PROVE  /\ Bumpable(Activated, numPics + 1, pilot.pic.poc)
         /\ Waiting(Activated) = Waiting(picList)
         /\ \A i \in Waiting(picList) : Activated[i].poc = picList[i].poc
         /\ \A i \in Waiting(picList), x \in enc.future \cup {pilot.pic.poc} : picList[i].poc # x
<1> DEFINE p == pilot.pic
           m == numPics + 1
<1>1. /\ IsList(Activated, m) /\ m \in DOMAIN Activated
      /\ Activated[m] = [poc |-> p.poc, referenced |-> TRUE, needed |-> FALSE,
                         reconstructed |-> FALSE, cvs |-> p.cvs]
      /\ m \notin DOMAIN picList /\ Waiting(Activated) = Waiting(picList)
      /\ \A i \in DOMAIN Activated \ {m} :
           /\ Activated[i].poc = picList[i].poc
           /\ Activated[i].referenced => Activated[i].poc \in p.refs
  BY DEF DecodableList
<1>2. /\ ~enc.start /\ p.poc \in Int /\ IsFiniteSet(p.refs)
      /\ \A i \in DOMAIN picList : picList[i].poc # p.poc
  BY PilotType DEF DecodingInv, PilotIsNext, Control, Between
<1>3. /\ IsFile(shown, numPics) /\ Waiting(picList) \cap DOMAIN shown = {}
      /\ Precedes(shown, picList, Waiting(picList), enc.cvs) /\ MaxBuffering \in Nat
  BY OutputFacts
<1>4. \A i \in Waiting(picList) : i \in DOMAIN picList /\ Activated[i].poc = picList[i].poc
  BY <1>1 DEF Waiting
<1>5. IsFile(shown, m) /\ m \in Nat
  BY <1>3 DEF IsFile
<1>6. Precedes(shown, Activated, Waiting(Activated), enc.cvs)
  BY <1>1, <1>3, <1>4 DEF Precedes
<1>7. \A i \in Waiting(Activated) : \E q \in enc.coded : q.output /\ q.poc = Activated[i].poc
  BY <1>1, <1>2, <1>4 DEF OutputInv, OutputIsCoded
<1>8. \A i \in Waiting(Activated) : Activated[i].poc # p.poc
  BY <1>1, <1>2, <1>4
<1>9. ReferencePocs(Activated) \subseteq p.refs \cup {p.poc}
  BY <1>1 DEF ReferencePocs, References
<1>10. Cardinality(Pocs(MustWait(p.poc)) \cup ReferencePocs(Activated)) <= MaxBuffering
  <2> DEFINE M == Pocs(MustWait(p.poc)) \cup p.refs \cup {p.poc}
             R == Pocs(MustWait(p.poc)) \cup ReferencePocs(Activated)
  <2>1. IsFiniteSet(M)
    <3>1. IsFiniteSet(MustWait(p.poc))
      BY EncFacts, FS_Subset DEF MustWait, DecodingInv
    <3>2. IsFiniteSet(Pocs(MustWait(p.poc)) \cup p.refs) /\ IsFiniteSet({p.poc})
      BY <1>2, <3>1, PocsFinite, FS_Union, FS_Singleton
    <3> QED
      BY <3>2, FS_Union
  <2>2. R \subseteq M
    BY <1>9
  <2>3. Cardinality(M) <= MaxBuffering
    BY DEF OutputInv, PictureFits
  <2> HIDE DEF M
  <2>4. Cardinality(R) <= Cardinality(M) /\ Cardinality(R) \in Nat /\ Cardinality(M) \in Nat
    BY <2>1, <2>2, SubsetSize
  <2> QED
    BY <1>3, <2>3, <2>4
<1>11. InProgress = {p.poc}
  BY DEF InProgress
<1>12. Waiting(Activated) \cap DOMAIN shown = {}
  BY <1>1, <1>3
<1>13. Bumpable(Activated, m, p.poc)
  BY <1>1, <1>2, <1>5, <1>6, <1>7, <1>8, <1>10, <1>11, <1>12 DEF Bumpable
<1>14. \A i \in Waiting(picList), x \in enc.future \cup {p.poc} : picList[i].poc # x
  BY <1>2, <1>4, ToComeIsNew
<1> QED
  BY <1>1, <1>4, <1>13, <1>14

\* Finding a buffer extends the list by one picture at most.
LEMMA ActivatedSize ==
  ASSUME DecodingInv, OutputInv, app.status = "running", pilot # None
  PROVE  Cardinality(DOMAIN Activated) <= MaxBuffering + 1
<1> DEFINE p == pilot.pic
           list == IF p.type = "IDR" THEN picList ELSE Marked(picList, p.poc, p.refs)
           limit == sps.buffering[p.tid]
           pic == [poc |-> p.poc, referenced |-> TRUE, needed |-> FALSE,
                   reconstructed |-> FALSE, cvs |-> p.cvs]
<1>1. numPics \in Nat /\ IsList(picList, numPics) /\ MaxBuffering \in Nat
  BY OutputFacts
<1>2. p \in CodedPicture
  BY PilotType DEF DecodingInv
<1>3. limit \in Nat /\ limit <= MaxBuffering
  BY <1>2, SpsAssumption, LayersAssumption
     DEF DecodingInv, Inv, TypeOK, Sps, CodedPicture, MaxBuffering
<1>4. pic \in Buffer
  BY <1>2 DEF CodedPicture, Buffer
<1>5. IsList(list, numPics) /\ DOMAIN list = DOMAIN picList /\ InUse(list) \subseteq InUse(picList)
  <2>1. CASE p.type = "IDR"
    BY <1>1, <2>1
  <2>2. CASE p.type # "IDR"
    <3> DEFINE out == Marked(picList, p.poc, p.refs)
    <3>1. /\ IsList(out, numPics) /\ DOMAIN out = DOMAIN picList
          /\ \A i \in DOMAIN picList :
               /\ out[i].poc = picList[i].poc /\ out[i].cvs = picList[i].cvs
               /\ out[i].referenced =
                    (picList[i].referenced /\ picList[i].poc \in p.refs \cup {p.poc})
               /\ out[i].needed = picList[i].needed
               /\ out[i].reconstructed = picList[i].reconstructed
          /\ Waiting(out) = Waiting(picList)
      BY <1>1, MarkedKeeps
    <3>2. list = out
      BY <2>2
    <3> HIDE DEF out, list
    <3> QED
      BY <3>1, <3>2 DEF InUse, References
  <2> QED
    BY <2>1, <2>2
<1>6. Activated = WithPicture(list, numPics + 1, limit, pic)
  BY DEF Activated
<1> HIDE DEF list, limit, pic, p
<1> DEFINE size == Cardinality(DOMAIN Activated)
<1>7. size <= limit \/ size <= Cardinality(DOMAIN list) \/ size <= Cardinality(InUse(list)) + 1
  <2>1. LET out == Cardinality(DOMAIN WithPicture(list, numPics + 1, limit, pic))
        IN out <= limit \/ out <= Cardinality(DOMAIN list) \/ out <= Cardinality(InUse(list)) + 1
    BY <1>1, <1>3, <1>4, <1>5, ListSize
  <2> QED
    BY <1>6, <2>1
<1>8. /\ Cardinality(DOMAIN picList) <= MaxBuffering + 1
      /\ Cardinality(InUse(picList)) <= MaxBuffering
  BY DEF OutputInv, WithinLimits, AtMostOneExtension, MaxBuffering
<1>9. IsFiniteSet(InUse(picList)) /\ Cardinality(DOMAIN picList) \in Nat
  BY <1>1, FinitePictures DEF InUse, Waiting, References
<1>10. /\ Cardinality(InUse(list)) <= Cardinality(InUse(picList))
       /\ Cardinality(InUse(list)) \in Nat /\ Cardinality(InUse(picList)) \in Nat
  BY <1>5, <1>9, SubsetSize
<1>11. size \in Nat
  <2>1. IsList(Activated, numPics + 1) /\ numPics + 1 \in Nat
    BY <1>1, ActivatedList DEF DecodingInv
  <2> QED
    BY <2>1, FinitePictures
<1> QED
  BY <1>1, <1>3, <1>5, <1>7, <1>8, <1>9, <1>10, <1>11

\* The picture is decoded.
LEMMA ActivatedPictureOutput ==
  ASSUME DecodingInv, OutputInv, DecodingInv', NEW last \in BOOLEAN, ActivatePicture(last),
         enc' = enc
  PROVE  OutputInv'
<1> DEFINE p == pilot.pic
           m == numPics + 1
           a == [app EXCEPT
                   !.gdrRecoveryPeriod = @ \/ (app.prevPicSkipped /\ p.type = "GDR"),
                   !.prevPicSkipped = @ /\ p.type = "RASL"]
<1>1. /\ app.status = "running" /\ pilot # None /\ numPics \in Nat
      /\ pilot' = None /\ sps' = sps
      /\ curPic' # None /\ curPic'.id = m /\ curPic'.output = pilot.output
      /\ DecodableList(Activated, m) /\ Lowered(picList', Activated)
  BY ActivateEffect
<1>2. ~enc.start /\ Live /\ m \in Nat
  BY <1>1 DEF DecodingInv, Control, Between, Live
<1>3. IF last
      THEN /\ picList' = Activated
           /\ app' = [a EXCEPT !.status = "lastPicture"]
           /\ UNCHANGED <<shown, discarded>>
      ELSE EndOfIteration(Activated, a)
  BY DEF ActivatePicture
<1>4. /\ a \in DecAppVariables /\ a.pocLastDisplay = app.pocLastDisplay
  BY InvFacts DEF DecodingInv, DecAppVariables
<1>5. OneSequence(Activated, enc.cvs)
  <2>1. OneSequence(picList', enc.cvs)
    BY DEF DecodingInv, OnePicturePerPoc, OneSequence
  <2> QED
    BY <1>1, <2>1 DEF Lowered, OneSequence
<1>6. /\ Bumpable(Activated, m, p.poc) /\ Waiting(Activated) = Waiting(picList)
      /\ \A i \in Waiting(picList) : Activated[i].poc = picList[i].poc
      /\ \A i \in Waiting(picList), x \in enc.future \cup {p.poc} : picList[i].poc # x
  BY <1>1, <1>5, ActivatedBumpable
<1>7. picList'[m].poc = p.poc /\ ToCome' = enc.future \cup {p.poc}
  <2>1. picList'[m].poc = p.poc
    BY <1>1 DEF DecodableList, Lowered
  <2> QED
    BY <1>1, <2>1 DEF ToCome, InProgress
<1>8. /\ MaxReorder' = MaxReorder /\ MaxBuffering' = MaxBuffering
      /\ Cardinality(DOMAIN picList') <= MaxBuffering + 1
  BY <1>1, ActivatedSize DEF MaxReorder, MaxBuffering, Lowered
<1>9. PictureFits'
  <2>1. ReferencePocs(picList') = ReferencePocs(Activated)
    BY <1>1, <1>5, LoweredSequence
  <2>2. Cardinality(Pocs(MustWait(p.poc)) \cup ReferencePocs(Activated)) <= MaxBuffering
    BY <1>6 DEF Bumpable
  <2>3. pilot.output => Cardinality(Following(p.poc)) <= MaxReorder
    BY <1>1 DEF OutputInv, PictureFits
  <2> QED
    BY <1>1, <1>7, <1>8, <2>1, <2>2, <2>3 DEF PictureFits, Following, MustWait
<1>10. /\ FileInOrder' /\ OutputIsCoded' /\ NothingTooEarly'
       /\ app'.status = "running" => /\ Cardinality(Waiting(picList')) <= MaxReorder
                                     /\ Cardinality(InUse(picList')) <= MaxBuffering
  <2>1. CASE last
    <3>1. /\ picList' = Activated /\ shown' = shown
          /\ app' = [a EXCEPT !.status = "lastPicture"]
      BY <1>3, <2>1
    <3> HIDE DEF a
    <3>2. app'.pocLastDisplay = app.pocLastDisplay /\ app'.status = "lastPicture"
      BY <1>4, <3>1 DEF DecAppVariables
    <3>3. NothingWritten
      BY <1>1, <1>6, <3>1, <3>2 DEF NothingWritten
    <3>4. SequenceGoesOn
      <4>1. ToCome' = ToCome
        BY <1>1, <1>7 DEF ToCome, InProgress
      <4> QED
        BY <1>2, <4>1 DEF SequenceGoesOn
    <3>5. EncType'
      BY DEF DecodingInv
    <3> QED
      BY <3>2, <3>3, <3>4, <3>5, QuietStep
  <2>2. CASE ~last
    <3>1. WriteOutput(Suppress(Activated, a), a)
      BY <1>3, <2>2 DEF EndOfIteration
    <3> HIDE DEF a
    <3>2. IsList(Activated, m)
      BY <1>6 DEF Bumpable
    <3>3. /\ IsList(Suppress(Activated, a), m) /\ Lowered(Suppress(Activated, a), Activated)
      BY <1>2, <1>4, <3>2, SuppressEffect
    <3> DEFINE sl == Suppress(Activated, a)
    <3>4. Bumpable(sl, m, p.poc)
      BY <1>6, <3>3, BumpableLowered
    <3>5. StillToCome(sl, p.poc)
      <4>1. \A i \in Waiting(sl) : i \in Waiting(Activated) /\ sl[i].poc = Activated[i].poc
        BY <3>3, LoweredWaits
      <4> HIDE DEF sl
      <4> QED
        BY <1>6, <1>7, <4>1 DEF StillToCome
    <3> HIDE DEF sl, p, m
    <3>6. WriteOutput(sl, a)
      BY <3>1 DEF sl
    <3> QED
      BY <1>1, <1>2, <1>4, <3>4, <3>5, <3>6, BumpedStep
  <2> QED
    BY <2>1, <2>2
<1>11. WithinLimits'
  BY <1>1, <1>8, <1>10 DEF WithinLimits, AtMostOneExtension, MaxBuffering
<1> QED
  BY <1>9, <1>10, <1>11 DEF OutputInv

-----------------------------------------------------------------------------
(* The steps that finish a picture, and the last flush.                     *)

\* The list in which the picture is finished may be bumped: if it is to be
\* output it comes after what is in the file of its sequence.
LEMMA FinishedBumpable ==
  ASSUME DecodingInv, OutputInv, curPic # None, Live, NEW c \in BOOLEAN,
         c => curPic.type # "RASL"
  PROVE  /\ Bumpable(Finished(c), numPics, picList[curPic.id].poc)
         /\ \A i \in Waiting(Finished(c)), x \in enc.future : Finished(c)[i].poc # x
<1> DEFINE list == Finished(c)
           id == curPic.id
           poc == picList[id].poc
           cur == IF curPic.output THEN {id} ELSE {}
<1>1. /\ SamePictures(list, picList) /\ id \in DOMAIN picList
      /\ Waiting(list) = Waiting(picList) \cup cur
  BY FinishedPicture DEF DecodingInv
<1>2. /\ numPics \in Nat /\ IsList(list, numPics) /\ id \notin DOMAIN shown
  BY InvFacts, FinishedList DEF DecodingInv, Inv, OneAtATime, Fates
<1>3. /\ IsFile(shown, numPics) /\ Waiting(picList) \cap DOMAIN shown = {}
      /\ OneSequence(picList, enc.cvs) /\ MaxReorder \in Nat
      /\ Precedes(shown, picList, Waiting(picList), enc.cvs)
      /\ IsList(picList, numPics)
  BY OutputFacts
<1>4. ~enc.start /\ pilot = None /\ poc \in Int
  BY <1>1, <1>3 DEF DecodingInv, Control, Between, Inv, OneAtATime, IsList, Buffer
<1>5. /\ picList[id].referenced /\ poc \notin enc.future
      /\ \E q \in enc.coded : q.poc = poc /\ (curPic.output => q.output)
  BY DEF DecodingInv, CurrentIsCoded
<1>6. /\ curPic.output => Cardinality(Following(poc)) <= MaxReorder
      /\ Cardinality(Pocs(MustWait(poc)) \cup ReferencePocs(picList)) <= MaxBuffering
  BY DEF OutputInv, PictureFits
<1>7. InProgress = {poc} /\ poc \in ToCome
  BY <1>4 DEF InProgress, ToCome
<1> HIDE DEF list, id, poc
<1>8. \A i \in DOMAIN picList : list[i].poc = picList[i].poc /\ list[i].cvs = picList[i].cvs
                                /\ list[i].referenced = picList[i].referenced
  BY <1>1 DEF SamePictures
<1>9. OneSequence(list, enc.cvs) /\ References(list) = References(picList)
  BY <1>1, <1>3, <1>8 DEF OneSequence, References, SamePictures
<1>10. ReferencePocs(list) = ReferencePocs(picList)
  BY <1>8, <1>9 DEF ReferencePocs, References
<1>11. Waiting(list) \cap DOMAIN shown = {}
  BY <1>1, <1>2, <1>3
<1>12. Precedes(shown, list, Waiting(list), enc.cvs)
  <2>1. ASSUME NEW i \in Waiting(list), NEW s \in DOMAIN shown, shown[s].cvs = enc.cvs
        PROVE  shown[s].poc < list[i].poc
    <3>1. CASE i \in Waiting(picList)
      BY <1>3, <1>8, <2>1, <3>1 DEF Precedes, Waiting
    <3>2. CASE i = id /\ curPic.output
      <4>1. poc # shown[s].poc /\ (poc < shown[s].poc => Cardinality(Following(poc)) > MaxReorder)
        BY <1>4, <1>7, <2>1 DEF OutputInv, NothingTooEarly
      <4>2. shown[s].poc \in Int
        BY <1>3 DEF IsFile, Entry
      <4>3. Cardinality(Following(poc)) \in Nat
        <5>1. IsFiniteSet(Following(poc))
          BY EncFacts, FS_Subset DEF Following, DecodingInv
        <5> QED
          BY <5>1, FS_CardinalityType
      <4>4. list[i].poc = poc
        BY <1>1, <1>8, <3>2 DEF poc
      <4> QED
        BY <1>3, <1>4, <1>6, <3>2, <4>1, <4>2, <4>3, <4>4
    <3> QED
      BY <1>1, <2>1, <3>1, <3>2
  <2> QED
    BY <2>1 DEF Precedes
<1>13. \A i \in Waiting(list) : \E q \in enc.coded : q.output /\ q.poc = list[i].poc
  <2>1. \A i \in Waiting(picList) : \E q \in enc.coded : q.output /\ q.poc = list[i].poc
    BY <1>4, <1>8 DEF OutputInv, OutputIsCoded, Waiting
  <2>2. curPic.output => \E q \in enc.coded : q.output /\ q.poc = list[id].poc
    BY <1>1, <1>5, <1>8 DEF poc
  <2> QED
    BY <1>1, <2>1, <2>2
<1>14. poc \in ReferencePocs(list)
  BY <1>1, <1>5, <1>10 DEF ReferencePocs, References, poc
<1>15. Cardinality(Pocs(MustWait(poc)) \cup ReferencePocs(list)) <= MaxBuffering
  BY <1>6, <1>10
<1>16. Bumpable(list, numPics, poc)
  BY <1>2, <1>3, <1>4, <1>7, <1>9, <1>11, <1>12, <1>13, <1>14, <1>15 DEF Bumpable
<1>17. ASSUME NEW i \in Waiting(list), NEW x \in enc.future
       PROVE  list[i].poc # x
  <2>1. CASE i \in Waiting(picList)
    BY <1>4, <1>8, <2>1, ToComeIsNew DEF Waiting
  <2>2. CASE i = id
    BY <1>1, <1>5, <1>8, <2>2 DEF poc
  <2> QED
    BY <1>1, <1>17, <2>1, <2>2
<1> QED
  BY <1>16, <1>17 DEF list, poc, id

\* The picture is finished, and the sequence goes on or is forgotten.
LEMMA ClosedOutput ==
  ASSUME DecodingInv, OutputInv, curPic # None, Live, NEW c \in BOOLEAN,
         c => curPic.type # "RASL", NEW a \in DecAppVariables,
         a.pocLastDisplay = app.pocLastDisplay,
         \/ WriteOutput(Suppress(Finished(c), a), a)
         \/ /\ picList' = Suppress(Finished(c), a) /\ app' = a /\ shown' = shown
            /\ a.status # "running",
         curPic' = None, pilot' = None, sps' = sps,
         enc' = enc \/ (enc'.start /\ enc'.cvs = enc.cvs)
  PROVE  OutputInv'
<1> DEFINE list == Finished(c)
           sl == Suppress(list, a)
           poc == picList[curPic.id].poc
<1>1. /\ Bumpable(list, numPics, poc)
      /\ \A i \in Waiting(list), x \in enc.future : list[i].poc # x
  BY FinishedBumpable
<1>2. ~enc.start /\ pilot = None /\ SamePictures(list, picList)
  BY FinishedPicture DEF DecodingInv, Control, Between, Inv, OneAtATime
<1> HIDE DEF list, poc
<1>3. IsList(sl, numPics) /\ Lowered(sl, list)
  BY <1>1, SuppressEffect DEF Bumpable
<1>4. Bumpable(sl, numPics, poc)
  <2> HIDE DEF sl
  <2> QED
    BY <1>1, <1>3, BumpableLowered
<1>5. \A i \in Waiting(sl), x \in enc.future : sl[i].poc # x
  BY <1>1, <1>3, LoweredWaits
<1>6. enc' = enc => ToCome' = enc.future
  BY DEF ToCome, InProgress
<1>7. StillToCome(sl, poc)
  BY <1>5, <1>6 DEF StillToCome
<1>8. MaxReorder' = MaxReorder /\ MaxBuffering' = MaxBuffering
  BY DEF MaxReorder, MaxBuffering
<1> USE DEF list
<1>9. WriteOutput(sl, a) \/ (picList' = sl /\ app' = a /\ shown' = shown /\ a.status # "running")
  OBVIOUS
<1> HIDE DEF list, sl
<1>10. CASE WriteOutput(sl, a)
  <2>1. /\ Lowered(picList', sl) /\ FileInOrder' /\ OutputIsCoded' /\ NothingTooEarly'
        /\ Cardinality(Waiting(picList')) <= MaxReorder
        /\ Cardinality(InUse(picList')) <= MaxBuffering
    BY <1>2, <1>4, <1>7, <1>10, BumpedStep
  <2>2. DOMAIN picList' = DOMAIN picList
    BY <1>2, <1>3, <2>1 DEF Lowered, SamePictures
  <2>3. WithinLimits'
    BY <1>8, <2>1, <2>2 DEF OutputInv, WithinLimits, AtMostOneExtension
  <2>4. PictureFits'
    BY DEF PictureFits
  <2> QED
    BY <2>1, <2>3, <2>4 DEF OutputInv
<1>11. CASE picList' = sl /\ app' = a /\ shown' = shown /\ a.status # "running"
  <2>1. DOMAIN picList' = DOMAIN picList
    BY <1>2, <1>3, <1>11 DEF Lowered, SamePictures
  <2>2. FileInOrder'
    <3>1. /\ FileKept(shown, enc.cvs) /\ LastIsShown(shown, app.pocLastDisplay, enc.cvs)
      BY OutputFacts
    <3>2. Precedes(shown, sl, Waiting(sl), enc.cvs)
      BY <1>4 DEF Bumpable
    <3> QED
      BY <1>11, <3>1, <3>2 DEF FileInOrder
  <2>3. OutputIsCoded' /\ NothingTooEarly'
    <3>1. CASE enc'.start
      BY <3>1 DEF OutputIsCoded, NothingTooEarly
    <3>2. CASE enc' = enc
      <4>1. \A i \in Waiting(sl) : \E q \in enc.coded : q.output /\ q.poc = sl[i].poc
        BY <1>4 DEF Bumpable
      <4>2. OutputIsCoded'
        BY <1>2, <1>11, <3>2, <4>1 DEF OutputInv, OutputIsCoded
      <4>3. \A x \in ToCome, s \in DOMAIN shown : shown[s].cvs = enc.cvs =>
              x # shown[s].poc /\ (x < shown[s].poc => Cardinality(Following(x)) > MaxReorder)
        BY <1>2 DEF OutputInv, NothingTooEarly
      <4>4. ToCome' \subseteq ToCome
        BY <1>6, <3>2 DEF ToCome
      <4>5. \A x : Following(x)' = Following(x)
        BY <3>2 DEF Following
      <4>6. NothingTooEarly'
        BY <1>8, <1>11, <3>2, <4>3, <4>4, <4>5 DEF NothingTooEarly
      <4> QED
        BY <4>2, <4>6
    <3> QED
      BY <3>1, <3>2
  <2>4. WithinLimits' /\ PictureFits'
    BY <1>11, <2>1 DEF OutputInv, WithinLimits, AtMostOneExtension, PictureFits
  <2> QED
    BY <2>2, <2>3, <2>4 DEF OutputInv
<1> QED
  BY <1>9, <1>10, <1>11

\* FinishPicture.
LEMMA FinishedPictureOutput ==
  ASSUME DecodingInv, OutputInv, FinishPicture, enc' = enc
  PROVE  OutputInv'
<1> DEFINE b == [app EXCEPT !.loopFiltered = FALSE, !.eosInLastPu = FALSE]
           a == AfterFinish(b, dec.prevGdrRecoveryPoc)
<1>1. /\ app.status = "running" /\ curPic # None
      /\ WriteOutput(Suppress(Finished(app.newCLVS), a), a) /\ CloseCurrent(dec)
  BY DEF FinishPicture
<1>2. app \in DecAppVariables /\ app.newCLVS \in BOOLEAN
  BY InvFacts DEF DecodingInv, DecAppVariables
<1>3. b \in DecAppVariables /\ b.pocLastDisplay = app.pocLastDisplay
  BY <1>2 DEF DecAppVariables
<1> HIDE DEF b
<1>4. a \in DecAppVariables /\ a.pocLastDisplay = app.pocLastDisplay
  BY <1>3, AfterFinishFlags
<1> HIDE DEF a
<1>5. Live /\ (app.newCLVS => curPic.type # "RASL")
  BY <1>1 DEF Live, DecodingInv, Control
<1>6. curPic' = None /\ pilot' = None /\ sps' = sps
  BY <1>1 DEF CloseCurrent, DecodingInv, Inv, OneAtATime
<1> QED
  BY <1>1, <1>2, <1>4, <1>5, <1>6, ClosedOutput

\* FinishLastPicture.
LEMMA FinishedLastPictureOutput ==
  ASSUME DecodingInv, OutputInv, FinishLastPicture, ~app.loopFiltered, enc' = enc
  PROVE  OutputInv'
<1> DEFINE b == [app EXCEPT !.loopFiltered = FALSE, !.status = "lastPicture"]
           a == AfterFinish(b, dec.prevGdrRecoveryPoc)
<1>1. /\ Live /\ curPic # None
      /\ \/ WriteOutput(Suppress(Finished(app.newCLVS), a), a)
         \/ picList' = Suppress(Finished(app.newCLVS), a) /\ app' = a /\ shown' = shown
      /\ CloseCurrent(dec)
  BY DEF FinishLastPicture, Live
<1>2. app \in DecAppVariables /\ app.newCLVS \in BOOLEAN
  BY InvFacts DEF DecodingInv, DecAppVariables
<1>3. /\ b \in DecAppVariables /\ b.status = "lastPicture"
      /\ b.pocLastDisplay = app.pocLastDisplay
  BY <1>2 DEF DecAppVariables
<1> HIDE DEF b
<1>4. /\ a \in DecAppVariables /\ a.status = "lastPicture"
      /\ a.pocLastDisplay = app.pocLastDisplay
  BY <1>3, AfterFinishFlags
<1> HIDE DEF a
<1>5. app.newCLVS => curPic.type # "RASL"
  BY <1>1 DEF DecodingInv, Control
<1>6. curPic' = None /\ pilot' = None /\ sps' = sps
  BY <1>1 DEF CloseCurrent, DecodingInv, Inv, OneAtATime
<1> QED
  BY <1>1, <1>2, <1>4, <1>5, <1>6, ClosedOutput

\* An EOS after a picture that is not a RASL picture.
LEMMA EosAfterPictureOutput ==
  ASSUME DecodingInv, OutputInv, Forgotten, EndOfSequenceAfterPicture, curPic.type # "RASL"
  PROVE  OutputInv'
<1> DEFINE b == [app EXCEPT !.newCLVS = TRUE, !.eosInLastPu = TRUE, !.loopFiltered = TRUE]
           a == AfterFinish(b, -MAX_INT)
           d == [ResetByEos(dec) EXCEPT !.firstSliceInSequence = TRUE]
<1>1. /\ app.status = "running" /\ curPic # None
      /\ WriteOutput(Suppress(Finished(TRUE), a), a) /\ CloseCurrent(d)
  BY DEF EndOfSequenceAfterPicture
<1>2. b \in DecAppVariables /\ b.pocLastDisplay = app.pocLastDisplay
  BY InvFacts DEF DecodingInv, DecAppVariables
<1> HIDE DEF b
<1>3. a \in DecAppVariables /\ a.pocLastDisplay = app.pocLastDisplay
  BY <1>2, AfterFinishFlags
<1> HIDE DEF a, d
<1>4. enc'.start /\ enc'.cvs = enc.cvs /\ Live
  BY <1>1, ForgottenFacts DEF Live
<1>5. curPic' = None /\ pilot' = None /\ sps' = sps
  BY <1>1 DEF CloseCurrent, DecodingInv, Inv, OneAtATime
<1> QED
  BY <1>1, <1>3, <1>4, <1>5, ClosedOutput

\* The last flush writes all that waits.
LEMMA LastFlushOutput ==
  ASSUME DecodingInv, OutputInv, DecodingInv', EncodeEnd
  PROVE  OutputInv'
<1> DEFINE W == Waiting(picList)
<1>1. /\ Between /\ EndOfStream /\ enc' = enc /\ UNCHANGED <<pilot, curPic, sps>>
  BY DEF EncodeEnd, EndOfStream, Between, stream
<1>2. /\ picList' = << >> /\ shown' = Written(shown, picList, W)
      /\ app'.pocLastDisplay = -MAX_INT /\ app'.status = "finished"
  <2>1. app \in DecAppVariables
    BY InvFacts DEF DecodingInv
  <2>2. app' = [app EXCEPT !.status = "aborted"] => app'.status = "aborted"
    BY <2>1 DEF DecAppVariables
  <2>3. app'.status # "aborted"
    BY DEF DecodingInv, NeverAborts
  <2>4. /\ picList' = << >> /\ shown' = Written(shown, picList, W)
        /\ \E present : app' = [app EXCEPT !.pocLastDisplay = -MAX_INT,
                                           !.outputPicturePresent = present,
                                           !.status = "finished"]
    BY <1>1, <2>2, <2>3 DEF EndOfStream
  <2> QED
    BY <2>1, <2>4 DEF DecAppVariables
<1>3. /\ numPics \in Nat /\ IsList(picList, numPics) /\ IsFile(shown, numPics)
      /\ enc.cvs \in Nat /\ MaxReorder \in Nat /\ MaxBuffering \in Nat
      /\ OneSequence(picList, enc.cvs) /\ W \cap DOMAIN shown = {}
      /\ FileKept(shown, enc.cvs) /\ Precedes(shown, picList, W, enc.cvs)
  BY OutputFacts
<1>4. FirstToWait(picList, W) /\ W \subseteq DOMAIN picList
  BY DEF FirstToWait, Waiting
<1> HIDE DEF W
<1>5. Appended(shown', shown, picList, W, enc.cvs)
  BY <1>2, <1>3, <1>4, AppendedFile DEF W
<1>6. Waiting(picList') = {} /\ InUse(picList') = {} /\ DOMAIN picList' = {}
      /\ Cardinality({}) = 0
  BY <1>2, FS_EmptySet DEF Waiting, InUse, References
<1>7. FileInOrder'
  BY <1>1, <1>2, <1>5, <1>6 DEF FileInOrder, Precedes, LastIsShown, Appended
<1>8. OutputIsCoded'
  <2>1. CASE enc.start
    BY <1>1, <2>1 DEF OutputIsCoded
  <2>2. CASE ~enc.start
    <3>1. \A s \in DOMAIN shown : shown[s].cvs = enc.cvs => shown[s].poc \in Pocs(enc.coded)
      BY <2>2 DEF OutputInv, OutputIsCoded
    <3>2. \A i \in W : picList[i].poc \in Pocs(enc.coded)
      BY <2>2 DEF OutputInv, OutputIsCoded, W, Pocs
    <3>3. \A s \in DOMAIN shown' : shown'[s].cvs = enc.cvs => shown'[s].poc \in Pocs(enc.coded)
      BY <1>5, <3>1, <3>2 DEF Appended
    <3> QED
      BY <1>1, <1>6, <3>3 DEF OutputIsCoded
  <2> QED
    BY <2>1, <2>2
<1>9. NothingTooEarly' /\ PictureFits'
  BY <1>1, <1>2 DEF NothingTooEarly, Live, PictureFits, Between
<1>10. WithinLimits'
  BY <1>1, <1>2, <1>3, <1>6 DEF WithinLimits, AtMostOneExtension, MaxBuffering
<1> QED
  BY <1>7, <1>8, <1>9, <1>10 DEF OutputInv

-----------------------------------------------------------------------------
(* The theorems.                                                            *)

\* The first state.
LEMMA OutputInit ==
  ASSUME StreamInit
  PROVE  OutputInv
<1>1. /\ DOMAIN picList = {} /\ DOMAIN shown = {} /\ pilot = None /\ curPic = None
      /\ app.pocLastDisplay = -MAX_INT /\ enc.start /\ sps \in SpsSet
  BY DEF StreamInit, Init, EncInit
<1>2. Waiting(picList) = {} /\ InUse(picList) = {} /\ Cardinality({}) = 0
  BY <1>1, FS_EmptySet DEF Waiting, InUse, References
<1>3. MaxReorder \in Nat /\ MaxBuffering \in Nat
  BY <1>1, SpsAssumption, MaxTidAssumption DEF Sps, Tids, MaxBuffering, MaxReorder
<1>4. FileInOrder
  BY <1>1, <1>2 DEF FileInOrder, FileKept, Precedes, LastIsShown
<1>5. OutputIsCoded /\ NothingTooEarly /\ PictureFits
  BY <1>1 DEF OutputIsCoded, NothingTooEarly, PictureFits
<1>6. WithinLimits
  BY <1>1, <1>2, <1>3 DEF WithinLimits, AtMostOneExtension, MaxBuffering
<1> QED
  BY <1>4, <1>5, <1>6 DEF OutputInv

\* Every step keeps the invariant.
LEMMA OutputNext ==
  ASSUME Situations = {}, DecodingInv, OutputInv, DecodingInv', [StreamNext]_svars
  PROVE  OutputInv'
<1>1. CASE StartSegment
  <2>1. PICK p, future : NewSequence(p, future) \/ NextSegment(p, future)
    BY <1>1, StartSegmentSteps
  <2>2. CASE NewSequence(p, future)
    BY <2>2, NewSequenceIsFirst, NewSequenceFits, FirstPictureOutput
  <2>3. CASE NextSegment(p, future)
    <3>1. NextPicture(p) /\ EncType' /\ NewFits(p) /\ ComesLater(p)
      BY <2>3, NextSegmentIsNext, NextSegmentFits
    <3>2. p.poc >= First
      <4>1. ~enc.start /\ p.poc \in Int /\ p.poc > enc.last
        BY <2>3 DEF NextSegment, CodedPicture
      <4> QED
        BY <4>1, SequenceFacts
    <3> QED
      BY <3>1, <3>2, NextPictureOutput
  <2> QED
    BY <2>1, <2>2, <2>3
<1>2. CASE CodePicture
  <2>1. PICK p : LaterPicture(p)
    BY <1>2, CodePictureSteps
  <2>2. /\ NextPicture(p) /\ EncType' /\ NewFits(p) /\ ComesLater(p)
        /\ enc'.future \subseteq enc.future
    BY <2>1, LaterPictureIsNext, LaterPictureFits
  <2>3. p.poc \in Int /\ First \in Int
    BY <2>2, SequenceFacts DEF NextPicture, CodedPicture
  <2> QED
    BY <2>2, <2>3, NextPictureOutput, SkippedPictureOutput
<1>3. CASE EncodeEos
  <2>1. Forgotten
    BY <1>3 DEF EncodeEos, Forgotten
  <2>2. EndOfSequenceAfterSkip \/ (EndOfSequenceAfterPicture /\ curPic.type # "RASL")
    BY <1>3 DEF EncodeEos, EndOfSequence, EndOfSequenceAfterPicture
  <2> QED
    BY <2>1, <2>2, EosAfterSkipOutput, EosAfterPictureOutput
<1>4. CASE DecodeNext
  <2>1. /\ enc' = enc /\ Decode
        /\ app.loopFiltered /\ app'.status = "lastPicture" => FALSE
    BY <1>4 DEF DecodeNext
  <2>2. CASE FinishLastPicture
    BY <2>1, <2>2, LastPictureStatus, FinishedLastPictureOutput
  <2> QED
    BY <2>1, <2>2, InsertedPictureOutput, NoFailingStep, ActivatedPictureOutput,
       FinishedPictureOutput DEF Decode
<1>5. CASE EncodeEnd
  BY <1>5, LastFlushOutput
<1>6. CASE UNCHANGED svars
  <2>1. UNCHANGED <<picList, pilot, curPic, app, sps, shown, enc>>
    BY <1>6 DEF svars, vars, stream, history
  <2>2. FileInOrder' /\ OutputIsCoded'
    BY <2>1 DEF OutputInv, FileInOrder, OutputIsCoded
  <2>3. NothingTooEarly' /\ PictureFits' /\ WithinLimits'
    BY <2>1 DEF OutputInv, NothingTooEarly, PictureFits, WithinLimits, AtMostOneExtension,
       Live, ToCome, InProgress, Following, MustWait, MaxReorder, MaxBuffering
  <2> QED
    BY <2>2, <2>3 DEF OutputInv
<1> QED
  BY <1>1, <1>2, <1>3, <1>4, <1>5, <1>6 DEF StreamNext

\* Both invariants hold throughout.
THEOREM OutputInvariance == Situations = {} => (StreamSpec => [](DecodingInv /\ OutputInv))
<1>1. ASSUME Situations = {}
      PROVE  StreamSpec => [](DecodingInv /\ OutputInv)
  <2>1. DecodingInv /\ OutputInv /\ [StreamNext]_svars => (DecodingInv /\ OutputInv)'
    BY <1>1, DecodingNext, OutputNext
  <2> QED
    BY <2>1, DecodingInit, OutputInit, PTL DEF StreamSpec
<1> QED
  BY <1>1

\* The file is in output order: coded video sequence after coded video sequence,
\* by POC within each, whatever was bumped by xWriteOutput or flushed when.
THEOREM FileInOutputOrder == Situations = {} => (StreamSpec => []OutputInOrder)
<1>1. OutputInv => OutputInOrder
  BY DEF OutputInv, FileInOrder, FileKept, OutputInOrder
<1> QED
  BY <1>1, OutputInvariance, PTL

\* The list is extended beyond the buffering of the highest sub-layer by one
\* picture at most.
THEOREM ExtendedByOne == Situations = {} => (StreamSpec => []AtMostOneExtension)
<1>1. OutputInv => AtMostOneExtension
  BY DEF OutputInv, WithinLimits
<1> QED
  BY <1>1, OutputInvariance, PTL

\* Between two pictures what waits keeps to the limits xWriteOutput enforces.
THEOREM WaitingKeepsLimits == Situations = {} => (StreamSpec => []WaitingBounded)
<1>1. OutputInv => WaitingBounded
  BY DEF OutputInv, WithinLimits, WaitingBounded, InUse, Waiting, References,
     MaxReorder, MaxBuffering
<1> QED
  BY <1>1, OutputInvariance, PTL

-----------------------------------------------------------------------------
(* The file as a sequence.                                                  *)

\* A picture of the list or of the file as DecodedVideo has it.
Picture(s, i) == [id |-> i, poc |-> s[i].poc, cvs |-> s[i].cvs]

\* The positions in a file are those of a sequence: each is taken once.
LEMMA FilePositions ==
  ASSUME NEW m \in Nat, NEW file, IsFile(file, m), NEW n, FileKept(file, n)
  PROVE  /\ Cardinality(DOMAIN file) \in Nat
         /\ \A i \in DOMAIN file : file[i].pos \in 1..Cardinality(DOMAIN file)
         /\ \A i, j \in DOMAIN file : file[i].pos = file[j].pos => i = j
         /\ \A k \in 1..Cardinality(DOMAIN file) : \E i \in DOMAIN file : file[i].pos = k
<1> DEFINE N == Cardinality(DOMAIN file)
           pos == [i \in DOMAIN file |-> file[i].pos]
<1>1. IsFiniteSet(DOMAIN file) /\ N \in Nat
  BY FiniteNumbers DEF IsFile
<1>2. \A i \in DOMAIN file : file[i].pos \in 1..N
  BY DEF FileKept
<1>3. \A i \in DOMAIN file : file[i].poc \in Int /\ file[i].cvs \in Int /\ file[i].pos \in Int
  BY DEF IsFile, Entry
<1>4. ASSUME NEW i \in DOMAIN file, NEW j \in DOMAIN file, i # j
      PROVE  file[i].pos # file[j].pos
  <2>1. \/ file[i].cvs < file[j].cvs \/ file[j].cvs < file[i].cvs
        \/ file[i].cvs = file[j].cvs /\ file[i].poc < file[j].poc
        \/ file[i].cvs = file[j].cvs /\ file[j].poc < file[i].poc
    BY <1>3, <1>4 DEF FileKept
  <2>2. file[i].pos < file[j].pos \/ file[j].pos < file[i].pos
    BY <2>1 DEF FileKept
  <2> QED
    BY <1>3, <2>2
<1>5. \A i, j \in DOMAIN file : pos[i] = pos[j] => i = j
  BY <1>4
<1>6. Cardinality({pos[i] : i \in DOMAIN file}) = N
  <2> HIDE DEF pos
  <2> QED
    BY <1>1, <1>5, SameNumber
<1>7. {pos[i] : i \in DOMAIN file} = 1..N
  <2> DEFINE P == {pos[i] : i \in DOMAIN file}
  <2>1. P \in SUBSET (1..N)
    BY <1>2
  <2>2. IsFiniteSet(1..N) /\ Cardinality(1..N) = N
    BY <1>1, FS_Interval
  <2>3. Cardinality(P) = N
    BY <1>6
  <2> HIDE DEF P, N
  <2>4. 1..N = P
    BY <2>1, <2>2, <2>3, FS_Subset
  <2> QED
    BY <2>4 DEF P
<1> QED
  BY <1>1, <1>2, <1>4, <1>7

\* FileOf puts the pictures at their positions.
LEMMA FileContents ==
  ASSUME NEW m \in Nat, NEW file, IsFile(file, m), NEW n, FileKept(file, n)
  PROVE  /\ DOMAIN FileOf(file) = 1..Cardinality(DOMAIN file)
         /\ Len(FileOf(file)) = Cardinality(DOMAIN file)
         /\ \A i \in DOMAIN file : FileOf(file)[file[i].pos] = Picture(file, i)
         /\ \A k \in DOMAIN FileOf(file) : \E i \in DOMAIN file :
              file[i].pos = k /\ FileOf(file)[k] = Picture(file, i)
<1> DEFINE N == Cardinality(DOMAIN file)
           at(k) == CHOOSE j \in DOMAIN file : file[j].pos = k
<1>1. /\ N \in Nat
      /\ \A i \in DOMAIN file : file[i].pos \in 1..N
      /\ \A i, j \in DOMAIN file : file[i].pos = file[j].pos => i = j
      /\ \A k \in 1..N : \E i \in DOMAIN file : file[i].pos = k
  BY FilePositions
<1> HIDE DEF N
<1>2. FileOf(file) = [k \in 1..N |->
                       [id |-> at(k), poc |-> file[at(k)].poc, cvs |-> file[at(k)].cvs]]
  BY DEF FileOf, N
<1>3. DOMAIN FileOf(file) = 1..N /\ Len(FileOf(file)) = N
  BY <1>1, <1>2
<1>4. ASSUME NEW i \in DOMAIN file
      PROVE  FileOf(file)[file[i].pos] = Picture(file, i)
  <2>1. at(file[i].pos) = i
    BY <1>1
  <2>2. file[i].pos \in 1..N
    BY <1>1
  <2> HIDE DEF at
  <2> QED
    BY <1>2, <2>1, <2>2 DEF Picture
<1> QED
  BY <1>1, <1>3, <1>4 DEF N

\* The sequence holds the pictures of the file, and no others.
LEMMA FileEntries ==
  ASSUME NEW m \in Nat, NEW file, IsFile(file, m), NEW n, FileKept(file, n)
  PROVE  /\ Video!Entries(FileOf(file)) = {Picture(file, i) : i \in DOMAIN file}
         /\ Video!InOrder(FileOf(file))
<1> DEFINE f == FileOf(file)
           N == Cardinality(DOMAIN file)
<1>1. /\ DOMAIN f = 1..N /\ Len(f) = N
      /\ \A i \in DOMAIN file : f[file[i].pos] = Picture(file, i)
      /\ \A k \in DOMAIN f : \E i \in DOMAIN file : file[i].pos = k /\ f[k] = Picture(file, i)
  BY FileContents
<1>2. N \in Nat /\ \A i \in DOMAIN file : file[i].pos \in 1..N
  BY FilePositions
<1>3. \A i \in DOMAIN file : file[i].poc \in Int /\ file[i].cvs \in Int
  BY DEF IsFile, Entry
<1> HIDE DEF f, N
<1>4. {f[k] : k \in DOMAIN f} = {Picture(file, i) : i \in DOMAIN file}
  BY <1>1, <1>2
<1>5. ASSUME NEW k \in 1..(N - 1)
      PROVE  Video!Earlier(f[k], f[k + 1])
  <2>1. k \in DOMAIN f /\ k + 1 \in DOMAIN f /\ k \in Int
    BY <1>1, <1>2
  <2>2. PICK i \in DOMAIN file : file[i].pos = k /\ f[k] = Picture(file, i)
    BY <1>1, <2>1
  <2>3. PICK j \in DOMAIN file : file[j].pos = k + 1 /\ f[k + 1] = Picture(file, j)
    BY <1>1, <2>1
  <2>4. ~(file[j].pos < file[i].pos) /\ i # j
    BY <2>1, <2>2, <2>3
  <2>5. /\ ~(file[j].cvs < file[i].cvs)
        /\ ~(file[j].cvs = file[i].cvs /\ file[j].poc < file[i].poc)
        /\ ~(file[i].cvs = file[j].cvs /\ file[i].poc = file[j].poc)
    BY <2>4 DEF FileKept
  <2>6. \/ file[i].cvs < file[j].cvs
        \/ file[i].cvs = file[j].cvs /\ file[i].poc < file[j].poc
    BY <1>3, <2>5
  <2> QED
    BY <2>2, <2>3, <2>6 DEF Video!Earlier, Picture
<1> QED
  BY <1>1, <1>4, <1>5 DEF Video!Entries, Video!InOrder, f

\* A file that more pictures were appended to begins with the same sequence.
LEMMA FileGrows ==
  ASSUME NEW m \in Nat, NEW file, IsFile(file, m), NEW n, FileKept(file, n),
         NEW k \in Nat, NEW out, IsFile(out, k), NEW l, FileKept(out, l),
         DOMAIN file \subseteq DOMAIN out, \A s \in DOMAIN file : out[s] = file[s]
  PROVE  Video!IsPrefix(FileOf(file), FileOf(out))
<1> DEFINE f == FileOf(file)
           g == FileOf(out)
           N == Cardinality(DOMAIN file)
           S == {Picture(file, i) : i \in DOMAIN file}
<1>1. /\ DOMAIN f = 1..N /\ Len(f) = N
      /\ \A x \in DOMAIN f : \E i \in DOMAIN file : file[i].pos = x /\ f[x] = Picture(file, i)
  BY FileContents
<1>2. /\ Len(g) = Cardinality(DOMAIN out)
      /\ \A i \in DOMAIN out : g[out[i].pos] = Picture(out, i)
  BY FileContents
<1>3. N \in Nat /\ Cardinality(DOMAIN out) \in Nat /\ N <= Cardinality(DOMAIN out)
  <2>1. IsFiniteSet(DOMAIN out)
    BY FiniteNumbers DEF IsFile
  <2> QED
    BY <2>1, SubsetSize
<1> HIDE DEF f, g, N
<1>4. ASSUME NEW x \in 1..N
      PROVE  f[x] = g[x] /\ f[x] \in S
  <2>1. PICK i \in DOMAIN file : file[i].pos = x /\ f[x] = Picture(file, i)
    BY <1>1
  <2>2. i \in DOMAIN out /\ out[i] = file[i]
    OBVIOUS
  <2>3. g[x] = Picture(out, i) /\ Picture(out, i) = Picture(file, i)
    BY <1>2, <2>1, <2>2 DEF Picture
  <2> QED
    BY <2>1, <2>3
<1> HIDE DEF S
<1>5. /\ SubSeq(f, 1, N) \in Seq(S) /\ Len(SubSeq(f, 1, N)) = N
      /\ \A x \in 1..N : SubSeq(f, 1, N)[x] = f[x]
  <2>1. \A x \in 1..N : f[x] \in S
    BY <1>4
  <2>2. /\ SubSeq(f, 1, N) \in Seq(S)
        /\ Len(SubSeq(f, 1, N)) = IF 1 <= N THEN N - 1 + 1 ELSE 0
        /\ \A x \in 1..(N - 1 + 1) : SubSeq(f, 1, N)[x] = f[1 + x - 1]
    BY <1>3, <2>1, SubSeqProperties
  <2> QED
    BY <1>3, <2>2
<1>6. /\ SubSeq(g, 1, N) \in Seq(S) /\ Len(SubSeq(g, 1, N)) = N
      /\ \A x \in 1..N : SubSeq(g, 1, N)[x] = g[x]
  <2>1. \A x \in 1..N : g[x] \in S
    BY <1>4
  <2>2. /\ SubSeq(g, 1, N) \in Seq(S)
        /\ Len(SubSeq(g, 1, N)) = IF 1 <= N THEN N - 1 + 1 ELSE 0
        /\ \A x \in 1..(N - 1 + 1) : SubSeq(g, 1, N)[x] = g[1 + x - 1]
    BY <1>3, <2>1, SubSeqProperties
  <2> QED
    BY <1>3, <2>2
<1>7. SubSeq(f, 1, N) = SubSeq(g, 1, N)
  <2>1. \A x \in 1..N : SubSeq(f, 1, N)[x] = SubSeq(g, 1, N)[x]
    BY <1>4, <1>5, <1>6
  <2> QED
    BY <1>5, <1>6, <2>1, SeqEqual
<1> QED
  BY <1>1, <1>2, <1>3, <1>7 DEF Video!IsPrefix, f, g

-----------------------------------------------------------------------------
(* A step of DecodedVideo.                                                  *)

\* Picture i of pl is picture i of out.
SamePicture(out, pl, i) == out[i].poc = pl[i].poc /\ out[i].cvs = pl[i].cvs

\* What waits and what is in the file, as DecodedVideo has them.
Pending(pl) == {Picture(pl, i) : i \in Waiting(pl)}
InFile(file) == {Picture(file, i) : i \in DOMAIN file}

\* What a step does to the list and the histories: the file and the cancelled
\* pictures stay, what waited still waits, is written or was cancelled, and one
\* picture at most is new.
VideoStep ==
  /\ DOMAIN shown \subseteq DOMAIN shown' /\ \A s \in DOMAIN shown : shown'[s] = shown[s]
  /\ DOMAIN discarded \subseteq DOMAIN discarded'
  /\ \A i \in Waiting(picList) :
       \/ i \in Waiting(picList') /\ SamePicture(picList', picList, i)
       \/ i \in DOMAIN shown' /\ SamePicture(shown', picList, i)
       \/ i \in DOMAIN discarded'
  /\ \E x :
       /\ \A i \in Waiting(picList') :
            i = x \/ (i \in Waiting(picList) /\ SamePicture(picList', picList, i))
       /\ \A i \in DOMAIN shown' \ DOMAIN shown :
            i = x \/ (i \in Waiting(picList) /\ SamePicture(shown', picList, i))

\* The invariants give the facts about one state that the step needs.
LEMMA VideoFacts ==
  ASSUME DecodingInv, OutputInv
  PROVE  /\ numPics \in Nat /\ IsFile(shown, numPics) /\ FileKept(shown, enc.cvs)
         /\ Waiting(picList) \cap DOMAIN shown = {}
         /\ DOMAIN discarded \cap (DOMAIN shown \cup Waiting(picList)) = {}
         /\ \A i \in Waiting(picList) :
              /\ picList[i].cvs = enc.cvs
              /\ \A s \in DOMAIN shown : shown[s].cvs = enc.cvs => shown[s].poc < picList[i].poc
         /\ enc.cvs \in Nat
<1>1. /\ numPics \in Nat /\ IsFile(shown, numPics) /\ FileKept(shown, enc.cvs)
      /\ Waiting(picList) \cap DOMAIN shown = {} /\ enc.cvs \in Nat
      /\ Precedes(shown, picList, Waiting(picList), enc.cvs)
  BY OutputFacts
<1>2. DOMAIN discarded \cap (DOMAIN shown \cup Waiting(picList)) = {}
  BY DEF DecodingInv, Inv, OneFate
<1>3. \A i \in Waiting(picList) : picList[i].cvs = enc.cvs
  BY DEF DecodingInv, OnePicturePerPoc, Waiting
<1> QED
  BY <1>1, <1>2, <1>3 DEF Precedes

PendingComesLast ==
  \A p \in Pending(picList), q \in InFile(shown) : Video!Earlier(q, p)

\* What waits comes after all of the file.
LEMMA PendingLast ==
  ASSUME DecodingInv, OutputInv
  PROVE  PendingComesLast
<1> SUFFICES ASSUME NEW p \in Pending(picList), NEW q \in InFile(shown)
             PROVE  Video!Earlier(q, p)
  BY DEF PendingComesLast
<1>1. PICK i \in Waiting(picList) : p = Picture(picList, i)
  BY DEF Pending
<1>2. PICK s \in DOMAIN shown : q = Picture(shown, s)
  BY DEF InFile
<1>3. shown[s].cvs <= enc.cvs /\ shown[s].cvs \in Nat /\ enc.cvs \in Nat
  BY VideoFacts DEF FileKept, IsFile, Entry
<1>4. /\ picList[i].cvs = enc.cvs
      /\ shown[s].cvs = enc.cvs => shown[s].poc < picList[i].poc
  BY VideoFacts
<1>5. shown[s].cvs < picList[i].cvs
      \/ (shown[s].cvs = picList[i].cvs /\ shown[s].poc < picList[i].poc)
  BY <1>3, <1>4
<1> QED
  BY <1>1, <1>2, <1>5 DEF Video!Earlier, Picture

\* What is written in a step comes after what was in the file.
LEMMA WrittenLast ==
  ASSUME NEW m \in Nat, NEW file, IsFile(file, m), NEW n, FileKept(file, n),
         NEW k \in Nat, NEW out, IsFile(out, k), NEW l, FileKept(out, l),
         DOMAIN file \subseteq DOMAIN out, \A s \in DOMAIN file : out[s] = file[s],
         NEW i \in DOMAIN out \ DOMAIN file, NEW s \in DOMAIN file
  PROVE  Video!Earlier(Picture(file, s), Picture(out, i))
<1>1. /\ \A x \in 1..Cardinality(DOMAIN file) : \E j \in DOMAIN file : file[j].pos = x
      /\ file[s].pos \in 1..Cardinality(DOMAIN file) /\ Cardinality(DOMAIN file) \in Nat
  BY FilePositions
<1>2. /\ \A x, y \in DOMAIN out : out[x].pos = out[y].pos => x = y
      /\ out[i].pos \in 1..Cardinality(DOMAIN out) /\ Cardinality(DOMAIN out) \in Nat
  BY FilePositions
<1>3. out[i].pos \notin 1..Cardinality(DOMAIN file)
  BY <1>1, <1>2
<1>4. out[s] = file[s] /\ ~(out[i].pos < out[s].pos) /\ s # i
  BY <1>1, <1>2, <1>3
<1>5. /\ ~(out[i].cvs < out[s].cvs)
      /\ ~(out[i].cvs = out[s].cvs /\ out[i].poc < out[s].poc)
      /\ ~(out[i].cvs = out[s].cvs /\ out[i].poc = out[s].poc)
  BY <1>4 DEF FileKept
<1>6. out[s].cvs \in Int /\ out[i].cvs \in Int /\ out[s].poc \in Int /\ out[i].poc \in Int
  BY DEF IsFile, Entry
<1>7. out[s].cvs < out[i].cvs \/ (out[s].cvs = out[i].cvs /\ out[s].poc < out[i].poc)
  BY <1>5, <1>6
<1> QED
  BY <1>4, <1>7 DEF Video!Earlier, Picture

\* The instance has its own name for the number of elements.
LEMMA SameCardinality ==
  ASSUME NEW S
  PROVE  Video!Cardinality(S) = Cardinality(S)
BY DEF Video!Cardinality, Cardinality

\* Such a step is one of DecodedVideo.
LEMMA StepImplements ==
  ASSUME DecodingInv, OutputInv, DecodingInv', OutputInv', VideoStep
  PROVE  Video!Next
<1> DEFINE F == InFile(shown)
           G == InFile(shown)'
           P == Pending(picList)
           Q == Pending(picList)'
           written == G \ F
           new == (Q \cup written) \ P
<1>1. /\ numPics \in Nat /\ IsFile(shown, numPics) /\ FileKept(shown, enc.cvs)
      /\ Waiting(picList) \cap DOMAIN shown = {}
  BY VideoFacts
<1>2. /\ numPics' \in Nat /\ IsFile(shown', numPics') /\ FileKept(shown', enc'.cvs)
      /\ Waiting(picList') \cap DOMAIN shown' = {}
      /\ DOMAIN discarded' \cap (DOMAIN shown' \cup Waiting(picList')) = {}
  <2>1. (DecodingInv /\ OutputInv
          => /\ numPics \in Nat /\ IsFile(shown, numPics) /\ FileKept(shown, enc.cvs)
             /\ Waiting(picList) \cap DOMAIN shown = {}
             /\ DOMAIN discarded \cap (DOMAIN shown \cup Waiting(picList)) = {})'
    BY VideoFacts, PTL
  <2> QED
    BY <2>1
<1>3. DOMAIN shown \subseteq DOMAIN shown' /\ \A s \in DOMAIN shown : shown'[s] = shown[s]
  BY DEF VideoStep
<1>4. /\ Video!Entries(FileOf(shown)) = F
      /\ Video!Entries(FileOf(shown')) = G /\ Video!InOrder(FileOf(shown'))
  BY <1>1, <1>2, FileEntries DEF InFile
<1>5. Video!IsPrefix(FileOf(shown), FileOf(shown'))
  BY <1>1, <1>2, <1>3, FileGrows
<1>6. \A p \in written : \E i \in DOMAIN shown' \ DOMAIN shown : p = Picture(shown', i)
  <2>1. ASSUME NEW i \in DOMAIN shown
        PROVE  Picture(shown', i) \in F
    BY <1>3 DEF InFile, Picture
  <2> QED
    BY <2>1 DEF InFile
<1>7. \A p \in Q, q \in G : Video!Earlier(q, p)
  <2>1. (DecodingInv /\ OutputInv => PendingComesLast)'
    BY PendingLast, PTL
  <2> QED
    BY <2>1 DEF PendingComesLast
<1>8. \A p \in written, q \in F : Video!Earlier(q, p)
  <2>1. ASSUME NEW i \in DOMAIN shown' \ DOMAIN shown, NEW s \in DOMAIN shown
        PROVE  Video!Earlier(Picture(shown, s), Picture(shown', i))
    BY <1>1, <1>2, <1>3, WrittenLast
  <2> QED
    BY <1>6, <2>1 DEF InFile
<1>9. F \subseteq G
  BY <1>3 DEF InFile, Picture
<1>10. Cardinality(new) <= 1
  <2>1. PICK x :
          /\ \A i \in Waiting(picList') :
               i = x \/ (i \in Waiting(picList) /\ SamePicture(picList', picList, i))
          /\ \A i \in DOMAIN shown' \ DOMAIN shown :
               i = x \/ (i \in Waiting(picList) /\ SamePicture(shown', picList, i))
    BY DEF VideoStep
  <2> DEFINE y == IF x \in Waiting(picList') THEN Picture(picList', x) ELSE Picture(shown', x)
  <2>2. ASSUME NEW p \in Q, p \notin P
        PROVE  p = y
    <3>1. PICK i \in Waiting(picList') : p = Picture(picList', i)
      BY <2>2 DEF Pending
    <3>2. i = x
      BY <2>1, <2>2, <3>1 DEF Pending, Picture, SamePicture
    <3> QED
      BY <3>1, <3>2
  <2>3. ASSUME NEW p \in written, p \notin P
        PROVE  p = y
    <3>1. PICK i \in DOMAIN shown' \ DOMAIN shown : p = Picture(shown', i)
      BY <1>6
    <3>2. i = x
      BY <2>1, <2>3, <3>1 DEF Pending, Picture, SamePicture
    <3>3. x \notin Waiting(picList')
      BY <1>2, <3>1, <3>2
    <3> QED
      BY <3>1, <3>2, <3>3
  <2> HIDE DEF y, written
  <2>4. new \in SUBSET {y}
    BY <2>2, <2>3
  <2>5. IsFiniteSet({y}) /\ Cardinality({y}) = 1
    BY FS_Singleton
  <2> HIDE DEF new
  <2> QED
    BY <2>4, <2>5, FS_Subset
<1>11. \A p \in P \ (Q \cup written) : p.id \in DOMAIN discarded'
  <2>1. ASSUME NEW i \in Waiting(picList), Picture(picList, i) \notin Q \cup written
        PROVE  i \in DOMAIN discarded'
    <3>1. CASE i \in Waiting(picList') /\ SamePicture(picList', picList, i)
      <4>1. Picture(picList, i) = Picture(picList', i)
        BY <3>1 DEF Picture, SamePicture
      <4> QED
        BY <2>1, <3>1, <4>1 DEF Pending
    <3>2. CASE i \in DOMAIN shown' /\ SamePicture(shown', picList, i)
      <4>1. Picture(picList, i) = Picture(shown', i)
        BY <3>2 DEF Picture, SamePicture
      <4>2. i \notin DOMAIN shown
        BY <1>1
      <4>3. Picture(shown', i) \notin F
        BY <4>2 DEF InFile, Picture
      <4> QED
        BY <2>1, <3>2, <4>1, <4>3 DEF InFile
    <3> QED
      BY <3>1, <3>2 DEF VideoStep
  <2>2. ASSUME NEW p \in P \ (Q \cup written)
        PROVE  p.id \in DOMAIN discarded'
    <3>1. PICK i \in Waiting(picList) : p = Picture(picList, i)
      BY DEF Pending
    <3> HIDE DEF Q, written
    <3> QED
      BY <2>1, <2>2, <3>1 DEF Picture
  <2> QED
    BY <2>2
<1>12. DOMAIN discarded \subseteq DOMAIN discarded'
  BY DEF VideoStep
<1>13. \A p \in written : p.id \notin DOMAIN discarded'
  BY <1>2, <1>6 DEF Picture
<1>14. /\ P = {[id |-> i, poc |-> picList[i].poc, cvs |-> picList[i].cvs] : i \in Waiting(picList)}
       /\ Q = {[id |-> i, poc |-> picList'[i].poc, cvs |-> picList'[i].cvs] :
                 i \in Waiting(picList')}
  BY DEF Pending, Picture
<1>15. \A p \in Q \cup new, q \in F : Video!Earlier(q, p)
  BY <1>7, <1>8, <1>9
<1>16. \A p \in Q, q \in written : Video!Earlier(q, p)
  BY <1>7
<1> HIDE DEF F, G, P, Q
<1>17. /\ Video!Cardinality(new) <= 1
       /\ Video!IsPrefix(FileOf(shown), FileOf(shown')) /\ Video!InOrder(FileOf(shown'))
       /\ \A p \in Q \cup new, q \in Video!Entries(FileOf(shown)) : Video!Earlier(q, p)
       /\ \A p \in Q, q \in written : Video!Earlier(q, p)
       /\ \A p \in P \ (Q \cup written) : p.id \in DOMAIN discarded'
       /\ DOMAIN discarded \subseteq DOMAIN discarded'
       /\ \A p \in written : p.id \notin DOMAIN discarded'
  BY <1>4, <1>5, <1>10, <1>11, <1>12, <1>13, <1>15, <1>16, SameCardinality
<1> QED
  BY <1>4, <1>14, <1>17 DEF Video!Next

-----------------------------------------------------------------------------
(* The steps of the decoder.                                                *)

\* What waited goes on waiting, nothing is written.
LEMMA QuietVideo ==
  ASSUME shown' = shown, DOMAIN discarded \subseteq DOMAIN discarded',
         Waiting(picList') = Waiting(picList),
         \A i \in Waiting(picList) : SamePicture(picList', picList, i)
  PROVE  VideoStep
BY DEF VideoStep

\* A flush writes all that waits.
LEMMA FlushVideo ==
  ASSUME DecodingInv, OutputInv, shown' = Written(shown, picList, Waiting(picList)),
         Waiting(picList') = {}, discarded' = discarded
  PROVE  VideoStep
<1> DEFINE W == Waiting(picList)
<1>1. /\ numPics \in Nat /\ IsList(picList, numPics) /\ IsFile(shown, numPics)
      /\ enc.cvs \in Nat /\ OneSequence(picList, enc.cvs) /\ W \cap DOMAIN shown = {}
      /\ FileKept(shown, enc.cvs) /\ Precedes(shown, picList, W, enc.cvs)
  BY OutputFacts
<1>2. FirstToWait(picList, W)
  BY DEF FirstToWait
<1>3. \A i \in W : picList[i].cvs = enc.cvs
  BY VideoFacts
<1>4. Appended(shown', shown, picList, W, enc.cvs)
  <2> HIDE DEF W
  <2> QED
    BY <1>1, <1>2, AppendedFile DEF W
<1>5. /\ DOMAIN shown' = DOMAIN shown \cup W
      /\ \A s \in DOMAIN shown : shown'[s] = shown[s]
      /\ \A s \in W : SamePicture(shown', picList, s)
  BY <1>3, <1>4 DEF Appended, SamePicture
<1> QED
  BY <1>5 DEF VideoStep

\* What an iteration of the loop does to list pl before bumping: each waiting
\* picture goes on waiting, is written or is cancelled, and no other is touched.
Passed(pl) ==
  /\ DOMAIN shown \subseteq DOMAIN shown' /\ \A s \in DOMAIN shown : shown'[s] = shown[s]
  /\ DOMAIN discarded \subseteq DOMAIN discarded'
  /\ \A i \in Waiting(pl) :
       \/ i \in Waiting(picList') /\ SamePicture(picList', pl, i)
       \/ i \in DOMAIN shown' /\ SamePicture(shown', pl, i)
       \/ i \in DOMAIN discarded'
  /\ \A i \in Waiting(picList') : i \in Waiting(pl) /\ SamePicture(picList', pl, i)
  /\ \A i \in DOMAIN shown' \ DOMAIN shown : i \in Waiting(pl) /\ SamePicture(shown', pl, i)

\* Such a list has what waited and one picture more at most.
LEMMA PassedVideo ==
  ASSUME NEW pl, Passed(pl), NEW x,
         \A i \in Waiting(picList) : i \in Waiting(pl) /\ SamePicture(pl, picList, i),
         \A i \in Waiting(pl) : i = x \/ i \in Waiting(picList)
  PROVE  VideoStep
<1>1. \A i \in Waiting(picList') :
        i = x \/ (i \in Waiting(picList) /\ SamePicture(picList', picList, i))
  BY DEF Passed, SamePicture
<1>2. \A i \in DOMAIN shown' \ DOMAIN shown :
        i = x \/ (i \in Waiting(picList) /\ SamePicture(shown', picList, i))
  BY DEF Passed, SamePicture
<1>3. \A i \in Waiting(picList) :
        \/ i \in Waiting(picList') /\ SamePicture(picList', picList, i)
        \/ i \in DOMAIN shown' /\ SamePicture(shown', picList, i)
        \/ i \in DOMAIN discarded'
  BY DEF Passed, SamePicture
<1> QED
  BY <1>1, <1>2, <1>3 DEF VideoStep, Passed

\* An iteration that suppresses and bumps such a list does no more.
LEMMA IterationPasses ==
  ASSUME DecodingInv, OutputInv, ~enc.start, NEW pl, NEW n, NEW c, Bumpable(pl, n, c),
         Histories(n, shown, discarded, due),
         NEW a \in DecAppVariables, a.pocLastDisplay = app.pocLastDisplay,
         \/ WriteOutput(Suppress(pl, a), a)
         \/ picList' = Suppress(pl, a) /\ shown' = shown,
         DOMAIN discarded \subseteq DOMAIN discarded',
         a.gdrRecoveryPeriod => Waiting(pl) \subseteq DOMAIN discarded'
  PROVE  Passed(pl)
<1> DEFINE sl == Suppress(pl, a)
<1>1. n \in Nat /\ IsList(pl, n)
  BY DEF Bumpable
<1>2. /\ IsList(sl, n) /\ Lowered(sl, pl)
      /\ Waiting(sl) = IF a.gdrRecoveryPeriod THEN {} ELSE Waiting(pl)
  BY <1>1, SuppressEffect
<1>3. WriteOutput(sl, a) \/ (picList' = sl /\ shown' = shown)
  OBVIOUS
<1> HIDE DEF sl
<1>4. Bumpable(sl, n, c)
  BY <1>2, BumpableLowered
<1>5. /\ OneSequence(sl, enc.cvs) /\ IsFile(shown, n) /\ Waiting(sl) \cap DOMAIN shown = {}
      /\ Precedes(shown, sl, Waiting(sl), enc.cvs)
  BY <1>4 DEF Bumpable
<1>6. /\ enc.cvs \in Nat /\ enc.cvs > 0 /\ MaxReorder \in Nat /\ MaxBuffering \in Nat
      /\ FileKept(shown, enc.cvs) /\ LastIsShown(shown, app.pocLastDisplay, enc.cvs)
  BY OutputFacts DEF DecodingInv, Control
<1>7. \A i \in DOMAIN pl : SamePicture(sl, pl, i)
  BY <1>2 DEF Lowered, SamePicture
<1>8. Waiting(pl) \subseteq DOMAIN pl /\ Waiting(sl) \subseteq Waiting(pl)
      /\ DOMAIN sl = DOMAIN pl
      /\ \A i \in Waiting(pl) \ Waiting(sl) : i \in DOMAIN discarded'
  BY <1>2 DEF Waiting, Lowered
<1>9. CASE picList' = sl /\ shown' = shown
  BY <1>7, <1>8, <1>9 DEF Passed
<1>10. CASE WriteOutput(sl, a)
  <2>1. BumpedOut(sl, enc.cvs)
    BY <1>1, <1>2, <1>5, <1>6, <1>10, BumpingEffect
  <2>2. /\ Lowered(picList', sl) /\ Waiting(picList') \subseteq Waiting(sl)
        /\ DOMAIN shown \subseteq DOMAIN shown' /\ \A s \in DOMAIN shown : shown'[s] = shown[s]
        /\ \A s \in DOMAIN shown' \ DOMAIN shown :
             s \in Waiting(sl) /\ shown'[s].poc = sl[s].poc /\ shown'[s].cvs = enc.cvs
    BY <2>1 DEF BumpedOut
  <2>3. DOMAIN shown' = DOMAIN shown \cup (Waiting(sl) \ Waiting(picList'))
    BY <1>1, <1>2, <1>10, WriteOutputEffect
  <2>4. \A i \in DOMAIN sl : sl[i].cvs = enc.cvs
    BY <1>5 DEF OneSequence
  <2>5. \A s \in DOMAIN shown' \ DOMAIN shown : s \in Waiting(sl) /\ SamePicture(shown', sl, s)
    BY <1>8, <2>2, <2>4 DEF SamePicture
  <2>6. \A i \in Waiting(picList') : i \in Waiting(sl) /\ SamePicture(picList', sl, i)
    BY <1>8, <2>2 DEF Lowered, SamePicture
  <2>7. \A i \in Waiting(sl) : i \in Waiting(picList') \/ i \in DOMAIN shown' \ DOMAIN shown
    BY <1>5, <2>3
  <2>8. \A s \in DOMAIN shown' \ DOMAIN shown : s \in Waiting(pl) /\ SamePicture(shown', pl, s)
    BY <1>7, <1>8, <2>5 DEF SamePicture
  <2>9. \A i \in Waiting(picList') : i \in Waiting(pl) /\ SamePicture(picList', pl, i)
    BY <1>7, <1>8, <2>6 DEF SamePicture
  <2>10. \A i \in Waiting(pl) :
           \/ i \in Waiting(picList') /\ SamePicture(picList', pl, i)
           \/ i \in DOMAIN shown' /\ SamePicture(shown', pl, i)
           \/ i \in DOMAIN discarded'
    BY <1>8, <2>7, <2>8, <2>9
  <2> QED
    BY <2>2, <2>8, <2>9, <2>10 DEF Passed
<1> QED
  BY <1>3, <1>9, <1>10

\* An iteration without a picture.
LEMMA IdleVideo ==
  ASSUME DecodingInv, OutputInv, pilot = None, curPic = None, app.status = "running",
         NEW a \in DecAppVariables, a.pocLastDisplay = app.pocLastDisplay,
         a.gdrRecoveryPeriod = app.gdrRecoveryPeriod, EndOfIteration(picList, a)
  PROVE  VideoStep
<1>1. Lowered(picList', picList) /\ Waiting(picList') = Waiting(picList) /\ shown' = shown
  BY IdleOutput
<1>2. DOMAIN discarded \subseteq DOMAIN discarded'
  BY DEF EndOfIteration, Cancelled
<1>3. \A i \in Waiting(picList) : SamePicture(picList', picList, i)
  BY <1>1 DEF Lowered, SamePicture, Waiting
<1> QED
  BY <1>1, <1>2, <1>3, QuietVideo

\* A picture that is skipped.
LEMMA SkippedVideo ==
  ASSUME DecodingInv, OutputInv, NEW p, SkipPicture(p)
  PROVE  VideoStep
<1> DEFINE a == [app EXCEPT !.newCLVS = NewCLVS(p), !.picSkipped = TRUE,
                            !.prevPicSkipped = @ \/ p.type # "RASL"]
<1>1. /\ app.status = "running" /\ pilot = None /\ curPic = None /\ EndOfIteration(picList, a)
  BY DEF SkipPicture
<1>2. app \in DecAppVariables /\ NewCLVS(p) \in BOOLEAN
  BY InvFacts DEF DecodingInv, NewCLVS, DecAppVariables
<1>3. /\ a \in DecAppVariables /\ a.pocLastDisplay = app.pocLastDisplay
      /\ a.gdrRecoveryPeriod = app.gdrRecoveryPeriod
  BY <1>2 DEF DecAppVariables
<1> HIDE DEF a
<1> QED
  BY <1>1, <1>3, IdleVideo

\* An EOS after it.
LEMMA EosAfterSkipVideo ==
  ASSUME DecodingInv, OutputInv, Forgotten, EndOfSequenceAfterSkip
  PROVE  VideoStep
<1> DEFINE a == [app EXCEPT !.newCLVS = TRUE, !.eosInLastPu = TRUE]
<1>1. app.status = "running" /\ pilot = None /\ curPic = None
  BY DEF EndOfSequenceAfterSkip
<1>2. EndOfIteration(picList, a)
  <2>1. app.picListSet
    BY <1>1, ForgottenFacts DEF DecodingInv, Control, Between
  <2> QED
    BY <2>1 DEF EndOfSequenceAfterSkip
<1>3. /\ a \in DecAppVariables /\ a.pocLastDisplay = app.pocLastDisplay
      /\ a.gdrRecoveryPeriod = app.gdrRecoveryPeriod
  BY InvFacts DEF DecodingInv, DecAppVariables
<1> HIDE DEF a
<1> QED
  BY <1>1, <1>2, <1>3, IdleVideo

\* A picture inserted for a lost reference does not wait.
LEMMA InsertedVideo ==
  ASSUME DecodingInv, OutputInv, InsertUnavailablePicture
  PROVE  VideoStep
<1>1. app.status = "running" /\ pilot # None /\ shown' = shown /\ discarded' = discarded
  BY DEF InsertUnavailablePicture, history
<1>2. numPics \in Nat /\ IsList(picList, numPics) /\ Settled(picList, {})
  BY <1>1, InvFacts, SettledBetween DEF DecodingInv, Inv, OneAtATime
<1>3. PICK r \in Missing :
        picList' = WithPicture(picList, numPics + 1, sps.buffering[0],
                     [poc |-> r, referenced |-> TRUE, needed |-> FALSE,
                      reconstructed |-> TRUE, cvs |-> pilot.pic.cvs])
  BY DEF InsertUnavailablePicture
<1> DEFINE pic == [poc |-> r, referenced |-> TRUE, needed |-> FALSE,
                   reconstructed |-> TRUE, cvs |-> pilot.pic.cvs]
<1>4. pic \in NewBuffer /\ ~pic.needed
  <2>1. r \in Int /\ pilot.pic.cvs \in Nat
    BY <1>1, PilotType DEF DecodingInv, Missing, MissingRefs
  <2> QED
    BY <2>1 DEF NewBuffer, Buffer
<1> HIDE DEF pic
<1>5. Entered(picList', picList, numPics + 1, pic)
  BY <1>2, <1>3, <1>4, NewPicture DEF pic
<1>6. Waiting(picList') = Waiting(picList)
  BY <1>4, <1>5 DEF Entered
<1>7. \A i \in Waiting(picList) : SamePicture(picList', picList, i)
  <2>1. numPics + 1 \notin DOMAIN picList
    BY <1>2 DEF IsList
  <2> QED
    BY <1>5, <1>6, <2>1 DEF Entered, Waiting, SamePicture
<1> QED
  BY <1>1, <1>6, <1>7, QuietVideo

\* A picture is decoded: it does not wait before it is finished, but what waits
\* may be bumped.
LEMMA ActivatedVideo ==
  ASSUME DecodingInv, OutputInv, DecodingInv', NEW last \in BOOLEAN, ActivatePicture(last),
         enc' = enc
  PROVE  VideoStep
<1> DEFINE p == pilot.pic
           m == numPics + 1
           a == [app EXCEPT
                   !.gdrRecoveryPeriod = @ \/ (app.prevPicSkipped /\ p.type = "GDR"),
                   !.prevPicSkipped = @ /\ p.type = "RASL"]
<1>1. /\ app.status = "running" /\ pilot # None /\ numPics \in Nat
      /\ DecodableList(Activated, m) /\ Lowered(picList', Activated)
  BY ActivateEffect
<1>2. ~enc.start
  BY <1>1 DEF DecodingInv, Control, Between
<1>3. IF last THEN picList' = Activated /\ UNCHANGED <<shown, discarded>>
              ELSE EndOfIteration(Activated, a)
  BY DEF ActivatePicture
<1>4. /\ a \in DecAppVariables /\ a.pocLastDisplay = app.pocLastDisplay
  BY InvFacts DEF DecodingInv, DecAppVariables
<1>5. OneSequence(Activated, enc.cvs)
  <2>1. OneSequence(picList', enc.cvs)
    BY DEF DecodingInv, OnePicturePerPoc, OneSequence
  <2> QED
    BY <1>1, <2>1 DEF Lowered, OneSequence
<1>6. /\ Bumpable(Activated, m, p.poc) /\ Waiting(Activated) = Waiting(picList)
      /\ \A i \in Waiting(picList) : Activated[i].poc = picList[i].poc
  BY <1>1, <1>5, ActivatedBumpable
<1>7. \A i \in Waiting(picList) : i \in Waiting(Activated) /\ SamePicture(Activated, picList, i)
  <2>1. \A i \in Waiting(picList) : Activated[i].cvs = enc.cvs
    BY <1>5, <1>6 DEF OneSequence, Waiting
  <2>2. \A i \in Waiting(picList) : picList[i].cvs = enc.cvs
    BY VideoFacts
  <2> QED
    BY <1>6, <2>1, <2>2 DEF SamePicture
<1>8. CASE last
  <2>1. picList' = Activated /\ shown' = shown /\ discarded' = discarded
    BY <1>3, <1>8
  <2> QED
    BY <1>6, <1>7, <2>1, QuietVideo
<1>9. CASE ~last
  <2>1. /\ WriteOutput(Suppress(Activated, a), a)
        /\ discarded' = IF a.gdrRecoveryPeriod
                        THEN Cancelled(Activated, DOMAIN Activated, "recovery") ELSE discarded
    BY <1>3, <1>9 DEF EndOfIteration
  <2>2. /\ DOMAIN discarded \subseteq DOMAIN discarded'
        /\ a.gdrRecoveryPeriod => Waiting(Activated) \subseteq DOMAIN discarded'
    BY <2>1 DEF Cancelled, Waiting
  <2>3. Histories(m, shown, discarded, due)
    <3>1. Histories(numPics, shown, discarded, due)
      BY InvFacts DEF DecodingInv
    <3>2. 1..numPics \subseteq 1..m
      BY <1>1
    <3> QED
      BY <3>1, <3>2 DEF Histories, IsFile
  <2> HIDE DEF a, m, p
  <2>4. Passed(Activated)
    BY <1>2, <1>4, <1>6, <2>1, <2>2, <2>3, IterationPasses
  <2> QED
    BY <1>6, <1>7, <2>4, PassedVideo
<1> QED
  BY <1>8, <1>9

\* A picture is finished: it may now wait, as the only new one.
LEMMA ClosedVideo ==
  ASSUME DecodingInv, OutputInv, curPic # None, Live, NEW c \in BOOLEAN,
         c => curPic.type # "RASL", NEW a \in DecAppVariables,
         a.pocLastDisplay = app.pocLastDisplay,
         \/ WriteOutput(Suppress(Finished(c), a), a)
         \/ picList' = Suppress(Finished(c), a) /\ shown' = shown,
         NEW reason, Accounted(Finished(c), a, reason)
  PROVE  VideoStep
<1> DEFINE list == Finished(c)
<1>1. Bumpable(list, numPics, picList[curPic.id].poc)
  BY FinishedBumpable
<1>2. /\ ~enc.start /\ SamePictures(list, picList)
      /\ Waiting(list) = Waiting(picList) \cup (IF curPic.output THEN {curPic.id} ELSE {})
  BY FinishedPicture DEF DecodingInv, Control, Between
<1>3. Histories(numPics, shown, discarded, due)
  BY InvFacts DEF DecodingInv
<1>4. /\ DOMAIN discarded \subseteq DOMAIN discarded'
      /\ a.gdrRecoveryPeriod => Waiting(list) \subseteq DOMAIN discarded'
  BY DEF Accounted
<1>5. \/ WriteOutput(Suppress(list, a), a)
      \/ picList' = Suppress(list, a) /\ shown' = shown
  OBVIOUS
<1> HIDE DEF list
<1>6. Passed(list)
  BY <1>1, <1>2, <1>3, <1>4, <1>5, IterationPasses
<1>7. \A i \in Waiting(picList) : i \in Waiting(list) /\ SamePicture(list, picList, i)
  BY <1>2 DEF SamePictures, SamePicture, Waiting
<1>8. \A i \in Waiting(list) : i = curPic.id \/ i \in Waiting(picList)
  BY <1>2
<1> QED
  BY <1>6, <1>7, <1>8, PassedVideo

\* FinishPicture.
LEMMA FinishedVideo ==
  ASSUME DecodingInv, OutputInv, FinishPicture
  PROVE  VideoStep
<1> DEFINE b == [app EXCEPT !.loopFiltered = FALSE, !.eosInLastPu = FALSE]
           a == AfterFinish(b, dec.prevGdrRecoveryPoc)
<1>1. /\ app.status = "running" /\ curPic # None
      /\ WriteOutput(Suppress(Finished(app.newCLVS), a), a)
      /\ Accounted(Finished(app.newCLVS), a, "newCLVS")
  BY DEF FinishPicture
<1>2. app \in DecAppVariables /\ app.newCLVS \in BOOLEAN
  BY InvFacts DEF DecodingInv, DecAppVariables
<1>3. b \in DecAppVariables /\ b.pocLastDisplay = app.pocLastDisplay
  BY <1>2 DEF DecAppVariables
<1> HIDE DEF b
<1>4. a \in DecAppVariables /\ a.pocLastDisplay = app.pocLastDisplay
  BY <1>3, AfterFinishFlags
<1> HIDE DEF a
<1>5. Live /\ (app.newCLVS => curPic.type # "RASL")
  BY <1>1 DEF Live, DecodingInv, Control
<1> QED
  BY <1>1, <1>2, <1>4, <1>5, ClosedVideo

\* FinishLastPicture.
LEMMA FinishedLastVideo ==
  ASSUME DecodingInv, OutputInv, FinishLastPicture, ~app.loopFiltered
  PROVE  VideoStep
<1> DEFINE b == [app EXCEPT !.loopFiltered = FALSE, !.status = "lastPicture"]
           a == AfterFinish(b, dec.prevGdrRecoveryPoc)
<1>1. /\ Live /\ curPic # None
      /\ \/ WriteOutput(Suppress(Finished(app.newCLVS), a), a)
         \/ picList' = Suppress(Finished(app.newCLVS), a) /\ shown' = shown
      /\ Accounted(Finished(app.newCLVS), a, "newCLVS")
  BY DEF FinishLastPicture, Live
<1>2. app \in DecAppVariables /\ app.newCLVS \in BOOLEAN
  BY InvFacts DEF DecodingInv, DecAppVariables
<1>3. b \in DecAppVariables /\ b.pocLastDisplay = app.pocLastDisplay
  BY <1>2 DEF DecAppVariables
<1> HIDE DEF b
<1>4. a \in DecAppVariables /\ a.pocLastDisplay = app.pocLastDisplay
  BY <1>3, AfterFinishFlags
<1> HIDE DEF a
<1>5. app.newCLVS => curPic.type # "RASL"
  BY <1>1 DEF DecodingInv, Control
<1> QED
  BY <1>1, <1>2, <1>4, <1>5, ClosedVideo

\* An EOS after a picture that is not a RASL picture.
LEMMA EosAfterPictureVideo ==
  ASSUME DecodingInv, OutputInv, EndOfSequenceAfterPicture, curPic.type # "RASL"
  PROVE  VideoStep
<1> DEFINE b == [app EXCEPT !.newCLVS = TRUE, !.eosInLastPu = TRUE, !.loopFiltered = TRUE]
           a == AfterFinish(b, -MAX_INT)
<1>1. /\ app.status = "running" /\ curPic # None
      /\ WriteOutput(Suppress(Finished(TRUE), a), a)
      /\ Accounted(Finished(TRUE), a, "newCLVS")
  BY DEF EndOfSequenceAfterPicture
<1>2. b \in DecAppVariables /\ b.pocLastDisplay = app.pocLastDisplay
  BY InvFacts DEF DecodingInv, DecAppVariables
<1> HIDE DEF b
<1>3. a \in DecAppVariables /\ a.pocLastDisplay = app.pocLastDisplay
  BY <1>2, AfterFinishFlags
<1> HIDE DEF a
<1>4. Live
  BY <1>1 DEF Live
<1> QED
  BY <1>1, <1>3, <1>4, ClosedVideo

\* The last flush; the CHECK before it does not fail.
LEMMA LastFlushVideo ==
  ASSUME DecodingInv, OutputInv, DecodingInv', EncodeEnd
  PROVE  VideoStep
<1>1. app' # [app EXCEPT !.status = "aborted"]
  <2>1. app \in DecAppVariables
    BY InvFacts DEF DecodingInv
  <2>2. app' = [app EXCEPT !.status = "aborted"] => app'.status = "aborted"
    BY <2>1 DEF DecAppVariables
  <2> QED
    BY <2>2 DEF DecodingInv, NeverAborts
<1>2. /\ picList' = << >> /\ shown' = Written(shown, picList, Waiting(picList))
      /\ discarded' = discarded
  BY <1>1 DEF EncodeEnd, EndOfStream
<1>3. Waiting(picList') = {}
  BY <1>2 DEF Waiting
<1> QED
  BY <1>2, <1>3, FlushVideo

-----------------------------------------------------------------------------
(* The theorem.                                                             *)

\* Every step of the decoder is such a step, or changes nothing.
LEMMA VideoOfNext ==
  ASSUME Situations = {}, DecodingInv, OutputInv, DecodingInv', [StreamNext]_svars
  PROVE  VideoStep
<1>1. CASE StartSegment
  <2>1. PICK p, future : NewSequence(p, future) \/ NextSegment(p, future)
    BY <1>1, StartSegmentSteps
  <2>2. CASE NewSequence(p, future)
    <3>1. FirstPicture(p)
      BY <2>2, NewSequenceIsFirst
    <3>2. /\ DOMAIN picList' = {} /\ discarded' = discarded
          /\ shown' = Written(shown, picList, Waiting(picList))
      BY <3>1, BeginFirst
    <3> QED
      BY <3>2, FlushVideo DEF Waiting
  <2>3. CASE NextSegment(p, future)
    <3>1. NextPicture(p)
      BY <2>3, NextSegmentIsNext
    <3>2. p.poc >= First
      <4>1. ~enc.start /\ p.poc \in Int /\ p.poc > enc.last
        BY <2>3 DEF NextSegment, CodedPicture
      <4> QED
        BY <4>1, SequenceFacts
    <3>3. picList' = picList /\ shown' = shown /\ discarded' = discarded
      BY <3>1, <3>2, BeginNext
    <3> QED
      BY <3>3, QuietVideo DEF SamePicture
  <2> QED
    BY <2>1, <2>2, <2>3
<1>2. CASE CodePicture
  <2>1. PICK p : LaterPicture(p)
    BY <1>2, CodePictureSteps
  <2>2. NextPicture(p)
    BY <2>1, LaterPictureIsNext
  <2>3. p.poc \in Int /\ First \in Int
    BY <2>2, SequenceFacts DEF NextPicture, CodedPicture
  <2>4. CASE p.poc >= First
    <3>1. picList' = picList /\ shown' = shown /\ discarded' = discarded
      BY <2>2, <2>4, BeginNext
    <3> QED
      BY <3>1, QuietVideo DEF SamePicture
  <2>5. CASE p.poc < First
    BY <2>2, <2>5, SkippedVideo DEF NextPicture
  <2> QED
    BY <2>3, <2>4, <2>5
<1>3. CASE EncodeEos
  <2>1. Forgotten
    BY <1>3 DEF EncodeEos, Forgotten
  <2>2. EndOfSequenceAfterSkip \/ (EndOfSequenceAfterPicture /\ curPic.type # "RASL")
    BY <1>3 DEF EncodeEos, EndOfSequence, EndOfSequenceAfterPicture
  <2> QED
    BY <2>1, <2>2, EosAfterSkipVideo, EosAfterPictureVideo
<1>4. CASE DecodeNext
  <2>1. /\ enc' = enc /\ Decode
        /\ app.loopFiltered /\ app'.status = "lastPicture" => FALSE
    BY <1>4 DEF DecodeNext
  <2>2. CASE FinishLastPicture
    BY <2>1, <2>2, LastPictureStatus, FinishedLastVideo
  <2> QED
    BY <2>1, <2>2, InsertedVideo, NoFailingStep, ActivatedVideo, FinishedVideo DEF Decode
<1>5. CASE EncodeEnd
  BY <1>5, LastFlushVideo
<1>6. CASE UNCHANGED svars
  <2>1. picList' = picList /\ shown' = shown /\ discarded' = discarded
    BY <1>6 DEF svars, vars, history
  <2> QED
    BY <2>1, QuietVideo DEF SamePicture
<1> QED
  BY <1>1, <1>2, <1>3, <1>4, <1>5, <1>6 DEF StreamNext

\* Nothing is pending and the file is empty when the program starts.
LEMMA VideoInit ==
  ASSUME StreamInit
  PROVE  Video!Init
<1>1. picList = << >> /\ shown = << >> /\ discarded = << >>
  BY DEF StreamInit, Init
<1>2. Waiting(picList) = {} /\ DOMAIN shown = {} /\ DOMAIN discarded = {}
  BY <1>1 DEF Waiting
<1>3. Cardinality(DOMAIN shown) = 0
  BY <1>2, FS_EmptySet
<1>4. FileOf(shown) = << >>
  BY <1>3 DEF FileOf
<1> QED
  BY <1>2, <1>4 DEF Video!Init

\* The decoder's file is the file DecodedVideo promises: decoded pictures become
\* pending one by one, the file grows at its end by pending pictures in output
\* order across the whole stream, and none disappears but on request.
THEOREM DecoderImplementsVideo == Situations = {} => (StreamSpec => ImplementsVideo)
<1>1. ASSUME Situations = {}
      PROVE  StreamSpec => ImplementsVideo
  <2>1. /\ DecodingInv /\ OutputInv /\ DecodingInv' /\ OutputInv' /\ [StreamNext]_svars
        => Video!Next
    BY <1>1, VideoOfNext, StepImplements
  <2>2. StreamInit => Video!Init
    BY VideoInit
  <2>3. StreamSpec => [](DecodingInv /\ OutputInv)
    BY <1>1, OutputInvariance
  <2> QED
    BY <2>1, <2>2, <2>3, PTL DEF StreamSpec, ImplementsVideo, Video!Spec
<1> QED
  BY <1>1

=============================================================================
