------------------------- MODULE ContextStoreProofs -------------------------
(***************************************************************************)
(* The stores of ContextStore agree, for every buffer size, set of         *)
(* sub-layers and slice QPs, number of slices, and stream.                 *)
(***************************************************************************)
EXTENDS ContextStore, FiniteOrders

\* The provers need not know the number.
LEMMA MaxIntType == MAX_INT \in Nat \ {0}
BY SMT DEF MAX_INT

StoredTypes == {"P", "B"}

\* The contexts stored for the slices of one type.
Tables == UNION {[K -> Contexts] : K \in SUBSET Keys}

\* A store that has not outgrown its size.
IsStore(st) ==
  /\ st \in Store
  /\ \A t \in StoredTypes :
       IsFiniteSet(DOMAIN st[t]) /\ Cardinality(DOMAIN st[t]) <= BufferSize

Full(st, t) == Cardinality(DOMAIN st[t]) = BufferSize

\* A decoder of the sub-layers up to m drops nothing.
DropsNone(m) == Tids \subseteq 0..m

\* The keys of the encoder's store that a decoder of the sub-layers up to m uses.
Shared(e, m, t) == {k \in DOMAIN e[t] : k[1] <= m}

\* That decoder holds the encoder's contexts, as far as it uses them.
AgreeOn(e, d, m, t) ==
  DOMAIN d[t] = Shared(e, m, t) /\ \A k \in DOMAIN d[t] : d[t][k] = e[t][k]

\* It does so unless contexts it does not know of may have pushed others out.
Agree(e, d, m) ==
  \A t \in StoredTypes : AgreeOn(e, d, m, t) \/ (Full(e, t) /\ ~DropsNone(m))

-----------------------------------------------------------------------------
(* The operations on a store.                                               *)

\* A table holds contexts for some of the keys.
LEMMA TableType ==
  ASSUME NEW f, NEW K
  PROVE  /\ f \in Tables => DOMAIN f \subseteq Keys /\ \A k \in DOMAIN f : f[k] \in Contexts
         /\ f \in [K -> Contexts] /\ K \subseteq Keys => f \in Tables
BY DEF Tables

\* The first key of a store that is not empty is one of its keys.
LEMMA FirstKeyIn ==
  ASSUME NEW keys, IsFiniteSet(keys), keys \subseteq Keys, keys # {}
  PROVE  FirstKey(keys) \in keys
<1> DEFINE Below(j, k) == j[1] < k[1] \/ (j[1] = k[1] /\ j[2] < k[2])
           Order == {kj \in keys \X keys : Below(kj[2], kj[1])}
<1>1. \A k \in keys : k[1] \in Int /\ k[2] \in Int
  <2>1. \A k \in Keys : k[1] \in Tids /\ k[2] \in Qps
    BY DEF Keys
  <2>2. Tids \subseteq Int /\ Qps \subseteq Int
    BY TidsAssumption, QpsAssumption
  <2> QED
    BY <2>1, <2>2
<1>2. \A j, k \in keys : <<k, j>> \in Order <=> Below(j, k)
  OBVIOUS
<1> HIDE DEF Order
<1>3. \A k \in keys : <<k, k>> \notin Order
  BY <1>1, <1>2
<1>4. \A i, j, k \in keys : <<i, j>> \in Order /\ <<j, k>> \in Order => <<i, k>> \in Order
  BY <1>1, <1>2
<1>5. PICK k \in keys : \A j \in keys : <<k, j>> \notin Order
  BY <1>3, <1>4, LastElement
<1>6. \A j \in keys : k[1] < j[1] \/ (k[1] = j[1] /\ k[2] <= j[2])
  <2>1. \A j \in keys : ~Below(j, k)
    BY <1>2, <1>5
  <2> QED
    BY <1>1, <2>1
<1> QED
  BY <1>6 DEF FirstKey

\* storeCtx keeps the store within its size and changes no contexts but those
\* of the key; a store that is not full keeps all keys, a full one stays full.
Stored(st, new, s, tid, ctx) ==
  /\ IsStore(new)
  /\ \A t \in StoredTypes : t # s.sliceType => new[t] = st[t]
  /\ \A t \in StoredTypes : t = s.sliceType =>
       /\ <<tid, s.qp>> \in DOMAIN new[t]
       /\ DOMAIN new[t] \subseteq DOMAIN st[t] \cup {<<tid, s.qp>>}
       /\ \A k \in DOMAIN new[t] : new[t][k] = IF k = <<tid, s.qp>> THEN ctx ELSE st[t][k]
       /\ <<tid, s.qp>> \in DOMAIN st[t] \/ ~Full(st, t)
            => DOMAIN new[t] = DOMAIN st[t] \cup {<<tid, s.qp>>}
       /\ Full(st, t) => Full(new, t)

\* storeCtx has the effect that Stored states.
LEMMA StoreCtxEffect ==
  ASSUME NEW st, IsStore(st), NEW s \in Slice, NEW tid \in Tids, NEW ctx \in Contexts
  PROVE  Stored(st, StoreCtx(st, s, tid, ctx), s, tid, ctx)
<1> DEFINE new == StoreCtx(st, s, tid, ctx)
           key == <<tid, s.qp>>
           old == st[s.sliceType]
           kept == IF key \in DOMAIN old \/ Cardinality(DOMAIN old) < BufferSize
                   THEN DOMAIN old ELSE DOMAIN old \ {FirstKey(DOMAIN old)}
           tab == [j \in kept \cup {key} |-> IF j = key THEN ctx ELSE old[j]]
<1>1. CASE s.sliceType = "I"
  BY <1>1 DEF StoreCtx, StoredTypes, Stored
<1>2. CASE s.sliceType # "I"
  <2>1. s.sliceType \in StoredTypes /\ key \in Keys
    BY <1>2 DEF Slice, StoredTypes, Keys
  <2>2. old \in Tables
    BY <2>1 DEF IsStore, Store, Tables, StoredTypes
  <2>3. /\ DOMAIN old \subseteq Keys /\ \A k \in DOMAIN old : old[k] \in Contexts
        /\ IsFiniteSet(DOMAIN old) /\ Cardinality(DOMAIN old) <= BufferSize
        /\ Cardinality(DOMAIN old) \in Nat
    BY <2>1, <2>2, TableType, FS_CardinalityType DEF IsStore
  <2>4. kept \subseteq DOMAIN old
    OBVIOUS
  <2>5. tab \in Tables
    <3>1. tab \in [kept \cup {key} -> Contexts] /\ kept \cup {key} \subseteq Keys
      BY <2>1, <2>3, <2>4
    <3> QED
      BY <3>1, TableType
  <2>6. /\ IsFiniteSet(kept \cup {key}) /\ Cardinality(kept \cup {key}) <= BufferSize
        /\ Full(st, s.sliceType) => Cardinality(kept \cup {key}) = BufferSize
    <3>1. CASE key \in DOMAIN old
      <4>1. kept \cup {key} = DOMAIN old
        BY <3>1
      <4> QED
        BY <2>3, <4>1 DEF Full
    <3>2. CASE key \notin DOMAIN old /\ Cardinality(DOMAIN old) < BufferSize
      <4>1. kept = DOMAIN old
        BY <3>2
      <4>2. IsFiniteSet(kept \cup {key}) /\ Cardinality(kept \cup {key}) = Cardinality(DOMAIN old) + 1
        BY <2>3, <3>2, <4>1, FS_AddElement
      <4> QED
        BY <2>3, <3>2, <4>2, SizeAssumption DEF Full
    <3>3. CASE key \notin DOMAIN old /\ ~(Cardinality(DOMAIN old) < BufferSize)
      <4>1. Cardinality(DOMAIN old) = BufferSize /\ BufferSize \in Nat /\ BufferSize # 0
        BY <2>3, <3>3, SizeAssumption
      <4>2. DOMAIN old # {}
        BY <4>1, FS_EmptySet
      <4>3. FirstKey(DOMAIN old) \in DOMAIN old
        BY <2>3, <4>2, FirstKeyIn
      <4>4. kept = DOMAIN old \ {FirstKey(DOMAIN old)}
        BY <3>3
      <4>5. IsFiniteSet(kept) /\ Cardinality(kept) = BufferSize - 1 /\ key \notin kept
        <5> DEFINE first == FirstKey(DOMAIN old)
        <5> HIDE DEF first, key, old, kept
        <5>1. /\ IsFiniteSet(DOMAIN old \ {first})
              /\ Cardinality(DOMAIN old \ {first}) = Cardinality(DOMAIN old) - 1
          BY <2>3, <4>3, FS_RemoveElement DEF first
        <5> QED
          BY <3>3, <4>1, <4>4, <5>1 DEF first
      <4>6. IsFiniteSet(kept \cup {key}) /\ Cardinality(kept \cup {key}) = BufferSize - 1 + 1
        BY <4>5, FS_AddElement
      <4> QED
        BY <4>1, <4>6
    <3> QED
      BY <3>1, <3>2, <3>3
  <2> HIDE DEF kept
  <2>7. new = [st EXCEPT ![s.sliceType] = tab]
    BY <1>2 DEF StoreCtx, kept
  <2>8. st \in [StoredTypes -> Tables]
    BY DEF IsStore, Store, Tables, StoredTypes
  <2>9. DOMAIN tab = kept \cup {key}
    OBVIOUS
  <2> HIDE DEF tab
  <2>10. /\ new \in [StoredTypes -> Tables] /\ new[s.sliceType] = tab
         /\ \A t \in StoredTypes : t # s.sliceType => new[t] = st[t]
    BY <2>1, <2>5, <2>7, <2>8
  <2> HIDE DEF new
  <2>11. IsStore(new)
    BY <2>6, <2>9, <2>10 DEF IsStore, Store, Tables, StoredTypes
  <2>12. Full(st, s.sliceType) => Full(new, s.sliceType)
    BY <2>6, <2>9, <2>10 DEF Full
  <2>13. key \in DOMAIN old \/ ~Full(st, s.sliceType) => DOMAIN tab = DOMAIN old \cup {key}
    BY <2>3, <2>9, SizeAssumption DEF Full, kept
  <2>14. \A k \in DOMAIN tab : tab[k] = IF k = key THEN ctx ELSE old[k]
    BY DEF tab
  <2> QED
    BY <2>4, <2>9, <2>10, <2>11, <2>12, <2>13, <2>14 DEF new, Stored
<1> QED
  BY <1>1, <1>2

\* Storing the contexts of a picture that both decode keeps the stores alike.
LEMMA BothStore ==
  ASSUME NEW e, IsStore(e), NEW d, IsStore(d), NEW m \in Nat, Agree(e, d, m),
         NEW s \in Slice, NEW tid \in Tids, tid <= m, NEW ctx \in Contexts
  PROVE  Agree(StoreCtx(e, s, tid, ctx), StoreCtx(d, s, tid, ctx), m)
<1> DEFINE en == StoreCtx(e, s, tid, ctx)
           dn == StoreCtx(d, s, tid, ctx)
           key == <<tid, s.qp>>
<1> SUFFICES ASSUME NEW t \in StoredTypes
             PROVE  AgreeOn(en, dn, m, t) \/ (Full(en, t) /\ ~DropsNone(m))
  BY DEF Agree
<1>1. AgreeOn(e, d, m, t) \/ (Full(e, t) /\ ~DropsNone(m))
  BY DEF Agree
<1>2. Stored(e, en, s, tid, ctx) /\ Stored(d, dn, s, tid, ctx)
  BY StoreCtxEffect
<1>3. DropsNone(m) => \A k \in Keys : k[1] <= m
  <2>1. \A k \in Keys : k[1] \in Tids
    BY DEF Keys
  <2>2. DropsNone(m) => \A k1 \in Tids : k1 <= m
    BY DEF DropsNone
  <2> QED
    BY <2>1, <2>2
<1>4. CASE s.sliceType # t
  <2>1. en[t] = e[t] /\ dn[t] = d[t]
    BY <1>4, <1>2 DEF Stored
  <2> QED
    BY <1>1, <2>1 DEF AgreeOn, Full, Shared
<1>5. CASE s.sliceType = t /\ Full(e, t)
  <2>1. s.sliceType # "I" /\ Full(en, t)
    BY <1>5, <1>2 DEF Stored, StoredTypes
  <2>2. CASE ~DropsNone(m)
    BY <2>1, <2>2
  <2>3. CASE DropsNone(m)
    <3>1. e[t] \in Tables /\ d[t] \in Tables
      BY DEF IsStore, Store, Tables, StoredTypes
    <3>2. Shared(e, m, t) = DOMAIN e[t]
      <4>1. DOMAIN e[t] \subseteq Keys
        BY <3>1, TableType
      <4> QED
        BY <1>3, <2>3, <4>1 DEF Shared
    <3>3. d[t] = e[t]
      <4>1. DOMAIN d[t] = DOMAIN e[t] /\ \A k \in DOMAIN d[t] : d[t][k] = e[t][k]
        BY <1>1, <2>3, <3>2 DEF AgreeOn
      <4> QED
        BY <3>1, <4>1 DEF Tables
    <3>4. dn[t] = en[t]
      <4>1. /\ e \in [StoredTypes -> Tables] /\ d \in [StoredTypes -> Tables]
        BY DEF IsStore, Store, Tables, StoredTypes
      <4> QED
        BY <1>5, <2>1, <3>3, <4>1 DEF StoreCtx
    <3>5. DOMAIN en[t] \subseteq Keys
      <4>1. en[t] \in Tables
        BY <1>2 DEF Stored, IsStore, Store, Tables, StoredTypes
      <4> QED
        BY <4>1, TableType
    <3> HIDE DEF en, dn
    <3> QED
      BY <1>3, <2>3, <3>4, <3>5 DEF AgreeOn, Shared
  <2> QED
    BY <2>2, <2>3
<1>6. CASE s.sliceType = t /\ ~Full(e, t)
  <2>1. s.sliceType # "I" /\ AgreeOn(e, d, m, t)
    BY <1>1, <1>6 DEF StoredTypes
  <2>2. key \in DOMAIN d[t] \/ ~Full(d, t)
    <3>1. DOMAIN d[t] \subseteq DOMAIN e[t]
      BY <2>1 DEF AgreeOn, Shared
    <3>2. IsFiniteSet(DOMAIN e[t]) /\ Cardinality(DOMAIN e[t]) <= BufferSize
      BY DEF IsStore
    <3>3. Cardinality(DOMAIN d[t]) <= Cardinality(DOMAIN e[t])
      BY <3>1, <3>2, FS_Subset
    <3>4. Cardinality(DOMAIN d[t]) \in Nat /\ Cardinality(DOMAIN e[t]) \in Nat
      BY <3>1, <3>2, FS_Subset, FS_CardinalityType
    <3> QED
      BY <1>6, <3>2, <3>3, <3>4, SizeAssumption DEF Full
  <2>3. /\ DOMAIN en[t] = DOMAIN e[t] \cup {key}
        /\ \A k \in DOMAIN en[t] : en[t][k] = IF k = key THEN ctx ELSE e[t][k]
    BY <1>6, <2>1, <1>2 DEF Stored
  <2>4. /\ DOMAIN dn[t] = DOMAIN d[t] \cup {key}
        /\ \A k \in DOMAIN dn[t] : dn[t][k] = IF k = key THEN ctx ELSE d[t][k]
    BY <1>6, <2>1, <2>2, <1>2 DEF Stored
  <2>5. key[1] <= m
    OBVIOUS
  <2> HIDE DEF en, dn, key
  <2> QED
    BY <2>1, <2>3, <2>4, <2>5 DEF AgreeOn, Shared
<1> QED
  BY <1>4, <1>5, <1>6

\* So does storing those of a picture whose sub-layer the decoder drops.
LEMMA EncoderStores ==
  ASSUME NEW e, IsStore(e), NEW d, NEW m \in Nat,
         NEW s \in Slice, NEW tid \in Tids, tid > m, NEW ctx \in Contexts
  PROVE  LET new == StoreCtx(e, s, tid, ctx)
         IN /\ Agree(e, d, m) => Agree(new, d, m)
            /\ \A t \in StoredTypes : Shared(new, m, t) \subseteq Shared(e, m, t)
<1> DEFINE new == StoreCtx(e, s, tid, ctx)
           key == <<tid, s.qp>>
<1>1. ~DropsNone(m) /\ ~(key[1] <= m)
  BY TidsAssumption DEF DropsNone
<1>2. Stored(e, new, s, tid, ctx)
  BY StoreCtxEffect
<1>3. ASSUME NEW t \in StoredTypes
      PROVE  /\ Shared(new, m, t) \subseteq Shared(e, m, t)
             /\ AgreeOn(e, d, m, t) => AgreeOn(new, d, m, t) \/ Full(new, t)
             /\ Full(e, t) => Full(new, t)
  <2>1. CASE s.sliceType # t
    <3>1. new[t] = e[t]
      BY <2>1, <1>2 DEF Stored
    <3> QED
      BY <3>1 DEF AgreeOn, Full, Shared
  <2>2. CASE s.sliceType = t
    <3>1. /\ DOMAIN new[t] \subseteq DOMAIN e[t] \cup {key}
          /\ \A k \in DOMAIN new[t] : new[t][k] = IF k = key THEN ctx ELSE e[t][k]
          /\ ~Full(e, t) => DOMAIN new[t] = DOMAIN e[t] \cup {key}
          /\ Full(e, t) => Full(new, t)
      BY <2>2, <1>2 DEF Stored
    <3> HIDE DEF new, key
    <3> QED
      BY <1>1, <3>1 DEF AgreeOn, Shared
  <2> QED
    BY <2>1, <2>2
<1> HIDE DEF new
<1>4. Agree(e, d, m) => Agree(new, d, m)
  BY <1>1, <1>3 DEF Agree
<1> QED
  BY <1>3, <1>4 DEF new

\* A slice that the decoder decodes finds in its store what it found in the
\* encoder's.
LEMMA SameLoaded ==
  ASSUME NEW e, NEW d, NEW m \in Nat, NEW s \in Slice, NEW tid \in Tids, tid <= m,
         s.sliceType = "I" \/ AgreeOn(e, d, m, s.sliceType)
  PROVE  LoadCtx(e, s, tid) = LoadCtx(d, s, tid)
<1>1. CASE s.sliceType = "I"
  BY <1>1 DEF LoadCtx
<1>2. CASE s.sliceType # "I"
  <2> DEFINE key == <<tid, s.qp>>
  <2>1. key[1] <= m
    OBVIOUS
  <2>2. AgreeOn(e, d, m, s.sliceType)
    BY <1>2
  <2> QED
    BY <1>2, <2>1, <2>2 DEF LoadCtx, AgreeOn, Shared
<1> QED
  BY <1>1, <1>2

\* Contexts that are loaded have been stored.
LEMMA LoadType ==
  ASSUME NEW st, IsStore(st), NEW s \in Slice, NEW tid \in Tids
  PROVE  LoadCtx(st, s, tid) \in Contexts
<1>1. 0 \in Contexts
  BY BoundsAssumption DEF Contexts
<1>2. s.sliceType # "I" => st[s.sliceType] \in Tables
  BY DEF Slice, IsStore, Store, Tables
<1> QED
  BY <1>1, <1>2, TableType DEF LoadCtx

\* An empty store.
LEMMA EmptyStore ==
  /\ IsStore(Empty)
  /\ \A t \in StoredTypes : DOMAIN Empty[t] = {}
<1>1. << >> \in Tables /\ DOMAIN << >> = {}
  <2>1. << >> \in [{} -> Contexts] /\ {} \subseteq Keys
    OBVIOUS
  <2> QED
    BY <2>1, TableType
<1>2. Empty \in [StoredTypes -> Tables] /\ \A t \in StoredTypes : Empty[t] = << >>
  BY <1>1 DEF Empty, StoredTypes
<1> QED
  BY <1>1, <1>2, FS_EmptySet, SizeAssumption DEF IsStore, Store, Tables, StoredTypes

-----------------------------------------------------------------------------
(* Coding a picture.                                                        *)

\* The pictures of the streams: with I slices only where the decoder may
\* start, unless it is a GDR picture, whose slices are B slices.
IsPicture(p) ==
  /\ p \in Picture /\ Len(p.slices) >= 1
  /\ IsIRAP(p) => \A k \in DOMAIN p.slices : p.slices[k].sliceType = "I"
  /\ p.type = "GDR" => \A k \in DOMAIN p.slices : p.slices[k].sliceType = "B"

IsCoder(c) == c \in CoderState /\ IsStore(c.store)

\* What every slice of the picture finds.
Buffer(c, p) == IF PendingRasInit(c, p) \/ p.type = "GDR" THEN Empty ELSE c.store

\* The buffer is emptied before the first slice of a picture or not at all.
LEMMA OneBuffer ==
  ASSUME NEW c, NEW p, IsPicture(p), NEW k \in DOMAIN p.slices
  PROVE  BufferAtSlice(c, p, k) = Buffer(c, p)
<1>1. p.slices \in Seq(Slice) /\ DOMAIN p.slices = 1..Len(p.slices) /\ Len(p.slices) \in Nat
  BY DEF IsPicture, Picture
<1>2. k \in 1..k /\ k \in Nat
  BY <1>1
<1>3. p.type = "GDR" => \E j \in 1..k : p.slices[j].sliceType = "B"
  BY <1>2 DEF IsPicture
<1> QED
  BY <1>3 DEF BufferAtSlice, Buffer

\* A picture has a last slice, the one whose contexts are stored, and all its
\* parts are of their types.
LEMMA LastSlice ==
  ASSUME NEW p, IsPicture(p)
  PROVE  /\ Len(p.slices) \in DOMAIN p.slices /\ p.slices[Len(p.slices)] \in Slice
         /\ \A k \in DOMAIN p.slices : p.slices[k] \in Slice
         /\ p.tid \in Tids /\ p.poc \in Int /\ DOMAIN p.slices = 1..Len(p.slices)
BY DEF IsPicture, Picture

\* updateBufferState leaves a store a store.
LEMMA BufferType ==
  ASSUME NEW c, IsCoder(c), NEW p
  PROVE  IsStore(Buffer(c, p))
BY EmptyStore DEF Buffer, IsCoder

\* Coding a picture leaves a store that has not outgrown its size, and its
\* slices start from contexts that were stored.
LEMMA CodedType ==
  ASSUME NEW c, IsCoder(c), NEW p, IsPicture(p), NEW ctx \in Contexts
  PROVE  /\ IsCoder(AfterPicture(c, p, ctx))
         /\ Loaded(c, p) \in Seq(Contexts)
<1> DEFINE n == Len(p.slices)
           store == StoreCtx(Buffer(c, p), p.slices[n], p.tid, ctx)
<1>1. IsStore(Buffer(c, p))
  BY BufferType
<1>2. IsStore(store)
  <2>1. p.slices[n] \in Slice /\ p.tid \in Tids
    BY LastSlice
  <2>2. Stored(Buffer(c, p), store, p.slices[n], p.tid, ctx)
    BY <1>1, <2>1, StoreCtxEffect
  <2> QED
    BY <2>2 DEF Stored
<1>3. BufferAtSlice(c, p, n) = Buffer(c, p)
  BY LastSlice, OneBuffer
<1>4. LastRasPoc(c, p) \in Int
  BY LastSlice, MaxIntType DEF LastRasPoc, IsCoder, CoderState
<1>5. AfterPicture(c, p, ctx) = [lastRasPoc |-> LastRasPoc(c, p), store |-> store]
  BY <1>3 DEF AfterPicture
<1> HIDE DEF store
<1>6. IsCoder(AfterPicture(c, p, ctx))
  BY <1>2, <1>4, <1>5 DEF IsCoder, CoderState, IsStore
<1>7. \A k \in 1..n : LoadCtx(BufferAtSlice(c, p, k), p.slices[k], p.tid) \in Contexts
  BY <1>1, LastSlice, OneBuffer, LoadType
<1>8. Loaded(c, p) \in [1..n -> Contexts] /\ n \in Nat
  <2>1. DOMAIN p.slices = 1..n /\ n \in Nat
    BY LastSlice DEF IsPicture, Picture
  <2> QED
    BY <1>7, <2>1 DEF Loaded
<1> QED
  BY <1>6, <1>8

\* The store after a picture, and what its slices found.
LEMMA CodedParts ==
  ASSUME NEW c, NEW p, IsPicture(p), NEW ctx
  PROVE  /\ AfterPicture(c, p, ctx).lastRasPoc = LastRasPoc(c, p)
         /\ AfterPicture(c, p, ctx).store
              = StoreCtx(Buffer(c, p), p.slices[Len(p.slices)], p.tid, ctx)
         /\ Loaded(c, p) = [k \in DOMAIN p.slices |-> LoadCtx(Buffer(c, p), p.slices[k], p.tid)]
         /\ IsIRAP(p) => AfterPicture(c, p, ctx).store = Buffer(c, p)
<1>1. /\ AfterPicture(c, p, ctx).lastRasPoc = LastRasPoc(c, p)
      /\ AfterPicture(c, p, ctx).store
           = StoreCtx(Buffer(c, p), p.slices[Len(p.slices)], p.tid, ctx)
  BY LastSlice, OneBuffer DEF AfterPicture
<1>2. Loaded(c, p) = [k \in DOMAIN p.slices |-> LoadCtx(Buffer(c, p), p.slices[k], p.tid)]
  BY OneBuffer DEF Loaded
<1>3. IsIRAP(p) => AfterPicture(c, p, ctx).store = Buffer(c, p)
  BY <1>1, LastSlice DEF IsPicture, StoreCtx
<1> QED
  BY <1>1, <1>2, <1>3

\* A picture that both code from stores that agree.
LEMMA BothCode ==
  ASSUME NEW c, IsCoder(c), NEW d, IsCoder(d), NEW p, IsPicture(p), NEW q, IsPicture(q),
         q.slices = p.slices, q.tid = p.tid, NEW m \in Nat, p.tid <= m,
         NEW ctx \in Contexts, Agree(Buffer(c, p), Buffer(d, q), m)
  PROVE  LET e == AfterPicture(c, p, ctx).store
         IN /\ Agree(e, AfterPicture(d, q, ctx).store, m)
            /\ DropsNone(m) \/ (\A t \in StoredTypes : ~Full(e, t))
                 => Loaded(c, p) = Loaded(d, q)
<1> DEFINE be == Buffer(c, p)
           bd == Buffer(d, q)
           s == p.slices[Len(p.slices)]
           e == StoreCtx(be, s, p.tid, ctx)
<1>1. IsStore(be) /\ IsStore(bd) /\ s \in Slice /\ p.tid \in Tids
  BY BufferType, LastSlice
<1>2. AfterPicture(c, p, ctx).store = e /\ AfterPicture(d, q, ctx).store = StoreCtx(bd, s, p.tid, ctx)
  BY CodedParts
<1>3. Agree(e, StoreCtx(bd, s, p.tid, ctx), m)
  BY <1>1, BothStore
<1>4. Stored(be, e, s, p.tid, ctx)
  BY <1>1, StoreCtxEffect
<1>5. \A k \in DOMAIN p.slices : p.slices[k].sliceType \in StoredTypes \cup {"I"}
  BY LastSlice DEF Slice, StoredTypes
<1> HIDE DEF be, bd, s, e
<1>6. ASSUME DropsNone(m) \/ (\A t \in StoredTypes : ~Full(e, t))
      PROVE  Loaded(c, p) = Loaded(d, q)
  <2>1. \A t \in StoredTypes : Full(be, t) => Full(e, t)
    BY <1>4 DEF Stored, Full
  <2>2. \A t \in StoredTypes : AgreeOn(be, bd, m, t)
    BY <1>6, <2>1 DEF Agree, be, bd
  <2>3. \A k \in DOMAIN p.slices : LoadCtx(be, p.slices[k], p.tid) = LoadCtx(bd, p.slices[k], p.tid)
    BY <1>1, <1>5, <2>2, LastSlice, SameLoaded
  <2> QED
    BY <2>3, CodedParts DEF be, bd
<1> QED
  BY <1>2, <1>3, <1>6

\* The slices of an IRAP picture are I slices.
LEMMA NothingLoaded ==
  ASSUME NEW c, NEW d, NEW p, IsPicture(p), NEW q, IsPicture(q), IsIRAP(p), IsIRAP(q),
         q.slices = p.slices
  PROVE  Loaded(c, p) = Loaded(d, q)
<1>1. \A b, k, tid : k \in DOMAIN p.slices => LoadCtx(b, p.slices[k], tid) = 0
  BY DEF IsPicture, LoadCtx
<1>2. Loaded(c, p) = [k \in DOMAIN p.slices |-> 0]
  BY <1>1 DEF Loaded
<1>3. Loaded(d, q) = [k \in DOMAIN p.slices |-> 0]
  BY <1>1 DEF Loaded
<1> QED
  BY <1>2, <1>3

-----------------------------------------------------------------------------
(* Type correctness.                                                        *)

\* The output order positions a random access point takes at most.
Span == MaxLeading + MaxTrailing + 1

\* The stream so far lies below a multiple of Span.
StreamBounds ==
  /\ gop.last <= gop.pics * Span
  /\ \A poc \in gop.leading : poc <= gop.last
  /\ \A poc \in gop.trailing : poc <= gop.pics * Span

TypeInv == TypeOK /\ IsStore(enc.store) /\ IsStore(dec.store) /\ StreamBounds

\* What the three actions do to the encoder's position in the stream.
RandomAccessStep(p) ==
  /\ p.type \in {"IDR", "CRA", "GDR"} /\ p.tid = 0
  /\ p.poc > gop.last /\ p.poc <= gop.last + MaxLeading + 1
  /\ RadlPictures \/ p.type = "CRA" \/ p.poc = gop.last + 1
  /\ gop' = [pics |-> gop.pics + 1, refresh |-> p.type, last |-> p.poc,
             leading |-> (gop.last + 1)..(p.poc - 1),
             trailing |-> (p.poc + 1)..(p.poc + MaxTrailing)]

LeadingStep(p) ==
  /\ p.type = IF gop.refresh = "CRA" THEN "RASL" ELSE "RADL"
  /\ p.poc \in gop.leading
  /\ gop' = [gop EXCEPT !.pics = @ + 1, !.leading = @ \ {p.poc}]

TrailingStep(p) ==
  /\ p.type = "TRAIL" /\ p.poc \in gop.trailing
  /\ gop' = [gop EXCEPT !.pics = @ + 1, !.leading = {}, !.trailing = @ \ {p.poc},
                        !.last = IF p.poc > @ THEN p.poc ELSE @]

StreamStep(p) == RandomAccessStep(p) \/ LeadingStep(p) \/ TrailingStep(p)

\* Every picture that the encoder may code has at least one slice.
LEMMA SlicesType ==
  ASSUME NEW types, types \subseteq {"I", "P", "B"}, NEW slices \in SlicesOf(types)
  PROVE  /\ slices \in Seq(Slice) /\ Len(slices) >= 1
         /\ \A k \in DOMAIN slices : slices[k].sliceType \in types
<1>1. PICK n \in SliceCounts : slices \in [1..n -> [sliceType : types, qp : Qps]]
  BY DEF SlicesOf
<1>2. n \in Nat /\ n >= 1
  BY SliceCountsAssumption
<1>3. slices \in [1..n -> Slice]
  BY <1>1 DEF Slice
<1>4. slices \in Seq(Slice)
  BY <1>2, <1>3
<1>5. Len(slices) = n
  BY <1>1, <1>2, <1>4
<1> QED
  BY <1>1, <1>2, <1>4, <1>5

\* Every step codes a picture of the stream.
LEMMA NextCodes ==
  ASSUME TypeOK, Next
  PROVE  \E p : IsPicture(p) /\ Code(p) /\ StreamStep(p)
<1>1. /\ gop.last \in Nat /\ gop.leading \subseteq Nat /\ gop.trailing \subseteq Nat /\ 0 \in Tids
  BY TidsAssumption DEF TypeOK
<1>2. CASE RandomAccessPoint
  <2>1. PICK type \in RefreshTypes :
          \E slices \in SlicesOf(IF type = "GDR" THEN {"B"} ELSE {"I"}) :
            LET leads == gop.pics > 0 /\ (type = "CRA" \/ (type = "IDR" /\ RadlPictures))
                poc == gop.last + (IF leads THEN MaxLeading ELSE 0) + 1
            IN /\ Code([type |-> type, poc |-> poc, tid |-> 0, slices |-> slices])
               /\ gop' = [pics |-> gop.pics + 1, refresh |-> type, last |-> poc,
                          leading |-> (gop.last + 1)..(poc - 1),
                          trailing |-> (poc + 1)..(poc + MaxTrailing)]
    BY <1>2 DEF RandomAccessPoint
  <2> DEFINE leads == gop.pics > 0 /\ (type = "CRA" \/ (type = "IDR" /\ RadlPictures))
             poc == gop.last + (IF leads THEN MaxLeading ELSE 0) + 1
  <2>2. PICK slices \in SlicesOf(IF type = "GDR" THEN {"B"} ELSE {"I"}) :
          /\ Code([type |-> type, poc |-> poc, tid |-> 0, slices |-> slices])
          /\ gop' = [pics |-> gop.pics + 1, refresh |-> type, last |-> poc,
                     leading |-> (gop.last + 1)..(poc - 1),
                     trailing |-> (poc + 1)..(poc + MaxTrailing)]
    BY <2>1
  <2> DEFINE p == [type |-> type, poc |-> poc, tid |-> 0, slices |-> slices]
  <2>3. type \in {"IDR", "CRA", "GDR"}
    BY RefreshAssumption
  <2>4. /\ slices \in Seq(Slice) /\ Len(slices) >= 1
        /\ \A k \in DOMAIN slices :
             slices[k].sliceType \in (IF type = "GDR" THEN {"B"} ELSE {"I"})
    BY SlicesType
  <2>5. poc \in Int /\ poc > gop.last /\ poc <= gop.last + MaxLeading + 1
    BY <1>1, BoundsAssumption
  <2>6. RadlPictures \/ type = "CRA" \/ poc = gop.last + 1
    BY <1>1
  <2> HIDE DEF poc
  <2>7. IsPicture(p)
    BY <1>1, <2>3, <2>4, <2>5 DEF IsPicture, IsIRAP, Picture
  <2>8. RandomAccessStep(p)
    BY <2>2, <2>3, <2>5, <2>6 DEF RandomAccessStep, poc
  <2> QED
    BY <2>2, <2>7, <2>8 DEF StreamStep, poc
<1>3. CASE LeadingPicture
  <2>1. PICK poc \in gop.leading, tid \in Tids, slices \in SlicesOf({"P", "B"}) :
          /\ Code([type |-> IF gop.refresh = "CRA" THEN "RASL" ELSE "RADL",
                   poc |-> poc, tid |-> tid, slices |-> slices])
          /\ gop' = [gop EXCEPT !.pics = @ + 1, !.leading = @ \ {poc}]
    BY <1>3 DEF LeadingPicture
  <2> DEFINE p == [type |-> IF gop.refresh = "CRA" THEN "RASL" ELSE "RADL",
                   poc |-> poc, tid |-> tid, slices |-> slices]
  <2>2. slices \in Seq(Slice) /\ Len(slices) >= 1
    BY SlicesType
  <2>3. IsPicture(p)
    BY <1>1, <2>2 DEF IsPicture, IsIRAP, Picture
  <2>4. LeadingStep(p)
    BY <2>1 DEF LeadingStep
  <2> QED
    BY <2>1, <2>3, <2>4 DEF StreamStep
<1>4. CASE TrailingPicture
  <2>1. PICK poc \in gop.trailing, tid \in Tids, slices \in SlicesOf({"I", "P", "B"}) :
          /\ Code([type |-> "TRAIL", poc |-> poc, tid |-> tid, slices |-> slices])
          /\ gop' = [gop EXCEPT !.pics = @ + 1, !.leading = {}, !.trailing = @ \ {poc},
                                !.last = IF poc > @ THEN poc ELSE @]
    BY <1>4 DEF TrailingPicture
  <2> DEFINE p == [type |-> "TRAIL", poc |-> poc, tid |-> tid, slices |-> slices]
  <2>2. slices \in Seq(Slice) /\ Len(slices) >= 1
    BY SlicesType
  <2>3. IsPicture(p)
    BY <1>1, <2>2 DEF IsPicture, IsIRAP, Picture
  <2>4. TrailingStep(p)
    BY <2>1 DEF TrailingStep
  <2> QED
    BY <2>1, <2>3, <2>4 DEF StreamStep
<1> QED
  BY <1>2, <1>3, <1>4 DEF Next

\* A POC is an int that is not MAX_INT.
LEMMA PocsBounded ==
  ASSUME TypeOK, StreamBounds, NEW p, IsPicture(p), gop.pics < MaxPics, StreamStep(p)
  PROVE  /\ StreamBounds' /\ p.poc \in Nat /\ p.poc + PocLsbs <= MAX_INT
         /\ gop' \in [pics : 0..MaxPics, refresh : {"none", "IDR", "CRA", "GDR"},
                      last : Nat, leading : SUBSET Nat, trailing : SUBSET Nat]
<1>1. /\ gop.pics \in 0..MaxPics /\ gop.last \in Nat /\ p.poc \in Int
      /\ gop.leading \subseteq Nat /\ gop.trailing \subseteq Nat
      /\ gop.refresh \in {"none", "IDR", "CRA", "GDR"}
  BY LastSlice DEF TypeOK
<1>2. MaxLeading \in Nat /\ MaxTrailing \in Nat /\ MaxPics \in Nat /\ PocLsbs \in Nat
  BY BoundsAssumption
<1>3. Span \in Nat /\ Span = MaxLeading + MaxTrailing + 1
  BY <1>2 DEF Span
<1> DEFINE now == gop.pics * Span
           then == (gop.pics + 1) * Span
<1>4. now \in Nat /\ then \in Nat /\ then = now + Span
  BY <1>1, <1>3
<1>5. then + PocLsbs <= MAX_INT
  <2>1. MaxPics * Span + PocLsbs <= MAX_INT
    BY PocAssumption DEF Span
  <2>2. MaxPics * Span \in Nat /\ then <= MaxPics * Span
    BY <1>1, <1>2, <1>3
  <2> HIDE DEF then
  <2> QED
    BY <1>2, <1>4, <2>1, <2>2, MaxIntType
<1>6. /\ gop.last <= now /\ \A poc \in gop.leading : poc <= gop.last
      /\ \A poc \in gop.trailing : poc <= now
  BY DEF StreamBounds
<1>7. gop.pics + 1 \in 0..MaxPics
  BY <1>1, <1>2
<1> HIDE DEF now, then
<1>8. /\ gop'.pics = gop.pics + 1 /\ gop'.last <= then
      /\ \A poc \in gop'.leading : poc <= gop'.last
      /\ \A poc \in gop'.trailing : poc <= then
      /\ p.poc \in Nat /\ p.poc <= then
      /\ gop' \in [pics : 0..MaxPics, refresh : {"none", "IDR", "CRA", "GDR"},
                   last : Nat, leading : SUBSET Nat, trailing : SUBSET Nat]
  <2>1. CASE RandomAccessStep(p)
    <3>1. p.poc + MaxTrailing <= then /\ p.poc \in Nat
      <4>1. p.poc > gop.last /\ p.poc <= gop.last + MaxLeading + 1 /\ gop.last <= now
        BY <1>6, <2>1 DEF RandomAccessStep
      <4>2. p.poc \in Nat
        BY <1>1, <4>1
      <4>3. p.poc + MaxTrailing <= now + Span
        BY <1>1, <1>2, <1>3, <1>4, <4>1
      <4> QED
        BY <1>4, <4>2, <4>3
    <3>2. /\ (gop.last + 1)..(p.poc - 1) \subseteq Nat
          /\ (p.poc + 1)..(p.poc + MaxTrailing) \subseteq Nat
      BY <1>1, <1>2, <3>1
    <3>3. p.type \in {"none", "IDR", "CRA", "GDR"}
      BY <2>1 DEF RandomAccessStep
    <3>4. /\ gop'.pics = gop.pics + 1 /\ gop'.last = p.poc
          /\ gop'.leading = (gop.last + 1)..(p.poc - 1)
          /\ gop'.trailing = (p.poc + 1)..(p.poc + MaxTrailing)
          /\ gop' \in [pics : 0..MaxPics, refresh : {"none", "IDR", "CRA", "GDR"},
                       last : Nat, leading : SUBSET Nat, trailing : SUBSET Nat]
      BY <1>7, <2>1, <3>1, <3>2, <3>3 DEF RandomAccessStep
    <3>5. p.poc <= then /\ \A poc \in (p.poc + 1)..(p.poc + MaxTrailing) : poc <= then
      BY <1>1, <1>2, <1>4, <3>1
    <3>6. \A poc \in (gop.last + 1)..(p.poc - 1) : poc <= p.poc
      BY <1>1, <3>1
    <3> QED
      BY <3>1, <3>4, <3>5, <3>6
  <2>2. CASE LeadingStep(p)
    <3>1. /\ gop'.pics = gop.pics + 1 /\ gop'.last = gop.last /\ gop'.trailing = gop.trailing
          /\ gop'.leading = gop.leading \ {p.poc} /\ p.poc \in gop.leading
          /\ gop' \in [pics : 0..MaxPics, refresh : {"none", "IDR", "CRA", "GDR"},
                       last : Nat, leading : SUBSET Nat, trailing : SUBSET Nat]
      BY <1>1, <1>7, <2>2 DEF LeadingStep, TypeOK
    <3> QED
      BY <1>1, <1>3, <1>4, <1>6, <3>1
  <2>3. CASE TrailingStep(p)
    <3>1. (IF p.poc > gop.last THEN p.poc ELSE gop.last) \in Nat /\ p.poc \in gop.trailing
      BY <1>1, <2>3 DEF TrailingStep
    <3>2. /\ gop'.pics = gop.pics + 1 /\ gop'.last = IF p.poc > gop.last THEN p.poc ELSE gop.last
          /\ gop'.leading = {} /\ gop'.trailing = gop.trailing \ {p.poc}
          /\ gop' \in [pics : 0..MaxPics, refresh : {"none", "IDR", "CRA", "GDR"},
                       last : Nat, leading : SUBSET Nat, trailing : SUBSET Nat]
      BY <1>1, <1>7, <2>3, <3>1 DEF TrailingStep, TypeOK
    <3> QED
      BY <1>1, <1>3, <1>4, <1>6, <3>1, <3>2
  <2> QED
    BY <2>1, <2>2, <2>3 DEF StreamStep
<1>9. p.poc + PocLsbs <= MAX_INT
  BY <1>2, <1>4, <1>5, <1>8, MaxIntType
<1> QED
  BY <1>8, <1>9 DEF StreamBounds, then

\* Both stores are empty at first.
LEMMA InitTypeInv == Init => TypeInv
<1> SUFFICES ASSUME Init
             PROVE  TypeInv
  OBVIOUS
<1>1. IsStore(Empty) /\ \A t \in StoredTypes : Cardinality(DOMAIN Empty[t]) <= BufferSize
  BY EmptyStore DEF IsStore
<1>2. << >> \in Seq(Contexts)
  OBVIOUS
<1>3. enc \in CoderState /\ dec \in CoderState
  BY <1>1, MaxIntType DEF Init, CoderState, IsStore
<1>4. codec \in [maxTid : Nat, pocRandomAccess : Int, offset : Int]
  BY TargetAssumption, MaxIntType DEF Init
<1>5. gop \in [pics : 0..MaxPics, refresh : {"none", "IDR", "CRA", "GDR"},
              last : Nat, leading : SUBSET Nat, trailing : SUBSET Nat]
  BY BoundsAssumption DEF Init
<1>6. StreamBounds
  <2>1. Span \in Nat
    BY BoundsAssumption DEF Span
  <2> QED
    BY <2>1 DEF Init, StreamBounds
<1> QED
  BY <1>1, <1>2, <1>3, <1>4, <1>5, <1>6 DEF TypeInv, TypeOK, Init, StoredTypes

\* The POC the decoder derives, less than MaxPicOrderCntLsb above that of the
\* encoder and below MAX_INT.
LEMMA DecodedPoc ==
  ASSUME TypeOK, NEW p, IsPicture(p), p.poc \in Nat, p.poc + PocLsbs <= MAX_INT
  PROVE  /\ Offset(p) \in Int
         /\ p.type = "IDR" \/ codec.pocRandomAccess = MAX_INT
              => Offset(p) <= p.poc /\ p.poc - Offset(p) \in 0..(PocLsbs - 1)
         /\ ~(p.type = "IDR" \/ codec.pocRandomAccess = MAX_INT) => Offset(p) = codec.offset
<1>1. PocLsbs \in Nat \ {0} /\ codec.offset \in Int
  BY BoundsAssumption DEF TypeOK
<1>2. p.poc % PocLsbs \in 0..(PocLsbs - 1)
  BY <1>1
<1> QED
  BY <1>1, <1>2 DEF Offset

\* Coding a picture keeps the types, the sizes and the bounds on the POCs.
LEMMA NextTypeInv == TypeInv /\ [Next]_vars => TypeInv'
<1> SUFFICES ASSUME TypeInv, [Next]_vars
             PROVE  TypeInv'
  OBVIOUS
<1>1. CASE UNCHANGED vars
  BY <1>1 DEF vars, TypeInv, TypeOK, StreamBounds
<1>2. CASE Next
  <2>1. PICK p : IsPicture(p) /\ Code(p) /\ StreamStep(p)
    BY <1>2, NextCodes DEF TypeInv
  <2>2. gop.pics < MaxPics /\ TypeOK /\ StreamBounds /\ gop.pics \in 0..MaxPics
    BY <2>1 DEF Code, TypeInv, TypeOK
  <2>3. /\ StreamBounds' /\ p.poc \in Nat /\ p.poc + PocLsbs <= MAX_INT
        /\ gop' \in [pics : 0..MaxPics, refresh : {"none", "IDR", "CRA", "GDR"},
                     last : Nat, leading : SUBSET Nat, trailing : SUBSET Nat]
    BY <2>1, <2>2, PocsBounded
  <2>4. IsCoder(enc) /\ IsCoder(dec) /\ gop.pics + 1 \in Contexts
    BY <2>2, BoundsAssumption DEF TypeInv, TypeOK, IsCoder, Contexts
  <2>5. IsCoder(enc') /\ Loaded(enc, p) \in Seq(Contexts)
    BY <2>1, <2>4, CodedType DEF Code
  <2>6. /\ IsCoder(dec') /\ last' \in [enc : Seq(Contexts), dec : Seq(Contexts)]
        /\ codec' \in [maxTid : Nat, pocRandomAccess : Int, offset : Int]
    <3>1. CASE Decode(p, gop.pics + 1)
      <4> DEFINE q == [p EXCEPT !.poc = @ - Offset(p)]
      <4>1. Offset(p) \in Int
        BY <2>1, <2>2, <2>3, DecodedPoc
      <4>2. IsPicture(q) /\ q.poc \in Int
        BY <2>1, <4>1 DEF IsPicture, IsIRAP, Picture
      <4>3. /\ dec' = AfterPicture(dec, q, gop.pics + 1)
            /\ last' = [enc |-> Loaded(enc, p), dec |-> Loaded(dec, q)]
        BY <3>1 DEF Decode
      <4>4. codec' \in [maxTid : Nat, pocRandomAccess : Int, offset : Int]
        <5>1. codec \in [maxTid : Nat, pocRandomAccess : Int, offset : Int] /\ -MAX_INT \in Int
          BY <2>2, MaxIntType DEF TypeOK
        <5> HIDE DEF q
        <5>2. codec' = [codec EXCEPT
                         !.offset = Offset(p),
                         !.pocRandomAccess = IF p.type = "IDR" THEN -MAX_INT
                                             ELSE IF @ = MAX_INT THEN q.poc ELSE @]
          BY <3>1 DEF Decode, q
        <5> QED
          BY <4>1, <4>2, <5>1, <5>2
      <4> HIDE DEF q
      <4>5. IsCoder(dec') /\ Loaded(dec, q) \in Seq(Contexts)
        BY <2>4, <4>2, <4>3, CodedType
      <4> QED
        BY <2>5, <4>3, <4>4, <4>5
    <3>2. CASE NotDecoded(p)
      BY <2>2, <2>4, <3>2 DEF NotDecoded, TypeOK
    <3> QED
      BY <2>1, <3>1, <3>2 DEF Code
  <2> QED
    BY <2>3, <2>5, <2>6 DEF TypeInv, TypeOK, IsCoder, IsStore, StoredTypes
<1> QED
  BY <1>1, <1>2

\* The types and bounds as an invariant.
LEMMA TypeInvariance == Spec => []TypeInv
  BY InitTypeInv, NextTypeInv, PTL DEF Spec

\* The variables hold values of their types and neither store ever holds more
\* than BufferSize entries of a slice type, whatever pictures were coded,
\* skipped or dropped.
THEOREM TypeCorrect == Spec => []TypeOK
<1>1. TypeInv => TypeOK
  BY DEF TypeInv
<1> QED
  BY <1>1, TypeInvariance, PTL

-----------------------------------------------------------------------------
(* Agreement of the stores.  The theorems are about streams without RADL    *)
(* pictures: for those that have them, a run shows the contrary.            *)

\* Leading pictures follow a CRA picture.
LeadingAfterCRA == gop.refresh # "CRA" => gop.leading = {}

\* The encoder waits for the first picture that follows the last IRAP picture
\* in output order until it has coded it.
EncoderWaits ==
  IF enc.lastRasPoc = MAX_INT THEN gop.leading = {}
  ELSE /\ enc.lastRasPoc <= gop.last
       /\ \A poc \in gop.leading : poc < enc.lastRasPoc
       /\ \A poc \in gop.trailing : poc > enc.lastRasPoc

Started == codec.pocRandomAccess # MAX_INT

\* A leading picture that the decoder does not skip at a random access point.
Decodable(poc) == poc - codec.offset >= codec.pocRandomAccess

StoresAgree == Agree(enc.store, dec.store, codec.maxTid)

\* The encoder's store has nothing for the sub-layers that are decoded.
NothingShared(e, m) == \A t \in StoredTypes : Shared(e, m, t) = {}

\* Neither waits; or the decoder still does, because it has dropped the
\* picture the encoder waited for; or both do.
DecoderFollows ==
  CASE dec.lastRasPoc = MAX_INT -> enc.lastRasPoc = MAX_INT /\ StoresAgree
    [] dec.lastRasPoc # MAX_INT /\ enc.lastRasPoc = MAX_INT ->
         /\ NothingShared(enc.store, codec.maxTid)
         /\ dec.lastRasPoc + codec.offset <= gop.last
         /\ \A poc \in gop.trailing : poc > dec.lastRasPoc + codec.offset
    [] OTHER ->
         /\ enc.lastRasPoc = dec.lastRasPoc + codec.offset
         /\ (\E poc \in gop.leading : Decodable(poc)) => StoresAgree

DecoderInv ==
  IF Started
  THEN /\ -PocLsbs < codec.offset /\ codec.offset <= gop.last
       /\ codec.pocRandomAccess <= gop.last - codec.offset
       /\ \A i, j \in gop.leading : Decodable(i) => Decodable(j)
       /\ DecoderFollows
  ELSE dec = [lastRasPoc |-> MAX_INT, store |-> Empty]

Inv == TypeInv /\ LeadingAfterCRA /\ EncoderWaits /\ DecoderInv

\* A store from which the decoder needs nothing agrees with an empty one.
LEMMA NothingSharedAgrees ==
  ASSUME NEW e, NEW m, NothingShared(e, m)
  PROVE  Agree(e, Empty, m)
BY EmptyStore DEF Agree, AgreeOn, NothingShared

\* Emptied stores agree, and nothing in them is needed.
LEMMA EmptyAgrees ==
  ASSUME NEW m
  PROVE  Agree(Empty, Empty, m) /\ NothingShared(Empty, m)
BY EmptyStore DEF Agree, AgreeOn, NothingShared, Shared

\* The values of the state that the steps compare.
LEMMA Types ==
  ASSUME TypeInv
  PROVE  /\ TypeOK /\ StreamBounds /\ IsCoder(enc) /\ IsCoder(dec)
         /\ enc.lastRasPoc \in Int /\ dec.lastRasPoc \in Int
         /\ codec.maxTid \in Nat /\ codec.offset \in Int /\ codec.pocRandomAccess \in Int
         /\ gop.pics \in 0..MaxPics /\ gop.last \in Nat
         /\ gop.leading \subseteq Nat /\ gop.trailing \subseteq Nat
BY DEF TypeInv, TypeOK, IsCoder, CoderState

\* What a step does to the encoder.
LEMMA EncoderStep ==
  ASSUME TypeInv, LeadingAfterCRA, EncoderWaits, ~RadlPictures,
         NEW p, IsPicture(p), Code(p), StreamStep(p)
  PROVE  /\ LeadingAfterCRA' /\ EncoderWaits'
         /\ p.poc \in Nat /\ p.poc + PocLsbs <= MAX_INT /\ gop.pics + 1 \in Contexts
         /\ IsIRAP(p) => enc'.lastRasPoc = p.poc
         /\ ~IsIRAP(p) => enc'.lastRasPoc = IF LeadingStep(p) THEN enc.lastRasPoc ELSE MAX_INT
         /\ LeadingStep(p) => p.type = "RASL" /\ ~PendingRasInit(enc, p) /\ enc.lastRasPoc # MAX_INT
         /\ ~LeadingStep(p) => (PendingRasInit(enc, p) <=> enc.lastRasPoc # MAX_INT)
<1>1. /\ enc.lastRasPoc \in Int /\ gop.pics \in 0..MaxPics /\ gop.last \in Nat /\ p.poc \in Int
      /\ gop.leading \subseteq Nat /\ gop.trailing \subseteq Nat /\ gop.pics < MaxPics
      /\ TypeOK /\ StreamBounds
  BY Types, LastSlice DEF Code
<1>2. p.poc \in Nat /\ p.poc + PocLsbs <= MAX_INT /\ gop.pics + 1 \in Contexts
  BY <1>1, PocsBounded, BoundsAssumption DEF Contexts
<1>3. p.poc < MAX_INT /\ MAX_INT \in Nat
  BY <1>2, BoundsAssumption, MaxIntType
<1>4. enc'.lastRasPoc = LastRasPoc(enc, p)
  BY CodedParts DEF Code
<1>5. CASE RandomAccessStep(p)
  <2>1. /\ p.type \in {"IDR", "CRA", "GDR"} /\ ~LeadingStep(p) /\ p.poc > gop.last
        /\ gop'.refresh = p.type /\ gop'.last = p.poc
        /\ gop'.leading = (gop.last + 1)..(p.poc - 1)
        /\ gop'.trailing = (p.poc + 1)..(p.poc + MaxTrailing)
        /\ p.type # "CRA" => p.poc = gop.last + 1
    BY <1>5 DEF RandomAccessStep, LeadingStep
  <2>2. p.type # "CRA" => gop'.leading = {}
    BY <1>1, <2>1
  <2>3. PendingRasInit(enc, p) <=> enc.lastRasPoc # MAX_INT
    BY <1>1, <1>3, <2>1 DEF EncoderWaits, PendingRasInit
  <2>4. enc'.lastRasPoc = IF IsIRAP(p) THEN p.poc ELSE MAX_INT
    BY <1>4, <2>3 DEF LastRasPoc
  <2>5. /\ \A poc \in gop'.leading : poc < p.poc
        /\ \A poc \in gop'.trailing : poc > p.poc
    BY <1>1, <2>1, BoundsAssumption
  <2>6. EncoderWaits'
    BY <1>1, <1>3, <2>1, <2>2, <2>4, <2>5 DEF EncoderWaits, IsIRAP
  <2> QED
    BY <1>2, <2>1, <2>2, <2>3, <2>4, <2>6 DEF LeadingAfterCRA
<1>6. CASE LeadingStep(p)
  <2>1. /\ p.poc \in gop.leading /\ p.type = "RASL" /\ ~IsIRAP(p)
        /\ gop'.refresh = gop.refresh /\ gop'.last = gop.last
        /\ gop'.leading = gop.leading \ {p.poc} /\ gop'.trailing = gop.trailing
    BY <1>1, <1>6 DEF LeadingStep, LeadingAfterCRA, IsIRAP, TypeOK
  <2>2. enc.lastRasPoc # MAX_INT /\ p.poc < enc.lastRasPoc
    BY <2>1 DEF EncoderWaits
  <2>3. ~PendingRasInit(enc, p)
    BY <1>1, <2>2 DEF PendingRasInit
  <2>4. enc'.lastRasPoc = enc.lastRasPoc
    BY <1>4, <2>1, <2>3 DEF LastRasPoc
  <2>5. EncoderWaits'
    BY <2>1, <2>2, <2>4 DEF EncoderWaits
  <2> QED
    BY <1>2, <1>6, <2>1, <2>2, <2>3, <2>4, <2>5 DEF LeadingAfterCRA
<1>7. CASE TrailingStep(p)
  <2>1. /\ p.poc \in gop.trailing /\ p.type = "TRAIL" /\ ~IsIRAP(p) /\ ~LeadingStep(p)
        /\ gop'.leading = {}
    BY <1>1, <1>7 DEF TrailingStep, LeadingStep, IsIRAP, TypeOK
  <2>2. PendingRasInit(enc, p) <=> enc.lastRasPoc # MAX_INT
    BY <1>1, <1>3, <2>1 DEF EncoderWaits, PendingRasInit
  <2>3. enc'.lastRasPoc = MAX_INT
    BY <1>4, <2>1, <2>2 DEF LastRasPoc
  <2> QED
    BY <1>2, <2>1, <2>2, <2>3 DEF LeadingAfterCRA, EncoderWaits
<1> QED
  BY <1>5, <1>6, <1>7 DEF StreamStep

\* The encoder's store after a picture.
LEMMA EncoderStore ==
  ASSUME TypeInv, NEW p, IsPicture(p), Code(p), p.type # "GDR", gop.pics + 1 \in Contexts
  PROVE  LET before == IF PendingRasInit(enc, p) THEN Empty ELSE enc.store
         IN /\ IsStore(before) /\ Buffer(enc, p) = before
            /\ p.tid > codec.maxTid =>
                 /\ \A d : Agree(before, d, codec.maxTid) => Agree(enc'.store, d, codec.maxTid)
                 /\ NothingShared(before, codec.maxTid) => NothingShared(enc'.store, codec.maxTid)
<1> DEFINE before == IF PendingRasInit(enc, p) THEN Empty ELSE enc.store
           s == p.slices[Len(p.slices)]
           m == codec.maxTid
<1>1. Buffer(enc, p) = before /\ IsStore(before)
  BY EmptyStore, Types DEF Buffer, IsCoder
<1>2. enc'.store = StoreCtx(before, s, p.tid, gop.pics + 1)
  BY <1>1, CodedParts DEF Code
<1>3. s \in Slice /\ p.tid \in Tids /\ m \in Nat
  BY LastSlice, Types
<1> HIDE DEF before, s, m
<1>4. ASSUME p.tid > m
      PROVE  /\ \A d : Agree(before, d, m) => Agree(enc'.store, d, m)
             /\ \A t \in StoredTypes : Shared(enc'.store, m, t) \subseteq Shared(before, m, t)
  BY <1>1, <1>2, <1>3, <1>4, EncoderStores
<1>5. p.tid > m => (NothingShared(before, m) => NothingShared(enc'.store, m))
  BY <1>4 DEF NothingShared
<1> QED
  BY <1>1, <1>4, <1>5 DEF before, m

\* A picture the decoder skips, drops or is not given.
LEMMA SkippedStep ==
  ASSUME Inv, ~RadlPictures, NEW p, IsPicture(p), Code(p), StreamStep(p), NotDecoded(p)
  PROVE  DecoderInv'
<1> DEFINE m == codec.maxTid
<1>1. UNCHANGED <<dec, codec>>
  BY DEF NotDecoded
<1>2. CASE ~Started
  BY <1>1, <1>2 DEF DecoderInv, Inv, Started
<1>3. CASE Started
  <2>1. TypeInv /\ LeadingAfterCRA /\ EncoderWaits
    BY DEF Inv
  <2>2. /\ enc.lastRasPoc \in Int /\ dec.lastRasPoc \in Int /\ p.poc \in Int /\ p.tid \in Tids
        /\ m \in Nat /\ codec.offset \in Int /\ codec.pocRandomAccess \in Int
        /\ gop.last \in Nat /\ gop.leading \subseteq Nat /\ gop.trailing \subseteq Nat /\ TypeOK
    BY <2>1, Types, LastSlice
  <2>3. /\ gop.pics + 1 \in Contexts
        /\ ~IsIRAP(p) => enc'.lastRasPoc = IF LeadingStep(p) THEN enc.lastRasPoc ELSE MAX_INT
        /\ LeadingStep(p) => p.type = "RASL" /\ ~PendingRasInit(enc, p) /\ enc.lastRasPoc # MAX_INT
        /\ ~LeadingStep(p) => (PendingRasInit(enc, p) <=> enc.lastRasPoc # MAX_INT)
    BY <2>1, EncoderStep
  <2>4. p.type = "IDR" \/ Offset(p) = codec.offset
    BY <1>3 DEF Offset, Started
  <2>5. p.tid > m \/ (p.type = "RASL" /\ p.poc - Offset(p) < codec.pocRandomAccess)
    <3> DEFINE q == [p EXCEPT !.poc = @ - Offset(p)]
    <3>1. q.type = p.type /\ q.tid = p.tid /\ q.poc = p.poc - Offset(p)
      BY DEF IsPicture, Picture
    <3>2. Skips(q)
      BY <1>3 DEF NotDecoded, Started
    <3> HIDE DEF q
    <3> QED
      BY <1>3, <3>1, <3>2 DEF Skips, Started
  <2>6. /\ -PocLsbs < codec.offset /\ codec.offset <= gop.last
        /\ codec.pocRandomAccess <= gop.last - codec.offset
        /\ \A i, j \in gop.leading : Decodable(i) => Decodable(j)
        /\ DecoderFollows
    BY <1>3 DEF Inv, DecoderInv
  <2>7. ~RandomAccessStep(p)
    <3> SUFFICES ASSUME RandomAccessStep(p)
                 PROVE  FALSE
      OBVIOUS
    <3>1. p.tid = 0 /\ p.type # "RASL"
      BY DEF RandomAccessStep
    <3> QED
      BY <2>2, <2>5, <3>1
  <2>8. CASE LeadingStep(p)
    <3>1. /\ p.poc \in gop.leading /\ p.type = "RASL" /\ ~IsIRAP(p) /\ p.type # "GDR"
          /\ gop'.last = gop.last /\ gop'.leading \subseteq gop.leading
          /\ gop'.trailing = gop.trailing
      BY <2>2, <2>3, <2>8 DEF LeadingStep, IsIRAP, TypeOK
    <3>2. enc'.lastRasPoc = enc.lastRasPoc /\ enc.lastRasPoc # MAX_INT
      BY <2>3, <2>8, <3>1
    <3>3. /\ dec.lastRasPoc # MAX_INT
          /\ enc.lastRasPoc = dec.lastRasPoc + codec.offset
          /\ (\E poc \in gop.leading : Decodable(poc)) => StoresAgree
      BY <2>6, <3>2 DEF DecoderFollows
    <3>4. ASSUME NEW poc \in gop'.leading, Decodable(poc)
          PROVE  Agree(enc'.store, dec.store, m)
      <4>1. StoresAgree /\ Decodable(p.poc)
        BY <2>6, <3>1, <3>3, <3>4
      <4>2. p.tid > m
        BY <2>2, <2>4, <2>5, <3>1, <4>1 DEF Decodable
      <4> QED
        BY <2>1, <2>3, <2>8, <3>1, <4>1, <4>2, EncoderStore DEF StoresAgree
    <3>5. DecoderFollows'
      BY <1>1, <3>2, <3>3, <3>4 DEF DecoderFollows, StoresAgree, Decodable
    <3> QED
      BY <1>1, <1>3, <2>6, <3>1, <3>5 DEF DecoderInv, Started, Decodable
  <2>9. CASE TrailingStep(p)
    <3>1. /\ p.type = "TRAIL" /\ ~IsIRAP(p) /\ ~LeadingStep(p) /\ p.tid > m
          /\ gop'.last >= gop.last /\ gop'.leading = {} /\ gop'.trailing \subseteq gop.trailing
          /\ gop'.last \in Int
      BY <2>2, <2>5, <2>9 DEF TrailingStep, LeadingStep, IsIRAP, TypeOK
    <3>2. /\ enc'.lastRasPoc = MAX_INT
          /\ PendingRasInit(enc, p) <=> enc.lastRasPoc # MAX_INT
      BY <2>3, <3>1
    <3>3. ASSUME dec.lastRasPoc = MAX_INT
          PROVE  DecoderFollows'
      <4>1. enc.lastRasPoc = MAX_INT /\ StoresAgree
        BY <2>6, <3>3 DEF DecoderFollows
      <4>2. Agree(enc'.store, dec.store, m)
        BY <2>1, <2>3, <3>1, <3>2, <4>1, EncoderStore DEF StoresAgree
      <4> QED
        BY <1>1, <3>2, <3>3, <4>2 DEF DecoderFollows, StoresAgree
    <3>4. ASSUME dec.lastRasPoc # MAX_INT
          PROVE  DecoderFollows'
      <4>1. /\ dec.lastRasPoc + codec.offset <= gop.last
            /\ \A poc \in gop.trailing : poc > dec.lastRasPoc + codec.offset
            /\ enc.lastRasPoc = MAX_INT => NothingShared(enc.store, m)
        BY <2>1, <2>6, <3>4 DEF DecoderFollows, EncoderWaits
      <4>2. NothingShared(enc'.store, m)
        BY <2>1, <2>3, <3>1, <3>2, <4>1, EncoderStore, EmptyAgrees
      <4>3. dec.lastRasPoc + codec.offset <= gop'.last
        BY <2>2, <3>1, <4>1
      <4> QED
        BY <1>1, <3>1, <3>2, <3>4, <4>1, <4>2, <4>3 DEF DecoderFollows
    <3>5. codec.offset <= gop'.last /\ codec.pocRandomAccess <= gop'.last - codec.offset
      BY <2>2, <2>6, <3>1
    <3> QED
      BY <1>1, <1>3, <2>6, <3>1, <3>3, <3>4, <3>5 DEF DecoderInv, Started
  <2> QED
    BY <2>7, <2>8, <2>9 DEF StreamStep
<1> QED
  BY <1>2, <1>3

\* A full store, or a decoder that keeps all sub-layers: ContextsAgree promises
\* nothing of other states.
Promised == Tids \subseteq 0..codec.maxTid \/ ~EncoderMayEvict

\* A picture that is decoded.
LEMMA DecodedStep ==
  ASSUME Inv, ~RadlPictures, NEW p, IsPicture(p), Code(p), StreamStep(p),
         Decode(p, gop.pics + 1)
  PROVE  DecoderInv' /\ (Promised' => last'.dec = last'.enc)
<1> DEFINE m == codec.maxTid
           off == Offset(p)
           q == [p EXCEPT !.poc = @ - off]
           ctx == gop.pics + 1
           wasStarted == Started
<1>1. /\ TypeInv /\ LeadingAfterCRA /\ EncoderWaits /\ TypeOK
      /\ IsCoder(enc) /\ IsCoder(dec)
      /\ enc.lastRasPoc \in Int /\ dec.lastRasPoc \in Int /\ p.poc \in Int /\ p.tid \in Tids
      /\ m \in Nat /\ codec.offset \in Int /\ codec.pocRandomAccess \in Int
      /\ gop.last \in Nat /\ gop.leading \subseteq Nat /\ gop.trailing \subseteq Nat
      /\ PocLsbs \in Nat \ {0} /\ MAX_INT \in Nat
  BY Types, LastSlice, BoundsAssumption, MaxIntType DEF Inv
<1>2. /\ p.poc \in Nat /\ p.poc + PocLsbs <= MAX_INT /\ ctx \in Contexts
      /\ IsIRAP(p) => enc'.lastRasPoc = p.poc
      /\ ~IsIRAP(p) => enc'.lastRasPoc = IF LeadingStep(p) THEN enc.lastRasPoc ELSE MAX_INT
      /\ LeadingStep(p) => p.type = "RASL" /\ ~PendingRasInit(enc, p) /\ enc.lastRasPoc # MAX_INT
      /\ ~LeadingStep(p) => (PendingRasInit(enc, p) <=> enc.lastRasPoc # MAX_INT)
  BY <1>1, EncoderStep
<1>3. /\ off \in Int
      /\ p.type = "IDR" \/ ~Started => off <= p.poc /\ p.poc - off \in 0..(PocLsbs - 1)
      /\ ~(p.type = "IDR" \/ ~Started) => off = codec.offset
  BY <1>1, <1>2, DecodedPoc DEF Started
<1>4. /\ IsPicture(q) /\ q.type = p.type /\ q.tid = p.tid /\ q.slices = p.slices
      /\ q.poc = p.poc - off
  <2> HIDE DEF off
  <2>1. p \in Picture /\ p.poc - off \in Int
    BY <1>1, <1>3 DEF IsPicture
  <2>2. /\ q \in Picture /\ q.type = p.type /\ q.tid = p.tid /\ q.slices = p.slices
        /\ q.poc = p.poc - off
    BY <2>1 DEF Picture
  <2> QED
    BY <2>2 DEF IsPicture, IsIRAP
<1>5. /\ ~Skips(q) /\ dec' = AfterPicture(dec, q, ctx)
      /\ last' = [enc |-> Loaded(enc, p), dec |-> Loaded(dec, q)]
      /\ enc' = AfterPicture(enc, p, ctx)
  BY DEF Decode, Code
<1>6. /\ codec'.maxTid = m /\ codec'.offset = off
      /\ codec'.pocRandomAccess = IF p.type = "IDR" THEN -MAX_INT
                                  ELSE IF Started THEN codec.pocRandomAccess ELSE q.poc
  BY <1>1 DEF Decode, TypeOK, Started
<1> HIDE DEF off, q, ctx
<1>7. p.tid <= m /\ (p.type = "RASL" => q.poc >= codec.pocRandomAccess)
      /\ (p.type \notin {"IDR", "CRA", "GDR"} => Started)
  <2>1. ~(q.tid > m) /\ ~(q.type = "RASL" /\ q.poc < codec.pocRandomAccess)
        /\ (q.type \notin {"IDR", "CRA", "GDR"} => Started)
    BY <1>5 DEF Skips, Started
  <2>2. q.tid \in Int /\ q.poc \in Int
    BY <1>1, <1>3, <1>4, TidsAssumption
  <2> QED
    BY <1>1, <1>4, <2>1, <2>2
<1>8. /\ dec'.lastRasPoc = LastRasPoc(dec, q)
      /\ IsIRAP(p) <=> IsIRAP(q)
  BY <1>4, <1>5, CodedParts DEF IsIRAP
<1>9. Started =>
        /\ -PocLsbs < codec.offset /\ codec.offset <= gop.last
        /\ codec.pocRandomAccess <= gop.last - codec.offset
        /\ \A i, j \in gop.leading : Decodable(i) => Decodable(j)
        /\ DecoderFollows
        /\ dec.lastRasPoc # MAX_INT =>
             /\ dec.lastRasPoc + codec.offset <= gop.last
             /\ \A poc \in gop.trailing : poc > dec.lastRasPoc + codec.offset
  BY DEF Inv, DecoderInv, DecoderFollows, EncoderWaits
<1>10. ~Started => dec.lastRasPoc = MAX_INT /\ dec.store = Empty
  BY DEF Inv, DecoderInv
<1>11. /\ q.poc \in Int /\ q.poc < MAX_INT
       /\ RandomAccessStep(p) => -PocLsbs < off /\ off <= p.poc
  <2>1. CASE p.type = "IDR" \/ ~Started
    BY <1>1, <1>2, <1>3, <1>4, <2>1
  <2>2. CASE ~(p.type = "IDR" \/ ~Started)
    <3>1. RandomAccessStep(p) => p.poc > gop.last
      BY DEF RandomAccessStep
    <3>2. off = codec.offset /\ -PocLsbs < codec.offset /\ codec.offset <= gop.last
      BY <1>3, <1>9, <2>2
    <3> QED
      BY <1>1, <1>2, <1>4, <3>1, <3>2
  <2> QED
    BY <2>1, <2>2
<1>12. ~LeadingStep(p) /\ p.type # "IDR" => (PendingRasInit(dec, q) <=> dec.lastRasPoc # MAX_INT)
  <2> SUFFICES ASSUME ~LeadingStep(p), p.type # "IDR"
               PROVE  PendingRasInit(dec, q) <=> dec.lastRasPoc # MAX_INT
    OBVIOUS
  <2>1. CASE dec.lastRasPoc = MAX_INT
    BY <1>1, <1>11, <2>1 DEF PendingRasInit
  <2>2. CASE dec.lastRasPoc # MAX_INT
    <3>1. Started /\ off = codec.offset
      BY <1>3, <1>10, <2>2
    <3>2. p.poc > dec.lastRasPoc + codec.offset
      <4>1. p.poc > gop.last \/ p.poc \in gop.trailing
        BY DEF StreamStep, RandomAccessStep, TrailingStep
      <4>2. /\ dec.lastRasPoc + codec.offset <= gop.last
            /\ \A poc \in gop.trailing : poc > dec.lastRasPoc + codec.offset
        BY <1>9, <2>2, <3>1
      <4> QED
        BY <1>1, <4>1, <4>2
    <3> QED
      BY <1>1, <1>4, <2>2, <3>1, <3>2 DEF PendingRasInit
  <2> QED
    BY <2>1, <2>2
<1>13. LeadingStep(p) =>
         /\ p.type = "RASL" /\ ~IsIRAP(p) /\ p.poc \in gop.leading /\ Started /\ off = codec.offset
         /\ enc.lastRasPoc # MAX_INT /\ dec.lastRasPoc # MAX_INT
         /\ enc.lastRasPoc = dec.lastRasPoc + codec.offset
         /\ ~PendingRasInit(enc, p) /\ ~PendingRasInit(dec, q) /\ StoresAgree
  <2> SUFFICES ASSUME LeadingStep(p)
               PROVE  /\ p.type = "RASL" /\ ~IsIRAP(p) /\ p.poc \in gop.leading /\ Started
                      /\ off = codec.offset
                      /\ enc.lastRasPoc # MAX_INT /\ dec.lastRasPoc # MAX_INT
                      /\ enc.lastRasPoc = dec.lastRasPoc + codec.offset
                      /\ ~PendingRasInit(enc, p) /\ ~PendingRasInit(dec, q) /\ StoresAgree
    OBVIOUS
  <2>1. /\ p.type = "RASL" /\ ~IsIRAP(p) /\ p.poc \in gop.leading
        /\ enc.lastRasPoc # MAX_INT /\ ~PendingRasInit(enc, p)
    BY <1>2 DEF LeadingStep, IsIRAP
  <2>2. Started /\ off = codec.offset
    BY <1>3, <1>7, <2>1
  <2>3. Decodable(p.poc)
    BY <1>4, <1>7, <2>1, <2>2 DEF Decodable
  <2>4. /\ dec.lastRasPoc # MAX_INT /\ enc.lastRasPoc = dec.lastRasPoc + codec.offset /\ StoresAgree
    BY <1>9, <2>1, <2>2, <2>3 DEF DecoderFollows
  <2>5. p.poc < enc.lastRasPoc
    BY <1>1, <2>1 DEF EncoderWaits
  <2>6. ~PendingRasInit(dec, q)
    BY <1>1, <1>4, <2>2, <2>4, <2>5 DEF PendingRasInit
  <2> QED
    BY <2>1, <2>2, <2>4, <2>6
<1>14. (Started /\ p.type # "IDR") \/ p.type = "GDR" => Agree(Buffer(enc, p), Buffer(dec, q), m)
  <2>1. CASE p.type = "GDR"
    BY <1>4, <2>1, EmptyAgrees DEF Buffer
  <2>2. CASE LeadingStep(p)
    BY <1>4, <1>13, <2>2 DEF Buffer, StoresAgree
  <2>3. CASE Started /\ p.type \notin {"IDR", "GDR"} /\ ~LeadingStep(p)
    <3>1. /\ Buffer(enc, p) = IF enc.lastRasPoc # MAX_INT THEN Empty ELSE enc.store
          /\ Buffer(dec, q) = IF dec.lastRasPoc # MAX_INT THEN Empty ELSE dec.store
      BY <1>2, <1>4, <1>12, <2>3 DEF Buffer
    <3>2. /\ dec.lastRasPoc = MAX_INT => enc.lastRasPoc = MAX_INT /\ Agree(enc.store, dec.store, m)
          /\ dec.lastRasPoc # MAX_INT /\ enc.lastRasPoc = MAX_INT => NothingShared(enc.store, m)
      BY <1>9, <2>3 DEF DecoderFollows, StoresAgree
    <3> QED
      BY <3>1, <3>2, EmptyAgrees, NothingSharedAgrees
  <2> QED
    BY <2>1, <2>2, <2>3, <1>13
<1>15. Agree(Buffer(enc, p), Buffer(dec, q), m) =>
         /\ Agree(enc'.store, dec'.store, m)
         /\ DropsNone(m) \/ (\A t \in StoredTypes : ~Full(enc'.store, t))
              => Loaded(enc, p) = Loaded(dec, q)
  BY <1>1, <1>2, <1>4, <1>5, <1>7, BothCode
<1>16. Promised' => last'.dec = last'.enc
  <2> SUFFICES ASSUME Promised'
               PROVE  last'.dec = last'.enc
    OBVIOUS
  <2>1. DropsNone(m) \/ (\A t \in StoredTypes : ~Full(enc'.store, t))
    BY <1>6 DEF Promised, EncoderMayEvict, DropsNone, Full, StoredTypes
  <2>2. CASE IsIRAP(p)
    BY <1>4, <1>5, <1>8, <2>2, NothingLoaded
  <2>3. CASE ~IsIRAP(p)
    <3>1. (Started /\ p.type # "IDR") \/ p.type = "GDR"
      BY <1>7, <2>3 DEF IsIRAP
    <3> QED
      BY <1>5, <1>14, <1>15, <2>1, <3>1
  <2> QED
    BY <2>2, <2>3
<1>17. DecoderInv'
  <2>1. Started'
    BY <1>1, <1>6, <1>11, MaxIntType DEF Started
  <2>2. CASE RandomAccessStep(p)
    <3>1. /\ p.type \in {"IDR", "CRA", "GDR"} /\ p.poc > gop.last /\ ~LeadingStep(p)
          /\ p.type # "CRA" => p.poc = gop.last + 1
          /\ gop'.last = p.poc /\ gop'.leading = (gop.last + 1)..(p.poc - 1)
      BY <2>2 DEF RandomAccessStep, LeadingStep
    <3>2. codec'.pocRandomAccess <= gop'.last - off
      <4>1. p.poc - off \in Int /\ (p.type = "IDR" => p.poc - off >= 0)
        BY <1>1, <1>3
      <4>2. Started /\ p.type # "IDR" => off = codec.offset /\ codec.pocRandomAccess <= gop.last - off
        BY <1>3, <1>9
      <4> QED
        BY <1>1, <1>3, <1>4, <1>6, <3>1, <4>1, <4>2
    <3>3. CASE p.type = "CRA" /\ Started
      <4>1. /\ codec'.pocRandomAccess = codec.pocRandomAccess /\ off = codec.offset
            /\ codec.pocRandomAccess <= gop.last - codec.offset
        BY <1>3, <1>6, <1>9, <3>3
      <4>2. \A i \in gop'.leading : Decodable(i)'
        BY <1>1, <1>6, <3>1, <4>1 DEF Decodable
      <4>3. IsIRAP(p) /\ enc'.store = Buffer(enc, p) /\ dec'.store = Buffer(dec, q)
        BY <1>4, <1>5, <1>8, <3>3, CodedParts DEF IsIRAP
      <4>4. Agree(enc'.store, dec'.store, codec'.maxTid)
        BY <1>6, <1>14, <3>3, <4>3
      <4>5. enc'.lastRasPoc = p.poc /\ dec'.lastRasPoc = q.poc
        BY <1>2, <1>8, <4>3 DEF LastRasPoc
      <4>6. p.poc # MAX_INT /\ q.poc # MAX_INT /\ p.poc = q.poc + off
        BY <1>1, <1>2, <1>3, <1>4, <1>11
      <4>7. DecoderFollows'
        BY <1>6, <4>4, <4>5, <4>6 DEF DecoderFollows, StoresAgree
      <4> QED
        BY <1>6, <1>11, <2>1, <2>2, <3>1, <3>2, <4>2, <4>7 DEF DecoderInv
    <3>4. CASE p.type = "IDR" \/ (p.type = "CRA" /\ ~Started)
      <4>1. \A i \in gop'.leading : ~Decodable(i)'
        <5>1. CASE p.type = "IDR"
          BY <1>1, <3>1, <5>1
        <5>2. CASE p.type = "CRA" /\ ~Started
          <6>1. codec'.pocRandomAccess = p.poc - off
            BY <1>4, <1>6, <5>2
          <6> QED
            BY <1>1, <1>3, <1>6, <3>1, <6>1 DEF Decodable
        <5> QED
          BY <3>4, <5>1, <5>2
      <4>2. IsIRAP(p)
        BY <3>4 DEF IsIRAP
      <4>3. enc'.lastRasPoc = p.poc /\ dec'.lastRasPoc = q.poc
        BY <1>2, <1>8, <4>2 DEF LastRasPoc
      <4>4. p.poc # MAX_INT /\ q.poc # MAX_INT /\ p.poc = q.poc + off
        BY <1>1, <1>2, <1>3, <1>4, <1>11
      <4>5. DecoderFollows'
        BY <1>6, <4>1, <4>3, <4>4 DEF DecoderFollows, Decodable
      <4> QED
        BY <1>6, <1>11, <2>1, <2>2, <3>1, <3>2, <4>1, <4>5 DEF DecoderInv
    <3>5. CASE p.type = "GDR"
      <4>1. gop'.leading = {}
        BY <1>1, <3>1, <3>5
      <4>2. enc'.lastRasPoc = MAX_INT
        BY <1>2, <3>1, <3>5 DEF IsIRAP
      <4>3. dec'.lastRasPoc = MAX_INT
        BY <1>8, <1>12, <3>1, <3>5, <1>4 DEF LastRasPoc, IsIRAP
      <4>4. Agree(enc'.store, dec'.store, codec'.maxTid)
        BY <1>6, <1>14, <1>15, <3>5
      <4>5. DecoderFollows'
        BY <4>2, <4>3, <4>4 DEF DecoderFollows, StoresAgree
      <4> QED
        BY <1>6, <1>11, <2>1, <2>2, <3>1, <3>2, <4>1, <4>5 DEF DecoderInv
    <3> QED
      BY <3>1, <3>3, <3>4, <3>5
  <2>3. CASE LeadingStep(p)
    <3>1. /\ gop'.last = gop.last /\ gop'.leading \subseteq gop.leading
          /\ gop'.trailing = gop.trailing
      BY <1>1, <2>3 DEF LeadingStep, TypeOK
    <3>2. /\ off = codec.offset /\ Started /\ ~IsIRAP(p) /\ p.type = "RASL"
          /\ enc.lastRasPoc # MAX_INT /\ dec.lastRasPoc # MAX_INT
          /\ enc.lastRasPoc = dec.lastRasPoc + codec.offset /\ ~PendingRasInit(dec, q)
      BY <1>13, <2>3
    <3>3. enc'.lastRasPoc = enc.lastRasPoc /\ dec'.lastRasPoc = dec.lastRasPoc
      BY <1>2, <1>8, <2>3, <3>2 DEF LastRasPoc
    <3>4. codec'.pocRandomAccess = codec.pocRandomAccess
      BY <1>6, <3>2
    <3>5. Agree(enc'.store, dec'.store, codec'.maxTid)
      BY <1>6, <1>14, <1>15, <3>2
    <3>6. DecoderFollows'
      BY <1>6, <3>2, <3>3, <3>5 DEF DecoderFollows, StoresAgree
    <3>7. \A i \in gop.leading : Decodable(i)' <=> Decodable(i)
      BY <1>6, <3>2, <3>4 DEF Decodable
    <3> QED
      BY <1>6, <1>9, <2>1, <3>1, <3>2, <3>4, <3>6, <3>7 DEF DecoderInv
  <2>4. CASE TrailingStep(p)
    <3>1. /\ p.type = "TRAIL" /\ ~IsIRAP(p) /\ ~LeadingStep(p)
          /\ gop'.last >= gop.last /\ gop'.last \in Int /\ gop'.leading = {}
      BY <1>1, <2>4 DEF TrailingStep, LeadingStep, IsIRAP, TypeOK
    <3>2. Started /\ off = codec.offset
      BY <1>3, <1>7, <3>1
    <3>3. enc'.lastRasPoc = MAX_INT
      BY <1>2, <3>1
    <3>4. dec'.lastRasPoc = MAX_INT
      BY <1>8, <1>12, <3>1 DEF LastRasPoc
    <3>5. Agree(enc'.store, dec'.store, codec'.maxTid)
      BY <1>6, <1>14, <1>15, <3>1, <3>2
    <3>6. DecoderFollows'
      BY <3>3, <3>4, <3>5 DEF DecoderFollows, StoresAgree
    <3>7. codec'.pocRandomAccess = codec.pocRandomAccess
      BY <1>6, <3>1, <3>2
    <3>8. off <= gop'.last /\ codec'.pocRandomAccess <= gop'.last - off
      BY <1>1, <1>9, <3>1, <3>2, <3>7
    <3> QED
      BY <1>6, <1>9, <2>1, <3>1, <3>2, <3>6, <3>8 DEF DecoderInv
  <2> QED
    BY <2>2, <2>3, <2>4 DEF StreamStep
<1> QED
  BY <1>16, <1>17

\* No decoder has started at first.
LEMMA InitInv == Init => Inv
<1> SUFFICES ASSUME Init
             PROVE  Inv
  OBVIOUS
<1>1. ~Started /\ dec = [lastRasPoc |-> MAX_INT, store |-> Empty]
  BY DEF Init, Started
<1> QED
  BY <1>1, InitTypeInv DEF Init, Inv, LeadingAfterCRA, EncoderWaits, DecoderInv

\* A step keeps the agreement of the stores, unless the encoder codes RADL
\* pictures: whatever is coded, the decoder follows, skips or starts with it.
LEMMA NextInv ==
  ASSUME Inv, ~RadlPictures, [Next]_vars
  PROVE  Inv' /\ ((Promised => last.dec = last.enc) => (Promised' => last'.dec = last'.enc))
<1>1. TypeInv'
  BY NextTypeInv DEF Inv
<1>2. CASE UNCHANGED vars
  <2>1. UNCHANGED <<enc, dec, codec, gop, last>>
    BY <1>2 DEF vars
  <2> QED
    BY <1>1, <2>1 DEF Inv, LeadingAfterCRA, EncoderWaits, DecoderInv, Started, Decodable,
                      DecoderFollows, StoresAgree, Promised, EncoderMayEvict
<1>3. CASE Next
  <2>1. TypeInv /\ LeadingAfterCRA /\ EncoderWaits /\ TypeOK
    BY Types DEF Inv
  <2>2. PICK p : IsPicture(p) /\ Code(p) /\ StreamStep(p)
    BY <1>3, <2>1, NextCodes
  <2>3. LeadingAfterCRA' /\ EncoderWaits'
    BY <2>1, <2>2, EncoderStep
  <2>4. CASE Decode(p, gop.pics + 1)
    BY <1>1, <2>2, <2>3, <2>4, DecodedStep DEF Inv
  <2>5. CASE NotDecoded(p)
    <3>1. last'.dec = last'.enc
      BY <2>5 DEF NotDecoded
    <3> QED
      BY <1>1, <2>2, <2>3, <2>5, <3>1, SkippedStep DEF Inv
  <2> QED
    BY <2>2, <2>4, <2>5 DEF Code
<1> QED
  BY <1>2, <1>3

\* Without RADL pictures every slice is decoded from the contexts it was
\* encoded from, wherever the decoder starts, whatever RASL pictures it skips
\* and sub-layers it drops, for a store of any size: if it drops sub-layers, as
\* long as the encoder's store is not full.
THEOREM SameContexts == ~RadlPictures => (Spec => []ContextsAgree)
<1> SUFFICES ASSUME ~RadlPictures
             PROVE  Spec => []ContextsAgree
  OBVIOUS
<1> DEFINE Same == Inv /\ (Promised => last.dec = last.enc)
<1>1. Init => Same
  BY InitInv DEF Init
<1>2. Same /\ [Next]_vars => Same'
  BY NextInv
<1>3. Same => ContextsAgree
  BY DEF ContextsAgree, Promised
<1> QED
  BY <1>1, <1>2, <1>3, PTL DEF Spec

\* A decoder of all sub-layers that no longer waits for the first picture after
\* its start in output order holds exactly the encoder's store.
THEOREM SameStores == ~RadlPictures => (Spec => []StoresConverge)
<1> SUFFICES ASSUME ~RadlPictures
             PROVE  Spec => []StoresConverge
  OBVIOUS
<1>1. Init => Inv
  BY InitInv
<1>2. Inv /\ [Next]_vars => Inv'
  BY NextInv
<1>3. Inv => StoresConverge
  <2> SUFFICES ASSUME Inv, Started, DropsNone(codec.maxTid), dec.lastRasPoc = MAX_INT
               PROVE  dec.store = enc.store
    BY DEF StoresConverge, Started, DropsNone
  <2>1. \A t \in StoredTypes : AgreeOn(enc.store, dec.store, codec.maxTid, t)
    BY DEF Inv, DecoderInv, DecoderFollows, StoresAgree, Agree
  <2>2. enc.store \in [StoredTypes -> Tables] /\ dec.store \in [StoredTypes -> Tables]
    BY DEF Inv, TypeInv, IsStore, Store, Tables, StoredTypes
  <2>3. ASSUME NEW t \in StoredTypes
        PROVE  dec.store[t] = enc.store[t]
    <3>1. enc.store[t] \in Tables /\ dec.store[t] \in Tables
      BY <2>2
    <3>2. \A k \in Keys : k[1] <= codec.maxTid
      <4>1. \A k \in Keys : k[1] \in Tids
        BY DEF Keys
      <4>2. \A k1 \in Tids : k1 <= codec.maxTid
        BY DEF DropsNone
      <4> QED
        BY <4>1, <4>2
    <3>3. Shared(enc.store, codec.maxTid, t) = DOMAIN enc.store[t]
      BY <3>1, <3>2, TableType DEF Shared
    <3>4. /\ DOMAIN dec.store[t] = DOMAIN enc.store[t]
          /\ \A k \in DOMAIN enc.store[t] : dec.store[t][k] = enc.store[t][k]
      BY <2>1, <3>3 DEF AgreeOn
    <3> QED
      BY <3>1, <3>4 DEF Tables
  <2> QED
    BY <2>2, <2>3
<1> QED
  BY <1>1, <1>2, <1>3, PTL DEF Spec
=============================================================================
