---------------------------- MODULE ContextStore ----------------------------
(***************************************************************************)
(* The entropy contexts that survive a picture (temp_cabac_init_mode, on   *)
(* by default): class CtxStateStore keeps the contexts of the last CTU of  *)
(* P and B pictures, keyed by temporal sub-layer and slice QP, and the     *)
(* next slice with the same key starts from them instead of from the       *)
(* tables.  The encoder and the decoder each keep such a store and have to *)
(* find the same contexts in it, although the decoder may start at a       *)
(* random access point, skip RASL pictures and drop sub-layers.            *)
(*                                                                         *)
(* The contexts a picture leaves are named by the number of that picture   *)
(* in the stream; number 0 names the initialisation tables.                *)
(***************************************************************************)
EXTENDS Integers, FiniteSets, Sequences

CONSTANTS
  BufferSize,     \* TEMP_CABAC_BUFFER_SIZE
  Tids, Qps,      \* the temporal sub-layers and slice QPs of the encoder
  RefreshTypes,   \* the types of random access points: of IDR, CRA, GDR
  RadlPictures,   \* whether IDR pictures have leading (RADL) pictures
  TargetTids,     \* choices of the highest sub-layer the decoder decodes
  SliceCounts,    \* choices of the number of slices of a picture
  MaxLeading,     \* bound: leading pictures of an IRAP picture
  MaxTrailing,    \* bound: pictures after it in output order
  MaxPics,        \* bound: pictures of the stream
  PocLsbs         \* MaxPicOrderCntLsb

ASSUME SizeAssumption == BufferSize \in Nat \ {0}
ASSUME TidsAssumption == Tids \subseteq Nat /\ 0 \in Tids
ASSUME QpsAssumption == Qps \subseteq Int
ASSUME RefreshAssumption == RefreshTypes \subseteq {"IDR", "CRA", "GDR"}
ASSUME RadlAssumption == RadlPictures \in BOOLEAN
ASSUME TargetAssumption == TargetTids \subseteq Nat
ASSUME SliceCountsAssumption == SliceCounts \subseteq Nat \ {0}
ASSUME BoundsAssumption ==
  MaxLeading \in Nat /\ MaxTrailing \in Nat /\ MaxPics \in Nat /\ PocLsbs \in Nat \ {0}

MAX_INT == 2147483647

\* POCs are ints, and none of them is MAX_INT, which stands for no POC.
ASSUME PocAssumption ==
  MaxPics * (MaxLeading + MaxTrailing + 1) + PocLsbs <= MAX_INT

Keys == Tids \X Qps
Contexts == 0..MaxPics
Slice == [sliceType : {"I", "P", "B"}, qp : Qps]
Picture == [type : {"IDR", "CRA", "GDR", "RASL", "RADL", "TRAIL"},
            poc : Int, tid : Tids, slices : Seq(Slice)]

VARIABLES
  enc,     \* the encoder's store and m_lastRasPoc
  dec,     \* the decoder's
  codec,   \* the decoder's run: its target sub-layer, start and POCs
  gop,     \* the encoder's position in the stream
  last     \* the contexts the slices of the last picture started from

vars == <<enc, dec, codec, gop, last>>

-----------------------------------------------------------------------------
(* CtxStateStore.  A store maps P and B to functions from keys to contexts. *)

Empty == [t \in {"P", "B"} |-> << >>]

\* loadCtx for slice s of a picture of sub-layer tid.
LoadCtx(store, s, tid) ==
  IF s.sliceType # "I" /\ <<tid, s.qp>> \in DOMAIN store[s.sliceType]
  THEN store[s.sliceType][<<tid, s.qp>>] ELSE 0

\* The first key of the std::map: keys are ordered by sub-layer, then QP.
FirstKey(keys) ==
  CHOOSE k \in keys : \A j \in keys : k[1] < j[1] \/ (k[1] = j[1] /\ k[2] <= j[2])

StoreNoEvictionMutant(store, s, tid, ctx) ==          \* the size is not checked
  IF s.sliceType = "I" THEN store
  ELSE [store EXCEPT ![s.sliceType] =
          [j \in DOMAIN @ \cup {<<tid, s.qp>>} |-> IF j = <<tid, s.qp>> THEN ctx ELSE @[j]]]

\* storeCtx: the entry of the key is overwritten; if it is new and the store
\* full, the first entry makes room.
StoreCtx(store, s, tid, ctx) ==
  IF s.sliceType = "I" THEN store
  ELSE LET old == store[s.sliceType]
           key == <<tid, s.qp>>
           kept == IF key \in DOMAIN old \/ Cardinality(DOMAIN old) < BufferSize
                   THEN DOMAIN old ELSE DOMAIN old \ {FirstKey(DOMAIN old)}
       IN [store EXCEPT ![s.sliceType] =
             [j \in kept \cup {key} |-> IF j = key THEN ctx ELSE old[j]]]

-----------------------------------------------------------------------------
(* Coding a picture, the same for the encoder and the decoder.              *)

IsIRAP(p) == p.type \in {"IDR", "CRA"}

\* xUpdateRasInit: the first picture that follows an IRAP picture in output
\* order (or a later IRAP picture) starts with an empty store.
PendingRasInit(c, p) == p.poc > c.lastRasPoc

LastRasPocMutant(c, p) ==                             \* not set by an IRAP picture
  IF PendingRasInit(c, p) THEN MAX_INT ELSE c.lastRasPoc

LastRasPoc(c, p) ==
  IF IsIRAP(p) THEN p.poc
  ELSE IF PendingRasInit(c, p) THEN MAX_INT ELSE c.lastRasPoc

\* updateBufferState, for slice k after those before it.  The encoder repeats
\* it for every slice; nothing is stored in between.
BufferAtSlice(c, p, k) ==
  IF \/ PendingRasInit(c, p)
     \/ p.type = "GDR" /\ \E j \in 1..k : p.slices[j].sliceType = "B"
  THEN Empty ELSE c.store

\* What initCtxModels finds for each slice.
Loaded(c, p) ==
  [k \in DOMAIN p.slices |-> LoadCtx(BufferAtSlice(c, p, k), p.slices[k], p.tid)]

\* The state after picture p.  Only the slice that holds the last CTU of the
\* picture, its last one, stores its contexts, which ctx names.
AfterPicture(c, p, ctx) ==
  LET n == Len(p.slices)
  IN [lastRasPoc |-> LastRasPoc(c, p),
      store |-> StoreCtx(BufferAtSlice(c, p, n), p.slices[n], p.tid, ctx)]

-----------------------------------------------------------------------------
(* The stream and the decoder's part of it.                                 *)

Init ==
  /\ enc = [lastRasPoc |-> MAX_INT, store |-> Empty]
  /\ dec = [lastRasPoc |-> MAX_INT, store |-> Empty]
  /\ \E t \in TargetTids :
       codec = [maxTid |-> t, pocRandomAccess |-> MAX_INT, offset |-> 0]
  /\ gop = [pics |-> 0, refresh |-> "none", last |-> 0, leading |-> {}, trailing |-> {}]
  /\ last = [enc |-> << >>, dec |-> << >>]

SkipsMutant(p) == p.tid > codec.maxTid                \* RASL pictures decoded

\* isRandomAccessSkipPicture, and the test of the NAL unit's sub-layer.
Skips(p) ==
  \/ p.tid > codec.maxTid
  \/ codec.pocRandomAccess = MAX_INT /\ p.type \notin {"IDR", "CRA", "GDR"}
  \/ p.type = "RASL" /\ p.poc < codec.pocRandomAccess

\* The decoder's POCs: those of the encoder less the most significant bits
\* that the first picture of a sequence of the decoder loses.
Offset(p) ==
  IF p.type = "IDR" \/ codec.pocRandomAccess = MAX_INT THEN p.poc - (p.poc % PocLsbs)
  ELSE codec.offset

Decode(p, ctx) ==
  LET q == [p EXCEPT !.poc = @ - Offset(p)]
  IN /\ ~Skips(q)
     /\ dec' = AfterPicture(dec, q, ctx)
     /\ codec' = [codec EXCEPT
          !.offset = Offset(p),
          !.pocRandomAccess = IF p.type = "IDR" THEN -MAX_INT
                              ELSE IF @ = MAX_INT THEN q.poc ELSE @]
     /\ last' = [enc |-> Loaded(enc, p), dec |-> Loaded(dec, q)]

\* The picture is skipped, or comes before the part of the stream that the
\* decoder is given; that part starts at a random access point.
NotDecoded(p) ==
  /\ \/ Skips([p EXCEPT !.poc = @ - Offset(p)])
     \/ codec.pocRandomAccess = MAX_INT
  /\ last' = [enc |-> << >>, dec |-> << >>]
  /\ UNCHANGED <<dec, codec>>

Code(p) ==
  /\ gop.pics < MaxPics
  /\ enc' = AfterPicture(enc, p, gop.pics + 1)
  /\ Decode(p, gop.pics + 1) \/ NotDecoded(p)

SlicesOf(types) == UNION {[1..n -> [sliceType : types, qp : Qps]] : n \in SliceCounts}

\* getNalUnitType: IDR or CRA pictures at the intra period, with leading
\* pictures that are all RADL or all RASL pictures.  This encoder codes no GDR
\* pictures; those of other encoders have B slices.
RandomAccessPoint ==
  \E type \in RefreshTypes :
  \E slices \in SlicesOf(IF type = "GDR" THEN {"B"} ELSE {"I"}) :
    LET leads == gop.pics > 0 /\ (type = "CRA" \/ (type = "IDR" /\ RadlPictures))
        poc == gop.last + (IF leads THEN MaxLeading ELSE 0) + 1
    IN /\ Code([type |-> type, poc |-> poc, tid |-> 0, slices |-> slices])
       /\ gop' = [pics |-> gop.pics + 1, refresh |-> type, last |-> poc,
                  leading |-> (gop.last + 1)..(poc - 1),
                  trailing |-> (poc + 1)..(poc + MaxTrailing)]

LeadingPicture ==
  \E poc \in gop.leading, tid \in Tids, slices \in SlicesOf({"P", "B"}) :
    /\ Code([type |-> IF gop.refresh = "CRA" THEN "RASL" ELSE "RADL",
             poc |-> poc, tid |-> tid, slices |-> slices])
    /\ gop' = [gop EXCEPT !.pics = @ + 1, !.leading = @ \ {poc}]

\* Leading pictures are coded before those that follow the IRAP picture in
\* output order.
TrailingPicture ==
  \E poc \in gop.trailing, tid \in Tids, slices \in SlicesOf({"I", "P", "B"}) :
    /\ Code([type |-> "TRAIL", poc |-> poc, tid |-> tid, slices |-> slices])
    /\ gop' = [gop EXCEPT !.pics = @ + 1, !.leading = {}, !.trailing = @ \ {poc},
                          !.last = IF poc > @ THEN poc ELSE @]

Next == RandomAccessPoint \/ LeadingPicture \/ TrailingPicture

Spec == Init /\ [][Next]_vars

-----------------------------------------------------------------------------
(* Properties.                                                              *)

Store == [{"P", "B"} -> UNION {[K -> Contexts] : K \in SUBSET Keys}]
CoderState == [lastRasPoc : Int, store : Store]

\* The variables hold values of their types, and neither store outgrows its
\* size, which storeCtx checks.
TypeOK ==
  /\ enc \in CoderState /\ dec \in CoderState
  /\ codec \in [maxTid : Nat, pocRandomAccess : Int, offset : Int]
  /\ gop \in [pics : 0..MaxPics, refresh : {"none", "IDR", "CRA", "GDR"},
              last : Nat, leading : SUBSET Nat, trailing : SUBSET Nat]
  /\ last \in [enc : Seq(Contexts), dec : Seq(Contexts)]
  /\ \A t \in {"P", "B"} :
       /\ Cardinality(DOMAIN enc.store[t]) <= BufferSize
       /\ Cardinality(DOMAIN dec.store[t]) <= BufferSize

\* A decoder that drops sub-layers does not store what the encoder stores for
\* them, which makes no difference before the encoder's store is full: from then
\* on their contexts push others out.
EncoderMayEvict == \E t \in {"P", "B"} : Cardinality(DOMAIN enc.store[t]) = BufferSize

\* Every slice is decoded from the contexts it was encoded from, wherever the
\* decoder started and whatever it skipped or dropped; otherwise its first bins
\* are misread.
ContextsAgree ==
  Tids \subseteq 0..codec.maxTid \/ ~EncoderMayEvict => last.dec = last.enc

\* The same of every decoder, stream and size of the store.
ContextsAlwaysAgree == last.dec = last.enc

\* A decoder of all sub-layers that has passed the first picture which follows
\* its start in output order holds the encoder's store.
StoresConverge ==
  /\ codec.pocRandomAccess # MAX_INT /\ Tids \subseteq 0..codec.maxTid
  /\ dec.lastRasPoc = MAX_INT
  => dec.store = enc.store
=============================================================================
