------------------------ MODULE PictureCodingProofs ------------------------
(***************************************************************************)
(* Theorems about PictureCoding: for every picture, every division into    *)
(* tiles and slices and with or without wavefronts, the CTU loops of       *)
(* encoder and decoder begin every CTU with the same contexts, which are   *)
(* those that the CTU above has left, each CTU is decoded from its own     *)
(* data, and in slices in one tile with its QP.                            *)
(***************************************************************************)
EXTENDS PictureCoding, PicturePartitionProofs

-----------------------------------------------------------------------------
(* One loop for both.  The state of a loop is what it starts a CTU from:    *)
(* its contexts, the kept ones and the columns' bins.                       *)

At(i) == layout.map[slice][i]

FirstOfTile(i) ==
  Data!CtuIsTileColBd(layout.pic, At(i)) /\ Data!CtuIsTileRowBd(layout.pic, At(i))
RowStart(i) == sps.wpp /\ Data!CtuIsTileColBd(layout.pic, At(i))

\* AboveInSliceAndTile for CTU i of the slice.
HasAbove(i) ==
  /\ Data!CtuY(layout.pic, At(i)) > 0
  /\ Data!SliceIdx(At(i) - layout.pic.width) = slice
  /\ Data!TileIdx(layout.pic, At(i) - layout.pic.width) = Data!TileIdx(layout.pic, At(i))

\* The contexts of a loop in state s at the start of CTU i, before the update.
Start(i, s) ==
  IF FirstOfTile(i) THEN IF i # 1 THEN << >> ELSE s.ctx
  ELSE IF RowStart(i) THEN IF HasAbove(i) THEN s.sync ELSE IF i # 1 THEN << >> ELSE s.ctx
  ELSE s.ctx

Before(i, s) ==
  IF Data!CtuY(layout.pic, At(i)) > 0
  THEN Append(Start(i, s), <<"above", s.bins[Data!CtuX(layout.pic, At(i))]>>) ELSE Start(i, s)

After(i, s) ==
  [ctx  |-> Append(Before(i, s), <<"coded", At(i)>>),
   sync |-> IF RowStart(i) THEN Append(Before(i, s), <<"coded", At(i)>>) ELSE s.sync,
   bins |-> [s.bins EXCEPT ![Data!CtuX(layout.pic, At(i))] = At(i)]]

State(c) == [ctx |-> c.ctx, sync |-> c.sync, bins |-> c.bins]

\* The state in which a loop starts the next slice.
AtStart(c) == [ctx |-> << >>, sync |-> c.sync, bins |-> c.bins]

-----------------------------------------------------------------------------
(* The inductive invariant.                                                 *)

\* The maps in use have passed checkSliceMap.
MapsChecked ==
  /\ pic.width \in Nat \ {0} /\ pic.height \in Nat \ {0}
  /\ stage \in {"write", "read", "headers", "done"} => IsSliceMap(pic, enc.map)
  /\ phase # "none" => IsSliceMap(layout.pic, layout.map)

IsCoder(c) ==
  c = [ctx |-> c.ctx, sync |-> c.sync, bins |-> c.bins, prevQp |-> c.prevQp,
       subs |-> c.subs, numSubstream |-> c.numSubstream, sizes |-> c.sizes]
IsDecoder(d) ==
  d = [ctx |-> d.ctx, sync |-> d.sync, bins |-> d.bins, prevQp |-> d.prevQp,
       subs |-> d.subs, sub |-> d.sub]

Looping == phase \in {"encode", "decode"}

Shapes ==
  /\ slice \in DOMAIN layout.map /\ idx \in 1..(Len(layout.map[slice]) + 1)
  /\ IsCoder(coder) /\ IsDecoder(decoder)
  /\ DOMAIN coded = Data!Ctus /\ DOMAIN decoded = Data!Ctus

\* The CTUs the encoder has coded of the slice, from the state states[1] on.
Coded(states, n) ==
  \A i \in 1..(n - 1) :
    states[i + 1] = After(i, states[i]) /\ coded[At(i)].ctx = Before(i, states[i])

\* Encoder and decoder go through the same states, the decoder when the encoder
\* is through with the slice.
SameStates ==
  \E states :
    /\ phase = "encode" =>
         /\ Coded(states, idx) /\ states[idx] = State(coder)
         /\ states[1] = AtStart(decoder)
    /\ phase = "decode" =>
         LET n == Len(layout.map[slice]) + 1
         IN /\ Coded(states, n) /\ states[n] = State(coder)
            /\ states[idx] = State(decoder)

\* CTU c was decoded: it is in an earlier slice, or earlier in this one.
Passed(c) ==
  \E s \in DOMAIN layout.map : \E i \in DOMAIN layout.map[s] :
    /\ layout.map[s][i] = c
    /\ s < slice \/ (s = slice /\ phase = "decode" /\ i < idx)

DecodedPassed == \A c \in Data!Decoded : Passed(c)

\* That the decoder follows the encoder through a slice is not enough: what was
\* decoded must not be coded again, and so the slices must not overlap.
LoopInv ==
  /\ MapsChecked
  /\ Data!ContextsAgree
  /\ Looping => Shapes /\ SameStates /\ DecodedPassed

-----------------------------------------------------------------------------
\* The slices of a checked map are lists of CTUs of the picture, which have no
\* CTU in common and none twice.
LEMMA MapMeans ==
  ASSUME NEW p, NEW map, IsSliceMap(p, map)
  PROVE  /\ map \in Seq(Seq(0..(p.width * p.height - 1)))
         /\ \A s, t \in DOMAIN map : \A i \in DOMAIN map[s], j \in DOMAIN map[t] :
              map[s][i] = map[t][j] => s = t /\ i = j
<1> DEFINE places == UNION {{s} \X DOMAIN map[s] : s \in DOMAIN map}
           ctuAt == [q \in places |-> map[q[1]][q[2]]]
<1>1. map \in Seq(Seq(0..(p.width * p.height - 1))) /\ IsInjective(ctuAt)
  BY DEF IsSliceMap
<1>2. ASSUME NEW s \in DOMAIN map, NEW t \in DOMAIN map,
             NEW i \in DOMAIN map[s], NEW j \in DOMAIN map[t], map[s][i] = map[t][j]
      PROVE  s = t /\ i = j
  <2>1. <<s, i>> \in places /\ <<t, j>> \in places
    OBVIOUS
  <2>2. \A q, r \in places : ctuAt[q] = ctuAt[r] => q = r
    BY <1>1 DEF IsInjective
  <2>3. ctuAt[<<s, i>>] = map[s][i] /\ ctuAt[<<t, j>>] = map[t][j]
    BY <2>1
  <2>4. <<s, i>> = <<t, j>>
    BY <1>2, <2>1, <2>2, <2>3
  <2> QED
    BY <2>4
<1> QED
  BY <1>1, <1>2

\* Where the loops begin a CTU anew, they do it alike, though by rules of their own.
LEMMA SameStart ==
  /\ Data!EncStart = Start(idx, State(coder))
  /\ Data!DecStart = Start(idx, State(decoder))
BY DEF Data!EncStart, Data!DecStart, Data!FirstCtuOfTile, Data!AboveInSliceAndTile, Data!ctu,
       Data!ctus, Data!pic, Start, FirstOfTile, RowStart, HasAbove, At, State

\* An iteration of the encoder's loop takes its state on; it codes the CTU with
\* the contexts of its state.
LEMMA EncodeStep ==
  ASSUME Shapes, Data!EncodeCtu
  PROVE  /\ phase = "encode" /\ phase' = phase /\ idx' = idx + 1
         /\ idx \in 1..Len(layout.map[slice])
         /\ UNCHANGED <<layout, sps, slice, decoder, decoded>>
         /\ IsCoder(coder)'
         /\ State(coder') = After(idx, State(coder))
         /\ DOMAIN coded' = DOMAIN coded
         /\ \A c \in DOMAIN coded : c # At(idx) => coded'[c] = coded[c]
         /\ At(idx) \in DOMAIN coded => coded'[At(idx)].ctx = Before(idx, State(coder))
<1> DEFINE before == Data!UpdateCtxs(Data!EncStart, coder.bins)
           after == Append(before, <<"coded", Data!ctu>>)
<1>1. /\ phase = "encode" /\ idx <= Len(layout.map[slice]) /\ idx' = idx + 1
      /\ UNCHANGED <<layout, sps, phase, slice, decoder, decoded>>
  BY DEF Data!EncodeCtu, Data!ctus
<1>2. PICK qp, sizes, subs, num, pq :
        /\ coded' = [coded EXCEPT ![Data!ctu] = [ctx |-> before, qp |-> qp]]
        /\ coder' = [ctx |-> after, sync |-> Data!SyncStore(coder.sync, after),
                     bins |-> [coder.bins EXCEPT ![Data!CtuX(Data!pic, Data!ctu)] = Data!ctu],
                     prevQp |-> pq, subs |-> subs, numSubstream |-> num, sizes |-> sizes]
  BY DEF Data!EncodeCtu
<1>3. Data!ctu = At(idx) /\ Data!pic = layout.pic
  BY DEF Data!ctu, Data!ctus, At, Data!pic
<1>4. before = Before(idx, State(coder))
  BY <1>3, SameStart DEF Data!UpdateCtxs, Before, State
<1>5. Data!SyncStore(coder.sync, after) = IF RowStart(idx) THEN after ELSE coder.sync
  BY <1>3 DEF Data!SyncStore, RowStart
<1> HIDE DEF before
<1>6. State(coder') = After(idx, State(coder))
  BY <1>2, <1>3, <1>4, <1>5 DEF After, State
<1>7. IsCoder(coder)'
  BY <1>2 DEF IsCoder
<1>8. /\ DOMAIN coded' = DOMAIN coded
      /\ \A c \in DOMAIN coded : c # At(idx) => coded'[c] = coded[c]
      /\ At(idx) \in DOMAIN coded => coded'[At(idx)].ctx = Before(idx, State(coder))
  BY <1>2, <1>3, <1>4
<1>9. idx \in 1..Len(layout.map[slice])
  BY <1>1 DEF Shapes
<1> QED
  BY <1>1, <1>6, <1>7, <1>8, <1>9

\* An iteration of the decoder's loop does the same with the decoder's state.
LEMMA DecodeStep ==
  ASSUME Shapes, Data!DecodeCtu
  PROVE  /\ phase = "decode" /\ phase' \in {"decode", "error"} /\ idx' = idx + 1
         /\ idx \in 1..Len(layout.map[slice])
         /\ UNCHANGED <<layout, sps, slice, coder, coded>>
         /\ IsDecoder(decoder)'
         /\ State(decoder') = After(idx, State(decoder))
         /\ DOMAIN decoded' = DOMAIN decoded
         /\ \A c \in DOMAIN decoded : c # At(idx) => decoded'[c] = decoded[c]
         /\ At(idx) \in DOMAIN decoded => decoded'[At(idx)].ctx = Before(idx, State(decoder))
<1> DEFINE before == Data!UpdateCtxs(Data!DecStart, decoder.bins)
           after == Append(before, <<"coded", Data!ctu>>)
<1>1. /\ phase = "decode" /\ idx <= Len(layout.map[slice]) /\ idx' = idx + 1
      /\ UNCHANGED <<layout, sps, slice, coder, coded>>
      /\ phase' \in {"decode", "error"}
  BY DEF Data!DecodeCtu, Data!ctus
<1>2. PICK qp, pq, subs, sub :
        /\ decoded' = [decoded EXCEPT ![Data!ctu] = [ctx |-> before, qp |-> qp]]
        /\ decoder' = [ctx |-> after, sync |-> Data!SyncStore(decoder.sync, after),
                       bins |-> [decoder.bins EXCEPT ![Data!CtuX(Data!pic, Data!ctu)] = Data!ctu],
                       prevQp |-> pq, subs |-> subs, sub |-> sub]
  BY DEF Data!DecodeCtu
<1>3. Data!ctu = At(idx) /\ Data!pic = layout.pic
  BY DEF Data!ctu, Data!ctus, At, Data!pic
<1>4. before = Before(idx, State(decoder))
  BY <1>3, SameStart DEF Data!UpdateCtxs, Before, State
<1>5. Data!SyncStore(decoder.sync, after) = IF RowStart(idx) THEN after ELSE decoder.sync
  BY <1>3 DEF Data!SyncStore, RowStart
<1> HIDE DEF before
<1>6. State(decoder') = After(idx, State(decoder))
  BY <1>2, <1>3, <1>4, <1>5 DEF After, State
<1>7. IsDecoder(decoder)'
  BY <1>2 DEF IsDecoder
<1>8. /\ DOMAIN decoded' = DOMAIN decoded
      /\ \A c \in DOMAIN decoded : c # At(idx) => decoded'[c] = decoded[c]
      /\ At(idx) \in DOMAIN decoded => decoded'[At(idx)].ctx = Before(idx, State(decoder))
  BY <1>2, <1>3, <1>4
<1>9. idx \in 1..Len(layout.map[slice])
  BY <1>1 DEF Shapes
<1> QED
  BY <1>1, <1>6, <1>7, <1>8, <1>9

\* In a loop, the CTUs of the slice in hand are CTUs of the picture and differ.
LEMMA CtusOfSlice ==
  ASSUME MapsChecked, Looping, Shapes
  PROVE  /\ Len(layout.map[slice]) \in Nat
         /\ DOMAIN layout.map[slice] = 1..Len(layout.map[slice])
         /\ \A i \in 1..Len(layout.map[slice]) : At(i) \in Data!Ctus
         /\ \A i, j \in 1..Len(layout.map[slice]) : At(i) = At(j) => i = j
         /\ \A s \in DOMAIN layout.map : \A i \in DOMAIN layout.map[s] :
              \A j \in 1..Len(layout.map[slice]) :
                layout.map[s][i] = At(j) => s = slice /\ i = j
<1>1. IsSliceMap(layout.pic, layout.map) /\ slice \in DOMAIN layout.map
  BY DEF MapsChecked, Looping, Shapes
<1>2. layout.map[slice] \in Seq(0..(layout.pic.width * layout.pic.height - 1))
  BY <1>1, MapMeans
<1>3. Data!Ctus = 0..(layout.pic.width * layout.pic.height - 1)
  BY DEF Data!Ctus, Data!pic
<1>4. \A s, t \in DOMAIN layout.map : \A i \in DOMAIN layout.map[s], j \in DOMAIN layout.map[t] :
        layout.map[s][i] = layout.map[t][j] => s = t /\ i = j
  BY <1>1, MapMeans
<1>5. /\ Len(layout.map[slice]) \in Nat
      /\ DOMAIN layout.map[slice] = 1..Len(layout.map[slice])
      /\ \A i \in 1..Len(layout.map[slice]) : layout.map[slice][i] \in Data!Ctus
  <2> DEFINE list == layout.map[slice]
             N == 0..(layout.pic.width * layout.pic.height - 1)
  <2>1. list \in Seq(N)
    BY <1>2
  <2> HIDE DEF list, N
  <2>2. /\ Len(list) \in Nat /\ DOMAIN list = 1..Len(list)
        /\ \A i \in 1..Len(list) : list[i] \in N
    BY <2>1
  <2> QED
    BY <1>3, <2>2 DEF list, N
<1> QED
  BY <1>1, <1>4, <1>5 DEF At

\* A CTU decoded before is not the one the loops come to.
LEMMA PassedIsOther ==
  ASSUME MapsChecked, Looping, Shapes, NEW c, Passed(c), idx \in 1..Len(layout.map[slice])
  PROVE  c # At(idx)
<1>1. PICK s \in DOMAIN layout.map : \E i \in DOMAIN layout.map[s] :
        /\ layout.map[s][i] = c
        /\ s < slice \/ (s = slice /\ phase = "decode" /\ i < idx)
  BY DEF Passed
<1>2. PICK i \in DOMAIN layout.map[s] :
        /\ layout.map[s][i] = c
        /\ s < slice \/ (s = slice /\ phase = "decode" /\ i < idx)
  BY <1>1
<1>3. SUFFICES ASSUME c = At(idx) PROVE FALSE
  OBVIOUS
<1>4. s = slice /\ i = idx
  BY <1>2, <1>3, CtusOfSlice
<1>5. slice \in Int /\ idx \in Int
  <2>1. layout.map \in Seq(Seq(0..(layout.pic.width * layout.pic.height - 1)))
    BY MapMeans DEF MapsChecked, Looping
  <2> QED
    BY <2>1 DEF Shapes
<1> QED
  BY <1>2, <1>4, <1>5

\* A loop state leads on alike while the picture and the slice stay the same.
LEMMA SamePicture ==
  ASSUME UNCHANGED <<layout, sps, slice>>
  PROVE  \A i, s : At(i)' = At(i) /\ Before(i, s)' = Before(i, s) /\ After(i, s)' = After(i, s)
<1>1. \A c : Data!SliceIdx(c)' = Data!SliceIdx(c)
  BY DEF Data!SliceIdx
<1>2. \A i : At(i)' = At(i)
  BY DEF At
<1>3. \A i : FirstOfTile(i)' = FirstOfTile(i) /\ RowStart(i)' = RowStart(i)
  BY <1>2 DEF FirstOfTile, RowStart
<1>4. \A i : HasAbove(i)' = HasAbove(i)
  BY <1>1, <1>2 DEF HasAbove
<1>5. \A i, s : Start(i, s)' = Start(i, s)
  BY <1>3, <1>4 DEF Start
<1>6. \A i, s : Before(i, s)' = Before(i, s)
  BY <1>2, <1>5 DEF Before
<1>7. \A i, s : After(i, s)' = After(i, s)
  BY <1>2, <1>3, <1>6 DEF After
<1> QED
  BY <1>2, <1>6, <1>7

\* What the encoder codes next, the decoder has not decoded yet.
LEMMA EncodeKeeps ==
  ASSUME LoopInv, EncodeCtu
  PROVE  LoopInv'
<1>1. /\ Looping /\ Shapes /\ SameStates /\ DecodedPassed /\ MapsChecked /\ Data!ContextsAgree
      /\ UNCHANGED vars /\ Data!EncodeCtu
  BY DEF LoopInv, EncodeCtu, Data!EncodeCtu, Looping
<1>2. /\ phase = "encode" /\ phase' = phase /\ idx' = idx + 1
      /\ idx \in 1..Len(layout.map[slice])
      /\ UNCHANGED <<layout, sps, slice, decoder, decoded>>
      /\ IsCoder(coder)'
      /\ State(coder') = After(idx, State(coder))
      /\ DOMAIN coded' = DOMAIN coded
      /\ \A c \in DOMAIN coded : c # At(idx) => coded'[c] = coded[c]
      /\ At(idx) \in DOMAIN coded => coded'[At(idx)].ctx = Before(idx, State(coder))
  BY <1>1, EncodeStep
<1>3. /\ Len(layout.map[slice]) \in Nat
      /\ \A i \in 1..Len(layout.map[slice]) : At(i) \in Data!Ctus
      /\ \A i, j \in 1..Len(layout.map[slice]) : At(i) = At(j) => i = j
  BY <1>1, CtusOfSlice
<1>4. DOMAIN coded = Data!Ctus /\ DOMAIN decoded = Data!Ctus
  BY <1>1 DEF Shapes
<1>5. MapsChecked'
  BY <1>1, <1>2 DEF MapsChecked, vars
<1>6. Data!Decoded' = Data!Decoded /\ Data!Decoded \subseteq DOMAIN coded
  BY <1>2, <1>4 DEF Data!Decoded
<1>7. DecodedPassed'
  BY <1>1, <1>2, <1>6 DEF DecodedPassed, Passed
<1>8. Data!ContextsAgree'
  <2>1. ASSUME NEW c \in Data!Decoded PROVE coded'[c] = coded[c]
    BY <1>1, <1>2, <1>6, <2>1, PassedIsOther DEF DecodedPassed
  <2> QED
    BY <1>1, <1>2, <1>6, <2>1 DEF Data!ContextsAgree
<1>9. Shapes'
  <2>1. Data!Ctus' = Data!Ctus
    BY <1>2 DEF Data!Ctus, Data!pic
  <2>2. idx' \in 1..(Len(layout.map[slice]) + 1)
    BY <1>2, <1>3
  <2> QED
    BY <1>1, <1>2, <1>4, <2>1, <2>2 DEF Shapes, IsDecoder
<1>10. SameStates'
  <2>1. PICK states : /\ Coded(states, idx) /\ states[idx] = State(coder)
                      /\ states[1] = AtStart(decoder)
    BY <1>1, <1>2 DEF SameStates
  <2>2. PICK more : more = [i \in 1..(idx + 1) |-> IF i = idx + 1 THEN State(coder')
                                                  ELSE states[i]]
    OBVIOUS
  <2>3. \A i, s : At(i)' = At(i) /\ Before(i, s)' = Before(i, s) /\ After(i, s)' = After(i, s)
    BY <1>2, SamePicture
  <2>4. /\ \A i \in 1..idx : more[i] = states[i]
        /\ more[idx + 1] = State(coder') /\ 1 \in 1..idx /\ idx \in 1..idx
        /\ \A i \in 1..((idx + 1) - 1) : i = idx \/ i \in 1..(idx - 1)
        /\ \A i \in 1..(idx - 1) : /\ i # idx /\ i \in 1..Len(layout.map[slice])
                                 /\ i \in 1..idx /\ i + 1 \in 1..idx
    BY <1>2, <1>3, <2>2
  <2>5. \A i \in 1..(idx - 1) : coded'[At(i)] = coded[At(i)]
    BY <1>2, <1>3, <1>4, <2>4
  <2>6. \A i \in 1..((idx + 1) - 1) :
          more[i + 1] = After(i, more[i]) /\ coded'[At(i)].ctx = Before(i, more[i])
    BY <1>2, <1>3, <1>4, <2>1, <2>4, <2>5 DEF Coded
  <2>7. \A n : n = idx + 1 => Coded(more, n)'
    BY <2>3, <2>6 DEF Coded
  <2> QED
    BY <1>2, <2>1, <2>4, <2>7 DEF SameStates, AtStart, State
<1> QED
  BY <1>1, <1>2, <1>5, <1>7, <1>8, <1>9, <1>10 DEF LoopInv

\* The decoder comes to CTU after CTU in the states in which the encoder was.
LEMMA DecodeKeeps ==
  ASSUME LoopInv, DecodeCtu
  PROVE  LoopInv'
<1>1. /\ Looping /\ Shapes /\ SameStates /\ DecodedPassed /\ MapsChecked /\ Data!ContextsAgree
      /\ UNCHANGED vars /\ Data!DecodeCtu
  BY DEF LoopInv, DecodeCtu, Data!DecodeCtu, Looping
<1>2. /\ phase = "decode" /\ phase' \in {"decode", "error"} /\ idx' = idx + 1
      /\ idx \in 1..Len(layout.map[slice])
      /\ UNCHANGED <<layout, sps, slice, coder, coded>>
      /\ IsDecoder(decoder)'
      /\ State(decoder') = After(idx, State(decoder))
      /\ DOMAIN decoded' = DOMAIN decoded
      /\ \A c \in DOMAIN decoded : c # At(idx) => decoded'[c] = decoded[c]
      /\ At(idx) \in DOMAIN decoded => decoded'[At(idx)].ctx = Before(idx, State(decoder))
  BY <1>1, DecodeStep
<1>3. /\ Len(layout.map[slice]) \in Nat
      /\ DOMAIN layout.map[slice] = 1..Len(layout.map[slice])
      /\ \A i \in 1..Len(layout.map[slice]) : At(i) \in Data!Ctus
      /\ \A i, j \in 1..Len(layout.map[slice]) : At(i) = At(j) => i = j
  BY <1>1, CtusOfSlice
<1>4. DOMAIN coded = Data!Ctus /\ DOMAIN decoded = Data!Ctus /\ slice \in DOMAIN layout.map
  BY <1>1 DEF Shapes
<1>5. MapsChecked'
  BY <1>1, <1>2 DEF MapsChecked, vars
<1>6. /\ Data!Decoded' \subseteq Data!Decoded \cup {At(idx)}
      /\ \A c \in Data!Decoded : c \in DOMAIN decoded
  BY <1>2, <1>4 DEF Data!Decoded
<1>7. PICK states : LET n == Len(layout.map[slice]) + 1
                    IN /\ Coded(states, n) /\ states[n] = State(coder)
                       /\ states[idx] = State(decoder)
  BY <1>1, <1>2 DEF SameStates
<1>8. /\ states[idx + 1] = After(idx, states[idx])
      /\ coded[At(idx)].ctx = Before(idx, states[idx])
  <2>1. idx \in 1..((Len(layout.map[slice]) + 1) - 1)
    BY <1>2, <1>3
  <2> QED
    BY <1>7, <2>1 DEF Coded
<1>9. Data!ContextsAgree'
  <2>1. ASSUME NEW c \in Data!Decoded' PROVE decoded'[c].ctx = coded[c].ctx
    <3>1. CASE c = At(idx)
      BY <1>2, <1>3, <1>4, <1>7, <1>8, <3>1
    <3>2. CASE c # At(idx)
      BY <1>1, <1>2, <1>6, <3>2 DEF Data!ContextsAgree
    <3> QED
      BY <3>1, <3>2
  <2> QED
    BY <1>2, <2>1 DEF Data!ContextsAgree
<1>10. ASSUME phase' = "decode"
       PROVE  Shapes' /\ SameStates' /\ DecodedPassed'
  <2>1. Data!Ctus' = Data!Ctus
    BY <1>2 DEF Data!Ctus, Data!pic
  <2>2. idx' \in 1..(Len(layout.map[slice]) + 1)
    BY <1>2, <1>3
  <2>3. Shapes'
    BY <1>1, <1>2, <1>4, <2>1, <2>2 DEF Shapes, IsCoder
  <2>4. \A n : Coded(states, n)' = Coded(states, n)
    <3>1. \A i, s : At(i)' = At(i) /\ Before(i, s)' = Before(i, s) /\ After(i, s)' = After(i, s)
      BY <1>2, SamePicture
    <3> QED
      BY <1>2, <3>1 DEF Coded
  <2>5. states[idx'] = State(decoder)'
    BY <1>2, <1>7, <1>8 DEF State
  <2>6. SameStates'
    BY <1>2, <1>7, <1>10, <2>4, <2>5 DEF SameStates, State
  <2>7. ASSUME NEW c \in Data!Decoded' PROVE Passed(c)'
    <3>1. CASE c = At(idx)
      BY <1>2, <1>3, <1>4, <1>10, <3>1 DEF Passed, At
    <3>2. CASE c \in Data!Decoded
      <4>1. PICK s \in DOMAIN layout.map : \E i \in DOMAIN layout.map[s] :
              layout.map[s][i] = c /\ (s < slice \/ (s = slice /\ i < idx))
        BY <1>1, <3>2 DEF DecodedPassed, Passed
      <4>2. PICK i \in DOMAIN layout.map[s] :
              layout.map[s][i] = c /\ (s < slice \/ (s = slice /\ i < idx))
        BY <4>1
      <4>3. s < slice \/ (s = slice /\ i < idx')
        BY <1>2, <1>3, <4>2
      <4> QED
        BY <1>2, <1>10, <4>2, <4>3 DEF Passed
    <3> QED
      BY <1>6, <3>1, <3>2
  <2> QED
    BY <2>3, <2>6, <2>7 DEF DecodedPassed
<1> QED
  BY <1>2, <1>5, <1>9, <1>10 DEF LoopInv, Looping

\* The decoder starts a slice in the state in which the encoder started it.
LEMMA WriteKeeps ==
  ASSUME LoopInv, WriteSliceData
  PROVE  LoopInv'
<1>1. /\ Looping /\ Shapes /\ SameStates /\ DecodedPassed /\ MapsChecked /\ Data!ContextsAgree
      /\ UNCHANGED vars /\ phase = "encode" /\ phase' = "decode" /\ idx' = 1
      /\ UNCHANGED <<layout, sps, slice, coder, coded, decoded>>
      /\ idx > Len(layout.map[slice])
  BY DEF LoopInv, WriteSliceData, Data!WriteSlice, Looping, Data!ctus
<1>2. PICK subs : decoder' = [decoder EXCEPT !.ctx = << >>, !.prevQp = Data!SliceQp,
                                             !.sub = 1, !.subs = subs]
  BY DEF WriteSliceData, Data!WriteSlice
<1>3. IsDecoder(decoder)' /\ State(decoder') = AtStart(decoder)
  <2> DEFINE d == decoder
  <2>1. d = [ctx |-> d.ctx, sync |-> d.sync, bins |-> d.bins, prevQp |-> d.prevQp,
             subs |-> d.subs, sub |-> d.sub]
    BY <1>1 DEF Shapes, IsDecoder
  <2>2. decoder' = [ctx |-> << >>, sync |-> d.sync, bins |-> d.bins, prevQp |-> Data!SliceQp,
                    subs |-> subs, sub |-> 1]
    BY <1>2, <2>1
  <2> QED
    BY <2>2 DEF IsDecoder, State, AtStart
<1>4. Len(layout.map[slice]) \in Nat /\ idx = Len(layout.map[slice]) + 1
  BY <1>1, CtusOfSlice DEF Shapes
<1>5. MapsChecked'
  BY <1>1 DEF MapsChecked, vars
<1>6. Data!Decoded' = Data!Decoded /\ Data!ContextsAgree'
  BY <1>1 DEF Data!Decoded, Data!ContextsAgree
<1>7. DecodedPassed'
  BY <1>1, <1>6 DEF DecodedPassed, Passed
<1>8. Shapes'
  <2>1. Data!Ctus' = Data!Ctus
    BY <1>1 DEF Data!Ctus, Data!pic
  <2>2. 1 \in 1..(Len(layout.map[slice]) + 1)
    BY <1>4
  <2> QED
    BY <1>1, <1>3, <2>1, <2>2 DEF Shapes, IsCoder
<1>9. SameStates'
  <2>1. PICK states : /\ Coded(states, idx) /\ states[idx] = State(coder)
                      /\ states[1] = AtStart(decoder)
    BY <1>1 DEF SameStates
  <2>2. \A n : Coded(states, n)' = Coded(states, n)
    <3>1. \A i, s : At(i)' = At(i) /\ Before(i, s)' = Before(i, s) /\ After(i, s)' = After(i, s)
      BY <1>1, SamePicture
    <3> QED
      BY <1>1, <3>1 DEF Coded
  <2>3. states[idx'] = State(decoder)'
    BY <1>1, <1>3, <2>1 DEF State
  <2> QED
    BY <1>1, <1>4, <2>1, <2>2, <2>3 DEF SameStates, State
<1> QED
  BY <1>1, <1>5, <1>6, <1>7, <1>8, <1>9 DEF LoopInv

\* The next slice starts for both with what they keep from this one.
LEMMA NextSliceKeeps ==
  ASSUME LoopInv, NextSlice
  PROVE  LoopInv'
<1>1. /\ Looping /\ Shapes /\ SameStates /\ DecodedPassed /\ MapsChecked /\ Data!ContextsAgree
      /\ UNCHANGED vars /\ phase = "decode"
      /\ UNCHANGED <<layout, sps, decoder, coded, decoded>>
      /\ idx > Len(layout.map[slice])
  BY DEF LoopInv, NextSlice, Data!NextSlice, Looping, Data!ctus
<1>2. IF slice < Len(layout.map) THEN phase' = "encode" /\ Data!StartSlice(slice + 1)
      ELSE phase' = "done"
  BY DEF NextSlice, Data!NextSlice
<1>3. MapsChecked'
  BY <1>1 DEF MapsChecked, vars
<1>4. Data!Decoded' = Data!Decoded /\ Data!ContextsAgree'
  BY <1>1 DEF Data!Decoded, Data!ContextsAgree
<1>5. ASSUME slice < Len(layout.map)
      PROVE  Shapes' /\ SameStates' /\ DecodedPassed'
  <2>1. /\ phase' = "encode" /\ slice' = slice + 1 /\ idx' = 1
        /\ coder' = [coder EXCEPT !.ctx = << >>, !.prevQp = Data!SliceQp,
                       !.subs = << << >> >>, !.numSubstream = 0, !.sizes = << >>]
    BY <1>2, <1>5 DEF Data!StartSlice
  <2>2. coder' = [ctx |-> << >>, sync |-> coder.sync, bins |-> coder.bins,
                  prevQp |-> Data!SliceQp, subs |-> << << >> >>, numSubstream |-> 0,
                  sizes |-> << >>]
    <3> DEFINE c == coder
    <3>1. c = [ctx |-> c.ctx, sync |-> c.sync, bins |-> c.bins, prevQp |-> c.prevQp,
               subs |-> c.subs, numSubstream |-> c.numSubstream, sizes |-> c.sizes]
      BY <1>1 DEF Shapes, IsCoder
    <3> QED
      BY <2>1, <3>1
  <2>3. IsCoder(coder)' /\ State(coder') = AtStart(coder)
    BY <2>2 DEF IsCoder, State, AtStart
  <2>4. Len(layout.map[slice]) \in Nat /\ idx = Len(layout.map[slice]) + 1
    BY <1>1, CtusOfSlice DEF Shapes
  <2>5. AtStart(coder) = AtStart(decoder)
    <3>1. State(coder) = State(decoder)
      BY <1>1, <2>4 DEF SameStates
    <3> QED
      BY <3>1 DEF State, AtStart
  <2>6. /\ slice \in Nat /\ slice + 1 \in DOMAIN layout.map
        /\ Len(layout.map[slice + 1]) \in Nat
    <3>1. layout.map \in Seq(Seq(0..(layout.pic.width * layout.pic.height - 1)))
      BY <1>1, MapMeans DEF MapsChecked
    <3> HIDE DEF At
    <3>2. slice \in Nat /\ slice + 1 \in DOMAIN layout.map
      BY <1>1, <1>5, <3>1 DEF Shapes
    <3>3. layout.map[slice + 1] \in Seq(0..(layout.pic.width * layout.pic.height - 1))
      BY <3>1, <3>2
    <3> QED
      BY <3>2, <3>3
  <2>7. Shapes'
    <3>1. Data!Ctus' = Data!Ctus
      BY <1>1 DEF Data!Ctus, Data!pic
    <3>2. 1 \in 1..(Len(layout.map[slice + 1]) + 1)
      BY <2>6
    <3> QED
      BY <1>1, <2>1, <2>3, <2>6, <3>1, <3>2 DEF Shapes, IsDecoder
  <2>8. SameStates'
    <3>1. PICK states : states = [i \in {1} |-> AtStart(coder)]
      OBVIOUS
    <3>2. Coded(states, 1)'
      BY DEF Coded
    <3>3. states[1] = AtStart(coder)
      BY <3>1
    <3>4. states[1] = State(coder)' /\ states[1] = AtStart(decoder)'
      BY <1>1, <2>3, <2>5, <3>3 DEF State, AtStart
    <3> QED
      BY <2>1, <3>2, <3>4 DEF SameStates
  <2>9. ASSUME NEW c \in Data!Decoded PROVE Passed(c)'
    <3>1. PICK s \in DOMAIN layout.map : \E i \in DOMAIN layout.map[s] :
            layout.map[s][i] = c /\ (s < slice \/ (s = slice /\ i < idx))
      BY <1>1 DEF DecodedPassed, Passed
    <3>2. s < slice'
      <4>1. DOMAIN layout.map \subseteq Nat
        <5>1. layout.map \in Seq(Seq(0..(layout.pic.width * layout.pic.height - 1)))
          BY <1>1, MapMeans DEF MapsChecked
        <5> QED
          BY <5>1
      <4> QED
        BY <2>1, <2>6, <3>1, <4>1
    <3> QED
      BY <1>1, <3>1, <3>2 DEF Passed
  <2> QED
    BY <1>4, <2>7, <2>8, <2>9 DEF DecodedPassed
<1> QED
  BY <1>2, <1>3, <1>4, <1>5 DEF LoopInv, Looping

\* A picture begins with a checked map and with nothing decoded.
LEMMA BeginKeeps ==
  ASSUME LoopInv, Begin
  PROVE  LoopInv'
<1>1. /\ MapsChecked /\ stage = "done" /\ dec.map = enc.map /\ stage' = "coding"
      /\ UNCHANGED pic /\ Data!StartPicture([pic |-> pic, map |-> dec.map])
  BY DEF LoopInv, Begin
<1> DEFINE none == [c \in 0..(pic.width * pic.height - 1) |->
                      [ctx |-> << >>, qp |-> Data!None]]
           columns == [x \in 0..(pic.width - 1) |-> Data!None]
<1>2. /\ phase' = "encode" /\ slice' = 1 /\ idx' = 1
      /\ layout' = [pic |-> pic, map |-> enc.map]
      /\ coder' = [ctx |-> << >>, sync |-> << >>, bins |-> columns, prevQp |-> Data!SliceQp,
                   subs |-> << << >> >>, numSubstream |-> 0, sizes |-> << >>]
      /\ decoder' = [ctx |-> << >>, sync |-> << >>, bins |-> columns,
                     prevQp |-> Data!SliceQp, subs |-> << >>, sub |-> 1]
      /\ coded' = none /\ decoded' = none
  BY <1>1 DEF Data!StartPicture
<1>3. IsSliceMap(pic, enc.map) /\ pic.width \in Nat \ {0} /\ pic.height \in Nat \ {0}
  BY <1>1 DEF MapsChecked
<1>4. MapsChecked'
  BY <1>1, <1>2, <1>3 DEF MapsChecked
<1>5. Data!Decoded' = {}
  BY <1>2 DEF Data!Decoded
<1>6. Data!ContextsAgree' /\ DecodedPassed'
  BY <1>5 DEF Data!ContextsAgree, DecodedPassed
<1>7. 1 \in DOMAIN enc.map /\ Len(enc.map[1]) \in Nat
  <2> DEFINE map == enc.map
             N == 0..(pic.width * pic.height - 1)
             places == UNION {{s} \X DOMAIN map[s] : s \in DOMAIN map}
             ctuAt == [q \in places |-> map[q[1]][q[2]]]
  <2>1. map \in Seq(Seq(N)) /\ Range(ctuAt) = N
    BY <1>3 DEF IsSliceMap
  <2>2. 0 \in N
    <3>1. \A w, h \in Nat : w # 0 /\ h # 0 => w * h - 1 >= 0 /\ w * h \in Nat
      OBVIOUS
    <3> QED
      BY <1>3, <3>1
  <2>3. places # {}
    BY <2>1, <2>2 DEF Range
  <2>4. DOMAIN map # {}
    BY <2>3
  <2> HIDE DEF map, N
  <2>5. 1 \in DOMAIN map /\ map[1] \in Seq(N)
    BY <2>1, <2>4
  <2> QED
    BY <2>5 DEF map
<1>8. Shapes'
  <2>1. Data!Ctus' = 0..(pic.width * pic.height - 1)
    BY <1>2 DEF Data!Ctus, Data!pic
  <2>2. 1 \in 1..(Len(enc.map[1]) + 1)
    BY <1>7
  <2>3. IsCoder(coder)' /\ IsDecoder(decoder)'
    BY <1>2 DEF IsCoder, IsDecoder
  <2> QED
    BY <1>2, <1>7, <2>1, <2>2, <2>3 DEF Shapes
<1>9. SameStates'
  <2>1. PICK states : states = [i \in {1} |-> [ctx |-> << >>, sync |-> << >>, bins |-> columns]]
    OBVIOUS
  <2>2. Coded(states, 1)'
    BY DEF Coded
  <2>3. states[1] = State(coder)' /\ states[1] = AtStart(decoder)'
    BY <1>2, <2>1 DEF State, AtStart
  <2> QED
    BY <1>2, <2>2, <2>3 DEF SameStates
<1> QED
  BY <1>4, <1>6, <1>8, <1>9 DEF LoopInv

\* Where layout, slice and the loops do not change, what is said of them remains.
LEMMA LoopsUnchanged ==
  ASSUME LoopInv, UNCHANGED dataVars
  PROVE  Data!ContextsAgree' /\ (Looping' => Shapes' /\ SameStates' /\ DecodedPassed')
<1>1. UNCHANGED <<layout, sps, phase, slice, idx, coder, decoder, coded, decoded>>
  BY DEF dataVars
<1>2. Data!ContextsAgree'
  BY <1>1 DEF LoopInv, Data!ContextsAgree, Data!Decoded
<1>3. ASSUME Looping' PROVE Shapes' /\ SameStates' /\ DecodedPassed'
  <2>1. Looping /\ Shapes /\ SameStates /\ DecodedPassed
    BY <1>1, <1>3 DEF LoopInv, Looping
  <2>2. Shapes'
    BY <1>1, <2>1 DEF Shapes, IsCoder, IsDecoder, Data!Ctus, Data!pic
  <2>3. DecodedPassed'
    BY <1>1, <2>1 DEF DecodedPassed, Passed, Data!Decoded
  <2>4. \A states, n : Coded(states, n)' = Coded(states, n)
    <3>1. \A i, s : At(i)' = At(i) /\ Before(i, s)' = Before(i, s) /\ After(i, s)' = After(i, s)
      BY <1>1, SamePicture
    <3> QED
      BY <1>1, <3>1 DEF Coded
  <2>5. SameStates'
    BY <1>1, <2>1, <2>4 DEF SameStates, State, AtStart
  <2> QED
    BY <2>2, <2>3, <2>5
<1> QED
  BY <1>2, <1>3

\* The parts of the partition that make a map check it.
LEMMA PartitionKeeps ==
  ASSUME LoopInv, Next, UNCHANGED dataVars
  PROVE  LoopInv'
<1>1. MapsChecked
  BY DEF LoopInv
<1>2. UNCHANGED pic
  BY DEF Next, AddTiles, SplitTile, Configure, WriteSlice, WriteEnd, ReadSlice, ReadEnd,
         ConfigureRaster, ReadHeader
<1>3. stage' \in {"write", "read", "headers", "done"} => IsSliceMap(pic, enc'.map)
  <2>1. CASE Configure
    <3>1. PICK rects, present :
            Configured = [rects |-> rects, map |-> << >>, tileIdxDeltaPresent |-> present]
      BY DEF Configured
    <3>2. /\ enc' = [Configured EXCEPT !.map = RectSliceMap(pic, Configured.rects)]
          /\ stage' = IF IsRectSignalling(pic, Configured.rects) THEN "write" ELSE "error"
      BY <2>1 DEF Configure
    <3>3. enc'.map = RectSliceMap(pic, Configured.rects)
      BY <3>1, <3>2
    <3> QED
      BY <3>2, <3>3 DEF IsRectSignalling
  <2>2. CASE ConfigureRaster
    BY <2>2 DEF ConfigureRaster
  <2>3. CASE AddTiles \/ SplitTile
    <3>1. stage = "slices" /\ stage' = stage
      BY <2>3 DEF AddTiles, SplitTile
    <3> QED
      BY <3>1
  <2>4. CASE WriteSlice \/ WriteEnd
    BY <1>1, <2>4 DEF WriteSlice, WriteEnd, MapsChecked
  <2>5. CASE ReadSlice \/ ReadEnd
    BY <1>1, <2>5 DEF ReadSlice, ReadEnd, MapsChecked
  <2>6. CASE ReadHeader
    BY <1>1, <2>6 DEF ReadHeader, MapsChecked
  <2> QED
    BY <2>1, <2>2, <2>3, <2>4, <2>5, <2>6 DEF Next
<1>4. MapsChecked'
  BY <1>1, <1>2, <1>3 DEF MapsChecked, dataVars
<1> QED
  BY <1>4, LoopsUnchanged DEF LoopInv

\* The two loops go through the same states, whatever happens.
LEMMA LoopInvariant == PictureSpec => []LoopInv
<1>1. PictureInit => LoopInv
  <2> SUFFICES ASSUME Init, Data!Init PROVE LoopInv
    BY DEF PictureInit
  <2>1. phase = "none" /\ decoded = << >>
    BY DEF Data!Init
  <2>2. MapsChecked
    <3>1. stage = "slices" /\ \E size \in Sizes : pic.width = size.width /\ pic.height = size.height
      BY DEF Init, TiledPicture
    <3> QED
      BY <2>1, <3>1, SizesAssumption DEF MapsChecked
  <2>3. Data!ContextsAgree
    BY <2>1 DEF Data!ContextsAgree, Data!Decoded
  <2> QED
    BY <2>1, <2>2, <2>3 DEF LoopInv, Looping
<1>2. LoopInv /\ [PictureNext]_<<vars, dataVars>> => LoopInv'
  <2> SUFFICES ASSUME LoopInv, [PictureNext]_<<vars, dataVars>> PROVE LoopInv'
    OBVIOUS
  <2>1. CASE Partition
    BY <2>1, PartitionKeeps DEF Partition
  <2>2. CASE Begin
    BY <2>2, BeginKeeps
  <2>3. CASE EncodeCtu
    BY <2>3, EncodeKeeps
  <2>4. CASE WriteSliceData
    BY <2>4, WriteKeeps
  <2>5. CASE DecodeCtu
    BY <2>5, DecodeKeeps
  <2>6. CASE NextSlice
    BY <2>6, NextSliceKeeps
  <2>7. CASE UNCHANGED <<vars, dataVars>>
    <3>1. MapsChecked'
      BY <2>7 DEF LoopInv, MapsChecked, vars, dataVars
    <3> QED
      BY <2>7, <3>1, LoopsUnchanged DEF LoopInv
  <2> QED
    BY <2>1, <2>2, <2>3, <2>4, <2>5, <2>6, <2>7 DEF PictureNext
<1> QED
  BY <1>1, <1>2, PTL DEF PictureSpec

\* ContextsAgree: in no slice, tile or wavefront row of any picture does the
\* decoder begin a CTU with other contexts than the encoder began it with.
THEOREM SameContexts == PictureSpec => []ContextsAgree
<1>1. LoopInv => ContextsAgree
  BY DEF LoopInv, ContextsAgree
<1> QED
  BY <1>1, LoopInvariant, PTL

-----------------------------------------------------------------------------
(* The lists of a configuration.                                            *)

\* A set of natural numbers with a bound has a greatest element, which Max takes.
LEMMA GreatestNatural ==
  ASSUME NEW n \in Nat, NEW S \in SUBSET (0..n), S # {}
  PROVE  Max(S) \in S /\ \A k \in S : k <= Max(S)
<1> DEFINE T == {n - k : k \in S}
<1>1. T \in SUBSET Nat /\ T # {}
  <2>1. \A k \in S : k \in 0..n /\ n - k \in Nat
    OBVIOUS
  <2> QED
    BY <2>1
<1>2. PICK m \in T : \A k \in T : m <= k
  BY <1>1, LeastNatural
<1>3. PICK top \in S : m = n - top
  BY <1>2
<1>4. ASSUME NEW k \in S PROVE k <= top
  <2>1. n - k \in T /\ m <= n - k
    BY <1>2
  <2> QED
    BY <1>3, <2>1
<1>5. \E x \in S : \A y \in S : x >= y
  BY <1>4
<1>6. Max(S) \in S /\ \A y \in S : Max(S) >= y
  BY <1>5 DEF Max
<1> QED
  BY <1>6

\* Min takes the least element of a set of natural numbers.
LEMMA LeastOfAll ==
  ASSUME NEW S \in SUBSET Nat, S # {}
  PROVE  Min(S) \in S /\ \A k \in S : Min(S) <= k
<1>1. \E x \in S : \A y \in S : x <= y
  BY LeastNatural
<1> QED
  BY <1>1 DEF Min

\* What is left of a list when sizes at the end are implicit.
LEMMA TrimmedMeans ==
  ASSUME NEW list \in Seq(Positive), list # << >>
  PROVE  LET trimmed == Trimmed(list)
             n == Len(trimmed)
         IN /\ trimmed \in Seq(Positive) /\ trimmed # << >> /\ n \in 1..Len(list)
            /\ \A i \in 1..n : trimmed[i] = list[i]
            /\ \A i \in n..Len(list) : list[i] = list[n]
<1> DEFINE L == Len(list)
           S == {k \in 1..L : \A j \in k..(L - 1) : list[j] = list[j + 1]}
           n == Min(S)
<1>1. L \in Nat /\ L >= 1 /\ S \in SUBSET Nat /\ L \in S
  OBVIOUS
<1>2. n \in 1..L /\ \A j \in n..(L - 1) : list[j] = list[j + 1]
  <2> HIDE DEF S
  <2>1. n \in S
    BY <1>1, LeastOfAll
  <2> QED
    BY <2>1 DEF S
<1>3. Trimmed(list) = SubSeq(list, 1, n)
  BY DEF Trimmed
<1> HIDE DEF n
<1>4. /\ SubSeq(list, 1, n) \in Seq(Positive)
      /\ Len(SubSeq(list, 1, n)) = n
      /\ \A i \in 1..n : SubSeq(list, 1, n)[i] = list[i]
  BY <1>2
<1>5. \A i \in n..L : list[i] = list[n]
  <2> DEFINE same == {i \in n..L : list[i] = list[n]}
  <2>1. /\ n \in Nat /\ L \in Nat /\ n <= L /\ same \in SUBSET (n..L) /\ n \in same
        /\ \A i \in same : i < L => i + 1 \in same
    BY <1>1, <1>2
  <2>2. same = n..L
    <3> HIDE DEF same, L
    <3> QED
      BY <2>1, InductionUpTo
  <2> QED
    BY <2>2
<1> DEFINE t == SubSeq(list, 1, n)
<1>6. t \in Seq(Positive) /\ Len(t) = n /\ \A i \in 1..n : t[i] = list[i]
  BY <1>4
<1> HIDE DEF t, L
<1>7. n \in 1..L /\ L \in Nat
  BY <1>1, <1>2
<1>8. t # << >>
  BY <1>6, <1>7
<1> QED
  BY <1>2, <1>3, <1>5, <1>6, <1>8 DEF t, L

\* Sizes that were cut off where the picture ends: at least one is left, they do
\* not go beyond, and a size is only cut or left out where the picture is full.
LEMMA ClippedMeans ==
  ASSUME NEW list \in Seq(Positive), list # << >>, NEW size \in Positive
  PROVE  LET clipped == Clipped(list, size)
             m == Len(clipped)
         IN /\ clipped \in Seq(Positive) /\ clipped # << >> /\ m \in 1..Len(list)
            /\ Boundaries(clipped)[m + 1] <= size
            /\ \A i \in 1..m : clipped[i] <= list[i] /\ (i < m => clipped[i] = list[i])
            /\ m < Len(list) \/ clipped[m] # list[m] => Boundaries(clipped)[m + 1] = size
<1> DEFINE L == Len(list)
           bd == Boundaries(list)
           S == {i \in 1..L : bd[i] < size}
           m == Max(S)
           clipped == Clipped(list, size)
<1>1. /\ L \in Nat /\ L >= 1 /\ size \in Nat /\ size >= 1
      /\ \A i \in 1..L : list[i] \in Nat /\ list[i] >= 1
      /\ list \in Seq(Int)
  BY DEF Positive
<1>2. /\ bd \in [1..(L + 1) -> Nat] /\ bd[1] = 0
      /\ \A i \in 1..L : bd[i + 1] = bd[i] + list[i]
      /\ \A i, j \in 1..(L + 1) : i < j => bd[i] < bd[j]
  BY BoundariesIncrease
<1> HIDE DEF bd
<1>3. S \in SUBSET (0..L) /\ 1 \in S
  BY <1>1, <1>2
<1>4. m \in S /\ \A k \in S : k <= m
  BY <1>1, <1>3, GreatestNatural
<1>5. S = 1..m
  <2>1. ASSUME NEW i \in 1..m PROVE i \in S
    <3>1. m \in 1..L /\ bd[m] < size
      BY <1>4
    <3> HIDE DEF m
    <3>2. i \in 1..(L + 1) /\ m \in 1..(L + 1) /\ i <= m /\ i \in 1..L
      BY <1>1, <3>1
    <3>3. bd[i] \in Nat /\ bd[m] \in Nat /\ (i < m => bd[i] < bd[m])
      BY <1>2, <3>2
    <3>4. bd[i] < size
      BY <1>1, <3>1, <3>2, <3>3
    <3> QED
      BY <3>2, <3>4
  <2>2. m \in Nat
    BY <1>4
  <2>3. ASSUME NEW i \in S PROVE i \in 1..m
    BY <1>4, <2>2
  <2> QED
    BY <2>1, <2>3
<1>6. m \in 1..L /\ bd[m] < size
  BY <1>4
<1> HIDE DEF m
<1>7. Cardinality(S) = m
  <2>1. m \in Int /\ ~(1 > m) /\ (m - 1) + 1 = m
    BY <1>1, <1>6
  <2>2. Cardinality(1..m) = m
    BY <2>1, FS_Interval
  <2> HIDE DEF S
  <2> QED
    BY <1>5, <2>2
<1>8. clipped = [i \in 1..m |-> Minimum(list[i], size - bd[i])]
  <2>1. S = {i \in DOMAIN list : bd[i] < size}
    OBVIOUS
  <2> HIDE DEF S
  <2> QED
    BY <1>7, <2>1 DEF Clipped, bd
<1>9. ASSUME NEW i \in 1..m
      PROVE  /\ Minimum(list[i], size - bd[i]) \in Positive
             /\ i < m => Minimum(list[i], size - bd[i]) = list[i]
             /\ Minimum(list[i], size - bd[i]) <= size - bd[i]
  <2>1. i \in 1..L /\ i \in 1..(L + 1) /\ i + 1 \in 1..(L + 1)
    BY <1>1, <1>6
  <2>2. bd[i] \in Nat /\ bd[i] < size /\ bd[i + 1] = bd[i] + list[i]
    BY <1>2, <1>5, <2>1
  <2>3. i < m => bd[i + 1] < size
    <3>1. i < m => i + 1 \in 1..m
      BY <1>6
    <3> QED
      BY <1>5, <3>1
  <2>4. list[i] \in Nat /\ list[i] >= 1
    BY <1>1, <2>1
  <2> DEFINE a == list[i]  b == bd[i]
  <2>5. a \in Nat /\ a >= 1 /\ b \in Nat /\ b < size /\ (i < m => b + a < size)
    BY <2>2, <2>3, <2>4
  <2> HIDE DEF a, b
  <2>6. /\ Minimum(a, size - b) \in Nat /\ Minimum(a, size - b) >= 1
        /\ i < m => Minimum(a, size - b) = a
        /\ Minimum(a, size - b) <= size - b
    BY <1>1, <2>5 DEF Minimum
  <2> QED
    BY <2>6 DEF a, b, Positive
<1> HIDE DEF clipped
<1>10. /\ clipped \in Seq(Positive) /\ Len(clipped) = m
       /\ \A i \in 1..m : clipped[i] = Minimum(list[i], size - bd[i])
  <2>1. m \in Nat
    BY <1>6
  <2>2. \A i \in 1..m : Minimum(list[i], size - bd[i]) \in Positive
    BY <1>9
  <2> QED
    BY <1>8, <2>1, <2>2
<1>11. clipped \in Seq(Int)
  BY <1>10 DEF Positive
<1>12. Boundaries(clipped)[m] = bd[m]
  <2>1. /\ m - 1 \in Nat /\ m - 1 <= Len(clipped) /\ m - 1 <= Len(list)
        /\ m \in 1..((m - 1) + 1)
    BY <1>1, <1>6, <1>10
  <2>2. \A i \in 1..(m - 1) : clipped[i] = list[i]
    <3>1. \A i \in 1..(m - 1) : i \in 1..m /\ i < m
      BY <1>6
    <3> QED
      BY <1>9, <1>10, <3>1
  <2>3. \A i \in 1..((m - 1) + 1) : Boundaries(clipped)[i] = Boundaries(list)[i]
    BY <1>1, <1>11, <2>1, <2>2, BoundariesPrefix
  <2> QED
    BY <2>1, <2>3 DEF bd
<1>13. Boundaries(clipped)[m + 1] = Boundaries(clipped)[m] + clipped[m]
  <2>1. m \in 1..Len(clipped)
    BY <1>6, <1>10
  <2> QED
    BY <1>11, <2>1, BoundariesMeans
<1>14. clipped[m] <= size - bd[m] /\ clipped[m] \in Nat
  <2>1. m \in 1..m
    BY <1>6
  <2> QED
    BY <1>9, <1>10, <2>1 DEF Positive
<1>15. bd[m] \in Nat
  <2>1. m \in 1..(L + 1)
    BY <1>1, <1>6
  <2> QED
    BY <1>2, <2>1
<1>16. \A i \in 1..m : clipped[i] <= list[i] /\ (i < m => clipped[i] = list[i])
  <2> TAKE i \in 1..m
  <2>1. i \in 1..L /\ i \in 1..(L + 1)
    BY <1>1, <1>6
  <2>2. list[i] \in Nat /\ bd[i] \in Nat
    BY <1>1, <1>2, <2>1
  <2> QED
    BY <1>1, <1>9, <1>10, <2>2 DEF Minimum
<1>17. m < L \/ clipped[m] # list[m] => clipped[m] = size - bd[m]
  <2>1. m \in 1..m /\ m \in 1..L /\ list[m] \in Nat /\ clipped[m] = Minimum(list[m], size - bd[m])
    BY <1>1, <1>6, <1>10
  <2>2. ASSUME m < L PROVE bd[m] + list[m] >= size
    <3>1. m + 1 \in 1..L /\ m + 1 \in 1..(L + 1) /\ m + 1 \notin 1..m
      BY <1>1, <1>6, <2>2
    <3>2. m + 1 \notin S
      BY <1>5, <3>1
    <3>3. bd[m + 1] \in Nat /\ ~(bd[m + 1] < size)
      BY <1>2, <3>1, <3>2
    <3> QED
      BY <1>1, <1>2, <2>1, <3>3
  <2> DEFINE a == list[m]  b == bd[m]
  <2>3. a \in Nat /\ b \in Nat /\ (m < L => b + a >= size) /\ clipped[m] = Minimum(a, size - b)
    BY <1>15, <2>1, <2>2
  <2> HIDE DEF a, b
  <2>4. m < L \/ clipped[m] # a => clipped[m] = size - b
    BY <1>1, <2>3 DEF Minimum
  <2> QED
    BY <2>4 DEF a, b
<1> QED
  BY <1>1, <1>6, <1>10, <1>12, <1>13, <1>14, <1>15, <1>16, <1>17 DEF clipped

-----------------------------------------------------------------------------
(* The parameters of the configured slices.                                 *)

\* The first and the last CTU of a slice are corners of a rectangle in the picture.
IsRectangle(s) ==
  /\ s.first \in Nat /\ s.last \in Nat
  /\ CtuX(pic, s.first) \in 0..(pic.width - 1) /\ CtuX(pic, s.last) \in 0..(pic.width - 1)
  /\ CtuY(pic, s.first) \in 0..(pic.height - 1) /\ CtuY(pic, s.last) \in 0..(pic.height - 1)
  /\ CtuX(pic, s.first) <= CtuX(pic, s.last) /\ CtuY(pic, s.first) <= CtuY(pic, s.last)

Rectangle == {s \in [first : Nat, last : Nat] : IsRectangle(s)}

\* A rectangle that is not empty is a configured slice.
LEMMA SliceOfMeans ==
  ASSUME IsTiled(pic), NEW x \in 0..pic.width, NEW x2 \in 0..pic.width, x < x2,
         NEW y \in 0..pic.height, NEW y2 \in 0..pic.height, y < y2
  PROVE  SliceOf(x, x2, y, y2) \in Rectangle
<1>a. pic.width \in Nat /\ pic.height \in Nat
  BY DEF IsTiled, Positive
<1>1. /\ pic.width \in Nat /\ pic.height \in Nat
      /\ x \in 0..(pic.width - 1) /\ x2 - 1 \in 0..(pic.width - 1)
      /\ y \in 0..(pic.height - 1) /\ y2 - 1 \in 0..(pic.height - 1)
      /\ y \in Nat /\ y2 - 1 \in Nat /\ x <= x2 - 1 /\ y <= y2 - 1
  BY <1>a
<1> DEFINE s == SliceOf(x, x2, y, y2)
<1>2. /\ s.first = y * pic.width + x
      /\ s.last = (y2 - 1) * pic.width + (x2 - 1)
      /\ s = [first |-> s.first, last |-> s.last]
  <2> DEFINE u == (y2 - 1) * pic.width
  <2>1. u \in Int /\ s.last = u + x2 - 1
    BY <1>1 DEF SliceOf
  <2>2. u + x2 - 1 = u + (x2 - 1)
    BY <1>1, <2>1
  <2>3. s.last = u + (x2 - 1)
    BY <2>1, <2>2
  <2> QED
    BY <2>3 DEF SliceOf
<1> HIDE DEF s
<1>b. ASSUME NEW u \in 0..(pic.width - 1), NEW v \in Nat, NEW c, c = v * pic.width + u
      PROVE  c \in Nat /\ CtuX(pic, c) = u /\ CtuY(pic, c) = v
  BY <1>b, Coordinates
<1>3. s.first \in Nat /\ CtuX(pic, s.first) = x /\ CtuY(pic, s.first) = y
  BY <1>1, <1>2, <1>b
<1>4. s.last \in Nat /\ CtuX(pic, s.last) = x2 - 1 /\ CtuY(pic, s.last) = y2 - 1
  BY <1>1, <1>2, <1>b
<1>5. s \in [first : Nat, last : Nat]
  BY <1>2, <1>3, <1>4
<1>6. s \in Rectangle
  BY <1>1, <1>3, <1>4, <1>5 DEF Rectangle, IsRectangle
<1> QED
  BY <1>6 DEF s

\* The parameters of configured slices are slice parameters.
LEMMA ConfiguredMeans ==
  ASSUME IsTiled(pic), slices \in Seq(Rectangle)
  PROVE  Configured.rects \in Seq(RectSlice) /\ DOMAIN Configured.rects = 1..Len(slices)
<1> DEFINE n == Len(slices)
           startCol(i) == CtuToTileCol(pic, CtuX(pic, slices[i].first))
           startRow(i) == CtuToTileRow(pic, CtuY(pic, slices[i].first))
           width(i) == CtuToTileCol(pic, CtuX(pic, slices[i].last)) - startCol(i) + 1
           height(i) == CtuToTileRow(pic, CtuY(pic, slices[i].last)) - startRow(i) + 1
           tile(i) == startRow(i) * NumTileCols(pic) + startCol(i)
           inTile(i) == width(i) = 1 /\ height(i) = 1
           sameTile(i) == i > 1 /\ inTile(i) /\ inTile(i - 1) /\ tile(i) = tile(i - 1)
           counts(i) == {j \in 1..(n - i + 1) : \A k \in 1..(j - 1) : sameTile(i + k)}
           count(i) == Max(counts(i))
           inside(i) == IF inTile(i) /\ ~sameTile(i) THEN count(i) ELSE 0
           rows(i) == IF inTile(i) THEN CtuY(pic, slices[i].last) - CtuY(pic, slices[i].first) + 1 ELSE 0
           rects == [i \in 1..n |->
                      [tileIdx |-> tile(i), width |-> width(i), height |-> height(i),
                       slicesInTile |-> inside(i), ctuHeight |-> rows(i)]]
<1>1. Configured.rects = rects
  BY DEF Configured
<1>2. n \in Nat /\ \A i \in 1..n : slices[i] \in Rectangle
  OBVIOUS
<1>3. ASSUME NEW i \in 1..n
      PROVE  tile(i) \in Nat /\ width(i) \in Nat /\ height(i) \in Nat /\ rows(i) \in Nat
  <2> DEFINE first == slices[i].first  last == slices[i].last
  <2>1. IsRectangle(slices[i])
    BY <1>2 DEF Rectangle
  <2>2. /\ CtuX(pic, first) \in 0..(pic.width - 1) /\ CtuX(pic, last) \in 0..(pic.width - 1)
        /\ CtuY(pic, first) \in 0..(pic.height - 1) /\ CtuY(pic, last) \in 0..(pic.height - 1)
        /\ CtuX(pic, first) <= CtuX(pic, last) /\ CtuY(pic, first) <= CtuY(pic, last)
    BY <2>1 DEF IsRectangle
  <2> DEFINE a == CtuToTileCol(pic, CtuX(pic, first))  b == CtuToTileCol(pic, CtuX(pic, last))
             c == CtuToTileRow(pic, CtuY(pic, first))  d == CtuToTileRow(pic, CtuY(pic, last))
  <2>3. a <= b /\ c <= d
    BY <2>2, TilesMonotone
  <2>4. /\ NumTileCols(pic) \in Nat /\ NumTileRows(pic) \in Nat
        /\ a \in 0..(NumTileCols(pic) - 1) /\ b \in 0..(NumTileCols(pic) - 1)
        /\ c \in 0..(NumTileRows(pic) - 1) /\ d \in 0..(NumTileRows(pic) - 1)
    BY <2>2, TileColumns, TileRows
  <2>5. a \in Nat /\ b \in Nat /\ c \in Nat /\ d \in Nat
    BY <2>4
  <2>6. width(i) = b - a + 1 /\ height(i) = d - c + 1 /\ tile(i) = c * NumTileCols(pic) + a
    OBVIOUS
  <2> DEFINE e == CtuY(pic, first)  f == CtuY(pic, last)
  <2>7. rows(i) = (IF inTile(i) THEN f - e + 1 ELSE 0) /\ e \in Int /\ f \in Int /\ e <= f
    BY <2>2
  <2>8. rows(i) \in Nat
    <3> HIDE DEF rows, e, f, inTile
    <3> QED
      BY <2>7
  <2> HIDE DEF a, b, c, d, rows, width, height, tile
  <2>9. c * NumTileCols(pic) \in Nat
    BY <2>4, <2>5
  <2>10. c * NumTileCols(pic) + a \in Nat
    BY <2>5, <2>9
  <2>11. b - a + 1 \in Nat /\ d - c + 1 \in Nat
    BY <2>3, <2>5
  <2> QED
    BY <2>6, <2>8, <2>10, <2>11
<1>4. ASSUME NEW i \in 1..n PROVE inside(i) \in Nat
  <2>1. counts(i) \in SUBSET (0..n)
    BY <1>2
  <2>2. 1 \in counts(i)
    <3>1. 1 \in 1..(n - i + 1) /\ 1..(1 - 1) = {}
      BY <1>2
    <3> HIDE DEF sameTile
    <3> QED
      BY <3>1
  <2> HIDE DEF counts, sameTile, inTile
  <2>3. count(i) \in 0..n
    BY <1>2, <2>1, <2>2, GreatestNatural
  <2> HIDE DEF count
  <2> QED
    BY <2>3
<1> HIDE DEF tile, width, height, inside, rows
<1>5. \A i \in 1..n : rects[i] \in RectSlice
  BY <1>3, <1>4 DEF RectSlice
<1>6. rects = [i \in 1..n |-> rects[i]]
  OBVIOUS
<1>7. n = Len(slices)
  OBVIOUS
<1> HIDE DEF rects, n
<1> QED
  BY <1>1, <1>2, <1>5, <1>6, <1>7

-----------------------------------------------------------------------------
(* The maps in use go through rows of tiles.                                *)

MapInOrder(p, map) == \A s \in DOMAIN map : InOrder(p, map[s])

\* The tiles divide the pictures, the configured slices are rectangles in them,
\* and the lists of the slice maps are in order.
MapsInOrder ==
  /\ IsTiled(pic)
  /\ slices \in Seq(Rectangle) /\ "map" \in DOMAIN enc
  /\ stage \in {"write", "read", "headers", "done"} => MapInOrder(pic, enc.map)
  /\ phase # "none" => IsTiled(layout.pic) /\ MapInOrder(layout.pic, layout.map)

\* The tiles of every configuration cover the picture, however long its lists are.
LEMMA PicturesAreTiled == Init => IsTiled(pic)
<1> SUFFICES ASSUME Init PROVE IsTiled(pic)
  OBVIOUS
<1>1. PICK size \in Sizes, cols \in TileLists, rows \in TileLists :
        pic = TiledPicture(Explicit(cols, size.width), Explicit(rows, size.height),
                           size.width, size.height)
  BY DEF Init
<1>2. /\ cols \in Seq(Positive) /\ cols # << >> /\ rows \in Seq(Positive) /\ rows # << >>
      /\ size.width \in Positive /\ size.height \in Positive
  BY SizesAssumption, TileListsAssumption DEF Positive
<1>3. ASSUME NEW list \in Seq(Positive), list # << >>, NEW s \in Positive
      PROVE  LET tiles == InitTiles(Explicit(list, s), s)
             IN tiles \in Seq(Positive) /\ Boundaries(tiles)[Len(tiles) + 1] = s
  <2>1. Trimmed(list) \in Seq(Positive) /\ Trimmed(list) # << >>
    BY <1>3, TrimmedMeans
  <2>2. LET clipped == Clipped(Trimmed(list), s)
        IN /\ clipped \in Seq(Positive) /\ clipped # << >>
           /\ Boundaries(clipped)[Len(clipped) + 1] <= s
    BY <2>1, ClippedMeans
  <2> QED
    BY <2>2, InitTilesMeans DEF Explicit
<1>4. /\ pic.width = size.width /\ pic.height = size.height
      /\ pic.cols = InitTiles(Explicit(cols, size.width), size.width)
      /\ pic.rows = InitTiles(Explicit(rows, size.height), size.height)
  BY <1>1 DEF TiledPicture
<1>5. pic.cols \in Seq(Positive) /\ Boundaries(pic.cols)[Len(pic.cols) + 1] = pic.width
  BY <1>2, <1>3, <1>4
<1>6. pic.rows \in Seq(Positive) /\ Boundaries(pic.rows)[Len(pic.rows) + 1] = pic.height
  BY <1>2, <1>3, <1>4
<1> QED
  BY <1>2, <1>4, <1>5, <1>6 DEF IsTiled

\* A slice of whole tiles is a rectangle of the picture.
LEMMA AddTilesMeans ==
  ASSUME MapsInOrder, AddTiles
  PROVE  slices' \in Seq(Rectangle)
<1>1. IsTiled(pic) /\ slices \in Seq(Rectangle)
  BY DEF MapsInOrder
<1>2. PICK x \in 0..(NumTileCols(pic) - 1), y \in 0..(NumTileRows(pic) - 1) :
      \E x2 \in (x + 1)..NumTileCols(pic), y2 \in (y + 1)..NumTileRows(pic) :
        slices' = Append(slices, SliceOf(TileColumnBd(pic, x), TileColumnBd(pic, x2),
                                         TileRowBd(pic, y), TileRowBd(pic, y2)))
  BY DEF AddTiles
<1>3. PICK x2 \in (x + 1)..NumTileCols(pic), y2 \in (y + 1)..NumTileRows(pic) :
        slices' = Append(slices, SliceOf(TileColumnBd(pic, x), TileColumnBd(pic, x2),
                                         TileRowBd(pic, y), TileRowBd(pic, y2)))
  BY <1>2
<1>4. NumTileCols(pic) \in Nat /\ NumTileRows(pic) \in Nat
  BY <1>1, TileColumns, TileRows
<1>5. /\ x \in 0..NumTileCols(pic) /\ x2 \in 0..NumTileCols(pic) /\ x < x2
      /\ y \in 0..NumTileRows(pic) /\ y2 \in 0..NumTileRows(pic) /\ y < y2
  BY <1>4
<1>6. /\ TileColumnBd(pic, x) \in 0..pic.width /\ TileColumnBd(pic, x2) \in 0..pic.width
      /\ TileColumnBd(pic, x) < TileColumnBd(pic, x2)
  BY <1>1, <1>5, TileColumns
<1>7. /\ TileRowBd(pic, y) \in 0..pic.height /\ TileRowBd(pic, y2) \in 0..pic.height
      /\ TileRowBd(pic, y) < TileRowBd(pic, y2)
  BY <1>1, <1>5, TileRows
<1>8. SliceOf(TileColumnBd(pic, x), TileColumnBd(pic, x2), TileRowBd(pic, y), TileRowBd(pic, y2))
        \in Rectangle
  BY <1>1, <1>6, <1>7, SliceOfMeans
<1> QED
  BY <1>1, <1>3, <1>8

\* So are the slices of a tile.
LEMMA SplitTileMeans ==
  ASSUME MapsInOrder, SplitTile
  PROVE  slices' \in Seq(Rectangle)
<1>1. IsTiled(pic) /\ slices \in Seq(Rectangle)
  BY DEF MapsInOrder
<1> DEFINE Bd(y, heights) ==
             [k \in 1..(Len(heights) + 1) |-> TileRowBd(pic, y) + Boundaries(heights)[k]]
           Strips(x, y, heights) ==
             [k \in 1..Len(heights) |->
               SliceOf(TileColumnBd(pic, x), TileColumnBd(pic, x + 1),
                       Bd(y, heights)[k], Bd(y, heights)[k + 1])]
<1>2. PICK x \in 0..(NumTileCols(pic) - 1), y \in 0..(NumTileRows(pic) - 1) :
      \E heights \in SeqOf(1..pic.rows[y + 1], pic.rows[y + 1]) :
        /\ Bd(y, heights)[Len(heights) + 1] = TileRowBd(pic, y + 1)
        /\ slices' = slices \o Strips(x, y, heights)
  BY DEF SplitTile
<1>3. PICK heights \in SeqOf(1..pic.rows[y + 1], pic.rows[y + 1]) :
        /\ Bd(y, heights)[Len(heights) + 1] = TileRowBd(pic, y + 1)
        /\ slices' = slices \o Strips(x, y, heights)
  BY <1>2
<1> DEFINE n == Len(heights)
<1>4. heights \in Seq(Positive) /\ n \in Nat
  <2>1. PICK m \in 0..pic.rows[y + 1] : heights \in [1..m -> 1..pic.rows[y + 1]]
    BY DEF SeqOf
  <2>2. pic.rows[y + 1] \in Nat
    <3>1. pic.rows \in Seq(Positive) /\ y + 1 \in 1..Len(pic.rows)
      BY <1>1, TileRows DEF IsTiled, NumTileRows
    <3> QED
      BY <3>1 DEF Positive
  <2>3. m \in Nat /\ \A k \in 1..m : heights[k] \in Positive
    BY <2>1, <2>2 DEF Positive
  <2>4. heights = [k \in 1..m |-> heights[k]]
    BY <2>1
  <2> QED
    BY <2>3, <2>4
<1>5. /\ Boundaries(heights) \in [1..(n + 1) -> Nat]
      /\ \A i, j \in 1..(n + 1) : i < j => Boundaries(heights)[i] < Boundaries(heights)[j]
  BY <1>4, BoundariesIncrease
<1>6. /\ TileRowBd(pic, y) \in 0..pic.height /\ TileRowBd(pic, y + 1) \in 0..pic.height
      /\ pic.height \in Nat
  <2>1. NumTileRows(pic) \in Nat /\ y \in 0..NumTileRows(pic) /\ y + 1 \in 0..NumTileRows(pic)
    BY <1>1, TileRows
  <2> QED
    BY <1>1, <2>1, TileRows
<1>7. /\ TileColumnBd(pic, x) \in 0..pic.width /\ TileColumnBd(pic, x + 1) \in 0..pic.width
      /\ TileColumnBd(pic, x) < TileColumnBd(pic, x + 1)
  <2>1. /\ NumTileCols(pic) \in Nat /\ x \in 0..NumTileCols(pic) /\ x + 1 \in 0..NumTileCols(pic)
        /\ x < x + 1
    BY <1>1, TileColumns
  <2> QED
    BY <1>1, <2>1, TileColumns
<1> DEFINE bd == Bd(y, heights)
<1>8. ASSUME NEW k \in 1..n
      PROVE  bd[k] \in 0..pic.height /\ bd[k + 1] \in 0..pic.height /\ bd[k] < bd[k + 1]
  <2> DEFINE B == Boundaries(heights)  top == TileRowBd(pic, y)
  <2>1. k \in 1..(n + 1) /\ k + 1 \in 1..(n + 1) /\ n + 1 \in 1..(n + 1) /\ k < k + 1
    BY <1>4
  <2>2. bd[k] = top + B[k] /\ bd[k + 1] = top + B[k + 1] /\ top + B[n + 1] = TileRowBd(pic, y + 1)
    BY <1>3, <2>1
  <2>3. /\ B[k] \in Nat /\ B[k + 1] \in Nat /\ B[n + 1] \in Nat /\ B[k] < B[k + 1]
        /\ (k + 1 < n + 1 => B[k + 1] < B[n + 1])
    BY <1>5, <2>1
  <2>4. B[k + 1] <= B[n + 1]
    BY <1>4, <2>1, <2>3
  <2> HIDE DEF B, bd
  <2>5. top \in Nat /\ top + B[n + 1] <= pic.height
    BY <1>6, <2>2
  <2> DEFINE u == B[k]  v == B[k + 1]  w == B[n + 1]  height == pic.height
  <2>6. /\ bd[k] = top + u /\ bd[k + 1] = top + v /\ top \in Nat /\ u \in Nat /\ v \in Nat
        /\ w \in Nat /\ u < v /\ v <= w /\ top + w <= height /\ height \in Nat
    BY <1>6, <2>2, <2>3, <2>4, <2>5
  <2> HIDE DEF top, u, v, w
  <2>7. /\ bd[k] \in 0..height /\ bd[k + 1] \in 0..height /\ bd[k] < bd[k + 1]
    <3> HIDE DEF height
    <3> QED
      BY <2>6
  <2> QED
    BY <2>7
<1> HIDE DEF bd
<1>9. \A k \in 1..n : SliceOf(TileColumnBd(pic, x), TileColumnBd(pic, x + 1), bd[k], bd[k + 1])
                        \in Rectangle
  BY <1>1, <1>7, <1>8, SliceOfMeans
<1>10. Strips(x, y, heights) \in Seq(Rectangle)
  <2>1. Strips(x, y, heights) =
          [k \in 1..n |-> SliceOf(TileColumnBd(pic, x), TileColumnBd(pic, x + 1), bd[k], bd[k + 1])]
    BY DEF bd
  <2> HIDE DEF Strips, n
  <2> QED
    BY <1>4, <1>9, <2>1
<1> HIDE DEF Strips, Bd
<1>11. slices' = slices \o Strips(x, y, heights)
  BY <1>3
<1> QED
  BY <1>1, <1>10, <1>11

\* The raster-scan slices of every configuration have all the tiles.
LEMMA RasterSizesMean ==
  ASSUME IsTiled(pic), NEW list \in Seq(Positive), list # << >>
  PROVE  /\ RasterSizes(list) \in Seq(Positive)
         /\ Boundaries(RasterSizes(list))[Len(RasterSizes(list)) + 1] = NumTiles(pic)
<1>1. NumTiles(pic) \in Positive
  <2>1. NumTileCols(pic) \in Positive /\ NumTileRows(pic) \in Positive
    BY TileColumns, TileRows DEF Positive
  <2> DEFINE a == NumTileCols(pic)  b == NumTileRows(pic)
  <2>2. a \in Nat /\ b \in Nat /\ a >= 1 /\ b >= 1
    BY <2>1 DEF Positive
  <2>3. NumTiles(pic) = a * b
    BY DEF NumTiles
  <2> HIDE DEF a, b
  <2>4. a * b \in Nat /\ a * b >= 1
    BY <2>2
  <2> QED
    BY <2>3, <2>4 DEF Positive
<1>2. LET clipped == Clipped(list, NumTiles(pic))
      IN /\ clipped \in Seq(Positive) /\ clipped # << >>
         /\ Boundaries(clipped)[Len(clipped) + 1] <= NumTiles(pic)
  BY <1>1, ClippedMeans
<1> QED
  BY <1>1, <1>2, InitTilesMeans DEF RasterSizes

\* Whatever the partition does, its maps are in order.
LEMMA PartitionInOrder ==
  ASSUME MapsInOrder, Partition
  PROVE  MapsInOrder'
<1>1. /\ Next /\ UNCHANGED dataVars /\ IsTiled(pic) /\ slices \in Seq(Rectangle)
      /\ "map" \in DOMAIN enc
  BY DEF Partition, MapsInOrder
<1>2. pic' = pic
  <2>1. CASE AddTiles \/ SplitTile
    BY <2>1 DEF AddTiles, SplitTile
  <2>2. CASE Configure \/ ConfigureRaster
    BY <2>2 DEF Configure, ConfigureRaster
  <2>3. CASE WriteSlice \/ WriteEnd \/ ReadSlice \/ ReadEnd \/ ReadHeader
    BY <2>3 DEF WriteSlice, WriteEnd, ReadSlice, ReadEnd, ReadHeader
  <2> QED
    BY <1>1, <2>1, <2>2, <2>3 DEF Next
<1>3. (phase # "none" => IsTiled(layout.pic) /\ MapInOrder(layout.pic, layout.map))'
  BY <1>1 DEF dataVars, MapsInOrder
<1>4. slices' \in Seq(Rectangle) /\ Rectangle' = Rectangle
  <2>1. Rectangle' = Rectangle
    BY <1>2 DEF Rectangle, IsRectangle
  <2>2. CASE AddTiles
    BY <2>1, <2>2, AddTilesMeans
  <2>3. CASE SplitTile
    BY <2>1, <2>3, SplitTileMeans
  <2>4. CASE ~AddTiles /\ ~SplitTile
    <3>1. slices' = slices
      <4>1. CASE Configure \/ ConfigureRaster
        BY <4>1 DEF Configure, ConfigureRaster
      <4>2. CASE WriteSlice \/ WriteEnd \/ ReadSlice \/ ReadEnd \/ ReadHeader
        BY <4>2 DEF WriteSlice, WriteEnd, ReadSlice, ReadEnd, ReadHeader
      <4> QED
        BY <1>1, <2>4, <4>1, <4>2 DEF Next
    <3> QED
      BY <1>1, <2>1, <3>1
  <2> QED
    BY <2>1, <2>2, <2>3, <2>4
<1>5. (stage \in {"write", "read", "headers", "done"} => MapInOrder(pic, enc.map))'
  <2>1. CASE AddTiles \/ SplitTile
    <3>1. stage = "slices" /\ stage' = stage
      BY <2>1 DEF AddTiles, SplitTile
    <3> QED
      BY <3>1
  <2>2. CASE Configure
    <3>1. Configured.rects \in Seq(RectSlice)
      BY <1>1, ConfiguredMeans
    <3>2. enc' = [Configured EXCEPT !.map = RectSliceMap(pic, Configured.rects)]
          /\ stage' = IF IsRectSignalling(pic, Configured.rects) THEN "write" ELSE "error"
      BY <2>2 DEF Configure
    <3>3. enc'.map = RectSliceMap(pic, Configured.rects)
      BY <3>2 DEF Configured
    <3>4. DOMAIN RectSliceMap(pic, Configured.rects) = DOMAIN Configured.rects
      BY DEF RectSliceMap
    <3>5. stage' \in {"write", "read", "headers", "done"} => IsSignalling(pic, Configured.rects)
      BY <3>2 DEF IsRectSignalling
    <3>6. IsSignalling(pic, Configured.rects) =>
            MapInOrder(pic, RectSliceMap(pic, Configured.rects))
      BY <1>1, <3>1, <3>4, RectInOrder DEF MapInOrder
    <3> QED
      BY <1>2, <3>3, <3>5, <3>6
  <2>3. CASE ConfigureRaster
    <3>1. PICK list \in RasterLists : enc' = [enc EXCEPT !.map = RasterSliceMap(pic, RasterSizes(list))]
      BY <2>3 DEF ConfigureRaster
    <3>2. list \in Seq(Positive) /\ list # << >>
      BY RasterListsAssumption DEF Positive
    <3> DEFINE sizes == RasterSizes(list)
    <3>3. sizes \in Seq(Positive) /\ Boundaries(sizes)[Len(sizes) + 1] = NumTiles(pic)
      BY <1>1, <3>2, RasterSizesMean
    <3> HIDE DEF sizes
    <3>4. DOMAIN RasterSliceMap(pic, sizes) = DOMAIN sizes
      BY DEF RasterSliceMap
    <3>5. MapInOrder(pic, RasterSliceMap(pic, sizes))
      BY <1>1, <3>3, <3>4, RasterInOrder DEF MapInOrder
    <3>6. enc'.map = RasterSliceMap(pic, sizes)
      BY <1>1, <3>1 DEF sizes
    <3> QED
      BY <1>2, <3>5, <3>6
  <2>4. CASE WriteSlice \/ WriteEnd
    BY <1>2, <2>4 DEF WriteSlice, WriteEnd, MapsInOrder
  <2>5. CASE ReadSlice \/ ReadEnd
    BY <1>2, <2>5 DEF ReadSlice, ReadEnd, MapsInOrder
  <2>6. CASE ReadHeader
    BY <1>2, <2>6 DEF ReadHeader, MapsInOrder
  <2> QED
    BY <1>1, <2>1, <2>2, <2>3, <2>4, <2>5, <2>6 DEF Next
<1>6. IsTiled(pic)'
  BY <1>1, <1>2
<1>7. ("map" \in DOMAIN enc)'
  <2>1. CASE AddTiles \/ SplitTile
    BY <1>1, <2>1 DEF AddTiles, SplitTile
  <2>2. CASE Configure
    BY <2>2 DEF Configure, Configured
  <2>3. CASE ConfigureRaster
    BY <1>1, <2>3 DEF ConfigureRaster
  <2>4. CASE WriteSlice \/ WriteEnd \/ ReadSlice \/ ReadEnd \/ ReadHeader
    BY <1>1, <2>4 DEF WriteSlice, WriteEnd, ReadSlice, ReadEnd, ReadHeader
  <2> QED
    BY <1>1, <2>1, <2>2, <2>3, <2>4 DEF Next
<1> QED
  BY <1>3, <1>4, <1>5, <1>6, <1>7 DEF MapsInOrder

\* Nor do the loops change the maps.
LEMMA MapsStayInOrder ==
  ASSUME MapsInOrder, [PictureNext]_<<vars, dataVars>>
  PROVE  MapsInOrder'
<1>1. CASE Partition
  BY <1>1, PartitionInOrder
<1>2. CASE Begin
  <2>1. /\ stage = "done" /\ dec.map = enc.map /\ stage' = "coding" /\ slices' = << >>
        /\ pic' = pic /\ layout' = [pic |-> pic, map |-> dec.map]
    BY <1>2 DEF Begin, Data!StartPicture
  <2>2. IsTiled(pic) /\ MapInOrder(pic, enc.map)
    BY <2>1 DEF MapsInOrder
  <2>3. IsTiled(layout'.pic) /\ MapInOrder(layout'.pic, layout'.map)
    BY <2>1, <2>2
  <2>4. slices' \in Seq(Rectangle') /\ "map" \in DOMAIN enc'
    BY <1>2, <2>1 DEF Begin
  <2> QED
    BY <2>1, <2>2, <2>3, <2>4 DEF MapsInOrder
<1>3. CASE EncodeCtu \/ WriteSliceData \/ DecodeCtu \/ NextSlice \/ UNCHANGED <<vars, dataVars>>
  <2>1. UNCHANGED vars /\ layout' = layout /\ (phase = "none" => phase' = "none")
    <3>1. CASE EncodeCtu
      BY <3>1 DEF EncodeCtu, Data!EncodeCtu
    <3>2. CASE WriteSliceData
      BY <3>2 DEF WriteSliceData, Data!WriteSlice
    <3>3. CASE DecodeCtu
      BY <3>3 DEF DecodeCtu, Data!DecodeCtu
    <3>4. CASE NextSlice
      BY <3>4 DEF NextSlice, Data!NextSlice
    <3>5. CASE UNCHANGED <<vars, dataVars>>
      BY <3>5 DEF dataVars
    <3> QED
      BY <1>3, <3>1, <3>2, <3>3, <3>4, <3>5
  <2>2. stage' = stage /\ pic' = pic /\ slices' = slices /\ enc' = enc
    BY <2>1 DEF vars
  <2>3. Rectangle' = Rectangle
    BY <2>2 DEF Rectangle, IsRectangle
  <2> QED
    BY <2>1, <2>2, <2>3 DEF MapsInOrder
<1> QED
  BY <1>1, <1>2, <1>3 DEF PictureNext

-----------------------------------------------------------------------------
(* Tiles as configured.                                                     *)

\* These tiles are as the list says: each of its sizes, the last one again and again
\* until the picture is covered, the last tile cut off.
Sized(tiles, list, size) ==
  /\ Boundaries(tiles)[Len(tiles) + 1] = size
  /\ \A i \in 1..(Len(tiles) - 1) : tiles[i] = list[Minimum(i, Len(list))]
  /\ tiles[Len(tiles)] <= list[Minimum(Len(tiles), Len(list))]

\* Leaving out sizes as implicit and cutting them off does not change the tiles.
LEMMA ExplicitMeans ==
  ASSUME NEW list \in Seq(Positive), list # << >>, NEW size \in Positive
  PROVE  Sized(InitTiles(Explicit(list, size), size), list, size)
<1> DEFINE L == Len(list)
           trimmed == Trimmed(list)  n == Len(trimmed)
           clipped == Clipped(trimmed, size)  m == Len(clipped)
           tiles == InitTiles(clipped, size)  k == Len(tiles)
<1>1. /\ trimmed \in Seq(Positive) /\ trimmed # << >> /\ n \in 1..L
      /\ \A i \in 1..n : trimmed[i] = list[i]
      /\ \A i \in n..L : list[i] = list[n]
  BY TrimmedMeans
<1> HIDE DEF trimmed
<1>2. /\ clipped \in Seq(Positive) /\ clipped # << >> /\ m \in 1..n
      /\ Boundaries(clipped)[m + 1] <= size
      /\ \A i \in 1..m : clipped[i] <= trimmed[i] /\ (i < m => clipped[i] = trimmed[i])
      /\ m < n \/ clipped[m] # trimmed[m] => Boundaries(clipped)[m + 1] = size
  BY <1>1, ClippedMeans
<1> HIDE DEF clipped
<1>3. /\ tiles \in Seq(Positive) /\ k >= m
      /\ Boundaries(tiles)[k + 1] = size
      /\ \A i \in 1..m : tiles[i] = clipped[i]
      /\ \A i \in (m + 1)..k : tiles[i] <= clipped[m] /\ (i < k => tiles[i] = clipped[m])
  BY <1>2, InitTilesMeans
<1> HIDE DEF tiles
<1>4. L \in Nat /\ n \in Nat /\ m \in Nat /\ k \in Nat /\ m >= 1
  <2>1. L \in Nat /\ n \in Nat /\ k \in Nat
    BY <1>1, <1>3
  <2> HIDE DEF m, n
  <2> QED
    BY <1>2, <2>1
<1>5. k > m => m = n /\ clipped[m] = trimmed[m]
  <2>1. SUFFICES ASSUME k > m, Boundaries(clipped)[m + 1] = size PROVE FALSE
    BY <1>2
  <2>a. \A s \in Seq(Positive) : s \in Seq(Int)
    BY DEF Positive
  <2>2. tiles \in Seq(Int) /\ clipped \in Seq(Int)
    BY <1>2, <1>3, <2>a
  <2>3. m + 1 \in 1..(m + 1) /\ m <= k
    BY <1>4, <2>1
  <2>b. m \in Nat /\ m <= Len(tiles) /\ m <= Len(clipped) /\ \A i \in 1..m : tiles[i] = clipped[i]
    BY <1>3, <1>4, <2>3
  <2>c. \A i \in 1..(m + 1) : Boundaries(tiles)[i] = Boundaries(clipped)[i]
    <3> HIDE DEF m
    <3> QED
      BY <2>2, <2>b, BoundariesPrefix
  <2>4. Boundaries(tiles)[m + 1] = Boundaries(clipped)[m + 1]
    BY <2>3, <2>c
  <2>5. m + 1 \in 1..(k + 1) /\ k + 1 \in 1..(k + 1) /\ m + 1 < k + 1
    BY <1>4, <2>1
  <2>6. Boundaries(tiles)[m + 1] < Boundaries(tiles)[k + 1]
    BY <1>3, <2>5, BoundariesIncrease
  <2> QED
    BY <1>3, <2>1, <2>4, <2>6 DEF Positive
<1>6. ASSUME NEW i \in 1..k
      PROVE  /\ tiles[i] <= list[Minimum(i, L)]
             /\ i < k => tiles[i] = list[Minimum(i, L)]
  <2>1. CASE i <= m
    <3>1. i \in 1..m /\ i \in 1..n /\ Minimum(i, L) = i
      BY <1>1, <1>2, <1>4, <2>1 DEF Minimum
    <3>2. tiles[i] = clipped[i] /\ trimmed[i] = list[i] /\ clipped[i] <= trimmed[i]
          /\ (i < m => clipped[i] = trimmed[i])
      BY <1>1, <1>2, <1>3, <3>1
    <3>3. i < k => clipped[i] = trimmed[i]
      <4>1. i < k => i < m \/ (i = m /\ k > m)
        BY <1>4, <2>1
      <4> QED
        BY <1>5, <3>2, <4>1
    <3> QED
      BY <3>1, <3>2, <3>3
  <2>2. CASE i > m
    <3>1. m = n /\ clipped[m] = trimmed[m] /\ i \in (m + 1)..k
      BY <1>4, <1>5, <2>2
    <3>2. trimmed[m] = list[n] /\ n \in n..L
      BY <1>1, <1>4, <3>1
    <3>3. Minimum(i, L) \in n..L
      BY <1>1, <1>4, <2>2, <3>1 DEF Minimum
    <3>4. list[Minimum(i, L)] = list[n]
      BY <1>1, <3>3
    <3> QED
      BY <1>3, <3>1, <3>2, <3>4
  <2> QED
    BY <1>4, <2>1, <2>2
<1>7. k \in 1..k /\ \A i \in 1..(k - 1) : i \in 1..k /\ i < k
  BY <1>3, <1>4
<1>8. Sized(tiles, list, size)
  <2> HIDE DEF k
  <2> QED
    BY <1>3, <1>6, <1>7 DEF Sized, k
<1> QED
  BY <1>8 DEF tiles, clipped, trimmed, Explicit

\* TilesAsConfigured: whatever the lists, the tiles of the parameter set are those
\* of the configuration, although the sizes that repeat are left out of it.
THEOREM TilesFollowLists == PictureSpec => []TilesAsConfigured
<1> DEFINE T == Sized(pic.cols, config.cols, pic.width) /\ Sized(pic.rows, config.rows, pic.height)
<1>1. TilesAsConfigured <=> (stage # "coding" => T)
  BY DEF TilesAsConfigured, Sized
<1>2. PictureInit => TilesAsConfigured
  <2> SUFFICES ASSUME Init PROVE T
    BY <1>1 DEF PictureInit
  <2>1. PICK size \in Sizes, cols \in TileLists, rows \in TileLists :
          /\ config = [cols |-> cols, rows |-> rows]
          /\ pic = TiledPicture(Explicit(cols, size.width), Explicit(rows, size.height),
                                size.width, size.height)
    BY DEF Init
  <2>2. /\ cols \in Seq(Positive) /\ cols # << >> /\ rows \in Seq(Positive) /\ rows # << >>
        /\ size.width \in Positive /\ size.height \in Positive
    BY SizesAssumption, TileListsAssumption DEF Positive
  <2>3. /\ pic.width = size.width /\ pic.height = size.height
        /\ pic.cols = InitTiles(Explicit(cols, size.width), size.width)
        /\ pic.rows = InitTiles(Explicit(rows, size.height), size.height)
        /\ config.cols = cols /\ config.rows = rows
    BY <2>1 DEF TiledPicture
  <2> QED
    BY <2>2, <2>3, ExplicitMeans
<1>3. TilesAsConfigured /\ [PictureNext]_<<vars, dataVars>> => TilesAsConfigured'
  <2> SUFFICES ASSUME TilesAsConfigured, [PictureNext]_<<vars, dataVars>>,
                      stage' # "coding"
               PROVE  stage # "coding" /\ pic' = pic /\ config' = config
    <3>1. TilesAsConfigured' <=> (stage' # "coding" => T')
      BY DEF TilesAsConfigured, Sized
    <3>2. pic' = pic /\ config' = config => (T' <=> T)
      OBVIOUS
    <3> QED
      BY <1>1, <3>1, <3>2
  <2>1. CASE Partition
    <3>1. Next
      BY <2>1 DEF Partition
    <3>2. CASE AddTiles \/ SplitTile
      BY <3>2 DEF AddTiles, SplitTile
    <3>3. CASE Configure \/ ConfigureRaster
      BY <3>3 DEF Configure, ConfigureRaster
    <3>4. CASE WriteSlice \/ WriteEnd \/ ReadSlice \/ ReadEnd \/ ReadHeader
      BY <3>4 DEF WriteSlice, WriteEnd, ReadSlice, ReadEnd, ReadHeader
    <3> QED
      BY <3>1, <3>2, <3>3, <3>4 DEF Next
  <2>2. CASE Begin
    BY <2>2 DEF Begin
  <2>3. CASE EncodeCtu \/ WriteSliceData \/ DecodeCtu \/ NextSlice \/ UNCHANGED <<vars, dataVars>>
    BY <2>3 DEF EncodeCtu, WriteSliceData, DecodeCtu, NextSlice, vars
  <2> QED
    BY <2>1, <2>2, <2>3 DEF PictureNext
<1> QED
  BY <1>2, <1>3, PTL DEF PictureSpec

-----------------------------------------------------------------------------
(* Sequences that grow at the end.                                          *)

\* An item more in the last of the sequences is one more at the end of all.
LEMMA FlattenAdd ==
  ASSUME NEW T, NEW seqs \in Seq(Seq(T)), Len(seqs) > 0, NEW t \in T
  PROVE  /\ [seqs EXCEPT ![Len(seqs)] = Append(@, t)] \in Seq(Seq(T))
         /\ Len([seqs EXCEPT ![Len(seqs)] = Append(@, t)]) = Len(seqs)
         /\ FlattenSeq(seqs) \in Seq(T)
         /\ FlattenSeq([seqs EXCEPT ![Len(seqs)] = Append(@, t)]) = Append(FlattenSeq(seqs), t)
<1> DEFINE n == Len(seqs)
           front == SubSeq(seqs, 1, n - 1)
           last == seqs[n]
           more == [seqs EXCEPT ![n] = Append(@, t)]
<1>1. /\ n \in Nat /\ n >= 1 /\ last \in Seq(T) /\ front \in Seq(Seq(T)) /\ Len(front) = n - 1
      /\ \A i \in 1..(n - 1) : front[i] = seqs[i]
  <2>1. n \in Nat /\ n >= 1 /\ \A i \in 1..n : seqs[i] \in Seq(T)
    OBVIOUS
  <2>2. front = [i \in 1..(n - 1) |-> seqs[i]]
    BY <2>1
  <2> HIDE DEF front
  <2>3. n - 1 \in Nat /\ \A i \in 1..(n - 1) : seqs[i] \in Seq(T)
    BY <2>1
  <2>4. front \in Seq(Seq(T)) /\ Len(front) = n - 1
    BY <2>2, <2>3
  <2> QED
    BY <2>1, <2>2, <2>4
<1>2. seqs = Append(front, last)
  OBVIOUS
<1>3. more \in Seq(Seq(T)) /\ Len(more) = n
  OBVIOUS
<1>4. more = Append(front, Append(last, t))
  <2> DEFINE a == Append(front, Append(last, t))
  <2>1. more[n] = Append(last, t) /\ \A i \in 1..(n - 1) : more[i] = seqs[i]
    BY <1>1
  <2>2. Append(last, t) \in Seq(T)
    BY <1>1
  <2> HIDE DEF n, front, last, more
  <2>3. /\ a \in Seq(Seq(T)) /\ Len(a) = n /\ a[n] = Append(last, t)
        /\ \A i \in 1..(n - 1) : a[i] = front[i]
    <3> DEFINE x == Append(last, t)
    <3> HIDE DEF x
    <3>1. x \in Seq(T)
      BY <2>2 DEF x
    <3>2. /\ Append(front, x) \in Seq(Seq(T)) /\ Len(Append(front, x)) = n
          /\ Append(front, x)[n] = x
          /\ \A i \in 1..(n - 1) : Append(front, x)[i] = front[i]
      BY <1>1, <3>1
    <3> QED
      BY <3>2 DEF x
  <2> HIDE DEF a
  <2>4. \A i \in 1..n : i = n \/ i \in 1..(n - 1)
    BY <1>1
  <2>5. \A i \in 1..n : a[i] = more[i]
    BY <1>1, <2>1, <2>3, <2>4
  <2>b. DOMAIN a = 1..n /\ DOMAIN more = 1..n
    BY <1>3, <2>3
  <2>c. a = [i \in DOMAIN a |-> a[i]] /\ more = [i \in DOMAIN more |-> more[i]]
    BY <1>3, <2>3
  <2>6. a = more
    BY <2>5, <2>b, <2>c
  <2> QED
    BY <2>6 DEF a
<1> HIDE DEF n, front, last, more
<1>5. Append(last, t) \in Seq(T)
  BY <1>1
<1>6. /\ FlattenSeq(front) \in Seq(T)
      /\ FlattenSeq(seqs) = FlattenSeq(front) \o last
      /\ FlattenSeq(more) = FlattenSeq(front) \o Append(last, t)
  BY <1>1, <1>2, <1>4, <1>5, FlattenAppend
<1> DEFINE a == FlattenSeq(front)
<1>7. a \in Seq(T) /\ last \in Seq(T)
  BY <1>1, <1>6
<1> HIDE DEF a
<1>8. a \o last \in Seq(T) /\ a \o Append(last, t) = Append(a \o last, t)
  BY <1>7
<1> QED
  BY <1>3, <1>6, <1>8 DEF a, more, n

\* A slice begins with no data.
LEMMA FlattenEmpty == FlattenSeq(<< << >> >>) = << >>
<1> DEFINE one == << << >> >>
<1>1. one \in Seq(Seq({})) /\ Len(one) = 1 /\ one[1] = << >>
  OBVIOUS
<1> HIDE DEF one
<1>2. \E f \in [1..Len(one) -> Seq({})] :
         /\ f[1] = one[1]
         /\ \A i \in 2..Len(one) : f[i] = f[i - 1] \o one[i]
         /\ FlattenSeq(one) = f[Len(one)]
  <2>1. Len(one) > 0
    BY <1>1
  <2> QED
    BY <1>1, <2>1, FlattenMeans
<1>3. FlattenSeq(one) = << >>
  BY <1>1, <1>2
<1> QED
  BY <1>3 DEF one

\* A size more is a boundary more.
LEMMA BoundariesAdd ==
  ASSUME NEW sizes \in Seq(Positive), NEW s \in Positive
  PROVE  /\ \A i \in 1..(Len(sizes) + 1) : Boundaries(Append(sizes, s))[i] = Boundaries(sizes)[i]
         /\ Boundaries(Append(sizes, s))[Len(sizes) + 2] = Boundaries(sizes)[Len(sizes) + 1] + s
<1> DEFINE n == Len(sizes)  more == Append(sizes, s)
<1>1. /\ n \in Nat /\ more \in Seq(Positive) /\ Len(more) = n + 1 /\ more[n + 1] = s
      /\ \A i \in 1..n : more[i] = sizes[i]
  OBVIOUS
<1> HIDE DEF more
<1>2. sizes \in Seq(Int) /\ more \in Seq(Int)
  BY <1>1 DEF Positive
<1> HIDE DEF n
<1>3. n = Len(sizes)
  BY DEF n
<1>4. \A i \in 1..(n + 1) : Boundaries(more)[i] = Boundaries(sizes)[i]
  <2>1. n \in Nat /\ n <= Len(sizes) /\ n <= Len(more)
    BY <1>1, <1>3
  <2> QED
    BY <1>1, <1>2, <2>1, BoundariesPrefix
<1>5. Boundaries(more)[(n + 1) + 1] = Boundaries(more)[n + 1] + more[n + 1]
  <2>1. n + 1 \in 1..Len(more)
    BY <1>1
  <2> QED
    BY <1>2, <2>1, BoundariesMeans
<1>6. n + 1 \in 1..(n + 1) /\ (n + 1) + 1 = n + 2
  BY <1>1
<1> QED
  BY <1>1, <1>3, <1>4, <1>5, <1>6 DEF more

\* The items from one on without the first of them.
LEMMA RestOfPart ==
  ASSUME NEW T, NEW s \in Seq(T), NEW m \in 1..Len(s), NEW n \in m..Len(s)
  PROVE  /\ SubSeq(s, m, n) # << >> /\ Head(SubSeq(s, m, n)) = s[m]
         /\ Tail(SubSeq(s, m, n)) = SubSeq(s, m + 1, n)
<1> DEFINE a == SubSeq(s, m, n)  b == SubSeq(s, m + 1, n)
<1>1. a \in Seq(T) /\ Len(a) = n - m + 1 /\ \A i \in 1..(n - m + 1) : a[i] = s[m + i - 1]
  OBVIOUS
<1>2. b \in Seq(T) /\ Len(b) = n - m /\ \A i \in 1..(n - m) : b[i] = s[m + i]
  OBVIOUS
<1> HIDE DEF a, b
<1>3. a # << >> /\ Head(a) = a[1] /\ a[1] = s[m]
  BY <1>1
<1>4. /\ Tail(a) \in Seq(T) /\ Len(Tail(a)) = n - m
      /\ \A i \in 1..(n - m) : Tail(a)[i] = a[i + 1]
  BY <1>1, <1>3
<1>5. \A i \in 1..(n - m) : Tail(a)[i] = b[i]
  <2> TAKE i \in 1..(n - m)
  <2>1. i + 1 \in 1..(n - m + 1) /\ m + (i + 1) - 1 = m + i
    OBVIOUS
  <2> QED
    BY <1>1, <1>2, <1>4, <2>1
<1>6. Tail(a) = b
  BY <1>2, <1>4, <1>5
<1> QED
  BY <1>3, <1>6 DEF a, b

-----------------------------------------------------------------------------
(* The two loops use the operators of the partition.                        *)

\* The two copies of the library's operators are the same.
LEMMA SameLibrary ==
  /\ \A S : Data!Cardinality(S) = Cardinality(S)
  /\ \A s : Data!FlattenSeq(s) = FlattenSeq(s)
<1>1. \A S : Data!Cardinality(S) = Cardinality(S)
  BY DEF Data!Cardinality, Cardinality
<1>2. \A s : Data!FlattenSeq(s) = FlattenSeq(s)
  BY DEF Data!FlattenSeq, FlattenSeq
<1> QED
  BY <1>1, <1>2

\* So are those of the operators on tiles.
LEMMA SameOperators ==
  /\ \A p, c : Data!CtuX(p, c) = CtuX(p, c) /\ Data!CtuY(p, c) = CtuY(p, c)
  /\ \A p, i : /\ Data!TileColumnBd(p, i) = TileColumnBd(p, i)
               /\ Data!TileRowBd(p, i) = TileRowBd(p, i)
               /\ Data!CtuToTileCol(p, i) = CtuToTileCol(p, i)
               /\ Data!CtuToTileRow(p, i) = CtuToTileRow(p, i)
  /\ \A p, c : /\ Data!CtuIsTileColBd(p, c) = CtuIsTileColBd(p, c)
               /\ Data!CtuIsTileRowBd(p, c) = CtuIsTileRowBd(p, c)
               /\ Data!TileIdx(p, c) = TileIdx(p, c)
  /\ \A s : Data!Boundaries(s) = Boundaries(s)
  /\ \A a, b : Data!Minimum(a, b) = Minimum(a, b)
<1>1. \A s : Data!Boundaries(s) = Boundaries(s)
  BY DEF Data!Boundaries, Boundaries
<1>2. \A p, c : Data!CtuX(p, c) = CtuX(p, c) /\ Data!CtuY(p, c) = CtuY(p, c)
  BY DEF Data!CtuX, CtuX, Data!CtuY, CtuY
<1>3. \A p, i : /\ Data!TileColumnBd(p, i) = TileColumnBd(p, i)
                /\ Data!TileRowBd(p, i) = TileRowBd(p, i)
  BY <1>1 DEF Data!TileColumnBd, TileColumnBd, Data!TileRowBd, TileRowBd
<1>4. \A p : Data!NumTileCols(p) = NumTileCols(p) /\ Data!NumTileRows(p) = NumTileRows(p)
  BY DEF Data!NumTileCols, NumTileCols, Data!NumTileRows, NumTileRows
<1>5. \A p, i : /\ Data!CtuToTileCol(p, i) = CtuToTileCol(p, i)
                /\ Data!CtuToTileRow(p, i) = CtuToTileRow(p, i)
  BY <1>3, <1>4 DEF Data!CtuToTileCol, CtuToTileCol, Data!CtuToTileRow, CtuToTileRow
<1>6. \A p, c : /\ Data!CtuIsTileColBd(p, c) = CtuIsTileColBd(p, c)
                /\ Data!CtuIsTileRowBd(p, c) = CtuIsTileRowBd(p, c)
                /\ Data!TileIdx(p, c) = TileIdx(p, c)
  BY <1>2, <1>3, <1>4, <1>5 DEF Data!CtuIsTileColBd, CtuIsTileColBd,
     Data!CtuIsTileRowBd, CtuIsTileRowBd, Data!TileIdx, TileIdx
<1>7. \A a, b : Data!Minimum(a, b) = Minimum(a, b)
  BY DEF Data!Minimum, Minimum
<1> QED
  BY <1>1, <1>2, <1>3, <1>5, <1>6, <1>7

\* CTU i of the slice in hand is the last one of a tile's part of it, or with
\* wavefronts of a tile's row.
List == layout.map[slice]
Ends(i) == AtRightEdge(layout.pic, At(i)) /\ (AtBottomEdge(layout.pic, At(i)) \/ sps.wpp)

\* The CTUs before number k after which another substream begins.
EndsBefore(k) == {i \in 1..(Len(List) - 1) : i < k /\ Ends(i)}

\* What is known of the slice in hand: its CTUs follow one another in the picture.
LEMMA ListInOrder ==
  ASSUME MapsInOrder, Looping, Shapes
  PROVE  /\ IsTiled(layout.pic) /\ InOrder(layout.pic, List)
         /\ Len(List) \in Nat /\ DOMAIN List = 1..Len(List)
         /\ \A i \in 1..Len(List) :
              /\ At(i) = List[i] /\ At(i) \in Nat
              /\ CtuX(layout.pic, At(i)) \in 0..(layout.pic.width - 1)
              /\ CtuY(layout.pic, At(i)) \in 0..(layout.pic.height - 1)
         /\ \A i \in 1..(Len(List) - 1) : Follows(layout.pic, At(i), At(i + 1))
         /\ idx \in 1..(Len(List) + 1)
<1>1. IsTiled(layout.pic) /\ slice \in DOMAIN layout.map /\ MapInOrder(layout.pic, layout.map)
  BY DEF MapsInOrder, Looping, Shapes
<1>2. InOrder(layout.pic, List)
  BY <1>1 DEF MapInOrder, List
<1>3. List \in Seq(Nat)
  BY <1>2 DEF InOrder
<1>4. Len(List) \in Nat /\ DOMAIN List = 1..Len(List) /\ \A i \in 1..Len(List) : List[i] \in Nat
  BY <1>3
<1>5. \A i : At(i) = List[i]
  BY DEF At, List
<1>6. \A i \in 1..(Len(List) - 1) : Follows(layout.pic, List[i], List[i + 1])
  BY <1>2 DEF InOrder
<1>7. \A i \in 1..Len(List) : /\ CtuX(layout.pic, List[i]) \in 0..(layout.pic.width - 1)
                              /\ CtuY(layout.pic, List[i]) \in 0..(layout.pic.height - 1)
  BY <1>2 DEF InOrder
<1>8. idx \in 1..(Len(List) + 1)
  BY DEF Shapes, List
<1> HIDE DEF List
<1> QED
  BY <1>1, <1>2, <1>4, <1>5, <1>6, <1>7, <1>8

\* Four rules say where substreams end, and they agree.
LEMMA EndRules ==
  ASSUME MapsInOrder, Looping, Shapes, sps.wpp \in BOOLEAN
  PROVE  /\ idx < Len(List) => (Data!LastInSubstream <=> Ends(idx))
         /\ idx < Len(List) => (Data!EndsSubstream <=> Ends(idx))
         /\ IsFiniteSet(EndsBefore(Len(List)))
         /\ Data!NumSubstreams = Cardinality(EndsBefore(Len(List)))
         /\ Data!NumEntryPoints =
              IF sps.entryPointPresent THEN Cardinality(EndsBefore(Len(List))) ELSE 0
<1> DEFINE L == Len(List)  p == layout.pic
<1>1. /\ IsTiled(p) /\ L \in Nat
      /\ \A i \in 1..L : /\ At(i) = List[i]
                         /\ CtuX(p, At(i)) \in 0..(p.width - 1)
                         /\ CtuY(p, At(i)) \in 0..(p.height - 1)
      /\ \A i \in 1..(L - 1) : Follows(p, At(i), At(i + 1))
      /\ idx \in 1..(L + 1)
  BY ListInOrder
<1>2. ASSUME NEW i \in 1..(L - 1)
      PROVE  /\ (TileIdx(p, At(i + 1)) # TileIdx(p, At(i)) \/ (sps.wpp /\ CtuIsTileColBd(p, At(i + 1)))) <=> Ends(i)
             /\ (CtuIsTileColBd(p, At(i + 1)) /\ (CtuIsTileRowBd(p, At(i + 1)) \/ sps.wpp)) <=> Ends(i)
             /\ (\/ Row(p, At(i + 1)) # Row(p, At(i)) \/ Col(p, At(i + 1)) # Col(p, At(i))
                 \/ sps.wpp /\ CtuY(p, At(i + 1)) # CtuY(p, At(i))) <=> Ends(i)
  <2>1. i \in 1..L /\ i + 1 \in 1..L
    BY <1>1
  <2>2. /\ CtuX(p, At(i)) \in 0..(p.width - 1) /\ CtuY(p, At(i)) \in 0..(p.height - 1)
        /\ CtuX(p, At(i + 1)) \in 0..(p.width - 1) /\ CtuY(p, At(i + 1)) \in 0..(p.height - 1)
        /\ Follows(p, At(i), At(i + 1))
    BY <1>1, <2>1
  <2> HIDE DEF p
  <2>3. LET ends == AtRightEdge(p, At(i)) /\ (AtBottomEdge(p, At(i)) \/ sps.wpp)
        IN /\ (TileIdx(p, At(i + 1)) # TileIdx(p, At(i)) \/ (sps.wpp /\ CtuIsTileColBd(p, At(i + 1)))) <=> ends
           /\ (CtuIsTileColBd(p, At(i + 1)) /\ (CtuIsTileRowBd(p, At(i + 1)) \/ sps.wpp)) <=> ends
           /\ (\/ Row(p, At(i + 1)) # Row(p, At(i)) \/ Col(p, At(i + 1)) # Col(p, At(i))
               \/ sps.wpp /\ CtuY(p, At(i + 1)) # CtuY(p, At(i))) <=> ends
    BY <1>1, <2>2, EndsAlike
  <2> QED
    BY <2>3 DEF Ends, p
<1>3. Data!ctus = List /\ Data!pic = p /\ Data!ctu = At(idx)
  BY DEF Data!ctus, Data!pic, Data!ctu, List, At
<1>4. idx < L => (Data!LastInSubstream <=> Ends(idx))
  <2>1. SUFFICES ASSUME idx < L PROVE Data!LastInSubstream <=> Ends(idx)
    OBVIOUS
  <2>2. idx \in 1..(L - 1) /\ idx + 1 \in 1..L /\ At(idx + 1) = List[idx + 1]
    BY <1>1, <2>1
  <2>3. Data!LastInSubstream <=>
          (TileIdx(p, At(idx + 1)) # TileIdx(p, At(idx)) \/ (sps.wpp /\ CtuIsTileColBd(p, At(idx + 1))))
    BY <1>3, <2>1, <2>2, SameOperators DEF Data!LastInSubstream
  <2> QED
    BY <1>2, <2>2, <2>3
<1>5. idx < L => (Data!EndsSubstream <=> Ends(idx))
  BY <1>3, SameOperators DEF Data!EndsSubstream, Ends, AtRightEdge, AtBottomEdge, Col, Row
<1> DEFINE E == EndsBefore(L)
           F == {i \in 2..L : Ends(i - 1)}
           f == [i \in Nat |-> i + 1]
<1>6. E = {i \in 1..(L - 1) : Ends(i)}
  BY <1>1 DEF EndsBefore
<1>7. IsFiniteSet(E)
  <2>1. E \in SUBSET Nat /\ \A i \in E : i <= L
    BY <1>1, <1>6
  <2> HIDE DEF E, L
  <2> QED
    BY <1>1, <2>1, FS_BoundedSetOfNaturals
<1>8. Cardinality(F) = Cardinality(E)
  <2>1. ASSUME NEW k \in F PROVE k \in {f[i] : i \in E}
    <3>1. k \in 2..L /\ Ends(k - 1) /\ k - 1 \in 1..(L - 1) /\ k - 1 \in Nat
      BY <1>1
    <3>2. k - 1 \in E /\ f[k - 1] = k
      BY <1>6, <3>1
    <3> QED
      BY <3>2
  <2>2. ASSUME NEW i \in E PROVE f[i] \in F
    <3>1. i \in 1..(L - 1) /\ Ends(i) /\ i \in Nat
      BY <1>1, <1>6
    <3>2. f[i] = i + 1 /\ i + 1 \in 2..L /\ (i + 1) - 1 = i
      BY <1>1, <3>1
    <3> QED
      BY <3>1, <3>2
  <2>3. F = {f[i] : i \in E}
    BY <2>1, <2>2
  <2>4. \A i, j \in E : f[i] = f[j] => i = j
    <3>1. E \subseteq Nat
      BY <1>1, <1>6
    <3> QED
      BY <3>1
  <2> HIDE DEF E, F, f
  <2> QED
    BY <1>7, <2>3, <2>4, SameNumber
<1>9. ASSUME NEW i \in 2..L
      PROVE  /\ i - 1 \in 1..(L - 1) /\ (i - 1) + 1 = i
             /\ List[i] = At(i) /\ List[i - 1] = At(i - 1)
  <2>1. i \in 1..L /\ i - 1 \in 1..L /\ i - 1 \in 1..(L - 1) /\ (i - 1) + 1 = i
    BY <1>1
  <2> QED
    BY <1>1, <2>1
<1>10. Data!NumSubstreams = Cardinality(F)
  <2>1. \A i \in 2..L :
          (Data!CtuIsTileColBd(p, List[i]) /\ (Data!CtuIsTileRowBd(p, List[i]) \/ sps.wpp)) <=> Ends(i - 1)
    BY <1>2, <1>9, SameOperators
  <2>2. F = {i \in 2..L : Data!CtuIsTileColBd(p, List[i]) /\ (Data!CtuIsTileRowBd(p, List[i]) \/ sps.wpp)}
    BY <2>1
  <2> DEFINE G == {i \in 2..L : Data!CtuIsTileColBd(p, List[i]) /\ (Data!CtuIsTileRowBd(p, List[i]) \/ sps.wpp)}
  <2>3. Data!NumSubstreams = Data!Cardinality(G)
    BY DEF Data!NumSubstreams, Data!ctus, Data!pic, List
  <2> HIDE DEF F, G
  <2>4. F = G
    BY <2>2 DEF F, G
  <2> QED
    BY <2>3, <2>4, SameLibrary
<1>11. Data!NumEntryPoints = IF sps.entryPointPresent THEN Cardinality(F) ELSE 0
  <2> DEFINE col(c) == Data!CtuToTileCol(p, Data!CtuX(p, c))
             row(c) == Data!CtuToTileRow(p, Data!CtuY(p, c))
             G == {i \in 2..L : \/ row(List[i]) # row(List[i - 1])
                                \/ col(List[i]) # col(List[i - 1])
                                \/ sps.wpp /\ Data!CtuY(p, List[i]) # Data!CtuY(p, List[i - 1])}
  <2>1. \A c : col(c) = Col(p, c) /\ row(c) = Row(p, c) /\ Data!CtuY(p, c) = CtuY(p, c)
    BY SameOperators DEF Col, Row
  <2> HIDE DEF col, row
  <2>2. \A i \in 2..L :
          (\/ row(List[i]) # row(List[i - 1])
           \/ col(List[i]) # col(List[i - 1])
           \/ sps.wpp /\ Data!CtuY(p, List[i]) # Data!CtuY(p, List[i - 1])) <=> Ends(i - 1)
    BY <1>2, <1>9, <2>1
  <2>3. G = F
    BY <2>2
  <2>4. Data!NumEntryPoints = IF ~sps.entryPointPresent THEN 0 ELSE Data!Cardinality(G)
    BY DEF Data!NumEntryPoints, Data!ctus, Data!pic, List, col, row
  <2> HIDE DEF G, F
  <2> QED
    BY <2>3, <2>4, SameLibrary
<1> QED
  BY <1>4, <1>5, <1>7, <1>8, <1>10, <1>11

-----------------------------------------------------------------------------
(* The data of a slice.                                                     *)

Item == [ctu : Int, delta : Int]

\* The data of the CTUs coded of the slice.
Items == FlattenSeq(coder.subs)

\* The data of the CTUs before number k is divided into as many substreams as the
\* end rules say, and the sizes tell where each of them ends.
Divided(k) ==
  /\ coder.subs \in Seq(Seq(Item)) /\ coder.numSubstream \in Nat
  /\ Len(coder.subs) = coder.numSubstream + 1
  /\ Len(Items) = k - 1 /\ \A i \in 1..(k - 1) : Items[i].ctu = At(i)
  /\ coder.numSubstream = Cardinality(EndsBefore(k))
  /\ sps.entryPointPresent =>
       /\ coder.sizes \in Seq(Positive) /\ Len(coder.sizes) = coder.numSubstream
       /\ EndsBefore(k) = {Boundaries(coder.sizes)[j + 1] : j \in 1..Len(coder.sizes)}
       /\ Boundaries(coder.sizes)[Len(coder.sizes) + 1] + Len(coder.subs[Len(coder.subs)]) = k - 1
  /\ ~sps.entryPointPresent => coder.sizes = << >>

\* The last CTU of substream j, by the sizes.
Stop(j) == IF j <= Len(coder.sizes) THEN Boundaries(coder.sizes)[j + 1] ELSE Len(List)

\* The decoder has used up the substreams before the one in hand, and all of that
\* up to the CTU it comes to.
Reading ==
  LET n == Len(coder.sizes) + 1
      bd == Boundaries(coder.sizes)
  IN /\ DOMAIN decoder.subs = 1..n /\ decoder.sub \in 1..n
     /\ bd[decoder.sub] <= idx - 1 /\ idx - 1 <= Stop(decoder.sub)
     /\ idx <= Len(List) => idx <= Stop(decoder.sub)
     /\ \A j \in 1..n : decoder.subs[j] =
          IF j < decoder.sub THEN << >>
          ELSE SubSeq(Items, IF j = decoder.sub THEN idx ELSE bd[j] + 1, Stop(j))

CodedTyped ==
  /\ sps \in [wpp : BOOLEAN, entryPointPresent : BOOLEAN]
  /\ coder.prevQp \in Int /\ \A c \in Data!Ctus : coded[c].qp \in Int

\* The maps of both loops are in order, and the substreams are where both expect
\* them.
FitInv ==
  /\ MapsInOrder /\ phase # "error"
  /\ Looping => CodedTyped /\ Divided(IF phase = "encode" THEN idx ELSE Len(List) + 1)
  /\ phase = "decode" => Reading

\* The CTU above is in the picture.
LEMMA AboveIsInPicture ==
  ASSUME MapsChecked, MapsInOrder, Looping, Shapes, NEW k \in 1..Len(List),
         CtuY(layout.pic, At(k)) > 0
  PROVE  At(k) - layout.pic.width \in Data!Ctus
<1> DEFINE w == layout.pic.width  h == layout.pic.height  c == At(k)
<1>1. c \in 0..(w * h - 1) /\ Data!Ctus = 0..(w * h - 1)
  <2>1. Data!Ctus = 0..(w * h - 1)
    BY DEF Data!Ctus, Data!pic
  <2>2. \A i \in 1..Len(layout.map[slice]) : At(i) \in Data!Ctus
    BY CtusOfSlice
  <2> QED
    BY <2>1, <2>2 DEF List
<1>2. w \in Nat /\ w >= 1 /\ h \in Nat
  BY DEF MapsInOrder, Looping, IsTiled, Positive
<1>3. c \div w > 0
  BY DEF CtuY
<1> HIDE DEF w, h, c
<1>4. w * h \in Nat /\ c \in Nat /\ c < w * h
  BY <1>1, <1>2
<1>5. c >= w
  BY <1>2, <1>3, <1>4
<1> DEFINE n == w * h
<1>6. c \in 0..(n - 1) /\ Data!Ctus = 0..(n - 1) /\ n \in Nat
  BY <1>1, <1>4
<1> HIDE DEF n
<1>7. c - w \in Data!Ctus
  BY <1>2, <1>5, <1>6
<1> QED
  BY <1>7 DEF c, w

\* The QP the encoder predicts, and the data it adds.
EncodedQp == Data!PredictQp([c \in Data!Ctus |-> coded[c].qp], coder.prevQp)
NewItem == [ctu |-> At(idx), delta |-> Data!QpOf(At(idx)) - EncodedQp]

\* One iteration of encodeSlice, as far as it is about data and QPs.
LEMMA EncodeFields ==
  ASSUME MapsInOrder, Looping, Shapes, CodedTyped, Data!EncodeCtu
  PROVE  LET subs == [coder.subs EXCEPT ![Len(coder.subs)] = Append(@, NewItem)]
             ends == idx < Len(List) /\ Ends(idx)
         IN /\ phase = "encode" /\ phase' = phase
            /\ idx \in 1..Len(List) /\ idx' = idx + 1
            /\ UNCHANGED <<layout, sps, slice, decoder, decoded>>
            /\ \E ctx : coded' = [coded EXCEPT ![At(idx)] = [ctx |-> ctx, qp |-> Data!QpOf(At(idx))]]
            /\ coder'.prevQp = Data!QpOf(At(idx))
            /\ coder'.subs = IF ends THEN Append(subs, << >>) ELSE subs
            /\ coder'.numSubstream = coder.numSubstream + (IF ends THEN 1 ELSE 0)
            /\ coder'.sizes = IF ends /\ sps.entryPointPresent
                              THEN Append(coder.sizes, Len(subs[Len(coder.subs)])) ELSE coder.sizes
<1> DEFINE before == Data!UpdateCtxs(Data!EncStart, coder.bins)
           after == Append(before, <<"coded", Data!ctu>>)
           delta == Data!QpOf(Data!ctu) - EncodedQp
           n == Len(coder.subs)
           subs == [coder.subs EXCEPT ![n] = Append(@, [ctu |-> Data!ctu, delta |-> delta])]
           ends == Data!LastInSubstream /\ idx < Len(Data!ctus)
<1>1. /\ phase = "encode" /\ idx <= Len(List) /\ idx' = idx + 1
      /\ UNCHANGED <<layout, sps, phase, slice, decoder, decoded>>
  BY DEF Data!EncodeCtu, Data!ctus, List
<1>2. PICK sync, bins :
        /\ coder' = [ctx |-> after, sync |-> sync, bins |-> bins,
                     prevQp |-> Data!QpOf(Data!ctu),
                     subs |-> IF ends THEN Append(subs, << >>) ELSE subs,
                     numSubstream |-> coder.numSubstream + (IF ends THEN 1 ELSE 0),
                     sizes |-> IF ends /\ sps.entryPointPresent
                               THEN Append(coder.sizes, Len(subs[n])) ELSE coder.sizes]
        /\ coded' = [coded EXCEPT ![Data!ctu] = [ctx |-> before, qp |-> Data!QpOf(Data!ctu)]]
  BY DEF Data!EncodeCtu, EncodedQp
<1>3. Data!ctu = At(idx) /\ Data!ctus = List
  BY DEF Data!ctu, Data!ctus, At, List
<1>4. ends <=> idx < Len(List) /\ Ends(idx)
  <2>1. sps.wpp \in BOOLEAN
    BY DEF CodedTyped
  <2> QED
    BY <1>3, <2>1, EndRules
<1>5. idx \in 1..Len(List)
  BY <1>1, ListInOrder
<1>6. subs = [coder.subs EXCEPT ![Len(coder.subs)] = Append(@, NewItem)]
  BY <1>3 DEF NewItem
<1> HIDE DEF subs, ends, before, after
<1>7. /\ coder'.prevQp = Data!QpOf(At(idx))
      /\ coder'.subs = IF ends THEN Append(subs, << >>) ELSE subs
      /\ coder'.numSubstream = coder.numSubstream + (IF ends THEN 1 ELSE 0)
      /\ coder'.sizes = IF ends /\ sps.entryPointPresent
                        THEN Append(coder.sizes, Len(subs[n])) ELSE coder.sizes
  BY <1>2, <1>3
<1>8. \E ctx : coded' = [coded EXCEPT ![At(idx)] = [ctx |-> ctx, qp |-> Data!QpOf(At(idx))]]
  BY <1>2, <1>3
<1> QED
  BY <1>1, <1>4, <1>5, <1>6, <1>7, <1>8

\* The data it adds has its type.
LEMMA NewItemTyped ==
  ASSUME MapsChecked, MapsInOrder, Looping, Shapes, CodedTyped, idx \in 1..Len(List)
  PROVE  NewItem \in Item /\ NewItem.ctu = At(idx) /\ Data!QpOf(At(idx)) \in Int
<1>1. At(idx) \in Nat
  BY ListInOrder
<1>2. Data!QpOf(At(idx)) \in Int
  BY <1>1 DEF Data!QpOf
<1>3. EncodedQp \in Int
  <2> DEFINE qp == [c \in Data!Ctus |-> coded[c].qp]
  <2>1. Data!ctu = At(idx) /\ Data!pic = layout.pic
    BY DEF Data!ctu, Data!ctus, Data!pic, At
  <2>2. CASE Data!AboveInSliceAndTile
    <3>1. CtuY(layout.pic, At(idx)) > 0
      BY <2>1, <2>2, SameOperators DEF Data!AboveInSliceAndTile
    <3>2. At(idx) - layout.pic.width \in Data!Ctus
      BY <3>1, AboveIsInPicture
    <3> QED
      BY <2>1, <3>2 DEF EncodedQp, Data!PredictQp, CodedTyped
  <2>3. CASE ~Data!AboveInSliceAndTile
    BY <2>3 DEF EncodedQp, Data!PredictQp, CodedTyped
  <2> QED
    BY <2>2, <2>3
<1> QED
  BY <1>1, <1>2, <1>3 DEF NewItem, Item

\* Nothing before the first CTU, and one more with each CTU that ends a substream.
LEMMA EndsGrow ==
  ASSUME MapsInOrder, Looping, Shapes, NEW k \in 1..Len(List)
  PROVE  /\ IsFiniteSet(EndsBefore(k)) /\ EndsBefore(k) \subseteq 1..(k - 1)
         /\ EndsBefore(1) = {} /\ Cardinality(EndsBefore(1)) = 0
         /\ EndsBefore(k + 1) = IF k < Len(List) /\ Ends(k) THEN EndsBefore(k) \cup {k} ELSE EndsBefore(k)
         /\ Cardinality(EndsBefore(k + 1)) =
              Cardinality(EndsBefore(k)) + IF k < Len(List) /\ Ends(k) THEN 1 ELSE 0
<1> DEFINE L == Len(List)
<1>1. L \in Nat
  BY ListInOrder
<1> HIDE DEF L
<1>2. k \in 1..L /\ k \in Nat /\ \A m : EndsBefore(m) = {i \in 1..(L - 1) : i < m /\ Ends(i)}
  BY <1>1 DEF EndsBefore, L
<1>3. EndsBefore(k) \subseteq 1..(k - 1) /\ k \notin EndsBefore(k)
  BY <1>1, <1>2
<1>4. IsFiniteSet(EndsBefore(k)) /\ Cardinality(EndsBefore(k)) \in Nat
  <2>1. IsFiniteSet(1..(k - 1))
    BY <1>2, FS_Interval
  <2> QED
    BY <1>3, <2>1, SubsetSize
<1>5. EndsBefore(1) = {}
  BY <1>1, <1>2
<1>6. EndsBefore(k + 1) = IF k < L /\ Ends(k) THEN EndsBefore(k) \cup {k} ELSE EndsBefore(k)
  <2>1. \A i \in 1..(L - 1) : i < k + 1 <=> i < k \/ i = k
    BY <1>1, <1>2
  <2>2. k \in 1..(L - 1) <=> k < L
    BY <1>1, <1>2
  <2> QED
    BY <1>2, <2>1, <2>2
<1>7. Cardinality(EndsBefore(k + 1)) = Cardinality(EndsBefore(k)) + IF k < L /\ Ends(k) THEN 1 ELSE 0
  <2>1. Cardinality(EndsBefore(k) \cup {k}) = Cardinality(EndsBefore(k)) + 1
    BY <1>3, <1>4, FS_AddElement
  <2> QED
    BY <1>4, <1>6, <2>1
<1> QED
  BY <1>3, <1>4, <1>5, <1>6, <1>7, FS_EmptySet DEF L

\* In the same slice the ends of substreams are the same.
LEMMA SameEnds ==
  ASSUME UNCHANGED <<layout, sps, slice>>
  PROVE  /\ List' = List /\ \A i : At(i)' = At(i)
         /\ \A k : EndsBefore(k)' = EndsBefore(k)
<1>1. List' = List /\ \A i : At(i)' = At(i)
  BY DEF List, At
<1>2. \A i : Ends(i)' <=> Ends(i)
  BY <1>1 DEF Ends
<1> QED
  BY <1>1, <1>2 DEF EndsBefore

\* The encoder's next CTU is divided as the others are.
LEMMA DividedStep ==
  ASSUME MapsChecked, MapsInOrder, Looping, Shapes, CodedTyped, Divided(idx), Data!EncodeCtu
  PROVE  Divided(idx)' /\ Items' = Append(Items, NewItem) /\ Items \in Seq(Item)
<1> DEFINE n == Len(coder.subs)
           subs == [coder.subs EXCEPT ![n] = Append(@, NewItem)]
           ends == idx < Len(List) /\ Ends(idx)
<1>1. /\ idx \in 1..Len(List) /\ idx' = idx + 1
      /\ UNCHANGED <<layout, sps, slice, decoder, decoded>>
      /\ coder'.subs = IF ends THEN Append(subs, << >>) ELSE subs
      /\ coder'.numSubstream = coder.numSubstream + (IF ends THEN 1 ELSE 0)
      /\ coder'.sizes = IF ends /\ sps.entryPointPresent
                        THEN Append(coder.sizes, Len(subs[n])) ELSE coder.sizes
  BY EncodeFields
<1>2. NewItem \in Item /\ NewItem.ctu = At(idx)
  BY <1>1, NewItemTyped
<1>3. /\ coder.subs \in Seq(Seq(Item)) /\ coder.numSubstream \in Nat
      /\ n = coder.numSubstream + 1 /\ n \in Nat /\ n >= 1
      /\ Len(Items) = idx - 1 /\ \A i \in 1..(idx - 1) : Items[i].ctu = At(i)
      /\ coder.numSubstream = Cardinality(EndsBefore(idx))
  BY DEF Divided
<1>4. /\ subs \in Seq(Seq(Item)) /\ Len(subs) = n /\ Items \in Seq(Item)
      /\ FlattenSeq(subs) = Append(Items, NewItem)
  <2>1. Len(coder.subs) > 0
    BY <1>3
  <2> QED
    BY <1>2, <1>3, <2>1, FlattenAdd DEF Items
<1>5. subs[n] \in Seq(Item) /\ Len(subs[n]) = Len(coder.subs[n]) + 1 /\ Len(coder.subs[n]) \in Nat
  BY <1>2, <1>3
<1> HIDE DEF subs
<1>6. /\ coder'.subs \in Seq(Seq(Item)) /\ Len(coder'.subs) = n + (IF ends THEN 1 ELSE 0)
      /\ FlattenSeq(coder'.subs) = Append(Items, NewItem)
      /\ coder'.subs[Len(coder'.subs)] = IF ends THEN << >> ELSE subs[n]
  <2>1. CASE ends
    <3>1. << >> \in Seq(Item)
      OBVIOUS
    <3>2. FlattenSeq(Append(subs, << >>)) = FlattenSeq(subs) \o << >>
      BY <1>4, <3>1, FlattenAppend
    <3>3. Append(Items, NewItem) \in Seq(Item)
      BY <1>2, <1>4
    <3>4. FlattenSeq(Append(subs, << >>)) = Append(Items, NewItem)
      BY <1>4, <3>2, <3>3
    <3>5. /\ Append(subs, << >>) \in Seq(Seq(Item)) /\ Len(Append(subs, << >>)) = n + 1
          /\ Append(subs, << >>)[n + 1] = << >>
      BY <1>4, <3>1
    <3> QED
      BY <1>1, <2>1, <3>4, <3>5
  <2>2. CASE ~ends
    BY <1>1, <1>3, <1>4, <2>2
  <2> QED
    BY <2>1, <2>2
<1>7. Items' = Append(Items, NewItem)
  BY <1>6 DEF Items
<1> HIDE DEF ends, n
<1>8. List' = List /\ (\A i : At(i)' = At(i)) /\ (\A k : EndsBefore(k)' = EndsBefore(k))
  BY <1>1, SameEnds
<1>9. idx \in Nat /\ idx >= 1 /\ (idx + 1) - 1 = idx
  BY <1>1
<1>10. Len(Items') = idx' - 1 /\ \A i \in 1..(idx' - 1) : Items'[i].ctu = At(i)
  <2>1. Len(Items') = idx /\ Items'[idx] = NewItem /\ \A i \in 1..(idx - 1) : Items'[i] = Items[i]
    BY <1>2, <1>3, <1>4, <1>7, <1>9
  <2>2. \A i \in 1..idx : i = idx \/ i \in 1..(idx - 1)
    BY <1>9
  <2> QED
    BY <1>1, <1>2, <1>3, <1>9, <2>1, <2>2
<1>11. /\ EndsBefore(idx + 1) = IF ends THEN EndsBefore(idx) \cup {idx} ELSE EndsBefore(idx)
       /\ Cardinality(EndsBefore(idx + 1)) = Cardinality(EndsBefore(idx)) + IF ends THEN 1 ELSE 0
  BY <1>1, EndsGrow DEF ends
<1>12. coder'.numSubstream \in Nat /\ coder'.numSubstream = Cardinality(EndsBefore(idx + 1))
  BY <1>1, <1>3, <1>11
<1>13. Len(coder'.subs) = coder'.numSubstream + 1
  BY <1>1, <1>3, <1>6
<1>14. sps.entryPointPresent =>
         /\ coder'.sizes \in Seq(Positive) /\ Len(coder'.sizes) = coder'.numSubstream
         /\ EndsBefore(idx + 1) = {Boundaries(coder'.sizes)[j + 1] : j \in 1..Len(coder'.sizes)}
         /\ Boundaries(coder'.sizes)[Len(coder'.sizes) + 1] + Len(coder'.subs[Len(coder'.subs)]) = idx
  <2>1. SUFFICES ASSUME sps.entryPointPresent
                 PROVE  /\ coder'.sizes \in Seq(Positive) /\ Len(coder'.sizes) = coder'.numSubstream
                        /\ EndsBefore(idx + 1) = {Boundaries(coder'.sizes)[j + 1] : j \in 1..Len(coder'.sizes)}
                        /\ Boundaries(coder'.sizes)[Len(coder'.sizes) + 1] + Len(coder'.subs[Len(coder'.subs)]) = idx
    OBVIOUS
  <2> DEFINE sizes == coder.sizes  m == Len(sizes)  s == Len(subs[n])
  <2>2. /\ sizes \in Seq(Positive) /\ m = coder.numSubstream
        /\ EndsBefore(idx) = {Boundaries(sizes)[j + 1] : j \in 1..m}
        /\ Boundaries(sizes)[m + 1] + Len(coder.subs[n]) = idx - 1
    BY <2>1 DEF Divided, n
  <2>3. Boundaries(sizes)[m + 1] \in Nat /\ m \in Nat
    <3>1. Boundaries(sizes) \in [1..(m + 1) -> Nat] /\ m \in Nat /\ m + 1 \in 1..(m + 1)
      BY <2>2, BoundariesIncrease
    <3> QED
      BY <3>1
  <2>4. s \in Positive /\ Boundaries(sizes)[m + 1] + s = idx
    <3> DEFINE b == Boundaries(sizes)[m + 1]  l == Len(coder.subs[n])
    <3>1. b \in Nat /\ l \in Nat /\ b + l = idx - 1 /\ s = l + 1
      BY <1>5, <2>2, <2>3
    <3> HIDE DEF b, l, s
    <3>2. s \in Positive /\ b + s = idx
      BY <1>9, <3>1 DEF Positive
    <3> QED
      BY <3>2 DEF b
  <2>5. CASE ~ends
    <3>1. /\ coder'.sizes = sizes /\ coder'.numSubstream = coder.numSubstream
          /\ EndsBefore(idx + 1) = EndsBefore(idx) /\ coder'.subs[Len(coder'.subs)] = subs[n]
      BY <1>1, <1>3, <1>6, <1>11, <2>5
    <3> HIDE DEF sizes
    <3> QED
      BY <2>2, <2>4, <3>1
  <2>6. CASE ends
    <3> DEFINE more == Append(sizes, s)
    <3>1. /\ coder'.sizes = more /\ coder'.numSubstream = m + 1
          /\ EndsBefore(idx + 1) = EndsBefore(idx) \cup {idx} /\ coder'.subs[Len(coder'.subs)] = << >>
      BY <1>1, <1>6, <1>11, <2>1, <2>2, <2>6
    <3> HIDE DEF sizes, s
    <3>2. more \in Seq(Positive) /\ Len(more) = m + 1
      BY <2>2, <2>4
    <3>3. /\ \A i \in 1..(m + 1) : Boundaries(more)[i] = Boundaries(sizes)[i]
          /\ Boundaries(more)[m + 2] = Boundaries(sizes)[m + 1] + s
      BY <2>2, <2>4, BoundariesAdd
    <3> HIDE DEF more
    <3>4. Boundaries(more)[(m + 1) + 1] = idx
      <4>1. (m + 1) + 1 = m + 2
        BY <2>3
      <4> QED
        BY <2>4, <3>3, <4>1
    <3>5. EndsBefore(idx + 1) = {Boundaries(more)[j + 1] : j \in 1..(m + 1)}
      <4>1. ASSUME NEW j \in 1..m PROVE Boundaries(more)[j + 1] = Boundaries(sizes)[j + 1]
        <5>1. j + 1 \in 1..(m + 1)
          BY <2>3
        <5> QED
          BY <3>3, <5>1
      <4>2. \A j \in 1..(m + 1) : j = m + 1 \/ j \in 1..m
        BY <2>3
      <4>3. 1..m \subseteq 1..(m + 1) /\ m + 1 \in 1..(m + 1)
        BY <2>3
      <4> HIDE DEF m
      <4>4. {Boundaries(more)[j + 1] : j \in 1..(m + 1)} =
              {Boundaries(sizes)[j + 1] : j \in 1..m} \cup {idx}
        BY <3>4, <4>1, <4>2, <4>3
      <4> QED
        BY <2>2, <3>1, <4>4
    <3>6. idx + Len(<< >>) = idx
      BY <1>9
    <3> QED
      BY <3>1, <3>2, <3>4, <3>5, <3>6
  <2> QED
    BY <2>5, <2>6
<1>15. ~sps.entryPointPresent => coder'.sizes = << >>
  BY <1>1 DEF Divided
<1>16. Divided(idx)'
  BY <1>1, <1>6, <1>8, <1>9, <1>10, <1>12, <1>13, <1>14, <1>15 DEF Divided
<1> QED
  BY <1>4, <1>7, <1>16

\* When the slice is coded: the sizes lead to the end of each substream, and to no
\* other CTU.
LEMMA StopsMean ==
  ASSUME MapsInOrder, Looping, Shapes, CodedTyped, Divided(Len(List) + 1)
  PROVE  LET n == Len(coder.sizes) + 1
             bd == Boundaries(coder.sizes)
         IN /\ coder.sizes \in Seq(Positive) /\ n \in Nat /\ n >= 1 /\ Len(coder.sizes) = n - 1
            /\ bd \in [1..n -> Nat] /\ bd[1] = 0
            /\ \A i, j \in 1..n : i < j => bd[i] < bd[j]
            /\ \A j \in 1..(n - 1) : /\ Stop(j) = bd[j + 1] /\ Stop(j) \in 1..(Len(List) - 1)
                                     /\ Ends(Stop(j)) /\ sps.entryPointPresent
            /\ Stop(n) = Len(List)
            /\ \A k \in 1..(Len(List) - 1) :
                 Ends(k) /\ sps.entryPointPresent => \E j \in 1..(n - 1) : Stop(j) = k
            /\ Items \in Seq(Item) /\ Len(Items) = Len(List)
            /\ \A i \in 1..Len(List) : Items[i].ctu = At(i)
<1> DEFINE n == Len(coder.sizes) + 1
           bd == Boundaries(coder.sizes)
           L == Len(List)
<1>1. L \in Nat
  BY ListInOrder
<1>2. sps.entryPointPresent \in BOOLEAN
  BY DEF CodedTyped
<1>3. coder.sizes \in Seq(Positive)
  <2>1. /\ sps.entryPointPresent => coder.sizes \in Seq(Positive)
        /\ ~sps.entryPointPresent => coder.sizes = << >>
    BY DEF Divided
  <2>2. << >> \in Seq(Positive)
    OBVIOUS
  <2> QED
    BY <2>1, <2>2
<1>4. /\ Len(coder.sizes) \in Nat /\ n \in Nat /\ n >= 1 /\ Len(coder.sizes) = n - 1
      /\ bd \in [1..n -> Nat] /\ bd[1] = 0
      /\ \A i, j \in 1..n : i < j => bd[i] < bd[j]
  BY <1>3, BoundariesIncrease
<1>5. Items \in Seq(Item) /\ Len(Items) = L /\ \A i \in 1..L : Items[i].ctu = At(i)
  <2>1. coder.subs \in Seq(Seq(Item)) /\ << >> \in Seq(Item)
    BY DEF Divided
  <2>2. Items \in Seq(Item)
    BY <2>1, FlattenAppend DEF Items
  <2>3. Len(Items) = (L + 1) - 1 /\ \A i \in 1..((L + 1) - 1) : Items[i].ctu = At(i)
    BY DEF Divided
  <2>4. (L + 1) - 1 = L
    BY <1>1
  <2> QED
    BY <2>2, <2>3, <2>4
<1>6. EndsBefore(L + 1) = {i \in 1..(L - 1) : Ends(i)}
  BY <1>1 DEF EndsBefore
<1>7. \A j \in 1..(n - 1) : Stop(j) = bd[j + 1]
  BY <1>4 DEF Stop
<1>8. Stop(n) = L
  BY <1>4 DEF Stop
<1>9. ~sps.entryPointPresent => n = 1
  BY DEF Divided
<1>10. sps.entryPointPresent => EndsBefore(L + 1) = {bd[j + 1] : j \in 1..(n - 1)}
  BY <1>4 DEF Divided
<1> HIDE DEF n, bd, L
<1>11. ASSUME NEW j \in 1..(n - 1)
       PROVE  Stop(j) \in 1..(L - 1) /\ Ends(Stop(j)) /\ sps.entryPointPresent
  <2>1. sps.entryPointPresent
    BY <1>2, <1>4, <1>9
  <2>2. Stop(j) \in EndsBefore(L + 1)
    BY <1>7, <1>10, <2>1
  <2> QED
    BY <1>6, <2>1, <2>2
<1>12. ASSUME NEW k \in 1..(L - 1), Ends(k), sps.entryPointPresent
       PROVE  \E j \in 1..(n - 1) : Stop(j) = k
  <2>1. k \in {bd[j + 1] : j \in 1..(n - 1)}
    BY <1>6, <1>10, <1>12
  <2> QED
    BY <1>7, <2>1
<1> QED
  BY <1>3, <1>4, <1>5, <1>7, <1>8, <1>11, <1>12 DEF n, bd, L

\* The slice header and data: the reader finds the substreams the encoder made.
LEMMA WriteReading ==
  ASSUME MapsInOrder, Looping, Shapes, CodedTyped, Divided(idx), Data!WriteSlice
  PROVE  phase' = "decode" /\ Reading' /\ Divided(Len(List) + 1)'
<1> DEFINE L == Len(List)  n == Len(coder.sizes) + 1
           bd == Boundaries(coder.sizes)
<1>1. /\ phase = "encode" /\ idx > L /\ phase' = "decode" /\ idx' = 1
      /\ UNCHANGED <<layout, sps, slice, coder, coded, decoded>>
      /\ decoder' = [decoder EXCEPT !.ctx = << >>, !.prevQp = Data!SliceQp, !.sub = 1,
           !.subs = Data!Substreams(Data!FlattenSeq(SubSeq(coder.subs, 1, coder.numSubstream + 1)),
                      SubSeq(coder.sizes, 1, Data!Minimum(Data!NumEntryPoints, Len(coder.sizes))))]
  BY DEF Data!WriteSlice, Data!ctus, List
<1>2. idx = L + 1 /\ L \in Nat
  BY <1>1, ListInOrder
<1>3. Divided(L + 1)
  BY <1>2
<1>4. /\ coder.sizes \in Seq(Positive) /\ n \in Nat /\ n >= 1 /\ Len(coder.sizes) = n - 1
      /\ bd \in [1..n -> Nat] /\ bd[1] = 0
      /\ \A i, j \in 1..n : i < j => bd[i] < bd[j]
      /\ \A j \in 1..(n - 1) : /\ Stop(j) = bd[j + 1] /\ Stop(j) \in 1..(L - 1)
      /\ Stop(n) = L
      /\ Items \in Seq(Item) /\ Len(Items) = L
  BY <1>3, StopsMean
<1>5. SubSeq(coder.subs, 1, coder.numSubstream + 1) = coder.subs
  <2>1. coder.subs \in Seq(Seq(Item)) /\ coder.numSubstream + 1 = Len(coder.subs)
    BY DEF Divided
  <2> QED
    BY <2>1
<1>6. SubSeq(coder.sizes, 1, Data!Minimum(Data!NumEntryPoints, Len(coder.sizes))) = coder.sizes
  <2>1. sps.wpp \in BOOLEAN /\ sps.entryPointPresent \in BOOLEAN
    BY DEF CodedTyped
  <2>2. EndsBefore(L + 1) = EndsBefore(L)
    BY <1>2 DEF EndsBefore
  <2>3. Data!NumEntryPoints = Len(coder.sizes)
    <3>1. Data!NumEntryPoints = IF sps.entryPointPresent THEN Cardinality(EndsBefore(L)) ELSE 0
      BY <2>1, EndRules
    <3>2. /\ sps.entryPointPresent => Len(coder.sizes) = Cardinality(EndsBefore(L + 1))
          /\ ~sps.entryPointPresent => Len(coder.sizes) = 0
      BY <1>3 DEF Divided
    <3> QED
      BY <2>1, <2>2, <3>1, <3>2
  <2>4. Data!Minimum(Len(coder.sizes), Len(coder.sizes)) = Len(coder.sizes)
    BY DEF Data!Minimum
  <2>5. SubSeq(coder.sizes, 1, Len(coder.sizes)) = coder.sizes
    BY <1>4
  <2> QED
    BY <2>3, <2>4, <2>5
<1>7. decoder'.sub = 1 /\ decoder'.subs = Data!Substreams(Items, coder.sizes)
  <2>1. "subs" \in DOMAIN decoder /\ "sub" \in DOMAIN decoder
    BY DEF Shapes, IsDecoder
  <2>2. Data!FlattenSeq(SubSeq(coder.subs, 1, coder.numSubstream + 1)) = Items
    BY <1>5, SameLibrary DEF Items
  <2> QED
    BY <1>1, <1>6, <2>1, <2>2
<1>8. /\ DOMAIN decoder'.subs = 1..n
      /\ \A j \in 1..n : decoder'.subs[j] = SubSeq(Items, bd[j] + 1, Stop(j))
  <2> DEFINE front == [i \in DOMAIN coder.sizes |-> SubSeq(Items, bd[i] + 1, bd[i + 1])]
             last == SubSeq(Items, bd[n] + 1, Len(Items))
  <2>1. decoder'.subs = Append(front, last)
    BY <1>7, SameOperators DEF Data!Substreams
  <2>2. /\ DOMAIN coder.sizes = 1..(n - 1) /\ n - 1 \in Nat
        /\ \A i \in 1..(n - 1) : i \in 1..n /\ i + 1 \in 1..n
        /\ n \in 1..n
    BY <1>4
  <2>3. \A i \in 1..(n - 1) : SubSeq(Items, bd[i] + 1, bd[i + 1]) \in Seq(Item)
    <3>1. ASSUME NEW i \in 1..(n - 1)
          PROVE  bd[i] + 1 \in Nat /\ bd[i] + 1 >= 1 /\ bd[i + 1] \in Nat /\ bd[i + 1] <= Len(Items)
      <4>1. bd[i] \in Nat /\ bd[i + 1] \in 1..(L - 1)
        BY <1>4, <2>2
      <4>2. Len(Items) = L /\ L \in Nat
        BY <1>2, <1>4
      <4> HIDE DEF L, bd
      <4> QED
        BY <4>1, <4>2
    <3>a. Items \in Seq(Item)
      BY <1>4
    <3>2. ASSUME NEW a \in Nat, a >= 1, NEW b \in Nat, b <= Len(Items)
          PROVE  SubSeq(Items, a, b) \in Seq(Item)
      <4> HIDE DEF n, bd, L, front, last
      <4> QED
        BY <3>2, <3>a
    <3> QED
      BY <3>1, <3>2
  <2>4. front \in Seq(Seq(Item)) /\ Len(front) = n - 1
        /\ \A i \in 1..(n - 1) : front[i] = SubSeq(Items, bd[i] + 1, bd[i + 1])
    <3>1. front = [i \in 1..(n - 1) |-> SubSeq(Items, bd[i] + 1, bd[i + 1])]
      BY <2>2
    <3> HIDE DEF front, n, bd
    <3>2. front \in [1..(n - 1) -> Seq(Item)]
      BY <2>3, <3>1
    <3>3. n - 1 \in Nat
      BY <2>2
    <3>4. front \in Seq(Seq(Item)) /\ Len(front) = n - 1
      BY <3>2, <3>3
    <3>5. \A i \in 1..(n - 1) : front[i] = SubSeq(Items, bd[i] + 1, bd[i + 1])
      BY <3>1
    <3> QED
      BY <3>4, <3>5
  <2> HIDE DEF front, last, n
  <2>5. /\ DOMAIN Append(front, last) = 1..n /\ Append(front, last)[n] = last
        /\ \A i \in 1..(n - 1) : Append(front, last)[i] = front[i]
    BY <1>4, <2>4
  <2>6. \A j \in 1..n : j = n \/ j \in 1..(n - 1)
    BY <1>4
  <2>7. last = SubSeq(Items, bd[n] + 1, Stop(n))
    BY <1>4 DEF last
  <2>8. \A j \in 1..n : Append(front, last)[j] = SubSeq(Items, bd[j] + 1, Stop(j))
    BY <1>4, <2>4, <2>5, <2>6, <2>7
  <2> QED
    BY <2>1, <2>5, <2>8
<1>9. Items' = Items /\ List' = List /\ (\A j : Stop(j)' = Stop(j))
  BY <1>1, SameEnds DEF Items, Stop
<1>10. Stop(1) \in Nat /\ (1 <= L => 1 <= Stop(1)) /\ bd[1] = 0
  <2>1. n = 1 \/ 1 \in 1..(n - 1)
    BY <1>4
  <2> QED
    BY <1>2, <1>4, <2>1
<1>11. Reading'
  <2>1. 1 \in 1..n
    BY <1>4
  <2>2. \A j \in 1..n : decoder'.subs[j] =
          IF j < 1 THEN << >> ELSE SubSeq(Items, IF j = 1 THEN 1 ELSE bd[j] + 1, Stop(j))
    <3> TAKE j \in 1..n
    <3>1. ~(j < 1) /\ decoder'.subs[j] = SubSeq(Items, bd[j] + 1, Stop(j))
      BY <1>4, <1>8
    <3>2. CASE j = 1
      <4>1. bd[j] + 1 = 1
        BY <1>10, <3>2
      <4> QED
        BY <3>1, <3>2, <4>1
    <3>3. CASE j # 1
      BY <3>1, <3>3
    <3> QED
      BY <3>2, <3>3
  <2>3. bd[1] <= 1 - 1 /\ 1 - 1 <= Stop(1)
    BY <1>10
  <2> QED
    BY <1>1, <1>7, <1>8, <1>9, <1>10, <2>1, <2>2, <2>3 DEF Reading
<1>12. Divided(L + 1)'
  <2>1. (\A i : At(i)' = At(i)) /\ (\A k : EndsBefore(k)' = EndsBefore(k))
    BY <1>1, SameEnds
  <2>2. (L + 1)' = L + 1
    BY <1>9
  <2> QED
    BY <1>1, <1>3, <1>9, <2>1, <2>2 DEF Divided
<1> QED
  BY <1>1, <1>11, <1>12

\* The decoder finds the data of the CTU it comes to, and goes on.
LEMMA ReadingStep ==
  ASSUME MapsInOrder, Looping, Shapes, CodedTyped, Divided(Len(List) + 1), Reading,
         Data!DecodeCtu
  PROVE  /\ phase' = "decode" /\ Reading' /\ Divided(Len(List) + 1)'
         /\ Data!NextItem = Items[idx] /\ idx \in 1..Len(List)
<1> DEFINE L == Len(List)  n == Len(coder.sizes) + 1
           bd == Boundaries(coder.sizes)
           sub == decoder.sub
           next == idx < L /\ Ends(idx) /\ sps.entryPointPresent
<1>1. /\ phase = "decode" /\ idx <= L /\ idx' = idx + 1
      /\ UNCHANGED <<layout, sps, slice, coder, coded>>
      /\ phase' = IF Data!NextItem.ctu = Data!ctu THEN phase ELSE "error"
  BY DEF Data!DecodeCtu, Data!ctus, List
<1>2. idx \in 1..L /\ L \in Nat
  BY <1>1, ListInOrder
<1>3. /\ coder.sizes \in Seq(Positive) /\ n \in Nat /\ n >= 1 /\ Len(coder.sizes) = n - 1
      /\ bd \in [1..n -> Nat] /\ bd[1] = 0
      /\ \A i, j \in 1..n : i < j => bd[i] < bd[j]
      /\ \A j \in 1..(n - 1) : /\ Stop(j) = bd[j + 1] /\ Stop(j) \in 1..(L - 1)
                               /\ Ends(Stop(j)) /\ sps.entryPointPresent
      /\ Stop(n) = L
      /\ \A k \in 1..(L - 1) :
           Ends(k) /\ sps.entryPointPresent => \E j \in 1..(n - 1) : Stop(j) = k
      /\ Items \in Seq(Item) /\ Len(Items) = L
      /\ \A i \in 1..L : Items[i].ctu = At(i)
  BY StopsMean
<1>4. /\ DOMAIN decoder.subs = 1..n /\ sub \in 1..n
      /\ bd[sub] <= idx - 1 /\ idx <= Stop(sub)
      /\ \A j \in 1..n : decoder.subs[j] =
           IF j < sub THEN << >>
           ELSE SubSeq(Items, IF j = sub THEN idx ELSE bd[j] + 1, Stop(j))
  BY <1>1 DEF Reading
<1>5. \A j \in 1..n : Stop(j) \in 0..L
  <2>1. \A j \in 1..n : j = n \/ j \in 1..(n - 1)
    BY <1>3
  <2> QED
    BY <1>2, <1>3, <2>1
<1>6. decoder.subs[sub] = SubSeq(Items, idx, Stop(sub)) /\ idx \in 1..L /\ Stop(sub) \in idx..L
  <2>1. sub \in Int /\ ~(sub < sub)
    BY <1>3, <1>4
  <2>2. decoder.subs[sub] = SubSeq(Items, idx, Stop(sub))
    BY <1>4, <2>1
  <2>3. Stop(sub) \in 0..L /\ idx <= Stop(sub)
    BY <1>4, <1>5
  <2> QED
    BY <1>2, <2>2, <2>3
<1>7. /\ decoder.subs[sub] # << >> /\ Head(decoder.subs[sub]) = Items[idx]
      /\ Tail(decoder.subs[sub]) = SubSeq(Items, idx + 1, Stop(sub))
  <2>1. idx \in 1..Len(Items) /\ Stop(sub) \in idx..Len(Items)
    BY <1>3, <1>6
  <2> DEFINE e == Stop(sub)
  <2> HIDE DEF e, sub
  <2>2. /\ SubSeq(Items, idx, e) # << >> /\ Head(SubSeq(Items, idx, e)) = Items[idx]
        /\ Tail(SubSeq(Items, idx, e)) = SubSeq(Items, idx + 1, e)
    <3>1. Items \in Seq(Item) /\ idx \in 1..Len(Items) /\ e \in idx..Len(Items)
      BY <1>3, <2>1 DEF e
    <3> QED
      BY <3>1, RestOfPart
  <2> QED
    BY <1>6, <2>2 DEF e
<1>8. Data!NextItem = Items[idx] /\ Items[idx].ctu = At(idx) /\ At(idx) \in Nat
  <2>1. Data!NextItem = Items[idx]
    BY <1>4, <1>7 DEF Data!NextItem
  <2>2. At(idx) \in Nat
    BY <1>2, ListInOrder
  <2> QED
    BY <1>2, <1>3, <2>1, <2>2
<1>9. Data!NextItem # Data!NothingLeft
  BY <1>8 DEF Data!NothingLeft, Data!None
<1>10. /\ decoder'.subs = [decoder.subs EXCEPT ![sub] = Tail(@)]
       /\ decoder'.sub = sub + IF next THEN 1 ELSE 0
  <2> DEFINE ends == idx < Len(Data!ctus) /\ Data!EndsSubstream /\ sps.entryPointPresent
  <2>1. PICK ctx, sync, bins, prevQp :
          decoder' = [ctx |-> ctx, sync |-> sync, bins |-> bins, prevQp |-> prevQp,
                      subs |-> IF Data!NextItem = Data!NothingLeft THEN decoder.subs
                               ELSE [decoder.subs EXCEPT ![decoder.sub] = Tail(@)],
                      sub |-> decoder.sub + (IF ends THEN 1 ELSE 0)]
    BY DEF Data!DecodeCtu
  <2>2. sps.wpp \in BOOLEAN
    BY DEF CodedTyped
  <2>3. Data!ctus = List
    BY DEF Data!ctus, List
  <2>4. ends <=> next
    BY <2>2, <2>3, EndRules
  <2> HIDE DEF ends, next
  <2> QED
    BY <1>9, <2>1, <2>4
<1>11. phase' = "decode"
  BY <1>1, <1>8 DEF Data!ctu, Data!ctus, At
<1>12. Items' = Items /\ List' = List /\ (\A j : Stop(j)' = Stop(j))
  BY <1>1, SameEnds DEF Items, Stop
<1>13. Divided(L + 1)'
  <2>1. (\A i : At(i)' = At(i)) /\ (\A k : EndsBefore(k)' = EndsBefore(k))
    BY <1>1, SameEnds
  <2>2. (L + 1)' = L + 1
    BY <1>12
  <2> QED
    BY <1>1, <1>12, <2>1, <2>2 DEF Divided
<1>14. /\ next <=> sub < n /\ idx = Stop(sub)
       /\ next => sub + 1 \in 1..n /\ bd[sub + 1] = idx
  <2>1. ASSUME next PROVE sub < n /\ idx = Stop(sub)
    <3>1. PICK j \in 1..(n - 1) : Stop(j) = idx
      <4>1. idx \in 1..(L - 1)
        BY <1>2, <2>1
      <4> QED
        BY <1>3, <2>1, <4>1
    <3>2. bd[j + 1] = idx
      BY <1>3, <3>1
    <3>3. j + 1 \in 1..n /\ j \in 1..n /\ j \in Nat /\ sub \in Nat
      BY <1>3, <1>4
    <3>4. ~(j < sub)
      <4>1. SUFFICES ASSUME j < sub PROVE FALSE
        OBVIOUS
      <4>2. bd[j + 1] \in Nat /\ bd[sub] \in Nat /\ (j + 1 < sub => bd[j + 1] < bd[sub])
        BY <1>3, <1>4, <3>3
      <4>3. j + 1 = sub \/ j + 1 < sub
        BY <3>3, <4>1
      <4>4. bd[j + 1] <= bd[sub]
        BY <4>2, <4>3
      <4> QED
        BY <1>2, <1>4, <3>2, <4>2, <4>4
    <3>5. ~(j > sub)
      <4>1. SUFFICES ASSUME j > sub PROVE FALSE
        OBVIOUS
      <4>2. sub \in 1..(n - 1) /\ sub + 1 \in 1..n /\ sub + 1 < j + 1
        <5>1. j \in Int /\ j <= n - 1 /\ sub >= 1 /\ sub < j
          BY <1>3, <3>1, <3>3, <4>1, <1>4
        <5> HIDE DEF sub, n
        <5> QED
          BY <1>3, <3>3, <5>1
      <4>3. bd[sub + 1] \in Nat /\ bd[j + 1] \in Nat /\ bd[sub + 1] < bd[j + 1] /\ Stop(sub) = bd[sub + 1]
        BY <1>3, <3>3, <4>2
      <4> QED
        BY <1>2, <1>4, <3>2, <4>3
    <3> QED
      BY <1>3, <1>4, <3>1, <3>3, <3>4, <3>5
  <2>2. ASSUME sub < n, idx = Stop(sub) PROVE next
    <3>1. sub \in 1..(n - 1)
      BY <1>3, <1>4, <2>2
    <3>2. Stop(sub) \in 1..(L - 1) /\ Ends(Stop(sub)) /\ sps.entryPointPresent
      BY <1>3, <3>1
    <3> QED
      BY <1>2, <2>2, <3>2
  <2>3. next => sub + 1 \in 1..n /\ bd[sub + 1] = idx
    <3>1. SUFFICES ASSUME next PROVE sub + 1 \in 1..n /\ bd[sub + 1] = idx
      OBVIOUS
    <3>2. sub < n /\ idx = Stop(sub)
      BY <2>1, <3>1
    <3>3. sub \in 1..(n - 1) /\ sub + 1 \in 1..n
      BY <1>3, <1>4, <3>2
    <3>4. Stop(sub) = bd[sub + 1]
      BY <1>3, <3>3
    <3> QED
      BY <3>2, <3>3, <3>4
  <2> QED
    BY <2>1, <2>2, <2>3
<1> HIDE DEF next
<1> DEFINE new == IF next THEN sub + 1 ELSE sub
<1>15. new \in 1..n /\ bd[new] <= idx /\ idx <= Stop(new) /\ (idx + 1 <= L => idx + 1 <= Stop(new))
  <2>1. CASE next
    <3>1. new \in 1..n /\ bd[new] = idx /\ new = sub + 1
      BY <1>14, <2>1
    <3>2. CASE new = n
      BY <1>2, <1>3, <3>1, <3>2
    <3>3. CASE new # n
      <4>a. new \in Int /\ n \in Int /\ new >= 1 /\ new < n
        BY <1>3, <3>1, <3>3
      <4> HIDE DEF new, n
      <4>1. new \in 1..(n - 1) /\ new + 1 \in 1..n /\ new < new + 1
        BY <4>a
      <4>2. bd[new] < bd[new + 1] /\ Stop(new) = bd[new + 1] /\ bd[new + 1] \in Nat
        BY <1>3, <3>1, <4>1
      <4> QED
        BY <1>2, <3>1, <4>2
    <3> QED
      BY <3>2, <3>3
  <2>2. CASE ~next
    <3>1. new = sub /\ sub \in 1..n /\ idx <= Stop(sub) /\ bd[sub] <= idx - 1 /\ Stop(sub) \in 0..L
          /\ bd[sub] \in Nat
      BY <1>3, <1>4, <1>5, <2>2
    <3>2. idx + 1 <= L => idx + 1 <= Stop(sub)
      <4>1. CASE sub = n
        BY <1>3, <4>1
      <4>2. CASE sub # n
        <5>1. sub < n
          BY <1>3, <3>1, <4>2
        <5>2. idx # Stop(sub)
          BY <1>14, <2>2, <5>1
        <5> QED
          BY <1>2, <3>1, <5>2
      <4> QED
        BY <4>1, <4>2
    <3> QED
      BY <1>2, <3>1, <3>2
  <2> QED
    BY <2>1, <2>2
<1>16. ASSUME NEW j \in 1..n
       PROVE  decoder'.subs[j] = IF j < new THEN << >>
                                 ELSE SubSeq(Items, IF j = new THEN idx + 1 ELSE bd[j] + 1, Stop(j))
  <2>1. sub \in Nat /\ j \in Nat
    BY <1>3, <1>4
  <2>2. CASE j = sub
    <3>1. decoder'.subs[j] = SubSeq(Items, idx + 1, Stop(j))
      BY <1>4, <1>7, <1>10, <2>2
    <3>2. CASE ~next
      <4>1. new = j /\ ~(j < new)
        BY <2>1, <2>2, <3>2
      <4> QED
        BY <3>1, <4>1
    <3>3. CASE next
      <4>1. Stop(j) = idx
        BY <1>14, <2>2, <3>3
      <4>2. SubSeq(Items, idx + 1, idx) = << >>
        BY <1>2, <1>3
      <4>3. j < new
        BY <2>1, <2>2, <3>3
      <4> QED
        BY <3>1, <4>1, <4>2, <4>3
    <3> QED
      BY <3>2, <3>3
  <2>3. CASE j # sub
    <3>1. decoder'.subs[j] = decoder.subs[j]
      BY <1>4, <1>10, <2>3
    <3>2. CASE j < sub
      <4>1. j < new /\ decoder.subs[j] = << >>
        BY <1>4, <2>1, <3>2
      <4> QED
        BY <3>1, <4>1
    <3>3. CASE ~(j < sub)
      <4>1. ~(j < new)
        BY <2>1, <2>3, <3>3
      <4>2. decoder.subs[j] = SubSeq(Items, bd[j] + 1, Stop(j))
        BY <1>4, <2>3, <3>3
      <4>3. j = new => bd[j] + 1 = idx + 1
        BY <1>14, <2>3
      <4> QED
        BY <3>1, <4>1, <4>2, <4>3
    <3> QED
      BY <3>2, <3>3
  <2> QED
    BY <2>2, <2>3
<1>17. decoder'.sub = new /\ DOMAIN decoder'.subs = 1..n
  BY <1>4, <1>10
<1> HIDE DEF new
<1>18. Reading'
  <2>1. (idx + 1) - 1 = idx
    BY <1>2
  <2> QED
    BY <1>1, <1>12, <1>15, <1>16, <1>17, <2>1 DEF Reading
<1> QED
  BY <1>2, <1>8, <1>11, <1>13, <1>18

\* When the last CTU is decoded, nothing is left.
LEMMA AllRead ==
  ASSUME MapsInOrder, Looping, Shapes, CodedTyped, Divided(Len(List) + 1), Reading,
         idx > Len(List), NEW i \in DOMAIN decoder.subs
  PROVE  decoder.subs[i] = << >>
<1> DEFINE L == Len(List)  n == Len(coder.sizes) + 1  sub == decoder.sub
           bd == Boundaries(coder.sizes)
<1>1. idx = L + 1 /\ L \in Nat
  BY ListInOrder
<1>2. /\ n \in Nat /\ n >= 1 /\ Stop(n) = L /\ Items \in Seq(Item)
      /\ \A j \in 1..(n - 1) : Stop(j) \in 1..(L - 1)
  BY StopsMean
<1>3. /\ DOMAIN decoder.subs = 1..n /\ sub \in 1..n /\ idx - 1 <= Stop(sub)
      /\ \A j \in 1..n : decoder.subs[j] =
           IF j < sub THEN << >>
           ELSE SubSeq(Items, IF j = sub THEN idx ELSE bd[j] + 1, Stop(j))
  BY DEF Reading
<1>4. sub = n
  <2>1. SUFFICES ASSUME sub # n PROVE FALSE
    OBVIOUS
  <2>a. sub \in 1..(n - 1)
    <3>1. n \in Nat /\ sub \in 1..n
      BY <1>2, <1>3
    <3> HIDE DEF n, sub
    <3> QED
      BY <2>1, <3>1
  <2>2. Stop(sub) \in 1..(L - 1)
    BY <1>2, <2>a
  <2> QED
    BY <1>1, <1>3, <2>2
<1>5. i \in 1..n /\ (i < n \/ i = n)
  BY <1>2, <1>3
<1>6. CASE i < n
  BY <1>3, <1>4, <1>5, <1>6
<1>7. CASE i = n
  <2>1. decoder.subs[n] = SubSeq(Items, L + 1, L)
    <3>1. n \in 1..n /\ ~(n < n) /\ sub = n
      BY <1>2, <1>4
    <3> HIDE DEF n, sub
    <3> QED
      BY <1>1, <1>2, <1>3, <3>1
  <2>2. SubSeq(Items, L + 1, L) = << >>
    BY <1>1, <1>2
  <2> QED
    BY <1>7, <2>1, <2>2
<1> QED
  BY <1>5, <1>6, <1>7

\* A slice begins with an empty substream.
LEMMA FirstDivided ==
  ASSUME MapsInOrder', Looping', Shapes', coder'.subs = << << >> >>, coder'.numSubstream = 0,
         coder'.sizes = << >>, (sps.entryPointPresent \in BOOLEAN)'
  PROVE  Divided(1)'
<1>1. Len(List') \in Nat
  <2>1. slice' \in DOMAIN layout'.map /\ MapInOrder(layout.pic, layout.map)'
    BY DEF MapsInOrder, Looping, Shapes
  <2>2. InOrder(layout'.pic, List')
    BY <2>1 DEF MapInOrder, List
  <2>3. List' \in Seq(Nat)
    BY <2>2 DEF InOrder
  <2> QED
    BY <2>3
<1>2. EndsBefore(1)' = {}
  <2>1. \A i \in 1..(Len(List') - 1) : ~(i < 1)
    BY <1>1
  <2> QED
    BY <2>1 DEF EndsBefore
<1>3. Items' = << >>
  BY FlattenEmpty DEF Items
<1>4. /\ << << >> >> \in Seq(Seq(Item)) /\ Len(<< << >> >>) = 1 /\ << << >> >>[1] = << >>
      /\ << >> \in Seq(Positive) /\ Len(<< >>) = 0
  OBVIOUS
<1>5. Boundaries(<< >>)[0 + 1] = 0
  <2>1. << >> \in Seq(Int)
    OBVIOUS
  <2>2. Boundaries(<< >>)[1] = 0
    BY <2>1, BoundariesMeans
  <2> QED
    BY <2>2
<1>6. {Boundaries(<< >>)[j + 1] : j \in 1..0} = {}
  OBVIOUS
<1>7. Cardinality({}) = 0
  BY FS_EmptySet
<1>8. \A i \in 1..(1 - 1) : Items'[i].ctu = At(i)'
  OBVIOUS
<1>9. coder'.subs \in Seq(Seq(Item)) /\ coder'.numSubstream \in Nat
      /\ Len(coder'.subs) = coder'.numSubstream + 1
  BY <1>4
<1>10. Len(Items') = 1 - 1
  BY <1>3, <1>4
<1>11. /\ coder'.sizes \in Seq(Positive) /\ Len(coder'.sizes) = coder'.numSubstream
       /\ EndsBefore(1)' = {Boundaries(coder'.sizes)[j + 1] : j \in 1..Len(coder'.sizes)}
       /\ Boundaries(coder'.sizes)[Len(coder'.sizes) + 1] + Len(coder'.subs[Len(coder'.subs)]) = 1 - 1
  <2>1. Len(coder'.subs[Len(coder'.subs)]) = 0
    BY <1>4
  <2> QED
    BY <1>2, <1>4, <1>5, <1>6, <2>1
<1> QED
  BY <1>2, <1>7, <1>8, <1>9, <1>10, <1>11 DEF Divided

\* The loops leave the data where it was when neither of them takes a step.
LEMMA DataUnchanged ==
  ASSUME FitInv, UNCHANGED dataVars, MapsInOrder'
  PROVE  FitInv'
<1>1. UNCHANGED <<layout, sps, phase, slice, idx, coder, decoder, coded, decoded>>
  BY DEF dataVars
<1>2. List' = List /\ (\A i : At(i)' = At(i)) /\ (\A k : EndsBefore(k)' = EndsBefore(k))
  BY <1>1, SameEnds
<1>3. Items' = Items /\ (\A j : Stop(j)' = Stop(j)) /\ Data!Ctus' = Data!Ctus
  BY <1>1, <1>2 DEF Items, Stop, Data!Ctus, Data!pic
<1>4. \A k : Divided(k) => Divided(k)'
  BY <1>1, <1>2, <1>3 DEF Divided
<1>5. Reading => Reading'
  BY <1>1, <1>2, <1>3 DEF Reading
<1>6. CodedTyped => CodedTyped'
  BY <1>1, <1>3 DEF CodedTyped
<1>7. Looping' <=> Looping
  BY <1>1 DEF Looping
<1> DEFINE k == IF phase = "encode" THEN idx ELSE Len(List) + 1
<1>8. k' = k
  BY <1>1, <1>2
<1>9. Looping => Divided(k)
  BY DEF FitInv
<1>10. Looping' => Divided(k)'
  BY <1>4, <1>7, <1>8, <1>9
<1> QED
  BY <1>1, <1>5, <1>6, <1>7, <1>10 DEF FitInv

\* Every step keeps the data where both loops expect it.
LEMMA FitStep ==
  ASSUME LoopInv, LoopInv', FitInv, [PictureNext]_<<vars, dataVars>>
  PROVE  FitInv'
<1>1. MapsInOrder' /\ MapsInOrder /\ MapsChecked /\ phase # "error"
  BY MapsStayInOrder DEF FitInv, LoopInv
<1>2. CASE Partition \/ UNCHANGED <<vars, dataVars>>
  BY <1>1, <1>2, DataUnchanged DEF Partition
<1>3. CASE Begin
  <2>1. /\ phase' = "encode" /\ idx' = 1 /\ coded' = [c \in Data!Ctus' |-> [ctx |-> << >>, qp |-> Data!None]]
        /\ sps' \in [wpp : BOOLEAN, entryPointPresent : BOOLEAN]
        /\ coder'.subs = << << >> >> /\ coder'.numSubstream = 0 /\ coder'.sizes = << >>
        /\ coder'.prevQp = Data!SliceQp
    BY <1>3 DEF Begin, Data!StartPicture, Data!Ctus, Data!pic
  <2>2. Looping' /\ Shapes'
    BY <2>1 DEF Looping, LoopInv
  <2>3. Divided(1)'
    BY <1>1, <2>1, <2>2, FirstDivided
  <2>4. CodedTyped'
    BY <2>1 DEF CodedTyped, Data!None, Data!SliceQp
  <2>5. Divided(idx)'
    BY <2>1, <2>3
  <2> QED
    BY <1>1, <2>1, <2>4, <2>5 DEF FitInv
<1>4. CASE EncodeCtu
  <2>1. /\ Looping /\ Shapes /\ CodedTyped /\ Divided(idx) /\ Data!EncodeCtu
    BY <1>4 DEF EncodeCtu, Data!EncodeCtu, Looping, LoopInv, FitInv
  <2>2. phase' = "encode" /\ Divided(idx)'
    BY <1>1, <2>1, DividedStep, EncodeFields
  <2>3. CodedTyped'
    <3>1. /\ UNCHANGED <<layout, sps>> /\ coder'.prevQp = Data!QpOf(At(idx)) /\ idx \in 1..Len(List)
          /\ \E ctx : coded' = [coded EXCEPT ![At(idx)] = [ctx |-> ctx, qp |-> Data!QpOf(At(idx))]]
      BY <1>1, <2>1, EncodeFields
    <3>2. Data!QpOf(At(idx)) \in Int
      BY <1>1, <2>1, <3>1, NewItemTyped
    <3>3. Data!Ctus' = Data!Ctus /\ DOMAIN coded = Data!Ctus
      BY <2>1, <3>1 DEF Data!Ctus, Data!pic, Shapes
    <3>4. \A c \in Data!Ctus : coded'[c].qp \in Int
      <4>1. PICK ctx : coded' = [coded EXCEPT ![At(idx)] = [ctx |-> ctx, qp |-> Data!QpOf(At(idx))]]
        BY <3>1
      <4> QED
        BY <2>1, <3>2, <3>3, <4>1 DEF CodedTyped
    <3> QED
      BY <2>1, <3>1, <3>2, <3>3, <3>4 DEF CodedTyped
  <2> QED
    BY <1>1, <2>2, <2>3 DEF FitInv
<1>5. CASE WriteSliceData
  <2>1. /\ Looping /\ Shapes /\ CodedTyped /\ Divided(idx) /\ Data!WriteSlice
    BY <1>5 DEF WriteSliceData, Data!WriteSlice, Looping, LoopInv, FitInv
  <2>2. phase' = "decode" /\ Reading' /\ Divided(Len(List) + 1)'
    BY <1>1, <2>1, WriteReading
  <2>3. CodedTyped'
    <3>1. UNCHANGED <<layout, sps, coder, coded>>
      BY <2>1 DEF Data!WriteSlice
    <3>2. Data!Ctus' = Data!Ctus
      BY <3>1 DEF Data!Ctus, Data!pic
    <3> QED
      BY <2>1, <3>1, <3>2 DEF CodedTyped
  <2> QED
    BY <1>1, <2>2, <2>3 DEF FitInv
<1>6. CASE DecodeCtu
  <2>1. /\ phase = "decode" /\ Looping /\ Shapes /\ CodedTyped /\ Divided(Len(List) + 1) /\ Reading
        /\ Data!DecodeCtu
    BY <1>6 DEF DecodeCtu, Data!DecodeCtu, Looping, LoopInv, FitInv
  <2>2. phase' = "decode" /\ Reading' /\ Divided(Len(List) + 1)'
    BY <1>1, <2>1, ReadingStep
  <2>3. CodedTyped'
    <3>1. UNCHANGED <<layout, sps, coder, coded>>
      BY <2>1 DEF Data!DecodeCtu
    <3>2. Data!Ctus' = Data!Ctus
      BY <3>1 DEF Data!Ctus, Data!pic
    <3> QED
      BY <2>1, <3>1, <3>2 DEF CodedTyped
  <2> QED
    BY <1>1, <2>2, <2>3 DEF FitInv
<1>7. CASE NextSlice
  <2>1. Data!NextSlice /\ phase = "decode" /\ Looping /\ Shapes /\ CodedTyped
    BY <1>7 DEF NextSlice, Data!NextSlice, Looping, LoopInv, FitInv
  <2>2. CASE slice < Len(layout.map)
    <3>1. /\ phase' = "encode" /\ idx' = 1 /\ UNCHANGED <<layout, sps, coded>>
          /\ coder' = [coder EXCEPT !.ctx = << >>, !.prevQp = Data!SliceQp,
                                    !.subs = << << >> >>, !.numSubstream = 0, !.sizes = << >>]
      BY <2>1, <2>2 DEF Data!NextSlice, Data!StartSlice
    <3>2. /\ coder'.subs = << << >> >> /\ coder'.numSubstream = 0 /\ coder'.sizes = << >>
          /\ coder'.prevQp = Data!SliceQp
      <4>1. {"subs", "numSubstream", "sizes", "prevQp"} \subseteq DOMAIN coder
        BY <2>1 DEF Shapes, IsCoder
      <4> QED
        BY <3>1, <4>1
    <3>3. Looping' /\ Shapes'
      BY <3>1 DEF Looping, LoopInv
    <3>4. CodedTyped'
      <4>1. Data!Ctus' = Data!Ctus
        BY <3>1 DEF Data!Ctus, Data!pic
      <4> QED
        BY <2>1, <3>1, <3>2, <4>1 DEF CodedTyped, Data!SliceQp
    <3>5. Divided(1)'
      BY <1>1, <3>2, <3>3, <3>4, FirstDivided DEF CodedTyped
    <3>6. Divided(idx)'
      BY <3>1, <3>5
    <3> QED
      BY <1>1, <3>1, <3>4, <3>6 DEF FitInv
  <2>3. CASE ~(slice < Len(layout.map))
    <3>1. phase' = "done"
      BY <2>1, <2>3 DEF Data!NextSlice
    <3> QED
      BY <1>1, <3>1 DEF FitInv, Looping
  <2> QED
    BY <2>2, <2>3
<1> QED
  BY <1>2, <1>3, <1>4, <1>5, <1>6, <1>7 DEF PictureNext

\* The invariant of the data holds throughout.
LEMMA FitInvariant == PictureSpec => []FitInv
<1>1. PictureInit => FitInv
  <2> SUFFICES ASSUME Init, Data!Init PROVE FitInv
    BY DEF PictureInit
  <2>1. phase = "none" /\ stage = "slices" /\ slices = << >> /\ "map" \in DOMAIN enc
    BY DEF Init, Data!Init
  <2>2. MapsInOrder
    BY <2>1, PicturesAreTiled DEF MapsInOrder
  <2> QED
    BY <2>1, <2>2 DEF FitInv, Looping
<1>2. LoopInv /\ LoopInv' /\ FitInv /\ [PictureNext]_<<vars, dataVars>> => FitInv'
  BY FitStep
<1> QED
  BY <1>1, <1>2, LoopInvariant, PTL DEF PictureSpec

\* SubstreamsFit: whatever the tiles, the slices and the wavefronts, no CTU is
\* decoded from the data of another one, none of the data of a slice is left, and
\* the entry points the writer counts are those it has sizes for.
THEOREM DataReachesItsCtu == PictureSpec => []SubstreamsFit
<1>1. LoopInv /\ FitInv => SubstreamsFit
  <2> SUFFICES ASSUME LoopInv, FitInv PROVE SubstreamsFit
    OBVIOUS
  <2>1. phase # "error" /\ MapsInOrder
    BY DEF FitInv
  <2>2. CASE phase # "decode"
    BY <2>1, <2>2 DEF SubstreamsFit, Data!SubstreamsFit, Data!ReadsOwnData, Data!EntryPointsCounted
  <2>3. CASE phase = "decode"
    <3>1. Looping /\ Shapes /\ CodedTyped /\ Divided(Len(List) + 1) /\ Reading
      BY <2>3 DEF FitInv, LoopInv, Looping
    <3>2. Data!ctus = List
      BY DEF Data!ctus, List
    <3>3. Data!ReadsOwnData
      BY <2>1, <3>1, <3>2, AllRead DEF Data!ReadsOwnData
    <3>4. sps.wpp \in BOOLEAN /\ sps.entryPointPresent \in BOOLEAN
      BY <3>1 DEF CodedTyped
    <3>5. EndsBefore(Len(List) + 1) = EndsBefore(Len(List))
      <4>1. Len(List) \in Nat
        BY <2>1, <3>1, ListInOrder
      <4> QED
        BY <4>1 DEF EndsBefore
    <3>6. /\ Data!NumSubstreams = Cardinality(EndsBefore(Len(List)))
          /\ Data!NumEntryPoints =
              IF sps.entryPointPresent THEN Cardinality(EndsBefore(Len(List))) ELSE 0
      BY <2>1, <3>1, <3>4, EndRules
    <3>7. /\ coder.numSubstream = Cardinality(EndsBefore(Len(List) + 1))
          /\ sps.entryPointPresent => Len(coder.sizes) = coder.numSubstream
          /\ ~sps.entryPointPresent => Len(coder.sizes) = 0
      BY <3>1 DEF Divided
    <3>8. Data!EntryPointsCounted
      BY <3>4, <3>5, <3>6, <3>7 DEF Data!EntryPointsCounted
    <3> QED
      BY <3>3, <3>8 DEF SubstreamsFit, Data!SubstreamsFit
  <2> QED
    BY <2>2, <2>3
<1> QED
  BY <1>1, LoopInvariant, FitInvariant, PTL

-----------------------------------------------------------------------------
(* QPs.                                                                     *)

\* The slice in hand stays in one tile.
InOneTile ==
  \A i, j \in 1..Len(List) : TileIdx(layout.pic, At(i)) = TileIdx(layout.pic, At(j))

\* The QP before CTU k, and the one predicted for it: from above where a row of the
\* tile begins.
PrevQp(k) == IF k = 1 THEN Data!SliceQp ELSE Data!QpOf(At(k - 1))
Predicted(k) ==
  IF k > 1 /\ CtuIsTileColBd(layout.pic, At(k))
  THEN Data!QpOf(At(k) - layout.pic.width) ELSE PrevQp(k)

\* The CTUs up to number n are coded with their QPs.
QpsCoded(n) ==
  /\ \A i \in 1..n : coded[At(i)].qp = Data!QpOf(At(i))
  /\ InOneTile => \A i \in 1..n : Items[i].delta = Data!QpOf(At(i)) - Predicted(i)

QpInv ==
  /\ Data!QpsAgreeInOneTile
  /\ phase = "encode" => coder.prevQp = PrevQp(idx) /\ QpsCoded(idx - 1)
  /\ phase = "decode" =>
       /\ QpsCoded(Len(List))
       /\ InOneTile => /\ decoder.prevQp = PrevQp(idx)
                       /\ \A i \in 1..(idx - 1) : decoded[At(i)].qp = Data!QpOf(At(i))

\* Every CTU of the picture is in a slice of a checked map.
LEMMA MapCovers ==
  ASSUME NEW p, NEW map, IsSliceMap(p, map), NEW c \in 0..(p.width * p.height - 1)
  PROVE  \E s \in DOMAIN map : \E i \in DOMAIN map[s] : map[s][i] = c
<1> DEFINE places == UNION {{s} \X DOMAIN map[s] : s \in DOMAIN map}
           ctuAt == [q \in places |-> map[q[1]][q[2]]]
<1>1. Range(ctuAt) = 0..(p.width * p.height - 1)
  BY DEF IsSliceMap
<1>2. PICK q \in places : ctuAt[q] = c
  <2>1. Range(ctuAt) = {ctuAt[q] : q \in DOMAIN ctuAt} /\ DOMAIN ctuAt = places
    BY DEF Range
  <2> HIDE DEF ctuAt, places
  <2> QED
    BY <1>1, <2>1
<1>3. PICK s \in DOMAIN map : q \in {s} \X DOMAIN map[s]
  BY <1>2
<1>4. q[1] = s /\ q[2] \in DOMAIN map[s] /\ map[q[1]][q[2]] = c
  BY <1>2, <1>3
<1> QED
  BY <1>4

\* A CTU of the slice in hand is in this slice.
LEMMA SliceOfCtu ==
  ASSUME MapsChecked, Looping, Shapes
  PROVE  /\ \A i \in 1..Len(List) : Data!SliceIdx(At(i)) = slice
         /\ \A c \in Data!Ctus : Data!SliceIdx(c) = slice => \E i \in 1..Len(List) : At(i) = c
<1>1. IsSliceMap(layout.pic, layout.map) /\ slice \in DOMAIN layout.map
  BY DEF MapsChecked, Looping, Shapes
<1>2. Data!Ctus = 0..(layout.pic.width * layout.pic.height - 1)
  BY DEF Data!Ctus, Data!pic
<1>3. DOMAIN layout.map[slice] = 1..Len(List) /\ \A i : layout.map[slice][i] = At(i)
  BY CtusOfSlice DEF List, At
<1>4. ASSUME NEW i \in 1..Len(List) PROVE Data!SliceIdx(At(i)) = slice
  <2>1. \E s \in DOMAIN layout.map : \E j \in DOMAIN layout.map[s] : layout.map[s][j] = At(i)
    BY <1>1, <1>3
  <2>2. \A s \in DOMAIN layout.map : (\E j \in DOMAIN layout.map[s] : layout.map[s][j] = At(i)) => s = slice
    <3>1. i \in 1..Len(layout.map[slice])
      BY DEF List
    <3> QED
      BY <3>1, CtusOfSlice
  <2> QED
    BY <2>1, <2>2 DEF Data!SliceIdx
<1>5. ASSUME NEW c \in Data!Ctus, Data!SliceIdx(c) = slice PROVE \E i \in 1..Len(List) : At(i) = c
  <2>1. \E s \in DOMAIN layout.map : \E i \in DOMAIN layout.map[s] : layout.map[s][i] = c
    BY <1>1, <1>2, MapCovers
  <2>2. \E i \in DOMAIN layout.map[slice] : layout.map[slice][i] = c
    BY <1>5, <2>1 DEF Data!SliceIdx
  <2> QED
    BY <1>3, <2>2
<1> QED
  BY <1>4, <1>5

\* A slice in one tile goes down row by row, each from the left of the tile.
LEMMA RowsOfOneTile ==
  ASSUME MapsInOrder, Looping, Shapes, InOneTile, NEW k \in 1..Len(List)
  PROVE  LET p == layout.pic
         IN /\ CtuY(p, At(1)) <= CtuY(p, At(k))
            /\ \E j \in 1..k : CtuIsTileColBd(p, At(j)) /\ CtuY(p, At(j)) = CtuY(p, At(k))
            /\ k < Len(List) =>
                 \/ CtuY(p, At(k + 1)) = CtuY(p, At(k)) /\ ~CtuIsTileColBd(p, At(k + 1))
                 \/ CtuY(p, At(k + 1)) = CtuY(p, At(k)) + 1 /\ ~CtuIsTileRowBd(p, At(k + 1))
<1> DEFINE p == layout.pic  L == Len(List)
           Left(i) == \E j \in 1..i : CtuIsTileColBd(p, At(j)) /\ CtuY(p, At(j)) = CtuY(p, At(i))
           S == {i \in 1..L : CtuY(p, At(1)) <= CtuY(p, At(i)) /\ Left(i)}
<1>1. /\ IsTiled(p) /\ InOrder(p, List) /\ L \in Nat /\ L >= 1
      /\ \A i \in 1..L : /\ At(i) = List[i]
                         /\ CtuX(p, At(i)) \in 0..(p.width - 1)
                         /\ CtuY(p, At(i)) \in 0..(p.height - 1)
      /\ \A i \in 1..(L - 1) : Follows(p, At(i), At(i + 1))
  BY ListInOrder
<1>2. p.height \in Nat /\ \A i \in 1..L : CtuY(p, At(i)) \in Nat
  BY <1>1 DEF IsTiled, Positive
<1>3. ASSUME NEW i \in 1..(L - 1)
      PROVE  \/ CtuY(p, At(i + 1)) = CtuY(p, At(i)) /\ ~CtuIsTileColBd(p, At(i + 1))
             \/ /\ CtuY(p, At(i + 1)) = CtuY(p, At(i)) + 1
                /\ CtuIsTileColBd(p, At(i + 1)) /\ ~CtuIsTileRowBd(p, At(i + 1))
  <2>1. i \in 1..L /\ i + 1 \in 1..L
    BY <1>1
  <2> DEFINE c == At(i)  d == At(i + 1)
  <2>2. /\ CtuX(p, c) \in 0..(p.width - 1) /\ CtuY(p, c) \in 0..(p.height - 1)
        /\ CtuX(p, d) \in 0..(p.width - 1) /\ CtuY(p, d) \in 0..(p.height - 1)
        /\ Follows(p, c, d)
    BY <1>1, <2>1
  <2>3. TileIdx(p, c) = TileIdx(p, d)
    BY <2>1 DEF InOneTile
  <2> HIDE DEF c, d, p
  <2>4. Col(p, c) = Col(p, d) /\ Row(p, c) = Row(p, d)
    BY <1>1, <2>2, <2>3, TileIdxMeans
  <2>5. InRow(p, c, d) \/ InNextRow(p, c, d)
    BY <2>2, <2>4 DEF Follows, InOtherTile
  <2>6. \/ CtuY(p, d) = CtuY(p, c) /\ ~CtuIsTileColBd(p, d)
        \/ /\ CtuY(p, d) = CtuY(p, c) + 1
           /\ CtuIsTileColBd(p, d) /\ ~CtuIsTileRowBd(p, d)
    BY <2>5 DEF InRow, InNextRow
  <2> QED
    BY <2>6 DEF c, d
<1>4. CtuIsTileColBd(p, At(1))
  <2>1. CtuIsTileColBd(p, List[1])
    BY <1>1 DEF InOrder
  <2> QED
    BY <1>1, <2>1
<1>5. 1 \in S
  <2>1. 1 \in 1..L /\ 1 \in 1..1
    BY <1>1
  <2>2. Left(1)
    BY <1>4, <2>1
  <2> QED
    BY <1>2, <2>1, <2>2
<1>6. ASSUME NEW i \in S, i < L PROVE i + 1 \in S
  <2>1. i \in 1..(L - 1) /\ i \in 1..L /\ i + 1 \in 1..L /\ 1 \in 1..L
    BY <1>1, <1>6
  <2>2. PICK j \in 1..i : CtuIsTileColBd(p, At(j)) /\ CtuY(p, At(j)) = CtuY(p, At(i))
    OBVIOUS
  <2>3. /\ CtuY(p, At(1)) \in Nat /\ CtuY(p, At(i)) \in Nat /\ CtuY(p, At(i + 1)) \in Nat
        /\ CtuY(p, At(1)) <= CtuY(p, At(i))
    BY <1>2, <2>1
  <2>4. j \in 1..(i + 1) /\ i + 1 \in 1..(i + 1)
    BY <2>1
  <2>5. CASE CtuY(p, At(i + 1)) = CtuY(p, At(i)) /\ ~CtuIsTileColBd(p, At(i + 1))
    <3>1. Left(i + 1)
      BY <2>2, <2>4, <2>5
    <3> HIDE DEF Left
    <3> QED
      BY <2>1, <2>3, <2>5, <3>1
  <2>6. CASE /\ CtuY(p, At(i + 1)) = CtuY(p, At(i)) + 1
             /\ CtuIsTileColBd(p, At(i + 1)) /\ ~CtuIsTileRowBd(p, At(i + 1))
    <3>1. Left(i + 1)
      BY <2>4, <2>6
    <3>2. CtuY(p, At(1)) <= CtuY(p, At(i + 1))
      BY <2>3, <2>6
    <3> HIDE DEF Left
    <3> QED
      BY <2>1, <3>1, <3>2
  <2> QED
    BY <1>3, <2>1, <2>5, <2>6
<1>7. S = 1..L
  <2>1. 1 \in Nat /\ L \in Nat /\ 1 <= L /\ S \in SUBSET (1..L) /\ 1 \in S /\ \A i \in S : i < L => i + 1 \in S
    BY <1>1, <1>5, <1>6
  <2> HIDE DEF S, L
  <2> QED
    BY <2>1, InductionUpTo
<1>8. CtuY(p, At(1)) <= CtuY(p, At(k)) /\ Left(k)
  <2>1. k \in S
    BY <1>7
  <2> HIDE DEF Left
  <2> QED
    BY <2>1
<1>9. k < L => k \in 1..(L - 1)
  BY <1>1
<1> QED
  BY <1>3, <1>8, <1>9

\* In a slice in one tile, the CTU above the first of a row is in the slice, and
\* there is none above the first row.
LEMMA AboveInOneTile ==
  ASSUME MapsChecked, MapsInOrder, Looping, Shapes, InOneTile, NEW k \in 1..Len(List)
  PROVE  /\ ~HasAbove(1)
         /\ k > 1 /\ CtuIsTileColBd(layout.pic, At(k)) =>
              /\ HasAbove(k) /\ ~CtuIsTileRowBd(layout.pic, At(k))
              /\ \E j \in 1..(k - 1) : At(j) = At(k) - layout.pic.width
<1> DEFINE p == layout.pic  L == Len(List)  w == p.width
<1>1. /\ IsTiled(p) /\ L \in Nat
      /\ \A i \in 1..L : /\ At(i) \in Nat
                         /\ CtuX(p, At(i)) \in 0..(p.width - 1)
                         /\ CtuY(p, At(i)) \in 0..(p.height - 1)
  BY ListInOrder
<1>2. w \in Nat /\ w >= 1 /\ p.height \in Nat
  BY <1>1 DEF IsTiled, Positive
<1>3. 1 \in 1..L /\ k \in Nat
  BY <1>1
<1>4. ~HasAbove(1)
  <2>1. SUFFICES ASSUME HasAbove(1) PROVE FALSE
    OBVIOUS
  <2>2. CtuY(p, At(1)) > 0 /\ Data!SliceIdx(At(1) - w) = slice
    BY <2>1, SameOperators DEF HasAbove
  <2>3. At(1) - w \in Data!Ctus
    BY <1>3, <2>2, AboveIsInPicture
  <2>4. PICK i \in 1..L : At(i) = At(1) - w
    BY <2>2, <2>3, SliceOfCtu
  <2>5. CtuY(p, At(1)) <= CtuY(p, At(i))
    BY RowsOfOneTile
  <2> DEFINE a == At(1)  b == At(i)
  <2>6. CtuY(p, a) = a \div w /\ CtuY(p, b) = b \div w /\ a \in Nat /\ b \in Nat /\ b = a - w
    BY <1>1, <1>3, <2>4 DEF CtuY
  <2>7. b \div w < a \div w
    <3> HIDE DEF a, b, w
    <3>1. b = w * (b \div w) + (b % w) /\ a = w * (a \div w) + (a % w)
          /\ a % w \in 0..(w - 1) /\ b % w \in 0..(w - 1) /\ a \div w \in Int /\ b \div w \in Int
      BY <1>2, <2>6
    <3> DEFINE q == a \div w  r == a % w  t == b \div w  d == t - q
    <3>2. SUFFICES ASSUME d \in Nat PROVE FALSE
      BY <3>1
    <3>3. /\ b = w * t + (b % w) /\ a = w * q + r /\ r \in 0..(w - 1) /\ b % w \in 0..(w - 1)
          /\ q \in Int /\ t = q + d
      BY <3>1
    <3> HIDE DEF q, r, t, d
    <3>4. w \in Nat /\ q \in Int /\ d \in Nat
      BY <1>2, <3>2, <3>3
    <3>5. w * d \in Nat /\ w * q \in Int
      BY <3>4
    <3>6. w * (q + d) = w * q + w * d
      BY <3>4
    <3>7. b = w * q + w * d + (b % w) /\ a = w * q + r
      BY <3>3, <3>6
    <3> DEFINE u == w * q  v == w * d  z == b % w
    <3>8. /\ u \in Int /\ v \in Nat /\ z \in Nat /\ r < w /\ r \in Nat /\ w \in Nat
          /\ b = u + v + z /\ a = u + r /\ b = a - w
      BY <2>6, <3>3, <3>4, <3>5, <3>7
    <3> HIDE DEF u, v, z
    <3> QED
      BY <3>8
  <2>8. a \div w \in Int /\ b \div w \in Int
    BY <1>2, <2>6
  <2> HIDE DEF a, b, w
  <2>9. a \div w <= b \div w
    BY <2>5, <2>6 DEF a, b
  <2> QED
    BY <2>7, <2>8, <2>9
<1>5. ASSUME k > 1, CtuIsTileColBd(p, At(k))
      PROVE  /\ HasAbove(k) /\ ~CtuIsTileRowBd(p, At(k))
             /\ \E j \in 1..(k - 1) : At(j) = At(k) - w
  <2>1. k - 1 \in 1..L /\ k - 1 < L /\ (k - 1) + 1 = k
    BY <1>3, <1>5
  <2>2. /\ \E j \in 1..(k - 1) : CtuIsTileColBd(p, At(j)) /\ CtuY(p, At(j)) = CtuY(p, At(k - 1))
        /\ \/ CtuY(p, At((k - 1) + 1)) = CtuY(p, At(k - 1)) /\ ~CtuIsTileColBd(p, At((k - 1) + 1))
           \/ CtuY(p, At((k - 1) + 1)) = CtuY(p, At(k - 1)) + 1 /\ ~CtuIsTileRowBd(p, At((k - 1) + 1))
    BY <2>1, RowsOfOneTile
  <2>3. CtuY(p, At(k)) = CtuY(p, At(k - 1)) + 1 /\ ~CtuIsTileRowBd(p, At(k))
    BY <1>5, <2>1, <2>2
  <2>4. PICK j \in 1..(k - 1) : CtuIsTileColBd(p, At(j)) /\ CtuY(p, At(j)) = CtuY(p, At(k - 1))
    BY <2>2
  <2>5. j \in 1..L
    BY <1>1, <1>3
  <2>6. TileIdx(p, At(j)) = TileIdx(p, At(k))
    BY <2>5 DEF InOneTile
  <2>7. Col(p, At(j)) = Col(p, At(k))
    BY <1>1, <2>5, <2>6, TileIdxMeans
  <2>8. CtuX(p, At(j)) = CtuX(p, At(k))
    BY <1>5, <2>4, <2>7 DEF CtuIsTileColBd, Col
  <2> DEFINE a == At(j)  b == At(k)
  <2>9. a \in Nat /\ b \in Nat /\ a % w = b % w /\ b \div w = (a \div w) + 1
    BY <1>1, <2>3, <2>4, <2>5, <2>8 DEF CtuX, CtuY
  <2>10. a = b - w
    <3> HIDE DEF a, b, w
    <3>1. b = w * (b \div w) + (b % w) /\ a = w * (a \div w) + (a % w)
          /\ a % w \in 0..(w - 1) /\ a \div w \in Int
      BY <1>2, <2>9
    <3> DEFINE q == a \div w  r == a % w
    <3>2. b = w * (q + 1) + r /\ a = w * q + r /\ q \in Int /\ r \in Int
      BY <2>9, <3>1
    <3> HIDE DEF q, r
    <3>3. w * (q + 1) = w * q + w /\ w * q \in Int
      BY <1>2, <3>2
    <3> QED
      BY <1>2, <3>2, <3>3
  <2>11. At(j) = At(k) - w
    BY <2>10
  <2>12. HasAbove(k)
    <3>1. CtuY(p, At(k)) > 0
      <4>1. CtuY(p, At(k - 1)) \in Nat
        BY <1>1, <1>2, <2>1
      <4> QED
        BY <2>3, <4>1
    <3>2. Data!SliceIdx(At(j)) = slice
      BY <2>5, SliceOfCtu
    <3> QED
      BY <2>6, <2>11, <3>1, <3>2, SameOperators DEF HasAbove
  <2> QED
    BY <2>3, <2>11, <2>12
<1> QED
  BY <1>4, <1>5

\* What both loops predict for the next CTU of a slice in one tile, from the QPs of
\* the CTUs before it: the QP kept is not used where a row begins.
LEMMA PredictsAlike ==
  ASSUME MapsChecked, MapsInOrder, Looping, Shapes, InOneTile, idx \in 1..Len(List),
         NEW qps, \A j \in 1..(idx - 1) : qps[At(j)].qp = Data!QpOf(At(j)),
         NEW prev, (idx > 1 /\ CtuIsTileColBd(layout.pic, At(idx))) \/ prev = PrevQp(idx)
  PROVE  Data!PredictQp([c \in Data!Ctus |-> qps[c].qp], prev) = Predicted(idx)
<1> DEFINE p == layout.pic  qp == [c \in Data!Ctus |-> qps[c].qp]
           first == CtuIsTileColBd(p, At(idx))
<1> SUFFICES Data!PredictQp(qp, prev) = Predicted(idx)
  OBVIOUS
<1>1. Data!PredictQp(qp, prev) = IF first /\ HasAbove(idx) THEN qp[At(idx) - p.width] ELSE prev
  <2>1. Data!ctu = At(idx) /\ Data!pic = p
    BY DEF Data!ctu, Data!ctus, Data!pic, At
  <2>2. Data!AboveInSliceAndTile <=> HasAbove(idx)
    BY <2>1 DEF Data!AboveInSliceAndTile, HasAbove
  <2> HIDE DEF qp
  <2> QED
    BY <2>1, <2>2, SameOperators DEF Data!PredictQp
<1>2. idx \in Nat /\ idx >= 1
  BY ListInOrder
<1>3. CASE idx = 1
  <2>1. ~HasAbove(idx) /\ prev = PrevQp(idx)
    BY <1>2, <1>3, AboveInOneTile
  <2> HIDE DEF qp, first
  <2> QED
    BY <1>1, <1>3, <2>1 DEF Predicted
<1>4. CASE idx > 1 /\ first
  <2>1. HasAbove(idx) /\ \E j \in 1..(idx - 1) : At(j) = At(idx) - p.width
    BY <1>4, AboveInOneTile
  <2>2. PICK j \in 1..(idx - 1) : At(j) = At(idx) - p.width
    BY <2>1
  <2>3. At(j) \in Data!Ctus
    <3>1. \A i \in 1..Len(List) : At(i) \in Data!Ctus
      BY CtusOfSlice DEF List
    <3>2. j \in 1..Len(List)
      BY <1>2, ListInOrder
    <3> QED
      BY <3>1, <3>2
  <2>4. qp[At(idx) - p.width] = Data!QpOf(At(idx) - p.width)
    BY <2>2, <2>3
  <2> HIDE DEF qp
  <2> QED
    BY <1>1, <1>4, <2>1, <2>4 DEF Predicted
<1>5. CASE idx > 1 /\ ~first
  <2> HIDE DEF qp
  <2> QED
    BY <1>1, <1>5 DEF Predicted
<1> QED
  BY <1>2, <1>3, <1>4, <1>5

\* QPs and predictions are numbers.
LEMMA PredictedTyped ==
  ASSUME MapsInOrder, Looping, Shapes, NEW k \in 1..Len(List)
  PROVE  Data!QpOf(At(k)) \in Int /\ Predicted(k) \in Int
<1>1. /\ Len(List) \in Nat /\ IsTiled(layout.pic)
      /\ \A i \in 1..Len(List) : At(i) \in Nat
  BY ListInOrder
<1>2. layout.pic.width \in Nat
  BY <1>1 DEF IsTiled, Positive
<1>3. k = 1 \/ k - 1 \in 1..Len(List)
  BY <1>1
<1>4. At(k) \in Nat /\ (k = 1 \/ At(k - 1) \in Nat)
  BY <1>1, <1>3
<1>5. PrevQp(k) \in Int
  BY <1>4 DEF PrevQp, Data!QpOf, Data!SliceQp
<1> QED
  BY <1>2, <1>4, <1>5 DEF Predicted, Data!QpOf

\* Predictions stay while the picture and the slice stay the same.
LEMMA SamePredictions ==
  ASSUME UNCHANGED <<layout, sps, slice>>
  PROVE  /\ List' = List /\ Data!Ctus' = Data!Ctus /\ (InOneTile' <=> InOneTile)
         /\ \A k : At(k)' = At(k) /\ PrevQp(k)' = PrevQp(k) /\ Predicted(k)' = Predicted(k)
<1>1. List' = List /\ \A i : At(i)' = At(i)
  BY SameEnds
<1>2. Data!Ctus' = Data!Ctus
  BY DEF Data!Ctus, Data!pic
<1>3. \A k : PrevQp(k)' = PrevQp(k)
  BY <1>1 DEF PrevQp
<1>4. \A k : Predicted(k)' = Predicted(k)
  BY <1>1, <1>3 DEF Predicted
<1>5. InOneTile' <=> InOneTile
  BY <1>1 DEF InOneTile
<1> QED
  BY <1>1, <1>2, <1>3, <1>4, <1>5

\* The property stays when the CTUs that were decoded keep their QPs.
LEMMA QpsStay ==
  ASSUME Data!QpsAgreeInOneTile, UNCHANGED layout, Data!Decoded' \subseteq Data!Decoded,
         \A c \in Data!Decoded' : decoded'[c].qp = decoded[c].qp /\ coded'[c].qp = coded[c].qp
  PROVE  Data!QpsAgreeInOneTile'
<1>1. Data!pic' = Data!pic /\ \A c : Data!SliceIdx(c)' = Data!SliceIdx(c)
  BY DEF Data!pic, Data!SliceIdx
<1> QED
  BY <1>1 DEF Data!QpsAgreeInOneTile

\* The encoder codes the next CTU with its QP, as the difference to what is
\* predicted for it.
LEMMA QpsEncoded ==
  ASSUME LoopInv, FitInv, QpInv, EncodeCtu
  PROVE  QpInv'
<1>1. /\ MapsChecked /\ MapsInOrder /\ Looping /\ Shapes /\ CodedTyped /\ Divided(idx) /\ DecodedPassed
      /\ phase = "encode" /\ Data!EncodeCtu
  BY DEF EncodeCtu, Data!EncodeCtu, Looping, LoopInv, FitInv
<1>2. /\ phase' = "encode" /\ idx \in 1..Len(List) /\ idx' = idx + 1
      /\ UNCHANGED <<layout, sps, slice, decoder, decoded>>
      /\ coder'.prevQp = Data!QpOf(At(idx))
      /\ \E ctx : coded' = [coded EXCEPT ![At(idx)] = [ctx |-> ctx, qp |-> Data!QpOf(At(idx))]]
  BY <1>1, EncodeFields
<1>3. PICK ctx : coded' = [coded EXCEPT ![At(idx)] = [ctx |-> ctx, qp |-> Data!QpOf(At(idx))]]
  BY <1>2
<1>4. /\ Len(List) \in Nat /\ DOMAIN coded = Data!Ctus /\ DOMAIN decoded = Data!Ctus
      /\ \A i \in 1..Len(List) : At(i) \in Data!Ctus
      /\ \A i, j \in 1..Len(List) : At(i) = At(j) => i = j
  BY <1>1, CtusOfSlice DEF Shapes, List
<1>5. coder.prevQp = PrevQp(idx) /\ QpsCoded(idx - 1)
  BY <1>1 DEF QpInv
<1>6. /\ List' = List /\ (InOneTile' <=> InOneTile)
      /\ \A k : At(k)' = At(k) /\ PrevQp(k)' = PrevQp(k) /\ Predicted(k)' = Predicted(k)
  BY <1>2, SamePredictions
<1>7. Data!QpsAgreeInOneTile'
  <2>1. Data!Decoded' = Data!Decoded /\ Data!Decoded \subseteq DOMAIN coded
    BY <1>2, <1>4 DEF Data!Decoded
  <2>2. ASSUME NEW c \in Data!Decoded PROVE coded'[c] = coded[c]
    <3>1. Passed(c) /\ c \in DOMAIN coded
      BY <1>1, <2>1 DEF DecodedPassed
    <3>2. c # At(idx)
      BY <1>1, <1>2, <3>1, PassedIsOther DEF List
    <3> QED
      BY <1>3, <3>1, <3>2
  <2> QED
    BY <1>2, <2>1, <2>2, QpsStay DEF QpInv
<1>8. \A i \in 1..idx : coded'[At(i)].qp = Data!QpOf(At(i))
  <2> TAKE i \in 1..idx
  <2>1. i \in 1..Len(List) /\ At(i) \in DOMAIN coded /\ At(idx) \in DOMAIN coded
    BY <1>2, <1>4
  <2>2. CASE i = idx
    BY <1>3, <2>1, <2>2
  <2>3. CASE i # idx
    <3>1. At(i) # At(idx) /\ i \in 1..(idx - 1)
      BY <1>2, <1>4, <2>1, <2>3
    <3>2. coded'[At(i)] = coded[At(i)]
      BY <1>3, <2>1, <3>1
    <3> QED
      BY <1>5, <3>1, <3>2 DEF QpsCoded
  <2> QED
    BY <2>2, <2>3
<1>9. ASSUME InOneTile, NEW i \in 1..idx
      PROVE  Items'[i].delta = Data!QpOf(At(i)) - Predicted(i)
  <2>1. Items' = Append(Items, NewItem) /\ Items \in Seq(Item) /\ Len(Items) = idx - 1
    BY <1>1, DividedStep DEF Divided
  <2>2. CASE i = idx
    <3>1. Items'[i] = NewItem
      BY <1>2, <2>1, <2>2
    <3>2. EncodedQp = Predicted(idx)
      <4>1. \A j \in 1..(idx - 1) : coded[At(j)].qp = Data!QpOf(At(j))
        BY <1>5 DEF QpsCoded
      <4> QED
        BY <1>1, <1>2, <1>5, <1>9, <4>1, PredictsAlike DEF EncodedQp
    <3> QED
      BY <2>2, <3>1, <3>2 DEF NewItem
  <2>3. CASE i # idx
    <3>1. i \in 1..(idx - 1)
      BY <1>2, <2>3
    <3>2. Items'[i] = Items[i]
      BY <2>1, <3>1
    <3> QED
      BY <1>5, <1>9, <3>1, <3>2 DEF QpsCoded
  <2> QED
    BY <2>2, <2>3
<1>10. QpsCoded(idx - 1)'
  <2>1. idx' - 1 = idx
    BY <1>2
  <2>2. /\ \A i \in 1..(idx' - 1) : coded'[At(i)'].qp = Data!QpOf(At(i)')
        /\ InOneTile' =>
             \A i \in 1..(idx' - 1) : Items'[i].delta = Data!QpOf(At(i)') - Predicted(i)'
    BY <1>6, <1>8, <1>9, <2>1
  <2> QED
    BY <2>2 DEF QpsCoded
<1>11. coder'.prevQp = PrevQp(idx)'
  <2>1. PrevQp(idx)' = IF idx' = 1 THEN Data!SliceQp ELSE Data!QpOf(At(idx' - 1))
    BY <1>6 DEF PrevQp
  <2> QED
    BY <1>2, <2>1
<1> QED
  BY <1>2, <1>7, <1>10, <1>11 DEF QpInv

\* The decoder adds the difference to the same prediction.
LEMMA QpsDecoded ==
  ASSUME LoopInv, FitInv, QpInv, DecodeCtu
  PROVE  QpInv'
<1>1. /\ MapsChecked /\ MapsInOrder /\ Looping /\ Shapes /\ CodedTyped /\ DecodedPassed
      /\ Divided(Len(List) + 1) /\ Reading /\ phase = "decode" /\ Data!DecodeCtu
  BY DEF DecodeCtu, Data!DecodeCtu, Looping, LoopInv, FitInv
<1>2. /\ phase' = "decode" /\ idx \in 1..Len(List) /\ idx' = idx + 1
      /\ UNCHANGED <<layout, sps, slice, coder, coded>> /\ Data!NextItem = Items[idx]
  BY <1>1, ReadingStep DEF Data!DecodeCtu
<1> DEFINE qp == Data!PredictQp([c \in Data!Ctus |-> decoded[c].qp], Data!DecPrevQp)
                   + Data!NextItem.delta
<1>3. PICK before : /\ decoder'.prevQp = qp
                    /\ decoded' = [decoded EXCEPT ![At(idx)] = [ctx |-> before, qp |-> qp]]
  <2>1. Data!ctu = At(idx)
    BY DEF Data!ctu, Data!ctus, At
  <2> DEFINE before == Data!UpdateCtxs(Data!DecStart, decoder.bins)
  <2>2. \E after, sync, bins, subs, sub :
          /\ decoder' = [ctx |-> after, sync |-> sync, bins |-> bins, prevQp |-> qp,
                         subs |-> subs, sub |-> sub]
          /\ decoded' = [decoded EXCEPT ![Data!ctu] = [ctx |-> before, qp |-> qp]]
    BY <1>1 DEF Data!DecodeCtu
  <2> HIDE DEF before, qp
  <2>3. decoder'.prevQp = qp /\ decoded' = [decoded EXCEPT ![At(idx)] = [ctx |-> before, qp |-> qp]]
    BY <2>1, <2>2
  <2> QED
    BY <2>3
<1>4. /\ Len(List) \in Nat /\ DOMAIN List = 1..Len(List)
      /\ DOMAIN coded = Data!Ctus /\ DOMAIN decoded = Data!Ctus
      /\ \A i \in 1..Len(List) : At(i) \in Data!Ctus /\ At(i) = List[i]
      /\ \A i, j \in 1..Len(List) : At(i) = At(j) => i = j
  BY <1>1, CtusOfSlice DEF Shapes, List, At
<1>5. /\ QpsCoded(Len(List))
      /\ InOneTile => /\ decoder.prevQp = PrevQp(idx)
                      /\ \A i \in 1..(idx - 1) : decoded[At(i)].qp = Data!QpOf(At(i))
  BY <1>1 DEF QpInv
<1>6. /\ List' = List /\ (InOneTile' <=> InOneTile) /\ Items' = Items
      /\ \A k : At(k)' = At(k) /\ PrevQp(k)' = PrevQp(k) /\ Predicted(k)' = Predicted(k)
  BY <1>2, SamePredictions DEF Items
<1>7. ASSUME InOneTile PROVE qp = Data!QpOf(At(idx))
  <2>1. Data!DecPrevQp = PrevQp(idx) \/ (idx > 1 /\ CtuIsTileColBd(layout.pic, At(idx)))
    <3>1. Data!ctu = At(idx) /\ Data!pic = layout.pic
      BY DEF Data!ctu, Data!ctus, At, Data!pic
    <3>2. decoder.prevQp = PrevQp(idx) /\ (idx = 1 \/ idx > 1)
      BY <1>2, <1>5, <1>7
    <3> QED
      BY <3>1, <3>2, SameOperators DEF Data!DecPrevQp, Data!FirstCtuOfTile, PrevQp
  <2>2. Data!PredictQp([c \in Data!Ctus |-> decoded[c].qp], Data!DecPrevQp) = Predicted(idx)
    <3>1. \A j \in 1..(idx - 1) : decoded[At(j)].qp = Data!QpOf(At(j))
      BY <1>5, <1>7
    <3> QED
      BY <1>1, <1>2, <1>7, <2>1, <3>1, PredictsAlike
  <2>3. Data!NextItem.delta = Data!QpOf(At(idx)) - Predicted(idx)
    BY <1>2, <1>5, <1>7 DEF QpsCoded
  <2>4. Data!QpOf(At(idx)) \in Int /\ Predicted(idx) \in Int
    BY <1>1, <1>2, PredictedTyped
  <2> QED
    BY <2>2, <2>3, <2>4
<1> HIDE DEF qp
<1>8. /\ decoded'[At(idx)].qp = qp
      /\ \A c \in Data!Ctus : c # At(idx) => decoded'[c] = decoded[c]
  BY <1>2, <1>3, <1>4
<1>9. Data!QpsAgreeInOneTile'
  <2>1. /\ Data!Decoded' \subseteq Data!Decoded \cup {At(idx)}
        /\ Data!pic' = Data!pic /\ \A c : Data!SliceIdx(c)' = Data!SliceIdx(c)
    <3>1. Data!pic' = Data!pic /\ \A c : Data!SliceIdx(c)' = Data!SliceIdx(c)
      BY <1>2 DEF Data!pic, Data!SliceIdx
    <3>2. DOMAIN decoded' = Data!Ctus
      BY <1>3, <1>4
    <3> QED
      BY <1>4, <1>8, <3>1, <3>2 DEF Data!Decoded
  <2>2. ASSUME NEW c \in Data!Decoded',
               \A d \in Data!ToSet(layout.map[Data!SliceIdx(c)]) :
                 Data!TileIdx(Data!pic, d) = Data!TileIdx(Data!pic, c)
        PROVE  decoded'[c].qp = coded[c].qp
    <3>1. CASE c = At(idx)
      <4>1. Data!SliceIdx(c) = slice
        BY <1>1, <1>2, <3>1, SliceOfCtu
      <4>2. \A i \in 1..Len(List) : At(i) \in Data!ToSet(List)
        BY <1>4 DEF Data!ToSet
      <4>3. InOneTile
        BY <2>2, <4>1, <4>2, SameOperators DEF InOneTile, List, Data!pic
      <4>4. coded[c].qp = Data!QpOf(At(idx))
        BY <1>2, <1>4, <1>5, <3>1 DEF QpsCoded
      <4> QED
        BY <1>7, <1>8, <3>1, <4>3, <4>4
    <3>2. CASE c # At(idx)
      <4>1. c \in Data!Decoded /\ c \in Data!Ctus
        BY <1>4, <2>1, <3>2 DEF Data!Decoded
      <4>2. decoded[c].qp = coded[c].qp
        BY <1>1, <2>2, <4>1 DEF QpInv, Data!QpsAgreeInOneTile
      <4> QED
        BY <1>8, <3>2, <4>1, <4>2
    <3> QED
      BY <3>1, <3>2
  <2> QED
    BY <1>2, <2>1, <2>2 DEF Data!QpsAgreeInOneTile
<1>10. QpsCoded(Len(List))'
  BY <1>2, <1>5, <1>6 DEF QpsCoded
<1>11. ASSUME InOneTile
       PROVE  /\ decoder'.prevQp = PrevQp(idx)'
              /\ \A i \in 1..(idx' - 1) : decoded'[At(i)'].qp = Data!QpOf(At(i)')
  <2>1. PrevQp(idx)' = IF idx' = 1 THEN Data!SliceQp ELSE Data!QpOf(At(idx' - 1))
    BY <1>6 DEF PrevQp
  <2>2. idx' # 1 /\ idx' - 1 = idx
    BY <1>2
  <2>3. ASSUME NEW i \in 1..idx PROVE decoded'[At(i)].qp = Data!QpOf(At(i))
    <3>1. i = idx \/ i \in 1..(idx - 1)
      BY <1>2
    <3>2. CASE i = idx
      BY <1>7, <1>8, <1>11, <3>2
    <3>3. CASE i # idx
      <4>1. At(i) # At(idx) /\ At(i) \in Data!Ctus
        BY <1>2, <1>4, <3>3
      <4> QED
        BY <1>5, <1>8, <1>11, <3>1, <3>3, <4>1
    <3> QED
      BY <3>2, <3>3
  <2> QED
    BY <1>3, <1>6, <1>7, <1>11, <2>1, <2>2, <2>3
<1> QED
  BY <1>2, <1>6, <1>9, <1>10, <1>11 DEF QpInv

\* The other steps change no QPs.
LEMMA QpStep ==
  ASSUME LoopInv, FitInv, FitInv', QpInv, [PictureNext]_<<vars, dataVars>>
  PROVE  QpInv'
<1>1. CASE Partition \/ UNCHANGED <<vars, dataVars>>
  <2>1. UNCHANGED <<layout, sps, phase, slice, idx, coder, decoder, coded, decoded>>
    BY <1>1 DEF Partition, dataVars
  <2>2. /\ List' = List /\ (InOneTile' <=> InOneTile) /\ Items' = Items
        /\ \A k : At(k)' = At(k) /\ PrevQp(k)' = PrevQp(k) /\ Predicted(k)' = Predicted(k)
    BY <2>1, SamePredictions DEF Items
  <2>3. PrevQp(idx)' = PrevQp(idx)
    BY <2>1, <2>2 DEF PrevQp
  <2>4. Data!QpsAgreeInOneTile'
    BY <2>1, QpsStay DEF QpInv, Data!Decoded
  <2>5. (QpsCoded(idx - 1) => QpsCoded(idx - 1)') /\ (QpsCoded(Len(List)) => QpsCoded(Len(List))')
    BY <2>1, <2>2 DEF QpsCoded
  <2> QED
    BY <2>1, <2>2, <2>3, <2>4, <2>5 DEF QpInv
<1>2. CASE Begin
  <2>1. /\ phase' = "encode" /\ idx' = 1 /\ coder'.prevQp = Data!SliceQp
        /\ decoded' = [c \in Data!Ctus' |-> [ctx |-> << >>, qp |-> Data!None]]
    BY <1>2 DEF Begin, Data!StartPicture, Data!Ctus, Data!pic
  <2>2. Data!Decoded' = {}
    BY <2>1 DEF Data!Decoded
  <2>3. QpsCoded(idx - 1)'
    BY <2>1 DEF QpsCoded
  <2> QED
    BY <2>1, <2>2, <2>3 DEF QpInv, Data!QpsAgreeInOneTile, PrevQp
<1>3. CASE EncodeCtu
  BY <1>3, QpsEncoded
<1>4. CASE WriteSliceData
  <2>1. /\ MapsInOrder /\ Looping /\ Shapes /\ CodedTyped /\ Divided(idx) /\ Data!WriteSlice
    BY <1>4 DEF WriteSliceData, Data!WriteSlice, Looping, LoopInv, FitInv
  <2>2. /\ phase = "encode" /\ phase' = "decode" /\ idx' = 1 /\ idx > Len(List)
        /\ UNCHANGED <<layout, sps, slice, coder, coded, decoded>>
        /\ decoder' = [decoder EXCEPT !.ctx = << >>, !.prevQp = Data!SliceQp, !.sub = 1,
             !.subs = Data!Substreams(Data!FlattenSeq(SubSeq(coder.subs, 1, coder.numSubstream + 1)),
                        SubSeq(coder.sizes, 1, Data!Minimum(Data!NumEntryPoints, Len(coder.sizes))))]
    BY <2>1 DEF Data!WriteSlice, Data!ctus, List
  <2>3. decoder'.prevQp = Data!SliceQp
    <3>1. "prevQp" \in DOMAIN decoder
      BY <2>1 DEF Shapes, IsDecoder
    <3> QED
      BY <2>2, <3>1
  <2>4. idx - 1 = Len(List)
    BY <2>1, <2>2, ListInOrder
  <2>5. /\ List' = List /\ (InOneTile' <=> InOneTile) /\ Items' = Items
        /\ \A k : At(k)' = At(k) /\ PrevQp(k)' = PrevQp(k) /\ Predicted(k)' = Predicted(k)
    BY <2>2, SamePredictions DEF Items
  <2>6. QpsCoded(Len(List))'
    <3>1. QpsCoded(Len(List))
      BY <2>2, <2>4 DEF QpInv
    <3> QED
      BY <2>2, <2>5, <3>1 DEF QpsCoded
  <2>7. Data!QpsAgreeInOneTile'
    BY <2>2, QpsStay DEF QpInv, Data!Decoded
  <2>8. PrevQp(idx)' = Data!SliceQp /\ \A i \in 1..(idx' - 1) : FALSE
    BY <2>2 DEF PrevQp
  <2> QED
    BY <2>2, <2>3, <2>6, <2>7, <2>8 DEF QpInv
<1>5. CASE DecodeCtu
  BY <1>5, QpsDecoded
<1>6. CASE NextSlice
  <2>1. Data!NextSlice /\ phase = "decode" /\ Shapes
    BY <1>6 DEF NextSlice, Data!NextSlice, Looping, LoopInv
  <2>2. UNCHANGED <<layout, sps, decoder, coded, decoded>>
    BY <2>1 DEF Data!NextSlice
  <2>3. Data!QpsAgreeInOneTile'
    BY <2>2, QpsStay DEF QpInv, Data!Decoded
  <2>4. CASE slice < Len(layout.map)
    <3>1. /\ phase' = "encode" /\ idx' = 1
          /\ coder' = [coder EXCEPT !.ctx = << >>, !.prevQp = Data!SliceQp,
                                    !.subs = << << >> >>, !.numSubstream = 0, !.sizes = << >>]
      BY <2>1, <2>4 DEF Data!NextSlice, Data!StartSlice
    <3>2. coder'.prevQp = Data!SliceQp
      <4>1. "prevQp" \in DOMAIN coder
        BY <2>1 DEF Shapes, IsCoder
      <4> QED
        BY <3>1, <4>1
    <3>3. PrevQp(idx)' = Data!SliceQp /\ QpsCoded(idx - 1)'
      BY <3>1 DEF PrevQp, QpsCoded
    <3> QED
      BY <2>3, <3>1, <3>2, <3>3 DEF QpInv
  <2>5. CASE ~(slice < Len(layout.map))
    <3>1. phase' = "done"
      BY <2>1, <2>5 DEF Data!NextSlice
    <3> QED
      BY <2>3, <3>1 DEF QpInv
  <2> QED
    BY <2>4, <2>5
<1> QED
  BY <1>1, <1>2, <1>3, <1>4, <1>5, <1>6 DEF PictureNext

\* QpsAgreeInOneTile: whatever the tiles and the slices, with or without
\* wavefronts, every CTU of a slice that stays in one tile is decoded with its QP.
THEOREM SameQpsInOneTile == PictureSpec => []QpsAgreeInOneTile
<1>1. PictureInit => QpInv
  <2> SUFFICES ASSUME Data!Init PROVE QpInv
    BY DEF PictureInit
  <2>1. phase = "none" /\ DOMAIN decoded = {}
    BY DEF Data!Init
  <2>2. Data!Decoded = {}
    BY <2>1 DEF Data!Decoded
  <2> QED
    BY <2>1, <2>2 DEF QpInv, Data!QpsAgreeInOneTile
<1>2. LoopInv /\ FitInv /\ FitInv' /\ QpInv /\ [PictureNext]_<<vars, dataVars>> => QpInv'
  BY QpStep
<1>3. QpInv => QpsAgreeInOneTile
  BY DEF QpInv, QpsAgreeInOneTile
<1> QED
  BY <1>1, <1>2, <1>3, LoopInvariant, FitInvariant, PTL DEF PictureSpec

-----------------------------------------------------------------------------
(* The configured slices: where they are.                                   *)

\* The columns and rows of CTUs of a slice, and the tiles of its corners.
X1(s) == CtuX(pic, s.first)
X2(s) == CtuX(pic, s.last)
Y1(s) == CtuY(pic, s.first)
Y2(s) == CtuY(pic, s.last)
C1(s) == CtuToTileCol(pic, X1(s))
C2(s) == CtuToTileCol(pic, X2(s))
R1(s) == CtuToTileRow(pic, Y1(s))
R2(s) == CtuToTileRow(pic, Y2(s))

\* The slice has the CTU in column x and row y, or CTUs of the tile in column u
\* and row v.
Has(s, x, y) == x \in X1(s)..X2(s) /\ y \in Y1(s)..Y2(s)
HasTile(s, u, v) == u \in C1(s)..C2(s) /\ v \in R1(s)..R2(s)

\* The coordinates of a slice are those of CTUs, and of tiles.
LEMMA RectangleParts ==
  ASSUME IsTiled(pic), NEW s \in Rectangle
  PROVE  /\ pic.width \in Nat /\ pic.height \in Nat
         /\ X1(s) \in 0..(pic.width - 1) /\ X2(s) \in 0..(pic.width - 1) /\ X1(s) <= X2(s)
         /\ Y1(s) \in 0..(pic.height - 1) /\ Y2(s) \in 0..(pic.height - 1) /\ Y1(s) <= Y2(s)
         /\ C1(s) \in 0..(NumTileCols(pic) - 1) /\ C2(s) \in 0..(NumTileCols(pic) - 1)
         /\ C1(s) <= C2(s)
         /\ R1(s) \in 0..(NumTileRows(pic) - 1) /\ R2(s) \in 0..(NumTileRows(pic) - 1)
         /\ R1(s) <= R2(s)
<1>1. pic.width \in Nat /\ pic.height \in Nat
  BY DEF IsTiled, Positive
<1>2. /\ X1(s) \in 0..(pic.width - 1) /\ X2(s) \in 0..(pic.width - 1) /\ X1(s) <= X2(s)
      /\ Y1(s) \in 0..(pic.height - 1) /\ Y2(s) \in 0..(pic.height - 1) /\ Y1(s) <= Y2(s)
  BY DEF Rectangle, IsRectangle, X1, X2, Y1, Y2
<1>3. /\ C1(s) \in 0..(NumTileCols(pic) - 1) /\ C2(s) \in 0..(NumTileCols(pic) - 1)
      /\ R1(s) \in 0..(NumTileRows(pic) - 1) /\ R2(s) \in 0..(NumTileRows(pic) - 1)
  BY <1>2, TileColumns, TileRows DEF C1, C2, R1, R2
<1>4. C1(s) <= C2(s) /\ R1(s) <= R2(s)
  BY <1>2, TilesMonotone DEF C1, C2, R1, R2
<1> QED
  BY <1>1, <1>2, <1>3, <1>4

\* CtusIn has the CTUs between the corners.
LEMMA InSlice ==
  ASSUME IsTiled(pic), NEW s \in Rectangle
  PROVE  /\ CtusIn(s) \subseteq CtusOfPicture(pic)
         /\ \A c \in CtusOfPicture(pic) :
              c \in CtusIn(s) <=> Has(s, CtuX(pic, c), CtuY(pic, c))
<1> DEFINE N == CtusOfPicture(pic)
<1>1. CtusIn(s) = {y * pic.width + x : x \in X1(s)..X2(s), y \in Y1(s)..Y2(s)}
  BY DEF CtusIn, X1, X2, Y1, Y2
<1>2. /\ X1(s)..X2(s) \subseteq 0..(pic.width - 1) /\ Y1(s)..Y2(s) \subseteq 0..(pic.height - 1)
  BY RectangleParts
<1>3. ASSUME NEW x \in X1(s)..X2(s), NEW y \in Y1(s)..Y2(s)
      PROVE  /\ y * pic.width + x \in N
             /\ CtuX(pic, y * pic.width + x) = x /\ CtuY(pic, y * pic.width + x) = y
  BY <1>2, CtuAt
<1>4. ASSUME NEW c \in CtusIn(s) PROVE c \in N /\ Has(s, CtuX(pic, c), CtuY(pic, c))
  <2>1. PICK x \in X1(s)..X2(s), y \in Y1(s)..Y2(s) : c = y * pic.width + x
    BY <1>1
  <2> QED
    BY <1>3, <2>1 DEF Has
<1>5. ASSUME NEW c \in N, Has(s, CtuX(pic, c), CtuY(pic, c)) PROVE c \in CtusIn(s)
  <2>1. c = CtuY(pic, c) * pic.width + CtuX(pic, c)
    BY CtuPlace
  <2> QED
    BY <1>1, <1>5, <2>1 DEF Has
<1> QED
  BY <1>4, <1>5

\* Slices i - 1 and i are parts of one tile.
InOne(s) == C1(s) = C2(s) /\ R1(s) = R2(s)
SameTile(ss, i) ==
  /\ i > 1 /\ InOne(ss[i]) /\ InOne(ss[i - 1])
  /\ C1(ss[i]) = C1(ss[i - 1]) /\ R1(ss[i]) = R1(ss[i - 1])

\* A slice has whole tiles from left to right.
WholeColumns(s) == X1(s) = TileColumnBd(pic, C1(s)) /\ X2(s) + 1 = TileColumnBd(pic, C2(s) + 1)
FromTop(s) == Y1(s) = TileRowBd(pic, R1(s))
ToBottom(s) == Y2(s) + 1 = TileRowBd(pic, R2(s) + 1)

\* The slices of a tile follow one another from its top to its bottom; the others
\* have whole tiles.
WholeTiles(ss) ==
  \A i \in 1..Len(ss) :
    /\ WholeColumns(ss[i])
    /\ ~SameTile(ss, i) => FromTop(ss[i])
    /\ SameTile(ss, i) => Y1(ss[i]) = Y2(ss[i - 1]) + 1
    /\ (i = Len(ss) \/ ~SameTile(ss, i + 1)) => ToBottom(ss[i])

\* No two slices have a CTU in common.
Apart(ss) ==
  \A i, j \in 1..Len(ss) : \A x, y \in Nat :
    Has(ss[i], x, y) /\ Has(ss[j], x, y) => i = j

\* What is to the left of a slice or above it is in an earlier one.
LeftBefore(ss, i) ==
  \A x, y \in Nat : Has(ss[i], x, y) /\ x > 0 => \E k \in 1..i : Has(ss[k], x - 1, y)
UpBefore(ss, i) ==
  \A x, y \in Nat : Has(ss[i], x, y) /\ y > 0 => \E k \in 1..i : Has(ss[k], x, y - 1)
Grown(ss) == \A i \in 1..Len(ss) : LeftBefore(ss, i) /\ UpBefore(ss, i)

\* The slices configured so far.
Drawn(ss) == ss \in Seq(Rectangle) /\ WholeTiles(ss) /\ Apart(ss) /\ Grown(ss)

\* Slices that can come next: one, or the slices of one tile.
Strips(new) ==
  LET m == Len(new)
  IN /\ new \in Seq(Rectangle) /\ m >= 1
     /\ \A k \in 1..m : WholeColumns(new[k])
     /\ FromTop(new[1]) /\ ToBottom(new[m])
     /\ m > 1 => \A k \in 1..m : InOne(new[k]) /\ C1(new[k]) = C1(new[1]) /\ R1(new[k]) = R1(new[1])
     /\ \A k \in 2..m : Y1(new[k]) = Y2(new[k - 1]) + 1
     /\ \A j, k \in 1..m : j < k => Y2(new[j]) < Y1(new[k])

\* They fit where the slices so far have left room.
Fits(ss, new) ==
  /\ \A i \in 1..Len(ss), k \in 1..Len(new) : \A x, y \in Nat :
       ~(Has(ss[i], x, y) /\ Has(new[k], x, y))
  /\ \A k \in 1..Len(new) : \A x, y \in Nat : Has(new[k], x, y) /\ x > 0 =>
       Has(new[k], x - 1, y) \/ \E i \in 1..Len(ss) : Has(ss[i], x - 1, y)
  /\ \A x, y \in Nat : Has(new[1], x, y) /\ y > 0 =>
       Has(new[1], x, y - 1) \/ \E i \in 1..Len(ss) : Has(ss[i], x, y - 1)

\* What follows the last slice is not of its tile.
LEMMA NotSameTile ==
  ASSUME IsTiled(pic), NEW ss, Drawn(ss), NEW new, Strips(new), Fits(ss, new)
  PROVE  ~SameTile(ss \o new, Len(ss) + 1)
<1> DEFINE n == Len(ss)  m == Len(new)  tt == ss \o new  p == ss[n]  q == new[1]  r == new[m]
<1>1. /\ ss \in Seq(Rectangle) /\ new \in Seq(Rectangle) /\ n \in Nat /\ m \in Nat /\ m >= 1
  BY DEF Drawn, Strips
<1>2. SUFFICES ASSUME SameTile(tt, n + 1) PROVE FALSE
  OBVIOUS
<1>3. n > 0 /\ n \in 1..n /\ tt[n + 1] = q /\ tt[(n + 1) - 1] = p
  BY <1>1, <1>2 DEF SameTile
<1>4. InOne(p) /\ InOne(q) /\ C1(q) = C1(p) /\ R1(q) = R1(p)
  BY <1>2, <1>3 DEF SameTile
<1>5. InOne(r) /\ C1(r) = C1(p) /\ R1(r) = R1(p)
  <2>1. CASE m = 1
    BY <1>4, <2>1
  <2>2. CASE m > 1
    BY <1>1, <1>4, <2>2 DEF Strips
  <2>3. m = 1 \/ m > 1
    <3> HIDE DEF m
    <3> QED
      BY <1>1
  <2> QED
    BY <2>1, <2>2, <2>3
<1>6. WholeColumns(p) /\ ToBottom(p)
  BY <1>3 DEF Drawn, WholeTiles
<1>7. WholeColumns(r) /\ ToBottom(r)
  BY <1>1 DEF Strips
<1>8. p \in Rectangle /\ r \in Rectangle
  BY <1>1, <1>3
<1>9. /\ X1(p) \in Nat /\ X2(p) \in Nat /\ X1(p) <= X2(p)
      /\ Y1(p) \in Nat /\ Y2(p) \in Nat /\ Y1(p) <= Y2(p)
      /\ X1(r) \in Nat /\ X2(r) \in Nat /\ X1(r) <= X2(r)
      /\ Y1(r) \in Nat /\ Y2(r) \in Nat /\ Y1(r) <= Y2(r)
  <2>1. \A s \in Rectangle : /\ X1(s) \in Nat /\ X2(s) \in Nat /\ X1(s) <= X2(s)
                             /\ Y1(s) \in Nat /\ Y2(s) \in Nat /\ Y1(s) <= Y2(s)
    BY RectangleParts
  <2> HIDE DEF p, r
  <2> QED
    BY <1>8, <2>1
<1>10. X1(r) = X1(p) /\ Y2(r) = Y2(p)
  BY <1>4, <1>5, <1>6, <1>7, <1>9 DEF InOne, WholeColumns, ToBottom
<1>11. Has(p, X1(p), Y2(p)) /\ Has(r, X1(p), Y2(p))
  BY <1>9, <1>10 DEF Has
<1>12. n \in 1..Len(ss) /\ m \in 1..Len(new)
  BY <1>1, <1>3
<1> QED
  BY <1>9, <1>11, <1>12 DEF Fits

\* The slices that come next stay in whole tiles.
LEMMA NextInTiles ==
  ASSUME IsTiled(pic), NEW ss, Drawn(ss), NEW new, Strips(new), Fits(ss, new)
  PROVE  WholeTiles(ss \o new)
<1> DEFINE n == Len(ss)  m == Len(new)  tt == ss \o new
<1>1. /\ ss \in Seq(Rectangle) /\ new \in Seq(Rectangle) /\ n \in Nat /\ m \in Nat /\ m >= 1
  BY DEF Drawn, Strips
<1>2. /\ Len(tt) = n + m
      /\ \A i \in 1..n : tt[i] = ss[i]
      /\ \A k \in 1..m : tt[n + k] = new[k]
  BY <1>1
<1>3. ~SameTile(tt, n + 1)
  BY NotSameTile
<1>4. \A i \in 1..n : SameTile(tt, i) <=> SameTile(ss, i)
  <2> TAKE i \in 1..n
  <2>1. tt[i] = ss[i] /\ (i > 1 => tt[i - 1] = ss[i - 1])
    BY <1>1, <1>2
  <2> QED
    BY <2>1 DEF SameTile
<1>5. \A k \in 2..m : SameTile(tt, n + k)
  <2> TAKE k \in 2..m
  <2>1. k \in 1..m /\ k - 1 \in 1..m /\ m > 1 /\ (n + k) - 1 = n + (k - 1) /\ n + k > 1
    BY <1>1
  <2>2. tt[n + k] = new[k] /\ tt[(n + k) - 1] = new[k - 1]
    BY <1>2, <2>1
  <2>3. /\ InOne(new[k]) /\ C1(new[k]) = C1(new[1]) /\ R1(new[k]) = R1(new[1])
        /\ InOne(new[k - 1]) /\ C1(new[k - 1]) = C1(new[1]) /\ R1(new[k - 1]) = R1(new[1])
    BY <2>1 DEF Strips
  <2> QED
    BY <2>1, <2>2, <2>3 DEF SameTile
<1> HIDE DEF tt, n, m
<1>6. ASSUME NEW i \in 1..n
      PROVE  /\ WholeColumns(tt[i])
             /\ ~SameTile(tt, i) => FromTop(tt[i])
             /\ SameTile(tt, i) => Y1(tt[i]) = Y2(tt[i - 1]) + 1
             /\ (i = n + m \/ ~SameTile(tt, i + 1)) => ToBottom(tt[i])
  <2>1. /\ WholeColumns(ss[i])
        /\ ~SameTile(ss, i) => FromTop(ss[i])
        /\ SameTile(ss, i) => Y1(ss[i]) = Y2(ss[i - 1]) + 1
        /\ (i = n \/ ~SameTile(ss, i + 1)) => ToBottom(ss[i])
    BY DEF Drawn, WholeTiles, n
  <2>2. tt[i] = ss[i]
    BY <1>2
  <2>3. SameTile(tt, i) => Y1(tt[i]) = Y2(tt[i - 1]) + 1
    <3> SUFFICES ASSUME SameTile(tt, i) PROVE Y1(tt[i]) = Y2(tt[i - 1]) + 1
      OBVIOUS
    <3>1. i - 1 \in 1..n
      BY <1>1 DEF SameTile
    <3>2. tt[i - 1] = ss[i - 1]
      BY <1>2, <3>1
    <3> QED
      BY <1>4, <2>1, <2>2, <3>2
  <2>4. i = n + m \/ ~SameTile(tt, i + 1) => i = n \/ ~SameTile(ss, i + 1)
    <3>1. CASE i = n
      BY <3>1
    <3>2. CASE i # n
      <4>1. i + 1 \in 1..n /\ i # n + m
        BY <1>1, <3>2
      <4> QED
        BY <1>4, <4>1
    <3> QED
      BY <3>1, <3>2
  <2> QED
    BY <1>4, <2>1, <2>2, <2>3, <2>4
<1>7. ASSUME NEW k \in 1..m
      PROVE  LET i == n + k
             IN /\ WholeColumns(tt[i])
                /\ ~SameTile(tt, i) => FromTop(tt[i])
                /\ SameTile(tt, i) => Y1(tt[i]) = Y2(tt[i - 1]) + 1
                /\ (i = n + m \/ ~SameTile(tt, i + 1)) => ToBottom(tt[i])
  <2> DEFINE i == n + k
  <2>1. tt[i] = new[k] /\ WholeColumns(new[k])
    BY <1>2 DEF Strips, m
  <2>2. ~SameTile(tt, i) => FromTop(tt[i])
    <3> SUFFICES ASSUME ~SameTile(tt, i) PROVE FromTop(tt[i])
      OBVIOUS
    <3>1. k = 1
      BY <1>1, <1>5
    <3> QED
      BY <2>1, <3>1 DEF Strips
  <2>3. SameTile(tt, i) => Y1(tt[i]) = Y2(tt[i - 1]) + 1
    <3> SUFFICES ASSUME SameTile(tt, i) PROVE Y1(tt[i]) = Y2(tt[i - 1]) + 1
      OBVIOUS
    <3>1. k # 1
      BY <1>3
    <3>2. k \in 2..m /\ k - 1 \in 1..m /\ i - 1 = n + (k - 1)
      BY <1>1, <3>1
    <3>3. tt[i - 1] = new[k - 1] /\ Y1(new[k]) = Y2(new[k - 1]) + 1
      BY <1>2, <3>2 DEF Strips, m
    <3> QED
      BY <2>1, <3>3
  <2>4. i = n + m \/ ~SameTile(tt, i + 1) => ToBottom(tt[i])
    <3> SUFFICES ASSUME i = n + m \/ ~SameTile(tt, i + 1) PROVE ToBottom(tt[i])
      OBVIOUS
    <3>1. k = m
      <4> SUFFICES ASSUME k # m PROVE FALSE
        OBVIOUS
      <4>1. k + 1 \in 2..m /\ i + 1 = n + (k + 1) /\ i # n + m
        BY <1>1
      <4> QED
        BY <1>5, <4>1
    <3> QED
      BY <2>1, <3>1 DEF Strips, m
  <2> QED
    BY <2>1, <2>2, <2>3, <2>4
<1>8. \A i \in 1..(n + m) : i \in 1..n \/ \E k \in 1..m : i = n + k
  <2> TAKE i \in 1..(n + m)
  <2>1. CASE i <= n
    BY <1>1, <2>1
  <2>2. CASE i > n
    <3>1. i - n \in 1..m /\ i = n + (i - n)
      BY <1>1, <2>2
    <3> QED
      BY <3>1
  <2> QED
    BY <1>1, <2>1, <2>2
<1>9. \A i \in 1..(n + m) :
        /\ WholeColumns(tt[i])
        /\ ~SameTile(tt, i) => FromTop(tt[i])
        /\ SameTile(tt, i) => Y1(tt[i]) = Y2(tt[i - 1]) + 1
        /\ (i = n + m \/ ~SameTile(tt, i + 1)) => ToBottom(tt[i])
  BY <1>6, <1>7, <1>8
<1> QED
  BY <1>2, <1>9 DEF WholeTiles, tt

\* They have no CTU in common with the others, nor with each other.
LEMMA NextApart ==
  ASSUME IsTiled(pic), NEW ss, Drawn(ss), NEW new, Strips(new), Fits(ss, new)
  PROVE  Apart(ss \o new)
<1> DEFINE n == Len(ss)  m == Len(new)  tt == ss \o new
<1>1. /\ ss \in Seq(Rectangle) /\ new \in Seq(Rectangle) /\ n \in Nat /\ m \in Nat /\ m >= 1
  BY DEF Drawn, Strips
<1>2. /\ Len(tt) = n + m
      /\ \A i \in 1..n : tt[i] = ss[i]
      /\ \A i \in 1..(n + m) : i > n => i - n \in 1..m /\ tt[i] = new[i - n]
  BY <1>1
<1> HIDE DEF tt, n, m
<1>3. SUFFICES ASSUME NEW i \in 1..(n + m), NEW j \in 1..(n + m), NEW x \in Nat, NEW y \in Nat,
                      Has(tt[i], x, y), Has(tt[j], x, y), i < j
               PROVE  FALSE
  <2>1. \A i, j \in 1..(n + m) : i = j \/ i < j \/ j < i
    BY <1>1
  <2> QED
    BY <1>2, <2>1 DEF Apart, tt
<1>4. CASE j <= n
  <2>1. i \in 1..n /\ j \in 1..n /\ i # j
    BY <1>1, <1>3, <1>4
  <2> QED
    BY <1>2, <1>3, <2>1 DEF Drawn, Apart, n
<1>5. CASE i <= n /\ j > n
  <2>1. i \in 1..n /\ j - n \in 1..m /\ tt[i] = ss[i] /\ tt[j] = new[j - n]
    BY <1>1, <1>2, <1>5
  <2> QED
    BY <1>3, <2>1 DEF Fits, n, m
<1>6. CASE i > n
  <2>1. j > n /\ i - n \in 1..m /\ j - n \in 1..m /\ i - n < j - n
    BY <1>1, <1>2, <1>3, <1>6
  <2>2. tt[i] = new[i - n] /\ tt[j] = new[j - n]
    BY <1>2, <1>6, <2>1
  <2>3. Y2(new[i - n]) < Y1(new[j - n])
    BY <2>1 DEF Strips, m
  <2>4. new[i - n] \in Rectangle /\ new[j - n] \in Rectangle
    BY <1>1, <2>1 DEF m
  <2>5. Y2(new[i - n]) \in Nat /\ Y1(new[j - n]) \in Nat
    BY <2>4, RectangleParts
  <2>6. y <= Y2(new[i - n]) /\ Y1(new[j - n]) <= y
    BY <1>3, <2>2, <2>5 DEF Has
  <2> QED
    BY <2>3, <2>5, <2>6
<1> QED
  BY <1>1, <1>3, <1>4, <1>5, <1>6

\* What is to the left of them, or above, is there.
LEMMA NextGrown ==
  ASSUME IsTiled(pic), NEW ss, Drawn(ss), NEW new, Strips(new), Fits(ss, new)
  PROVE  Grown(ss \o new)
<1> DEFINE n == Len(ss)  m == Len(new)  tt == ss \o new
<1>1. /\ ss \in Seq(Rectangle) /\ new \in Seq(Rectangle) /\ n \in Nat /\ m \in Nat /\ m >= 1
  BY DEF Drawn, Strips
<1>2. /\ Len(tt) = n + m
      /\ \A i \in 1..n : tt[i] = ss[i]
      /\ \A i \in 1..(n + m) : i > n => i - n \in 1..m /\ tt[i] = new[i - n]
  BY <1>1
<1> HIDE DEF tt, n, m
<1>3. ASSUME NEW i \in 1..n PROVE LeftBefore(tt, i) /\ UpBefore(tt, i)
  <2>1. LeftBefore(ss, i) /\ UpBefore(ss, i)
    BY DEF Drawn, Grown, n
  <2>2. \A k \in 1..i : tt[k] = ss[k]
    BY <1>1, <1>2
  <2>3. tt[i] = ss[i]
    BY <1>2
  <2> QED
    BY <2>1, <2>2, <2>3 DEF LeftBefore, UpBefore
<1>4. ASSUME NEW i \in 1..(n + m), i > n PROVE LeftBefore(tt, i)
  <2>1. i - n \in 1..m /\ tt[i] = new[i - n]
    BY <1>2, <1>4
  <2>2. SUFFICES ASSUME NEW x \in Nat, NEW y \in Nat, Has(tt[i], x, y), x > 0
                 PROVE  \E k \in 1..i : Has(tt[k], x - 1, y)
    BY DEF LeftBefore
  <2>3. Has(new[i - n], x - 1, y) \/ \E k \in 1..n : Has(ss[k], x - 1, y)
    BY <2>1, <2>2 DEF Fits, n, m
  <2>4. i \in 1..i /\ 1..n \subseteq 1..i
    BY <1>1, <1>4
  <2>5. CASE Has(new[i - n], x - 1, y)
    BY <2>1, <2>4, <2>5
  <2>6. CASE \E k \in 1..n : Has(ss[k], x - 1, y)
    BY <1>2, <2>4, <2>6
  <2> QED
    BY <2>3, <2>5, <2>6
<1>5. ASSUME NEW i \in 1..(n + m), i > n PROVE UpBefore(tt, i)
  <2>1. i - n \in 1..m /\ tt[i] = new[i - n]
    BY <1>2, <1>5
  <2>2. SUFFICES ASSUME NEW x \in Nat, NEW y \in Nat, Has(tt[i], x, y), y > 0
                 PROVE  \E k \in 1..i : Has(tt[k], x, y - 1)
    BY DEF UpBefore
  <2>3. i \in 1..i /\ 1..n \subseteq 1..i
    BY <1>1, <1>5
  <2>4. CASE i - n = 1
    <3>1. Has(new[1], x, y - 1) \/ \E k \in 1..n : Has(ss[k], x, y - 1)
      BY <2>1, <2>2, <2>4 DEF Fits, n
    <3>2. CASE Has(new[1], x, y - 1)
      BY <2>1, <2>3, <2>4, <3>2
    <3>3. CASE \E k \in 1..n : Has(ss[k], x, y - 1)
      BY <1>2, <2>3, <3>3
    <3> QED
      BY <3>1, <3>2, <3>3
  <2>5. CASE i - n # 1
    <3> DEFINE s == new[i - n]  r == new[(i - n) - 1]
    <3>1. i - n \in 2..m /\ (i - n) - 1 \in 1..m /\ m > 1 /\ i - 1 > n /\ i - 1 \in 1..(n + m)
          /\ (i - 1) - n = (i - n) - 1 /\ i - 1 \in 1..i
      BY <1>1, <2>1, <2>5
    <3>2. Y1(s) = Y2(r) + 1
      BY <3>1 DEF Strips, m
    <3>3. /\ InOne(s) /\ C1(s) = C1(new[1]) /\ InOne(r) /\ C1(r) = C1(new[1])
          /\ WholeColumns(s) /\ WholeColumns(r)
      BY <2>1, <3>1 DEF Strips, m
    <3>4. s \in Rectangle /\ r \in Rectangle
      BY <1>1, <2>1, <3>1 DEF m
    <3>5. /\ X1(s) \in Nat /\ X2(s) \in Nat /\ Y1(s) \in Nat /\ Y2(s) \in Nat
          /\ X1(r) \in Nat /\ X2(r) \in Nat /\ Y1(r) \in Nat /\ Y2(r) \in Nat /\ Y1(r) <= Y2(r)
      BY <3>4, RectangleParts
    <3>6. X1(s) = X1(r) /\ X2(s) = X2(r)
      BY <3>3, <3>5 DEF InOne, WholeColumns
    <3>7. tt[i - 1] = r
      BY <1>2, <3>1
    <3>8. x \in X1(s)..X2(s) /\ y \in Y1(s)..Y2(s)
      BY <2>1, <2>2 DEF Has
    <3>9. CASE y > Y1(s)
      <4>1. Has(s, x, y - 1)
        BY <3>5, <3>8, <3>9 DEF Has
      <4> QED
        BY <2>1, <2>3, <4>1
    <3>10. CASE y = Y1(s)
      <4>1. Has(r, x, y - 1)
        <5> HIDE DEF s, r
        <5>1. y - 1 = Y2(r)
          BY <3>2, <3>5, <3>10
        <5>2. x \in X1(r)..X2(r) /\ y - 1 \in Y1(r)..Y2(r)
          BY <3>5, <3>6, <3>8, <5>1
        <5> QED
          BY <5>2 DEF Has
      <4> QED
        BY <3>1, <3>7, <4>1
    <3> QED
      BY <3>5, <3>8, <3>9, <3>10
  <2> QED
    BY <2>4, <2>5
<1>6. \A i \in 1..(n + m) : LeftBefore(tt, i) /\ UpBefore(tt, i)
  <2>1. \A i \in 1..(n + m) : i \in 1..n \/ i > n
    BY <1>1
  <2> QED
    BY <1>3, <1>4, <1>5, <2>1
<1> QED
  BY <1>2, <1>6 DEF Grown, tt

\* Slices that come next are drawn with the others.
LEMMA NextDrawn ==
  ASSUME IsTiled(pic), NEW ss, Drawn(ss), NEW new, Strips(new), Fits(ss, new)
  PROVE  Drawn(ss \o new)
<1>1. ss \in Seq(Rectangle) /\ new \in Seq(Rectangle)
  BY DEF Drawn, Strips
<1>2. ss \o new \in Seq(Rectangle)
  BY <1>1
<1> QED
  BY <1>2, NextInTiles, NextApart, NextGrown DEF Drawn

\* The corners of SliceOf.
LEMMA Corners ==
  ASSUME IsTiled(pic), NEW x \in 0..pic.width, NEW x2 \in 0..pic.width, x < x2,
         NEW y \in 0..pic.height, NEW y2 \in 0..pic.height, y < y2
  PROVE  LET s == SliceOf(x, x2, y, y2)
         IN /\ s \in Rectangle
            /\ X1(s) = x /\ X2(s) = x2 - 1 /\ Y1(s) = y /\ Y2(s) = y2 - 1
<1> DEFINE s == SliceOf(x, x2, y, y2)  w == pic.width
<1>1. s \in Rectangle
  BY SliceOfMeans
<1>2. w \in Nat /\ pic.height \in Nat
  BY DEF IsTiled, Positive
<1>3. /\ x \in 0..(w - 1) /\ x2 - 1 \in 0..(w - 1)
      /\ y \in 0..(pic.height - 1) /\ y2 - 1 \in 0..(pic.height - 1)
  BY <1>2
<1>4. s.first = y * w + x /\ s.last = (y2 - 1) * w + (x2 - 1)
  <2>1. s.last = (y2 - 1) * w + x2 - 1 /\ s.first = y * w + x
    BY DEF SliceOf
  <2>2. (y2 - 1) * w \in Int /\ x2 \in Int
    BY <1>2, <1>3
  <2> QED
    BY <2>1, <2>2
<1>5. CtuX(pic, s.first) = x /\ CtuY(pic, s.first) = y
  BY <1>3, <1>4, CtuAt
<1>6. CtuX(pic, s.last) = x2 - 1 /\ CtuY(pic, s.last) = y2 - 1
  BY <1>3, <1>4, CtuAt
<1> QED
  BY <1>1, <1>5, <1>6 DEF X1, X2, Y1, Y2

\* A slice of whole columns.
LEMMA ColumnsOf ==
  ASSUME IsTiled(pic), NEW s \in Rectangle,
         NEW a \in 0..(NumTileCols(pic) - 1), NEW b \in (a + 1)..NumTileCols(pic),
         X1(s) = TileColumnBd(pic, a), X2(s) = TileColumnBd(pic, b) - 1
  PROVE  WholeColumns(s) /\ C1(s) = a /\ C2(s) = b - 1
<1> DEFINE bd(i) == TileColumnBd(pic, i)  n == NumTileCols(pic)
<1>1. /\ n \in Nat /\ \A i \in 0..n : bd(i) \in Nat
      /\ \A i, j \in 0..n : i < j => bd(i) < bd(j)
      /\ \A i \in 0..(n - 1), x \in Nat :
           bd(i) <= x /\ x < bd(i + 1) => CtuToTileCol(pic, x) = i
  BY TileColumns
<1>2. X1(s) \in Nat /\ X2(s) \in Nat
  BY RectangleParts
<1>3. X1(s) = bd(a) /\ X2(s) = bd(b) - 1
  OBVIOUS
<1> HIDE DEF bd, n
<1>4. /\ a \in 0..(n - 1) /\ a \in 0..n /\ a + 1 \in 0..n /\ b \in 0..n /\ b - 1 \in 0..n
      /\ b - 1 \in 0..(n - 1) /\ (b - 1) + 1 = b /\ a < a + 1 /\ b - 1 < b
  BY <1>1 DEF n
<1>5. bd(a) < bd(a + 1) /\ bd(b - 1) < bd(b) /\ bd(a) \in Nat /\ bd(b) \in Nat /\ bd(b - 1) \in Nat
      /\ bd(a + 1) \in Nat
  BY <1>1, <1>4
<1>6. bd(a) <= X1(s) /\ X1(s) < bd(a + 1) /\ bd(b - 1) <= X2(s) /\ X2(s) < bd(b)
  BY <1>2, <1>3, <1>5
<1>7. C1(s) = a
  BY <1>1, <1>2, <1>4, <1>6 DEF C1
<1>8. C2(s) = b - 1
  <2>1. X2(s) < bd((b - 1) + 1)
    BY <1>4, <1>6
  <2> QED
    BY <1>1, <1>2, <1>4, <1>6, <2>1 DEF C2
<1> QED
  BY <1>3, <1>4, <1>5, <1>7, <1>8 DEF WholeColumns, bd

\* A slice from a row of CTUs of one tile to one of the same or another tile.
LEMMA RowsOf ==
  ASSUME IsTiled(pic), NEW s \in Rectangle,
         NEW a \in 0..(NumTileRows(pic) - 1), NEW b \in 0..(NumTileRows(pic) - 1),
         TileRowBd(pic, a) <= Y1(s), Y1(s) < TileRowBd(pic, a + 1),
         TileRowBd(pic, b) <= Y2(s), Y2(s) < TileRowBd(pic, b + 1)
  PROVE  R1(s) = a /\ R2(s) = b
<1>1. Y1(s) \in Nat /\ Y2(s) \in Nat
  BY RectangleParts
<1> QED
  BY <1>1, TileRows DEF R1, R2

\* What Available says of rows and columns.
LEMMA AvailableMeans ==
  ASSUME IsTiled(pic), slices \in Seq(Rectangle), NEW s \in Rectangle, Available(s)
  PROVE  /\ \A i \in 1..Len(slices) : \A x, y \in Nat : ~(Has(slices[i], x, y) /\ Has(s, x, y))
         /\ \A x, y \in Nat : Has(s, x, y) =>
              /\ x > 0 => Has(s, x - 1, y) \/ \E i \in 1..Len(slices) : Has(slices[i], x - 1, y)
              /\ y > 0 => Has(s, x, y - 1) \/ \E i \in 1..Len(slices) : Has(slices[i], x, y - 1)
<1> DEFINE w == pic.width  N == CtusOfPicture(pic)
           Place(r) == \A x \in 0..(w - 1), y \in 0..(pic.height - 1) :
                         y * w + x \in CtusIn(r) <=> Has(r, x, y)
<1>1. w \in Nat /\ pic.height \in Nat /\ DOMAIN slices = 1..Len(slices)
  BY DEF IsTiled, Positive
<1>2. \A x \in 0..(w - 1), y \in 0..(pic.height - 1) :
        /\ y * w + x \in N /\ CtuX(pic, y * w + x) = x /\ CtuY(pic, y * w + x) = y
  BY CtuAt
<1>3. \A r \in Rectangle : Place(r)
  BY <1>2, InSlice
<1>4. \A r \in Rectangle : \A x, y \in Nat : Has(r, x, y) => x \in 0..(w - 1) /\ y \in 0..(pic.height - 1)
  <2> TAKE r \in Rectangle
  <2> TAKE x, y \in Nat
  <2>1. X2(r) \in 0..(w - 1) /\ Y2(r) \in 0..(pic.height - 1) /\ X1(r) \in Nat /\ Y1(r) \in Nat
    BY RectangleParts
  <2> QED
    BY <1>1, <2>1 DEF Has
<1>5. \A i \in 1..Len(slices) : slices[i] \in Rectangle
  OBVIOUS
<1>6. \A c : c \in Covered <=> \E i \in 1..Len(slices) : c \in CtusIn(slices[i])
  BY <1>1 DEF Covered
<1>7. Covered \cap CtusIn(s) = {}
      /\ \A c \in CtusIn(s) :
           /\ CtuX(pic, c) > 0 => c - 1 \in Covered \cup CtusIn(s)
           /\ CtuY(pic, c) > 0 => c - pic.width \in Covered \cup CtusIn(s)
  BY DEF Available
<1>8. Place(s)
  BY <1>3
<1>9. \A i \in 1..Len(slices) : Place(slices[i])
  BY <1>3, <1>5
<1>10. \A i \in 1..Len(slices) : \A x, y \in Nat : ~(Has(slices[i], x, y) /\ Has(s, x, y))
  <2> TAKE i \in 1..Len(slices)
  <2> TAKE x, y \in Nat
  <2> SUFFICES ASSUME Has(slices[i], x, y), Has(s, x, y) PROVE FALSE
    OBVIOUS
  <2>1. x \in 0..(w - 1) /\ y \in 0..(pic.height - 1)
    BY <1>4
  <2>2. y * w + x \in CtusIn(s) /\ y * w + x \in CtusIn(slices[i])
    BY <1>8, <1>9, <2>1
  <2> QED
    BY <1>6, <1>7, <2>2
<1>11. ASSUME NEW x \in Nat, NEW y \in Nat, x \in 0..(w - 1), y \in 0..(pic.height - 1),
              y * w + x \in Covered \cup CtusIn(s)
       PROVE  Has(s, x, y) \/ \E i \in 1..Len(slices) : Has(slices[i], x, y)
  <2>1. CASE y * w + x \in CtusIn(s)
    BY <1>8, <1>11, <2>1
  <2>2. CASE y * w + x \in Covered
    <3>1. PICK i \in 1..Len(slices) : y * w + x \in CtusIn(slices[i])
      BY <1>6, <2>2
    <3> QED
      BY <1>9, <1>11, <3>1
  <2> QED
    BY <1>11, <2>1, <2>2
<1>12. ASSUME NEW x \in Nat, NEW y \in Nat, Has(s, x, y)
       PROVE  /\ x > 0 => Has(s, x - 1, y) \/ \E i \in 1..Len(slices) : Has(slices[i], x - 1, y)
              /\ y > 0 => Has(s, x, y - 1) \/ \E i \in 1..Len(slices) : Has(slices[i], x, y - 1)
  <2> DEFINE c == y * w + x
  <2>1. x \in 0..(w - 1) /\ y \in 0..(pic.height - 1)
    BY <1>4, <1>12
  <2>2. c \in CtusIn(s) /\ CtuX(pic, c) = x /\ CtuY(pic, c) = y
    BY <1>2, <1>8, <1>12, <2>1
  <2>3. y * w \in Nat /\ (y - 1) * w = y * w - w
    BY <1>1, <2>1
  <2>4. ASSUME x > 0
        PROVE  Has(s, x - 1, y) \/ \E i \in 1..Len(slices) : Has(slices[i], x - 1, y)
    <3>1. c - 1 \in Covered \cup CtusIn(s)
      BY <1>7, <2>2, <2>4
    <3>2. c - 1 = y * w + (x - 1) /\ x - 1 \in Nat /\ x - 1 \in 0..(w - 1)
      BY <1>1, <2>1, <2>3, <2>4
    <3> QED
      BY <1>11, <2>1, <3>1, <3>2
  <2>5. ASSUME y > 0
        PROVE  Has(s, x, y - 1) \/ \E i \in 1..Len(slices) : Has(slices[i], x, y - 1)
    <3>1. c - w \in Covered \cup CtusIn(s)
      BY <1>7, <2>2, <2>5
    <3>2. y - 1 \in Nat /\ y - 1 \in 0..(pic.height - 1)
      BY <1>1, <2>1, <2>5
    <3>3. c - w = (y - 1) * w + x
      BY <1>1, <2>1, <2>3
    <3> QED
      BY <1>11, <2>1, <3>1, <3>2, <3>3
  <2> QED
    BY <2>4, <2>5
<1> QED
  BY <1>10, <1>12

\* Slices that are available together fit.
LEMMA TheyFit ==
  ASSUME IsTiled(pic), slices \in Seq(Rectangle), NEW s \in Rectangle, Available(s),
         NEW new, Strips(new), Y1(new[1]) = Y1(s),
         \A k \in 1..Len(new) : /\ X1(new[k]) = X1(s) /\ X2(new[k]) = X2(s)
                                /\ Y1(s) <= Y1(new[k]) /\ Y2(new[k]) <= Y2(s)
  PROVE  Fits(slices, new)
<1> DEFINE n == Len(slices)  m == Len(new)
<1>1. new \in Seq(Rectangle) /\ m \in Nat /\ m >= 1
  BY DEF Strips
<1>2. \A r \in Rectangle : X1(r) \in Nat /\ X2(r) \in Nat /\ Y1(r) \in Nat /\ Y2(r) \in Nat
  BY RectangleParts
<1>3. \A k \in 1..m : new[k] \in Rectangle
  BY <1>1
<1>4. \A k \in 1..m : Y1(new[k]) \in Nat /\ Y2(new[k]) \in Nat
  BY <1>2, <1>3
<1>5. X1(s) \in Nat /\ X2(s) \in Nat /\ Y1(s) \in Nat /\ Y2(s) \in Nat
  BY <1>2
<1>6. \A k \in 1..m : \A x, y \in Nat : Has(new[k], x, y) => Has(s, x, y)
  BY <1>4, <1>5 DEF Has
<1>7. \A k \in 1..m : \A x, y \in Nat : Has(new[k], x, y) /\ x > 0 /\ Has(s, x - 1, y) => Has(new[k], x - 1, y)
  BY <1>4, <1>5 DEF Has
<1>8. \A x, y \in Nat : Has(new[1], x, y) /\ y > 0 /\ Has(s, x, y - 1) => Has(new[1], x, y - 1)
  <2>1. 1 \in 1..m
    BY <1>1
  <2> QED
    BY <1>4, <1>5, <2>1 DEF Has
<1>9. 1 \in 1..m
  BY <1>1
<1> HIDE DEF n, m
<1>10. /\ \A i \in 1..n : \A x, y \in Nat : ~(Has(slices[i], x, y) /\ Has(s, x, y))
       /\ \A x, y \in Nat : Has(s, x, y) =>
            /\ x > 0 => Has(s, x - 1, y) \/ \E i \in 1..n : Has(slices[i], x - 1, y)
            /\ y > 0 => Has(s, x, y - 1) \/ \E i \in 1..n : Has(slices[i], x, y - 1)
  BY AvailableMeans DEF n
<1> QED
  BY <1>6, <1>7, <1>8, <1>9, <1>10 DEF Fits, n, m

\* A slice of whole tiles is drawn with the others.
LEMMA AddTilesDraws ==
  ASSUME IsTiled(pic), Drawn(slices), AddTiles
  PROVE  Drawn(slices')
<1> DEFINE C(i) == TileColumnBd(pic, i)  R(i) == TileRowBd(pic, i)
<1>1. PICK a \in 0..(NumTileCols(pic) - 1), u \in 0..(NumTileRows(pic) - 1) :
      \E b \in (a + 1)..NumTileCols(pic), v \in (u + 1)..NumTileRows(pic) :
        LET s == SliceOf(C(a), C(b), R(u), R(v))
        IN Available(s) /\ slices' = Append(slices, s)
  BY DEF AddTiles
<1>2. PICK b \in (a + 1)..NumTileCols(pic), v \in (u + 1)..NumTileRows(pic) :
        LET s == SliceOf(C(a), C(b), R(u), R(v))
        IN Available(s) /\ slices' = Append(slices, s)
  BY <1>1
<1> DEFINE s == SliceOf(C(a), C(b), R(u), R(v))  new == <<s>>
<1>3. Available(s) /\ slices' = Append(slices, s)
  BY <1>2
<1>4. NumTileCols(pic) \in Nat /\ NumTileRows(pic) \in Nat
  BY TileColumns, TileRows
<1>5. /\ a \in 0..NumTileCols(pic) /\ b \in 0..NumTileCols(pic) /\ a < b
      /\ u \in 0..NumTileRows(pic) /\ u + 1 \in 0..NumTileRows(pic) /\ u < u + 1
      /\ v \in 0..NumTileRows(pic) /\ u < v
      /\ v - 1 \in 0..NumTileRows(pic) /\ v - 1 \in 0..(NumTileRows(pic) - 1) /\ v - 1 < v
      /\ (v - 1) + 1 = v
  BY <1>4
<1>6. C(a) \in 0..pic.width /\ C(b) \in 0..pic.width /\ C(a) < C(b)
  BY <1>5, TileColumns
<1>7. /\ R(u) \in 0..pic.height /\ R(v) \in 0..pic.height /\ R(u) < R(v) /\ pic.height \in Nat
      /\ R(u) < R(u + 1) /\ R(v - 1) < R(v) /\ R(u + 1) \in 0..pic.height /\ R(v - 1) \in 0..pic.height
  BY <1>5, TileRows
<1>8. /\ s \in Rectangle /\ X1(s) = C(a) /\ X2(s) = C(b) - 1 /\ Y1(s) = R(u) /\ Y2(s) = R(v) - 1
  BY <1>6, <1>7, Corners
<1> HIDE DEF C, R, s
<1>9. WholeColumns(s)
  BY <1>8, ColumnsOf DEF C
<1>10. R1(s) = u /\ R2(s) = v - 1
  <2>1. R(u) <= Y1(s) /\ Y1(s) < R(u + 1) /\ R(v - 1) <= Y2(s) /\ Y2(s) < R((v - 1) + 1)
    BY <1>5, <1>7, <1>8
  <2> QED
    BY <1>5, <1>8, <2>1, RowsOf DEF R
<1>11. FromTop(s) /\ ToBottom(s)
  BY <1>5, <1>7, <1>8, <1>10 DEF FromTop, ToBottom, R
<1>12. Len(new) = 1 /\ new[1] = s /\ new \in Seq(Rectangle)
  BY <1>8
<1>13. slices' = slices \o new
  BY <1>3 DEF Drawn
<1> HIDE DEF new
<1>14. Strips(new)
  <2>1. \A k \in 1..1 : k = 1
    OBVIOUS
  <2>2. 2..1 = {}
    OBVIOUS
  <2> QED
    BY <1>9, <1>11, <1>12, <2>1, <2>2 DEF Strips
<1>15. Y1(s) \in Nat /\ Y2(s) \in Nat
  BY <1>8, RectangleParts
<1>16. Fits(slices, new)
  <2>1. \A k \in 1..Len(new) : /\ X1(new[k]) = X1(s) /\ X2(new[k]) = X2(s)
                               /\ Y1(s) <= Y1(new[k]) /\ Y2(new[k]) <= Y2(s)
    <3>1. \A k \in 1..1 : k = 1
      OBVIOUS
    <3> QED
      BY <1>12, <1>15, <3>1
  <2>2. slices \in Seq(Rectangle)
    BY DEF Drawn
  <2> QED
    BY <1>3, <1>8, <1>12, <1>14, <2>1, <2>2, TheyFit
<1> QED
  BY <1>13, <1>14, <1>16, NextDrawn

\* So are the slices of a tile.
LEMMA SplitTileDraws ==
  ASSUME IsTiled(pic), Drawn(slices), SplitTile
  PROVE  Drawn(slices')
<1> DEFINE C(i) == TileColumnBd(pic, i)  R(i) == TileRowBd(pic, i)
           BdOf(u, heights) == [k \in 1..(Len(heights) + 1) |-> R(u) + Boundaries(heights)[k]]
           NewOf(a, u, heights) ==
             [k \in 1..Len(heights) |->
               SliceOf(C(a), C(a + 1), BdOf(u, heights)[k], BdOf(u, heights)[k + 1])]
           BigOf(a, u, heights) == [first |-> NewOf(a, u, heights)[1].first,
                                    last |-> NewOf(a, u, heights)[Len(heights)].last]
<1> DEFINE Cut(a, u, heights) ==
             LET n == Len(heights)
                 bd == [k \in 1..(n + 1) |-> TileRowBd(pic, u) + Boundaries(heights)[k]]
                 strips == [k \in 1..n |->
                              SliceOf(TileColumnBd(pic, a), TileColumnBd(pic, a + 1), bd[k], bd[k + 1])]
             IN /\ n > 1 /\ bd[n + 1] = TileRowBd(pic, u + 1)
                /\ stage = "slices" /\ Len(slices) + n <= MaxSlices
                /\ Available([first |-> strips[1].first, last |-> strips[n].last])
                /\ slices' = slices \o strips
                /\ UNCHANGED <<stage, config, pic, enc, syntax, at, dec>>
<1>a. \E a \in 0..(NumTileCols(pic) - 1), u \in 0..(NumTileRows(pic) - 1) :
      \E heights \in SeqOf(1..pic.rows[u + 1], pic.rows[u + 1]) : Cut(a, u, heights)
  BY Zenon DEF SplitTile
<1>b. PICK a \in 0..(NumTileCols(pic) - 1), u \in 0..(NumTileRows(pic) - 1) :
      \E heights \in SeqOf(1..pic.rows[u + 1], pic.rows[u + 1]) : Cut(a, u, heights)
  <2> HIDE DEF Cut
  <2> QED
    BY <1>a
<1>1. PICK heights \in SeqOf(1..pic.rows[u + 1], pic.rows[u + 1]) : Cut(a, u, heights)
  <2> HIDE DEF Cut
  <2> QED
    BY <1>b
<1>2. /\ Len(heights) > 1
      /\ BdOf(u, heights)[Len(heights) + 1] = R(u + 1)
      /\ Available(BigOf(a, u, heights))
      /\ slices' = slices \o NewOf(a, u, heights)
  BY <1>1, Zenon
<1> HIDE DEF Cut
<1> DEFINE n == Len(heights)  B == Boundaries(heights)  bd == BdOf(u, heights)
           new == NewOf(a, u, heights)  s == BigOf(a, u, heights)
<1>3. NumTileCols(pic) \in Nat /\ NumTileRows(pic) \in Nat
  BY TileColumns, TileRows
<1>4. heights \in Seq(Positive) /\ n \in Nat /\ n > 1
  <2>1. PICK m \in 0..pic.rows[u + 1] : heights \in [1..m -> 1..pic.rows[u + 1]]
    BY DEF SeqOf
  <2>2. pic.rows[u + 1] \in Nat
    <3>1. pic.rows \in Seq(Positive) /\ u + 1 \in 1..Len(pic.rows)
      BY <1>3 DEF IsTiled, NumTileRows
    <3> QED
      BY <3>1 DEF Positive
  <2>3. m \in Nat /\ \A k \in 1..m : heights[k] \in Positive
    BY <2>1, <2>2 DEF Positive
  <2>4. heights = [k \in 1..m |-> heights[k]]
    BY <2>1
  <2>5. heights \in Seq(Positive) /\ n = m
    BY <2>3, <2>4
  <2> QED
    BY <1>2, <2>3, <2>5
<1>5. /\ \A i \in 1..(n + 1) : B[i] \in Nat
      /\ B[1] = 0
      /\ \A i, j \in 1..(n + 1) : i < j => B[i] < B[j]
  BY <1>4, BoundariesIncrease
<1>6. /\ a \in 0..NumTileCols(pic) /\ a + 1 \in 0..NumTileCols(pic) /\ a < a + 1
      /\ a + 1 \in (a + 1)..NumTileCols(pic) /\ (a + 1) - 1 = a
      /\ u \in 0..NumTileRows(pic) /\ u + 1 \in 0..NumTileRows(pic)
  BY <1>3
<1>7. C(a) \in 0..pic.width /\ C(a + 1) \in 0..pic.width /\ C(a) < C(a + 1)
  BY <1>6, TileColumns
<1>8. R(u) \in 0..pic.height /\ R(u + 1) \in 0..pic.height /\ pic.height \in Nat
  BY <1>6, TileRows
<1>9. /\ \A k \in 1..(n + 1) : bd[k] = R(u) + B[k]
      /\ bd[n + 1] = R(u + 1)
  BY <1>2
<1>10. /\ new = [k \in 1..n |-> SliceOf(C(a), C(a + 1), bd[k], bd[k + 1])]
       /\ s = [first |-> new[1].first, last |-> new[n].last]
  OBVIOUS
<1>11. Available(s) /\ slices' = slices \o new
  BY <1>2
<1> HIDE DEF C, R, n, B, bd, new, s, BdOf, NewOf, BigOf
<1>12. /\ \A k \in 1..(n + 1) : bd[k] \in 0..pic.height /\ R(u) <= bd[k] /\ bd[k] <= R(u + 1)
       /\ \A j, k \in 1..(n + 1) : j < k => bd[j] < bd[k]
       /\ bd[1] = R(u)
  <2>1. \A j, k \in 1..(n + 1) : j < k => bd[j] < bd[k]
    <3> TAKE j, k \in 1..(n + 1)
    <3>1. bd[j] = R(u) + B[j] /\ bd[k] = R(u) + B[k] /\ B[j] \in Nat /\ B[k] \in Nat /\ R(u) \in Nat
      BY <1>5, <1>8, <1>9
    <3> QED
      BY <1>5, <3>1
  <2>2. bd[1] = R(u)
    BY <1>4, <1>5, <1>8, <1>9
  <2>3. \A k \in 1..(n + 1) : bd[k] \in 0..pic.height /\ R(u) <= bd[k] /\ bd[k] <= R(u + 1)
    <3> TAKE k \in 1..(n + 1)
    <3>1. bd[k] = R(u) + B[k] /\ B[k] \in Nat /\ R(u) \in Nat /\ R(u + 1) \in Nat /\ R(u + 1) <= pic.height
      BY <1>5, <1>8, <1>9
    <3>2. k = n + 1 \/ (k < n + 1 /\ n + 1 \in 1..(n + 1))
      BY <1>4
    <3>3. bd[k] <= R(u + 1)
      <4>1. CASE k = n + 1
        BY <1>9, <3>1, <4>1
      <4>2. CASE k < n + 1
        <5>1. bd[k] < bd[n + 1] /\ bd[n + 1] = R(u + 1)
          BY <1>9, <2>1, <3>2, <4>2
        <5> QED
          BY <3>1, <5>1
      <4> QED
        BY <3>2, <4>1, <4>2
    <3> QED
      BY <1>8, <3>1, <3>3
  <2> QED
    BY <2>1, <2>2, <2>3
<1>13. ASSUME NEW k \in 1..n
       PROVE  /\ new[k] \in Rectangle
              /\ X1(new[k]) = C(a) /\ X2(new[k]) = C(a + 1) - 1
              /\ Y1(new[k]) = bd[k] /\ Y2(new[k]) = bd[k + 1] - 1
              /\ WholeColumns(new[k]) /\ C1(new[k]) = a /\ C2(new[k]) = a
              /\ R1(new[k]) = u /\ R2(new[k]) = u
  <2>1. k \in 1..(n + 1) /\ k + 1 \in 1..(n + 1) /\ k < k + 1
    BY <1>4
  <2>2. bd[k] \in 0..pic.height /\ bd[k + 1] \in 0..pic.height /\ bd[k] < bd[k + 1]
    BY <1>12, <2>1
  <2>3. new[k] = SliceOf(C(a), C(a + 1), bd[k], bd[k + 1])
    BY <1>10
  <2>4. /\ new[k] \in Rectangle
        /\ X1(new[k]) = C(a) /\ X2(new[k]) = C(a + 1) - 1
        /\ Y1(new[k]) = bd[k] /\ Y2(new[k]) = bd[k + 1] - 1
    BY <1>7, <2>2, <2>3, Corners
  <2>5. WholeColumns(new[k]) /\ C1(new[k]) = a /\ C2(new[k]) = a
    BY <1>6, <2>4, ColumnsOf DEF C
  <2>6. /\ R(u) <= Y1(new[k]) /\ Y1(new[k]) < R(u + 1)
        /\ R(u) <= Y2(new[k]) /\ Y2(new[k]) < R(u + 1)
    <3>1. R(u) <= bd[k] /\ bd[k + 1] <= R(u + 1)
      BY <1>12, <2>1
    <3> QED
      BY <1>8, <2>2, <2>4, <3>1
  <2>7. R1(new[k]) = u /\ R2(new[k]) = u
    BY <2>4, <2>6, RowsOf DEF R
  <2> QED
    BY <2>4, <2>5, <2>7
<1>14. new \in Seq(Rectangle) /\ Len(new) = n
  BY <1>4, <1>10, <1>13
<1>15. 1 \in 1..n /\ n \in 1..n
  BY <1>4
<1>16. /\ X1(s) = C(a) /\ X2(s) = C(a + 1) - 1 /\ Y1(s) = bd[1] /\ Y2(s) = bd[n + 1] - 1
       /\ s \in Rectangle
  <2>1. /\ X1(s) = X1(new[1]) /\ Y1(s) = Y1(new[1]) /\ X2(s) = X2(new[n]) /\ Y2(s) = Y2(new[n])
    BY <1>10 DEF X1, X2, Y1, Y2
  <2>2. /\ X1(s) = C(a) /\ X2(s) = C(a + 1) - 1 /\ Y1(s) = bd[1] /\ Y2(s) = bd[n + 1] - 1
    BY <1>13, <1>15, <2>1
  <2>3. s \in [first : Nat, last : Nat]
    <3>1. new[1].first \in Nat /\ new[n].last \in Nat
      BY <1>13, <1>15 DEF Rectangle
    <3> QED
      BY <1>10, <3>1
  <2>4. /\ s.first \in Nat /\ s.last \in Nat
        /\ X1(s) \in 0..(pic.width - 1) /\ X2(s) \in 0..(pic.width - 1)
        /\ Y1(s) \in 0..(pic.height - 1) /\ Y2(s) \in 0..(pic.height - 1)
        /\ X1(s) <= X2(s) /\ Y1(s) <= Y2(s)
    <3>1. 1 \in 1..(n + 1) /\ n + 1 \in 1..(n + 1) /\ 1 < n + 1
      BY <1>4
    <3>2. bd[1] \in 0..pic.height /\ bd[n + 1] \in 0..pic.height /\ bd[1] < bd[n + 1]
      BY <1>12, <3>1
    <3>3. pic.width \in Nat
      BY DEF IsTiled, Positive
    <3>4. s.first \in Nat /\ s.last \in Nat
      BY <2>3
    <3> DEFINE e == C(a)  f == C(a + 1)  g == bd[1]  h == bd[n + 1]  w == pic.width  l == pic.height
    <3>5. /\ e \in 0..w /\ f \in 0..w /\ e < f /\ g \in 0..l /\ h \in 0..l /\ g < h
          /\ w \in Nat /\ l \in Nat
      BY <1>7, <1>8, <3>2, <3>3
    <3>6. X1(s) = e /\ X2(s) = f - 1 /\ Y1(s) = g /\ Y2(s) = h - 1
      BY <2>2
    <3>7. /\ X1(s) \in 0..(w - 1) /\ X2(s) \in 0..(w - 1)
          /\ Y1(s) \in 0..(l - 1) /\ Y2(s) \in 0..(l - 1)
          /\ X1(s) <= X2(s) /\ Y1(s) <= Y2(s)
      <4> HIDE DEF e, f, g, h, w, l
      <4> QED
        BY <3>5, <3>6
    <3> QED
      BY <3>4, <3>7
  <2> QED
    BY <2>2, <2>3, <2>4 DEF Rectangle, IsRectangle, X1, X2, Y1, Y2
<1>17. Strips(new)
  <2>1. \A k \in 1..n : WholeColumns(new[k])
    BY <1>13
  <2>2. FromTop(new[1])
    BY <1>12, <1>13, <1>15 DEF FromTop, R
  <2>3. ToBottom(new[n])
    <3>1. Y2(new[n]) = R(u + 1) - 1 /\ R2(new[n]) = u
      BY <1>9, <1>13, <1>15
    <3> QED
      BY <1>8, <3>1 DEF ToBottom, R
  <2>4. \A k \in 1..n : InOne(new[k]) /\ C1(new[k]) = C1(new[1]) /\ R1(new[k]) = R1(new[1])
    BY <1>13, <1>15 DEF InOne
  <2>5. \A k \in 2..n : Y1(new[k]) = Y2(new[k - 1]) + 1
    <3> TAKE k \in 2..n
    <3>1. k \in 1..n /\ k - 1 \in 1..n /\ (k - 1) + 1 = k /\ k \in 1..(n + 1)
      BY <1>4
    <3>2. Y1(new[k]) = bd[k] /\ Y2(new[k - 1]) = bd[k] - 1 /\ bd[k] \in 0..pic.height
      BY <1>12, <1>13, <3>1
    <3> QED
      BY <1>8, <3>2
  <2>6. \A j, k \in 1..n : j < k => Y2(new[j]) < Y1(new[k])
    <3> TAKE j, k \in 1..n
    <3> SUFFICES ASSUME j < k PROVE Y2(new[j]) < Y1(new[k])
      OBVIOUS
    <3>1. j + 1 \in 1..(n + 1) /\ k \in 1..(n + 1) /\ (j + 1 = k \/ j + 1 < k)
      BY <1>4
    <3>2. bd[j + 1] \in 0..pic.height /\ bd[k] \in 0..pic.height /\ bd[j + 1] <= bd[k]
      BY <1>8, <1>12, <3>1
    <3>3. Y2(new[j]) = bd[j + 1] - 1 /\ Y1(new[k]) = bd[k]
      BY <1>13
    <3> QED
      BY <1>8, <3>2, <3>3
  <2> QED
    BY <1>4, <1>14, <2>1, <2>2, <2>3, <2>4, <2>5, <2>6 DEF Strips
<1>18. Fits(slices, new)
  <2>1. \A k \in 1..n : /\ X1(new[k]) = X1(s) /\ X2(new[k]) = X2(s)
                        /\ Y1(s) <= Y1(new[k]) /\ Y2(new[k]) <= Y2(s)
    <3> TAKE k \in 1..n
    <3>1. /\ X1(new[k]) = C(a) /\ X2(new[k]) = C(a + 1) - 1
          /\ Y1(new[k]) = bd[k] /\ Y2(new[k]) = bd[k + 1] - 1
      BY <1>13
    <3>2. k \in 1..(n + 1) /\ k + 1 \in 1..(n + 1)
      BY <1>4
    <3>3. bd[1] <= bd[k] /\ bd[k + 1] <= bd[n + 1] /\ bd[k + 1] \in Int /\ bd[n + 1] \in Int
      BY <1>9, <1>12, <3>2, <1>8
    <3> QED
      BY <1>16, <3>1, <3>3
  <2>2. slices \in Seq(Rectangle)
    BY DEF Drawn
  <2>3. Y1(new[1]) = Y1(s)
    BY <1>13, <1>15, <1>16
  <2> QED
    BY <1>11, <1>14, <1>16, <1>17, <2>1, <2>2, <2>3, TheyFit
<1> QED
  BY <1>11, <1>17, <1>18, NextDrawn

-----------------------------------------------------------------------------
(* The configured slices together.                                          *)

\* Together the slices have every CTU of the picture.
Complete(ss) ==
  \A x \in 0..(pic.width - 1), y \in 0..(pic.height - 1) : \E i \in 1..Len(ss) : Has(ss[i], x, y)

\* To the right of a slice and below it there are no earlier ones.
LEMMA FarIsLater ==
  ASSUME NEW ss, Drawn(ss), NEW i \in 1..Len(ss), NEW j \in 1..Len(ss),
         NEW x \in Nat, NEW y \in Nat, NEW x2 \in Nat, NEW y2 \in Nat,
         x <= x2, y <= y2, Has(ss[i], x, y), Has(ss[j], x2, y2)
  PROVE  i <= j
<1> DEFINE n == Len(ss)
           InCol(k) == \A m \in 1..n : Has(ss[m], k, y) => i <= m
           InLine(k) == \A m \in 1..n : Has(ss[m], x2, k) => i <= m
           S == {k \in x..x2 : InCol(k)}
           T == {k \in y..y2 : InLine(k)}
<1>1. n \in Nat /\ Apart(ss) /\ Grown(ss) /\ i \in 1..n /\ j \in 1..n
  BY DEF Drawn
<1>2. x \in S
  <2>1. InCol(x)
    <3> TAKE m \in 1..n
    <3> HAVE Has(ss[m], x, y)
    <3>1. i = m
      BY <1>1 DEF Apart
    <3> QED
      BY <1>1, <3>1
  <2> HIDE DEF InCol
  <2> QED
    BY <2>1
<1>3. ASSUME NEW k \in S, k < x2 PROVE k + 1 \in S
  <2>1. k \in Nat /\ k + 1 \in x..x2 /\ k + 1 \in Nat /\ k + 1 > 0 /\ k + 1 - 1 = k
    BY <1>3
  <2>2. InCol(k)
    BY <1>3
  <2>3. InCol(k + 1)
    <3> TAKE m \in 1..n
    <3> HAVE Has(ss[m], k + 1, y)
    <3>1. LeftBefore(ss, m)
      BY <1>1 DEF Grown
    <3>2. \E q \in 1..m : Has(ss[q], k, y)
      <4>1. \E q \in 1..m : Has(ss[q], k + 1 - 1, y)
        BY <2>1, <3>1 DEF LeftBefore
      <4> QED
        BY <2>1, <4>1
    <3>3. PICK q \in 1..m : Has(ss[q], k, y)
      BY <3>2
    <3>4. q \in 1..n /\ q <= m
      BY <1>1
    <3>5. i <= q
      BY <2>2, <3>3, <3>4
    <3> QED
      BY <1>1, <3>4, <3>5
  <2> HIDE DEF InCol
  <2> QED
    BY <2>1, <2>3
<1>4. S = x..x2
  <2>1. S \in SUBSET (x..x2)
    OBVIOUS
  <2> HIDE DEF S
  <2> QED
    BY <1>2, <1>3, <2>1, InductionUpTo
<1>5. y \in T
  <2>1. x2 \in S
    <3>1. x2 \in x..x2
      OBVIOUS
    <3> HIDE DEF S
    <3> QED
      BY <1>4, <3>1
  <2>2. InLine(y)
    BY <2>1
  <2> HIDE DEF InLine
  <2> QED
    BY <2>2
<1>6. ASSUME NEW k \in T, k < y2 PROVE k + 1 \in T
  <2>1. k \in Nat /\ k + 1 \in y..y2 /\ k + 1 \in Nat /\ k + 1 > 0 /\ k + 1 - 1 = k
    BY <1>6
  <2>2. InLine(k)
    BY <1>6
  <2>3. InLine(k + 1)
    <3> TAKE m \in 1..n
    <3> HAVE Has(ss[m], x2, k + 1)
    <3>1. UpBefore(ss, m)
      BY <1>1 DEF Grown
    <3>2. \E q \in 1..m : Has(ss[q], x2, k)
      <4>1. \E q \in 1..m : Has(ss[q], x2, k + 1 - 1)
        BY <2>1, <3>1 DEF UpBefore
      <4> QED
        BY <2>1, <4>1
    <3>3. PICK q \in 1..m : Has(ss[q], x2, k)
      BY <3>2
    <3>4. q \in 1..n /\ q <= m
      BY <1>1
    <3>5. i <= q
      BY <2>2, <3>3, <3>4
    <3> QED
      BY <1>1, <3>4, <3>5
  <2> HIDE DEF InLine
  <2> QED
    BY <2>1, <2>3
<1>7. T = y..y2
  <2>1. T \in SUBSET (y..y2)
    OBVIOUS
  <2> HIDE DEF T
  <2> QED
    BY <1>5, <1>6, <2>1, InductionUpTo
<1>8. y2 \in T
  BY <1>7
<1> QED
  BY <1>1, <1>8

\* A slice has its corners.
LEMMA HasCorners ==
  ASSUME IsTiled(pic), NEW s \in Rectangle
  PROVE  /\ Has(s, X1(s), Y1(s)) /\ Has(s, X2(s), Y2(s)) /\ Has(s, X2(s), Y1(s))
         /\ X1(s) \in Nat /\ X2(s) \in Nat /\ Y1(s) \in Nat /\ Y2(s) \in Nat
<1> DEFINE a == X1(s)  b == X2(s)  c == Y1(s)  d == Y2(s)
<1>1. /\ pic.width \in Nat /\ pic.height \in Nat
      /\ a \in 0..(pic.width - 1) /\ b \in 0..(pic.width - 1) /\ a <= b
      /\ c \in 0..(pic.height - 1) /\ d \in 0..(pic.height - 1) /\ c <= d
  BY RectangleParts
<1>2. \A x, y : Has(s, x, y) <=> x \in a..b /\ y \in c..d
  BY DEF Has
<1> HIDE DEF a, b, c, d
<1>3. a \in Nat /\ b \in Nat /\ c \in Nat /\ d \in Nat /\ a \in a..b /\ b \in a..b /\ c \in c..d /\ d \in c..d
  BY <1>1
<1>4. Has(s, a, c) /\ Has(s, b, d) /\ Has(s, b, c)
  BY <1>2, <1>3
<1> QED
  BY <1>3, <1>4 DEF a, b, c, d

\* The first slice begins where the picture begins.
LEMMA FirstIsFirst ==
  ASSUME IsTiled(pic), NEW ss, Drawn(ss), Len(ss) > 0
  PROVE  /\ ss[1] \in Rectangle /\ X1(ss[1]) = 0 /\ Y1(ss[1]) = 0
         /\ C1(ss[1]) = 0 /\ R1(ss[1]) = 0
<1> DEFINE s == ss[1]
<1>1. ss \in Seq(Rectangle) /\ Len(ss) \in Nat /\ 1 \in 1..Len(ss) /\ Grown(ss)
  BY DEF Drawn
<1>2. s \in Rectangle
  BY <1>1
<1>3. Has(s, X1(s), Y1(s)) /\ X1(s) \in Nat /\ X2(s) \in Nat /\ Y1(s) \in Nat /\ Y2(s) \in Nat
  BY <1>2, HasCorners
<1>4. LeftBefore(ss, 1) /\ UpBefore(ss, 1)
  BY <1>1 DEF Grown
<1>5. X1(s) = 0
  <2> SUFFICES ASSUME X1(s) > 0 PROVE FALSE
    BY <1>3
  <2>1. \E k \in 1..1 : Has(ss[k], X1(s) - 1, Y1(s))
    BY <1>3, <1>4 DEF LeftBefore
  <2>2. Has(s, X1(s) - 1, Y1(s))
    BY <2>1
  <2> QED
    BY <1>3, <2>2 DEF Has
<1>6. Y1(s) = 0
  <2> SUFFICES ASSUME Y1(s) > 0 PROVE FALSE
    BY <1>3
  <2>1. \E k \in 1..1 : Has(ss[k], X1(s), Y1(s) - 1)
    BY <1>3, <1>4 DEF UpBefore
  <2>2. Has(s, X1(s), Y1(s) - 1)
    BY <2>1
  <2> QED
    BY <1>3, <2>2 DEF Has
<1>7. C1(s) = 0
  <2>1. /\ NumTileCols(pic) \in Nat /\ NumTileCols(pic) >= 1
        /\ TileColumnBd(pic, 0) \in 0..pic.width /\ TileColumnBd(pic, 1) \in 0..pic.width /\ pic.width \in Nat
        /\ TileColumnBd(pic, 0) < TileColumnBd(pic, 1)
        /\ \A i \in 0..(NumTileCols(pic) - 1), x \in Nat :
              TileColumnBd(pic, i) <= x /\ x < TileColumnBd(pic, i + 1) => CtuToTileCol(pic, x) = i
    BY TileColumns
  <2>2. TileColumnBd(pic, 0) = 0
    <3>1. pic.cols \in Seq(Positive)
      BY DEF IsTiled
    <3> QED
      BY <3>1, BoundariesIncrease DEF TileColumnBd
  <2>3. CtuToTileCol(pic, 0) = 0
    BY <2>1, <2>2
  <2> QED
    BY <1>5, <2>3 DEF C1
<1>8. R1(s) = 0
  <2>1. /\ NumTileRows(pic) \in Nat /\ NumTileRows(pic) >= 1
        /\ TileRowBd(pic, 0) \in 0..pic.height /\ TileRowBd(pic, 1) \in 0..pic.height /\ pic.height \in Nat
        /\ TileRowBd(pic, 0) < TileRowBd(pic, 1)
        /\ \A i \in 0..(NumTileRows(pic) - 1), x \in Nat :
              TileRowBd(pic, i) <= x /\ x < TileRowBd(pic, i + 1) => CtuToTileRow(pic, x) = i
    BY TileRows
  <2>2. TileRowBd(pic, 0) = 0
    <3>1. pic.rows \in Seq(Positive)
      BY DEF IsTiled
    <3> QED
      BY <3>1, BoundariesIncrease DEF TileRowBd
  <2>3. CtuToTileRow(pic, 0) = 0
    BY <2>1, <2>2
  <2> QED
    BY <1>6, <2>3 DEF R1
<1> QED
  BY <1>2, <1>5, <1>6, <1>7, <1>8

\* The last one ends where it ends.
LEMMA LastIsLast ==
  ASSUME IsTiled(pic), NEW ss, Drawn(ss), Complete(ss), Len(ss) > 0
  PROVE  LET s == ss[Len(ss)]
         IN /\ X2(s) = pic.width - 1 /\ Y2(s) = pic.height - 1
            /\ C2(s) = NumTileCols(pic) - 1 /\ R2(s) = NumTileRows(pic) - 1
<1> DEFINE n == Len(ss)  s == ss[n]  w == pic.width - 1  h == pic.height - 1
<1>1. ss \in Seq(Rectangle) /\ n \in Nat /\ n \in 1..n /\ WholeTiles(ss)
  BY DEF Drawn
<1>2. s \in Rectangle
  BY <1>1
<1>3. /\ pic.width \in Nat /\ pic.width >= 1 /\ pic.height \in Nat /\ pic.height >= 1
  BY TileColumns, TileRows
<1>4. /\ X1(s) \in 0..w /\ X2(s) \in 0..w /\ Y1(s) \in 0..h /\ Y2(s) \in 0..h
      /\ C2(s) \in 0..(NumTileCols(pic) - 1) /\ R2(s) \in 0..(NumTileRows(pic) - 1)
  BY <1>2, RectangleParts
<1>5. Has(s, X1(s), Y1(s))
  BY <1>2, HasCorners
<1>6. w \in 0..(pic.width - 1) /\ h \in 0..(pic.height - 1) /\ w \in Nat /\ h \in Nat
  BY <1>3
<1>7. PICK i \in 1..n : Has(ss[i], w, h)
  BY <1>6 DEF Complete
<1>8. n <= i
  BY <1>1, <1>4, <1>5, <1>6, <1>7, FarIsLater
<1>9. Has(s, w, h)
  <2>1. i = n
    BY <1>1, <1>8
  <2> QED
    BY <1>7, <2>1
<1>10. X2(s) = w /\ Y2(s) = h
  BY <1>4, <1>6, <1>9 DEF Has
<1>11. C2(s) = NumTileCols(pic) - 1
  <2> DEFINE m == NumTileCols(pic)  B(k) == TileColumnBd(pic, k)
  <2>1. /\ m \in Nat /\ m >= 1
        /\ \A k \in 0..m : B(k) \in 0..pic.width
        /\ \A k, j \in 0..m : k < j => B(k) < B(j)
    BY TileColumns
  <2>2. X2(s) + 1 = B(C2(s) + 1)
    <3>1. WholeColumns(s)
      BY <1>1 DEF WholeTiles
    <3> QED
      BY <3>1 DEF WholeColumns
  <2> SUFFICES ASSUME C2(s) # m - 1 PROVE FALSE
    OBVIOUS
  <2>3. C2(s) + 1 \in 0..m /\ m \in 0..m /\ C2(s) + 1 < m
    BY <1>4, <2>1
  <2>4. B(C2(s) + 1) < B(m) /\ B(m) \in 0..pic.width /\ B(C2(s) + 1) \in 0..pic.width
    BY <2>1, <2>3
  <2> HIDE DEF B
  <2> QED
    BY <1>3, <1>10, <2>2, <2>4
<1>12. R2(s) = NumTileRows(pic) - 1
  <2> DEFINE m == NumTileRows(pic)  B(k) == TileRowBd(pic, k)
  <2>1. /\ m \in Nat /\ m >= 1
        /\ \A k \in 0..m : B(k) \in 0..pic.height
        /\ \A k, j \in 0..m : k < j => B(k) < B(j)
    BY TileRows
  <2>2. Y2(s) + 1 = B(R2(s) + 1)
    <3>1. ToBottom(s)
      BY <1>1 DEF WholeTiles
    <3> QED
      BY <3>1 DEF ToBottom
  <2> SUFFICES ASSUME R2(s) # m - 1 PROVE FALSE
    OBVIOUS
  <2>3. R2(s) + 1 \in 0..m /\ m \in 0..m /\ R2(s) + 1 < m
    BY <1>4, <2>1
  <2>4. B(R2(s) + 1) < B(m) /\ B(m) \in 0..pic.height /\ B(R2(s) + 1) \in 0..pic.height
    BY <2>1, <2>3
  <2> HIDE DEF B
  <2> QED
    BY <1>3, <1>10, <2>2, <2>4
<1> QED
  BY <1>10, <1>11, <1>12

\* When all CTUs of the picture are in slices, they have it together.
LEMMA AllCovered ==
  ASSUME IsTiled(pic), slices \in Seq(Rectangle), Cardinality(Covered) = pic.width * pic.height
  PROVE  Complete(slices)
<1> DEFINE w == pic.width  h == pic.height  N == w * h
<1>1. w \in Nat /\ w >= 1 /\ h \in Nat /\ h >= 1 /\ N \in Nat /\ CtusOfPicture(pic) = 0..(N - 1)
  BY TileColumns, TileRows DEF CtusOfPicture
<1>2. Covered \subseteq CtusOfPicture(pic)
  <2> SUFFICES ASSUME NEW c \in Covered PROVE c \in CtusOfPicture(pic)
    OBVIOUS
  <2>1. PICK i \in DOMAIN slices : c \in CtusIn(slices[i])
    BY DEF Covered
  <2>2. slices[i] \in Rectangle
    OBVIOUS
  <2> QED
    BY <2>1, <2>2, InSlice
<1>3. IsFiniteSet(CtusOfPicture(pic)) /\ Cardinality(CtusOfPicture(pic)) = N
  <2>1. 0 \in Int /\ N - 1 \in Int
    BY <1>1
  <2>2. IsFiniteSet(0..(N - 1)) /\ Cardinality(0..(N - 1)) = IF 0 > N - 1 THEN 0 ELSE N - 1 - 0 + 1
    BY <2>1, FS_Interval
  <2> QED
    BY <1>1, <2>2
<1>4. Covered = CtusOfPicture(pic)
  <2>1. Cardinality(Covered) = Cardinality(CtusOfPicture(pic))
    BY <1>3
  <2> QED
    BY <1>2, <1>3, <2>1, FS_Subset
<1> SUFFICES ASSUME NEW x \in 0..(pic.width - 1), NEW y \in 0..(pic.height - 1)
             PROVE  \E i \in 1..Len(slices) : Has(slices[i], x, y)
  BY DEF Complete
<1> DEFINE c == y * pic.width + x
<1>5. c \in CtusOfPicture(pic) /\ CtuX(pic, c) = x /\ CtuY(pic, c) = y
  BY CtuAt
<1> HIDE DEF c
<1>6. PICK i \in DOMAIN slices : c \in CtusIn(slices[i])
  BY <1>4, <1>5 DEF Covered
<1>7. i \in 1..Len(slices) /\ slices[i] \in Rectangle
  OBVIOUS
<1>8. Has(slices[i], x, y)
  BY <1>5, <1>6, <1>7, InSlice
<1> QED
  BY <1>7, <1>8

-----------------------------------------------------------------------------
(* The lists of the configured slices.                                      *)

\* Slice i and those after it are m slices of one tile, and the next is not of it.
Run(ss, i, m) ==
  /\ \A k \in 1..(m - 1) : SameTile(ss, i + k)
  /\ i + m <= Len(ss) => ~SameTile(ss, i + m)

\* Tiles are numbered row by row.
LEMMA TileNumbers ==
  ASSUME NEW c \in Nat, NEW a \in 0..(c - 1), NEW b \in 0..(c - 1), NEW u \in Nat, NEW v \in Nat,
         u * c + a = v * c + b
  PROVE  a = b /\ u = v
<1>1. c >= 1 /\ a \in Nat /\ b \in Nat
  OBVIOUS
<1>2. u * c \in Nat /\ v * c \in Nat
  OBVIOUS
<1>3. ~(u < v)
  <2> SUFFICES ASSUME u < v PROVE FALSE
    OBVIOUS
  <2>1. (u + 1) * c <= v * c /\ (u + 1) * c = u * c + c
    OBVIOUS
  <2> QED
    BY <1>2, <2>1
<1>4. ~(v < u)
  <2> SUFFICES ASSUME v < u PROVE FALSE
    OBVIOUS
  <2>1. (v + 1) * c <= u * c /\ (v + 1) * c = v * c + c
    OBVIOUS
  <2> QED
    BY <1>2, <2>1
<1>5. u = v
  BY <1>3, <1>4
<1> QED
  BY <1>2, <1>5

\* The parameters of a configured slice.
LEMMA ConfiguredRect ==
  ASSUME IsTiled(pic), slices \in Seq(Rectangle), NEW i \in 1..Len(slices)
  PROVE  LET r == Configured.rects[i]
             s == slices[i]
         IN /\ r.tileIdx = R1(s) * NumTileCols(pic) + C1(s)
            /\ r.width = C2(s) - C1(s) + 1 /\ r.height = R2(s) - R1(s) + 1
            /\ InTile(r) <=> InOne(s)
            /\ InOne(s) => r.ctuHeight = Y2(s) - Y1(s) + 1
            /\ ~InOne(s) => r.ctuHeight = 0 /\ r.slicesInTile = 0
            /\ InOne(s) /\ ~SameTile(slices, i) =>
                 r.slicesInTile \in 1..(Len(slices) - i + 1) /\ Run(slices, i, r.slicesInTile)
<1> DEFINE n == Len(slices)
           startCol(k) == CtuToTileCol(pic, CtuX(pic, slices[k].first))
           startRow(k) == CtuToTileRow(pic, CtuY(pic, slices[k].first))
           width(k) == CtuToTileCol(pic, CtuX(pic, slices[k].last)) - startCol(k) + 1
           height(k) == CtuToTileRow(pic, CtuY(pic, slices[k].last)) - startRow(k) + 1
           tile(k) == startRow(k) * NumTileCols(pic) + startCol(k)
           inTile(k) == width(k) = 1 /\ height(k) = 1
           sameTile(k) == k > 1 /\ inTile(k) /\ inTile(k - 1) /\ tile(k) = tile(k - 1)
           counts(k) == {j \in 1..(n - k + 1) : \A l \in 1..(j - 1) : sameTile(k + l)}
           count(k) == Max(counts(k))
           inside(k) == IF inTile(k) /\ ~sameTile(k) THEN count(k) ELSE 0
           rows(k) == IF inTile(k) THEN CtuY(pic, slices[k].last) - CtuY(pic, slices[k].first) + 1 ELSE 0
           r == Configured.rects[i]  s == slices[i]
<1>1. r = [tileIdx |-> tile(i), width |-> width(i), height |-> height(i),
           slicesInTile |-> inside(i), ctuHeight |-> rows(i)]
  BY DEF Configured
<1>2. /\ n \in Nat /\ i \in 1..n /\ \A k \in 1..n : slices[k] \in Rectangle
      /\ NumTileCols(pic) \in Nat
  BY TileColumns
<1>3. \A k : /\ startCol(k) = C1(slices[k]) /\ startRow(k) = R1(slices[k])
             /\ width(k) = C2(slices[k]) - C1(slices[k]) + 1
             /\ height(k) = R2(slices[k]) - R1(slices[k]) + 1
             /\ tile(k) = R1(slices[k]) * NumTileCols(pic) + C1(slices[k])
             /\ rows(k) = IF inTile(k) THEN Y2(slices[k]) - Y1(slices[k]) + 1 ELSE 0
  BY DEF C1, C2, R1, R2, X1, X2, Y1, Y2
<1>4. \A k \in 1..n : /\ C1(slices[k]) \in 0..(NumTileCols(pic) - 1) /\ C2(slices[k]) \in Nat
                      /\ R1(slices[k]) \in Nat /\ R2(slices[k]) \in Nat
                      /\ C1(slices[k]) \in Nat
                      /\ C1(slices[k]) <= C2(slices[k]) /\ R1(slices[k]) <= R2(slices[k])
  <2> TAKE k \in 1..n
  <2> DEFINE a == C1(slices[k])  b == C2(slices[k])  c == R1(slices[k])  d == R2(slices[k])
  <2>1. slices[k] \in Rectangle
    BY <1>2
  <2>2. /\ a \in 0..(NumTileCols(pic) - 1) /\ b \in 0..(NumTileCols(pic) - 1) /\ a <= b
        /\ c \in 0..(NumTileRows(pic) - 1) /\ d \in 0..(NumTileRows(pic) - 1) /\ c <= d
    BY <2>1, RectangleParts
  <2> HIDE DEF a, b, c, d
  <2>3. a \in Nat /\ b \in Nat /\ c \in Nat /\ d \in Nat
    BY <2>2
  <2> QED
    BY <2>2, <2>3 DEF a, b, c, d
<1> HIDE DEF startCol, startRow, width, height, tile, rows, n
<1>5. \A k \in 1..n : inTile(k) <=> InOne(slices[k])
  BY <1>3, <1>4 DEF InOne
<1>6. \A k \in 1..n : sameTile(k) <=> SameTile(slices, k)
  <2> TAKE k \in 1..n
  <2>1. CASE k = 1
    BY <2>1 DEF SameTile
  <2>2. CASE k > 1
    <3>1. k - 1 \in 1..n /\ k \in 1..n
      BY <1>2, <2>2
    <3>2. (inTile(k) <=> InOne(slices[k])) /\ (inTile(k - 1) <=> InOne(slices[k - 1]))
      BY <1>5, <3>1
    <3>3. tile(k) = tile(k - 1) <=>
            C1(slices[k]) = C1(slices[k - 1]) /\ R1(slices[k]) = R1(slices[k - 1])
      <4> DEFINE a == C1(slices[k])  b == C1(slices[k - 1])  u == R1(slices[k])  v == R1(slices[k - 1])
                 c == NumTileCols(pic)
      <4>1. tile(k) = u * c + a /\ tile(k - 1) = v * c + b
        BY <1>3
      <4>2. a \in 0..(c - 1) /\ b \in 0..(c - 1) /\ u \in Nat /\ v \in Nat /\ c \in Nat
        BY <1>2, <1>4, <3>1
      <4> HIDE DEF a, b, u, v, c
      <4>3. u * c + a = v * c + b => a = b /\ u = v
        BY <4>2, TileNumbers
      <4>4. tile(k) = tile(k - 1) <=> a = b /\ u = v
        BY <4>1, <4>3
      <4> QED
        BY <4>4 DEF a, b, u, v
    <3> QED
      BY <2>2, <3>2, <3>3 DEF SameTile
  <2> QED
    BY <1>2, <2>1, <2>2
<1>7. InTile(r) <=> InOne(s)
  <2>1. r.width = C2(s) - C1(s) + 1 /\ r.height = R2(s) - R1(s) + 1
    BY <1>1, <1>3
  <2>2. /\ C1(s) \in Nat /\ C2(s) \in Nat /\ R1(s) \in Nat /\ R2(s) \in Nat
        /\ C1(s) <= C2(s) /\ R1(s) <= R2(s)
    BY <1>2, <1>4
  <2> DEFINE a == C1(s)  b == C2(s)  c == R1(s)  d == R2(s)
  <2>3. /\ r.width = b - a + 1 /\ r.height = d - c + 1 /\ a \in Nat /\ b \in Nat /\ c \in Nat
        /\ d \in Nat /\ a <= b /\ c <= d
    BY <2>1, <2>2
  <2> HIDE DEF r, s, a, b, c, d
  <2>4. r.width <= 1 /\ r.height <= 1 <=> a = b /\ c = d
    BY <2>3
  <2> QED
    BY <2>4 DEF InTile, InOne, a, b, c, d
<1>8. ASSUME InOne(s), ~SameTile(slices, i)
      PROVE  count(i) \in 1..(n - i + 1) /\ Run(slices, i, count(i)) /\ r.slicesInTile = count(i)
  <2>1. r.slicesInTile = count(i)
    <3>1. inTile(i) /\ ~sameTile(i)
      BY <1>2, <1>5, <1>6, <1>8
    <3> QED
      BY <1>1, <3>1
  <2>2. counts(i) \in SUBSET (0..n)
    BY <1>2
  <2>3. 1 \in counts(i)
    <3>1. 1 \in 1..(n - i + 1) /\ 1..(1 - 1) = {}
      BY <1>2
    <3> HIDE DEF sameTile
    <3> QED
      BY <3>1
  <2> DEFINE cs == counts(i)  m == count(i)
  <2>4. m \in cs /\ \A k \in cs : k <= m
    <3> HIDE DEF cs
    <3> QED
      BY <1>2, <2>2, <2>3, GreatestNatural DEF cs
  <2> HIDE DEF m
  <2>5. m \in 1..(n - i + 1) /\ \A l \in 1..(m - 1) : sameTile(i + l)
    BY <2>4
  <2> HIDE DEF sameTile
  <2>6. \A l \in 1..(m - 1) : SameTile(slices, i + l)
    <3> TAKE l \in 1..(m - 1)
    <3>1. i + l \in 1..n
      BY <1>2, <2>5
    <3> QED
      BY <1>6, <2>5, <3>1
  <2>7. ASSUME i + m <= n PROVE ~SameTile(slices, i + m)
    <3> SUFFICES ASSUME SameTile(slices, i + m) PROVE FALSE
      OBVIOUS
    <3>1. i + m \in 1..n /\ m + 1 \in 1..(n - i + 1) /\ ~(m + 1 <= m)
      BY <1>2, <2>5, <2>7
    <3>2. \A l \in 1..((m + 1) - 1) : l \in 1..(m - 1) \/ l = m
      BY <2>5
    <3>3. sameTile(i + m)
      BY <1>6, <3>1
    <3>4. \A l \in 1..((m + 1) - 1) : sameTile(i + l)
      BY <2>5, <3>2, <3>3
    <3>5. m + 1 \in cs
      BY <3>1, <3>4
    <3> QED
      BY <2>4, <3>1, <3>5
  <2> QED
    BY <2>1, <2>5, <2>6, <2>7 DEF Run, n, m
<1> HIDE DEF r, s
<1>9. r.tileIdx = R1(s) * NumTileCols(pic) + C1(s)
  BY <1>1, <1>3 DEF s
<1>10. r.width = C2(s) - C1(s) + 1 /\ r.height = R2(s) - R1(s) + 1
  BY <1>1, <1>3 DEF s
<1>11. InOne(s) => r.ctuHeight = Y2(s) - Y1(s) + 1
  BY <1>1, <1>2, <1>3, <1>5 DEF s
<1>12. InOne(s) /\ ~SameTile(slices, i) =>
         r.slicesInTile \in 1..(Len(slices) - i + 1) /\ Run(slices, i, r.slicesInTile)
  BY <1>8 DEF n
<1>13. ~InOne(s) => r.ctuHeight = 0 /\ r.slicesInTile = 0
  <2>1. ~InOne(s) => ~inTile(i)
    BY <1>2, <1>5 DEF s
  <2> HIDE DEF inTile, sameTile, count
  <2>2. ~InOne(s) => rows(i) = 0 /\ inside(i) = 0
    BY <1>3, <2>1 DEF s
  <2> HIDE DEF inside
  <2> QED
    BY <1>1, <2>2
<1> QED
  BY <1>7, <1>9, <1>10, <1>11, <1>12, <1>13 DEF r, s

\* The iteration that makes slice i begins with slice g: the first of its tile.
Leads(ss, g, i) ==
  /\ g \in 1..i /\ ~SameTile(ss, g)
  /\ \A k \in (g + 1)..i : SameTile(ss, k)

\* The slices that belong to one iteration are those of one tile.
LEMMA HeadsLead ==
  ASSUME IsTiled(pic), slices \in Seq(Rectangle)
  PROVE  \A i \in 1..Len(slices) : Leads(slices, Heads(Configured.rects)[i], i)
<1> DEFINE n == Len(slices)  given == Configured.rects  head == Heads(given)
           S == {i \in 1..n : Leads(slices, head[i], i)}
<1>1. n \in Nat /\ given \in Seq(RectSlice) /\ Len(given) = n
  <2>1. given \in Seq(RectSlice)
    BY ConfiguredMeans
  <2>2. DOMAIN given = 1..n
    BY ConfiguredMeans
  <2> HIDE DEF given
  <2> QED
    BY <2>1, <2>2
<1>2. CASE n = 0
  BY <1>2
<1>3. CASE n > 0
  <2>1. /\ \A i \in 1..n : head[i] \in 1..n
        /\ head[1] = 1
        /\ \A i \in 2..n : head[i] = IF /\ InTile(given[head[i - 1]])
                                        /\ i < head[i - 1] + given[head[i - 1]].slicesInTile
                                     THEN head[i - 1] ELSE i
    <3> DEFINE l == Len(given)
    <3>1. given \in Seq(RectSlice) /\ l > 0 /\ l = n
      BY <1>1, <1>3
    <3> HIDE DEF given, n
    <3>2. head \in [1..l -> 1..l] /\ head[1] = 1
      BY <3>1, HeadsMean
    <3>3. \A i \in 2..l : head[i] = IF /\ InTile(given[head[i - 1]])
                                        /\ i < head[i - 1] + given[head[i - 1]].slicesInTile
                                     THEN head[i - 1] ELSE i
      BY <3>1, HeadsMean
    <3> HIDE DEF head, l
    <3> QED
      BY <3>1, <3>2, <3>3
  <2> HIDE DEF head
  <2>2. 1 \in S
    <3>1. ~SameTile(slices, 1) /\ (1 + 1)..1 = {}
      BY DEF SameTile
    <3> QED
      BY <1>1, <1>3, <2>1, <3>1 DEF Leads
  <2>3. \A i \in S : i < n => i + 1 \in S
    <3> SUFFICES ASSUME NEW i \in S, i < n PROVE i + 1 \in S
      OBVIOUS
    <3> DEFINE g == head[i]  m == given[g].slicesInTile
    <3>1. i \in 1..n /\ Leads(slices, g, i)
      OBVIOUS
    <3>2. g \in 1..i /\ g \in 1..n /\ ~SameTile(slices, g) /\ i + 1 \in 2..n /\ (i + 1) - 1 = i
      BY <1>1, <3>1 DEF Leads
    <3>3. head[i + 1] = IF InTile(given[g]) /\ i + 1 < g + m THEN g ELSE i + 1
      BY <2>1, <3>2
    <3>4. /\ InTile(given[g]) <=> InOne(slices[g])
          /\ InOne(slices[g]) => m \in 1..(n - g + 1) /\ Run(slices, g, m)
      BY <3>2, ConfiguredRect
    <3> HIDE DEF n, given, g, m
    <3>5. ASSUME SameTile(slices, i + 1) PROVE InTile(given[g]) /\ i + 1 < g + m
      <4>1. InOne(slices[i])
        BY <3>2, <3>5 DEF SameTile
      <4>2. InOne(slices[g])
        <5>1. CASE g = i
          BY <4>1, <5>1
        <5>2. CASE g # i
          <6>1. g + 1 \in (g + 1)..i /\ (g + 1) - 1 = g
            BY <3>1, <3>2, <5>2
          <6>2. SameTile(slices, g + 1)
            BY <3>1, <6>1 DEF Leads
          <6> QED
            BY <6>1, <6>2 DEF SameTile
        <5> QED
          BY <5>1, <5>2
      <4>3. m \in 1..(n - g + 1) /\ (g + m <= n => ~SameTile(slices, g + m))
        BY <3>4, <4>2 DEF Run, n
      <4>4. ~(g + m <= i + 1)
        <5> SUFFICES ASSUME g + m <= i + 1 PROVE FALSE
          OBVIOUS
        <5>1. g + m \in (g + 1)..i \/ g + m = i + 1
          BY <1>1, <3>1, <3>2, <4>3
        <5>2. SameTile(slices, g + m)
          BY <3>1, <3>5, <5>1 DEF Leads
        <5>3. g + m <= n
          BY <1>1, <3>1, <3>2, <4>3
        <5> QED
          BY <4>3, <5>2, <5>3
      <4> QED
        BY <1>1, <3>1, <3>2, <3>4, <4>2, <4>3, <4>4
    <3>6. ASSUME InTile(given[g]), i + 1 < g + m PROVE SameTile(slices, i + 1)
      <4>1. m \in 1..(n - g + 1) /\ \A k \in 1..(m - 1) : SameTile(slices, g + k)
        BY <3>4, <3>6 DEF Run
      <4>2. (i + 1) - g \in 1..(m - 1) /\ g + ((i + 1) - g) = i + 1
        BY <1>1, <3>1, <3>2, <3>6, <4>1
      <4> QED
        BY <4>1, <4>2
    <3>7. CASE SameTile(slices, i + 1)
      <4>1. head[i + 1] = g
        BY <3>3, <3>5, <3>7
      <4>2. g \in 1..(i + 1) /\ \A k \in (g + 1)..(i + 1) : k \in (g + 1)..i \/ k = i + 1
        BY <1>1, <3>1, <3>2
      <4>3. Leads(slices, g, i + 1)
        BY <3>1, <3>7, <4>2 DEF Leads
      <4> QED
        BY <1>1, <3>2, <4>1, <4>3
    <3>8. CASE ~SameTile(slices, i + 1)
      <4>1. head[i + 1] = i + 1
        BY <3>3, <3>6, <3>8
      <4>2. ((i + 1) + 1)..(i + 1) = {} /\ i + 1 \in 1..(i + 1)
        BY <1>1, <3>1
      <4>3. Leads(slices, i + 1, i + 1)
        BY <3>8, <4>2 DEF Leads
      <4>4. i + 1 \in 1..n
        BY <1>1, <3>2
      <4> QED
        BY <4>1, <4>3, <4>4
    <3> QED
      BY <3>7, <3>8
  <2>4. S = 1..n
    <3>1. S \in SUBSET (1..n) /\ 1 \in Nat /\ 1 <= n
      BY <1>1, <1>3
    <3> HIDE DEF S, n
    <3> QED
      BY <1>1, <2>2, <2>3, <3>1, InductionUpTo
  <2> QED
    BY <2>4 DEF head
<1> QED
  BY <1>1, <1>2, <1>3

\* The slices of a tile.
LEMMA LeadMeans ==
  ASSUME IsTiled(pic), slices \in Seq(Rectangle), NEW i \in 1..Len(slices), NEW g, Leads(slices, g, i),
         InOne(slices[g]) \/ g < i
  PROVE  \A k \in g..i : /\ InOne(slices[k])
                         /\ C1(slices[k]) = C1(slices[g]) /\ R1(slices[k]) = R1(slices[g])
<1> DEFINE Like(k) == /\ InOne(slices[k])
                      /\ C1(slices[k]) = C1(slices[g]) /\ R1(slices[k]) = R1(slices[g])
           S == {k \in g..i : Like(k)}
<1>1. i \in Nat /\ g \in Nat /\ g <= i /\ g >= 1
  BY DEF Leads
<1>2. InOne(slices[g])
  <2>1. CASE g < i
    <3>1. g + 1 \in (g + 1)..i /\ (g + 1) - 1 = g
      BY <1>1, <2>1
    <3>2. SameTile(slices, g + 1)
      BY <3>1 DEF Leads
    <3> QED
      BY <3>1, <3>2 DEF SameTile
  <2> QED
    BY <2>1
<1>3. g \in S
  BY <1>1, <1>2
<1>4. \A k \in S : k < i => k + 1 \in S
  <2> SUFFICES ASSUME NEW k \in S, k < i PROVE k + 1 \in S
    OBVIOUS
  <2>1. k \in g..i /\ Like(k) /\ k + 1 \in (g + 1)..i /\ k + 1 \in g..i /\ (k + 1) - 1 = k
    BY <1>1
  <2>2. SameTile(slices, k + 1)
    BY <2>1 DEF Leads
  <2>3. Like(k + 1)
    BY <2>1, <2>2 DEF SameTile
  <2> QED
    BY <2>1, <2>3
<1>5. S = g..i
  <2>1. S \in SUBSET (g..i)
    OBVIOUS
  <2> HIDE DEF S
  <2> QED
    BY <1>1, <1>3, <1>4, <2>1, InductionUpTo
<1> QED
  BY <1>5

\* The CTUs in some columns of tiles.
LEMMA InColumns ==
  ASSUME NEW p, IsTiled(p), NEW x \in 0..(p.width - 1),
         NEW a \in 0..(NumTileCols(p) - 1), NEW b \in 0..(NumTileCols(p) - 1)
  PROVE  CtuToTileCol(p, x) \in a..b <=> x \in TileColumnBd(p, a)..(TileColumnBd(p, b + 1) - 1)
<1> DEFINE n == NumTileCols(p)  bd(k) == TileColumnBd(p, k)  j == CtuToTileCol(p, x)
<1>1. /\ n \in Nat /\ \A k \in 0..n : bd(k) \in Nat
      /\ \A k, l \in 0..n : k < l => bd(k) < bd(l)
      /\ j \in 0..(n - 1) /\ bd(j) <= x /\ x < bd(j + 1)
  BY TileColumns
<1>2. a \in 0..(n - 1) /\ b \in 0..(n - 1)
  OBVIOUS
<1>3. x \in Int
  OBVIOUS
<1> HIDE DEF n, bd, j
<1>4. \A k, l \in 0..n : k <= l => bd(k) <= bd(l)
  <2> TAKE k, l \in 0..n
  <2>1. bd(k) \in Nat /\ bd(l) \in Nat /\ (k < l => bd(k) < bd(l))
    BY <1>1
  <2> QED
    BY <1>1, <2>1
<1>5. a <= j <=> bd(a) <= x
  <2>1. a \in 0..n /\ j \in 0..n /\ j + 1 \in 0..n
    BY <1>1, <1>2
  <2>2. bd(a) \in Nat /\ bd(j) \in Nat /\ bd(j + 1) \in Nat
    BY <1>1, <2>1
  <2>3. a <= j => bd(a) <= bd(j)
    BY <1>4, <2>1
  <2>4. ~(a <= j) => bd(j + 1) <= bd(a)
    <3>1. ~(a <= j) => j + 1 <= a
      BY <1>1, <1>2
    <3> QED
      BY <1>4, <2>1, <3>1
  <2> QED
    BY <1>1, <1>3, <2>2, <2>3, <2>4
<1>6. j <= b <=> x < bd(b + 1)
  <2>1. b \in 0..n /\ j \in 0..n /\ j + 1 \in 0..n /\ b + 1 \in 0..n
    BY <1>1, <1>2
  <2>2. bd(b + 1) \in Nat /\ bd(j) \in Nat /\ bd(j + 1) \in Nat
    BY <1>1, <2>1
  <2>3. j <= b => bd(j + 1) <= bd(b + 1)
    <3>1. j <= b => j + 1 <= b + 1
      BY <1>1, <1>2
    <3> QED
      BY <1>4, <2>1, <3>1
  <2>4. ~(j <= b) => bd(b + 1) <= bd(j)
    <3>1. ~(j <= b) => b + 1 <= j
      BY <1>1, <1>2
    <3> QED
      BY <1>4, <2>1, <3>1
  <2> QED
    BY <1>1, <1>3, <2>2, <2>3, <2>4
<1>7. bd(a) \in Int /\ bd(b + 1) \in Int
  <2>1. a \in 0..n /\ b + 1 \in 0..n
    BY <1>1, <1>2
  <2> QED
    BY <1>1, <2>1
<1>8. j \in a..b <=> x \in bd(a)..(bd(b + 1) - 1)
  BY <1>1, <1>2, <1>3, <1>5, <1>6, <1>7
<1> QED
  BY <1>8 DEF bd, j

\* The CTUs in some rows of tiles.
LEMMA InRows ==
  ASSUME NEW p, IsTiled(p), NEW x \in 0..(p.height - 1),
         NEW a \in 0..(NumTileRows(p) - 1), NEW b \in 0..(NumTileRows(p) - 1)
  PROVE  CtuToTileRow(p, x) \in a..b <=> x \in TileRowBd(p, a)..(TileRowBd(p, b + 1) - 1)
<1> DEFINE n == NumTileRows(p)  bd(k) == TileRowBd(p, k)  j == CtuToTileRow(p, x)
<1>1. /\ n \in Nat /\ \A k \in 0..n : bd(k) \in Nat
      /\ \A k, l \in 0..n : k < l => bd(k) < bd(l)
      /\ j \in 0..(n - 1) /\ bd(j) <= x /\ x < bd(j + 1)
  BY TileRows
<1>2. a \in 0..(n - 1) /\ b \in 0..(n - 1)
  OBVIOUS
<1>3. x \in Int
  OBVIOUS
<1> HIDE DEF n, bd, j
<1>4. \A k, l \in 0..n : k <= l => bd(k) <= bd(l)
  <2> TAKE k, l \in 0..n
  <2>1. bd(k) \in Nat /\ bd(l) \in Nat /\ (k < l => bd(k) < bd(l))
    BY <1>1
  <2> QED
    BY <1>1, <2>1
<1>5. a <= j <=> bd(a) <= x
  <2>1. a \in 0..n /\ j \in 0..n /\ j + 1 \in 0..n
    BY <1>1, <1>2
  <2>2. bd(a) \in Nat /\ bd(j) \in Nat /\ bd(j + 1) \in Nat
    BY <1>1, <2>1
  <2>3. a <= j => bd(a) <= bd(j)
    BY <1>4, <2>1
  <2>4. ~(a <= j) => bd(j + 1) <= bd(a)
    <3>1. ~(a <= j) => j + 1 <= a
      BY <1>1, <1>2
    <3> QED
      BY <1>4, <2>1, <3>1
  <2> QED
    BY <1>1, <1>3, <2>2, <2>3, <2>4
<1>6. j <= b <=> x < bd(b + 1)
  <2>1. b \in 0..n /\ j \in 0..n /\ j + 1 \in 0..n /\ b + 1 \in 0..n
    BY <1>1, <1>2
  <2>2. bd(b + 1) \in Nat /\ bd(j) \in Nat /\ bd(j + 1) \in Nat
    BY <1>1, <2>1
  <2>3. j <= b => bd(j + 1) <= bd(b + 1)
    <3>1. j <= b => j + 1 <= b + 1
      BY <1>1, <1>2
    <3> QED
      BY <1>4, <2>1, <3>1
  <2>4. ~(j <= b) => bd(b + 1) <= bd(j)
    <3>1. ~(j <= b) => b + 1 <= j
      BY <1>1, <1>2
    <3> QED
      BY <1>4, <2>1, <3>1
  <2> QED
    BY <1>1, <1>3, <2>2, <2>3, <2>4
<1>7. bd(a) \in Int /\ bd(b + 1) \in Int
  <2>1. a \in 0..n /\ b + 1 \in 0..n
    BY <1>1, <1>2
  <2> QED
    BY <1>1, <2>1
<1>8. j \in a..b <=> x \in bd(a)..(bd(b + 1) - 1)
  BY <1>1, <1>2, <1>3, <1>5, <1>6, <1>7
<1> QED
  BY <1>8 DEF bd, j

\* The slices of a tile stand on one another.
LEMMA StripsStack ==
  ASSUME IsTiled(pic), Drawn(slices), NEW i \in 1..Len(slices), NEW g, Leads(slices, g, i),
         InOne(slices[g]), NEW P \in Seq(Int), Len(P) = i - g,
         \A j \in 1..(i - g) : P[j] = Y2(slices[g + j - 1]) - Y1(slices[g + j - 1]) + 1
  PROVE  TileRowBd(pic, R1(slices[g])) + Boundaries(P)[i - g + 1] = Y1(slices[i])
<1> DEFINE n == Len(slices)  top == TileRowBd(pic, R1(slices[g]))  B == Boundaries(P)  m == i - g
           S == {k \in 0..m : top + B[k + 1] = Y1(slices[g + k])}
<1>1. /\ slices \in Seq(Rectangle) /\ n \in Nat /\ i \in 1..n /\ g \in 1..i /\ g \in 1..n /\ m \in Nat
      /\ WholeTiles(slices)
  BY DEF Drawn, Leads
<1>2. /\ B[1] = 0 /\ \A k \in 1..m : B[k + 1] = B[k] + P[k]
      /\ B \in [1..(m + 1) -> Int]
  BY BoundariesMeans
<1>3. top \in Int
  <2>1. slices[g] \in Rectangle
    BY <1>1
  <2>2. R1(slices[g]) \in 0..(NumTileRows(pic) - 1)
    BY <2>1, RectangleParts
  <2>3. NumTileRows(pic) \in Nat
    BY TileRows
  <2>4. R1(slices[g]) \in 0..NumTileRows(pic)
    BY <2>2, <2>3
  <2>5. top \in 0..pic.height
    BY <2>4, TileRows
  <2> QED
    BY <2>5
<1>4. \A k \in 1..n : Y1(slices[k]) \in Int /\ Y2(slices[k]) \in Int
  <2> TAKE k \in 1..n
  <2>1. slices[k] \in Rectangle
    BY <1>1
  <2>2. Y1(slices[k]) \in 0..(pic.height - 1) /\ Y2(slices[k]) \in 0..(pic.height - 1)
    BY <2>1, RectangleParts
  <2> QED
    BY <2>2
<1>5. Y1(slices[g]) = top
  <2>1. ~SameTile(slices, g)
    BY DEF Leads
  <2> QED
    BY <1>1, <2>1 DEF WholeTiles, FromTop
<1>6. \A k \in 0..(m - 1) :
        /\ Y1(slices[(g + k) + 1]) = Y2(slices[g + k]) + 1
        /\ P[k + 1] = Y2(slices[g + k]) - Y1(slices[g + k]) + 1
        /\ B[(k + 1) + 1] = B[k + 1] + P[k + 1] /\ B[k + 1] \in Int
        /\ g + k \in 1..n
  <2> TAKE k \in 0..(m - 1)
  <2>1. /\ k + 1 \in 1..m /\ k + 1 \in 1..(m + 1) /\ g + (k + 1) - 1 = g + k /\ ((g + k) + 1) - 1 = g + k
        /\ (g + k) + 1 \in (g + 1)..i /\ (g + k) + 1 \in 1..n /\ g + k \in 1..n
    BY <1>1
  <2>2. SameTile(slices, (g + k) + 1)
    BY <2>1 DEF Leads
  <2>3. Y1(slices[(g + k) + 1]) = Y2(slices[((g + k) + 1) - 1]) + 1
    BY <1>1, <2>1, <2>2 DEF WholeTiles
  <2>4. P[k + 1] = Y2(slices[g + (k + 1) - 1]) - Y1(slices[g + (k + 1) - 1]) + 1
    BY <2>1
  <2> QED
    BY <1>2, <2>1, <2>3, <2>4
<1> HIDE DEF n, top, B, m
<1>7. 0 \in S
  <2>1. g + 0 = g /\ 0 + 1 = 1
    BY <1>1
  <2> QED
    BY <1>1, <1>2, <1>3, <1>5, <2>1
<1>8. \A k \in S : k < m => k + 1 \in S
  <2> SUFFICES ASSUME NEW k \in S, k < m PROVE k + 1 \in S
    OBVIOUS
  <2>1. k \in 0..(m - 1) /\ k + 1 \in 0..m /\ top + B[k + 1] = Y1(slices[g + k])
        /\ (g + k) + 1 = g + (k + 1)
    BY <1>1
  <2> DEFINE y1 == Y1(slices[g + k])  y2 == Y2(slices[g + k])  z == Y1(slices[g + (k + 1)])
             b == B[k + 1]  q == P[k + 1]
  <2>2. z = y2 + 1 /\ q = y2 - y1 + 1 /\ B[(k + 1) + 1] = b + q /\ b \in Int /\ y1 \in Int /\ y2 \in Int
        /\ top + b = y1
    BY <1>4, <1>6, <2>1
  <2> HIDE DEF y1, y2, z, b, q
  <2>3. top + B[(k + 1) + 1] = z
    BY <1>3, <2>2
  <2> QED
    BY <2>1, <2>3 DEF z
<1>9. S = 0..m
  <2>1. S \in SUBSET (0..m) /\ 0 \in Nat /\ 0 <= m
    BY <1>1
  <2> HIDE DEF S
  <2> QED
    BY <1>1, <1>7, <1>8, <2>1, InductionUpTo
<1>10. m \in S
  <2>1. m \in 0..m
    BY <1>1
  <2> HIDE DEF S
  <2> QED
    BY <1>9, <2>1
<1>11. top + B[m + 1] = Y1(slices[g + m])
  BY <1>10
<1>12. g + m = i
  BY <1>1 DEF m
<1> QED
  BY <1>11, <1>12 DEF top, B, m

\* The column and the row of a tile.
LEMMA TileDivides ==
  ASSUME NEW c \in Nat, NEW a \in 0..(c - 1), NEW u \in Nat
  PROVE  u * c + a \in Nat /\ (u * c + a) % c = a /\ (u * c + a) \div c = u
<1> DEFINE t == u * c + a  q == t \div c  r == t % c
<1>1. c >= 1 /\ u * c \in Nat /\ a \in Nat
  OBVIOUS
<1>2. t \in Nat
  BY <1>1
<1>3. q \in Nat /\ r \in 0..(c - 1) /\ t = c * q + r
  <2> HIDE DEF t
  <2> QED
    BY <1>1, <1>2
<1>4. q * c + r = u * c + a
  <2> HIDE DEF q, r
  <2>1. q * c = c * q
    BY <1>3
  <2> QED
    BY <1>3, <2>1
<1> HIDE DEF q, r
<1>5. r = a /\ q = u
  BY <1>3, <1>4, TileNumbers
<1> QED
  BY <1>2, <1>5 DEF q, r

\* A list of CTUs for the slice: they are its CTUs, tile by tile.
ListFor(s, list) ==
  /\ Ascends(pic, list)
  /\ \A k \in 1..Len(list) : list[k] \in CtusOfPicture(pic)
  /\ \A c \in CtusOfPicture(pic) : In(c, list) <=> c \in CtusIn(s)

\* The list for a slice of whole tiles.
LEMMA ListOfTiles ==
  ASSUME IsTiled(pic), NEW s \in Rectangle, WholeColumns(s), FromTop(s), ToBottom(s)
  PROVE  ListFor(s, CtusOfTiles(pic, R1(s) * NumTileCols(pic) + C1(s),
                                C2(s) - C1(s) + 1, R2(s) - R1(s) + 1))
<1> DEFINE a == C1(s)  b == C2(s)  u == R1(s)  v == R2(s)
           m == NumTileCols(pic)  l == NumTileRows(pic)
           w == b - a + 1  h == v - u + 1  tile == u * m + a
           list == CtusOfTiles(pic, tile, w, h)
<1>1. /\ a \in 0..(m - 1) /\ b \in 0..(m - 1) /\ a <= b
      /\ u \in 0..(l - 1) /\ v \in 0..(l - 1) /\ u <= v
      /\ X1(s) \in 0..(pic.width - 1) /\ X2(s) \in 0..(pic.width - 1)
      /\ Y1(s) \in 0..(pic.height - 1) /\ Y2(s) \in 0..(pic.height - 1)
  BY RectangleParts
<1>2. m \in Nat /\ l \in Nat
  BY TileColumns, TileRows
<1>3. /\ X1(s) = TileColumnBd(pic, a) /\ X2(s) + 1 = TileColumnBd(pic, b + 1)
      /\ Y1(s) = TileRowBd(pic, u) /\ Y2(s) + 1 = TileRowBd(pic, v + 1)
  BY DEF WholeColumns, FromTop, ToBottom
<1> HIDE DEF a, b, u, v, m, l, list
<1>4. /\ w \in Nat /\ w >= 1 /\ a + w <= m /\ a + w - 1 = b
      /\ h \in Nat /\ u + h <= l /\ u + h - 1 = v /\ u \in Nat
  BY <1>1, <1>2
<1>5. tile \in Nat /\ tile % m = a /\ tile \div m = u
  BY <1>1, <1>2, <1>4, TileDivides
<1>6. /\ Ascends(pic, list)
      /\ \A k \in 1..Len(list) : list[k] \in CtusOfPicture(pic)
      /\ \A c \in CtusOfPicture(pic) :
           In(c, list) <=> Col(pic, c) \in a..(a + w - 1) /\ Row(pic, c) \in u..(u + h - 1)
  <2> HIDE DEF w, h, tile
  <2> QED
    BY <1>1, <1>4, <1>5, InTilesList DEF m, l, list
<1>7. ASSUME NEW c \in CtusOfPicture(pic) PROVE In(c, list) <=> c \in CtusIn(s)
  <2>1. In(c, list) <=> Col(pic, c) \in a..b /\ Row(pic, c) \in u..v
    BY <1>4, <1>6
  <2>2. CtuX(pic, c) \in 0..(pic.width - 1) /\ CtuY(pic, c) \in 0..(pic.height - 1)
    BY CtuPlace
  <2>3. Col(pic, c) \in a..b <=> CtuX(pic, c) \in TileColumnBd(pic, a)..(TileColumnBd(pic, b + 1) - 1)
    BY <1>1, <2>2, InColumns DEF Col, m
  <2>4. Row(pic, c) \in u..v <=> CtuY(pic, c) \in TileRowBd(pic, u)..(TileRowBd(pic, v + 1) - 1)
    BY <1>1, <2>2, InRows DEF Row, l
  <2>5. TileColumnBd(pic, b + 1) - 1 = X2(s) /\ TileRowBd(pic, v + 1) - 1 = Y2(s)
    <3>1. X2(s) \in Int /\ Y2(s) \in Int
      BY <1>1
    <3> DEFINE e == TileColumnBd(pic, b + 1)  f == TileRowBd(pic, v + 1)
    <3>2. X2(s) + 1 = e /\ Y2(s) + 1 = f
      BY <1>3
    <3> HIDE DEF e, f
    <3>3. e - 1 = X2(s) /\ f - 1 = Y2(s)
      BY <3>1, <3>2
    <3> QED
      BY <3>3 DEF e, f
  <2>6. In(c, list) <=> Has(s, CtuX(pic, c), CtuY(pic, c))
    BY <1>3, <2>1, <2>3, <2>4, <2>5 DEF Has
  <2> QED
    BY <2>6, InSlice
<1>8. ListFor(s, list)
  BY <1>6, <1>7 DEF ListFor
<1> QED
  BY <1>8 DEF list, a, b, u, v, m

\* A list of CTUs of one tile goes through its tiles in order.
LEMMA OneTileAscends ==
  ASSUME NEW p, IsTiled(p), NEW list, Len(list) \in Nat,
         \A k \in 1..Len(list) : list[k] \in CtusOfPicture(p),
         NEW a, NEW u, \A k \in 1..Len(list) : Col(p, list[k]) = a /\ Row(p, list[k]) = u
  PROVE  Ascends(p, list)
<1> SUFFICES ASSUME NEW k \in 1..(Len(list) - 1)
             PROVE  TileIdx(p, list[k]) <= TileIdx(p, list[k + 1])
  BY DEF Ascends
<1>1. k \in 1..Len(list) /\ k + 1 \in 1..Len(list)
  OBVIOUS
<1>2. list[k] \in CtusOfPicture(p) /\ list[k + 1] \in CtusOfPicture(p)
  BY <1>1
<1>3. TileIdx(p, list[k]) = TileIdx(p, list[k + 1]) /\ TileIdx(p, list[k]) \in Nat
  <2>1. Col(p, list[k]) = Col(p, list[k + 1]) /\ Row(p, list[k]) = Row(p, list[k + 1])
    BY <1>1
  <2>2. TileIdx(p, list[k]) = Row(p, list[k]) * NumTileCols(p) + Col(p, list[k])
        /\ TileIdx(p, list[k]) \in Nat
    BY <1>2, TileOf
  <2>3. TileIdx(p, list[k + 1]) = Row(p, list[k + 1]) * NumTileCols(p) + Col(p, list[k + 1])
    BY <1>2, TileOf
  <2> QED
    BY <2>1, <2>2, <2>3
<1> QED
  BY <1>3

\* The list for a slice in a tile.
LEMMA ListOfStrip ==
  ASSUME IsTiled(pic), NEW s \in Rectangle, WholeColumns(s), InOne(s)
  PROVE  ListFor(s, CtusOf(pic, TileColumnBd(pic, C1(s)), TileColumnBd(pic, C1(s) + 1),
                           Y1(s), Y2(s) + 1))
<1> DEFINE a == C1(s)  u == R1(s)  left == TileColumnBd(pic, a)  right == TileColumnBd(pic, a + 1)
           list == CtusOf(pic, left, right, Y1(s), Y2(s) + 1)
<1>1. /\ a \in 0..(NumTileCols(pic) - 1) /\ u \in 0..(NumTileRows(pic) - 1)
      /\ X1(s) \in 0..(pic.width - 1) /\ X2(s) \in 0..(pic.width - 1) /\ X1(s) <= X2(s)
      /\ Y1(s) \in 0..(pic.height - 1) /\ Y2(s) \in 0..(pic.height - 1)
      /\ pic.width \in Nat /\ pic.height \in Nat /\ Y1(s) <= Y2(s)
  BY RectangleParts
<1>2. X1(s) = left /\ X2(s) + 1 = right
  BY DEF WholeColumns, InOne
<1>3. /\ left \in Nat /\ right \in Nat /\ left < right /\ right <= pic.width
      /\ Y1(s) \in Nat /\ Y2(s) + 1 \in Nat /\ Y2(s) + 1 <= pic.height
      /\ right - 1 = X2(s) /\ (Y2(s) + 1) - 1 = Y2(s)
  BY <1>1, <1>2
<1>4. /\ TileRowBd(pic, u) <= Y1(s) /\ Y2(s) + 1 <= TileRowBd(pic, u + 1)
  <2>1. /\ TileRowBd(pic, R1(s)) <= Y1(s)
        /\ Y2(s) < TileRowBd(pic, R2(s) + 1)
    BY <1>1, TileRows DEF R1, R2
  <2>2. R2(s) = u
    BY DEF InOne
  <2>3. TileRowBd(pic, u + 1) \in Nat
    <3>1. NumTileRows(pic) \in Nat
      BY TileRows
    <3>2. u + 1 \in 0..NumTileRows(pic)
      BY <1>1, <3>1
    <3>3. TileRowBd(pic, u + 1) \in 0..pic.height
      BY <3>2, TileRows
    <3> QED
      BY <3>3
  <2> QED
    BY <1>1, <2>1, <2>2, <2>3
<1>5. /\ InOrder(pic, list)
      /\ \A k \in 1..Len(list) : Col(pic, list[k]) = a /\ Row(pic, list[k]) = u
  BY <1>1, <1>3, <1>4, CtusOfMeans, SMTT(30)
<1>6. /\ \A k \in 1..Len(list) : list[k] \in CtusOfPicture(pic)
      /\ \A c \in CtusOfPicture(pic) :
           In(c, list) <=> CtuX(pic, c) \in left..(right - 1) /\ CtuY(pic, c) \in Y1(s)..((Y2(s) + 1) - 1)
  BY <1>1, <1>3, InCtusOf
<1> HIDE DEF list, a, u
<1>7. Ascends(pic, list)
  <2>1. Len(list) \in Nat
    BY <1>5 DEF InOrder
  <2> QED
    BY <1>5, <1>6, <2>1, OneTileAscends
<1>8. ASSUME NEW c \in CtusOfPicture(pic) PROVE In(c, list) <=> c \in CtusIn(s)
  <2>1. In(c, list) <=> Has(s, CtuX(pic, c), CtuY(pic, c))
    BY <1>2, <1>3, <1>6 DEF Has
  <2> QED
    BY <2>1, InSlice
<1>9. ListFor(s, list)
  BY <1>6, <1>7, <1>8 DEF ListFor
<1> QED
  BY <1>9 DEF list, a

\* What is inferred is about the last slice, if it is not one of several in a tile.
LEMMA InferredLast ==
  ASSUME NEW given \in Seq(RectSlice), Len(given) > 0
  PROVE  LET n == Len(given)
             rects == Inferred(pic, given)
             x == given[n].tileIdx % NumTileCols(pic)
             y == given[n].tileIdx \div NumTileCols(pic)
         IN /\ \A k \in 1..(n - 1) : rects[k] = given[k]
            /\ Heads(given)[n] # n => rects = given
            /\ Heads(given)[n] = n =>
                 /\ rects[n].tileIdx = given[n].tileIdx
                 /\ rects[n].width = NumTileCols(pic) - x
                 /\ rects[n].height = NumTileRows(pic) - y
                 /\ rects[n].slicesInTile = 1
<1> DEFINE n == Len(given)  last == LastInferred(pic, given)
           x == given[n].tileIdx % NumTileCols(pic)
           y == given[n].tileIdx \div NumTileCols(pic)
<1>1. n \in 1..n /\ given[n] \in RectSlice /\ \A k \in 1..(n - 1) : k \in 1..n /\ k # n
  OBVIOUS
<1>2. Inferred(pic, given) = IF Heads(given)[n] = n THEN last ELSE given
  BY DEF Inferred
<1>3. last = [given EXCEPT ![n].width = NumTileCols(pic) - x, ![n].height = NumTileRows(pic) - y,
                           ![n].slicesInTile = 1]
  BY DEF LastInferred
<1>4. /\ \A k \in 1..(n - 1) : last[k] = given[k]
      /\ last[n] = [given[n] EXCEPT !.width = NumTileCols(pic) - x, !.height = NumTileRows(pic) - y,
                                    !.slicesInTile = 1]
  <2> DEFINE a == NumTileCols(pic) - x  b == NumTileRows(pic) - y
  <2>1. last = [given EXCEPT ![n].width = a, ![n].height = b, ![n].slicesInTile = 1]
    BY <1>3
  <2>2. DOMAIN given = 1..n
    OBVIOUS
  <2> HIDE DEF a, b, last, n
  <2>3. \A k \in 1..(n - 1) : last[k] = given[k]
    BY <1>1, <2>1, <2>2
  <2>4. last[n] = [given[n] EXCEPT !.width = a, !.height = b, !.slicesInTile = 1]
    BY <1>1, <2>1, <2>2
  <2> QED
    BY <2>3, <2>4 DEF a, b
<1>5. /\ last[n].tileIdx = given[n].tileIdx
      /\ last[n].width = NumTileCols(pic) - x /\ last[n].height = NumTileRows(pic) - y
      /\ last[n].slicesInTile = 1
  <2> HIDE DEF x, y, last
  <2> QED
    BY <1>1, <1>4 DEF RectSlice
<1> HIDE DEF last, x, y, n
<1> QED
  BY <1>2, <1>4, <1>5 DEF x, y, n

\* The list the encoder makes for a configured slice; what is inferred of the last
\* one is that it goes on to the end of the picture.
LEMMA RectLists ==
  ASSUME IsTiled(pic), Drawn(slices), NEW i \in 1..Len(slices)
  PROVE  LET list == RectSliceMap(pic, Configured.rects)[i]
         IN /\ Ascends(pic, list) /\ \A k \in 1..Len(list) : list[k] \in CtusOfPicture(pic)
            /\ i < Len(slices) \/ Complete(slices) => ListFor(slices[i], list)
<1> DEFINE n == Len(slices)  given == Configured.rects  rects == Inferred(pic, given)
           head == Heads(given)  g == head[i]  r == rects[g]  s == slices[i]
           m == NumTileCols(pic)  l == NumTileRows(pic)
           x == r.tileIdx % m  y == r.tileIdx \div m
           top == TileRowBd(pic, y)
           P == [j \in 1..(i - g) |-> rects[g + j - 1].ctuHeight]
           above == Boundaries(P)[i - g + 1]
           bottom == IF i = g + r.slicesInTile - 1 THEN TileRowBd(pic, y + 1)
                     ELSE top + above + rects[i].ctuHeight
           list == RectSliceMap(pic, given)[i]
<1>1. slices \in Seq(Rectangle) /\ n \in Nat /\ i \in 1..n /\ WholeTiles(slices)
  BY DEF Drawn
<1>2. given \in Seq(RectSlice) /\ Len(given) = n /\ DOMAIN given = 1..n
  <2>1. given \in Seq(RectSlice)
    BY <1>1, ConfiguredMeans
  <2>2. DOMAIN given = 1..n
    BY <1>1, ConfiguredMeans
  <2> HIDE DEF given
  <2> QED
    BY <1>1, <2>1, <2>2
<1>3. list = IF ~InTile(r) THEN CtusOfTiles(pic, r.tileIdx, r.width, r.height)
             ELSE CtusOf(pic, TileColumnBd(pic, x), TileColumnBd(pic, x + 1), top + above, bottom)
  <2> HIDE DEF given
  <2> QED
    BY <1>1, <1>2 DEF RectSliceMap
<1>4. Leads(slices, g, i) /\ g \in 1..i /\ g \in 1..n
  <2>1. Leads(slices, g, i)
    BY <1>1, HeadsLead
  <2> HIDE DEF g
  <2> QED
    BY <1>1, <2>1 DEF Leads
<1>5. /\ \A k \in 1..(n - 1) : rects[k] = given[k]
      /\ head[n] # n => rects = given
      /\ head[n] = n =>
           /\ rects[n].tileIdx = given[n].tileIdx
           /\ rects[n].width = m - (given[n].tileIdx % m)
           /\ rects[n].height = l - given[n].tileIdx \div m
           /\ rects[n].slicesInTile = 1
  <2> HIDE DEF given
  <2>1. Len(given) > 0
    BY <1>1, <1>2
  <2> QED
    BY <1>2, <2>1, InferredLast
<1> HIDE DEF given, rects, head, list
<1>6. \A k \in 1..n :
        /\ slices[k] \in Rectangle
        /\ C1(slices[k]) \in 0..(m - 1) /\ R1(slices[k]) \in 0..(l - 1)
        /\ given[k].tileIdx = R1(slices[k]) * m + C1(slices[k])
        /\ given[k].tileIdx \in Nat
        /\ given[k].tileIdx % m = C1(slices[k]) /\ given[k].tileIdx \div m = R1(slices[k])
  <2> TAKE k \in 1..n
  <2>1. slices[k] \in Rectangle
    BY <1>1
  <2>2. C1(slices[k]) \in 0..(m - 1) /\ R1(slices[k]) \in 0..(l - 1)
    BY <2>1, RectangleParts
  <2>3. given[k].tileIdx = R1(slices[k]) * m + C1(slices[k])
    BY <1>1, ConfiguredRect DEF given
  <2>4. m \in Nat /\ R1(slices[k]) \in Nat
    <3>1. m \in Nat /\ l \in Nat
      BY TileColumns, TileRows
    <3> QED
      BY <2>2, <3>1
  <2> DEFINE a == C1(slices[k])  u == R1(slices[k])
  <2>5. m \in Nat /\ a \in 0..(m - 1) /\ u \in Nat
    BY <2>2, <2>4
  <2>6. u * m + a \in Nat /\ (u * m + a) % m = a /\ (u * m + a) \div m = u
    <3> HIDE DEF m, a, u
    <3> QED
      BY <2>5, TileDivides
  <2> HIDE DEF m, l
  <2> QED
    BY <2>1, <2>2, <2>3, <2>6
<1>7. m \in Nat /\ l \in Nat
  BY TileColumns, TileRows
<1>8. CASE g # n
  <2>1. \A k \in g..i : rects[k] = given[k]
    <3>1. CASE i < n
      <4>1. \A k \in g..i : k \in 1..(n - 1)
        BY <1>1, <1>4, <3>1
      <4> QED
        BY <1>5, <4>1
    <3>2. CASE i = n
      BY <1>5, <1>8, <3>2
    <3> QED
      BY <1>1, <3>1, <3>2
  <2>2. r = given[g] /\ g \in g..i /\ i \in g..i
    BY <1>1, <1>4, <2>1
  <2>3. InTile(r) <=> InOne(slices[g])
    BY <1>1, <1>4, <2>2, ConfiguredRect DEF given
  <2>4. x = C1(slices[g]) /\ y = R1(slices[g])
    BY <1>4, <1>6, <2>2
  <2>5. CASE ~InTile(r)
    <3>1. g = i
      <4> SUFFICES ASSUME g # i PROVE FALSE
        OBVIOUS
      <4>1. g < i
        BY <1>1, <1>4
      <4>2. InOne(slices[g])
        BY <1>1, <1>4, <2>2, <4>1, LeadMeans
      <4> QED
        BY <2>3, <2>5, <4>2
    <3>2. i < n /\ ~InOne(s)
      BY <1>1, <1>8, <2>3, <2>5, <3>1
    <3>3. ~SameTile(slices, i) /\ ~SameTile(slices, i + 1)
      <4>1. ~SameTile(slices, i)
        BY <3>2 DEF SameTile
      <4>2. (i + 1) - 1 = i
        BY <1>1
      <4>3. ~SameTile(slices, i + 1)
        BY <3>2, <4>2 DEF SameTile
      <4> QED
        BY <4>1, <4>3
    <3>4. WholeColumns(s) /\ FromTop(s) /\ ToBottom(s)
      BY <1>1, <3>3 DEF WholeTiles
    <3>5. /\ r.tileIdx = R1(s) * m + C1(s)
          /\ r.width = C2(s) - C1(s) + 1 /\ r.height = R2(s) - R1(s) + 1
      BY <1>1, <2>2, <3>1, ConfiguredRect DEF given
    <3>6. ListFor(s, list)
      BY <1>1, <1>3, <1>6, <2>5, <3>4, <3>5, ListOfTiles
    <3> QED
      BY <3>6 DEF ListFor, list, given
  <2>6. CASE InTile(r)
    <3>1. InOne(slices[g])
      BY <2>3, <2>6
    <3>2. \A k \in g..i : /\ InOne(slices[k])
                          /\ C1(slices[k]) = C1(slices[g]) /\ R1(slices[k]) = R1(slices[g])
      BY <1>1, <1>4, <3>1, LeadMeans
    <3>3. \A k \in g..i : rects[k].ctuHeight = Y2(slices[k]) - Y1(slices[k]) + 1
      <4> TAKE k \in g..i
      <4>1. k \in 1..n
        BY <1>1, <1>4
      <4>2. given[k].ctuHeight = Y2(slices[k]) - Y1(slices[k]) + 1
        BY <1>1, <3>2, <4>1, ConfiguredRect DEF given
      <4> QED
        BY <2>1, <4>2
    <3>4. /\ WholeColumns(s) /\ InOne(s) /\ C1(s) = x /\ R1(s) = y /\ s \in Rectangle
          /\ R2(s) = y
      <4>1. WholeColumns(s)
        BY <1>1 DEF WholeTiles
      <4> QED
        BY <1>1, <1>6, <2>2, <2>4, <3>2, <4>1 DEF InOne
    <3>5. Y1(s) \in Int /\ Y2(s) \in Int
      <4>1. Y1(s) \in 0..(pic.height - 1) /\ Y2(s) \in 0..(pic.height - 1)
        BY <3>4, RectangleParts
      <4> QED
        BY <4>1
    <3>6. top + above = Y1(s)
      <4>1. \A j \in 1..(i - g) : g + j - 1 \in g..i
        BY <1>1, <1>4
      <4>2. \A j \in 1..(i - g) : P[j] = Y2(slices[g + j - 1]) - Y1(slices[g + j - 1]) + 1
        BY <3>3, <4>1
      <4>3. \A k \in g..i : Y2(slices[k]) - Y1(slices[k]) + 1 \in Int
        <5> TAKE k \in g..i
        <5>1. k \in 1..n
          BY <1>1, <1>4
        <5>2. Y1(slices[k]) \in 0..(pic.height - 1) /\ Y2(slices[k]) \in 0..(pic.height - 1)
          BY <1>6, <5>1, RectangleParts
        <5> QED
          BY <5>2
      <4>4. \A j \in 1..(i - g) : P[j] \in Int
        BY <4>1, <4>2, <4>3
      <4>5. P = [j \in 1..(i - g) |-> P[j]]
        OBVIOUS
      <4> DEFINE q == i - g
      <4>6. q \in Nat
        BY <1>1, <1>4
      <4> HIDE DEF P
      <4>7. P \in [1..q -> Int] /\ DOMAIN P = 1..q
        BY <4>4, <4>5
      <4>8. P \in Seq(Int) /\ Len(P) = q
        <5> HIDE DEF q
        <5> QED
          BY <4>6, <4>7
      <4>9. TileRowBd(pic, R1(slices[g])) + Boundaries(P)[i - g + 1] = Y1(slices[i])
        BY <1>1, <1>4, <3>1, <4>2, <4>8, StripsStack
      <4> QED
        BY <2>4, <4>9
    <3>7. bottom = Y2(s) + 1
      <4>1. CASE i = g + r.slicesInTile - 1
        <5> DEFINE q == r.slicesInTile
        <5>1. ~SameTile(slices, g)
          BY <1>4 DEF Leads
        <5>2. q \in 1..(n - g + 1) /\ Run(slices, g, q)
          BY <1>1, <1>4, <2>2, <3>1, <5>1, ConfiguredRect DEF given
        <5>3. i = n \/ ~SameTile(slices, i + 1)
          <6> HIDE DEF q
          <6>1. g + q = i + 1
            <7>1. i = g + q - 1
              BY <4>1 DEF q
            <7> QED
              BY <1>1, <1>4, <5>2, <7>1
          <6> QED
            BY <1>1, <5>2, <6>1 DEF Run
        <5>4. ToBottom(s)
          BY <1>1, <5>3 DEF WholeTiles
        <5>5. bottom = TileRowBd(pic, y + 1)
          BY <4>1
        <5> QED
          BY <3>4, <5>4, <5>5 DEF ToBottom
      <4>2. CASE i # g + r.slicesInTile - 1
        <5>1. bottom = top + above + rects[i].ctuHeight
          BY <4>2
        <5>2. rects[i].ctuHeight = Y2(s) - Y1(s) + 1
          BY <2>2, <3>3
        <5> HIDE DEF bottom, top, above, s
        <5> QED
          BY <3>5, <3>6, <5>1, <5>2
      <4> QED
        BY <4>1, <4>2
    <3>8. list = CtusOf(pic, TileColumnBd(pic, C1(s)), TileColumnBd(pic, C1(s) + 1), Y1(s), Y2(s) + 1)
      BY <1>3, <2>6, <3>4, <3>6, <3>7
    <3>9. ListFor(s, list)
      BY <3>4, <3>8, ListOfStrip
    <3> QED
      BY <3>9 DEF ListFor, list, given
  <2> QED
    BY <2>5, <2>6
<1>9. CASE g = n
  <2>1. i = n /\ head[n] = n
    BY <1>1, <1>4, <1>9
  <2>2. /\ r.tileIdx = given[n].tileIdx /\ r.width = m - x /\ r.height = l - y
        /\ r.slicesInTile = 1
    BY <1>5, <1>9, <2>1
  <2>3. x \in 0..(m - 1) /\ y \in 0..(l - 1) /\ r.tileIdx \in Nat
    BY <1>4, <1>6, <1>9, <2>2
  <2>a. ~SameTile(slices, n)
    BY <1>4, <1>9, <2>1 DEF Leads
  <2>b. WholeColumns(s) /\ FromTop(s) /\ ToBottom(s) /\ s \in Rectangle
    BY <1>1, <2>1, <2>a DEF WholeTiles
  <2>c. x = C1(s) /\ y = R1(s)
    BY <1>4, <1>6, <1>9, <2>1, <2>2
  <2>d. Complete(slices) => C2(s) = m - 1 /\ R2(s) = l - 1
    BY <1>1, <2>1, LastIsLast
  <2>4. CASE ~InTile(r)
    <3>1. list = CtusOfTiles(pic, r.tileIdx, m - x, l - y)
      BY <1>3, <2>2, <2>4
    <3> DEFINE w == m - x  h == l - y
    <3>2. w \in Nat /\ h \in Nat /\ w >= 1 /\ x + w <= m /\ y + h <= l
      <4> HIDE DEF x, y, m, l
      <4> QED
        BY <1>7, <2>3
    <3>3. list = CtusOfTiles(pic, r.tileIdx, w, h)
      BY <3>1
    <3> HIDE DEF w, h
    <3>4. Ascends(pic, list) /\ \A k \in 1..Len(list) : list[k] \in CtusOfPicture(pic)
      BY <2>3, <3>2, <3>3, InTilesList
    <3>5. ASSUME Complete(slices) PROVE ListFor(s, list)
      <4>1. w = C2(s) - C1(s) + 1 /\ h = R2(s) - R1(s) + 1
        <5> DEFINE c1 == C1(s)  c2 == C2(s)  r1 == R1(s)  r2 == R2(s)
        <5>1. x = c1 /\ y = r1 /\ c2 = m - 1 /\ r2 = l - 1
          BY <2>c, <2>d, <3>5
        <5> HIDE DEF c1, c2, r1, r2, m, l, x, y
        <5>2. m - x = c2 - c1 + 1 /\ l - y = r2 - r1 + 1
          BY <1>7, <2>3, <5>1
        <5> QED
          BY <5>2 DEF c1, c2, r1, r2, w, h
      <4>2. r.tileIdx = R1(s) * m + C1(s)
        BY <1>1, <1>6, <1>9, <2>1, <2>2
      <4> QED
        BY <2>b, <3>3, <4>1, <4>2, ListOfTiles
    <3> QED
      BY <1>1, <2>1, <3>4, <3>5 DEF list, given
  <2>5. CASE InTile(r)
    <3>1. above = 0
      <4>1. i - g = 0 /\ 1..0 = {} /\ 0 + 1 = 1
        BY <1>1, <1>9, <2>1
      <4>2. P = [j \in 1..0 |-> rects[g + j - 1].ctuHeight]
        BY <4>1
      <4>3. P \in Seq(Int)
        <5>1. P \in [1..0 -> Int]
          BY <4>1, <4>2
        <5> HIDE DEF P
        <5> QED
          BY <5>1
      <4>4. Boundaries(P)[1] = 0
        BY <4>3, BoundariesMeans
      <4> QED
        BY <4>1, <4>4
    <3>2. bottom = TileRowBd(pic, y + 1)
      BY <1>1, <1>9, <2>1, <2>2
    <3>3. top + above = TileRowBd(pic, y)
      <4>1. TileRowBd(pic, y) \in 0..pic.height
        <5>1. y \in 0..l
          <6> HIDE DEF y, l
          <6> QED
            BY <1>7, <2>3
        <5> QED
          BY <5>1, TileRows
      <4>2. top \in Int
        BY <4>1
      <4> HIDE DEF above
      <4>3. top + above = top
        BY <3>1, <4>2
      <4> QED
        BY <4>3
    <3>4. list = CtusOfTile(pic, x, y)
      BY <1>3, <2>5, <3>2, <3>3 DEF CtusOfTile
    <3>5. /\ Len(list) \in Nat
          /\ \A k \in 1..Len(list) : Col(pic, list[k]) = x /\ Row(pic, list[k]) = y
      <4>1. InOrder(pic, list) /\ \A k \in 1..Len(list) : Col(pic, list[k]) = x /\ Row(pic, list[k]) = y
        <5> HIDE DEF x, y
        <5> QED
          BY <2>3, <3>4, CtusOfTileMeans DEF m, l
      <4>2. Len(list) \in Nat
        BY <4>1 DEF InOrder
      <4> QED
        BY <4>1, <4>2
    <3>6. \A k \in 1..Len(list) : list[k] \in CtusOfPicture(pic)
      BY <2>3, <3>4, InTileList
    <3>7. Ascends(pic, list)
      BY <3>5, <3>6, OneTileAscends
    <3>8. ASSUME Complete(slices) PROVE ListFor(s, list)
      <4>1. m - x <= 1 /\ l - y <= 1
        BY <2>2, <2>5 DEF InTile
      <4>2. x = m - 1 /\ y = l - 1
        <5> HIDE DEF x, y, m, l
        <5> QED
          BY <1>7, <2>3, <4>1
      <4>3. InOne(s)
        BY <2>c, <2>d, <3>8, <4>2 DEF InOne
      <4>4. Y1(s) = TileRowBd(pic, y) /\ Y2(s) + 1 = TileRowBd(pic, y + 1)
        BY <2>b, <2>c, <2>d, <3>8, <4>2 DEF FromTop, ToBottom
      <4>5. list = CtusOf(pic, TileColumnBd(pic, C1(s)), TileColumnBd(pic, C1(s) + 1), Y1(s), Y2(s) + 1)
        BY <2>c, <3>4, <4>4 DEF CtusOfTile
      <4> QED
        BY <2>b, <4>3, <4>5, ListOfStrip
    <3> QED
      BY <1>1, <2>1, <3>6, <3>7, <3>8 DEF list, given
  <2> QED
    BY <2>4, <2>5
<1> QED
  BY <1>8, <1>9

\* In rectangular slices the CTU above comes first, as they were drawn so.
LEMMA RectUpFirst ==
  ASSUME IsTiled(pic), Drawn(slices), IsRectSignalling(pic, Configured.rects)
  PROVE  UpFirst(pic, RectSliceMap(pic, Configured.rects))
<1> DEFINE n == Len(slices)  map == RectSliceMap(pic, Configured.rects)
<1>a. slices \in Seq(Rectangle)
  BY DEF Drawn
<1>b. DOMAIN Configured.rects = 1..n
  BY <1>a, ConfiguredMeans
<1>1. n \in Nat /\ slices \in Seq(Rectangle) /\ DOMAIN Configured.rects = 1..n
  BY <1>a, <1>b
<1>2. DOMAIN map = 1..n
  BY <1>1 DEF RectSliceMap
<1>3. IsSignalling(pic, Configured.rects) /\ IsSliceMap(pic, map)
  BY DEF IsRectSignalling
<1>4. \A s, t \in 1..n : \A i \in DOMAIN map[s], j \in DOMAIN map[t] :
        map[s][i] = map[t][j] => s = t /\ i = j
  BY <1>2, <1>3, MapMeans
<1>5. \A s \in 1..n : InOrder(pic, map[s]) /\ DOMAIN map[s] = 1..Len(map[s])
  <2> TAKE s \in 1..n
  <2>1. Configured.rects \in Seq(RectSlice)
    BY <1>1, ConfiguredMeans
  <2>2. InOrder(pic, map[s])
    BY <1>1, <1>3, <2>1, RectInOrder
  <2>3. map[s] \in Seq(Nat)
    BY <2>2 DEF InOrder
  <2> HIDE DEF map
  <2> QED
    BY <2>2, <2>3
<1>6. \A s \in 1..n : /\ Ascends(pic, map[s])
                      /\ \A k \in 1..Len(map[s]) : map[s][k] \in CtusOfPicture(pic)
                      /\ s < n => ListFor(slices[s], map[s])
  BY RectLists
<1> HIDE DEF map
<1>7. ASSUME NEW s \in 1..n, NEW t \in 1..n, NEW i \in 1..Len(map[s]), NEW j \in 1..Len(map[t]),
             CtuY(pic, map[s][i]) > 0, map[t][j] = map[s][i] - pic.width
      PROVE  t < s \/ (t = s /\ j < i)
  <2>1. CASE t < s
    BY <2>1
  <2>2. CASE t = s
    <3>1. j < i
      BY <1>5, <1>6, <1>7, <2>2, AboveIsEarlier
    <3> QED
      BY <2>2, <3>1
  <2>3. CASE t > s
    <3> DEFINE c == map[s][i]  d == map[t][j]  x == CtuX(pic, c)  y == CtuY(pic, c)
    <3>1. s < n /\ c \in CtusOfPicture(pic) /\ In(c, map[s])
      BY <1>1, <1>6, <2>3 DEF In
    <3>2. slices[s] \in Rectangle /\ c \in CtusIn(slices[s])
      BY <1>1, <1>6, <3>1 DEF ListFor
    <3>3. Has(slices[s], x, y) /\ x \in 0..(pic.width - 1) /\ y \in 0..(pic.height - 1) /\ y > 0
      BY <1>7, <3>1, <3>2, InSlice, CtuPlace
    <3>4. /\ d \in CtusOfPicture(pic) /\ CtuX(pic, d) = x /\ CtuY(pic, d) = y - 1
      BY <1>7, <3>1, AbovePlace
    <3>5. x \in Nat /\ y \in Nat
      BY <3>3
    <3>6. UpBefore(slices, s)
      BY DEF Drawn, Grown
    <3> HIDE DEF c, d, x, y
    <3>7. PICK k \in 1..s : Has(slices[k], x, y - 1)
      BY <3>3, <3>5, <3>6 DEF UpBefore
    <3>8. k \in 1..n /\ k < n /\ k # t /\ slices[k] \in Rectangle
      BY <1>1, <2>3, <3>1
    <3>9. d \in CtusIn(slices[k])
      BY <3>4, <3>7, <3>8, InSlice
    <3>10. In(d, map[k])
      BY <1>6, <3>4, <3>8, <3>9 DEF ListFor
    <3>11. PICK e \in 1..Len(map[k]) : map[k][e] = map[t][j]
      BY <3>10 DEF In, d
    <3> QED
      BY <1>4, <1>5, <3>8, <3>11
  <2> QED
    BY <2>1, <2>2, <2>3
<1>8. \A s, t \in DOMAIN map : \A i \in DOMAIN map[s], j \in DOMAIN map[t] :
        CtuY(pic, map[s][i]) > 0 /\ map[t][j] = map[s][i] - pic.width
          => t < s \/ (t = s /\ j < i)
  BY <1>2, <1>5, <1>7
<1> QED
  BY <1>8 DEF UpFirst, map

\* While slices are configured they are drawn; after that the maps are UpFirst.
MapsUpFirst ==
  /\ stage = "slices" => Drawn(slices)
  /\ stage \in {"write", "read", "headers", "done"} => UpFirst(pic, enc.map)
  /\ phase # "none" => UpFirst(layout.pic, layout.map)

\* Whether slices are drawn depends on the picture alone.
LEMMA SameDrawn ==
  ASSUME pic' = pic
  PROVE  Drawn(slices)' <=> Drawn(slices')
<1>1. Rectangle' = Rectangle
  BY DEF Rectangle, IsRectangle
<1>2. WholeTiles(slices)' <=> WholeTiles(slices')
  BY DEF WholeTiles, WholeColumns, FromTop, ToBottom, SameTile, InOne, X1, X2, Y1, Y2, C1, C2, R1, R2
<1>3. Apart(slices)' <=> Apart(slices')
  BY DEF Apart, Has, X1, X2, Y1, Y2
<1>4. Grown(slices)' <=> Grown(slices')
  BY DEF Grown, LeftBefore, UpBefore, Has, X1, X2, Y1, Y2
<1> QED
  BY <1>1, <1>2, <1>3, <1>4 DEF Drawn

\* No slices are drawn slices.
LEMMA NoneDrawn == Drawn(<< >>)
<1>1. << >> \in Seq(Rectangle) /\ Len(<< >>) = 0 /\ 1..0 = {}
  OBVIOUS
<1> QED
  BY <1>1 DEF Drawn, WholeTiles, Apart, Grown

\* The steps of the partition keep it so.
LEMMA PartitionUpFirst ==
  ASSUME MapsInOrder, MapsUpFirst, Partition
  PROVE  MapsUpFirst'
<1>1. Next /\ layout' = layout /\ phase' = phase /\ IsTiled(pic)
  BY DEF Partition, dataVars, MapsInOrder
<1>2. pic' = pic
  BY <1>1 DEF Next, AddTiles, SplitTile, Configure, WriteSlice, WriteEnd, ReadSlice, ReadEnd,
             ConfigureRaster, ReadHeader
<1>3. (phase # "none" => UpFirst(layout.pic, layout.map))'
  BY <1>1 DEF MapsUpFirst
<1>4. CASE AddTiles \/ SplitTile
  <2>1. stage = "slices" /\ stage' = "slices"
    BY <1>4 DEF AddTiles, SplitTile
  <2>2. Drawn(slices)
    BY <2>1 DEF MapsUpFirst
  <2>3. Drawn(slices')
    BY <1>1, <1>4, <2>2, AddTilesDraws, SplitTileDraws
  <2>4. Drawn(slices)'
    BY <1>2, <2>3, SameDrawn
  <2> QED
    BY <1>3, <2>1, <2>4 DEF MapsUpFirst
<1>5. CASE Configure
  <2>1. /\ stage = "slices"
        /\ enc' = [Configured EXCEPT !.map = RectSliceMap(pic, Configured.rects)]
        /\ stage' = IF IsRectSignalling(pic, Configured.rects) THEN "write" ELSE "error"
    BY <1>5 DEF Configure
  <2>2. enc'.map = RectSliceMap(pic, Configured.rects)
    BY <2>1 DEF Configured
  <2>3. stage' # "error" => UpFirst(pic, enc'.map)
    BY <1>1, <2>1, <2>2, RectUpFirst DEF MapsUpFirst
  <2> QED
    BY <1>2, <1>3, <2>1, <2>3 DEF MapsUpFirst
<1>6. CASE ConfigureRaster
  <2>1. PICK list \in RasterLists :
          /\ stage = "slices"
          /\ enc' = [enc EXCEPT !.map = RasterSliceMap(pic, RasterSizes(list))]
          /\ stage' = IF IsSliceMap(pic, enc'.map) THEN "headers" ELSE "error"
    BY <1>6 DEF ConfigureRaster
  <2>2. list \in Seq(Positive) /\ list # << >>
    BY RasterListsAssumption DEF Positive
  <2> DEFINE sizes == RasterSizes(list)
  <2>3. sizes \in Seq(Positive) /\ Boundaries(sizes)[Len(sizes) + 1] = NumTiles(pic)
    BY <1>1, <2>2, RasterSizesMean
  <2>4. enc'.map = RasterSliceMap(pic, sizes)
    BY <2>1 DEF MapsInOrder
  <2> HIDE DEF sizes
  <2>5. UpFirst(pic, enc'.map)
    BY <1>1, <2>3, <2>4, RasterUpFirst
  <2> QED
    BY <1>2, <1>3, <2>1, <2>5 DEF MapsUpFirst
<1>7. CASE WriteSlice \/ WriteEnd
  <2>1. stage = "write" /\ stage' # "slices" /\ enc' = enc
    BY <1>7 DEF WriteSlice, WriteEnd
  <2> QED
    BY <1>2, <1>3, <2>1 DEF MapsUpFirst
<1>8. CASE ReadSlice \/ ReadEnd \/ ReadHeader
  <2>1. stage \in {"read", "headers"} /\ stage' # "slices" /\ enc' = enc
    BY <1>8 DEF ReadSlice, ReadEnd, ReadHeader
  <2> QED
    BY <1>2, <1>3, <2>1 DEF MapsUpFirst
<1> QED
  BY <1>1, <1>4, <1>5, <1>6, <1>7, <1>8 DEF Next

\* So do those of the loops.
LEMMA MapsStayUpFirst ==
  ASSUME MapsInOrder, MapsUpFirst, [PictureNext]_<<vars, dataVars>>
  PROVE  MapsUpFirst'
<1>1. CASE Partition
  BY <1>1, PartitionUpFirst
<1>2. CASE Begin
  <2>1. /\ stage = "done" /\ dec.map = enc.map /\ stage' = "coding"
        /\ pic' = pic /\ layout' = [pic |-> pic, map |-> dec.map]
    BY <1>2 DEF Begin, Data!StartPicture
  <2>2. UpFirst(pic, enc.map)
    BY <2>1 DEF MapsUpFirst
  <2>3. UpFirst(layout'.pic, layout'.map)
    BY <2>1, <2>2
  <2> QED
    BY <2>1, <2>3 DEF MapsUpFirst
<1>3. CASE EncodeCtu \/ WriteSliceData \/ DecodeCtu \/ NextSlice \/ UNCHANGED <<vars, dataVars>>
  <2>1. UNCHANGED vars /\ layout' = layout /\ (phase = "none" => phase' = "none")
    <3>1. CASE EncodeCtu
      BY <3>1 DEF EncodeCtu, Data!EncodeCtu
    <3>2. CASE WriteSliceData
      BY <3>2 DEF WriteSliceData, Data!WriteSlice
    <3>3. CASE DecodeCtu
      BY <3>3 DEF DecodeCtu, Data!DecodeCtu
    <3>4. CASE NextSlice
      BY <3>4 DEF NextSlice, Data!NextSlice
    <3>5. CASE UNCHANGED <<vars, dataVars>>
      BY <3>5 DEF dataVars
    <3> QED
      BY <1>3, <3>1, <3>2, <3>3, <3>4, <3>5
  <2>2. stage' = stage /\ pic' = pic /\ slices' = slices /\ enc' = enc
    BY <2>1 DEF vars
  <2>3. Drawn(slices)' <=> Drawn(slices)
    BY <2>2, SameDrawn
  <2> QED
    BY <2>1, <2>2, <2>3 DEF MapsUpFirst
<1> QED
  BY <1>1, <1>2, <1>3 DEF PictureNext

\* At the start.
LEMMA FirstUpFirst == PictureInit => MapsUpFirst
<1> SUFFICES ASSUME PictureInit PROVE MapsUpFirst
  OBVIOUS
<1>1. stage = "slices" /\ slices = << >> /\ phase = "none"
  BY DEF PictureInit, Init, Data!Init
<1> QED
  BY <1>1, NoneDrawn DEF MapsUpFirst

-----------------------------------------------------------------------------
(* What a row takes over from the row above.                                *)

\* The encoder has coded CTU c.
Done(c) == coded[c].qp # Data!None

\* It is past CTU i of slice s.
Reached(s, i) == s < slice \/ (s = slice /\ (phase = "encode" => i < idx))

ReachedDone ==
  \A s \in DOMAIN layout.map : \A i \in DOMAIN layout.map[s] :
    Done(layout.map[s][i]) <=> Reached(s, i)

\* Every column is coded from the top, and its bins are those of the lowest CTU.
Columns ==
  /\ coder.bins \in [0..(layout.pic.width - 1) -> Data!Ctus \cup {Data!None}]
  /\ \A x \in 0..(layout.pic.width - 1) :
       coder.bins[x] # Data!None => CtuX(layout.pic, coder.bins[x]) = x
  /\ \A c \in Data!Ctus :
       LET b == coder.bins[CtuX(layout.pic, c)]
       IN Done(c) <=> b # Data!None /\ CtuY(layout.pic, c) <= CtuY(layout.pic, b)

\* The contexts kept are those after CTU j of the slice, the last one with which a
\* row of a tile began.
KeptRow ==
  \A j \in 1..(idx - 1) :
    /\ CtuIsTileColBd(layout.pic, At(j))
    /\ \A k \in (j + 1)..(idx - 1) : ~CtuIsTileColBd(layout.pic, At(k))
    => coder.sync = Append(coded[At(j)].ctx, <<"coded", At(j)>>)

\* The maps put every CTU after the one above it; so the bins of a column and the
\* contexts kept are those of the CTU above when they are used.
UpInv ==
  /\ MapsUpFirst /\ Data!StartsFromAbove
  /\ Looping => ReachedDone /\ Columns /\ coder.sync \in Seq(Data!CtxElements)
  /\ phase = "encode" =>
       /\ coder.ctx \in Seq(Data!CtxElements) /\ (idx = 1 => coder.ctx = << >>)
       /\ sps.wpp => KeptRow

\* What is known of a picture in the loops.
Known == MapsChecked /\ MapsInOrder /\ MapsUpFirst /\ Looping /\ Shapes /\ ReachedDone

\* The CTUs of the picture in the loops.
LEMMA CtusOfLayout ==
  ASSUME Known
  PROVE  /\ IsTiled(layout.pic) /\ Data!Ctus = CtusOfPicture(layout.pic)
         /\ layout.pic.width \in Nat /\ layout.pic.height \in Nat
         /\ \A c \in Data!Ctus : /\ CtuX(layout.pic, c) \in 0..(layout.pic.width - 1)
                                 /\ CtuY(layout.pic, c) \in Nat /\ c \in Nat
<1>1. IsTiled(layout.pic) /\ Data!Ctus = CtusOfPicture(layout.pic)
  BY DEF Known, MapsInOrder, Looping, Data!Ctus, Data!pic, CtusOfPicture
<1>2. layout.pic.width \in Nat /\ layout.pic.height \in Nat
  BY <1>1 DEF IsTiled, Positive
<1>3. ASSUME NEW c \in Data!Ctus
      PROVE  /\ CtuX(layout.pic, c) \in 0..(layout.pic.width - 1)
             /\ CtuY(layout.pic, c) \in Nat /\ c \in Nat
  <2>1. CtuX(layout.pic, c) \in 0..(layout.pic.width - 1) /\ CtuY(layout.pic, c) \in 0..(layout.pic.height - 1)
    BY <1>1, CtuPlace
  <2>2. c \in Nat
    BY <1>1 DEF CtusOfPicture
  <2> QED
    BY <1>2, <2>1, <2>2
<1> QED
  BY <1>1, <1>2, <1>3

\* The CTU that comes next has not been coded.
LEMMA NextIsNew ==
  ASSUME Known, phase = "encode", idx \in 1..Len(List)
  PROVE  At(idx) \in Data!Ctus /\ ~Done(At(idx)) /\ slice \in Nat /\ idx \in Nat
<1>1. MapsChecked /\ Looping /\ Shapes /\ ReachedDone
  BY DEF Known
<1>2. slice \in DOMAIN layout.map /\ layout.map \in Seq(Seq(0..(layout.pic.width * layout.pic.height - 1)))
  BY <1>1, MapMeans DEF MapsChecked, Looping, Shapes
<1>3. slice \in Nat /\ idx \in Nat
  <2>1. slice \in Nat
    BY <1>2
  <2>2. Len(List) \in Nat
    BY <1>1, CtusOfSlice DEF List
  <2> QED
    BY <2>1, <2>2
<1>4. idx \in DOMAIN layout.map[slice] /\ At(idx) \in Data!Ctus
  BY <1>1, CtusOfSlice DEF List
<1>5. ~Reached(slice, idx)
  BY <1>3 DEF Reached
<1>6. ~Done(layout.map[slice][idx])
  BY <1>1, <1>2, <1>4, <1>5 DEF ReachedDone
<1> QED
  BY <1>3, <1>4, <1>6 DEF At

\* The one above it has, in this slice or in an earlier one.
LEMMA UpIsDone ==
  ASSUME Known, phase = "encode", idx \in 1..Len(List), CtuY(layout.pic, At(idx)) > 0
  PROVE  LET up == At(idx) - layout.pic.width
         IN /\ up \in Data!Ctus /\ Done(up)
            /\ CtuX(layout.pic, up) = CtuX(layout.pic, At(idx))
            /\ CtuY(layout.pic, up) = CtuY(layout.pic, At(idx)) - 1
            /\ Data!SliceIdx(up) = slice => \E j \in 1..(idx - 1) : At(j) = up
<1> DEFINE up == At(idx) - layout.pic.width
<1>1. MapsChecked /\ MapsInOrder /\ Looping /\ Shapes /\ ReachedDone /\ UpFirst(layout.pic, layout.map)
  BY DEF Known, MapsUpFirst, Looping
<1>2. At(idx) \in CtusOfPicture(layout.pic) /\ IsTiled(layout.pic) /\ Data!Ctus = CtusOfPicture(layout.pic)
  BY NextIsNew, CtusOfLayout
<1>3. /\ up \in Data!Ctus /\ CtuX(layout.pic, up) = CtuX(layout.pic, At(idx))
      /\ CtuY(layout.pic, up) = CtuY(layout.pic, At(idx)) - 1
  BY <1>2, AbovePlace
<1>4. slice \in DOMAIN layout.map /\ idx \in DOMAIN layout.map[slice] /\ layout.map[slice][idx] = At(idx)
  BY <1>1, CtusOfSlice DEF List, At, Shapes
<1>5. ASSUME NEW t \in DOMAIN layout.map, NEW j \in DOMAIN layout.map[t], layout.map[t][j] = up
      PROVE  t < slice \/ (t = slice /\ j < idx)
  BY <1>1, <1>4, <1>5 DEF UpFirst
<1>6. Done(up)
  <2>1. up \in 0..(layout.pic.width * layout.pic.height - 1) /\ IsSliceMap(layout.pic, layout.map)
    BY <1>1, <1>2, <1>3 DEF CtusOfPicture, MapsChecked, Looping
  <2>2. PICK t \in DOMAIN layout.map : \E j \in DOMAIN layout.map[t] : layout.map[t][j] = up
    BY <2>1, MapCovers
  <2>3. PICK j \in DOMAIN layout.map[t] : layout.map[t][j] = up
    BY <2>2
  <2>4. Reached(t, j)
    BY <1>5, <2>3 DEF Reached
  <2> QED
    BY <1>1, <2>3, <2>4 DEF ReachedDone
<1>7. ASSUME Data!SliceIdx(up) = slice PROVE \E j \in 1..(idx - 1) : At(j) = up
  <2>1. PICK j \in 1..Len(List) : At(j) = up
    BY <1>1, <1>3, <1>7, SliceOfCtu
  <2>2. j \in DOMAIN layout.map[slice] /\ layout.map[slice][j] = up
    BY <1>1, <2>1, CtusOfSlice DEF List, At
  <2>3. slice < slice \/ j < idx
    BY <1>4, <1>5, <2>2
  <2>4. j \in 1..(idx - 1)
    <3>1. j \in Nat /\ 1 <= j /\ idx \in Nat /\ slice \in Nat
      BY <2>1, NextIsNew
    <3> QED
      BY <2>3, <3>1
  <2> QED
    BY <2>1, <2>4
<1> QED
  BY <1>3, <1>6, <1>7

\* Of the CTUs only the next one is coded anew.
LEMMA DoneStep ==
  ASSUME Known, CodedTyped, Data!EncodeCtu
  PROVE  /\ \A c \in Data!Ctus : Done(c)' <=> Done(c) \/ c = At(idx)
         /\ ReachedDone' /\ idx \in 1..Len(List) /\ phase = "encode"
         /\ coded'[At(idx)].ctx = Before(idx, State(coder))
         /\ \A c \in Data!Ctus : c # At(idx) => coded'[c] = coded[c]
         /\ State(coder') = After(idx, State(coder))
<1>1. MapsChecked /\ MapsInOrder /\ Looping /\ Shapes /\ ReachedDone
  BY DEF Known
<1>2. /\ phase = "encode" /\ phase' = phase /\ idx \in 1..Len(List) /\ idx' = idx + 1
      /\ UNCHANGED <<layout, sps, slice>>
      /\ \E ctx : coded' = [coded EXCEPT ![At(idx)] = [ctx |-> ctx, qp |-> Data!QpOf(At(idx))]]
  BY <1>1, EncodeFields
<1>3. /\ DOMAIN coded = Data!Ctus /\ At(idx) \in Data!Ctus /\ ~Done(At(idx))
      /\ slice \in Nat /\ idx \in Nat /\ slice \in DOMAIN layout.map
  BY <1>1, <1>2, NextIsNew DEF Shapes
<1>4. Data!QpOf(At(idx)) # Data!None
  <2>1. At(idx) \in Nat
    BY <1>1, <1>2, ListInOrder
  <2> QED
    BY <2>1 DEF Data!QpOf, Data!None
<1>5. /\ coded'[At(idx)].qp # Data!None
      /\ \A c \in Data!Ctus : c # At(idx) => coded'[c] = coded[c]
  BY <1>2, <1>3, <1>4
<1>6. \A c \in Data!Ctus : Done(c)' <=> Done(c) \/ c = At(idx)
  BY <1>5 DEF Done, Data!None
<1>7. ReachedDone'
  <2> SUFFICES ASSUME NEW s \in DOMAIN layout.map, NEW i \in DOMAIN layout.map[s]
               PROVE  (Done(layout.map[s][i]) <=> Reached(s, i))'
    BY <1>2 DEF ReachedDone
  <2>1. /\ layout.map \in Seq(Seq(0..(layout.pic.width * layout.pic.height - 1)))
        /\ Data!Ctus = 0..(layout.pic.width * layout.pic.height - 1)
    BY <1>1, MapMeans DEF MapsChecked, Looping, Data!Ctus, Data!pic
  <2>2. s \in Nat /\ i \in Nat /\ layout.map[s][i] \in Data!Ctus
    <3> DEFINE N == 0..(layout.pic.width * layout.pic.height - 1)  map == layout.map
    <3>1. map \in Seq(Seq(N)) /\ s \in DOMAIN map /\ i \in DOMAIN map[s]
      BY <2>1
    <3> HIDE DEF N, map
    <3>2. s \in Nat /\ map[s] \in Seq(N)
      BY <3>1
    <3>3. i \in Nat /\ map[s][i] \in N
      BY <3>1, <3>2
    <3> QED
      BY <2>1, <3>2, <3>3 DEF map, N
  <2>3. Done(layout.map[s][i]) <=> Reached(s, i)
    BY <1>1 DEF ReachedDone
  <2>4. layout.map[s][i] = At(idx) <=> s = slice /\ i = idx
    <3>1. layout.map[s][i] = At(idx) => s = slice /\ i = idx
      BY <1>1, <1>2, CtusOfSlice DEF List
    <3> QED
      BY <3>1 DEF At
  <2>5. Reached(s, i)' <=> Reached(s, i) \/ (s = slice /\ i = idx)
    BY <1>2, <1>3, <2>2 DEF Reached
  <2>6. Done(layout.map[s][i])' <=> Done(layout.map[s][i]) \/ layout.map[s][i] = At(idx)
    <3>1. layout'.map = layout.map
      BY <1>2
    <3>2. Done(layout.map[s][i])' <=> coded'[layout.map[s][i]].qp # Data!None
      BY <3>1 DEF Done, Data!None
    <3> QED
      BY <1>5, <2>2, <3>2 DEF Done
  <2> QED
    BY <2>3, <2>4, <2>5, <2>6
<1>8. /\ coded'[At(idx)].ctx = Before(idx, State(coder))
      /\ State(coder') = After(idx, State(coder))
  BY <1>1, <1>3, EncodeStep
<1> QED
  BY <1>2, <1>5, <1>6, <1>7, <1>8

\* The bins of its column are those of the CTU above, and then its own.
LEMMA ColumnsStep ==
  ASSUME Known, CodedTyped, Columns, Data!EncodeCtu
  PROVE  /\ Columns'
         /\ CtuY(layout.pic, At(idx)) > 0 =>
              coder.bins[CtuX(layout.pic, At(idx))] = At(idx) - layout.pic.width
<1> DEFINE p == layout.pic  w == p.width  n == At(idx)  x == CtuX(p, n)  b == coder.bins[x]
           X(c) == CtuX(p, c)  Y(c) == CtuY(p, c)
<1>1. /\ \A c \in Data!Ctus : Done(c)' <=> Done(c) \/ c = n
      /\ idx \in 1..Len(List) /\ phase = "encode" /\ State(coder') = After(idx, State(coder))
  BY DoneStep
<1>2. n \in Data!Ctus /\ ~Done(n)
  BY <1>1, NextIsNew
<1>3. /\ IsTiled(p) /\ w \in Nat /\ \A c \in Data!Ctus : X(c) \in 0..(w - 1) /\ Y(c) \in Nat
      /\ \A c \in Data!Ctus : c = Y(c) * w + X(c)
  <2>1. IsTiled(p) /\ Data!Ctus = CtusOfPicture(p)
    BY CtusOfLayout
  <2>2. \A c \in Data!Ctus : c = Y(c) * w + X(c)
    BY <2>1, CtuPlace
  <2> QED
    BY <2>2, CtusOfLayout
<1>4. coder'.bins = [coder.bins EXCEPT ![x] = n]
  BY <1>1, SameOperators DEF State, After
<1>5. layout' = layout
  BY DEF Data!EncodeCtu
<1>6. Data!Ctus' = Data!Ctus
  BY <1>5 DEF Data!Ctus, Data!pic
<1>7. /\ coder.bins \in [0..(w - 1) -> Data!Ctus \cup {Data!None}]
      /\ \A z \in 0..(w - 1) : coder.bins[z] # Data!None => X(coder.bins[z]) = z
      /\ \A c \in Data!Ctus : Done(c) <=> coder.bins[X(c)] # Data!None /\ Y(c) <= Y(coder.bins[X(c)])
  BY DEF Columns
<1>8. Y(n) > 0 => n - w \in Data!Ctus /\ Done(n - w) /\ X(n - w) = x /\ Y(n - w) = Y(n) - 1
  BY <1>1, UpIsDone
<1>9. n # Data!None /\ Data!None \notin Data!Ctus
  BY <1>2, CtusOfLayout DEF Data!None
<1> HIDE DEF X, Y, n, b, x, w
<1>10. x = X(n) /\ x \in 0..(w - 1) /\ b = coder.bins[x]
  BY <1>2, <1>3 DEF x, X, b
<1>11. \/ b = Data!None /\ Y(n) = 0
       \/ b \in Data!Ctus /\ b # Data!None /\ X(b) = x /\ Y(n) = Y(b) + 1 /\ Y(n) > 0
  <2>1. CASE b = Data!None
    <3>1. ~(Y(n) > 0)
      BY <1>7, <1>8, <1>10, <2>1
    <3> QED
      BY <1>2, <1>3, <2>1, <3>1
  <2>2. CASE b # Data!None
    <3>1. b \in Data!Ctus /\ X(b) = x
      BY <1>7, <1>10, <2>2
    <3>2. ~(Y(n) <= Y(b))
      BY <1>2, <1>7, <1>10, <2>2
    <3>3. Y(n) \in Nat /\ Y(b) \in Nat
      BY <1>2, <1>3, <3>1
    <3>4. Y(n) > 0
      BY <3>2, <3>3
    <3>5. Y(n) - 1 <= Y(b)
      BY <1>7, <1>8, <1>10, <3>4
    <3> QED
      BY <2>2, <3>1, <3>2, <3>3, <3>4, <3>5
  <2> QED
    BY <2>1, <2>2
<1>12. Y(n) > 0 => b = n - w
  <2>1. SUFFICES ASSUME Y(n) > 0 PROVE b = n - w
    OBVIOUS
  <2>2. b \in Data!Ctus /\ X(b) = x /\ Y(n) = Y(b) + 1
    BY <1>11, <2>1
  <2>3. n - w \in Data!Ctus /\ X(n - w) = x /\ Y(n - w) = Y(n) - 1
    BY <1>8, <2>1
  <2>4. Y(n - w) = Y(b)
    BY <1>3, <2>2, <2>3
  <2>5. b = Y(b) * w + X(b) /\ n - w = Y(n - w) * w + X(n - w)
    BY <1>3, <2>2, <2>3
  <2> QED
    BY <2>2, <2>3, <2>4, <2>5
<1>13. ASSUME NEW c \in Data!Ctus
       PROVE  (Done(c) \/ c = n) <=> coder'.bins[X(c)] # Data!None /\ Y(c) <= Y(coder'.bins[X(c)])
  <2>1. CASE X(c) # x
    <3>1. c # n /\ coder'.bins[X(c)] = coder.bins[X(c)]
      BY <1>3, <1>4, <1>7, <1>10, <2>1
    <3> QED
      BY <1>7, <3>1
  <2>2. CASE X(c) = x
    <3>1. coder'.bins[X(c)] = n
      BY <1>3, <1>4, <1>7, <1>10, <2>2
    <3>2. Done(c) <=> b # Data!None /\ Y(c) <= Y(b)
      BY <1>7, <1>10, <2>2
    <3>3. c = n <=> Y(c) = Y(n)
      <4>1. c = Y(c) * w + X(c) /\ n = Y(n) * w + X(n)
        BY <1>2, <1>3
      <4> QED
        BY <1>10, <2>2, <4>1
    <3>4. Y(c) \in Nat /\ Y(n) \in Nat
      BY <1>2, <1>3
    <3>5. CASE b = Data!None /\ Y(n) = 0
      BY <1>9, <3>1, <3>2, <3>3, <3>4, <3>5
    <3>6. CASE b \in Data!Ctus /\ b # Data!None /\ Y(n) = Y(b) + 1
      <4>1. Y(b) \in Nat
        BY <1>3, <3>6
      <4> QED
        BY <1>9, <3>1, <3>2, <3>3, <3>4, <3>6, <4>1
    <3> QED
      BY <1>11, <3>5, <3>6
  <2> QED
    BY <2>1, <2>2
<1>14. /\ coder'.bins \in [0..(w - 1) -> Data!Ctus \cup {Data!None}]
       /\ \A z \in 0..(w - 1) : coder'.bins[z] # Data!None => X(coder'.bins[z]) = z
  BY <1>2, <1>4, <1>7, <1>10
<1>15. Columns'
  BY <1>1, <1>5, <1>6, <1>13, <1>14 DEF Columns, X, Y, n, w, Data!None
<1> QED
  BY <1>12, <1>15 DEF X, Y, n, w, b, x

\* The first row of a tile has no CTU above it in the tile.
LEMMA NoneAboveTile ==
  ASSUME Known, phase = "encode", idx \in 1..Len(List), HasAbove(idx)
  PROVE  LET up == At(idx) - layout.pic.width
         IN /\ ~FirstOfTile(idx) /\ up \in Data!Ctus
            /\ Col(layout.pic, up) = Col(layout.pic, At(idx))
            /\ Row(layout.pic, up) = Row(layout.pic, At(idx))
            /\ \E j \in 1..(idx - 1) : At(j) = up
<1> DEFINE p == layout.pic  n == At(idx)  up == n - p.width
<1>1. CtuY(p, n) > 0 /\ Data!SliceIdx(up) = slice /\ TileIdx(p, up) = TileIdx(p, n)
  BY SameOperators DEF HasAbove
<1>2. /\ up \in Data!Ctus /\ CtuY(p, up) = CtuY(p, n) - 1
      /\ \E j \in 1..(idx - 1) : At(j) = up
  BY <1>1, UpIsDone
<1>3. n \in Data!Ctus
  BY NextIsNew
<1>4. IsTiled(p) /\ Data!Ctus = CtusOfPicture(p)
  BY CtusOfLayout
<1>5. /\ CtuX(p, n) \in 0..(p.width - 1) /\ CtuY(p, n) \in 0..(p.height - 1)
      /\ CtuX(p, up) \in 0..(p.width - 1) /\ CtuY(p, up) \in 0..(p.height - 1)
  BY <1>2, <1>3, <1>4, CtuPlace
<1> HIDE DEF n, up, p
<1>6. Col(p, up) = Col(p, n) /\ Row(p, up) = Row(p, n)
  BY <1>1, <1>4, <1>5, TileIdxMeans
<1>7. TileRowBd(p, Row(p, up)) <= CtuY(p, up) /\ p.height \in Nat
  BY <1>4, <1>5, TileRows DEF Row, IsTiled, Positive
<1>8. ~FirstOfTile(idx)
  <2>1. SUFFICES ASSUME FirstOfTile(idx) PROVE FALSE
    OBVIOUS
  <2>2. CtuY(p, n) = TileRowBd(p, Row(p, n))
    BY <2>1, SameOperators DEF FirstOfTile, CtuIsTileRowBd, Row, n, p
  <2> QED
    BY <1>2, <1>5, <1>6, <1>7, <2>2
<1> QED
  BY <1>2, <1>6, <1>8 DEF n, up, p

\* Between the first CTU of a row of a tile and the one below it there are only the
\* other CTUs of the row.
LEMMA RestOfRow ==
  ASSUME Known, phase = "encode", idx \in 1..Len(List), HasAbove(idx),
         CtuIsTileColBd(layout.pic, At(idx)),
         NEW j \in 1..(idx - 1), At(j) = At(idx) - layout.pic.width
  PROVE  /\ CtuIsTileColBd(layout.pic, At(j))
         /\ \A k \in (j + 1)..(idx - 1) : ~CtuIsTileColBd(layout.pic, At(k))
<1> DEFINE p == layout.pic  n == At(idx)  L == Len(List)  last == idx - 1
           X(k) == CtuX(p, At(k))  Y(k) == CtuY(p, At(k))
           OfRow(k) == /\ Y(k) = Y(j) /\ Col(p, At(k)) = Col(p, n) /\ Row(p, At(k)) = Row(p, n)
                       /\ k > j => ~CtuIsTileColBd(p, At(k))
           S == {k \in j..last : OfRow(k)}
<1>1. MapsChecked /\ MapsInOrder /\ Looping /\ Shapes /\ ReachedDone
  BY DEF Known
<1>2. /\ IsTiled(p) /\ L \in Nat
      /\ \A i \in 1..L : X(i) \in 0..(p.width - 1) /\ Y(i) \in 0..(p.height - 1)
      /\ \A i \in 1..(L - 1) : Follows(p, At(i), At(i + 1))
  BY <1>1, ListInOrder
<1>3. /\ Y(idx) > 0 /\ Col(p, At(j)) = Col(p, n) /\ Row(p, At(j)) = Row(p, n)
      /\ X(j) = X(idx) /\ Y(j) = Y(idx) - 1
  <2>1. Y(idx) > 0
    BY SameOperators DEF HasAbove
  <2> QED
    BY <2>1, NoneAboveTile, UpIsDone
<1>4. CtuIsTileColBd(p, At(j))
  BY <1>3 DEF CtuIsTileColBd, Col
<1>5. \A i, k \in 1..L : At(i) = At(k) => i = k
  BY <1>1, CtusOfSlice DEF List
<1>6. p.width \in Nat /\ p.height \in Nat /\ idx \in Nat /\ j \in Nat /\ j <= last /\ last < L /\ last \in Nat
  BY <1>2 DEF IsTiled, Positive
<1>7. Y(idx) < TileRowBd(p, Row(p, n) + 1)
  <2>1. Y(idx) \in 0..(p.height - 1)
    BY <1>2
  <2> QED
    BY <1>2, <2>1, TileRows DEF Row
<1>8. ASSUME NEW k \in S, k < last PROVE k + 1 \in S
  <2>1. /\ k \in 1..(L - 1) /\ k \in 1..L /\ k + 1 \in 1..L /\ k + 1 \in j..last /\ k + 1 # idx
        /\ k \in Nat /\ k >= j /\ idx \in 1..L
    BY <1>6, <1>8
  <2>2. OfRow(k)
    BY <1>8
  <2>3. Follows(p, At(k), At(k + 1))
    BY <1>2, <2>1
  <2>4. CASE InRow(p, At(k), At(k + 1))
    <3>1. OfRow(k + 1)
      BY <2>2, <2>4 DEF InRow
    <3> HIDE DEF OfRow
    <3> QED
      BY <2>1, <3>1
  <2>5. CASE InNextRow(p, At(k), At(k + 1))
    <3>1. Y(k + 1) = Y(idx) /\ X(k + 1) = X(idx)
      <4>1. Y(k + 1) = Y(k) + 1 /\ Y(idx) \in Nat
        BY <1>2, <1>6, <2>1, <2>5 DEF InNextRow
      <4>2. X(k + 1) = TileColumnBd(p, Col(p, At(k + 1))) /\ Col(p, At(k + 1)) = Col(p, n)
        BY <2>2, <2>5 DEF InNextRow, CtuIsTileColBd, Col
      <4>3. X(idx) = TileColumnBd(p, Col(p, n))
        BY DEF CtuIsTileColBd, Col
      <4> QED
        BY <1>3, <2>2, <4>1, <4>2, <4>3
    <3>2. At(k + 1) \in CtusOfPicture(p) /\ At(idx) \in CtusOfPicture(p)
      <4>1. \A i \in 1..L : At(i) \in Data!Ctus
        BY <1>1, CtusOfSlice DEF List
      <4> QED
        BY <2>1, <4>1, CtusOfLayout
    <3>3. /\ At(k + 1) = Y(k + 1) * p.width + X(k + 1)
          /\ At(idx) = Y(idx) * p.width + X(idx)
      BY <1>2, <3>2, CtuPlace
    <3>4. At(k + 1) = At(idx)
      BY <3>1, <3>3
    <3> QED
      BY <1>5, <2>1, <3>4
  <2>6. CASE InOtherTile(p, At(k), At(k + 1))
    <3>1. Y(k) + 1 = TileRowBd(p, Row(p, n) + 1)
      BY <2>2, <2>6 DEF InOtherTile, AtBottomEdge
    <3>2. Y(k) + 1 = Y(idx) /\ Y(idx) \in Nat
      BY <1>2, <1>3, <1>6, <2>1, <2>2
    <3> QED
      BY <1>7, <3>1, <3>2
  <2> QED
    BY <2>3, <2>4, <2>5, <2>6 DEF Follows
<1>9. S = j..last
  <2>1. j \in S
    <3>1. OfRow(j)
      BY <1>3, <1>6
    <3> HIDE DEF OfRow
    <3> QED
      BY <1>6, <3>1
  <2>2. S \in SUBSET (j..last)
    OBVIOUS
  <2> HIDE DEF S, last
  <2> QED
    BY <1>6, <1>8, <2>1, <2>2, InductionUpTo
<1>10. ASSUME NEW k \in (j + 1)..last PROVE ~CtuIsTileColBd(p, At(k))
  <2>1. k \in j..last /\ k > j
    BY <1>6
  <2>2. k \in S
    BY <1>9, <2>1
  <2> QED
    BY <2>1, <2>2
<1> QED
  BY <1>4, <1>10

\* So the encoder begins a CTU with what it is to take over from the one above.
LEMMA BeginsFromAbove ==
  ASSUME Known, CodedTyped, UpInv, Data!EncodeCtu
  PROVE  LET ctx == coded'[At(idx)].ctx
             up == At(idx) - layout.pic.width
         IN /\ ctx \in Seq(Data!CtxElements)
            /\ CtuY(layout.pic, At(idx)) > 0 =>
                 /\ up \in Data!Ctus /\ Done(up)
                 /\ ctx[Len(ctx)] = <<"above", up>>
                 /\ sps.wpp /\ CtuIsTileColBd(layout.pic, At(idx)) =>
                      Front(ctx) = IF HasAbove(idx) THEN Append(coded[up].ctx, <<"coded", up>>) ELSE << >>
<1> DEFINE n == At(idx)  up == n - layout.pic.width  s == State(coder)  E == Data!CtxElements
           start == Start(idx, s)
<1>1. /\ idx \in 1..Len(List) /\ phase = "encode" /\ coded'[n].ctx = Before(idx, s)
      /\ n \in Data!Ctus
  BY DoneStep, NextIsNew
<1>2. /\ coder.ctx \in Seq(E) /\ coder.sync \in Seq(E) /\ (idx = 1 => coder.ctx = << >>)
      /\ (sps.wpp => KeptRow) /\ Columns
  BY <1>1 DEF UpInv, Known
<1>3. s.ctx = coder.ctx /\ s.sync = coder.sync /\ s.bins = coder.bins
  BY DEF State
<1>4. start \in Seq(E)
  BY <1>2, <1>3 DEF Start
<1>5. CtuY(layout.pic, n) > 0 => up \in Data!Ctus /\ Done(up) /\ s.bins[CtuX(layout.pic, n)] = up
  BY <1>1, <1>2, <1>3, UpIsDone, ColumnsStep
<1>6. Before(idx, s) = IF CtuY(layout.pic, n) > 0
                       THEN Append(start, <<"above", s.bins[CtuX(layout.pic, n)]>>) ELSE start
  BY SameOperators DEF Before
<1>7. ASSUME sps.wpp, CtuIsTileColBd(layout.pic, n)
      PROVE  start = IF HasAbove(idx) THEN Append(coded[up].ctx, <<"coded", up>>) ELSE << >>
  <2>1. RowStart(idx)
    BY <1>7, SameOperators DEF RowStart
  <2>2. CASE HasAbove(idx)
    <3>1. ~FirstOfTile(idx)
      BY <1>1, <2>2, NoneAboveTile
    <3>2. start = coder.sync
      BY <1>3, <2>1, <2>2, <3>1 DEF Start
    <3>3. PICK j \in 1..(idx - 1) : At(j) = up
      BY <1>1, <2>2, NoneAboveTile
    <3>4. /\ CtuIsTileColBd(layout.pic, At(j))
          /\ \A k \in (j + 1)..(idx - 1) : ~CtuIsTileColBd(layout.pic, At(k))
      BY <1>1, <1>7, <2>2, <3>3, RestOfRow
    <3>5. coder.sync = Append(coded[At(j)].ctx, <<"coded", At(j)>>)
      BY <1>2, <1>7, <3>4 DEF KeptRow
    <3> QED
      BY <2>2, <3>2, <3>3, <3>5
  <2>3. CASE ~HasAbove(idx)
    BY <1>2, <1>3, <2>1, <2>3 DEF Start
  <2> QED
    BY <2>2, <2>3
<1> HIDE DEF start, up, s
<1>8. CASE CtuY(layout.pic, n) > 0
  <2> DEFINE e == <<"above", up>>  ctx == Append(start, e)
  <2>1. coded'[n].ctx = ctx
    BY <1>1, <1>5, <1>6, <1>8
  <2>2. e \in E /\ up \in Data!Ctus
    BY <1>5, <1>8 DEF Data!CtxElements
  <2> HIDE DEF E, e
  <2>3. ctx \in Seq(E) /\ ctx[Len(ctx)] = e /\ Front(ctx) = start
    BY <1>4, <2>2 DEF Front
  <2> QED
    BY <1>5, <1>7, <1>8, <2>1, <2>2, <2>3 DEF e, E, up
<1>9. CASE ~(CtuY(layout.pic, n) > 0)
  BY <1>1, <1>4, <1>6, <1>9
<1> QED
  BY <1>8, <1>9 DEF up

\* An iteration keeps the contexts it is to keep.
LEMMA KeptRowStep ==
  ASSUME Known, CodedTyped, UpInv, Data!EncodeCtu, sps.wpp
  PROVE  KeptRow'
<1>1. MapsChecked /\ MapsInOrder /\ Looping /\ Shapes /\ ReachedDone
  BY DEF Known
<1>2. /\ phase = "encode" /\ idx \in 1..Len(List) /\ idx' = idx + 1
      /\ UNCHANGED <<layout, sps, slice>>
  BY <1>1, EncodeStep DEF List
<1>3. /\ coded'[At(idx)].ctx = Before(idx, State(coder))
      /\ \A c \in Data!Ctus : c # At(idx) => coded'[c] = coded[c]
      /\ State(coder') = After(idx, State(coder))
  BY DoneStep
<1>4. coder'.sync = IF CtuIsTileColBd(layout.pic, At(idx))
                    THEN Append(Before(idx, State(coder)), <<"coded", At(idx)>>) ELSE coder.sync
  BY <1>3, SameOperators DEF State, After, RowStart
<1>5. KeptRow
  BY <1>2 DEF UpInv
<1>6. idx \in Nat /\ \A i \in 1..Len(List) : At(i) \in Data!Ctus
  BY <1>1, <1>2, NextIsNew, CtusOfSlice DEF List, Known
<1>7. \A i, k \in 1..Len(List) : At(i) = At(k) => i = k
  BY <1>1, CtusOfSlice DEF List
<1>8. \A i : At(i)' = At(i)
  BY <1>2 DEF At
<1>9. Len(List) \in Nat
  BY <1>1, CtusOfSlice DEF List
<1>10. ASSUME NEW j \in 1..idx,
              CtuIsTileColBd(layout.pic, At(j)),
              \A k \in (j + 1)..idx : ~CtuIsTileColBd(layout.pic, At(k))
       PROVE  coder'.sync = Append(coded'[At(j)].ctx, <<"coded", At(j)>>)
  <2>1. CASE j = idx
    BY <1>3, <1>4, <1>10, <2>1
  <2>2. CASE j # idx
    <3>1. j \in 1..(idx - 1) /\ idx \in (j + 1)..idx /\ j \in 1..Len(List)
      BY <1>2, <1>6, <1>9, <2>2
    <3>2. coder'.sync = coder.sync
      BY <1>4, <1>10, <3>1
    <3>3. \A k \in (j + 1)..(idx - 1) : ~CtuIsTileColBd(layout.pic, At(k))
      <4> TAKE k \in (j + 1)..(idx - 1)
      <4>1. k \in (j + 1)..idx
        BY <1>6
      <4> QED
        BY <1>10, <4>1
    <3>4. coder.sync = Append(coded[At(j)].ctx, <<"coded", At(j)>>)
      BY <1>5, <1>10, <3>1, <3>3 DEF KeptRow
    <3>5. coded'[At(j)] = coded[At(j)]
      BY <1>2, <1>3, <1>6, <1>7, <2>2, <3>1
    <3> QED
      BY <3>2, <3>4, <3>5
  <2> QED
    BY <2>1, <2>2
<1>11. (idx + 1) - 1 = idx
  BY <1>6
<1>12. layout' = layout
  BY <1>2
<1> QED
  BY <1>2, <1>8, <1>10, <1>11, <1>12 DEF KeptRow

\* StartsFromAbove, for one CTU.
FromAbove(c) ==
  Done(c) /\ CtuY(layout.pic, c) > 0 =>
    LET up == c - layout.pic.width
        ctx == coded[c].ctx
    IN /\ ctx[Len(ctx)] = <<"above", up>>
       /\ sps.wpp /\ CtuIsTileColBd(layout.pic, c) =>
            Front(ctx) = IF Data!SliceIdx(c) = Data!SliceIdx(up)
                            /\ TileIdx(layout.pic, c) = TileIdx(layout.pic, up)
                         THEN Append(coded[up].ctx, <<"coded", up>>) ELSE << >>

\* It says so for every CTU, with the operators of either module.
LEMMA AllFromAbove == Data!StartsFromAbove <=> \A c \in DOMAIN coded : FromAbove(c)
<1>1. \A s : Data!Front(s) = Front(s)
  BY DEF Data!Front, Front
<1>2. \A c, d : Data!InSameSliceAndTile(c, d) <=>
                  Data!SliceIdx(c) = Data!SliceIdx(d) /\ TileIdx(layout.pic, c) = TileIdx(layout.pic, d)
  BY SameOperators DEF Data!InSameSliceAndTile, Data!pic
<1>3. \A c : /\ Data!CtuY(Data!pic, c) = CtuY(layout.pic, c)
             /\ Data!CtuIsTileColBd(Data!pic, c) = CtuIsTileColBd(layout.pic, c)
  BY SameOperators DEF Data!pic
<1> QED
  BY <1>1, <1>2, <1>3 DEF Data!StartsFromAbove, FromAbove, Done, Data!pic

\* An iteration of the encoder keeps all of this.
LEMMA EncodeFromAbove ==
  ASSUME Known, CodedTyped, UpInv, Data!EncodeCtu
  PROVE  /\ Data!StartsFromAbove' /\ ReachedDone' /\ Columns'
         /\ coder'.sync \in Seq(Data!CtxElements)' /\ coder'.ctx \in Seq(Data!CtxElements)'
         /\ (sps.wpp => KeptRow)' /\ (idx = 1 => coder.ctx = << >>)'
<1> DEFINE n == At(idx)  w == layout.pic.width
<1>1. MapsChecked /\ MapsInOrder /\ Looping /\ Shapes /\ ReachedDone
  BY DEF Known
<1>2. /\ phase = "encode" /\ idx \in 1..Len(List) /\ idx' = idx + 1
      /\ UNCHANGED <<layout, sps, slice>> /\ DOMAIN coded' = DOMAIN coded
  BY <1>1, EncodeStep DEF List
<1>3. DOMAIN coded = Data!Ctus /\ n \in Data!Ctus /\ ~Done(n) /\ idx \in Nat
  BY <1>1, <1>2, NextIsNew DEF Shapes
<1>4. Data!CtxElements' = Data!CtxElements
  BY <1>2 DEF Data!CtxElements, Data!Ctus, Data!pic
<1>5. Columns /\ coder.sync \in Seq(Data!CtxElements) /\ Data!StartsFromAbove
  BY <1>1 DEF UpInv
<1>6. ReachedDone' /\ Columns'
  BY <1>5, DoneStep, ColumnsStep
<1>7. coder'.sync \in Seq(Data!CtxElements) /\ coder'.ctx \in Seq(Data!CtxElements)
  <2> DEFINE E == Data!CtxElements  b == Before(idx, State(coder))  e == <<"coded", n>>
  <2>1. b \in Seq(E) /\ coder.sync \in Seq(E)
    BY <1>5, DoneStep, BeginsFromAbove
  <2>2. e \in E
    BY <1>3 DEF Data!CtxElements
  <2>3. State(coder') = After(idx, State(coder))
    BY DoneStep
  <2>4. coder'.ctx = Append(b, e) /\ coder'.sync \in {Append(b, e), coder.sync}
    BY <2>3 DEF State, After
  <2> HIDE DEF E, b, e
  <2>5. Append(b, e) \in Seq(E)
    BY <2>1, <2>2
  <2> QED
    BY <2>1, <2>4, <2>5 DEF E
<1>8. (sps.wpp => KeptRow)'
  <2>1. sps' = sps
    BY <1>2
  <2>2. sps.wpp => KeptRow'
    BY KeptRowStep
  <2> QED
    BY <2>1, <2>2
<1>9. (idx = 1 => coder.ctx = << >>)'
  <2>1. idx' # 1
    BY <1>2, <1>3
  <2> QED
    BY <2>1
<1>10. ASSUME NEW c \in Data!Ctus PROVE FromAbove(c)'
  <2>1. /\ \A d \in Data!Ctus : Done(d)' <=> Done(d) \/ d = n
        /\ \A d \in Data!Ctus : d # n => coded'[d] = coded[d]
    BY DoneStep
  <2>2. FromAbove(c) /\ layout' = layout /\ sps' = sps
    BY <1>2, <1>3, <1>5, AllFromAbove
  <2>3. \A d : Data!SliceIdx(d)' = Data!SliceIdx(d)
    BY <2>2 DEF Data!SliceIdx
  <2>4. SUFFICES ASSUME Done(c) \/ c = n, CtuY(layout.pic, c) > 0
        PROVE  LET up == c - w
                   ctx == coded'[c].ctx
               IN /\ ctx[Len(ctx)] = <<"above", up>>
                  /\ sps.wpp /\ CtuIsTileColBd(layout.pic, c) =>
                       Front(ctx) = IF Data!SliceIdx(c) = Data!SliceIdx(up)
                                       /\ TileIdx(layout.pic, c) = TileIdx(layout.pic, up)
                                    THEN Append(coded'[up].ctx, <<"coded", up>>) ELSE << >>
    BY <2>1, <2>2, <2>3 DEF FromAbove
  <2>5. CASE c = n
    <3>1. /\ c - w \in Data!Ctus /\ Done(c - w)
          /\ coded'[c].ctx[Len(coded'[c].ctx)] = <<"above", c - w>>
          /\ sps.wpp /\ CtuIsTileColBd(layout.pic, c) =>
               Front(coded'[c].ctx) =
                 IF HasAbove(idx) THEN Append(coded[c - w].ctx, <<"coded", c - w>>) ELSE << >>
      BY <2>4, <2>5, BeginsFromAbove
    <3>2. coded'[c - w] = coded[c - w]
      BY <1>3, <2>1, <2>5, <3>1
    <3>3. HasAbove(idx) <=> /\ Data!SliceIdx(c) = Data!SliceIdx(c - w)
                            /\ TileIdx(layout.pic, c) = TileIdx(layout.pic, c - w)
      <4>1. Data!SliceIdx(n) = slice
        BY <1>1, <1>2, SliceOfCtu
      <4> QED
        BY <2>4, <2>5, <4>1, SameOperators DEF HasAbove
    <3> QED
      BY <3>1, <3>2, <3>3
  <2>6. CASE c # n
    <3>1. Done(c) /\ coded'[c] = coded[c]
      BY <2>1, <2>4, <2>6
    <3>2. coded'[c - w] = coded[c - w]
      <4> DEFINE up == c - w  b == coder.bins[CtuX(layout.pic, c)]
      <4>1. IsTiled(layout.pic) /\ c \in CtusOfPicture(layout.pic) /\ Data!Ctus = CtusOfPicture(layout.pic)
        BY CtusOfLayout
      <4>2. /\ up \in Data!Ctus /\ CtuX(layout.pic, up) = CtuX(layout.pic, c)
            /\ CtuY(layout.pic, up) = CtuY(layout.pic, c) - 1
        BY <2>4, <4>1, AbovePlace
      <4>3. b # Data!None /\ CtuY(layout.pic, c) <= CtuY(layout.pic, b)
        BY <1>5, <3>1 DEF Columns
      <4>4. b \in Data!Ctus
        BY <1>5, <4>3, CtusOfLayout DEF Columns
      <4>5. CtuY(layout.pic, up) <= CtuY(layout.pic, b)
        <5>1. CtuY(layout.pic, c) \in Nat /\ CtuY(layout.pic, b) \in Nat
          BY <4>4, CtusOfLayout
        <5> QED
          BY <4>2, <4>3, <5>1
      <4>6. Done(up)
        BY <1>5, <4>2, <4>3, <4>5 DEF Columns
      <4> QED
        BY <1>3, <2>1, <4>2, <4>6
    <3> QED
      BY <2>2, <2>4, <3>1, <3>2 DEF FromAbove
  <2> QED
    BY <2>5, <2>6
<1>11. Data!StartsFromAbove'
  <2>1. (\A c \in DOMAIN coded : FromAbove(c))'
    BY <1>2, <1>3, <1>10
  <2>2. (Data!StartsFromAbove <=> \A c \in DOMAIN coded : FromAbove(c))'
    BY AllFromAbove, PTL
  <2> QED
    BY <2>1, <2>2
<1> QED
  BY <1>4, <1>6, <1>7, <1>8, <1>9, <1>11

\* What is said of the coded CTUs stays while they do, in the slices as in the kept
\* contexts.
LEMMA StaysFromAbove ==
  ASSUME UpInv, UNCHANGED <<layout, sps, coded>>
  PROVE  /\ Data!StartsFromAbove'
         /\ Looping /\ coder'.bins = coder.bins => Columns'
         /\ Data!CtxElements' = Data!CtxElements
<1>1. \A c : Data!SliceIdx(c)' = Data!SliceIdx(c)
  BY DEF Data!SliceIdx
<1>2. Data!StartsFromAbove'
  BY <1>1 DEF UpInv, Data!StartsFromAbove, Data!InSameSliceAndTile, Data!pic
<1>3. Data!Ctus' = Data!Ctus /\ Data!CtxElements' = Data!CtxElements
  BY DEF Data!Ctus, Data!pic, Data!CtxElements
<1>4. ASSUME Looping, coder'.bins = coder.bins PROVE Columns'
  <2>1. Columns
    BY <1>4 DEF UpInv
  <2>2. \A c : Done(c)' <=> Done(c)
    BY DEF Done, Data!None
  <2> QED
    BY <1>3, <1>4, <2>1, <2>2 DEF Columns, Data!None
<1> QED
  BY <1>2, <1>3, <1>4

\* At the start of a picture nothing is coded.
LEMMA BeginsUp ==
  ASSUME LoopInv', MapsInOrder', MapsUpFirst', Begin
  PROVE  UpInv'
<1>1. /\ phase' = "encode" /\ slice' = 1 /\ idx' = 1
      /\ coded' = [c \in Data!Ctus' |-> [ctx |-> << >>, qp |-> Data!None]]
      /\ coder'.ctx = << >> /\ coder'.sync = << >>
      /\ coder'.bins = [x \in 0..(layout'.pic.width - 1) |-> Data!None]
  BY DEF Begin, Data!StartPicture, Data!Ctus, Data!pic
<1>2. MapsChecked' /\ Looping' /\ Shapes'
  BY <1>1 DEF LoopInv, Looping
<1>3. IsTiled(layout'.pic) /\ Data!Ctus' = CtusOfPicture(layout'.pic)
  BY <1>2 DEF MapsInOrder, Looping, Data!Ctus, Data!pic, CtusOfPicture
<1>4. \A c \in Data!Ctus' : ~Done(c)' /\ CtuX(layout'.pic, c) \in 0..(layout'.pic.width - 1)
  BY <1>1, <1>3, CtuPlace DEF Done, Data!None
<1>5. Data!StartsFromAbove'
  BY <1>1 DEF Data!StartsFromAbove, Data!None
<1>6. Columns'
  <2>1. \A c \in Data!Ctus' : coder'.bins[CtuX(layout'.pic, c)] = Data!None
    BY <1>1, <1>4
  <2>2. \A x \in 0..(layout'.pic.width - 1) : coder'.bins[x] = Data!None
    BY <1>1
  <2> QED
    BY <1>1, <1>4, <2>1, <2>2 DEF Columns, Data!None
<1>7. ReachedDone'
  <2> DEFINE map == layout'.map  N == 0..(layout'.pic.width * layout'.pic.height - 1)
  <2>1. map \in Seq(Seq(N)) /\ Data!Ctus' = N
    BY <1>2, MapMeans DEF MapsChecked, Looping, Data!Ctus, Data!pic
  <2> SUFFICES ASSUME NEW s \in DOMAIN map, NEW i \in DOMAIN map[s]
               PROVE  coded'[map[s][i]].qp = Data!None /\ ~Reached(s, i)'
    BY DEF ReachedDone, Done, Data!None
  <2>2. s \in Nat \ {0} /\ i \in Nat \ {0} /\ map[s][i] \in N
    <3> HIDE DEF map, N
    <3>1. s \in Nat \ {0} /\ map[s] \in Seq(N)
      BY <2>1
    <3>2. i \in Nat \ {0} /\ map[s][i] \in N
      BY <3>1
    <3> QED
      BY <3>1, <3>2
  <2>3. ~Reached(s, i)'
    BY <1>1, <2>2 DEF Reached
  <2>4. coded'[map[s][i]].qp = Data!None
    BY <1>1, <2>1, <2>2
  <2> QED
    BY <2>3, <2>4
<1>8. KeptRow'
  BY <1>1 DEF KeptRow
<1>9. << >> \in Seq(Data!CtxElements)'
  OBVIOUS
<1> QED
  BY <1>1, <1>5, <1>6, <1>7, <1>8, <1>9 DEF UpInv

\* The invariant is kept by every step.
LEMMA UpStep ==
  ASSUME LoopInv, LoopInv', FitInv, FitInv', UpInv, [PictureNext]_<<vars, dataVars>>
  PROVE  UpInv'
<1>1. MapsUpFirst' /\ MapsInOrder /\ MapsInOrder' /\ MapsUpFirst /\ MapsChecked
  BY MapsStayUpFirst DEF FitInv, UpInv, LoopInv
<1>2. CASE Partition \/ UNCHANGED <<vars, dataVars>>
  <2>1. UNCHANGED <<layout, sps, phase, slice, idx, coder, coded>>
    BY <1>2 DEF Partition, dataVars
  <2>2. /\ Data!StartsFromAbove' /\ Data!CtxElements' = Data!CtxElements
        /\ (Looping => Columns')
    BY <2>1, StaysFromAbove
  <2>3. (Looping' <=> Looping) /\ (KeptRow' <=> KeptRow) /\ (ReachedDone' <=> ReachedDone)
    BY <2>1 DEF Looping, KeptRow, At, ReachedDone, Reached, Done, Data!None
  <2> QED
    BY <1>1, <2>1, <2>2, <2>3 DEF UpInv
<1>3. CASE Begin
  BY <1>1, <1>3, BeginsUp
<1>4. CASE EncodeCtu
  <2>1. /\ phase = "encode" /\ Looping /\ Data!EncodeCtu
    BY <1>4 DEF EncodeCtu, Data!EncodeCtu, Looping
  <2>2. Known /\ CodedTyped
    BY <1>1, <2>1 DEF Known, LoopInv, FitInv, UpInv
  <2> QED
    BY <1>1, <2>1, <2>2, EncodeFromAbove DEF UpInv
<1>5. CASE WriteSliceData \/ DecodeCtu \/ NextSlice
  <2>1. /\ Looping /\ Shapes /\ ReachedDone /\ Columns
        /\ UNCHANGED <<layout, sps, coded>>
    <3>1. Looping /\ UNCHANGED <<layout, sps, coded>>
      BY <1>5 DEF WriteSliceData, DecodeCtu, NextSlice, Data!WriteSlice, Data!DecodeCtu,
         Data!NextSlice, Looping
    <3> QED
      BY <3>1 DEF LoopInv, UpInv
  <2>2. coder.sync \in Seq(Data!CtxElements)
    BY <2>1 DEF UpInv
  <2>3. /\ Data!StartsFromAbove' /\ Data!CtxElements' = Data!CtxElements
        /\ (coder'.bins = coder.bins => Columns')
    BY <2>1, StaysFromAbove
  <2>4. /\ slice \in Nat /\ DOMAIN layout.map \subseteq Nat
        /\ \A s \in DOMAIN layout.map : DOMAIN layout.map[s] \subseteq Nat \ {0}
        /\ DOMAIN layout.map[slice] = 1..Len(List) /\ Len(List) \in Nat
    <3> DEFINE map == layout.map  N == 0..(layout.pic.width * layout.pic.height - 1)
    <3>1. map \in Seq(Seq(N)) /\ slice \in DOMAIN map
      BY <1>1, <2>1, MapMeans DEF MapsChecked, Looping, Shapes
    <3> HIDE DEF map, N
    <3>2. slice \in Nat /\ DOMAIN map \subseteq Nat
      BY <3>1
    <3>3. ASSUME NEW s \in DOMAIN map PROVE DOMAIN map[s] \subseteq Nat \ {0}
      <4>1. map[s] \in Seq(N)
        BY <3>1
      <4> QED
        BY <4>1
    <3>4. DOMAIN layout.map[slice] = 1..Len(List) /\ Len(List) \in Nat
      BY <1>1, <2>1, CtusOfSlice DEF List
    <3> QED
      BY <3>2, <3>3, <3>4 DEF map
  <2>5. ASSUME \A s \in DOMAIN layout.map : \A i \in DOMAIN layout.map[s] :
                 Reached(s, i)' <=> Reached(s, i)
        PROVE  ReachedDone'
    BY <2>1, <2>5 DEF ReachedDone, Done, Data!None
  <2>6. CASE WriteSliceData
    <3>1. /\ phase = "encode" /\ idx > Len(List) /\ phase' = "decode"
          /\ UNCHANGED <<slice, coder>>
      BY <2>6 DEF WriteSliceData, Data!WriteSlice, Data!ctus, List
    <3>2. idx \in Nat
      BY <2>1, <2>4 DEF Shapes, List
    <3>3. ReachedDone'
      <4> SUFFICES ASSUME NEW s \in DOMAIN layout.map, NEW i \in DOMAIN layout.map[s]
                   PROVE  Reached(s, i)' <=> Reached(s, i)
        BY <2>5
      <4>1. s = slice => i \in 1..Len(List)
        BY <2>4
      <4>2. s = slice => i < idx
        BY <2>4, <3>1, <3>2, <4>1
      <4> QED
        BY <3>1, <4>2 DEF Reached
    <3> QED
      BY <1>1, <2>2, <2>3, <3>1, <3>3 DEF UpInv
  <2>7. CASE DecodeCtu
    <3>1. phase = "decode" /\ phase' \in {"decode", "error"} /\ UNCHANGED <<slice, coder>>
      BY <2>7 DEF DecodeCtu, Data!DecodeCtu
    <3>2. ReachedDone'
      BY <2>5, <3>1 DEF Reached
    <3> QED
      BY <1>1, <2>2, <2>3, <3>1, <3>2 DEF UpInv
  <2>8. CASE NextSlice
    <3>1. phase = "decode" /\ IF slice < Len(layout.map) THEN phase' = "encode" /\ Data!StartSlice(slice + 1)
                              ELSE phase' = "done"
      BY <2>8 DEF NextSlice, Data!NextSlice
    <3>2. CASE slice < Len(layout.map)
      <4>1. /\ phase' = "encode" /\ slice' = slice + 1 /\ idx' = 1
            /\ coder' = [coder EXCEPT !.ctx = << >>, !.prevQp = Data!SliceQp,
                           !.subs = << << >> >>, !.numSubstream = 0, !.sizes = << >>]
        BY <3>1, <3>2 DEF Data!StartSlice
      <4>2. coder'.ctx = << >> /\ coder'.sync = coder.sync /\ coder'.bins = coder.bins
        <5> DEFINE c == coder
        <5>1. c = [ctx |-> c.ctx, sync |-> c.sync, bins |-> c.bins, prevQp |-> c.prevQp,
                   subs |-> c.subs, numSubstream |-> c.numSubstream, sizes |-> c.sizes]
          BY <2>1 DEF Shapes, IsCoder
        <5> QED
          BY <4>1, <5>1
      <4>3. ReachedDone'
        <5> SUFFICES ASSUME NEW s \in DOMAIN layout.map, NEW i \in DOMAIN layout.map[s]
                     PROVE  Reached(s, i)' <=> Reached(s, i)
          BY <2>5
        <5>1. s \in Nat /\ i \in Nat \ {0} /\ slice \in Nat
          BY <2>4
        <5> QED
          BY <3>1, <4>1, <5>1 DEF Reached
      <4>4. KeptRow'
        BY <4>1 DEF KeptRow
      <4>5. << >> \in Seq(Data!CtxElements)'
        OBVIOUS
      <4> QED
        BY <1>1, <2>2, <2>3, <4>1, <4>2, <4>3, <4>4, <4>5 DEF UpInv
    <3>3. CASE ~(slice < Len(layout.map))
      <4>1. phase' = "done"
        BY <3>1, <3>3
      <4> QED
        BY <1>1, <2>3, <4>1 DEF UpInv, Looping
    <3> QED
      BY <3>2, <3>3
  <2> QED
    BY <1>5, <2>6, <2>7, <2>8
<1> QED
  BY <1>2, <1>3, <1>4, <1>5 DEF PictureNext

\* What the rows take over from those above holds always.
LEMMA UpInvariant == PictureSpec => []UpInv
<1>1. PictureInit => UpInv
  <2> SUFFICES ASSUME PictureInit PROVE UpInv
    OBVIOUS
  <2>1. phase = "none" /\ coded = << >>
    BY DEF PictureInit, Data!Init
  <2>2. Data!StartsFromAbove
    BY <2>1 DEF Data!StartsFromAbove
  <2> QED
    BY <2>1, <2>2, FirstUpFirst DEF UpInv, Looping
<1>2. LoopInv /\ LoopInv' /\ FitInv /\ FitInv' /\ UpInv /\ [PictureNext]_<<vars, dataVars>> => UpInv'
  BY UpStep
<1> QED
  BY <1>1, <1>2, LoopInvariant, FitInvariant, PTL DEF PictureSpec

\* StartsFromAbove: whatever the tiles and the slices, every CTU below the first row
\* is updated with the bins of the CTU directly above it, and with wavefronts a row
\* of a tile begins with the contexts after the first CTU of the row above where
\* that is in the same slice and tile, and with initial ones elsewhere.
THEOREM RowsStartFromAbove == PictureSpec => []StartsFromAbove
<1>1. UpInv => StartsFromAbove
  BY DEF UpInv, StartsFromAbove
<1> QED
  BY <1>1, UpInvariant, PTL
=============================================================================
