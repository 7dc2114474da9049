---------------------------- MODULE NalLoopProofs ----------------------------
(***************************************************************************)
(* Of the streams in which neither of the two shapes KnownNotToWork names  *)
(* comes, for every layout of picture units, value of the options, modulus *)
(* of the POCs and length of the stream: the pictures NalLoop finishes are *)
(* whole, in order, with their SEI messages, their POCs and their          *)
(* sequences.                                                              *)
(*                                                                         *)
(* The inductive invariant says where the decoder is in the stream: the    *)
(* NAL unit it reads next is in a picture unit, and its members and the    *)
(* variables of the loop are those of an encoder that was there (Synced).  *)
(***************************************************************************)
EXTENDS NalLoop, FiniteOrders, SequenceTheorems

\* An IDR picture right after the pictures -s skips, and a CRA or GDR picture as
\* the last of those: the loop tears or skips them (DecApp.cpp 311-316).
KnownNotToWork == {"CRA last of -s", "IDR first after -s"}

-----------------------------------------------------------------------------
(* What there is.                                                           *)

EncoderStates ==
  [num : Nat, offered : Nat, tid0Poc : Int, last : Types \cup {None}, cvs : Nat,
   afterEos : BOOLEAN, alone : BOOLEAN, entered : BOOLEAN, skipsRasl : BOOLEAN,
   lastDue : BOOLEAN]

Pictures ==
  [num : Nat \ {0}, type : Types, tid : {0, 1}, poc : Int, cvs : Nat,
   layout : Layouts, at : EncoderStates, offered : Nat, entered : BOOLEAN,
   due : BOOLEAN]

Nuts == {"PREFIX_SEI", "PH", "SLICE", "SUFFIX_SEI", "EOS"}

NalUnits == [nut : Nuts, pic : Pictures, pos : Nat \ {0}]

DecodedPictures ==
  [pic : Pictures \cup {None}, poc : Int, slices : SUBSET (Nat \X Nat),
   seis : SUBSET (Nat \X Nuts), nobr : BOOLEAN, newCLVS : BOOLEAN]

DecoderStates ==
  [isFirstSliceInPicture : BOOLEAN, firstSliceInSequence : BOOLEAN,
   prevTid0POC : Int, pocRandomAccess : Int, skippedBefore : BOOLEAN,
   prevSliceSkipped : BOOLEAN, prefixSeis : SUBSET (Nat \X Nuts),
   pic : DecodedPictures]

LoopStates ==
  [skipFrame : Int, picSkipped : BOOLEAN, eosInPu : BOOLEAN, eosInLastPu : BOOLEAN,
   newCLVS : BOOLEAN, loopFiltered : BOOLEAN, picListSet : BOOLEAN, aborted : BOOLEAN]

FinishedPictures ==
  [order : Nat, pic : Pictures \cup {None}, poc : Int, slices : SUBSET (Nat \X Nat),
   seis : SUBSET (Nat \X Nuts), nobr : BOOLEAN, newCLVS : BOOLEAN]

\* The values of the variables.
TypeOK ==
  /\ file \in Seq(NalUnits) /\ ended \in BOOLEAN /\ enc \in EncoderStates
  /\ options \in [skipFrame : Skips, highestTid : HighestTids]
  /\ dec \in DecoderStates /\ app \in LoopStates
  /\ finished \in FinishedPictures /\ missing \in SUBSET Nat

-----------------------------------------------------------------------------
(* The stream.                                                              *)

\* What an encoder keeps to: it has entered only past the pictures -s skips.
EncoderOK(o, e) ==
  /\ e.num <= MaxPics
  /\ e.entered => e.offered > o.skipFrame
  /\ e.num = 0 => ~e.entered /\ e.offered = 0 /\ ~e.afterEos
  /\ e.afterEos => e.last = None

\* A picture an encoder may write under options o.
Written(o, p) ==
  /\ EncoderOK(o, p.at) /\ p.at.num < MaxPics
  /\ MayFollow(p.at, p.type, p.tid) /\ ~IsExcluded(o, p)
  /\ \E step \in Steps : p = Picture(p.at, o, p.type, p.tid, step, p.layout)

\* Where the encoder was after NAL unit a, the last of a unit.
EncoderAfter(a) == IF a.nut = "EOS" THEN AfterEos(After(a.pic)) ELSE After(a.pic)

InUnit(a) ==
  \/ a.pos \in 1..UnitLen(a.pic) /\ a = NalUnit(a.pic, a.pos)
  \/ a = Eos(a.pic)

EndsUnit(a) == a.pos >= UnitLen(a.pic)

\* NAL unit b comes right after a.
Follows(a, b) ==
  \/ a.nut # "EOS" /\ b.pic = a.pic /\ b.pos = a.pos + 1
  \/ EndsUnit(a) /\ b.pos = 1 /\ b.nut # "EOS" /\ b.pic.at = EncoderAfter(a)

FileOK(o, f) ==
  /\ \A i \in 1..Len(f) : InUnit(f[i]) /\ Written(o, f[i].pic)
  /\ \A i \in 1..(Len(f) - 1) : Follows(f[i], f[i + 1])
  \* once in a unit, the file has the rest of it
  /\ \A i \in 1..Len(f) : \A k \in f[i].pos..UnitLen(f[i].pic) :
       /\ i + k - f[i].pos \in 1..Len(f)
       /\ f[i + k - f[i].pos] = NalUnit(f[i].pic, k)

StreamOK ==
  /\ EncoderOK(options, enc) /\ FileOK(options, file)
  /\ file # << >> => EndsUnit(Last(file)) /\ enc = EncoderAfter(Last(file))
  /\ file = << >> => ended \/ enc.num = 0

-----------------------------------------------------------------------------
(* The decoder.                                                             *)

\* The count -s leaves when e.offered pictures came.
SkipFrameAt(o, e) ==
  IF e.offered = 0 THEN o.skipFrame
  ELSE IF e.offered <= o.skipFrame THEN o.skipFrame - e.offered + 1 ELSE 0

\* The decoder is where encoder state e was.
Synced(o, d, a, e) ==
  /\ a.skipFrame = SkipFrameAt(o, e)
  /\ o.skipFrame > 0 => (d.skippedBefore <=> e.offered > 0)
  /\ d.firstSliceInSequence <=> ~e.entered \/ (e.afterEos /\ e.lastDue)
  /\ d.prevTid0POC \in 0..(e.num + 1) * MaxLsb
  /\ e.num > 0 => d.prevTid0POC % MaxLsb = e.tid0Poc % MaxLsb
  /\ e.last = "IDR" => d.prevTid0POC = 0
  /\ d.pocRandomAccess = MAX_INT <=> ~e.entered \/ e.afterEos
  /\ e.entered /\ ~e.afterEos =>
       /\ d.pocRandomAccess <= d.prevTid0POC
       /\ e.last \in {"CRA", "RASL"} =>
            IF e.skipsRasl THEN d.pocRandomAccess = d.prevTid0POC
                           ELSE d.pocRandomAccess <= d.prevTid0POC - 3
  /\ a.picListSet => e.entered

\* The SEI messages and slices among the first n NAL units of p.
SeisRead(p, n) == {NalUnit(p, j).nut : j \in 1..n} \cap {"PREFIX_SEI", "SUFFIX_SEI"}
SlicesRead(p, n) == {k \in 0..(p.layout.slices - 1) : k < n - HeadLen(p)}

\* The picture being decoded is p, n of whose NAL units were read.
Decoding(d, p, n) ==
  /\ d.pic.pic = p
  /\ d.pic.slices = {p.num} \X SlicesRead(p, n)
  /\ d.pic.seis = {p.num} \X SeisRead(p, n)
  /\ d.pic.poc - p.poc = d.prevTid0POC - After(p).tid0Poc
  /\ p.at.afterEos = EosSeen(p) => d.pic.nobr = Starts(p)
  /\ d.pic.newCLVS = (p.type = "IDR" \/ p.at.afterEos)

\* A picture was decoded and is to be finished when the next one begins.
Pending(d, a) ==
  ~d.isFirstSliceInPicture /\ ~d.firstSliceInSequence /\ ~a.picSkipped

PendingOK(o, d, e) ==
  LET p == d.pic.pic
  IN /\ p \in Pictures /\ Written(o, p) /\ p.due /\ After(p) = e
     /\ Decoding(d, p, UnitLen(p))

\* NAL unit i of p is next, and no slice of p was read.
Before(o, d, a, p, i) ==
  /\ Synced(o, d, a, p.at)
  /\ d.prefixSeis = IF p.tid <= o.highestTid THEN {p.num} \X SeisRead(p, i - 1) ELSE {}
  /\ p.at.afterEos => a.newCLVS
  /\ ~d.isFirstSliceInPicture => i = 1 /\ (a.eosInPu <=> p.at.afterEos)
  /\ d.isFirstSliceInPicture => a.eosInPu \/ (a.eosInLastPu <=> p.at.afterEos)
  \* past the CHECK after an EOS comes only a decoder that decoded a picture before it
  /\ p.at.afterEos /\ (~d.isFirstSliceInPicture \/ ~a.eosInPu) => p.at.entered
  /\ Pending(d, a) => PendingOK(o, d, p.at)

\* NAL unit i of p is next, and a slice of p was read.
Within(o, d, a, p, i) ==
  /\ Synced(o, d, a, After(p))
  /\ d.prefixSeis = {} /\ ~a.eosInPu
  /\ d.isFirstSliceInPicture => ~a.eosInLastPu
  /\ IF p.due
     THEN /\ ~d.isFirstSliceInPicture /\ ~a.picSkipped /\ ~d.prevSliceSkipped
          /\ Decoding(d, p, i - 1)
     ELSE a.picSkipped

InHead(h) == h.pos <= HeadLen(h.pic) + 1

\* The encoder state the decoder is at.
Position ==
  IF file = << >> THEN enc
  ELSE IF InHead(Head(file)) THEN Head(file).pic.at ELSE After(Head(file).pic)

\* The picture f, finished last, is of the sequence a decoder d at e is in, or
\* of an earlier one.
FinishedAt(f, d, e) ==
  f.order # 0 =>
    /\ f.pic \in Pictures /\ e.entered /\ f.pic.cvs <= e.cvs
    /\ f.pic.cvs = e.cvs => f.poc - f.pic.poc = d.prevTid0POC - e.tid0Poc

FinishedOK == FinishedAt(finished, dec, Position)

\* The pictures missing are those due in the file, and the one pending.
MissingOK ==
  /\ \A n \in missing : n <= enc.num
  /\ \A i \in 1..Len(file) : file[i].pic.num \in missing <=> file[i].pic.due
  /\ LET h == Head(file)
     IN \A n \in missing :
          \/ n >= h.pic.num
          \/ InHead(h) /\ Pending(dec, app) /\ n = h.pic.at.num
  /\ InHead(Head(file)) /\ Pending(dec, app) => Head(file).pic.at.num \in missing

\* Before anything was written.
NothingYet ==
  /\ Synced(options, dec, app, enc) /\ dec.prefixSeis = {}
  /\ dec.isFirstSliceInPicture /\ ~app.eosInPu /\ ~app.eosInLastPu
  /\ finished.order = 0 /\ missing = {}

DecoderOK ==
  IF file = << >> THEN ended \/ NothingYet
  ELSE LET h == Head(file)
       IN /\ IF InHead(h) THEN Before(options, dec, app, h.pic, h.pos)
                          ELSE Within(options, dec, app, h.pic, h.pos)
          /\ FinishedOK /\ MissingOK

Inv == TypeOK /\ StreamOK /\ (app.aborted \/ DecoderOK)

-----------------------------------------------------------------------------
(* Units and pictures.                                                      *)

\* What a layout holds.
LEMMA LayoutParts ==
  ASSUME NEW l \in Layouts
  PROVE  /\ l.head \in Seq({"PREFIX_SEI", "PH"}) /\ l.tail \in Seq({"SUFFIX_SEI"})
         /\ l.slices \in Nat \ {0} /\ l.phInSlice \in BOOLEAN
         /\ Len(l.head) \in Nat /\ Len(l.tail) \in Nat
         /\ \A i \in 1..Len(l.head) : l.head[i] \in {"PREFIX_SEI", "PH"}
         /\ \A i \in 1..Len(l.tail) : l.tail[i] = "SUFFIX_SEI"
         /\ l.phInSlice => l.slices = 1
         /\ ~l.phInSlice => \E i \in 1..Len(l.head) : l.head[i] = "PH"
<1>1. l \in Layout /\ (l.phInSlice <=> "PH" \notin Range(l.head)) /\ (l.phInSlice => l.slices = 1)
  BY LayoutsAssumption
<1>2. /\ l.head \in Seq({"PREFIX_SEI", "PH"}) /\ l.tail \in Seq({"SUFFIX_SEI"})
      /\ l.slices \in Nat \ {0} /\ l.phInSlice \in BOOLEAN
  BY <1>1 DEF Layout
<1>3. /\ \A i \in 1..Len(l.head) : l.head[i] \in {"PREFIX_SEI", "PH"}
      /\ \A i \in 1..Len(l.tail) : l.tail[i] = "SUFFIX_SEI"
      /\ Len(l.head) \in Nat /\ Len(l.tail) \in Nat
  BY <1>2
<1>4. DOMAIN l.head = 1..Len(l.head)
  BY <1>2
<1>5. ~l.phInSlice => \E i \in 1..Len(l.head) : l.head[i] = "PH"
  BY <1>1, <1>4 DEF Range
<1> QED
  BY <1>1, <1>2, <1>3, <1>5

\* The length of a unit.
LEMMA UnitLength ==
  ASSUME NEW p \in Pictures
  PROVE  /\ p.layout \in Layouts
         /\ UnitLen(p) \in Nat \ {0}
         /\ UnitLen(p) >= HeadLen(p) + p.layout.slices
         /\ HeadLen(p) \in Nat /\ p.layout.slices \in Nat \ {0}
         /\ Len(p.layout.tail) \in Nat
<1>1. p.layout \in Layouts
  BY DEF Pictures
<1>2. /\ p.layout.slices \in Nat \ {0}
      /\ HeadLen(p) \in Nat /\ Len(p.layout.tail) \in Nat
  BY <1>1, LayoutParts DEF HeadLen
<1>3. \A a, c \in Nat, b \in Nat \ {0} : a + b + c \in Nat \ {0} /\ a + b + c >= a + b
  OBVIOUS
<1>4. /\ UnitLen(p) \in Nat \ {0}
      /\ UnitLen(p) >= HeadLen(p) + p.layout.slices
  BY <1>2, <1>3 DEF UnitLen
<1> QED
  BY <1>1, <1>2, <1>4

\* NAL unit i of a picture unit.
LEMMA NalUnitParts ==
  ASSUME NEW p \in Pictures, NEW i \in 1..UnitLen(p)
  PROVE  /\ NalUnit(p, i) \in NalUnits
         /\ NalUnit(p, i).pic = p /\ NalUnit(p, i).pos = i /\ NalUnit(p, i).nut # "EOS"
         /\ i <= HeadLen(p) =>
              /\ NalUnit(p, i).nut = p.layout.head[i]
              /\ NalUnit(p, i).nut \in {"PREFIX_SEI", "PH"}
         /\ i > HeadLen(p) /\ i <= HeadLen(p) + p.layout.slices =>
              NalUnit(p, i).nut = "SLICE"
         /\ i > HeadLen(p) + p.layout.slices => NalUnit(p, i).nut = "SUFFIX_SEI"
<1> DEFINE l == p.layout
<1>1. /\ l \in Layouts /\ UnitLen(p) \in Nat \ {0}
      /\ HeadLen(p) \in Nat /\ l.slices \in Nat \ {0} /\ Len(l.tail) \in Nat
  BY UnitLength
<1>2. /\ \A j \in 1..HeadLen(p) : l.head[j] \in {"PREFIX_SEI", "PH"}
      /\ \A j \in 1..Len(l.tail) : l.tail[j] = "SUFFIX_SEI"
  BY <1>1, LayoutParts DEF HeadLen
<1>3. i \in Nat \ {0} /\ i <= HeadLen(p) + l.slices + Len(l.tail)
  BY <1>1 DEF UnitLen
<1>4. NalUnit(p, i).pic = p /\ NalUnit(p, i).pos = i
  BY DEF NalUnit
<1>5. NalUnit(p, i).nut = IF i - HeadLen(p) <= 0 THEN l.head[i]
                          ELSE IF i - HeadLen(p) - l.slices <= 0 THEN "SLICE"
                          ELSE l.tail[i - HeadLen(p) - l.slices]
  BY DEF NalUnit
<1>6. i <= HeadLen(p) =>
        NalUnit(p, i).nut = l.head[i] /\ NalUnit(p, i).nut \in {"PREFIX_SEI", "PH"}
  BY <1>1, <1>2, <1>3, <1>5
<1>7. i > HeadLen(p) /\ i <= HeadLen(p) + l.slices => NalUnit(p, i).nut = "SLICE"
  BY <1>1, <1>3, <1>5
<1>8. ASSUME i > HeadLen(p) + l.slices
      PROVE  NalUnit(p, i).nut = "SUFFIX_SEI"
  <2>0. \A a, b, c, x \in Nat : x > a + b /\ x <= a + b + c => x - a - b \in 1..c
    OBVIOUS
  <2>1. i - HeadLen(p) - l.slices \in 1..Len(l.tail)
    BY <2>0, <1>1, <1>3, <1>8
  <2> QED
    BY <2>1, <1>1, <1>2, <1>3, <1>5, <1>8
<1>9. NalUnit(p, i).nut \in {"PREFIX_SEI", "PH", "SLICE", "SUFFIX_SEI"}
  BY <1>1, <1>3, <1>6, <1>7, <1>8
<1>10. NalUnit(p, i) = [nut |-> NalUnit(p, i).nut, pic |-> p, pos |-> i]
  BY DEF NalUnit
<1>11. NalUnit(p, i) \in NalUnits
  BY <1>3, <1>9, <1>10 DEF NalUnits, Nuts
<1> QED
  BY <1>4, <1>6, <1>7, <1>8, <1>9, <1>11

\* What an EOS NAL unit is.
LEMMA EosParts ==
  ASSUME NEW p \in Pictures
  PROVE  /\ Eos(p) \in NalUnits /\ Eos(p).nut = "EOS" /\ Eos(p).pic = p
         /\ Eos(p).pos = UnitLen(p) + 1
BY UnitLength DEF Eos, NalUnits, Nuts

\* A picture unit is a sequence of NAL units.
LEMMA PictureUnitParts ==
  ASSUME NEW p \in Pictures
  PROVE  /\ PictureUnit(p) \in Seq(NalUnits) /\ Len(PictureUnit(p)) = UnitLen(p)
         /\ \A i \in 1..UnitLen(p) : PictureUnit(p)[i] = NalUnit(p, i)
<1>1. UnitLen(p) \in Nat
  BY UnitLength
<1>2. \A i \in 1..UnitLen(p) : NalUnit(p, i) \in NalUnits
  BY NalUnitParts
<1>3. PictureUnit(p) \in [1..UnitLen(p) -> NalUnits]
  BY <1>2 DEF PictureUnit
<1> QED
  BY <1>1, <1>3 DEF PictureUnit

\* The NAL units of a file are of pictures, and a NAL unit in its unit is told
\* by its place.
LEMMA InUnitParts ==
  ASSUME NEW a \in NalUnits, InUnit(a)
  PROVE  LET p == a.pic
         IN /\ p \in Pictures
            /\ a.pos \in Nat \ {0} /\ a.pos <= UnitLen(p) + 1
            /\ a.nut = "EOS" <=> a.pos = UnitLen(p) + 1
            /\ a.nut # "EOS" => a.pos \in 1..UnitLen(p) /\ a = NalUnit(p, a.pos)
            /\ a.nut \in {"PREFIX_SEI", "PH"} <=> a.pos <= HeadLen(p)
            /\ a.nut = "SLICE" <=> /\ a.pos > HeadLen(p)
                                   /\ a.pos <= HeadLen(p) + p.layout.slices
            /\ a.nut = "SUFFIX_SEI" <=> /\ a.pos > HeadLen(p) + p.layout.slices
                                        /\ a.pos <= UnitLen(p)
<1> DEFINE p == a.pic
<1>1. p \in Pictures /\ a.pos \in Nat \ {0}
  BY DEF NalUnits
<1>2. /\ UnitLen(p) \in Nat \ {0} /\ UnitLen(p) >= HeadLen(p) + p.layout.slices
      /\ HeadLen(p) \in Nat /\ p.layout.slices \in Nat \ {0}
  BY <1>1, UnitLength
<1>3. CASE a.pos \in 1..UnitLen(p) /\ a = NalUnit(p, a.pos)
  <2>1. /\ a.nut # "EOS"
        /\ a.pos <= HeadLen(p) => a.nut \in {"PREFIX_SEI", "PH"}
        /\ a.pos > HeadLen(p) /\ a.pos <= HeadLen(p) + p.layout.slices =>
             a.nut = "SLICE"
        /\ a.pos > HeadLen(p) + p.layout.slices => a.nut = "SUFFIX_SEI"
    BY <1>1, <1>3, NalUnitParts
  <2> QED
    BY <2>1, <1>1, <1>2, <1>3
<1>4. CASE a = Eos(p)
  <2>1. a.nut = "EOS" /\ a.pos = UnitLen(p) + 1
    BY <1>1, <1>4, EosParts
  <2> QED
    BY <2>1, <1>1, <1>2
<1> QED
  BY <1>3, <1>4 DEF InUnit

-----------------------------------------------------------------------------
(* The encoder.                                                             *)

\* The assumptions on the constants, as the proofs need them.
LEMMA Constants ==
  /\ MaxLsb \in Nat /\ MaxLsb >= 4 /\ MaxLsb % 2 = 0 /\ Steps \subseteq Nat
  /\ \A s \in Steps : s >= 3 /\ s < MaxLsb \div 2
  /\ MaxPics \in Nat /\ StartPocs \subseteq Int /\ None \notin Types
  /\ Skips \subseteq Nat /\ HighestTids \subseteq {0, 1}
BY LsbAssumption, StepsAssumption, MaxPicsAssumption, StartPocsAssumption, NoneAssumption,
   OptionsAssumption

\* What Picture makes is a picture.
LEMMA PictureType ==
  ASSUME NEW e \in EncoderStates, NEW o \in [skipFrame : Skips, highestTid : HighestTids],
         NEW type \in Types, NEW tid \in {0, 1}, NEW step \in Steps, NEW l \in Layouts
  PROVE  LET p == Picture(e, o, type, tid, step, l)
         IN /\ p \in Pictures /\ p.at = e /\ p.type = type /\ p.tid = tid /\ p.layout = l
            /\ p.num = e.num + 1
<1> DEFINE p == Picture(e, o, type, tid, step, l)
<1>1. step \in Int
  BY Constants
<1>2. /\ e.num \in Nat /\ e.offered \in Nat /\ e.tid0Poc \in Int /\ e.cvs \in Nat
      /\ e.entered \in BOOLEAN
  BY DEF EncoderStates
<1>3. Poc(e, type, tid, step) \in Int
  BY <1>1, <1>2 DEF Poc
<1>4. /\ e.num + 1 \in Nat \ {0} /\ e.offered + 1 \in Nat /\ e.cvs + 1 \in Nat
  BY <1>2
<1>5. /\ p.cvs \in Nat /\ p.offered \in Nat
  BY <1>2, <1>4 DEF Picture
<1>6. p.entered \in BOOLEAN /\ p.due \in BOOLEAN
  BY <1>2 DEF Picture
<1>7. p = [num |-> e.num + 1, type |-> type, tid |-> tid,
           poc |-> Poc(e, type, tid, step), cvs |-> p.cvs, layout |-> l, at |-> e,
           offered |-> p.offered, entered |-> p.entered, due |-> p.due]
  BY DEF Picture
<1>8. p \in Pictures
  BY <1>3, <1>4, <1>5, <1>6, <1>7 DEF Pictures, EncoderStates
<1> QED
  BY <1>7, <1>8

\* After a picture, and after an EOS, the encoder is in one of its states.
LEMMA AfterType ==
  ASSUME NEW p \in Pictures
  PROVE  /\ After(p) \in EncoderStates
         /\ AfterEos(After(p)) \in EncoderStates
<1>1. /\ p.num \in Nat /\ p.offered \in Nat /\ p.poc \in Int /\ p.cvs \in Nat
      /\ p.at.tid0Poc \in Int /\ p.at.afterEos \in BOOLEAN /\ p.at.entered \in BOOLEAN
      /\ p.at.skipsRasl \in BOOLEAN /\ p.entered \in BOOLEAN /\ p.due \in BOOLEAN
      /\ p.type \in Types
  BY DEF Pictures, EncoderStates
<1>2. /\ After(p).tid0Poc \in Int /\ After(p).last \in Types \cup {None}
      /\ After(p).skipsRasl \in BOOLEAN
  BY <1>1 DEF After
<1>3. After(p) = [num |-> p.num, offered |-> p.offered, tid0Poc |-> After(p).tid0Poc,
                  last |-> After(p).last, cvs |-> p.cvs, afterEos |-> FALSE,
                  alone |-> p.at.afterEos, entered |-> p.entered,
                  skipsRasl |-> After(p).skipsRasl, lastDue |-> p.due]
  BY DEF After
<1>4. \A t \in Int, l \in Types \cup {None}, s \in BOOLEAN :
        [num |-> p.num, offered |-> p.offered, tid0Poc |-> t,
         last |-> l, cvs |-> p.cvs, afterEos |-> FALSE,
         alone |-> p.at.afterEos, entered |-> p.entered,
         skipsRasl |-> s, lastDue |-> p.due] \in EncoderStates
  BY <1>1 DEF EncoderStates
<1>5. After(p) \in EncoderStates
  BY <1>2, <1>3, <1>4, Zenon
<1>6. AfterEos(After(p)) \in EncoderStates
  BY <1>5 DEF AfterEos, EncoderStates
<1> QED
  BY <1>5, <1>6

\* The history of a picture.
LEMMA PictureFields ==
  ASSUME NEW e \in EncoderStates, NEW o \in [skipFrame : Skips, highestTid : HighestTids],
         NEW type \in Types, NEW tid \in {0, 1}, NEW step \in Steps, NEW l \in Layouts
  PROVE  LET p == Picture(e, o, type, tid, step, l)
         IN /\ p.entered <=> e.entered \/ (e.offered >= o.skipFrame /\ type \in Entries)
            /\ p.due <=> /\ e.offered >= o.skipFrame /\ tid <= o.highestTid /\ p.entered
                         /\ ~(type = "RASL" /\ e.skipsRasl)
<1>1. e.entered \in BOOLEAN /\ e.skipsRasl \in BOOLEAN
  BY DEF EncoderStates
<1> QED
  BY <1>1 DEF Picture

\* What is known of a picture that was written.
LEMMA WrittenParts ==
  ASSUME NEW o \in [skipFrame : Skips, highestTid : HighestTids],
         NEW p \in Pictures, Written(o, p)
  PROVE  /\ p.num = p.at.num + 1 /\ p.num <= MaxPics
         /\ p.tid <= o.highestTid => p.offered = p.at.offered + 1
         /\ p.tid > o.highestTid => p.offered = p.at.offered
         /\ p.type # "TRAIL" => p.tid = 0 /\ p.tid <= o.highestTid
         /\ p.entered <=> p.at.entered
                          \/ (p.at.offered >= o.skipFrame /\ p.type \in Entries)
         /\ p.due <=> /\ p.at.offered >= o.skipFrame /\ p.tid <= o.highestTid /\ p.entered
                      /\ ~(p.type = "RASL" /\ p.at.skipsRasl)
         /\ p.cvs = IF p.type = "IDR" \/ p.at.afterEos THEN p.at.cvs + 1 ELSE p.at.cvs
         /\ \E step \in Steps : p.poc = Poc(p.at, p.type, p.tid, step)
         /\ EncoderOK(o, p.at) /\ MayFollow(p.at, p.type, p.tid) /\ ~IsExcluded(o, p)
<1>1. PICK step \in Steps : p = Picture(p.at, o, p.type, p.tid, step, p.layout)
  BY DEF Written
<1>2. /\ EncoderOK(o, p.at) /\ MayFollow(p.at, p.type, p.tid) /\ ~IsExcluded(o, p)
      /\ p.at.num < MaxPics
  BY DEF Written
<1>3. /\ p.num \in Nat /\ p.at.num \in Nat /\ p.at.offered \in Nat /\ p.tid \in {0, 1}
      /\ p.type \in Types /\ MaxPics \in Nat
  BY Constants DEF Pictures, EncoderStates
<1>4. o.highestTid \in {0, 1} /\ o.skipFrame \in Nat
  BY Constants
<1>5. p.num = p.at.num + 1 /\ p.poc = Poc(p.at, p.type, p.tid, step)
  BY <1>1 DEF Picture
<1>6. /\ p.offered = IF p.tid <= o.highestTid THEN p.at.offered + 1 ELSE p.at.offered
      /\ p.cvs = IF p.type = "IDR" \/ p.at.afterEos THEN p.at.cvs + 1 ELSE p.at.cvs
  BY <1>1 DEF Picture
<1>7. p.at \in EncoderStates /\ p.layout \in Layouts
  BY DEF Pictures
<1>8. /\ p.entered <=> p.at.entered
                       \/ (p.at.offered >= o.skipFrame /\ p.type \in Entries)
      /\ p.due <=> /\ p.at.offered >= o.skipFrame /\ p.tid <= o.highestTid /\ p.entered
                   /\ ~(p.type = "RASL" /\ p.at.skipsRasl)
  BY <1>1, <1>3, <1>7, PictureFields
<1>9. p.type # "TRAIL" => p.tid = 0
  BY <1>2, <1>3 DEF MayFollow
<1>10. p.num <= MaxPics
  BY <1>2, <1>3, <1>5
<1> QED
  BY <1>1, <1>2, <1>3, <1>4, <1>5, <1>6, <1>8, <1>9, <1>10

\* The encoder that wrote a picture is an encoder in order.
LEMMA AfterOK ==
  ASSUME NEW o \in [skipFrame : Skips, highestTid : HighestTids],
         NEW p \in Pictures, Written(o, p)
  PROVE  /\ EncoderOK(o, After(p)) /\ EncoderOK(o, AfterEos(After(p)))
<1>1. /\ p.num = p.at.num + 1 /\ p.num <= MaxPics
      /\ p.tid <= o.highestTid => p.offered = p.at.offered + 1
      /\ p.tid > o.highestTid => p.offered = p.at.offered
      /\ p.type # "TRAIL" => p.tid = 0 /\ p.tid <= o.highestTid
      /\ p.entered <=> p.at.entered
                       \/ (p.at.offered >= o.skipFrame /\ p.type \in Entries)
      /\ EncoderOK(o, p.at)
  BY WrittenParts
<1>2. /\ p.at.num \in Nat /\ p.at.offered \in Nat /\ p.offered \in Nat
      /\ p.num \in Nat /\ p.tid \in {0, 1}
  BY DEF Pictures, EncoderStates
<1>3. o.highestTid \in {0, 1} /\ o.skipFrame \in Nat
  BY Constants
<1>4. p.at.entered => p.at.offered > o.skipFrame
  BY <1>1 DEF EncoderOK
<1>5. ASSUME p.entered PROVE p.offered > o.skipFrame
  <2>1. CASE p.at.entered
    BY <2>1, <1>1, <1>2, <1>3, <1>4
  <2>2. CASE p.at.offered >= o.skipFrame /\ p.type \in Entries
    <3>1. p.offered = p.at.offered + 1
      BY <2>2, <1>1 DEF Entries
    <3> QED
      BY <3>1, <2>2, <1>2, <1>3
  <2> QED
    BY <1>1, <1>5, <2>1, <2>2
<1>6. p.num # 0
  BY <1>1, <1>2
<1>7. /\ After(p).num = p.num /\ After(p).entered = p.entered
      /\ After(p).offered = p.offered /\ After(p).afterEos = FALSE
  BY DEF After
<1>8. EncoderOK(o, After(p))
  BY <1>1, <1>5, <1>6, <1>7 DEF EncoderOK
<1>9. After(p) \in EncoderStates
  BY AfterType
<1>10. LET e == AfterEos(After(p))
       IN /\ e.num = p.num /\ e.entered = p.entered /\ e.offered = p.offered
          /\ e.afterEos = TRUE /\ e.last = None
  BY <1>7, <1>9 DEF AfterEos, EncoderStates
<1>11. EncoderOK(o, AfterEos(After(p)))
  BY <1>1, <1>5, <1>6, <1>10 DEF EncoderOK
<1> QED
  BY <1>8, <1>11

-----------------------------------------------------------------------------
(* The file.                                                                *)

\* What is left of a sequence when its first element is read.
LEMMA TailParts ==
  ASSUME NEW S, NEW f \in Seq(S), f # << >>
  PROVE  /\ Len(f) \in Nat \ {0} /\ Tail(f) \in Seq(S) /\ Len(Tail(f)) = Len(f) - 1
         /\ \A i \in 1..(Len(f) - 1) : Tail(f)[i] = f[i + 1]
         /\ Head(f) = f[1] /\ Last(f) = f[Len(f)] /\ f[1] \in S /\ f[Len(f)] \in S
         /\ Len(f) = 1 => Tail(f) = << >>
         /\ Len(f) > 1 => /\ Tail(f) # << >> /\ Last(Tail(f)) = Last(f)
                          /\ Head(Tail(f)) = f[2] /\ f[2] \in S
<1>1. Len(f) \in Nat \ {0} /\ Len(Tail(f)) = Len(f) - 1 /\ Tail(f) \in Seq(S)
  BY EmptySeq, HeadTailProperties
<1>2. \A i \in 1..(Len(f) - 1) : Tail(f)[i] = f[i + 1]
  BY HeadTailProperties
<1>3. /\ Head(f) = f[1] /\ Last(f) = f[Len(f)] /\ f[1] \in S /\ f[Len(f)] \in S
  BY <1>1 DEF Last
<1>4. ASSUME Len(f) = 1 PROVE Tail(f) = << >>
  <2>1. Len(Tail(f)) = 0
    BY <1>1, <1>4
  <2> QED
    BY <1>1, <2>1, EmptySeq
<1>5. ASSUME Len(f) > 1
      PROVE  /\ Tail(f) # << >> /\ Last(Tail(f)) = Last(f)
             /\ Head(Tail(f)) = f[2] /\ f[2] \in S
  <2>1. Len(Tail(f)) # 0 /\ 1 \in 1..(Len(f) - 1) /\ Len(f) - 1 \in 1..(Len(f) - 1)
    BY <1>1, <1>5
  <2>2. Tail(f)[1] = f[1 + 1] /\ Tail(f)[Len(f) - 1] = f[Len(f) - 1 + 1]
    BY <1>2, <2>1
  <2>3. f[1 + 1] = f[2] /\ f[Len(f) - 1 + 1] = f[Len(f)] /\ 2 \in 1..Len(f)
    BY <1>1, <1>5
  <2>4. Tail(f) # << >>
    BY <2>1, EmptySeq
  <2>5. Head(Tail(f)) = Tail(f)[1] /\ Last(Tail(f)) = Tail(f)[Len(f) - 1]
    BY <1>1, <2>4 DEF Last
  <2>6. f[2] \in S
    BY <2>3
  <2> QED
    BY <1>3, <2>2, <2>3, <2>4, <2>5, <2>6
<1> QED
  BY <1>1, <1>2, <1>3, <1>4, <1>5

\* What is left of a file when its first NAL unit was read.
LEMMA TailOK ==
  ASSUME NEW o, NEW f \in Seq(NalUnits), f # << >>, FileOK(o, f)
  PROVE  /\ FileOK(o, Tail(f))
         /\ Len(f) > 1 => Follows(Head(f), Head(Tail(f)))
<1> DEFINE g == Tail(f)
<1>1. /\ Len(f) \in Nat \ {0} /\ g \in Seq(NalUnits) /\ Len(g) = Len(f) - 1
      /\ \A i \in 1..(Len(f) - 1) : g[i] = f[i + 1]
      /\ Head(f) = f[1]
      /\ Len(f) > 1 => Head(g) = f[2]
  BY TailParts
<1> HIDE DEF g
<1>2. \A i \in 1..Len(g) : InUnit(g[i]) /\ Written(o, g[i].pic)
  <2>1. \A i \in 1..Len(g) : i + 1 \in 1..Len(f) /\ g[i] = f[i + 1]
    BY <1>1
  <2> QED
    BY <2>1 DEF FileOK
<1>3. ASSUME NEW i \in 1..(Len(g) - 1) PROVE Follows(g[i], g[i + 1])
  <2>1. i + 1 \in 1..(Len(f) - 1) /\ i \in 1..(Len(f) - 1)
    BY <1>1
  <2> QED
    BY <2>1, <1>1 DEF FileOK
<1>4. ASSUME NEW i \in 1..Len(g), NEW k \in g[i].pos..UnitLen(g[i].pic)
      PROVE  /\ i + k - g[i].pos \in 1..Len(g)
             /\ g[i + k - g[i].pos] = NalUnit(g[i].pic, k)
  <2>1. i + 1 \in 1..Len(f) /\ g[i] = f[i + 1] /\ i \in Nat
    BY <1>1
  <2>2. f[i + 1] \in NalUnits
    BY <2>1
  <2>3. f[i + 1].pos \in Nat
    BY <2>2 DEF NalUnits
  <2>4. /\ i + 1 + k - f[i + 1].pos \in 1..Len(f)
        /\ f[i + 1 + k - f[i + 1].pos] = NalUnit(f[i + 1].pic, k)
    BY <2>1 DEF FileOK
  <2> DEFINE x == f[i + 1].pos
  <2> DEFINE n == Len(f)
  <2>5. k \in Int /\ k >= x /\ x \in Nat /\ n \in Nat
    BY <1>1, <2>1, <2>3
  <2>6. i + 1 + k - x \in 1..n
    BY <2>4
  <2> HIDE DEF x, n
  <2>7. i + k - x \in 1..(n - 1) /\ i + k - x + 1 = i + 1 + k - x
    BY <2>1, <2>5, <2>6
  <2>8. i + k - g[i].pos \in 1..(Len(f) - 1)
    BY <2>7, <2>1 DEF x, n
  <2>9. g[i + k - g[i].pos] = f[i + k - g[i].pos + 1]
    BY <2>8, <1>1
  <2>10. g[i + k - g[i].pos] = NalUnit(g[i].pic, k)
    BY <2>9, <2>7, <2>4, <2>1 DEF x
  <2> QED
    BY <2>8, <2>10, <1>1
<1>5. FileOK(o, g)
  BY <1>2, <1>3, <1>4 DEF FileOK
<1>6. Len(f) > 1 => Follows(Head(f), Head(g))
  <2>1. Len(f) > 1 => 1 \in 1..(Len(f) - 1)
    BY <1>1
  <2> QED
    BY <2>1, <1>1 DEF FileOK
<1> QED
  BY <1>5, <1>6 DEF g

\* A file with one more picture unit.
LEMMA UnitWritten ==
  ASSUME NEW o, NEW f \in Seq(NalUnits), FileOK(o, f), NEW p \in Pictures, Written(o, p),
         f # << >> => EndsUnit(Last(f)) /\ p.at = EncoderAfter(Last(f))
  PROVE  /\ FileOK(o, f \o PictureUnit(p))
         /\ f \o PictureUnit(p) \in Seq(NalUnits)
         /\ f \o PictureUnit(p) # << >>
         /\ Last(f \o PictureUnit(p)) = NalUnit(p, UnitLen(p))
         /\ Len(f \o PictureUnit(p)) = Len(f) + UnitLen(p)
         /\ \A i \in 1..Len(f) : (f \o PictureUnit(p))[i] = f[i]
         /\ \A i \in 1..UnitLen(p) : (f \o PictureUnit(p))[Len(f) + i] = NalUnit(p, i)
<1> DEFINE u == PictureUnit(p)
           g == f \o u
           m == Len(f)
           n == UnitLen(p)
<1>1. /\ u \in Seq(NalUnits) /\ Len(u) = n /\ n \in Nat \ {0} /\ m \in Nat
      /\ \A i \in 1..n : u[i] = NalUnit(p, i)
  BY PictureUnitParts, UnitLength
<1> HIDE DEF u
<1>2. /\ g \in Seq(NalUnits) /\ Len(g) = m + n
      /\ \A i \in 1..m : g[i] = f[i]
  BY <1>1
<1>3. ASSUME NEW i \in 1..n PROVE g[m + i] = NalUnit(p, i)
  <2>1. m + i \in 1..(m + n) /\ m + i > m /\ m + i - m = i
    BY <1>1
  <2>2. g[m + i] = u[m + i - m]
    BY <1>1, <2>1
  <2> QED
    BY <2>1, <2>2, <1>1
<1>4. ASSUME NEW i \in 1..(m + n), i > m
      PROVE  /\ i - m \in 1..n /\ g[i] = NalUnit(p, i - m)
             /\ g[i].pic = p /\ g[i].pos = i - m /\ g[i].nut # "EOS"
  <2>1. i - m \in 1..n /\ m + (i - m) = i
    BY <1>1, <1>4
  <2>2. g[i] = NalUnit(p, i - m)
    BY <2>1, <1>3
  <2> QED
    BY <2>1, <2>2, NalUnitParts
<1> HIDE DEF g, m, n
<1>5. ASSUME NEW i \in 1..Len(g) PROVE InUnit(g[i]) /\ Written(o, g[i].pic)
  <2>1. CASE i <= m
    <3>1. i \in 1..m
      BY <2>1, <1>1, <1>2
    <3> QED
      BY <3>1, <1>2 DEF FileOK, m
  <2>2. CASE i > m
    <3>1. i \in 1..(m + n)
      BY <1>2
    <3> QED
      BY <3>1, <2>2, <1>4 DEF InUnit, n
  <2> QED
    BY <1>1, <1>2, <2>1, <2>2
<1>6. ASSUME NEW i \in 1..(Len(g) - 1) PROVE Follows(g[i], g[i + 1])
  <2>0. i \in Nat /\ i >= 1 /\ i + 1 \in 1..(m + n)
    BY <1>1, <1>2
  <2>1. CASE i < m
    <3>1. i \in 1..(m - 1) /\ i \in 1..m /\ i + 1 \in 1..m
      BY <2>0, <2>1, <1>1
    <3>2. g[i] = f[i] /\ g[i + 1] = f[i + 1]
      BY <3>1, <1>2
    <3> QED
      BY <3>1, <3>2 DEF FileOK, m
  <2>2. CASE i = m
    <3>1. m \in 1..m /\ m + 1 \in 1..(m + n) /\ m + 1 > m /\ m + 1 - m = 1
      BY <2>0, <2>2, <1>1
    <3>2. g[m] = f[m] /\ f # << >> /\ Last(f) = f[m]
      BY <3>1, <1>1, <1>2 DEF Last, m
    <3>3. g[m + 1].pic = p /\ g[m + 1].pos = 1 /\ g[m + 1].nut # "EOS"
      BY <3>1, <1>4
    <3> QED
      BY <3>2, <3>3, <2>2 DEF Follows
  <2>3. CASE i > m
    <3>1. i \in 1..(m + n) /\ i + 1 > m /\ (i + 1) - m = (i - m) + 1
      BY <2>0, <2>3, <1>1
    <3>2. g[i].pic = p /\ g[i].pos = i - m /\ g[i].nut # "EOS"
      BY <2>3, <3>1, <1>4
    <3>3. g[i + 1].pic = p /\ g[i + 1].pos = (i + 1) - m
      BY <2>0, <3>1, <1>4
    <3> QED
      BY <3>1, <3>2, <3>3 DEF Follows
  <2> QED
    BY <2>0, <2>1, <2>2, <2>3, <1>1
<1>7. ASSUME NEW i \in 1..Len(g), NEW k \in g[i].pos..UnitLen(g[i].pic)
      PROVE  /\ i + k - g[i].pos \in 1..Len(g)
             /\ g[i + k - g[i].pos] = NalUnit(g[i].pic, k)
  <2>0. i \in 1..(m + n) /\ i \in Nat
    BY <1>1, <1>2
  <2>1. CASE i <= m
    <3>1. i \in 1..m /\ g[i] = f[i]
      BY <2>0, <2>1, <1>2
    <3>2. /\ i + k - f[i].pos \in 1..m
          /\ f[i + k - f[i].pos] = NalUnit(f[i].pic, k)
      BY <3>1 DEF FileOK, m
    <3>3. \A x \in 1..m : x \in 1..(m + n)
      BY <1>1
    <3> QED
      BY <3>1, <3>2, <3>3, <1>2
  <2>2. CASE i > m
    <3>1. g[i].pic = p /\ g[i].pos = i - m /\ i - m \in 1..n
      BY <2>0, <2>2, <1>4
    <3>2. k \in (i - m)..n
      BY <3>1 DEF n
    <3>3. i + k - (i - m) = m + k /\ k \in 1..n /\ m + k \in 1..(m + n)
      BY <3>1, <3>2, <2>0, <1>1
    <3> QED
      BY <3>1, <3>3, <1>2, <1>3
  <2> QED
    BY <2>0, <2>1, <2>2, <1>1
<1>8. FileOK(o, g)
  BY <1>5, <1>6, <1>7 DEF FileOK
<1>9. g # << >> /\ Last(g) = NalUnit(p, n)
  <2>1. Len(g) # 0 /\ n \in 1..n /\ Len(g) = m + n
    BY <1>1, <1>2
  <2>2. g # << >>
    BY <2>1
  <2> QED
    BY <2>1, <2>2, <1>2, <1>3 DEF Last
<1> QED
  BY <1>2, <1>3, <1>8, <1>9 DEF g, u, m, n

\* A file with an EOS.
LEMMA EosWritten ==
  ASSUME NEW o, NEW f \in Seq(NalUnits), f # << >>, FileOK(o, f),
         EndsUnit(Last(f)), Last(f).nut # "EOS"
  PROVE  LET g == Append(f, Eos(Last(f).pic))
         IN /\ FileOK(o, g) /\ g \in Seq(NalUnits) /\ g # << >>
            /\ Last(g) = Eos(Last(f).pic) /\ Len(g) = Len(f) + 1 /\ Len(f) \in Nat \ {0}
            /\ \A i \in 1..Len(f) : g[i] = f[i]
<1> DEFINE p == Last(f).pic
           g == Append(f, Eos(p))
           m == Len(f)
<1>1. m \in Nat \ {0} /\ Last(f) = f[m] /\ Last(f) \in NalUnits /\ m \in 1..m
  BY TailParts
<1>2. p \in Pictures /\ InUnit(Last(f)) /\ Written(o, p)
  BY <1>1 DEF FileOK, NalUnits
<1>3. Eos(p) \in NalUnits /\ Eos(p).nut = "EOS" /\ Eos(p).pic = p /\ Eos(p).pos = UnitLen(p) + 1
  BY <1>2, EosParts
<1>4. /\ g \in Seq(NalUnits) /\ Len(g) = m + 1 /\ g[m + 1] = Eos(p)
      /\ \A i \in 1..m : g[i] = f[i]
  BY <1>1, <1>3
<1>5. UnitLen(p) \in Nat /\ Last(f).pos = UnitLen(p)
  BY <1>1, <1>2, InUnitParts, UnitLength DEF EndsUnit
<1> HIDE DEF g, m
<1>6. ASSUME NEW i \in 1..Len(g) PROVE InUnit(g[i]) /\ Written(o, g[i].pic)
  <2>1. CASE i \in 1..m
    BY <2>1, <1>4 DEF FileOK, m
  <2>2. CASE i = m + 1
    BY <2>2, <1>2, <1>3, <1>4 DEF InUnit
  <2> QED
    BY <1>1, <1>4, <2>1, <2>2
<1>7. ASSUME NEW i \in 1..(Len(g) - 1) PROVE Follows(g[i], g[i + 1])
  <2>1. CASE i < m
    <3>1. i \in 1..(m - 1) /\ i \in 1..m /\ i + 1 \in 1..m
      BY <2>1, <1>1, <1>4
    <3> QED
      BY <3>1, <1>4 DEF FileOK, m
  <2>2. CASE i = m
    BY <2>2, <1>1, <1>3, <1>4, <1>5 DEF Follows
  <2> QED
    BY <1>1, <1>4, <2>1, <2>2
<1>8. ASSUME NEW i \in 1..Len(g), NEW k \in g[i].pos..UnitLen(g[i].pic)
      PROVE  /\ i + k - g[i].pos \in 1..Len(g)
             /\ g[i + k - g[i].pos] = NalUnit(g[i].pic, k)
  <2>1. CASE i \in 1..m
    <3>1. g[i] = f[i]
      BY <2>1, <1>4
    <3>2. /\ i + k - f[i].pos \in 1..m
          /\ f[i + k - f[i].pos] = NalUnit(f[i].pic, k)
      BY <3>1, <2>1 DEF FileOK, m
    <3>3. \A x \in 1..m : x \in 1..(m + 1)
      BY <1>1
    <3> QED
      BY <3>1, <3>2, <3>3, <1>4
  <2>2. CASE i = m + 1
    <3>1. k \in (UnitLen(p) + 1)..UnitLen(p)
      BY <2>2, <1>3, <1>4
    <3> QED
      BY <3>1, <1>5
  <2> QED
    BY <1>1, <1>4, <2>1, <2>2
<1>9. FileOK(o, g)
  BY <1>6, <1>7, <1>8 DEF FileOK
<1>10. g # << >> /\ Last(g) = Eos(p)
  <2>1. Len(g) # 0 /\ Len(g) = m + 1
    BY <1>1, <1>4
  <2> QED
    BY <2>1, <1>4 DEF Last
<1> QED
  BY <1>1, <1>4, <1>9, <1>10 DEF g, m

\* A picture unit that comes next begins a picture.
LEMMA UnitBegins ==
  ASSUME NEW o, NEW f \in Seq(NalUnits), f # << >>, FileOK(o, f), f[1].pos = 1
  PROVE  \E i \in DOMAIN f :
           BeginsPicture(f[i]) /\ \A j \in 1..(i - 1) : f[j].nut = "PREFIX_SEI"
<1> DEFINE p == f[1].pic
           n == UnitLen(p)
           h == HeadLen(p)
<1>1. Len(f) \in Nat \ {0} /\ 1 \in 1..Len(f) /\ f[1] \in NalUnits /\ DOMAIN f = 1..Len(f)
  BY TailParts
<1>2. p \in Pictures /\ p.layout \in Layouts /\ n \in Nat \ {0} /\ h \in Nat /\ h + 1 <= n
      /\ h + 1 <= h + p.layout.slices
  BY <1>1, UnitLength DEF NalUnits
<1>3. ASSUME NEW k \in 1..n PROVE k \in DOMAIN f /\ f[k] = NalUnit(p, k)
  <2>1. /\ 1 + k - 1 \in 1..Len(f)
        /\ f[1 + k - 1] = NalUnit(p, k)
    BY <1>1 DEF FileOK
  <2>2. 1 + k - 1 = k
    BY <1>2
  <2> QED
    BY <1>1, <2>1, <2>2
<1>4. \A k \in 1..h : k \in 1..n
  BY <1>2
<1>5. \A k \in 1..h : /\ f[k].nut \in {"PREFIX_SEI", "PH"}
                      /\ f[k].nut = p.layout.head[k]
  <2> TAKE k \in 1..h
  <2>1. k \in 1..n /\ k <= HeadLen(p) /\ f[k] = NalUnit(p, k)
    BY <1>2, <1>3, <1>4
  <2> QED
    BY <1>2, <2>1, NalUnitParts
<1>6. CASE \E k \in 1..h : p.layout.head[k] = "PH"
  <2> DEFINE S == {k \in 1..h : p.layout.head[k] = "PH"}
  <2>1. S \in SUBSET Nat /\ S # {}
    BY <1>2, <1>6
  <2>2. PICK i \in S : \A k \in S : i <= k
    BY <2>1, LeastNatural
  <2>3. i \in DOMAIN f /\ BeginsPicture(f[i])
    BY <1>3, <1>4, <1>5, <2>2 DEF BeginsPicture
  <2>4. ASSUME NEW j \in 1..(i - 1) PROVE f[j].nut = "PREFIX_SEI"
    <3>1. j \in 1..h /\ j \notin S
      BY <1>2, <2>2
    <3> QED
      BY <3>1, <1>5
  <2> QED
    BY <2>3, <2>4
<1>7. CASE ~ \E k \in 1..h : p.layout.head[k] = "PH"
  <2>1. p.layout.phInSlice
    BY <1>2, <1>7, LayoutParts DEF HeadLen
  <2>2. h + 1 \in 1..n /\ h + 1 > h
    BY <1>2
  <2>3. h + 1 \in DOMAIN f /\ f[h + 1] = NalUnit(p, h + 1)
    BY <1>3, <2>2
  <2>4. f[h + 1].nut = "SLICE" /\ f[h + 1].pic = p
    BY <1>2, <2>2, <2>3, NalUnitParts
  <2>5. BeginsPicture(f[h + 1])
    BY <2>1, <2>4 DEF BeginsPicture
  <2>6. \A j \in 1..((h + 1) - 1) : f[j].nut = "PREFIX_SEI"
    BY <1>2, <1>5, <1>7
  <2> DEFINE i == h + 1
  <2> QED
    <3>1. i \in DOMAIN f /\ BeginsPicture(f[i]) /\ \A j \in 1..(i - 1) : f[j].nut = "PREFIX_SEI"
      BY <2>3, <2>5, <2>6
    <3> HIDE DEF i
    <3> QED
      BY <3>1
<1> QED
  BY <1>6, <1>7

-----------------------------------------------------------------------------
(* Picture order counts.                                                    *)

\* The remainder is the only number between 0 and m that is congruent.
LEMMA RemainderUnique ==
  ASSUME NEW m \in Nat, m >= 1, NEW q \in Int, NEW y \in 0..(m - 1)
  PROVE  (m * q + y) % m = y
<1> DEFINE x == m * q + y
           d == x \div m
           r == x % m
<1>1. x \in Int /\ d \in Int /\ r \in 0..(m - 1) /\ y \in Int
  OBVIOUS
<1>2. x = m * d + r
  BY <1>1
<1> HIDE DEF d, r
<1>3. m * q + y = m * d + r
  BY <1>2
<1>4. m * (q - d) = r - y
  BY <1>1, <1>3
<1>5. ~(q - d >= 1)
  <2>1. SUFFICES ASSUME q - d >= 1 PROVE FALSE
    OBVIOUS
  <2>2. \A z \in Int : z >= 1 => m * z >= m
    OBVIOUS
  <2>3. m * (q - d) >= m
    BY <1>1, <2>1, <2>2
  <2> QED
    BY <1>1, <1>4, <2>3
<1>6. ~(q - d <= -1)
  <2>1. SUFFICES ASSUME q - d <= -1 PROVE FALSE
    OBVIOUS
  <2>2. \A z \in Int : z <= -1 => m * z <= -m
    OBVIOUS
  <2>3. m * (q - d) <= -m
    BY <1>1, <2>1, <2>2
  <2> QED
    BY <1>1, <1>4, <2>3
<1>7. q = d
  BY <1>1, <1>5, <1>6
<1> QED
  BY <1>1, <1>3, <1>7 DEF r

\* The sums of a and b with d have one remainder, which is that of a and d, or differs
\* from it by m.
AddsUp(a, b, d, m) ==
  /\ (a + d) % m = (b + d) % m
  /\ a % m \in 0..(m - 1) /\ (a + d) % m \in 0..(m - 1)
  /\ (a + d) % m = IF (a % m) + d < 0 THEN (a % m) + d + m
                   ELSE IF (a % m) + d >= m THEN (a % m) + d - m
                   ELSE (a % m) + d

\* Numbers congruent to each other plus the same are congruent; what is added to
\* a number changes its remainder by as much or by m more or less.
LEMMA RemainderOfSum ==
  ASSUME NEW m \in Nat, m >= 1, NEW a \in Int, NEW b \in Int, a % m = b % m,
         NEW d \in Int, -m < d, d < m
  PROVE  AddsUp(a, b, d, m)
<1> DEFINE r == a % m
           s == IF r + d < 0 THEN r + d + m
                ELSE IF r + d >= m THEN r + d - m ELSE r + d
<1>1. r \in 0..(m - 1)
  OBVIOUS
<1>2. s \in 0..(m - 1)
  BY <1>1
<1>3. ASSUME NEW c \in Int, c % m = r PROVE (c + d) % m = s
  <2> DEFINE q == c \div m
  <2>1. q \in Int /\ c = m * q + r
    BY <1>3
  <2> HIDE DEF q, r
  <2>2. m * (q - 1) = m * q - m /\ m * (q + 1) = m * q + m /\ m * q \in Int
    BY <2>1
  <2>3. PICK k \in Int : c + d = m * k + s
    <3>1. CASE r + d < 0
      BY <3>1, <2>1, <2>2, <1>1
    <3>2. CASE r + d >= m
      <4>1. s = r + d - m
        BY <3>2, <1>1
      <4>2. c + d = m * (q + 1) + s
        BY <4>1, <2>1, <2>2, <1>1
      <4>3. q + 1 \in Int
        BY <2>1
      <4> WITNESS q + 1 \in Int
      <4> QED
        BY <4>2
    <3>3. CASE r + d >= 0 /\ r + d < m
      BY <3>3, <2>1, <2>2, <1>1
    <3> QED
      BY <3>1, <3>2, <3>3, <1>1
  <2> QED
    BY <2>3, <1>2, RemainderUnique
<1>4. (a + d) % m = s /\ (b + d) % m = s
  BY <1>3
<1> QED
  BY <1>1, <1>2, <1>4 DEF AddsUp

\* The modulus of the POCs is even.
LEMMA Half ==
  /\ MaxLsb \in Nat /\ MaxLsb >= 4 /\ MaxLsb \div 2 \in Nat
  /\ MaxLsb = 2 * (MaxLsb \div 2)
BY Constants

\* How far a picture that is no IDR picture is from the last one of sub-layer 0
\* that is not a leading picture.
LEMMA PocStep ==
  ASSUME NEW o \in [skipFrame : Skips, highestTid : HighestTids],
         NEW p \in Pictures, Written(o, p), p.type # "IDR"
  PROVE  \E d \in Int :
           /\ p.poc = p.at.tid0Poc + d
           /\ d < MaxLsb \div 2 /\ -(MaxLsb \div 2) < d
           /\ p.type \in Leading => d = -2
           /\ p.type \notin Leading /\ p.tid = 0 => d >= 3
<1>1. PICK step \in Steps : p.poc = Poc(p.at, p.type, p.tid, step)
  BY WrittenParts
<1>2. step \in Int /\ step >= 3 /\ step < MaxLsb \div 2
  BY Constants
<1>3. p.at.tid0Poc \in Int /\ p.tid \in {0, 1} /\ MaxLsb \div 2 \in Int
  BY Half DEF Pictures, EncoderStates
<1> DEFINE d == IF p.type \in Leading THEN -2 ELSE IF p.tid = 1 THEN -1 ELSE step
<1>4. p.poc = p.at.tid0Poc + d
  BY <1>1, <1>3 DEF Poc
<1>5. d \in Int /\ d < MaxLsb \div 2 /\ -(MaxLsb \div 2) < d
  BY <1>2, <1>3
<1>6. /\ p.type \in Leading => d = -2
      /\ p.type \notin Leading /\ p.tid = 0 => d >= 3
  BY <1>2, <1>3
<1> QED
  BY <1>4, <1>5, <1>6

\* The parsed POC is as far from the decoder's previous one as the encoder's
\* from its own, when those two are congruent.
LEMMA ParsedRelative ==
  ASSUME dec.prevTid0POC \in Int, NEW p \in Pictures, p.type # "IDR",
         NEW base \in Int, NEW d \in Int, p.poc = base + d,
         dec.prevTid0POC % MaxLsb = base % MaxLsb,
         d < MaxLsb \div 2, -(MaxLsb \div 2) < d
  PROVE  ParsedPoc(p) = dec.prevTid0POC + d
<1> DEFINE m == MaxLsb
           h == MaxLsb \div 2
           prev == dec.prevTid0POC
           r == prev % m
           lsb == p.poc % m
           msb == IF lsb < r /\ r - lsb >= h THEN (prev - r) + m
                  ELSE IF lsb > r /\ lsb - r > h THEN (prev - r) - m
                  ELSE prev - r
<1>1. ParsedPoc(p) = msb + lsb
  BY DEF ParsedPoc
<1>2. m \in Nat /\ m >= 1 /\ h \in Nat /\ m = 2 * h
  BY Half
<1>3. prev \in Int /\ base \in Int /\ d \in Int /\ -m < d /\ d < m /\ d < h /\ -h < d
  BY <1>2
<1>4. /\ r \in 0..(m - 1) /\ lsb \in 0..(m - 1)
      /\ lsb = IF r + d < 0 THEN r + d + m ELSE IF r + d >= m THEN r + d - m ELSE r + d
  <2>1. /\ (prev + d) % m = (base + d) % m
        /\ prev % m \in 0..(m - 1) /\ (prev + d) % m \in 0..(m - 1)
        /\ (prev + d) % m = IF (prev % m) + d < 0 THEN (prev % m) + d + m
                            ELSE IF (prev % m) + d >= m THEN (prev % m) + d - m
                            ELSE (prev % m) + d
    <3>1. prev % m = base % m
      OBVIOUS
    <3>2. m \in Nat /\ m >= 1 /\ prev \in Int /\ -m < d /\ d < m
      BY <1>2, <1>3
    <3>3. AddsUp(prev, base, d, m)
      <4> HIDE DEF m, h, prev, r, lsb
      <4> QED
        BY <3>1, <3>2, RemainderOfSum
    <3> QED
      BY <3>3 DEF AddsUp
  <2> QED
    BY <2>1
<1> HIDE DEF m, h, prev, r, lsb
<1>5. msb + lsb = prev + d
  BY <1>2, <1>3, <1>4
<1> QED
  BY <1>1, <1>5 DEF prev

\* The POC of a CRA or GDR picture that starts a sequence is what its header
\* holds of it.
LEMMA ParsedLsb ==
  ASSUME dec.prevTid0POC \in Int, NEW p \in Pictures
  PROVE  /\ ParsedPoc(p) % MaxLsb = p.poc % MaxLsb /\ ParsedPoc(p) \in Int
         /\ p.poc % MaxLsb \in 0..(MaxLsb - 1)
         /\ (p.poc % MaxLsb) % MaxLsb = p.poc % MaxLsb
<1> DEFINE m == MaxLsb
           prev == dec.prevTid0POC
           r == prev % m
           lsb == p.poc % m
           q == prev \div m
<1>1. m \in Nat /\ m >= 1
  BY Half
<1>2. p.poc \in Int
  BY DEF Pictures
<1>3. lsb \in 0..(m - 1) /\ q \in Int /\ r \in Int /\ prev = m * q + r /\ prev \in Int
  BY <1>1, <1>2
<1>4. \/ ParsedPoc(p) = 0 + lsb
      \/ ParsedPoc(p) = ((prev - r) + m) + lsb
      \/ ParsedPoc(p) = ((prev - r) - m) + lsb
      \/ ParsedPoc(p) = (prev - r) + lsb
  BY DEF ParsedPoc
<1> HIDE DEF m, prev, r, lsb, q
<1>5. /\ m * q + m = m * (q + 1) /\ m * q - m = m * (q - 1) /\ m * 0 = 0
      /\ m * q \in Int
  BY <1>1, <1>3
<1>6. \E z \in Int : ParsedPoc(p) = m * z + lsb
  <2>1. prev - r = m * q
    BY <1>1, <1>3, <1>5
  <2>2. 0 \in Int /\ q \in Int /\ q + 1 \in Int /\ q - 1 \in Int
    BY <1>3
  <2>3. \/ ParsedPoc(p) = m * 0 + lsb
        \/ ParsedPoc(p) = m * (q + 1) + lsb
        \/ ParsedPoc(p) = m * (q - 1) + lsb
        \/ ParsedPoc(p) = m * q + lsb
    BY <1>4, <1>5, <2>1
  <2> QED
    BY <2>2, <2>3
<1>7. PICK z \in Int : ParsedPoc(p) = m * z + lsb
  BY <1>6
<1>8. ParsedPoc(p) % m = lsb
  BY <1>1, <1>3, <1>7, RemainderUnique
<1>9. ParsedPoc(p) \in Int
  BY <1>1, <1>3, <1>7
<1>10. lsb % m = lsb
  BY <1>1, <1>3
<1> QED
  BY <1>3, <1>8, <1>9, <1>10 DEF m, lsb

\* What bounds the POCs.
LEMMA PocBounds ==
  ASSUME NEW n \in Nat, n < MaxPics
  PROVE  LET b == (n + 1) * MaxLsb
             c == (n + 1 + 1) * MaxLsb
         IN b \in Nat /\ c \in Nat /\ MaxLsb <= b /\ c = b + MaxLsb /\ c < MAX_INT
<1> DEFINE m == MaxLsb
<1>1. m \in Nat /\ MaxPics \in Nat
  BY Half, Constants
<1>2. (MaxPics + 1) * m < MAX_INT
  BY PocsAssumption
<1> HIDE DEF m
<1>3. (n + 1) * m = n * m + m /\ n * m \in Nat
  BY <1>1
<1>4. (n + 1 + 1) * m = (n + 1) * m + m
  BY <1>1
<1>5. \A a, b \in Nat : a <= b => a * m <= b * m
  BY <1>1
<1>6. n + 1 + 1 \in Nat /\ MaxPics + 1 \in Nat /\ n + 1 + 1 <= MaxPics + 1
  BY <1>1
<1>7. (n + 1 + 1) * m <= (MaxPics + 1) * m
  BY <1>5, <1>6
<1>8. (n + 1 + 1) * m \in Nat /\ (MaxPics + 1) * m \in Nat /\ (n + 1) * m \in Nat
  BY <1>1, <1>6
<1> QED
  BY <1>1, <1>2, <1>3, <1>4, <1>7, <1>8 DEF m, MAX_INT

\* The POC of the first slice of p, and the decoder's previous POC after it.
LEMMA FirstPoc ==
  ASSUME TypeOK, NEW p \in Pictures, Written(options, p), Synced(options, dec, app, p.at)
  PROVE  LET x == SlicePoc(p)
             y == PreviousTid0POC(dec.prevTid0POC, p, x)
         IN /\ x \in Int /\ x < MAX_INT /\ x >= -2
            /\ y \in 0..(p.num + 1) * MaxLsb
            /\ y % MaxLsb = After(p).tid0Poc % MaxLsb
            /\ x - p.poc = y - After(p).tid0Poc
            /\ p.type = "IDR" => x = 0 /\ y = 0
            /\ p.tid = 0 /\ p.type \notin Leading => y = x
            /\ ~(p.tid = 0 /\ p.type \notin Leading) => y = dec.prevTid0POC
            /\ p.type = "RASL" => x = dec.prevTid0POC - 2
            /\ p.type # "IDR" /\ ~dec.firstSliceInSequence =>
                 /\ y - After(p).tid0Poc = dec.prevTid0POC - p.at.tid0Poc
                 /\ p.tid = 0 /\ p.type \notin Leading => y >= dec.prevTid0POC + 3
<1> DEFINE x == SlicePoc(p)
           m == MaxLsb
           prev == dec.prevTid0POC
           main == p.tid = 0 /\ p.type \notin Leading
           y == IF main THEN x ELSE prev
           b == (p.at.num + 1) * m
           c == (p.num + 1) * m
           t == After(p).tid0Poc
<1>1. PreviousTid0POC(dec.prevTid0POC, p, x) = y
  BY DEF PreviousTid0POC
<1>2. options \in [skipFrame : Skips, highestTid : HighestTids] /\ dec \in DecoderStates
  BY DEF TypeOK
<1>3. /\ p.at.num \in Nat /\ p.at.tid0Poc \in Int /\ p.poc \in Int /\ p.tid \in {0, 1}
      /\ p.type \in Types
  BY DEF Pictures, EncoderStates
<1>4. p.num = p.at.num + 1 /\ MayFollow(p.at, p.type, p.tid) /\ EncoderOK(options, p.at)
      /\ \E step \in Steps : p.poc = Poc(p.at, p.type, p.tid, step)
  BY <1>2, WrittenParts
<1>5. p.at.num < MaxPics
  BY DEF Written
<1>6. /\ b \in Nat /\ c \in Nat /\ m <= b /\ c = b + m /\ c < MAX_INT /\ m \in Nat /\ m >= 1
  BY <1>3, <1>4, <1>5, PocBounds, Half
<1>7. prev \in Int /\ prev \in 0..b
  BY <1>2 DEF Synced, DecoderStates
<1>8. t = IF main THEN p.poc ELSE p.at.tid0Poc
  BY DEF After
<1>9. /\ prev % m = p.at.tid0Poc % m \/ p.at.num = 0
      /\ dec.firstSliceInSequence <=> ~p.at.entered \/ (p.at.afterEos /\ p.at.lastDue)
  BY <1>3 DEF Synced
<1>10. CASE p.type = "IDR"
  <2>1. p.poc = 0
    BY <1>4, <1>10 DEF Poc
  <2>2. p.poc % m = 0
    BY <2>1, <1>6
  <2>3. x = 0
    BY <2>2, <1>10 DEF SlicePoc, ParsedPoc
  <2>4. main
    BY <1>2, <1>10, WrittenParts DEF Leading
  <2> HIDE DEF x, b, c, t, main
  <2>5. y = 0 /\ t = 0
    BY <2>1, <2>3, <2>4, <1>8
  <2>6. y % m = t % m
    BY <2>5
  <2> QED
    BY <1>1, <1>6, <1>7, <1>10, <2>1, <2>3, <2>4, <2>5, <2>6 DEF c, t, x, main, MAX_INT
<1>11. CASE p.type \in {"CRA", "GDR"} /\ dec.firstSliceInSequence
  <2>1. x = p.poc % m
    BY <1>7, <1>11, ParsedLsb DEF SlicePoc, NoOutputBeforeRecovery
  <2>2. x \in 0..(m - 1) /\ x % m = p.poc % m
    BY <1>7, <2>1, ParsedLsb
  <2>3. main
    BY <1>2, <1>11, WrittenParts DEF Leading
  <2> HIDE DEF x, b, c, t, main
  <2>4. y = x /\ t = p.poc
    BY <2>3, <1>8
  <2>5. y % m = t % m
    BY <2>2, <2>4
  <2> QED
    BY <1>1, <1>3, <1>6, <1>7, <1>11, <2>2, <2>3, <2>4, <2>5 DEF c, t, x, main, MAX_INT
<1>12. CASE p.type # "IDR" /\ ~(p.type \in {"CRA", "GDR"} /\ dec.firstSliceInSequence)
  <2>1. p.at.num # 0
    BY <1>4, <1>9, <1>12 DEF MayFollow, Entries, EncoderOK
  <2>2. PICK d \in Int :
           /\ p.poc = p.at.tid0Poc + d
           /\ d < m \div 2 /\ -(m \div 2) < d
           /\ p.type \in Leading => d = -2
           /\ main => d >= 3
    BY <1>2, <1>12, PocStep
  <2>3. ParsedPoc(p) = prev + d
    BY <1>3, <1>7, <1>9, <1>12, <2>1, <2>2, ParsedRelative
  <2>4. x = prev + d
    BY <2>3, <1>12 DEF SlicePoc, NoOutputBeforeRecovery
  <2>5. d < m /\ -m < d
    BY <2>2, Half
  <2>6. (prev + d) % m = p.poc % m
    <3>1. prev % m = p.at.tid0Poc % m
      BY <1>9, <2>1
    <3>2. m \in Nat /\ m >= 1 /\ prev \in Int /\ p.at.tid0Poc \in Int
      BY <1>3, <1>6, <1>7
    <3>3. AddsUp(prev, p.at.tid0Poc, d, m)
      <4> HIDE DEF x, b, c, t, main, y, m, prev
      <4> QED
        BY <2>5, <3>1, <3>2, RemainderOfSum
    <3> QED
      BY <3>3, <2>2 DEF AddsUp
  <2>7. ~main => d \in {-1, -2}
    <3>1. PICK step \in Steps : p.poc = Poc(p.at, p.type, p.tid, step)
      BY <1>4
    <3>2. ~main => p.poc = p.at.tid0Poc - 2 \/ p.poc = p.at.tid0Poc - 1
      BY <3>1, <1>3, <1>12 DEF Poc
    <3> QED
      BY <3>2, <2>2, <1>3
  <2>8. p.type = "RASL" => d = -2
    BY <2>2 DEF Leading
  <2> HIDE DEF x, b, c, t, main, m, prev
  <2>9. y = (IF main THEN prev + d ELSE prev)
    BY <2>4
  <2>10. y % m = t % m
    BY <2>9, <2>6, <1>8, <1>9, <2>1
  <2>11. x \in Int /\ x < MAX_INT /\ x >= -2
    BY <1>6, <1>7, <2>2, <2>4, <2>5, <2>7 DEF MAX_INT
  <2>12. y \in 0..c
    BY <1>6, <1>7, <2>2, <2>5, <2>9
  <2>13. x - p.poc = y - t /\ y - t = prev - p.at.tid0Poc
    BY <1>3, <1>7, <1>8, <2>2, <2>4, <2>9
  <2>14. main => y >= prev + 3 /\ y = x
    BY <1>7, <2>2, <2>4, <2>9
  <2>15. p.type = "RASL" => x = prev - 2
    BY <1>7, <2>4, <2>8
  <2> QED
    BY <1>1, <1>12, <2>10, <2>11, <2>12, <2>13, <2>14, <2>15 DEF c, t, x, m, prev, main
<1> QED
  BY <1>10, <1>11, <1>12

\* The same for a later slice of p: nothing moves any more.
LEMMA LaterPoc ==
  ASSUME TypeOK, NEW p \in Pictures, Written(options, p),
         Synced(options, dec, app, After(p))
  PROVE  LET x == SlicePoc(p)
             y == PreviousTid0POC(dec.prevTid0POC, p, x)
         IN /\ x \in Int /\ y \in 0..(p.num + 1) * MaxLsb
            /\ y % MaxLsb = After(p).tid0Poc % MaxLsb
            /\ p.type = "IDR" => y = 0
            /\ ~dec.firstSliceInSequence => y = dec.prevTid0POC
            /\ p.type = "RASL" => x = dec.prevTid0POC - 2
<1> DEFINE x == SlicePoc(p)
           m == MaxLsb
           prev == dec.prevTid0POC
           main == p.tid = 0 /\ p.type \notin Leading
           y == IF main THEN x ELSE prev
           c == (p.num + 1) * m
           t == After(p).tid0Poc
<1>1. PreviousTid0POC(dec.prevTid0POC, p, x) = y
  BY DEF PreviousTid0POC
<1>2. options \in [skipFrame : Skips, highestTid : HighestTids] /\ dec \in DecoderStates
  BY DEF TypeOK
<1>3. /\ p.at.num \in Nat /\ p.at.tid0Poc \in Int /\ p.poc \in Int /\ p.tid \in {0, 1}
      /\ p.type \in Types /\ p.num \in Nat /\ p.num > 0
  BY DEF Pictures, EncoderStates
<1>4. p.num = p.at.num + 1 /\ p.at.num < MaxPics
  BY <1>2, WrittenParts DEF Written
<1>5. c \in Nat /\ m <= c /\ m \in Nat /\ m >= 4
  <2>1. LET b == (p.at.num + 1) * m
        IN b \in Nat /\ c \in Nat /\ m <= b /\ c = b + m
    BY <1>3, <1>4, PocBounds
  <2> HIDE DEF m, c
  <2> QED
    BY <2>1, Half DEF m
<1>6. /\ After(p).num = p.num /\ After(p).last = IF p.tid = 0 THEN p.type ELSE None
      /\ t = IF main THEN p.poc ELSE p.at.tid0Poc
  BY DEF After
<1>7. prev \in 0..c /\ prev \in Int
  BY <1>2, <1>6 DEF Synced, DecoderStates
<1>8. prev % m = t % m
  BY <1>3, <1>6 DEF Synced
<1>9. CASE p.type = "IDR"
  <2>1. p.poc = 0 /\ main
    BY <1>2, <1>9, WrittenParts DEF Leading, Poc
  <2>2. prev = 0
    BY <1>6, <1>9, <2>1 DEF Synced
  <2>3. p.poc % m = 0
    BY <2>1, <1>5
  <2>4. x = 0
    BY <2>3, <1>9 DEF SlicePoc, ParsedPoc
  <2>5. y = 0 /\ t = 0
    BY <2>1, <2>4, <1>6
  <2> HIDE DEF y, t, c, x, prev
  <2> QED
    BY <1>1, <1>5, <1>8, <1>9, <2>2, <2>4, <2>5 DEF y, c, x, t, prev
<1>10. CASE p.type \in {"CRA", "GDR"} /\ dec.firstSliceInSequence
  <2>1. x = p.poc % m
    BY <1>7, <1>10, ParsedLsb DEF SlicePoc, NoOutputBeforeRecovery
  <2>2. x \in 0..(m - 1) /\ x % m = p.poc % m
    BY <1>7, <2>1, ParsedLsb
  <2>3. main
    BY <1>2, <1>10, WrittenParts DEF Leading
  <2>4. y = x /\ t = p.poc
    BY <2>3, <1>6
  <2> HIDE DEF y, t, c, x, prev
  <2> QED
    BY <1>1, <1>5, <1>10, <2>2, <2>4 DEF y, t, x, c, prev
<1>11. CASE p.type # "IDR" /\ ~(p.type \in {"CRA", "GDR"} /\ dec.firstSliceInSequence)
  <2>1. PICK d \in Int :
           /\ p.poc = p.at.tid0Poc + d
           /\ d < m \div 2 /\ -(m \div 2) < d
           /\ p.type \in Leading => d = -2
    BY <1>2, <1>11, PocStep
  <2>2. x = ParsedPoc(p)
    BY <1>11 DEF SlicePoc, NoOutputBeforeRecovery
  <2>3. ASSUME main PROVE x = prev
    <3>1. p.poc = t + 0 /\ 0 < m \div 2 /\ -(m \div 2) < 0 /\ t \in Int
      BY <1>3, <1>6, <2>3, Half
    <3>2. ParsedPoc(p) = prev + 0
      BY <1>7, <1>8, <1>11, <3>1, ParsedRelative
    <3> QED
      BY <2>2, <3>2, <1>7
  <2>4. ASSUME ~main PROVE x = prev + d
    <3>1. t = p.at.tid0Poc
      BY <1>6, <2>4
    <3> QED
      BY <1>3, <1>7, <1>8, <1>11, <2>1, <2>2, <3>1, ParsedRelative
  <2>5. y = prev
    BY <2>3
  <2>6. x \in Int
    BY <1>7, <2>3, <2>4
  <2>7. p.type = "RASL" => x = prev - 2
    BY <1>7, <2>1, <2>4 DEF Leading
  <2> HIDE DEF y, t, c, x
  <2> QED
    BY <1>1, <1>7, <1>8, <1>11, <2>5, <2>6, <2>7 DEF x, c, t, y
<1> QED
  BY <1>9, <1>10, <1>11

-----------------------------------------------------------------------------
(* Which pictures are skipped.                                              *)

\* A slice is decoded just when its picture is due, taken for skipped just when
\* it is not, and the count is left as the encoder's state after p says.
Decided(p, i) ==
  /\ IsRandomAccessSkipPicture(p, i) <=> ~p.due
  /\ TakenForSkipped(p, i) <=> ~p.due
  /\ (IF TakenForSkipped(p, i) THEN CountLeft(p, i) + 1 ELSE CountLeft(p, i))
       = SkipFrameAt(options, After(p))

\* The first slice of a picture of the target sub-layers is decided that way.
\* Here the excluded shapes are needed.
LEMMA FirstDecision ==
  ASSUME TypeOK, KnownNotToWork \subseteq Excluded, NEW p \in Pictures, Written(options, p),
         Synced(options, dec, app, p.at), p.tid <= options.highestTid
  PROVE  Decided(p, 0)
<1> DEFINE e == p.at
           k == options.skipFrame
           n == p.at.offered
           s == SkipCount(0)
<1>1. options \in [skipFrame : Skips, highestTid : HighestTids] /\ k \in Nat
  BY Constants DEF TypeOK
<1>2. /\ n \in Nat /\ p.type \in Types /\ e.entered \in BOOLEAN /\ e.afterEos \in BOOLEAN
      /\ dec \in DecoderStates /\ app \in LoopStates
  BY DEF Pictures, EncoderStates, TypeOK
<1>3. /\ p.offered = n + 1
      /\ p.entered <=> e.entered \/ (n >= k /\ p.type \in Entries)
      /\ p.due <=> n >= k /\ p.entered /\ ~(p.type = "RASL" /\ e.skipsRasl)
      /\ MayFollow(e, p.type, p.tid) /\ EncoderOK(options, e) /\ ~IsExcluded(options, p)
  BY <1>1, WrittenParts
<1>4. /\ ~(p.type \in {"CRA", "GDR"} /\ n + 1 = k)
      /\ ~(p.type = "IDR" /\ p.entered # e.entered /\ k > 0)
  BY <1>3 DEF IsExcluded, KnownNotToWork
<1>5. /\ app.skipFrame = IF n = 0 THEN k ELSE IF n <= k THEN k - n + 1 ELSE 0
      /\ k > 0 => (dec.skippedBefore <=> n > 0)
  BY DEF Synced, SkipFrameAt
<1>6. e.entered => n > k
  BY <1>3 DEF EncoderOK
<1>7. s = IF n < k THEN k - n ELSE 0
  BY <1>1, <1>2, <1>5 DEF SkipCount
<1>8. SkipFrameAt(options, After(p)) = IF n + 1 <= k THEN k - n ELSE 0
  <2>1. After(p).offered = n + 1
    BY <1>3 DEF After
  <2> QED
    BY <2>1, <1>1, <1>2 DEF SkipFrameAt
<1>9. n >= k => (IsRandomAccessSkipPicture(p, 0) <=> ~p.due)
  <2> SUFFICES ASSUME n >= k PROVE IsRandomAccessSkipPicture(p, 0) <=> ~p.due
    OBVIOUS
  <2>1. IsRandomAccessSkipPicture(p, 0) <=> NoEntryYet(p) \/ BeforeEntry(p)
    BY <1>1, <1>2, <1>7 DEF IsRandomAccessSkipPicture
  <2>2. dec.pocRandomAccess = MAX_INT <=> ~e.entered \/ e.afterEos
    BY DEF Synced
  <2>3. e.afterEos => p.type \in Entries /\ e.last # "CRA"
    BY <1>3, Constants DEF MayFollow, EncoderOK, Types
  <2>4. NoEntryYet(p) <=> ~p.entered
    BY <1>3, <2>2, <2>3 DEF NoEntryYet, Entries
  <2>5. ASSUME p.entered PROVE BeforeEntry(p) <=> p.type = "RASL" /\ e.skipsRasl
    <3>1. CASE p.type # "RASL"
      BY <3>1 DEF BeforeEntry
    <3>2. CASE p.type = "RASL"
      <4>1. e.last = "CRA" /\ e.entered /\ ~e.afterEos
        BY <1>3, <2>3, <2>5, <3>2 DEF MayFollow, Entries
      <4>2. /\ dec.pocRandomAccess # MAX_INT
            /\ IF e.skipsRasl THEN dec.pocRandomAccess = dec.prevTid0POC
                              ELSE dec.pocRandomAccess <= dec.prevTid0POC - 3
        BY <4>1 DEF Synced
      <4>3. SlicePoc(p) = dec.prevTid0POC - 2
        BY <3>2, FirstPoc
      <4>4. dec.pocRandomAccess \in Int /\ dec.prevTid0POC \in Int
        BY <1>2 DEF DecoderStates
      <4> QED
        BY <3>2, <4>2, <4>3, <4>4 DEF BeforeEntry
    <3> QED
      BY <3>1, <3>2
  <2>6. ~p.entered => p.type = "RASL" \/ p.type # "RASL"
    OBVIOUS
  <2> QED
    BY <1>3, <2>1, <2>4, <2>5
<1> DEFINE skip == IsRandomAccessSkipPicture(p, 0)
           left == CountLeft(p, 0)
           before == SkipFrameBefore(p)
<1>10. left = s - (IF skip THEN 1 ELSE 0)
  BY DEF CountLeft
<1>11. before = IF app.skipFrame = 1 /\ p.type \in {"CRA", "GDR"} THEN 0 ELSE app.skipFrame
  BY DEF SkipFrameBefore
<1>12. TakenForSkipped(p, 0) <=> left < before
  BY DEF TakenForSkipped
<1>13. n < k => skip
  BY <1>1, <1>2, <1>7 DEF IsRandomAccessSkipPicture
<1>14. SkipFrameAt(options, After(p)) = s
  BY <1>1, <1>2, <1>7, <1>8
<1>15. CASE n < k
  <2>1. s = k - n /\ skip /\ left = s - 1 /\ s \in Nat /\ s >= 1 /\ ~p.due
    BY <1>1, <1>2, <1>3, <1>7, <1>10, <1>13, <1>15
  <2>2. before = app.skipFrame /\ app.skipFrame \in Nat /\ app.skipFrame >= s
    BY <1>1, <1>2, <1>4, <1>5, <1>7, <1>11, <1>15
  <2> HIDE DEF s, left, before, skip
  <2>3. left < before /\ left + 1 = s
    BY <2>1, <2>2
  <2> QED
    BY <1>12, <1>14, <2>1, <2>3 DEF Decided, left, skip
<1>16. CASE n >= k
  <2>1. s = 0 /\ (skip <=> ~p.due)
    BY <1>1, <1>2, <1>7, <1>9, <1>16
  <2>2. before \in Nat
    BY <1>1, <1>2, <1>5, <1>11, <1>16
  <2>3. p.due => before = 0
    <3>1. SUFFICES ASSUME p.due PROVE before = 0
      OBVIOUS
    <3>2. app.skipFrame = IF n = k /\ k > 0 THEN 1 ELSE 0
      BY <1>1, <1>2, <1>5, <1>16
    <3>3. CASE n = k /\ k > 0
      <4>1. ~e.entered /\ p.entered /\ p.type \in Entries
        BY <1>1, <1>2, <1>3, <1>6, <3>1, <3>3
      <4>2. p.type \in {"CRA", "GDR"}
        BY <4>1, <1>4, <3>3 DEF Entries
      <4> QED
        BY <3>2, <3>3, <4>2, <1>11
    <3>4. CASE ~(n = k /\ k > 0)
      BY <3>2, <3>4, <1>11
    <3> QED
      BY <3>3, <3>4
  <2> HIDE DEF s, left, before, skip
  <2>4. CASE p.due
    <3>0. ~skip
      BY <2>1, <2>4
    <3>1. left = 0 - 0
      BY <3>0, <2>1, <1>10
    <3>2. left = 0 /\ before = 0
      BY <3>1, <2>3, <2>4
    <3>3. ~(left < before)
      BY <3>2
    <3> QED
      BY <3>0, <3>2, <3>3, <2>1, <2>4, <1>12, <1>14 DEF Decided, left, skip
  <2>5. CASE ~p.due
    <3>1. left = -1 /\ skip /\ left < before /\ left + 1 = 0
      BY <2>1, <2>2, <2>5, <1>10
    <3> QED
      BY <3>1, <2>1, <2>5, <1>12, <1>14 DEF Decided, left, skip
  <2> QED
    BY <2>4, <2>5
<1> QED
  BY <1>1, <1>2, <1>15, <1>16

\* The same for a later slice.
LEMMA LaterDecision ==
  ASSUME TypeOK, KnownNotToWork \subseteq Excluded, NEW p \in Pictures, Written(options, p),
         Synced(options, dec, app, After(p)), p.tid <= options.highestTid,
         NEW i \in Nat, i # 0
  PROVE  Decided(p, i)
<1> DEFINE e == p.at
           k == options.skipFrame
           n == p.at.offered
           s == app.skipFrame
           skip == IsRandomAccessSkipPicture(p, i)
           left == CountLeft(p, i)
           before == SkipFrameBefore(p)
<1>1. options \in [skipFrame : Skips, highestTid : HighestTids] /\ k \in Nat
  BY Constants DEF TypeOK
<1>2. /\ n \in Nat /\ p.type \in Types /\ e.entered \in BOOLEAN /\ e.afterEos \in BOOLEAN
      /\ dec \in DecoderStates /\ app \in LoopStates
  BY DEF Pictures, EncoderStates, TypeOK
<1>3. /\ p.offered = n + 1
      /\ p.type # "TRAIL" => p.tid = 0
      /\ p.entered <=> e.entered \/ (n >= k /\ p.type \in Entries)
      /\ p.due <=> n >= k /\ p.entered /\ ~(p.type = "RASL" /\ e.skipsRasl)
      /\ ~IsExcluded(options, p) /\ EncoderOK(options, e)
  BY <1>1, WrittenParts
<1>4. ~(p.type \in {"CRA", "GDR"} /\ n + 1 = k)
  BY <1>3 DEF IsExcluded, KnownNotToWork
<1>5. /\ After(p).offered = n + 1 /\ After(p).entered = p.entered
      /\ After(p).afterEos = FALSE
      /\ p.type = "RASL" => After(p).last = "RASL" /\ After(p).skipsRasl = e.skipsRasl
  BY <1>3 DEF After
<1>6. SkipFrameAt(options, After(p)) = IF n + 1 <= k THEN k - n ELSE 0
  BY <1>1, <1>2, <1>5 DEF SkipFrameAt
<1>7. s = IF n + 1 <= k THEN k - n ELSE 0
  BY <1>6 DEF Synced
<1>8. SkipCount(i) = s
  BY DEF SkipCount
<1>9. left = s - (IF skip THEN 1 ELSE 0)
  BY <1>8 DEF CountLeft
<1>10. before = s
  BY <1>1, <1>2, <1>4, <1>7 DEF SkipFrameBefore
<1>11. TakenForSkipped(p, i) <=> left < before
  BY DEF TakenForSkipped
<1>12. skip <=> s # 0 \/ NoEntryYet(p) \/ BeforeEntry(p)
  BY <1>8 DEF IsRandomAccessSkipPicture
<1>13. skip <=> ~p.due
  <2>1. CASE n < k
    BY <2>1, <1>1, <1>2, <1>3, <1>7, <1>12
  <2>2. CASE n >= k
    <3>1. s = 0
      BY <2>2, <1>1, <1>2, <1>7
    <3>2. dec.pocRandomAccess = MAX_INT <=> ~p.entered
      BY <1>5 DEF Synced
    <3>3. NoEntryYet(p) <=> ~p.entered
      BY <3>2, <2>2, <1>3 DEF NoEntryYet
    <3>4. ASSUME p.entered PROVE BeforeEntry(p) <=> p.type = "RASL" /\ e.skipsRasl
      <4>1. CASE p.type # "RASL"
        BY <4>1 DEF BeforeEntry
      <4>2. CASE p.type = "RASL"
        <5>1. /\ dec.pocRandomAccess # MAX_INT
              /\ IF e.skipsRasl THEN dec.pocRandomAccess = dec.prevTid0POC
                                ELSE dec.pocRandomAccess <= dec.prevTid0POC - 3
          BY <3>4, <4>2, <1>5 DEF Synced
        <5>2. SlicePoc(p) = dec.prevTid0POC - 2
          BY <4>2, LaterPoc
        <5>3. dec.pocRandomAccess \in Int /\ dec.prevTid0POC \in Int
          BY <1>2 DEF DecoderStates
        <5> QED
          BY <4>2, <5>1, <5>2, <5>3 DEF BeforeEntry
      <4> QED
        BY <4>1, <4>2
    <3> QED
      BY <2>2, <1>3, <1>12, <3>1, <3>3, <3>4
  <2> QED
    BY <1>1, <1>2, <2>1, <2>2
<1>14. s \in Int /\ SkipFrameAt(options, After(p)) = s
  BY <1>1, <1>2, <1>6, <1>7
<1> HIDE DEF s, left, before, skip
<1>15. CASE skip
  <2>1. left < before /\ left + 1 = s
    BY <1>9, <1>10, <1>14, <1>15
  <2> QED
    BY <2>1, <1>11, <1>13, <1>14, <1>15 DEF Decided, left, skip
<1>16. CASE ~skip
  <2>1. ~(left < before) /\ left = s
    BY <1>9, <1>10, <1>14, <1>16
  <2> QED
    BY <2>1, <1>11, <1>13, <1>14, <1>16 DEF Decided, left, skip
<1> QED
  BY <1>15, <1>16

-----------------------------------------------------------------------------
(* The SEI messages and slices read so far.                                 *)

\* What one more NAL unit adds.
LEMMA ReadSoFar ==
  ASSUME NEW p \in Pictures
  PROVE  /\ SeisRead(p, 0) = {} /\ \A n \in Nat : SeisRead(p, n) \subseteq Nuts
         /\ \A n \in 1..UnitLen(p) :
              SeisRead(p, n) = SeisRead(p, n - 1)
                               \cup ({NalUnit(p, n).nut} \cap {"PREFIX_SEI", "SUFFIX_SEI"})
         /\ SlicesRead(p, HeadLen(p) + 1) = {0}
         /\ \A n \in Nat : n > HeadLen(p) => 0 \in SlicesRead(p, n)
         /\ \A n \in Nat : n > HeadLen(p) /\ n <= HeadLen(p) + p.layout.slices =>
              SlicesRead(p, n) = SlicesRead(p, n - 1) \cup {n - HeadLen(p) - 1}
         /\ \A n \in Nat : n > HeadLen(p) + p.layout.slices =>
              SlicesRead(p, n) = SlicesRead(p, n - 1)
         /\ SlicesRead(p, UnitLen(p)) = 0..(p.layout.slices - 1)
<1> DEFINE h == HeadLen(p)
           k == p.layout.slices
           u == UnitLen(p)
           SEI == {"PREFIX_SEI", "SUFFIX_SEI"}
<1>1. h \in Nat /\ k \in Nat \ {0} /\ u \in Nat /\ u >= h + k
  BY UnitLength
<1>2. \A n : SlicesRead(p, n) = {i \in 0..(k - 1) : i < n - h}
  BY DEF SlicesRead
<1>3. \A n : SeisRead(p, n) = {NalUnit(p, j).nut : j \in 1..n} \cap SEI
  BY DEF SeisRead
<1> HIDE DEF h, k, u, SEI
<1>4. SlicesRead(p, h + 1) = {0}
  <2>1. \A i \in 0..(k - 1) : i < (h + 1) - h <=> i = 0
    BY <1>1
  <2>2. 0 \in 0..(k - 1)
    BY <1>1
  <2>3. SlicesRead(p, h + 1) = {i \in 0..(k - 1) : i < (h + 1) - h}
    BY <1>2
  <2> QED
    BY <2>1, <2>2, <2>3
<1>5. \A n \in Nat : n > h => 0 \in SlicesRead(p, n)
  BY <1>1, <1>2
<1>6. ASSUME NEW n \in Nat, n > h, n <= h + k
      PROVE  SlicesRead(p, n) = SlicesRead(p, n - 1) \cup {n - h - 1}
  <2>1. n - h - 1 \in 0..(k - 1)
    BY <1>1, <1>6
  <2>2. \A i \in 0..(k - 1) : i < n - h <=> i < (n - 1) - h \/ i = n - h - 1
    BY <1>1, <1>6
  <2> QED
    BY <1>2, <2>1, <2>2
<1>7. ASSUME NEW n \in Nat, n > h + k PROVE SlicesRead(p, n) = SlicesRead(p, n - 1)
  <2>1. \A i \in 0..(k - 1) : i < n - h /\ i < (n - 1) - h
    BY <1>1, <1>7
  <2> QED
    BY <1>2, <2>1
<1>8. SlicesRead(p, u) = 0..(k - 1)
  <2>1. \A i \in 0..(k - 1) : i < u - h
    BY <1>1
  <2> QED
    BY <1>2, <2>1
<1>9. SeisRead(p, 0) = {} /\ \A n \in Nat : SeisRead(p, n) \subseteq Nuts
  <2>1. 1..0 = {}
    OBVIOUS
  <2> QED
    BY <1>3, <2>1 DEF Nuts, SEI
<1>10. ASSUME NEW n \in 1..u
       PROVE  SeisRead(p, n) = SeisRead(p, n - 1) \cup ({NalUnit(p, n).nut} \cap SEI)
  <2>1. 1..n = 1..(n - 1) \cup {n}
    BY <1>1
  <2>2. {NalUnit(p, j).nut : j \in 1..n}
          = {NalUnit(p, j).nut : j \in 1..(n - 1)} \cup {NalUnit(p, n).nut}
    BY <2>1
  <2> QED
    BY <1>3, <2>2
<1> QED
  BY <1>4, <1>5, <1>6, <1>7, <1>8, <1>9, <1>10 DEF h, k, u, SEI

\* All the SEI messages of a unit are its picture's.
LEMMA AllSeisRead ==
  ASSUME NEW p \in Pictures
  PROVE  SeisRead(p, UnitLen(p)) = Seis(p)
<1> DEFINE l == p.layout
           h == HeadLen(p)
           k == l.slices
           n == Len(l.tail)
           u == UnitLen(p)
           s == l.head \o l.tail
           SEI == {"PREFIX_SEI", "SUFFIX_SEI"}
           Nut(j) == NalUnit(p, j).nut
<1>1. h \in Nat /\ k \in Nat \ {0} /\ n \in Nat /\ u = h + k + n /\ l \in Layouts
  BY UnitLength DEF UnitLen
<1>2. /\ l.head \in Seq({"PREFIX_SEI", "PH"}) /\ l.tail \in Seq({"SUFFIX_SEI"})
      /\ \A j \in 1..n : l.tail[j] = "SUFFIX_SEI"
      /\ Len(l.head) = h
  BY <1>1, LayoutParts DEF HeadLen
<1>3. /\ DOMAIN s = 1..(h + n)
      /\ \A j \in 1..h : s[j] = l.head[j]
      /\ \A j \in 1..n : s[h + j] = l.tail[j]
  <2> DEFINE a == l.head
             b == l.tail
  <2>1. a \in Seq({"PREFIX_SEI", "PH"}) /\ b \in Seq({"SUFFIX_SEI"})
        /\ Len(a) = h /\ Len(b) = n
    BY <1>2
  <2> HIDE DEF a, b, h, n
  <2>2. /\ DOMAIN (a \o b) = 1..(h + n)
        /\ \A j \in 1..h : (a \o b)[j] = a[j]
    BY <1>1, <2>1
  <2>3. ASSUME NEW j \in 1..n PROVE (a \o b)[h + j] = b[j]
    <3>1. h + j \in 1..(h + n) /\ h + j > h /\ h + j - h = j
      BY <1>1
    <3>2. (a \o b)[h + j] = b[h + j - h]
      BY <1>1, <2>1, <3>1
    <3> QED
      BY <3>1, <3>2
  <2> QED
    BY <2>2, <2>3 DEF a, b
<1>4. /\ \A j \in 1..u : j <= h => Nut(j) = l.head[j]
      /\ \A j \in 1..u : j > h /\ j <= h + k => Nut(j) = "SLICE"
      /\ \A j \in 1..u : j > h + k => Nut(j) = "SUFFIX_SEI"
  BY NalUnitParts
<1>5. SeisRead(p, u) = {Nut(j) : j \in 1..u} \cap SEI
  BY DEF SeisRead
<1>6. Seis(p) = {s[j] : j \in DOMAIN s} \cap SEI
  BY DEF Seis, Range
<1> HIDE DEF l, h, k, n, u, s, Nut, SEI
<1>7. ASSUME NEW j \in 1..u, Nut(j) \in SEI PROVE Nut(j) \in {s[i] : i \in DOMAIN s}
  <2>1. CASE j <= h
    <3>1. j \in 1..h /\ j \in 1..(h + n)
      BY <2>1, <1>1
    <3> QED
      BY <2>1, <3>1, <1>3, <1>4
  <2>2. CASE j > h /\ j <= h + k
    BY <2>2, <1>4, <1>7 DEF SEI
  <2>3. CASE j > h + k
    <3>1. j - h - k \in 1..n /\ h + (j - h - k) \in 1..(h + n)
      BY <2>3, <1>1
    <3>2. s[h + (j - h - k)] = Nut(j)
      BY <2>3, <3>1, <1>2, <1>3, <1>4 DEF n
    <3> QED
      BY <3>1, <3>2, <1>3
  <2> QED
    BY <1>1, <2>1, <2>2, <2>3
<1>8. ASSUME NEW i \in 1..(h + n) PROVE s[i] \in {Nut(j) : j \in 1..u}
  <2>1. CASE i <= h
    <3>1. i \in 1..h /\ i \in 1..u
      BY <2>1, <1>1
    <3> QED
      BY <2>1, <3>1, <1>3, <1>4
  <2>2. CASE i > h
    <3>1. i - h \in 1..n /\ h + (i - h) = i /\ i + k \in 1..u /\ i + k > h + k
      BY <2>2, <1>1
    <3>2. s[i] = "SUFFIX_SEI"
      BY <3>1, <1>2, <1>3
    <3>3. Nut(i + k) = "SUFFIX_SEI"
      BY <3>1, <1>4
    <3> QED
      BY <3>1, <3>2, <3>3
  <2> QED
    BY <1>1, <2>1, <2>2
<1>9. SeisRead(p, u) = Seis(p)
  BY <1>3, <1>5, <1>6, <1>7, <1>8
<1> QED
  BY <1>9 DEF u

-----------------------------------------------------------------------------
(* Reading a NAL unit.                                                      *)

\* The encoder state after a picture.
LEMMA AfterParts ==
  ASSUME NEW o \in [skipFrame : Skips, highestTid : HighestTids],
         NEW p \in Pictures, Written(o, p)
  PROVE  /\ After(p).num = p.num /\ p.num > 0 /\ After(p).offered = p.offered
         /\ After(p).cvs = p.cvs /\ After(p).afterEos = FALSE
         /\ After(p).entered = p.entered /\ After(p).lastDue = p.due
         /\ After(p).last = IF p.tid = 0 THEN p.type ELSE None
         /\ After(p).skipsRasl = IF p.type = "CRA" THEN p.at.afterEos \/ ~p.at.entered
                                 ELSE p.at.skipsRasl
         /\ p.at.cvs <= p.cvs /\ p.at.cvs \in Nat /\ p.cvs \in Nat
         /\ p.cvs = p.at.cvs => p.type # "IDR" /\ ~p.at.afterEos
<1>1. /\ p.num \in Nat \ {0} /\ p.at.cvs \in Nat /\ p.cvs \in Nat
  BY DEF Pictures, EncoderStates
<1>2. p.cvs = IF p.type = "IDR" \/ p.at.afterEos THEN p.at.cvs + 1 ELSE p.at.cvs
  BY WrittenParts
<1> QED
  BY <1>1, <1>2 DEF After

\* Where decoding has not started before p, or what p is when it is not decoded.
LEMMA EntryParts ==
  ASSUME TypeOK, NEW p \in Pictures, Written(options, p)
  PROVE  /\ p.type \notin Entries =>
              /\ ~p.at.afterEos /\ p.at.num # 0 /\ (p.entered <=> p.at.entered)
         /\ p.due => p.entered /\ p.tid <= options.highestTid
         /\ p.due => ~(p.type = "RASL" /\ p.at.skipsRasl)
         /\ ~p.due => (p.entered <=> p.at.entered) /\ (p.entered => ~p.at.afterEos)
         /\ ~p.due /\ p.entered /\ p.tid <= options.highestTid =>
              p.type = "RASL" /\ p.at.skipsRasl
         /\ p.type = "RASL" => p.at.last = "CRA"
         /\ p.at.entered => p.entered
         /\ p.tid > options.highestTid => p.type = "TRAIL" /\ p.tid = 1 /\ ~p.due
<1>1. options \in [skipFrame : Skips, highestTid : HighestTids]
  BY DEF TypeOK
<1>2. /\ options.skipFrame \in Nat /\ options.highestTid \in {0, 1} /\ p.at.offered \in Nat
      /\ p.tid \in {0, 1} /\ p.type \in Types /\ p.at.num \in Nat
      /\ p.due \in BOOLEAN /\ p.entered \in BOOLEAN /\ p.at.entered \in BOOLEAN
      /\ p.at.afterEos \in BOOLEAN
  BY <1>1, Constants DEF Pictures, EncoderStates
<1>3. /\ p.type # "TRAIL" => p.tid = 0 /\ p.tid <= options.highestTid
      /\ p.entered <=> p.at.entered
                       \/ (p.at.offered >= options.skipFrame /\ p.type \in Entries)
      /\ p.due <=> /\ p.at.offered >= options.skipFrame /\ p.tid <= options.highestTid
                   /\ p.entered /\ ~(p.type = "RASL" /\ p.at.skipsRasl)
      /\ EncoderOK(options, p.at) /\ MayFollow(p.at, p.type, p.tid)
  BY <1>1, WrittenParts
<1>4. /\ p.at.num = 0 \/ p.at.afterEos => p.type \in Entries
      /\ p.type = "RASL" => p.at.last = "CRA"
      /\ p.at.entered => p.at.offered > options.skipFrame
  BY <1>3 DEF MayFollow, EncoderOK
<1>5. \A a, b \in Nat : a > b => a >= b
  OBVIOUS
<1>6. p.at.entered => p.at.offered >= options.skipFrame
  BY <1>2, <1>4, <1>5
<1>7. p.tid > options.highestTid => ~(p.tid <= options.highestTid) /\ p.tid = 1
  BY <1>2
<1>8. p.type \in Entries => p.type # "TRAIL" /\ p.type # "RASL"
  BY DEF Entries
<1> QED
  BY <1>2, <1>3, <1>4, <1>6, <1>7, <1>8

\* The picture finished last stays of the same sequence, or an earlier one.
LEMMA FinishedAfter ==
  ASSUME TypeOK, NEW p \in Pictures, Written(options, p),
         Synced(options, dec, app, p.at), FinishedAt(finished, dec, p.at), NEW d,
         p.type # "IDR" /\ ~dec.firstSliceInSequence =>
           d.prevTid0POC - After(p).tid0Poc = dec.prevTid0POC - p.at.tid0Poc
  PROVE  FinishedAt(finished, d, After(p))
<1>1. /\ After(p).cvs = p.cvs /\ After(p).entered = p.entered
      /\ p.at.cvs <= p.cvs /\ p.at.cvs \in Nat /\ p.cvs \in Nat
      /\ p.cvs = p.at.cvs => p.type # "IDR" /\ ~p.at.afterEos
      /\ p.at.entered => p.entered
  BY AfterParts, EntryParts DEF TypeOK
<1>2. dec.firstSliceInSequence <=> ~p.at.entered \/ (p.at.afterEos /\ p.at.lastDue)
  BY DEF Synced
<1> SUFFICES ASSUME finished.order # 0
             PROVE  /\ finished.pic \in Pictures /\ After(p).entered
                    /\ finished.pic.cvs <= After(p).cvs
                    /\ finished.pic.cvs = After(p).cvs =>
                         finished.poc - finished.pic.poc = d.prevTid0POC - After(p).tid0Poc
  BY DEF FinishedAt
<1>3. /\ finished.pic \in Pictures /\ p.at.entered /\ finished.pic.cvs <= p.at.cvs
      /\ finished.pic.cvs = p.at.cvs =>
           finished.poc - finished.pic.poc = dec.prevTid0POC - p.at.tid0Poc
  BY DEF FinishedAt
<1>4. finished.pic.cvs \in Nat
  BY <1>3 DEF Pictures
<1>5. finished.pic.cvs <= p.cvs
  BY <1>1, <1>3, <1>4
<1>6. ASSUME finished.pic.cvs = p.cvs
      PROVE  finished.poc - finished.pic.poc = d.prevTid0POC - After(p).tid0Poc
  <2>1. p.cvs = p.at.cvs
    BY <1>1, <1>3, <1>4, <1>6
  <2>2. p.type # "IDR" /\ ~dec.firstSliceInSequence
    BY <2>1, <1>1, <1>2, <1>3
  <2> QED
    BY <2>1, <2>2, <1>3, <1>6
<1> QED
  BY <1>1, <1>3, <1>5, <1>6

\* The members of DecLib, S, after slice i of p was skipped, and D, after it was
\* decoded.
SkippedFields(S, p) ==
  /\ S.isFirstSliceInPicture = dec.isFirstSliceInPicture
  /\ S.firstSliceInSequence = dec.firstSliceInSequence
  /\ S.prevTid0POC = PreviousTid0POC(dec.prevTid0POC, p, SlicePoc(p))
  /\ S.pocRandomAccess = dec.pocRandomAccess
  /\ S.skippedBefore = TRUE /\ S.prefixSeis = {}

DecodedFields(D, p, i) ==
  /\ D.isFirstSliceInPicture = FALSE /\ D.firstSliceInSequence = FALSE
  /\ D.prevSliceSkipped = FALSE /\ D.prefixSeis = {}
  /\ D.prevTid0POC = PreviousTid0POC(dec.prevTid0POC, p, SlicePoc(p))
  /\ D.pocRandomAccess = IF p.type = "IDR" THEN -MAX_INT
                         ELSE IF dec.pocRandomAccess = MAX_INT THEN SlicePoc(p)
                         ELSE dec.pocRandomAccess
  /\ D.skippedBefore = dec.skippedBefore
  /\ ~dec.isFirstSliceInPicture =>
       /\ D.pic.pic = dec.pic.pic /\ D.pic.poc = dec.pic.poc
       /\ D.pic.nobr = dec.pic.nobr /\ D.pic.newCLVS = dec.pic.newCLVS
       /\ D.pic.seis = dec.pic.seis
       /\ D.pic.slices = dec.pic.slices \cup {<<p.num, i>>}

\* A slice, skipped or decoded, changes these members and no others.
LEMMA SliceFields ==
  ASSUME dec \in DecoderStates, NEW p, NEW i
  PROVE  SkippedFields(SliceSkipped(p), p) /\ DecodedFields(SliceDecoded(p, i), p, i)
<1> DEFINE H == HeaderParsed(p)
           S == SliceSkipped(p)
           D == SliceDecoded(p, i)
           y == PreviousTid0POC(dec.prevTid0POC, p, SlicePoc(p))
           Members == {"isFirstSliceInPicture", "firstSliceInSequence", "prevTid0POC",
                       "pocRandomAccess", "skippedBefore", "prevSliceSkipped",
                       "prefixSeis", "pic"}
<1>1. DOMAIN dec = Members /\ dec.pic \in DecodedPictures
  BY DEF DecoderStates
<1>2. H = [dec EXCEPT !.prevTid0POC = y]
  BY DEF HeaderParsed
<1>3. /\ DOMAIN H = Members /\ H.prevTid0POC = y
      /\ \A m \in Members : m # "prevTid0POC" => H[m] = dec[m]
  BY <1>1, <1>2
<1> HIDE DEF H, y
<1>4. S = [H EXCEPT !.prevSliceSkipped = TRUE, !.skippedBefore = TRUE, !.prefixSeis = {}]
  BY DEF SliceSkipped, H
<1>5. /\ S.isFirstSliceInPicture = dec.isFirstSliceInPicture
      /\ S.firstSliceInSequence = dec.firstSliceInSequence
      /\ S.prevTid0POC = y /\ S.pocRandomAccess = dec.pocRandomAccess
      /\ S.skippedBefore = TRUE /\ S.prefixSeis = {}
  <2> HIDE DEF S
  <2> QED
    BY <1>3, <1>4
<1>6. PICK x : D = [H EXCEPT
        !.prevSliceSkipped = FALSE,
        !.pocRandomAccess = IF p.type = "IDR" THEN -MAX_INT
                            ELSE IF H.pocRandomAccess = MAX_INT THEN SlicePoc(p)
                            ELSE H.pocRandomAccess,
        !.firstSliceInSequence = FALSE,
        !.isFirstSliceInPicture = FALSE,
        !.prefixSeis = {},
        !.pic = x] /\ (~dec.isFirstSliceInPicture => x = PictureJoined(H.pic, p, i))
  BY DEF SliceDecoded, H
<1> HIDE DEF D, S
<1>7. /\ D.isFirstSliceInPicture = FALSE /\ D.firstSliceInSequence = FALSE
      /\ D.prevSliceSkipped = FALSE /\ D.prevTid0POC = y /\ D.prefixSeis = {}
      /\ D.pocRandomAccess = IF p.type = "IDR" THEN -MAX_INT
                             ELSE IF H.pocRandomAccess = MAX_INT THEN SlicePoc(p)
                             ELSE H.pocRandomAccess
      /\ D.skippedBefore = H.skippedBefore /\ D.pic = x
  BY <1>3, <1>6
<1>8. H.pocRandomAccess = dec.pocRandomAccess /\ H.skippedBefore = dec.skippedBefore
      /\ H.pic = dec.pic
  BY <1>3
<1>9. ASSUME ~dec.isFirstSliceInPicture
      PROVE  /\ D.pic.pic = dec.pic.pic /\ D.pic.poc = dec.pic.poc
             /\ D.pic.nobr = dec.pic.nobr /\ D.pic.newCLVS = dec.pic.newCLVS
             /\ D.pic.seis = dec.pic.seis
             /\ D.pic.slices = dec.pic.slices \cup {<<p.num, i>>}
  <2>1. D.pic = [dec.pic EXCEPT !.slices = @ \cup {<<p.num, i>>}]
    BY <1>6, <1>7, <1>8, <1>9 DEF PictureJoined
  <2> QED
    BY <1>1, <2>1 DEF DecodedPictures
<1> QED
  BY <1>5, <1>7, <1>8, <1>9 DEF D, S, y, SkippedFields, DecodedFields

\* A NAL unit before the slices.
LEMMA HeadRead ==
  ASSUME TypeOK, NEW h \in NalUnits, InUnit(h), Written(options, h.pic),
         h.pos <= HeadLen(h.pic), dec.isFirstSliceInPicture,
         Before(options, dec, app, h.pic, h.pos)
  PROVE  /\ Before(options, DecAfter(h), AppAfter(h), h.pic, h.pos + 1)
         /\ DecAfter(h).isFirstSliceInPicture
         /\ DecAfter(h).prevTid0POC = dec.prevTid0POC
<1> DEFINE p == h.pic
           D == DecAfter(h)
           A == AppAfter(h)
<1>1. /\ p \in Pictures /\ h.pos \in 1..UnitLen(p) /\ h.nut \in {"PREFIX_SEI", "PH"}
      /\ h = NalUnit(p, h.pos)
  BY InUnitParts
<1>2. dec \in DecoderStates /\ app \in LoopStates /\ options.highestTid \in {0, 1}
      /\ p.tid \in {0, 1}
  BY <1>1, Constants DEF TypeOK, Pictures
<1>3. /\ D = IF h.nut = "PREFIX_SEI" /\ p.tid <= options.highestTid
             THEN [dec EXCEPT !.prefixSeis = @ \cup {<<p.num, h.nut>>}] ELSE dec
      /\ A = IF p.tid <= options.highestTid THEN app ELSE [app EXCEPT !.picSkipped = TRUE]
  BY <1>1 DEF DecAfter, AppAfter, InTarget
<1>4. /\ D.isFirstSliceInPicture /\ D.firstSliceInSequence = dec.firstSliceInSequence
      /\ D.prevTid0POC = dec.prevTid0POC /\ D.pocRandomAccess = dec.pocRandomAccess
      /\ D.skippedBefore = dec.skippedBefore /\ D.pic = dec.pic
      /\ D.prefixSeis = IF h.nut = "PREFIX_SEI" /\ p.tid <= options.highestTid
                        THEN dec.prefixSeis \cup {<<p.num, h.nut>>} ELSE dec.prefixSeis
      /\ A.skipFrame = app.skipFrame /\ A.eosInPu = app.eosInPu
      /\ A.eosInLastPu = app.eosInLastPu /\ A.newCLVS = app.newCLVS
      /\ A.picListSet = app.picListSet
  BY <1>2, <1>3 DEF DecoderStates, LoopStates
<1> HIDE DEF D, A
<1>5. Synced(options, D, A, p.at)
  BY <1>4 DEF Before, Synced
<1>6. ~Pending(D, A)
  BY <1>4 DEF Pending
<1>7. D.prefixSeis = IF p.tid <= options.highestTid THEN {p.num} \X SeisRead(p, h.pos) ELSE {}
  <2>1. CASE p.tid <= options.highestTid
    <3>1. dec.prefixSeis = {p.num} \X SeisRead(p, h.pos - 1)
      BY <2>1 DEF Before
    <3>2. SeisRead(p, h.pos)
            = SeisRead(p, h.pos - 1) \cup ({h.nut} \cap {"PREFIX_SEI", "SUFFIX_SEI"})
      BY <1>1, ReadSoFar
    <3>3. CASE h.nut = "PREFIX_SEI"
      <4>1. D.prefixSeis = ({p.num} \X SeisRead(p, h.pos - 1)) \cup {<<p.num, h.nut>>}
        BY <1>4, <2>1, <3>1, <3>3
      <4>2. SeisRead(p, h.pos) = SeisRead(p, h.pos - 1) \cup {h.nut}
        BY <3>2, <3>3
      <4> HIDE DEF p
      <4> QED
        BY <2>1, <4>1, <4>2
    <3>4. CASE h.nut # "PREFIX_SEI"
      <4>1. SeisRead(p, h.pos) = SeisRead(p, h.pos - 1)
        BY <1>1, <3>2, <3>4
      <4> QED
        BY <2>1, <1>4, <3>1, <3>4, <4>1
    <3> QED
      BY <3>3, <3>4
  <2>2. CASE ~(p.tid <= options.highestTid)
    BY <2>2, <1>4 DEF Before
  <2> QED
    BY <2>1, <2>2
<1>8. (h.pos + 1) - 1 = h.pos
  BY <1>1
<1>9. /\ D.prefixSeis = IF p.tid <= options.highestTid
                        THEN {p.num} \X SeisRead(p, (h.pos + 1) - 1) ELSE {}
      /\ p.at.afterEos => A.newCLVS
      /\ A.eosInPu \/ (A.eosInLastPu <=> p.at.afterEos)
      /\ p.at.afterEos /\ ~A.eosInPu => p.at.entered
  BY <1>4, <1>7, <1>8 DEF Before
<1>10. Before(options, D, A, p, h.pos + 1)
  BY <1>4, <1>5, <1>6, <1>9 DEF Before
<1> QED
  BY <1>4, <1>10 DEF D, A

\* The first slice of a picture -t leaves out.
LEMMA FirstSliceLeft ==
  ASSUME TypeOK, NEW h \in NalUnits, InUnit(h), h.nut = "SLICE", Written(options, h.pic),
         h.pic.tid > options.highestTid,
         Synced(options, dec, app, h.pic.at), dec.prefixSeis = {}, ~app.eosInPu
  PROVE  /\ Within(options, DecAfter(h), AppAfter(h), h.pic, h.pos + 1)
         /\ DecAfter(h).prevTid0POC - After(h.pic).tid0Poc
              = dec.prevTid0POC - h.pic.at.tid0Poc
<1> DEFINE p == h.pic
           D == DecAfter(h)
           A == AppAfter(h)
           e == p.at
<1>1. /\ p \in Pictures /\ p.at.num \in Nat /\ p.tid \in {0, 1} /\ p.at.tid0Poc \in Int
  BY DEF NalUnits, Pictures, EncoderStates
<1>2. options \in [skipFrame : Skips, highestTid : HighestTids]
      /\ dec \in DecoderStates /\ app \in LoopStates /\ options.highestTid \in {0, 1}
  BY Constants DEF TypeOK
<1>3. /\ p.type = "TRAIL" /\ p.tid = 1 /\ ~p.due
      /\ ~e.afterEos /\ e.num # 0 /\ (p.entered <=> e.entered)
  <2>1. p.type = "TRAIL" /\ p.tid = 1 /\ ~p.due
    BY <1>1, EntryParts
  <2>2. p.type \notin Entries
    BY <2>1 DEF Entries
  <2> QED
    BY <1>1, <2>1, <2>2, EntryParts
<1>4. /\ After(p).num = p.num /\ p.num > 0 /\ After(p).offered = e.offered
      /\ After(p).afterEos = FALSE /\ After(p).entered = p.entered
      /\ After(p).last = None /\ p.num = e.num + 1
  <2>1. p.num = e.num + 1 /\ p.offered = e.offered
    BY <1>1, <1>2, WrittenParts
  <2>2. /\ After(p).num = p.num /\ p.num > 0 /\ After(p).offered = p.offered
        /\ After(p).afterEos = FALSE /\ After(p).entered = p.entered
        /\ After(p).last = IF p.tid = 0 THEN p.type ELSE None
    BY <1>1, <1>2, AfterParts
  <2> QED
    BY <1>3, <2>1, <2>2
<1>5. After(p).tid0Poc = e.tid0Poc
  BY <1>3 DEF After
<1>6. ~(p.tid <= options.highestTid)
  BY <1>1, <1>2
<1>7. /\ D = [dec EXCEPT !.isFirstSliceInPicture = FALSE]
      /\ A = [app EXCEPT !.newCLVS = NewCLVS(p), !.picSkipped = TRUE]
  BY <1>6 DEF DecAfter, AppAfter, InTarget
<1>8. /\ ~D.isFirstSliceInPicture /\ D.firstSliceInSequence = dec.firstSliceInSequence
      /\ D.prevTid0POC = dec.prevTid0POC /\ D.pocRandomAccess = dec.pocRandomAccess
      /\ D.skippedBefore = dec.skippedBefore /\ D.prefixSeis = dec.prefixSeis
      /\ A.skipFrame = app.skipFrame /\ A.eosInPu = app.eosInPu
      /\ A.picListSet = app.picListSet /\ A.picSkipped
  BY <1>2, <1>7 DEF DecoderStates, LoopStates
<1> HIDE DEF D, A
<1>9. D.prevTid0POC \in 0..(After(p).num + 1) * MaxLsb
  <2> DEFINE b == (e.num + 1) * MaxLsb
             c == (p.num + 1) * MaxLsb
  <2>1. b \in Nat /\ c \in Nat /\ c = b + MaxLsb /\ MaxLsb \in Nat
    BY <1>1, <1>4, Half, PocBounds DEF Written
  <2>2. dec.prevTid0POC \in 0..b
    BY DEF Synced
  <2> HIDE DEF b, c
  <2>3. dec.prevTid0POC \in 0..c
    BY <2>1, <2>2
  <2> QED
    BY <2>3, <1>4, <1>8 DEF c
<1>10. /\ A.skipFrame = SkipFrameAt(options, After(p))
       /\ options.skipFrame > 0 => (D.skippedBefore <=> After(p).offered > 0)
  BY <1>4, <1>8 DEF Synced, SkipFrameAt
<1>11. /\ D.firstSliceInSequence <=> ~After(p).entered
       /\ D.prevTid0POC % MaxLsb = After(p).tid0Poc % MaxLsb
       /\ D.pocRandomAccess = MAX_INT <=> ~After(p).entered
       /\ After(p).entered => D.pocRandomAccess <= D.prevTid0POC
       /\ A.picListSet => After(p).entered
  BY <1>1, <1>3, <1>4, <1>5, <1>8 DEF Synced
<1>12. After(p).last # "IDR" /\ After(p).last \notin {"CRA", "RASL"}
  BY <1>4, Constants DEF Types
<1>13. Synced(options, D, A, After(p))
  BY <1>4, <1>9, <1>10, <1>11, <1>12 DEF Synced
<1>14. Within(options, D, A, p, h.pos + 1)
  BY <1>3, <1>8, <1>13 DEF Within
<1> QED
  BY <1>5, <1>8, <1>14 DEF D, A

\* What the header of the first slice of a picture in target does.
LEMMA FirstHeader ==
  ASSUME TypeOK, NEW p \in Pictures, Written(options, p), p.tid <= options.highestTid,
         Synced(options, dec, app, p.at)
  PROVE  LET y == PreviousTid0POC(dec.prevTid0POC, p, SlicePoc(p))
         IN /\ y \in 0..(After(p).num + 1) * MaxLsb
            /\ y % MaxLsb = After(p).tid0Poc % MaxLsb
            /\ After(p).last = "IDR" => y = 0
            /\ SlicePoc(p) - p.poc = y - After(p).tid0Poc
            /\ p.type # "IDR" /\ ~dec.firstSliceInSequence =>
                 y - After(p).tid0Poc = dec.prevTid0POC - p.at.tid0Poc
<1>1. options \in [skipFrame : Skips, highestTid : HighestTids]
  BY DEF TypeOK
<1>2. After(p).num = p.num /\ After(p).last = IF p.tid = 0 THEN p.type ELSE None
  BY <1>1, AfterParts
<1>3. After(p).last = "IDR" => p.type = "IDR"
  BY <1>2, Constants DEF Types
<1> QED
  BY <1>2, <1>3, FirstPoc

\* The first slice of a picture that is not due and in target.
LEMMA FirstSliceSkipped ==
  ASSUME TypeOK, KnownNotToWork \subseteq Excluded,
         NEW h \in NalUnits, InUnit(h), h.nut = "SLICE", h.pos = HeadLen(h.pic) + 1,
         Written(options, h.pic), h.pic.tid <= options.highestTid, ~h.pic.due,
         Before(options, dec, app, h.pic, h.pos), dec.isFirstSliceInPicture, ~app.eosInPu
  PROVE  /\ Within(options, DecAfter(h), AppAfter(h), h.pic, h.pos + 1)
         /\ h.pic.type # "IDR" /\ ~dec.firstSliceInSequence =>
              DecAfter(h).prevTid0POC - After(h.pic).tid0Poc
                = dec.prevTid0POC - h.pic.at.tid0Poc
<1> DEFINE p == h.pic
           D == DecAfter(h)
           A == AppAfter(h)
           e == p.at
           x == SlicePoc(p)
           y == PreviousTid0POC(dec.prevTid0POC, p, SlicePoc(p))
           a == After(p)
<1>1. p \in Pictures /\ p.at.num \in Nat /\ p.tid \in {0, 1} /\ Idx(h) = 0
      /\ e.offered \in Nat
  <2>1. p \in Pictures
    BY DEF NalUnits
  <2>2. HeadLen(p) \in Nat
    BY <2>1, UnitLength
  <2> QED
    BY <2>1, <2>2 DEF NalUnits, Pictures, EncoderStates, Idx
<1>2. options \in [skipFrame : Skips, highestTid : HighestTids]
      /\ dec \in DecoderStates /\ app \in LoopStates
  BY DEF TypeOK
<1>3. Synced(options, dec, app, e)
  BY DEF Before
<1>4. Decided(p, 0)
  BY <1>1, <1>3, FirstDecision
<1>5. /\ D = SliceSkipped(p)
      /\ A = [app EXCEPT !.newCLVS = NewCLVS(p), !.picSkipped = TRUE,
                         !.skipFrame = SkipFrameAt(options, a)]
  <2>1. IsRandomAccessSkipPicture(p, 0) /\ TakenForSkipped(p, 0)
        /\ CountLeft(p, 0) + 1 = SkipFrameAt(options, a)
    BY <1>4 DEF Decided
  <2>2. D = SliceSkipped(p)
    BY <1>1, <2>1 DEF DecAfter, InTarget
  <2>3. A = [app EXCEPT !.newCLVS = NewCLVS(p), !.picSkipped = TakenForSkipped(p, 0),
                        !.skipFrame = IF TakenForSkipped(p, 0)
                                      THEN CountLeft(p, 0) + 1 ELSE CountLeft(p, 0)]
    BY <1>1 DEF AppAfter, InTarget
  <2>4. TakenForSkipped(p, 0) = TRUE
    BY <2>1 DEF TakenForSkipped
  <2> QED
    BY <2>1, <2>2, <2>3, <2>4
<1>6. /\ D.isFirstSliceInPicture = dec.isFirstSliceInPicture
      /\ D.firstSliceInSequence = dec.firstSliceInSequence
      /\ D.prevTid0POC = y /\ D.pocRandomAccess = dec.pocRandomAccess
      /\ D.skippedBefore = TRUE /\ D.prefixSeis = {}
      /\ A.skipFrame = SkipFrameAt(options, a) /\ A.eosInPu = app.eosInPu
      /\ A.picListSet = app.picListSet /\ A.picSkipped /\ A.eosInLastPu = app.eosInLastPu
  BY <1>2, <1>5 DEF DecoderStates, LoopStates, SliceSkipped, HeaderParsed
<1>7. /\ a.num = p.num /\ p.num > 0 /\ a.offered = p.offered /\ a.afterEos = FALSE
      /\ a.entered = p.entered /\ a.last = IF p.tid = 0 THEN p.type ELSE None
      /\ a.skipsRasl = IF p.type = "CRA" THEN e.afterEos \/ ~e.entered ELSE e.skipsRasl
  BY <1>1, <1>2, AfterParts
<1>8. /\ y \in 0..(a.num + 1) * MaxLsb /\ y % MaxLsb = a.tid0Poc % MaxLsb
      /\ a.last = "IDR" => y = 0
      /\ p.type # "IDR" /\ ~dec.firstSliceInSequence =>
           y - a.tid0Poc = dec.prevTid0POC - e.tid0Poc
  BY <1>1, <1>3, FirstHeader
<1>9. /\ p.entered <=> e.entered
      /\ p.entered => ~e.afterEos /\ p.type = "RASL" /\ e.skipsRasl /\ e.last = "CRA"
      /\ e.afterEos => ~e.entered
  BY <1>1, EntryParts
<1>10. p.offered = e.offered + 1
  BY <1>1, <1>2, WrittenParts
<1>11. a.offered > 0
  BY <1>1, <1>7, <1>10
<1>12. ASSUME a.entered
       PROVE  y = dec.prevTid0POC /\ dec.pocRandomAccess = dec.prevTid0POC
  <2>1. p.type = "RASL" /\ e.entered /\ ~e.afterEos /\ e.skipsRasl /\ e.last = "CRA"
    BY <1>7, <1>9, <1>12
  <2> QED
    BY <2>1, <1>3 DEF Synced, PreviousTid0POC, Leading
<1> HIDE DEF D, A, y, a
<1>13. /\ D.firstSliceInSequence <=> ~a.entered
       /\ D.pocRandomAccess = MAX_INT <=> ~a.entered
       /\ A.picListSet => a.entered
  BY <1>3, <1>6, <1>7, <1>9 DEF Synced
<1>14. a.entered => D.pocRandomAccess = D.prevTid0POC /\ D.prevTid0POC \in Int /\ a.skipsRasl
  BY <1>2, <1>6, <1>7, <1>9, <1>12 DEF DecoderStates
<1>15. Synced(options, D, A, a)
  BY <1>6, <1>7, <1>8, <1>11, <1>13, <1>14 DEF Synced
<1>16. ~A.eosInLastPu
  BY <1>6, <1>9 DEF Before
<1>17. Within(options, D, A, p, h.pos + 1)
  BY <1>6, <1>15, <1>16 DEF Within, a
<1> QED
  BY <1>6, <1>8, <1>17 DEF D, A, a

\* The first slice of a picture that is due.
LEMMA FirstSliceDecoded ==
  ASSUME TypeOK, KnownNotToWork \subseteq Excluded,
         NEW h \in NalUnits, InUnit(h), h.nut = "SLICE", h.pos = HeadLen(h.pic) + 1,
         Written(options, h.pic), h.pic.due,
         Before(options, dec, app, h.pic, h.pos), dec.isFirstSliceInPicture, ~app.eosInPu
  PROVE  /\ Within(options, DecAfter(h), AppAfter(h), h.pic, h.pos + 1)
         /\ h.pic.type # "IDR" /\ ~dec.firstSliceInSequence =>
              DecAfter(h).prevTid0POC - After(h.pic).tid0Poc
                = dec.prevTid0POC - h.pic.at.tid0Poc
<1> DEFINE p == h.pic
           D == DecAfter(h)
           A == AppAfter(h)
           e == p.at
           x == SlicePoc(p)
           y == PreviousTid0POC(dec.prevTid0POC, p, SlicePoc(p))
           a == After(p)
           n == HeadLen(p)
           nobr == NoOutputBeforeRecovery(p)
           clvs == NewCLVS(p)
           ra == IF p.type = "IDR" THEN -MAX_INT
                 ELSE IF dec.pocRandomAccess = MAX_INT THEN x ELSE dec.pocRandomAccess
<1>1. p \in Pictures /\ p.at.num \in Nat /\ p.tid \in {0, 1} /\ Idx(h) = 0
      /\ e.offered \in Nat /\ n \in Nat /\ h.pos = n + 1 /\ h.pos \in 1..UnitLen(p)
      /\ p.type \in Types /\ h = NalUnit(p, h.pos)
  <2>1. p \in Pictures
    BY DEF NalUnits
  <2>2. HeadLen(p) \in Nat
    BY <2>1, UnitLength
  <2>3. h.pos \in 1..UnitLen(p) /\ h = NalUnit(p, h.pos)
    BY InUnitParts
  <2> QED
    BY <2>1, <2>2, <2>3 DEF NalUnits, Pictures, EncoderStates, Idx
<1>2. options \in [skipFrame : Skips, highestTid : HighestTids]
      /\ dec \in DecoderStates /\ app \in LoopStates
  BY DEF TypeOK
<1>3. Synced(options, dec, app, e)
  BY DEF Before
<1>4. p.tid <= options.highestTid /\ p.entered /\ ~(p.type = "RASL" /\ e.skipsRasl)
  BY <1>1, EntryParts
<1>5. Decided(p, 0)
  BY <1>1, <1>3, <1>4, FirstDecision
<1>6. /\ D = SliceDecoded(p, 0)
      /\ A = [app EXCEPT !.newCLVS = clvs, !.picSkipped = FALSE,
                         !.skipFrame = SkipFrameAt(options, a)]
  <2>1. ~IsRandomAccessSkipPicture(p, 0) /\ ~TakenForSkipped(p, 0)
        /\ CountLeft(p, 0) = SkipFrameAt(options, a)
    BY <1>5 DEF Decided
  <2>2. D = SliceDecoded(p, 0)
    BY <1>1, <1>4, <2>1 DEF DecAfter, InTarget
  <2>3. A = [app EXCEPT !.newCLVS = NewCLVS(p), !.picSkipped = TakenForSkipped(p, 0),
                        !.skipFrame = IF TakenForSkipped(p, 0)
                                      THEN CountLeft(p, 0) + 1 ELSE CountLeft(p, 0)]
    BY <1>1, <1>4 DEF AppAfter, InTarget
  <2>4. TakenForSkipped(p, 0) = FALSE
    BY <2>1 DEF TakenForSkipped
  <2> QED
    BY <2>1, <2>2, <2>3, <2>4
<1>7. /\ ~D.isFirstSliceInPicture /\ ~D.firstSliceInSequence
      /\ D.prevTid0POC = y /\ D.pocRandomAccess = ra /\ ~D.prevSliceSkipped
      /\ D.skippedBefore = dec.skippedBefore /\ D.prefixSeis = {}
      /\ D.pic = [pic |-> p, poc |-> x, slices |-> {<<p.num, 0>>},
                  seis |-> dec.prefixSeis, nobr |-> nobr, newCLVS |-> clvs]
      /\ A.skipFrame = SkipFrameAt(options, a) /\ A.eosInPu = app.eosInPu
      /\ A.picListSet = app.picListSet /\ ~A.picSkipped
  BY <1>2, <1>6 DEF DecoderStates, LoopStates, SliceDecoded, HeaderParsed, PictureStarted
<1>8. /\ a.num = p.num /\ p.num > 0 /\ a.offered = p.offered /\ a.afterEos = FALSE
      /\ a.entered = p.entered /\ a.last = IF p.tid = 0 THEN p.type ELSE None
      /\ a.skipsRasl = IF p.type = "CRA" THEN e.afterEos \/ ~e.entered ELSE e.skipsRasl
  BY <1>1, <1>2, AfterParts
<1>9. /\ y \in 0..(a.num + 1) * MaxLsb /\ y % MaxLsb = a.tid0Poc % MaxLsb
      /\ a.last = "IDR" => y = 0
      /\ x - p.poc = y - a.tid0Poc
      /\ p.type # "IDR" /\ ~dec.firstSliceInSequence =>
           y - a.tid0Poc = dec.prevTid0POC - e.tid0Poc
  BY <1>1, <1>3, <1>4, FirstHeader
<1>10. p.offered = e.offered + 1
  BY <1>1, <1>2, <1>4, WrittenParts
<1>11. p.type \notin Entries => ~e.afterEos /\ e.entered
  BY <1>1, <1>4, EntryParts
<1>12. /\ x \in Int /\ x < MAX_INT
       /\ p.type = "IDR" => y = 0
       /\ p.tid = 0 /\ p.type \notin Leading => y = x
       /\ ~(p.tid = 0 /\ p.type \notin Leading) => y = dec.prevTid0POC
       /\ p.type # "IDR" /\ ~dec.firstSliceInSequence =>
            (p.tid = 0 /\ p.type \notin Leading => y >= dec.prevTid0POC + 3)
  BY <1>1, <1>3, FirstPoc
<1>13. /\ dec.firstSliceInSequence <=> ~e.entered \/ (e.afterEos /\ e.lastDue)
       /\ dec.pocRandomAccess = MAX_INT <=> ~e.entered \/ e.afterEos
       /\ e.entered /\ ~e.afterEos =>
            /\ dec.pocRandomAccess <= dec.prevTid0POC
            /\ e.last \in {"CRA", "RASL"} =>
                 IF e.skipsRasl THEN dec.pocRandomAccess = dec.prevTid0POC
                                ELSE dec.pocRandomAccess <= dec.prevTid0POC - 3
  BY <1>3 DEF Synced
<1>14. dec.pocRandomAccess \in Int /\ dec.prevTid0POC \in Int
  BY <1>2 DEF DecoderStates
<1>15. p.type \in {"CRA", "GDR", "IDR"} => p.tid = 0 /\ p.type \notin Leading
  BY <1>1, <1>2, WrittenParts DEF Leading
<1>16. y \in Int
  BY <1>12, <1>14
<1> HIDE DEF D, A, x, y, a, clvs, nobr
<1>17. /\ ra # MAX_INT /\ ra <= y
       /\ p.type = "CRA" => IF e.afterEos \/ ~e.entered THEN ra = y ELSE ra <= y - 3
       /\ p.type = "RASL" => ra <= y - 3
  <2>1. CASE p.type = "IDR"
    BY <2>1, <1>12 DEF MAX_INT
  <2>2. CASE p.type # "IDR" /\ (e.afterEos \/ ~e.entered)
    <3>1. p.type \in {"CRA", "GDR"}
      BY <2>2, <1>11 DEF Entries
    <3>2. ra = x /\ y = x
      BY <2>2, <3>1, <1>12, <1>13, <1>15
    <3> QED
      BY <2>2, <3>1, <3>2, <1>12
  <2>3. CASE p.type # "IDR" /\ ~e.afterEos /\ e.entered
    <3>1. ra = dec.pocRandomAccess /\ ra # MAX_INT /\ ra <= dec.prevTid0POC
          /\ ~dec.firstSliceInSequence
      BY <2>3, <1>13
    <3>2. y >= dec.prevTid0POC
      BY <2>3, <3>1, <1>12, <1>14
    <3>3. p.type = "CRA" => y >= dec.prevTid0POC + 3
      BY <2>3, <3>1, <1>12, <1>15
    <3>4. p.type = "RASL" => ra <= dec.prevTid0POC - 3
      BY <2>3, <3>1, <1>1, <1>4, <1>13, EntryParts
    <3>5. ra \in Int
      BY <3>1, <1>14
    <3> HIDE DEF ra
    <3>6. ra <= y /\ (p.type = "CRA" => ra <= y - 3) /\ (p.type = "RASL" => ra <= y - 3)
      BY <3>1, <3>2, <3>3, <3>4, <3>5, <1>14, <1>16
    <3> QED
      BY <2>3, <3>1, <3>6
  <2> QED
    BY <2>1, <2>2, <2>3
<1> HIDE DEF ra
<1>18. a.offered > 0 /\ (options.skipFrame > 0 => (D.skippedBefore <=> a.offered > 0))
  <2>1. a.offered > 0
    BY <1>1, <1>8, <1>10
  <2>2. e.offered >= options.skipFrame
    BY <1>1, <1>2, WrittenParts
  <2>3. options.skipFrame \in Nat
    BY <1>2, Constants
  <2>4. options.skipFrame > 0 => e.offered > 0
    BY <1>1, <2>2, <2>3
  <2> QED
    BY <2>1, <2>4, <1>3, <1>7 DEF Synced
<1>19. a.last \in {"CRA", "RASL"} =>
         IF a.skipsRasl THEN D.pocRandomAccess = D.prevTid0POC
                        ELSE D.pocRandomAccess <= D.prevTid0POC - 3
  <2>1. a.last \in {"CRA", "RASL"} => p.type = a.last
    BY <1>1, <1>8, Constants DEF Types
  <2> QED
    BY <2>1, <1>4, <1>7, <1>8, <1>17
<1>20. Synced(options, D, A, a)
  BY <1>4, <1>7, <1>8, <1>9, <1>17, <1>18, <1>19 DEF Synced
<1>21. D.pic.slices = {p.num} \X SlicesRead(p, h.pos)
  <2>1. SlicesRead(p, h.pos) = {0}
    BY <1>1, ReadSoFar
  <2> HIDE DEF p
  <2> QED
    BY <1>7, <2>1
<1>22. D.pic.seis = {p.num} \X SeisRead(p, h.pos)
  <2>1. SeisRead(p, h.pos) = SeisRead(p, h.pos - 1)
    BY <1>1, ReadSoFar
  <2>2. dec.prefixSeis = {p.num} \X SeisRead(p, h.pos - 1)
    BY <1>4 DEF Before
  <2> QED
    BY <1>7, <2>1, <2>2
<1>23. p.at.afterEos = EosSeen(p) => D.pic.nobr = Starts(p)
  <2>1. nobr <=> p.type = "IDR" \/ (p.type \in {"CRA", "GDR"} /\ dec.firstSliceInSequence)
    BY DEF nobr, NoOutputBeforeRecovery
  <2>2. Starts(p) <=> p.type = "IDR" \/ e.afterEos \/ ~e.entered
    BY <1>1, <1>4 DEF Starts, Pictures, EncoderStates
  <2>3. EosSeen(p) <=> e.afterEos /\ e.lastDue
    BY DEF EosSeen
  <2>4. p.type \notin {"IDR", "CRA", "GDR"} => ~e.afterEos /\ e.entered
    BY <1>11 DEF Entries
  <2>5. (p.at.afterEos = EosSeen(p)) => (nobr <=> Starts(p))
    BY <2>1, <2>2, <2>3, <2>4, <1>13
  <2>6. nobr \in BOOLEAN /\ Starts(p) \in BOOLEAN
    BY <1>1 DEF nobr, NoOutputBeforeRecovery, Starts, Pictures, EncoderStates
  <2> QED
    BY <2>5, <2>6, <1>7
<1>24. D.pic.newCLVS = (p.type = "IDR" \/ p.at.afterEos)
  <2>1. app.eosInLastPu <=> e.afterEos
    BY DEF Before
  <2>2. e.afterEos => app.newCLVS
    BY DEF Before
  <2>3. clvs = (p.type = "IDR" \/ (app.eosInLastPu /\ (p.type = "CRA" \/ app.newCLVS)))
    BY DEF clvs, NewCLVS
  <2> QED
    BY <2>1, <2>2, <2>3, <1>7
<1>25. D.pic.pic = p /\ D.pic.poc = x
  BY <1>7
<1>26. Decoding(D, p, h.pos)
  BY <1>7, <1>9, <1>21, <1>22, <1>23, <1>24, <1>25 DEF Decoding, a
<1>27. (h.pos + 1) - 1 = h.pos
  BY <1>1
<1>28. Within(options, D, A, p, h.pos + 1)
  BY <1>7, <1>20, <1>26, <1>27 DEF Within, a
<1> QED
  BY <1>7, <1>9, <1>28 DEF D, A, a

\* A later slice.
LEMMA LaterSliceRead ==
  ASSUME TypeOK, KnownNotToWork \subseteq Excluded,
         NEW h \in NalUnits, InUnit(h), h.nut = "SLICE", h.pos > HeadLen(h.pic) + 1,
         Written(options, h.pic), Within(options, dec, app, h.pic, h.pos)
  PROVE  /\ Within(options, DecAfter(h), AppAfter(h), h.pic, h.pos + 1)
         /\ h.pic.entered => DecAfter(h).prevTid0POC = dec.prevTid0POC
<1> DEFINE p == h.pic
           D == DecAfter(h)
           A == AppAfter(h)
           i == Idx(h)
           y == PreviousTid0POC(dec.prevTid0POC, p, SlicePoc(p))
           a == After(p)
           n == HeadLen(p)
           clvs == NewCLVS(p)
<1>1. /\ p \in Pictures /\ n \in Nat /\ i \in Nat /\ i # 0 /\ i = h.pos - n - 1
      /\ h.pos \in 1..UnitLen(p) /\ h = NalUnit(p, h.pos) /\ h.pos <= n + p.layout.slices
      /\ p.layout.slices \in Nat \ {0}
  <2>1. p \in Pictures
    BY DEF NalUnits
  <2>2. n \in Nat /\ p.layout.slices \in Nat \ {0}
    BY <2>1, UnitLength
  <2>3. h.pos \in 1..UnitLen(p) /\ h = NalUnit(p, h.pos) /\ h.pos <= n + p.layout.slices
    BY InUnitParts
  <2>4. i = h.pos - n - 1 /\ h.pos \in Nat
    BY DEF Idx, NalUnits
  <2> HIDE DEF i, n
  <2>5. i \in Nat /\ i # 0
    BY <2>2, <2>4 DEF n
  <2> QED
    BY <2>1, <2>2, <2>3, <2>4, <2>5
<1>2. options \in [skipFrame : Skips, highestTid : HighestTids]
      /\ dec \in DecoderStates /\ app \in LoopStates
      /\ options.highestTid \in {0, 1} /\ p.tid \in {0, 1}
  BY <1>1, Constants DEF TypeOK, Pictures
<1>3. Synced(options, dec, app, a)
  BY DEF Within
<1>4. /\ a.num = p.num /\ a.entered = p.entered /\ a.afterEos = FALSE /\ p.num > 0
      /\ a.last = IF p.tid = 0 THEN p.type ELSE None
  BY <1>1, <1>2, AfterParts
<1>5. dec.firstSliceInSequence <=> ~p.entered
  BY <1>3, <1>4 DEF Synced
<1>6. /\ y \in 0..(a.num + 1) * MaxLsb /\ y % MaxLsb = a.tid0Poc % MaxLsb
      /\ p.type = "IDR" => y = 0
      /\ p.entered => y = dec.prevTid0POC
  BY <1>1, <1>3, <1>4, <1>5, LaterPoc
<1>7. a.last = "IDR" => p.type = "IDR"
  BY <1>4, Constants DEF Types
<1>8. CASE ~(p.tid <= options.highestTid)
  <2>1. /\ D = [dec EXCEPT !.isFirstSliceInPicture = FALSE]
        /\ A = [app EXCEPT !.newCLVS = clvs, !.picSkipped = TRUE]
    BY <1>8 DEF DecAfter, AppAfter, InTarget
  <2>2. /\ ~D.isFirstSliceInPicture /\ D.firstSliceInSequence = dec.firstSliceInSequence
        /\ D.prevTid0POC = dec.prevTid0POC /\ D.pocRandomAccess = dec.pocRandomAccess
        /\ D.skippedBefore = dec.skippedBefore /\ D.prefixSeis = dec.prefixSeis
        /\ A.skipFrame = app.skipFrame /\ A.eosInPu = app.eosInPu
        /\ A.picListSet = app.picListSet /\ A.picSkipped
    BY <1>2, <2>1 DEF DecoderStates, LoopStates
  <2>3. ~p.due
    BY <1>1, <1>2, <1>8, EntryParts
  <2> HIDE DEF D, A
  <2>4. Synced(options, D, A, a)
    BY <1>3, <2>2 DEF Synced
  <2>5. Within(options, D, A, p, h.pos + 1)
    BY <2>2, <2>3, <2>4 DEF Within
  <2> QED
    BY <2>2, <2>5 DEF D, A
<1>9. CASE p.tid <= options.highestTid
  <2>1. Decided(p, i)
    BY <1>1, <1>3, <1>9, LaterDecision
  <2>2. /\ D = IF p.due THEN SliceDecoded(p, i) ELSE SliceSkipped(p)
        /\ A = [app EXCEPT !.newCLVS = clvs, !.picSkipped = ~p.due,
                           !.skipFrame = SkipFrameAt(options, a)]
    <3>1. D = IF IsRandomAccessSkipPicture(p, i) THEN SliceSkipped(p) ELSE SliceDecoded(p, i)
      BY <1>9 DEF DecAfter, InTarget
    <3>2. A = [app EXCEPT !.newCLVS = NewCLVS(p), !.picSkipped = TakenForSkipped(p, i),
                          !.skipFrame = IF TakenForSkipped(p, i)
                                        THEN CountLeft(p, i) + 1 ELSE CountLeft(p, i)]
      BY <1>9 DEF AppAfter, InTarget
    <3>3. TakenForSkipped(p, i) = (~p.due)
      BY <2>1 DEF Decided, TakenForSkipped
    <3> QED
      BY <2>1, <3>1, <3>2, <3>3 DEF Decided
  <2>3. /\ D.firstSliceInSequence = (IF p.due THEN FALSE ELSE dec.firstSliceInSequence)
        /\ D.prevTid0POC = y /\ D.prefixSeis = {}
        /\ ~p.due => D.pocRandomAccess = dec.pocRandomAccess
        /\ D.isFirstSliceInPicture = (IF p.due THEN FALSE ELSE dec.isFirstSliceInPicture)
        /\ p.due => ~D.prevSliceSkipped
        /\ p.due => D.pocRandomAccess =
             IF p.type = "IDR" THEN -MAX_INT
             ELSE IF dec.pocRandomAccess = MAX_INT THEN SlicePoc(p) ELSE dec.pocRandomAccess
        /\ ~p.due => D.skippedBefore
        /\ p.due => D.skippedBefore = dec.skippedBefore
        /\ A.skipFrame = SkipFrameAt(options, a) /\ A.eosInPu = app.eosInPu
        /\ A.picListSet = app.picListSet /\ A.picSkipped = ~p.due
        /\ A.eosInLastPu = app.eosInLastPu
    <3>1. /\ A.skipFrame = SkipFrameAt(options, a) /\ A.eosInPu = app.eosInPu
          /\ A.picListSet = app.picListSet /\ A.picSkipped = ~p.due
          /\ A.eosInLastPu = app.eosInLastPu
      BY <1>2, <2>2 DEF LoopStates
    <3>2. CASE p.due
      <4>1. D = SliceDecoded(p, i)
        BY <2>2, <3>2
      <4>2. DecodedFields(D, p, i)
        BY <1>2, <4>1, SliceFields
      <4> HIDE DEF D, A
      <4> QED
        BY <3>1, <3>2, <4>2 DEF DecodedFields
    <3>3. CASE ~p.due
      <4>1. D = SliceSkipped(p)
        BY <2>2, <3>3
      <4>2. SkippedFields(D, p)
        BY <1>2, <4>1, SliceFields
      <4> HIDE DEF D, A
      <4> QED
        BY <3>1, <3>3, <4>2 DEF SkippedFields
    <3> QED
      BY <3>2, <3>3
  <2>4. p.due => p.entered
    BY <1>1, EntryParts
  <2>5. /\ D.firstSliceInSequence <=> ~p.entered
        /\ A.picListSet => p.entered
    BY <1>3, <1>4, <1>5, <2>3, <2>4 DEF Synced
  <2>6. options.skipFrame > 0 => (D.skippedBefore <=> a.offered > 0)
    <3>1. a.offered > 0
      <4>1. a.offered = p.offered
        BY <1>1, <1>2, AfterParts
      <4>2. p.offered = p.at.offered + 1
        BY <1>1, <1>2, <1>9, WrittenParts
      <4>3. p.at.offered \in Nat
        BY <1>1 DEF Pictures, EncoderStates
      <4> QED
        BY <4>1, <4>2, <4>3
    <3> QED
      BY <3>1, <1>3, <2>3 DEF Synced
  <2>7. /\ D.pocRandomAccess = MAX_INT <=> ~p.entered
        /\ p.entered =>
             /\ D.pocRandomAccess <= D.prevTid0POC
             /\ a.last \in {"CRA", "RASL"} =>
                  IF a.skipsRasl THEN D.pocRandomAccess = D.prevTid0POC
                                 ELSE D.pocRandomAccess <= D.prevTid0POC - 3
    <3>1. /\ dec.pocRandomAccess = MAX_INT <=> ~p.entered
          /\ p.entered =>
               /\ dec.pocRandomAccess <= dec.prevTid0POC
               /\ a.last \in {"CRA", "RASL"} =>
                    IF a.skipsRasl THEN dec.pocRandomAccess = dec.prevTid0POC
                                   ELSE dec.pocRandomAccess <= dec.prevTid0POC - 3
      BY <1>3, <1>4 DEF Synced
    <3>2. CASE ~p.due
      BY <3>1, <3>2, <1>6, <2>3
    <3>3. CASE p.due /\ p.type = "IDR"
      <4>1. D.pocRandomAccess = -MAX_INT /\ D.prevTid0POC = 0
        BY <3>3, <1>6, <2>3
      <4>2. a.last \notin {"CRA", "RASL"}
        BY <3>3, <1>4, Constants DEF Types
      <4> QED
        BY <3>3, <2>4, <4>1, <4>2 DEF MAX_INT
    <3>4. CASE p.due /\ p.type # "IDR"
      BY <3>1, <3>4, <1>6, <2>3, <2>4
    <3> QED
      BY <3>2, <3>3, <3>4
  <2> HIDE DEF D, A, y
  <2>8. Synced(options, D, A, a)
    BY <1>4, <1>6, <1>7, <2>3, <2>5, <2>6, <2>7 DEF Synced
  <2>9. ASSUME p.due PROVE Decoding(D, p, h.pos)
    <3>1. ~dec.isFirstSliceInPicture /\ Decoding(dec, p, h.pos - 1)
      BY <2>9 DEF Within
    <3>2. dec.prefixSeis = {} /\ dec.pic \in DecodedPictures
      BY <1>2 DEF Within, DecoderStates
    <3>3. D = SliceDecoded(p, i)
      BY <2>2, <2>9
    <3>4. /\ D.pic.pic = dec.pic.pic /\ D.pic.poc = dec.pic.poc /\ D.pic.nobr = dec.pic.nobr
          /\ D.pic.newCLVS = dec.pic.newCLVS /\ D.pic.seis = dec.pic.seis
          /\ D.pic.slices = dec.pic.slices \cup {<<p.num, i>>}
      <4>1. DecodedFields(D, p, i)
        BY <1>2, <3>3, SliceFields
      <4> QED
        BY <3>1, <3>2, <4>1 DEF DecodedFields
    <3>5. D.prevTid0POC = dec.prevTid0POC
      BY <1>6, <2>3, <2>4, <2>9
    <3>6. SlicesRead(p, h.pos) = SlicesRead(p, h.pos - 1) \cup {i}
      BY <1>1, ReadSoFar
    <3>7. SeisRead(p, h.pos) = SeisRead(p, h.pos - 1)
      BY <1>1, ReadSoFar
    <3>8. D.pic.slices = {p.num} \X SlicesRead(p, h.pos)
      <4>1. dec.pic.slices = {p.num} \X SlicesRead(p, h.pos - 1)
        BY <3>1 DEF Decoding
      <4> HIDE DEF p, i
      <4> QED
        BY <3>4, <3>6, <4>1
    <3>9. D.pic.seis = {p.num} \X SeisRead(p, h.pos)
      BY <3>1, <3>4, <3>7 DEF Decoding
    <3> QED
      BY <3>1, <3>4, <3>5, <3>8, <3>9 DEF Decoding
  <2>10. (h.pos + 1) - 1 = h.pos
    BY <1>1
  <2>11. ~A.eosInPu /\ (D.isFirstSliceInPicture => ~A.eosInLastPu)
    BY <2>3 DEF Within
  <2>12. Within(options, D, A, p, h.pos + 1)
    BY <2>3, <2>8, <2>9, <2>10, <2>11 DEF Within
  <2> QED
    BY <1>6, <2>3, <2>12 DEF D, A
<1> QED
  BY <1>8, <1>9

\* A suffix SEI message.
LEMMA SuffixRead ==
  ASSUME TypeOK, NEW h \in NalUnits, InUnit(h), h.nut = "SUFFIX_SEI",
         Written(options, h.pic), Within(options, dec, app, h.pic, h.pos)
  PROVE  /\ Within(options, DecAfter(h), AppAfter(h), h.pic, h.pos + 1)
         /\ DecAfter(h).prevTid0POC = dec.prevTid0POC
<1> DEFINE p == h.pic
           D == DecAfter(h)
           A == AppAfter(h)
<1>1. /\ p \in Pictures /\ h.pos \in 1..UnitLen(p) /\ h = NalUnit(p, h.pos)
      /\ h.pos > HeadLen(p) + p.layout.slices
      /\ HeadLen(p) \in Nat /\ p.layout.slices \in Nat \ {0}
  <2>1. p \in Pictures
    BY DEF NalUnits
  <2> QED
    BY <2>1, InUnitParts, UnitLength
<1>2. dec \in DecoderStates /\ app \in LoopStates /\ dec.pic \in DecodedPictures
  BY DEF TypeOK, DecoderStates
<1>3. /\ D = IF p.tid <= options.highestTid /\ dec.pic # NoPicture /\ ~dec.prevSliceSkipped
             THEN [dec EXCEPT !.pic.seis = @ \cup {<<p.num, h.nut>>}] ELSE dec
      /\ A = IF p.tid <= options.highestTid THEN app ELSE [app EXCEPT !.picSkipped = TRUE]
  BY DEF DecAfter, AppAfter, InTarget
<1>4. /\ D.isFirstSliceInPicture = dec.isFirstSliceInPicture
      /\ D.firstSliceInSequence = dec.firstSliceInSequence
      /\ D.prevTid0POC = dec.prevTid0POC /\ D.pocRandomAccess = dec.pocRandomAccess
      /\ D.skippedBefore = dec.skippedBefore /\ D.prefixSeis = dec.prefixSeis
      /\ D.prevSliceSkipped = dec.prevSliceSkipped
      /\ A.skipFrame = app.skipFrame /\ A.eosInPu = app.eosInPu
      /\ A.eosInLastPu = app.eosInLastPu /\ A.picListSet = app.picListSet
      /\ A.picSkipped = IF p.tid <= options.highestTid THEN app.picSkipped ELSE TRUE
  BY <1>2, <1>3 DEF DecoderStates, LoopStates
<1> HIDE DEF A
<1>5. Synced(options, D, A, After(p))
  BY <1>4 DEF Within, Synced
<1>6. ASSUME p.due PROVE Decoding(D, p, h.pos)
  <2>1. p.tid <= options.highestTid /\ ~dec.prevSliceSkipped /\ Decoding(dec, p, h.pos - 1)
    BY <1>1, <1>6, EntryParts DEF Within
  <2>2. dec.pic # NoPicture
    <3>1. 0 \in SlicesRead(p, h.pos - 1)
      <4>1. h.pos - 1 \in Nat /\ h.pos - 1 > HeadLen(p)
        BY <1>1
      <4> QED
        BY <1>1, <4>1, ReadSoFar
    <3>2. dec.pic.slices = {p.num} \X SlicesRead(p, h.pos - 1)
      BY <2>1 DEF Decoding
    <3>3. <<p.num, 0>> \in dec.pic.slices
      BY <3>1, <3>2
    <3>4. NoPicture.slices = {}
      BY DEF NoPicture
    <3>5. dec.pic.slices # NoPicture.slices
      BY <3>3, <3>4
    <3> QED
      BY <3>5
  <2>3. D = [dec EXCEPT !.pic.seis = @ \cup {<<p.num, h.nut>>}]
    BY <1>3, <2>1, <2>2
  <2>4. D.pic = [dec.pic EXCEPT !.seis = @ \cup {<<p.num, h.nut>>}]
    BY <1>2, <2>3 DEF DecoderStates
  <2>5. /\ D.pic.pic = dec.pic.pic /\ D.pic.poc = dec.pic.poc /\ D.pic.nobr = dec.pic.nobr
        /\ D.pic.newCLVS = dec.pic.newCLVS /\ D.pic.slices = dec.pic.slices
        /\ D.pic.seis = dec.pic.seis \cup {<<p.num, h.nut>>}
    BY <1>2, <2>4 DEF DecodedPictures
  <2>6. /\ SeisRead(p, h.pos) = SeisRead(p, h.pos - 1) \cup {h.nut}
        /\ SlicesRead(p, h.pos) = SlicesRead(p, h.pos - 1)
    <3>1. SeisRead(p, h.pos) = SeisRead(p, h.pos - 1)
                               \cup ({h.nut} \cap {"PREFIX_SEI", "SUFFIX_SEI"})
      <4>1. \A n \in 1..UnitLen(p) :
              SeisRead(p, n) = SeisRead(p, n - 1)
                               \cup ({NalUnit(p, n).nut} \cap {"PREFIX_SEI", "SUFFIX_SEI"})
        BY <1>1, ReadSoFar
      <4>2. NalUnit(p, h.pos).nut = h.nut
        BY <1>1
      <4> QED
        BY <1>1, <4>1, <4>2
    <3>2. {h.nut} \cap {"PREFIX_SEI", "SUFFIX_SEI"} = {h.nut}
      OBVIOUS
    <3>3. SlicesRead(p, h.pos) = SlicesRead(p, h.pos - 1)
      BY <1>1, ReadSoFar
    <3> QED
      BY <3>1, <3>2, <3>3
  <2>7. D.pic.seis = {p.num} \X SeisRead(p, h.pos)
    <3>1. dec.pic.seis = {p.num} \X SeisRead(p, h.pos - 1)
      BY <2>1 DEF Decoding
    <3> HIDE DEF p, D
    <3> QED
      BY <2>5, <2>6, <3>1
  <2> HIDE DEF D
  <2> QED
    BY <1>4, <2>1, <2>5, <2>6, <2>7 DEF Decoding
<1> HIDE DEF D
<1>7. (h.pos + 1) - 1 = h.pos
  BY <1>1
<1>8. p.due => p.tid <= options.highestTid
  BY <1>1, EntryParts
<1>9. /\ D.prefixSeis = {} /\ ~A.eosInPu
      /\ D.isFirstSliceInPicture => ~A.eosInLastPu
      /\ p.due => ~D.isFirstSliceInPicture /\ ~A.picSkipped /\ ~D.prevSliceSkipped
      /\ ~p.due => A.picSkipped
  BY <1>4, <1>8 DEF Within
<1>10. Within(options, D, A, p, h.pos + 1)
  BY <1>5, <1>6, <1>7, <1>9 DEF Within
<1> QED
  BY <1>4, <1>10 DEF D, A

-----------------------------------------------------------------------------
(* Where the decoder is.                                                    *)

\* The NAL unit that comes next.
LEMMA HeadParts ==
  ASSUME TypeOK, StreamOK, file # << >>
  PROVE  LET h == Head(file)
         IN /\ h \in NalUnits /\ h = file[1] /\ InUnit(h) /\ h.pic \in Pictures
            /\ Written(options, h.pic) /\ 1 \in 1..Len(file) /\ FileOK(options, file)
<1>1. file \in Seq(NalUnits) /\ FileOK(options, file)
  BY DEF TypeOK, StreamOK
<1>2. Len(file) \in Nat \ {0} /\ Head(file) = file[1] /\ file[1] \in NalUnits
  BY <1>1, TailParts
<1>3. 1 \in 1..Len(file)
  BY <1>2
<1>4. InUnit(file[1]) /\ Written(options, file[1].pic)
  BY <1>1, <1>3 DEF FileOK
<1> QED
  BY <1>1, <1>2, <1>3, <1>4 DEF NalUnits

\* isNewPicture sees a picture only at the first NAL unit of one.
LEMMA NewPictureAt ==
  ASSUME TypeOK, StreamOK, DecoderOK, IsNewPicture
  PROVE  LET h == Head(file)
         IN /\ file # << >> /\ h.pos = 1 /\ InHead(h) /\ ~dec.isFirstSliceInPicture
            /\ Before(options, dec, app, h.pic, 1)
<1> DEFINE h == Head(file)
           p == h.pic
<1>1. file \in Seq(NalUnits)
  BY DEF TypeOK
<1>2. PICK i \in DOMAIN file :
         BeginsPicture(file[i]) /\ \A j \in 1..(i - 1) : file[j].nut = "PREFIX_SEI"
  BY DEF IsNewPicture
<1>3. file # << >> /\ i \in Nat \ {0}
  BY <1>1, <1>2
<1>4. /\ h \in NalUnits /\ h = file[1] /\ InUnit(h) /\ p \in Pictures
  BY <1>3, HeadParts
<1>5. h.nut = "PREFIX_SEI" \/ BeginsPicture(h)
  <2>1. CASE i = 1
    BY <2>1, <1>2, <1>4
  <2>2. CASE i # 1
    <3>1. 1 \in 1..(i - 1)
      BY <2>2, <1>3
    <3> QED
      BY <3>1, <1>2, <1>4
  <2> QED
    BY <2>1, <2>2
<1>6. p.layout \in Layouts /\ HeadLen(p) \in Nat /\ p.layout.slices \in Nat \ {0}
      /\ h.pos \in Nat \ {0}
  BY <1>4, UnitLength DEF NalUnits
<1>7. h.nut \in {"PREFIX_SEI", "PH"} \/ (h.nut = "SLICE" /\ p.layout.slices = 1)
  <2>1. h.nut \in Nuts
    BY <1>4 DEF NalUnits
  <2> QED
    BY <2>1, <1>5, <1>6, LayoutParts DEF BeginsPicture, Nuts
<1>8. InHead(h)
  <2>1. h.pos <= HeadLen(p) \/ h.pos <= HeadLen(p) + 1
    BY <1>4, <1>7, InUnitParts
  <2> QED
    BY <2>1, <1>6 DEF InHead
<1>9. ~dec.isFirstSliceInPicture
  BY DEF IsNewPicture
<1>10. Before(options, dec, app, p, h.pos)
  BY <1>3, <1>8 DEF DecoderOK
<1>11. h.pos = 1
  BY <1>9, <1>10 DEF Before
<1> QED
  BY <1>3, <1>8, <1>9, <1>10, <1>11

\* The loop reads a NAL unit before the slices, or the first slice, only
\* between pictures.
LEMMA ReadingAt ==
  ASSUME TypeOK, StreamOK, DecoderOK, file # << >>, ~IsNewPicture, InHead(Head(file))
  PROVE  /\ dec.isFirstSliceInPicture /\ ~Pending(dec, app)
         /\ Before(options, dec, app, Head(file).pic, Head(file).pos)
<1>1. Before(options, dec, app, Head(file).pic, Head(file).pos)
  BY DEF DecoderOK
<1>2. ASSUME ~dec.isFirstSliceInPicture PROVE FALSE
  <2>1. Head(file).pos = 1
    BY <1>1, <1>2 DEF Before
  <2>2. FileOK(options, file) /\ file \in Seq(NalUnits) /\ file[1].pos = 1
    BY <2>1, HeadParts DEF TypeOK
  <2>3. \E i \in DOMAIN file :
          BeginsPicture(file[i]) /\ \A j \in 1..(i - 1) : file[j].nut = "PREFIX_SEI"
    BY <2>2, UnitBegins
  <2> QED
    BY <1>2, <2>3 DEF IsNewPicture
<1> QED
  BY <1>1, <1>2 DEF Pending

\* Any NAL unit but an EOS, when no EOS came before it in its unit.
LEMMA NalUnitRead ==
  ASSUME TypeOK, KnownNotToWork \subseteq Excluded, StreamOK, DecoderOK,
         file # << >>, ~IsNewPicture, Head(file).nut # "EOS", ~app.eosInPu
  PROVE  LET h == Head(file)
             p == h.pic
             D == DecAfter(h)
             A == AppAfter(h)
         IN /\ h.pos <= HeadLen(p) =>
                 /\ Before(options, D, A, p, h.pos + 1)
                 /\ FinishedAt(finished, D, p.at) /\ D.isFirstSliceInPicture
            /\ h.pos > HeadLen(p) =>
                 /\ Within(options, D, A, p, h.pos + 1)
                 /\ FinishedAt(finished, D, After(p))
<1> DEFINE h == Head(file)
           p == h.pic
           D == DecAfter(h)
           A == AppAfter(h)
<1>1. h \in NalUnits /\ InUnit(h) /\ p \in Pictures /\ Written(options, p)
  BY HeadParts
<1>2. HeadLen(p) \in Nat /\ p.layout.slices \in Nat \ {0} /\ h.pos \in Nat \ {0}
      /\ p.tid \in {0, 1} /\ options.highestTid \in {0, 1}
  BY <1>1, UnitLength, Constants DEF NalUnits, TypeOK, Pictures
<1>3. FinishedAt(finished, dec, Position)
  BY DEF DecoderOK, FinishedOK
<1>4. ASSUME h.pos <= HeadLen(p)
      PROVE  /\ Before(options, D, A, p, h.pos + 1)
             /\ FinishedAt(finished, D, p.at) /\ D.isFirstSliceInPicture
  <2>1. InHead(h)
    BY <1>2, <1>4 DEF InHead
  <2>2. /\ dec.isFirstSliceInPicture
        /\ Before(options, dec, app, p, h.pos)
    BY <2>1, ReadingAt
  <2>3. /\ Before(options, D, A, p, h.pos + 1)
        /\ D.isFirstSliceInPicture /\ D.prevTid0POC = dec.prevTid0POC
    BY <1>1, <1>4, <2>2, HeadRead
  <2>4. FinishedAt(finished, dec, p.at)
    BY <2>1, <1>3 DEF Position
  <2> HIDE DEF D
  <2>5. FinishedAt(finished, D, p.at)
    BY <2>3, <2>4 DEF FinishedAt
  <2> QED
    BY <2>3, <2>5
<1>5. ASSUME h.pos > HeadLen(p)
      PROVE  /\ Within(options, D, A, p, h.pos + 1)
             /\ FinishedAt(finished, D, After(p))
  <2>1. CASE h.pos = HeadLen(p) + 1
    <3>1. InHead(h)
      BY <1>2, <2>1 DEF InHead
    <3>2. /\ dec.isFirstSliceInPicture /\ Before(options, dec, app, p, h.pos)
      BY <3>1, ReadingAt
    <3>3. Synced(options, dec, app, p.at)
      BY <3>2 DEF Before
    <3>4. FinishedAt(finished, dec, p.at)
      BY <3>1, <1>3 DEF Position
    <3>5. h.nut = "SLICE"
      BY <1>1, <1>2, <2>1, InUnitParts
    <3>6. /\ Within(options, D, A, p, h.pos + 1)
          /\ p.type # "IDR" /\ ~dec.firstSliceInSequence =>
               D.prevTid0POC - After(p).tid0Poc = dec.prevTid0POC - p.at.tid0Poc
      <4>1. CASE p.tid > options.highestTid
        <5>1. dec.prefixSeis = {}
          BY <1>2, <3>2, <4>1 DEF Before
        <5> QED
          BY <1>1, <3>3, <3>5, <4>1, <5>1, FirstSliceLeft
      <4>2. CASE p.tid <= options.highestTid /\ ~p.due
        BY <1>1, <2>1, <3>2, <3>5, <4>2, FirstSliceSkipped
      <4>3. CASE p.due
        BY <1>1, <2>1, <3>2, <3>5, <4>3, FirstSliceDecoded
      <4> QED
        BY <1>2, <4>1, <4>2, <4>3
    <3> HIDE DEF D, A
    <3>7. FinishedAt(finished, D, After(p))
      BY <1>1, <3>3, <3>4, <3>6, FinishedAfter
    <3> QED
      BY <3>6, <3>7
  <2>2. CASE h.pos > HeadLen(p) + 1
    <3>1. ~InHead(h)
      BY <1>2, <2>2 DEF InHead
    <3>2. Within(options, dec, app, p, h.pos)
      BY <3>1 DEF DecoderOK
    <3>3. FinishedAt(finished, dec, After(p))
      BY <3>1, <1>3 DEF Position
    <3>4. After(p).entered = p.entered
      BY DEF After
    <3>5. h.nut \in {"SLICE", "SUFFIX_SEI"}
      <4>1. h.nut \in Nuts /\ ~(h.pos <= HeadLen(p))
        BY <1>1, <1>2, <1>5 DEF NalUnits
      <4>2. h.nut \notin {"PREFIX_SEI", "PH"}
        BY <1>1, <4>1, InUnitParts
      <4> QED
        BY <4>1, <4>2 DEF Nuts
    <3>6. /\ Within(options, D, A, p, h.pos + 1)
          /\ p.entered => D.prevTid0POC = dec.prevTid0POC
      <4>1. CASE h.nut = "SLICE"
        BY <1>1, <2>2, <3>2, <4>1, LaterSliceRead
      <4>2. CASE h.nut = "SUFFIX_SEI"
        BY <1>1, <3>2, <4>2, SuffixRead
      <4> QED
        BY <3>5, <4>1, <4>2
    <3> HIDE DEF D, A
    <3>7. FinishedAt(finished, D, After(p))
      BY <3>3, <3>4, <3>6 DEF FinishedAt
    <3> QED
      BY <3>6, <3>7
  <2> QED
    BY <1>2, <1>5, <2>1, <2>2
<1> QED
  BY <1>4, <1>5

-----------------------------------------------------------------------------
(* The end of a unit.                                                       *)

\* The picture that was decoded is pending when its unit ends.
LEMMA UnitDone ==
  ASSUME NEW o \in [skipFrame : Skips, highestTid : HighestTids], NEW d, NEW a,
         NEW p \in Pictures, Written(o, p), Within(o, d, a, p, UnitLen(p) + 1)
  PROVE  /\ ~d.firstSliceInSequence /\ ~a.picSkipped <=> p.due
         /\ d.firstSliceInSequence <=> ~p.entered
         /\ p.due => Decoding(d, p, UnitLen(p)) /\ ~d.isFirstSliceInPicture /\ p.entered
         /\ Synced(o, d, a, After(p))
<1>1. /\ After(p).afterEos = FALSE /\ After(p).entered = p.entered
      /\ p.due => p.entered
      /\ (UnitLen(p) + 1) - 1 = UnitLen(p)
  <2>1. UnitLen(p) \in Nat
    BY UnitLength
  <2>2. (UnitLen(p) + 1) - 1 = UnitLen(p)
    BY <2>1
  <2>3. p.due => p.entered
    BY WrittenParts
  <2>4. After(p).afterEos = FALSE /\ After(p).entered = p.entered
    BY DEF After
  <2> QED
    BY <2>2, <2>3, <2>4
<1>2. /\ d.firstSliceInSequence <=> ~p.entered
      /\ Synced(o, d, a, After(p))
  BY <1>1 DEF Within, Synced
<1>3. IF p.due
      THEN /\ ~d.isFirstSliceInPicture /\ ~a.picSkipped
           /\ Decoding(d, p, UnitLen(p))
      ELSE a.picSkipped
  BY <1>1 DEF Within
<1> QED
  BY <1>1, <1>2, <1>3

\* The next unit follows at once.
LEMMA NextUnit ==
  ASSUME NEW o \in [skipFrame : Skips, highestTid : HighestTids], NEW d, NEW a,
         NEW p \in Pictures, Written(o, p), Within(o, d, a, p, UnitLen(p) + 1),
         NEW q \in Pictures, q.at = After(p)
  PROVE  Before(o, d, a, q, 1) /\ (Pending(d, a) <=> p.due)
<1>1. /\ ~d.firstSliceInSequence /\ ~a.picSkipped <=> p.due
      /\ p.due => Decoding(d, p, UnitLen(p)) /\ ~d.isFirstSliceInPicture
      /\ Synced(o, d, a, q.at)
  BY UnitDone
<1>2. Pending(d, a) <=> p.due
  BY <1>1 DEF Pending
<1>3. q.at.afterEos = FALSE
  BY AfterParts
<1>4. d.prefixSeis = {} /\ ~a.eosInPu /\ (d.isFirstSliceInPicture => ~a.eosInLastPu)
  BY DEF Within
<1>5. SeisRead(q, 1 - 1) = {}
  BY ReadSoFar
<1>6. ASSUME p.due PROVE PendingOK(o, d, q.at)
  <2>1. d.pic.pic = p
    BY <1>1, <1>6 DEF Decoding
  <2> QED
    BY <1>1, <1>6, <2>1 DEF PendingOK
<1>7. d.prefixSeis = IF q.tid <= o.highestTid THEN {q.num} \X SeisRead(q, 1 - 1) ELSE {}
  BY <1>4, <1>5
<1> QED
  BY <1>1, <1>2, <1>3, <1>4, <1>6, <1>7 DEF Before

\* The encoder state after an EOS.
LEMMA AfterEosParts ==
  ASSUME NEW e \in EncoderStates
  PROVE  LET f == AfterEos(e)
         IN /\ f.num = e.num /\ f.offered = e.offered /\ f.tid0Poc = e.tid0Poc
            /\ f.last = None /\ f.cvs = e.cvs /\ f.afterEos = TRUE
            /\ f.entered = e.entered /\ f.skipsRasl = e.skipsRasl
            /\ f.lastDue = e.lastDue
BY DEF AfterEos, EncoderStates

\* What reading an EOS leaves.
LEMMA EosRead ==
  ASSUME TypeOK, NEW h \in NalUnits, InUnit(h), h.nut = "EOS", Written(options, h.pic),
         Within(options, dec, app, h.pic, h.pos), NEW eof \in BOOLEAN,
         EndOfPicture(DecAfter(h), AppAfter(h), TRUE, eof)
  PROVE  LET p == h.pic
             D == DecAfter(h)
         IN /\ D.pic = dec.pic /\ D.prevTid0POC = dec.prevTid0POC
            /\ dec'.prevTid0POC = dec.prevTid0POC /\ ~Pending(dec', app')
            /\ p.due => Decoding(D, p, UnitLen(p))
            /\ p.due /\ ~eof => Finish(D)
            /\ ~p.due => UNCHANGED <<finished, missing>>
            /\ Finish(D) \/ UNCHANGED <<finished, missing>>
            /\ \A q \in Pictures :
                 q.at = AfterEos(After(p)) => Before(options, dec', app', q, 1)
<1> DEFINE p == h.pic
           D == DecAfter(h)
           A == AppAfter(h)
           e == After(p)
           f == AfterEos(e)
           decoded == ~D.firstSliceInSequence /\ ~A.picSkipped
           finishes == decoded /\ (~A.loopFiltered \/ ~eof)
           picListSet == A.picListSet \/ finishes
<1>1. p \in Pictures /\ h.pos = UnitLen(p) + 1
  BY InUnitParts
<1>2. dec \in DecoderStates /\ app \in LoopStates
      /\ options \in [skipFrame : Skips, highestTid : HighestTids]
  BY DEF TypeOK
<1>3. /\ ~dec.firstSliceInSequence /\ ~app.picSkipped <=> p.due
      /\ dec.firstSliceInSequence <=> ~p.entered
      /\ p.due => Decoding(dec, p, UnitLen(p)) /\ ~dec.isFirstSliceInPicture /\ p.entered
      /\ Synced(options, dec, app, e)
  BY <1>1, <1>2, UnitDone
<1>4. /\ D = [dec EXCEPT !.pocRandomAccess = MAX_INT, !.prevSliceSkipped = FALSE]
      /\ A = [app EXCEPT !.eosInPu = TRUE, !.newCLVS = TRUE]
  BY DEF DecAfter, AppAfter, InTarget, EosDecoded
<1>5. /\ D.isFirstSliceInPicture = dec.isFirstSliceInPicture /\ D.pic = dec.pic
      /\ D.firstSliceInSequence = dec.firstSliceInSequence
      /\ D.prevTid0POC = dec.prevTid0POC /\ D.pocRandomAccess = MAX_INT
      /\ D.skippedBefore = dec.skippedBefore /\ D.prefixSeis = dec.prefixSeis
      /\ A.skipFrame = app.skipFrame /\ A.eosInPu /\ A.newCLVS
      /\ A.picListSet = app.picListSet /\ A.picSkipped = app.picSkipped
      /\ D \in DecoderStates /\ A \in LoopStates
  <2>1. D \in DecoderStates /\ A \in LoopStates
    <3>1. \A r \in Int, s \in BOOLEAN :
            [dec EXCEPT !.pocRandomAccess = r, !.prevSliceSkipped = s] \in DecoderStates
      BY <1>2 DEF DecoderStates
    <3>2. D \in DecoderStates
      <4>1. MAX_INT \in Int
        BY DEF MAX_INT
      <4> QED
        BY <1>4, <3>1, <4>1, Zenon
    <3>3. A \in LoopStates
      BY <1>2, <1>4 DEF LoopStates
    <3> QED
      BY <3>2, <3>3
  <2>2. /\ D.isFirstSliceInPicture = dec.isFirstSliceInPicture /\ D.pic = dec.pic
        /\ D.firstSliceInSequence = dec.firstSliceInSequence
        /\ D.prevTid0POC = dec.prevTid0POC /\ D.pocRandomAccess = MAX_INT
        /\ D.skippedBefore = dec.skippedBefore /\ D.prefixSeis = dec.prefixSeis
    BY <1>2, <1>4 DEF DecoderStates
  <2>3. /\ A.skipFrame = app.skipFrame /\ A.eosInPu /\ A.newCLVS
        /\ A.picListSet = app.picListSet /\ A.picSkipped = app.picSkipped
    BY <1>2, <1>4 DEF LoopStates
  <2> QED
    BY <2>1, <2>2, <2>3
<1>6. /\ IF finishes THEN Finish(D) ELSE UNCHANGED <<finished, missing>>
      /\ dec' = [D EXCEPT
                   !.isFirstSliceInPicture =
                      IF picListSet THEN FALSE
                      ELSE IF finishes \/ ~decoded THEN TRUE ELSE @,
                   !.firstSliceInSequence = @ \/ decoded]
      /\ app' = [A EXCEPT !.loopFiltered = IF decoded THEN TRUE ELSE @,
                          !.picListSet = picListSet]
  BY DEF EndOfPicture
<1> HIDE DEF D, A
<1>7. decoded <=> p.due
  BY <1>3, <1>5
<1>8. /\ dec'.isFirstSliceInPicture = (IF picListSet THEN FALSE
                      ELSE IF finishes \/ ~decoded THEN TRUE ELSE D.isFirstSliceInPicture)
      /\ dec'.firstSliceInSequence = (D.firstSliceInSequence \/ decoded)
      /\ dec'.prevTid0POC = D.prevTid0POC /\ dec'.pocRandomAccess = D.pocRandomAccess
      /\ dec'.skippedBefore = D.skippedBefore /\ dec'.prefixSeis = D.prefixSeis
      /\ app'.skipFrame = A.skipFrame /\ app'.eosInPu /\ app'.newCLVS
      /\ app'.picListSet = picListSet /\ app'.picSkipped = A.picSkipped
  BY <1>5, <1>6 DEF DecoderStates, LoopStates
<1>9. p.due /\ ~eof => finishes
  BY <1>7
<1>10. ~p.due => ~finishes
  BY <1>7
<1> HIDE DEF decoded, finishes, picListSet
<1>11. e \in EncoderStates
  BY <1>1, AfterType
<1>12. /\ f.num = e.num /\ f.offered = e.offered /\ f.tid0Poc = e.tid0Poc
       /\ f.last = None /\ f.afterEos = TRUE /\ f.entered = e.entered
       /\ f.skipsRasl = e.skipsRasl /\ f.lastDue = e.lastDue
  BY <1>11, AfterEosParts
<1>13. e.afterEos = FALSE /\ e.entered = p.entered /\ e.lastDue = p.due /\ e.num > 0
  BY <1>1, <1>2, AfterParts
<1> HIDE DEF e, f
<1>14. ~(None \in {"CRA", "RASL", "IDR"})
  BY Constants DEF Types
<1>15. picListSet => p.entered
  <2>1. app.picListSet => p.entered
    BY <1>3, <1>13 DEF Synced
  <2>2. finishes => p.entered
    BY <1>3, <1>10
  <2> QED
    BY <2>1, <2>2, <1>5 DEF picListSet
<1>16. Synced(options, dec', app', f)
  <2>1. dec'.firstSliceInSequence <=> ~f.entered \/ (f.afterEos /\ f.lastDue)
    BY <1>3, <1>5, <1>7, <1>8, <1>12, <1>13
  <2>2. /\ app'.skipFrame = SkipFrameAt(options, f)
        /\ options.skipFrame > 0 => (dec'.skippedBefore <=> f.offered > 0)
        /\ dec'.prevTid0POC \in 0..(f.num + 1) * MaxLsb
        /\ f.num > 0 => dec'.prevTid0POC % MaxLsb = f.tid0Poc % MaxLsb
    BY <1>3, <1>5, <1>8, <1>12 DEF Synced, SkipFrameAt
  <2> QED
    BY <1>5, <1>8, <1>12, <1>13, <1>14, <1>15, <2>1, <2>2 DEF Synced
<1>17. ~Pending(dec', app')
  BY <1>3, <1>5, <1>7, <1>8 DEF Pending, decoded
<1>18. ~dec'.isFirstSliceInPicture => p.entered
  <2>1. CASE picListSet
    BY <2>1, <1>15
  <2>2. CASE ~picListSet
    BY <2>2, <1>3, <1>7, <1>8
  <2> QED
    BY <2>1, <2>2
<1>19. ASSUME NEW q \in Pictures, q.at = f PROVE Before(options, dec', app', q, 1)
  <2>1. SeisRead(q, 1 - 1) = {}
    BY ReadSoFar
  <2>2. dec'.prefixSeis = {}
    BY <1>5, <1>8 DEF Within
  <2>3. dec'.prefixSeis = IF q.tid <= options.highestTid
                          THEN {q.num} \X SeisRead(q, 1 - 1) ELSE {}
    BY <2>1, <2>2
  <2>4. q.at.afterEos = TRUE /\ (q.at.entered <=> p.entered)
    BY <1>12, <1>13, <1>19
  <2> QED
    BY <1>8, <1>16, <1>17, <1>18, <1>19, <2>3, <2>4 DEF Before
<1>20. p.due => Decoding(D, p, UnitLen(p))
  BY <1>3, <1>5 DEF Decoding
<1>21. Finish(D) \/ UNCHANGED <<finished, missing>>
  BY <1>6
<1>22. (p.due /\ ~eof => Finish(D)) /\ (~p.due => UNCHANGED <<finished, missing>>)
  BY <1>6, <1>9, <1>10
<1> QED
  BY <1>5, <1>8, <1>17, <1>19, <1>20, <1>21, <1>22 DEF D, f, e

\* What finishing a picture when the next one begins leaves.
LEMMA NewPictureStep ==
  ASSUME TypeOK, StreamOK, DecoderOK, NewPicture
  PROVE  LET q == Head(file).pic
         IN /\ Before(options, dec', app', q, 1) /\ ~Pending(dec', app')
            /\ dec'.prevTid0POC = dec.prevTid0POC /\ app'.aborted = FALSE
            /\ IF Pending(dec, app) THEN Finish(dec) /\ PendingOK(options, dec, q.at)
                                    ELSE UNCHANGED <<finished, missing>>
<1> DEFINE q == Head(file).pic
           A == [app EXCEPT !.eosInLastPu = app.eosInPu, !.eosInPu = FALSE]
           decoded == ~dec.firstSliceInSequence /\ ~A.picSkipped
           finishes == decoded /\ (~A.loopFiltered \/ ~FALSE)
           picListSet == A.picListSet \/ finishes
<1>1. IsNewPicture /\ EndOfPicture(dec, A, FALSE, FALSE) /\ ~app.aborted
  BY DEF NewPicture
<1>2. /\ file # << >> /\ ~dec.isFirstSliceInPicture /\ Before(options, dec, app, q, 1)
  BY <1>1, NewPictureAt
<1>3. dec \in DecoderStates /\ app \in LoopStates
  BY DEF TypeOK
<1>4. /\ A.skipFrame = app.skipFrame /\ A.picSkipped = app.picSkipped /\ A.eosInPu = FALSE
      /\ A.eosInLastPu = app.eosInPu /\ A.newCLVS = app.newCLVS
      /\ A.picListSet = app.picListSet /\ A.aborted = app.aborted /\ A \in LoopStates
  BY <1>3 DEF LoopStates
<1>5. /\ IF finishes THEN Finish(dec) ELSE UNCHANGED <<finished, missing>>
      /\ dec' = [dec EXCEPT !.isFirstSliceInPicture =
                               IF FALSE /\ picListSet THEN FALSE
                               ELSE IF finishes \/ ~decoded THEN TRUE ELSE @,
                            !.firstSliceInSequence = @ \/ (decoded /\ FALSE)]
      /\ app' = [A EXCEPT !.loopFiltered = IF decoded THEN FALSE ELSE @,
                          !.picListSet = picListSet]
  BY <1>1 DEF EndOfPicture
<1> HIDE DEF A
<1>6. decoded <=> Pending(dec, app)
  BY <1>2, <1>4 DEF Pending
<1>7. finishes = decoded
  OBVIOUS
<1>8. /\ dec'.isFirstSliceInPicture = TRUE
      /\ dec'.firstSliceInSequence = dec.firstSliceInSequence
      /\ dec'.prevTid0POC = dec.prevTid0POC /\ dec'.pocRandomAccess = dec.pocRandomAccess
      /\ dec'.skippedBefore = dec.skippedBefore /\ dec'.prefixSeis = dec.prefixSeis
  BY <1>3, <1>5, <1>7 DEF DecoderStates
<1>9. /\ app'.skipFrame = A.skipFrame /\ app'.eosInPu = FALSE /\ app'.newCLVS = A.newCLVS
      /\ app'.eosInLastPu = A.eosInLastPu /\ app'.aborted = A.aborted
      /\ app'.picListSet = (A.picListSet \/ decoded)
  BY <1>4, <1>5, <1>7 DEF LoopStates
<1> HIDE DEF decoded, finishes, picListSet
<1>10. Synced(options, dec, app, q.at)
  BY <1>2 DEF Before
<1>11. decoded => q.at.entered
  BY <1>6, <1>10 DEF Pending, Synced
<1>12. Synced(options, dec', app', q.at)
  BY <1>4, <1>8, <1>9, <1>10, <1>11 DEF Synced
<1>13. ~Pending(dec', app')
  BY <1>8 DEF Pending
<1>14. Before(options, dec', app', q, 1)
  <2>1. /\ dec'.prefixSeis = IF q.tid <= options.highestTid
                             THEN {q.num} \X SeisRead(q, 1 - 1) ELSE {}
        /\ q.at.afterEos => app'.newCLVS
        /\ app'.eosInLastPu <=> q.at.afterEos
        /\ q.at.afterEos => q.at.entered
    BY <1>2, <1>4, <1>8, <1>9 DEF Before
  <2> QED
    BY <1>8, <1>9, <1>12, <1>13, <2>1 DEF Before
<1>15. Pending(dec, app) => PendingOK(options, dec, q.at)
  BY <1>2 DEF Before
<1>16. IF Pending(dec, app) THEN Finish(dec) ELSE UNCHANGED <<finished, missing>>
  BY <1>5, <1>6, <1>7
<1>17. app'.aborted = FALSE
  BY <1>1, <1>3, <1>4, <1>9 DEF LoopStates
<1> QED
  BY <1>8, <1>13, <1>14, <1>15, <1>16, <1>17

-----------------------------------------------------------------------------
(* Which pictures are missing.                                              *)

\* What follows a NAL unit is of the same picture or of the next one.
LEMMA NextNumber ==
  ASSUME NEW o \in [skipFrame : Skips, highestTid : HighestTids],
         NEW a \in NalUnits, NEW b \in NalUnits, Written(o, a.pic), Written(o, b.pic),
         InUnit(a), InUnit(b), Follows(a, b)
  PROVE  \/ b.pic = a.pic /\ b.pos = a.pos + 1 /\ a.nut # "EOS"
         \/ /\ EndsUnit(a) /\ b.pos = 1 /\ b.pic.at = EncoderAfter(a)
            /\ b.pic.at.num = a.pic.num /\ b.pic.num = a.pic.num + 1
<1>1. a.pic \in Pictures /\ b.pic \in Pictures
  BY DEF NalUnits
<1>2. CASE EndsUnit(a) /\ b.pos = 1 /\ b.pic.at = EncoderAfter(a)
  <2>1. After(a.pic).num = a.pic.num /\ After(a.pic) \in EncoderStates
    BY <1>1, AfterType DEF After
  <2>2. EncoderAfter(a).num = a.pic.num
    BY <2>1, AfterEosParts DEF EncoderAfter
  <2>3. b.pic.num = b.pic.at.num + 1
    BY <1>1, WrittenParts
  <2> QED
    BY <1>2, <2>2, <2>3
<1> QED
  BY <1>2 DEF Follows

\* The pictures of a file are in order.
LEMMA FileNumbers ==
  ASSUME NEW o \in [skipFrame : Skips, highestTid : HighestTids],
         NEW f \in Seq(NalUnits), FileOK(o, f), NEW i \in 1..Len(f), NEW j \in 1..Len(f),
         i <= j
  PROVE  f[i].pic.num <= f[j].pic.num
<1> DEFINE n == Len(f)
           S == {k \in 1..n : i <= k /\ ~(f[i].pic.num <= f[k].pic.num)}
<1>0. n \in Nat /\ \A k \in 1..n : f[k] \in NalUnits
  OBVIOUS
<1>1. n \in Nat /\ \A k \in 1..n : f[k] \in NalUnits /\ f[k].pic.num \in Nat
  <2>1. \A a \in NalUnits : a.pic.num \in Nat
    BY DEF NalUnits, Pictures
  <2> QED
    BY <1>0, <2>1
<1>2. SUFFICES ASSUME S # {} PROVE FALSE
  OBVIOUS
<1>3. S \in SUBSET Nat
  BY <1>1
<1>4. PICK k \in S : \A x \in S : k <= x
  BY <1>2, <1>3, LeastNatural
<1>5. k \in 1..n /\ i <= k /\ ~(f[i].pic.num <= f[k].pic.num) /\ i \in 1..n
  BY <1>4
<1> DEFINE num(x) == f[x].pic.num
<1>6. k # i
  <2>1. num(i) \in Nat
    BY <1>1, <1>5
  <2>2. num(i) <= num(i)
    BY <2>1
  <2> QED
    BY <1>5, <2>2
<1>7. k - 1 \in 1..(n - 1) /\ k - 1 \in 1..n /\ i <= k - 1 /\ k - 1 + 1 = k /\ ~(k <= k - 1)
  BY <1>1, <1>5, <1>6
<1>8. num(i) <= num(k - 1)
  BY <1>4, <1>7
<1>9. Follows(f[k - 1], f[k])
  BY <1>7 DEF FileOK
<1>10. num(k) = num(k - 1) \/ num(k) = num(k - 1) + 1
  <2>1. /\ f[k - 1] \in NalUnits /\ f[k] \in NalUnits
        /\ Written(o, f[k - 1].pic) /\ Written(o, f[k].pic)
        /\ InUnit(f[k - 1]) /\ InUnit(f[k])
    BY <1>1, <1>5, <1>7 DEF FileOK
  <2> QED
    BY <1>9, <2>1, NextNumber
<1>11. num(i) \in Nat /\ num(k - 1) \in Nat /\ num(k) \in Nat
  BY <1>1, <1>5, <1>7
<1> HIDE DEF num
<1>12. num(i) <= num(k)
  BY <1>8, <1>10, <1>11
<1> QED
  BY <1>5, <1>12 DEF num

\* The step finishes p, of which d has decoded all.
Finishes(p, d) ==
  /\ Finish(d) /\ p \in Pictures /\ Written(options, p) /\ p.due
  /\ Decoding(d, p, UnitLen(p))
  /\ p.num \in missing /\ \A n \in missing : n >= p.num
  /\ FinishedAt(finished, d, After(p)) /\ p.entered

\* A picture finished when the next one begins.
LEMMA FinishedByNext ==
  ASSUME TypeOK, StreamOK, DecoderOK, NewPicture
  PROVE  \/ Pending(dec, app) /\ Finishes(dec.pic.pic, dec) /\ After(dec.pic.pic) = Head(file).pic.at
         \/ ~Pending(dec, app) /\ UNCHANGED <<finished, missing>>
<1> DEFINE h == Head(file)
           q == h.pic
           p == dec.pic.pic
<1>1. /\ file # << >> /\ h.pos = 1 /\ InHead(h)
  BY NewPictureAt DEF NewPicture
<1>2. /\ IF Pending(dec, app) THEN Finish(dec) /\ PendingOK(options, dec, q.at)
                              ELSE UNCHANGED <<finished, missing>>
  BY NewPictureStep
<1>3. CASE Pending(dec, app)
  <2>1. /\ p \in Pictures /\ Written(options, p) /\ p.due /\ After(p) = q.at
        /\ Decoding(dec, p, UnitLen(p)) /\ Finish(dec)
    BY <1>2, <1>3 DEF PendingOK
  <2>2. q.at.num \in missing
    BY <1>1, <1>3 DEF DecoderOK, MissingOK
  <2>3. q \in Pictures /\ Written(options, q) /\ options \in [skipFrame : Skips, highestTid : HighestTids]
    BY <1>1, HeadParts DEF TypeOK
  <2>4. p.num = q.at.num /\ q.num = p.num + 1 /\ p.num \in Nat
    <3>1. After(p).num = p.num
      BY DEF After
    <3>2. q.num = q.at.num + 1
      BY <2>3, WrittenParts
    <3>3. p.num \in Nat
      BY <2>1 DEF Pictures
    <3> QED
      BY <2>1, <3>1, <3>2, <3>3
  <2>5. ASSUME NEW n \in missing PROVE n >= p.num
    <3>1. n >= q.num \/ n = q.at.num
      BY <1>1 DEF DecoderOK, MissingOK
    <3>2. n \in Nat
      BY DEF TypeOK
    <3> QED
      BY <2>4, <3>1, <3>2
  <2>6. FinishedAt(finished, dec, After(p))
    BY <1>1, <2>1 DEF DecoderOK, FinishedOK, Position
  <2>7. p.entered
    BY <2>1, <2>3, EntryParts
  <2>8. p.num \in missing
    BY <2>2, <2>4
  <2>9. Finishes(p, dec)
    BY <2>1, <2>5, <2>6, <2>7, <2>8 DEF Finishes
  <2> QED
    BY <1>3, <2>1, <2>9
<1>4. CASE ~Pending(dec, app)
  BY <1>2, <1>4
<1> QED
  BY <1>3, <1>4

\* The picture of the NAL unit that comes next is the first one missing, if it
\* is due and none is pending.
LEMMA HeadMissing ==
  ASSUME TypeOK, StreamOK, DecoderOK, file # << >>, ~(InHead(Head(file)) /\ Pending(dec, app))
  PROVE  LET p == Head(file).pic
         IN /\ p.due <=> p.num \in missing
            /\ \A n \in missing : n >= p.num
<1>1. Head(file) = file[1] /\ 1 \in 1..Len(file) /\ Head(file).pic \in Pictures
  BY HeadParts
<1>2. MissingOK
  BY DEF DecoderOK
<1>3. Head(file).pic.num \in missing <=> Head(file).pic.due
  BY <1>1, <1>2 DEF MissingOK
<1> QED
  BY <1>2, <1>3 DEF MissingOK

\* A picture finished by the last NAL unit that ends its unit, or by an EOS.
LEMMA FinishedByRead ==
  ASSUME TypeOK, KnownNotToWork \subseteq Excluded, StreamOK, DecoderOK, ReadNalUnit
  PROVE  \/ Finishes(Head(file).pic, DecAfter(Head(file)))
         \/ UNCHANGED <<finished, missing>>
<1> DEFINE h == Head(file)
           p == h.pic
           D == DecAfter(h)
           A == AppAfter(h)
           eof == ended /\ Len(file) = 1
<1>1. file # << >> /\ ~IsNewPicture
  BY DEF ReadNalUnit
<1>2. /\ h \in NalUnits /\ InUnit(h) /\ p \in Pictures /\ Written(options, p)
      /\ h = file[1]
  BY <1>1, HeadParts
<1>3. /\ HeadLen(p) \in Nat /\ p.layout.slices \in Nat \ {0} /\ UnitLen(p) \in Nat
      /\ UnitLen(p) >= HeadLen(p) + p.layout.slices /\ h.pos \in Nat
      /\ options \in [skipFrame : Skips, highestTid : HighestTids]
      /\ app \in LoopStates /\ Len(file) \in Nat
  BY <1>2, UnitLength DEF NalUnits, TypeOK
<1>4. ~(InHead(h) /\ Pending(dec, app))
  BY <1>1, ReadingAt
<1>5. /\ p.due <=> p.num \in missing
      /\ \A n \in missing : n >= p.num
  BY <1>1, <1>4, HeadMissing
<1>6. CASE h.nut = "EOS"
  <2>1. h.pos = UnitLen(p) + 1
    BY <1>2, <1>6, InUnitParts
  <2>2. ~InHead(h)
    BY <1>3, <2>1 DEF InHead
  <2>3. Within(options, dec, app, p, h.pos)
    BY <1>1, <2>2 DEF DecoderOK
  <2>4. EndOfPicture(D, A, TRUE, eof)
    <3>1. EndOfPicture(D, A, h.nut = "EOS", eof)
      BY <1>6 DEF ReadNalUnit
    <3>2. (h.nut = "EOS") = TRUE
      BY <1>6
    <3> QED
      BY <3>1, <3>2
  <2>5. eof \in BOOLEAN
    BY DEF TypeOK
  <2> HIDE DEF eof
  <2>6. /\ D.prevTid0POC = dec.prevTid0POC
        /\ p.due => Decoding(D, p, UnitLen(p))
        /\ ~p.due => UNCHANGED <<finished, missing>>
        /\ Finish(D) \/ UNCHANGED <<finished, missing>>
    BY <1>2, <1>6, <2>3, <2>4, <2>5, EosRead
  <2>7. FinishedAt(finished, dec, After(p))
    BY <1>1, <2>2 DEF DecoderOK, FinishedOK, Position
  <2> HIDE DEF D
  <2>8. FinishedAt(finished, D, After(p))
    BY <2>6, <2>7 DEF FinishedAt
  <2>9. p.due => p.entered
    BY <1>2, EntryParts
  <2>10. p.due /\ Finish(D) => Finishes(p, D)
    BY <1>2, <1>5, <2>6, <2>8, <2>9 DEF Finishes
  <2> QED
    BY <2>6, <2>10 DEF D
<1>7. CASE h.nut # "EOS" /\ (A.eosInPu \/ ~eof)
  BY <1>7 DEF ReadNalUnit
<1>8. CASE h.nut # "EOS" /\ ~A.eosInPu /\ eof
  <2>1. EndOfPicture(D, A, h.nut = "EOS", eof)
    BY <1>8 DEF ReadNalUnit
  <2>2. \/ ~D.firstSliceInSequence /\ ~A.picSkipped /\ Finish(D)
        \/ UNCHANGED <<finished, missing>>
    BY <2>1 DEF EndOfPicture
  <2>3. A.eosInPu = app.eosInPu
    BY <1>3, <1>8 DEF AppAfter, LoopStates
  <2>4. h.pos = UnitLen(p)
    <3>1. Last(file) = file[Len(file)] /\ Len(file) = 1
      BY <1>8 DEF Last
    <3>2. EndsUnit(h)
      BY <1>1, <1>2, <3>1 DEF StreamOK
    <3>3. h.pos \in 1..UnitLen(p)
      BY <1>2, <1>8, InUnitParts
    <3> QED
      BY <1>3, <3>2, <3>3 DEF EndsUnit
  <2>5. h.pos > HeadLen(p)
    BY <1>3, <2>4
  <2>6. Within(options, D, A, p, UnitLen(p) + 1) /\ FinishedAt(finished, D, After(p))
    BY <1>1, <1>8, <2>3, <2>4, <2>5, NalUnitRead
  <2>7. /\ ~D.firstSliceInSequence /\ ~A.picSkipped <=> p.due
        /\ p.due => Decoding(D, p, UnitLen(p)) /\ p.entered
    BY <1>2, <1>3, <2>6, UnitDone
  <2> HIDE DEF D, A
  <2>8. p.due /\ Finish(D) => Finishes(p, D)
    BY <1>2, <1>5, <2>6, <2>7 DEF Finishes
  <2> QED
    BY <2>2, <2>7, <2>8 DEF D
<1> QED
  BY <1>6, <1>7, <1>8

-----------------------------------------------------------------------------
(* The values of the variables.                                             *)

\* A slice leaves the variables in their sets.
LEMMA SliceTypes ==
  ASSUME TypeOK, NEW p \in Pictures, NEW i \in Nat
  PROVE  /\ SliceSkipped(p) \in DecoderStates /\ SliceDecoded(p, i) \in DecoderStates
         /\ NewCLVS(p) \in BOOLEAN /\ CountLeft(p, i) \in Int
<1>1. dec \in DecoderStates /\ app \in LoopStates
  BY DEF TypeOK
<1>2. dec.prevTid0POC \in Int /\ p.poc \in Int /\ p.num \in Nat /\ p.type \in Types
  BY <1>1 DEF DecoderStates, Pictures
<1>3. SlicePoc(p) \in Int
  <2> DEFINE lsb == p.poc % MaxLsb
             prevLsb == dec.prevTid0POC % MaxLsb
  <2>1. lsb \in Int /\ prevLsb \in Int /\ MaxLsb \in Int
    BY <1>2, Half
  <2> HIDE DEF lsb, prevLsb
  <2>2. ParsedPoc(p) \in Int
    BY <1>2, <2>1 DEF ParsedPoc, lsb, prevLsb
  <2>3. ParsedPoc(p) % MaxLsb \in Int
    BY <2>2, Half
  <2> QED
    BY <2>2, <2>3 DEF SlicePoc
<1>4. HeaderParsed(p) \in DecoderStates /\ HeaderParsed(p).pic = dec.pic
      /\ HeaderParsed(p).pocRandomAccess = dec.pocRandomAccess
  BY <1>1, <1>2, <1>3 DEF HeaderParsed, PreviousTid0POC, DecoderStates
<1>5. SliceSkipped(p) \in DecoderStates
  BY <1>4 DEF SliceSkipped, DecoderStates
<1>6. NewCLVS(p) \in BOOLEAN
  BY <1>1 DEF NewCLVS, LoopStates
<1>7. NoOutputBeforeRecovery(p) \in BOOLEAN
  BY <1>1 DEF NoOutputBeforeRecovery, DecoderStates
<1>8. CountLeft(p, i) \in Int
  <2>1. SkipCount(i) \in Int
    BY <1>1 DEF SkipCount, LoopStates
  <2> QED
    BY <2>1 DEF CountLeft
<1>9. SliceDecoded(p, i) \in DecoderStates
  <2> DEFINE D == HeaderParsed(p)
             ra == IF p.type = "IDR" THEN -MAX_INT
                   ELSE IF D.pocRandomAccess = MAX_INT THEN SlicePoc(p)
                   ELSE D.pocRandomAccess
             new == PictureStarted(p, i)
             old == PictureJoined(D.pic, p, i)
  <2>1. ra \in Int
    BY <1>3, <1>4 DEF DecoderStates, MAX_INT
  <2>2. new \in DecodedPictures
    BY <1>1, <1>2, <1>3, <1>6, <1>7 DEF PictureStarted, DecodedPictures, DecoderStates
  <2>3. old \in DecodedPictures
    <3>1. \A x \in DecodedPictures, s \in SUBSET (Nat \X Nat) :
            [x EXCEPT !.slices = s] \in DecodedPictures
      BY DEF DecodedPictures
    <3>2. D.pic \in DecodedPictures
      BY <1>1, <1>4 DEF DecoderStates
    <3>3. D.pic.slices \cup {<<p.num, i>>} \in SUBSET (Nat \X Nat)
      BY <1>2, <3>2 DEF DecodedPictures
    <3> QED
      BY <3>1, <3>2, <3>3, Zenon DEF PictureJoined
  <2>4. SliceDecoded(p, i) = [D EXCEPT !.prevSliceSkipped = FALSE,
          !.pocRandomAccess = ra, !.firstSliceInSequence = FALSE,
          !.isFirstSliceInPicture = FALSE, !.prefixSeis = {},
          !.pic = IF dec.isFirstSliceInPicture THEN new ELSE old]
    BY DEF SliceDecoded
  <2> HIDE DEF ra, new, old
  <2> QED
    BY <1>4, <2>1, <2>2, <2>3, <2>4 DEF DecoderStates
<1> QED
  BY <1>5, <1>6, <1>8, <1>9

\* A NAL unit leaves the variables in their sets.
LEMMA ReadTypes ==
  ASSUME TypeOK, NEW h \in NalUnits, InUnit(h)
  PROVE  DecAfter(h) \in DecoderStates /\ AppAfter(h) \in LoopStates
<1> DEFINE p == h.pic
           i == Idx(h)
<1>1. dec \in DecoderStates /\ app \in LoopStates /\ p \in Pictures /\ p.num \in Nat
      /\ h.nut \in Nuts
  BY DEF TypeOK, NalUnits, Pictures
<1>2. <<p.num, h.nut>> \in Nat \X Nuts
  BY <1>1
<1>3. h.nut = "SLICE" => i \in Nat
  <2>1. HeadLen(p) \in Nat /\ h.pos \in Nat
    BY <1>1, UnitLength DEF NalUnits
  <2>2. h.nut = "SLICE" => h.pos > HeadLen(p)
    BY InUnitParts
  <2> QED
    BY <2>1, <2>2 DEF Idx
<1>4. h.nut = "SLICE" =>
        /\ SliceSkipped(p) \in DecoderStates /\ SliceDecoded(p, i) \in DecoderStates
        /\ NewCLVS(p) \in BOOLEAN /\ CountLeft(p, i) \in Int
  BY <1>1, <1>3, SliceTypes
<1>5. /\ [dec EXCEPT !.isFirstSliceInPicture = FALSE] \in DecoderStates
      /\ [dec EXCEPT !.prefixSeis = @ \cup {<<p.num, h.nut>>}] \in DecoderStates
      /\ EosDecoded(dec) \in DecoderStates
  <2>1. \A s \in SUBSET (Nat \X Nuts) : [dec EXCEPT !.prefixSeis = s] \in DecoderStates
    BY <1>1 DEF DecoderStates
  <2>2. dec.prefixSeis \cup {<<p.num, h.nut>>} \in SUBSET (Nat \X Nuts)
    BY <1>1, <1>2 DEF DecoderStates
  <2>3. [dec EXCEPT !.prefixSeis = @ \cup {<<p.num, h.nut>>}] \in DecoderStates
    BY <2>1, <2>2
  <2>4. [dec EXCEPT !.isFirstSliceInPicture = FALSE] \in DecoderStates
    BY <1>1 DEF DecoderStates
  <2>5. EosDecoded(dec) \in DecoderStates
    <3>1. dec.pic \in DecodedPictures /\ MAX_INT \in Int
      BY <1>1 DEF DecoderStates, MAX_INT
    <3>2. \A r \in Int : [dec EXCEPT !.pocRandomAccess = r, !.prevSliceSkipped = FALSE]
                         \in DecoderStates
      BY <1>1 DEF DecoderStates
    <3> QED
      BY <3>1, <3>2 DEF EosDecoded
  <2> QED
    BY <2>3, <2>4, <2>5
<1>6. [dec EXCEPT !.pic.seis = @ \cup {<<p.num, h.nut>>}] \in DecoderStates
  <2> DEFINE new == [dec.pic EXCEPT !.seis = @ \cup {<<p.num, h.nut>>}]
  <2>1. new \in DecodedPictures
    BY <1>1, <1>2 DEF DecoderStates, DecodedPictures
  <2>2. [dec EXCEPT !.pic.seis = @ \cup {<<p.num, h.nut>>}] = [dec EXCEPT !.pic = new]
    BY <1>1 DEF DecoderStates
  <2> HIDE DEF new
  <2> QED
    BY <1>1, <2>1, <2>2 DEF DecoderStates
<1>7. DecAfter(h) \in DecoderStates
  <2>1. CASE ~InTarget(h)
    BY <2>1, <1>1, <1>5 DEF DecAfter
  <2>2. CASE InTarget(h) /\ h.nut = "SLICE"
    BY <2>2, <1>4 DEF DecAfter
  <2>3. CASE InTarget(h) /\ h.nut = "PREFIX_SEI"
    BY <2>3, <1>5 DEF DecAfter
  <2>4. CASE InTarget(h) /\ h.nut = "SUFFIX_SEI"
    BY <2>4, <1>1, <1>6 DEF DecAfter
  <2>5. CASE InTarget(h) /\ h.nut \in {"PH", "EOS"}
    BY <2>5, <1>1, <1>5 DEF DecAfter
  <2> QED
    BY <1>1, <2>1, <2>2, <2>3, <2>4, <2>5 DEF Nuts
<1>8. AppAfter(h) \in LoopStates
  <2>1. CASE h.nut = "SLICE" /\ InTarget(h)
    <3>1. \A b, c \in BOOLEAN, s \in Int :
            [app EXCEPT !.newCLVS = b, !.picSkipped = c, !.skipFrame = s] \in LoopStates
      BY <1>1 DEF LoopStates
    <3> DEFINE c == TakenForSkipped(p, i)
               s == IF c THEN CountLeft(p, i) + 1 ELSE CountLeft(p, i)
               b == NewCLVS(p)
    <3>2. c \in BOOLEAN /\ b \in BOOLEAN
      BY <1>4, <2>1 DEF TakenForSkipped
    <3>3. s \in Int
      BY <1>4, <2>1, <3>2
    <3>4. AppAfter(h) = [app EXCEPT !.newCLVS = b, !.picSkipped = c, !.skipFrame = s]
      BY <2>1 DEF AppAfter
    <3> HIDE DEF b, c, s
    <3>5. [app EXCEPT !.newCLVS = b, !.picSkipped = c, !.skipFrame = s] \in LoopStates
      BY <3>1, <3>2, <3>3
    <3> QED
      BY <3>4, <3>5
  <2>2. CASE h.nut = "SLICE" /\ ~InTarget(h)
    BY <2>2, <1>1, <1>4 DEF AppAfter, LoopStates
  <2>3. CASE h.nut # "SLICE"
    BY <2>3, <1>1 DEF AppAfter, LoopStates
  <2> QED
    BY <2>1, <2>2, <2>3
<1> QED
  BY <1>7, <1>8

\* Finishing a picture leaves the variables in their sets.
LEMMA FinishTypes ==
  ASSUME TypeOK, NEW d \in DecoderStates, Finish(d)
  PROVE  finished' \in FinishedPictures /\ missing' \in SUBSET Nat
<1>1. finished \in FinishedPictures /\ missing \in SUBSET Nat
      /\ d.pic \in DecodedPictures
  BY DEF TypeOK, DecoderStates
<1>2. finished.order + 1 \in Nat
  BY <1>1 DEF FinishedPictures
<1>3. finished' \in FinishedPictures
  BY <1>1, <1>2 DEF Finish, FinishedPictures, DecodedPictures
<1> QED
  BY <1>1, <1>3 DEF Finish

\* The end of a picture leaves the variables in their sets.
LEMMA EndTypes ==
  ASSUME TypeOK, NEW d \in DecoderStates, NEW a \in LoopStates, NEW eos \in BOOLEAN,
         NEW eof \in BOOLEAN, EndOfPicture(d, a, eos, eof)
  PROVE  /\ dec' \in DecoderStates /\ app' \in LoopStates
         /\ finished' \in FinishedPictures /\ missing' \in SUBSET Nat
         /\ app'.aborted = a.aborted
<1> DEFINE decoded == ~d.firstSliceInSequence /\ ~a.picSkipped
           finishes == decoded /\ (~a.loopFiltered \/ ~eof)
           picListSet == a.picListSet \/ finishes
           first == IF eos /\ picListSet THEN FALSE
                    ELSE IF finishes \/ ~decoded THEN TRUE ELSE d.isFirstSliceInPicture
           seq == d.firstSliceInSequence \/ (decoded /\ eos)
           filtered == IF decoded THEN eos ELSE a.loopFiltered
<1>1. /\ IF finishes THEN Finish(d) ELSE UNCHANGED <<finished, missing>>
      /\ dec' = [d EXCEPT !.isFirstSliceInPicture = first, !.firstSliceInSequence = seq]
      /\ app' = [a EXCEPT !.loopFiltered = filtered, !.picListSet = picListSet]
  BY DEF EndOfPicture, DecoderStates, LoopStates
<1>2. first \in BOOLEAN /\ seq \in BOOLEAN /\ filtered \in BOOLEAN /\ picListSet \in BOOLEAN
  BY DEF DecoderStates, LoopStates
<1> HIDE DEF decoded, finishes, picListSet, first, seq, filtered
<1>3. dec' \in DecoderStates /\ app' \in LoopStates /\ app'.aborted = a.aborted
  BY <1>1, <1>2 DEF DecoderStates, LoopStates
<1>4. finished' \in FinishedPictures /\ missing' \in SUBSET Nat
  BY <1>1, FinishTypes DEF TypeOK
<1> QED
  BY <1>3, <1>4

\* The decoder's steps keep the variables in their sets.
LEMMA DecodeTypes ==
  ASSUME TypeOK, StreamOK, Decode
  PROVE  TypeOK'
<1>1. /\ file \in Seq(NalUnits) /\ dec \in DecoderStates /\ app \in LoopStates
      /\ finished \in FinishedPictures /\ missing \in SUBSET Nat
      /\ ended \in BOOLEAN /\ enc \in EncoderStates
      /\ options \in [skipFrame : Skips, highestTid : HighestTids]
  BY DEF TypeOK
<1>2. CASE NewPicture
  <2> DEFINE A == [app EXCEPT !.eosInLastPu = app.eosInPu, !.eosInPu = FALSE]
  <2>1. EndOfPicture(dec, A, FALSE, FALSE) /\ UNCHANGED <<file, ended, enc, options>>
    BY <1>2 DEF NewPicture, encoder
  <2>2. A \in LoopStates
    BY <1>1 DEF LoopStates
  <2> HIDE DEF A
  <2>3. /\ dec' \in DecoderStates /\ app' \in LoopStates
        /\ finished' \in FinishedPictures /\ missing' \in SUBSET Nat
    BY <1>1, <2>1, <2>2, EndTypes
  <2> QED
    BY <1>1, <2>1, <2>3 DEF TypeOK
<1>3. CASE ReadNalUnit
  <2> DEFINE h == Head(file)
             D == DecAfter(h)
             A == AppAfter(h)
             eof == ended /\ Len(file) = 1
  <2>1. file # << >> /\ file' = Tail(file) /\ UNCHANGED <<ended, enc, options>>
    BY <1>3 DEF ReadNalUnit, encoder
  <2>2. h \in NalUnits /\ InUnit(h)
    BY <2>1, HeadParts
  <2>3. D \in DecoderStates /\ A \in LoopStates
    BY <2>2, ReadTypes
  <2>4. \/ app' = [A EXCEPT !.aborted = TRUE] /\ UNCHANGED <<dec, finished, missing>>
        \/ EndOfPicture(D, A, h.nut = "EOS", eof)
        \/ dec' = D /\ app' = A /\ UNCHANGED <<finished, missing>>
    BY <1>3 DEF ReadNalUnit
  <2>5. file' \in Seq(NalUnits)
    BY <1>1, <2>1, TailParts
  <2>6. eof \in BOOLEAN /\ (h.nut = "EOS") \in BOOLEAN
    BY <1>1
  <2> HIDE DEF D, A, eof, h
  <2>7. /\ dec' \in DecoderStates /\ app' \in LoopStates
        /\ finished' \in FinishedPictures /\ missing' \in SUBSET Nat
    <3>1. CASE app' = [A EXCEPT !.aborted = TRUE] /\ UNCHANGED <<dec, finished, missing>>
      BY <3>1, <1>1, <2>3 DEF LoopStates
    <3>2. CASE EndOfPicture(D, A, h.nut = "EOS", eof)
      BY <3>2, <2>3, <2>6, EndTypes
    <3>3. CASE dec' = D /\ app' = A /\ UNCHANGED <<finished, missing>>
      BY <3>3, <1>1, <2>3
    <3> QED
      BY <2>4, <3>1, <3>2, <3>3
  <2> QED
    BY <1>1, <2>1, <2>5, <2>7 DEF TypeOK
<1> QED
  BY <1>2, <1>3 DEF Decode

-----------------------------------------------------------------------------
(* The steps.                                                               *)

\* What is left to read.
LEMMA FileAfterRead ==
  ASSUME TypeOK, StreamOK, ReadNalUnit
  PROVE  /\ StreamOK'
         /\ file' = << >> => ended'
         /\ file' # << >> =>
              LET h == Head(file)
                  k == Head(file')
              IN /\ Len(file) > 1 /\ k \in NalUnits /\ InUnit(k) /\ Written(options, k.pic)
                 /\ \A i \in 1..Len(file') : /\ i + 1 \in 1..Len(file)
                                             /\ file'[i] = file[i + 1]
                                             /\ k.pic.num <= file'[i].pic.num
                 /\ \/ k.pic = h.pic /\ k.pos = h.pos + 1 /\ h.nut # "EOS"
                    \/ /\ EndsUnit(h) /\ k.pos = 1 /\ k.pic.at = EncoderAfter(h)
                       /\ k.pic.at.num = h.pic.num /\ k.pic.num = h.pic.num + 1
<1>1. /\ file # << >> /\ file' = Tail(file) /\ Ready
      /\ ended' = ended /\ enc' = enc /\ options' = options
  BY DEF ReadNalUnit, encoder
<1>2. file \in Seq(NalUnits) /\ FileOK(options, file)
      /\ options \in [skipFrame : Skips, highestTid : HighestTids]
  BY DEF TypeOK, StreamOK
<1>3. /\ Len(file) \in Nat \ {0} /\ file' \in Seq(NalUnits) /\ Len(file') = Len(file) - 1
      /\ \A i \in 1..(Len(file) - 1) : file'[i] = file[i + 1]
      /\ Len(file) = 1 => file' = << >> /\ Last(file) = Head(file)
      /\ Len(file) > 1 => file' # << >> /\ Last(file') = Last(file) /\ Head(file') = file'[1]
  BY <1>1, <1>2, TailParts
<1>4. FileOK(options, file') /\ (Len(file) > 1 => Follows(Head(file), Head(file')))
  BY <1>1, <1>2, TailOK
<1>5. file' = << >> => ended'
  <2>1. ASSUME file' = << >> PROVE ended
    <3>1. Len(file) = 1
      BY <1>3, <2>1
    <3> QED
      BY <3>1, <1>1, <1>3 DEF Ready
  <2> QED
    BY <1>1, <2>1
<1>6. StreamOK'
  <2>1. file' # << >> => EndsUnit(Last(file')) /\ enc = EncoderAfter(Last(file'))
    BY <1>1, <1>3 DEF StreamOK
  <2> QED
    BY <1>1, <1>4, <1>5, <2>1 DEF StreamOK
<1>7. ASSUME file' # << >>
      PROVE  LET h == Head(file)
                 k == Head(file')
             IN /\ Len(file) > 1 /\ k \in NalUnits /\ InUnit(k) /\ Written(options, k.pic)
                /\ \A i \in 1..Len(file') : /\ i + 1 \in 1..Len(file)
                                            /\ file'[i] = file[i + 1]
                                            /\ k.pic.num <= file'[i].pic.num
                /\ \/ k.pic = h.pic /\ k.pos = h.pos + 1 /\ h.nut # "EOS"
                   \/ /\ EndsUnit(h) /\ k.pos = 1 /\ k.pic.at = EncoderAfter(h)
                      /\ k.pic.at.num = h.pic.num /\ k.pic.num = h.pic.num + 1
  <2> DEFINE h == Head(file)
             g == file'
             k == Head(g)
  <2>1. Len(file) > 1
    BY <1>3, <1>7
  <2>2. k = g[1] /\ 1 \in 1..Len(g) /\ g \in Seq(NalUnits) /\ FileOK(options, g)
    BY <2>1, <1>3, <1>4
  <2>3. k \in NalUnits /\ InUnit(k) /\ Written(options, k.pic)
    BY <2>2 DEF FileOK
  <2>4. ASSUME NEW i \in 1..Len(g)
        PROVE  i + 1 \in 1..Len(file) /\ g[i] = file[i + 1] /\ k.pic.num <= g[i].pic.num
    <3>1. i + 1 \in 1..Len(file) /\ g[i] = file[i + 1] /\ 1 <= i
      BY <1>3
    <3>2. k.pic.num <= g[i].pic.num
      BY <1>2, <2>2, <3>1, FileNumbers
    <3> QED
      BY <3>1, <3>2
  <2>5. h \in NalUnits /\ InUnit(h) /\ Written(options, h.pic) /\ Follows(h, k)
    BY <1>1, <1>4, <2>1, HeadParts
  <2>6. \/ k.pic = h.pic /\ k.pos = h.pos + 1 /\ h.nut # "EOS"
        \/ /\ EndsUnit(h) /\ k.pos = 1 /\ k.pic.at = EncoderAfter(h)
           /\ k.pic.at.num = h.pic.num /\ k.pic.num = h.pic.num + 1
    BY <1>2, <2>3, <2>5, NextNumber
  <2> QED
    BY <2>1, <2>3, <2>4, <2>6
<1> QED
  BY <1>5, <1>6, <1>7

\* The decoder stays in its place in the stream.
LEMMA ReadStep ==
  ASSUME TypeOK, KnownNotToWork \subseteq Excluded, StreamOK, DecoderOK, ReadNalUnit
  PROVE  app'.aborted \/ DecoderOK'
<1> DEFINE h == Head(file)
           p == h.pic
           D == DecAfter(h)
           A == AppAfter(h)
           g == file'
           k == Head(g)
           q == k.pic
<1>1. /\ file # << >> /\ ~IsNewPicture /\ ~app.aborted
      /\ enc' = enc /\ options' = options
  BY DEF ReadNalUnit, encoder
<1>2. CASE g = << >>
  BY <1>2, FileAfterRead DEF DecoderOK
<1>3. CASE g # << >> /\ ~app'.aborted
  <2>1. /\ Len(file) > 1 /\ k \in NalUnits /\ InUnit(k) /\ Written(options, q)
        /\ \A i \in 1..Len(g) : /\ i + 1 \in 1..Len(file)
                                /\ g[i] = file[i + 1]
                                /\ q.num <= g[i].pic.num
        /\ \/ q = p /\ k.pos = h.pos + 1 /\ h.nut # "EOS"
           \/ /\ EndsUnit(h) /\ k.pos = 1 /\ q.at = EncoderAfter(h)
              /\ q.at.num = p.num /\ q.num = p.num + 1
    BY <1>3, FileAfterRead
  <2>2. /\ h \in NalUnits /\ InUnit(h) /\ p \in Pictures /\ Written(options, p)
        /\ q \in Pictures
    BY <1>1, <2>1, HeadParts DEF NalUnits
  <2>3. /\ HeadLen(p) \in Nat /\ HeadLen(q) \in Nat /\ h.pos \in Nat /\ k.pos \in Nat
        /\ UnitLen(p) \in Nat /\ UnitLen(p) >= HeadLen(p) + 1
        /\ p.num \in Nat /\ q.num \in Nat
        /\ app \in LoopStates /\ A \in LoopStates
        /\ options \in [skipFrame : Skips, highestTid : HighestTids]
        /\ missing \in SUBSET Nat
    <3>1. UnitLen(p) \in Nat /\ UnitLen(p) >= HeadLen(p) + p.layout.slices
          /\ p.layout.slices \in Nat \ {0} /\ HeadLen(p) \in Nat
      BY <2>2, UnitLength
    <3>2. UnitLen(p) >= HeadLen(p) + 1
      BY <3>1
    <3> QED
      BY <2>1, <2>2, <3>1, <3>2, UnitLength, ReadTypes DEF NalUnits, Pictures, TypeOK
  <2>4. ~(InHead(h) /\ Pending(dec, app))
    BY <1>1, ReadingAt
  <2>5. /\ p.due <=> p.num \in missing
        /\ \A n \in missing : n >= p.num
    BY <1>1, <2>4, HeadMissing
  <2>6. MissingOK
    BY <1>1 DEF DecoderOK
  <2>7. ASSUME h.nut # "EOS"
        PROVE  dec' = D /\ app' = A /\ UNCHANGED <<finished, missing>> /\ ~app.eosInPu
    <3>1. ~(ended /\ Len(file) = 1)
      BY <2>1
    <3>2. ~A.eosInPu
      <4>1. ASSUME A.eosInPu PROVE FALSE
        <5>1. app' = [A EXCEPT !.aborted = TRUE]
          BY <2>7, <4>1 DEF ReadNalUnit
        <5> QED
          BY <1>3, <2>3, <5>1 DEF LoopStates
      <4> QED
        BY <4>1
    <3>3. dec' = D /\ app' = A /\ UNCHANGED <<finished, missing>>
      BY <2>7, <3>1, <3>2 DEF ReadNalUnit
    <3>4. A.eosInPu = app.eosInPu
      BY <2>3, <2>7 DEF AppAfter, LoopStates
    <3> QED
      BY <3>2, <3>3, <3>4
  <2> DEFINE Placed == IF InHead(k) THEN Before(options, dec', app', q, k.pos)
                                    ELSE Within(options, dec', app', q, k.pos)
             Place == IF InHead(k) THEN q.at ELSE After(q)
             Rest == /\ missing' \subseteq missing
                     /\ \A n \in missing \ missing' : n < q.num
                     /\ \A n \in missing' :
                          n >= q.num \/ (InHead(k) /\ Pending(dec', app') /\ n = q.at.num)
                     /\ InHead(k) /\ Pending(dec', app') => q.at.num \in missing'
  <2>8. Placed /\ FinishedAt(finished', dec', Place) /\ Rest
    <3>1. CASE h.nut # "EOS"
      <4>1. /\ h.pos <= HeadLen(p) =>
                 /\ Before(options, D, A, p, h.pos + 1)
                 /\ FinishedAt(finished, D, p.at) /\ D.isFirstSliceInPicture
            /\ h.pos > HeadLen(p) =>
                 /\ Within(options, D, A, p, h.pos + 1)
                 /\ FinishedAt(finished, D, After(p))
        BY <1>1, <2>7, <3>1, NalUnitRead
      <4>2. dec' = D /\ app' = A /\ finished' = finished /\ missing' = missing
        BY <2>7, <3>1
      <4> HIDE DEF D, A
      <4>3. CASE q = p /\ k.pos = h.pos + 1
        <5>1. InHead(k) <=> h.pos <= HeadLen(p)
          BY <2>3, <4>3 DEF InHead
        <5>2. Placed
          BY <2>3, <4>1, <4>2, <4>3, <5>1
        <5>3. FinishedAt(finished', dec', Place)
          BY <2>3, <4>1, <4>2, <4>3, <5>1
        <5>4. InHead(k) => ~Pending(dec', app')
          BY <4>1, <4>2, <5>1 DEF Pending
        <5>5. Rest
          BY <2>5, <4>2, <4>3, <5>4
        <5> QED
          BY <5>2, <5>3, <5>5
      <4>4. CASE /\ EndsUnit(h) /\ k.pos = 1 /\ q.at = EncoderAfter(h)
                 /\ q.at.num = p.num /\ q.num = p.num + 1
        <5>1. h.pos = UnitLen(p) /\ h.pos > HeadLen(p)
          <6>1. h.pos \in 1..UnitLen(p)
            BY <2>2, <3>1, InUnitParts
          <6> QED
            BY <2>3, <4>4, <6>1 DEF EndsUnit
        <5>2. InHead(k)
          BY <2>3, <4>4 DEF InHead
        <5>3. q.at = After(p)
          BY <3>1, <4>4 DEF EncoderAfter
        <5>4. Within(options, D, A, p, UnitLen(p) + 1) /\ FinishedAt(finished, D, After(p))
          BY <4>1, <5>1
        <5>5. Before(options, D, A, q, 1) /\ (Pending(D, A) <=> p.due)
          BY <2>2, <2>3, <5>3, <5>4, NextUnit
        <5>6. Placed /\ FinishedAt(finished', dec', Place)
          BY <4>2, <4>4, <5>2, <5>3, <5>4, <5>5
        <5>7. \A n \in missing : n >= q.num \/ n = p.num
          <6>1. \A n, m \in Nat : n >= m => n >= m + 1 \/ n = m
            OBVIOUS
          <6> QED
            BY <2>3, <2>5, <4>4, <6>1
        <5>8. Rest
          BY <2>5, <4>2, <4>4, <5>2, <5>5, <5>7
        <5> QED
          BY <5>6, <5>8
      <4> QED
        BY <2>1, <4>3, <4>4
    <3>2. CASE h.nut = "EOS"
      <4>1. h.pos = UnitLen(p) + 1
        BY <2>2, <3>2, InUnitParts
      <4>2. ~InHead(h)
        BY <2>3, <4>1 DEF InHead
      <4>3. Within(options, dec, app, p, h.pos)
        BY <1>1, <4>2 DEF DecoderOK
      <4>4. EndOfPicture(D, A, TRUE, FALSE)
        <5>1. EndOfPicture(D, A, h.nut = "EOS", ended /\ Len(file) = 1)
          BY <3>2 DEF ReadNalUnit
        <5>2. (h.nut = "EOS") = TRUE
          BY <3>2
        <5>3. ~(ended /\ Len(file) = 1)
          BY <2>1
        <5>4. (ended /\ Len(file) = 1) = FALSE
          BY <5>3
        <5> QED
          BY <5>1, <5>2, <5>4
      <4>5. /\ dec'.prevTid0POC = dec.prevTid0POC /\ ~Pending(dec', app')
            /\ p.due => Finish(D) /\ Decoding(D, p, UnitLen(p)) /\ D.prevTid0POC = dec.prevTid0POC
            /\ ~p.due => UNCHANGED <<finished, missing>>
            /\ \A r \in Pictures :
                 r.at = AfterEos(After(p)) => Before(options, dec', app', r, 1)
        BY <2>2, <3>2, <4>3, <4>4, EosRead
      <4>6. /\ k.pos = 1 /\ q.at = AfterEos(After(p))
            /\ q.at.num = p.num /\ q.num = p.num + 1
        BY <2>1, <3>2 DEF EncoderAfter
      <4>7. InHead(k)
        BY <2>3, <4>6 DEF InHead
      <4>8. Placed
        BY <2>2, <4>5, <4>6, <4>7
      <4>9. FinishedAt(finished, dec, After(p))
        BY <1>1, <4>2 DEF DecoderOK, FinishedOK, Position
      <4>10. /\ q.at.tid0Poc = After(p).tid0Poc /\ q.at.cvs = After(p).cvs
             /\ q.at.entered = After(p).entered
        BY <2>2, <4>6, AfterType, AfterEosParts
      <4>11. After(p).cvs = p.cvs /\ After(p).entered = p.entered /\ p.cvs \in Nat
        BY <2>2, <2>3, AfterParts
      <4> HIDE DEF D, A
      <4>12. CASE p.due
        <5>1. /\ finished'.pic = p /\ finished'.poc = D.pic.poc
              /\ missing' = missing \ {p.num}
          BY <4>5, <4>12 DEF Finish, Decoding
        <5>2. FinishedAt(finished', dec', q.at)
          <6>1. p.entered
            BY <2>2, <4>12, EntryParts
          <6>2. finished'.poc - finished'.pic.poc = dec'.prevTid0POC - q.at.tid0Poc
            BY <4>5, <4>10, <4>12, <5>1 DEF Decoding
          <6>3. finished'.pic.cvs <= q.at.cvs
            BY <4>10, <4>11, <5>1
          <6> QED
            BY <2>2, <4>10, <4>11, <5>1, <6>1, <6>2, <6>3 DEF FinishedAt
        <5>3. \A n \in missing' : n >= q.num
          <6>1. \A n, m \in Nat : n >= m /\ n # m => n >= m + 1
            OBVIOUS
          <6> QED
            BY <2>3, <2>5, <4>6, <5>1, <6>1
        <5>4. p.num < q.num
          BY <2>3, <4>6
        <5>5. Rest
          BY <4>5, <5>1, <5>3, <5>4
        <5> QED
          BY <4>7, <4>8, <5>2, <5>5
      <4>13. CASE ~p.due
        <5>1. finished' = finished /\ missing' = missing
          BY <4>5, <4>13
        <5>2. FinishedAt(finished', dec', q.at)
          BY <4>5, <4>9, <4>10, <5>1 DEF FinishedAt
        <5>3. \A n \in missing' : n >= q.num
          <6>1. \A n, m \in Nat : n >= m /\ n # m => n >= m + 1
            OBVIOUS
          <6> QED
            BY <2>3, <2>5, <4>6, <4>13, <5>1, <6>1
        <5>4. Rest
          BY <4>5, <5>1, <5>3
        <5> QED
          BY <4>7, <4>8, <5>2, <5>4
      <4> QED
        BY <4>12, <4>13
    <3> QED
      BY <3>1, <3>2
  <2>9. MissingOK'
    <3>1. \A n \in missing' : n <= enc'.num
      BY <1>1, <2>6, <2>8 DEF MissingOK
    <3>2. ASSUME NEW i \in 1..Len(g)
          PROVE  g[i].pic.num \in missing' <=> g[i].pic.due
      <4>1. g[i].pic.num \in missing <=> g[i].pic.due
        BY <2>1, <2>6 DEF MissingOK
      <4>2. g[i].pic.num \in Nat /\ q.num <= g[i].pic.num
        <5>1. file \in Seq(NalUnits) /\ i + 1 \in 1..Len(file)
          BY <2>1 DEF TypeOK
        <5>2. file[i + 1] \in NalUnits
          BY <5>1
        <5> QED
          BY <2>1, <5>2 DEF NalUnits, Pictures
      <4>3. g[i].pic.num \notin missing \ missing'
        <5>1. \A n \in missing \ missing' : n < q.num /\ n \in Nat
          BY <2>3, <2>8
        <5> QED
          BY <2>3, <4>2, <5>1
      <4>4. missing' \subseteq missing
        BY <2>8
      <4> QED
        BY <4>1, <4>3, <4>4
    <3>3. /\ \A n \in missing' :
               n >= q.num \/ (InHead(k) /\ Pending(dec', app') /\ n = q.at.num)
          /\ InHead(k) /\ Pending(dec', app') => q.at.num \in missing'
      BY <2>8
    <3> QED
      BY <3>1, <3>2, <3>3 DEF MissingOK
  <2>10. FinishedOK'
    BY <1>3, <2>8 DEF FinishedOK, Position
  <2> QED
    BY <1>1, <1>3, <2>8, <2>9, <2>10 DEF DecoderOK
<1> QED
  BY <1>2, <1>3

\* Finishing a picture when the next one begins leaves the decoder in its place.
LEMMA NextStep ==
  ASSUME TypeOK, StreamOK, DecoderOK, NewPicture
  PROVE  DecoderOK'
<1> DEFINE h == Head(file)
           q == h.pic
           p == dec.pic.pic
<1>1. /\ file # << >> /\ h.pos = 1 /\ InHead(h)
  BY NewPictureAt DEF NewPicture
<1>2. file' = file /\ enc' = enc /\ options' = options
  BY DEF NewPicture, encoder
<1>3. /\ Before(options, dec', app', q, 1) /\ ~Pending(dec', app')
      /\ dec'.prevTid0POC = dec.prevTid0POC
  BY NewPictureStep
<1>4. \/ Pending(dec, app) /\ Finishes(p, dec) /\ After(p) = q.at
      \/ ~Pending(dec, app) /\ UNCHANGED <<finished, missing>>
  BY FinishedByNext
<1>5. FinishedOK /\ MissingOK
  BY <1>1 DEF DecoderOK
<1>6. /\ q \in Pictures /\ Written(options, q) /\ file \in Seq(NalUnits)
      /\ options \in [skipFrame : Skips, highestTid : HighestTids]
      /\ FileOK(options, file) /\ h = file[1] /\ 1 \in 1..Len(file) /\ missing \in SUBSET Nat
  BY <1>1, HeadParts DEF TypeOK
<1>7. q.num = q.at.num + 1 /\ q.at.num \in Nat
  BY <1>6, WrittenParts DEF Pictures, EncoderStates
<1>8. FinishedOK'
  <2>1. FinishedAt(finished', dec', q.at)
    <3>1. CASE Pending(dec, app) /\ Finishes(p, dec) /\ After(p) = q.at
      <4>1. /\ finished'.pic = p /\ finished'.poc = dec.pic.poc /\ p \in Pictures
            /\ Written(options, p) /\ p.entered
            /\ dec.pic.poc - p.poc = dec.prevTid0POC - q.at.tid0Poc
        BY <3>1 DEF Finishes, Finish, Decoding
      <4>2. q.at.entered = p.entered /\ q.at.cvs = p.cvs /\ p.cvs \in Nat
        BY <1>6, <3>1, <4>1, AfterParts
      <4>3. finished'.pic \in Pictures /\ q.at.entered
        BY <4>1, <4>2, Zenon
      <4>4. finished'.pic.cvs <= q.at.cvs
        <5>1. finished'.pic.cvs = p.cvs
          BY <4>1, Zenon
        <5> HIDE DEF p, q
        <5> QED
          BY <4>2, <5>1
      <4>5. finished'.poc - finished'.pic.poc = dec'.prevTid0POC - q.at.tid0Poc
        BY <1>3, <4>1
      <4> HIDE DEF q
      <4> QED
        BY <4>3, <4>4, <4>5 DEF FinishedAt
    <3>2. CASE UNCHANGED <<finished, missing>>
      BY <1>1, <1>3, <1>5, <3>2 DEF FinishedOK, FinishedAt, Position
    <3> QED
      BY <1>4, <3>1, <3>2
  <2> QED
    BY <1>1, <1>2, <2>1 DEF FinishedOK, Position
<1>9. /\ missing' \subseteq missing
      /\ \A n \in missing : n # q.at.num => n \in missing'
      /\ \A n \in missing' : n >= q.num
  <2>1. CASE Pending(dec, app) /\ Finishes(p, dec) /\ After(p) = q.at
    <3>1. missing' = missing \ {p.num}
      BY <2>1 DEF Finishes, Finish
    <3>2. p.num = q.at.num
      BY <2>1 DEF After
    <3>3. \A n \in missing : n >= q.num \/ n = q.at.num
      BY <1>5 DEF MissingOK
    <3> QED
      BY <3>1, <3>2, <3>3
  <2>2. CASE ~Pending(dec, app) /\ UNCHANGED <<finished, missing>>
    BY <1>5, <2>2 DEF MissingOK
  <2> QED
    BY <1>4, <2>1, <2>2
<1>10. MissingOK'
  <2>1. \A n \in missing' : n <= enc'.num
    BY <1>2, <1>5, <1>9 DEF MissingOK
  <2>2. ASSUME NEW i \in 1..Len(file)
        PROVE  file[i].pic.num \in missing' <=> file[i].pic.due
    <3>1. file[i].pic.num \in missing <=> file[i].pic.due
      BY <1>5 DEF MissingOK
    <3>2. 1 <= i
      OBVIOUS
    <3>3. q.num <= file[i].pic.num
      BY <1>6, <3>2, FileNumbers
    <3>4. file[i].pic.num \in Nat
      <4>1. file[i] \in NalUnits
        BY <1>6
      <4> QED
        BY <4>1 DEF NalUnits, Pictures
    <3>5. file[i].pic.num # q.at.num
      BY <1>7, <3>3, <3>4
    <3> QED
      BY <1>9, <3>1, <3>5
  <2> QED
    BY <1>2, <1>3, <1>9, <2>1, <2>2 DEF MissingOK
<1> QED
  BY <1>1, <1>2, <1>3, <1>8, <1>10 DEF DecoderOK

\* The encoder is past the NAL unit written last.
LEMMA LastNumber ==
  ASSUME TypeOK, StreamOK, file # << >>
  PROVE  /\ Last(file) = file[Len(file)] /\ Len(file) \in Nat \ {0}
         /\ Last(file) \in NalUnits /\ Last(file).pic \in Pictures
         /\ Written(options, Last(file).pic)
         /\ enc.num = Last(file).pic.num /\ EndsUnit(Last(file))
         /\ enc = EncoderAfter(Last(file))
         /\ \A i \in 1..Len(file) : file[i].pic.num <= enc.num /\ file[i].pic.num \in Nat
<1> DEFINE n == Len(file)
           a == Last(file)
<1>1. file \in Seq(NalUnits) /\ FileOK(options, file)
      /\ options \in [skipFrame : Skips, highestTid : HighestTids]
  BY DEF TypeOK, StreamOK
<1>2. a = file[n] /\ n \in Nat \ {0} /\ a \in NalUnits
  BY <1>1, TailParts
<1>3. n \in 1..n
  BY <1>2
<1>4. a.pic \in Pictures /\ Written(options, a.pic)
  BY <1>1, <1>2, <1>3 DEF FileOK, NalUnits
<1>5. EndsUnit(a) /\ enc = EncoderAfter(a)
  BY DEF StreamOK
<1>6. enc.num = a.pic.num
  <2>1. After(a.pic).num = a.pic.num /\ After(a.pic) \in EncoderStates
    BY <1>4, AfterType DEF After
  <2> QED
    BY <1>5, <2>1, AfterEosParts DEF EncoderAfter
<1>7. ASSUME NEW i \in 1..n PROVE file[i].pic.num <= enc.num /\ file[i].pic.num \in Nat
  <2>1. i <= n
    BY <1>2
  <2>2. file[i].pic.num <= file[n].pic.num
    BY <1>1, <1>3, <2>1, FileNumbers
  <2>3. file[i] \in NalUnits
    BY <1>1
  <2> QED
    BY <1>2, <1>6, <2>2, <2>3 DEF NalUnits, Pictures
<1> QED
  BY <1>2, <1>4, <1>5, <1>6, <1>7

\* What was written behind the NAL unit that comes next moves the decoder not.
LEMMA WrittenBehind ==
  ASSUME DecoderOK, file # << >>, UNCHANGED <<options, dec, app, finished>>,
         file' # << >>, Head(file') = Head(file), MissingOK'
  PROVE  DecoderOK'
<1>1. FinishedOK'
  BY DEF DecoderOK, FinishedOK, Position
<1> QED
  BY <1>1 DEF DecoderOK

\* A picture unit written.
LEMMA WriteStep ==
  ASSUME TypeOK, StreamOK, WritePicture
  PROVE  TypeOK' /\ StreamOK' /\ (DecoderOK => DecoderOK')
<1>1. PICK type \in Types, tid \in {0, 1}, step \in Steps, l \in Layouts :
        LET p == Picture(enc, options, type, tid, step, l)
        IN /\ ~ended /\ ~Ready /\ enc.num < MaxPics
           /\ MayFollow(enc, type, tid) /\ ~IsExcluded(options, p)
           /\ file' = file \o PictureUnit(p)
           /\ enc' = After(p)
           /\ missing' = IF p.due THEN missing \cup {p.num} ELSE missing
           /\ UNCHANGED <<ended, options, dec, app, finished>>
  BY DEF WritePicture
<1> DEFINE p == Picture(enc, options, type, tid, step, l)
<1>2. /\ file \in Seq(NalUnits) /\ enc \in EncoderStates /\ missing \in SUBSET Nat
      /\ options \in [skipFrame : Skips, highestTid : HighestTids]
      /\ EncoderOK(options, enc) /\ FileOK(options, file)
  BY DEF TypeOK, StreamOK
<1>3. /\ p \in Pictures /\ p.at = enc /\ p.type = type /\ p.tid = tid /\ p.layout = l
      /\ p.num = enc.num + 1 /\ enc.num \in Nat
  BY <1>2, PictureType DEF EncoderStates
<1>4. Written(options, p)
  <2>1. p = Picture(p.at, options, p.type, p.tid, step, p.layout)
    BY <1>3
  <2> HIDE DEF p
  <2>2. \E s \in Steps : p = Picture(p.at, options, p.type, p.tid, s, p.layout)
    BY <2>1
  <2>3. ~IsExcluded(options, p) /\ MayFollow(p.at, p.type, p.tid) /\ p.at.num < MaxPics
    BY <1>1, <1>3 DEF p
  <2> QED
    BY <1>2, <1>3, <2>2, <2>3 DEF Written
<1>5. /\ ~ended /\ file' = file \o PictureUnit(p) /\ enc' = After(p)
      /\ missing' = IF p.due THEN missing \cup {p.num} ELSE missing
      /\ ended' = ended /\ options' = options /\ dec' = dec /\ app' = app
      /\ finished' = finished
  BY <1>1
<1> HIDE DEF p
<1>6. file # << >> => EndsUnit(Last(file)) /\ p.at = EncoderAfter(Last(file))
  BY <1>3, LastNumber
<1>7. /\ FileOK(options, file') /\ file' \in Seq(NalUnits) /\ file' # << >>
      /\ Last(file') = NalUnit(p, UnitLen(p))
      /\ Len(file') = Len(file) + UnitLen(p)
      /\ \A i \in 1..Len(file) : file'[i] = file[i]
      /\ \A i \in 1..UnitLen(p) : file'[Len(file) + i] = NalUnit(p, i)
  BY <1>2, <1>3, <1>4, <1>5, <1>6, UnitWritten
<1>8. UnitLen(p) \in Nat \ {0} /\ HeadLen(p) \in Nat
  BY <1>3, UnitLength
<1>9. \A i \in 1..UnitLen(p) : NalUnit(p, i).pic = p /\ NalUnit(p, i).pos = i
                               /\ NalUnit(p, i).nut # "EOS"
  BY <1>3, NalUnitParts
<1>10. TypeOK'
  <2>1. After(p) \in EncoderStates /\ p.num \in Nat
    BY <1>3, AfterType DEF Pictures
  <2> QED
    BY <1>2, <1>5, <1>7, <2>1 DEF TypeOK
<1>11. StreamOK'
  <2>1. EncoderOK(options, After(p))
    BY <1>2, <1>3, <1>4, AfterOK
  <2>2. EndsUnit(Last(file')) /\ After(p) = EncoderAfter(Last(file'))
    BY <1>7, <1>8, <1>9 DEF EndsUnit, EncoderAfter
  <2> QED
    BY <1>5, <1>7, <2>1, <2>2 DEF StreamOK
<1>12. After(p).num = p.num /\ p.num \in Nat
  BY <1>3 DEF After, Pictures
<1>13. Head(file') = file'[1]
  BY <1>7, TailParts
<1>14. ASSUME DecoderOK PROVE DecoderOK'
  <2>1. CASE file = << >>
    <3>1. NothingYet /\ enc.num = 0
      BY <1>5, <1>14, <2>1 DEF DecoderOK, StreamOK
    <3>2. Len(file) = 0
      BY <2>1
    <3>3. Len(file') = UnitLen(p) /\ \A i \in 1..UnitLen(p) : file'[i] = NalUnit(p, i)
      BY <1>7, <1>8, <3>2
    <3>4. 1 \in 1..UnitLen(p)
      BY <1>8
    <3>5. Head(file').pic = p /\ Head(file').pos = 1
      BY <1>9, <1>13, <3>3, <3>4
    <3>6. InHead(Head(file'))
      BY <1>8, <3>5 DEF InHead
    <3>7. ~enc.afterEos
      BY <1>2, <3>1 DEF EncoderOK
    <3>8. Before(options, dec, app, p, 1)
      <4>1. SeisRead(p, 0) = {} /\ 1 - 1 = 0
        BY <1>3, ReadSoFar
      <4>2. {p.num} \X SeisRead(p, 1 - 1) = {}
        BY <4>1
      <4>3. Synced(options, dec, app, p.at)
        BY <1>3, <3>1 DEF NothingYet
      <4> QED
        BY <1>3, <3>1, <3>7, <4>2, <4>3 DEF NothingYet, Before, Pending
    <3>9. FinishedOK'
      BY <1>5, <3>1 DEF NothingYet, FinishedOK, FinishedAt
    <3>10. MissingOK'
      <4>1. missing' = IF p.due THEN {p.num} ELSE {}
        BY <1>5, <3>1 DEF NothingYet
      <4>2. \A i \in 1..Len(file') : file'[i].pic = p
        BY <1>9, <3>3
      <4>3. ~Pending(dec, app)
        BY <3>1 DEF NothingYet, Pending
      <4>4. p.num >= p.num
        BY <1>12
      <4> QED
        BY <1>5, <1>12, <3>5, <4>1, <4>2, <4>3, <4>4 DEF MissingOK
    <3> QED
      BY <1>5, <1>7, <3>5, <3>6, <3>8, <3>9, <3>10 DEF DecoderOK
  <2>2. CASE file # << >>
    <3>1. /\ \A i \in 1..Len(file) : file[i].pic.num <= enc.num /\ file[i].pic.num \in Nat
          /\ Len(file) \in Nat \ {0} /\ Head(file) = file[1]
      BY <1>2, <2>2, LastNumber, TailParts
    <3>2. 1 \in 1..Len(file)
      BY <3>1
    <3>3. Head(file') = Head(file) /\ Head(file).pic.num <= enc.num
          /\ Head(file).pic.num \in Nat
      BY <1>7, <1>13, <3>1, <3>2
    <3>4. MissingOK
      BY <1>14, <2>2 DEF DecoderOK
    <3>5. \A n \in missing : n <= enc.num /\ n \in Nat
      BY <1>2, <3>4 DEF MissingOK
    <3>6. p.num \notin missing
      BY <1>3, <3>5
    <3>7. missing \subseteq missing' /\ \A n \in missing' : n \in missing \/ n = p.num
      BY <1>5
    <3>8. p.num \in missing' <=> p.due
      BY <1>3, <1>5, <3>6 DEF Pictures
    <3>9. \A n \in missing' : n <= After(p).num
      BY <1>3, <1>12, <3>5, <3>7
    <3>10. ASSUME NEW i \in 1..Len(file')
           PROVE  file'[i].pic.num \in missing' <=> file'[i].pic.due
      <4>1. CASE i \in 1..Len(file)
        <5>1. file'[i] = file[i] /\ (file[i].pic.num \in missing <=> file[i].pic.due)
          BY <1>7, <3>4, <4>1 DEF MissingOK
        <5>2. file[i].pic.num # p.num
          BY <1>3, <3>1, <4>1
        <5> QED
          BY <3>7, <5>1, <5>2
      <4>2. CASE ~(i \in 1..Len(file))
        <5>1. i - Len(file) \in 1..UnitLen(p) /\ Len(file) + (i - Len(file)) = i
          BY <1>7, <1>8, <3>1, <4>2
        <5>2. file'[i] = NalUnit(p, i - Len(file))
          BY <1>7, <5>1
        <5>3. file'[i].pic = p
          BY <1>9, <5>1, <5>2
        <5> QED
          BY <3>8, <5>3
      <4> QED
        BY <4>1, <4>2
    <3>11. ASSUME NEW n \in missing'
           PROVE  \/ n >= Head(file).pic.num
                  \/ InHead(Head(file)) /\ Pending(dec, app) /\ n = Head(file).pic.at.num
      <4>1. CASE n \in missing
        BY <3>4, <4>1 DEF MissingOK
      <4>2. CASE n = p.num
        BY <1>3, <3>3, <4>2
      <4> QED
        BY <3>7, <4>1, <4>2
    <3>12. MissingOK'
      BY <1>5, <3>3, <3>4, <3>7, <3>9, <3>10, <3>11 DEF MissingOK
    <3> QED
      BY <1>5, <1>7, <1>14, <2>2, <3>3, <3>12, WrittenBehind
  <2> QED
    BY <2>1, <2>2
<1> QED
  BY <1>10, <1>11, <1>14

\* An EOS written.
LEMMA EosStep ==
  ASSUME TypeOK, StreamOK, WriteEos
  PROVE  TypeOK' /\ StreamOK' /\ (DecoderOK => DecoderOK')
<1> DEFINE a == Last(file)
           p == a.pic
<1>1. /\ ~ended /\ file # << >> /\ ~enc.afterEos
      /\ file' = Append(file, Eos(p)) /\ enc' = AfterEos(enc)
      /\ ended' = ended /\ options' = options /\ dec' = dec /\ app' = app
      /\ finished' = finished /\ missing' = missing
  BY DEF WriteEos
<1>2. /\ file \in Seq(NalUnits) /\ enc \in EncoderStates /\ FileOK(options, file)
      /\ options \in [skipFrame : Skips, highestTid : HighestTids]
  BY DEF TypeOK, StreamOK
<1>3. /\ a = file[Len(file)] /\ Len(file) \in Nat \ {0} /\ p \in Pictures
      /\ Written(options, p) /\ EndsUnit(a) /\ enc = EncoderAfter(a)
      /\ Head(file) = file[1]
  BY <1>1, <1>2, LastNumber, TailParts
<1>4. a.nut # "EOS" /\ enc = After(p)
  <2>1. After(p) \in EncoderStates
    BY <1>3, AfterType
  <2>2. AfterEos(After(p)).afterEos = TRUE
    BY <2>1, AfterEosParts
  <2> QED
    BY <1>1, <1>3, <2>2 DEF EncoderAfter
<1>5. /\ FileOK(options, file') /\ file' \in Seq(NalUnits) /\ file' # << >>
      /\ Last(file') = Eos(p) /\ Len(file') = Len(file) + 1
      /\ \A i \in 1..Len(file) : file'[i] = file[i]
  BY <1>1, <1>2, <1>3, <1>4, EosWritten
<1>6. Eos(p).nut = "EOS" /\ Eos(p).pic = p /\ Eos(p).pos = UnitLen(p) + 1
      /\ UnitLen(p) \in Nat
  BY <1>3, EosParts, UnitLength
<1>7. AfterEos(enc) \in EncoderStates /\ EncoderOK(options, AfterEos(enc))
      /\ AfterEos(enc).num = enc.num
  BY <1>2, <1>3, <1>4, AfterType, AfterOK, AfterEosParts
<1>8. TypeOK'
  BY <1>1, <1>5, <1>7 DEF TypeOK
<1>9. StreamOK'
  <2>1. EndsUnit(Last(file')) /\ AfterEos(enc) = EncoderAfter(Last(file'))
    BY <1>4, <1>5, <1>6 DEF EndsUnit, EncoderAfter
  <2> QED
    BY <1>1, <1>5, <1>7, <2>1 DEF StreamOK
<1>10. ASSUME DecoderOK PROVE DecoderOK'
  <2>1. Head(file') = Head(file)
    <3>1. Head(file') = file'[1] /\ 1 \in 1..Len(file)
      BY <1>3, <1>5, TailParts
    <3> QED
      BY <1>3, <1>5, <3>1
  <2>2. MissingOK
    BY <1>1, <1>10 DEF DecoderOK
  <2>3. ASSUME NEW i \in 1..Len(file')
        PROVE  file'[i].pic.num \in missing <=> file'[i].pic.due
    <3>1. CASE i \in 1..Len(file)
      BY <1>5, <2>2, <3>1 DEF MissingOK
    <3>2. CASE ~(i \in 1..Len(file))
      <4>1. i = Len(file') /\ Len(file) \in 1..Len(file)
        BY <1>3, <1>5, <3>2
      <4>2. file'[i] = Last(file')
        BY <1>5, <4>1, TailParts
      <4>3. file'[i].pic = p /\ p = file[Len(file)].pic
        BY <1>3, <1>5, <1>6, <4>2
      <4> QED
        BY <2>2, <4>1, <4>3 DEF MissingOK
    <3> QED
      BY <3>1, <3>2
  <2>4. MissingOK'
    BY <1>1, <1>7, <2>1, <2>2, <2>3 DEF MissingOK
  <2> QED
    BY <1>1, <1>5, <1>10, <2>1, <2>4, WrittenBehind
<1> QED
  BY <1>8, <1>9, <1>10

\* The end of the file.
LEMMA EndStep ==
  ASSUME TypeOK, StreamOK, EndOfFile
  PROVE  TypeOK' /\ StreamOK' /\ (DecoderOK => DecoderOK')
<1>1. /\ ended' = TRUE /\ file # << >>
      /\ UNCHANGED <<file, enc, options, dec, app, finished, missing>>
  BY DEF EndOfFile
<1>2. TypeOK' /\ StreamOK'
  BY <1>1 DEF TypeOK, StreamOK
<1>3. ASSUME DecoderOK PROVE DecoderOK'
  <2>1. MissingOK'
    BY <1>1, <1>3 DEF DecoderOK, MissingOK
  <2> QED
    BY <1>1, <1>3, <2>1, WrittenBehind
<1> QED
  BY <1>2, <1>3

\* Before anything was written.
LEMMA InvInit ==
  ASSUME Init
  PROVE  Inv
<1>1. PICK start \in StartPocs :
        enc = [num |-> 0, offered |-> 0, tid0Poc |-> start, last |-> None, cvs |-> 0,
               afterEos |-> FALSE, alone |-> FALSE,
               entered |-> FALSE, skipsRasl |-> FALSE, lastDue |-> TRUE]
  BY DEF Init
<1>2. file = << >> /\ ended = FALSE /\ missing = {} /\ finished.order = 0
      /\ options \in [skipFrame : Skips, highestTid : HighestTids]
  BY DEF Init
<1>3. options.skipFrame \in Nat
  BY <1>2, Constants
<1>4. TypeOK
  <2>1. enc \in EncoderStates
    BY <1>1, Constants DEF EncoderStates
  <2>2. NoPicture \in DecodedPictures
    BY DEF NoPicture, DecodedPictures
  <2>3. dec \in DecoderStates
    BY <2>2 DEF Init, DecoderStates, MAX_INT
  <2>4. app \in LoopStates
    BY <1>3 DEF Init, LoopStates
  <2>5. finished \in FinishedPictures
    BY DEF Init, FinishedPictures
  <2>6. ended \in BOOLEAN /\ missing \in SUBSET Nat
    BY <1>2
  <2>7. << >> \in Seq(NalUnits)
    OBVIOUS
  <2> QED
    BY <1>2, <2>1, <2>3, <2>4, <2>5, <2>6, <2>7, Zenon DEF TypeOK
<1>5. EncoderOK(options, enc)
  BY <1>1, Constants DEF EncoderOK
<1>6. FileOK(options, file)
  <2>1. Len(file) = 0
    BY <1>2
  <2> QED
    BY <2>1 DEF FileOK
<1>7. StreamOK
  BY <1>1, <1>2, <1>5, <1>6 DEF StreamOK
<1>8. Synced(options, dec, app, enc)
  <2>1. /\ enc.num = 0 /\ enc.offered = 0 /\ enc.last = None /\ enc.entered = FALSE
        /\ enc.afterEos = FALSE
    BY <1>1
  <2>2. /\ dec.firstSliceInSequence = TRUE /\ dec.prevTid0POC = 0
        /\ dec.pocRandomAccess = MAX_INT /\ dec.skippedBefore = FALSE
        /\ app.skipFrame = options.skipFrame /\ app.picListSet = FALSE
    BY DEF Init
  <2>3. 0 \in 0..(0 + 1) * MaxLsb /\ None # "IDR"
    BY Half, Constants DEF Types
  <2> QED
    BY <2>1, <2>2, <2>3 DEF Synced, SkipFrameAt
<1>9. NothingYet
  BY <1>2, <1>8 DEF NothingYet, Init
<1> QED
  BY <1>2, <1>4, <1>7, <1>9 DEF Inv, DecoderOK

\* The stream stays a conforming one, and the variables in their sets.
LEMMA StreamNext ==
  ASSUME TypeOK, StreamOK, [Next]_vars
  PROVE  TypeOK' /\ StreamOK'
<1>1. CASE WritePicture \/ WriteEos \/ EndOfFile
  BY <1>1, WriteStep, EosStep, EndStep
<1>2. CASE NewPicture
  <2>1. UNCHANGED <<file, ended, enc, options>>
    BY <1>2 DEF NewPicture, encoder
  <2>2. StreamOK'
    BY <2>1 DEF StreamOK
  <2> QED
    BY <1>2, <2>2, DecodeTypes DEF Decode
<1>3. CASE ReadNalUnit
  BY <1>3, DecodeTypes, FileAfterRead DEF Decode
<1>4. CASE UNCHANGED vars
  BY <1>4 DEF vars, encoder, TypeOK, StreamOK
<1> QED
  BY <1>1, <1>2, <1>3, <1>4 DEF Next, Decode

\* Every step keeps the invariant.
LEMMA InvNext ==
  ASSUME KnownNotToWork \subseteq Excluded, Inv, [Next]_vars
  PROVE  Inv'
<1>1. TypeOK /\ StreamOK /\ TypeOK' /\ StreamOK'
  BY StreamNext DEF Inv
<1>2. CASE WritePicture \/ WriteEos \/ EndOfFile
  <2>1. app' = app
    BY <1>2 DEF WritePicture, WriteEos, EndOfFile
  <2>2. DecoderOK => DecoderOK'
    BY <1>1, <1>2, WriteStep, EosStep, EndStep
  <2> QED
    BY <1>1, <2>1, <2>2 DEF Inv
<1>3. CASE NewPicture
  <2>1. ~app.aborted
    BY <1>3 DEF NewPicture
  <2>2. DecoderOK'
    BY <1>1, <1>3, <2>1, NextStep DEF Inv
  <2> QED
    BY <1>1, <2>2 DEF Inv
<1>4. CASE ReadNalUnit
  <2>1. ~app.aborted
    BY <1>4 DEF ReadNalUnit
  <2>2. app'.aborted \/ DecoderOK'
    BY <1>1, <1>4, <2>1, ReadStep DEF Inv
  <2> QED
    BY <1>1, <2>2 DEF Inv
<1>5. CASE UNCHANGED vars
  <2>1. UNCHANGED <<file, ended, enc, options, dec, app, finished, missing>>
    BY <1>5 DEF vars, encoder
  <2>2. DecoderOK => DecoderOK'
    BY <2>1 DEF DecoderOK, NothingYet, FinishedOK, Position, MissingOK
  <2> QED
    BY <1>1, <2>1, <2>2 DEF Inv
<1> QED
  BY <1>2, <1>3, <1>4, <1>5 DEF Next, Decode

\* A step that finishes a picture finishes one all of which was decoded.
LEMMA FinishedPicture ==
  ASSUME KnownNotToWork \subseteq Excluded, Inv, [Next]_vars, PictureFinished
  PROVE  \E p \in Pictures, d \in DecoderStates : Finishes(p, d)
<1>1. TypeOK /\ StreamOK
  BY DEF Inv
<1>2. NewPicture \/ ReadNalUnit
  BY DEF PictureFinished, Next, Decode, WritePicture, WriteEos, EndOfFile, vars
<1>3. DecoderOK
  BY <1>2 DEF Inv, NewPicture, ReadNalUnit
<1>4. CASE NewPicture
  <2>1. Finishes(dec.pic.pic, dec)
    BY <1>1, <1>3, <1>4, FinishedByNext DEF PictureFinished
  <2>2. dec.pic.pic \in Pictures /\ dec \in DecoderStates
    BY <1>1, <2>1 DEF Finishes, TypeOK
  <2> QED
    BY <2>1, <2>2
<1>5. CASE ReadNalUnit
  <2> DEFINE h == Head(file)
  <2>1. Finishes(h.pic, DecAfter(h))
    BY <1>1, <1>3, <1>5, FinishedByRead DEF PictureFinished
  <2>2. h \in NalUnits /\ InUnit(h)
    BY <1>1, <1>5, HeadParts DEF ReadNalUnit
  <2>3. h.pic \in Pictures /\ DecAfter(h) \in DecoderStates
    BY <1>1, <2>2, ReadTypes DEF NalUnits
  <2> QED
    BY <2>1, <2>3
<1> QED
  BY <1>2, <1>4, <1>5

-----------------------------------------------------------------------------
(* The theorems.                                                            *)

\* The variables stay in their sets and the file holds picture units of a
\* conforming stream, each whole but for what was read, whatever is excluded.
THEOREM StreamsConform == Spec => [](TypeOK /\ StreamOK)
<1>1. Init => TypeOK /\ StreamOK
  BY InvInit DEF Inv
<1>2. TypeOK /\ StreamOK /\ [Next]_vars => (TypeOK /\ StreamOK)'
  BY StreamNext
<1> QED
  BY <1>1, <1>2, PTL DEF Spec

\* The decoder is always where the stream says, or was stopped by the CHECK.
THEOREM InvariantHolds ==
  ASSUME KnownNotToWork \subseteq Excluded
  PROVE  Spec => []Inv
<1>1. Init => Inv
  BY InvInit
<1>2. Inv /\ [Next]_vars => Inv'
  BY InvNext
<1> QED
  BY <1>1, <1>2, PTL DEF Spec

\* WholePictures: finishPicture runs on the pictures the user asked for in
\* decoding order, once for each, and each has all its slices and no others.
THEOREM PicturesAreWhole ==
  ASSUME KnownNotToWork \subseteq Excluded
  PROVE  Spec => WholePictures
<1> DEFINE Whole ==
      /\ finished'.pic.num \in missing
      /\ \A n \in missing : n >= finished'.pic.num
      /\ finished'.slices = {finished'.pic.num} \X (0..finished'.pic.layout.slices - 1)
<1>1. ASSUME Inv, [Next]_vars, PictureFinished
      PROVE  Whole
  <2>1. PICK p \in Pictures, d \in DecoderStates : Finishes(p, d)
    BY <1>1, FinishedPicture
  <2>2. finished'.pic = p /\ finished'.slices = d.pic.slices
    BY <2>1 DEF Finishes, Finish, Decoding
  <2>3. d.pic.slices = {p.num} \X SlicesRead(p, UnitLen(p))
    BY <2>1 DEF Finishes, Decoding
  <2>4. SlicesRead(p, UnitLen(p)) = 0..(p.layout.slices - 1)
    BY ReadSoFar
  <2>5. p.num \in missing /\ \A n \in missing : n >= p.num
    BY <2>1 DEF Finishes
  <2> QED
    BY <2>2, <2>3, <2>4, <2>5
<1>2. Inv /\ [Next]_vars => [PictureFinished => Whole]_vars
  BY <1>1
<1> QED
  BY <1>2, InvariantHolds, PTL DEF Spec, WholePictures

\* SeisWithTheirPicture: the SEI messages of a finished picture are those of its
\* own unit, prefix and suffix, whatever pictures around it are skipped.
THEOREM SeisStayWithTheirPicture ==
  ASSUME KnownNotToWork \subseteq Excluded
  PROVE  Spec => SeisWithTheirPicture
<1> DEFINE Own == finished'.seis = {finished'.pic.num} \X Seis(finished'.pic)
<1>1. ASSUME Inv, [Next]_vars, PictureFinished
      PROVE  Own
  <2>1. PICK p \in Pictures, d \in DecoderStates : Finishes(p, d)
    BY <1>1, FinishedPicture
  <2>2. finished'.pic = p /\ finished'.seis = d.pic.seis
    BY <2>1 DEF Finishes, Finish, Decoding
  <2>3. d.pic.seis = {p.num} \X SeisRead(p, UnitLen(p))
    BY <2>1 DEF Finishes, Decoding
  <2> QED
    BY <2>2, <2>3, AllSeisRead
<1>2. Inv /\ [Next]_vars => [PictureFinished => Own]_vars
  BY <1>1
<1> QED
  BY <1>2, InvariantHolds, PTL DEF Spec, SeisWithTheirPicture

\* PocsAgree: within a sequence the decoder's POCs differ from the encoder's by
\* one constant, wherever decoding started and whatever was skipped.
THEOREM PocsDifferByOneConstant ==
  ASSUME KnownNotToWork \subseteq Excluded
  PROVE  Spec => PocsAgree
<1> DEFINE Same ==
      finished.order # 0 /\ finished'.pic.cvs = finished.pic.cvs =>
        finished'.poc - finished'.pic.poc = finished.poc - finished.pic.poc
<1>1. ASSUME Inv, [Next]_vars, PictureFinished
      PROVE  Same
  <2>1. PICK p \in Pictures, d \in DecoderStates : Finishes(p, d)
    BY <1>1, FinishedPicture
  <2>2. finished'.pic = p /\ finished'.poc = d.pic.poc /\ After(p).cvs = p.cvs
    BY <2>1 DEF Finishes, Finish, Decoding, After
  <2>3. d.pic.poc - p.poc = d.prevTid0POC - After(p).tid0Poc
    BY <2>1 DEF Finishes, Decoding
  <2>4. FinishedAt(finished, d, After(p))
    BY <2>1 DEF Finishes
  <2> QED
    BY <2>2, <2>3, <2>4 DEF FinishedAt
<1>2. Inv /\ [Next]_vars => [PictureFinished /\ finished.order # 0
                              /\ finished'.pic.cvs = finished.pic.cvs =>
        finished'.poc - finished'.pic.poc = finished.poc - finished.pic.poc]_vars
  BY <1>1
<1> QED
  BY <1>2, InvariantHolds, PTL DEF Spec, PocsAgree

\* SequencesStartAlike: the decoder starts a sequence where the encoder did, at
\* an IDR picture, after an EOS and at its entry, and nowhere else.
THEOREM SequencesStartTogether ==
  ASSUME KnownNotToWork \subseteq Excluded
  PROVE  Spec => SequencesStartAlike
<1> DEFINE Alike ==
      LET p == finished'.pic
      IN /\ p.at.afterEos = EosSeen(p) => finished'.nobr = Starts(p)
         /\ finished'.newCLVS = (p.type = "IDR" \/ p.at.afterEos)
<1>1. ASSUME Inv, [Next]_vars, PictureFinished
      PROVE  Alike
  <2>1. PICK p \in Pictures, d \in DecoderStates : Finishes(p, d)
    BY <1>1, FinishedPicture
  <2>2. /\ finished'.pic = p /\ finished'.nobr = d.pic.nobr
        /\ finished'.newCLVS = d.pic.newCLVS
    BY <2>1 DEF Finishes, Finish, Decoding
  <2>3. /\ p.at.afterEos = EosSeen(p) => d.pic.nobr = Starts(p)
        /\ d.pic.newCLVS = (p.type = "IDR" \/ p.at.afterEos)
    BY <2>1 DEF Finishes, Decoding
  <2> QED
    BY <2>2, <2>3
<1>2. Inv /\ [Next]_vars => [PictureFinished => Alike]_vars
  BY <1>1
<1> QED
  BY <1>2, InvariantHolds, PTL DEF Spec, SequencesStartAlike
=============================================================================
