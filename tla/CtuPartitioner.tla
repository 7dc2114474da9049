--------------------------- MODULE CtuPartitioner ---------------------------
(***************************************************************************)
(* The partitioner of a CTU (QTBTPartitioner): the stack of splits that    *)
(* lead to the block in hand, the depths that are kept along with it, and  *)
(* the splits that are allowed there.  Encoder search, writer and reader   *)
(* each have one and step it through the tree; what the reader parses      *)
(* depends on every member of it.                                          *)
(*                                                                         *)
(* Operators without state.  A partitioner p has the members               *)
(*   stack    the levels: the split that made the level, its parts, the    *)
(*            number of the part in hand (idx), the implicit split of that *)
(*            part ("unknown" until asked for), the split of the first     *)
(*            part once it is coded (first), whether the parts may start   *)
(*            quantisation groups (qg), and the MTT depth allowed for the  *)
(*            part in hand (maxMtt)                                        *)
(*   qt, bt, mt, impl, subdiv    currQtDepth, currBtDepth, currMtDepth,    *)
(*            currImplicitBtDepth, currSubdiv                              *)
(*   qgPos    currQgPos                                                    *)
(* Positions and sizes are luma samples; the CTU is at <<0, 0>>.  A setup  *)
(* s holds what the parameter sets, the slice and its collocated picture   *)
(* say: see MCPartitions for its fields.  4:2:0, one partitioner at a time *)
(* (a dual tree splits luma and chroma alike down to 128x128), without     *)
(* transform splits, which keep no state beyond a CU, and without the      *)
(* quantisation groups of chroma, kept like those of luma.  A CTU is no    *)
(* larger than MAX_TB_SIZEY, which decides nothing then.                   *)
(***************************************************************************)
EXTENDS Integers, SequencesExt

BinarySplits == {"BH", "BV"}
TernarySplits == {"TH", "TV"}
MttSplits == BinarySplits \cup TernarySplits

MIN_TB_SIZEY == 4
MIN_DUALTREE_CHROMA_WIDTH == 4
MIN_DUALTREE_CHROMA_SIZE == 16

-----------------------------------------------------------------------------
(* Areas.                                                                   *)

Area(x, y, w, h) == [x |-> x, y |-> y, w |-> w, h |-> h]
Samples(a) == a.w * a.h
PosOf(a) == <<a.x, a.y>>
Center(a) == <<a.x + a.w \div 2, a.y + a.h \div 2>>
InPicture(s, pos) == pos[1] < s.width /\ pos[2] < s.height

\* getCUSubPartitions: quarters, halves, or a half between two quarters.
SubPartitions(a, split) ==
  CASE split = "QT" -> [i \in 1..4 |->
         Area(a.x + ((i - 1) % 2) * (a.w \div 2), a.y + ((i - 1) \div 2) * (a.h \div 2),
              a.w \div 2, a.h \div 2)]
    [] split = "BH" -> [i \in 1..2 |-> Area(a.x, a.y + (i - 1) * (a.h \div 2), a.w, a.h \div 2)]
    [] split = "BV" -> [i \in 1..2 |-> Area(a.x + (i - 1) * (a.w \div 2), a.y, a.w \div 2, a.h)]
    [] split = "TH" -> [i \in 1..3 |->
         Area(a.x, a.y + <<0, 1, 3>>[i] * (a.h \div 4), a.w, a.h \div <<4, 2, 4>>[i])]
    [] split = "TV" -> [i \in 1..3 |->
         Area(a.x + <<0, 1, 3>>[i] * (a.w \div 4), a.y, a.w \div <<4, 2, 4>>[i], a.h)]

-----------------------------------------------------------------------------
(* The block in hand, and what the collocated picture says about it.        *)

Top(p) == Last(p.stack)
CurrArea(p) == Top(p).parts[Top(p).idx]

\* getQtDepthInfo: what setSplitPred has left in the buffer of the collocated
\* picture for the 16x16 samples around the centre of the block.  Here they
\* differ between the halves of the CTU only.
SplitPred(s, a) == IF Center(a)[1] < s.ctu \div 2 THEN s.col.left ELSE s.col.right

HasSplitPred(s, a) == s.tempPartPred /\ ~s.intra /\ ~s.chroma /\ InPicture(s, Center(a))

\* updateMaxMttDepth: one more level where the collocated picture went deeper.
MaxMttDepth(s, a, qt) ==
  LET pred == SplitPred(s, a)
      sameQt == qt = pred.qtDepth /\ pred.mttDepth >= s.col.maxMtt \div 2
      smallerQt == qt = pred.qtDepth - 1 /\ pred.mttDepth = s.col.maxMtt \div 2
      deeper == /\ HasSplitPred(s, a) /\ s.maxMtt # 0 /\ pred.maxBtDepth > s.maxMtt
                /\ s.col.related /\ (sameQt \/ (~s.col.intra /\ smallerQt))
  IN IF deeper THEN s.maxMtt + 1 ELSE s.maxMtt

ImplicitSplitMutant(s, p) ==                          \* looks at the bottom edge only
  LET a == CurrArea(p)
      btAllowed == a.w <= s.maxBt /\ a.h <= s.maxBt /\ p.mt < Top(p).maxMtt + p.impl
  IN IF InPicture(s, <<a.x, a.y + a.h - 1>>) THEN "NO" ELSE IF btAllowed THEN "BH" ELSE "QT"

\* getImplicitSplit: the split of a block across the bottom or right edge of the
\* picture.
ImplicitSplit(s, p) ==
  LET a == CurrArea(p)
      blInPic == InPicture(s, <<a.x, a.y + a.h - 1>>)
      trInPic == InPicture(s, <<a.x + a.w - 1, a.y>>)
      btAllowed == a.w <= s.maxBt /\ a.h <= s.maxBt /\ p.mt < Top(p).maxMtt + p.impl
      qtAllowed == a.w > s.minQt /\ a.h > s.minQt /\ p.bt = 0
  IN IF blInPic /\ trInPic THEN "NO"
     ELSE IF ~btAllowed \/ (~blInPic /\ ~trInPic /\ qtAllowed) THEN "QT"
     ELSE IF blInPic THEN "BV" ELSE "BH"

\* What was found for the block is kept with its level.
KnownImplicitSplit(s, p) ==
  IF Top(p).implicit = "unknown" THEN ImplicitSplit(s, p) ELSE Top(p).implicit

-----------------------------------------------------------------------------
(* canSplit: the splits, "NO" among them, that a block may have.            *)

CanQtMutant(s, p) == CurrArea(p).w > s.minQt          \* quarters below halves

\* Quarters come from quarters.
CanQt(s, p) ==
  LET a == CurrArea(p)
  IN /\ Top(p).split \in {"CTU", "QT"}
     /\ a.w > s.minQt
     /\ s.chroma => a.w \div 2 > MIN_DUALTREE_CHROMA_WIDTH

\* What the collocated picture rules out: a block more than a level above its
\* smallest QT depth must be quartered, one more than a level above the mean is
\* not halved.
RuledOutByPred(s, p) ==
  LET pred == SplitPred(s, CurrArea(p))
      belowMin == (~s.plt \/ ~s.col.intra) /\ p.qt + 1 < pred.minQtDepth
      belowMean == ~s.plt /\ p.qt + 1 < pred.qtDepth /\ p.mt = 0
  IN { x \in {"NO"} \cup MttSplits : /\ HasSplitPred(s, CurrArea(p))
                                     /\ belowMin \/ (belowMean /\ x \in BinarySplits) }

\* The middle of a ternary split is halved across it only, whatever the
\* collocated picture said of halves.
RuledOut(s, p) ==
  LET parallel == CASE Top(p).split = "TH" -> "BH" [] Top(p).split = "TV" -> "BV" [] OTHER -> "none"
      byPred == RuledOutByPred(s, p)
  IN IF parallel # "none" /\ Top(p).idx = 2 THEN (byPred \ BinarySplits) \cup {parallel} ELSE byPred

\* The MTT splits that the limits of sizes and depth leave.
MttInLimits(s, p) ==
  LET a == CurrArea(p)
      chromaSamples == Samples(a) \div 4
  IN { x \in MttSplits :
         /\ p.mt < Top(p).maxMtt + p.impl
         /\ x \in BinarySplits => /\ a.w <= s.maxBt /\ a.h <= s.maxBt
                                  /\ s.chroma => chromaSamples > MIN_DUALTREE_CHROMA_SIZE
         /\ x \in TernarySplits => /\ a.w <= s.maxTt /\ a.h <= s.maxTt
                                   /\ s.chroma => chromaSamples > 2 * MIN_DUALTREE_CHROMA_SIZE
         /\ x = "BH" => a.h > s.minCu
         /\ x = "BV" => a.w > s.minCu
         /\ x = "TH" => a.h > 2 * s.minCu
         /\ x = "TV" => a.w > 2 * s.minCu }

\* Where the first half was split across, splitting the second one across too would
\* make quarters.
MakesQuarters(s, p) ==
  LET a == CurrArea(p)
      size == IF a.w > a.h THEN a.w ELSE a.h
      across == CASE Top(p).split = "BH" -> "BV" [] Top(p).split = "BV" -> "BH" [] OTHER -> "none"
  IN IF /\ ~s.chroma /\ p.bt = 1 /\ Top(p).idx = 2 /\ Top(p).first = across
        /\ a.x + size <= s.width /\ a.y + size <= s.height
     THEN {across} ELSE {}

\* At the edge of the picture the implicit split, or quarters where they are
\* allowed or nothing else is.
CanSplit(s, p) ==
  LET implicit == KnownImplicitSplit(s, p)
      halves == {implicit} \cap BinarySplits
      quarters == IF CanQt(s, p) THEN {"QT"} ELSE {}
  IN IF implicit # "NO"
     THEN halves \cup (IF halves = {} THEN {"QT"} ELSE quarters)
     ELSE ({"NO"} \cup quarters \cup (MttInLimits(s, p) \ MakesQuarters(s, p))) \ RuledOut(s, p)

-----------------------------------------------------------------------------
(* The operations.                                                          *)

WithTop(stack, level) == [stack EXCEPT ![Len(stack)] = level]

\* The end of initCtu, splitCurrArea and nextPart: the block in hand is a new one.
Arrived(s, p) ==
  [p EXCEPT !.stack = WithTop(@, [Top(p) EXCEPT !.maxMtt = MaxMttDepth(s, CurrArea(p), p.qt)]),
            !.qgPos = IF Top(p).qg THEN PosOf(CurrArea(p)) ELSE @]

Level(split, parts, qg) ==
  [split |-> split, parts |-> parts, idx |-> 1, implicit |-> "unknown",
   first |-> "NO", qg |-> qg, maxMtt |-> 0]

InitCtu(s) ==
  Arrived(s, [stack |-> <<Level("CTU", <<Area(0, 0, s.ctu, s.ctu)>>, TRUE)>>,
              qt |-> 0, bt |-> 0, mt |-> 0, impl |-> 0, subdiv |-> 0, qgPos |-> <<0, 0>>])

\* The first and last part of a ternary split count as twice halved.
Twice(split) == IF split \in TernarySplits THEN 1 ELSE 0

SplitCurrArea(s, p, split) ==
  LET implicit == KnownImplicitSplit(s, p)
      subdiv == p.subdiv + (IF split = "QT" THEN 2 ELSE 1 + Twice(split))
      level == Level(split, SubPartitions(CurrArea(p), split), Top(p).qg /\ subdiv <= s.qpSubdiv)
      pushed == [p EXCEPT !.stack = Append(WithTop(@, [Top(p) EXCEPT !.implicit = implicit]), level),
                          !.subdiv = subdiv]
  IN Arrived(s, IF split = "QT"
                THEN [pushed EXCEPT !.qt = @ + 1, !.mt = 0, !.bt = 0]
                ELSE [pushed EXCEPT !.mt = @ + 1, !.bt = @ + 1 + Twice(split),
                                    !.impl = IF split = implicit THEN @ + 1 ELSE @])

HasNextPart(p) == Top(p).idx < Len(Top(p).parts)

\* nextPart; last is the split of the part that is left.  Past the last part only the
\* number of the part moves.
NextPart(s, p, last) ==
  LET left == [Top(p) EXCEPT !.idx = @ + 1, !.implicit = "unknown",
                             !.first = IF Top(p).idx = 1 THEN last ELSE @]
      moved == [p EXCEPT !.stack = WithTop(@, left)]
      middle == IF Top(p).idx = 1 THEN -Twice(Top(p).split) ELSE Twice(Top(p).split)
  IN IF HasNextPart(p)
     THEN Arrived(s, [moved EXCEPT !.bt = @ + middle, !.subdiv = @ + middle])
     ELSE moved

ExitCurrSplitMutant(p) ==                             \* forgets that the middle part counts once
  LET split == Top(p).split
      popped == [p EXCEPT !.stack = Front(@)]
      group == IF Top(popped).qg THEN PosOf(CurrArea(popped)) ELSE p.qgPos
  IN IF split = "QT"
     THEN [popped EXCEPT !.qt = @ - 1, !.subdiv = @ - 2, !.qgPos = group]
     ELSE [popped EXCEPT !.mt = @ - 1, !.bt = @ - 1 - Twice(split), !.subdiv = @ - 1 - Twice(split),
                         !.impl = IF Top(popped).implicit # "NO" THEN @ - 1 ELSE @, !.qgPos = group]

\* exitCurrSplit, after the last part or from within one whose split was abandoned.
ExitCurrSplit(p) ==
  LET split == Top(p).split
      counted == 1 + (IF Top(p).idx = 2 THEN 0 ELSE Twice(split))
      popped == [p EXCEPT !.stack = Front(@)]
      group == IF Top(popped).qg THEN PosOf(CurrArea(popped)) ELSE p.qgPos
  IN IF split = "QT"
     THEN [popped EXCEPT !.qt = @ - 1, !.subdiv = @ - 2, !.qgPos = group]
     ELSE [popped EXCEPT !.mt = @ - 1, !.bt = @ - counted, !.subdiv = @ - counted,
                         !.impl = IF Top(popped).implicit # "NO" THEN @ - 1 ELSE @, !.qgPos = group]

=============================================================================
