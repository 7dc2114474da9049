----------------------------- MODULE CodingTree -----------------------------
(***************************************************************************)
(* The coding tree of a CTU.  The encoder steps its partitioner through    *)
(* the tree and may abandon a split in the middle of it (xCheckModeSplit   *)
(* gives up when no CU of a part is cheap enough); writer and reader step  *)
(* theirs through what became of it (coding_tree), and tell each other the *)
(* splits in bins whose presence depends on the partitioner.               *)
(*                                                                         *)
(* One walk stands for all three: the reader's is the writer's as long as  *)
(* each split survives (SplitsSurvive), and the writer's is the encoder's  *)
(* as long as a partitioner does not remember abandoned splits             *)
(* (CountersMatchStack).                                                   *)
(***************************************************************************)
EXTENDS CtuPartitioner

CONSTANT Setups                                       \* see MCPartitions

\* What the collocated picture says of one half of the CTU, and a setup.
SplitPredictor == [minQtDepth : Nat, qtDepth : Nat, maxBtDepth : Nat, mttDepth : Nat]
Setup ==
  [ctu : {64, 128, 256}, width : Nat \ {0}, height : Nat \ {0}, intra : BOOLEAN,
   chroma : BOOLEAN, minCu : Nat, minQt : Nat, maxBt : Nat, maxTt : Nat, maxMtt : Nat,
   plt : BOOLEAN, qpSubdiv : Nat, tempPartPred : BOOLEAN,
   col : [left : SplitPredictor, right : SplitPredictor, intra : BOOLEAN,
          related : BOOLEAN, maxMtt : Nat]]

ASSUME SetupsAssumption ==
  \A s \in Setups :
    /\ s \in Setup
    /\ s.width % 8 = 0 /\ s.height % 8 = 0            \* EncAppCfg and parseSPS see to it
    /\ s.minCu \in {4, 8} /\ s.minCu <= s.minQt /\ s.minQt <= s.ctu
    /\ s.chroma => s.intra
    /\ s.tempPartPred => /\ s.col.left.minQtDepth <= s.col.left.qtDepth
                         /\ s.col.right.minQtDepth <= s.col.right.qtDepth
                         \* coded with smallest quarters no smaller than these
                         /\ 2 ^ s.col.left.qtDepth * s.minQt <= s.ctu
                         /\ 2 ^ s.col.right.qtDepth * s.minQt <= s.ctu

VARIABLES
  setup,      \* the limits, constant for a CTU
  part,       \* the partitioner
  phase,      \* "tree": a block is to be split or coded, "next": it is, "done"
  coded,      \* number of samples in the CUs of the coding structure
  saved,      \* the same before each split that is open, to go back to
  last        \* in phase "next": the split of the block just coded

vars == <<setup, part, phase, coded, saved, last>>

-----------------------------------------------------------------------------
(* split_cu_mode.                                                           *)

Choice(can) == "NO" \in can /\ Cardinality(can) > 1
CanMtt(can) == can \cap MttSplits # {}
Both(can) == "QT" \in can /\ CanMtt(can)
BothWays(can) == can \cap {"BV", "TV"} # {} /\ can \cap {"BH", "TH"} # {}
QtFirst(s, p) == HasSplitPred(s, CurrArea(p)) /\ p.qt < SplitPred(s, CurrArea(p)).qtDepth

BinIf(condition, context, value) == IF condition THEN <<[context |-> context, value |-> value]>> ELSE <<>>

WriteSplitMutant(can, qtFirst, split) ==              \* "qt" comes first in its place only
  LET isVer == split \in {"BV", "TV"}
      same == IF isVer THEN {"BV", "TV"} ELSE {"BH", "TH"}
  IN BinIf(Choice(can), "split", split # "NO")
     \o BinIf(Both(can) /\ split # "NO", "qt", split = "QT")
     \o BinIf(split \in MttSplits /\ BothWays(can), "ver", isVer)
     \o BinIf(split \in MttSplits /\ same \subseteq can, "bt", split \in BinarySplits)

\* What the writer codes, in the order it codes it, of the splits that are possible;
\* qtFirst is what the collocated picture says of their order.
WriteSplit(can, qtFirst, split) ==
  LET first == Choice(can) /\ Both(can) /\ qtFirst
      isVer == split \in {"BV", "TV"}
      same == IF isVer THEN {"BV", "TV"} ELSE {"BH", "TH"}
  IN BinIf(first, "qt", split = "QT")
     \o BinIf(Choice(can) /\ ~(first /\ split = "QT"), "split", split # "NO")
     \o BinIf(Both(can) /\ ~first /\ split # "NO", "qt", split = "QT")
     \o BinIf(split \in MttSplits /\ BothWays(can), "ver", isVer)
     \o BinIf(split \in MttSplits /\ same \subseteq can, "bt", split \in BinarySplits)

Flags == {"qt", "split", "ver", "bt"}

\* The value of the bin that comes next, if it may have been coded, or what is inferred.
ReadBin(r, condition, inferred) ==
  IF condition THEN Len(r.contexts) < Len(r.bins) /\ r.bins[Len(r.contexts) + 1].value
  ELSE inferred

\* The reader asks for it.  A bin that is not there shows in the contexts it was asked for
\* with.
AskFor(r, condition, context, inferred) ==
  [bins |-> r.bins,
   flag |-> [r.flag EXCEPT ![context] = ReadBin(r, condition, inferred)],
   contexts |-> IF condition THEN Append(r.contexts, context) ELSE r.contexts]

\* What the reader makes of the bins: whether the block is split, and in quarters.
ReadQt(can, qtFirst, bins) ==
  LET first == Choice(can) /\ Both(can) /\ qtFirst
      start == [bins |-> bins, contexts |-> <<>>, flag |-> [f \in Flags |-> FALSE]]
      afterQt == AskFor(start, first, "qt", FALSE)
      afterSplit == AskFor(afterQt, Choice(can) /\ ~afterQt.flag["qt"], "split", can \ {"NO"} # {})
      isQt == afterSplit.flag["qt"]
  IN AskFor(afterSplit, afterSplit.flag["split"] /\ ~isQt /\ Both(can) /\ ~first, "qt",
            isQt \/ ("QT" \in can /\ ~first))

\* If not in quarters, how.
ReadMtt(can, r) ==
  LET isMtt == r.flag["split"] /\ ~r.flag["qt"]
      afterVer == AskFor(r, isMtt /\ BothWays(can), "ver", can \cap {"BV", "TV"} # {})
      bt == IF afterVer.flag["ver"] THEN "BV" ELSE "BH"
      tt == IF afterVer.flag["ver"] THEN "TV" ELSE "TH"
      end == AskFor(afterVer, isMtt /\ {bt, tt} \subseteq can, "bt", bt \in can)
  IN [split |-> IF ~end.flag["split"] THEN "NO" ELSE IF end.flag["qt"] THEN "QT"
                ELSE IF end.flag["bt"] THEN bt ELSE tt,
      contexts |-> end.contexts]

\* The split, and the contexts the bins were read with.
ReadSplit(can, qtFirst, bins) == ReadMtt(can, ReadQt(can, qtFirst, bins))

-----------------------------------------------------------------------------
(* The walk.                                                                *)

Init ==
  /\ setup \in Setups
  /\ part = InitCtu(setup)
  /\ phase = "tree" /\ coded = 0 /\ saved = <<>> /\ last = "NO"

\* coding_unit: the block becomes a CU.
CodeCu ==
  /\ phase = "tree"
  /\ "NO" \in CanSplit(setup, part)
  /\ coded' = coded + Samples(CurrArea(part))
  /\ phase' = "next"
  /\ UNCHANGED <<setup, part, saved, last>>

Split(split) ==
  /\ phase = "tree"
  /\ split \in CanSplit(setup, part)
  /\ part' = SplitCurrArea(setup, part, split)
  /\ saved' = Append(saved, coded)
  /\ UNCHANGED <<setup, phase, coded, last>>

\* Parts outside the picture are passed over.
GoToNextPart ==
  /\ phase = "next"
  /\ Len(part.stack) > 1
  /\ HasNextPart(part)
  /\ part' = NextPart(setup, part, last)
  /\ phase' = IF InPicture(setup, PosOf(CurrArea(part'))) THEN "tree" ELSE "next"
  /\ last' = "NO"
  /\ UNCHANGED <<setup, coded, saved>>

\* The block that was split is coded.
LeaveSplit ==
  /\ phase = "next"
  /\ Len(part.stack) > 1
  /\ ~HasNextPart(part)
  /\ part' = ExitCurrSplit(NextPart(setup, part, last))
  /\ saved' = Front(saved)
  /\ last' = Top(part).split
  /\ UNCHANGED <<setup, phase, coded>>

\* No CU for the part at hand was cheap enough: the encoder takes back the split, and
\* goes on with another one.  A quad split is never taken back.
AbandonSplit ==
  /\ phase = "tree"
  /\ Top(part).split \in MttSplits
  /\ part' = ExitCurrSplit(part)
  /\ coded' = Last(saved)
  /\ saved' = Front(saved)
  /\ UNCHANGED <<setup, phase, last>>

EndCtu ==
  /\ phase = "next"
  /\ Len(part.stack) = 1
  /\ phase' = "done"
  /\ UNCHANGED <<setup, part, coded, saved, last>>

Next ==
  \/ CodeCu
  \/ \E split \in {"QT"} \cup MttSplits : Split(split)
  \/ GoToNextPart
  \/ LeaveSplit
  \/ AbandonSplit
  \/ EndCtu

Spec == Init /\ [][Next]_vars

-----------------------------------------------------------------------------
(* Properties.                                                              *)

InPictureSamples(a) ==
  LET w == IF a.x + a.w <= setup.width THEN a.w ELSE setup.width - a.x
      h == IF a.y + a.h <= setup.height THEN a.h ELSE setup.height - a.y
  IN IF w > 0 /\ h > 0 THEN w * h ELSE 0

\* A block reaches over the bottom or right edge.
Straddles(s, a) == a.x + a.w > s.width \/ a.y + a.h > s.height

CountWhere(P(_)) == Cardinality({ i \in 2..Len(part.stack) : P(i) })

\* What the partitioner remembers is what its stack says, whatever was tried and
\* abandoned before: depths and subdivision from the splits and the part numbers,
\* implicit splits from the blocks across the edge of the picture, the position of
\* the quantisation group from the last level that may start one.  exitCurrSplit and
\* nextPart undo what splitCurrArea did piece by piece, and encoder and decoder, which
\* abandon nothing, take the QP prediction and the allowed splits from these members.
CountersMatchStack ==
  LET splitAt(i) == part.stack[i].split
      idxAt(i) == part.stack[i].idx
      isQt(i) == splitAt(i) = "QT"
      isMtt(i) == splitAt(i) \in MttSplits
      outer(i) == splitAt(i) \in TernarySplits /\ idxAt(i) # 2
      implicit(i) == isMtt(i) /\ Straddles(setup, part.stack[i - 1].parts[idxAt(i - 1)])
      groups == { i \in 1..Len(part.stack) : part.stack[i].qg }
      group == part.stack[Max(groups)]
  IN /\ part.qt = CountWhere(isQt)
     /\ part.mt = CountWhere(isMtt)
     /\ part.bt = CountWhere(isMtt) + CountWhere(outer)
     /\ part.impl = CountWhere(implicit)
     /\ part.subdiv = 2 * CountWhere(isQt) + CountWhere(isMtt) + CountWhere(outer)
     /\ part.qgPos = PosOf(group.parts[group.idx])
     /\ Top(part).maxMtt = MaxMttDepth(setup, CurrArea(part), part.qt)

Disjoint(a, b) ==
  a.x + a.w <= b.x \/ b.x + b.w <= a.x \/ a.y + a.h <= b.y \/ b.y + b.h <= a.y

Tiles(parts, block) ==
  /\ MapThenSumSet(LAMBDA j : Samples(parts[j]), DOMAIN parts) = Samples(block)
  /\ \A j \in DOMAIN parts :
       /\ parts[j].x >= block.x /\ parts[j].x + parts[j].w <= block.x + block.w
       /\ parts[j].y >= block.y /\ parts[j].y + parts[j].h <= block.y + block.h
       /\ \A k \in 1..(j - 1) : Disjoint(parts[j], parts[k])

\* The parts of a split tile the block, and the samples in the coding structure are
\* those of the parts before the one in hand, also after a split was taken back in the
\* middle: every sample of the CTU that is in the picture is coded once, and none
\* outside it is.
EverySampleOnce ==
  LET left == { e \in (1..Len(part.stack)) \X (1..4) : e[2] < part.stack[e[1]].idx }
      InLeft(e) == InPictureSamples(part.stack[e[1]].parts[e[2]])
      current == IF phase = "tree" THEN 0 ELSE InPictureSamples(CurrArea(part))
  IN /\ coded = MapThenSumSet(InLeft, left) + current
     /\ \A i \in 2..Len(part.stack) :
          Tiles(part.stack[i].parts, part.stack[i - 1].parts[part.stack[i - 1].idx])

\* The reader finds each split that the writer may code, and asks for the bins with the
\* contexts they were coded with; the presence of a bin depends on which splits are
\* allowed and on what the collocated picture says, and the order of two of them too.
SplitsSurvive ==
  phase = "tree" =>
    LET can == CanSplit(setup, part)
        qtFirst == QtFirst(setup, part)
    IN \A split \in can :
         LET bins == WriteSplit(can, qtFirst, split)
             read == ReadSplit(can, qtFirst, bins)
         IN /\ read.split = split
            /\ read.contexts = [ i \in DOMAIN bins |-> bins[i].context ]

PartLevel ==
  [split : {"CTU", "QT"} \cup MttSplits, parts : Seq([x : Nat, y : Nat, w : Nat, h : Nat]),
   idx : Nat, implicit : {"unknown", "NO", "QT"} \cup BinarySplits,
   first : {"NO", "QT"} \cup MttSplits, qg : BOOLEAN, maxMtt : Nat]

Partitioner ==
  [stack : Seq(PartLevel), qt : Nat, bt : Nat, mt : Nat, impl : Nat, subdiv : Nat, qgPos : Nat \X Nat]

\* A partitioner at each of the parts that p, at the first one, has in hand.
PartsOf(s, p) ==
  FoldLeft(LAMBDA parts, i : Append(parts, NextPart(s, Last(parts), "NO")), <<p>>,
           Tail(Top(p).parts))

\* Some way of splitting the block further ends in CUs.
Codable(s, p) ==
  LET codable[q \in Partitioner] ==
        \/ "NO" \in CanSplit(s, q)
        \/ \E split \in CanSplit(s, q) :
             \A r \in ToSet(PartsOf(s, SplitCurrArea(s, q, split))) :
               InPicture(s, PosOf(CurrArea(r))) => codable[r]
  IN codable[p]

\* None of the CHECKs of partitioner and encoder fails.  A quarter can always be coded
\* somehow, or the encoder, which takes back other splits only, stops with "Split
\* decision reusing cannot skip quad split"; quarters are made of blocks only that came
\* from quarters; no split makes blocks below the smallest transform block, or below
\* 16 samples of chroma in a tree of its own.
NoCheckFails ==
  phase = "tree" =>
    /\ Top(part).split \in {"CTU", "QT"} => Codable(setup, part)
    /\ "QT" \in CanSplit(setup, part) => part.bt = 0 /\ part.mt = 0
    /\ CurrArea(part).w >= MIN_TB_SIZEY /\ CurrArea(part).h >= MIN_TB_SIZEY
    /\ setup.chroma => Samples(CurrArea(part)) \div 4 >= MIN_DUALTREE_CHROMA_SIZE
=============================================================================
