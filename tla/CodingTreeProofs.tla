-------------------------- MODULE CodingTreeProofs --------------------------
(***************************************************************************)
(* Theorems about CodingTree, for all setups: the reader finds the split   *)
(* the writer coded, and a partitioner remembers what its stack says.      *)
(*                                                                         *)
(* The second needs the shape of the stack: each level is made of the      *)
(* block in hand of the level above (LinkOK), so that blocks are nested,   *)
(* those across the edge of the picture are in blocks across it, quarters  *)
(* are below quarters and levels that may start quantisation groups below  *)
(* such levels (OrderOK).  exitCurrSplit subtracts what splitCurrArea and  *)
(* nextPart added because the implicit split known to the level above is   *)
(* one just across the edge (LevelOK).                                     *)
(***************************************************************************)
EXTENDS CodingTree, FiniteOrders, FiniteSetTheorems, SequenceTheorems, TLAPS

AllSplits == {"NO", "QT"} \cup MttSplits

-----------------------------------------------------------------------------
(* The bins of a split.                                                     *)

Bin == [context : Flags, value : BOOLEAN]

\* An optional bin is a sequence of one bin or of none.
LEMMA BinIfType ==
  ASSUME NEW c \in BOOLEAN, NEW context \in Flags, NEW value \in BOOLEAN
  PROVE  /\ BinIf(c, context, value) \in Seq(Bin)
         /\ c => /\ Len(BinIf(c, context, value)) = 1
                 /\ BinIf(c, context, value)[1].context = context
                 /\ BinIf(c, context, value)[1].value = value
         /\ ~c => BinIf(c, context, value) = << >>
<1> DEFINE bin == [context |-> context, value |-> value]
<1>1. bin \in Bin /\ bin.context = context /\ bin.value = value
  BY DEF Bin
<1>2. BinIf(c, context, value) = IF c THEN <<bin>> ELSE << >>
  BY DEF BinIf
<1> HIDE DEF bin
<1>3. <<bin>> \in Seq(Bin) /\ Len(<<bin>>) = 1 /\ <<bin>>[1] = bin
  BY <1>1
<1>4. << >> \in Seq(Bin)
  OBVIOUS
<1> QED
  BY <1>1, <1>2, <1>3, <1>4

\* One sequence begins with another.
Begins(s, t) == Len(s) <= Len(t) /\ \A i \in 1..Len(s) : t[i] = s[i]

\* What begins with one sequence and another goes on with the other.
LEMMA ConcatBegins ==
  ASSUME NEW S, NEW s \in Seq(S), NEW t \in Seq(S), NEW u \in Seq(S), Begins(s \o t, u)
  PROVE  /\ Begins(s, u)
         /\ Len(t) = 1 => Len(s) + 1 <= Len(u) /\ u[Len(s) + 1] = t[1]
<1>1. Len(s) \in Nat /\ Len(t) \in Nat /\ Len(u) \in Nat
  OBVIOUS
<1>2. /\ Len(s \o t) = Len(s) + Len(t)
      /\ \A i \in 1..(Len(s) + Len(t)) : (s \o t)[i] = IF i <= Len(s) THEN s[i] ELSE t[i - Len(s)]
  BY ConcatProperties
<1>3. /\ Len(s) + Len(t) <= Len(u)
      /\ \A i \in 1..(Len(s) + Len(t)) : u[i] = IF i <= Len(s) THEN s[i] ELSE t[i - Len(s)]
  BY <1>2 DEF Begins
<1>4. Begins(s, u)
  BY <1>1, <1>3 DEF Begins
<1>5. ASSUME Len(t) = 1 PROVE Len(s) + 1 <= Len(u) /\ u[Len(s) + 1] = t[1]
  <2>1. Len(s) + 1 \in 1..(Len(s) + Len(t)) /\ ~(Len(s) + 1 <= Len(s)) /\ (Len(s) + 1) - Len(s) = 1
    BY <1>1, <1>5
  <2> QED
    BY <1>1, <1>3, <1>5, <2>1
<1> QED
  BY <1>4, <1>5

\* The reader after some of the bins.
Reader == [bins : Seq(Bin), flag : [Flags -> BOOLEAN], contexts : Seq(Flags)]

ReadUpTo(r, bins, before) ==
  /\ r \in Reader
  /\ r.bins = bins
  /\ Len(r.contexts) = Len(before)
  /\ \A i \in 1..Len(before) : r.contexts[i] = before[i].context

\* A reader that asks for the bin that comes next, if one comes next, finds its value.
LEMMA AskForNext ==
  ASSUME NEW bins \in Seq(Bin), NEW before \in Seq(Bin), NEW r, NEW b,
         NEW c \in BOOLEAN, NEW context \in Flags, NEW value \in BOOLEAN,
         NEW inferred \in BOOLEAN, b = BinIf(c, context, value),
         Begins(before \o b, bins), ReadUpTo(r, bins, before)
  PROVE  /\ ReadUpTo(AskFor(r, c, context, inferred), bins, before \o b)
         /\ \A f \in Flags :
              AskFor(r, c, context, inferred).flag[f] =
                IF f = context THEN IF c THEN value ELSE inferred ELSE r.flag[f]
<1> DEFINE s == AskFor(r, c, context, inferred)
           found == ReadBin(r, c, inferred)
<1>0. Len(before) \in Nat
  OBVIOUS
<1>1. /\ b \in Seq(Bin)
      /\ c => Len(b) = 1 /\ b[1].context = context /\ b[1].value = value
      /\ ~c => b = << >>
  BY BinIfType
<1>2. /\ r \in Reader /\ r.bins = bins /\ Len(r.contexts) = Len(before)
      /\ \A i \in 1..Len(before) : r.contexts[i] = before[i].context
  BY DEF ReadUpTo
<1>3. /\ s.bins = r.bins
      /\ s.flag = [r.flag EXCEPT ![context] = found]
      /\ s.contexts = IF c THEN Append(r.contexts, context) ELSE r.contexts
      /\ s = [bins |-> s.bins, flag |-> s.flag, contexts |-> s.contexts]
  BY DEF AskFor
<1>4. r.flag \in [Flags -> BOOLEAN] /\ r.contexts \in Seq(Flags) /\ r.bins \in Seq(Bin)
  BY <1>2 DEF Reader
<1>5. /\ before \o b \in Seq(Bin) /\ Len(before \o b) = Len(before) + Len(b)
      /\ \A i \in 1..(Len(before) + Len(b)) :
           (before \o b)[i] = IF i <= Len(before) THEN before[i] ELSE b[i - Len(before)]
  BY <1>1, ConcatProperties
<1>6. CASE c
  <2>1. Len(b) = 1 /\ b[1].context = context /\ b[1].value = value
    BY <1>1, <1>6
  <2>2. Len(before) + 1 <= Len(bins) /\ bins[Len(before) + 1] = b[1]
    BY <1>1, <2>1, ConcatBegins
  <2>3. found = value
    <3>1. found = (Len(before) < Len(bins) /\ bins[Len(before) + 1].value)
      BY <1>2, <1>6 DEF ReadBin
    <3>2. Len(before) < Len(bins)
      BY <1>0, <2>2
    <3> QED
      BY <2>1, <2>2, <3>1, <3>2
  <2>4. /\ s.flag \in [Flags -> BOOLEAN]
        /\ \A f \in Flags : s.flag[f] = IF f = context THEN value ELSE r.flag[f]
    BY <1>3, <1>4, <2>3
  <2>5. /\ s.contexts \in Seq(Flags) /\ Len(s.contexts) = Len(before) + 1
        /\ s.contexts[Len(before) + 1] = context
        /\ \A i \in 1..Len(before) : s.contexts[i] = before[i].context
    BY <1>2, <1>3, <1>4, <1>6
  <2>6. /\ Len(before \o b) = Len(before) + 1
        /\ (before \o b)[Len(before) + 1] = b[1]
        /\ \A i \in 1..Len(before) : (before \o b)[i] = before[i]
    <3>1. /\ Len(before) + 1 \in 1..(Len(before) + Len(b)) /\ (Len(before) + 1) - Len(before) = 1
          /\ ~(Len(before) + 1 <= Len(before)) /\ 1..Len(before) \subseteq 1..(Len(before) + Len(b))
      BY <1>0, <2>1
    <3> QED
      BY <1>0, <1>5, <2>1, <3>1
  <2>7. \A i \in 1..Len(before \o b) : s.contexts[i] = (before \o b)[i].context
    <3>1. \A i \in 1..Len(before \o b) : i \in 1..Len(before) \/ i = Len(before) + 1
      BY <1>0, <2>6
    <3> QED
      BY <2>1, <2>5, <2>6, <3>1
  <2>8. s \in Reader
    BY <1>3, <1>4, <2>4, <2>5 DEF Reader
  <2>9. ReadUpTo(s, bins, before \o b)
    BY <1>2, <1>3, <2>5, <2>6, <2>7, <2>8 DEF ReadUpTo
  <2> QED
    BY <1>6, <2>4, <2>9
<1>7. CASE ~c
  <2>1. found = inferred /\ s.contexts = r.contexts
    BY <1>3, <1>7 DEF ReadBin
  <2>2. /\ s.flag \in [Flags -> BOOLEAN]
        /\ \A f \in Flags : s.flag[f] = IF f = context THEN inferred ELSE r.flag[f]
    BY <1>3, <1>4, <2>1
  <2>3. before \o b = before
    BY <1>1, <1>7
  <2>4. s \in Reader
    BY <1>3, <1>4, <2>1, <2>2 DEF Reader
  <2>5. ReadUpTo(s, bins, before \o b)
    BY <1>2, <1>3, <2>1, <2>3, <2>4 DEF ReadUpTo
  <2> QED
    BY <1>7, <2>2, <2>5
<1> QED
  BY <1>6, <1>7

\* A choice is one of two splits at least.
LEMMA ChoiceMeans ==
  ASSUME NEW can \in SUBSET AllSplits
  PROVE  Choice(can) <=> "NO" \in can /\ can # {"NO"}
<1>1. IsFiniteSet(AllSplits)
  <2>1. AllSplits = {"NO", "QT", "BH", "BV", "TH", "TV"}
    BY DEF AllSplits, MttSplits, BinarySplits, TernarySplits
  <2>2. IsFiniteSet({"NO"})
    BY FS_Singleton
  <2>3. IsFiniteSet({"NO"} \cup {"QT"})
    BY <2>2, FS_AddElement
  <2>4. IsFiniteSet(({"NO"} \cup {"QT"}) \cup {"BH"})
    BY <2>3, FS_AddElement
  <2>5. IsFiniteSet((({"NO"} \cup {"QT"}) \cup {"BH"}) \cup {"BV"})
    BY <2>4, FS_AddElement
  <2>6. IsFiniteSet(((({"NO"} \cup {"QT"}) \cup {"BH"}) \cup {"BV"}) \cup {"TH"})
    BY <2>5, FS_AddElement
  <2>7. IsFiniteSet((((({"NO"} \cup {"QT"}) \cup {"BH"}) \cup {"BV"}) \cup {"TH"}) \cup {"TV"})
    BY <2>6, FS_AddElement
  <2>8. AllSplits = (((({"NO"} \cup {"QT"}) \cup {"BH"}) \cup {"BV"}) \cup {"TH"}) \cup {"TV"}
    BY <2>1
  <2> QED
    BY <2>7, <2>8
<1>2. IsFiniteSet(can) /\ Cardinality(can) \in Nat
  BY <1>1, FS_Subset, FS_CardinalityType
<1>3. Cardinality({"NO"}) = 1 /\ IsFiniteSet({"NO"})
  BY FS_Singleton
<1>4. ASSUME "NO" \in can, can # {"NO"} PROVE Cardinality(can) > 1
  <2>1. {"NO"} \subseteq can
    BY <1>4
  <2>2. /\ Cardinality({"NO"}) <= Cardinality(can)
        /\ Cardinality({"NO"}) = Cardinality(can) => {"NO"} = can
    BY <1>2, <2>1, FS_Subset
  <2> QED
    <3>1. 1 <= Cardinality(can) /\ 1 # Cardinality(can)
      BY <1>3, <1>4, <2>2
    <3> QED
      BY <1>2, <3>1
<1> QED
  BY <1>3, <1>4 DEF Choice

\* The reader finds the split that was coded, among any splits.
LEMMA SplitRead ==
  ASSUME NEW can \in SUBSET AllSplits, NEW qtFirst \in BOOLEAN, NEW split \in can
  PROVE  LET bins == WriteSplit(can, qtFirst, split)
             read == ReadSplit(can, qtFirst, bins)
         IN /\ read.split = split
            /\ read.contexts = [ i \in DOMAIN bins |-> bins[i].context ]
<1> DEFINE first == Choice(can) /\ Both(can) /\ qtFirst
           isQt == split = "QT"
           isSplit == split # "NO"
           isVer == split \in {"BV", "TV"}
           isBt == split \in BinarySplits
           same == IF isVer THEN {"BV", "TV"} ELSE {"BH", "TH"}
           c1 == first
           c2 == Choice(can) /\ ~(first /\ split = "QT")
           c3 == Both(can) /\ ~first /\ split # "NO"
           c4 == split \in MttSplits /\ BothWays(can)
           c5 == split \in MttSplits /\ same \subseteq can
           b1 == BinIf(c1, "qt", isQt)
           b2 == BinIf(c2, "split", isSplit)
           b3 == BinIf(c3, "qt", isQt)
           b4 == BinIf(c4, "ver", isVer)
           b5 == BinIf(c5, "bt", isBt)
           d0 == << >>
           d1 == d0 \o b1
           d2 == d1 \o b2
           d3 == d2 \o b3
           d4 == d3 \o b4
           d5 == d4 \o b5
           bins == d5
           start == [bins |-> bins, contexts |-> <<>>, flag |-> [f \in Flags |-> FALSE]]
           i2 == can \ {"NO"} # {}
           i1 == FALSE
           r1 == AskFor(start, c1, "qt", i1)
           r2 == AskFor(r1, c2, "split", i2)
           i3 == r2.flag["qt"] \/ ("QT" \in can /\ ~first)
           r3 == AskFor(r2, c3, "qt", i3)
           i4 == can \cap {"BV", "TV"} # {}
           r4 == AskFor(r3, c4, "ver", i4)
           bt == IF r4.flag["ver"] THEN "BV" ELSE "BH"
           tt == IF r4.flag["ver"] THEN "TV" ELSE "TH"
           i5 == bt \in can
           r5 == AskFor(r4, c5, "bt", i5)
<1>1. WriteSplit(can, qtFirst, split) = bins
  <2>1. << >> \o b1 = b1
    BY BinIfType DEF Flags, Choice, Both, CanMtt
  <2> QED
    BY <2>1 DEF WriteSplit
<1>2. /\ c1 \in BOOLEAN /\ c2 \in BOOLEAN /\ c3 \in BOOLEAN /\ c4 \in BOOLEAN /\ c5 \in BOOLEAN
      /\ isVer \in BOOLEAN /\ isQt \in BOOLEAN /\ isSplit \in BOOLEAN /\ isBt \in BOOLEAN
      /\ i1 \in BOOLEAN /\ i2 \in BOOLEAN /\ i4 \in BOOLEAN
  BY DEF Choice, Both, CanMtt, BothWays
<1>3. "qt" \in Flags /\ "split" \in Flags /\ "ver" \in Flags /\ "bt" \in Flags
  BY DEF Flags
<1> HIDE DEF c1, c2, c3, c4, c5, i1, i2, i4, isVer, isQt, isSplit, isBt
<1>4. /\ b1 \in Seq(Bin) /\ b2 \in Seq(Bin) /\ b3 \in Seq(Bin) /\ b4 \in Seq(Bin)
      /\ b5 \in Seq(Bin) /\ d0 \in Seq(Bin)
  BY <1>2, <1>3, BinIfType
<1> HIDE DEF b1, b2, b3, b4, b5
<1>5. /\ d1 \in Seq(Bin) /\ d2 \in Seq(Bin) /\ d3 \in Seq(Bin) /\ d4 \in Seq(Bin)
      /\ d5 \in Seq(Bin) /\ bins \in Seq(Bin)
  BY <1>4
<1> HIDE DEF d0, d1, d2, d3, d4, d5, bins
<1>6. Begins(d1, bins) /\ Begins(d2, bins) /\ Begins(d3, bins) /\ Begins(d4, bins) /\ Begins(d5, bins)
  <2>1. Begins(d5, bins)
    BY <1>5 DEF Begins, bins
  <2>2. Begins(d4, bins)
    BY <1>4, <1>5, <2>1, ConcatBegins DEF d5
  <2>3. Begins(d3, bins)
    BY <1>4, <1>5, <2>2, ConcatBegins DEF d4
  <2>4. Begins(d2, bins)
    BY <1>4, <1>5, <2>3, ConcatBegins DEF d3
  <2>5. Begins(d1, bins)
    BY <1>4, <1>5, <2>4, ConcatBegins DEF d2
  <2> QED
    BY <2>1, <2>2, <2>3, <2>4, <2>5
<1> HIDE DEF start, r1, r2, r3, r4, r5, i3, i5
<1>7. ReadUpTo(start, bins, d0) /\ \A f \in Flags : start.flag[f] = FALSE
  BY <1>5 DEF start, d0, ReadUpTo, Reader
<1>8. /\ ReadUpTo(r1, bins, d1)
       /\ \A f \in Flags :
            r1.flag[f] = IF f = "qt" THEN IF c1 THEN isQt ELSE i1 ELSE start.flag[f]
  <2>1. b1 = BinIf(c1, "qt", isQt) /\ Begins(d0 \o b1, bins) /\ d0 \in Seq(Bin)
    BY <1>4, <1>5, <1>6 DEF b1, d1
  <2>2. ReadUpTo(start, bins, d0)
    BY <1>7
  <2> QED
    BY <1>2, <1>3, <1>5, <2>1, <2>2, AskForNext DEF d1, r1
<1>9. /\ ReadUpTo(r2, bins, d2)
       /\ \A f \in Flags :
            r2.flag[f] = IF f = "split" THEN IF c2 THEN isSplit ELSE i2 ELSE r1.flag[f]
  <2>1. b2 = BinIf(c2, "split", isSplit) /\ Begins(d1 \o b2, bins) /\ d1 \in Seq(Bin)
    BY <1>4, <1>5, <1>6 DEF b2, d2
  <2>2. ReadUpTo(r1, bins, d1)
    BY <1>8
  <2> QED
    BY <1>2, <1>3, <1>5, <2>1, <2>2, AskForNext DEF d2, r2
<1>10. i3 \in BOOLEAN
  <2>1. r2 \in Reader
    BY <1>9 DEF ReadUpTo
  <2> QED
    BY <1>3, <2>1 DEF i3, Reader
<1>11. /\ ReadUpTo(r3, bins, d3)
       /\ \A f \in Flags :
            r3.flag[f] = IF f = "qt" THEN IF c3 THEN isQt ELSE i3 ELSE r2.flag[f]
  <2>1. b3 = BinIf(c3, "qt", isQt) /\ Begins(d2 \o b3, bins) /\ d2 \in Seq(Bin)
    BY <1>4, <1>5, <1>6 DEF b3, d3
  <2>2. ReadUpTo(r2, bins, d2)
    BY <1>9
  <2> QED
    BY <1>2, <1>3, <1>5, <2>1, <2>2, <1>10, AskForNext DEF d3, r3
<1>12. /\ ReadUpTo(r4, bins, d4)
       /\ \A f \in Flags :
            r4.flag[f] = IF f = "ver" THEN IF c4 THEN isVer ELSE i4 ELSE r3.flag[f]
  <2>1. b4 = BinIf(c4, "ver", isVer) /\ Begins(d3 \o b4, bins) /\ d3 \in Seq(Bin)
    BY <1>4, <1>5, <1>6 DEF b4, d4
  <2>2. ReadUpTo(r3, bins, d3)
    BY <1>11
  <2> QED
    BY <1>2, <1>3, <1>5, <2>1, <2>2, AskForNext DEF d4, r4
<1>13. i5 \in BOOLEAN
  BY DEF i5
<1>14. /\ ReadUpTo(r5, bins, d5)
       /\ \A f \in Flags :
            r5.flag[f] = IF f = "bt" THEN IF c5 THEN isBt ELSE i5 ELSE r4.flag[f]
  <2>1. b5 = BinIf(c5, "bt", isBt) /\ Begins(d4 \o b5, bins) /\ d4 \in Seq(Bin)
    BY <1>4, <1>5, <1>6 DEF b5, d5
  <2>2. ReadUpTo(r4, bins, d4)
    BY <1>12
  <2> QED
    BY <1>2, <1>3, <1>5, <2>1, <2>2, <1>13, AskForNext DEF d5, r5
\* What the flags have become.
<1>15. Choice(can) <=> "NO" \in can /\ can # {"NO"}
  BY ChoiceMeans
<1>16. /\ r1.flag["qt"] <=> first /\ split = "QT"
       /\ r2.flag["qt"] = r1.flag["qt"]
       /\ r2.flag["split"] <=> split # "NO"
       /\ c2 <=> Choice(can) /\ ~r1.flag["qt"]
  <2>1. r1.flag["qt"] <=> first /\ split = "QT"
    BY <1>3, <1>7, <1>8 DEF c1, i1, isQt
  <2>2. r2.flag["qt"] = r1.flag["qt"] /\ r2.flag["split"] = IF c2 THEN isSplit ELSE i2
    BY <1>3, <1>9
  <2>3. c2 <=> Choice(can) /\ ~r1.flag["qt"]
    BY <2>1 DEF c2
  <2>4. ~c2 => (i2 <=> split # "NO")
    BY <1>15 DEF c2, i2, AllSplits
  <2> QED
    BY <2>1, <2>2, <2>3, <2>4 DEF isSplit
<1>17. /\ r3.flag["split"] <=> split # "NO"
       /\ split # "NO" => (r3.flag["qt"] <=> split = "QT")
       /\ c3 <=> r2.flag["split"] /\ ~r2.flag["qt"] /\ Both(can) /\ ~first
  <2>1. r3.flag["split"] = r2.flag["split"] /\ r3.flag["qt"] = IF c3 THEN isQt ELSE i3
    BY <1>3, <1>11
  <2>2. c3 <=> r2.flag["split"] /\ ~r2.flag["qt"] /\ Both(can) /\ ~first
    BY <1>16 DEF c3
  <2>3. split # "NO" /\ ~c3 => (i3 <=> split = "QT")
    BY <1>16 DEF c3, i3, Both, CanMtt, AllSplits
  <2> QED
    BY <1>16, <2>1, <2>2, <2>3 DEF isQt
<1>18. split \in MttSplits <=> r3.flag["split"] /\ ~r3.flag["qt"]
  BY <1>17 DEF AllSplits, MttSplits, BinarySplits, TernarySplits
<1>19. /\ r4.flag["split"] = r3.flag["split"]
       /\ r4.flag["qt"] = r3.flag["qt"]
       /\ split \in MttSplits => (r4.flag["ver"] <=> isVer)
  <2>1. /\ r4.flag["split"] = r3.flag["split"] /\ r4.flag["qt"] = r3.flag["qt"]
        /\ r4.flag["ver"] = IF c4 THEN isVer ELSE i4
    BY <1>3, <1>12
  <2>2. split \in MttSplits /\ ~c4 => (i4 <=> isVer)
    BY DEF c4, i4, isVer, BothWays, MttSplits, BinarySplits, TernarySplits
  <2> QED
    BY <2>1, <2>2 DEF isVer
<1>20. /\ r5.flag["split"] = r4.flag["split"]
       /\ r5.flag["qt"] = r4.flag["qt"]
       /\ split \in MttSplits => (r5.flag["bt"] <=> isBt)
       /\ split \in MttSplits => same = {bt, tt} /\ split = IF isBt THEN bt ELSE tt
  <2>1. /\ r5.flag["split"] = r4.flag["split"] /\ r5.flag["qt"] = r4.flag["qt"]
        /\ r5.flag["bt"] = IF c5 THEN isBt ELSE i5
    BY <1>3, <1>14
  <2>2. split \in MttSplits => same = {bt, tt} /\ split = IF isBt THEN bt ELSE tt
    BY <1>19 DEF isVer, isBt, MttSplits, BinarySplits, TernarySplits
  <2>3. split \in MttSplits /\ ~c5 => (i5 <=> isBt)
    BY <2>2 DEF c5, i5
  <2> QED
    BY <2>1, <2>2, <2>3 DEF isBt
<1>21. c5 <=> r4.flag["split"] /\ ~r4.flag["qt"] /\ {bt, tt} \subseteq can
  BY <1>18, <1>19, <1>20 DEF c5
<1>22. c4 <=> r3.flag["split"] /\ ~r3.flag["qt"] /\ BothWays(can)
  BY <1>18 DEF c4
<1>23. ReadSplit(can, qtFirst, bins) =
         [split |-> IF ~r5.flag["split"] THEN "NO" ELSE IF r5.flag["qt"] THEN "QT"
                    ELSE IF r5.flag["bt"] THEN bt ELSE tt,
          contexts |-> r5.contexts]
  <2>1. r1 = AskFor(start, first, "qt", FALSE)
    BY DEF r1, c1, i1
  <2>2. r2 = AskFor(r1, Choice(can) /\ ~r1.flag["qt"], "split", can \ {"NO"} # {})
    <3>1. c2 = (Choice(can) /\ ~r1.flag["qt"])
      BY <1>2, <1>16
    <3> QED
      BY <3>1 DEF r2, i2
  <2>3. r3 = AskFor(r2, r2.flag["split"] /\ ~r2.flag["qt"] /\ Both(can) /\ ~first, "qt",
                    r2.flag["qt"] \/ ("QT" \in can /\ ~first))
    <3>1. c3 = (r2.flag["split"] /\ ~r2.flag["qt"] /\ Both(can) /\ ~first)
      BY <1>2, <1>17
    <3> QED
      BY <3>1 DEF r3, i3
  <2>4. r4 = AskFor(r3, (r3.flag["split"] /\ ~r3.flag["qt"]) /\ BothWays(can), "ver",
                    can \cap {"BV", "TV"} # {})
    <3>1. c4 = ((r3.flag["split"] /\ ~r3.flag["qt"]) /\ BothWays(can))
      BY <1>2, <1>22
    <3> QED
      BY <3>1 DEF r4, i4
  <2>5. r5 = AskFor(r4, (r3.flag["split"] /\ ~r3.flag["qt"]) /\ {bt, tt} \subseteq can, "bt", bt \in can)
    <3>1. c5 = ((r3.flag["split"] /\ ~r3.flag["qt"]) /\ {bt, tt} \subseteq can)
      BY <1>2, <1>19, <1>21
    <3> QED
      BY <3>1 DEF r5, i5
  <2> QED
    <3>1. ReadQt(can, qtFirst, bins) = r3
      BY <2>1, <2>2, <2>3 DEF ReadQt, start
    <3>2. ReadMtt(can, r3) =
            [split |-> IF ~r5.flag["split"] THEN "NO" ELSE IF r5.flag["qt"] THEN "QT"
                       ELSE IF r5.flag["bt"] THEN bt ELSE tt,
             contexts |-> r5.contexts]
      BY <2>4, <2>5 DEF ReadMtt
    <3> QED
      BY <3>1, <3>2 DEF ReadSplit
<1>24. ReadSplit(can, qtFirst, bins).split = split
  BY <1>17, <1>19, <1>20, <1>23 DEF AllSplits
<1>25. ReadSplit(can, qtFirst, bins).contexts = [ i \in DOMAIN bins |-> bins[i].context ]
  <2>1. r5 \in Reader /\ Len(r5.contexts) = Len(bins)
        /\ \A i \in 1..Len(bins) : r5.contexts[i] = bins[i].context
    BY <1>14 DEF ReadUpTo, bins
  <2> QED
    BY <1>5, <1>23, <2>1 DEF Reader
<1> QED
  BY <1>1, <1>24, <1>25

\* What is possible is among the six.
LEMMA CanSplitType ==
  ASSUME NEW s, NEW p
  PROVE  CanSplit(s, p) \subseteq AllSplits
BY DEF CanSplit, CanQt, MttInLimits, AllSplits, MttSplits

\* The reader finds each split the writer codes, at every step of every walk, whatever the
\* limits and the collocated picture: the order of the questions in both split_cu_mode
\* agrees for each set of possible splits.
THEOREM SplitsAlwaysSurvive == Spec => []SplitsSurvive
<1>1. SplitsSurvive
  <2> DEFINE can == CanSplit(setup, part)
             qtFirst == QtFirst(setup, part)
  <2>1. can \in SUBSET AllSplits
    BY CanSplitType
  <2>2. qtFirst \in BOOLEAN
    BY DEF QtFirst, HasSplitPred
  <2> HIDE DEF can, qtFirst
  <2>3. \A split \in can :
          LET bins == WriteSplit(can, qtFirst, split)
              read == ReadSplit(can, qtFirst, bins)
          IN /\ read.split = split
             /\ read.contexts = [ i \in DOMAIN bins |-> bins[i].context ]
    BY <2>1, <2>2, SplitRead
  <2> QED
    BY <2>3 DEF SplitsSurvive, can, qtFirst
<1> QED
  BY <1>1, PTL

-----------------------------------------------------------------------------
(* The stack of a partitioner.                                              *)

BlockAt(st, i) == st[i].parts[st[i].idx]
Fits(s, a) == a.w <= s.maxBt /\ a.h <= s.maxBt /\ s.maxMtt > 0

\* The levels that count, among the first i.
QtTo(st, i) == { k \in 2..i : st[k].split = "QT" }
MttTo(st, i) == { k \in 2..i : st[k].split \in MttSplits }
OuterTo(st, i) == { k \in 2..i : st[k].split \in TernarySplits /\ st[k].idx # 2 }
ImplicitTo(s, st, i) ==
  { k \in 2..i : st[k].split \in MttSplits /\ Straddles(s, BlockAt(st, k - 1)) }

\* What a level says of its block in hand.
LevelOK(s, st, i) ==
  /\ st[i].idx \in 1..Len(st[i].parts)
  /\ st[i].maxMtt = MaxMttDepth(s, BlockAt(st, i), Cardinality(QtTo(st, i)))
  /\ st[i].implicit # "unknown" => (st[i].implicit # "NO" <=> Straddles(s, BlockAt(st, i)))
  /\ st[i].implicit \in BinarySplits => Fits(s, BlockAt(st, i))
  /\ st[i].split \in MttSplits => st[i].implicit # "QT"

\* How a level comes from the block in hand of the level above.
LinkOK(s, st, i) ==
  /\ st[i].split \in {"QT"} \cup MttSplits
  /\ st[i].parts = SubPartitions(BlockAt(st, i - 1), st[i].split)
  /\ st[i - 1].implicit # "unknown"
  /\ InPicture(s, PosOf(BlockAt(st, i - 1)))
  /\ st[i].split \in MttSplits /\ Straddles(s, BlockAt(st, i - 1)) => Fits(s, BlockAt(st, i - 1))

\* What two levels, k above i, have to do with each other.
OrderOK(s, st, k, i) ==
  /\ st[i].split \in {"CTU", "QT"} => st[k].split \in {"CTU", "QT"}
  /\ Straddles(s, BlockAt(st, i)) => Straddles(s, BlockAt(st, k))
  /\ st[i].qg => st[k].qg

StackOK(s, st) ==
  /\ st \in Seq(PartLevel) /\ Len(st) >= 1
  /\ st[1].split = "CTU" /\ st[1].qg
  /\ \A i \in 1..Len(st) : LevelOK(s, st, i)
  /\ \A i \in 2..Len(st) : LinkOK(s, st, i)
  /\ \A i \in 1..Len(st) : \A k \in 1..i : OrderOK(s, st, k, i)

\* The counters and the position of the quantisation group are those of the stack.
CountsOK(s, p) ==
  LET n == Len(p.stack)
      qts == Cardinality(QtTo(p.stack, n))
      mtts == Cardinality(MttTo(p.stack, n))
      outers == Cardinality(OuterTo(p.stack, n))
  IN /\ p.qt = qts /\ p.mt = mtts /\ p.bt = mtts + outers
     /\ p.impl = Cardinality(ImplicitTo(s, p.stack, n))
     /\ p.subdiv = 2 * qts + mtts + outers

GroupOK(p) ==
  \A i \in 1..Len(p.stack) :
    p.stack[i].qg /\ (i < Len(p.stack) => ~p.stack[i + 1].qg)
      => p.qgPos = PosOf(BlockAt(p.stack, i))

PartOK(s, p) == p \in Partitioner /\ StackOK(s, p.stack) /\ CountsOK(s, p) /\ GroupOK(p)

TreeInv ==
  /\ setup \in Setups
  /\ PartOK(setup, part)
  /\ last \in AllSplits
  /\ phase = "tree" => InPicture(setup, PosOf(CurrArea(part)))

-----------------------------------------------------------------------------
(* The parts of a block.                                                    *)

Areas == [x : Nat, y : Nat, w : Nat, h : Nat]

Inside(b, a) ==
  /\ b.w <= a.w /\ b.h <= a.h
  /\ b.x + b.w <= a.x + a.w /\ b.y + b.h <= a.y + a.h

\* An area in another one.
LEMMA InsideArea ==
  ASSUME NEW a \in Areas, NEW x \in Nat, NEW y \in Nat, NEW w \in Nat, NEW h \in Nat,
         w <= a.w, h <= a.h, x + w <= a.x + a.w, y + h <= a.y + a.h
  PROVE  Area(x, y, w, h) \in Areas /\ Inside(Area(x, y, w, h), a)
BY DEF Area, Areas, Inside

\* A half and a quarter are whole numbers of samples, no more than the whole.
LEMMA HalfQuarter ==
  ASSUME NEW n \in Nat
  PROVE  /\ n \div 2 \in Nat /\ 2 * (n \div 2) <= n
         /\ n \div 4 \in Nat /\ 4 * (n \div 4) <= n
         /\ n \div 4 + n \div 2 <= n
OBVIOUS

\* Quarters are areas in the block.
LEMMA QuartersInside ==
  ASSUME NEW a \in Areas
  PROVE  /\ SubPartitions(a, "QT") \in Seq(Areas) /\ Len(SubPartitions(a, "QT")) = 4
         /\ \A i \in 1..4 : Inside(SubPartitions(a, "QT")[i], a)
         /\ PosOf(SubPartitions(a, "QT")[1]) = PosOf(a)
<1> DEFINE w == a.w \div 2
           h == a.h \div 2
           x == a.x + w
           y == a.y + h
           parts == [i \in 1..4 |-> Area(a.x + ((i - 1) % 2) * w, a.y + ((i - 1) \div 2) * h, w, h)]
<1>1. SubPartitions(a, "QT") = parts
  BY DEF SubPartitions
<1>2. /\ a.x \in Nat /\ a.y \in Nat /\ a.w \in Nat /\ a.h \in Nat
      /\ w \in Nat /\ h \in Nat /\ w + w <= a.w /\ h + h <= a.h
  BY HalfQuarter DEF Areas
<1> HIDE DEF w, h
<1>3. parts[1] = Area(a.x, a.y, w, h) /\ parts[2] = Area(x, a.y, w, h)
      /\ parts[3] = Area(a.x, y, w, h) /\ parts[4] = Area(x, y, w, h)
  BY <1>2
<1>4. parts = [i \in 1..4 |-> parts[i]]
  OBVIOUS
<1>5. /\ x \in Nat /\ y \in Nat /\ w <= a.w /\ h <= a.h
      /\ a.x + w <= a.x + a.w /\ a.y + h <= a.y + a.h
      /\ x + w <= a.x + a.w /\ y + h <= a.y + a.h
  BY <1>2
<1> HIDE DEF parts, x, y
<1>6. \A i \in 1..4 : parts[i] \in Areas /\ Inside(parts[i], a)
  <2>1. \A i \in 1..4 : i = 1 \/ i = 2 \/ i = 3 \/ i = 4
    OBVIOUS
  <2>2. Area(a.x, a.y, w, h) \in Areas /\ Inside(Area(a.x, a.y, w, h), a)
    BY <1>2, <1>5, InsideArea
  <2>3. Area(x, a.y, w, h) \in Areas /\ Inside(Area(x, a.y, w, h), a)
    BY <1>2, <1>5, InsideArea
  <2>4. Area(a.x, y, w, h) \in Areas /\ Inside(Area(a.x, y, w, h), a)
    BY <1>2, <1>5, InsideArea
  <2>5. Area(x, y, w, h) \in Areas /\ Inside(Area(x, y, w, h), a)
    BY <1>2, <1>5, InsideArea
  <2> QED
    BY <1>3, <2>1, <2>2, <2>3, <2>4, <2>5
<1>7. parts \in Seq(Areas) /\ Len(parts) = 4
  BY <1>4, <1>6
<1>8. PosOf(parts[1]) = PosOf(a)
  BY <1>3 DEF PosOf, Area
<1> QED
  BY <1>1, <1>6, <1>7, <1>8

\* So are halves,
LEMMA HalvesInside ==
  ASSUME NEW a \in Areas, NEW split \in BinarySplits
  PROVE  /\ SubPartitions(a, split) \in Seq(Areas) /\ Len(SubPartitions(a, split)) = 2
         /\ \A i \in 1..2 : Inside(SubPartitions(a, split)[i], a)
         /\ PosOf(SubPartitions(a, split)[1]) = PosOf(a)
<1> DEFINE w == a.w \div 2
           h == a.h \div 2
           x == a.x + w
           y == a.y + h
           parts == SubPartitions(a, split)
<1>1. /\ a.x \in Nat /\ a.y \in Nat /\ a.w \in Nat /\ a.h \in Nat
      /\ w \in Nat /\ h \in Nat /\ w + w <= a.w /\ h + h <= a.h
  BY HalfQuarter DEF Areas
<1>2. CASE split = "BH"
  <2> DEFINE halves == [i \in 1..2 |-> Area(a.x, a.y + (i - 1) * h, a.w, h)]
  <2>1. parts = halves
    BY <1>2 DEF SubPartitions
  <2> HIDE DEF parts, h, w
  <2>2. halves[1] = Area(a.x, a.y, a.w, h) /\ halves[2] = Area(a.x, y, a.w, h)
    BY <1>1
  <2>3. halves = [i \in 1..2 |-> halves[i]]
    OBVIOUS
  <2>4. /\ y \in Nat /\ a.w <= a.w /\ h <= a.h /\ a.x + a.w <= a.x + a.w
        /\ a.y + h <= a.y + a.h /\ y + h <= a.y + a.h
    BY <1>1
  <2> HIDE DEF y, halves
  <2>5. \A i \in 1..2 : halves[i] \in Areas /\ Inside(halves[i], a)
    <3>1. \A i \in 1..2 : i = 1 \/ i = 2
      OBVIOUS
    <3>2. Area(a.x, a.y, a.w, h) \in Areas /\ Inside(Area(a.x, a.y, a.w, h), a)
      BY <1>1, <2>4, InsideArea
    <3>3. Area(a.x, y, a.w, h) \in Areas /\ Inside(Area(a.x, y, a.w, h), a)
      BY <1>1, <2>4, InsideArea
    <3> QED
      BY <2>2, <3>1, <3>2, <3>3
  <2>6. halves \in Seq(Areas) /\ Len(halves) = 2
    BY <2>3, <2>5
  <2>7. PosOf(halves[1]) = PosOf(a)
    BY <2>2 DEF PosOf, Area
  <2> QED
    BY <2>1, <2>5, <2>6, <2>7 DEF parts
<1>3. CASE split = "BV"
  <2> DEFINE halves == [i \in 1..2 |-> Area(a.x + (i - 1) * w, a.y, w, a.h)]
  <2>1. parts = halves
    BY <1>3 DEF SubPartitions
  <2> HIDE DEF parts, h, w
  <2>2. halves[1] = Area(a.x, a.y, w, a.h) /\ halves[2] = Area(x, a.y, w, a.h)
    BY <1>1
  <2>3. halves = [i \in 1..2 |-> halves[i]]
    OBVIOUS
  <2>4. /\ x \in Nat /\ a.h <= a.h /\ w <= a.w /\ a.y + a.h <= a.y + a.h
        /\ a.x + w <= a.x + a.w /\ x + w <= a.x + a.w
    BY <1>1
  <2> HIDE DEF x, halves
  <2>5. \A i \in 1..2 : halves[i] \in Areas /\ Inside(halves[i], a)
    <3>1. \A i \in 1..2 : i = 1 \/ i = 2
      OBVIOUS
    <3>2. Area(a.x, a.y, w, a.h) \in Areas /\ Inside(Area(a.x, a.y, w, a.h), a)
      BY <1>1, <2>4, InsideArea
    <3>3. Area(x, a.y, w, a.h) \in Areas /\ Inside(Area(x, a.y, w, a.h), a)
      BY <1>1, <2>4, InsideArea
    <3> QED
      BY <2>2, <3>1, <3>2, <3>3
  <2>6. halves \in Seq(Areas) /\ Len(halves) = 2
    BY <2>3, <2>5
  <2>7. PosOf(halves[1]) = PosOf(a)
    BY <2>2 DEF PosOf, Area
  <2> QED
    BY <2>1, <2>5, <2>6, <2>7 DEF parts
<1> QED
  BY <1>2, <1>3 DEF BinarySplits

\* and the parts of a ternary split.
LEMMA ThirdsInside ==
  ASSUME NEW a \in Areas, NEW split \in TernarySplits
  PROVE  /\ SubPartitions(a, split) \in Seq(Areas) /\ Len(SubPartitions(a, split)) = 3
         /\ \A i \in 1..3 : Inside(SubPartitions(a, split)[i], a)
         /\ PosOf(SubPartitions(a, split)[1]) = PosOf(a)
<1> DEFINE parts == SubPartitions(a, split)
<1>1. a.x \in Nat /\ a.y \in Nat /\ a.w \in Nat /\ a.h \in Nat
  BY DEF Areas
<1>2. CASE split = "TH"
  <2> DEFINE q == a.h \div 4
             half == a.h \div 2
             p2 == a.y + q
             p3 == a.y + 3 * q
             thirds == [i \in 1..3 |-> Area(a.x, a.y + <<0, 1, 3>>[i] * q, a.w, a.h \div <<4, 2, 4>>[i])]
  <2>1. parts = thirds
    BY <1>2 DEF SubPartitions
  <2>2. /\ q \in Nat /\ half \in Nat /\ 4 * q <= a.h /\ q + half <= a.h /\ 2 * half <= a.h
    BY <1>1, HalfQuarter
  <2>3. /\ thirds[1] = Area(a.x, a.y + 0 * q, a.w, q)
        /\ thirds[2] = Area(a.x, a.y + 1 * q, a.w, half)
        /\ thirds[3] = Area(a.x, a.y + 3 * q, a.w, q)
    BY <1>1
  <2> HIDE DEF parts, q, half
  <2>4. /\ thirds[1] = Area(a.x, a.y, a.w, q)
        /\ thirds[2] = Area(a.x, p2, a.w, half)
        /\ thirds[3] = Area(a.x, p3, a.w, q)
    BY <1>1, <2>2, <2>3
  <2>5. thirds = [i \in 1..3 |-> thirds[i]]
    OBVIOUS
  <2>6. /\ a.w <= a.w /\ a.x + a.w <= a.x + a.w
        /\ q <= a.h /\ half <= a.h /\ a.y + q <= a.y + a.h
        /\ p2 \in Nat /\ p2 + half <= a.y + a.h
        /\ p3 \in Nat /\ p3 + q <= a.y + a.h
    BY <1>1, <2>2
  <2> HIDE DEF p2, p3, thirds
  <2>7. \A i \in 1..3 : thirds[i] \in Areas /\ Inside(thirds[i], a)
    <3>1. \A i \in 1..3 : i = 1 \/ i = 2 \/ i = 3
      OBVIOUS
    <3>2. Area(a.x, a.y, a.w, q) \in Areas /\ Inside(Area(a.x, a.y, a.w, q), a)
      BY <1>1, <2>2, <2>6, InsideArea
    <3>3. Area(a.x, p2, a.w, half) \in Areas /\ Inside(Area(a.x, p2, a.w, half), a)
      BY <1>1, <2>2, <2>6, InsideArea
    <3>4. Area(a.x, p3, a.w, q) \in Areas /\ Inside(Area(a.x, p3, a.w, q), a)
      BY <1>1, <2>2, <2>6, InsideArea
    <3> QED
      BY <2>4, <3>1, <3>2, <3>3, <3>4
  <2>8. thirds \in Seq(Areas) /\ Len(thirds) = 3
    BY <2>5, <2>7
  <2>9. PosOf(thirds[1]) = PosOf(a)
    BY <2>4 DEF PosOf, Area
  <2> QED
    BY <2>1, <2>7, <2>8, <2>9 DEF parts
<1>3. CASE split = "TV"
  <2> DEFINE q == a.w \div 4
             half == a.w \div 2
             p2 == a.x + q
             p3 == a.x + 3 * q
             thirds == [i \in 1..3 |-> Area(a.x + <<0, 1, 3>>[i] * q, a.y, a.w \div <<4, 2, 4>>[i], a.h)]
  <2>1. parts = thirds
    BY <1>3 DEF SubPartitions
  <2>2. /\ q \in Nat /\ half \in Nat /\ 4 * q <= a.w /\ q + half <= a.w /\ 2 * half <= a.w
    BY <1>1, HalfQuarter
  <2>3. /\ thirds[1] = Area(a.x + 0 * q, a.y, q, a.h)
        /\ thirds[2] = Area(a.x + 1 * q, a.y, half, a.h)
        /\ thirds[3] = Area(a.x + 3 * q, a.y, q, a.h)
    BY <1>1
  <2> HIDE DEF parts, q, half
  <2>4. /\ thirds[1] = Area(a.x, a.y, q, a.h)
        /\ thirds[2] = Area(p2, a.y, half, a.h)
        /\ thirds[3] = Area(p3, a.y, q, a.h)
    BY <1>1, <2>2, <2>3
  <2>5. thirds = [i \in 1..3 |-> thirds[i]]
    OBVIOUS
  <2>6. /\ a.h <= a.h /\ a.y + a.h <= a.y + a.h
        /\ q <= a.w /\ half <= a.w /\ a.x + q <= a.x + a.w
        /\ p2 \in Nat /\ p2 + half <= a.x + a.w
        /\ p3 \in Nat /\ p3 + q <= a.x + a.w
    BY <1>1, <2>2
  <2> HIDE DEF p2, p3, thirds
  <2>7. \A i \in 1..3 : thirds[i] \in Areas /\ Inside(thirds[i], a)
    <3>1. \A i \in 1..3 : i = 1 \/ i = 2 \/ i = 3
      OBVIOUS
    <3>2. Area(a.x, a.y, q, a.h) \in Areas /\ Inside(Area(a.x, a.y, q, a.h), a)
      BY <1>1, <2>2, <2>6, InsideArea
    <3>3. Area(p2, a.y, half, a.h) \in Areas /\ Inside(Area(p2, a.y, half, a.h), a)
      BY <1>1, <2>2, <2>6, InsideArea
    <3>4. Area(p3, a.y, q, a.h) \in Areas /\ Inside(Area(p3, a.y, q, a.h), a)
      BY <1>1, <2>2, <2>6, InsideArea
    <3> QED
      BY <2>4, <3>1, <3>2, <3>3, <3>4
  <2>8. thirds \in Seq(Areas) /\ Len(thirds) = 3
    BY <2>5, <2>7
  <2>9. PosOf(thirds[1]) = PosOf(a)
    BY <2>4 DEF PosOf, Area
  <2> QED
    BY <2>1, <2>7, <2>8, <2>9 DEF parts
<1> QED
  BY <1>2, <1>3 DEF TernarySplits

\* How many parts a split makes.
PartCount(split) == IF split = "QT" THEN 4 ELSE IF split \in BinarySplits THEN 2 ELSE 3

\* The parts of a block lie in it, and the first one begins where the block does.
LEMMA PartsInside ==
  ASSUME NEW a \in Areas, NEW split \in {"QT"} \cup MttSplits
  PROVE  /\ SubPartitions(a, split) \in Seq(Areas)
         /\ Len(SubPartitions(a, split)) = PartCount(split)
         /\ \A i \in 1..PartCount(split) : Inside(SubPartitions(a, split)[i], a)
         /\ PosOf(SubPartitions(a, split)[1]) = PosOf(a)
<1>1. CASE split = "QT"
  BY <1>1, QuartersInside DEF PartCount
<1>2. CASE split \in BinarySplits
  BY <1>2, HalvesInside DEF PartCount, BinarySplits
<1>3. CASE split \in TernarySplits
  BY <1>3, ThirdsInside DEF PartCount, BinarySplits, TernarySplits
<1> QED
  BY <1>1, <1>2, <1>3 DEF MttSplits

-----------------------------------------------------------------------------
(* Counting levels.                                                         *)

\* A level is counted or not.
LEMMA CountTop ==
  ASSUME NEW i \in Nat, NEW S \in SUBSET (2..i)
  PROVE  /\ Cardinality(S) \in Nat
         /\ Cardinality(S) = Cardinality(S \ {i}) + IF i \in S THEN 1 ELSE 0
<1>1. IsFiniteSet(2..i)
  BY FS_Interval
<1>2. IsFiniteSet(S)
  BY <1>1, FS_Subset
<1>3. Cardinality(S) \in Nat
  BY <1>2, FS_CardinalityType
<1>4. Cardinality(S \ {i}) = IF i \in S THEN Cardinality(S) - 1 ELSE Cardinality(S)
  BY <1>2, FS_RemoveElement
<1> QED
  BY <1>3, <1>4

Counted(b) == IF b THEN 1 ELSE 0

\* One level more.
LEMMA CountLevel ==
  ASSUME NEW s, NEW st, NEW i \in Nat, i >= 2
  PROVE  /\ Cardinality(QtTo(st, i)) = Cardinality(QtTo(st, i - 1)) + Counted(st[i].split = "QT")
         /\ Cardinality(MttTo(st, i)) = Cardinality(MttTo(st, i - 1)) + Counted(st[i].split \in MttSplits)
         /\ Cardinality(OuterTo(st, i)) =
              Cardinality(OuterTo(st, i - 1)) + Counted(st[i].split \in TernarySplits /\ st[i].idx # 2)
         /\ Cardinality(ImplicitTo(s, st, i)) =
              Cardinality(ImplicitTo(s, st, i - 1))
                + Counted(st[i].split \in MttSplits /\ Straddles(s, BlockAt(st, i - 1)))
<1>1. i \in 2..i /\ \A k \in 2..i : k = i \/ k \in 2..(i - 1)
  OBVIOUS
<1>2. \A k \in 2..(i - 1) : k \in 2..i /\ k # i
  OBVIOUS
<1>3. Cardinality(QtTo(st, i)) = Cardinality(QtTo(st, i - 1)) + Counted(st[i].split = "QT")
  <2>1. QtTo(st, i) \in SUBSET (2..i) /\ QtTo(st, i) \ {i} = QtTo(st, i - 1)
    BY <1>1, <1>2 DEF QtTo
  <2>2. i \in QtTo(st, i) <=> st[i].split = "QT"
    BY <1>1 DEF QtTo
  <2> QED
    BY <2>1, <2>2, CountTop DEF Counted
<1>4. Cardinality(MttTo(st, i)) = Cardinality(MttTo(st, i - 1)) + Counted(st[i].split \in MttSplits)
  <2>1. MttTo(st, i) \in SUBSET (2..i) /\ MttTo(st, i) \ {i} = MttTo(st, i - 1)
    BY <1>1, <1>2 DEF MttTo
  <2>2. i \in MttTo(st, i) <=> st[i].split \in MttSplits
    BY <1>1 DEF MttTo
  <2> QED
    BY <2>1, <2>2, CountTop DEF Counted
<1>5. Cardinality(OuterTo(st, i)) =
        Cardinality(OuterTo(st, i - 1)) + Counted(st[i].split \in TernarySplits /\ st[i].idx # 2)
  <2>1. OuterTo(st, i) \in SUBSET (2..i) /\ OuterTo(st, i) \ {i} = OuterTo(st, i - 1)
    BY <1>1, <1>2 DEF OuterTo
  <2>2. i \in OuterTo(st, i) <=> st[i].split \in TernarySplits /\ st[i].idx # 2
    BY <1>1 DEF OuterTo
  <2> QED
    BY <2>1, <2>2, CountTop DEF Counted
<1>6. Cardinality(ImplicitTo(s, st, i)) =
        Cardinality(ImplicitTo(s, st, i - 1))
          + Counted(st[i].split \in MttSplits /\ Straddles(s, BlockAt(st, i - 1)))
  <2>1. ImplicitTo(s, st, i) \in SUBSET (2..i) /\ ImplicitTo(s, st, i) \ {i} = ImplicitTo(s, st, i - 1)
    BY <1>1, <1>2 DEF ImplicitTo
  <2>2. i \in ImplicitTo(s, st, i) <=> st[i].split \in MttSplits /\ Straddles(s, BlockAt(st, i - 1))
    BY <1>1 DEF ImplicitTo
  <2> QED
    BY <2>1, <2>2, CountTop DEF Counted
<1> QED
  BY <1>3, <1>4, <1>5, <1>6

\* The counts are numbers, and none at the level of the CTU.
LEMMA CountType ==
  ASSUME NEW s, NEW st, NEW i \in Nat
  PROVE  /\ Cardinality(QtTo(st, i)) \in Nat /\ Cardinality(MttTo(st, i)) \in Nat
         /\ Cardinality(OuterTo(st, i)) \in Nat /\ Cardinality(ImplicitTo(s, st, i)) \in Nat
         /\ i = 1 => /\ Cardinality(QtTo(st, i)) = 0 /\ Cardinality(MttTo(st, i)) = 0
                     /\ Cardinality(OuterTo(st, i)) = 0 /\ Cardinality(ImplicitTo(s, st, i)) = 0
<1>1. /\ QtTo(st, i) \in SUBSET (2..i) /\ MttTo(st, i) \in SUBSET (2..i)
      /\ OuterTo(st, i) \in SUBSET (2..i) /\ ImplicitTo(s, st, i) \in SUBSET (2..i)
  BY DEF QtTo, MttTo, OuterTo, ImplicitTo
<1>2. ASSUME i = 1
      PROVE  QtTo(st, i) = {} /\ MttTo(st, i) = {} /\ OuterTo(st, i) = {} /\ ImplicitTo(s, st, i) = {}
  BY <1>1, <1>2
<1> QED
  BY <1>1, <1>2, CountTop, FS_EmptySet

\* Two stacks are alike up to a level in what is counted.
Alike(st, st2, m) ==
  \A k \in 1..m : st2[k].split = st[k].split /\ st2[k].parts = st[k].parts /\ st2[k].idx = st[k].idx

\* Such stacks have the same counts.
LEMMA CountAlike ==
  ASSUME NEW s, NEW st, NEW st2, NEW m \in Nat, Alike(st, st2, m), NEW i \in 1..m
  PROVE  /\ QtTo(st2, i) = QtTo(st, i) /\ MttTo(st2, i) = MttTo(st, i)
         /\ OuterTo(st2, i) = OuterTo(st, i) /\ ImplicitTo(s, st2, i) = ImplicitTo(s, st, i)
<1>1. \A k \in 2..i : k \in 1..m /\ k - 1 \in 1..m
  OBVIOUS
<1>2. \A k \in 2..i : /\ st2[k].split = st[k].split /\ st2[k].idx = st[k].idx
                      /\ BlockAt(st2, k - 1) = BlockAt(st, k - 1)
  BY <1>1 DEF Alike, BlockAt
<1> QED
  BY <1>2 DEF QtTo, MttTo, OuterTo, ImplicitTo

-----------------------------------------------------------------------------
(* Stacks that grow and shrink.                                             *)

\* The lower levels of a stack, and perhaps another one on top of them.
LEMMA StackExtends ==
  ASSUME NEW s, NEW st, StackOK(s, st), NEW st2 \in Seq(PartLevel), NEW m \in 1..Len(st),
         \A k \in 1..m : st2[k] = st[k], Len(st2) \in {m, m + 1},
         Len(st2) = m + 1 => /\ LevelOK(s, st2, m + 1) /\ LinkOK(s, st2, m + 1)
                             /\ OrderOK(s, st2, m, m + 1)
  PROVE  StackOK(s, st2)
<1>1. /\ m \in Nat /\ m >= 1 /\ Len(st) \in Nat /\ m <= Len(st) /\ Len(st2) >= 1
      /\ 1 \in 1..m
      /\ \A i \in 1..m : i \in 1..Len(st)
      /\ \A i \in 2..m : i \in 2..Len(st) /\ i \in 1..m /\ i - 1 \in 1..m
  BY DEF StackOK
<1>2. Alike(st, st2, m)
  BY DEF Alike
<1>3. \A i \in 1..m : BlockAt(st2, i) = BlockAt(st, i)
  BY DEF BlockAt
<1>4. \A i \in 1..m : LevelOK(s, st2, i)
  <2>1. TAKE i \in 1..m
  <2>2. LevelOK(s, st, i)
    BY <1>1 DEF StackOK
  <2>3. st2[i] = st[i] /\ BlockAt(st2, i) = BlockAt(st, i) /\ QtTo(st2, i) = QtTo(st, i)
    BY <1>1, <1>2, <1>3, CountAlike
  <2> QED
    BY <2>2, <2>3 DEF LevelOK
<1>5. \A i \in 2..m : LinkOK(s, st2, i)
  <2>1. TAKE i \in 2..m
  <2>2. LinkOK(s, st, i)
    BY <1>1 DEF StackOK
  <2>3. st2[i] = st[i] /\ st2[i - 1] = st[i - 1] /\ BlockAt(st2, i - 1) = BlockAt(st, i - 1)
    BY <1>1, <1>3
  <2> QED
    BY <2>2, <2>3 DEF LinkOK
<1>6. \A i \in 1..m : \A k \in 1..i : OrderOK(s, st2, k, i)
  <2>1. TAKE i \in 1..m
  <2>2. TAKE k \in 1..i
  <2>3. OrderOK(s, st, k, i) /\ k \in 1..m
    BY <1>1 DEF StackOK
  <2>4. /\ st2[i] = st[i] /\ st2[k] = st[k]
        /\ BlockAt(st2, i) = BlockAt(st, i) /\ BlockAt(st2, k) = BlockAt(st, k)
    BY <1>3, <2>3
  <2> QED
    BY <2>3, <2>4 DEF OrderOK
<1>7. st2[1].split = "CTU" /\ st2[1].qg
  BY <1>1 DEF StackOK
<1>8. CASE Len(st2) = m
  BY <1>1, <1>4, <1>5, <1>6, <1>7, <1>8 DEF StackOK
<1>9. CASE Len(st2) = m + 1
  <2>1. LevelOK(s, st2, m + 1) /\ LinkOK(s, st2, m + 1) /\ OrderOK(s, st2, m, m + 1)
    BY <1>9
  <2>2. /\ \A i \in 1..(m + 1) : i \in 1..m \/ i = m + 1
        /\ \A i \in 2..(m + 1) : i \in 2..m \/ i = m + 1
    BY <1>1
  <2>3. \A k \in 1..(m + 1) : OrderOK(s, st2, k, m + 1)
    <3>1. TAKE k \in 1..(m + 1)
    <3>2. CASE k = m + 1
      BY <3>2 DEF OrderOK
    <3>3. CASE k \in 1..m
      <4>1. OrderOK(s, st2, k, m)
        BY <1>1, <1>6, <3>3
      <4> QED
        BY <2>1, <4>1 DEF OrderOK
    <3> QED
      BY <2>2, <3>2, <3>3
  <2> QED
    BY <1>1, <1>4, <1>5, <1>6, <1>7, <1>9, <2>1, <2>2, <2>3 DEF StackOK
<1> QED
  BY <1>8, <1>9

-----------------------------------------------------------------------------
(* Blocks of a stack, and the edge of the picture.                          *)

\* A block across the edge, or too large for halves, is in such a block only.
LEMMA InsideStraddles ==
  ASSUME NEW s \in Setup, NEW a \in Areas, NEW b \in Areas, Inside(b, a)
  PROVE  /\ Straddles(s, b) => Straddles(s, a)
         /\ Fits(s, a) => Fits(s, b)
<1>1. /\ s.width \in Nat /\ s.height \in Nat /\ s.maxBt \in Nat
      /\ a.x \in Nat /\ a.y \in Nat /\ a.w \in Nat /\ a.h \in Nat
      /\ b.x \in Nat /\ b.y \in Nat /\ b.w \in Nat /\ b.h \in Nat
  BY DEF Setup, Areas
<1>2. Straddles(s, b) => Straddles(s, a)
  BY <1>1 DEF Straddles, Inside
<1>3. Fits(s, a) => Fits(s, b)
  BY <1>1 DEF Fits, Inside
<1> QED
  BY <1>2, <1>3

\* updateMaxMttDepth makes no depth of none, and none of no other.
LEMMA MaxMttDepthType ==
  ASSUME NEW s \in Setup, NEW a, NEW qt
  PROVE  /\ MaxMttDepth(s, a, qt) \in Nat
         /\ s.maxMtt > 0 <=> MaxMttDepth(s, a, qt) > 0
<1>1. s.maxMtt \in Nat
  BY DEF Setup
<1>2. MaxMttDepth(s, a, qt) = s.maxMtt \/ (s.maxMtt # 0 /\ MaxMttDepth(s, a, qt) = s.maxMtt + 1)
  BY DEF MaxMttDepth
<1> QED
  BY <1>1, <1>2

\* The members of a level.
LEMMA LevelTypes ==
  ASSUME NEW st \in Seq(PartLevel), NEW i \in 1..Len(st)
  PROVE  /\ st[i] \in PartLevel
         /\ st[i].split \in {"CTU", "QT"} \cup MttSplits /\ st[i].parts \in Seq(Areas) /\ st[i].idx \in Nat
         /\ st[i].implicit \in {"unknown", "NO", "QT"} \cup BinarySplits
         /\ st[i].qg \in BOOLEAN /\ st[i].maxMtt \in Nat
<1>1. st[i] \in PartLevel
  OBVIOUS
<1> QED
  BY <1>1 DEF PartLevel, Areas

\* The blocks of a stack are areas, each in the one above it.
LEMMA BlocksNested ==
  ASSUME NEW s, NEW st, StackOK(s, st), NEW i \in 1..Len(st)
  PROVE  /\ BlockAt(st, i) \in Areas
         /\ i >= 2 => /\ Inside(BlockAt(st, i), BlockAt(st, i - 1))
                      /\ Len(st[i].parts) = PartCount(st[i].split)
<1>1. ASSUME NEW j \in 1..Len(st) PROVE BlockAt(st, j) \in Areas
  <2>1. st \in Seq(PartLevel) /\ st[j].idx \in 1..Len(st[j].parts)
    BY DEF StackOK, LevelOK
  <2>2. st[j].parts \in Seq(Areas)
    BY <2>1, LevelTypes
  <2> QED
    BY <2>1, <2>2 DEF BlockAt
<1>2. ASSUME i >= 2
      PROVE  /\ Inside(BlockAt(st, i), BlockAt(st, i - 1))
             /\ Len(st[i].parts) = PartCount(st[i].split)
  <2>1. i \in 2..Len(st) /\ i - 1 \in 1..Len(st)
    BY <1>2
  <2>2. LinkOK(s, st, i) /\ LevelOK(s, st, i) /\ BlockAt(st, i - 1) \in Areas
    BY <1>1, <2>1 DEF StackOK
  <2>3. /\ st[i].split \in {"QT"} \cup MttSplits
        /\ st[i].parts = SubPartitions(BlockAt(st, i - 1), st[i].split)
        /\ st[i].idx \in 1..Len(st[i].parts)
    BY <2>2 DEF LinkOK, LevelOK
  <2> QED
    BY <2>2, <2>3, PartsInside DEF BlockAt
<1> QED
  BY <1>1, <1>2

\* Across the edge, all halves and thirds were made by it.
LEMMA AllImplicit ==
  ASSUME NEW s, NEW st, StackOK(s, st), Straddles(s, BlockAt(st, Len(st)))
  PROVE  MttTo(st, Len(st)) = ImplicitTo(s, st, Len(st))
<1>1. Len(st) \in Nat /\ Len(st) >= 1
  BY DEF StackOK
<1>2. ASSUME NEW k \in 2..Len(st) PROVE Straddles(s, BlockAt(st, k - 1))
  <2>1. Len(st) \in 1..Len(st) /\ k - 1 \in 1..Len(st)
    BY <1>1
  <2>2. OrderOK(s, st, k - 1, Len(st))
    BY <2>1 DEF StackOK
  <2> QED
    BY <2>2 DEF OrderOK
<1> QED
  BY <1>2 DEF MttTo, ImplicitTo

\* Quarters come from quarters only.
LEMMA NoMttAboveQt ==
  ASSUME NEW s, NEW st, StackOK(s, st), NEW i \in 1..Len(st), st[i].split \in {"CTU", "QT"}
  PROVE  /\ Cardinality(MttTo(st, i)) = 0 /\ Cardinality(OuterTo(st, i)) = 0
         /\ Cardinality(ImplicitTo(s, st, i)) = 0
<1>1. ASSUME NEW k \in 2..i PROVE st[k].split \notin MttSplits
  <2>1. OrderOK(s, st, k, i)
    BY DEF StackOK
  <2> QED
    BY <2>1 DEF OrderOK, MttSplits, BinarySplits, TernarySplits
<1>2. MttTo(st, i) = {} /\ OuterTo(st, i) = {} /\ ImplicitTo(s, st, i) = {}
  BY <1>1 DEF MttTo, OuterTo, ImplicitTo, MttSplits
<1> QED
  BY <1>2, FS_EmptySet

-----------------------------------------------------------------------------
(* Implicit and possible splits.                                            *)

\* The block in hand is that of the last level.
LEMMA TopIsLast ==
  ASSUME NEW p
  PROVE  /\ Top(p) = p.stack[Len(p.stack)]
         /\ CurrArea(p) = BlockAt(p.stack, Len(p.stack))
BY DEF Top, CurrArea, BlockAt, Last

\* The split that is implied for a block in the picture: one at all just across its edge,
\* halves just of blocks small enough, and quarters never of halves and thirds.
LEMMA ImplicitMeans ==
  ASSUME NEW s \in Setup, NEW p, PartOK(s, p), InPicture(s, PosOf(CurrArea(p)))
  PROVE  /\ KnownImplicitSplit(s, p) \in {"NO", "QT"} \cup BinarySplits
         /\ KnownImplicitSplit(s, p) # "NO" <=> Straddles(s, CurrArea(p))
         /\ KnownImplicitSplit(s, p) \in BinarySplits => Fits(s, CurrArea(p))
         /\ Top(p).split \in MttSplits => KnownImplicitSplit(s, p) # "QT"
<1> DEFINE st == p.stack
           n == Len(p.stack)
           a == CurrArea(p)
           v == ImplicitSplit(s, p)
<1>1. /\ n \in Nat /\ n >= 1 /\ n \in 1..n /\ StackOK(s, st) /\ CountsOK(s, p)
      /\ Top(p) = st[n] /\ a = BlockAt(st, n) /\ LevelOK(s, st, n)
  BY TopIsLast DEF PartOK, StackOK
<1>2. a \in Areas
  BY <1>1, BlocksNested
<1>3. CASE Top(p).implicit # "unknown"
  <2>1. st[n].implicit \in {"unknown", "NO", "QT"} \cup BinarySplits
    BY <1>1, LevelTypes DEF StackOK
  <2> QED
    BY <1>1, <1>3, <2>1 DEF KnownImplicitSplit, LevelOK
<1>4. CASE Top(p).implicit = "unknown"
  <2> DEFINE blInPic == InPicture(s, <<a.x, a.y + a.h - 1>>)
             trInPic == InPicture(s, <<a.x + a.w - 1, a.y>>)
             btAllowed == a.w <= s.maxBt /\ a.h <= s.maxBt /\ p.mt < Top(p).maxMtt + p.impl
             qtAllowed == a.w > s.minQt /\ a.h > s.minQt /\ p.bt = 0
  <2>1. v = IF blInPic /\ trInPic THEN "NO"
            ELSE IF ~btAllowed \/ (~blInPic /\ ~trInPic /\ qtAllowed) THEN "QT"
            ELSE IF blInPic THEN "BV" ELSE "BH"
    BY DEF ImplicitSplit
  <2>2. (blInPic /\ trInPic) <=> ~Straddles(s, a)
    <3>1. a.x < s.width /\ a.y < s.height
      BY DEF InPicture, PosOf
    <3>2. /\ s.width \in Nat /\ s.height \in Nat
          /\ a.x \in Nat /\ a.y \in Nat /\ a.w \in Nat /\ a.h \in Nat
      BY <1>2 DEF Setup, Areas
    <3> HIDE DEF a
    <3> QED
      BY <3>1, <3>2 DEF InPicture, Straddles
  <2>3. /\ Cardinality(MttTo(st, n)) \in Nat /\ Cardinality(OuterTo(st, n)) \in Nat
        /\ p.mt = Cardinality(MttTo(st, n))
        /\ p.impl = Cardinality(ImplicitTo(s, st, n))
        /\ p.bt = Cardinality(MttTo(st, n)) + Cardinality(OuterTo(st, n))
    BY <1>1, CountType DEF CountsOK
  <2>4. Straddles(s, a) => p.mt = p.impl
    BY <1>1, <2>3, AllImplicit
  <2>5. Top(p).maxMtt \in Nat /\ (s.maxMtt > 0 <=> Top(p).maxMtt > 0)
    BY <1>1, MaxMttDepthType DEF LevelOK
  <2>6. Straddles(s, a) /\ btAllowed => Fits(s, a)
    BY <2>3, <2>4, <2>5 DEF Fits
  <2>7. Straddles(s, a) /\ Top(p).split \in MttSplits => btAllowed /\ ~qtAllowed
    <3> SUFFICES ASSUME Straddles(s, a), Top(p).split \in MttSplits
                 PROVE  btAllowed /\ ~qtAllowed
      OBVIOUS
    <3>1. n >= 2
      BY <1>1 DEF StackOK, MttSplits, BinarySplits, TernarySplits
    <3>2. n \in 2..n /\ n - 1 \in 1..n
      BY <1>1, <3>1
    <3>3. /\ LinkOK(s, st, n) /\ BlockAt(st, n - 1) \in Areas
          /\ Inside(a, BlockAt(st, n - 1))
      BY <1>1, <3>1, <3>2, BlocksNested DEF StackOK
    <3>4. Fits(s, BlockAt(st, n - 1))
      BY <1>1, <1>2, <3>3, InsideStraddles DEF LinkOK
    <3>5. Fits(s, a)
      BY <1>2, <3>3, <3>4, InsideStraddles
    <3>6. Cardinality(MttTo(st, n)) >= 1
      <4>1. /\ Cardinality(MttTo(st, n)) = Cardinality(MttTo(st, n - 1)) + Counted(st[n].split \in MttSplits)
            /\ Cardinality(MttTo(st, n - 1)) \in Nat
        <5>1. n - 1 \in Nat
          BY <1>1, <3>1
        <5> QED
          BY <1>1, <3>1, <5>1, CountLevel, CountType
      <4> QED
        BY <1>1, <4>1 DEF Counted
    <3> QED
      BY <2>3, <2>4, <2>5, <3>5, <3>6 DEF Fits
  <2>8. KnownImplicitSplit(s, p) = v
    BY <1>4 DEF KnownImplicitSplit
  <2> HIDE DEF v, blInPic, trInPic, btAllowed, qtAllowed, a
  <2> QED
    BY <2>1, <2>2, <2>6, <2>7, <2>8 DEF BinarySplits, a
<1> QED
  BY <1>3, <1>4

\* What a possible split says of the block.
LEMMA PossibleSplit ==
  ASSUME NEW s \in Setup, NEW p, PartOK(s, p), InPicture(s, PosOf(CurrArea(p))),
         NEW split \in {"QT"} \cup MttSplits, split \in CanSplit(s, p)
  PROVE  /\ split = "QT" => Top(p).split \in {"CTU", "QT"}
         /\ split \in MttSplits => (split = KnownImplicitSplit(s, p) <=> Straddles(s, CurrArea(p)))
<1> DEFINE v == KnownImplicitSplit(s, p)
           halves == {v} \cap BinarySplits
           quarters == IF CanQt(s, p) THEN {"QT"} ELSE {}
<1>1. /\ v \in {"NO", "QT"} \cup BinarySplits
      /\ v # "NO" <=> Straddles(s, CurrArea(p))
      /\ Top(p).split \in MttSplits => v # "QT"
  BY ImplicitMeans
<1>2. /\ v # "NO" => split \in halves \cup (IF halves = {} THEN {"QT"} ELSE quarters)
      /\ v = "NO" => split \in {"NO"} \cup quarters \cup MttInLimits(s, p)
  BY DEF CanSplit
<1>3. CanQt(s, p) => Top(p).split \in {"CTU", "QT"}
  BY DEF CanQt
<1>4. Top(p).split \in {"CTU", "QT"} \cup MttSplits
  <2>1. /\ StackOK(s, p.stack) /\ Len(p.stack) \in Nat /\ Len(p.stack) >= 1
        /\ Top(p) = p.stack[Len(p.stack)]
    BY TopIsLast DEF PartOK, StackOK
  <2>2. CASE Len(p.stack) = 1
    BY <2>1, <2>2 DEF StackOK
  <2>3. CASE Len(p.stack) >= 2
    <3>1. LinkOK(s, p.stack, Len(p.stack))
      BY <2>1, <2>3 DEF StackOK
    <3> QED
      BY <2>1, <3>1 DEF LinkOK
  <2>4. Len(p.stack) = 1 \/ Len(p.stack) >= 2
    <3>1. \A n \in Nat : n >= 1 => n = 1 \/ n >= 2
      OBVIOUS
    <3> QED
      BY <2>1, <3>1
  <2> QED
    BY <2>2, <2>3, <2>4
<1> HIDE DEF v
<1>5. split = "QT" => Top(p).split \in {"CTU", "QT"}
  BY <1>1, <1>2, <1>3, <1>4 DEF MttInLimits, MttSplits, BinarySplits, TernarySplits
<1>6. split \in MttSplits => (split = v <=> Straddles(s, CurrArea(p)))
  BY <1>1, <1>2 DEF MttSplits, BinarySplits, TernarySplits
<1> QED
  BY <1>5, <1>6 DEF v

-----------------------------------------------------------------------------
(* The operations, member by member.                                        *)

\* A partitioner whose counters may still be wrong.
LoosePart ==
  [stack : Seq(PartLevel), qt : Int, bt : Int, mt : Int, impl : Int, subdiv : Int, qgPos : Nat \X Nat]

SameCounters(p, q) ==
  q.qt = p.qt /\ q.bt = p.bt /\ q.mt = p.mt /\ q.impl = p.impl /\ q.subdiv = p.subdiv

\* A stack whose last level was changed.
LEMMA TopChanged ==
  ASSUME NEW st \in Seq(PartLevel), NEW lv \in PartLevel, Len(st) >= 1
  PROVE  /\ WithTop(st, lv) \in Seq(PartLevel)
         /\ Len(WithTop(st, lv)) = Len(st)
         /\ WithTop(st, lv)[Len(st)] = lv
         /\ \A k \in 1..(Len(st) - 1) : WithTop(st, lv)[k] = st[k]
BY DEF WithTop

\* What initCtu, splitCurrArea and nextPart end with.
LEMMA ArrivedFields ==
  ASSUME NEW s \in Setup, NEW p \in LoosePart, Len(p.stack) >= 1,
         BlockAt(p.stack, Len(p.stack)) \in Areas
  PROVE  LET q == Arrived(s, p)
             n == Len(p.stack)
             top == p.stack[n]
         IN /\ q \in LoosePart /\ Len(q.stack) = n
            /\ \A k \in 1..(n - 1) : q.stack[k] = p.stack[k]
            /\ q.stack[n].split = top.split /\ q.stack[n].parts = top.parts
            /\ q.stack[n].idx = top.idx /\ q.stack[n].implicit = top.implicit
            /\ q.stack[n].qg = top.qg
            /\ q.stack[n].maxMtt = MaxMttDepth(s, BlockAt(p.stack, n), p.qt)
            /\ SameCounters(p, q)
            /\ q.qgPos = IF top.qg THEN PosOf(BlockAt(p.stack, n)) ELSE p.qgPos
<1> DEFINE q == Arrived(s, p)
           n == Len(p.stack)
           a == BlockAt(p.stack, n)
           m == MaxMttDepth(s, a, p.qt)
           lv == [p.stack[n] EXCEPT !.maxMtt = m]
           g == IF p.stack[n].qg THEN PosOf(a) ELSE p.qgPos
           st == WithTop(p.stack, lv)
<1>1. q = [p EXCEPT !.stack = st, !.qgPos = g]
  <2>1. CurrArea(p) = a /\ Top(p) = p.stack[n]
    BY TopIsLast
  <2>2. q = [p EXCEPT !.stack = WithTop(p.stack, [Top(p) EXCEPT !.maxMtt = MaxMttDepth(s, CurrArea(p), p.qt)]),
                      !.qgPos = IF Top(p).qg THEN PosOf(CurrArea(p)) ELSE p.qgPos]
    BY Zenon DEF Arrived
  <2> HIDE DEF q, a
  <2> QED
    BY <2>1, <2>2, Zenon
<1>2. /\ p.stack \in Seq(PartLevel) /\ n \in Nat /\ n \in 1..n /\ p.qgPos \in Nat \X Nat
      /\ p.qt \in Int /\ p.bt \in Int /\ p.mt \in Int /\ p.impl \in Int /\ p.subdiv \in Int
  BY DEF LoosePart
<1>3. m \in Nat
  BY MaxMttDepthType
<1>4. p.stack[n] \in PartLevel
  BY <1>2
<1>5. /\ lv \in PartLevel /\ lv.split = p.stack[n].split /\ lv.parts = p.stack[n].parts
      /\ lv.idx = p.stack[n].idx /\ lv.implicit = p.stack[n].implicit /\ lv.qg = p.stack[n].qg
      /\ lv.maxMtt = m
  <2> HIDE DEF m
  <2> QED
    BY <1>3, <1>4 DEF PartLevel
<1>6. g \in Nat \X Nat
  BY <1>2 DEF PosOf, Areas
<1> HIDE DEF lv, g, m
<1>7. /\ st \in Seq(PartLevel) /\ Len(st) = n /\ st[n] = lv
      /\ \A k \in 1..(n - 1) : st[k] = p.stack[k]
  BY <1>2, <1>5, TopChanged
<1> HIDE DEF st
<1>8. /\ q.stack = st /\ q.qgPos = g /\ SameCounters(p, q)
      /\ q \in LoosePart
  BY <1>1, <1>2, <1>6, <1>7 DEF LoosePart, SameCounters
<1> QED
  BY <1>5, <1>7, <1>8 DEF g, m

\* Counters that match the stack are no less than 0.
LEMMA LooseIsPartitioner ==
  ASSUME NEW s, NEW p \in LoosePart, StackOK(s, p.stack), CountsOK(s, p), GroupOK(p)
  PROVE  PartOK(s, p)
<1>1. Len(p.stack) \in Nat
  BY DEF LoosePart
<1> DEFINE n == Len(p.stack)
<1>2. /\ Cardinality(QtTo(p.stack, n)) \in Nat /\ Cardinality(MttTo(p.stack, n)) \in Nat
      /\ Cardinality(OuterTo(p.stack, n)) \in Nat /\ Cardinality(ImplicitTo(s, p.stack, n)) \in Nat
  BY <1>1, CountType
<1>3. p.qt \in Nat /\ p.mt \in Nat /\ p.bt \in Nat /\ p.impl \in Nat /\ p.subdiv \in Nat
  BY <1>2 DEF CountsOK
<1>4. p \in Partitioner
  BY <1>3 DEF LoosePart, Partitioner
<1> QED
  BY <1>4 DEF PartOK

\* The types of a partitioner in the invariant.
LEMMA PartTypes ==
  ASSUME NEW s, NEW p, PartOK(s, p)
  PROVE  /\ p \in LoosePart /\ p.stack \in Seq(PartLevel)
         /\ Len(p.stack) \in Nat /\ Len(p.stack) >= 1 /\ Len(p.stack) \in 1..Len(p.stack)
         /\ Top(p) = p.stack[Len(p.stack)] /\ Top(p) \in PartLevel
         /\ CurrArea(p) = BlockAt(p.stack, Len(p.stack)) /\ CurrArea(p) \in Areas
<1>1. /\ p \in Partitioner /\ StackOK(s, p.stack) /\ p.stack \in Seq(PartLevel)
      /\ Len(p.stack) \in Nat /\ Len(p.stack) >= 1 /\ Len(p.stack) \in 1..Len(p.stack)
  BY DEF PartOK, StackOK
<1>2. p \in LoosePart
  BY <1>1 DEF Partitioner, LoosePart
<1>3. Top(p) = p.stack[Len(p.stack)] /\ CurrArea(p) = BlockAt(p.stack, Len(p.stack))
  BY TopIsLast
<1> QED
  BY <1>1, <1>2, <1>3, BlocksNested

\* What splitCurrArea does.
LEMMA SplitFields ==
  ASSUME NEW s \in Setup, NEW p \in LoosePart, Len(p.stack) >= 1, Top(p) \in PartLevel,
         NEW split \in {"QT"} \cup MttSplits,
         CurrArea(p) \in Areas, KnownImplicitSplit(s, p) \in {"NO", "QT"} \cup BinarySplits
  PROVE  LET q == SplitCurrArea(s, p, split)
             n == Len(p.stack)
             v == KnownImplicitSplit(s, p)
             parts == SubPartitions(CurrArea(p), split)
             isQt == split = "QT"
             subdiv == p.subdiv + (IF isQt THEN 2 ELSE 1 + Twice(split))
         IN /\ q \in LoosePart /\ Len(q.stack) = n + 1
            /\ \A k \in 1..(n - 1) : q.stack[k] = p.stack[k]
            /\ q.stack[n] = [Top(p) EXCEPT !.implicit = v]
            /\ q.stack[n + 1].split = split /\ q.stack[n + 1].parts = parts
            /\ q.stack[n + 1].idx = 1 /\ q.stack[n + 1].implicit = "unknown"
            /\ q.stack[n + 1].qg = (Top(p).qg /\ subdiv <= s.qpSubdiv)
            /\ q.stack[n + 1].maxMtt = MaxMttDepth(s, parts[1], q.qt)
            /\ q.qt = (IF isQt THEN p.qt + 1 ELSE p.qt)
            /\ q.mt = (IF isQt THEN 0 ELSE p.mt + 1)
            /\ q.bt = (IF isQt THEN 0 ELSE p.bt + 1 + Twice(split))
            /\ q.impl = (IF ~isQt /\ split = v THEN p.impl + 1 ELSE p.impl)
            /\ q.subdiv = subdiv
            /\ q.qgPos = IF q.stack[n + 1].qg THEN PosOf(parts[1]) ELSE p.qgPos
<1> DEFINE n == Len(p.stack)
           v == KnownImplicitSplit(s, p)
           parts == SubPartitions(CurrArea(p), split)
           subdiv == p.subdiv + (IF split = "QT" THEN 2 ELSE 1 + Twice(split))
           level == Level(split, parts, Top(p).qg /\ subdiv <= s.qpSubdiv)
           known == [Top(p) EXCEPT !.implicit = v]
           st == Append(WithTop(p.stack, known), level)
           pushed == [p EXCEPT !.stack = st, !.subdiv = subdiv]
           r == IF split = "QT"
                THEN [pushed EXCEPT !.qt = @ + 1, !.mt = 0, !.bt = 0]
                ELSE [pushed EXCEPT !.mt = @ + 1, !.bt = @ + 1 + Twice(split),
                                    !.impl = IF split = v THEN @ + 1 ELSE @]
           q == SplitCurrArea(s, p, split)
<1>1. q = Arrived(s, r)
  BY Zenon DEF SplitCurrArea
<1>2. /\ p.stack \in Seq(PartLevel) /\ n \in Nat /\ n \in 1..n /\ p.qgPos \in Nat \X Nat
      /\ p.qt \in Int /\ p.bt \in Int /\ p.mt \in Int /\ p.impl \in Int /\ p.subdiv \in Int
  BY DEF LoosePart
<1>3. Twice(split) \in Int /\ subdiv \in Int
  BY <1>2 DEF Twice
<1>4. parts \in Seq(Areas) /\ 1 \in 1..Len(parts) /\ parts[1] \in Areas
  BY PartsInside DEF PartCount
<1> HIDE DEF parts, subdiv, v, q
<1>5. /\ level \in PartLevel /\ level.split = split /\ level.parts = parts /\ level.idx = 1
      /\ level.implicit = "unknown" /\ level.qg = (Top(p).qg /\ subdiv <= s.qpSubdiv)
  <2>1. split \in {"CTU", "QT"} \cup MttSplits
    OBVIOUS
  <2> DEFINE qg == Top(p).qg /\ subdiv <= s.qpSubdiv
  <2>2. qg \in BOOLEAN
    BY DEF PartLevel
  <2>3. level = [split |-> split, parts |-> parts, idx |-> 1, implicit |-> "unknown",
                 first |-> "NO", qg |-> qg, maxMtt |-> 0]
    BY DEF Level
  <2> HIDE DEF level, qg
  <2>4. level \in PartLevel
    BY <1>4, <2>1, <2>2, <2>3 DEF PartLevel, Areas
  <2> QED
    BY <2>3, <2>4 DEF qg
<1>6. known \in PartLevel
  BY DEF PartLevel, v
<1> HIDE DEF level, known
<1>7. /\ st \in Seq(PartLevel) /\ Len(st) = n + 1 /\ st[n + 1] = level /\ st[n] = known
      /\ \A k \in 1..(n - 1) : st[k] = p.stack[k]
  <2>1. /\ WithTop(p.stack, known) \in Seq(PartLevel) /\ Len(WithTop(p.stack, known)) = n
        /\ WithTop(p.stack, known)[n] = known
        /\ \A k \in 1..(n - 1) : WithTop(p.stack, known)[k] = p.stack[k]
    BY <1>2, <1>6, TopChanged
  <2> DEFINE base == WithTop(p.stack, known)
  <2> HIDE DEF base
  <2>2. base \in Seq(PartLevel) /\ Len(base) = n
    BY <2>1 DEF base
  <2>3. /\ Append(base, level) \in Seq(PartLevel) /\ Len(Append(base, level)) = n + 1
        /\ Append(base, level)[n + 1] = level
        /\ \A k \in 1..n : Append(base, level)[k] = base[k]
    BY <1>2, <1>5, <2>2
  <2>4. n \in 1..n /\ \A k \in 1..(n - 1) : k \in 1..n
    BY <1>2
  <2> QED
    BY <2>1, <2>3, <2>4 DEF base
<1> HIDE DEF st
<1>8. /\ r \in LoosePart /\ r.stack = st /\ r.qgPos = p.qgPos /\ r.subdiv = subdiv
      /\ r.qt = (IF split = "QT" THEN p.qt + 1 ELSE p.qt)
      /\ r.mt = (IF split = "QT" THEN 0 ELSE p.mt + 1)
      /\ r.bt = (IF split = "QT" THEN 0 ELSE p.bt + 1 + Twice(split))
      /\ r.impl = (IF ~(split = "QT") /\ split = v THEN p.impl + 1 ELSE p.impl)
  <2>0. /\ pushed \in LoosePart /\ pushed.stack = st /\ pushed.qgPos = p.qgPos
        /\ pushed.subdiv = subdiv /\ pushed.qt = p.qt /\ pushed.mt = p.mt /\ pushed.bt = p.bt
        /\ pushed.impl = p.impl
    BY <1>2, <1>3, <1>7 DEF LoosePart
  <2> HIDE DEF pushed
  <2>1. CASE split = "QT"
    <3> DEFINE qt == pushed.qt + 1
    <3>1. r = [pushed EXCEPT !.qt = qt, !.mt = 0, !.bt = 0]
      BY <2>1
    <3> HIDE DEF r
    <3>2. /\ r.stack = pushed.stack /\ r.qgPos = pushed.qgPos /\ r.subdiv = pushed.subdiv
          /\ r.impl = pushed.impl /\ r.qt = qt /\ r.mt = 0 /\ r.bt = 0
          /\ r \in LoosePart
      <4>1. qt \in Int
        BY <2>0 DEF LoosePart
      <4> HIDE DEF qt
      <4>2. /\ r.stack = pushed.stack /\ r.qgPos = pushed.qgPos /\ r.subdiv = pushed.subdiv
            /\ r.impl = pushed.impl /\ r.qt = qt /\ r.mt = 0 /\ r.bt = 0
        BY <2>0, <3>1 DEF LoosePart
      <4>3. r = [stack |-> pushed.stack, qt |-> qt, bt |-> 0, mt |-> 0, impl |-> pushed.impl,
                 subdiv |-> pushed.subdiv, qgPos |-> pushed.qgPos]
        BY <2>0, <3>1 DEF LoosePart
      <4>4. r \in LoosePart
        BY <2>0, <4>1, <4>3 DEF LoosePart
      <4> QED
        BY <4>2, <4>4
    <3> QED
      BY <2>0, <2>1, <3>2
  <2>2. CASE split # "QT"
    <3> DEFINE impl == IF split = v THEN pushed.impl + 1 ELSE pushed.impl
    <3>1. r = [pushed EXCEPT !.mt = pushed.mt + 1, !.bt = pushed.bt + 1 + Twice(split), !.impl = impl]
      BY <2>2
    <3>2. impl \in Int /\ pushed.bt + 1 + Twice(split) \in Int /\ pushed.mt + 1 \in Int
      BY <1>3, <2>0 DEF LoosePart
    <3> HIDE DEF r, impl
    <3>3. /\ r.stack = pushed.stack /\ r.qgPos = pushed.qgPos /\ r.subdiv = pushed.subdiv
          /\ r.impl = impl /\ r.qt = pushed.qt /\ r.mt = pushed.mt + 1
          /\ r.bt = pushed.bt + 1 + Twice(split) /\ r \in LoosePart
      BY <2>0, <3>1, <3>2 DEF LoosePart
    <3> QED
      BY <2>0, <2>2, <3>3 DEF impl
  <2> QED
    BY <2>1, <2>2
<1> HIDE DEF r
<1>9. BlockAt(r.stack, n + 1) = parts[1] /\ Len(r.stack) = n + 1 /\ Len(r.stack) >= 1
  <2>1. r.stack[n + 1] = level /\ Len(r.stack) = n + 1
    BY <1>7, <1>8
  <2>2. level.parts[level.idx] = parts[1]
    BY <1>5
  <2>3. n + 1 >= 1
    BY <1>2
  <2> QED
    BY <2>1, <2>2, <2>3 DEF BlockAt
<1>10. /\ q \in LoosePart /\ Len(q.stack) = n + 1
       /\ \A k \in 1..n : q.stack[k] = st[k]
       /\ q.stack[n + 1].split = level.split /\ q.stack[n + 1].parts = level.parts
       /\ q.stack[n + 1].idx = level.idx /\ q.stack[n + 1].implicit = level.implicit
       /\ q.stack[n + 1].qg = level.qg
       /\ q.stack[n + 1].maxMtt = MaxMttDepth(s, parts[1], r.qt)
       /\ SameCounters(r, q)
       /\ q.qgPos = IF level.qg THEN PosOf(parts[1]) ELSE r.qgPos
  <2>1. (n + 1) - 1 = n
    BY <1>2
  <2>2. r.stack[n + 1] = level
    BY <1>7, <1>8
  <2>3. /\ Arrived(s, r) \in LoosePart /\ Len(Arrived(s, r).stack) = n + 1
        /\ \A k \in 1..n : Arrived(s, r).stack[k] = r.stack[k]
        /\ Arrived(s, r).stack[n + 1].split = level.split
        /\ Arrived(s, r).stack[n + 1].parts = level.parts
        /\ Arrived(s, r).stack[n + 1].idx = level.idx
        /\ Arrived(s, r).stack[n + 1].implicit = level.implicit
        /\ Arrived(s, r).stack[n + 1].qg = level.qg
        /\ Arrived(s, r).stack[n + 1].maxMtt = MaxMttDepth(s, BlockAt(r.stack, n + 1), r.qt)
        /\ SameCounters(r, Arrived(s, r))
        /\ Arrived(s, r).qgPos = IF level.qg THEN PosOf(BlockAt(r.stack, n + 1)) ELSE r.qgPos
    <3>1. r \in LoosePart /\ BlockAt(r.stack, Len(r.stack)) \in Areas
      BY <1>4, <1>8, <1>9
    <3> QED
      BY <1>9, <2>1, <2>2, <3>1, ArrivedFields
  <2> QED
    BY <1>1, <1>8, <1>9, <2>3
<1>11. n \in 1..n /\ \A k \in 1..(n - 1) : k \in 1..n
  BY <1>2
<1>12. q.qt = r.qt /\ q.mt = r.mt /\ q.bt = r.bt /\ q.impl = r.impl /\ q.subdiv = r.subdiv
  BY <1>10 DEF SameCounters
<1>13. q.stack[n] = known /\ \A k \in 1..(n - 1) : q.stack[k] = p.stack[k]
  BY <1>7, <1>10, <1>11
<1> QED
  BY <1>5, <1>8, <1>10, <1>12, <1>13 DEF known, subdiv, parts, v, q

\* Asking for the implicit split of the block in hand.
LEMMA AskKeepsStack ==
  ASSUME NEW s \in Setup, NEW p, PartOK(s, p), InPicture(s, PosOf(CurrArea(p))),
         NEW st \in Seq(PartLevel), Len(st) = Len(p.stack),
         \A k \in 1..(Len(st) - 1) : st[k] = p.stack[k],
         st[Len(st)] = [Top(p) EXCEPT !.implicit = KnownImplicitSplit(s, p)]
  PROVE  StackOK(s, st)
<1> DEFINE n == Len(st)
           v == KnownImplicitSplit(s, p)
<1>1. /\ StackOK(s, p.stack) /\ n \in Nat /\ n >= 1 /\ n \in 1..n
      /\ Top(p) = p.stack[n] /\ CurrArea(p) = BlockAt(p.stack, n) /\ Top(p) \in PartLevel
  BY PartTypes DEF PartOK
<1>2. /\ v \in {"NO", "QT"} \cup BinarySplits
      /\ v # "NO" <=> Straddles(s, CurrArea(p))
      /\ v \in BinarySplits => Fits(s, CurrArea(p))
      /\ Top(p).split \in MttSplits => v # "QT"
  BY ImplicitMeans
<1>3. /\ st[n].implicit = v
      /\ st[n].split = p.stack[n].split /\ st[n].parts = p.stack[n].parts
      /\ st[n].idx = p.stack[n].idx /\ st[n].qg = p.stack[n].qg
      /\ st[n].maxMtt = p.stack[n].maxMtt
  <2> HIDE DEF v
  <2> QED
    BY <1>1 DEF PartLevel, v
<1> HIDE DEF v
<1>4. \A k \in 1..n : k \in 1..(n - 1) \/ k = n
  BY <1>1
<1>5. Alike(p.stack, st, n)
  BY <1>3, <1>4 DEF Alike
<1>6. BlockAt(st, n) = BlockAt(p.stack, n) /\ QtTo(st, n) = QtTo(p.stack, n)
  <2>1. BlockAt(st, n) = BlockAt(p.stack, n)
    BY <1>3 DEF BlockAt
  <2>2. QtTo(st, n) = QtTo(p.stack, n) /\ ImplicitTo(s, st, n) = ImplicitTo(s, p.stack, n)
    BY <1>1, <1>5, CountAlike
  <2> QED
    BY <2>1, <2>2
<1>7. LevelOK(s, p.stack, n)
  BY <1>1 DEF StackOK
<1>8. LevelOK(s, st, n)
  BY <1>1, <1>2, <1>3, <1>6, <1>7 DEF LevelOK
<1>9. CASE n = 1
  <2>1. OrderOK(s, st, 1, 1)
    BY DEF OrderOK
  <2>2. st[1].split = "CTU" /\ st[1].qg
    BY <1>1, <1>3, <1>9 DEF StackOK
  <2>3. /\ \A i \in 1..1 : i = 1
        /\ \A i \in 2..1 : FALSE
    OBVIOUS
  <2> QED
    BY <1>1, <1>8, <1>9, <2>1, <2>2, <2>3 DEF StackOK
<1>10. CASE n >= 2
  <2>1. n - 1 \in 1..n /\ (n - 1) + 1 = n /\ n \in 2..n
    BY <1>1, <1>10
  <2>2. LinkOK(s, p.stack, n) /\ OrderOK(s, p.stack, n - 1, n)
    BY <1>1, <2>1 DEF StackOK
  <2>3. n - 1 \in 1..(n - 1)
    BY <1>1, <1>10
  <2>4. st[n - 1] = p.stack[n - 1] /\ BlockAt(st, n - 1) = BlockAt(p.stack, n - 1)
    BY <2>3 DEF BlockAt
  <2>5. LinkOK(s, st, n)
    BY <1>3, <2>2, <2>4 DEF LinkOK
  <2>6. OrderOK(s, st, n - 1, n)
    BY <1>3, <1>6, <2>2, <2>4 DEF OrderOK
  <2> DEFINE m == n - 1
  <2>7. m \in 1..Len(p.stack) /\ m + 1 = n /\ Len(st) \in {m, m + 1}
    BY <1>1, <2>1
  <2>8. \A k \in 1..m : st[k] = p.stack[k]
    OBVIOUS
  <2>9. LevelOK(s, st, m + 1) /\ LinkOK(s, st, m + 1) /\ OrderOK(s, st, m, m + 1)
    BY <1>8, <2>1, <2>5, <2>6
  <2> HIDE DEF m
  <2> QED
    BY <1>1, <2>7, <2>8, <2>9, StackExtends
<1>11. n = 1 \/ n >= 2
  <2>1. n \in Nat /\ n >= 1
    BY <1>1
  <2> HIDE DEF n
  <2> QED
    BY <2>1
<1> QED
  BY <1>9, <1>10, <1>11

\* Splitting the block in hand.
LEMMA SplitKeeps ==
  ASSUME NEW s \in Setup, NEW p, PartOK(s, p), InPicture(s, PosOf(CurrArea(p))),
         NEW split \in {"QT"} \cup MttSplits, split \in CanSplit(s, p)
  PROVE  LET q == SplitCurrArea(s, p, split)
         IN PartOK(s, q) /\ InPicture(s, PosOf(CurrArea(q)))
<1> DEFINE q == SplitCurrArea(s, p, split)
           n == Len(p.stack)
           a == CurrArea(p)
           v == KnownImplicitSplit(s, p)
           parts == SubPartitions(a, split)
           known == [Top(p) EXCEPT !.implicit = v]
           st == WithTop(p.stack, known)
           subdiv == p.subdiv + (IF split = "QT" THEN 2 ELSE 1 + Twice(split))
<1>1. /\ p \in LoosePart /\ p.stack \in Seq(PartLevel) /\ n \in Nat /\ n >= 1 /\ n \in 1..n
      /\ Top(p) = p.stack[n] /\ Top(p) \in PartLevel /\ a = BlockAt(p.stack, n) /\ a \in Areas
      /\ StackOK(s, p.stack) /\ CountsOK(s, p) /\ GroupOK(p)
  BY PartTypes DEF PartOK
<1>2. /\ v \in {"NO", "QT"} \cup BinarySplits
      /\ v # "NO" <=> Straddles(s, a)
      /\ v \in BinarySplits => Fits(s, a)
  BY ImplicitMeans
<1>3. /\ split = "QT" => Top(p).split \in {"CTU", "QT"}
      /\ split \in MttSplits => (split = v <=> Straddles(s, a))
  BY PossibleSplit
<1>4. /\ q \in LoosePart /\ Len(q.stack) = n + 1
      /\ \A k \in 1..(n - 1) : q.stack[k] = p.stack[k]
      /\ q.stack[n] = known
      /\ q.stack[n + 1].split = split /\ q.stack[n + 1].parts = parts
      /\ q.stack[n + 1].idx = 1 /\ q.stack[n + 1].implicit = "unknown"
      /\ q.stack[n + 1].qg = (Top(p).qg /\ subdiv <= s.qpSubdiv)
      /\ q.stack[n + 1].maxMtt = MaxMttDepth(s, parts[1], q.qt)
      /\ q.qt = (IF split = "QT" THEN p.qt + 1 ELSE p.qt)
      /\ q.mt = (IF split = "QT" THEN 0 ELSE p.mt + 1)
      /\ q.bt = (IF split = "QT" THEN 0 ELSE p.bt + 1 + Twice(split))
      /\ q.impl = (IF ~(split = "QT") /\ split = v THEN p.impl + 1 ELSE p.impl)
      /\ q.subdiv = subdiv
      /\ q.qgPos = IF q.stack[n + 1].qg THEN PosOf(parts[1]) ELSE p.qgPos
  BY <1>1, <1>2, SplitFields
<1> HIDE DEF q
<1>5. /\ parts \in Seq(Areas) /\ Len(parts) = PartCount(split) /\ 1 \in 1..Len(parts)
      /\ parts[1] \in Areas /\ Inside(parts[1], a) /\ PosOf(parts[1]) = PosOf(a)
  <2>1. 1 \in 1..PartCount(split)
    BY DEF PartCount
  <2> QED
    BY <1>1, <2>1, PartsInside
<1> HIDE DEF a, v, parts, subdiv
<1>6. known \in PartLevel /\ known.qg = Top(p).qg /\ known.split = Top(p).split
      /\ known.parts = Top(p).parts /\ known.idx = Top(p).idx /\ known.implicit = v
  BY <1>1, <1>2 DEF PartLevel
<1> HIDE DEF known
<1>7. /\ st \in Seq(PartLevel) /\ Len(st) = n /\ st[n] = known
      /\ \A k \in 1..(n - 1) : st[k] = p.stack[k]
  BY <1>1, <1>6, TopChanged
<1> HIDE DEF st
<1>8. StackOK(s, st)
  BY <1>1, <1>7, AskKeepsStack DEF known, v
<1>9. /\ \A k \in 1..n : k \in 1..(n - 1) \/ k = n
      /\ n + 1 \in Nat /\ (n + 1) - 1 = n /\ n + 1 >= 2 /\ n \in 1..(n + 1)
  BY <1>1
<1>10. /\ \A k \in 1..n : q.stack[k] = st[k]
       /\ Alike(p.stack, q.stack, n)
       /\ BlockAt(q.stack, n) = a /\ BlockAt(q.stack, n + 1) = parts[1]
  <2>1. \A k \in 1..n : q.stack[k] = st[k]
    BY <1>4, <1>7, <1>9
  <2>2. Alike(p.stack, q.stack, n)
    BY <1>1, <1>4, <1>6, <1>9 DEF Alike
  <2>3. BlockAt(q.stack, n) = a /\ BlockAt(q.stack, n + 1) = parts[1]
    BY <1>1, <1>4, <1>6 DEF BlockAt
  <2> QED
    BY <2>1, <2>2, <2>3
<1>11. CountsOK(s, q)
  <2> DEFINE qts == Cardinality(QtTo(p.stack, n))
             mtts == Cardinality(MttTo(p.stack, n))
             outers == Cardinality(OuterTo(p.stack, n))
             implicits == Cardinality(ImplicitTo(s, p.stack, n))
  <2>1. qts \in Nat /\ mtts \in Nat /\ outers \in Nat /\ implicits \in Nat
    BY <1>1, CountType
  <2>2. /\ p.qt = qts /\ p.mt = mtts /\ p.bt = mtts + outers /\ p.impl = implicits
        /\ p.subdiv = 2 * qts + mtts + outers
    BY <1>1 DEF CountsOK
  <2>3. /\ Cardinality(QtTo(q.stack, n + 1)) = qts + Counted(split = "QT")
        /\ Cardinality(MttTo(q.stack, n + 1)) = mtts + Counted(split \in MttSplits)
        /\ Cardinality(OuterTo(q.stack, n + 1)) = outers + Counted(split \in TernarySplits)
        /\ Cardinality(ImplicitTo(s, q.stack, n + 1)) =
             implicits + Counted(split \in MttSplits /\ Straddles(s, a))
    <3>1. /\ QtTo(q.stack, n) = QtTo(p.stack, n) /\ MttTo(q.stack, n) = MttTo(p.stack, n)
          /\ OuterTo(q.stack, n) = OuterTo(p.stack, n)
          /\ ImplicitTo(s, q.stack, n) = ImplicitTo(s, p.stack, n)
      BY <1>1, <1>10, CountAlike
    <3> DEFINE m == n + 1
    <3>2. m \in Nat /\ m >= 2 /\ m - 1 = n
      <4>1. n + 1 \in Nat /\ n + 1 >= 2 /\ (n + 1) - 1 = n
        <5>1. n \in Nat /\ n >= 1
          BY <1>1
        <5> HIDE DEF n
        <5> QED
          BY <5>1
      <4> QED
        BY <4>1
    <3>3. /\ q.stack[m].split = split /\ q.stack[m].idx = 1
      BY <1>4
    <3> HIDE DEF m
    <3>4. /\ Cardinality(QtTo(q.stack, m)) = Cardinality(QtTo(q.stack, m - 1)) + Counted(q.stack[m].split = "QT")
          /\ Cardinality(MttTo(q.stack, m)) = Cardinality(MttTo(q.stack, m - 1)) + Counted(q.stack[m].split \in MttSplits)
          /\ Cardinality(OuterTo(q.stack, m)) =
               Cardinality(OuterTo(q.stack, m - 1)) + Counted(q.stack[m].split \in TernarySplits /\ q.stack[m].idx # 2)
          /\ Cardinality(ImplicitTo(s, q.stack, m)) =
               Cardinality(ImplicitTo(s, q.stack, m - 1))
                 + Counted(q.stack[m].split \in MttSplits /\ Straddles(s, BlockAt(q.stack, m - 1)))
      BY <3>2, CountLevel
    <3>5. Counted(split \in TernarySplits /\ 1 # 2) = Counted(split \in TernarySplits)
      BY DEF Counted
    <3>6. BlockAt(q.stack, m - 1) = a
      BY <1>10, <3>2
    <3> QED
      BY <3>1, <3>2, <3>3, <3>4, <3>5, <3>6 DEF m
  <2> HIDE DEF qts, mtts, outers, implicits
  <2>4. CASE split = "QT"
    <3>1. mtts = 0 /\ outers = 0 /\ implicits = 0
      BY <1>1, <1>3, <2>4, NoMttAboveQt DEF mtts, outers, implicits
    <3>2. /\ Counted(split = "QT") = 1 /\ Counted(split \in MttSplits) = 0
          /\ Counted(split \in TernarySplits) = 0
          /\ Counted(split \in MttSplits /\ Straddles(s, a)) = 0
      BY <2>4 DEF Counted, MttSplits, BinarySplits, TernarySplits
    <3>3. /\ q.qt = qts + 1 /\ q.mt = 0 /\ q.bt = 0 /\ q.impl = 0 /\ q.subdiv = 2 * qts + 2
      BY <1>4, <2>1, <2>2, <2>4, <3>1 DEF subdiv
    <3>4. Len(q.stack) = n + 1
      BY <1>4
    <3>5. /\ Cardinality(QtTo(q.stack, n + 1)) = qts + 1
          /\ Cardinality(MttTo(q.stack, n + 1)) = 0
          /\ Cardinality(OuterTo(q.stack, n + 1)) = 0
          /\ Cardinality(ImplicitTo(s, q.stack, n + 1)) = 0
      BY <2>3, <3>1, <3>2
    <3>6. q.subdiv = 2 * (qts + 1) + 0 + 0
      BY <2>1, <3>3
    <3> QED
      BY <3>3, <3>4, <3>5, <3>6 DEF CountsOK
  <2>5. CASE split \in MttSplits
    <3>1. split # "QT"
      BY <2>5 DEF MttSplits, BinarySplits, TernarySplits
    <3>2. /\ Counted(split = "QT") = 0 /\ Counted(split \in MttSplits) = 1
          /\ Counted(split \in TernarySplits) = Twice(split)
          /\ Counted(split \in MttSplits /\ Straddles(s, a)) = Counted(split = v)
          /\ Twice(split) \in Nat
      BY <1>3, <2>5, <3>1 DEF Counted, Twice, v, a
    <3>3. /\ q.qt = qts /\ q.mt = mtts + 1 /\ q.bt = (mtts + outers) + 1 + Twice(split)
          /\ q.impl = implicits + Counted(split = v)
          /\ q.subdiv = (2 * qts + mtts + outers) + (1 + Twice(split))
      BY <1>4, <2>1, <2>2, <3>1 DEF subdiv, Counted
    <3>4. Counted(split = v) \in Nat
      BY DEF Counted
    <3>5. /\ Cardinality(QtTo(q.stack, n + 1)) = qts
          /\ Cardinality(MttTo(q.stack, n + 1)) = mtts + 1
          /\ Cardinality(OuterTo(q.stack, n + 1)) = outers + Twice(split)
          /\ Cardinality(ImplicitTo(s, q.stack, n + 1)) = implicits + Counted(split = v)
      BY <2>1, <2>3, <3>2
    <3> QED
      <4>1. Len(q.stack) = n + 1 /\ Twice(split) \in Nat
        BY <1>4, <3>2
      <4>2. q.qt = qts /\ q.mt = mtts + 1 /\ q.impl = implicits + Counted(split = v)
        BY <3>3
      <4>3. q.bt = (mtts + 1) + (outers + Twice(split))
        BY <2>1, <3>3, <4>1
      <4>4. q.subdiv = 2 * qts + (mtts + 1) + (outers + Twice(split))
        BY <2>1, <3>3, <4>1
      <4> QED
        BY <3>5, <4>1, <4>2, <4>3, <4>4 DEF CountsOK
  <2> QED
    BY <2>4, <2>5
<1>12. StackOK(s, q.stack)
  <2> DEFINE m == n + 1
  <2>1. /\ m \in Nat /\ m - 1 = n /\ Len(q.stack) = m
        /\ q.stack[m].split = split /\ q.stack[m].parts = parts
        /\ q.stack[m].idx = 1 /\ q.stack[m].implicit = "unknown"
        /\ q.stack[m].qg = (Top(p).qg /\ subdiv <= s.qpSubdiv)
        /\ q.stack[m].maxMtt = MaxMttDepth(s, parts[1], q.qt)
        /\ BlockAt(q.stack, m) = parts[1]
    BY <1>4, <1>9, <1>10
  <2>2. q.stack[n] = known /\ BlockAt(q.stack, n) = a
    BY <1>4, <1>10
  <2> HIDE DEF m
  <2>3. LevelOK(s, q.stack, m)
    <3>1. q.qt = Cardinality(QtTo(q.stack, m))
      BY <1>11, <2>1 DEF CountsOK
    <3> QED
      BY <1>5, <2>1, <3>1 DEF LevelOK, BinarySplits
  <2>4. LinkOK(s, q.stack, m)
    <3>1. split \in MttSplits /\ Straddles(s, a) => Fits(s, a)
      BY <1>2, <1>3 DEF MttSplits, BinarySplits, TernarySplits, a, v
    <3>2. InPicture(s, PosOf(a))
      BY DEF a
    <3>3. known.implicit # "unknown"
      BY <1>2, <1>6 DEF BinarySplits, v
    <3>4. SubPartitions(BlockAt(q.stack, m - 1), split) = parts
      BY <2>1, <2>2 DEF parts
    <3> QED
      BY <2>1, <2>2, <3>1, <3>2, <3>3, <3>4 DEF LinkOK
  <2>5. OrderOK(s, q.stack, n, m)
    <3>1. Straddles(s, parts[1]) => Straddles(s, a)
      BY <1>1, <1>5, InsideStraddles
    <3>2. split \in {"CTU", "QT"} => known.split \in {"CTU", "QT"}
      BY <1>3, <1>6 DEF MttSplits, BinarySplits, TernarySplits
    <3>3. q.stack[m].qg => known.qg
      BY <1>6, <2>1
    <3> QED
      BY <2>1, <2>2, <3>1, <3>2, <3>3 DEF OrderOK
  <2>6. q.stack \in Seq(PartLevel)
    BY <1>4 DEF LoosePart
  <2>7. /\ n \in 1..Len(st) /\ Len(q.stack) \in {n, n + 1} /\ \A k \in 1..n : q.stack[k] = st[k]
        /\ n + 1 = m
    BY <1>1, <1>4, <1>7, <1>10 DEF m
  <2> QED
    BY <1>8, <2>3, <2>4, <2>5, <2>6, <2>7, StackExtends
<1>13. GroupOK(q)
  <2>1. SUFFICES ASSUME NEW i \in 1..(n + 1), q.stack[i].qg,
                        i < n + 1 => ~q.stack[i + 1].qg
                 PROVE  q.qgPos = PosOf(BlockAt(q.stack, i))
    BY <1>4 DEF GroupOK
  <2>2. CASE i = n + 1
    BY <1>4, <1>10, <2>1, <2>2
  <2>3. CASE i \in 1..n
    <3>1. i < n + 1 /\ n + 1 \in 1..(n + 1) /\ i + 1 \in 1..(n + 1)
      BY <1>1, <2>3
    <3>2. ~q.stack[n + 1].qg
      <4>1. OrderOK(s, q.stack, i + 1, n + 1)
        BY <1>4, <1>12, <3>1 DEF StackOK
      <4> QED
        BY <2>1, <3>1, <4>1 DEF OrderOK
    <3>3. q.qgPos = p.qgPos
      BY <1>4, <3>2
    <3>4. \A k \in 1..n : q.stack[k].qg = p.stack[k].qg
      BY <1>1, <1>4, <1>6, <1>9
    <3>5. p.stack[i].qg /\ (i < n => ~p.stack[i + 1].qg)
      <4>1. i < n => i + 1 \in 1..n
        BY <1>1, <2>3
      <4> QED
        BY <2>1, <2>3, <3>1, <3>4, <4>1
    <3>6. p.qgPos = PosOf(BlockAt(p.stack, i))
      BY <1>1, <2>3, <3>5 DEF GroupOK
    <3>7. BlockAt(q.stack, i) = BlockAt(p.stack, i)
      BY <1>10, <2>3 DEF BlockAt, Alike
    <3> QED
      BY <3>3, <3>6, <3>7
  <2> QED
    BY <1>1, <2>2, <2>3
<1>14. PosOf(CurrArea(q)) = PosOf(a)
  BY <1>4, <1>5, <1>10, TopIsLast
<1> QED
  BY <1>4, <1>11, <1>12, <1>13, <1>14, LooseIsPartitioner DEF q, a

\* What nextPart does while there is one.
LEMMA NextFields ==
  ASSUME NEW s \in Setup, NEW p \in LoosePart, Len(p.stack) >= 1, Top(p) \in PartLevel,
         HasNextPart(p), Top(p).parts[Top(p).idx + 1] \in Areas, NEW split \in AllSplits
  PROVE  LET q == NextPart(s, p, split)
             n == Len(p.stack)
             top == Top(p)
             block == top.parts[top.idx + 1]
             middle == IF top.idx = 1 THEN -Twice(top.split) ELSE Twice(top.split)
         IN /\ q \in LoosePart /\ Len(q.stack) = n
            /\ \A k \in 1..(n - 1) : q.stack[k] = p.stack[k]
            /\ q.stack[n].split = top.split /\ q.stack[n].parts = top.parts
            /\ q.stack[n].idx = top.idx + 1 /\ q.stack[n].implicit = "unknown"
            /\ q.stack[n].qg = top.qg
            /\ q.stack[n].maxMtt = MaxMttDepth(s, block, p.qt)
            /\ q.qt = p.qt /\ q.mt = p.mt /\ q.impl = p.impl
            /\ q.bt = p.bt + middle /\ q.subdiv = p.subdiv + middle
            /\ q.qgPos = IF top.qg THEN PosOf(block) ELSE p.qgPos
<1> DEFINE n == Len(p.stack)
           top == Top(p)
           block == top.parts[top.idx + 1]
           middle == IF top.idx = 1 THEN -Twice(top.split) ELSE Twice(top.split)
           left == [Top(p) EXCEPT !.idx = @ + 1, !.implicit = "unknown",
                                  !.first = IF Top(p).idx = 1 THEN split ELSE @]
           st == WithTop(p.stack, left)
           moved == [p EXCEPT !.stack = st]
           r == [moved EXCEPT !.bt = @ + middle, !.subdiv = @ + middle]
           q == NextPart(s, p, split)
<1>1. q = Arrived(s, r)
  BY Zenon DEF NextPart
<1>2. /\ p.stack \in Seq(PartLevel) /\ n \in Nat /\ n \in 1..n /\ p.qgPos \in Nat \X Nat
      /\ p.qt \in Int /\ p.bt \in Int /\ p.mt \in Int /\ p.impl \in Int /\ p.subdiv \in Int
  BY DEF LoosePart
<1>3. Twice(top.split) \in Int /\ middle \in Int
  BY DEF Twice
<1> HIDE DEF middle, q
<1>4. /\ left \in PartLevel /\ left.split = top.split /\ left.parts = top.parts
      /\ left.idx = top.idx + 1 /\ left.implicit = "unknown" /\ left.qg = top.qg
  <2> DEFINE first == IF Top(p).idx = 1 THEN split ELSE top.first
             idx == top.idx + 1
  <2>1. /\ first \in {"NO", "QT"} \cup MttSplits /\ idx \in Nat
        /\ "unknown" \in {"unknown", "NO", "QT"} \cup BinarySplits
    BY DEF PartLevel, AllSplits
  <2>2. left = [split |-> top.split, parts |-> top.parts, idx |-> idx, implicit |-> "unknown",
                first |-> first, qg |-> top.qg, maxMtt |-> top.maxMtt]
    <3>1. left = [top EXCEPT !.idx = idx, !.implicit = "unknown", !.first = first]
      OBVIOUS
    <3> HIDE DEF left, first, idx
    <3> QED
      BY <3>1 DEF PartLevel
  <2> HIDE DEF left, first, idx, top
  <2>3. top \in PartLevel
    BY DEF top
  <2>4. left \in PartLevel
    BY <2>1, <2>2, <2>3 DEF PartLevel
  <2> QED
    BY <2>2, <2>4 DEF idx
<1> HIDE DEF left
<1>5. /\ st \in Seq(PartLevel) /\ Len(st) = n /\ st[n] = left
      /\ \A k \in 1..(n - 1) : st[k] = p.stack[k]
  BY <1>2, <1>4, TopChanged
<1> HIDE DEF st
<1>6. /\ r \in LoosePart /\ r.stack = st /\ r.qgPos = p.qgPos
      /\ r.qt = p.qt /\ r.mt = p.mt /\ r.impl = p.impl
      /\ r.bt = p.bt + middle /\ r.subdiv = p.subdiv + middle
  <2>1. /\ moved \in LoosePart /\ moved.stack = st /\ moved.qgPos = p.qgPos
        /\ moved.subdiv = p.subdiv /\ moved.qt = p.qt /\ moved.mt = p.mt /\ moved.bt = p.bt
        /\ moved.impl = p.impl
    BY <1>2, <1>5 DEF LoosePart
  <2> HIDE DEF moved
  <2>2. moved.bt + middle \in Int /\ moved.subdiv + middle \in Int
    BY <1>2, <1>3, <2>1
  <2> QED
    BY <2>1, <2>2 DEF LoosePart
<1> HIDE DEF r, top, block
<1>7. BlockAt(r.stack, n) = block /\ block \in Areas /\ r.stack[n] = left /\ Len(r.stack) = n
  BY <1>4, <1>5, <1>6 DEF BlockAt, top, block
<1>8. /\ q \in LoosePart /\ Len(q.stack) = n
      /\ \A k \in 1..(n - 1) : q.stack[k] = r.stack[k]
      /\ q.stack[n].split = left.split /\ q.stack[n].parts = left.parts
      /\ q.stack[n].idx = left.idx /\ q.stack[n].implicit = left.implicit
      /\ q.stack[n].qg = left.qg
      /\ q.stack[n].maxMtt = MaxMttDepth(s, BlockAt(r.stack, n), r.qt)
      /\ SameCounters(r, q)
      /\ q.qgPos = IF left.qg THEN PosOf(BlockAt(r.stack, n)) ELSE r.qgPos
  BY <1>1, <1>2, <1>6, <1>7, ArrivedFields
<1>9. q.qt = r.qt /\ q.mt = r.mt /\ q.bt = r.bt /\ q.impl = r.impl /\ q.subdiv = r.subdiv
  BY <1>8 DEF SameCounters
<1>10. \A k \in 1..(n - 1) : q.stack[k] = p.stack[k]
  BY <1>5, <1>6, <1>8
<1> QED
  BY <1>4, <1>6, <1>7, <1>8, <1>9, <1>10 DEF middle, block, top, q

\* Going to the next part.
LEMMA NextKeeps ==
  ASSUME NEW s \in Setup, NEW p, PartOK(s, p), Len(p.stack) > 1, HasNextPart(p),
         NEW last0 \in AllSplits
  PROVE  PartOK(s, NextPart(s, p, last0))
<1> DEFINE q == NextPart(s, p, last0)
           n == Len(p.stack)
           m == n - 1
           top == Top(p)
           a == BlockAt(p.stack, m)
           b == top.parts[top.idx + 1]
           middle == IF top.idx = 1 THEN -Twice(top.split) ELSE Twice(top.split)
<1>1. /\ p \in LoosePart /\ p.stack \in Seq(PartLevel) /\ n \in Nat /\ n >= 2 /\ n \in 1..n
      /\ top = p.stack[n] /\ top \in PartLevel
      /\ StackOK(s, p.stack) /\ CountsOK(s, p) /\ GroupOK(p)
  BY PartTypes DEF PartOK
<1>2. /\ m \in Nat /\ m \in 1..n /\ m + 1 = n /\ n \in 2..n
      /\ \A k \in 1..n : k \in 1..m \/ k = n
  BY <1>1
<1>3. LevelOK(s, p.stack, n) /\ LinkOK(s, p.stack, n) /\ OrderOK(s, p.stack, m, n)
  BY <1>1, <1>2 DEF StackOK
<1>4. a \in Areas
  BY <1>1, <1>2, BlocksNested
<1>5. /\ top.split \in {"QT"} \cup MttSplits /\ top.parts = SubPartitions(a, top.split)
      /\ top.idx \in 1..Len(top.parts) /\ top.idx + 1 \in 1..Len(top.parts)
      /\ Len(top.parts) = PartCount(top.split)
  <2>1. /\ top.split \in {"QT"} \cup MttSplits /\ top.parts = SubPartitions(a, top.split)
        /\ top.idx \in 1..Len(top.parts)
    BY <1>1, <1>3 DEF LinkOK, LevelOK
  <2>2. Len(top.parts) \in Nat /\ Len(top.parts) = PartCount(top.split)
    <3>1. Len(SubPartitions(a, top.split)) = PartCount(top.split)
      BY <1>4, <2>1, PartsInside
    <3>2. PartCount(top.split) \in Nat
      BY DEF PartCount
    <3> QED
      BY <2>1, <3>1, <3>2
  <2>3. top.idx < Len(top.parts)
    BY DEF HasNextPart
  <2> QED
    BY <2>1, <2>2, <2>3
<1>6. b \in Areas /\ Inside(b, a)
  <2>1. /\ SubPartitions(a, top.split) \in Seq(Areas)
        /\ Len(SubPartitions(a, top.split)) = PartCount(top.split)
        /\ \A i \in 1..PartCount(top.split) : Inside(SubPartitions(a, top.split)[i], a)
    BY <1>4, <1>5, PartsInside
  <2> QED
    BY <1>5, <2>1
<1>7. /\ q \in LoosePart /\ Len(q.stack) = n
      /\ \A k \in 1..(n - 1) : q.stack[k] = p.stack[k]
      /\ q.stack[n].split = top.split /\ q.stack[n].parts = top.parts
      /\ q.stack[n].idx = top.idx + 1 /\ q.stack[n].implicit = "unknown"
      /\ q.stack[n].qg = top.qg
      /\ q.stack[n].maxMtt = MaxMttDepth(s, b, p.qt)
      /\ q.qt = p.qt /\ q.mt = p.mt /\ q.impl = p.impl
      /\ q.bt = p.bt + middle /\ q.subdiv = p.subdiv + middle
      /\ q.qgPos = IF top.qg THEN PosOf(b) ELSE p.qgPos
  BY <1>1, <1>6, NextFields
<1> HIDE DEF q, m, top, a, b, middle
<1>8. /\ \A k \in 1..m : q.stack[k] = p.stack[k]
      /\ Alike(p.stack, q.stack, m)
      /\ BlockAt(q.stack, m) = a /\ BlockAt(q.stack, n) = b
  <2>1. \A k \in 1..m : q.stack[k] = p.stack[k]
    BY <1>7 DEF m
  <2>2. m \in 1..m
    BY <1>1, <1>2
  <2> QED
    BY <1>7, <2>1, <2>2 DEF Alike, BlockAt, a, b
<1>9. CountsOK(s, q)
  <2> DEFINE qts == Cardinality(QtTo(p.stack, m))
             mtts == Cardinality(MttTo(p.stack, m))
             outers == Cardinality(OuterTo(p.stack, m))
             implicits == Cardinality(ImplicitTo(s, p.stack, m))
             isQt == Counted(top.split = "QT")
             isMtt == Counted(top.split \in MttSplits)
             outer == Counted(top.split \in TernarySplits /\ top.idx # 2)
             outer2 == Counted(top.split \in TernarySplits /\ top.idx + 1 # 2)
             implicit == Counted(top.split \in MttSplits /\ Straddles(s, a))
  <2>1. /\ qts \in Nat /\ mtts \in Nat /\ outers \in Nat /\ implicits \in Nat
        /\ isQt \in Nat /\ isMtt \in Nat /\ outer \in Nat /\ outer2 \in Nat /\ implicit \in Nat
    BY <1>2, CountType DEF Counted
  <2>2. n - 1 = m
    BY DEF m
  <2>3. /\ Cardinality(QtTo(p.stack, n)) = qts + isQt
        /\ Cardinality(MttTo(p.stack, n)) = mtts + isMtt
        /\ Cardinality(OuterTo(p.stack, n)) = outers + outer
        /\ Cardinality(ImplicitTo(s, p.stack, n)) = implicits + implicit
    BY <1>1, <2>2, CountLevel DEF a
  <2>4. /\ Cardinality(QtTo(q.stack, n)) = qts + isQt
        /\ Cardinality(MttTo(q.stack, n)) = mtts + isMtt
        /\ Cardinality(OuterTo(q.stack, n)) = outers + outer2
        /\ Cardinality(ImplicitTo(s, q.stack, n)) = implicits + implicit
    <3>1. /\ QtTo(q.stack, m) = QtTo(p.stack, m) /\ MttTo(q.stack, m) = MttTo(p.stack, m)
          /\ OuterTo(q.stack, m) = OuterTo(p.stack, m)
          /\ ImplicitTo(s, q.stack, m) = ImplicitTo(s, p.stack, m)
      <4>1. m \in 1..m
        BY <1>1, <1>2
      <4> QED
        BY <1>2, <1>8, <4>1, CountAlike
    <3>2. /\ Cardinality(QtTo(q.stack, n)) = Cardinality(QtTo(q.stack, n - 1)) + Counted(q.stack[n].split = "QT")
          /\ Cardinality(MttTo(q.stack, n)) = Cardinality(MttTo(q.stack, n - 1)) + Counted(q.stack[n].split \in MttSplits)
          /\ Cardinality(OuterTo(q.stack, n)) =
               Cardinality(OuterTo(q.stack, n - 1)) + Counted(q.stack[n].split \in TernarySplits /\ q.stack[n].idx # 2)
          /\ Cardinality(ImplicitTo(s, q.stack, n)) =
               Cardinality(ImplicitTo(s, q.stack, n - 1))
                 + Counted(q.stack[n].split \in MttSplits /\ Straddles(s, BlockAt(q.stack, n - 1)))
      BY <1>1, CountLevel
    <3> QED
      BY <1>7, <1>8, <2>2, <3>1, <3>2
  <2>5. outer2 = outer + middle
    <3>1. top.idx = 1 \/ top.idx = 2 \/ top.idx > 2
      BY <1>5
    <3>2. top.split \in TernarySplits => ~(top.idx > 2)
      BY <1>5 DEF PartCount, BinarySplits, TernarySplits
    <3>3. CASE top.split \in TernarySplits
      BY <3>1, <3>2, <3>3 DEF Counted, Twice, middle
    <3>4. CASE top.split \notin TernarySplits
      BY <3>4 DEF Counted, Twice, middle
    <3> QED
      BY <3>3, <3>4
  <2>6. middle \in Int
    BY DEF middle, Twice
  <2> HIDE DEF qts, mtts, outers, implicits, isQt, isMtt, outer, outer2, implicit
  <2>7. /\ p.qt = qts + isQt /\ p.mt = mtts + isMtt
        /\ p.bt = (mtts + isMtt) + (outers + outer)
        /\ p.impl = implicits + implicit
        /\ p.subdiv = 2 * (qts + isQt) + (mtts + isMtt) + (outers + outer)
    BY <1>1, <2>3 DEF CountsOK
  <2>8. /\ q.qt = qts + isQt /\ q.mt = mtts + isMtt
        /\ q.bt = (mtts + isMtt) + (outers + outer2)
        /\ q.impl = implicits + implicit
        /\ q.subdiv = 2 * (qts + isQt) + (mtts + isMtt) + (outers + outer2)
    <3>1. /\ q.qt = p.qt /\ q.mt = p.mt /\ q.impl = p.impl
          /\ q.bt = p.bt + middle /\ q.subdiv = p.subdiv + middle
      BY <1>7
    <3>2. /\ q.bt = ((mtts + isMtt) + (outers + outer)) + middle
          /\ q.subdiv = (2 * (qts + isQt) + (mtts + isMtt) + (outers + outer)) + middle
      BY <2>7, <3>1
    <3>3. q.bt = (mtts + isMtt) + (outers + outer2)
      BY <2>1, <2>5, <2>6, <3>2
    <3>4. q.subdiv = 2 * (qts + isQt) + (mtts + isMtt) + (outers + outer2)
      BY <2>1, <2>5, <2>6, <3>2
    <3> QED
      BY <2>7, <3>1, <3>3, <3>4
  <2> QED
    BY <1>7, <2>4, <2>8 DEF CountsOK
<1>10. StackOK(s, q.stack)
  <2>1. LevelOK(s, q.stack, n)
    <3>1. p.qt = Cardinality(QtTo(q.stack, n))
      BY <1>7, <1>9 DEF CountsOK
    <3> QED
      BY <1>5, <1>7, <1>8, <3>1 DEF LevelOK, BinarySplits
  <2>2. LinkOK(s, q.stack, n)
    <3>1. BlockAt(q.stack, n - 1) = BlockAt(p.stack, n - 1) /\ q.stack[n - 1] = p.stack[n - 1]
      <4>1. m \in 1..m
        BY <1>1, <1>2
      <4> QED
        BY <1>8, <4>1 DEF m, a
    <3> QED
      BY <1>1, <1>3, <1>7, <3>1 DEF LinkOK
  <2>3. OrderOK(s, q.stack, m, n)
    <3>1. Straddles(s, b) => Straddles(s, a)
      BY <1>4, <1>6, InsideStraddles
    <3>2. q.stack[m] = p.stack[m]
      <4>1. m \in 1..m
        BY <1>1, <1>2
      <4> QED
        BY <1>8, <4>1
    <3> QED
      BY <1>1, <1>3, <1>7, <1>8, <3>1, <3>2 DEF OrderOK
  <2>4. q.stack \in Seq(PartLevel) /\ Len(q.stack) \in {m, m + 1} /\ m \in 1..Len(p.stack)
    BY <1>2, <1>7 DEF LoosePart
  <2>5. StackOK(s, p.stack) /\ m + 1 = n /\ \A k \in 1..m : q.stack[k] = p.stack[k]
    BY <1>1, <1>2, <1>8
  <2>6. LevelOK(s, q.stack, m + 1) /\ LinkOK(s, q.stack, m + 1) /\ OrderOK(s, q.stack, m, m + 1)
    BY <2>1, <2>2, <2>3, <2>5
  <2> QED
    BY <2>4, <2>5, <2>6, StackExtends
<1>11. GroupOK(q)
  <2>1. SUFFICES ASSUME NEW i \in 1..n, q.stack[i].qg, i < n => ~q.stack[i + 1].qg
                 PROVE  q.qgPos = PosOf(BlockAt(q.stack, i))
    BY <1>7 DEF GroupOK
  <2>2. CASE i = n
    BY <1>7, <1>8, <2>1, <2>2
  <2>3. CASE i \in 1..m
    <3>1. i < n /\ i + 1 \in 1..n
      BY <1>1, <1>2, <2>3
    <3>2. ~q.stack[n].qg
      <4>1. OrderOK(s, q.stack, i + 1, n)
        BY <1>1, <1>7, <1>10, <3>1 DEF StackOK
      <4> QED
        BY <2>1, <3>1, <4>1 DEF OrderOK
    <3>3. q.qgPos = p.qgPos
      BY <1>7, <3>2
    <3>4. \A k \in 1..n : q.stack[k].qg = p.stack[k].qg
      BY <1>1, <1>2, <1>7, <1>8
    <3>5. p.stack[i].qg /\ ~p.stack[i + 1].qg
      BY <2>1, <3>1, <3>4
    <3>6. p.qgPos = PosOf(BlockAt(p.stack, i))
      BY <1>1, <3>5 DEF GroupOK
    <3>7. BlockAt(q.stack, i) = BlockAt(p.stack, i)
      BY <1>8, <2>3 DEF BlockAt
    <3> QED
      BY <3>3, <3>6, <3>7
  <2> QED
    BY <1>2, <2>2, <2>3
<1> QED
  BY <1>7, <1>9, <1>10, <1>11, LooseIsPartitioner DEF q

\* A stack without its last level.
LEMMA TopTakenOff ==
  ASSUME NEW st \in Seq(PartLevel), Len(st) > 1
  PROVE  /\ Front(st) \in Seq(PartLevel) /\ Len(Front(st)) = Len(st) - 1
         /\ \A k \in 1..(Len(st) - 1) : Front(st)[k] = st[k]
BY DEF Front

\* What exitCurrSplit does.
LEMMA ExitFields ==
  ASSUME NEW p \in LoosePart, Len(p.stack) > 1, Top(p) \in PartLevel,
         BlockAt(p.stack, Len(p.stack) - 1) \in Areas
  PROVE  LET q == ExitCurrSplit(p)
             m == Len(p.stack) - 1
             top == Top(p)
             isQt == top.split = "QT"
             counted == 1 + (IF top.idx = 2 THEN 0 ELSE Twice(top.split))
         IN /\ q \in LoosePart /\ Len(q.stack) = m
            /\ \A k \in 1..m : q.stack[k] = p.stack[k]
            /\ q.qt = (IF isQt THEN p.qt - 1 ELSE p.qt)
            /\ q.mt = (IF isQt THEN p.mt ELSE p.mt - 1)
            /\ q.bt = (IF isQt THEN p.bt ELSE p.bt - counted)
            /\ q.impl = (IF ~isQt /\ p.stack[m].implicit # "NO" THEN p.impl - 1 ELSE p.impl)
            /\ q.subdiv = (IF isQt THEN p.subdiv - 2 ELSE p.subdiv - counted)
            /\ q.qgPos = IF p.stack[m].qg THEN PosOf(BlockAt(p.stack, m)) ELSE p.qgPos
<1> DEFINE q == ExitCurrSplit(p)
           n == Len(p.stack)
           m == n - 1
           split == Top(p).split
           counted == 1 + (IF Top(p).idx = 2 THEN 0 ELSE Twice(split))
           st == Front(p.stack)
           popped == [p EXCEPT !.stack = Front(@)]
           group == IF Top(popped).qg THEN PosOf(CurrArea(popped)) ELSE p.qgPos
<1>1. q = IF split = "QT"
          THEN [popped EXCEPT !.qt = @ - 1, !.subdiv = @ - 2, !.qgPos = group]
          ELSE [popped EXCEPT !.mt = @ - 1, !.bt = @ - counted, !.subdiv = @ - counted,
                              !.impl = IF Top(popped).implicit # "NO" THEN @ - 1 ELSE @, !.qgPos = group]
  BY Zenon DEF ExitCurrSplit
<1>2. /\ p.stack \in Seq(PartLevel) /\ n \in Nat /\ m \in Nat /\ m \in 1..m /\ p.qgPos \in Nat \X Nat
      /\ p.qt \in Int /\ p.bt \in Int /\ p.mt \in Int /\ p.impl \in Int /\ p.subdiv \in Int
  BY DEF LoosePart
<1>3. /\ st \in Seq(PartLevel) /\ Len(st) = m /\ \A k \in 1..m : st[k] = p.stack[k]
  BY <1>2, TopTakenOff
<1>4. counted \in Int
  BY DEF Twice
<1> HIDE DEF q, st, counted, m
<1>5. /\ popped \in LoosePart /\ popped.stack = st /\ popped.qgPos = p.qgPos
      /\ popped.subdiv = p.subdiv /\ popped.qt = p.qt /\ popped.mt = p.mt /\ popped.bt = p.bt
      /\ popped.impl = p.impl
  BY <1>2, <1>3 DEF LoosePart, st
<1> HIDE DEF popped
<1>6. Top(popped) = p.stack[m] /\ CurrArea(popped) = BlockAt(p.stack, m)
  <2>1. Top(popped) = st[m] /\ CurrArea(popped) = BlockAt(st, m)
    BY <1>3, <1>5, TopIsLast
  <2> QED
    BY <1>2, <1>3, <2>1 DEF BlockAt
<1>7. group \in Nat \X Nat /\ group = IF p.stack[m].qg THEN PosOf(BlockAt(p.stack, m)) ELSE p.qgPos
  BY <1>2, <1>6 DEF PosOf, Areas, m
<1> HIDE DEF group
<1>8. /\ q \in LoosePart /\ q.stack = st /\ q.qgPos = group
      /\ q.qt = (IF split = "QT" THEN p.qt - 1 ELSE p.qt)
      /\ q.mt = (IF split = "QT" THEN p.mt ELSE p.mt - 1)
      /\ q.bt = (IF split = "QT" THEN p.bt ELSE p.bt - counted)
      /\ q.impl = (IF ~(split = "QT") /\ p.stack[m].implicit # "NO" THEN p.impl - 1 ELSE p.impl)
      /\ q.subdiv = (IF split = "QT" THEN p.subdiv - 2 ELSE p.subdiv - counted)
  <2>1. CASE split = "QT"
    <3>1. q = [popped EXCEPT !.qt = p.qt - 1, !.subdiv = p.subdiv - 2, !.qgPos = group]
      BY <1>1, <1>5, <2>1
    <3>2. p.qt - 1 \in Int /\ p.subdiv - 2 \in Int
      BY <1>2
    <3>3. /\ q.stack = st /\ q.qgPos = group /\ q.qt = p.qt - 1 /\ q.mt = p.mt /\ q.bt = p.bt
          /\ q.impl = p.impl /\ q.subdiv = p.subdiv - 2 /\ q \in LoosePart
      BY <1>5, <1>7, <3>1, <3>2 DEF LoosePart
    <3> QED
      BY <2>1, <3>3
  <2>2. CASE split # "QT"
    <3> DEFINE impl == IF p.stack[m].implicit # "NO" THEN p.impl - 1 ELSE p.impl
    <3>1. q = [popped EXCEPT !.mt = p.mt - 1, !.bt = p.bt - counted, !.subdiv = p.subdiv - counted,
                             !.impl = impl, !.qgPos = group]
      BY <1>1, <1>5, <1>6, <2>2
    <3>2. p.mt - 1 \in Int /\ p.bt - counted \in Int /\ p.subdiv - counted \in Int /\ impl \in Int
      BY <1>2, <1>4
    <3> HIDE DEF impl
    <3>a. popped \in LoosePart /\ popped.stack = st /\ popped.qt = p.qt
      BY <1>5
    <3>b. q \in LoosePart
      BY <1>7, <3>1, <3>2, <3>a DEF LoosePart
    <3>c. /\ q.stack = st /\ q.qgPos = group /\ q.qt = p.qt /\ q.mt = p.mt - 1
          /\ q.bt = p.bt - counted /\ q.impl = impl /\ q.subdiv = p.subdiv - counted
      BY <3>1, <3>a DEF LoosePart
    <3>3. /\ q.stack = st /\ q.qgPos = group /\ q.qt = p.qt /\ q.mt = p.mt - 1
          /\ q.bt = p.bt - counted /\ q.impl = impl /\ q.subdiv = p.subdiv - counted
          /\ q \in LoosePart
      BY <3>b, <3>c
    <3> QED
      BY <2>2, <3>3 DEF impl
  <2> QED
    BY <2>1, <2>2
<1> QED
  BY <1>3, <1>7, <1>8 DEF m, counted, q

\* Leaving a split for the block that was split; r is p, perhaps past the last part.
LEMMA ExitKeeps ==
  ASSUME NEW s \in Setup, NEW p, PartOK(s, p), Len(p.stack) > 1,
         NEW r \in LoosePart, Len(r.stack) = Len(p.stack), Top(r) \in PartLevel,
         \A k \in 1..(Len(p.stack) - 1) : r.stack[k] = p.stack[k],
         SameCounters(p, r), r.qgPos = p.qgPos, Top(r).split = Top(p).split,
         Top(p).split \in TernarySplits => (Top(r).idx = 2 <=> Top(p).idx = 2)
  PROVE  LET q == ExitCurrSplit(r)
         IN PartOK(s, q) /\ InPicture(s, PosOf(CurrArea(q)))
<1> DEFINE q == ExitCurrSplit(r)
           n == Len(p.stack)
           m == n - 1
           split == Top(p).split
           a == BlockAt(p.stack, m)
           counted == 1 + (IF Top(r).idx = 2 THEN 0 ELSE Twice(split))
<1>1. /\ p \in LoosePart /\ p.stack \in Seq(PartLevel) /\ n \in Nat /\ n >= 2 /\ n \in 1..n
      /\ Top(p) = p.stack[n] /\ StackOK(s, p.stack) /\ CountsOK(s, p) /\ GroupOK(p)
  BY PartTypes DEF PartOK
<1>2. /\ m \in Nat /\ m \in 1..n /\ m + 1 = n /\ n \in 2..n /\ m \in 1..m
  BY <1>1
<1>3. LinkOK(s, p.stack, n) /\ LevelOK(s, p.stack, m)
  BY <1>1, <1>2 DEF StackOK
<1>4. a \in Areas /\ BlockAt(r.stack, m) = a
  BY <1>1, <1>2, BlocksNested DEF BlockAt
<1>5. /\ split \in {"QT"} \cup MttSplits /\ InPicture(s, PosOf(a))
      /\ p.stack[m].implicit # "NO" <=> Straddles(s, a)
  BY <1>1, <1>3 DEF LinkOK, LevelOK
<1>6. /\ r.qt = p.qt /\ r.mt = p.mt /\ r.bt = p.bt /\ r.impl = p.impl /\ r.subdiv = p.subdiv
      /\ r.stack[m] = p.stack[m]
  BY <1>2 DEF SameCounters
<1>7. /\ q \in LoosePart /\ Len(q.stack) = m
      /\ \A k \in 1..m : q.stack[k] = r.stack[k]
      /\ q.qt = (IF split = "QT" THEN r.qt - 1 ELSE r.qt)
      /\ q.mt = (IF split = "QT" THEN r.mt ELSE r.mt - 1)
      /\ q.bt = (IF split = "QT" THEN r.bt ELSE r.bt - counted)
      /\ q.impl = (IF ~(split = "QT") /\ r.stack[m].implicit # "NO" THEN r.impl - 1 ELSE r.impl)
      /\ q.subdiv = (IF split = "QT" THEN r.subdiv - 2 ELSE r.subdiv - counted)
      /\ q.qgPos = IF r.stack[m].qg THEN PosOf(BlockAt(r.stack, m)) ELSE r.qgPos
  BY <1>1, <1>4, ExitFields
<1> HIDE DEF q
<1>8. \A k \in 1..m : q.stack[k] = p.stack[k]
  BY <1>7
<1> HIDE DEF m, a
<1>9. StackOK(s, q.stack)
  <2>1. q.stack \in Seq(PartLevel) /\ Len(q.stack) = m
    BY <1>7 DEF LoosePart
  <2>2. m \in 1..Len(p.stack) /\ m # m + 1
    BY <1>2
  <2>3. Len(q.stack) \in {m, m + 1} /\ Len(q.stack) # m + 1
    BY <2>1, <2>2
  <2> QED
    BY <1>1, <1>8, <2>1, <2>2, <2>3, StackExtends
<1>10. CountsOK(s, q)
  <2> DEFINE qts == Cardinality(QtTo(p.stack, m))
             mtts == Cardinality(MttTo(p.stack, m))
             outers == Cardinality(OuterTo(p.stack, m))
             implicits == Cardinality(ImplicitTo(s, p.stack, m))
             isQt == Counted(split = "QT")
             isMtt == Counted(split \in MttSplits)
             outer == Counted(split \in TernarySplits /\ Top(p).idx # 2)
             implicit == Counted(split \in MttSplits /\ Straddles(s, a))
  <2>1. /\ qts \in Nat /\ mtts \in Nat /\ outers \in Nat /\ implicits \in Nat
        /\ isQt \in Nat /\ isMtt \in Nat /\ outer \in Nat /\ implicit \in Nat
    BY <1>2, CountType DEF Counted
  <2>2. n - 1 = m
    BY DEF m
  <2>3. /\ Cardinality(QtTo(p.stack, n)) = qts + isQt
        /\ Cardinality(MttTo(p.stack, n)) = mtts + isMtt
        /\ Cardinality(OuterTo(p.stack, n)) = outers + outer
        /\ Cardinality(ImplicitTo(s, p.stack, n)) = implicits + implicit
    <3>1. /\ Cardinality(QtTo(p.stack, n)) = Cardinality(QtTo(p.stack, n - 1)) + Counted(p.stack[n].split = "QT")
          /\ Cardinality(MttTo(p.stack, n)) = Cardinality(MttTo(p.stack, n - 1)) + Counted(p.stack[n].split \in MttSplits)
          /\ Cardinality(OuterTo(p.stack, n)) =
               Cardinality(OuterTo(p.stack, n - 1)) + Counted(p.stack[n].split \in TernarySplits /\ p.stack[n].idx # 2)
          /\ Cardinality(ImplicitTo(s, p.stack, n)) =
               Cardinality(ImplicitTo(s, p.stack, n - 1))
                 + Counted(p.stack[n].split \in MttSplits /\ Straddles(s, BlockAt(p.stack, n - 1)))
      BY <1>1, CountLevel
    <3>2. p.stack[n].split = split /\ p.stack[n].idx = Top(p).idx
      BY <1>1
    <3> QED
      BY <2>2, <3>1, <3>2 DEF a
  <2>4. /\ Cardinality(QtTo(q.stack, m)) = qts /\ Cardinality(MttTo(q.stack, m)) = mtts
        /\ Cardinality(OuterTo(q.stack, m)) = outers
        /\ Cardinality(ImplicitTo(s, q.stack, m)) = implicits
    <3>1. Alike(p.stack, q.stack, m)
      BY <1>8 DEF Alike
    <3>2. /\ QtTo(q.stack, m) = QtTo(p.stack, m) /\ MttTo(q.stack, m) = MttTo(p.stack, m)
          /\ OuterTo(q.stack, m) = OuterTo(p.stack, m)
          /\ ImplicitTo(s, q.stack, m) = ImplicitTo(s, p.stack, m)
      BY <1>2, <3>1, CountAlike
    <3> QED
      BY <3>2
  <2>5. CASE split = "QT"
    <3>1. isQt = 1 /\ isMtt = 0 /\ outer = 0 /\ implicit = 0
      BY <2>5 DEF Counted, MttSplits, BinarySplits, TernarySplits
    <3>2. /\ q.qt = p.qt - 1 /\ q.mt = p.mt /\ q.bt = p.bt /\ q.impl = p.impl
          /\ q.subdiv = p.subdiv - 2
      BY <1>6, <1>7, <2>5
    <3> HIDE DEF qts, mtts, outers, implicits, isQt, isMtt, outer, implicit
    <3>3. /\ p.qt = qts + 1 /\ p.mt = mtts /\ p.bt = mtts + outers /\ p.impl = implicits
          /\ p.subdiv = 2 * (qts + 1) + mtts + outers
      BY <1>1, <2>1, <2>3, <3>1 DEF CountsOK
    <3>4. /\ q.qt = qts /\ q.mt = mtts /\ q.bt = mtts + outers /\ q.impl = implicits
          /\ q.subdiv = 2 * qts + mtts + outers
      BY <2>1, <3>2, <3>3
    <3> QED
      BY <1>7, <2>4, <3>4 DEF CountsOK
  <2>6. CASE split \in MttSplits
    <3>1. split # "QT" /\ isQt = 0 /\ isMtt = 1 /\ counted = 1 + outer
      BY <2>6 DEF Counted, Twice, MttSplits, BinarySplits, TernarySplits
    <3>2. q.impl = p.impl - implicit
      <4>1. p.impl \in Int
        BY <1>1 DEF LoosePart
      <4> QED
        BY <1>5, <1>6, <1>7, <2>6, <3>1, <4>1 DEF Counted
    <3>3. /\ q.qt = p.qt /\ q.mt = p.mt - 1 /\ q.bt = p.bt - (1 + outer)
          /\ q.subdiv = p.subdiv - (1 + outer)
      BY <1>6, <1>7, <3>1
    <3> HIDE DEF qts, mtts, outers, implicits, isQt, isMtt, outer, implicit
    <3>4. /\ p.qt = qts /\ p.mt = mtts + 1 /\ p.bt = (mtts + 1) + (outers + outer)
          /\ p.impl = implicits + implicit
          /\ p.subdiv = 2 * qts + (mtts + 1) + (outers + outer)
      BY <1>1, <2>1, <2>3, <3>1 DEF CountsOK
    <3>5. /\ q.qt = qts /\ q.mt = mtts /\ q.bt = mtts + outers /\ q.impl = implicits
          /\ q.subdiv = 2 * qts + mtts + outers
      <4>1. q.qt = qts
        BY <3>3, <3>4
      <4>2. q.mt = mtts /\ q.bt = mtts + outers
        BY <2>1, <3>3, <3>4
      <4>3. q.impl = implicits
        BY <2>1, <3>2, <3>4
      <4>4. q.subdiv = 2 * qts + mtts + outers
        BY <2>1, <3>3, <3>4
      <4> QED
        BY <4>1, <4>2, <4>3, <4>4
    <3> QED
      BY <1>7, <2>4, <3>5 DEF CountsOK
  <2> QED
    BY <1>5, <2>5, <2>6
<1>11. GroupOK(q)
  <2>1. SUFFICES ASSUME NEW i \in 1..m, q.stack[i].qg, i < m => ~q.stack[i + 1].qg
                 PROVE  q.qgPos = PosOf(BlockAt(q.stack, i))
    BY <1>7 DEF GroupOK
  <2>2. BlockAt(q.stack, i) = BlockAt(p.stack, i)
    BY <1>8, <2>1 DEF BlockAt
  <2>3. CASE i = m
    BY <1>4, <1>6, <1>7, <1>8, <2>1, <2>2, <2>3 DEF a
  <2>4. CASE i < m
    <3>1. i + 1 \in 1..m /\ i \in 1..n /\ i < n
      BY <1>2, <2>1, <2>4
    <3>2. ~q.stack[m].qg
      <4>1. OrderOK(s, q.stack, i + 1, m)
        BY <1>2, <1>7, <1>9, <3>1 DEF StackOK
      <4> QED
        BY <2>1, <2>4, <4>1 DEF OrderOK
    <3>3. q.qgPos = p.qgPos
      BY <1>2, <1>6, <1>7, <1>8, <3>2
    <3>4. p.stack[i].qg /\ ~p.stack[i + 1].qg
      BY <1>8, <2>1, <2>4, <3>1
    <3>5. p.qgPos = PosOf(BlockAt(p.stack, i))
      BY <1>1, <3>1, <3>4 DEF GroupOK
    <3> QED
      BY <2>2, <3>3, <3>5
  <2> QED
    BY <1>2, <2>1, <2>3, <2>4
<1>12. CurrArea(q) = a
  <2>1. CurrArea(q) = BlockAt(q.stack, m)
    BY <1>7, TopIsLast
  <2> QED
    BY <1>2, <1>8, <2>1 DEF BlockAt, a
<1> QED
  BY <1>5, <1>7, <1>9, <1>10, <1>11, <1>12, LooseIsPartitioner DEF q

-----------------------------------------------------------------------------
(* The invariant.                                                           *)

\* The partitioner of a CTU at its beginning.
LEMMA InitKeeps ==
  ASSUME NEW s \in Setup
  PROVE  PartOK(s, InitCtu(s)) /\ InPicture(s, PosOf(CurrArea(InitCtu(s))))
<1> DEFINE q == InitCtu(s)
           a == Area(0, 0, s.ctu, s.ctu)
           level == Level("CTU", <<a>>, TRUE)
           r == [stack |-> <<level>>, qt |-> 0, bt |-> 0, mt |-> 0, impl |-> 0, subdiv |-> 0,
                 qgPos |-> <<0, 0>>]
<1>1. q = Arrived(s, r)
  BY DEF InitCtu
<1>2. a \in Areas /\ PosOf(a) = <<0, 0>> /\ InPicture(s, PosOf(a))
  BY DEF Setup, Area, Areas, PosOf, InPicture
<1> HIDE DEF q, a
<1>3. /\ level \in PartLevel /\ level.split = "CTU" /\ level.parts = <<a>> /\ level.idx = 1
      /\ level.implicit = "unknown" /\ level.qg = TRUE
  <2>1. <<a>> \in Seq(Areas)
    BY <1>2
  <2> QED
    BY <2>1 DEF Level, PartLevel, Areas
<1> HIDE DEF level
<1>4. /\ r \in LoosePart /\ Len(r.stack) = 1 /\ r.stack[1] = level /\ BlockAt(r.stack, 1) = a
  BY <1>3 DEF LoosePart, BlockAt
<1>5. r.qt = 0 /\ r.mt = 0 /\ r.bt = 0 /\ r.impl = 0 /\ r.subdiv = 0
  OBVIOUS
<1> HIDE DEF r
<1>6. /\ q \in LoosePart /\ Len(q.stack) = Len(r.stack)
      /\ \A k \in 1..(Len(r.stack) - 1) : q.stack[k] = r.stack[k]
      /\ q.stack[Len(r.stack)].split = r.stack[Len(r.stack)].split
      /\ q.stack[Len(r.stack)].parts = r.stack[Len(r.stack)].parts
      /\ q.stack[Len(r.stack)].idx = r.stack[Len(r.stack)].idx
      /\ q.stack[Len(r.stack)].implicit = r.stack[Len(r.stack)].implicit
      /\ q.stack[Len(r.stack)].qg = r.stack[Len(r.stack)].qg
      /\ q.stack[Len(r.stack)].maxMtt = MaxMttDepth(s, BlockAt(r.stack, Len(r.stack)), r.qt)
      /\ SameCounters(r, q)
      /\ q.qgPos = IF r.stack[Len(r.stack)].qg THEN PosOf(BlockAt(r.stack, Len(r.stack))) ELSE r.qgPos
  <2>1. Len(r.stack) >= 1 /\ BlockAt(r.stack, Len(r.stack)) \in Areas
    BY <1>2, <1>4
  <2> QED
    BY <1>1, <1>4, <2>1, ArrivedFields
<1>7. /\ q \in LoosePart /\ Len(q.stack) = 1 /\ SameCounters(r, q)
      /\ q.stack[1].split = "CTU" /\ q.stack[1].parts = <<a>> /\ q.stack[1].idx = 1
      /\ q.stack[1].implicit = "unknown" /\ q.stack[1].qg = TRUE
      /\ q.stack[1].maxMtt = MaxMttDepth(s, a, 0) /\ q.qgPos = PosOf(a)
  <2>1. r.stack[1].qg = TRUE /\ Len(r.stack) = 1 /\ BlockAt(r.stack, 1) = a /\ r.qt = 0
    BY <1>3, <1>4, <1>5
  <2>2. /\ r.stack[1].split = "CTU" /\ r.stack[1].parts = <<a>> /\ r.stack[1].idx = 1
        /\ r.stack[1].implicit = "unknown"
    BY <1>3, <1>4
  <2>3. q.qgPos = IF r.stack[1].qg THEN PosOf(BlockAt(r.stack, 1)) ELSE r.qgPos
    BY <1>6, <2>1
  <2>4. q.stack[1].maxMtt = MaxMttDepth(s, a, 0)
    BY <1>6, <2>1
  <2>5. q \in LoosePart /\ Len(q.stack) = 1 /\ SameCounters(r, q)
    BY <1>6, <2>1
  <2>6. /\ q.stack[1].split = "CTU" /\ q.stack[1].parts = <<a>> /\ q.stack[1].idx = 1
        /\ q.stack[1].implicit = "unknown" /\ q.stack[1].qg = TRUE
    BY <1>6, <2>1, <2>2
  <2> QED
    BY <2>1, <2>3, <2>4, <2>5, <2>6
<1>8. q.qt = 0 /\ q.mt = 0 /\ q.bt = 0 /\ q.impl = 0 /\ q.subdiv = 0
  BY <1>5, <1>7 DEF SameCounters
<1>9. /\ Cardinality(QtTo(q.stack, 1)) = 0 /\ Cardinality(MttTo(q.stack, 1)) = 0
      /\ Cardinality(OuterTo(q.stack, 1)) = 0 /\ Cardinality(ImplicitTo(s, q.stack, 1)) = 0
  BY CountType
<1>10. BlockAt(q.stack, 1) = a
  BY <1>7 DEF BlockAt
<1>11. StackOK(s, q.stack)
  <2>1. LevelOK(s, q.stack, 1)
    BY <1>7, <1>9, <1>10 DEF LevelOK, MttSplits, BinarySplits, TernarySplits
  <2>2. OrderOK(s, q.stack, 1, 1)
    BY DEF OrderOK
  <2>3. q.stack \in Seq(PartLevel)
    BY <1>7 DEF LoosePart
  <2>4. /\ \A i \in 1..1 : i = 1
        /\ \A i \in 2..1 : FALSE
    OBVIOUS
  <2> QED
    BY <1>7, <2>1, <2>2, <2>3, <2>4 DEF StackOK
<1>12. CountsOK(s, q)
  BY <1>7, <1>8, <1>9 DEF CountsOK
<1>13. GroupOK(q)
  BY <1>7, <1>10 DEF GroupOK
<1>14. CurrArea(q) = a
  BY <1>7, <1>10, TopIsLast
<1> QED
  BY <1>2, <1>7, <1>11, <1>12, <1>13, <1>14, LooseIsPartitioner DEF q

\* The invariant holds when initCtu is done.
LEMMA InitTree == Init => TreeInv
<1> SUFFICES ASSUME Init PROVE TreeInv
  OBVIOUS
<1>1. setup \in Setups /\ setup \in Setup /\ part = InitCtu(setup) /\ last \in AllSplits
  BY SetupsAssumption DEF Init, AllSplits
<1>2. PartOK(setup, part) /\ InPicture(setup, PosOf(CurrArea(part)))
  BY <1>1, InitKeeps
<1> QED
  BY <1>1, <1>2 DEF TreeInv

\* Past the last part, a partitioner is what exitCurrSplit takes it for.
LEMMA PastLastPart ==
  ASSUME NEW s, NEW p, PartOK(s, p), Len(p.stack) > 1, ~HasNextPart(p), NEW split \in AllSplits
  PROVE  LET r == NextPart(s, p, split)
         IN /\ r \in LoosePart /\ Len(r.stack) = Len(p.stack) /\ Top(r) \in PartLevel
            /\ \A k \in 1..(Len(p.stack) - 1) : r.stack[k] = p.stack[k]
            /\ SameCounters(p, r) /\ r.qgPos = p.qgPos /\ Top(r).split = Top(p).split
            /\ Top(p).split \in TernarySplits => (Top(r).idx = 2 <=> Top(p).idx = 2)
<1> DEFINE r == NextPart(s, p, split)
           n == Len(p.stack)
           top == Top(p)
           idx == top.idx + 1
           first == IF top.idx = 1 THEN split ELSE top.first
           left == [top EXCEPT !.idx = idx, !.implicit = "unknown", !.first = first]
           st == WithTop(p.stack, left)
<1>1. r = [p EXCEPT !.stack = st]
  BY Zenon DEF NextPart
<1>2. /\ p \in LoosePart /\ p.stack \in Seq(PartLevel) /\ n \in Nat /\ n >= 1 /\ n >= 2 /\ n \in 1..n
      /\ top = p.stack[n] /\ top \in PartLevel /\ StackOK(s, p.stack)
  BY PartTypes DEF PartOK
<1>3. top.idx \in Nat /\ (top.split \in TernarySplits => top.idx = 3)
  <2>1. n \in 2..n /\ LevelOK(s, p.stack, n)
    BY <1>2 DEF StackOK
  <2>2. Len(top.parts) = PartCount(top.split)
    BY <1>2, BlocksNested
  <2>3. top.idx \in 1..Len(top.parts) /\ top.idx >= Len(top.parts)
    <3>1. top.idx \in 1..Len(top.parts)
      BY <1>2, <2>1 DEF LevelOK
    <3>2. ~(top.idx < Len(top.parts))
      BY DEF HasNextPart
    <3>3. Len(top.parts) \in Nat
      BY <2>2 DEF PartCount
    <3> QED
      BY <3>1, <3>2, <3>3
  <2> QED
    BY <2>2, <2>3 DEF PartCount, BinarySplits, TernarySplits
<1>4. /\ idx \in Nat /\ first \in {"NO", "QT"} \cup MttSplits
      /\ "unknown" \in {"unknown", "NO", "QT"} \cup BinarySplits
  BY <1>2, <1>3 DEF PartLevel, AllSplits
<1>5. top.split \in TernarySplits => idx = 4
  BY <1>3
<1> HIDE DEF top, idx, first, r
<1>6. left \in PartLevel /\ left.split = top.split /\ left.idx = idx
  <2>1. left = [split |-> top.split, parts |-> top.parts, idx |-> idx, implicit |-> "unknown",
                first |-> first, qg |-> top.qg, maxMtt |-> top.maxMtt]
    <3>1. top \in PartLevel
      BY <1>2
    <3>2. left = [top EXCEPT !.idx = idx, !.implicit = "unknown", !.first = first]
      OBVIOUS
    <3> HIDE DEF left
    <3> QED
      BY <3>1, <3>2 DEF PartLevel
  <2> HIDE DEF left
  <2> QED
    BY <1>2, <1>4, <2>1 DEF PartLevel
<1> HIDE DEF left
<1>7. /\ st \in Seq(PartLevel) /\ Len(st) = n /\ st[n] = left
      /\ \A k \in 1..(n - 1) : st[k] = p.stack[k]
  BY <1>2, <1>6, TopChanged
<1> HIDE DEF st
<1>8. r \in LoosePart /\ r.stack = st /\ SameCounters(p, r) /\ r.qgPos = p.qgPos
  BY <1>1, <1>2, <1>7 DEF LoosePart, SameCounters
<1>9. Top(r) = left
  BY <1>7, <1>8, TopIsLast
<1> QED
  BY <1>3, <1>5, <1>6, <1>7, <1>8, <1>9 DEF r, top

\* No operation of the walk breaks it.
LEMMA NextTree == TreeInv /\ [Next]_vars => TreeInv'
<1> SUFFICES ASSUME TreeInv, [Next]_vars PROVE TreeInv'
  OBVIOUS
<1>1. /\ setup \in Setups /\ setup \in Setup /\ PartOK(setup, part) /\ last \in AllSplits
      /\ phase = "tree" => InPicture(setup, PosOf(CurrArea(part)))
  BY SetupsAssumption DEF TreeInv
<1>2. /\ part.stack \in Seq(PartLevel) /\ part \in LoosePart /\ Len(part.stack) \in Nat /\ Len(part.stack) >= 1
      /\ Top(part) = part.stack[Len(part.stack)] /\ Top(part) \in PartLevel
      /\ StackOK(setup, part.stack)
  BY <1>1, PartTypes DEF PartOK
<1>3. Len(part.stack) > 1 => Top(part).split \in AllSplits
  <2>1. Len(part.stack) > 1 => Len(part.stack) \in 2..Len(part.stack)
    BY <1>2
  <2>2. Len(part.stack) > 1 => LinkOK(setup, part.stack, Len(part.stack))
    BY <1>2, <2>1 DEF StackOK
  <2> QED
    BY <1>2, <2>2 DEF LinkOK, AllSplits
<1>4. CASE CodeCu
  <2>1. setup' = setup /\ part' = part /\ last' = last /\ phase' # "tree"
    BY <1>4 DEF CodeCu
  <2> QED
    BY <1>1, <2>1 DEF TreeInv
<1>5. ASSUME NEW split \in {"QT"} \cup MttSplits, Split(split) PROVE TreeInv'
  <2>1. /\ phase = "tree" /\ split \in CanSplit(setup, part)
        /\ part' = SplitCurrArea(setup, part, split) /\ setup' = setup /\ last' = last
    BY <1>5 DEF Split
  <2>2. PartOK(setup, part') /\ InPicture(setup, PosOf(CurrArea(part')))
    BY <1>1, <2>1, SplitKeeps
  <2> QED
    BY <1>1, <2>1, <2>2 DEF TreeInv
<1>6. CASE GoToNextPart
  <2>1. /\ Len(part.stack) > 1 /\ HasNextPart(part) /\ part' = NextPart(setup, part, last)
        /\ setup' = setup /\ last' = "NO"
        /\ phase' = IF InPicture(setup, PosOf(CurrArea(part'))) THEN "tree" ELSE "next"
    BY <1>6 DEF GoToNextPart
  <2>2. PartOK(setup, part')
    BY <1>1, <2>1, NextKeeps
  <2>3. last' \in AllSplits
    BY <2>1 DEF AllSplits
  <2> QED
    BY <1>1, <2>1, <2>2, <2>3 DEF TreeInv
<1>7. CASE LeaveSplit
  <2> DEFINE r == NextPart(setup, part, last)
  <2>1. /\ Len(part.stack) > 1 /\ ~HasNextPart(part) /\ part' = ExitCurrSplit(r)
        /\ setup' = setup /\ last' = Top(part).split
    BY <1>7 DEF LeaveSplit
  <2>2. /\ r \in LoosePart /\ Len(r.stack) = Len(part.stack) /\ Top(r) \in PartLevel
        /\ \A k \in 1..(Len(part.stack) - 1) : r.stack[k] = part.stack[k]
        /\ SameCounters(part, r) /\ r.qgPos = part.qgPos /\ Top(r).split = Top(part).split
        /\ Top(part).split \in TernarySplits => (Top(r).idx = 2 <=> Top(part).idx = 2)
    BY <1>1, <2>1, PastLastPart
  <2> HIDE DEF r
  <2>3. PartOK(setup, part') /\ InPicture(setup, PosOf(CurrArea(part')))
    BY <1>1, <2>1, <2>2, ExitKeeps
  <2> QED
    BY <1>1, <1>3, <2>1, <2>3 DEF TreeInv
<1>8. CASE AbandonSplit
  <2>1. /\ Top(part).split \in MttSplits /\ part' = ExitCurrSplit(part)
        /\ setup' = setup /\ last' = last
    BY <1>8 DEF AbandonSplit
  <2>2. Len(part.stack) > 1
    <3>1. part.stack[1].split = "CTU"
      BY <1>2 DEF StackOK
    <3>2. Len(part.stack) # 1
      BY <1>2, <2>1, <3>1 DEF MttSplits, BinarySplits, TernarySplits
    <3>3. \A k \in Nat : k >= 1 /\ k # 1 => k > 1
      OBVIOUS
    <3> QED
      BY <1>2, <3>2, <3>3
  <2>3. SameCounters(part, part)
    BY DEF SameCounters
  <2>4. PartOK(setup, part') /\ InPicture(setup, PosOf(CurrArea(part')))
    BY <1>1, <1>2, <2>1, <2>2, <2>3, ExitKeeps
  <2> QED
    BY <1>1, <2>1, <2>4 DEF TreeInv
<1>9. CASE EndCtu
  <2>1. setup' = setup /\ part' = part /\ last' = last /\ phase' # "tree"
    BY <1>9 DEF EndCtu
  <2> QED
    BY <1>1, <2>1 DEF TreeInv
<1>10. CASE UNCHANGED vars
  BY <1>10 DEF TreeInv, vars, CurrArea, Top
<1> QED
  BY <1>4, <1>5, <1>6, <1>7, <1>8, <1>9, <1>10 DEF Next

\* Every partitioner that encoder, writer and reader step through a CTU is as its stack
\* says: each level as splitCurrArea made it of the one above, with what nextPart changed
\* since, and each counter the number of levels it counts.
THEOREM PartitionerAsItsStack == Spec => []TreeInv
<1>1. Init => TreeInv
  BY InitTree
<1>2. TreeInv /\ [Next]_vars => TreeInv'
  BY NextTree
<1> QED
  BY <1>1, <1>2, PTL DEF Spec

-----------------------------------------------------------------------------
(* What the partitioner remembers.                                          *)

\* A set of some levels has a last one.
LEMMA MaxIsLargest ==
  ASSUME NEW n \in Nat, NEW S \in SUBSET (1..n), S # {}
  PROVE  Max(S) \in S /\ \A i \in S : i <= Max(S)
<1> DEFINE T == {n - i : i \in S}
<1>1. T \in SUBSET Nat /\ T # {}
  <2>1. \A i \in S : n - i \in Nat
    <3>1. TAKE i \in S
    <3>2. i \in 1..n
      OBVIOUS
    <3> QED
      BY <3>2
  <2> QED
    BY <2>1, Zenon
<1>2. PICK d \in T : \A e \in T : d <= e
  BY <1>1, LeastNatural
<1>3. PICK m \in S : d = n - m
  BY <1>2
<1>4. \A i \in S : n - m <= n - i
  BY <1>2, <1>3
<1>5. \A i \in S : m >= i
  BY <1>4
<1>6. \A i \in S : Max(S) >= i
  BY <1>3, <1>5, Zenon DEF Max
<1>7. Max(S) \in S
  BY <1>3, <1>5, Zenon DEF Max
<1> QED
  BY <1>6, <1>7

\* The counters and the position of the quantisation group of a partitioner that takes
\* back splits in the middle, as the encoder does, and of those of writer and reader, are
\* those of the splits above the block in hand, for all limits and pictures.
THEOREM CountersAlwaysMatchStack == Spec => []CountersMatchStack
<1>1. ASSUME TreeInv PROVE CountersMatchStack
  <2> DEFINE st == part.stack
             n == Len(part.stack)
             groups == { i \in 1..Len(part.stack) : part.stack[i].qg }
             g == Max(groups)
             IsImplicit(i) ==
               /\ part.stack[i].split \in MttSplits
               /\ Straddles(setup, part.stack[i - 1].parts[part.stack[i - 1].idx])
             IsOuter(i) == part.stack[i].split \in TernarySplits /\ part.stack[i].idx # 2
  <2>1. /\ PartOK(setup, part) /\ StackOK(setup, st) /\ CountsOK(setup, part) /\ GroupOK(part)
        /\ n \in Nat /\ n >= 1 /\ n \in 1..n /\ 1 \in 1..n /\ Top(part) = st[n]
        /\ CurrArea(part) = BlockAt(st, n)
    BY <1>1, PartTypes DEF TreeInv, PartOK
  <2>2. /\ part.qt = Cardinality({ i \in 2..n : part.stack[i].split = "QT" })
        /\ part.mt = Cardinality({ i \in 2..n : part.stack[i].split \in MttSplits })
        /\ part.bt = Cardinality({ i \in 2..n : part.stack[i].split \in MttSplits })
                       + Cardinality({ i \in 2..n : IsOuter(i) })
        /\ part.impl = Cardinality({ i \in 2..n : IsImplicit(i) })
        /\ part.subdiv = 2 * Cardinality({ i \in 2..n : part.stack[i].split = "QT" })
                           + Cardinality({ i \in 2..n : part.stack[i].split \in MttSplits })
                           + Cardinality({ i \in 2..n : IsOuter(i) })
    BY <2>1 DEF CountsOK, QtTo, MttTo, OuterTo, ImplicitTo, BlockAt
  <2>3. part.qgPos = PosOf(st[g].parts[st[g].idx])
    <3>1. groups \in SUBSET (1..n) /\ 1 \in groups
      BY <2>1 DEF StackOK
    <3>2. g \in groups /\ \A i \in groups : i <= g
      BY <2>1, <3>1, MaxIsLargest
    <3>3. g < n => g + 1 \in 1..n /\ g + 1 \notin groups
      <4>1. g \in Int
        BY <3>1, <3>2
      <4> HIDE DEF g, groups
      <4>2. g + 1 \notin groups
        BY <3>2, <4>1
      <4> QED
        BY <2>1, <3>1, <3>2, <4>2
    <3>4. g \in 1..n /\ st[g].qg /\ (g < n => ~st[g + 1].qg)
      BY <3>2, <3>3
    <3> HIDE DEF g, groups
    <3> QED
      BY <2>1, <3>4 DEF GroupOK, BlockAt
  <2>4. Top(part).maxMtt = MaxMttDepth(setup, CurrArea(part), part.qt)
    <3>1. LevelOK(setup, st, n) /\ part.qt = Cardinality(QtTo(st, n))
      BY <2>1 DEF StackOK, CountsOK
    <3> QED
      BY <2>1, <3>1 DEF LevelOK
  <2> QED
    BY <2>2, <2>3, <2>4, Zenon DEF CountersMatchStack, CountWhere
<1> QED
  BY <1>1, PartitionerAsItsStack, PTL
=============================================================================
