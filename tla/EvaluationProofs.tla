-------------------------- MODULE EvaluationProofs --------------------------
(***************************************************************************)
(* Proofs about WalkForward and Evaluation.  The walk cuts every history,  *)
(* of any length, into any number of windows at any split, without gap,    *)
(* overlap or remainder, and Evaluation walks each pair so.  The filters   *)
(* judge cached metrics as they judge fresh ones, tolerance costs no       *)
(* survivor, and the report counts every row once.                         *)
(***************************************************************************)
EXTENDS Evaluation, FiniteSetTheorems, FunctionTheorems, TLAPS

\* The windows before window k have base_size rows each, and one more row for
\* each of them that takes from the remainder.
Before(k) == k * (n_rows \div NWindows)
               + (IF k < n_rows % NWindows THEN k ELSE n_rows % NWindows)

WalkType ==
  /\ n_rows \in Nat /\ i \in 0 .. NWindows /\ start \in Nat
  /\ outcome \in {"running", "scored", "short"}

\* What the partition rests on: where the windows so far end, and when the pair
\* counts as scored.
WalkInv ==
  /\ WalkType
  /\ start = Before(i)
  /\ outcome = "scored" => i = NWindows
  /\ WindowsPartition

\* Whole windows and the remainder make up the history.
LEMMA WholeWindows ==
  ASSUME NEW n \in Nat, NEW k \in Nat \ {0}
  PROVE  /\ n \div k \in Nat /\ n % k \in 0 .. k - 1
         /\ n = k * (n \div k) + (n % k)
  BY Z3

\* round() of what is not negative is not negative, whichever way a half goes.
LEMMA NearestIsNatural ==
  ASSUME NEW num \in Nat, NEW den \in Nat \ {0}, NEW k \in Nearest(num, den)
  PROVE  k \in Nat
<1> DEFINE m == 2 * num + den
           d == 2 * den
<1>1. m \in Nat \ {0} /\ d \in Nat \ {0}
  OBVIOUS
<1>2. m \div d \in Nat
  BY ONLY <1>1, WholeWindows
<1>3. ASSUME m % d = 0 PROVE m \div d - 1 \in Nat
  <2>1. m = d * (m \div d) + (m % d)
    BY ONLY <1>1, WholeWindows
  <2>2. m \div d # 0
    BY ONLY <2>1, <1>1, <1>2, <1>3
  <2> QED BY ONLY <2>2, <1>2
<1>4. CASE m % d = 0
  BY <1>2, <1>3, <1>4 DEF Nearest, HalfUp
<1>5. CASE m % d # 0
  BY <1>2, <1>5 DEF Nearest, HalfUp
<1> QED BY <1>4, <1>5

\* A window ends where the next one begins, and no window is skipped.
LEMMA NextBegins ==
  ASSUME WalkType, start = Before(i), i < NWindows
  PROVE  End = Before(i + 1) /\ End \in Nat /\ start <= End
<1> USE WindowsAssumption
<1> DEFINE base == n_rows \div NWindows
           rest == n_rows % NWindows
<1>1. base \in Nat /\ rest \in Nat
  BY WholeWindows DEF WalkType
<1>2. i \in Nat
  BY DEF WalkType
<1>3. (i + 1) * base = i * base + base
  BY ONLY <1>1, <1>2, Z3
<1>4. i * base \in Nat
  BY ONLY <1>1, <1>2, Z3
<1>5. End = start + base + (IF i < rest THEN 1 ELSE 0)
  BY DEF End, LongerWindow
<1>6. start = i * base + (IF i < rest THEN i ELSE rest)
  BY DEF Before
<1>7. Before(i + 1) = i * base + base + (IF i + 1 < rest THEN i + 1 ELSE rest)
  BY <1>3 DEF Before
<1> HIDE DEF base, rest
<1> QED BY <1>1, <1>2, <1>4, <1>5, <1>6, <1>7

\* A split never lies before the window.
LEMMA SplitIsInWindow ==
  ASSUME WalkType, End \in Nat, start <= End, NEW split \in Splits
  PROVE  split \in Nat /\ start <= split
<1>1. PICK k \in Nearest((End - start) * IsNum, IsDen) : split = start + k
  BY DEF Splits
<1>2. End - start \in Nat
  BY DEF WalkType
<1>3. (End - start) * IsNum \in Nat
  BY <1>2, WindowsAssumption, Z3
<1>4. k \in Nat
  BY <1>3, NearestIsNatural, WindowsAssumption
<1> QED BY <1>1, <1>4 DEF WalkType

\* The last window ends with the history.
LEMMA LastEnds ==
  ASSUME WalkType, start = Before(NWindows)
  PROVE  start = n_rows
<1> DEFINE rest == n_rows % NWindows
<1>1. rest \in 0 .. NWindows - 1 /\ n_rows = NWindows * (n_rows \div NWindows) + rest
  BY WholeWindows, WindowsAssumption DEF WalkType
<1>2. ~ NWindows < rest
  BY <1>1, WindowsAssumption
<1>3. Before(NWindows) = NWindows * (n_rows \div NWindows) + rest
  BY <1>2 DEF Before
<1> QED BY <1>1, <1>3

LEMMA WalkInvInit == WFInit => WalkInv
<1> SUFFICES ASSUME WFInit PROVE WalkInv
  OBVIOUS
<1>1. WalkType
  BY WindowsAssumption DEF WFInit, WalkType
<1>2. n_rows \div NWindows \in Nat /\ n_rows % NWindows \in Nat
  BY <1>1, WholeWindows, WindowsAssumption DEF WalkType
<1>3. 0 * (n_rows \div NWindows) = 0
  BY <1>2
<1>4. Before(0) = 0
  BY <1>2, <1>3 DEF Before
<1>5. WindowsPartition
  BY DEF WFInit, WindowsPartition
<1> QED BY <1>1, <1>4, <1>5 DEF WalkInv, WFInit

\* Before depends on nothing that a step changes.
LEMMA BeforeIsConstant ==
  ASSUME UNCHANGED n_rows, NEW k
  PROVE  Before(k)' = Before(k)
  BY DEF Before

LEMMA WindowKeepsWalkInv ==
  ASSUME WalkInv, NEW split \in Splits, NEW pos, Window(split, pos)
  PROVE  WalkInv'
<1> USE WindowsAssumption
<1>1. End = Before(i + 1) /\ End \in Nat /\ start <= End
  BY NextBegins DEF WalkInv, Window
<1>2. split \in Nat /\ start <= split
  BY <1>1, SplitIsInWindow DEF WalkInv
<1>3. start < End
  BY <1>1, <1>2 DEF Window, WalkInv, WalkType
<1>4. WalkType'
  BY <1>1 DEF WalkInv, WalkType, Window
<1>5. (start = Before(i))'
  <2>1. start' = End /\ i' = i + 1 /\ n_rows' = n_rows
    BY DEF Window
  <2>2. Before(i)' = i' * (n_rows \div NWindows)
                      + (IF i' < n_rows % NWindows THEN i' ELSE n_rows % NWindows)
    BY <2>1 DEF Before
  <2> QED BY <2>1, <2>2, <1>1 DEF Before
<1>6. (outcome = "scored" => i = NWindows)'
  BY DEF Window
<1>7. WindowsPartition'
  <2> DEFINE head == IsReturns(split)
             tail == OosReturns(split)
  <2>1. head \cup tail \cup {start} = start .. End - 1
    BY <1>1, <1>2, <1>3 DEF IsReturns, OosReturns, Returns, WalkInv, WalkType
  <2>2. head \cap tail = {} /\ start \notin head /\ start \notin tail
    BY <1>1, <1>2 DEF IsReturns, OosReturns, Returns, WalkInv, WalkType
  <2>3. (0 .. start - 1) \cap (start .. End - 1) = {}
    BY <1>1 DEF WalkInv, WalkType
  <2>4. (0 .. start - 1) \cup (start .. End - 1) = 0 .. End - 1
    BY <1>1, <1>3 DEF WalkInv, WalkType
  <2>5. is_rows' = is_rows \cup head /\ oos_rows' = oos_rows \cup tail
        /\ dropped' = dropped \cup {start} /\ start' = End /\ outcome' = "running"
    BY DEF Window
  <2> HIDE DEF head, tail
  <2>6. is_rows \cup oos_rows \cup dropped = 0 .. start - 1
        /\ is_rows \cap oos_rows = {} /\ dropped \cap (is_rows \cup oos_rows) = {}
    BY DEF WalkInv, WindowsPartition
  <2>7. (is_rows \cup oos_rows \cup dropped)' = 0 .. End - 1
    BY ONLY <2>1, <2>4, <2>5, <2>6
  <2>8. (is_rows \cap oos_rows)' = {} /\ (dropped \cap (is_rows \cup oos_rows))' = {}
    BY ONLY <2>1, <2>2, <2>3, <2>5, <2>6
  <2> QED BY <2>5, <2>7, <2>8 DEF WindowsPartition
<1> QED BY <1>4, <1>5, <1>6, <1>7 DEF WalkInv

LEMMA WalkInvStep == WalkInv /\ [WFNext]_wfvars => WalkInv'
<1> SUFFICES ASSUME WalkInv, [WFNext]_wfvars PROVE WalkInv'
  OBVIOUS
<1>1. CASE \E split \in Splits : \E pos \in [start .. End - 1 -> {-1, 0, 1}] : Window(split, pos)
  <2>1. PICK split \in Splits, pos \in [start .. End - 1 -> {-1, 0, 1}] : Window(split, pos)
    BY <1>1
  <2> QED BY <2>1, WindowKeepsWalkInv
<1>2. CASE InsufficientHistory
  BY <1>2 DEF InsufficientHistory, WalkInv, WalkType, WindowsPartition, Before
<1>3. CASE Stitch
  <2>1. start = n_rows
    BY <1>3, LastEnds DEF Stitch, WalkInv
  <2> QED BY <1>3, <2>1 DEF Stitch, WalkInv, WalkType, WindowsPartition, Before
<1>4. CASE UNCHANGED wfvars
  BY <1>4 DEF wfvars, WalkInv, WalkType, WindowsPartition, Before
<1> QED BY <1>1, <1>2, <1>3, <1>4 DEF WFNext

\* Whatever the length of the history, the number of windows and the fraction of
\* each that is in-sample: walk_forward_oos uses every row exactly once, as the
\* dropped first row of a window, in-sample or out-of-sample.
THEOREM WalkPartitions == WFSpec => []WindowsPartition
<1>1. WalkInv => WindowsPartition
  BY DEF WalkInv
<1> QED BY <1>1, WalkInvInit, WalkInvStep, PTL DEF WFSpec
-----------------------------------------------------------------------------
\* What the counting rests on: the out-of-sample rows are finitely many.
CountInv ==
  /\ WalkInv
  /\ IsFiniteSet(oos_rows)
  /\ oos_trades \in Nat /\ charged \in Nat
  /\ TradesAreCharged

\* The facts of a window that both counts use.
LEMMA WindowFacts ==
  ASSUME WalkInv, NEW split \in Splits, NEW pos, Window(split, pos)
  PROVE  /\ start \in Nat /\ End \in Nat /\ split \in Nat
         /\ start <= split /\ split < End
         /\ IsFiniteSet(OosReturns(split))
         /\ oos_rows \cap OosReturns(split) = {}
<1>1. End \in Nat /\ start <= End
  BY NextBegins DEF WalkInv, Window
<1>2. split \in Nat /\ start <= split
  BY <1>1, SplitIsInWindow DEF WalkInv
<1>3. split < End
  BY <1>1, <1>2, WindowsAssumption DEF Window
<1>4. OosReturns(split) \subseteq start + 1 .. End - 1
  BY DEF OosReturns, Returns
<1>5. start \in Nat
  BY DEF WalkInv, WalkType
<1>6. IsFiniteSet(start + 1 .. End - 1)
  BY <1>1, <1>5, FS_Interval
<1>7. IsFiniteSet(OosReturns(split))
  BY <1>4, <1>6, FS_Subset
<1>8. oos_rows \subseteq 0 .. start - 1
  BY DEF WalkInv, WindowsPartition
<1>9. oos_rows \cap OosReturns(split) = {}
  BY <1>1, <1>4, <1>5, <1>8
<1> QED BY <1>1, <1>2, <1>3, <1>5, <1>7, <1>9

\* Position changes are no more than the rows they are looked for in, and one
\* more row holds at most one more change.
LEMMA ChangesAreRows ==
  ASSUME NEW pos, NEW S, IsFiniteSet(S)
  PROVE  Changes(pos, S) \in Nat /\ Changes(pos, S) <= Cardinality(S)
<1> DEFINE C == {u \in S : pos[u] # pos[u - 1]}
<1>1. C \subseteq S
  OBVIOUS
<1>2. IsFiniteSet(C) /\ Cardinality(C) <= Cardinality(S)
  BY <1>1, FS_Subset
<1>3. Cardinality(C) \in Nat
  BY <1>2, FS_CardinalityType
<1> QED BY <1>2, <1>3 DEF Changes

LEMMA OneRowMore ==
  ASSUME NEW pos, NEW T, IsFiniteSet(T), NEW x, NEW S, S \subseteq T, T \subseteq S \cup {x}
  PROVE  Changes(pos, S) <= Changes(pos, T) /\ Changes(pos, T) <= Changes(pos, S) + 1
<1> DEFINE C == {u \in S : pos[u] # pos[u - 1]}
           D == {u \in T : pos[u] # pos[u - 1]}
<1>1. D \subseteq T /\ C \subseteq D /\ D \subseteq C \cup {x}
  OBVIOUS
<1>2. IsFiniteSet(D)
  BY <1>1, FS_Subset
<1>3. IsFiniteSet(C) /\ Cardinality(C) <= Cardinality(D)
  BY <1>1, <1>2, FS_Subset
<1>4. IsFiniteSet(C \cup {x}) /\ Cardinality(C \cup {x}) <= Cardinality(C) + 1
  <2>1. Cardinality(C) \in Nat
    BY <1>3, FS_CardinalityType
  <2>2. /\ IsFiniteSet(C \cup {x})
        /\ Cardinality(C \cup {x}) = IF x \in C THEN Cardinality(C) ELSE Cardinality(C) + 1
    <3> HIDE DEF C
    <3> QED BY <1>3, FS_AddElement
  <2> QED BY ONLY <2>1, <2>2
<1>5. Cardinality(D) <= Cardinality(C \cup {x})
  BY <1>1, <1>4, FS_Subset
<1>6. Cardinality(C) \in Nat /\ Cardinality(D) \in Nat /\ Cardinality(C \cup {x}) \in Nat
  BY <1>2, <1>3, <1>4, FS_CardinalityType
<1> QED BY <1>3, <1>4, <1>5, <1>6 DEF Changes

LEMMA CountInvInit == WFInit => CountInv
<1> SUFFICES ASSUME WFInit PROVE CountInv
  OBVIOUS
<1>1. oos_rows = {} /\ oos_trades = 0 /\ charged = 0 /\ i = 0
  BY DEF WFInit
<1>2. IsFiniteSet(oos_rows) /\ Cardinality(oos_rows) = 0
  BY <1>1, FS_EmptySet
<1> QED BY <1>1, <1>2, WalkInvInit DEF CountInv, TradesAreCharged

LEMMA WindowKeepsCounts ==
  ASSUME CountInv, NEW split \in Splits, NEW pos, Window(split, pos)
  PROVE  IsFiniteSet(oos_rows)' /\ (oos_trades \in Nat)' /\ (charged \in Nat)' /\ TradesAreCharged'
<1> DEFINE tail    == OosReturns(split)
           counted == CountedRows(split)
           a == Changes(pos, counted)
           b == Changes(pos, tail)
<1>1. WalkInv
  BY DEF CountInv
<1>2. /\ start \in Nat /\ End \in Nat /\ split \in Nat /\ start <= split /\ split < End
      /\ IsFiniteSet(tail) /\ oos_rows \cap tail = {}
  BY <1>1, WindowFacts
<1>3. counted \subseteq tail /\ tail \subseteq counted \cup {split}
  BY <1>2 DEF CountedRows, OosReturns, Returns
<1>4. a <= b /\ b <= a + 1
  BY <1>2, <1>3, OneRowMore
<1>5. IsFiniteSet(counted)
  BY <1>2, <1>3, FS_Subset
<1>6. a \in Nat /\ b \in Nat /\ b <= Cardinality(tail)
  BY <1>2, <1>5, ChangesAreRows
<1>7. IsFiniteSet(oos_rows) /\ oos_trades \in Nat /\ charged \in Nat
      /\ oos_trades <= charged /\ charged <= oos_trades + i /\ charged <= Cardinality(oos_rows)
  BY DEF CountInv, TradesAreCharged
<1>8. i \in Nat
  BY <1>1, WindowsAssumption DEF WalkInv, WalkType
<1>9. IsFiniteSet(oos_rows \cup tail)
      /\ Cardinality(oos_rows \cup tail) = Cardinality(oos_rows) + Cardinality(tail)
  <2>1. Cardinality(oos_rows \cap tail) = 0
    BY <1>2, FS_EmptySet
  <2>2. Cardinality(oos_rows) \in Nat /\ Cardinality(tail) \in Nat
    BY <1>2, <1>7, FS_CardinalityType
  <2>3. /\ IsFiniteSet(oos_rows \cup tail)
        /\ Cardinality(oos_rows \cup tail)
             = Cardinality(oos_rows) + Cardinality(tail) - Cardinality(oos_rows \cap tail)
    <3> HIDE DEF tail
    <3> QED BY <1>2, <1>7, FS_Union
  <2> QED BY ONLY <2>1, <2>2, <2>3
<1>10. Cardinality(oos_rows) \in Nat /\ Cardinality(tail) \in Nat
  BY <1>2, <1>7, FS_CardinalityType
<1>11. /\ oos_rows' = oos_rows \cup tail /\ i' = i + 1
       /\ oos_trades' = oos_trades + a /\ charged' = charged + b
  BY DEF Window
<1> HIDE DEF tail, counted, a, b
<1>12. IsFiniteSet(oos_rows') /\ Cardinality(oos_rows') = Cardinality(oos_rows) + Cardinality(tail)
  BY <1>9, <1>11
<1>13. oos_trades' \in Nat /\ charged' \in Nat
  BY <1>6, <1>7, <1>11
<1>14. oos_trades' <= charged' /\ charged' <= oos_trades' + i'
  BY <1>4, <1>6, <1>7, <1>8, <1>11
<1>15. charged' <= Cardinality(oos_rows')
  BY <1>6, <1>7, <1>10, <1>11, <1>12
<1> QED BY <1>12, <1>13, <1>14, <1>15 DEF TradesAreCharged

LEMMA CountInvStep == CountInv /\ [WFNext]_wfvars => CountInv'
<1> SUFFICES ASSUME CountInv, [WFNext]_wfvars PROVE CountInv'
  OBVIOUS
<1>1. WalkInv'
  BY WalkInvStep DEF CountInv
<1>2. CASE \E split \in Splits : \E pos \in [start .. End - 1 -> {-1, 0, 1}] : Window(split, pos)
  <2>1. PICK split \in Splits, pos \in [start .. End - 1 -> {-1, 0, 1}] : Window(split, pos)
    BY <1>2
  <2> QED BY <1>1, <2>1, WindowKeepsCounts DEF CountInv
<1>3. CASE InsufficientHistory
  BY <1>1, <1>3 DEF InsufficientHistory, CountInv, TradesAreCharged
<1>4. CASE Stitch
  BY <1>1, <1>4 DEF Stitch, CountInv, TradesAreCharged
<1>5. CASE UNCHANGED wfvars
  BY <1>1, <1>5 DEF wfvars, CountInv, TradesAreCharged
<1> QED BY <1>2, <1>3, <1>4, <1>5 DEF WFNext

\* Whatever the positions, every counted trade is paid for by a stitched
\* out-of-sample return, and at most one paid for in each window, at its first
\* out-of-sample row, is not counted.
THEOREM TradesAreAccounted == WFSpec => []TradesAreCharged
<1>1. CountInv => TradesAreCharged
  BY DEF CountInv
<1> QED BY <1>1, CountInvInit, CountInvStep, PTL DEF WFSpec
-----------------------------------------------------------------------------
\* Where more than half of a window is in-sample, its first row always is.
LEMMA FirstRowIsInSample ==
  ASSUME 2 * IsNum > IsDen, NEW size \in Nat \ {0}, NEW k \in Nearest(size * IsNum, IsDen)
  PROVE  k >= 1
<1> DEFINE num == size * IsNum
           m == 2 * num + IsDen
           d == 2 * IsDen
<1>1. IsNum \in Nat /\ IsDen \in Nat \ {0}
  BY WindowsAssumption
<1>2. num \in Nat /\ num >= IsNum
  BY <1>1, Z3
<1>3. m \in Nat \ {0} /\ d \in Nat \ {0} /\ m > d
  BY <1>1, <1>2
<1>4. m \div d \in Nat /\ m % d \in 0 .. d - 1 /\ m = d * (m \div d) + (m % d)
  BY ONLY <1>3, WholeWindows
<1>5. m \div d # 0
  BY ONLY <1>3, <1>4
<1>6. ASSUME m % d = 0 PROVE m \div d # 1
  BY ONLY <1>3, <1>4, <1>6
<1>7. CASE m % d = 0
  <2>1. k \in {m \div d - 1, m \div d}
    BY <1>7 DEF Nearest, HalfUp
  <2>2. m \div d # 1
    BY <1>6, <1>7
  <2> QED BY ONLY <1>4, <1>5, <2>1, <2>2
<1>8. CASE m % d # 0
  <2>1. k = m \div d
    BY <1>8 DEF Nearest, HalfUp
  <2> QED BY ONLY <1>4, <1>5, <2>1
<1> QED BY <1>7, <1>8

EnoughInv == CountInv /\ EnoughOosReturns

LEMMA WindowKeepsEnough ==
  ASSUME 2 * IsNum > IsDen, EnoughInv, NEW split \in Splits, NEW pos, Window(split, pos)
  PROVE  EnoughOosReturns'
<1> DEFINE tail == OosReturns(split)
<1>1. /\ start \in Nat /\ End \in Nat /\ split \in Nat /\ start <= split /\ split < End
      /\ IsFiniteSet(tail) /\ oos_rows \cap tail = {}
  BY WindowFacts DEF EnoughInv, CountInv
<1>2. PICK k \in Nearest((End - start) * IsNum, IsDen) : split = start + k
  BY DEF Splits
<1>3. k >= 1
  <2>1. End - start \in Nat \ {0}
    BY <1>1
  <2> QED BY <1>2, <2>1, FirstRowIsInSample
<1>4. k \in Nat
  <2>1. (End - start) * IsNum \in Nat
    <3>1. End - start \in Nat /\ IsNum \in Nat
      BY <1>1, WindowsAssumption
    <3> QED BY ONLY <3>1, Z3
  <2> QED BY <1>2, <2>1, NearestIsNatural, WindowsAssumption
<1>5. tail = split .. End - 1
  BY <1>1, <1>2, <1>3, <1>4 DEF OosReturns, Returns
<1>6. Cardinality(split .. End - 1) = End - split
  BY <1>1, FS_Interval
<1>7. Cardinality(tail) >= MinOosRows
  BY <1>1, <1>5, <1>6, WindowsAssumption DEF Window
<1>8. IsFiniteSet(oos_rows) /\ Cardinality(oos_rows) >= i * MinOosRows
  BY DEF EnoughInv, CountInv, EnoughOosReturns
<1>9. Cardinality(oos_rows) \in Nat /\ Cardinality(tail) \in Nat
  BY <1>1, <1>8, FS_CardinalityType
<1>10. Cardinality(oos_rows \cup tail) = Cardinality(oos_rows) + Cardinality(tail)
  <2>1. Cardinality(oos_rows \cap tail) = 0
    BY <1>1, FS_EmptySet
  <2>2. Cardinality(oos_rows \cup tail)
          = Cardinality(oos_rows) + Cardinality(tail) - Cardinality(oos_rows \cap tail)
    <3> HIDE DEF tail
    <3> QED BY <1>1, <1>8, FS_Union
  <2> QED BY ONLY <1>9, <2>1, <2>2
<1>11. i \in Nat /\ MinOosRows \in Nat
  BY WindowsAssumption DEF EnoughInv, CountInv, WalkInv, WalkType
<1>12. (i + 1) * MinOosRows = i * MinOosRows + MinOosRows /\ i * MinOosRows \in Nat
  BY ONLY <1>11, Z3
<1>13. oos_rows' = oos_rows \cup tail /\ i' = i + 1
  BY DEF Window
<1> HIDE DEF tail
<1>14. Cardinality(oos_rows') >= i' * MinOosRows
  BY <1>7, <1>8, <1>9, <1>10, <1>11, <1>12, <1>13
<1> QED BY <1>14 DEF EnoughOosReturns

LEMMA EnoughInvInit == WFInit => EnoughInv
<1> SUFFICES ASSUME WFInit PROVE EnoughInv
  OBVIOUS
<1>1. oos_rows = {} /\ i = 0
  BY DEF WFInit
<1>2. Cardinality(oos_rows) = 0
  BY <1>1, FS_EmptySet
<1>3. 0 * MinOosRows = 0
  BY WindowsAssumption
<1> QED BY <1>1, <1>2, <1>3, CountInvInit DEF EnoughInv, EnoughOosReturns

LEMMA EnoughInvStep ==
  ASSUME 2 * IsNum > IsDen, EnoughInv, [WFNext]_wfvars
  PROVE  EnoughInv'
<1>1. CountInv'
  BY CountInvStep DEF EnoughInv
<1>2. CASE \E split \in Splits : \E pos \in [start .. End - 1 -> {-1, 0, 1}] : Window(split, pos)
  <2>1. PICK split \in Splits, pos \in [start .. End - 1 -> {-1, 0, 1}] : Window(split, pos)
    BY <1>2
  <2> QED BY <1>1, <2>1, WindowKeepsEnough DEF EnoughInv
<1>3. CASE InsufficientHistory
  BY <1>1, <1>3 DEF InsufficientHistory, EnoughInv, EnoughOosReturns
<1>4. CASE Stitch
  BY <1>1, <1>4 DEF Stitch, EnoughInv, EnoughOosReturns
<1>5. CASE UNCHANGED wfvars
  BY <1>1, <1>5 DEF wfvars, EnoughInv, EnoughOosReturns
<1> QED BY <1>2, <1>3, <1>4, <1>5 DEF WFNext

\* With more than half of every window in-sample, each window kept contributes
\* its full minimum of out-of-sample returns.  Without that a window whose
\* in-sample part rounds to nothing drops its first row from the tail.
THEOREM ReturnsAreEnough ==
  ASSUME 2 * IsNum > IsDen
  PROVE  WFSpec => []EnoughOosReturns
<1>1. EnoughInv => EnoughOosReturns
  BY DEF EnoughInv
<1>2. EnoughInv /\ [WFNext]_wfvars => EnoughInv'
  BY EnoughInvStep
<1> QED BY <1>1, <1>2, EnoughInvInit, PTL DEF WFSpec
-----------------------------------------------------------------------------
(***************************************************************************)
(* Evaluation: each pair is walked from its start, and nothing else moves  *)
(* a walk.                                                                 *)
(***************************************************************************)
LEMMA RestartIsFresh ==
  ASSUME NEW n \in Nat, Restart(n)
  PROVE  CountInv' /\ EnoughOosReturns'
<1>1. /\ n_rows' = n /\ i' = 0 /\ start' = 0 /\ is_rows' = {} /\ oos_rows' = {} /\ dropped' = {}
      /\ oos_trades' = 0 /\ charged' = 0 /\ outcome' = "running"
  BY DEF Restart
<1>2. n \div NWindows \in Nat /\ n % NWindows \in Nat
  BY WholeWindows, WindowsAssumption
<1>3. 0 * (n \div NWindows) = 0 /\ 0 * MinOosRows = 0
  BY <1>2, WindowsAssumption
<1>4. Before(0)' = 0
  BY <1>1, <1>2, <1>3 DEF Before
<1>5. WindowsPartition'
  BY <1>1 DEF WindowsPartition
<1>6. WalkType'
  BY <1>1, WindowsAssumption DEF WalkType
<1>7. IsFiniteSet(oos_rows)' /\ Cardinality(oos_rows') = 0
  BY <1>1, FS_EmptySet
<1> QED BY <1>1, <1>3, <1>4, <1>5, <1>6, <1>7 DEF WalkInv, CountInv, TradesAreCharged, EnoughOosReturns

\* What every step of Evaluation does to the walk.
LEMMA StepOfWalk ==
  ASSUME [Next]_<<wfvars, evars>>
  PROVE  [WFNext]_wfvars \/ \E n \in Nat : Restart(n)
<1>1. CASE Score
  <2>1. (\E n \in Lengths : Restart(n)) \/ Restart(0)
    BY <1>1 DEF Score
  <2> QED BY <2>1, WindowsAssumption
<1>2. CASE Measure \/ Report \/ Screen \/ Hit
  BY <1>2 DEF Measure, Report, Screen, Hit
<1> QED BY <1>1, <1>2 DEF Next

\* Every pair of every sweep is cut without gap, overlap or remainder.
LEMMA EvaluationCounts == CountInv /\ [Next]_<<wfvars, evars>> => CountInv'
  BY StepOfWalk, CountInvStep, RestartIsFresh

\* As WalkPartitions, for each pair of a sweep.
THEOREM SweepPartitions == Spec => []WindowsPartition
<1>1. CountInv => WindowsPartition
  BY DEF CountInv, WalkInv
<1>2. Init => CountInv
  BY CountInvInit DEF Init
<1> QED BY <1>1, <1>2, EvaluationCounts, PTL DEF Spec

\* As TradesAreAccounted, for each pair of a sweep.
THEOREM SweepAccounts == Spec => []TradesAreCharged
<1>1. CountInv => TradesAreCharged
  BY DEF CountInv
<1>2. Init => CountInv
  BY CountInvInit DEF Init
<1> QED BY <1>1, <1>2, EvaluationCounts, PTL DEF Spec

\* As ReturnsAreEnough, for each pair of a sweep.
THEOREM SweepReturnsAreEnough ==
  ASSUME 2 * IsNum > IsDen
  PROVE  Spec => []EnoughOosReturns
<1>1. EnoughInv => EnoughOosReturns
  BY DEF EnoughInv
<1>2. EnoughInv /\ [Next]_<<wfvars, evars>> => EnoughInv'
  BY StepOfWalk, EnoughInvStep, RestartIsFresh DEF EnoughInv
<1>3. Init => EnoughInv
  BY EnoughInvInit DEF Init
<1> QED BY <1>1, <1>2, <1>3, PTL DEF Spec
-----------------------------------------------------------------------------
\* What a walk may measure.
Value   == Int \cup {NaN}
Metrics == [is_sharpe : Value, oos_sharpe : Value, max_drawdown : Value, trades : Nat,
            skipped : BOOLEAN]

\* The vectorized filters give a row what apply_funnel gives it: the mask makes
\* a skipped row's columns what _skipped_row writes.
LEMMA VectorizedIsScored ==
  ASSUME NEW m \in Metrics, NEW t
  PROVE  Vectorized(m, t) = Scored(m, t)
<1> DEFINE positive == Less(0, m.is_sharpe)
           dd    == Less(t.max_dd_floor, Times(m.max_drawdown, Top))
           least == Less(MinOosSharpe, m.oos_sharpe)
           most  == Less(Times(m.oos_sharpe, Top), t.max_oos_sharpe)
           ratio == AtMost(Times(m.oos_sharpe, RatioDen), Times(m.is_sharpe, RatioNum))
           many  == m.trades >= t.min_trades
           col   == [max_dd_floor |-> dd, min_oos_sharpe |-> least, max_oos_sharpe |-> most,
                     overfit_gap |-> positive /\ ratio, min_trades |-> many,
                     positive_is |-> t.positive_is => positive]
<1>1. ApplyFunnel(m, t) = col
  BY DEF ApplyFunnel
<1>2. Vectorized(m, t) =
        [metrics  |-> m,
         passes   |-> [filter \in DOMAIN col |-> col[filter] /\ ~m.skipped],
         survived |-> AllPass(col) /\ ~m.skipped]
  <2>1. (IF positive THEN ratio ELSE FALSE) = (positive /\ ratio)
    BY DEF Less, AtMost
  <2>2. (IF t.positive_is THEN positive ELSE TRUE) = (t.positive_is => positive)
    BY DEF Less
  <2> QED BY <2>1, <2>2 DEF Vectorized, Mask
<1>3. m.skipped \in BOOLEAN
  BY DEF Metrics
<1>4. DOMAIN col = {"max_dd_floor", "min_oos_sharpe", "max_oos_sharpe", "overfit_gap",
                    "min_trades", "positive_is"}
  OBVIOUS
<1>5. \A filter \in DOMAIN col : col[filter] \in BOOLEAN
  <2>1. /\ dd \in BOOLEAN /\ least \in BOOLEAN /\ most \in BOOLEAN
        /\ (positive /\ ratio) \in BOOLEAN /\ (t.positive_is => positive) \in BOOLEAN
    BY DEF Less
  <2>2. many \in BOOLEAN
    OBVIOUS
  <2>3. /\ col["max_dd_floor"] = dd /\ col["min_oos_sharpe"] = least
        /\ col["max_oos_sharpe"] = most /\ col["overfit_gap"] = (positive /\ ratio)
        /\ col["min_trades"] = many /\ col["positive_is"] = (t.positive_is => positive)
    <3> HIDE DEF dd, least, most, ratio, positive, many
    <3> QED OBVIOUS
  <2> HIDE DEF dd, least, most, ratio, positive, many, col
  <2> QED BY <1>4, <2>1, <2>2, <2>3
<1> HIDE DEF col
<1>6. CASE m.skipped
  <2>1. [filter \in DOMAIN col |-> col[filter] /\ ~m.skipped] = NoneOf(col)
    BY <1>6 DEF NoneOf
  <2>2. AllPass(NoneOf(col)) = FALSE
    BY <1>4 DEF AllPass, NoneOf
  <2> QED BY <1>1, <1>2, <1>6, <2>1, <2>2 DEF Scored
<1>7. CASE ~m.skipped
  <2>1. [filter \in DOMAIN col |-> col[filter] /\ ~m.skipped] = [filter \in DOMAIN col |-> col[filter]]
    BY <1>5, <1>7
  <2>2. [filter \in DOMAIN col |-> col[filter]] = col
    BY DEF col
  <2>3. (AllPass(col) /\ ~m.skipped) = AllPass(col)
    BY <1>7 DEF AllPass
  <2> QED BY <1>1, <1>2, <1>7, <2>1, <2>2, <2>3 DEF Scored
<1> QED BY <1>3, <1>6, <1>7

\* What the rows rest on: the metrics kept are measurements.
EvalInv == CountInv /\ measured \in Seq(Metrics) /\ HitEqualsMiss

LEMMA MeasurementsAreMetrics == CountInv => Measurements \subseteq Metrics
<1> SUFFICES ASSUME CountInv, NEW m \in Measurements PROVE m \in Metrics
  OBVIOUS
<1>1. CASE outcome = "short"
  <2>1. m = SkippedMetrics
    BY <1>1 DEF Measurements
  <2> QED BY <2>1 DEF SkippedMetrics, Metrics, Value
<1>2. CASE outcome # "short"
  <2>1. PICK r \in Measurable :
          m = [is_sharpe |-> r.is_sharpe, oos_sharpe |-> r.oos_sharpe,
               max_drawdown |-> r.max_drawdown, trades |-> oos_trades, skipped |-> FALSE]
    BY <1>2 DEF Measurements
  <2>2. r.is_sharpe \in Value /\ r.oos_sharpe \in Value /\ r.max_drawdown \in Value
    BY MeasurableAssumption DEF Value
  <2>3. oos_trades \in Nat
    BY DEF CountInv
  <2> QED BY <2>1, <2>2, <2>3 DEF Metrics
<1> QED BY <1>1, <1>2

LEMMA EvalInvStep == EvalInv /\ [Next]_<<wfvars, evars>> => EvalInv'
<1> SUFFICES ASSUME EvalInv, [Next]_<<wfvars, evars>> PROVE EvalInv'
  OBVIOUS
<1>1. CountInv'
  BY EvaluationCounts DEF EvalInv
<1>2. CASE Score
  <2>1. PICK m \in Measurements :
          /\ measured' = Append(measured, m)
          /\ rows' = Append(rows, Scored(m, ThresholdsFor(request)))
    BY <1>2 DEF Score
  <2>2. m \in Metrics /\ measured \in Seq(Metrics) /\ HitEqualsMiss
    BY MeasurementsAreMetrics DEF EvalInv
  <2>3. measured' \in Seq(Metrics) /\ request' = request
    BY <1>2, <2>1, <2>2 DEF Score
  <2> DEFINE scored(x) == Scored(x, ThresholdsFor(request))
  <2> HIDE DEF scored
  <2>4. rows = [k \in DOMAIN measured |-> scored(measured[k])]
    BY <2>2 DEF HitEqualsMiss, scored
  <2>5. Append(rows, scored(m)) = [k \in DOMAIN Append(measured, m) |-> scored(Append(measured, m)[k])]
    BY <2>2, <2>4
  <2>6. HitEqualsMiss'
    BY <2>1, <2>3, <2>5 DEF HitEqualsMiss, scored
  <2> QED BY <1>1, <2>3, <2>6 DEF EvalInv
<1>3. CASE Hit
  <2>1. rows' = [k \in DOMAIN measured |-> Vectorized(measured[k], ThresholdsFor(request'))]
        /\ measured' = measured
    BY <1>3 DEF Hit
  <2>2. \A k \in DOMAIN measured : measured[k] \in Metrics
    BY DEF EvalInv
  <2>3. \A k \in DOMAIN measured :
          Vectorized(measured[k], ThresholdsFor(request')) = Scored(measured[k], ThresholdsFor(request'))
    BY <2>2, VectorizedIsScored
  <2>4. HitEqualsMiss'
    BY <2>1, <2>3 DEF HitEqualsMiss
  <2> QED BY <1>1, <2>1, <2>4 DEF EvalInv
<1>4. CASE Measure \/ Report \/ Screen \/ UNCHANGED <<wfvars, evars>>
  <2>1. UNCHANGED <<request, measured, rows>>
    BY <1>4 DEF Measure, Report, Screen, evars
  <2> QED BY <1>1, <2>1 DEF EvalInv, HitEqualsMiss
<1> QED BY <1>2, <1>3, <1>4 DEF Next

\* A sweep served from the cache gives the rows that computing everything would
\* give, for all metrics, thresholds and slider positions (sweep_cache.py:112-121).
THEOREM CachedIsComputed == Spec => []HitEqualsMiss
<1>1. EvalInv => HitEqualsMiss
  BY DEF EvalInv
<1>2. Init => EvalInv
  BY CountInvInit DEF Init, EvalInv, HitEqualsMiss
<1> QED BY <1>1, <1>2, EvalInvStep, PTL DEF Spec
-----------------------------------------------------------------------------
LEMMA ProductGrows ==
  ASSUME NEW a \in Int, NEW b \in Int, NEW c \in Int, a <= b, c >= 0
  PROVE  a * c <= b * c
BY Z3

LEMMA QuotientGrows ==
  ASSUME NEW a \in Int, NEW b \in Int, NEW c \in Int, a <= b, c > 0
  PROVE  a \div c <= b \div c
<1> DEFINE p == a \div c
           q == b \div c
<1>1. p \in Int /\ q \in Int
  OBVIOUS
<1>2. c * p <= a /\ b < c * q + c
  BY Z3
<1> HIDE DEF p, q
<1>3. ~ (q + 1 <= p)
  <2>1. q + 1 <= p => c * (q + 1) <= c * p
    BY ONLY <1>1, c \in Int, c > 0, Z3
  <2>2. c * (q + 1) = c * q + c
    BY ONLY <1>1, c \in Int, Z3
  <2>3. c * p \in Int /\ c * q \in Int /\ c * (q + 1) \in Int
    BY ONLY <1>1, c \in Int, Z3
  <2> DEFINE cp == c * p
             cq == c * q
             cr == c * (q + 1)
  <2> HIDE DEF cp, cq, cr
  <2>4. cp <= a /\ b < cq + c /\ cr = cq + c /\ (q + 1 <= p => cr <= cp)
    BY <1>2, <2>1, <2>2 DEF cp, cq, cr
  <2>5. cp \in Int /\ cq \in Int /\ cr \in Int
    BY <2>3 DEF cp, cq, cr
  <2> QED BY ONLY <2>4, <2>5, a \in Int, b \in Int, c \in Int, a <= b
<1>4. p <= q
  BY ONLY <1>1, <1>3
<1> QED BY <1>4 DEF p, q

\* The thresholds move with the sliders: the further towards tolerance, the
\* lower the floor, the higher the ceiling, the fewer the trades.
LEMMA LerpIsInteger ==
  ASSUME NEW v \in Int, NEW x \in Int, NEW y \in Int
  PROVE  Lerp(v, x, y) \in Int
<1>1. Top \in Int
  BY MappingAssumption
<1>2. x * Top \in Int /\ y - x \in Int
  BY ONLY <1>1, x \in Int, y \in Int, Z3
<1>3. v * (y - x) \in Int
  BY ONLY <1>2, v \in Int, Z3
<1> QED BY <1>2, <1>3 DEF Lerp

LEMMA LerpGrows ==
  ASSUME NEW v \in Int, NEW w \in Int, v <= w, NEW x \in Int, NEW y \in Int, x <= y
  PROVE  Lerp(v, x, y) <= Lerp(w, x, y)
<1>1. x * Top \in Int
  BY MappingAssumption, Z3
<1>2. v * (y - x) <= w * (y - x)
  BY ProductGrows
<1>3. v * (y - x) \in Int /\ w * (y - x) \in Int
  BY ONLY v \in Int, w \in Int, x \in Int, y \in Int, Z3
<1> QED BY <1>1, <1>2, <1>3 DEF Lerp

LEMMA LerpFalls ==
  ASSUME NEW v \in Int, NEW w \in Int, v <= w, NEW x \in Int, NEW y \in Int, y <= x
  PROVE  Lerp(w, x, y) <= Lerp(v, x, y)
<1>1. x * Top \in Int
  BY MappingAssumption, Z3
<1>2. v * (x - y) <= w * (x - y)
  BY ProductGrows
<1>3. v * (y - x) = - (v * (x - y)) /\ w * (y - x) = - (w * (x - y))
  BY ONLY v \in Int, w \in Int, x \in Int, y \in Int, Z3
<1>4. v * (x - y) \in Int /\ w * (x - y) \in Int
  BY ONLY v \in Int, w \in Int, x \in Int, y \in Int, Z3
<1> QED BY <1>1, <1>2, <1>3, <1>4 DEF Lerp

LEMMA HalfUpGrows ==
  ASSUME NEW a \in Int, NEW b \in Int, a <= b
  PROVE  HalfUp(a, Top) \in Int /\ HalfUp(a, Top) <= HalfUp(b, Top)
<1>1. Top \in Int /\ Top > 0
  BY MappingAssumption
<1>2. 2 * Top \in Int /\ 2 * Top > 0 /\ 2 * a + Top \in Int /\ 2 * b + Top \in Int
      /\ 2 * a + Top <= 2 * b + Top
  BY <1>1
<1>3. (2 * a + Top) \div (2 * Top) <= (2 * b + Top) \div (2 * Top)
  BY <1>2, QuotientGrows
<1>4. (2 * a + Top) \div (2 * Top) \in Int
  BY ONLY <1>2
<1> QED BY <1>3, <1>4 DEF HalfUp

LEMMA ThresholdsLoosen ==
  ASSUME NEW q \in Requests, NEW r \in Requests, Looser(q, r)
  PROVE  LET t == ThresholdsFor(q)
             u == ThresholdsFor(r)
         IN  /\ {t.max_dd_floor, t.max_oos_sharpe, t.min_trades} \subseteq Int
             /\ {u.max_dd_floor, u.max_oos_sharpe, u.min_trades} \subseteq Int
             /\ t.max_dd_floor <= u.max_dd_floor /\ u.max_oos_sharpe <= t.max_oos_sharpe
             /\ t.min_trades <= u.min_trades
             /\ t.positive_is => u.positive_is
<1>1. /\ q.drawdown_tolerance \in Int /\ r.drawdown_tolerance \in Int
      /\ q.risk_tolerance \in Int /\ r.risk_tolerance \in Int
  <2>1. Settings \subseteq Int
    BY MappingAssumption
  <2> QED BY <2>1 DEF Requests
<1>2. /\ r.drawdown_tolerance <= q.drawdown_tolerance
      /\ r.risk_tolerance <= q.risk_tolerance
  BY <1>1 DEF Looser
<1>3. /\ FloorTight \in Int /\ FloorDeep \in Int /\ CeilingLow \in Int /\ CeilingHigh \in Int
      /\ TradesMany \in Int /\ TradesFew \in Int
      /\ FloorDeep <= FloorTight /\ CeilingLow <= CeilingHigh /\ TradesFew <= TradesMany
  BY MappingAssumption
<1>4. /\ Lerp(q.drawdown_tolerance, FloorTight, FloorDeep)
           <= Lerp(r.drawdown_tolerance, FloorTight, FloorDeep)
      /\ Lerp(q.drawdown_tolerance, FloorTight, FloorDeep) \in Int
      /\ Lerp(r.drawdown_tolerance, FloorTight, FloorDeep) \in Int
  BY ONLY <1>1, <1>2, <1>3, LerpFalls, LerpIsInteger
<1>5. /\ Lerp(r.risk_tolerance, CeilingLow, CeilingHigh)
           <= Lerp(q.risk_tolerance, CeilingLow, CeilingHigh)
      /\ Lerp(q.risk_tolerance, CeilingLow, CeilingHigh) \in Int
      /\ Lerp(r.risk_tolerance, CeilingLow, CeilingHigh) \in Int
  BY ONLY <1>1, <1>2, <1>3, LerpGrows, LerpIsInteger
<1>6. /\ Lerp(q.risk_tolerance, TradesMany, TradesFew)
           <= Lerp(r.risk_tolerance, TradesMany, TradesFew)
      /\ Lerp(q.risk_tolerance, TradesMany, TradesFew) \in Int
      /\ Lerp(r.risk_tolerance, TradesMany, TradesFew) \in Int
  BY ONLY <1>1, <1>2, <1>3, LerpFalls, LerpIsInteger
<1>7. /\ HalfUp(Lerp(q.risk_tolerance, TradesMany, TradesFew), Top)
           <= HalfUp(Lerp(r.risk_tolerance, TradesMany, TradesFew), Top)
      /\ HalfUp(Lerp(q.risk_tolerance, TradesMany, TradesFew), Top) \in Int
      /\ HalfUp(Lerp(r.risk_tolerance, TradesMany, TradesFew), Top) \in Int
  BY <1>6, HalfUpGrows
<1> QED BY <1>4, <1>5, <1>7 DEF ThresholdsFor, Looser

\* Looser thresholds pass whatever stricter ones pass.
LEMMA LooserPasses ==
  ASSUME NEW m \in Metrics, NEW t, NEW u,
         {t.max_dd_floor, t.max_oos_sharpe, t.min_trades} \subseteq Int,
         {u.max_dd_floor, u.max_oos_sharpe, u.min_trades} \subseteq Int,
         t.max_dd_floor <= u.max_dd_floor, u.max_oos_sharpe <= t.max_oos_sharpe,
         t.min_trades <= u.min_trades, t.positive_is => u.positive_is,
         AllPass(ApplyFunnel(m, u))
  PROVE  AllPass(ApplyFunnel(m, t))
<1>1. /\ Less(u.max_dd_floor, Times(m.max_drawdown, Top))
      /\ Less(MinOosSharpe, m.oos_sharpe)
      /\ Less(Times(m.oos_sharpe, Top), u.max_oos_sharpe)
      /\ Less(0, m.is_sharpe)
      /\ AtMost(Times(m.oos_sharpe, RatioDen), Times(m.is_sharpe, RatioNum))
      /\ m.trades >= u.min_trades
  BY DEF AllPass, ApplyFunnel
<1>2. Top \in Int /\ m.trades \in Int /\ m.max_drawdown \in Value /\ m.oos_sharpe \in Value
  BY MappingAssumption DEF Metrics
<1>3. Times(m.max_drawdown, Top) \in Value /\ Times(m.oos_sharpe, Top) \in Value
  <2>1. ASSUME NEW x \in Int PROVE x * Top \in Int
    BY <1>2, Z3
  <2> QED BY <1>2, <2>1 DEF Times, Value
<1>4. Less(t.max_dd_floor, Times(m.max_drawdown, Top))
  <2> DEFINE x == Times(m.max_drawdown, Top)
  <2> HIDE DEF x
  <2>1. x \in Value /\ Less(u.max_dd_floor, x)
    BY <1>1, <1>3 DEF x
  <2>2. Less(t.max_dd_floor, x)
    BY <2>1, MappingAssumption DEF Less, Value
  <2> QED BY <2>2 DEF x
<1>5. Less(Times(m.oos_sharpe, Top), t.max_oos_sharpe)
  <2> DEFINE x == Times(m.oos_sharpe, Top)
  <2> HIDE DEF x
  <2>1. x \in Value /\ Less(x, u.max_oos_sharpe)
    BY <1>1, <1>3 DEF x
  <2>2. Less(x, t.max_oos_sharpe)
    BY <2>1, MappingAssumption DEF Less, Value
  <2> QED BY <2>2 DEF x
<1>6. m.trades >= t.min_trades
  BY <1>1, <1>2
<1> QED BY <1>1, <1>4, <1>5, <1>6 DEF AllPass, ApplyFunnel

LEMMA SurvivorsRemain ==
  ASSUME EvalInv, request \in Requests, Hit, Looser(request', request)
  PROVE  Survivors(rows) \subseteq Survivors(rows')
<1> DEFINE T == ThresholdsFor(request)
           U == ThresholdsFor(request')
<1>1. rows = [k \in DOMAIN measured |-> Scored(measured[k], T)]
  BY DEF EvalInv, HitEqualsMiss
<1>2. /\ rows' = [k \in DOMAIN measured |-> Vectorized(measured[k], U)]
      /\ request' \in Requests
  BY DEF Hit
<1>3. \A k \in DOMAIN measured : measured[k] \in Metrics
  BY DEF EvalInv
<1> SUFFICES ASSUME NEW k \in Survivors(rows) PROVE k \in Survivors(rows')
  OBVIOUS
<1>4. /\ k \in DOMAIN measured /\ measured[k] \in Metrics
      /\ ~ rows[k].metrics.skipped /\ rows[k].survived
  BY <1>1, <1>3 DEF Survivors, Ran
<1> DEFINE m == measured[k]
<1>5. rows[k] = Scored(m, T) /\ rows'[k] = Scored(m, U)
  BY <1>1, <1>2, <1>4, VectorizedIsScored
<1>6. ~m.skipped /\ AllPass(ApplyFunnel(m, T))
  BY <1>4, <1>5 DEF Scored
<1>7. AllPass(ApplyFunnel(m, U))
  <2> HIDE DEF m, T, U
  <2>1. m \in Metrics
    BY <1>4 DEF m
  <2>2. /\ {T.max_dd_floor, T.max_oos_sharpe, T.min_trades} \subseteq Int
        /\ {U.max_dd_floor, U.max_oos_sharpe, U.min_trades} \subseteq Int
        /\ U.max_dd_floor <= T.max_dd_floor /\ T.max_oos_sharpe <= U.max_oos_sharpe
        /\ U.min_trades <= T.min_trades
        /\ U.positive_is => T.positive_is
    BY <1>2, ThresholdsLoosen DEF T, U
  <2> QED BY <1>6, <2>1, <2>2, LooserPasses
<1>8. ~ rows'[k].metrics.skipped /\ rows'[k].survived
  BY <1>5, <1>6, <1>7 DEF Scored
<1> QED BY <1>2, <1>4, <1>8 DEF Survivors, Ran

\* Moving a slider towards tolerance, or lifting the in-sample condition, never
\* costs a survivor, whatever the ranges the sliders map to and however the
\* number of trades rounds (slider_mapping.py, sweep_cache.py:112-121).
THEOREM TolerancePays == Spec => LooserKeepsAll
<1>1. Init => EvalInv /\ request \in Requests
  BY CountInvInit DEF Init, EvalInv, HitEqualsMiss
<1>2. request \in Requests /\ [Next]_<<wfvars, evars>> => (request \in Requests)'
  BY DEF Next, Measure, Score, Report, Screen, Hit, evars
<1>3. EvalInv /\ request \in Requests /\ [Next]_<<wfvars, evars>>
        => [Hit /\ Looser(request', request) => Survivors(rows) \subseteq Survivors(rows')]_<<wfvars, evars>>
  BY SurvivorsRemain
<1> QED BY <1>1, <1>2, <1>3, EvalInvStep, PTL DEF Spec, LooserKeepsAll
-----------------------------------------------------------------------------
\* The screener's copy of the filters is the sweep's, on a row that was run.
LEMMA ScreenIsFunnel ==
  ASSUME NEW m, NEW t
  PROVE  PassesSixFilters(m, t) <=> AllPass(ApplyFunnel(m, t))
<1>1. ASSUME PassesSixFilters(m, t) PROVE AllPass(ApplyFunnel(m, t))
  <2> DEFINE dd    == Less(t.max_dd_floor, Times(m.max_drawdown, Top))
             least == Less(MinOosSharpe, m.oos_sharpe)
             most  == Less(Times(m.oos_sharpe, Top), t.max_oos_sharpe)
             ratio == /\ Less(0, m.is_sharpe)
                      /\ AtMost(Times(m.oos_sharpe, RatioDen), Times(m.is_sharpe, RatioNum))
             many  == m.trades >= t.min_trades
             posit == t.positive_is => Less(0, m.is_sharpe)
  <2>1. dd /\ least /\ most /\ ratio /\ many /\ posit
    BY <1>1 DEF PassesSixFilters, AboveFloor
  <2>2. /\ dd = TRUE /\ least = TRUE /\ most = TRUE /\ ratio = TRUE /\ many = TRUE /\ posit = TRUE
    BY <2>1 DEF Less
  <2>3. ApplyFunnel(m, t) =
          [max_dd_floor |-> dd, min_oos_sharpe |-> least, max_oos_sharpe |-> most,
           overfit_gap |-> ratio, min_trades |-> many, positive_is |-> posit]
    BY DEF ApplyFunnel
  <2> HIDE DEF dd, least, most, ratio, many, posit
  <2>4. ApplyFunnel(m, t) =
          [max_dd_floor |-> TRUE, min_oos_sharpe |-> TRUE, max_oos_sharpe |-> TRUE,
           overfit_gap |-> TRUE, min_trades |-> TRUE, positive_is |-> TRUE]
    BY <2>2, <2>3
  <2> QED BY <2>4 DEF AllPass
<1>2. ASSUME AllPass(ApplyFunnel(m, t)) PROVE PassesSixFilters(m, t)
  <2>1. /\ Less(t.max_dd_floor, Times(m.max_drawdown, Top))
        /\ Less(MinOosSharpe, m.oos_sharpe)
        /\ Less(Times(m.oos_sharpe, Top), t.max_oos_sharpe)
        /\ Less(0, m.is_sharpe)
        /\ AtMost(Times(m.oos_sharpe, RatioDen), Times(m.is_sharpe, RatioNum))
        /\ m.trades >= t.min_trades
        /\ t.positive_is => Less(0, m.is_sharpe)
    BY <1>2 DEF AllPass, ApplyFunnel
  <2> QED BY <2>1 DEF PassesSixFilters, AboveFloor
<1> QED BY <1>1, <1>2
-----------------------------------------------------------------------------
\* Part c of the finite set S has those of class c, which are n[c], and Counted
\* pairs each class with the numbers up to that.
Partitioned(S, class, classes, part, n, Counted) ==
  /\ IsFiniteSet(S)
  /\ \A k \in S : class[k] \in classes
  /\ \A c \in classes : /\ n[c] = Cardinality(part[c])
                       /\ \A k : k \in part[c] <=> k \in S /\ class[k] = c
  /\ \A x : x \in Counted <=> \E c \in classes : \E j \in 1..n[c] : x = <<c, j>>

\* The members of a finite set are as many as those of all its parts.
LEMMA PartsAddUp ==
  ASSUME NEW S, NEW class, NEW classes, NEW part, NEW n, NEW Counted,
         Partitioned(S, class, classes, part, n, Counted)
  PROVE  Cardinality(Counted) = Cardinality(S)
<1> USE DEF Partitioned
<1> DEFINE nth  == [c \in classes |-> CHOOSE f : f \in Bijection(1..n[c], part[c])]
           pick == [x \in Counted |-> nth[x[1]][x[2]]]
<1>1. ASSUME NEW c \in classes PROVE nth[c] \in Bijection(1..n[c], part[c])
  <2>1. IsFiniteSet(part[c])
    BY FS_Subset
  <2>2. ExistsBijection(1..n[c], part[c])
    BY <2>1, FS_CardinalityType
  <2>3. \E f : f \in Bijection(1..n[c], part[c])
    BY <2>2 DEF ExistsBijection
  <2> QED BY <2>3
<1>2. ASSUME NEW c \in classes
      PROVE  /\ \A j \in 1..n[c] : nth[c][j] \in S /\ class[nth[c][j]] = c
             /\ \A j, l \in 1..n[c] : nth[c][j] = nth[c][l] => j = l
             /\ \A k \in S : class[k] = c => \E j \in 1..n[c] : nth[c][j] = k
  <2> DEFINE f == nth[c]
             M == part[c]
  <2>1. f \in Bijection(1..n[c], M) /\ \A k : k \in M <=> k \in S /\ class[k] = c
    BY <1>1
  <2> HIDE DEF nth, f, M
  <2>2. f \in [1..n[c] -> M] /\ \A j, l \in 1..n[c] : f[j] = f[l] => j = l
    BY <2>1 DEF Bijection, Injection, IsInjective
  <2>3. \A k \in M : \E j \in 1..n[c] : f[j] = k
    BY <2>1 DEF Bijection, Surjection
  <2>4. /\ \A j \in 1..n[c] : f[j] \in S /\ class[f[j]] = c
        /\ \A k \in S : class[k] = c => \E j \in 1..n[c] : f[j] = k
    BY <2>1, <2>2, <2>3
  <2> QED BY <2>2, <2>4 DEF f
<1> HIDE DEF nth
<1>4. ASSUME NEW x \in Counted
      PROVE  /\ x[1] \in classes /\ x[2] \in 1..n[x[1]] /\ x = <<x[1], x[2]>>
             /\ pick[x] = nth[x[1]][x[2]]
  OBVIOUS
<1>5. pick \in [Counted -> S]
  BY <1>2, <1>4
<1>6. ASSUME NEW x \in Counted, NEW y \in Counted, pick[x] = pick[y] PROVE x = y
  <2>1. x[1] = y[1]
    BY <1>2, <1>4, <1>6
  <2>2. x[2] = y[2]
    BY <1>2, <1>4, <1>6, <2>1
  <2> QED BY <1>4, <2>1, <2>2
<1>7. ASSUME NEW k \in S PROVE \E x \in Counted : pick[x] = k
  <2>1. PICK j \in 1..n[class[k]] : nth[class[k]][j] = k
    BY <1>2
  <2>2. <<class[k], j>> \in Counted
    BY <2>1
  <2>3. pick[<<class[k], j>>] = k
    BY <2>1, <2>2
  <2> QED BY <2>2, <2>3
<1> HIDE DEF pick
<1>8. pick \in Bijection(Counted, S)
  BY <1>5, <1>6, <1>7 DEF Bijection, Injection, Surjection, IsInjective
<1>9. ExistsBijection(S, Counted)
  BY <1>8, Fun_ExistsBijSymmetric DEF ExistsBijection
<1> QED BY <1>9, FS_Bijection

\* Of the rows that a run or the cache produced, the report counts each once.
LEMMA ReportAddsUp ==
  ASSUME EvalInv
  PROVE  LET full == Attrition(rows)
         IN  /\ full.n_skipped + Total(full.by_category, "n_total") = full.n_total_backtests
             /\ Total(full.by_category, "n_survived") = full.n_survived
             /\ full.n_survived = Cardinality(Survivors(rows))
             /\ full.n_survived <= full.n_clears_min_oos_sharpe
<1> DEFINE full    == Attrition(rows)
           names   == {Category[k] : k \in Ran(rows)}
           skipped == {k \in DOMAIN rows : rows[k].metrics.skipped}
           clears  == {k \in Ran(rows) : rows[k].passes.min_oos_sharpe}
<1>1. /\ measured \in Seq(Metrics)
      /\ rows = [k \in DOMAIN measured |-> Scored(measured[k], ThresholdsFor(request))]
  BY DEF EvalInv, HitEqualsMiss
<1>2. DOMAIN rows = 1..Len(rows) /\ Len(rows) \in Nat
  BY <1>1
<1>3. IsFiniteSet(DOMAIN rows) /\ Cardinality(DOMAIN rows) = Len(rows)
  <2> DEFINE len == Len(rows)
  <2>1. len \in Nat /\ DOMAIN rows = 1..len
    BY <1>2
  <2> HIDE DEF len
  <2>2. IsFiniteSet(1..len) /\ Cardinality(1..len) = IF 1 > len THEN 0 ELSE len - 1 + 1
    BY <2>1, FS_Interval
  <2>3. Cardinality(DOMAIN rows) = len
    BY <2>1, <2>2
  <2> QED BY <2>1, <2>2, <2>3 DEF len
<1>4. /\ IsFiniteSet(skipped) /\ IsFiniteSet(Ran(rows)) /\ IsFiniteSet(Survivors(rows))
      /\ IsFiniteSet(clears)
  BY <1>3, FS_Subset DEF Ran, Survivors
<1>5. Cardinality(skipped) + Cardinality(Ran(rows)) = Len(rows)
  <2>1. skipped \cup Ran(rows) = DOMAIN rows /\ skipped \cap Ran(rows) = {}
    BY DEF Ran
  <2>2. Cardinality(DOMAIN rows) = Cardinality(skipped) + Cardinality(Ran(rows)) - 0
    BY <1>4, <2>1, FS_Union, FS_EmptySet
  <2> QED BY <1>3, <1>4, <2>2, FS_CardinalityType
<1>6. /\ DOMAIN full.by_category = names
      /\ \A name \in names :
           /\ full.by_category[name].n_total = Cardinality({k \in Ran(rows) : Category[k] = name})
           /\ full.by_category[name].n_survived
                = Cardinality({k \in Survivors(rows) : Category[k] = name})
  <2>1. ASSUME NEW name
        PROVE  {k \in Group(rows, name) : rows[k].survived} = {k \in Survivors(rows) : Category[k] = name}
    BY DEF Group, Survivors
  <2> QED BY <2>1 DEF Attrition, Group
<1>7. /\ full.n_total_backtests = Len(rows) /\ full.n_skipped = Cardinality(skipped)
      /\ full.n_survived = Cardinality(Survivors(rows))
      /\ full.n_clears_min_oos_sharpe = Cardinality(clears)
  BY DEF Attrition
<1> HIDE DEF full, skipped, clears
<1>8. Total(full.by_category, "n_total") = Cardinality(Ran(rows))
  <2> DEFINE n == [name \in names |-> full.by_category[name].n_total]
  <2>1. \A k \in Ran(rows) : Category[k] \in names
    OBVIOUS
  <2> HIDE DEF names
  <2>2. \A name \in names : n[name] = Cardinality({k \in Ran(rows) : Category[k] = name})
    BY <1>6
  <2>3. Total(full.by_category, "n_total") = Cardinality(UNION {{name} \X (1..n[name]) : name \in names})
    BY <1>6 DEF Total
  <2> DEFINE S == Ran(rows)
             part == [name \in names |-> {k \in S : Category[k] = name}]
             Counted == UNION {{name} \X (1..n[name]) : name \in names}
  <2>4. IsFiniteSet(S) /\ \A k \in S : Category[k] \in names
    BY <1>4, <2>1
  <2>5. \A name \in names : /\ n[name] = Cardinality(part[name])
                            /\ \A k : k \in part[name] <=> k \in S /\ Category[k] = name
    BY <2>2
  <2> HIDE DEF n, S, part
  <2>6. \A x : x \in Counted <=> \E name \in names : \E j \in 1..n[name] : x = <<name, j>>
    OBVIOUS
  <2> HIDE DEF Counted
  <2>7. Partitioned(S, Category, names, part, n, Counted)
    BY ONLY <2>4, <2>5, <2>6 DEF Partitioned
  <2>8. Cardinality(Counted) = Cardinality(S)
    BY ONLY <2>7, PartsAddUp
  <2> QED BY <2>3, <2>8 DEF S, Counted
<1>9. Total(full.by_category, "n_survived") = Cardinality(Survivors(rows))
  <2> DEFINE n == [name \in names |-> full.by_category[name].n_survived]
  <2>1. \A k \in Survivors(rows) : Category[k] \in names
    BY DEF Survivors
  <2> HIDE DEF names
  <2>2. \A name \in names : n[name] = Cardinality({k \in Survivors(rows) : Category[k] = name})
    BY <1>6
  <2>3. Total(full.by_category, "n_survived")
          = Cardinality(UNION {{name} \X (1..n[name]) : name \in names})
    BY <1>6 DEF Total
  <2> DEFINE S == Survivors(rows)
             part == [name \in names |-> {k \in S : Category[k] = name}]
             Counted == UNION {{name} \X (1..n[name]) : name \in names}
  <2>4. IsFiniteSet(S) /\ \A k \in S : Category[k] \in names
    BY <1>4, <2>1
  <2>5. \A name \in names : /\ n[name] = Cardinality(part[name])
                            /\ \A k : k \in part[name] <=> k \in S /\ Category[k] = name
    BY <2>2
  <2> HIDE DEF n, S, part
  <2>6. \A x : x \in Counted <=> \E name \in names : \E j \in 1..n[name] : x = <<name, j>>
    OBVIOUS
  <2> HIDE DEF Counted
  <2>7. Partitioned(S, Category, names, part, n, Counted)
    BY ONLY <2>4, <2>5, <2>6 DEF Partitioned
  <2>8. Cardinality(Counted) = Cardinality(S)
    BY ONLY <2>7, PartsAddUp
  <2> QED BY <2>3, <2>8 DEF S, Counted
<1>10. Cardinality(Survivors(rows)) <= Cardinality(clears)
  <2>1. ASSUME NEW k \in Survivors(rows) PROVE rows[k].passes.min_oos_sharpe
    <3>1. k \in DOMAIN measured /\ ~rows[k].metrics.skipped /\ rows[k].survived
      BY <1>1 DEF Survivors, Ran
    <3> DEFINE m == measured[k]
               t == ThresholdsFor(request)
    <3>2. rows[k] = Scored(m, t)
      BY <1>1, <3>1
    <3> HIDE DEF m, t
    <3>3. rows[k].passes = ApplyFunnel(m, t) /\ AllPass(ApplyFunnel(m, t))
      BY <3>1, <3>2 DEF Scored
    <3> QED BY <3>3 DEF AllPass, ApplyFunnel
  <2>2. Survivors(rows) \subseteq clears
    BY <2>1 DEF Survivors, clears
  <2> QED BY <1>4, <2>2, FS_Subset
<1> QED BY <1>5, <1>7, <1>8, <1>9, <1>10 DEF full

\* The report is that of the rows, and the shortlist what the sweep called survivors.
ReportOfRows ==
  /\ phase \in {"reported", "screened"} => report = Attrition(rows)
  /\ phase = "screened" => shortlist = Survivors(rows)

\* The screener keeps exactly the rows that the sweep called survivors, whether
\* apply_funnel or its vectorized copy judged them, and the report counts every
\* row once, for any number of pairs and any categories (funnel.py:57-98,
\* screener.py:30-69, attrition.py).
THEOREM ScreenAgreesWithSweep == Spec => []ScreenAgrees
<1>1. Init => EvalInv /\ ReportOfRows
  BY CountInvInit DEF Init, EvalInv, HitEqualsMiss, ReportOfRows
<1>2. ASSUME EvalInv, ReportOfRows, [Next]_<<wfvars, evars>>
      PROVE  ReportOfRows'
  <2>1. CASE Screen
    <3>1. \A k \in Ran(rows) :
            PassesSixFilters(rows[k].metrics, ThresholdsFor(request)) <=> rows[k].survived
      <4> SUFFICES ASSUME NEW k \in Ran(rows)
                   PROVE  PassesSixFilters(rows[k].metrics, ThresholdsFor(request)) <=> rows[k].survived
        OBVIOUS
      <4>1. k \in DOMAIN measured /\ rows[k] = Scored(measured[k], ThresholdsFor(request))
            /\ ~rows[k].metrics.skipped
        BY <1>2 DEF Ran, EvalInv, HitEqualsMiss
      <4>2. rows[k].metrics = measured[k]
            /\ rows[k].survived = AllPass(ApplyFunnel(measured[k], ThresholdsFor(request)))
        BY <4>1 DEF Scored
      <4> QED BY <4>2, ScreenIsFunnel
    <3>2. shortlist' = {k \in Ran(rows) : rows[k].survived} /\ UNCHANGED <<rows, report>>
          /\ phase = "reported" /\ report = Attrition(rows)
      BY <1>2, <2>1, <3>1 DEF Screen, ReportOfRows
    <3>3. shortlist' = Survivors(rows') /\ report' = Attrition(rows')
      BY <3>2 DEF Survivors
    <3> QED BY <3>3 DEF ReportOfRows
  <2>2. CASE Report
    <3>1. phase' = "reported" /\ report' = Attrition(rows) /\ rows' = rows
      BY <2>2 DEF Report
    <3>2. report' = Attrition(rows')
      BY <3>1
    <3> QED BY <3>1, <3>2 DEF ReportOfRows
  <2>3. CASE Score \/ Hit
    <3>1. phase' \notin {"reported", "screened"}
      BY <2>3 DEF Score, Hit
    <3> QED BY <3>1 DEF ReportOfRows
  <2>4. CASE Measure \/ UNCHANGED <<wfvars, evars>>
    <3>1. UNCHANGED <<phase, rows, report, shortlist>>
      BY <2>4 DEF Measure, evars
    <3>2. Attrition(rows)' = Attrition(rows) /\ Survivors(rows)' = Survivors(rows)
      BY <3>1
    <3> QED BY <1>2, <3>1, <3>2 DEF ReportOfRows
  <2> QED BY <1>2, <2>1, <2>2, <2>3, <2>4 DEF Next
<1>3. EvalInv /\ ReportOfRows => ScreenAgrees
  <2> SUFFICES ASSUME EvalInv, ReportOfRows, phase = "screened" PROVE ScreenAgrees
    BY DEF ScreenAgrees
  <2>1. report = Attrition(rows) /\ shortlist = Survivors(rows)
    BY DEF ReportOfRows
  <2> QED BY <2>1, ReportAddsUp DEF ScreenAgrees
<1> QED BY <1>1, <1>2, <1>3, EvalInvStep, PTL DEF Spec
=============================================================================
