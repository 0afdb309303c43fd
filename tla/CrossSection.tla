---------------------------- MODULE CrossSection ----------------------------
(***************************************************************************)
(* The cross-sectional momentum check                                      *)
(* (engine/src/funnel/momentum/cross_sectional.py): every RebalanceEvery   *)
(* rows of the panel of closes the assets with a full lookback are ranked, *)
(* the first third bought and the last third sold.  One action per row.    *)
(* Returns are left out: which assets rank how is free, who is ranked,     *)
(* what they weigh, when they earn and what their turnover costs is not.   *)
(***************************************************************************)
EXTENDS Integers, FiniteSets

CONSTANTS
  Assets,
  Panels,          \* first and last rows with a close, [Assets -> [first, last]]
  Lookbacks,       \* [trailing, skip], LOOKBACKS
  RebalanceEvery,  \* REBALANCE_EVERY_DAYS
  Whole,           \* the weight of a leg
  Bps              \* cost per unit of turnover, by asset

ASSUME PanelAssumption ==
  /\ IsFiniteSet(Assets)
  /\ Panels \subseteq [Assets -> {p \in [first : Nat, last : Nat] : p.first <= p.last}]
  /\ Lookbacks \subseteq [trailing : Nat \ {0}, skip : Nat]
  /\ RebalanceEvery \in Nat \ {0} /\ Whole \in Nat /\ Bps \in [Assets -> Nat]

VARIABLES
  panel, lookback,
  row,           \* the last row done
  weights,       \* weights_df at the row: those of the last rebalance
  applied,       \* applied_weights at the row
  cost,          \* cost_series at the row, by asset
  ranking        \* history: rows the weights and the applied weights were decided on

crossVars == <<panel, lookback, row, weights, applied, cost, ranking>>

NoWeights == [a \in Assets |-> 0]
NeverYet  == [weights |-> -1, applied |-> -1]

\* the rows of the panel: to the last close of any asset
NRows == CHOOSE n \in {panel[a].last + 1 : a \in Assets} :
           \A a \in Assets : panel[a].last < n

HistoryNeeded == lookback.trailing + lookback.skip

\* _rebalance_dates
Rebalances == {i \in HistoryNeeded .. NRows - 1 : (i - HistoryNeeded) % RebalanceEvery = 0}

\* ffill(): the row of the close that the panel has for an asset on row i
NoClose == -1
LastClose(a, i) == CASE i < panel[a].first -> NoClose
                     [] i > panel[a].last  -> panel[a].last
                     [] OTHER              -> i

\* _trailing_return: the rows of its two prices
EndRow(i)   == i - lookback.skip
StartRow(i) == EndRow(i) - lookback.trailing

Eligible(i) == {a \in Assets : NoClose \notin {LastClose(a, StartRow(i)), LastClose(a, EndRow(i))}}

\* sort_values: the orders of the members of a set
Orders == [S \in SUBSET Assets |->
  {f \in [1..Cardinality(S) -> S] : \A j, k \in 1..Cardinality(S) : f[j] = f[k] => j = k}]

FromThird(ranked, n)    == {ranked[k] : k \in n - n \div 3 .. n}        \* fault
Longs(ranked, n)  == {ranked[k] : k \in 1 .. n \div 3}
\* a slice from [-0:] is everything
Shorts(ranked, n) == {ranked[k] : k \in (IF n \div 3 = 0 THEN 1 ELSE n - n \div 3 + 1) .. n}

\* _target_weights: flat with fewer than three to rank
Target(ranked, n) == [a \in Assets |->
  CASE n >= 3 /\ a \in Longs(ranked, n)  -> Whole \div (n \div 3)
    [] n >= 3 /\ a \in Shorts(ranked, n) -> -(Whole \div (n \div 3))
    [] OTHER                             -> 0]

Distance(x, y) == IF x < y THEN y - x ELSE x - y

\* what moving from one weight vector to another costs, asset by asset
TurnoverCost(old, new) == [a \in Assets |-> Distance(old[a], new[a]) * Bps[a]]
-----------------------------------------------------------------------------
CrossInit ==
  /\ panel \in Panels /\ lookback \in Lookbacks
  /\ row = -1
  /\ weights = NoWeights /\ applied = NoWeights /\ cost = NoWeights
  /\ ranking = NeverYet

SameRow(w) == weights'                                                   \* fault
\* shift(1): weights decided at a close earn from the next row on
NextRow(w) == w

Held(i) ==
  /\ row' = i
  /\ applied' = NextRow(weights)
  /\ UNCHANGED <<panel, lookback>>

Rebalance ==
  LET i == row + 1
      n == Cardinality(Eligible(i))
  IN /\ i \in Rebalances
     /\ \E ranked \in Orders[Eligible(i)] : weights' = Target(ranked, n)
     /\ Held(i)
     /\ cost' = TurnoverCost(weights, weights')
     /\ ranking' = [weights |-> i, applied |-> ranking.weights]

Carry ==
  /\ row + 1 < NRows /\ row + 1 \notin Rebalances
  /\ weights' = weights /\ cost' = NoWeights
  /\ Held(row + 1)
  /\ ranking' = [ranking EXCEPT !.applied = ranking.weights]

CrossNext == Rebalance \/ Carry
CrossSpec == CrossInit /\ [][CrossNext]_crossVars
-----------------------------------------------------------------------------
\* The portfolio takes no side: it holds as many assets long as short, all with
\* the same weight but for the sign, whatever the number of assets ranked.
DollarNeutral ==
  /\ Cardinality({a \in Assets : weights[a] > 0}) = Cardinality({a \in Assets : weights[a] < 0})
  /\ \A a, b \in Assets : weights[a] > 0 /\ weights[b] < 0 => weights[a] = -weights[b]

\* The return an asset was ranked by on row i is that between two closes of its
\* own, the earlier one first, neither after the skipped month has begun.  Both are
\* its last one if it stopped trading before.
OwnReturn(a, i) ==
  LET from == LastClose(a, StartRow(i))
      to   == LastClose(a, EndRow(i))
  IN panel[a].first <= from /\ from <= to /\ to <= panel[a].last /\ to <= EndRow(i)

\* What earns on a row was ranked on an earlier one, by a return between two
\* closes that the asset had by then; when what earns changes, the row before
\* paid for the change; and nothing is earned or paid on the rows the returned
\* series leaves out.
EarnedAndPaid ==
  /\ [](\A a \in Assets : applied[a] # 0 =>
          /\ ranking.applied \in 0 .. row - 1
          /\ OwnReturn(a, ranking.applied))
  /\ [][applied' # applied => cost = TurnoverCost(applied, applied')]_crossVars
  /\ [](row < HistoryNeeded => applied = NoWeights /\ cost = NoWeights)
=============================================================================
