----------------------------- MODULE Evaluation -----------------------------
(***************************************************************************)
(* From a price history to the shortlist: every pair is measured by the    *)
(* walk (WalkForward), judged by the six filters under the thresholds that *)
(* the user's sliders select, counted in the attrition report and          *)
(* screened.  A later request over the same data is served from the cached *)
(* metrics and judged by a second, vectorized copy of the filters; the     *)
(* screener has a third.  Sweep models the order and the failures of the   *)
(* measuring, ComputeCache the files.                                      *)
(***************************************************************************)
EXTENDS WalkForward, Sequences, FiniteSets

CONSTANTS
  Category,      \* the category of each pair, in the order of the sweep
  Measurable,    \* what the stitched returns can measure: the two Sharpe
                 \* ratios and the drawdown
  NaN,           \* float("nan")
  Top,           \* SLIDER_MAX
  Settings,      \* the slider positions that users select
  FloorTight, FloorDeep,        \* DD_FLOOR_AT_MIN_TOLERANCE, _AT_MAX_TOLERANCE
  CeilingLow, CeilingHigh,      \* MAX_OOS_SHARPE_AT_MIN_RISK, _AT_MAX_RISK
  TradesMany, TradesFew,        \* MIN_TRADES_AT_MIN_RISK, _AT_MAX_RISK
  MinOosSharpe,                 \* FunnelThresholds.min_oos_sharpe
  RatioNum, RatioDen            \* FunnelThresholds.max_oos_is_ratio

ASSUME MappingAssumption ==
  /\ Top \in Nat \ {0} /\ Settings \subseteq 0..Top
  /\ {FloorTight, FloorDeep, CeilingLow, CeilingHigh, TradesMany, TradesFew} \subseteq Int
  /\ {MinOosSharpe, RatioNum, RatioDen} \subseteq Int /\ NaN \notin Int
  /\ FloorDeep < FloorTight /\ CeilingLow < CeilingHigh /\ TradesFew < TradesMany
ASSUME MeasurableAssumption ==
  Measurable \subseteq [is_sharpe : Int \cup {NaN}, oos_sharpe : Int \cup {NaN},
                        max_drawdown : Int \cup {NaN}]

VARIABLES
  request,   \* the two hard-mapped sliders and require_positive_is_sharpe
  phase,     \* "sweep", "swept", "reported", "screened"
  measured,  \* the metrics of the pairs so far: what the cache keeps
  rows,      \* sweep_df
  report,    \* the attrition report
  shortlist  \* the rows that screen() keeps

evars == <<request, phase, measured, rows, report, shortlist>>

Requests == [drawdown_tolerance : Settings, risk_tolerance : Settings, positive_is : BOOLEAN]
-----------------------------------------------------------------------------
\* Every comparison with NaN is false.
Less(x, y)    == NaN \notin {x, y} /\ x < y
AtMost(x, y)  == NaN \notin {x, y} /\ x <= y
Times(x, n)   == IF x = NaN THEN NaN ELSE x * n

\* _lerp, scaled by Top
Lerp(value, at_min, at_max) == at_min * Top + value * (at_max - at_min)

\* thresholds_for; the floor and the ceiling are scaled by Top.  No position
\* makes the number of trades a half.
RiskierNeedsMore(q) ==                                                   \* fault
  [max_dd_floor   |-> Lerp(q.drawdown_tolerance, FloorTight, FloorDeep),
   max_oos_sharpe |-> Lerp(q.risk_tolerance, CeilingLow, CeilingHigh),
   min_trades     |-> HalfUp(Lerp(q.risk_tolerance, TradesFew, TradesMany), Top),
   positive_is    |-> q.positive_is]
ThresholdsFor(q) ==
  [max_dd_floor   |-> Lerp(q.drawdown_tolerance, FloorTight, FloorDeep),
   max_oos_sharpe |-> Lerp(q.risk_tolerance, CeilingLow, CeilingHigh),
   min_trades     |-> HalfUp(Lerp(q.risk_tolerance, TradesMany, TradesFew), Top),
   positive_is    |-> q.positive_is]

\* apply_funnel, on the result of a walk
ApplyFunnel(m, t) ==
  [max_dd_floor   |-> Less(t.max_dd_floor, Times(m.max_drawdown, Top)),
   min_oos_sharpe |-> Less(MinOosSharpe, m.oos_sharpe),
   max_oos_sharpe |-> Less(Times(m.oos_sharpe, Top), t.max_oos_sharpe),
   overfit_gap    |-> /\ Less(0, m.is_sharpe)
                      /\ AtMost(Times(m.oos_sharpe, RatioDen), Times(m.is_sharpe, RatioNum)),
   min_trades     |-> m.trades >= t.min_trades,
   positive_is    |-> t.positive_is => Less(0, m.is_sharpe)]

AllPass(verdict) == \A filter \in DOMAIN verdict : verdict[filter]
NoneOf(verdict)  == [filter \in DOMAIN verdict |-> FALSE]

\* _score_pair and _skipped_row
SkippedMetrics ==
  [is_sharpe |-> NaN, oos_sharpe |-> NaN, max_drawdown |-> NaN, trades |-> 0, skipped |-> TRUE]
Scored(m, t) == LET verdict == IF m.skipped THEN NoneOf(ApplyFunnel(m, t)) ELSE ApplyFunnel(m, t)
                IN  [metrics |-> m, passes |-> verdict, survived |-> AllPass(verdict)]

\* _apply_funnel_vectorized: every column for every row, the skipped rows
\* masked at the end
NoMask(m, column) == column                                              \* fault
Mask(m, column)   == column /\ ~m.skipped
Vectorized(m, t) ==
  LET is_positive == Less(0, m.is_sharpe)
      columns ==
        [max_dd_floor   |-> Less(t.max_dd_floor, Times(m.max_drawdown, Top)),
         min_oos_sharpe |-> Less(MinOosSharpe, m.oos_sharpe),
         max_oos_sharpe |-> Less(Times(m.oos_sharpe, Top), t.max_oos_sharpe),
         overfit_gap    |-> IF is_positive
                            THEN AtMost(Times(m.oos_sharpe, RatioDen), Times(m.is_sharpe, RatioNum))
                            ELSE FALSE,
         min_trades     |-> m.trades >= t.min_trades,
         positive_is    |-> IF t.positive_is THEN is_positive ELSE TRUE]
  IN  [metrics  |-> m,
       passes   |-> [filter \in DOMAIN columns |-> Mask(m, columns[filter])],
       survived |-> Mask(m, AllPass(columns))]

\* _passes_six_filters, on a row that was not skipped
FloorIncluded(m, t) == AtMost(t.max_dd_floor, Times(m.max_drawdown, Top))  \* fault
AboveFloor(m, t)    == Less(t.max_dd_floor, Times(m.max_drawdown, Top))
PassesSixFilters(m, t) ==
  /\ AboveFloor(m, t)
  /\ Less(MinOosSharpe, m.oos_sharpe) /\ Less(Times(m.oos_sharpe, Top), t.max_oos_sharpe)
  /\ Less(0, m.is_sharpe)
  /\ AtMost(Times(m.oos_sharpe, RatioDen), Times(m.is_sharpe, RatioNum))
  /\ m.trades >= t.min_trades
  /\ t.positive_is => Less(0, m.is_sharpe)

\* build_attrition_report; ran is df without the skipped rows
Ran(df)         == {k \in DOMAIN df : ~df[k].metrics.skipped}
Survivors(df)   == {k \in Ran(df) : df[k].survived}
Group(df, name) == {k \in Ran(df) : Category[k] = name}
NoReport == <<>>
Attrition(df) ==
  [n_total_backtests |-> Len(df),
   n_skipped  |-> Cardinality({k \in DOMAIN df : df[k].metrics.skipped}),
   n_run      |-> Cardinality(Ran(df)),
   n_clears_min_oos_sharpe |-> Cardinality({k \in Ran(df) : df[k].passes.min_oos_sharpe}),
   n_survived |-> Cardinality(Survivors(df)),
   by_category |->
     [name \in {Category[k] : k \in Ran(df)} |->
        [n_total    |-> Cardinality(Group(df, name)),
         n_survived |-> Cardinality({k \in Group(df, name) : df[k].survived})]]]
-----------------------------------------------------------------------------
Init ==
  /\ WFInit
  /\ request \in Requests /\ phase = "sweep"
  /\ measured = <<>> /\ rows = <<>>
  /\ report = NoReport /\ shortlist = {}

\* walk_forward_oos, for the next pair
Measure == phase = "sweep" /\ WFNext /\ UNCHANGED evars

\* the stitched returns measure anything; the trades are those of the walk
Measurements ==
  IF outcome = "short" THEN {SkippedMetrics}
  ELSE {[is_sharpe |-> r.is_sharpe, oos_sharpe |-> r.oos_sharpe, max_drawdown |-> r.max_drawdown,
         trades |-> oos_trades, skipped |-> FALSE] : r \in Measurable}

\* _score_pair appends its row; the walk goes on with the next pair
Score ==
  /\ phase = "sweep" /\ outcome # "running"
  /\ \E m \in Measurements :
       /\ measured' = Append(measured, m)
       /\ rows' = Append(rows, Scored(m, ThresholdsFor(request)))
  /\ IF Len(measured) + 1 < Len(Category)
     THEN phase' = phase /\ \E n \in Lengths : Restart(n)
     ELSE phase' = "swept" /\ Restart(0)
  /\ UNCHANGED <<request, report, shortlist>>

Report ==
  /\ phase = "swept" /\ phase' = "reported"
  /\ report' = Attrition(rows)
  /\ UNCHANGED <<wfvars, request, measured, rows, shortlist>>

\* screen() maps the sliders once more
Screen ==
  /\ phase = "reported" /\ phase' = "screened"
  /\ shortlist' = {k \in Ran(rows) : PassesSixFilters(rows[k].metrics, ThresholdsFor(request))}
  /\ UNCHANGED <<wfvars, request, measured, rows, report>>

\* a later run over the same data: run_sweep_cached finds the metrics
Hit ==
  /\ phase = "screened" /\ phase' = "swept"
  /\ request' \in Requests
  /\ rows' = [k \in DOMAIN measured |-> Vectorized(measured[k], ThresholdsFor(request'))]
  /\ report' = NoReport /\ shortlist' = {}
  /\ UNCHANGED <<wfvars, measured>>

Next == Measure \/ Score \/ Report \/ Screen \/ Hit

Spec == Init /\ [][Next]_<<wfvars, evars>>
-----------------------------------------------------------------------------
\* A sweep served from the cache cannot be told from one that computes
\* everything: the same rows, skipped ones included, whatever the thresholds
\* were when the metrics were cached (sweep_cache.py:112-121).
HitEqualsMiss ==
  rows = [k \in DOMAIN measured |-> Scored(measured[k], ThresholdsFor(request))]

\* The sum of one count over all categories: as many pairs of a category and
\* a number as there are numbers from 1 to its count.
Total(by_category, field) ==
  Cardinality(UNION {{name} \X (1..by_category[name][field]) : name \in DOMAIN by_category})

\* The shortlist is the rows that the sweep called survivors: the third copy of
\* the filters agrees with whichever of the other two judged the sweep.  The
\* report counts every row once, in its category or as skipped, and counts as
\* survivors what is on the shortlist.
ScreenAgrees ==
  phase = "screened" =>
    /\ shortlist = Survivors(rows)
    /\ report.n_skipped + Total(report.by_category, "n_total") = report.n_total_backtests
    /\ Total(report.by_category, "n_survived") = report.n_survived
    /\ report.n_survived = Cardinality(shortlist)
    /\ report.n_survived <= report.n_clears_min_oos_sharpe

\* Moving a slider towards more tolerance never costs a survivor.
Looser(q, r) ==
  /\ q.drawdown_tolerance >= r.drawdown_tolerance
  /\ q.risk_tolerance >= r.risk_tolerance
  /\ q.positive_is => r.positive_is
LooserKeepsAll ==
  [][Hit /\ Looser(request', request) => Survivors(rows) \subseteq Survivors(rows')]_<<wfvars, evars>>
=============================================================================
