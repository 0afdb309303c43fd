----------------------------- MODULE LayerStack -----------------------------
(***************************************************************************)
(* The layers stage (engine/src/funnel/layers): attribution_table runs the *)
(* stack of base signal, sizing, routing and combining once per step of    *)
(* _ATTRIBUTION_STEPS, on one asset, with the labels RegimeLabels gives    *)
(* for the proxy.  The two frames have their own calendars.                *)
(*                                                                         *)
(* The model takes the rows of the asset one by one and keeps the exposure *)
(* of every step side by side, as the steps share all their inputs.        *)
(* Exposures are in units of 1 / (Unit * the number of configs).           *)
(***************************************************************************)
EXTENDS RegimeLabels, Signals, Sequences, FiniteSets

CONSTANTS
  Calendars,   \* pairs of the days of the proxy and the days of the asset
  Stacks,      \* spec.configs: sequences of one or more families, each as
               \* often as the grid has parameter sets for it
  Overrides,   \* values of regime_overrides
  Unit,        \* full exposure, max_leverage and max_weight
  VolWindow, AtrWindow

ASSUME StackAssumption ==
  /\ \A c \in Calendars : /\ c.proxy \subseteq Nat /\ IsFiniteSet(c.proxy)
                         /\ c.asset \subseteq Nat /\ IsFiniteSet(c.asset)
  /\ \A o \in Overrides : \A f \in DOMAIN o : o[f] \in Regimes
  /\ Stacks \subseteq Seq(Families) \ {<<>>}
  /\ \A s \in Stacks, f \in Families :
       Cardinality({k \in 1..Len(s) : s[k] = f}) <= Grid[f]
  /\ Unit \in Nat \ {0} /\ VolWindow \in Nat /\ AtrWindow \in Nat

\* PREFERRED_REGIME
PreferredRegime ==
  [c \in {"trend", "volatility", "composite", "mean_reversion", "pattern", "volume"} |->
     IF c \in {"mean_reversion", "pattern"} THEN "choppy" ELSE "trending"]

\* every category has one
ASSUME PreferredAssumption == \A f \in Families : PreferredRegime[Category[f]] \in Regimes

VARIABLES
  plan,      \* the StackSpec
  bar,       \* the day of the last row done, -1 before the first
  raw,       \* its base positions, per config
  aligned,   \* the label in force on it: reindexed to the asset's days, then ffill
  decided,   \* its final positions, per step, and the last day they know of
  earning,   \* the positions its row of strategy_returns multiplies
  warm       \* history: configs whose readings have all been undefined

stackVars == <<plan, bar, raw, aligned, decided, earning, warm>>

Steps   == {"base", "+sizing", "+routing", "+combining"}
Methods == {"none", "vol_target", "atr"}
NoLabel == [regime |-> "none", seen |-> -1]
Configs == 1..Len(plan.configs)

Max2(a, b) == IF a < b THEN b ELSE a

\* the proxy's row on a day, and the day of a row
RowOn(d) == Cardinality({x \in plan.calendar.proxy : x < d})
DayOf(r) == IF r = -1 THEN -1 ELSE CHOOSE d \in plan.calendar.proxy : RowOn(d) = r
-----------------------------------------------------------------------------
CanRoute   == plan.regimes
CanCombine == Len(plan.configs) > 1

\* the steps attribution_table does not skip, and what each switches on
Surviving == {s \in Steps : /\ s = "+routing" => CanRoute
                            /\ s = "+combining" => CanCombine}
Sizing(s)    == s # "base"
Routing(s)   == s \in {"+routing", "+combining"} /\ CanRoute
Combining(s) == s = "+combining" /\ CanCombine

\* _preferred_regime
Preferred(c) ==
  LET f == plan.configs[c]
  IN IF f \in DOMAIN plan.overrides THEN plan.overrides[f] ELSE PreferredRegime[Category[f]]

\* volatility_target and atr_size: the target over a rolling risk, clipped to
\* full exposure; nothing while that is undefined or zero
Scales(m, i) ==
  CASE m = "none"       -> {Unit}
    [] m = "vol_target" -> IF i < VolWindow THEN {0} ELSE 0..Unit
    [] m = "atr"        -> IF i < AtrWindow - 1 THEN {0} ELSE 0..Unit

\* _apply_sizing
Sized(s, position, scale) == position * (IF Sizing(s) THEN scale ELSE Unit)

\* route_by_regime
Routed(s, c, position, lab) ==
  IF Routing(s) /\ lab.regime # Preferred(c) THEN 0 ELSE position

\* _build_signal
Signal(s, c, positions, scale, lab) == Routed(s, c, Sized(s, positions[c], scale), lab)

\* the equal weights of combine_signals
Blend(s, positions, scale, lab) ==
  LET upTo[c \in 0..Len(plan.configs)] ==
        IF c = 0 THEN 0 ELSE upTo[c - 1] + Signal(s, c, positions, scale, lab)
  IN upTo[Len(plan.configs)]

\* run_stack: without combining, the first config alone
Final(s, positions, scale, lab) ==
  IF Combining(s) THEN Blend(s, positions, scale, lab)
  ELSE Len(plan.configs) * Signal(s, 1, positions, scale, lab)
-----------------------------------------------------------------------------
StackStart ==
  /\ plan \in [configs : Stacks, calendar : Calendars, overrides : Overrides,
               method : Methods, regimes : BOOLEAN]
  /\ bar = -1 /\ aligned = NoLabel
  /\ raw = [c \in Configs |-> 0] /\ warm = Configs
  /\ decided = [knew |-> -1, target |-> [s \in Surviving |-> 0]]
  /\ earning = decided

\* the labels of the stage are the hidden Markov model's
StackInit ==
  /\ RegimeInit /\ StackStart
  /\ detector = "hmm"
  /\ frame = IF plan.regimes THEN Cardinality(plan.calendar.proxy) ELSE 0

Ahead      == {d \in plan.calendar.asset : d > bar}
NextDay    == CHOOSE d \in Ahead : \A e \in Ahead : d <= e
Row(d)     == Cardinality({x \in plan.calendar.asset : x < d})

ByPosition(d) ==                                                         \* fault
  IF CanRoute /\ Row(d) < frame THEN label[Row(d)] ELSE aligned
\* the label of the row: of its own day, or carried from an earlier row
InForce(d) == IF CanRoute /\ d \in plan.calendar.proxy THEN label[RowOn(d)] ELSE aligned

\* positions.shift(1): what the row earns was decided the row before
Shifted == decided

\* One row of every step: base, sizing, routing and combining, then the engine.
Trade(readings, scale) ==
  /\ Classified /\ Ahead # {}
  /\ scale \in Scales(plan.method, Row(NextDay))
  /\ LET d == NextDay
     IN /\ bar' = d
        /\ raw' = [c \in Configs |-> Position(Shape[plan.configs[c]], readings[c], raw[c])]
        /\ aligned' = InForce(d)
        /\ decided' = [knew   |-> Max2(d, DayOf(aligned'.seen)),
                       target |-> [s \in Surviving |-> Final(s, raw', scale, aligned')]]
        /\ earning' = Shifted
  /\ warm' = {c \in warm : readings[c] = "undefined"}
  /\ UNCHANGED plan

Label(regime) == Refit(regime) /\ UNCHANGED stackVars
Close(readings, scale) == Trade(readings, scale) /\ UNCHANGED regimeVars

StackNext ==
  \/ \E regime \in Regimes : Label(regime)
  \/ \E readings \in [Configs -> Readings], scale \in 0 .. Unit + 1 : Close(readings, scale)

StackSpec == StackInit /\ [][StackNext]_<<regimeVars, stackVars>>
-----------------------------------------------------------------------------
\* What a row earns was decided from data of days before it, through the whole
\* stack: signal, sizing, a label of the other calendar and the shift.
NoLookAhead == bar >= 0 => earning.knew < bar

\* The days the two calendars share decide the route, the gaps of either
\* notwithstanding: a routed exposure has the preferred regime of the last
\* shared day, and with none so far there is no exposure.
RoutedByLatestSharedDay ==
  LET shared == {d \in plan.calendar.proxy \cap plan.calendar.asset : d <= bar}
  IN plan.regimes /\ Classified /\ decided.target["+routing"] # 0 =>
       \E d \in shared : /\ \A e \in shared : e <= d
                         /\ label[RowOn(d)].regime = Preferred(1)

\* "Warmup rows -- where an indicator isn't yet defined because of insufficient
\* history -- must be assigned position 0.0" (strategies/base.py).
WarmupIsFlat == \A c \in warm : raw[c] = 0
=============================================================================
