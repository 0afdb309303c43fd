---------------------------- MODULE RegimeLabels ----------------------------
(***************************************************************************)
(* The regime detectors (engine/src/funnel/regime): each labels every row  *)
(* of the proxy's frame.  The hidden Markov model and the change-point     *)
(* search label span by span, from a fit of a slice of the frame; the      *)
(* moving-average and volatility filters label row by row.  Which label a  *)
(* fit yields is left open.  What is kept is which rows it has seen: every *)
(* label carries the last one.                                             *)
(***************************************************************************)
EXTENDS Integers

CONSTANTS
  MaxRows,      \* rows of the longest frame
  MinTrain,     \* min_train
  RefitEvery,   \* refit_every
  NaNRows,      \* leading rows without a return or a 21-day volatility
  MinSegments,  \* 2 * _MIN_SEGMENT_SIZE
  MaxWindow,    \* max_window
  FilterWindow  \* window of the two filters

ASSUME FrameAssumption == MaxRows \in Nat
ASSUME ScheduleAssumption ==
  /\ MinTrain \in Nat /\ NaNRows \in Nat /\ MinSegments \in Nat
  /\ RefitEvery \in Nat \ {0} /\ MaxWindow \in Nat \ {0} /\ FilterWindow \in Nat \ {0}

Regimes   == {"trending", "choppy"}
Refitters == {"hmm", "change_point"}
Filters   == {"ma_filter", "realized_vol"}

VARIABLES
  detector,
  frame,    \* len(df)
  refit,    \* the next of refit_points; at or past the frame when there is none
  label     \* labels, with the last row of data behind each

regimeVars == <<detector, frame, refit, label>>

Default == [regime |-> "choppy", seen |-> -1]   \* np.full(n, Regime.CHOPPY)
Labels  == [regime : Regimes, seen : -1 .. MaxRows - 1]

RegimeInit ==
  /\ detector \in Refitters \cup Filters
  /\ frame \in 0..MaxRows
  /\ refit = MinTrain
  /\ label = [t \in 0 .. frame - 1 |-> Default]

\* refit_points
RefitPoints == {r \in MinTrain .. frame - 1 : (r - MinTrain) % RefitEvery = 0}

Classified ==
  IF detector \in Refitters THEN refit >= frame ELSE frame > 0 => label[0] # Default
-----------------------------------------------------------------------------
EndsEarly(r) == r + RefitEvery - 1                                       \* fault
\* the first row after the span of the refit at r
SpanEnd(r) == IF r + RefitEvery < frame THEN r + RefitEvery ELSE frame

WholeSpan(r)  == r + RefitEvery - 1                                      \* fault
\* features.iloc[: refit_at + 1]: the last row a fit sees is its own
LastSeen(r) == r

\* rows left in the slice after dropna: the model sees all rows so far, the
\* change-point search the last max_window of them
UsableHmm(r)         == r + 1 - NaNRows
UsableChangePoint(r) == IF r + 1 <= MaxWindow THEN r ELSE MaxWindow

Usable(r) ==
  CASE detector = "hmm"          -> UsableHmm(r) >= MinTrain
    [] detector = "change_point" -> UsableChangePoint(r) >= MinSegments

\* One refit.  A slice too short, a fit that raises and a segment without
\* variance all label the span CHOPPY.  The model decodes one row of the span,
\* the refit's own, and NumPy spreads its label over all of it.
Refit(regime) ==
  /\ detector \in Refitters /\ refit < frame
  /\ Usable(refit) \/ regime = "choppy"
  /\ label' = [t \in 0 .. frame - 1 |->
       IF t \in refit .. SpanEnd(refit) - 1
       THEN [regime |-> regime, seen |-> LastSeen(refit)] ELSE label[t]]
  /\ refit' = refit + RefitEvery
  /\ UNCHANGED <<detector, frame>>

\* the rows of a filter before its warmup ends: a window of closes, or of
\* returns and one volatility before the day's own
FilterWarmup == IF detector = "ma_filter" THEN FilterWindow - 1 ELSE FilterWindow + 1

\* A filter compares each row with what came before it.
Filter(above) ==
  /\ detector \in Filters /\ ~Classified
  /\ \A t \in above : t >= FilterWarmup
  /\ label' = [t \in 0 .. frame - 1 |->
       [regime |-> IF t \in above THEN "trending" ELSE "choppy", seen |-> t]]
  /\ UNCHANGED <<detector, frame, refit>>

RegimeNext ==
  \/ \E regime \in Regimes : Refit(regime)
  \/ \E above \in SUBSET (0 .. frame - 1) : Filter(above)

RegimeSpec == RegimeInit /\ [][RegimeNext]_regimeVars
-----------------------------------------------------------------------------
\* The schedule of both refitting detectors, spans cut short by the end of the
\* frame included: each day takes its label from the latest refit at or before
\* it, which is less than refit_every days old; only days before the first
\* refit have the default.
LabelledByLatestRefit ==
  detector \in Refitters =>
    \A t \in 0 .. frame - 1 :
      IF t < MinTrain THEN label[t] = Default
      ELSE t < refit =>
        /\ label[t].seen \in RefitPoints
        /\ label[t].seen <= t /\ t < label[t].seen + RefitEvery
=============================================================================
