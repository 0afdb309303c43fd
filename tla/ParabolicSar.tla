---------------------------- MODULE ParabolicSar ----------------------------
(***************************************************************************)
(* parabolic_sar (engine/src/funnel/strategies/trend.py): the stop-and-    *)
(* reverse loop over the rows of a frame.  Every row moves the stop from   *)
(* where it is towards the extreme of the trend; by how much, the          *)
(* acceleration factor, is left open.                                      *)
(***************************************************************************)
EXTENDS Integers

CONSTANT Prices

ASSUME PricesAssumption == Prices \subseteq Int

VARIABLES
  trend_up,
  sar, ep,       \* the stop, and the extreme of the trend
  last, prior,   \* the last row and the one before it, the first row twice
  turned         \* the last row turned the trend

sarVars == <<trend_up, sar, ep, last, prior, turned>>

Bars == {b \in [high : Prices, low : Prices] : b.low <= b.high}

Lower(a, b)  == IF a < b THEN a ELSE b
Higher(a, b) == IF a < b THEN b ELSE a

SarInit ==
  /\ trend_up = TRUE /\ turned = FALSE
  /\ last \in Bars /\ prior = last
  /\ sar = last.low /\ ep = last.high

\* prev_sar + af * (ep - prev_sar)
Candidates == Lower(sar, ep) .. Higher(sar, ep)

\* never beyond the last two rows
Clamp(c) == IF trend_up THEN Lower(c, Lower(last.low, prior.low))
                        ELSE Higher(c, Higher(last.high, prior.high))

Breached(bar, stop) == IF trend_up THEN bar.low < stop ELSE bar.high > stop

OtherExtreme(bar) ==                                                     \* fault
  IF trend_up THEN Lower(ep, bar.low) ELSE Higher(ep, bar.high)
Extreme(bar) == IF trend_up THEN Higher(ep, bar.high) ELSE Lower(ep, bar.low)

\* the stop is breached: it changes sides, to the extreme of the trend it ended
Turn(bar, c) ==
  /\ Breached(bar, Clamp(c))
  /\ trend_up' = ~trend_up /\ turned' = TRUE
  /\ sar' = ep
  /\ ep' = IF trend_up THEN bar.low ELSE bar.high
  /\ last' = bar /\ prior' = last

Ride(bar, c) ==
  /\ ~Breached(bar, Clamp(c))
  /\ turned' = FALSE
  /\ sar' = Clamp(c)
  /\ ep' = Extreme(bar)
  /\ last' = bar /\ prior' = last
  /\ UNCHANGED trend_up

SarNext == \E bar \in Bars, c \in Candidates : Turn(bar, c) \/ Ride(bar, c)

SarSpec == SarInit /\ [][SarNext]_sarVars
-----------------------------------------------------------------------------
\* the last row did not pass the stop
Behind == IF trend_up THEN sar <= last.low ELSE sar >= last.high

Tightens == IF trend_up THEN sar' >= sar ELSE sar' <= sar

\* As long as a trend lasts its stop only ever tightens.  The clamp to the last
\* two rows gives way on one day alone: after a row that turned the trend and
\* itself went past the new stop.
StopTightens == [][trend_up' = trend_up => Tightens \/ (turned /\ ~Behind)]_sarVars
=============================================================================
