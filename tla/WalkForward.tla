---------------------------- MODULE WalkForward ----------------------------
(***************************************************************************)
(* walk_forward_oos (engine/src/funnel/backtest/walkforward.py) for one    *)
(* pair of a strategy configuration and an asset: the history is cut into  *)
(* windows, each window into an in-sample head and an out-of-sample tail,  *)
(* and the returns of both are collected over all windows.  One action per *)
(* path through the body of the loop over the windows.                     *)
(***************************************************************************)
EXTENDS Integers, FiniteSets

CONSTANTS
  NWindows,      \* WalkForwardConfig.n_windows
  IsNum, IsDen,  \* WalkForwardConfig.is_fraction as a fraction
  MinOosRows,    \* MIN_OOS_ROWS
  Lengths        \* rows of the price histories

ASSUME WindowsAssumption ==
  /\ NWindows \in Nat \ {0} /\ IsDen \in Nat \ {0} /\ IsNum \in 0..IsDen
  /\ MinOosRows \in Nat \ {0} /\ Lengths \subseteq Nat

\* round(): to the nearest integer.  The argument is a product of floats, so a
\* half may go either way.
HalfUp(num, den)  == (2 * num + den) \div (2 * den)
Nearest(num, den) == IF (2 * num + den) % (2 * den) = 0
                     THEN {HalfUp(num, den) - 1, HalfUp(num, den)}
                     ELSE {HalfUp(num, den)}

VARIABLES
  n_rows,      \* len(df)
  i,           \* the windows done
  start,       \* the first row of window i
  is_rows, oos_rows,   \* the rows whose returns are stitched together
  dropped,     \* the rows that strategy_returns drops
  oos_trades,  \* position changes that are counted
  charged,     \* history: rows of oos_rows that pay for a position change
  outcome      \* "running", "scored", or "short": InsufficientHistoryError

wfvars == <<n_rows, i, start, is_rows, oos_rows, dropped, oos_trades, charged, outcome>>

WFInit ==
  /\ n_rows \in Lengths /\ i = 0 /\ start = 0
  /\ is_rows = {} /\ oos_rows = {} /\ dropped = {}
  /\ oos_trades = 0 /\ charged = 0
  /\ outcome = "running"

\* the next call of walk_forward_oos, on n rows
Restart(n) ==
  /\ n_rows' = n /\ i' = 0 /\ start' = 0
  /\ is_rows' = {} /\ oos_rows' = {} /\ dropped' = {}
  /\ oos_trades' = 0 /\ charged' = 0
  /\ outcome' = "running"

\* _window_bounds: the first windows take the remainder, a row each
EarlyWindows(k) == k <= n_rows % NWindows                                \* fault
LongerWindow(k) == k < n_rows % NWindows
End == start + n_rows \div NWindows + (IF LongerWindow(i) THEN 1 ELSE 0)

\* _is_oos_split: the candidates for split
Splits == {start + k : k \in Nearest((End - start) * IsNum, IsDen)}

Changes(pos, rows) == Cardinality({u \in rows : pos[u] # pos[u - 1]})

\* strategy_returns drops the first row of the window; the others are split
Returns == start + 1 .. End - 1
IsReturns(split)  == {u \in Returns : u < split}
AfterSplit(split) == {u \in Returns : u > split}                         \* fault
OosReturns(split) == {u \in Returns : u >= split}

\* trade_count of the window's own out-of-sample positions
WholeWindow(split) == Returns                                            \* fault
CountedRows(split) == split + 1 .. End - 1

\* the strategy's positions over the window are those of the window alone
Window(split, pos) ==
  /\ outcome = "running" /\ i < NWindows
  /\ split \in Splits /\ End - split >= MinOosRows
  /\ is_rows'  = is_rows \cup IsReturns(split)
  /\ oos_rows' = oos_rows \cup OosReturns(split)
  /\ dropped'  = dropped \cup {start}
  /\ oos_trades' = oos_trades + Changes(pos, CountedRows(split))
  /\ charged'    = charged + Changes(pos, OosReturns(split))
  /\ i' = i + 1 /\ start' = End
  /\ UNCHANGED <<n_rows, outcome>>

InsufficientHistory ==
  /\ outcome = "running" /\ i < NWindows
  /\ \E split \in Splits : End - split < MinOosRows
  /\ outcome' = "short"
  /\ UNCHANGED <<n_rows, i, start, is_rows, oos_rows, dropped, oos_trades, charged>>

Stitch ==
  /\ outcome = "running" /\ i = NWindows
  /\ outcome' = "scored"
  /\ UNCHANGED <<n_rows, i, start, is_rows, oos_rows, dropped, oos_trades, charged>>

\* a position is short, flat or long
WFNext ==
  \/ \E split \in Splits : \E pos \in [start .. End - 1 -> {-1, 0, 1}] : Window(split, pos)
  \/ InsufficientHistory
  \/ Stitch

WFSpec == WFInit /\ [][WFNext]_wfvars
-----------------------------------------------------------------------------
\* The windows cut the history without gap or overlap: each row so far is the
\* dropped first row of a window, in-sample, or out-of-sample, and never two of
\* them; when the pair is scored no row of the history is left over.
WindowsPartition ==
  /\ is_rows \cup oos_rows \cup dropped = 0 .. start - 1
  /\ is_rows \cap oos_rows = {} /\ dropped \cap (is_rows \cup oos_rows) = {}
  /\ outcome = "scored" => start = n_rows

\* Every window that was kept contributes its full minimum of out-of-sample
\* returns: the first row it drops is never one of them.
EnoughOosReturns == Cardinality(oos_rows) >= i * MinOosRows

\* A counted trade is paid for by an out-of-sample return; of those paid for,
\* only the one at the first out-of-sample row of a window is not counted.
TradesAreCharged ==
  /\ oos_trades <= charged /\ charged <= oos_trades + i
  /\ charged <= Cardinality(oos_rows)
=============================================================================
