--------------------------- MODULE SweepContract ---------------------------
(***************************************************************************)
(* What run_sweep and run_overlay_sweep promise their caller, whichever    *)
(* way they are executed (the module docstrings of backtest/sweep.py and   *)
(* options/sweep.py): either every pair's row, once each, in the order of  *)
(* the nested loops, or an exception and no rows; RunCancelledError only   *)
(* if should_stop() was true, another error only if a pair or the pool     *)
(* failed.                                                                 *)
(***************************************************************************)
EXTENDS Naturals, Sequences

CONSTANTS Symbols,     \* the symbols, in order
          Configs      \* the configurations, in order

VARIABLES yields,      \* what scoring a pair gives: a "row", a "skipped" row, or it "raises"
          stop,        \* should_stop()
          broken,      \* a worker process was killed
          result       \* how it returned, and the rows if it did with rows

Symbol == {Symbols[i] : i \in 1..Len(Symbols)}
Config == {Configs[i] : i \in 1..Len(Configs)}

\* Row number n of the table: all configurations of a symbol, then the next symbol.
Pair(n) == <<Symbols[((n - 1) \div Len(Configs)) + 1], Configs[((n - 1) % Len(Configs)) + 1]>>
Table   == [n \in 1 .. Len(Symbols) * Len(Configs) |-> <<Pair(n), yields[Pair(n)]>>]

Rows == [Symbol \X Config -> {"row", "skipped", "raises"}]

None       == [is |-> "none", rows |-> <<>>]
Raised(e)  == [is |-> e, rows |-> <<>>]
Success(t) == [is |-> "rows", rows |-> t]

CInit == /\ yields \in Rows
         /\ stop = FALSE /\ broken = FALSE
         /\ result = None

RequestStop == stop' = TRUE /\ UNCHANGED <<yields, broken, result>>

PoolBreaks == broken' = TRUE /\ UNCHANGED <<yields, stop, result>>

Deliver == /\ result = None
           /\ \A p \in Symbol \X Config : yields[p] # "raises"
           /\ result' = Success(Table)
           /\ UNCHANGED <<yields, stop, broken>>

Cancelled == /\ result = None /\ stop
             /\ result' = Raised("cancelled")
             /\ UNCHANGED <<yields, stop, broken>>

Failed == /\ result = None
          /\ broken \/ \E p \in Symbol \X Config : yields[p] = "raises"
          /\ result' = Raised("error")
          /\ UNCHANGED <<yields, stop, broken>>

CNext == RequestStop \/ PoolBreaks \/ Deliver \/ Cancelled \/ Failed

CSpec == CInit /\ [][CNext]_<<yields, stop, broken, result>>
=============================================================================
