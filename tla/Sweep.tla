------------------------------- MODULE Sweep -------------------------------
(***************************************************************************)
(* run_sweep (engine/src/funnel/backtest/sweep.py) and its twin            *)
(* run_overlay_sweep (options/sweep.py): the serial loop, and the process  *)
(* pool with one task per symbol.  The two files have the same control;    *)
(* what they score and how is left to the pair, which gives a row, a       *)
(* "skipped" row (too little history) or an exception.                     *)
(*                                                                         *)
(* External: ProcessPoolExecutor.  A submitted future is "pending" until   *)
(* the executor hands it to its bounded call queue ("called"), from which  *)
(* it can no longer be cancelled; a killed process breaks the whole pool.  *)
(***************************************************************************)
EXTENDS Integers, Sequences, FiniteSets

CONSTANTS
  Symbols,     \* list(data.keys())
  Configs,     \* the grid
  Requested,   \* values of the n_workers argument to try; NoValue is None
  Cores,       \* os.process_cpu_count()
  NoValue      \* None

VARIABLES
  yields, stop, broken, result,   \* as in SweepContract
  nWorkers,    \* the n_workers argument
  pc,          \* the calling thread
  rows,        \* serial: the rows so far
  future,      \* parallel: each symbol's future
  pending,     \* parallel: futures the caller still waits for
  batch,       \* parallel: completed futures it has not looked at yet
  bySymbol     \* parallel: rows_by_symbol, the symbols collected, as they came

parallel == <<future, pending, batch, bySymbol>>
vars == <<yields, stop, broken, result, nWorkers, pc, rows, parallel>>

Contract == INSTANCE SweepContract
Symbol   == Contract!Symbol
NPairs   == Len(Symbols) * Len(Configs)

\* the keys of a dict are distinct
ASSUME SweepAssumption ==
  /\ Cores \in Nat \ {0}
  /\ Requested \subseteq Int \cup {NoValue}
  /\ Symbols \in Seq(Symbol) /\ Configs \in Seq(Contract!Config)
  /\ \A i, j \in 1..Len(Symbols) : Symbols[i] = Symbols[j] => i = j

Least(a, b)    == IF a < b THEN a ELSE b
Greatest(a, b) == IF a > b THEN a ELSE b
-----------------------------------------------------------------------------
\* _resolve_n_workers: at least one process, and no more than symbols
ResolvedWorkers(n) ==
  Greatest(1, Least(IF n = NoValue THEN Cores ELSE n, Greatest(Len(Symbols), 1)))

TakesSerialPath(n) == n \in {0, 1} \/ ResolvedWorkers(n) <= 1
Workers == ResolvedWorkers(nWorkers)
CallQueue == Workers + 1                   \* max_workers + EXTRA_QUEUED_CALLS

Init ==
  /\ yields \in Contract!Rows
  /\ stop = FALSE /\ broken = FALSE /\ result = Contract!None
  /\ nWorkers \in Requested
  /\ pc = IF TakesSerialPath(nWorkers) THEN "serial" ELSE "submit"
  /\ rows = <<>>
  /\ future = [s \in Symbol |-> "none"]
  /\ pending = {} /\ batch = {} /\ bySymbol = <<>>

InputsUnchanged == UNCHANGED <<yields, nWorkers>>
-----------------------------------------------------------------------------
\* _run_sweep_serial: one iteration
Serial ==
  /\ pc = "serial" /\ Len(rows) < NPairs
  /\ LET pair == Contract!Pair(Len(rows) + 1)
     IN CASE stop -> result' = Contract!Raised("cancelled") /\ pc' = "returned" /\ UNCHANGED rows
          [] ~stop /\ yields[pair] = "raises" ->
               result' = Contract!Raised("error") /\ pc' = "returned" /\ UNCHANGED rows
          [] OTHER -> rows' = Append(rows, <<pair, yields[pair]>>) /\ UNCHANGED <<result, pc>>
  /\ UNCHANGED <<stop, broken, parallel>>
  /\ InputsUnchanged

SerialReturns ==
  /\ pc = "serial" /\ Len(rows) = NPairs
  /\ result' = Contract!Success(rows) /\ pc' = "returned"
  /\ UNCHANGED <<stop, broken, rows, parallel>>
  /\ InputsUnchanged
-----------------------------------------------------------------------------
\* except BaseException: executor.shutdown(wait=False, cancel_futures=True)
CancelPending ==
  future' = [s \in Symbol |-> IF future[s] = "pending" THEN "cancelled" ELSE future[s]]

TearDown(exception) ==
  /\ CancelPending
  /\ result' = Contract!Raised(exception) /\ pc' = "returned"

\* executor.submit, in the order of the symbols; refused by a broken pool
Submit ==
  /\ pc = "submit"
  /\ LET n == Cardinality({s \in Symbol : future[s] # "none"})
     IN IF broken THEN TearDown("error") /\ UNCHANGED pending
        ELSE /\ future'  = [future EXCEPT ![Symbols[n + 1]] = "pending"]
             /\ pending' = pending \cup {Symbols[n + 1]}
             /\ pc' = IF n + 1 = Len(Symbols) THEN "wait" ELSE "submit"
             /\ UNCHANGED result
  /\ UNCHANGED <<stop, broken, rows, batch, bySymbol>>
  /\ InputsUnchanged

Completed == {s \in Symbol : future[s] \in {"finished", "failed"}}

WaitForOne   == pending \cap Completed
AllPending   == pending                                           \* fault
StillPending == pending \ WaitForOne

\* wait(pending, return_when=FIRST_COMPLETED)
Wait ==
  /\ pc = "wait" /\ WaitForOne # {}
  /\ batch'   = WaitForOne
  /\ pending' = StillPending
  /\ pc' = "collect"
  /\ UNCHANGED <<stop, broken, result, rows, future, bySymbol>>
  /\ InputsUnchanged

\* a Python dict keeps a key where it was first inserted
Stored(s) == IF \E i \in 1..Len(bySymbol) : bySymbol[i] = s THEN bySymbol
             ELSE Append(bySymbol, s)

\* rows_by_symbol[...] = future.result(), in the arbitrary order of a set
Collect(s) ==
  /\ pc = "collect" /\ s \in batch
  /\ batch' = batch \ {s}
  /\ IF future[s] = "failed"
     THEN TearDown("error") /\ UNCHANGED bySymbol
     ELSE bySymbol' = Stored(s) /\ UNCHANGED <<future, result, pc>>
  /\ UNCHANGED <<stop, broken, rows, pending>>
  /\ InputsUnchanged

InCompletionOrder == bySymbol                                     \* fault
InSubmissionOrder == Symbols

\* the rows of one symbol's task, then those of the next
Assembled ==
  LET order == InSubmissionOrder
  IN [n \in 1..NPairs |->
        LET pair == <<order[((n - 1) \div Len(Configs)) + 1], Contract!Pair(n)[2]>>
        IN <<pair, yields[pair]>>]

MorePending == pending # {}

\* should_stop() after each batch, then wait again or return
Poll ==
  /\ pc = "collect" /\ batch = {}
  /\ IF stop
     THEN TearDown("cancelled")
     ELSE /\ IF MorePending THEN pc' = "wait" /\ UNCHANGED result
             ELSE pc' = "returned" /\ result' = Contract!Success(Assembled)
          /\ UNCHANGED future
  /\ UNCHANGED <<stop, broken, rows, pending, batch, bySymbol>>
  /\ InputsUnchanged
-----------------------------------------------------------------------------
Count(place) == Cardinality({s \in Symbol : future[s] = place})
Becomes(s, place) == future' = [future EXCEPT ![s] = place]
Raises(s) == \E c \in Contract!Config : yields[<<s, c>>] = "raises"

\* the executor: it feeds its call queue, its processes take from it and
\* score every configuration of a symbol (_score_symbol)
Task(s) ==
  /\ ~broken
  /\ \/ future[s] = "pending" /\ Count("called") < CallQueue /\ Becomes(s, "called")
     \/ future[s] = "called" /\ Count("executing") < Workers /\ Becomes(s, "executing")
     \/ future[s] = "executing" /\ Becomes(s, IF Raises(s) THEN "failed" ELSE "finished")
  /\ UNCHANGED <<stop, broken, result, pc, rows, pending, batch, bySymbol>>
  /\ InputsUnchanged

\* a process of the pool is killed: every future without an outcome fails
Break ==
  /\ ~broken /\ \E s \in Symbol : future[s] = "executing"
  /\ broken' = TRUE
  /\ future' = [s \in Symbol |-> IF future[s] \in {"pending", "called", "executing"}
                                 THEN "failed" ELSE future[s]]
  /\ UNCHANGED <<stop, result, pc, rows, pending, batch, bySymbol>>
  /\ InputsUnchanged

\* the run's cancel event is set
RequestStop ==
  /\ ~stop
  /\ stop' = TRUE
  /\ UNCHANGED <<broken, result, pc, rows, parallel>>
  /\ InputsUnchanged

Caller == \/ Serial \/ SerialReturns \/ Submit \/ Wait \/ Poll
          \/ \E s \in Symbol : Collect(s)
Tasks  == \E s \in Symbol : Task(s)
Next   == Caller \/ Tasks \/ Break \/ RequestStop

Spec == Init /\ [][Next]_vars

\* the calling thread and the pool's processes run; nothing must break or stop
FairSpec == Spec /\ WF_vars(Caller) /\ WF_vars(Tasks)
-----------------------------------------------------------------------------
\* Whatever the number of workers and the order in which tasks complete, the
\* caller sees the one thing SweepContract describes: the same rows in the
\* same order as the serial loop, or an exception that has its cause.
ImplementsContract == Contract!CSpec

\* A sweep always comes back to its caller: with its rows, with the error of
\* a pair, of a broken pool, or with the cancellation.  By then nothing more of
\* it is handed to the processes: what still executes was in the call queue.
Returns ==
  /\ <>(result.is # "none")
  /\ [](pc = "returned" =>
          Count("pending") = 0 /\ Count("called") + Count("executing") <= Workers + CallQueue)
=============================================================================
