----------------------------- MODULE DataFetch -----------------------------
(***************************************************************************)
(* The data stage: _fetch_all (engine/src/funnel/pipeline.py) fetches the  *)
(* symbols of a run on a bounded thread pool through CachedSource, a       *)
(* parquet file per symbol, and YFinanceSource, whose threads share one    *)
(* process-wide cookie strategy (data/sources.py).                         *)
(*                                                                         *)
(* External: yf.download, which gives data, an exception or an empty frame *)
(* (always on a network that blocks the "basic" strategy, and on any when  *)
(* the request is rate-limited); and the private switch to the "csrf"      *)
(* strategy, which works or does not.                                      *)
(***************************************************************************)
EXTENDS Naturals, Sequences, FiniteSets

CONSTANTS
  Calls,       \* the symbols to fetch, in order; POST /api/overlays may repeat one
  PoolSize,    \* _FETCH_MAX_WORKERS
  Delisted,    \* symbols that have no data under any strategy
  Leftovers,   \* what earlier runs may have left as a cache file
  Failures     \* may a download raise?

Fetches == 1..Len(Calls)
Symbol  == {Calls[i] : i \in Fetches}

ASSUME FetchAssumption ==
  /\ Calls \in Seq(Symbol)
  /\ PoolSize \in Nat \ {0}
  /\ Leftovers \subseteq {"absent", "torn", "empty", "whole"}
  /\ Failures \in BOOLEAN

VARIABLES
  blocked,     \* the network blocks the basic strategy
  switchable,  \* _set_cookie_strategy works in this release of yfinance
  csrf,        \* _csrf_strategy_active, and the strategy of the shared client
  lock,        \* _csrf_lock
  attempts,    \* history: calls of _switch_to_csrf_cookie_strategy
  file,        \* the cache file of a symbol
  opener,      \* the fetch that truncated it last, 0 if none
  pc,          \* each fetch's place
  frame,       \* what it holds: "none", "data", "raised" or an empty frame, which
               \* is "limited" if only a rate limit emptied it
  began,       \* history: csrf when its first download began
  turned,      \* it found the strategy inactive and went on to switch
  result       \* _fetch_all: how many results it has, and how it ended

vars == <<blocked, switchable, csrf, lock, attempts, file, opener, pc, frame, began,
          turned, result>>

Places  == {"queued", "lookup", "read", "discard", "download", "lock", "check", "switch",
            "retry", "store", "fill", "returned"}

NoRows  == {"empty", "limited"}         \* df.empty

Init ==
  /\ blocked \in BOOLEAN /\ switchable \in BOOLEAN
  /\ csrf = FALSE /\ lock = 0 /\ attempts = 0
  /\ file \in [Symbol -> Leftovers]
  /\ opener = [s \in Symbol |-> 0]
  /\ pc     = [i \in Fetches |-> "queued"]
  /\ frame  = [i \in Fetches |-> "none"]
  /\ began  = [i \in Fetches |-> FALSE]
  /\ turned = [i \in Fetches |-> FALSE]
  /\ result = [is |-> "none", at |-> 0]

WorldUnchanged  == UNCHANGED <<blocked, switchable, result>>
FilesUnchanged  == UNCHANGED <<file, opener>>
SwitchUnchanged == UNCHANGED <<csrf, lock, attempts, turned>>
Goto(i, place)  == pc' = [pc EXCEPT ![i] = place]
Hold(i, f)      == frame' = [frame EXCEPT ![i] = f]
FileBecomes(i, f) == file' = [file EXCEPT ![Calls[i]] = f]
-----------------------------------------------------------------------------
\* a thread of the pool takes the next symbol
Start(i) ==
  /\ pc[i] = "queued"
  /\ \A j \in Fetches : j < i => pc[j] # "queued"
  /\ Cardinality({j \in Fetches : pc[j] \notin {"queued", "returned"}}) < PoolSize
  /\ Goto(i, "lookup")
  /\ UNCHANGED <<frame, began>> /\ WorldUnchanged /\ FilesUnchanged /\ SwitchUnchanged

\* CachedSource.fetch: path.exists()
Lookup(i) ==
  /\ pc[i] = "lookup"
  /\ Goto(i, IF file[Calls[i]] = "absent" THEN "download" ELSE "read")
  /\ UNCHANGED <<frame, began>> /\ WorldUnchanged /\ FilesUnchanged /\ SwitchUnchanged

\* read_parquet raises if the file is torn or gone by now
Read(i) ==
  /\ pc[i] = "read"
  /\ LET found == file[Calls[i]]
     IN CASE found = "whole" -> Hold(i, "data") /\ Goto(i, "returned")
          [] found = "empty" -> Goto(i, "discard") /\ UNCHANGED frame
          [] OTHER           -> Hold(i, "raised") /\ Goto(i, "returned")
  /\ UNCHANGED began /\ WorldUnchanged /\ FilesUnchanged /\ SwitchUnchanged

Unlink(i) == FileBecomes(i, "absent") /\ opener' = [opener EXCEPT ![Calls[i]] = 0]

Refetch == "download"

\* an empty cached frame is unlinked; unlink raises if another fetch was faster
Discard(i) ==
  /\ pc[i] = "discard"
  /\ IF file[Calls[i]] = "absent"
     THEN Hold(i, "raised") /\ Goto(i, "returned") /\ FilesUnchanged
     ELSE Goto(i, Refetch) /\ Unlink(i) /\ UNCHANGED frame
  /\ UNCHANGED began /\ WorldUnchanged /\ SwitchUnchanged

Answers(i) == (IF Calls[i] \in Delisted \/ (blocked /\ ~csrf) THEN {"empty"}
                                                             ELSE {"data", "limited"})
                \cup (IF Failures THEN {"raised"} ELSE {})

\* YFinanceSource.fetch: the first download
Download(i) ==
  /\ pc[i] = "download"
  /\ \E answer \in Answers(i) :
       /\ Hold(i, answer)
       /\ Goto(i, CASE answer = "data" -> "store" [] answer \in NoRows -> "lock"
                    [] OTHER -> "returned")
  /\ began' = [began EXCEPT ![i] = csrf]
  /\ WorldUnchanged /\ FilesUnchanged /\ SwitchUnchanged

Unguarded == TRUE                                        \* fault: no lock
LockIsFree == lock = 0

Lock(i) ==
  /\ pc[i] = "lock" /\ LockIsFree
  /\ lock' = i
  /\ Goto(i, "check")
  /\ UNCHANGED <<csrf, attempts, turned, frame, began>> /\ WorldUnchanged /\ FilesUnchanged

\* already active: the fetch returns the empty frame it has
Check(i) ==
  /\ pc[i] = "check"
  /\ turned' = [turned EXCEPT ![i] = ~csrf]
  /\ IF csrf THEN lock' = 0 /\ Goto(i, "returned")
     ELSE Goto(i, "switch") /\ UNCHANGED lock
  /\ UNCHANGED <<csrf, attempts, frame, began>> /\ WorldUnchanged /\ FilesUnchanged

NoRetry == "returned"                                    \* fault
AfterSwitch == "retry"
KeepLock == UNCHANGED lock                               \* fault
Unlock == lock' = 0

\* _switch_to_csrf_cookie_strategy, and the end of the critical section
Switch(i) ==
  /\ pc[i] = "switch"
  /\ attempts' = attempts + 1
  /\ csrf' = switchable
  /\ Unlock
  /\ Goto(i, IF switchable THEN AfterSwitch ELSE "returned")
  /\ UNCHANGED <<turned, frame, began>> /\ WorldUnchanged /\ FilesUnchanged

Retry(i) ==
  /\ pc[i] = "retry"
  /\ \E answer \in Answers(i) :
       Hold(i, answer) /\ Goto(i, IF answer = "data" THEN "store" ELSE "returned")
  /\ UNCHANGED began /\ WorldUnchanged /\ FilesUnchanged /\ SwitchUnchanged

\* CachedSource.fetch: a non-empty frame is written in place
Store(i) ==
  /\ pc[i] = "store"
  /\ FileBecomes(i, "torn")
  /\ opener' = [opener EXCEPT ![Calls[i]] = i]
  /\ Goto(i, "fill")
  /\ UNCHANGED <<frame, began>> /\ WorldUnchanged /\ SwitchUnchanged

Fill(i) ==
  /\ pc[i] = "fill"
  /\ IF opener[Calls[i]] = i THEN FileBecomes(i, "whole") ELSE UNCHANGED file
  /\ Goto(i, "returned")
  /\ UNCHANGED <<opener, frame, began>> /\ WorldUnchanged /\ SwitchUnchanged

Fetch(i) == Start(i) \/ Lookup(i) \/ Read(i) \/ Discard(i) \/ Download(i) \/ Lock(i)
              \/ Check(i) \/ Switch(i) \/ Retry(i) \/ Store(i) \/ Fill(i)
-----------------------------------------------------------------------------
AnyRaised   == {i \in Fetches : pc[i] = "returned" /\ frame[i] = "raised"}
InOrder     == {result.at + 1} \cap Fetches
\* fault: results are taken as they complete
AsCompleted == IF AnyRaised # {} THEN AnyRaised ELSE InOrder
NextFuture  == InOrder

\* [future.result() for ...]: wait for the next symbol's fetch
Gather ==
  /\ result.is = "none" /\ result.at < Len(Calls)
  /\ \E i \in NextFuture :
       /\ pc[i] = "returned"
       /\ result' = [is |-> IF frame[i] = "raised" THEN "raising" ELSE "none", at |-> i]
  /\ UNCHANGED <<blocked, switchable, frame, began, pc>> /\ FilesUnchanged /\ SwitchUnchanged

WaitForNone == TRUE                                      \* fault: shutdown(wait=False)
WaitForAll == \A i \in Fetches : pc[i] = "returned"

\* the executor's __exit__ waits for every fetch, also when one has raised
Leave ==
  /\ result.is = "raising" \/ (result.is = "none" /\ result.at = Len(Calls))
  /\ WaitForAll
  /\ result' = [result EXCEPT !.is = IF @ = "raising" THEN "error" ELSE "dict"]
  /\ UNCHANGED <<blocked, switchable, frame, began, pc>> /\ FilesUnchanged /\ SwitchUnchanged

Next == Gather \/ Leave \/ \E i \in Fetches : Fetch(i)

Spec == Init /\ [][Next]_vars

\* every thread of the pool runs, and so does the caller
FairSpec == Spec /\ WF_vars(Gather \/ Leave) /\ \A i \in Fetches : WF_vars(Fetch(i))
-----------------------------------------------------------------------------
\* The strategy is switched at most once with success, by one thread alone.
SwitchedOnce ==
  /\ switchable => attempts <= 1
  /\ Cardinality({i \in Fetches : pc[i] \in {"check", "switch"}}) <= 1

\* A symbol that has data comes back empty for one of two reasons.  Its last
\* download was rate-limited; or the network blocks the basic strategy, its
\* download began before the switch and another fetch overtook it: the thread
\* that switches tries again, and what begins later is not blocked.  Whatever
\* emptied a frame, one found in the cache does not survive the fetch that finds
\* it, and no fetch leaves one: a failed download never poisons later runs.
EmptyOnlyInFirstWave ==
  \A i \in Fetches : pc[i] = "returned" =>
    /\ frame[i] = "empty" /\ Calls[i] \notin Delisted /\ switchable =>
         blocked /\ ~began[i] /\ ~turned[i]
    /\ frame[i] # "raised" => file[Calls[i]] # "empty"

\* _fetch_all raises what a sequential loop would raise first, whichever fetch
\* failed first in time, and neither returns nor raises before every thread is
\* done with the network and the cache directory.
RaisesFirstInOrder ==
  result.is \in {"error", "dict"} =>
    /\ \A i \in Fetches : pc[i] = "returned"
    /\ IF result.is = "error"
       THEN frame[result.at] = "raised" /\ \A j \in 1 .. result.at - 1 : frame[j] # "raised"
       ELSE \A i \in Fetches : frame[i] # "raised"

\* The data stage ends: no thread keeps the lock the others wait for.
FetchEnds == <>(result.is \in {"error", "dict"})
=============================================================================
