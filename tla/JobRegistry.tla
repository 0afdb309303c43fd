---------------------------- MODULE JobRegistry ----------------------------
(***************************************************************************)
(* The background-job registry (engine/src/funnel/api/jobs.py) and the     *)
(* request handlers that drive it (api/app.py), at the grain at which they *)
(* can interleave: one action per critical section of JobRegistry._lock    *)
(* and per access to runs/<id>/status.json outside it.                     *)
(*                                                                         *)
(* A process is a server process and its pid; it has one registry, one     *)
(* worker thread (ThreadPoolExecutor(max_workers=1)) and a pool of request *)
(* threads.  Processes share the runs directory and nothing else.  A       *)
(* process may die at any step; another one may start on the same          *)
(* directory after it (a restart) or beside it (uvicorn --workers).        *)
(***************************************************************************)
EXTENDS Naturals, Sequences

CONSTANTS
  Procs,     \* server processes, named by their pid
  Runs,      \* run ids
  Threads,   \* request threads of a process
  Stages,    \* progress(...) calls the work makes before it returns
  Siblings,  \* may two processes be up at once? FALSE: restarts only
  Legacy     \* runs whose status.json predates the server and has no pid

ASSUME ConstantsAssumption ==
  /\ Stages \in Nat
  /\ Siblings \in BOOLEAN
  /\ Legacy \subseteq Runs
  /\ Procs \cap {"none", "lost"} = {}
  /\ "none" \notin Runs
  /\ "none" \notin Threads

VARIABLES
  up,        \* up[p]: "new", "up", "dead" or, dead while another was up, "outlived"
  mem,       \* mem[p][r]: state of JobRegistry._statuses[r], or "absent"
  event,     \* event[p][r]: the run's threading.Event in _cancel_events
  started,   \* _started
  foreign,   \* _foreign_running
  scanned,   \* _disk_scanned
  lock,      \* the request thread that keeps _lock over several steps
  queue,     \* the executor's work queue
  worker,    \* the worker thread: its place in _run
  req,       \* the request threads: their place in a handler
  disk,      \* runs/<id>/status.json
  tmp,       \* runs/<id>/status.json.tmp
  handle,    \* what a thread's open file is by now
  owner      \* history: the process that accepted the run, "lost" once dead

vars == <<up, mem, event, started, foreign, scanned, lock, queue, worker, req,
          disk, tmp, handle, owner>>
-----------------------------------------------------------------------------
Terminal == {"done", "error", "cancelled"}          \* _TERMINAL_STATES
States   == {"queued", "running"} \cup Terminal
Garbled  == {"empty", "mixed"}     \* truncated, or with the rest of a longer text
File     == [state : States \cup Garbled \cup {"absent"}, pid : Procs \cup {"none"}]
Readable == {f \in File : f.state \notin Garbled}
NoFile   == [state |-> "absent", pid |-> "none"]
Empty    == [state |-> "empty", pid |-> "none"]
Mixed    == [state |-> "mixed", pid |-> "none"]
Handles  == {"none", "tmp", "disk", "gone"}   \* gone: a file without a name

Places == {"idle", "submit_open", "submit_write", "submit_replace", "submit_enqueue",
           "get_read", "get_lock", "cancel", "cancel_open", "cancel_write",
           "cancel_replace", "answer", "fix_open", "fix_write", "fix_replace",
           "key_error", "file_error", "scan", "scan_classify", "list", "list_lock"}
NoRun   == {"idle", "scan", "list", "file_error"}   \* places where no run is in hand
Request == {q \in [pc : Places, op : {"none", "status", "cancel", "answer", "scan", "list"},
                   run : Runs \cup {"none"}, got : Readable, todo : SUBSET Runs] :
              q.pc \notin NoRun => q.run \in Runs}
Idle    == [pc |-> "idle", op |-> "none", run |-> "none", got |-> NoFile, todo |-> {}]

Worker == {w \in [pc : {"idle", "begin", "write", "work", "publish", "finish"},
                  run : Runs \cup {"none"}, out : States, stage : 0..Stages] :
             w.pc # "idle" => w.run \in Runs}
Resting == [pc |-> "idle", run |-> "none", out |-> "queued", stage |-> 0]

Live(p)    == up[p] = "up"
Free(p)    == lock[p] = "none"                       \* nobody holds _lock
At(p, t, places) == Live(p) /\ req[p][t].pc \in places
Becomes(p, t, q)  == req' = [req EXCEPT ![p][t] = q]
Goto(p, t, place) == Becomes(p, t, [req[p][t] EXCEPT !.pc = place])
Return(p, t)      == Becomes(p, t, Idle)
Works(p, w)       == worker' = [worker EXCEPT ![p] = w]
KeepLock(p) == UNCHANGED lock                        \* fault: lock not released
AndRelease(p) == lock' = [lock EXCEPT ![p] = "none"]

\* an exception on its way to the client; _lock is released where it is held
Throw(p, t) == /\ Goto(p, t, "file_error")
               /\ IF lock[p] = t THEN AndRelease(p) ELSE UNCHANGED lock

Init ==
  /\ up      = [p \in Procs |-> "new"]
  /\ mem     = [p \in Procs |-> [r \in Runs |-> "absent"]]
  /\ event   = [p \in Procs |-> [r \in Runs |-> "absent"]]
  /\ started = [p \in Procs |-> {}]
  /\ foreign = [p \in Procs |-> {}]
  /\ scanned = [p \in Procs |-> FALSE]
  /\ lock    = [p \in Procs |-> "none"]
  /\ queue   = [p \in Procs |-> <<>>]
  /\ worker  = [p \in Procs |-> Resting]
  /\ req     = [p \in Procs |-> [t \in Threads |-> Idle]]
  /\ disk    \in {f \in [Runs -> File] :
                    \A r \in Runs : IF r \in Legacy
                      THEN f[r].state \in States /\ f[r].pid = "none"
                      ELSE f[r] = NoFile}
  /\ tmp     = [r \in Runs |-> NoFile]
  /\ handle  = [p \in Procs |-> [t \in Threads |-> "none"]]
  /\ owner   = [r \in Runs |-> IF r \in Legacy THEN "lost" ELSE "none"]
-----------------------------------------------------------------------------
(***************************************************************************)
(* _write_status, called by submit, by cancel and by the correction of a   *)
(* stale file: open the temporary file, write it, rename it over           *)
(* status.json.  It has one name per run: writers that overlap share it,   *)
(* and one whose file has been renamed by another goes on writing it,      *)
(* wherever it is by now.                                                  *)
(***************************************************************************)
Opening  == {"submit_open", "cancel_open", "fix_open"}
Filling  == {"submit_write", "cancel_write", "fix_write"}
Renaming == {"submit_replace", "cancel_replace", "fix_replace"}

\* what a thread writes
Text(p, q) ==
  CASE q.pc = "submit_write" -> [state |-> "queued", pid |-> p]
    [] q.pc = "cancel_write" -> [state |-> "cancelled", pid |-> p]
    [] q.pc = "fix_write"    -> [state |-> "error", pid |-> q.got.pid]

\* What a file holds once new is written over old.  The text of a queued run
\* is the shortest, having neither times nor an error: over another it leaves
\* the end of that one, which json.loads refuses.  Two corrections differ in
\* their time alone.
Onto(old, new) ==
  IF new.state = "queued" /\ old.state \notin {"absent", "empty", "queued"} THEN Mixed ELSE new

\* the open files of run r after status.json.tmp is renamed to status.json
Follow(r) ==
  handle' = [p \in Procs |-> [t \in Threads |->
    IF req[p][t].run # r THEN handle[p][t]
    ELSE CASE handle[p][t] = "tmp"  -> "disk"
           [] handle[p][t] = "disk" -> "gone"
           [] OTHER                 -> handle[p][t]]]

OpenTmp(p, t) ==
  /\ At(p, t, Opening)
  /\ tmp'    = [tmp EXCEPT ![req[p][t].run] = Empty]
  /\ handle' = [handle EXCEPT ![p][t] = "tmp"]
  /\ Goto(p, t, CASE req[p][t].pc = "submit_open" -> "submit_write"
                  [] req[p][t].pc = "cancel_open" -> "cancel_write"
                  [] req[p][t].pc = "fix_open"    -> "fix_write")
  /\ UNCHANGED <<up, mem, event, started, foreign, scanned, lock, queue, worker, disk, owner>>

WriteTmp(p, t) ==
  /\ At(p, t, Filling)
  /\ LET q == req[p][t]
         Filled(f, name) == IF handle[p][t] = name
                            THEN [f EXCEPT ![q.run] = Onto(@, Text(p, q))] ELSE f
     IN /\ tmp'  = Filled(tmp, "tmp")
        /\ disk' = Filled(disk, "disk")
        /\ Goto(p, t, CASE q.pc = "submit_write" -> "submit_replace"
                        [] q.pc = "cancel_write" -> "cancel_replace"
                        [] q.pc = "fix_write"    -> "fix_replace")
  /\ handle' = [handle EXCEPT ![p][t] = "none"]
  /\ UNCHANGED <<up, mem, event, started, foreign, scanned, lock, queue, worker, owner>>

Rename(r) ==
  /\ tmp[r] # NoFile
  /\ disk' = [disk EXCEPT ![r] = tmp[r]]
  /\ tmp'  = [tmp EXCEPT ![r] = NoFile]
  /\ Follow(r)

Replace(p, t) ==
  /\ At(p, t, {"submit_replace", "cancel_replace"})
  /\ Rename(req[p][t].run)
  /\ Goto(p, t, IF req[p][t].pc = "submit_replace" THEN "submit_enqueue" ELSE "answer")
  /\ UNCHANGED <<up, mem, event, started, foreign, scanned, lock, queue, worker, owner>>

\* another writer has renamed the temporary file away: FileNotFoundError
ReplaceFails(p, t) ==
  /\ At(p, t, Renaming)
  /\ tmp[req[p][t].run] = NoFile
  /\ Throw(p, t)
  /\ UNCHANGED <<up, mem, event, started, foreign, scanned, queue, worker, disk, tmp,
                 handle, owner>>
-----------------------------------------------------------------------------
(***************************************************************************)
(* submit: register under the lock, write the file and enqueue outside it. *)
(* Run ids are fresh (a microsecond timestamp).                            *)
(***************************************************************************)
Submit(p, t, r) ==
  /\ At(p, t, {"idle"}) /\ Free(p)
  /\ owner[r] = "none"
  /\ owner' = [owner EXCEPT ![r] = p]
  /\ mem'   = [mem EXCEPT ![p][r] = "queued"]
  /\ event' = [event EXCEPT ![p][r] = "clear"]
  /\ Becomes(p, t, [Idle EXCEPT !.pc = "submit_open", !.run = r])
  /\ UNCHANGED <<up, started, foreign, scanned, lock, queue, worker, disk, tmp, handle>>

Enqueue(p, t) ==
  /\ At(p, t, {"submit_enqueue"})
  /\ queue' = [queue EXCEPT ![p] = Append(@, req[p][t].run)]
  /\ Return(p, t)
  /\ UNCHANGED <<up, mem, event, started, foreign, scanned, lock, worker, disk, tmp, handle,
                 owner>>

\* the handler died of an exception: the client gets a 500
ServerError(p, t) ==
  /\ At(p, t, {"key_error", "file_error"})
  /\ Return(p, t)
  /\ UNCHANGED <<up, mem, event, started, foreign, scanned, lock, queue, worker, disk, tmp,
                 handle, owner>>
-----------------------------------------------------------------------------
(***************************************************************************)
(* The worker thread: _run, _update, and the work's callbacks.  Once the   *)
(* worker has taken a run it is the only writer of its status.json, so     *)
(* that _write_status is one step here.                                    *)
(***************************************************************************)
WorkerUnchanged == UNCHANGED <<up, scanned, lock, req, tmp, handle, owner, event, foreign>>

NothingCancelled(p, r) == FALSE           \* fault: no check before running
CancelledInQueue(p, r) == mem[p][r] = "cancelled"

\* _run's first critical section: a run cancelled in the queue is dropped
Take(p) ==
  /\ Live(p) /\ Free(p)
  /\ worker[p].pc = "idle" /\ queue[p] # <<>>
  /\ queue' = [queue EXCEPT ![p] = Tail(@)]
  /\ LET r == Head(queue[p])
     IN IF CancelledInQueue(p, r)
        THEN UNCHANGED <<started, worker>>
        ELSE /\ started' = [started EXCEPT ![p] = @ \cup {r}]
             /\ Works(p, [Resting EXCEPT !.pc = "begin", !.run = r])
  /\ UNCHANGED <<mem, disk>>
  /\ WorkerUnchanged

\* _update(state="running"): on entry and from progress()
Publish(p) ==
  /\ Live(p) /\ Free(p)
  /\ worker[p].pc \in {"begin", "publish"}
  /\ mem'    = [mem EXCEPT ![p][worker[p].run] = "running"]
  /\ Works(p, [worker[p] EXCEPT !.pc = "write", !.out = "running"])
  /\ UNCHANGED <<started, queue, disk>>
  /\ WorkerUnchanged

\* _update's file write, outside the lock
WriteStatus(p) ==
  /\ Live(p)
  /\ worker[p].pc = "write"
  /\ disk'   = [disk EXCEPT ![worker[p].run] = [state |-> worker[p].out, pid |-> p]]
  /\ Works(p, IF worker[p].out = "running" THEN [worker[p] EXCEPT !.pc = "work"]
                                           ELSE Resting)
  /\ UNCHANGED <<mem, started, queue>>
  /\ WorkerUnchanged

StagesLeft(p) == worker[p].stage < Stages

End(p, outcome) ==
  Works(p, [worker[p] EXCEPT !.pc = "finish", !.out = outcome])

\* progress(stage): raises when the event is set, else goes on to _update
Progress(p) ==
  /\ Live(p)
  /\ worker[p].pc = "work" /\ StagesLeft(p)
  /\ IF event[p][worker[p].run] = "set"
     THEN End(p, "cancelled")
     ELSE Works(p, [worker[p] EXCEPT !.pc = "publish", !.stage = @ + 1])
  /\ UNCHANGED <<mem, started, queue, disk>>
  /\ WorkerUnchanged

\* a sweep loop's should_stop() is true: it raises RunCancelledError
StopSeen(p) ==
  /\ Live(p)
  /\ worker[p].pc = "work" /\ event[p][worker[p].run] = "set"
  /\ End(p, "cancelled")
  /\ UNCHANGED <<mem, started, queue, disk>>
  /\ WorkerUnchanged

\* the work returns, or any stage of it raises
WorkEnds(p) ==
  /\ Live(p)
  /\ worker[p].pc = "work"
  /\ \/ ~StagesLeft(p) /\ End(p, "done")
     \/ End(p, "error")
  /\ UNCHANGED <<mem, started, queue, disk>>
  /\ WorkerUnchanged

\* the last _update's critical section
Settle(p) ==
  /\ Live(p) /\ Free(p)
  /\ worker[p].pc = "finish"
  /\ mem'    = [mem EXCEPT ![p][worker[p].run] = worker[p].out]
  /\ Works(p, [worker[p] EXCEPT !.pc = "write"])
  /\ UNCHANGED <<started, queue, disk>>
  /\ WorkerUnchanged

WorkerNext(p) ==
  Take(p) \/ Publish(p) \/ WriteStatus(p) \/ Progress(p) \/ StopSeen(p)
    \/ WorkEnds(p) \/ Settle(p)
-----------------------------------------------------------------------------
(***************************************************************************)
(* _classify_on_disk_running: a "running" file whose owner is dead or      *)
(* unknown becomes an error on disk and in memory; any other is left alone *)
(* and remembered as foreign, never cached.                                *)
(***************************************************************************)
AlwaysStale(got) == TRUE           \* fault: the pid's liveness is not asked
Stale(got) == got.pid = "none" \/ ~Live(got.pid)

NeverUnsettled(got) == FALSE                      \* fault: everything is cached
UnsettledUnlessFailed(got) == got.state \notin {"error", "cancelled"}    \* fault
\* the one state that is not taken at its word when it is found on disk
Unsettled(got) == got.state = "running"

\* With the lock held.  A stale file is rewritten before the lock is released,
\* and op says where the handler goes on; with one left alone it becomes q.
Classify(p, t, op, q) ==
  IF Stale(req[p][t].got)
  THEN /\ lock' = [lock EXCEPT ![p] = t]
       /\ Becomes(p, t, [req[p][t] EXCEPT !.pc = "fix_open", !.op = op])
       /\ UNCHANGED foreign
  ELSE /\ foreign' = [foreign EXCEPT ![p] = @ \cup {req[p][t].run}]
       /\ Becomes(p, t, q)
       /\ UNCHANGED lock

RequestUnchanged == UNCHANGED <<up, event, started, queue, worker, tmp, handle, owner>>

\* where the handler goes with the status registry.get returned
AfterGet(op, r, state) ==
  IF op = "cancel" /\ state \notin Terminal
  THEN [Idle EXCEPT !.pc = "cancel", !.run = r]
  ELSE Idle

\* the loop of list_all that a thread goes on with
Loop(place, todo) == [Idle EXCEPT !.pc = place, !.todo = todo]

\* the correction is on disk: remember it, and go on
Correct(p, t) ==
  /\ At(p, t, {"fix_replace"})
  /\ LET q == req[p][t]
     IN /\ Rename(q.run)
        /\ mem'     = [mem EXCEPT ![p][q.run] = "error"]
        /\ foreign' = [foreign EXCEPT ![p] = @ \ {q.run}]
        /\ IF q.op = "scan" THEN UNCHANGED lock ELSE AndRelease(p)
        /\ Becomes(p, t, IF q.op \in {"scan", "list"} THEN Loop(q.op, q.todo)
                         ELSE AfterGet(q.op, q.run, "error"))
  /\ UNCHANGED <<up, event, started, scanned, queue, worker, owner>>

\* registry.get(r), the lookup in memory: by a status or report request, at
\* the start of a cancel request, and again for the cancel request's answer
Get(p, t, r, op) ==
  /\ Free(p)
  /\ \/ At(p, t, {"idle"})   /\ op \in {"status", "cancel"} /\ owner[r] # "none"
     \/ At(p, t, {"answer"}) /\ op = "answer" /\ r = req[p][t].run
  /\ Becomes(p, t, IF mem[p][r] # "absent" THEN AfterGet(op, r, mem[p][r])
                    ELSE [Idle EXCEPT !.pc = "get_read", !.op = op, !.run = r])
  /\ UNCHANGED <<mem, foreign, scanned, lock, disk>>
  /\ RequestUnchanged

\* registry.get, the file read outside the lock; no file: the 404, and one
\* that cannot be parsed raises
GetRead(p, t) ==
  /\ At(p, t, {"get_read"})
  /\ LET found == disk[req[p][t].run]
     IN Becomes(p, t, CASE found.state = "absent"   -> Idle
                        [] found.state \in Garbled -> [req[p][t] EXCEPT !.pc = "file_error"]
                        [] OTHER -> [req[p][t] EXCEPT !.pc = "get_lock", !.got = found])
  /\ UNCHANGED <<mem, foreign, scanned, lock, disk>>
  /\ RequestUnchanged

\* registry.get, the second critical section
GetLock(p, t) ==
  /\ At(p, t, {"get_lock"}) /\ Free(p)
  /\ LET r   == req[p][t].run
         got == req[p][t].got
         known == IF mem[p][r] = "absent" THEN got.state ELSE mem[p][r]   \* setdefault
     IN IF Unsettled(got)
        THEN /\ Classify(p, t, req[p][t].op, AfterGet(req[p][t].op, r, "running"))
             /\ UNCHANGED mem
        ELSE /\ foreign' = [foreign EXCEPT ![p] = @ \ {r}]
             /\ mem'     = [mem EXCEPT ![p][r] = known]
             /\ Becomes(p, t, AfterGet(req[p][t].op, r, known))
             /\ UNCHANGED lock
  /\ UNCHANGED <<scanned, disk>>
  /\ RequestUnchanged

BegunOncePublished(p, r) == mem[p][r] = "running"   \* fault: _started unused
Begun(p, r) == r \in started[p]

\* registry.cancel's critical section
Cancel(p, t) ==
  /\ At(p, t, {"cancel"}) /\ Free(p)
  /\ LET r == req[p][t].run
     IN IF mem[p][r] \in Terminal \cup {"absent"}
        THEN /\ Goto(p, t, "answer")                    \* returns False
             /\ UNCHANGED <<mem, event>>
        ELSE IF event[p][r] = "absent"
        THEN /\ Goto(p, t, "key_error")                 \* _cancel_events[run_id]
             /\ UNCHANGED <<mem, event>>
        ELSE /\ event' = [event EXCEPT ![p][r] = "set"]
             /\ IF Begun(p, r)
                THEN /\ Goto(p, t, "answer")
                     /\ UNCHANGED mem
                ELSE /\ mem' = [mem EXCEPT ![p][r] = "cancelled"]
                     /\ Goto(p, t, "cancel_open")
  /\ UNCHANGED <<up, started, foreign, scanned, lock, queue, worker, disk, tmp, handle, owner>>
-----------------------------------------------------------------------------
(***************************************************************************)
(* list_all: the first call scans the directory with the lock held, every  *)
(* call then re-reads the foreign running runs one by one.                 *)
(***************************************************************************)
List(p, t) ==
  /\ At(p, t, {"idle"}) /\ Free(p)
  /\ IF scanned[p]
     THEN /\ Becomes(p, t, Loop("list", foreign[p]))
          /\ UNCHANGED lock
     ELSE /\ Becomes(p, t, Loop("scan", Runs))
          /\ lock' = [lock EXCEPT ![p] = t]
  /\ UNCHANGED <<mem, foreign, scanned, disk>>
  /\ RequestUnchanged

\* one directory entry of _scan_disk_locked; one that cannot be parsed ends
\* the scan
ScanVisit(p, t, r) ==
  /\ At(p, t, {"scan"}) /\ r \in req[p][t].todo
  /\ LET found   == disk[r]
         visited == [req[p][t] EXCEPT !.todo = @ \ {r}]
     IN \/ /\ mem[p][r] # "absent" \/ found.state = "absent"
           /\ Becomes(p, t, visited)
           /\ UNCHANGED <<mem, lock>>
        \/ /\ mem[p][r] = "absent" /\ found.state \in Garbled
           /\ Throw(p, t)
           /\ UNCHANGED mem
        \/ /\ mem[p][r] = "absent" /\ found.state \in States
           /\ IF Unsettled(found)
              THEN /\ Becomes(p, t, [visited EXCEPT !.pc = "scan_classify", !.run = r,
                                                     !.got = found])
                   /\ UNCHANGED mem
              ELSE /\ Becomes(p, t, visited)
                   /\ mem' = [mem EXCEPT ![p][r] = found.state]
           /\ UNCHANGED lock
  /\ UNCHANGED <<foreign, scanned, disk>>
  /\ RequestUnchanged

ScanClassify(p, t) ==
  /\ At(p, t, {"scan_classify"})
  /\ Classify(p, t, "scan", Loop("scan", req[p][t].todo))
  /\ UNCHANGED <<mem, scanned, disk>>
  /\ RequestUnchanged

ScanEnd(p, t) ==
  /\ At(p, t, {"scan"}) /\ req[p][t].todo = {}
  /\ scanned' = [scanned EXCEPT ![p] = TRUE]
  /\ AndRelease(p)
  /\ Becomes(p, t, Loop("list", foreign[p]))
  /\ UNCHANGED <<mem, foreign, disk>>
  /\ RequestUnchanged

\* the loop over foreign_ids: read the file, without the lock ...
ListRead(p, t, r) ==
  /\ At(p, t, {"list"}) /\ r \in req[p][t].todo
  /\ LET rest == [req[p][t] EXCEPT !.todo = @ \ {r}]
     IN Becomes(p, t, CASE disk[r].state = "absent"   -> rest
                        [] disk[r].state \in Garbled -> [rest EXCEPT !.pc = "file_error"]
                        [] OTHER -> [rest EXCEPT !.pc = "list_lock", !.run = r, !.got = disk[r]])
  /\ UNCHANGED <<mem, foreign, scanned, lock, disk>>
  /\ RequestUnchanged

\* ... then act on what was read, with it
ListLock(p, t) ==
  /\ At(p, t, {"list_lock"}) /\ Free(p)
  /\ LET r    == req[p][t].run
         got  == req[p][t].got
         next == Loop("list", req[p][t].todo)
     IN IF Unsettled(got)
        THEN /\ Classify(p, t, "list", next)
             /\ UNCHANGED mem
        ELSE /\ foreign' = [foreign EXCEPT ![p] = @ \ {r}]
             /\ mem'     = [mem EXCEPT ![p][r] = got.state]
             /\ Becomes(p, t, next)
             /\ UNCHANGED lock
  /\ UNCHANGED <<scanned, disk>>
  /\ RequestUnchanged

ListEnd(p, t) ==
  /\ At(p, t, {"list"}) /\ req[p][t].todo = {}
  /\ Return(p, t)
  /\ UNCHANGED <<mem, foreign, scanned, lock, disk>>
  /\ RequestUnchanged
-----------------------------------------------------------------------------
(***************************************************************************)
(* Processes.  A dead process leaves its files, whatever it was doing.     *)
(***************************************************************************)
Boot(p) ==
  /\ up[p] = "new"
  /\ Siblings \/ \A q \in Procs : ~Live(q)
  /\ up' = [up EXCEPT ![p] = "up"]
  /\ UNCHANGED <<mem, event, started, foreign, scanned, lock, queue, worker, req,
                 disk, tmp, handle, owner>>

Crash(p) ==
  /\ Live(p)
  /\ up'      = [up EXCEPT ![p] = IF \E q \in Procs \ {p} : Live(q) THEN "outlived" ELSE "dead"]
  /\ mem'     = [mem EXCEPT ![p] = [r \in Runs |-> "absent"]]
  /\ event'   = [event EXCEPT ![p] = [r \in Runs |-> "absent"]]
  /\ started' = [started EXCEPT ![p] = {}]
  /\ foreign' = [foreign EXCEPT ![p] = {}]
  /\ scanned' = [scanned EXCEPT ![p] = FALSE]
  /\ lock'    = [lock EXCEPT ![p] = "none"]
  /\ queue'   = [queue EXCEPT ![p] = <<>>]
  /\ worker'  = [worker EXCEPT ![p] = Resting]
  /\ req'     = [req EXCEPT ![p] = [t \in Threads |-> Idle]]
  /\ handle'  = [handle EXCEPT ![p] = [t \in Threads |-> "none"]]
  /\ owner'   = [r \in Runs |-> IF owner[r] = p THEN "lost" ELSE owner[r]]
  /\ UNCHANGED <<disk, tmp>>

-----------------------------------------------------------------------------
RequestNext(p, t) ==
  \/ OpenTmp(p, t) \/ WriteTmp(p, t) \/ Replace(p, t) \/ ReplaceFails(p, t)
  \/ Correct(p, t) \/ Enqueue(p, t) \/ ServerError(p, t)
  \/ \E r \in Runs : Get(p, t, r, "answer")
  \/ GetRead(p, t) \/ GetLock(p, t) \/ Cancel(p, t)
  \/ \E r \in Runs : ScanVisit(p, t, r) \/ ListRead(p, t, r)
  \/ ScanClassify(p, t) \/ ScanEnd(p, t) \/ ListLock(p, t) \/ ListEnd(p, t)

\* a client's request reaches an idle thread
Arrive(p, t) ==
  \/ \E r \in Runs : Submit(p, t, r) \/ Get(p, t, r, "status") \/ Get(p, t, r, "cancel")
  \/ List(p, t)

Next ==
  \E p \in Procs :
    \/ Boot(p) \/ Crash(p) \/ WorkerNext(p)
    \/ \E t \in Threads : Arrive(p, t) \/ RequestNext(p, t)

Spec == Init /\ [][Next]_vars

\* A thread that can take its next step takes it: the worker, whose work is a
\* finite list of stages, and a handler that has begun.  Clients owe nothing.
Fairness ==
  \A p \in Procs :
    /\ WF_vars(WorkerNext(p))
    /\ \A t \in Threads : WF_vars(RequestNext(p, t))

FairSpec == Spec /\ Fairness
-----------------------------------------------------------------------------
\* Every variable keeps to the values the code gives it, and a request thread
\* past the arrival of its request has a run in hand.
TypeOK ==
  /\ up      \in [Procs -> {"new", "up", "dead", "outlived"}]
  /\ mem     \in [Procs -> [Runs -> States \cup {"absent"}]]
  /\ event   \in [Procs -> [Runs -> {"absent", "clear", "set"}]]
  /\ started \in [Procs -> SUBSET Runs]
  /\ foreign \in [Procs -> SUBSET Runs]
  /\ scanned \in [Procs -> BOOLEAN]
  /\ lock    \in [Procs -> Threads \cup {"none"}]
  /\ queue   \in [Procs -> Seq(Runs)]
  /\ worker  \in [Procs -> Worker]
  /\ req     \in [Procs -> [Threads -> Request]]
  /\ disk    \in [Runs -> File]
  /\ tmp     \in [Runs -> File]
  /\ handle  \in [Procs -> [Threads -> Handles]]
  /\ owner   \in [Runs -> Procs \cup {"none", "lost"}]
-----------------------------------------------------------------------------
(***************************************************************************)
(* The inductive invariant behind the safety properties: which registry a  *)
(* run belongs to, where it stands there, and what a thread that has it in *)
(* hand may assume about it.                                               *)
(***************************************************************************)
Submitting == {"submit_open", "submit_write", "submit_replace", "submit_enqueue"}
Fixing     == {"fix_open", "fix_write", "fix_replace"}
Borrowing  == {"get_read", "get_lock", "scan_classify", "list_lock"} \cup Fixing
Touching   == {"cancel", "cancel_open", "cancel_write", "cancel_replace", "answer"}
Looping    == {"list", "list_lock"}

Elsewhere(p, r) == owner[r] \notin {"none", p}    \* accepted, not by p

\* the registry that accepted a run never forgets it, and no other says that
\* it is running
OwnerRemembers ==
  \A p \in Procs, r \in Runs :
    IF owner[r] = p
    THEN /\ mem[p][r] # "absent"
         /\ r \notin started[p] => mem[p][r] \in {"queued", "cancelled"}
    ELSE mem[p][r] # "running"

\* a run that was started has ended or is in the worker's hands
StartedIsInWork ==
  \A p \in Procs, r \in Runs :
    r \in started[p] => /\ owner[r] = p
                        /\ \/ mem[p][r] \in Terminal
                           \/ worker[p].pc # "idle" /\ worker[p].run = r

\* the state s that memory has for the run of a worker that stands at w
InStep(w, s) ==
  /\ w.pc = "begin" => s = "queued"
  /\ w.pc \in {"work", "publish", "finish"} => s = "running"
  /\ w.pc = "write" => s = w.out /\ w.out \in Terminal \cup {"running"}
  /\ w.pc = "finish" => w.out \in Terminal

WorkerInStep ==
  \A p \in Procs :
    worker[p].pc # "idle" => /\ worker[p].run \in started[p]
                             /\ InStep(worker[p], mem[p][worker[p].run])

QueueIsWaiting ==
  \A p \in Procs : \A i \in 1..Len(queue[p]) :
    /\ owner[queue[p][i]] = p
    /\ queue[p][i] \notin started[p]
    /\ \A j \in 1..Len(queue[p]) : j # i => queue[p][j] # queue[p][i]

\* what a thread of p in place q knows of the runs it holds
Sound(p, q) ==
  /\ q.pc \in Submitting => /\ owner[q.run] = p
                            /\ q.run \notin started[p]
                            /\ \A i \in 1..Len(queue[p]) : queue[p][i] # q.run
  /\ q.pc \in Borrowing => Elsewhere(p, q.run)
  /\ q.pc \in Touching  => owner[q.run] # "none"
  /\ q.pc \in {"get_read", "get_lock"} => q.op \notin {"scan", "list"}
  /\ q.pc \in Looping \/ (q.pc \in Fixing /\ q.op = "list") => \A r \in q.todo : Elsewhere(p, r)

RequestsSound == \A p \in Procs, t \in Threads : Sound(p, req[p][t])

SubmittedOnce ==
  \A p \in Procs : \A t1, t2 \in Threads :
    /\ t1 # t2
    /\ req[p][t1].pc \in Submitting
    /\ req[p][t2].pc \in Submitting
    => req[p][t1].run # req[p][t2].run

ForeignIsElsewhere == \A p \in Procs : \A r \in foreign[p] : Elsewhere(p, r)

FilesAreOwned ==
  \A r \in Runs : owner[r] = "none" => disk[r].state = "absent" /\ tmp[r] = NoFile

\* Ownership: a registry changes the state of the runs it accepted and of no
\* other, its worker and its requests agree with it on where each run stands,
\* and a run waits in the queue at most once.
Ownership ==
  /\ OwnerRemembers /\ StartedIsInWork /\ WorkerInStep /\ QueueIsWaiting
  /\ RequestsSound /\ SubmittedOnce /\ ForeignIsElsewhere /\ FilesAreOwned
-----------------------------------------------------------------------------
\* Nothing but the registry that accepted a run moves it, and it moves as
\* JobLifecycle says, whatever get, list_all, cancel, a restart or a sibling
\* process read and cache meanwhile: in particular no terminal state is ever
\* revised in memory, and a run cancelled in the queue never executes.
RunLife == [r \in Runs |-> IF owner[r] \in Procs THEN mem[owner[r]][r] ELSE owner[r]]
Lifecycle == INSTANCE JobLifecycle WITH life <- RunLife
RefinesLifecycle == Lifecycle!LSpec

\* A registry that reports "running" from memory is executing that run right
\* now: another process's run, or a dead one's, is never cached as running by
\* get, list_all or the directory scan.
RunningIsExecuting ==
  \A p \in Procs, r \in Runs :
    mem[p][r] = "running" => /\ owner[r] = p
                             /\ worker[p].run = r
                             /\ worker[p].pc # "begin"

\* A thread of p that is between changing r's state in memory and the file.
Mirroring(p, r) ==
  \/ \E t \in Threads : /\ req[p][t].run = r
                        /\ req[p][t].pc \in Opening \cup Filling \cup Renaming
  \/ worker[p].run = r /\ worker[p].pc = "write"

\* When nobody is writing it, the file of a live process's run says what the
\* registry says.  The exception is a run cancelled while submit was still
\* writing its file, which may keep saying "queued" or, where the two texts
\* went into one file, nothing that can be parsed.
FileMirrorsMemory ==
  \A p \in Procs, r \in Runs :
    owner[r] = p /\ ~Mirroring(p, r) =>
      \/ disk[r] = [state |-> mem[p][r], pid |-> p]
      \/ /\ mem[p][r] = "cancelled"
         /\ disk[r] = [state |-> "queued", pid |-> p] \/ disk[r].state = "mixed"

\* A live process's run is turned into an error by that process's own worker
\* alone: the correction of stale "running" files never hits it.
LiveRunNeverCorrected ==
  [][\A r \in Runs :
       disk'[r].state = "error" /\ disk[r].state # "error" /\ owner[r] \in Procs =>
         worker[owner[r]].run = r /\ worker[owner[r]].out = "error"]_vars

\* What a restart recovers is promised for processes that follow each other.
\* Two that have been up at once still are, or one outlived the other.
Mingled ==
  \/ \E p, q \in Procs : p # q /\ Live(p) /\ Live(q)
  \/ \E p \in Procs : up[p] = "outlived"

\* After a scan no file of a dead process still says "running": the restart
\* has corrected every run that died with its process.
ScanRecovers ==
  \A p \in Procs, r \in Runs :
    ~Mingled /\ scanned[p] /\ owner[r] = "lost" => disk[r].state # "running"

\* A result on disk outlives its process: no restart rewrites "done" or an
\* error the run itself reported.
OutcomeIsDurable ==
  [][\A r \in Runs : ~Mingled' /\ disk[r].state \in {"done", "error"}
       => disk'[r] = disk[r]]_vars

\* Every accepted run ends, cancelled or not, unless its process dies.
EveryRunEnds ==
  \A r \in Runs : owner[r] \in Procs ~> RunLife[r] \in Terminal \cup {"lost"}

\* jobs.py:160: cancel returns True for a queued or running run and False for
\* an unknown or terminal one; it has no third outcome.
CancelNeverRaises ==
  \A p \in Procs, t \in Threads : req[p][t].pc # "key_error"
=============================================================================
