------------------------- MODULE JobRegistryProofs -------------------------
(***************************************************************************)
(* Proofs about JobRegistry for any number of processes, runs, request     *)
(* threads and stages, with or without sibling processes: first the types, *)
(* then Ownership; from it, a registry reports "running" for the run it    *)
(* executes only, and the registry implements JobLifecycle.                *)
(***************************************************************************)
EXTENDS JobRegistry, SequenceTheorems, TLAPS

-----------------------------------------------------------------------------
(***************************************************************************)
(* The records of the request threads and of the worker: what their fields *)
(* are, and that the updates the actions make stay in the type.            *)
(***************************************************************************)
LEMMA RequestFields ==
  ASSUME NEW q \in Request
  PROVE  /\ q.pc \in Places
         /\ q.run \in Runs \cup {"none"}
         /\ q.pc \notin NoRun => q.run \in Runs
         /\ q.got \in File /\ q.got.state \in States \cup {"absent"}
         /\ q.op \in {"none", "status", "cancel", "answer", "scan", "list"}
         /\ q.todo \in SUBSET Runs
<1>1. q.got \in File /\ q.got.state \notin Garbled
  BY DEF Request, Readable
<1>2. q.got.state \in States \cup {"absent"}
  BY <1>1 DEF File
<1> QED
  BY <1>1, <1>2 DEF Request

LEMMA IdleType == Idle \in Request
  BY DEF Idle, Request, NoFile, File, Readable, Garbled, Places, NoRun

\* the same run in hand, elsewhere
LEMMA MovePc ==
  ASSUME NEW q \in Request, q.run \in Runs, NEW place \in Places
  PROVE  [q EXCEPT !.pc = place] \in Request
  BY DEF Request

\* a run is taken in hand
LEMMA TakeRun ==
  ASSUME NEW r \in Runs, NEW place \in Places
  PROVE  [Idle EXCEPT !.pc = place, !.run = r] \in Request
  BY IdleType DEF Request

LEMMA TakeRunFor ==
  ASSUME NEW r \in Runs, NEW place \in Places,
         NEW op \in {"none", "status", "cancel", "answer", "scan", "list"}
  PROVE  [Idle EXCEPT !.pc = place, !.op = op, !.run = r] \in Request
  BY IdleType DEF Request

\* its file has been read
LEMMA HoldFile ==
  ASSUME NEW q \in Request, q.run \in Runs, NEW place \in Places, NEW got \in Readable
  PROVE  [q EXCEPT !.pc = place, !.got = got] \in Request
  BY DEF Request

LEMMA HoldRunAndFile ==
  ASSUME NEW q \in Request, NEW place \in Places, NEW r \in Runs, NEW got \in Readable
  PROVE  [q EXCEPT !.pc = place, !.run = r, !.got = got] \in Request
  BY DEF Request

\* a stale one is going to be corrected
LEMMA TakeFix ==
  ASSUME NEW q \in Request, q.run \in Runs,
         NEW op \in {"none", "status", "cancel", "answer", "scan", "list"}
  PROVE  [q EXCEPT !.pc = "fix_open", !.op = op] \in Request
  BY DEF Request, Places

\* the loops over run directories
LEMMA StartLoop ==
  ASSUME NEW place \in {"scan", "list"}, NEW todo \in SUBSET Runs
  PROVE  Loop(place, todo) \in Request
  BY IdleType DEF Loop, Request, NoRun, Places

LEMMA LessTodo ==
  ASSUME NEW q \in Request, NEW r \in Runs
  PROVE  /\ [q EXCEPT !.todo = @ \ {r}] \in Request
         /\ [[q EXCEPT !.todo = @ \ {r}] EXCEPT !.pc = "file_error"] \in Request
  BY DEF Request, NoRun, Places

LEMMA ErrorType == ASSUME NEW q \in Request PROVE [q EXCEPT !.pc = "file_error"] \in Request
  BY DEF Request, NoRun, Places

LEMMA FileFields ==
  ASSUME NEW f \in File
  PROVE  f.state \in States \cup Garbled \cup {"absent"} /\ f.pid \in Procs \cup {"none"}
  BY DEF File

LEMMA FileForms ==
  /\ NoFile \in File /\ Empty \in File /\ Mixed \in File
  /\ \A s \in States, p \in Procs \cup {"none"} : [state |-> s, pid |-> p] \in File
  BY DEF File, NoFile, Empty, Mixed, Garbled

LEMMA ReadableFiles ==
  ASSUME NEW f \in File, f.state \notin Garbled
  PROVE  f \in Readable
  BY DEF Readable

\* what a thread writes, and what the file it writes to holds then
LEMMA Written ==
  ASSUME NEW p \in Procs, NEW q \in Request, q.pc \in Filling, NEW old
  PROVE  /\ \/ Text(p, q) = [state |-> "queued", pid |-> p] /\ q.pc = "submit_write"
            \/ Text(p, q) = [state |-> "cancelled", pid |-> p] /\ q.pc = "cancel_write"
            \/ Text(p, q) = [state |-> "error", pid |-> q.got.pid] /\ q.pc = "fix_write"
         /\ Text(p, q) \in File
         /\ Onto(old, Text(p, q)) \in {Text(p, q), Mixed}
         /\ Onto(old, Text(p, q)) = Mixed =>
              q.pc = "submit_write" /\ old.state \notin {"absent", "empty", "queued"}
<1>1. \/ Text(p, q) = [state |-> "queued", pid |-> p] /\ q.pc = "submit_write"
      \/ Text(p, q) = [state |-> "cancelled", pid |-> p] /\ q.pc = "cancel_write"
      \/ Text(p, q) = [state |-> "error", pid |-> q.got.pid] /\ q.pc = "fix_write"
  BY DEF Text, Filling
<1>2. q.got.pid \in Procs \cup {"none"}
  BY RequestFields, FileFields
<1>3. Text(p, q) \in File
  BY <1>1, <1>2, FileForms DEF States, Terminal
<1>4. Onto(old, Text(p, q)) \in {Text(p, q), Mixed}
  BY DEF Onto
<1>5. Onto(old, Text(p, q)) = Mixed =>
        q.pc = "submit_write" /\ old.state \notin {"absent", "empty", "queued"}
  BY <1>1 DEF Onto, Mixed
<1> QED
  BY <1>1, <1>3, <1>4, <1>5

LEMMA WorkerFields ==
  ASSUME NEW w \in Worker
  PROVE  /\ w.pc # "idle" => w.run \in Runs
         /\ w.out \in States
         /\ w.stage \in 0..Stages
  BY DEF Worker

LEMMA RestingType == Resting \in Worker
  BY ConstantsAssumption DEF Resting, Worker, States

LEMMA WorkerPc ==
  ASSUME NEW w \in Worker, w.pc # "idle",
         NEW place \in {"begin", "write", "work", "publish", "finish"}
  PROVE  [w EXCEPT !.pc = place] \in Worker
  BY DEF Worker

LEMMA WorkerOut ==
  ASSUME NEW w \in Worker, w.pc # "idle", NEW out \in States,
         NEW place \in {"begin", "write", "work", "publish", "finish"}
  PROVE  [w EXCEPT !.pc = place, !.out = out] \in Worker
  BY DEF Worker

LEMMA WorkerBegin ==
  ASSUME NEW r \in Runs
  PROVE  [Resting EXCEPT !.pc = "begin", !.run = r] \in Worker
  BY RestingType DEF Worker

LEMMA WorkerStage ==
  ASSUME NEW w \in Worker, w.pc # "idle", w.stage < Stages
  PROVE  [w EXCEPT !.pc = "publish", !.stage = @ + 1] \in Worker
<1>1. w.stage + 1 \in 0..Stages
  BY ConstantsAssumption, WorkerFields
<1> QED
  BY <1>1 DEF Worker

\* one thread moves, the others stay where they are
LEMMA OneMoves ==
  ASSUME req \in [Procs -> [Threads -> Request]],
         NEW p \in Procs, NEW t \in Threads, NEW q \in Request, Becomes(p, t, q)
  PROVE  /\ req' \in [Procs -> [Threads -> Request]]
         /\ req'[p][t] = q
         /\ \A p2 \in Procs, t2 \in Threads :
              p2 # p \/ t2 # t => req'[p2][t2] = req[p2][t2]
  BY DEF Becomes

LEMMA OneWorks ==
  ASSUME worker \in [Procs -> Worker], NEW p \in Procs, NEW w \in Worker, Works(p, w)
  PROVE  /\ worker' \in [Procs -> Worker]
         /\ worker'[p] = w
         /\ \A p2 \in Procs \ {p} : worker'[p2] = worker[p2]
  BY DEF Works

\* one run's state changes in one process's memory
LEMMA OneRecorded ==
  ASSUME TypeOK, NEW p \in Procs, NEW r \in Runs, NEW s \in States \cup {"absent"},
         mem' = [mem EXCEPT ![p][r] = s]
  PROVE  /\ mem' \in [Procs -> [Runs -> States \cup {"absent"}]]
         /\ mem'[p][r] = s
         /\ \A p2 \in Procs, r2 \in Runs : p2 # p \/ r2 # r => mem'[p2][r2] = mem[p2][r2]
  BY DEF TypeOK

\* one run joins or leaves a set that a process keeps
LEMMA OneJoins ==
  ASSUME NEW f \in [Procs -> SUBSET Runs], NEW p \in Procs, NEW r \in Runs
  PROVE  /\ [f EXCEPT ![p] = @ \cup {r}] \in [Procs -> SUBSET Runs]
         /\ [f EXCEPT ![p] = @ \ {r}] \in [Procs -> SUBSET Runs]
<1>1. f[p] \cup {r} \in SUBSET Runs /\ f[p] \ {r} \in SUBSET Runs
  OBVIOUS
<1> QED
  BY <1>1

\* a thread that is past the arrival of its request has a run in hand
LEMMA InHand ==
  ASSUME TypeOK, NEW p \in Procs, NEW t \in Threads, req[p][t].pc \notin NoRun
  PROVE  req[p][t] \in Request /\ req[p][t].run \in Runs
<1>1. req[p][t] \in Request
  BY DEF TypeOK
<1> QED
  BY <1>1, RequestFields

-----------------------------------------------------------------------------
(***************************************************************************)
(* Every variable keeps its type: no handler, worker step, boot or crash   *)
(* leaves the registry, a request or a file in a shape the code has no     *)
(* name for, and a thread past its request's arrival has a run in hand.    *)
(***************************************************************************)
LEMMA TypeStep == TypeOK /\ [Next]_vars => TypeOK'
<1> SUFFICES ASSUME TypeOK, [Next]_vars PROVE TypeOK'
  OBVIOUS
<1>1. ASSUME NEW p \in Procs, NEW t \in Threads, NEW r \in Runs, Submit(p, t, r)
      PROVE  TypeOK'
  <2>1. [Idle EXCEPT !.pc = "submit_open", !.run = r] \in Request
    BY TakeRun DEF Places
  <2> QED
    BY <1>1, <2>1, OneMoves DEF TypeOK, Submit, States
<1>2. ASSUME NEW p \in Procs, NEW t \in Threads, NEW r \in Runs, Rename(r)
      PROVE  disk' \in [Runs -> File] /\ tmp' \in [Runs -> File]
             /\ handle' \in [Procs -> [Threads -> Handles]]
  <2>1. disk' \in [Runs -> File] /\ tmp' \in [Runs -> File]
    BY <1>2, FileForms DEF TypeOK, Rename
  <2>2. ASSUME NEW x \in Procs, NEW u \in Threads PROVE handle[x][u] \in Handles
    BY DEF TypeOK
  <2> QED
    BY <1>2, <2>1, <2>2 DEF Rename, Follow, Handles
<1>3. ASSUME NEW p \in Procs, NEW t \in Threads,
             OpenTmp(p, t) \/ WriteTmp(p, t) \/ Replace(p, t) \/ ReplaceFails(p, t)
      PROVE  TypeOK'
  <2>1. req[p][t].pc \notin NoRun
    BY <1>3 DEF OpenTmp, WriteTmp, Replace, ReplaceFails, Opening, Filling, Renaming, At, NoRun
  <2>2. \A place \in Places : [req[p][t] EXCEPT !.pc = place] \in Request
    BY <2>1, InHand, MovePc
  <2>3. req[p][t].run \in Runs /\ req[p][t] \in Request
    BY <2>1, InHand
  <2>4. ASSUME NEW place \in Places, Goto(p, t, place) PROVE req' \in [Procs -> [Threads -> Request]]
    BY <2>2, <2>4, OneMoves DEF TypeOK, Goto
  <2>5. CASE OpenTmp(p, t)
    <3>1. req' \in [Procs -> [Threads -> Request]]
      BY <2>4, <2>5 DEF OpenTmp, Opening, At, Places
    <3>2. tmp' \in [Runs -> File] /\ handle' \in [Procs -> [Threads -> Handles]]
      BY <2>3, <2>5, FileForms DEF TypeOK, OpenTmp, Handles
    <3> QED
      BY <2>5, <3>1, <3>2 DEF TypeOK, OpenTmp
  <2>6. CASE WriteTmp(p, t)
    <3>1. req' \in [Procs -> [Threads -> Request]]
      BY <2>4, <2>6 DEF WriteTmp, Filling, At, Places
    <3>2. ASSUME NEW old \in File PROVE Onto(old, Text(p, req[p][t])) \in File
      <4>1. req[p][t].pc \in Filling
        BY <2>6 DEF WriteTmp, At
      <4> QED BY <2>3, <4>1, Written, FileForms
    <3>3. tmp' \in [Runs -> File] /\ disk' \in [Runs -> File]
      BY <2>3, <2>6, <3>2 DEF TypeOK, WriteTmp
    <3>4. handle' \in [Procs -> [Threads -> Handles]]
      BY <2>6 DEF TypeOK, WriteTmp, Handles
    <3> QED
      BY <2>6, <3>1, <3>3, <3>4 DEF TypeOK, WriteTmp
  <2>7. CASE Replace(p, t)
    <3>1. req' \in [Procs -> [Threads -> Request]]
      BY <2>4, <2>7 DEF Replace, Places
    <3> QED
      BY <1>2, <2>3, <2>7, <3>1 DEF TypeOK, Replace
  <2>8. CASE ReplaceFails(p, t)
    <3>1. req' \in [Procs -> [Threads -> Request]]
      BY <2>4, <2>8 DEF ReplaceFails, Throw, Places
    <3> QED
      BY <2>8, <3>1 DEF TypeOK, ReplaceFails, Throw, AndRelease
  <2> QED
    BY <1>3, <2>5, <2>6, <2>7, <2>8
<1>4. ASSUME NEW p \in Procs, NEW t \in Threads, Enqueue(p, t)
      PROVE  TypeOK'
  <2>1. req[p][t].run \in Runs
    BY <1>4, InHand DEF Enqueue, At, NoRun
  <2> QED
    BY <1>4, <2>1, IdleType, OneMoves DEF TypeOK, Enqueue, Return
<1>5. ASSUME NEW p \in Procs, NEW t \in Threads, ServerError(p, t)
      PROVE  TypeOK'
  BY <1>5, IdleType, OneMoves DEF TypeOK, ServerError, Return
<1>6. ASSUME NEW p \in Procs, Take(p)
      PROVE  TypeOK'
  <2>1. Head(queue[p]) \in Runs /\ Tail(queue[p]) \in Seq(Runs)
    BY <1>6 DEF Take, TypeOK
  <2>2. [Resting EXCEPT !.pc = "begin", !.run = Head(queue[p])] \in Worker
    BY <2>1, WorkerBegin
  <2>3. queue' \in [Procs -> Seq(Runs)]
    BY <1>6, <2>1 DEF TypeOK, Take
  <2>4. CASE CancelledInQueue(p, Head(queue[p]))
    BY <1>6, <2>3, <2>4 DEF TypeOK, Take, WorkerUnchanged
  <2>5. CASE ~CancelledInQueue(p, Head(queue[p]))
    <3>1. worker' \in [Procs -> Worker]
      BY <1>6, <2>2, <2>5, OneWorks DEF TypeOK, Take
    <3>2. started' \in [Procs -> SUBSET Runs]
      <4>1. started' = [started EXCEPT ![p] = @ \cup {Head(queue[p])}]
        BY <1>6, <2>5 DEF Take
      <4> QED
        BY <2>1, <4>1, OneJoins DEF TypeOK
    <3> QED
      BY <1>6, <2>3, <3>1, <3>2 DEF TypeOK, Take, WorkerUnchanged
  <2> QED
    BY <2>4, <2>5
<1>7. ASSUME NEW p \in Procs, Publish(p)
      PROVE  TypeOK'
  <2>1. worker[p] \in Worker /\ worker[p].pc # "idle"
    BY <1>7 DEF TypeOK, Publish
  <2>2. [worker[p] EXCEPT !.pc = "write", !.out = "running"] \in Worker
    BY <2>1, WorkerOut DEF States
  <2> QED
    BY <1>7, <2>1, <2>2, WorkerFields, OneWorks DEF TypeOK, Publish, WorkerUnchanged, States
<1>8. ASSUME NEW p \in Procs, WriteStatus(p)
      PROVE  TypeOK'
  <2>1. worker[p] \in Worker /\ worker[p].pc # "idle"
    BY <1>8 DEF TypeOK, WriteStatus
  <2>2. [worker[p] EXCEPT !.pc = "work"] \in Worker
    BY <2>1, WorkerPc
  <2>3. [state |-> worker[p].out, pid |-> p] \in File
    BY <2>1, WorkerFields, FileForms
  <2>4. worker' \in [Procs -> Worker]
    BY <1>8, <2>2, RestingType, OneWorks DEF TypeOK, WriteStatus
  <2> QED
    BY <1>8, <2>3, <2>4 DEF TypeOK, WriteStatus, WorkerUnchanged
<1>9. ASSUME NEW p \in Procs, Progress(p)
      PROVE  TypeOK'
  <2>1. worker[p] \in Worker /\ worker[p].pc # "idle"
    BY <1>9 DEF TypeOK, Progress
  <2>2. [worker[p] EXCEPT !.pc = "finish", !.out = "cancelled"] \in Worker
    BY <2>1, WorkerOut DEF States, Terminal
  <2>3. worker[p].stage < Stages =>
          [worker[p] EXCEPT !.pc = "publish", !.stage = @ + 1] \in Worker
    BY <2>1, WorkerStage
  <2> QED
    BY <1>9, <2>2, <2>3, OneWorks DEF TypeOK, Progress, StagesLeft, End, WorkerUnchanged
<1>10. ASSUME NEW p \in Procs, StopSeen(p) \/ WorkEnds(p)
       PROVE  TypeOK'
  <2>1. worker[p] \in Worker /\ worker[p].pc # "idle"
    BY <1>10 DEF TypeOK, StopSeen, WorkEnds
  <2>2. \A o \in Terminal : [worker[p] EXCEPT !.pc = "finish", !.out = o] \in Worker
    BY <2>1, WorkerOut DEF States
  <2> QED
    BY <1>10, <2>2, OneWorks
    DEF TypeOK, StopSeen, WorkEnds, End, WorkerUnchanged, Terminal
<1>11. ASSUME NEW p \in Procs, Settle(p)
       PROVE  TypeOK'
  <2>1. worker[p] \in Worker /\ worker[p].pc # "idle"
    BY <1>11 DEF TypeOK, Settle
  <2>2. [worker[p] EXCEPT !.pc = "write"] \in Worker
    BY <2>1, WorkerPc
  <2> QED
    BY <1>11, <2>1, <2>2, WorkerFields, OneWorks DEF TypeOK, Settle, WorkerUnchanged
<1>12. ASSUME NEW p \in Procs, NEW t \in Threads, NEW r \in Runs,
              NEW op \in {"status", "cancel", "answer"}, Get(p, t, r, op)
       PROVE  TypeOK'
  <2>1. [Idle EXCEPT !.pc = "get_read", !.op = op, !.run = r] \in Request
    BY TakeRunFor, ZenonT(60) DEF Places
  <2>2. AfterGet(op, r, mem[p][r]) \in Request
    BY IdleType, TakeRun DEF AfterGet, Places
  <2> QED
    BY <1>12, <2>1, <2>2, OneMoves DEF TypeOK, Get, RequestUnchanged
<1>13. ASSUME NEW p \in Procs, NEW t \in Threads, GetRead(p, t)
       PROVE  TypeOK'
  <2>1. req[p][t].pc \notin NoRun
    BY <1>13 DEF GetRead, At, NoRun
  <2>2. /\ disk[req[p][t].run].state \notin Garbled =>
             [req[p][t] EXCEPT !.pc = "get_lock", !.got = disk[req[p][t].run]] \in Request
        /\ [req[p][t] EXCEPT !.pc = "file_error"] \in Request
    BY <2>1, InHand, HoldFile, ReadableFiles, ErrorType, ZenonT(60) DEF TypeOK, Places
  <2> QED
    BY <1>13, <2>2, IdleType, OneMoves DEF TypeOK, GetRead, RequestUnchanged
<1>14. ASSUME NEW p \in Procs, NEW t \in Threads, req[p][t] \in Request, req[p][t].run \in Runs,
              NEW op \in {"none", "status", "cancel", "answer", "scan", "list"},
              NEW q \in Request, Classify(p, t, op, q)
       PROVE  /\ req' \in [Procs -> [Threads -> Request]]
              /\ lock' \in [Procs -> Threads \cup {"none"}]
              /\ foreign' \in [Procs -> SUBSET Runs]
  <2>1. CASE Stale(req[p][t].got)
    <3> DEFINE fix == [req[p][t] EXCEPT !.pc = "fix_open", !.op = op]
    <3>1. Becomes(p, t, fix) /\ lock' = [lock EXCEPT ![p] = t] /\ UNCHANGED foreign
      BY <1>14, <2>1 DEF Classify
    <3>2. fix \in Request
      BY <1>14, TakeFix
    <3> HIDE DEF fix
    <3> QED
      BY <3>1, <3>2, OneMoves DEF TypeOK
  <2>2. CASE ~Stale(req[p][t].got)
    <3>1. /\ Becomes(p, t, q) /\ UNCHANGED lock
          /\ foreign' = [foreign EXCEPT ![p] = @ \cup {req[p][t].run}]
      BY <1>14, <2>2 DEF Classify
    <3>2. foreign' \in [Procs -> SUBSET Runs]
      BY <1>14, <3>1, OneJoins DEF TypeOK
    <3> QED
      BY <3>1, <3>2, OneMoves DEF TypeOK
  <2> QED
    BY <2>1, <2>2
<1>15. ASSUME NEW p \in Procs, NEW t \in Threads, GetLock(p, t)
       PROVE  TypeOK'
  <2> DEFINE q == req[p][t]
  <2>1. /\ q \in Request /\ q.run \in Runs /\ q.got.state \in States \cup {"absent"}
        /\ q.op \in {"none", "status", "cancel", "answer", "scan", "list"}
    BY <1>15, InHand, RequestFields DEF GetLock, At, NoRun
  <2>2. \A s : AfterGet(q.op, q.run, s) \in Request
    BY <2>1, IdleType, TakeRun DEF AfterGet, Places
  <2>5. CASE Unsettled(q.got)
    <3>1. Classify(p, t, q.op, AfterGet(q.op, q.run, "running"))
      BY <1>15, <2>5 DEF GetLock
    <3>2. /\ req' \in [Procs -> [Threads -> Request]]
          /\ lock' \in [Procs -> Threads \cup {"none"}]
          /\ foreign' \in [Procs -> SUBSET Runs]
      BY <1>14, <2>1, <2>2, <3>1
    <3> QED
      BY <1>15, <2>5, <3>2 DEF TypeOK, GetLock, RequestUnchanged
  <2>6. CASE ~Unsettled(q.got)
    <3> DEFINE known == IF mem[p][q.run] = "absent" THEN q.got.state ELSE mem[p][q.run]
    <3>1. /\ mem' = [mem EXCEPT ![p][q.run] = known]
          /\ foreign' = [foreign EXCEPT ![p] = @ \ {q.run}]
          /\ Becomes(p, t, AfterGet(q.op, q.run, known)) /\ UNCHANGED lock
      BY <1>15, <2>6 DEF GetLock
    <3>4. known \in States \cup {"absent"}
      BY <2>1 DEF TypeOK
    <3>5. foreign' \in [Procs -> SUBSET Runs]
      BY <2>1, <3>1, OneJoins DEF TypeOK
    <3>2. mem' \in [Procs -> [Runs -> States \cup {"absent"}]]
      BY <2>1, <3>1, <3>4, OneRecorded
    <3>3. req' \in [Procs -> [Threads -> Request]]
      BY <2>2, <3>1, OneMoves DEF TypeOK
    <3> QED
      BY <1>15, <3>1, <3>2, <3>3, <3>5 DEF TypeOK, GetLock, RequestUnchanged
  <2> QED
    BY <2>5, <2>6
<1>25. ASSUME NEW p \in Procs, NEW t \in Threads, Correct(p, t)
       PROVE  TypeOK'
  <2> DEFINE q == req[p][t]
  <2>1. /\ q \in Request /\ q.run \in Runs /\ q.todo \in SUBSET Runs
        /\ Rename(q.run)
        /\ mem' = [mem EXCEPT ![p][q.run] = "error"]
        /\ foreign' = [foreign EXCEPT ![p] = @ \ {q.run}]
        /\ UNCHANGED lock \/ AndRelease(p)
        /\ UNCHANGED <<up, event, started, scanned, queue, worker, owner>>
    BY <1>25, InHand, RequestFields DEF Correct, At, NoRun
  <2>2. Becomes(p, t, IF q.op \in {"scan", "list"} THEN Loop(q.op, q.todo)
                      ELSE AfterGet(q.op, q.run, "error"))
    BY <1>25 DEF Correct
  <2>3. AfterGet(q.op, q.run, "error") \in Request
    BY <2>1, IdleType, TakeRun DEF AfterGet, Places
  <2>4. q.op \in {"scan", "list"} => Loop(q.op, q.todo) \in Request
    BY <2>1, StartLoop
  <2> HIDE DEF q
  <2>5. req' \in [Procs -> [Threads -> Request]]
    BY <2>2, <2>3, <2>4, OneMoves DEF TypeOK
  <2>6. mem' \in [Procs -> [Runs -> States \cup {"absent"}]]
    BY <2>1, OneRecorded DEF States, Terminal
  <2>7. foreign' \in [Procs -> SUBSET Runs]
    BY <2>1, OneJoins DEF TypeOK
  <2>8. /\ disk' \in [Runs -> File] /\ tmp' \in [Runs -> File]
        /\ handle' \in [Procs -> [Threads -> Handles]]
    BY <1>2, <2>1
  <2>9. lock' \in [Procs -> Threads \cup {"none"}]
    BY <2>1 DEF TypeOK, AndRelease
  <2> QED
    BY <2>1, <2>5, <2>6, <2>7, <2>8, <2>9 DEF TypeOK
<1>16. ASSUME NEW p \in Procs, NEW t \in Threads, Cancel(p, t)
       PROVE  TypeOK'
  <2>1. req[p][t].pc \notin NoRun
    BY <1>16 DEF Cancel, At, NoRun
  <2>2. \A place \in Places : [req[p][t] EXCEPT !.pc = place] \in Request
    BY <2>1, InHand, MovePc
  <2>3. req' \in [Procs -> [Threads -> Request]]
    BY <1>16, <2>2, OneMoves DEF TypeOK, Cancel, Goto, Places
  <2>4. mem' \in [Procs -> [Runs -> States \cup {"absent"}]]
    <3>1. CASE UNCHANGED mem
      BY <3>1 DEF TypeOK
    <3>2. CASE mem' = [mem EXCEPT ![p][req[p][t].run] = "cancelled"]
      BY <2>1, <3>2, InHand, OneRecorded DEF States, Terminal
    <3> QED
      BY <1>16, <3>1, <3>2 DEF Cancel
  <2>5. event' \in [Procs -> [Runs -> {"absent", "clear", "set"}]]
    <3>1. CASE UNCHANGED event
      BY <3>1 DEF TypeOK
    <3>2. CASE event' = [event EXCEPT ![p][req[p][t].run] = "set"]
      BY <2>1, <3>2, InHand DEF TypeOK
    <3> QED
      BY <1>16, <3>1, <3>2 DEF Cancel
  <2> QED
    BY <1>16, <2>3, <2>4, <2>5 DEF TypeOK, Cancel
<1>17. ASSUME NEW p \in Procs, NEW t \in Threads, List(p, t)
       PROVE  TypeOK'
  <2>1. Loop("list", foreign[p]) \in Request /\ Loop("scan", Runs) \in Request
    BY StartLoop DEF TypeOK
  <2>2. CASE scanned[p]
    BY <1>17, <2>1, <2>2, OneMoves DEF TypeOK, List, RequestUnchanged
  <2>3. CASE ~scanned[p]
    <3>1. req' \in [Procs -> [Threads -> Request]]
      BY <1>17, <2>1, <2>3, OneMoves DEF TypeOK, List
    <3> QED
      BY <1>17, <2>3, <3>1 DEF TypeOK, List, RequestUnchanged
  <2> QED
    BY <2>2, <2>3
<1>18. ASSUME NEW p \in Procs, NEW t \in Threads, NEW r \in Runs,
              ScanVisit(p, t, r) \/ ListRead(p, t, r)
       PROVE  TypeOK'
  <2>1. req[p][t] \in Request /\ disk[r] \in File
    BY DEF TypeOK
  <2> DEFINE rest == [req[p][t] EXCEPT !.todo = @ \ {r}]
  <2>2. /\ rest \in Request /\ [rest EXCEPT !.pc = "file_error"] \in Request
        /\ [req[p][t] EXCEPT !.pc = "file_error"] \in Request
    BY <2>1, LessTodo, ErrorType
  <2>3. disk[r].state \notin Garbled =>
          \A place \in Places : [rest EXCEPT !.pc = place, !.run = r, !.got = disk[r]] \in Request
    BY <2>1, <2>2, HoldRunAndFile, ReadableFiles
  <2>4. States \cap Garbled = {} /\ {"scan_classify", "list_lock"} \subseteq Places
    BY DEF States, Terminal, Garbled, Places
  <2>7. ASSUME NEW q \in Request, Becomes(p, t, q) PROVE req' \in [Procs -> [Threads -> Request]]
    BY <2>7, OneMoves DEF TypeOK
  <2>5. req' \in [Procs -> [Threads -> Request]]
    <3>1. CASE ScanVisit(p, t, r)
      BY <2>2, <2>3, <2>4, <2>7, <3>1 DEF ScanVisit, Throw, Goto
    <3>2. CASE ListRead(p, t, r)
      BY <2>2, <2>3, <2>4, <2>7, <3>2 DEF ListRead
    <3> QED
      BY <1>18, <3>1, <3>2
  <2>6. mem' \in [Procs -> [Runs -> States \cup {"absent"}]]
    <3>1. CASE UNCHANGED mem
      BY <3>1 DEF TypeOK
    <3>2. CASE mem' = [mem EXCEPT ![p][r] = disk[r].state] /\ disk[r].state \in States
      BY <3>2, OneRecorded
    <3> QED
      BY <1>18, <3>1, <3>2 DEF ScanVisit, ListRead, RequestUnchanged
  <2>8. lock' \in [Procs -> Threads \cup {"none"}]
    BY <1>18 DEF TypeOK, ScanVisit, ListRead, Throw, AndRelease, RequestUnchanged
  <2> QED
    BY <1>18, <2>5, <2>6, <2>8 DEF TypeOK, ScanVisit, ListRead, RequestUnchanged
<1>19. ASSUME NEW p \in Procs, NEW t \in Threads, ScanClassify(p, t) \/ ListLock(p, t)
       PROVE  TypeOK'
  <2> DEFINE q == req[p][t]
  <2>1. /\ q \in Request /\ q.run \in Runs /\ q.todo \in SUBSET Runs
        /\ q.got.state \in States \cup {"absent"}
    BY <1>19, InHand, RequestFields DEF ScanClassify, ListLock, At, NoRun
  <2>2. \A place \in {"scan", "list"} : Loop(place, q.todo) \in Request
    BY <2>1, StartLoop
  <2>3. ASSUME NEW op \in {"scan", "list"}, Classify(p, t, op, Loop(op, q.todo))
        PROVE  /\ req' \in [Procs -> [Threads -> Request]]
               /\ lock' \in [Procs -> Threads \cup {"none"}]
               /\ foreign' \in [Procs -> SUBSET Runs]
    BY <1>14, <2>1, <2>2, <2>3
  <2>5. CASE ScanClassify(p, t)
    BY <2>3, <2>5 DEF TypeOK, ScanClassify, RequestUnchanged
  <2>6. CASE ListLock(p, t) /\ Unsettled(q.got)
    BY <2>3, <2>6 DEF TypeOK, ListLock, RequestUnchanged
  <2>7. CASE ListLock(p, t) /\ ~Unsettled(q.got)
    <3>1. /\ mem' = [mem EXCEPT ![p][q.run] = q.got.state]
          /\ foreign' = [foreign EXCEPT ![p] = @ \ {q.run}]
          /\ Becomes(p, t, Loop("list", q.todo)) /\ UNCHANGED lock
      BY <2>7 DEF ListLock
    <3>2. mem' \in [Procs -> [Runs -> States \cup {"absent"}]]
      BY <2>1, <3>1, OneRecorded
    <3>3. foreign' \in [Procs -> SUBSET Runs]
      BY <2>1, <3>1, OneJoins DEF TypeOK
    <3>4. req' \in [Procs -> [Threads -> Request]]
      BY <2>2, <3>1, OneMoves DEF TypeOK
    <3> QED
      BY <2>7, <3>1, <3>2, <3>3, <3>4 DEF TypeOK, ListLock, RequestUnchanged
  <2> QED
    BY <1>19, <2>5, <2>6, <2>7
<1>20. ASSUME NEW p \in Procs, NEW t \in Threads, ScanEnd(p, t)
       PROVE  TypeOK'
  <2>1. Loop("list", foreign[p]) \in Request
    BY StartLoop DEF TypeOK
  <2> QED
    BY <1>20, <2>1, OneMoves DEF TypeOK, ScanEnd, AndRelease, RequestUnchanged
<1>21. ASSUME NEW p \in Procs, NEW t \in Threads, ListEnd(p, t)
       PROVE  TypeOK'
  BY <1>21, IdleType, OneMoves DEF TypeOK, ListEnd, Return, RequestUnchanged
<1>22. ASSUME NEW p \in Procs, Boot(p)
       PROVE  TypeOK'
  BY <1>22 DEF TypeOK, Boot
<1>23. ASSUME NEW p \in Procs, Crash(p)
       PROVE  TypeOK'
  BY <1>23, IdleType, RestingType DEF TypeOK, Crash, Handles
<1>24. CASE UNCHANGED vars
  BY <1>24 DEF TypeOK, vars
<1> QED
  BY <1>1, <1>3, <1>4, <1>5, <1>6, <1>7, <1>8, <1>9, <1>10, <1>11, <1>12, <1>13,
     <1>15, <1>16, <1>17, <1>18, <1>19, <1>20, <1>21, <1>22, <1>23, <1>24, <1>25
  DEF Next, Arrive, RequestNext, WorkerNext

LEMMA TypeInit == Init => TypeOK
  BY IdleType, RestingType, FileForms DEF Init, TypeOK, Handles

\* Type correctness: whatever requests, crashes and sibling processes do.
THEOREM TypeCorrect == Spec => []TypeOK
  BY TypeInit, TypeStep, PTL DEF Spec
-----------------------------------------------------------------------------
(***************************************************************************)
(* What one kind of step does to the parts of Ownership it can disturb.    *)
(***************************************************************************)

\* a request thread moves, and nobody's work, queue or ownership changes
LEMMA RequestMoves ==
  ASSUME TypeOK, RequestsSound, SubmittedOnce,
         NEW p \in Procs, NEW t \in Threads, NEW q \in Request, Becomes(p, t, q),
         UNCHANGED <<owner, started, queue>>,
         Sound(p, q),
         q.pc \in Submitting => req[p][t].pc \in Submitting /\ q.run = req[p][t].run
  PROVE  RequestsSound' /\ SubmittedOnce'
<1>1. /\ req'[p][t] = q
      /\ \A p2 \in Procs, t2 \in Threads :
           p2 # p \/ t2 # t => req'[p2][t2] = req[p2][t2]
  BY OneMoves DEF TypeOK
<1>2. RequestsSound'
  BY <1>1 DEF RequestsSound, Sound, Elsewhere
<1>3. SubmittedOnce'
  BY <1>1 DEF SubmittedOnce
<1> QED
  BY <1>2, <1>3

\* the fields of a request record after the updates the handlers make
LEMMA MovedFields ==
  ASSUME NEW q \in Request, NEW q2, NEW place
  PROVE  q2 = [q EXCEPT !.pc = place] =>
           /\ q2.pc = place /\ q2.run = q.run
           /\ q2.op = q.op /\ q2.got = q.got /\ q2.todo = q.todo
  BY DEF Request

LEMMA VisitedFields ==
  ASSUME NEW q \in Request, NEW q2, NEW r, q2 = [q EXCEPT !.todo = @ \ {r}]
  PROVE  q2.pc = q.pc /\ q2.run = q.run /\ q2.todo = q.todo \ {r}
  BY DEF Request

\* a thread with no run in hand, or with one nobody can take away from it
LEMMA IdleSound == ASSUME NEW p \in Procs PROVE Sound(p, Idle)
  BY DEF Sound, Idle, Submitting, Borrowing, Fixing, Touching, Looping

\* a registry records what it read of a run that is not its own
LEMMA RecordElsewhere ==
  ASSUME TypeOK, OwnerRemembers, StartedIsInWork, WorkerInStep,
         NEW p \in Procs, NEW r \in Runs, owner[r] # p,
         NEW s \in States \cup {"absent"}, s # "running" \/ s = mem[p][r],
         mem' = [mem EXCEPT ![p][r] = s],
         UNCHANGED <<owner, started, worker>>
  PROVE  OwnerRemembers' /\ StartedIsInWork' /\ WorkerInStep'
<1>1. /\ mem'[p][r] = s
      /\ \A p2 \in Procs, r2 \in Runs : p2 # p \/ r2 # r => mem'[p2][r2] = mem[p2][r2]
  BY OneRecorded, ZenonT(60)
<1>2. OwnerRemembers'
  BY <1>1 DEF OwnerRemembers
<1>3. StartedIsInWork'
  BY <1>1 DEF StartedIsInWork
<1>4. WorkerInStep'
  <2> SUFFICES ASSUME NEW p2 \in Procs, worker[p2].pc # "idle"
               PROVE  /\ worker[p2].run \in started[p2]
                      /\ InStep(worker[p2], mem'[p2][worker[p2].run])
    BY DEF WorkerInStep, InStep
  <2>1. worker[p2].run \in started[p2] /\ InStep(worker[p2], mem[p2][worker[p2].run])
    BY DEF WorkerInStep
  <2>2. worker[p2].run \in Runs /\ owner[worker[p2].run] = p2
    BY <2>1 DEF StartedIsInWork, TypeOK
  <2> QED
    BY <1>1, <2>1, <2>2
<1> QED
  BY <1>2, <1>3, <1>4

\* the worker moves on with the run it has
LEMMA WorkerMoves ==
  ASSUME TypeOK, OwnerRemembers, StartedIsInWork, WorkerInStep,
         NEW p \in Procs, worker[p].pc # "idle",
         NEW w \in Worker, Works(p, w), w.run = worker[p].run,
         NEW s \in States, InStep(w, s), w.pc = "idle" => s \in Terminal,
         mem' \in [Procs -> [Runs -> States \cup {"absent"}]],
         mem'[p][w.run] = s,
         \A p2 \in Procs, r2 \in Runs : p2 # p \/ r2 # w.run => mem'[p2][r2] = mem[p2][r2],
         UNCHANGED <<owner, started>>
  PROVE  OwnerRemembers' /\ StartedIsInWork' /\ WorkerInStep'
<1>1. worker'[p] = w /\ \A p2 \in Procs \ {p} : worker'[p2] = worker[p2]
  BY OneWorks DEF TypeOK
<1>2. worker[p] \in Worker /\ w.run \in Runs /\ w.run \in started[p] /\ owner[w.run] = p
  BY WorkerFields DEF TypeOK, WorkerInStep, StartedIsInWork
<1>3. OwnerRemembers'
  BY <1>2 DEF OwnerRemembers, States, Terminal
<1>4. StartedIsInWork'
  BY <1>1, <1>2 DEF StartedIsInWork
<1>5. WorkerInStep'
  <2> SUFFICES ASSUME NEW p2 \in Procs, worker'[p2].pc # "idle"
               PROVE  /\ worker'[p2].run \in started[p2]
                      /\ InStep(worker'[p2], mem'[p2][worker'[p2].run])
    BY DEF WorkerInStep, InStep
  <2>1. CASE p2 = p
    BY <1>1, <1>2, <2>1
  <2>2. CASE p2 # p
    <3>1. worker'[p2] = worker[p2] /\ worker[p2] \in Worker
      BY <1>1, <2>2 DEF TypeOK
    <3>2. worker[p2].run \in Runs /\ worker[p2].run \in started[p2]
      BY <3>1, WorkerFields DEF WorkerInStep
    <3>3. InStep(worker[p2], mem[p2][worker[p2].run])
      BY <3>1 DEF WorkerInStep
    <3> QED
      BY <2>2, <3>1, <3>2, <3>3
  <2> QED
    BY <2>1, <2>2
<1> QED
  BY <1>3, <1>4, <1>5

-----------------------------------------------------------------------------
(***************************************************************************)
(* Ownership is inductive.                                                 *)
(***************************************************************************)
LEMMA OwnershipInit == Init => Ownership
<1> SUFFICES ASSUME Init PROVE Ownership
  OBVIOUS
<1>1. OwnerRemembers /\ StartedIsInWork /\ ForeignIsElsewhere
  BY ConstantsAssumption DEF Init, OwnerRemembers, StartedIsInWork, ForeignIsElsewhere
<1>2. WorkerInStep /\ QueueIsWaiting
  BY DEF Init, WorkerInStep, QueueIsWaiting, Resting
<1>3. RequestsSound /\ SubmittedOnce
  BY DEF Init, RequestsSound, SubmittedOnce, Sound, Idle, Submitting, Borrowing, Fixing, Touching,
         Looping
<1>4. FilesAreOwned
  BY DEF Init, FilesAreOwned, NoFile
<1> QED
  BY <1>1, <1>2, <1>3, <1>4 DEF Ownership

LEMMA SubmitOwns ==
  ASSUME TypeOK, Ownership, NEW p \in Procs, NEW t \in Threads, NEW r \in Runs,
         Submit(p, t, r)
  PROVE  Ownership'
<1> USE DEF Submit
<1> DEFINE q == [Idle EXCEPT !.pc = "submit_open", !.run = r]
<1>1. q \in Request /\ q.pc = "submit_open" /\ q.run = r
  BY TakeRun DEF Places, Idle
<1>2. /\ req'[p][t] = q
      /\ \A p2 \in Procs, t2 \in Threads : p2 # p \/ t2 # t => req'[p2][t2] = req[p2][t2]
  BY <1>1, OneMoves DEF TypeOK
<1>3. /\ owner[r] = "none" /\ p # "none" /\ owner'[r] = p
      /\ \A x \in Runs \ {r} : owner'[x] = owner[x]
  BY ConstantsAssumption DEF TypeOK
<1>4. /\ mem'[p][r] = "queued"
      /\ \A p2 \in Procs, r2 \in Runs : p2 # p \/ r2 # r => mem'[p2][r2] = mem[p2][r2]
  BY DEF TypeOK
<1>5. \A p2 \in Procs : r \notin started[p2]
  BY <1>3, ConstantsAssumption DEF Ownership, StartedIsInWork
<1>6. OwnerRemembers'
  BY <1>3, <1>4, ConstantsAssumption DEF Ownership, OwnerRemembers
<1>7. StartedIsInWork'
  BY <1>3, <1>4, <1>5 DEF Ownership, StartedIsInWork
<1>8. WorkerInStep'
  <2> SUFFICES ASSUME NEW p2 \in Procs, worker[p2].pc # "idle"
               PROVE  /\ worker[p2].run \in started[p2]
                      /\ InStep(worker[p2], mem'[p2][worker[p2].run])
    BY DEF WorkerInStep, InStep
  <2>1. worker[p2].run \in started[p2] /\ InStep(worker[p2], mem[p2][worker[p2].run])
    BY DEF Ownership, WorkerInStep
  <2>2. worker[p2].run \in Runs \ {r}
    BY <1>5, <2>1 DEF TypeOK
  <2> QED
    BY <1>4, <2>1, <2>2
<1>9. \A p2 \in Procs : \A i \in 1..Len(queue[p2]) : queue[p2][i] \in Runs \ {r}
  <2> TAKE p2 \in Procs
  <2> TAKE i \in 1..Len(queue[p2])
  <2>1. queue[p2][i] \in Runs
    BY DEF TypeOK
  <2>2. owner[queue[p2][i]] = p2
    BY DEF Ownership, QueueIsWaiting
  <2> QED
    BY <1>3, <2>1, <2>2, ConstantsAssumption
<1>10. QueueIsWaiting'
  BY <1>3, <1>9 DEF Ownership, QueueIsWaiting
<1>11. RequestsSound'
  <2> SUFFICES ASSUME NEW p2 \in Procs, NEW t2 \in Threads
               PROVE  Sound(p2, req[p2][t2])'
    BY DEF RequestsSound
  <2>1. CASE p2 = p /\ t2 = t
    <3>1. /\ req'[p][t].pc = "submit_open" /\ req'[p][t].run = r
          /\ owner'[r] = p /\ r \notin started'[p]
          /\ \A i \in 1..Len(queue'[p]) : queue'[p][i] # r
      BY <1>1, <1>2, <1>3, <1>5, <1>9
    <3> QED
      BY ONLY <2>1, <3>1 DEF Sound, Submitting, Borrowing, Fixing, Touching, Looping
  <2>2. CASE p2 # p \/ t2 # t
    <3>1. req'[p2][t2] = req[p2][t2] /\ req[p2][t2] \in Request
      BY <1>2, <2>2 DEF TypeOK
    <3>2. /\ req[p2][t2].pc \notin NoRun => req[p2][t2].run \in Runs
          /\ req[p2][t2].todo \in SUBSET Runs
      BY <3>1, RequestFields
    <3>3. Sound(p2, req[p2][t2])
      BY DEF Ownership, RequestsSound
    <3>4. p2 # "none"
      BY ConstantsAssumption
    <3> QED
      BY <1>3, <3>1, <3>2, <3>3, <3>4
      DEF Sound, Submitting, Borrowing, Fixing, Touching, Looping, Elsewhere, NoRun
  <2> QED
    BY <2>1, <2>2
<1>12. SubmittedOnce'
  <2> SUFFICES ASSUME NEW p2 \in Procs, NEW t1 \in Threads, NEW t2 \in Threads, t1 # t2,
                      req'[p2][t1].pc \in Submitting, req'[p2][t2].pc \in Submitting
               PROVE  req'[p2][t1].run # req'[p2][t2].run
    BY DEF SubmittedOnce
  <2>1. \A t3 \in Threads : p2 # p \/ t3 # t =>
          (req[p2][t3].pc \in Submitting => owner[req[p2][t3].run] = p2)
    BY DEF Ownership, RequestsSound, Sound
  <2>2. \A t3 \in Threads : p2 = p /\ t3 # t /\ req[p][t3].pc \in Submitting =>
          req[p][t3].run # r
    BY <1>3, <2>1
  <2>3. req'[p][t].run = r
    BY <1>1, <1>2
  <2>4. CASE p2 = p /\ (t1 = t \/ t2 = t)
    BY <1>2, <2>2, <2>3, <2>4, ZenonT(60)
  <2>5. CASE p2 # p \/ (t1 # t /\ t2 # t)
    BY <1>2, <2>5 DEF Ownership, SubmittedOnce
  <2> QED
    BY <2>4, <2>5
<1>13. ForeignIsElsewhere'
  <2> SUFFICES ASSUME NEW p2 \in Procs, NEW x \in foreign[p2] PROVE Elsewhere(p2, x)'
    BY DEF ForeignIsElsewhere
  <2>1. x \in Runs /\ Elsewhere(p2, x)
    BY DEF Ownership, ForeignIsElsewhere, TypeOK
  <2> QED
    BY <1>3, <2>1 DEF Elsewhere
<1>14. FilesAreOwned'
  BY <1>3 DEF Ownership, FilesAreOwned
<1> QED
  BY <1>6, <1>7, <1>8, <1>10, <1>11, <1>12, <1>13, <1>14 DEF Ownership

LEMMA EnqueueOwns ==
  ASSUME TypeOK, Ownership, NEW p \in Procs, NEW t \in Threads, Enqueue(p, t)
  PROVE  Ownership'
<1> USE DEF Enqueue
<1> DEFINE r == req[p][t].run
<1>1. req[p][t].pc = "submit_enqueue" /\ r \in Runs
  BY InHand DEF At, NoRun
<1>2. /\ req'[p][t] = Idle
      /\ \A p2 \in Procs, t2 \in Threads : p2 # p \/ t2 # t => req'[p2][t2] = req[p2][t2]
  BY IdleType, OneMoves DEF TypeOK, Return
<1>3. /\ owner[r] = p /\ r \notin started[p]
      /\ \A i \in 1..Len(queue[p]) : queue[p][i] # r
  BY <1>1 DEF Ownership, RequestsSound, Sound, Submitting
<1>4. queue[p] \in Seq(Runs)
  BY DEF TypeOK
<1>5. /\ Len(queue'[p]) = Len(queue[p]) + 1
      /\ queue'[p][Len(queue[p]) + 1] = r
      /\ \A i \in 1..Len(queue[p]) : queue'[p][i] = queue[p][i]
      /\ \A p2 \in Procs \ {p} : queue'[p2] = queue[p2]
  BY <1>1, <1>4 DEF TypeOK
<1>6. QueueIsWaiting'
  <2> SUFFICES ASSUME NEW p2 \in Procs, NEW i \in 1..Len(queue'[p2])
               PROVE  /\ owner[queue'[p2][i]] = p2
                      /\ queue'[p2][i] \notin started[p2]
                      /\ \A j \in 1..Len(queue'[p2]) : j # i => queue'[p2][j] # queue'[p2][i]
    BY DEF QueueIsWaiting
  <2>1. CASE p2 = p
    <3>1. Len(queue[p]) \in Nat
      BY <1>4
    <3> QED
      BY <1>3, <1>5, <2>1, <3>1 DEF Ownership, QueueIsWaiting
  <2>2. CASE p2 # p
    BY <1>5, <2>2 DEF Ownership, QueueIsWaiting
  <2> QED
    BY <2>1, <2>2
<1>7. RequestsSound'
  <2> SUFFICES ASSUME NEW p2 \in Procs, NEW t2 \in Threads
               PROVE  Sound(p2, req[p2][t2])'
    BY DEF RequestsSound
  <2>1. CASE p2 = p /\ t2 = t
    BY <1>2, <2>1 DEF Sound, Idle, Submitting, Borrowing, Fixing, Touching, Looping
  <2>2. CASE p2 = p /\ t2 # t
    <3>1. req[p][t2].pc \in Submitting => req[p][t2].run # r
      BY <1>1, <2>2 DEF Ownership, SubmittedOnce, Submitting
    <3>2. Len(queue[p]) \in Nat
      BY <1>4
    <3>3. Sound(p, req[p][t2])
      BY DEF Ownership, RequestsSound
    <3>4. req[p][t2].pc \in Submitting =>
            \A i \in 1..Len(queue'[p]) : queue'[p][i] # req[p][t2].run
      BY <1>5, <3>1, <3>2, <3>3 DEF Sound
    <3> QED
      BY <1>2, <2>2, <3>3, <3>4 DEF Sound, Elsewhere
  <2>3. CASE p2 # p
    <3>1. Sound(p2, req[p2][t2]) /\ req'[p2][t2] = req[p2][t2] /\ queue'[p2] = queue[p2]
      BY <1>2, <1>5, <2>3 DEF Ownership, RequestsSound
    <3> QED
      BY <3>1 DEF Sound, Elsewhere
  <2> QED
    BY <2>1, <2>2, <2>3
<1>8. SubmittedOnce'
  BY <1>2 DEF Ownership, SubmittedOnce, Idle, Submitting
<1>9. /\ OwnerRemembers' /\ StartedIsInWork' /\ WorkerInStep'
      /\ ForeignIsElsewhere' /\ FilesAreOwned'
  BY DEF Ownership, OwnerRemembers, StartedIsInWork, WorkerInStep, InStep,
         ForeignIsElsewhere, Elsewhere, FilesAreOwned
<1> QED
  BY <1>6, <1>7, <1>8, <1>9 DEF Ownership

LEMMA TakeOwns ==
  ASSUME TypeOK, Ownership, NEW p \in Procs, Take(p)
  PROVE  Ownership'
<1> USE DEF Take, WorkerUnchanged
<1> DEFINE r == Head(queue[p])
<1>1. queue[p] \in Seq(Runs) /\ queue[p] # <<>>
  BY DEF TypeOK
<1>2. r \in Runs /\ r = queue[p][1] /\ Len(queue[p]) \in Nat \ {0}
  BY <1>1
<1>3. /\ Len(queue'[p]) = Len(queue[p]) - 1
      /\ \A i \in 1..Len(queue'[p]) : queue'[p][i] = queue[p][i + 1] /\ i + 1 \in 1..Len(queue[p])
      /\ \A p2 \in Procs \ {p} : queue'[p2] = queue[p2]
  BY <1>1, <1>2 DEF TypeOK
<1>4. owner[r] = p /\ r \notin started[p]
  BY <1>2 DEF Ownership, QueueIsWaiting
<1>5. \A i \in 1..Len(queue'[p]) : queue'[p][i] # r
  BY <1>2, <1>3 DEF Ownership, QueueIsWaiting
<1>6. /\ started'[p] \in {started[p], started[p] \cup {r}}
      /\ \A p2 \in Procs \ {p} : started'[p2] = started[p2]
  BY DEF TypeOK
<1>7. QueueIsWaiting'
  <2> SUFFICES ASSUME NEW p2 \in Procs, NEW i \in 1..Len(queue'[p2])
               PROVE  /\ owner[queue'[p2][i]] = p2
                      /\ queue'[p2][i] \notin started'[p2]
                      /\ \A j \in 1..Len(queue'[p2]) : j # i => queue'[p2][j] # queue'[p2][i]
    BY DEF QueueIsWaiting
  <2>1. CASE p2 = p
    <3>1. owner[queue'[p][i]] = p /\ queue'[p][i] \notin started[p]
      BY <1>3, <2>1 DEF Ownership, QueueIsWaiting
    <3>2. \A j \in 1..Len(queue'[p]) : j # i => queue'[p][j] # queue'[p][i]
      BY <1>2, <1>3, <2>1 DEF Ownership, QueueIsWaiting
    <3> QED
      BY <1>5, <1>6, <2>1, <3>1, <3>2
  <2>2. CASE p2 # p
    BY <1>3, <1>6, <2>2 DEF Ownership, QueueIsWaiting
  <2> QED
    BY <2>1, <2>2
<1>8. RequestsSound' /\ SubmittedOnce'
  <2>1. RequestsSound'
    <3> SUFFICES ASSUME NEW p2 \in Procs, NEW t2 \in Threads
                 PROVE  Sound(p2, req[p2][t2])'
      BY DEF RequestsSound
    <3>1. Sound(p2, req[p2][t2])
      BY DEF Ownership, RequestsSound
    <3>2. CASE p2 = p
      <4>1. req[p][t2].pc \in Submitting =>
              /\ req[p][t2].run # r
              /\ \A i \in 1..Len(queue'[p]) : queue'[p][i] # req[p][t2].run
        BY <1>2, <1>3, <3>1, <3>2 DEF Sound
      <4> QED
        BY <1>6, <3>1, <3>2, <4>1 DEF Sound, Elsewhere
    <3>3. CASE p2 # p
      BY <1>3, <1>6, <3>1, <3>3 DEF Sound, Elsewhere
    <3> QED
      BY <3>2, <3>3
  <2> QED
    BY <2>1 DEF Ownership, SubmittedOnce
<1>9. OwnerRemembers' /\ StartedIsInWork' /\ WorkerInStep'
  <2>1. CASE CancelledInQueue(p, r)
    BY <2>1 DEF Ownership, OwnerRemembers, StartedIsInWork, WorkerInStep, InStep
  <2>2. CASE ~CancelledInQueue(p, r)
    <3> DEFINE w == [Resting EXCEPT !.pc = "begin", !.run = r]
    <3>1. w \in Worker /\ w.pc = "begin" /\ w.run = r
      BY <1>2, WorkerBegin DEF Resting
    <3>2. /\ worker'[p] = w /\ \A p2 \in Procs \ {p} : worker'[p2] = worker[p2]
          /\ started'[p] = started[p] \cup {r}
      BY <2>2, <3>1, OneWorks DEF TypeOK
    <3>3. mem[p][r] = "queued"
      BY <1>2, <1>4, <2>2 DEF Ownership, OwnerRemembers, CancelledInQueue
    <3>4. OwnerRemembers'
      BY <1>6, <3>2 DEF Ownership, OwnerRemembers
    <3>5. StartedIsInWork'
      <4> SUFFICES ASSUME NEW p2 \in Procs, NEW x \in Runs, x \in started'[p2]
                   PROVE  /\ owner[x] = p2
                          /\ \/ mem[p2][x] \in Terminal
                             \/ worker'[p2].pc # "idle" /\ worker'[p2].run = x
        BY DEF StartedIsInWork
      <4>1. CASE p2 = p
        <5>1. x \in started[p] => owner[x] = p /\ mem[p][x] \in Terminal
          BY DEF Ownership, StartedIsInWork
        <5> QED
          BY <1>4, <3>1, <3>2, <4>1, <5>1
      <4>2. CASE p2 # p
        BY <1>6, <3>2, <4>2 DEF Ownership, StartedIsInWork
      <4> QED
        BY <4>1, <4>2
    <3>6. WorkerInStep'
      <4> SUFFICES ASSUME NEW p2 \in Procs, worker'[p2].pc # "idle"
                   PROVE  /\ worker'[p2].run \in started'[p2]
                          /\ InStep(worker'[p2], mem[p2][worker'[p2].run])
        BY DEF WorkerInStep, InStep
      <4>1. CASE p2 = p
        BY <3>1, <3>2, <3>3, <4>1 DEF InStep
      <4>2. CASE p2 # p
        BY <1>6, <3>2, <4>2 DEF Ownership, WorkerInStep
      <4> QED
        BY <4>1, <4>2
    <3> QED
      BY <3>4, <3>5, <3>6
  <2> QED
    BY <2>1, <2>2
<1>10. ForeignIsElsewhere' /\ FilesAreOwned'
  BY DEF Ownership, ForeignIsElsewhere, Elsewhere, FilesAreOwned
<1> QED
  BY <1>7, <1>8, <1>9, <1>10 DEF Ownership

\* a request's step that leaves the queue, the worker and the memory alone
LEMMA RequestOwns ==
  ASSUME TypeOK, Ownership, RequestsSound' /\ SubmittedOnce' /\ FilesAreOwned',
         UNCHANGED <<owner, started, queue, worker, mem, foreign>>
  PROVE  Ownership'
BY DEF Ownership, OwnerRemembers, StartedIsInWork, WorkerInStep, InStep, QueueIsWaiting,
       ForeignIsElsewhere, Elsewhere

\* a rename touches the files of its own run
LEMMA OneRenamed ==
  ASSUME TypeOK, NEW r \in Runs, Rename(r)
  PROVE  /\ tmp[r] # NoFile /\ disk'[r] = tmp[r] /\ tmp'[r] = NoFile
         /\ \A x \in Runs \ {r} : disk'[x] = disk[x] /\ tmp'[x] = tmp[x]
  BY DEF TypeOK, Rename

\* so does every step of a write
LEMMA OthersFilesStay ==
  ASSUME TypeOK, NEW p \in Procs, NEW t \in Threads,
         OpenTmp(p, t) \/ WriteTmp(p, t) \/ Replace(p, t) \/ ReplaceFails(p, t)
  PROVE  \A x \in Runs \ {req[p][t].run} : disk'[x] = disk[x] /\ tmp'[x] = tmp[x]
<1>1. req[p][t].run \in Runs
  BY InHand DEF OpenTmp, WriteTmp, Replace, ReplaceFails, Opening, Filling, Renaming, At, NoRun
<1>2. CASE Replace(p, t)
  BY <1>1, <1>2, OneRenamed DEF Replace
<1>3. CASE ~Replace(p, t)
  BY <1>1, <1>3 DEF OpenTmp, WriteTmp, ReplaceFails, TypeOK
<1> QED
  BY <1>2, <1>3

LEMMA WriteOwns ==
  ASSUME TypeOK, Ownership, NEW p \in Procs, NEW t \in Threads,
         OpenTmp(p, t) \/ WriteTmp(p, t) \/ Replace(p, t) \/ ReplaceFails(p, t)
  PROVE  Ownership'
<1> DEFINE old == req[p][t]
           r   == old.run
<1>1. /\ old.pc \in Opening \cup Filling \cup Renaming
      /\ r \in Runs /\ old \in Request
  BY InHand DEF OpenTmp, WriteTmp, Replace, ReplaceFails, Opening, Filling, Renaming, At, NoRun
<1>2. Sound(p, old)
  BY DEF Ownership, RequestsSound
<1>3. owner[r] # "none"
  BY <1>1, <1>2, ConstantsAssumption
  DEF Sound, Submitting, Borrowing, Fixing, Touching, Elsewhere, Opening, Filling, Renaming
<1>4. UNCHANGED <<owner, started, queue, worker, mem, foreign>>
  BY DEF OpenTmp, WriteTmp, Replace, ReplaceFails
<1>5. PICK place \in {"submit_write", "cancel_write", "fix_write", "submit_replace",
                      "cancel_replace", "fix_replace", "submit_enqueue", "answer",
                      "file_error"} :
        /\ Goto(p, t, place)
        /\ place \in Submitting => old.pc \in Submitting
        /\ place \in Fixing => old.pc \in Fixing
        /\ place \in Touching => old.pc \in Touching
  <2>1. CASE old.pc \in {"submit_open", "submit_write", "submit_replace"}
    <3>1. \E place \in {"submit_write", "submit_replace", "submit_enqueue", "file_error"} :
            Goto(p, t, place)
      BY <2>1 DEF OpenTmp, WriteTmp, Replace, ReplaceFails, Throw, At, Opening, Filling
    <3> QED
      BY <2>1, <3>1 DEF Submitting, Fixing, Touching
  <2>2. CASE old.pc \in {"cancel_open", "cancel_write", "cancel_replace"}
    <3>1. \E place \in {"cancel_write", "cancel_replace", "answer", "file_error"} :
            Goto(p, t, place)
      BY <2>2 DEF OpenTmp, WriteTmp, Replace, ReplaceFails, Throw, At, Opening, Filling
    <3> QED
      BY <2>2, <3>1 DEF Submitting, Fixing, Touching
  <2>3. CASE old.pc \in {"fix_open", "fix_write", "fix_replace"}
    <3>1. \E place \in {"fix_write", "fix_replace", "file_error"} : Goto(p, t, place)
      BY <2>3 DEF OpenTmp, WriteTmp, Replace, ReplaceFails, Throw, At, Opening, Filling
    <3> QED
      BY <2>3, <3>1 DEF Submitting, Fixing, Touching
  <2> QED
    BY <1>1, <2>1, <2>2, <2>3 DEF Opening, Filling, Renaming
<1>6. PICK q \in Request : /\ Becomes(p, t, q)
                           /\ q.pc = place /\ q.run = r
                           /\ q.op = old.op /\ q.todo = old.todo
  <2> DEFINE q == [old EXCEPT !.pc = place]
  <2>1. q \in Request
    BY <1>1, MovePc DEF Places
  <2>2. q.pc = place /\ q.run = r /\ q.op = old.op /\ q.todo = old.todo
    BY <1>1, MovedFields
  <2> QED
    BY <1>5, <2>1, <2>2 DEF Goto
<1>7. Sound(p, q)
  <2>1. place \notin Looping /\ (place \in Borrowing => place \in Fixing)
    BY <1>5 DEF Looping, Borrowing, Fixing
  <2>2. old.pc \in Fixing => old.pc \in Borrowing
    BY DEF Borrowing
  <2> QED
    BY <1>2, <1>5, <1>6, <2>1, <2>2 DEF Sound
<1>8. RequestsSound' /\ SubmittedOnce'
  BY <1>4, <1>5, <1>6, <1>7, RequestMoves DEF Ownership
<1>9. FilesAreOwned'
  BY <1>1, <1>3, <1>4, OthersFilesStay DEF Ownership, FilesAreOwned
<1> QED
  BY <1>4, <1>8, <1>9, RequestOwns

\* a request that leaves, or turns to a run that is not its registry's own
LEMMA LookOwns ==
  ASSUME TypeOK, Ownership, NEW p \in Procs, NEW t \in Threads,
         NEW q \in Request, Becomes(p, t, q), Sound(p, q), q.pc \notin Submitting,
         UNCHANGED <<owner, started, queue, worker, mem, foreign, disk, tmp>>
  PROVE  Ownership'
<1>1. RequestsSound' /\ SubmittedOnce'
  BY RequestMoves DEF Ownership
<1>2. FilesAreOwned'
  BY DEF Ownership, FilesAreOwned
<1> QED
  BY <1>1, <1>2, RequestOwns

LEMMA AfterGetSound ==
  ASSUME NEW p \in Procs, NEW r \in Runs, owner[r] # "none", NEW op, NEW s
  PROVE  /\ AfterGet(op, r, s) \in Request
         /\ AfterGet(op, r, s).pc \notin Submitting
         /\ Sound(p, AfterGet(op, r, s))
<1> DEFINE q == [Idle EXCEPT !.pc = "cancel", !.run = r]
<1>1. q \in Request /\ q.pc = "cancel" /\ q.run = r
  BY TakeRun DEF Places, Idle
<1>2. Sound(p, q) /\ q.pc \notin Submitting
  BY <1>1 DEF Sound, Submitting, Borrowing, Fixing, Touching, Looping
<1>3. Idle.pc \notin Submitting
  BY DEF Idle, Submitting
<1> QED
  BY <1>1, <1>2, <1>3, IdleType, IdleSound DEF AfterGet

LEMMA LoopSound ==
  ASSUME NEW p \in Procs, NEW place \in {"scan", "list"}, NEW todo \in SUBSET Runs,
         place = "list" => \A r \in todo : Elsewhere(p, r)
  PROVE  LET q == Loop(place, todo)
         IN q \in Request /\ Sound(p, q) /\ q.pc \notin Submitting
<1> DEFINE q == Loop(place, todo)
<1>1. q \in Request /\ q.pc = place /\ q.todo = todo
  BY StartLoop DEF Loop, Idle
<1> HIDE DEF q
<1>2. Sound(p, q) /\ q.pc \notin Submitting
  BY <1>1 DEF Sound, Submitting, Borrowing, Fixing, Touching, Looping
<1> QED
  BY <1>1, <1>2 DEF q

\* an exception is on its way out
LEMMA ErrorSound ==
  ASSUME NEW p \in Procs, NEW old \in Request
  PROVE  LET q == [old EXCEPT !.pc = "file_error"]
         IN q \in Request /\ Sound(p, q) /\ q.pc \notin Submitting
<1> DEFINE q == [old EXCEPT !.pc = "file_error"]
<1>1. q \in Request /\ q.pc = "file_error"
  BY ErrorType, MovedFields
<1> HIDE DEF q
<1>2. Sound(p, q) /\ q.pc \notin Submitting
  BY <1>1 DEF Sound, Submitting, Borrowing, Fixing, Touching, Looping
<1> QED
  BY <1>1, <1>2 DEF q

LEMMA GetOwns ==
  ASSUME TypeOK, Ownership, NEW p \in Procs, NEW t \in Threads, NEW r \in Runs,
         NEW op \in {"status", "cancel", "answer"}, Get(p, t, r, op)
  PROVE  Ownership'
<1>1. owner[r] # "none"
  <2>1. CASE At(p, t, {"answer"}) /\ r = req[p][t].run
    BY <2>1 DEF Ownership, RequestsSound, Sound, Touching, At
  <2> QED
    BY <2>1 DEF Get
<1>2. UNCHANGED <<owner, started, queue, worker, mem, foreign, disk, tmp>>
  BY DEF Get, RequestUnchanged
<1>3. CASE mem[p][r] # "absent"
  <2>1. Becomes(p, t, AfterGet(op, r, mem[p][r]))
    BY <1>3 DEF Get
  <2> QED
    BY <1>1, <1>2, <2>1, AfterGetSound, LookOwns
<1>4. CASE mem[p][r] = "absent"
  <2> DEFINE q == [Idle EXCEPT !.pc = "get_read", !.op = op, !.run = r]
  <2>1. q \in Request /\ q.pc = "get_read" /\ q.run = r /\ q.op = op /\ Becomes(p, t, q)
    BY <1>4, TakeRunFor, ZenonT(60) DEF Get, Places, Idle
  <2> HIDE DEF q
  <2>2. Elsewhere(p, r)
    BY <1>1, <1>4 DEF Ownership, OwnerRemembers, Elsewhere
  <2>3. Sound(p, q) /\ q.pc \notin Submitting
    BY <2>1, <2>2 DEF Sound, Submitting, Borrowing, Fixing, Touching, Looping
  <2> QED
    BY <1>2, <2>1, <2>3, LookOwns
<1> QED
  BY <1>3, <1>4

LEMMA GetReadOwns ==
  ASSUME TypeOK, Ownership, NEW p \in Procs, NEW t \in Threads, GetRead(p, t)
  PROVE  Ownership'
<1>1. UNCHANGED <<owner, started, queue, worker, mem, foreign, disk, tmp>>
  BY DEF GetRead, RequestUnchanged
<1>2. req[p][t].pc = "get_read" /\ req[p][t] \in Request /\ req[p][t].run \in Runs
  BY InHand DEF GetRead, At, NoRun
<1>3. Elsewhere(p, req[p][t].run)
  BY <1>2 DEF Ownership, RequestsSound, Sound, Borrowing
<1> DEFINE old == req[p][t]
           got == disk[old.run]
           q   == [old EXCEPT !.pc = "get_lock", !.got = got]
           bad == [old EXCEPT !.pc = "file_error"]
<1>4. Becomes(p, t, Idle) \/ Becomes(p, t, bad) \/ (Becomes(p, t, q) /\ got.state \notin Garbled)
  BY DEF GetRead
<1>5. got.state \notin Garbled => q \in Request /\ q.pc = "get_lock" /\ q.run = old.run
                                /\ q.op = old.op /\ q.todo = old.todo
  <2>1. old \in Request /\ old.run \in Runs /\ got \in File /\ "get_lock" \in Places
    BY <1>2 DEF TypeOK, Places
  <2> HIDE DEF old, got
  <2>2. got.state \notin Garbled => q \in Request
    BY <2>1, HoldFile, ReadableFiles
  <2>3. q.pc = "get_lock" /\ q.run = old.run /\ q.op = old.op /\ q.todo = old.todo
    BY <2>1 DEF Request
  <2> QED
    BY <2>2, <2>3
<1>6. bad \in Request /\ Sound(p, bad) /\ bad.pc \notin Submitting
  BY <1>2, ErrorSound
<1> HIDE DEF q, bad
<1>7. old.op \notin {"scan", "list"}
  BY <1>2 DEF Ownership, RequestsSound, Sound, old
<1>8. got.state \notin Garbled => Sound(p, q) /\ q.pc \notin Submitting
  BY <1>3, <1>5, <1>7 DEF Sound, Submitting, Borrowing, Fixing, Touching, Looping
<1>9. Idle.pc \notin Submitting
  BY DEF Idle, Submitting
<1> QED
  BY <1>1, <1>4, <1>5, <1>6, <1>8, <1>9, IdleType, IdleSound, LookOwns

LEMMA LoopOwns ==
  ASSUME TypeOK, Ownership, NEW p \in Procs, NEW t \in Threads,
         List(p, t) \/ ScanEnd(p, t) \/ ListEnd(p, t) \/ ServerError(p, t)
  PROVE  Ownership'
<1>1. UNCHANGED <<owner, started, queue, worker, mem, foreign, disk, tmp>>
  BY DEF List, ScanEnd, ListEnd, ServerError, RequestUnchanged
<1>2. foreign[p] \in SUBSET Runs /\ \A r \in foreign[p] : Elsewhere(p, r)
  BY DEF TypeOK, Ownership, ForeignIsElsewhere
<1>3. Idle.pc \notin Submitting
  BY DEF Idle, Submitting
<1>4. \/ Becomes(p, t, Loop("list", foreign[p]))
      \/ Becomes(p, t, Loop("scan", Runs))
      \/ Becomes(p, t, Idle)
  BY DEF List, ScanEnd, ListEnd, ServerError, Return
<1>5. CASE Becomes(p, t, Loop("list", foreign[p]))
  BY <1>1, <1>2, <1>5, LoopSound, LookOwns
<1>6. CASE Becomes(p, t, Loop("scan", Runs))
  BY <1>1, <1>6, LoopSound, LookOwns
<1>7. CASE Becomes(p, t, Idle)
  BY <1>1, <1>3, <1>7, IdleType, IdleSound, LookOwns
<1> QED
  BY <1>4, <1>5, <1>6, <1>7

\* a registry takes note of a run that is not its own
LEMMA NoteOwns ==
  ASSUME TypeOK, Ownership, NEW p \in Procs, NEW t \in Threads, NEW r \in Runs,
         NEW q \in Request, Becomes(p, t, q), Sound(p, q), q.pc \notin Submitting,
         Elsewhere(p, r), NEW s \in States \cup {"absent"}, s # "running" \/ s = mem[p][r],
         mem' = [mem EXCEPT ![p][r] = s],
         foreign' \in [Procs -> SUBSET Runs],
         foreign'[p] \subseteq foreign[p] \cup {r},
         \A p2 \in Procs \ {p} : foreign'[p2] = foreign[p2],
         \A r2 \in Runs \ {r} : disk'[r2] = disk[r2] /\ tmp'[r2] = tmp[r2],
         UNCHANGED <<owner, started, queue, worker>>
  PROVE  Ownership'
<1>1. OwnerRemembers' /\ StartedIsInWork' /\ WorkerInStep'
  BY RecordElsewhere DEF Ownership, Elsewhere
<1>2. RequestsSound' /\ SubmittedOnce'
  BY RequestMoves DEF Ownership
<1>3. ForeignIsElsewhere'
  <2> SUFFICES ASSUME NEW p2 \in Procs, NEW x \in foreign'[p2] PROVE Elsewhere(p2, x)
    BY DEF ForeignIsElsewhere, Elsewhere
  <2> QED
    BY DEF Ownership, ForeignIsElsewhere
<1>4. FilesAreOwned'
  BY DEF Ownership, FilesAreOwned, Elsewhere
<1>5. QueueIsWaiting'
  BY DEF Ownership, QueueIsWaiting
<1> QED
  BY <1>1, <1>2, <1>3, <1>4, <1>5 DEF Ownership

\* a registry takes a file that says "running" for stale, or for foreign
LEMMA ClassifyOwns ==
  ASSUME TypeOK, Ownership, NEW p \in Procs, NEW t \in Threads,
         req[p][t].pc \in Borrowing, req[p][t].run \in Runs,
         NEW op \in {"none", "status", "cancel", "answer", "scan", "list"},
         op = "list" => \A x \in req[p][t].todo : Elsewhere(p, x),
         NEW q \in Request, Sound(p, q), q.pc \notin Submitting,
         Classify(p, t, op, q),
         UNCHANGED <<owner, started, queue, worker, mem, disk, tmp>>
  PROVE  Ownership'
<1> DEFINE old == req[p][t]
           fix == [old EXCEPT !.pc = "fix_open", !.op = op]
<1>1. old \in Request /\ Elsewhere(p, old.run)
  BY DEF TypeOK, Ownership, RequestsSound, Sound
<1>2. CASE Stale(old.got)
  <2>1. Becomes(p, t, fix) /\ UNCHANGED foreign
    BY <1>2 DEF Classify
  <2>2. fix \in Request /\ fix.pc = "fix_open" /\ fix.run = old.run /\ fix.op = op
        /\ fix.todo = old.todo
    BY <1>1, TakeFix, ZenonT(60) DEF Request
  <2> HIDE DEF fix, old
  <2>3. Sound(p, fix) /\ fix.pc \notin Submitting
    BY <1>1, <2>2 DEF old, Sound, Submitting, Borrowing, Fixing, Touching, Looping
  <2> QED
    BY <2>1, <2>2, <2>3, LookOwns
<1>3. CASE ~Stale(old.got)
  <2>1. Becomes(p, t, q) /\ foreign' = [foreign EXCEPT ![p] = @ \cup {old.run}]
    BY <1>3 DEF Classify
  <2>2. /\ foreign' \in [Procs -> SUBSET Runs]
        /\ foreign'[p] \subseteq foreign[p] \cup {old.run}
        /\ \A p2 \in Procs \ {p} : foreign'[p2] = foreign[p2]
    BY <2>1, OneJoins DEF TypeOK
  <2>3. mem' = [mem EXCEPT ![p][old.run] = mem[p][old.run]]
    BY DEF TypeOK
  <2>4. mem[p][old.run] \in States \cup {"absent"}
    BY DEF TypeOK
  <2> DEFINE r == old.run
             s == mem[p][r]
  <2>5. r \in Runs /\ \A r2 \in Runs \ {r} : disk'[r2] = disk[r2] /\ tmp'[r2] = tmp[r2]
    OBVIOUS
  <2>6. s \in States \cup {"absent"} /\ mem' = [mem EXCEPT ![p][r] = s]
    BY <2>3, <2>4
  <2>7. /\ Becomes(p, t, q) /\ Elsewhere(p, r) /\ foreign'[p] \subseteq foreign[p] \cup {r}
        /\ s = mem[p][r]
    BY <1>1, <2>1, <2>2
  <2> HIDE DEF old, r, s
  <2> QED
    BY <2>2, <2>5, <2>6, <2>7, NoteOwns
<1> QED
  BY <1>2, <1>3

\* what it notes of a file that does not say "running", as NoteOwns wants it
LEMMA RecordNotes ==
  ASSUME TypeOK, NEW p \in Procs, NEW r \in Runs, foreign' = [foreign EXCEPT ![p] = @ \ {r}]
  PROVE  /\ foreign' \in [Procs -> SUBSET Runs]
         /\ foreign'[p] \subseteq foreign[p] \cup {r}
         /\ \A p2 \in Procs \ {p} : foreign'[p2] = foreign[p2]
  BY OneJoins DEF TypeOK

LEMMA MemTyped ==
  ASSUME TypeOK, NEW p \in Procs, NEW r \in Runs
  PROVE  mem[p][r] \in States \cup {"absent"} /\ "error" \in States /\ "error" # "running"
  BY DEF TypeOK, States, Terminal

LEMMA GetLockOwns ==
  ASSUME TypeOK, Ownership, NEW p \in Procs, NEW t \in Threads, GetLock(p, t)
  PROVE  Ownership'
<1> DEFINE r   == req[p][t].run
           got == req[p][t].got
           op  == req[p][t].op
<1>1. /\ req[p][t].pc = "get_lock" /\ r \in Runs /\ got.state \in States \cup {"absent"}
      /\ op \in {"none", "status", "cancel", "answer", "scan", "list"}
  BY InHand, RequestFields DEF GetLock, At, NoRun
<1>2. Elsewhere(p, r)
  BY <1>1 DEF Ownership, RequestsSound, Sound, Borrowing
<1>3. UNCHANGED <<owner, started, queue, worker, tmp, disk>>
  BY DEF GetLock, RequestUnchanged
<1>4. \A s : /\ AfterGet(op, r, s) \in Request
             /\ AfterGet(op, r, s).pc \notin Submitting
             /\ Sound(p, AfterGet(op, r, s))
  BY <1>1, <1>2, AfterGetSound DEF Elsewhere
<1>5. CASE Unsettled(got)
  <2>1. Classify(p, t, op, AfterGet(op, r, "running")) /\ UNCHANGED mem
    BY <1>5 DEF GetLock
  <2>2. op # "list"
    BY <1>1 DEF Ownership, RequestsSound, Sound
  <2>3. req[p][t].pc \in Borrowing
    BY <1>1 DEF Borrowing
  <2> DEFINE q == AfterGet(op, r, "running")
  <2>4. q \in Request /\ q.pc \notin Submitting /\ Sound(p, q) /\ Classify(p, t, op, q)
    BY <1>4, <2>1
  <2> HIDE DEF q
  <2> QED
    BY <1>1, <1>3, <2>1, <2>2, <2>3, <2>4, ClassifyOwns
<1>6. CASE ~Unsettled(got)
  <2> DEFINE known == IF mem[p][r] = "absent" THEN got.state ELSE mem[p][r]
  <2>1. /\ Becomes(p, t, AfterGet(op, r, known))
        /\ mem' = [mem EXCEPT ![p][r] = known]
        /\ foreign' = [foreign EXCEPT ![p] = @ \ {r}]
    BY <1>6 DEF GetLock
  <2>2. known \in States \cup {"absent"} /\ (known # "running" \/ known = mem[p][r])
    BY <1>1, <1>6, MemTyped DEF Unsettled
  <2>3. /\ foreign' \in [Procs -> SUBSET Runs]
        /\ foreign'[p] \subseteq foreign[p] \cup {r}
        /\ \A p2 \in Procs \ {p} : foreign'[p2] = foreign[p2]
    BY <1>1, <2>1, RecordNotes
  <2>4. \A r2 \in Runs \ {r} : disk'[r2] = disk[r2] /\ tmp'[r2] = tmp[r2]
    BY <1>3
  <2> DEFINE q == AfterGet(op, r, known)
  <2>5. q \in Request /\ Becomes(p, t, q) /\ q.pc \notin Submitting /\ Sound(p, q)
    BY <1>4, <2>1
  <2> HIDE DEF q, r, got, op, known
  <2> QED
    BY <1>1, <1>2, <1>3, <2>1, <2>2, <2>3, <2>4, <2>5, NoteOwns
<1> QED
  BY <1>5, <1>6

LEMMA LockedLoopOwns ==
  ASSUME TypeOK, Ownership, NEW p \in Procs, NEW t \in Threads,
         ScanClassify(p, t) \/ ListLock(p, t)
  PROVE  Ownership'
<1> DEFINE r    == req[p][t].run
           got  == req[p][t].got
           todo == req[p][t].todo
<1>1. /\ req[p][t].pc \in {"scan_classify", "list_lock"}
      /\ r \in Runs /\ got.state \in States \cup {"absent"} /\ todo \in SUBSET Runs
  BY InHand, RequestFields DEF ScanClassify, ListLock, At, NoRun
<1>2. Elsewhere(p, r) /\ req[p][t].pc \in Borrowing
  BY <1>1 DEF Ownership, RequestsSound, Sound, Borrowing
<1>3. UNCHANGED <<owner, started, queue, worker, tmp, disk>>
  BY DEF ScanClassify, ListLock, RequestUnchanged
<1>4. ListLock(p, t) => \A x \in todo : Elsewhere(p, x)
  <2>1. ListLock(p, t) => req[p][t].pc = "list_lock"
    BY DEF ListLock, At
  <2> QED
    BY <2>1 DEF Ownership, RequestsSound, Sound, Looping
<1>5. /\ Loop("scan", todo) \in Request /\ Sound(p, Loop("scan", todo))
      /\ Loop("scan", todo).pc \notin Submitting
  BY <1>1, LoopSound
<1>6. ListLock(p, t) => /\ Loop("list", todo) \in Request /\ Sound(p, Loop("list", todo))
                        /\ Loop("list", todo).pc \notin Submitting
  BY <1>1, <1>4, LoopSound
<1>7. CASE ScanClassify(p, t)
  <2>1. Classify(p, t, "scan", Loop("scan", todo)) /\ UNCHANGED mem
    BY <1>7 DEF ScanClassify
  <2> QED
    BY <1>1, <1>2, <1>3, <1>5, <2>1, ClassifyOwns
<1>8. CASE ListLock(p, t) /\ Unsettled(got)
  <2>1. Classify(p, t, "list", Loop("list", todo)) /\ UNCHANGED mem
    BY <1>8 DEF ListLock
  <2> QED
    BY <1>1, <1>2, <1>3, <1>4, <1>6, <1>8, <2>1, ClassifyOwns
<1>9. CASE ListLock(p, t) /\ ~Unsettled(got)
  <2>1. /\ mem' = [mem EXCEPT ![p][r] = got.state]
        /\ foreign' = [foreign EXCEPT ![p] = @ \ {r}]
        /\ Becomes(p, t, Loop("list", todo))
    BY <1>9 DEF ListLock
  <2>2. got.state # "running"
    BY <1>9 DEF Unsettled
  <2>3. /\ foreign' \in [Procs -> SUBSET Runs]
        /\ foreign'[p] \subseteq foreign[p] \cup {r}
        /\ \A p2 \in Procs \ {p} : foreign'[p2] = foreign[p2]
    BY <1>1, <2>1, RecordNotes
  <2>4. \A r2 \in Runs \ {r} : disk'[r2] = disk[r2] /\ tmp'[r2] = tmp[r2]
    BY <1>3
  <2> HIDE DEF r, got, todo
  <2> QED
    BY <1>1, <1>2, <1>3, <1>6, <1>9, <2>1, <2>2, <2>3, <2>4, NoteOwns
<1> QED
  BY <1>7, <1>8, <1>9

\* a correction is remembered, of a run that is not its registry's own
LEMMA CorrectOwns ==
  ASSUME TypeOK, Ownership, NEW p \in Procs, NEW t \in Threads, Correct(p, t)
  PROVE  Ownership'
<1> DEFINE old == req[p][t]
           r   == old.run
<1>1. /\ old.pc = "fix_replace" /\ r \in Runs /\ old.todo \in SUBSET Runs
      /\ Rename(r)
      /\ mem' = [mem EXCEPT ![p][r] = "error"]
      /\ foreign' = [foreign EXCEPT ![p] = @ \ {r}]
      /\ UNCHANGED <<owner, started, queue, worker>>
      /\ Becomes(p, t, IF old.op \in {"scan", "list"} THEN Loop(old.op, old.todo)
                       ELSE AfterGet(old.op, r, "error"))
  BY InHand, RequestFields DEF Correct, At, NoRun
<1>2. Elsewhere(p, r) /\ (old.op = "list" => \A x \in old.todo : Elsewhere(p, x))
  BY <1>1 DEF Ownership, RequestsSound, Sound, Borrowing, Fixing
<1>3. \E q \in Request : Becomes(p, t, q) /\ Sound(p, q) /\ q.pc \notin Submitting
  <2>1. CASE old.op \in {"scan", "list"}
    BY <1>1, <1>2, <2>1, LoopSound
  <2>2. CASE old.op \notin {"scan", "list"}
    BY <1>1, <1>2, <2>2, AfterGetSound DEF Elsewhere
  <2> QED
    BY <2>1, <2>2
<1>4. PICK q \in Request : Becomes(p, t, q) /\ Sound(p, q) /\ q.pc \notin Submitting
  BY <1>3
<1>5. \A r2 \in Runs \ {r} : disk'[r2] = disk[r2] /\ tmp'[r2] = tmp[r2]
  BY <1>1, OneRenamed
<1>6. /\ foreign' \in [Procs -> SUBSET Runs]
      /\ foreign'[p] \subseteq foreign[p] \cup {r}
      /\ \A p2 \in Procs \ {p} : foreign'[p2] = foreign[p2]
  BY <1>1, RecordNotes
<1>7. "error" \in States \cup {"absent"}
  BY DEF States, Terminal
<1> HIDE DEF r, old
<1> QED
  BY <1>1, <1>2, <1>4, <1>5, <1>6, <1>7, NoteOwns

LEMMA VisitOwns ==
  ASSUME TypeOK, Ownership, NEW p \in Procs, NEW t \in Threads, NEW r \in Runs,
         ScanVisit(p, t, r) \/ ListRead(p, t, r)
  PROVE  Ownership'
<1> DEFINE old  == req[p][t]
           rest == [old EXCEPT !.todo = @ \ {r}]
           held(place) == [rest EXCEPT !.pc = place, !.run = r, !.got = disk[r]]
           bad  == [rest EXCEPT !.pc = "file_error"]
           bad0 == [old EXCEPT !.pc = "file_error"]
<1>1. /\ old \in Request /\ old.pc \in {"scan", "list"}
      /\ disk[r] \in File
      /\ old.pc = "list" => /\ Elsewhere(p, r)
                            /\ \A x \in old.todo : Elsewhere(p, x)
  <2>1. old.pc \in {"scan", "list"} /\ r \in old.todo
    BY DEF ScanVisit, ListRead, At
  <2> QED
    BY <2>1 DEF TypeOK, Ownership, RequestsSound, Sound, Looping
<1>2. UNCHANGED <<owner, started, queue, worker, foreign, disk, tmp>>
  BY DEF ScanVisit, ListRead, RequestUnchanged
<1>3. CASE Becomes(p, t, rest) /\ UNCHANGED mem
  <2>1. rest \in Request /\ rest.pc = old.pc /\ rest.todo = old.todo \ {r}
    BY <1>1, LessTodo, VisitedFields
  <2> HIDE DEF rest, old
  <2>2. Sound(p, rest) /\ rest.pc \notin Submitting
    BY <1>1, <2>1 DEF Sound, Submitting, Borrowing, Fixing, Touching, Looping
  <2> QED
    BY <1>2, <1>3, <2>1, <2>2, LookOwns
<1>4. CASE (Becomes(p, t, bad0) \/ Becomes(p, t, bad)) /\ UNCHANGED mem
  <2>1. rest \in Request
    BY <1>1, LessTodo
  <2>2. /\ bad \in Request /\ Sound(p, bad) /\ bad.pc \notin Submitting
        /\ bad0 \in Request /\ Sound(p, bad0) /\ bad0.pc \notin Submitting
    <3> HIDE DEF rest, old
    <3> QED
      BY <1>1, <2>1, ErrorSound
  <2> HIDE DEF bad, bad0
  <2> QED
    BY <1>2, <1>4, <2>2, LookOwns
<1>5. CASE /\ disk[r].state # "absent" /\ mem[p][r] = "absent"
           /\ Becomes(p, t, rest) /\ mem' = [mem EXCEPT ![p][r] = disk[r].state]
           /\ disk[r].state \in States \ {"running"} /\ old.pc = "scan"
  <2>1. Elsewhere(p, r)
    BY <1>5 DEF Ownership, OwnerRemembers, FilesAreOwned, Elsewhere
  <2>2. rest \in Request /\ rest.pc = old.pc
    BY <1>1, LessTodo, VisitedFields
  <2>3. disk[r].state \in States \cup {"absent"}
    BY <1>5
  <2> HIDE DEF rest, old
  <2>4. Sound(p, rest) /\ rest.pc \notin Submitting
    BY <1>5, <2>2 DEF Sound, Submitting, Borrowing, Fixing, Touching, Looping
  <2>5. foreign' \in [Procs -> SUBSET Runs]
    BY <1>2 DEF TypeOK
  <2> QED
    BY <1>2, <1>5, <2>1, <2>2, <2>3, <2>4, <2>5, NoteOwns
<1>6. CASE \E place \in {"scan_classify", "list_lock"} :
             /\ Becomes(p, t, held(place)) /\ UNCHANGED mem /\ Elsewhere(p, r)
             /\ place = "list_lock" => old.pc = "list"
             /\ disk[r].state \notin Garbled
  <2>1. PICK place \in {"scan_classify", "list_lock"} :
             /\ Becomes(p, t, held(place)) /\ UNCHANGED mem /\ Elsewhere(p, r)
             /\ place = "list_lock" => old.pc = "list"
             /\ disk[r].state \notin Garbled
    BY <1>6
  <2>2. rest \in Request /\ rest.todo = old.todo \ {r}
    BY <1>1, LessTodo, VisitedFields, ZenonT(60)
  <2> HIDE DEF rest, old
  <2>3. held(place) \in Request
    BY <1>1, <2>1, <2>2, HoldRunAndFile, ReadableFiles DEF Places
  <2>4. held(place).pc = place /\ held(place).run = r /\ held(place).todo = rest.todo
    BY <2>2 DEF Request
  <2> HIDE DEF held
  <2>5. Sound(p, held(place)) /\ held(place).pc \notin Submitting
    BY <1>1, <2>1, <2>2, <2>4 DEF Sound, Submitting, Borrowing, Fixing, Touching, Looping
  <2> QED
    BY <1>2, <2>1, <2>3, <2>5, LookOwns
<1>7. States \cap Garbled = {} /\ "absent" \notin States
  BY DEF States, Terminal, Garbled
<1>8. CASE ScanVisit(p, t, r)
  <2>1. old.pc = "scan"
    BY <1>8 DEF ScanVisit, At
  <2>2. CASE (mem[p][r] # "absent" \/ disk[r].state = "absent") /\ Becomes(p, t, rest) /\ UNCHANGED mem
    BY <1>3, <2>2
  <2>3. CASE disk[r].state \in Garbled /\ Throw(p, t) /\ UNCHANGED mem
    BY <1>4, <2>3 DEF Throw, Goto
  <2>4. CASE /\ mem[p][r] = "absent" /\ disk[r].state \in States /\ Unsettled(disk[r])
             /\ Becomes(p, t, held("scan_classify")) /\ UNCHANGED mem
    <3>1. Elsewhere(p, r)
      BY <1>7, <2>4 DEF Ownership, OwnerRemembers, FilesAreOwned, Elsewhere
    <3> QED
      BY <1>6, <1>7, <2>4, <3>1
  <2>5. CASE /\ mem[p][r] = "absent" /\ disk[r].state \in States /\ ~Unsettled(disk[r])
             /\ Becomes(p, t, rest) /\ mem' = [mem EXCEPT ![p][r] = disk[r].state]
    BY <1>5, <1>7, <2>1, <2>5 DEF Unsettled
  <2> QED
    BY <1>8, <2>2, <2>3, <2>4, <2>5 DEF ScanVisit
<1>9. CASE ListRead(p, t, r)
  <2>1. old.pc = "list" /\ UNCHANGED mem
    BY <1>9 DEF ListRead, At
  <2>2. \/ Becomes(p, t, rest) \/ Becomes(p, t, bad)
        \/ Becomes(p, t, held("list_lock")) /\ disk[r].state \notin Garbled
    BY <1>9 DEF ListRead
  <2> QED
    BY <1>1, <1>3, <1>6, <1>4, <2>1, <2>2
<1> QED
  BY <1>8, <1>9

LEMMA CancelOwns ==
  ASSUME TypeOK, Ownership, NEW p \in Procs, NEW t \in Threads, Cancel(p, t)
  PROVE  Ownership'
<1> DEFINE r == req[p][t].run
<1>1. req[p][t].pc = "cancel" /\ r \in Runs /\ req[p][t] \in Request
  BY InHand DEF Cancel, At, NoRun
<1>2. owner[r] # "none"
  BY <1>1 DEF Ownership, RequestsSound, Sound, Touching
<1>3. UNCHANGED <<owner, started, queue, worker, foreign, disk, tmp>>
  BY DEF Cancel
<1>4. PICK place \in {"answer", "key_error", "cancel_open"} : Goto(p, t, place)
  BY DEF Cancel
<1>5. PICK q \in Request : Becomes(p, t, q) /\ q.pc = place /\ q.run = r
  <2> DEFINE q == [req[p][t] EXCEPT !.pc = place]
  <2>1. q \in Request
    BY <1>1, MovePc DEF Places
  <2>2. q.pc = place /\ q.run = r
    BY <1>1, MovedFields
  <2> QED
    BY <1>4, <2>1, <2>2 DEF Goto
<1>6. Sound(p, q) /\ q.pc \notin Submitting
  BY <1>2, <1>5 DEF Sound, Submitting, Borrowing, Fixing, Touching, Looping
<1>7. CASE UNCHANGED mem
  BY <1>3, <1>5, <1>6, <1>7, LookOwns
<1>8. CASE /\ mem' = [mem EXCEPT ![p][r] = "cancelled"]
           /\ ~Begun(p, r) /\ mem[p][r] \notin Terminal
  <2>1. r \notin started[p]
    BY <1>8 DEF Begun
  <2>2. /\ mem'[p][r] = "cancelled"
        /\ \A p2 \in Procs, r2 \in Runs : p2 # p \/ r2 # r => mem'[p2][r2] = mem[p2][r2]
    BY <1>1, <1>8 DEF TypeOK
  <2>3. OwnerRemembers'
    BY <1>3, <2>1, <2>2 DEF Ownership, OwnerRemembers
  <2>4. StartedIsInWork'
    BY <1>3, <2>1, <2>2 DEF Ownership, StartedIsInWork
  <2>5. WorkerInStep'
    <3> SUFFICES ASSUME NEW p2 \in Procs, worker[p2].pc # "idle"
                 PROVE  /\ worker[p2].run \in started[p2]
                        /\ InStep(worker[p2], mem'[p2][worker[p2].run])
      BY <1>3 DEF WorkerInStep, InStep
    <3>1. worker[p2].run \in started[p2] /\ InStep(worker[p2], mem[p2][worker[p2].run])
      BY DEF Ownership, WorkerInStep
    <3>2. worker[p2].run \in Runs
      BY <3>1 DEF TypeOK
    <3> QED
      BY <2>1, <2>2, <3>1, <3>2
  <2>6. RequestsSound' /\ SubmittedOnce'
    BY <1>3, <1>5, <1>6, RequestMoves DEF Ownership
  <2>7. QueueIsWaiting' /\ ForeignIsElsewhere' /\ FilesAreOwned'
    BY <1>3 DEF Ownership, QueueIsWaiting, ForeignIsElsewhere, Elsewhere, FilesAreOwned
  <2> QED
    BY <2>3, <2>4, <2>5, <2>6, <2>7 DEF Ownership
<1> QED
  BY <1>7, <1>8 DEF Cancel

\* the worker is done with its run
LEMMA WorkerRests ==
  ASSUME TypeOK, OwnerRemembers, StartedIsInWork, WorkerInStep,
         NEW p \in Procs, worker[p].pc # "idle", mem[p][worker[p].run] \in Terminal,
         Works(p, Resting), UNCHANGED <<owner, started, mem>>
  PROVE  OwnerRemembers' /\ StartedIsInWork' /\ WorkerInStep'
<1>1. worker'[p] = Resting /\ \A p2 \in Procs \ {p} : worker'[p2] = worker[p2]
  BY RestingType, OneWorks DEF TypeOK
<1>2. OwnerRemembers'
  BY DEF OwnerRemembers
<1>3. StartedIsInWork'
  BY <1>1 DEF StartedIsInWork
<1>4. WorkerInStep'
  <2>1. Resting.pc = "idle"
    BY DEF Resting
  <2> QED
    BY <1>1, <2>1 DEF WorkerInStep, InStep
<1> QED
  BY <1>2, <1>3, <1>4

\* the worker moves on with its run, and nobody's request or queue changes
LEMMA WorkOwns ==
  ASSUME TypeOK, Ownership, OwnerRemembers' /\ StartedIsInWork' /\ WorkerInStep',
         NEW p \in Procs, worker[p].pc # "idle",
         \A r \in Runs : r # worker[p].run => disk'[r] = disk[r],
         UNCHANGED <<owner, started, queue, req, foreign, tmp>>
  PROVE  Ownership'
<1>1. owner[worker[p].run] = p /\ p # "none"
  <2>1. worker[p].run \in started[p] /\ worker[p].run \in Runs
    BY DEF Ownership, WorkerInStep, TypeOK
  <2> QED
    BY <2>1, ConstantsAssumption DEF Ownership, StartedIsInWork
<1>2. FilesAreOwned'
  BY <1>1 DEF Ownership, FilesAreOwned
<1>3. RequestsSound' /\ SubmittedOnce' /\ QueueIsWaiting' /\ ForeignIsElsewhere'
  BY DEF Ownership, RequestsSound, Sound, Elsewhere, SubmittedOnce, QueueIsWaiting,
         ForeignIsElsewhere
<1> QED
  BY <1>2, <1>3 DEF Ownership

LEMMA WorkerOwns ==
  ASSUME TypeOK, Ownership, NEW p \in Procs,
         \/ Publish(p) \/ WriteStatus(p) \/ Progress(p) \/ StopSeen(p) \/ WorkEnds(p)
         \/ Settle(p)
  PROVE  Ownership'
<1> DEFINE old == worker[p]
           r   == old.run
<1>1. old \in Worker /\ old.pc # "idle"
  BY DEF Publish, WriteStatus, Progress, StopSeen, WorkEnds, Settle, TypeOK
<1>2. r \in Runs /\ old.out \in States
  BY <1>1, WorkerFields
<1>3. InStep(old, mem[p][r])
  BY <1>1 DEF Ownership, WorkerInStep
<1>4. /\ UNCHANGED <<owner, started, queue, req, foreign, tmp>>
      /\ \A r2 \in Runs : r2 # r => disk'[r2] = disk[r2]
  BY DEF Publish, WriteStatus, Progress, StopSeen, WorkEnds, Settle, WorkerUnchanged, TypeOK
<1>5. /\ mem[p][r] \in States \cup {"absent"}
      /\ mem \in [Procs -> [Runs -> States \cup {"absent"}]]
  BY <1>2 DEF TypeOK
<1>6. ASSUME NEW w \in Worker, Works(p, w), w.run = r, NEW s \in States, InStep(w, s),
             w.pc = "idle" => s \in Terminal, mem' = [mem EXCEPT ![p][r] = s]
      PROVE  Ownership'
  <2>1. /\ mem' \in [Procs -> [Runs -> States \cup {"absent"}]]
        /\ mem'[p][r] = s
        /\ \A p2 \in Procs, r2 \in Runs : p2 # p \/ r2 # r => mem'[p2][r2] = mem[p2][r2]
    <3>1. s \in States \cup {"absent"} /\ mem' = [mem EXCEPT ![p][r] = s]
      BY <1>6
    <3>2. /\ mem' \in [Procs -> [Runs -> States \cup {"absent"}]]
          /\ mem'[p][r] = s
          /\ \A p2 \in Procs, r2 \in Runs : p2 # p \/ r2 # r => mem'[p2][r2] = mem[p2][r2]
      BY <1>2, <3>1, OneRecorded, ZenonT(60)
    <3> QED
      BY <1>6, <3>2
  <2>2. OwnerRemembers' /\ StartedIsInWork' /\ WorkerInStep'
    BY <1>1, <1>4, <1>6, <2>1, WorkerMoves DEF Ownership
  <2> QED
    BY <1>1, <1>4, <2>2, WorkOwns
<1>7. mem' = mem => mem' = [mem EXCEPT ![p][r] = mem[p][r]]
  BY <1>5
<1>8. CASE Publish(p)
  <2> DEFINE w == [old EXCEPT !.pc = "write", !.out = "running"]
  <2>1. w \in Worker
    BY <1>1, WorkerOut DEF States
  <2>2. w.pc = "write" /\ w.out = "running" /\ w.run = r
    BY <1>1 DEF Worker
  <2>3. Works(p, w) /\ mem' = [mem EXCEPT ![p][r] = "running"]
    BY <1>8 DEF Publish
  <2> HIDE DEF w
  <2>4. InStep(w, "running") /\ "running" \in States
    BY <2>2 DEF InStep, States
  <2> QED
    BY <1>6, <2>1, <2>2, <2>3, <2>4
<1>9. CASE Settle(p)
  <2> DEFINE w == [old EXCEPT !.pc = "write"]
  <2>1. w \in Worker
    BY <1>1, WorkerPc
  <2>2. w.pc = "write" /\ w.out = old.out /\ w.run = r
    BY <1>1 DEF Worker
  <2>3. Works(p, w) /\ mem' = [mem EXCEPT ![p][r] = old.out]
    BY <1>9 DEF Settle
  <2>4. old.out \in Terminal
    BY <1>3, <1>9 DEF InStep, Settle
  <2> HIDE DEF w
  <2>5. InStep(w, old.out)
    BY <2>2, <2>4 DEF InStep
  <2> QED
    BY <1>2, <1>6, <2>1, <2>2, <2>3, <2>5
<1>10. CASE WriteStatus(p) /\ old.out = "running"
  <2> DEFINE w == [old EXCEPT !.pc = "work"]
  <2>1. w \in Worker
    BY <1>1, WorkerPc
  <2>2. w.pc = "work" /\ w.run = r
    BY <1>1 DEF Worker
  <2>3. Works(p, w) /\ mem' = mem
    BY <1>10 DEF WriteStatus
  <2>4. mem[p][r] = "running"
    BY <1>3, <1>10 DEF InStep, WriteStatus
  <2> HIDE DEF w
  <2>5. InStep(w, "running") /\ "running" \in States
    BY <2>2 DEF InStep, States
  <2> QED
    BY <1>6, <1>7, <2>1, <2>2, <2>3, <2>4, <2>5
<1>11. CASE WriteStatus(p) /\ old.out # "running"
  <2>1. Works(p, Resting) /\ UNCHANGED mem
    BY <1>11 DEF WriteStatus
  <2>2. mem[p][r] \in Terminal
    BY <1>3, <1>11 DEF InStep, WriteStatus
  <2>3. OwnerRemembers' /\ StartedIsInWork' /\ WorkerInStep'
    BY <1>1, <1>4, <2>1, <2>2, WorkerRests DEF Ownership
  <2> QED
    BY <1>1, <1>4, <2>3, WorkOwns
<1>12. CASE Progress(p) /\ worker'[p].pc = "publish"
  <2> DEFINE w == [old EXCEPT !.pc = "publish", !.stage = @ + 1]
  <2>1. Works(p, w) /\ mem' = mem /\ old.stage < Stages
    <3>1. Works(p, [old EXCEPT !.pc = "finish", !.out = "cancelled"]) =>
            worker'[p].pc = "finish"
      BY <1>1 DEF Works, Worker, TypeOK
    <3> QED
      BY <1>12, <3>1 DEF Progress, StagesLeft, End
  <2>2. w \in Worker
    BY <1>1, <2>1, WorkerStage
  <2>3. w.pc = "publish" /\ w.run = r
    BY <1>1 DEF Worker
  <2>4. mem[p][r] = "running"
    BY <1>3, <1>12 DEF InStep, Progress
  <2> HIDE DEF w
  <2>5. InStep(w, "running") /\ "running" \in States
    BY <2>3 DEF InStep, States
  <2> QED
    BY <1>6, <1>7, <2>1, <2>2, <2>3, <2>4, <2>5
<1>13. CASE mem' = mem /\ old.pc = "work" /\ \E o \in Terminal : End(p, o)
  <2>1. PICK o \in Terminal : End(p, o)
    BY <1>13
  <2> DEFINE w == [old EXCEPT !.pc = "finish", !.out = o]
  <2>2. w \in Worker
    BY <1>1, WorkerOut DEF States
  <2>3. w.pc = "finish" /\ w.out = o /\ w.run = r
    BY <1>1 DEF Worker
  <2>4. Works(p, w)
    BY <2>1 DEF End
  <2>5. mem[p][r] = "running"
    BY <1>3, <1>13 DEF InStep
  <2> HIDE DEF w
  <2>6. InStep(w, "running") /\ "running" \in States
    BY <2>3 DEF InStep, States
  <2> QED
    BY <1>6, <1>7, <1>13, <2>2, <2>3, <2>4, <2>5, <2>6
<1>14. CASE StopSeen(p) \/ WorkEnds(p)
  BY <1>13, <1>14 DEF StopSeen, WorkEnds, Terminal
<1>15. CASE Progress(p) /\ worker'[p].pc # "publish"
  <2>1. Works(p, [old EXCEPT !.pc = "publish", !.stage = @ + 1]) =>
          worker'[p].pc = "publish"
    BY <1>1 DEF Works, Worker, TypeOK
  <2> QED
    BY <1>13, <1>15, <2>1 DEF Progress, Terminal
<1> QED
  BY <1>8, <1>9, <1>10, <1>11, <1>12, <1>14, <1>15

LEMMA CrashOwns ==
  ASSUME TypeOK, Ownership, NEW p \in Procs, Crash(p)
  PROVE  Ownership'
<1>1. /\ \A r \in Runs : owner'[r] = IF owner[r] = p THEN "lost" ELSE owner[r]
      /\ \A q \in Procs : q # "none" /\ q # "lost"
  BY ConstantsAssumption DEF Crash
<1>2. /\ mem'[p] = [r \in Runs |-> "absent"] /\ started'[p] = {} /\ foreign'[p] = {}
      /\ queue'[p] = <<>> /\ worker'[p] = Resting /\ req'[p] = [t \in Threads |-> Idle]
  BY DEF Crash, TypeOK
<1>3. \A q \in Procs \ {p} : /\ mem'[q] = mem[q] /\ started'[q] = started[q]
                            /\ foreign'[q] = foreign[q] /\ queue'[q] = queue[q]
                            /\ worker'[q] = worker[q] /\ req'[q] = req[q]
  BY DEF Crash, TypeOK
<1>4. \A q \in Procs \ {p}, r \in Runs : /\ owner'[r] = q <=> owner[r] = q
                                         /\ Elsewhere(q, r) => Elsewhere(q, r)'
  BY <1>1 DEF Elsewhere
<1>5. OwnerRemembers'
  <2> SUFFICES ASSUME NEW q \in Procs, NEW r \in Runs
               PROVE  IF owner'[r] = q
                      THEN /\ mem'[q][r] # "absent"
                           /\ r \notin started'[q] => mem'[q][r] \in {"queued", "cancelled"}
                      ELSE mem'[q][r] # "running"
    BY DEF OwnerRemembers
  <2>1. CASE q = p
    BY <1>1, <1>2, <2>1
  <2>2. CASE q # p
    BY <1>3, <1>4, <2>2 DEF Ownership, OwnerRemembers
  <2> QED
    BY <2>1, <2>2
<1>6. StartedIsInWork'
  <2> SUFFICES ASSUME NEW q \in Procs, NEW r \in Runs, r \in started'[q]
               PROVE  /\ owner'[r] = q
                      /\ \/ mem'[q][r] \in Terminal
                         \/ worker'[q].pc # "idle" /\ worker'[q].run = r
    BY DEF StartedIsInWork
  <2>1. q # p
    BY <1>2
  <2> QED
    BY <1>3, <1>4, <2>1 DEF Ownership, StartedIsInWork
<1>7. WorkerInStep'
  <2> SUFFICES ASSUME NEW q \in Procs, worker'[q].pc # "idle"
               PROVE  /\ worker'[q].run \in started'[q]
                      /\ InStep(worker'[q], mem'[q][worker'[q].run])
    BY DEF WorkerInStep, InStep
  <2>1. q # p
    BY <1>2 DEF Resting
  <2> QED
    BY <1>3, <2>1 DEF Ownership, WorkerInStep
<1>8. QueueIsWaiting'
  <2> SUFFICES ASSUME NEW q \in Procs, NEW i \in 1..Len(queue'[q])
               PROVE  /\ owner'[queue'[q][i]] = q
                      /\ queue'[q][i] \notin started'[q]
                      /\ \A j \in 1..Len(queue'[q]) : j # i => queue'[q][j] # queue'[q][i]
    BY DEF QueueIsWaiting
  <2>1. q # p
    BY <1>2
  <2>2. queue[q][i] \in Runs
    BY <1>3, <2>1 DEF TypeOK
  <2> QED
    BY <1>3, <1>4, <2>1, <2>2 DEF Ownership, QueueIsWaiting
<1>9. RequestsSound'
  <2> SUFFICES ASSUME NEW q \in Procs, NEW t \in Threads
               PROVE  Sound(q, req[q][t])'
    BY DEF RequestsSound
  <2>1. CASE q = p
    BY <1>2, <2>1 DEF Sound, Idle, Submitting, Borrowing, Fixing, Touching, Looping
  <2>2. CASE q # p
    <3>1. /\ Sound(q, req[q][t])
          /\ req[q][t].pc \notin NoRun => req[q][t].run \in Runs
          /\ req[q][t].todo \in SUBSET Runs
      <4>1. Sound(q, req[q][t]) /\ req[q][t] \in Request
        BY DEF Ownership, RequestsSound, TypeOK
      <4> QED
        BY <4>1, RequestFields
    <3>2. req'[q][t] = req[q][t] /\ started'[q] = started[q] /\ queue'[q] = queue[q]
      BY <1>3, <2>2
    <3>3. \A r \in Runs : /\ owner'[r] = q <=> owner[r] = q
                          /\ Elsewhere(q, r) => Elsewhere(q, r)'
                          /\ owner[r] # "none" => owner'[r] # "none"
      BY <1>1, <1>4, <2>2
    <3> QED
      BY <3>1, <3>2, <3>3 DEF Sound, Submitting, Borrowing, Fixing, Touching, Looping, NoRun
  <2> QED
    BY <2>1, <2>2
<1>10. SubmittedOnce'
  <2> SUFFICES ASSUME NEW q \in Procs, NEW t1 \in Threads, NEW t2 \in Threads, t1 # t2,
                      req'[q][t1].pc \in Submitting, req'[q][t2].pc \in Submitting
               PROVE  req'[q][t1].run # req'[q][t2].run
    BY DEF SubmittedOnce
  <2>1. q # p
    BY <1>2 DEF Idle, Submitting
  <2> QED
    BY <1>3, <2>1 DEF Ownership, SubmittedOnce
<1>11. ForeignIsElsewhere'
  <2> SUFFICES ASSUME NEW q \in Procs, NEW x \in foreign'[q] PROVE Elsewhere(q, x)'
    BY DEF ForeignIsElsewhere
  <2>1. q # p
    BY <1>2
  <2>2. x \in Runs /\ Elsewhere(q, x)
    BY <1>3, <2>1 DEF Ownership, ForeignIsElsewhere, TypeOK
  <2> QED
    BY <1>4, <2>1, <2>2
<1>12. FilesAreOwned'
  <2>1. UNCHANGED <<disk, tmp>>
    BY DEF Crash
  <2> QED
    BY <1>1, <2>1 DEF Ownership, FilesAreOwned
<1> QED
  BY <1>5, <1>6, <1>7, <1>8, <1>9, <1>10, <1>11, <1>12 DEF Ownership

LEMMA IdleOwns ==
  ASSUME Ownership,
         UNCHANGED <<owner, started, queue, worker, mem, foreign, req, disk, tmp>>
  PROVE  Ownership'
BY DEF Ownership, OwnerRemembers, StartedIsInWork, WorkerInStep, InStep, QueueIsWaiting,
       RequestsSound, Sound, SubmittedOnce, ForeignIsElsewhere, Elsewhere, FilesAreOwned

LEMMA OwnershipStep == TypeOK /\ Ownership /\ [Next]_vars => Ownership'
<1> SUFFICES ASSUME TypeOK, Ownership, [Next]_vars PROVE Ownership'
  OBVIOUS
<1>1. CASE UNCHANGED vars
  BY <1>1, IdleOwns DEF vars
<1>2. ASSUME NEW p \in Procs, Boot(p) PROVE Ownership'
  BY <1>2, IdleOwns DEF Boot
<1>3. ASSUME NEW p \in Procs, WorkerNext(p) PROVE Ownership'
  BY <1>3, TakeOwns, WorkerOwns DEF WorkerNext
<1>4. ASSUME NEW p \in Procs, NEW t \in Threads, Arrive(p, t) PROVE Ownership'
  BY <1>4, SubmitOwns, GetOwns, LoopOwns DEF Arrive
<1>5. ASSUME NEW p \in Procs, NEW t \in Threads, RequestNext(p, t) PROVE Ownership'
  BY <1>5, WriteOwns, EnqueueOwns, LoopOwns, GetOwns, GetReadOwns, GetLockOwns, CancelOwns,
     VisitOwns, LockedLoopOwns, CorrectOwns DEF RequestNext
<1> QED
  BY <1>1, <1>2, <1>3, <1>4, <1>5, CrashOwns DEF Next

-----------------------------------------------------------------------------
\* A registry changes the state of the runs it accepted and of no other, and
\* a run waits in the queue at most once: for any number of processes on one
\* directory, whatever get, list_all and cancel do meanwhile.
THEOREM OwnershipInvariant == Spec => [](TypeOK /\ Ownership)
<1>1. TypeOK /\ Ownership /\ [Next]_vars => (TypeOK /\ Ownership)'
  BY TypeStep, OwnershipStep
<1>2. Spec => Init
  BY DEF Spec
<1>3. Init => Ownership
  BY OwnershipInit
<1>4. Init => TypeOK
  BY TypeInit
<1> QED
  BY <1>1, <1>3, <1>4, PTL DEF Spec

\* A registry that reports "running" from memory is executing that run: no
\* run of another process, or of a dead one, is ever cached as running.
THEOREM RunningIsExecutingCorrect == Spec => []RunningIsExecuting
<1>1. TypeOK /\ Ownership => RunningIsExecuting
  <2> SUFFICES ASSUME TypeOK, Ownership, NEW p \in Procs, NEW r \in Runs,
                      mem[p][r] = "running"
               PROVE  owner[r] = p /\ worker[p].run = r /\ worker[p].pc # "begin"
    BY DEF RunningIsExecuting
  <2>1. owner[r] = p /\ r \in started[p]
    BY DEF Ownership, OwnerRemembers
  <2>2. worker[p].pc # "idle" /\ worker[p].run = r
    BY <2>1 DEF Ownership, StartedIsInWork, Terminal
  <2>3. InStep(worker[p], "running")
    BY <2>2 DEF Ownership, WorkerInStep
  <2> QED
    BY <2>1, <2>2, <2>3 DEF InStep
<1> QED
  BY <1>1, OwnershipInvariant, PTL

-----------------------------------------------------------------------------
(***************************************************************************)
(* The registry implements JobLifecycle.                                   *)
(***************************************************************************)
Step == Lifecycle!LNext \/ UNCHANGED RunLife

LEMMA LifeOf ==
  /\ \A r \in Runs : RunLife[r] = IF owner[r] \in Procs THEN mem[owner[r]][r] ELSE owner[r]
  /\ \A r \in Runs : RunLife'[r] = IF owner'[r] \in Procs THEN mem'[owner'[r]][r] ELSE owner'[r]
  BY DEF RunLife

\* a step that changes one registry's state of one run
LEMMA OneLives ==
  ASSUME TypeOK, NEW p \in Procs, NEW r \in Runs, NEW s \in States \cup {"absent"},
         mem' = [mem EXCEPT ![p][r] = s], UNCHANGED owner
  PROVE  /\ owner[r] = p => RunLife' = [RunLife EXCEPT ![r] = s] /\ RunLife[r] = mem[p][r]
         /\ owner[r] # p => UNCHANGED RunLife
<1>1. /\ mem'[p][r] = s
      /\ \A p2 \in Procs, r2 \in Runs : p2 # p \/ r2 # r => mem'[p2][r2] = mem[p2][r2]
  BY DEF TypeOK
<1>2. CASE owner[r] = p
  <2>1. \A x \in Runs : RunLife'[x] = IF x = r THEN s ELSE RunLife[x]
    BY <1>1, <1>2 DEF RunLife
  <2>2. RunLife[r] = mem[p][r]
    BY <1>2 DEF RunLife
  <2> QED
    BY <1>2, <2>1, <2>2 DEF RunLife
<1>3. CASE owner[r] # p
  BY <1>1, <1>3 DEF RunLife
<1> QED
  BY <1>2, <1>3

LEMMA SubmitImplements ==
  ASSUME TypeOK, NEW p \in Procs, NEW t \in Threads, NEW r \in Runs, Submit(p, t, r)
  PROVE  Lifecycle!Queue(r)
<1>1. owner[r] = "none" /\ "none" \notin Procs
  BY ConstantsAssumption DEF Submit
<1>2. /\ owner' = [owner EXCEPT ![r] = p] /\ mem' = [mem EXCEPT ![p][r] = "queued"]
  BY DEF Submit
<1>3. RunLife' = [RunLife EXCEPT ![r] = "queued"]
  BY <1>2 DEF RunLife, TypeOK
<1>4. RunLife[r] = "none"
  BY <1>1 DEF RunLife
<1> QED
  BY <1>3, <1>4 DEF Lifecycle!Queue

LEMMA StillLives == ASSUME UNCHANGED <<mem, owner>> PROVE UNCHANGED RunLife
  BY DEF RunLife

\* what another registry, or a reader, records changes no run's life
LEMMA RecordStutters ==
  ASSUME TypeOK, NEW p \in Procs, NEW r \in Runs, Elsewhere(p, r),
         NEW s \in States \cup {"absent"}, mem' = [mem EXCEPT ![p][r] = s], UNCHANGED owner
  PROVE  UNCHANGED RunLife
  BY OneLives DEF Elsewhere

LEMMA CancelImplements ==
  ASSUME TypeOK, Ownership, NEW p \in Procs, NEW t \in Threads, Cancel(p, t)
  PROVE  Step
<1> DEFINE r == req[p][t].run
<1>1. r \in Runs
  BY InHand DEF Cancel, At, NoRun
<1>2. UNCHANGED owner
  BY DEF Cancel
<1>3. CASE UNCHANGED mem
  BY <1>2, <1>3, StillLives DEF Step
<1>4. CASE /\ mem' = [mem EXCEPT ![p][r] = "cancelled"]
           /\ ~Begun(p, r) /\ mem[p][r] \notin Terminal
  <2>1. "cancelled" \in States \cup {"absent"}
    BY DEF States, Terminal
  <2>2. CASE owner[r] = p
    <3>1. mem[p][r] = "queued"
      BY <1>1, <1>4, <2>2 DEF Ownership, OwnerRemembers, Begun, Terminal
    <3>2. RunLife' = [RunLife EXCEPT ![r] = "cancelled"] /\ RunLife[r] = "queued"
      <4> HIDE DEF r
      <4> QED
        BY <1>1, <1>2, <1>4, <2>1, <2>2, <3>1, OneLives
    <3> QED
      BY <1>1, <3>2 DEF Step, Lifecycle!LNext, Lifecycle!CancelQueued
  <2>3. CASE owner[r] # p
    BY <1>1, <1>2, <1>4, <2>1, <2>3, OneLives DEF Step
  <2> QED
    BY <2>2, <2>3
<1> QED
  BY <1>3, <1>4 DEF Cancel

LEMMA WorkerImplements ==
  ASSUME TypeOK, Ownership, NEW p \in Procs, WorkerNext(p)
  PROVE  Step
<1> DEFINE r == worker[p].run
<1>1. UNCHANGED owner
  BY DEF WorkerNext, Take, Publish, WriteStatus, Progress, StopSeen, WorkEnds, Settle,
         WorkerUnchanged
<1>2. CASE UNCHANGED mem
  BY <1>1, <1>2, StillLives DEF Step
<1>3. ASSUME worker[p].pc # "idle"
      PROVE  r \in Runs /\ owner[r] = p /\ InStep(worker[p], mem[p][r])
  BY <1>3 DEF Ownership, WorkerInStep, StartedIsInWork, TypeOK
<1>4. CASE Publish(p)
  <2>1. /\ worker[p].pc \in {"begin", "publish"}
        /\ mem' = [mem EXCEPT ![p][r] = "running"]
    BY <1>4 DEF Publish
  <2>2. /\ r \in Runs /\ owner[r] = p
        /\ mem[p][r] = IF worker[p].pc = "begin" THEN "queued" ELSE "running"
    BY <1>3, <2>1 DEF InStep
  <2>3. "running" \in States \cup {"absent"}
    BY DEF States
  <2> HIDE DEF r
  <2>4. RunLife' = [RunLife EXCEPT ![r] = "running"] /\ RunLife[r] = mem[p][r]
    BY <1>1, <2>1, <2>2, <2>3, OneLives
  <2>5. CASE worker[p].pc = "begin"
    BY <2>2, <2>4, <2>5 DEF Step, Lifecycle!LNext, Lifecycle!Start
  <2>6. CASE worker[p].pc = "publish"
    BY <2>1, <2>2, <2>4, <2>6 DEF Step, RunLife
  <2> QED
    BY <2>1, <2>5, <2>6
<1>5. CASE Settle(p)
  <2>1. /\ worker[p].pc = "finish"
        /\ mem' = [mem EXCEPT ![p][r] = worker[p].out]
    BY <1>5 DEF Settle
  <2>2. /\ r \in Runs /\ owner[r] = p /\ mem[p][r] = "running"
        /\ worker[p].out \in Terminal
    BY <1>3, <2>1 DEF InStep
  <2>3. worker[p].out \in States \cup {"absent"}
    BY <2>2 DEF States
  <2> HIDE DEF r
  <2>4. RunLife' = [RunLife EXCEPT ![r] = worker[p].out] /\ RunLife[r] = "running"
    BY <1>1, <2>1, <2>2, <2>3, OneLives, ZenonT(60)
  <2> QED
    BY <2>2, <2>4 DEF Step, Lifecycle!LNext, Lifecycle!Finish, Lifecycle!Outcomes, Terminal
<1> QED
  BY <1>2, <1>4, <1>5 DEF WorkerNext, Take, WriteStatus, Progress, StopSeen, WorkEnds

LEMMA ReaderImplements ==
  ASSUME TypeOK, Ownership, NEW p \in Procs, NEW t \in Threads,
         \/ GetLock(p, t) \/ ScanClassify(p, t) \/ ListLock(p, t) \/ Correct(p, t)
         \/ \E r \in Runs : ScanVisit(p, t, r)
  PROVE  UNCHANGED RunLife
<1>1. UNCHANGED owner
  BY DEF GetLock, ScanClassify, ListLock, Correct, ScanVisit, RequestUnchanged
<1>2. CASE GetLock(p, t) \/ ScanClassify(p, t) \/ ListLock(p, t) \/ Correct(p, t)
  <2> DEFINE r   == req[p][t].run
             got == req[p][t].got
  <2>1. /\ req[p][t].pc \in Borrowing /\ r \in Runs /\ got.state \in States \cup {"absent"}
    BY <1>2, InHand, RequestFields
    DEF GetLock, ScanClassify, ListLock, Correct, At, NoRun, Borrowing, Fixing
  <2>2. Elsewhere(p, r)
    BY <2>1 DEF Ownership, RequestsSound, Sound
  <2>3. CASE UNCHANGED mem
    BY <1>1, <2>3, StillLives
  <2>4. CASE ~UNCHANGED mem
    <3>1. PICK s \in {"error", mem[p][r], got.state} : mem' = [mem EXCEPT ![p][r] = s]
      BY <1>2, <2>4 DEF GetLock, ScanClassify, ListLock, Correct
    <3>2. s \in States \cup {"absent"}
      BY <2>1, MemTyped
    <3> HIDE DEF r, got
    <3> QED
      BY <1>1, <2>1, <2>2, <3>1, <3>2, RecordStutters
  <2> QED
    BY <2>3, <2>4
<1>3. ASSUME NEW r \in Runs, ScanVisit(p, t, r)
      PROVE  UNCHANGED RunLife
  <2>1. CASE UNCHANGED mem
    BY <1>1, <2>1, StillLives
  <2>2. CASE /\ disk[r].state \in States /\ mem[p][r] = "absent"
             /\ mem' = [mem EXCEPT ![p][r] = disk[r].state]
    <3>1. Elsewhere(p, r)
      BY <2>2 DEF Ownership, OwnerRemembers, FilesAreOwned, Elsewhere, States, Terminal
    <3> QED
      BY <1>1, <2>2, <3>1, RecordStutters
  <2> QED
    BY <1>3, <2>1, <2>2 DEF ScanVisit
<1> QED
  BY <1>2, <1>3

LEMMA CrashImplements ==
  ASSUME TypeOK, NEW p \in Procs, Crash(p)
  PROVE  Lifecycle!Lose
<1> DEFINE S == {r \in Runs : owner[r] = p}
<1>1. \A r \in S : RunLife[r] # "none"
  BY DEF RunLife, TypeOK, States, Terminal
<1>2. \A r \in Runs : owner'[r] = IF r \in S THEN "lost" ELSE owner[r]
  BY DEF Crash
<1>3. \A q \in Procs \ {p} : mem'[q] = mem[q]
  BY DEF Crash, TypeOK
<1>4. "lost" \notin Procs
  BY ConstantsAssumption
<1>5. RunLife' = [r \in Runs |-> IF r \in S THEN "lost" ELSE RunLife[r]]
  BY <1>2, <1>3, <1>4 DEF RunLife
<1> QED
  BY <1>1, <1>5 DEF Lifecycle!Lose

LEMMA StepImplements == TypeOK /\ Ownership /\ [Next]_vars => [Lifecycle!LNext]_RunLife
<1> SUFFICES ASSUME TypeOK, Ownership, [Next]_vars PROVE Step
  BY DEF Step
<1>1. CASE UNCHANGED vars
  BY <1>1, StillLives DEF vars, Step
<1>2. ASSUME NEW p \in Procs, Boot(p) PROVE Step
  BY <1>2, StillLives DEF Boot, Step
<1>3. ASSUME NEW p \in Procs, Crash(p) PROVE Step
  BY <1>3, CrashImplements DEF Step, Lifecycle!LNext
<1>4. ASSUME NEW p \in Procs, NEW t \in Threads, Arrive(p, t) PROVE Step
  <2>1. CASE \E r \in Runs : Submit(p, t, r)
    BY <2>1, SubmitImplements DEF Step, Lifecycle!LNext
  <2>2. CASE ~ \E r \in Runs : Submit(p, t, r)
    BY <1>4, <2>2, StillLives DEF Arrive, Get, List, RequestUnchanged, Step
  <2> QED
    BY <2>1, <2>2
<1>5. ASSUME NEW p \in Procs, NEW t \in Threads, RequestNext(p, t) PROVE Step
  <2>1. CASE \/ OpenTmp(p, t) \/ WriteTmp(p, t) \/ Replace(p, t) \/ ReplaceFails(p, t)
             \/ Enqueue(p, t) \/ ServerError(p, t)
             \/ \E r \in Runs : Get(p, t, r, "answer") \/ ListRead(p, t, r)
             \/ GetRead(p, t) \/ ScanEnd(p, t) \/ ListEnd(p, t)
    BY <2>1, StillLives
    DEF OpenTmp, WriteTmp, Replace, ReplaceFails, Enqueue, ServerError, Get, ListRead, GetRead,
        ScanEnd, ListEnd, RequestUnchanged, Step
  <2> QED
    BY <1>5, <2>1, ReaderImplements, CancelImplements DEF RequestNext, Step
<1> QED
  BY <1>1, <1>2, <1>3, <1>4, <1>5, WorkerImplements DEF Next

LEMMA InitImplements == Init => Lifecycle!LInit
  BY ConstantsAssumption DEF Init, Lifecycle!LInit, RunLife

\* The registry implements JobLifecycle: no run is executed after it was
\* cancelled in the queue, none is executed twice, and no terminal state is
\* revised, however requests, the worker, crashes and siblings interleave.
THEOREM LifecycleImplemented == Spec => RefinesLifecycle
<1>1. Init => Lifecycle!LInit
  BY InitImplements
<1>2. TypeOK /\ Ownership /\ [Next]_vars => [Lifecycle!LNext]_RunLife
  BY StepImplements
<1> QED
  BY <1>1, <1>2, OwnershipInvariant, PTL DEF Spec, RefinesLifecycle, Lifecycle!LSpec

(***************************************************************************)
(* What a run's status.json may say while its process lives, and what the  *)
(* threads that are about to write it, or have read it, know of it.        *)
(***************************************************************************)
Writing    == Opening \cup Filling \cup Renaming
Creating   == {"submit_open", "submit_write", "submit_replace"}
Cancelling == {"cancel_open", "cancel_write", "cancel_replace"}
Holding    == {"get_lock", "scan_classify", "list_lock"} \cup Fixing   \* these have read a file
Scanning   == {"scan", "scan_classify"}

\* the pid in a file of r is its owner's, or that of a process that is gone
PidFits(r, f) ==
  /\ f.pid \in Procs => f.pid = owner[r] \/ up[f.pid] \in {"dead", "outlived"}
  /\ owner[r] \in Procs => f.pid = owner[r]

FileFits == \A r \in Runs : disk[r].state \in States => PidFits(r, disk[r])

TmpFits ==
  \A r \in Runs :
    /\ tmp[r].state = "absent" => tmp[r] = NoFile
    /\ tmp[r].state \in States =>
         PidFits(r, tmp[r]) /\ tmp[r].state \in {"queued", "cancelled", "error"}

\* the copy of a file that thread q holds
CopyFits(q) ==
  /\ q.pc \in Holding => PidFits(q.run, q.got)
  /\ q.pc \in {"scan_classify"} \cup Fixing => q.got.state = "running"
  /\ q.pc \in Fixing => owner[q.run] = "lost"

CopiesFit == \A p \in Procs, t \in Threads : CopyFits(req[p][t])

\* as long as the file is missing its first writer is under way, and a rename
\* that is due finds the temporary file
FirstWriteComes ==
  \A p \in Procs, r \in Runs :
    owner[r] = p /\ disk[r].state = "absent" =>
      /\ \E t \in Threads : req[p][t].pc \in Creating /\ req[p][t].run = r
      /\ \A t \in Threads : req[p][t].pc \in Filling \cup Renaming /\ req[p][t].run = r =>
                              tmp[r] # NoFile

\* before the run is started, the files lag behind memory by one write, and
\* two texts have gone into one file only if it was cancelled
WaitingFile ==
  \A p \in Procs, r \in Runs :
    owner[r] = p /\ r \notin started[p] =>
      /\ {disk[r].state, tmp[r].state} \subseteq {"absent", "queued", mem[p][r]} \cup Garbled
      /\ "mixed" \in {disk[r].state, tmp[r].state} => mem[p][r] = "cancelled"

\* thread t is about to write run r's text to the file of that name
WritesTo(p, t, r, name) ==
  req[p][t].pc \in Filling /\ req[p][t].run = r /\ handle[p][t] = name

\* a file that is empty is about to be written
EmptyIsFilled ==
  \A p \in Procs, r \in Runs :
    owner[r] = p =>
      /\ disk[r].state = "empty" => \E t \in Threads : WritesTo(p, t, r, "disk")
      /\ tmp[r].state = "empty"  => \E t \in Threads : WritesTo(p, t, r, "tmp")

\* from then on the worker alone writes, and it is due to exactly in "write"
StartedFile ==
  \A p \in Procs, r \in Runs :
    r \in started[p] =>
      IF worker[p].run = r /\ worker[p].pc = "write"
      THEN disk[r].state \in {"queued", "running"}
      ELSE disk[r].state = mem[p][r]

CancelsWaiting ==
  \A p \in Procs, t \in Threads :
    req[p][t].pc \in Cancelling => /\ owner[req[p][t].run] = p
                                   /\ mem[p][req[p][t].run] = "cancelled"
                                   /\ req[p][t].run \notin started[p]

EventsOwned == \A p \in Procs, r \in Runs : event[p][r] # "absent" => owner[r] = p

OwnersLive == \A r \in Runs : owner[r] \in Procs => Live(owner[r])

\* a scan and a correction keep the lock
Locking ==
  \A p \in Procs, t \in Threads : req[p][t].pc \in Scanning \cup Fixing => lock[p] = t

FilesInStep ==
  /\ FileFits /\ TmpFits /\ CopiesFit /\ FirstWriteComes /\ WaitingFile /\ EmptyIsFilled
  /\ StartedFile /\ CancelsWaiting /\ EventsOwned /\ OwnersLive /\ Locking

\* A process that is not up holds nothing.
AtRest ==
  \A p \in Procs : ~Live(p) => /\ ~scanned[p]
                               /\ \A r \in Runs : mem[p][r] = "absent"
                               /\ \A t \in Threads : req[p][t] = Idle

\* the file of a run that thread q read as got, once it may be corrected
Kept(got, f) == f = got \/ (got.state = "running" /\ f = [state |-> "error", pid |-> got.pid])

\* what thread q has seen of a run r whose process is dead, and whose file is f
SeenBy(q, r, f) ==
  /\ (q.pc \in Scanning \/ (q.pc \in Fixing /\ q.op = "scan")) /\ r \notin q.todo =>
       (q.pc # "scan" /\ q.run = r) \/ f.state # "running"
  /\ q.pc \in Holding /\ q.run = r => Kept(q.got, f)

\* what thread q, whose open file is h, has of its correction in r's g
Corrects(q, h, r, g) ==
  q.run = r => /\ q.pc = "fix_write"   => h = "tmp"
               /\ q.pc = "fix_replace" => g = [state |-> "error", pid |-> q.got.pid]

\* With one process at a time, what it knows of a dead one's run stays true.
Recovering ==
  ~Mingled => \A p \in Procs, r \in Runs :
                owner[r] = "lost" =>
                  /\ mem[p][r] # "absent" \/ scanned[p] => disk[r].state # "running"
                  /\ \A t \in Threads : /\ SeenBy(req[p][t], r, disk[r])
                                        /\ Corrects(req[p][t], handle[p][t], r, tmp[r])

\* A thread that writes no file moves to q.  At most it is going to correct the
\* stale file that it has read.
Looks(p, t, q) ==
  /\ q \in Request /\ Becomes(p, t, q)
  /\ req[p][t].pc \notin Writing /\ q.pc \notin Writing \ {"fix_open"} /\ CopyFits(q)
  /\ \A p2 \in Procs, r \in Runs : p2 # p \/ owner[r] = p => mem'[p2][r] = mem[p2][r]
  /\ \A p2 \in Procs, r \in Runs : event'[p2][r] # "absent" => event[p2][r] # "absent"
  /\ \A p2 \in Procs : p2 # p => scanned'[p2] = scanned[p2] /\ lock'[p2] = lock[p2]
  /\ lock'[p] # lock[p] => lock[p] \in {"none", t}
  /\ q.pc \in Scanning \cup Fixing => lock'[p] = t
  /\ ~Mingled => \A r \in Runs :
       owner[r] = "lost" =>
         /\ mem'[p][r] # "absent" \/ scanned'[p] => disk[r].state # "running"
         /\ SeenBy(q, r, disk[r])
  /\ UNCHANGED <<up, owner, started, worker, disk, tmp, handle>>

-----------------------------------------------------------------------------
\* a thread that writes no file moves, or turns to another run; what changes in
\* memory is about runs of dead processes or of others
LEMMA LookFiles ==
  ASSUME TypeOK, Ownership, FilesInStep,
         NEW p \in Procs, NEW t \in Threads, NEW q, Looks(p, t, q)
  PROVE  FilesInStep'
<1>1. /\ req'[p][t] = q
      /\ \A p2 \in Procs, t2 \in Threads : p2 # p \/ t2 # t => req'[p2][t2] = req[p2][t2]
  BY OneMoves DEF TypeOK, Looks
<1>2. /\ UNCHANGED <<up, owner, started, worker, disk, tmp, handle>>
      /\ req[p][t].pc \notin Writing /\ q.pc \notin Writing \ {"fix_open"} /\ CopyFits(q)
      /\ \A p2 \in Procs, r \in Runs : owner[r] = p2 => mem'[p2][r] = mem[p2][r]
      /\ \A p2 \in Procs, r \in Runs : event'[p2][r] # "absent" => event[p2][r] # "absent"
  BY DEF Looks
<1>3. FileFits' /\ TmpFits'
  BY <1>2 DEF FilesInStep, FileFits, TmpFits, PidFits
<1>4. CopiesFit'
  BY <1>2, <1>1 DEF FilesInStep, CopiesFit, CopyFits, PidFits
<1>5. \A p2 \in Procs, t2 \in Threads :
        /\ req'[p2][t2].pc \in Filling \cup Renaming \cup Cancelling => req'[p2][t2] = req[p2][t2]
        /\ req[p2][t2].pc \in Writing => req'[p2][t2] = req[p2][t2]
  BY <1>1, <1>2 DEF Writing, Filling, Renaming, Cancelling, Opening
<1>6. FirstWriteComes'
  <2> SUFFICES ASSUME NEW p2 \in Procs, NEW r \in Runs,
                      owner[r] = p2, disk[r].state = "absent"
               PROVE  /\ \E t2 \in Threads : req'[p2][t2].pc \in Creating /\ req'[p2][t2].run = r
                      /\ \A t2 \in Threads :
                           req'[p2][t2].pc \in Filling \cup Renaming /\ req'[p2][t2].run = r
                             => tmp[r] # NoFile
    BY <1>2 DEF FirstWriteComes
  <2>1. PICK t2 \in Threads : req[p2][t2].pc \in Creating /\ req[p2][t2].run = r
    BY DEF FilesInStep, FirstWriteComes
  <2>2. req'[p2][t2] = req[p2][t2]
    BY <1>5, <2>1 DEF Writing, Creating, Opening, Filling, Renaming
  <2> QED BY <1>5, <2>1, <2>2 DEF FilesInStep, FirstWriteComes
<1>7. WaitingFile'
  BY <1>2 DEF FilesInStep, WaitingFile
<1>8. EmptyIsFilled'
  <2>1. ASSUME NEW p2 \in Procs, NEW t2 \in Threads, NEW r \in Runs, NEW name,
               WritesTo(p2, t2, r, name)
        PROVE  WritesTo(p2, t2, r, name)'
    <3>1. req'[p2][t2] = req[p2][t2]
      BY <1>5, <2>1 DEF WritesTo, Writing
    <3> QED BY <1>2, <2>1, <3>1 DEF WritesTo
  <2> QED BY <1>2, <2>1 DEF FilesInStep, EmptyIsFilled
<1>9. StartedFile'
  <2>1. \A p2 \in Procs, r \in Runs : r \in started[p2] => owner[r] = p2
    BY DEF Ownership, StartedIsInWork
  <2> QED BY <1>2, <2>1 DEF FilesInStep, StartedFile
<1>10. CancelsWaiting'
  <2> SUFFICES ASSUME NEW p2 \in Procs, NEW t2 \in Threads, req'[p2][t2].pc \in Cancelling
               PROVE  /\ owner[req'[p2][t2].run] = p2
                      /\ mem'[p2][req'[p2][t2].run] = "cancelled"
                      /\ req'[p2][t2].run \notin started[p2]
    BY <1>2 DEF CancelsWaiting
  <2>1. req'[p2][t2] = req[p2][t2]
    BY <1>5
  <2>2. req[p2][t2].run \in Runs
    BY <2>1, InHand DEF Cancelling, NoRun
  <2> QED BY <1>2, <2>1, <2>2 DEF FilesInStep, CancelsWaiting
<1>11. EventsOwned'
  BY <1>2 DEF FilesInStep, EventsOwned
<1>12. OwnersLive'
  BY <1>2 DEF FilesInStep, OwnersLive, Live
<1>13. Locking'
  <2> SUFFICES ASSUME NEW p2 \in Procs, NEW t2 \in Threads,
                      req'[p2][t2].pc \in Scanning \cup Fixing
               PROVE  lock'[p2] = t2
    BY DEF Locking
  <2>1. CASE p2 = p /\ t2 = t
    BY <1>1, <2>1 DEF Looks
  <2>2. CASE p2 # p \/ t2 # t
    <3>1. lock[p2] = t2 /\ t2 # "none"
      BY <1>1, <2>2, ConstantsAssumption DEF FilesInStep, Locking
    <3> QED BY <2>2, <3>1 DEF Looks
  <2> QED BY <2>1, <2>2
<1> QED
  BY <1>3, <1>4, <1>6, <1>7, <1>8, <1>9, <1>10, <1>11, <1>12, <1>13 DEF FilesInStep

LEMMA LookRecovers ==
  ASSUME TypeOK, Recovering, NEW p \in Procs, NEW t \in Threads, NEW q, Looks(p, t, q)
  PROVE  Recovering'
<1>1. /\ req'[p][t] = q
      /\ \A p2 \in Procs, t2 \in Threads : p2 # p \/ t2 # t => req'[p2][t2] = req[p2][t2]
  BY OneMoves DEF TypeOK, Looks
<1>2. UNCHANGED <<up, owner, disk, tmp, handle>>
  BY DEF Looks
<1>3. SUFFICES ASSUME ~Mingled, NEW p2 \in Procs, NEW r \in Runs, owner[r] = "lost"
               PROVE  /\ mem'[p2][r] # "absent" \/ scanned'[p2] => disk[r].state # "running"
                      /\ \A t2 \in Threads :
                           /\ SeenBy(req'[p2][t2], r, disk[r])
                           /\ Corrects(req'[p2][t2], handle[p2][t2], r, tmp[r])
  BY <1>2 DEF Recovering, Mingled, Live
<1>4. /\ mem[p2][r] # "absent" \/ scanned[p2] => disk[r].state # "running"
      /\ \A t2 \in Threads : /\ SeenBy(req[p2][t2], r, disk[r])
                              /\ Corrects(req[p2][t2], handle[p2][t2], r, tmp[r])
  BY <1>3 DEF Recovering
<1>5. mem'[p2][r] # "absent" \/ scanned'[p2] => disk[r].state # "running"
  BY <1>3, <1>4 DEF Looks
<1>6. ASSUME NEW t2 \in Threads
      PROVE  /\ SeenBy(req'[p2][t2], r, disk[r])
             /\ Corrects(req'[p2][t2], handle[p2][t2], r, tmp[r])
  <2>1. CASE p2 = p /\ t2 = t
    <3>1. q.pc # "fix_write" /\ q.pc # "fix_replace"
      BY DEF Looks, Writing, Filling, Renaming
    <3> QED BY <1>1, <1>3, <2>1, <3>1 DEF Looks, Corrects
  <2>2. CASE p2 # p \/ t2 # t
    BY <1>1, <1>4, <2>2
  <2> QED BY <2>1, <2>2
<1> QED BY <1>5, <1>6

\* what a step does to _lock, unless a listing takes or gives it
LockStays(p, t, q) ==
  /\ UNCHANGED lock \/ (lock[p] = t /\ AndRelease(p))
  /\ q.pc \in Scanning \cup Fixing => lock'[p] = t

\* a look that leaves memory alone
LEMMA StillLooks ==
  ASSUME TypeOK, Recovering, NEW p \in Procs, NEW t \in Threads,
         NEW q \in Request, Becomes(p, t, q), LockStays(p, t, q),
         req[p][t].pc \notin Writing, q.pc \notin Writing, CopyFits(q),
         ~Mingled => \A r \in Runs : owner[r] = "lost" => SeenBy(q, r, disk[r]),
         \A p2 \in Procs, r \in Runs : event'[p2][r] # "absent" => event[p2][r] # "absent",
         UNCHANGED <<up, owner, started, worker, tmp, mem, scanned, disk, handle>>
  PROVE  Looks(p, t, q)
<1>1. /\ \A p2 \in Procs : p2 # p => lock'[p2] = lock[p2]
      /\ lock'[p] # lock[p] => lock[p] = t
      /\ q.pc \in Scanning \cup Fixing => lock'[p] = t
  BY DEF LockStays, AndRelease, TypeOK
<1> QED BY <1>1 DEF Looks, Recovering

\* one to a place that holds no file and no lock
LEMMA PlainLooks ==
  ASSUME TypeOK, Recovering, NEW p \in Procs, NEW t \in Threads,
         NEW q \in Request, Becomes(p, t, q),
         req[p][t].pc \notin Writing,
         q.pc \notin Writing \cup Holding \cup {"scan"},
         \A p2 \in Procs, r \in Runs : event'[p2][r] # "absent" => event[p2][r] # "absent",
         UNCHANGED lock \/ (lock[p] = t /\ AndRelease(p)),
         UNCHANGED <<up, owner, started, worker, tmp, mem, scanned, disk, handle>>
  PROVE  Looks(p, t, q)
<1>1. CopyFits(q) /\ \A r \in Runs : SeenBy(q, r, disk[r])
  BY DEF CopyFits, SeenBy, Holding, Scanning, Fixing
<1>2. LockStays(p, t, q)
  BY DEF LockStays, Holding, Scanning, Fixing
<1> QED BY <1>1, <1>2, StillLooks

LEMMA IdlePlain == Idle.pc \notin Writing \cup Holding \cup {"scan", "scan_classify"}
BY DEF Idle, Writing, Opening, Filling, Renaming, Holding, Fixing

LEMMA AfterGetPlain ==
  ASSUME NEW r \in Runs, NEW op, NEW s
  PROVE  /\ AfterGet(op, r, s) \in Request
         /\ AfterGet(op, r, s).pc \notin Writing \cup Holding \cup {"scan", "scan_classify"}
<1>1. [Idle EXCEPT !.pc = "cancel", !.run = r] \in Request
  BY TakeRun DEF Places
<1>2. [Idle EXCEPT !.pc = "cancel", !.run = r].pc = "cancel"
  BY DEF Idle
<1> QED
  BY <1>1, <1>2, IdlePlain, IdleType
  DEF AfterGet, Writing, Opening, Filling, Renaming, Holding, Fixing

\* the loops of list_all
LEMMA LoopPlain ==
  ASSUME NEW place \in {"scan", "list"}, NEW todo \in SUBSET Runs
  PROVE  /\ Loop(place, todo) \in Request /\ Loop(place, todo).pc = place
         /\ Loop(place, todo).todo = todo
         /\ Loop(place, todo).pc \notin Writing \cup Holding \cup Fixing
<1>1. Loop(place, todo) \in Request /\ Loop(place, todo).pc = place
      /\ Loop(place, todo).todo = todo
  BY StartLoop DEF Loop, Idle
<1> QED BY <1>1 DEF Writing, Opening, Filling, Renaming, Holding, Fixing

\* an exception is on its way out
LEMMA ErrorPlain ==
  ASSUME NEW old \in Request
  PROVE  LET q == [old EXCEPT !.pc = "file_error"]
         IN q \in Request /\ q.pc \notin Writing \cup Holding \cup {"scan"}
<1> DEFINE q == [old EXCEPT !.pc = "file_error"]
<1>1. q \in Request /\ q.pc = "file_error"
  BY ErrorType, MovedFields
<1> HIDE DEF q
<1> QED BY <1>1 DEF q, Writing, Opening, Filling, Renaming, Holding, Fixing

LEMMA GetLooks ==
  ASSUME TypeOK, Recovering, NEW p \in Procs, NEW t \in Threads, NEW r \in Runs,
         NEW op \in {"status", "cancel", "answer"}, Get(p, t, r, op)
  PROVE  \E q : Looks(p, t, q)
<1>1. /\ UNCHANGED <<up, owner, started, worker, tmp, mem, scanned, disk, handle, event, lock>>
      /\ req[p][t].pc \notin Writing
  BY DEF Get, RequestUnchanged, At, Writing, Opening, Filling, Renaming
<1>2. CASE mem[p][r] # "absent"
  BY <1>1, <1>2, AfterGetPlain, PlainLooks DEF Get
<1>3. CASE mem[p][r] = "absent"
  <2> DEFINE q == [Idle EXCEPT !.pc = "get_read", !.op = op, !.run = r]
  <2>1. q \in Request /\ q.pc = "get_read" /\ Becomes(p, t, q)
    BY <1>3, TakeRunFor, ZenonT(60) DEF Get, Places, Idle
  <2> HIDE DEF q
  <2>2. q.pc \notin Writing \cup Holding \cup {"scan"}
    BY <2>1 DEF Writing, Opening, Filling, Renaming, Holding, Fixing
  <2> QED BY <1>1, <2>1, <2>2, PlainLooks
<1> QED BY <1>2, <1>3

LEMMA GetReadLooks ==
  ASSUME TypeOK, FilesInStep, Recovering, NEW p \in Procs, NEW t \in Threads, GetRead(p, t)
  PROVE  \E q : Looks(p, t, q)
<1> DEFINE old == req[p][t]
           got == disk[old.run]
           q   == [old EXCEPT !.pc = "get_lock", !.got = got]
           bad == [old EXCEPT !.pc = "file_error"]
<1>1. UNCHANGED <<up, owner, started, worker, tmp, mem, scanned, disk, handle, event, lock>>
  BY DEF GetRead, RequestUnchanged
<1>2. old.pc = "get_read" /\ old \in Request /\ old.run \in Runs
  BY InHand DEF GetRead, At, NoRun
<1>3. old.pc \notin Writing
  BY <1>2 DEF Writing, Opening, Filling, Renaming
<1>4. CASE Becomes(p, t, Idle)
  BY <1>1, <1>3, <1>4, IdleType, IdlePlain, PlainLooks
<1>5. CASE Becomes(p, t, bad)
  <2>1. bad \in Request /\ bad.pc \notin Writing \cup Holding \cup {"scan"}
    BY <1>2, ErrorPlain
  <2> HIDE DEF bad
  <2> QED BY <1>1, <1>3, <1>5, <2>1, PlainLooks
<1>6. CASE Becomes(p, t, q) /\ got.state \notin Garbled \cup {"absent"}
  <2>1. old \in Request /\ old.run \in Runs /\ got \in File /\ "get_lock" \in Places
    BY <1>2 DEF TypeOK, Places
  <2>2. PidFits(old.run, got)
    BY <1>2, <1>6, <2>1, FileFields DEF FilesInStep, FileFits
  <2> HIDE DEF old, got
  <2>3. q \in Request /\ q.pc = "get_lock" /\ q.run = old.run /\ q.got = got
    BY <1>6, <2>1, HoldFile, ReadableFiles DEF Request
  <2> HIDE DEF q
  <2>4. CopyFits(q) /\ q.pc \notin Writing \cup Scanning \cup Fixing
    BY <2>2, <2>3 DEF CopyFits, Writing, Opening, Filling, Renaming, Scanning, Fixing
  <2>5. \A r \in Runs : SeenBy(q, r, disk[r])
    BY <2>3 DEF SeenBy, got, Kept, Scanning, Fixing
  <2>6. LockStays(p, t, q)
    BY <1>1, <2>4 DEF LockStays
  <2> QED BY <1>1, <1>3, <1>6, <2>3, <2>4, <2>5, <2>6, StillLooks DEF old
<1> QED BY <1>4, <1>5, <1>6 DEF GetRead

\* the ends of requests and of loops, and the beginning of a listing
LEMMA LoopLooks ==
  ASSUME TypeOK, FilesInStep, Recovering, NEW p \in Procs, NEW t \in Threads,
         List(p, t) \/ ScanEnd(p, t) \/ ListEnd(p, t) \/ ServerError(p, t) \/ Enqueue(p, t)
  PROVE  \E q : Looks(p, t, q)
<1>1. /\ UNCHANGED <<up, owner, started, worker, tmp, mem, disk, event, handle>>
      /\ req[p][t].pc \notin Writing /\ foreign[p] \in SUBSET Runs
  BY DEF List, ScanEnd, ListEnd, ServerError, Enqueue, RequestUnchanged, At, Writing, Opening,
         Filling, Renaming, TypeOK
<1>2. /\ Loop("list", foreign[p]) \in Request /\ Loop("list", foreign[p]).pc = "list"
      /\ Loop("list", foreign[p]).pc \notin Writing \cup Holding \cup {"scan"}
  BY <1>1, LoopPlain
<1>3. CASE ListEnd(p, t) \/ ServerError(p, t) \/ Enqueue(p, t)
  <2>1. Becomes(p, t, Idle) /\ UNCHANGED <<scanned, lock>>
    BY <1>3 DEF ListEnd, ServerError, Enqueue, Return, RequestUnchanged
  <2> QED BY <1>1, <2>1, IdleType, IdlePlain, PlainLooks
<1>4. CASE List(p, t) /\ scanned[p]
  <2>1. Becomes(p, t, Loop("list", foreign[p])) /\ UNCHANGED <<scanned, lock>>
    BY <1>4 DEF List
  <2> QED BY <1>1, <1>2, <2>1, PlainLooks
<1>5. CASE List(p, t) /\ ~scanned[p]
  <2> DEFINE q == Loop("scan", Runs)
  <2>1. /\ Becomes(p, t, q) /\ UNCHANGED scanned
        /\ lock[p] = "none" /\ lock' = [lock EXCEPT ![p] = t]
    BY <1>5 DEF List, Free
  <2>2. q \in Request /\ q.pc = "scan" /\ q.todo = Runs /\ q.pc \notin Writing \cup Holding
    BY LoopPlain
  <2> HIDE DEF q
  <2>3. CopyFits(q) /\ \A r \in Runs : SeenBy(q, r, disk[r])
    BY <2>2 DEF Holding, CopyFits, SeenBy, Fixing
  <2>4. lock'[p] = t /\ \A p2 \in Procs : p2 # p => lock'[p2] = lock[p2]
    BY <2>1 DEF TypeOK
  <2> QED BY <1>1, <2>1, <2>2, <2>3, <2>4 DEF Looks, Recovering
<1>6. CASE ScanEnd(p, t)
  <2> DEFINE q == Loop("list", foreign[p])
  <2>1. /\ Becomes(p, t, q) /\ scanned' = [scanned EXCEPT ![p] = TRUE] /\ AndRelease(p)
        /\ req[p][t].pc = "scan" /\ req[p][t].todo = {}
    BY <1>6 DEF ScanEnd, At
  <2> HIDE DEF q
  <2>2. /\ q \in Request /\ q.pc \notin Writing \cup Scanning \cup Fixing
        /\ CopyFits(q) /\ \A r \in Runs : SeenBy(q, r, disk[r])
    BY <1>2 DEF q, CopyFits, SeenBy, Scanning, Holding, Fixing, Writing
  <2>3. ~Mingled => \A r \in Runs : owner[r] = "lost" => disk[r].state # "running"
    BY <2>1 DEF Recovering, SeenBy, Scanning
  <2>4. lock[p] = t
    BY <2>1 DEF FilesInStep, Locking, Scanning
  <2>5. \A p2 \in Procs : p2 # p => scanned'[p2] = scanned[p2] /\ lock'[p2] = lock[p2]
    BY <2>1 DEF TypeOK, AndRelease
  <2> QED BY <1>1, <2>1, <2>2, <2>3, <2>4, <2>5 DEF Looks
<1> QED BY <1>3, <1>4, <1>5, <1>6

\* what a thread knows that holds the file of a run
LEMMA HeldFile ==
  ASSUME TypeOK, Ownership, FilesInStep, NEW p \in Procs, NEW t \in Threads,
         req[p][t].pc \in Holding
  PROVE  /\ req[p][t] \in Request /\ req[p][t].run \in Runs /\ req[p][t].got \in File
         /\ req[p][t].todo \in SUBSET Runs
         /\ Elsewhere(p, req[p][t].run) /\ PidFits(req[p][t].run, req[p][t].got)
         /\ req[p][t].pc \in {"scan_classify"} \cup Fixing => req[p][t].got.state = "running"
<1>1. req[p][t] \in Request /\ req[p][t].run \in Runs
  BY InHand DEF Holding, Fixing, NoRun
<1>2. Sound(p, req[p][t]) /\ CopyFits(req[p][t])
  BY DEF Ownership, RequestsSound, FilesInStep, CopiesFit
<1> QED
  BY <1>1, <1>2, RequestFields DEF Sound, CopyFits, Holding, Borrowing

\* a stale file is the file of a dead process
LEMMA StaleIsLost ==
  ASSUME TypeOK, OwnersLive, NEW p \in Procs, NEW r \in Runs, NEW got \in File,
         Elsewhere(p, r), PidFits(r, got)
  PROVE  Stale(got) <=> owner[r] = "lost"
<1>1. Stale(got) => owner[r] = "lost"
  <2> SUFFICES ASSUME Stale(got) PROVE owner[r] \notin Procs
    BY DEF Elsewhere, TypeOK
  <2>1. owner[r] \in Procs => got.pid = owner[r] /\ Live(owner[r]) /\ owner[r] # "none"
    BY ConstantsAssumption DEF PidFits, OwnersLive
  <2> QED BY <2>1 DEF Stale
<1>2. ~Stale(got) => owner[r] # "lost"
  <2> SUFFICES ASSUME ~Stale(got) PROVE owner[r] # "lost"
    OBVIOUS
  <2>1. got.pid \in Procs /\ Live(got.pid)
    BY FileFields DEF Stale
  <2> QED BY <2>1, ConstantsAssumption DEF PidFits, Live
<1> QED BY <1>1, <1>2

\* acting on a "running" file: it is going to be corrected, or it is foreign and
\* the thread no longer holds it
LEMMA ClassifyLooks ==
  ASSUME TypeOK, Ownership, FilesInStep, Recovering, NEW p \in Procs, NEW t \in Threads,
         req[p][t].pc \in Holding \ Fixing, req[p][t].got.state = "running",
         req[p][t].pc = "scan_classify" \/ Free(p),
         NEW op \in {"none", "status", "cancel", "answer", "scan", "list"},
         op = "scan" <=> req[p][t].pc = "scan_classify",
         NEW q \in Request, q.pc \notin Writing \cup Holding,
         q.pc = "scan" => req[p][t].pc = "scan_classify" /\ q.todo = req[p][t].todo,
         Classify(p, t, op, q),
         UNCHANGED <<up, owner, started, worker, tmp, scanned, event, mem, disk, handle>>
  PROVE  \E q2 : Looks(p, t, q2)
<1> DEFINE old == req[p][t]
           fix == [old EXCEPT !.pc = "fix_open", !.op = op]
<1>1. /\ old \in Request /\ old.run \in Runs /\ old.got \in File /\ Elsewhere(p, old.run)
      /\ PidFits(old.run, old.got) /\ old.pc \notin Writing
      /\ Stale(old.got) <=> owner[old.run] = "lost"
  <2>1. old.pc \notin Writing
    BY DEF Writing, Opening, Filling, Renaming, Holding, Fixing
  <2>2. /\ old \in Request /\ old.run \in Runs /\ old.got \in File /\ Elsewhere(p, old.run)
        /\ PidFits(old.run, old.got)
    BY HeldFile
  <2> QED BY <2>1, <2>2, StaleIsLost DEF FilesInStep
<1>2. lock[p] \in {"none", t} /\ (old.pc = "scan_classify" => lock[p] = t)
  BY DEF Free, FilesInStep, Locking, Scanning
<1>3. ASSUME ~Mingled, NEW x \in Runs, owner[x] = "lost"
      PROVE  /\ mem[p][x] # "absent" \/ scanned[p] => disk[x].state # "running"
             /\ SeenBy(old, x, disk[x])
  BY <1>3 DEF Recovering
<1>4. CASE Stale(old.got)
  <2>1. Becomes(p, t, fix) /\ lock' = [lock EXCEPT ![p] = t]
    BY <1>4 DEF Classify
  <2>2. fix \in Request /\ fix.pc = "fix_open" /\ fix.run = old.run /\ fix.got = old.got
        /\ fix.op = op /\ fix.todo = old.todo
    BY <1>1, TakeFix, ZenonT(60) DEF Request
  <2>3. lock'[p] = t /\ \A p2 \in Procs : p2 # p => lock'[p2] = lock[p2]
    BY <2>1 DEF TypeOK
  <2> HIDE DEF fix
  <2>4. CopyFits(fix)
    BY <1>1, <1>4, <2>2 DEF CopyFits, Fixing, Holding
  <2>5. ASSUME ~Mingled, NEW x \in Runs, owner[x] = "lost" PROVE SeenBy(fix, x, disk[x])
    BY <1>3, <2>2, <2>5 DEF SeenBy, Holding, Fixing, Scanning
  <2> QED BY <1>1, <1>2, <1>3, <2>1, <2>2, <2>3, <2>4, <2>5 DEF Looks
<1>5. CASE ~Stale(old.got)
  <2>1. Becomes(p, t, q) /\ UNCHANGED lock
    BY <1>5 DEF Classify
  <2>2. CopyFits(q) /\ (q.pc \in Scanning \cup Fixing => old.pc = "scan_classify")
    BY DEF CopyFits, Holding, Fixing, Scanning
  <2>3. ASSUME ~Mingled, NEW x \in Runs, owner[x] = "lost" PROVE SeenBy(q, x, disk[x])
    <3>1. x # old.run
      BY <1>1, <1>5, <2>3
    <3>2. q.pc = "scan" /\ x \notin q.todo => disk[x].state # "running"
      BY <1>3, <2>3, <3>1 DEF SeenBy, Scanning
    <3> QED BY <3>2 DEF SeenBy, Holding, Scanning, Fixing
  <2>4. LockStays(p, t, q)
    BY <1>2, <2>1, <2>2 DEF LockStays
  <2> QED BY <1>1, <2>1, <2>2, <2>3, <2>4, StillLooks
<1> QED BY <1>4, <1>5

\* recording a file that says anything else
LEMMA RecordLooks ==
  ASSUME TypeOK, Ownership, FilesInStep, Recovering, NEW p \in Procs, NEW t \in Threads,
         req[p][t].pc \in Holding \ Fixing, req[p][t].got.state # "running",
         NEW s, mem' = [mem EXCEPT ![p][req[p][t].run] = s],
         NEW q \in Request, Becomes(p, t, q),
         q.pc \notin Writing \cup Holding \cup {"scan", "scan_classify"},
         UNCHANGED <<up, owner, started, worker, tmp, scanned, event, disk, handle, lock>>
  PROVE  Looks(p, t, q)
<1> DEFINE r == req[p][t].run
<1>1. r \in Runs /\ Elsewhere(p, r) /\ req[p][t].pc \notin Writing
  BY HeldFile DEF Writing, Opening, Filling, Renaming, Holding, Fixing
<1>2. /\ \A p2 \in Procs, x \in Runs : p2 # p \/ owner[x] = p => mem'[p2][x] = mem[p2][x]
      /\ \A x \in Runs : x # r => mem'[p][x] = mem[p][x]
  BY <1>1 DEF TypeOK, Elsewhere
<1>3. /\ CopyFits(q) /\ \A x \in Runs : SeenBy(q, x, disk[x])
      /\ q.pc \notin Scanning \cup Fixing
  BY DEF CopyFits, SeenBy, Holding, Scanning, Fixing
<1>4. ASSUME ~Mingled, NEW x \in Runs, owner[x] = "lost"
      PROVE  mem'[p][x] # "absent" \/ scanned'[p] => disk[x].state # "running"
  <2>1. /\ mem[p][x] # "absent" \/ scanned[p] => disk[x].state # "running"
        /\ SeenBy(req[p][t], x, disk[x])
    BY <1>4 DEF Recovering
  <2>2. CASE x = r
    BY <2>1, <2>2 DEF SeenBy, Kept
  <2>3. CASE x # r
    BY <1>2, <2>1, <2>3
  <2> QED BY <2>2, <2>3
<1> QED BY <1>1, <1>2, <1>3, <1>4 DEF Looks

LEMMA LockLooks ==
  ASSUME TypeOK, Ownership, FilesInStep, Recovering, NEW p \in Procs, NEW t \in Threads,
         GetLock(p, t) \/ ScanClassify(p, t) \/ ListLock(p, t)
  PROVE  \E q : Looks(p, t, q)
<1> DEFINE r    == req[p][t].run
           got  == req[p][t].got
           todo == req[p][t].todo
           op   == req[p][t].op
<1>1. /\ req[p][t].pc \in Holding \ Fixing
      /\ UNCHANGED <<up, owner, started, worker, tmp, scanned, event, disk, handle>>
  BY DEF GetLock, ScanClassify, ListLock, RequestUnchanged, At, Holding, Fixing
<1>2. r \in Runs /\ todo \in SUBSET Runs /\ op \in {"none", "status", "cancel", "answer", "scan", "list"}
  BY <1>1, HeldFile, RequestFields
<1>3. \A place \in {"scan", "list"} :
        /\ Loop(place, todo) \in Request /\ Loop(place, todo).pc = place
        /\ Loop(place, todo).todo = todo /\ Loop(place, todo).pc \notin Writing \cup Holding
  BY <1>2, LoopPlain
<1>4. \A s : /\ AfterGet(op, r, s) \in Request
             /\ AfterGet(op, r, s).pc \notin Writing \cup Holding \cup {"scan", "scan_classify"}
  BY <1>2, AfterGetPlain
<1>5. CASE GetLock(p, t)
  <2>1. Free(p) /\ req[p][t].pc = "get_lock" /\ op # "scan"
    BY <1>5 DEF GetLock, At, Ownership, RequestsSound, Sound
  <2>2. CASE Unsettled(got)
    <3>1. Classify(p, t, op, AfterGet(op, r, "running")) /\ UNCHANGED mem
      BY <1>5, <2>2 DEF GetLock
    <3> QED BY <1>1, <1>2, <1>4, <2>1, <2>2, <3>1, ClassifyLooks DEF Unsettled
  <2>3. CASE ~Unsettled(got)
    <3> DEFINE known == IF mem[p][r] = "absent" THEN got.state ELSE mem[p][r]
               q == AfterGet(op, r, known)
    <3>1. Becomes(p, t, q) /\ UNCHANGED lock /\ mem' = [mem EXCEPT ![p][r] = known]
      BY <1>5, <2>3 DEF GetLock
    <3>2. q \in Request /\ q.pc \notin Writing \cup Holding \cup {"scan", "scan_classify"}
      BY <1>4
    <3> HIDE DEF q, known
    <3> QED BY <1>1, <2>3, <3>1, <3>2, RecordLooks DEF Unsettled
  <2> QED BY <2>2, <2>3
<1>6. CASE ScanClassify(p, t)
  <2>1. /\ Classify(p, t, "scan", Loop("scan", todo)) /\ UNCHANGED mem
        /\ req[p][t].pc = "scan_classify"
    BY <1>6 DEF ScanClassify, At
  <2>2. got.state = "running"
    BY <1>1, <2>1, HeldFile
  <2> QED BY <1>1, <1>3, <2>1, <2>2, ClassifyLooks
<1>7. CASE ListLock(p, t)
  <2>1. Free(p) /\ req[p][t].pc = "list_lock"
    BY <1>7 DEF ListLock, At
  <2>2. CASE Unsettled(got)
    <3>1. Classify(p, t, "list", Loop("list", todo)) /\ UNCHANGED mem
      BY <1>7, <2>2 DEF ListLock
    <3> QED BY <1>1, <1>3, <2>1, <2>2, <3>1, ClassifyLooks DEF Unsettled
  <2>3. CASE ~Unsettled(got)
    <3>1. /\ Becomes(p, t, Loop("list", todo)) /\ UNCHANGED lock
          /\ mem' = [mem EXCEPT ![p][r] = got.state]
      BY <1>7, <2>3 DEF ListLock
    <3> QED BY <1>1, <1>3, <2>3, <3>1, RecordLooks DEF Unsettled
  <2> QED BY <2>2, <2>3
<1> QED BY <1>5, <1>6, <1>7

LEMMA VisitLooks ==
  ASSUME TypeOK, Ownership, FilesInStep, Recovering,
         NEW p \in Procs, NEW t \in Threads, NEW r \in Runs,
         ScanVisit(p, t, r) \/ ListRead(p, t, r)
  PROVE  \E q : Looks(p, t, q)
<1> DEFINE old  == req[p][t]
           rest == [old EXCEPT !.todo = @ \ {r}]
           held(place) == [rest EXCEPT !.pc = place, !.run = r, !.got = disk[r]]
<1>1. /\ old \in Request /\ old.pc \in {"scan", "list"} /\ r \in old.todo
      /\ disk[r] \in File /\ mem[p][r] \in States \cup {"absent"}
      /\ UNCHANGED <<up, owner, started, worker, tmp, scanned, disk, handle, event>>
      /\ old.pc = "scan" => lock[p] = t
  BY DEF ScanVisit, ListRead, At, RequestUnchanged, TypeOK, FilesInStep, Locking, Scanning
<1>2. rest \in Request /\ rest.pc = old.pc /\ rest.todo = old.todo \ {r}
  BY <1>1, LessTodo, VisitedFields, ZenonT(60)
<1>3. ASSUME NEW place \in {"scan_classify", "list_lock"}, disk[r].state \notin Garbled
      PROVE  /\ held(place) \in Request /\ held(place).pc = place /\ held(place).run = r
             /\ held(place).got = disk[r] /\ held(place).todo = old.todo \ {r}
  <2> HIDE DEF rest, old
  <2>1. held(place) \in Request
    BY <1>1, <1>2, <1>3, HoldRunAndFile, ReadableFiles DEF Places
  <2>2. /\ held(place).pc = place /\ held(place).run = r
        /\ held(place).got = disk[r] /\ held(place).todo = rest.todo
    BY <1>2 DEF Request
  <2> QED BY <1>2, <2>1, <2>2
<1>4. ASSUME NEW any \in {old, rest}, Becomes(p, t, [any EXCEPT !.pc = "file_error"]), UNCHANGED mem,
             UNCHANGED lock \/ (lock[p] = t /\ AndRelease(p))
      PROVE  \E q : Looks(p, t, q)
  <2> DEFINE q == [any EXCEPT !.pc = "file_error"]
  <2>1. q \in Request /\ q.pc \notin Writing \cup Holding \cup {"scan"}
    <3>1. any \in Request
      BY <1>1, <1>2
    <3> QED BY <3>1, ErrorPlain
  <2>2. old.pc \notin Writing
    BY <1>1 DEF Writing, Opening, Filling, Renaming
  <2> HIDE DEF q
  <2> QED BY <1>1, <1>4, <2>1, <2>2, PlainLooks DEF q
<1> HIDE DEF rest, held
<1>5. /\ old.pc \notin Writing \cup Fixing /\ rest.pc \notin Writing \cup Holding \cup Fixing
      /\ CopyFits(rest)
  BY <1>1, <1>2 DEF Writing, Opening, Filling, Renaming, Holding, Fixing, CopyFits
<1>6. ASSUME ~Mingled, NEW x \in Runs, owner[x] = "lost"
      PROVE  /\ mem[p][x] # "absent" \/ scanned[p] => disk[x].state # "running"
             /\ old.pc = "scan" /\ x \notin old.todo => disk[x].state # "running"
  BY <1>1, <1>6 DEF Recovering, SeenBy, Scanning
<1>7. CASE /\ Becomes(p, t, rest) /\ UNCHANGED lock
           /\ old.pc = "scan" /\ owner[r] = "lost" /\ ~Mingled => disk[r].state # "running"
           /\ \/ UNCHANGED mem
              \/ /\ mem[p][r] = "absent" /\ owner[r] # p
                 /\ mem' = [mem EXCEPT ![p][r] = disk[r].state] /\ disk[r].state # "running"
  <2>1. /\ \A p2 \in Procs, x \in Runs : p2 # p \/ owner[x] = p => mem'[p2][x] = mem[p2][x]
        /\ \A x \in Runs : mem'[p][x] = mem[p][x] \/ (x = r /\ disk[r].state # "running")
    BY <1>7 DEF TypeOK
  <2>2. ASSUME ~Mingled, NEW x \in Runs, owner[x] = "lost"
        PROVE  /\ mem'[p][x] # "absent" \/ scanned'[p] => disk[x].state # "running"
               /\ SeenBy(rest, x, disk[x])
    <3>1. mem'[p][x] # "absent" \/ scanned'[p] => disk[x].state # "running"
      BY <1>1, <1>6, <2>1, <2>2
    <3>2. old.pc = "scan" /\ x \notin old.todo \ {r} => disk[x].state # "running"
      BY <1>6, <1>7, <2>2
    <3> QED BY <1>1, <1>2, <1>5, <3>1, <3>2 DEF SeenBy, Scanning
  <2>3. rest.pc \in Scanning \cup Fixing => lock[p] = t
    BY <1>1, <1>2, <1>5 DEF Scanning
  <2> QED BY <1>1, <1>2, <1>5, <1>7, <2>1, <2>2, <2>3 DEF Looks
<1>8. ASSUME NEW place \in {"scan_classify", "list_lock"},
             Becomes(p, t, held(place)), UNCHANGED <<mem, lock>>,
             disk[r].state \notin Garbled \cup {"absent"},
             place = "scan_classify" => disk[r].state = "running" /\ old.pc = "scan"
      PROVE  Looks(p, t, held(place))
  <2>1. /\ held(place) \in Request /\ held(place).pc = place /\ held(place).run = r
        /\ held(place).got = disk[r] /\ held(place).todo = old.todo \ {r}
    BY <1>3, <1>8
  <2>2. PidFits(r, disk[r])
    BY <1>1, <1>8, FileFields DEF FilesInStep, FileFits
  <2> DEFINE q == held(place)
  <2> HIDE DEF q
  <2>3. CopyFits(q) /\ q.pc \notin Writing \cup Fixing
    BY <1>8, <2>1, <2>2 DEF q, CopyFits, Writing, Opening, Filling, Renaming, Fixing
  <2>4. ASSUME ~Mingled, NEW x \in Runs, owner[x] = "lost" PROVE SeenBy(q, x, disk[x])
    <3>1. place = "scan_classify" /\ x \notin old.todo \ {r} /\ x # r => disk[x].state # "running"
      BY <1>6, <1>8, <2>4
    <3> QED BY <2>1, <3>1 DEF q, SeenBy, Kept, Scanning, Fixing
  <2>5. LockStays(p, t, q)
    BY <1>1, <1>8, <2>1, <2>3 DEF q, LockStays, Scanning
  <2> QED BY <1>1, <1>5, <1>8, <2>1, <2>3, <2>4, <2>5, StillLooks DEF q
<1>9. States \cap Garbled = {} /\ "absent" \notin States
  BY DEF States, Terminal, Garbled
<1>10. CASE ScanVisit(p, t, r)
  <2>1. old.pc = "scan" /\ lock[p] = t
    BY <1>1, <1>10 DEF ScanVisit, At
  <2>2. CASE /\ mem[p][r] # "absent" \/ disk[r].state = "absent"
             /\ Becomes(p, t, rest) /\ UNCHANGED <<mem, lock>>
    <3>1. owner[r] = "lost" /\ ~Mingled => disk[r].state # "running"
      BY <1>6, <2>2
    <3> QED BY <1>7, <2>2, <3>1
  <2>3. CASE Throw(p, t) /\ UNCHANGED mem
    BY <1>4, <2>1, <2>3 DEF Throw, Goto
  <2>4. CASE /\ disk[r].state \in States /\ Unsettled(disk[r]) /\ UNCHANGED <<mem, lock>>
             /\ Becomes(p, t, held("scan_classify"))
    BY <1>8, <1>9, <2>1, <2>4 DEF Unsettled
  <2>5. CASE /\ mem[p][r] = "absent" /\ disk[r].state \in States /\ ~Unsettled(disk[r])
             /\ Becomes(p, t, rest) /\ mem' = [mem EXCEPT ![p][r] = disk[r].state]
             /\ UNCHANGED lock
    <3>1. owner[r] # p
      BY <2>5 DEF Ownership, OwnerRemembers
    <3> QED BY <1>7, <2>5, <3>1 DEF Unsettled
  <2> QED BY <1>10, <2>2, <2>3, <2>4, <2>5 DEF ScanVisit, held, rest
<1>11. CASE ListRead(p, t, r)
  <2>1. old.pc = "list" /\ UNCHANGED <<mem, lock>>
    BY <1>11 DEF ListRead, At
  <2>2. CASE Becomes(p, t, rest)
    BY <1>7, <2>1, <2>2
  <2>3. CASE Becomes(p, t, [rest EXCEPT !.pc = "file_error"])
    BY <1>4, <2>1, <2>3
  <2>4. CASE Becomes(p, t, held("list_lock")) /\ disk[r].state \notin Garbled \cup {"absent"}
    BY <1>8, <2>1, <2>4
  <2> QED BY <1>11, <2>2, <2>3, <2>4 DEF ListRead, held, rest
<1> QED BY <1>10, <1>11

\* the cancellation of a run that waits: memory says so before the file does
CancelsQueued(p, t) ==
  /\ Cancel(p, t) /\ req[p][t].run \notin started[p] /\ event[p][req[p][t].run] # "absent"
  /\ mem[p][req[p][t].run] \notin Terminal

\* every other outcome of registry.cancel changes at most the event
LEMMA CancelLooks ==
  ASSUME TypeOK, Recovering, NEW p \in Procs, NEW t \in Threads,
         Cancel(p, t), ~CancelsQueued(p, t)
  PROVE  \E q : Looks(p, t, q)
<1> DEFINE r == req[p][t].run
<1>1. /\ req[p][t].pc = "cancel" /\ r \in Runs /\ req[p][t] \in Request
      /\ UNCHANGED <<up, owner, started, worker, tmp, scanned, disk, handle, lock>>
  BY InHand DEF Cancel, At, NoRun
<1>2. UNCHANGED mem /\ (Goto(p, t, "answer") \/ Goto(p, t, "key_error"))
  BY DEF Cancel, CancelsQueued, Begun
<1>3. \A p2 \in Procs, x \in Runs : event'[p2][x] # "absent" => event[p2][x] # "absent"
  <2>1. \/ UNCHANGED event
        \/ event[p][r] # "absent" /\ event' = [event EXCEPT ![p][r] = "set"]
    BY DEF Cancel
  <2>2. \A p2 \in Procs, x \in Runs : event'[p2][x] = event[p2][x] \/ (p2 = p /\ x = r /\ event[p][r] # "absent")
    <3> HIDE DEF r
    <3> QED BY <1>1, <2>1 DEF TypeOK
  <2> QED BY <2>2
<1>4. PICK place \in {"answer", "key_error"} : Goto(p, t, place)
  BY <1>2
<1> DEFINE q == [req[p][t] EXCEPT !.pc = place]
<1>5. q \in Request /\ q.pc = place /\ Becomes(p, t, q)
  <2>1. q \in Request
    BY <1>1, MovePc DEF Places
  <2>2. q.pc = place
    BY <1>1, MovedFields
  <2> QED BY <1>4, <2>1, <2>2 DEF Goto
<1> HIDE DEF q
<1>6. q.pc \notin Writing \cup Holding \cup {"scan"} /\ req[p][t].pc \notin Writing
  BY <1>1, <1>5 DEF Writing, Opening, Filling, Renaming, Holding, Fixing
<1> QED BY <1>1, <1>2, <1>3, <1>5, <1>6, PlainLooks

-----------------------------------------------------------------------------
LEMMA SubmitFiles ==
  ASSUME TypeOK, Ownership, FilesInStep, NEW p \in Procs, NEW t \in Threads, NEW r \in Runs,
         Submit(p, t, r)
  PROVE  FilesInStep'
<1> DEFINE q == [Idle EXCEPT !.pc = "submit_open", !.run = r]
<1>1. q \in Request /\ q.pc = "submit_open" /\ q.run = r
  BY TakeRun DEF Places, Idle
<1>2. /\ Live(p) /\ owner[r] = "none" /\ req[p][t].pc = "idle"
      /\ UNCHANGED <<up, started, worker, disk, tmp, handle, lock>>
      /\ owner' = [owner EXCEPT ![r] = p] /\ mem' = [mem EXCEPT ![p][r] = "queued"]
      /\ event' = [event EXCEPT ![p][r] = "clear"] /\ Becomes(p, t, q)
  BY DEF Submit, At
<1> HIDE DEF q
<1>3. /\ req'[p][t] = q
      /\ \A p2 \in Procs, t2 \in Threads : p2 # p \/ t2 # t => req'[p2][t2] = req[p2][t2]
  BY <1>1, <1>2, OneMoves DEF TypeOK
<1>4. /\ owner'[r] = p /\ \A x \in Runs : x # r => owner'[x] = owner[x]
      /\ \A p2 \in Procs, x \in Runs : x # r => mem'[p2][x] = mem[p2][x] /\ event'[p2][x] = event[p2][x]
      /\ \A p2 \in Procs : p2 # p => event'[p2][r] = event[p2][r]
  BY <1>2 DEF TypeOK
<1>5. /\ disk[r].state = "absent" /\ tmp[r] = NoFile /\ tmp[r].state = "absent"
      /\ "none" \notin Procs /\ "absent" \notin States \cup Garbled
  BY <1>2, ConstantsAssumption
  DEF Ownership, FilesAreOwned, NoFile, States, Terminal, Garbled
<1>6. ASSUME NEW p2 \in Procs, NEW t2 \in Threads
      PROVE  req[p2][t2].pc \in Writing \cup Holding => req[p2][t2].run \in Runs \ {r}
  <2>1. Sound(p2, req[p2][t2])
    BY DEF Ownership, RequestsSound
  <2>2. req[p2][t2].pc \in Writing \cup Holding =>
           req[p2][t2].run \in Runs /\ owner[req[p2][t2].run] # "none"
    BY <1>5, <2>1, InHand
    DEF Sound, Elsewhere, Submitting, Borrowing, Fixing, Touching, Writing, Opening, Filling,
        Renaming, Holding, NoRun
  <2> QED BY <1>2, <2>2
<1>7. \A p2 \in Procs : r \notin started[p2]
  BY <1>2, <1>5 DEF Ownership, StartedIsInWork
<1>8. FileFits' /\ TmpFits'
  BY <1>2, <1>4, <1>5 DEF FilesInStep, FileFits, TmpFits, PidFits
<1>9. CopiesFit'
  <2> SUFFICES ASSUME NEW p2 \in Procs, NEW t2 \in Threads PROVE CopyFits(req[p2][t2])'
    BY DEF CopiesFit
  <2>1. CASE p2 = p /\ t2 = t
    BY <1>1, <1>3, <2>1 DEF CopyFits, Holding, Fixing
  <2>2. CASE p2 # p \/ t2 # t
    <3>1. req'[p2][t2] = req[p2][t2] /\ CopyFits(req[p2][t2])
      BY <1>3, <2>2 DEF FilesInStep, CopiesFit
    <3> QED BY <1>2, <1>4, <1>6, <3>1 DEF CopyFits, PidFits, Holding
  <2> QED BY <2>1, <2>2
<1>10. /\ ~(q.pc \in Filling \cup Renaming \cup Cancelling \cup Scanning \cup Fixing)
       /\ q.pc \in Creating
  BY <1>1 DEF Filling, Renaming, Cancelling, Creating, Scanning, Fixing
<1>11. FirstWriteComes'
  <2> SUFFICES ASSUME NEW p2 \in Procs, NEW x \in Runs, owner'[x] = p2, disk[x].state = "absent"
               PROVE  /\ \E t2 \in Threads : req'[p2][t2].pc \in Creating /\ req'[p2][t2].run = x
                      /\ \A t2 \in Threads :
                           req'[p2][t2].pc \in Filling \cup Renaming /\ req'[p2][t2].run = x
                             => tmp[x] # NoFile
    BY <1>2 DEF FirstWriteComes
  <2>1. CASE x = r
    <3>1. req'[p][t].pc \in Creating /\ req'[p][t].run = r
      BY <1>1, <1>3, <1>10
    <3>2. \A t2 \in Threads : ~(req'[p][t2].pc \in Filling \cup Renaming /\ req'[p][t2].run = r)
      BY <1>3, <1>6, <1>10 DEF Writing
    <3> QED BY <1>4, <2>1, <3>1, <3>2
  <2>2. CASE x # r
    <3>1. owner[x] = p2
      BY <1>4, <2>2
    <3>2. PICK t2 \in Threads : req[p2][t2].pc \in Creating /\ req[p2][t2].run = x
      BY <3>1 DEF FilesInStep, FirstWriteComes
    <3>3. req'[p2][t2] = req[p2][t2]
      BY <1>2, <1>3, <3>2 DEF Creating
    <3>4. \A t3 \in Threads : req'[p2][t3].pc \in Filling \cup Renaming => req'[p2][t3] = req[p2][t3]
      BY <1>3, <1>10
    <3> QED BY <3>1, <3>2, <3>3, <3>4 DEF FilesInStep, FirstWriteComes
  <2> QED BY <2>1, <2>2
<1>12. WaitingFile'
  <2> SUFFICES ASSUME NEW p2 \in Procs, NEW x \in Runs, owner'[x] = p2, x \notin started[p2]
               PROVE  /\ {disk[x].state, tmp[x].state} \subseteq
                           {"absent", "queued", mem'[p2][x]} \cup Garbled
                      /\ "mixed" \in {disk[x].state, tmp[x].state} => mem'[p2][x] = "cancelled"
    BY <1>2 DEF WaitingFile
  <2>1. CASE x = r
    BY <1>5, <2>1
  <2>2. CASE x # r
    BY <1>4, <2>2 DEF FilesInStep, WaitingFile
  <2> QED BY <2>1, <2>2
<1>13. EmptyIsFilled'
  <2> SUFFICES ASSUME NEW p2 \in Procs, NEW x \in Runs, owner'[x] = p2
               PROVE  /\ disk[x].state = "empty" => \E t2 \in Threads : WritesTo(p2, t2, x, "disk")'
                      /\ tmp[x].state = "empty"  => \E t2 \in Threads : WritesTo(p2, t2, x, "tmp")'
    BY <1>2 DEF EmptyIsFilled
  <2>1. ASSUME NEW t2 \in Threads, NEW name, WritesTo(p2, t2, x, name)
        PROVE  WritesTo(p2, t2, x, name)'
    <3>1. req'[p2][t2] = req[p2][t2]
      BY <1>2, <1>3, <2>1 DEF WritesTo, Filling
    <3> QED BY <1>2, <2>1, <3>1 DEF WritesTo
  <2>2. CASE x = r
    BY <1>5, <2>2
  <2>3. CASE x # r
    <3>1. owner[x] = p2
      BY <1>4, <2>3
    <3> QED BY <2>1, <3>1 DEF FilesInStep, EmptyIsFilled
  <2> QED BY <2>2, <2>3
<1>14. StartedFile'
  BY <1>2, <1>4, <1>7 DEF FilesInStep, StartedFile
<1>15. CancelsWaiting'
  <2> SUFFICES ASSUME NEW p2 \in Procs, NEW t2 \in Threads, req'[p2][t2].pc \in Cancelling
               PROVE  /\ owner'[req'[p2][t2].run] = p2
                      /\ mem'[p2][req'[p2][t2].run] = "cancelled"
                      /\ req'[p2][t2].run \notin started[p2]
    BY <1>2 DEF CancelsWaiting
  <2>1. req'[p2][t2] = req[p2][t2]
    BY <1>3, <1>10
  <2>2. req[p2][t2].run \in Runs \ {r}
    BY <1>6, <2>1 DEF Cancelling, Writing, Opening, Filling, Renaming
  <2> QED BY <1>4, <2>1, <2>2 DEF FilesInStep, CancelsWaiting
<1>16. EventsOwned'
  <2>1. \A p2 \in Procs : event[p2][r] = "absent"
    BY <1>2, <1>5 DEF FilesInStep, EventsOwned
  <2> QED BY <1>4, <2>1 DEF FilesInStep, EventsOwned
<1>17. OwnersLive'
  BY <1>2, <1>4 DEF FilesInStep, OwnersLive, Live
<1>18. Locking'
  BY <1>2, <1>3, <1>10 DEF FilesInStep, Locking
<1> QED
  BY <1>8, <1>9, <1>11, <1>12, <1>13, <1>14, <1>15, <1>16, <1>17, <1>18 DEF FilesInStep

\* What a thread that writes a file knows of its run: it is the registry's own,
\* and waits, or its process is dead.
LEMMA WriterKnows ==
  ASSUME TypeOK, Ownership, FilesInStep, NEW p \in Procs, NEW t \in Threads,
         req[p][t].pc \in Writing
  PROVE  /\ req[p][t] \in Request /\ req[p][t].run \in Runs
         /\ req[p][t].pc \notin Fixing =>
              owner[req[p][t].run] = p /\ req[p][t].run \notin started[p]
         /\ req[p][t].pc \in Cancelling => mem[p][req[p][t].run] = "cancelled"
         /\ req[p][t].pc \in Fixing =>
              /\ owner[req[p][t].run] = "lost" /\ lock[p] = t
              /\ PidFits(req[p][t].run, req[p][t].got) /\ req[p][t].got.state = "running"
<1>1. req[p][t] \in Request /\ req[p][t].run \in Runs
  BY InHand DEF Writing, Opening, Filling, Renaming, NoRun
<1>2. Sound(p, req[p][t])
  BY DEF Ownership, RequestsSound
<1>3. req[p][t].pc \notin Fixing => req[p][t].pc \in Creating \cup Cancelling
  BY DEF Writing, Opening, Filling, Renaming, Fixing, Creating, Cancelling
<1>4. req[p][t].pc \in Creating => owner[req[p][t].run] = p /\ req[p][t].run \notin started[p]
  BY <1>2 DEF Sound, Submitting, Creating
<1>5. req[p][t].pc \in Fixing =>
        /\ owner[req[p][t].run] = "lost" /\ lock[p] = t
        /\ PidFits(req[p][t].run, req[p][t].got) /\ req[p][t].got.state = "running"
  BY DEF FilesInStep, CopiesFit, CopyFits, Locking, Holding
<1> QED
  BY <1>1, <1>3, <1>4, <1>5 DEF FilesInStep, CancelsWaiting

\* A thread that writes the file of a run moves to q.  Only the files of this run
\* are touched, and memory at most if the run is not the registry's own.
WriteStep(p, t, r, q) ==
  /\ q \in Request /\ Becomes(p, t, q)
  /\ req[p][t].pc \in Writing /\ r = req[p][t].run
  /\ q.pc \in Writing => q.run = r
  /\ q.pc \in Cancelling => req[p][t].pc \in Cancelling
  /\ q.pc \in Holding => q.pc \in Fixing /\ req[p][t].pc \in Fixing /\ q.got = req[p][t].got
  /\ \A p2 \in Procs, x \in Runs : x # r \/ owner[x] = p2 => mem'[p2][x] = mem[p2][x]
  /\ \A x \in Runs : x # r => disk'[x] = disk[x] /\ tmp'[x] = tmp[x]
  /\ \A p2 \in Procs, t2 \in Threads : req[p2][t2].run # r => handle'[p2][t2] = handle[p2][t2]
  /\ \A p2 \in Procs : p2 # p => lock'[p2] = lock[p2]
  /\ lock'[p] # lock[p] => lock[p] = t
  /\ q.pc \in Scanning \cup Fixing => lock'[p] = lock[p] /\ req[p][t].pc \in Fixing
  /\ UNCHANGED <<up, event, started, worker, owner, scanned>>

\* what must hold of that run's files after the step, and the rest follows
LEMMA WriteFiles ==
  ASSUME TypeOK, Ownership, FilesInStep, NEW p \in Procs, NEW t \in Threads,
         NEW r, NEW q, WriteStep(p, t, r, q),
         disk'[r].state \in States => PidFits(r, disk'[r]),
         tmp'[r].state = "absent" => tmp'[r] = NoFile,
         tmp'[r].state \in States =>
           PidFits(r, tmp'[r]) /\ tmp'[r].state \in {"queued", "cancelled", "error"},
         req[p][t].pc \notin Fixing =>
           /\ disk'[r].state = "absent" =>
                /\ \E t2 \in Threads : req'[p][t2].pc \in Creating /\ req'[p][t2].run = r
                /\ \A t2 \in Threads :
                     req'[p][t2].pc \in Filling \cup Renaming /\ req'[p][t2].run = r
                       => tmp'[r] # NoFile
           /\ {disk'[r].state, tmp'[r].state} \subseteq
                {"absent", "queued", mem[p][r]} \cup Garbled
           /\ "mixed" \in {disk'[r].state, tmp'[r].state} => mem[p][r] = "cancelled"
           /\ disk'[r].state = "empty" => \E t2 \in Threads : WritesTo(p, t2, r, "disk")'
           /\ tmp'[r].state = "empty"  => \E t2 \in Threads : WritesTo(p, t2, r, "tmp")'
  PROVE  FilesInStep'
<1>1. /\ r \in Runs /\ r = req[p][t].run
      /\ req[p][t].pc \notin Fixing => owner[r] = p /\ r \notin started[p]
      /\ req[p][t].pc \in Fixing => owner[r] = "lost" /\ lock[p] = t
      /\ req[p][t].pc \in Writing
  BY WriterKnows DEF WriteStep
<1>2. "lost" \notin Procs
  BY ConstantsAssumption
<1>3. /\ req'[p][t] = q
      /\ \A p2 \in Procs, t2 \in Threads : p2 # p \/ t2 # t => req'[p2][t2] = req[p2][t2]
  BY OneMoves DEF TypeOK, WriteStep
<1>4. \A p2 \in Procs : owner[r] = p2 => p2 = p /\ req[p][t].pc \notin Fixing
  BY <1>1, <1>2
<1> USE DEF WriteStep
<1>5. FileFits' /\ TmpFits'
  BY <1>1 DEF FilesInStep, FileFits, TmpFits, PidFits
<1>6. CopiesFit'
  <2> SUFFICES ASSUME NEW p2 \in Procs, NEW t2 \in Threads PROVE CopyFits(req[p2][t2])'
    BY DEF CopiesFit
  <2>1. CASE p2 = p /\ t2 = t
    <3>1. q.pc \in Holding => q.run = r /\ req[p][t].pc \in Holding /\ q.pc # "scan_classify"
      BY <1>1 DEF Holding, Fixing, Writing, Opening, Filling, Renaming
    <3>2. CopyFits(req[p][t])
      BY DEF FilesInStep, CopiesFit
    <3> QED BY <1>1, <1>3, <2>1, <3>1, <3>2 DEF CopyFits, PidFits, Holding
  <2>2. CASE p2 # p \/ t2 # t
    BY <1>3, <2>2 DEF CopyFits, PidFits, FilesInStep, CopiesFit
  <2> QED BY <2>1, <2>2
<1>7. FirstWriteComes'
  <2> SUFFICES ASSUME NEW p2 \in Procs, NEW x \in Runs, owner[x] = p2, disk'[x].state = "absent"
               PROVE  /\ \E t2 \in Threads : req'[p2][t2].pc \in Creating /\ req'[p2][t2].run = x
                      /\ \A t2 \in Threads :
                           req'[p2][t2].pc \in Filling \cup Renaming /\ req'[p2][t2].run = x
                             => tmp'[x] # NoFile
    BY DEF FirstWriteComes
  <2>1. CASE x = r
    BY <1>4, <2>1
  <2>2. CASE x # r
    <3>1. PICK t2 \in Threads : req[p2][t2].pc \in Creating /\ req[p2][t2].run = x
      BY <2>2 DEF FilesInStep, FirstWriteComes
    <3>2. req'[p2][t2] = req[p2][t2]
      BY <1>1, <1>3, <2>2, <3>1
    <3>3. \A t3 \in Threads : req'[p2][t3].pc \in Filling \cup Renaming /\ req'[p2][t3].run = x
                                => req'[p2][t3] = req[p2][t3]
      BY <1>3, <2>2 DEF Writing
    <3> QED BY <2>2, <3>1, <3>2, <3>3 DEF FilesInStep, FirstWriteComes
  <2> QED BY <2>1, <2>2
<1>8. WaitingFile'
  <2> SUFFICES ASSUME NEW p2 \in Procs, NEW x \in Runs, owner[x] = p2, x \notin started[p2]
               PROVE  /\ {disk'[x].state, tmp'[x].state} \subseteq
                           {"absent", "queued", mem'[p2][x]} \cup Garbled
                      /\ "mixed" \in {disk'[x].state, tmp'[x].state} => mem'[p2][x] = "cancelled"
    BY DEF WaitingFile
  <2>1. CASE x = r
    BY <1>4, <2>1
  <2>2. CASE x # r
    BY <2>2 DEF FilesInStep, WaitingFile
  <2> QED BY <2>1, <2>2
<1>9. EmptyIsFilled'
  <2> SUFFICES ASSUME NEW p2 \in Procs, NEW x \in Runs, owner[x] = p2
               PROVE  /\ disk'[x].state = "empty" => \E t2 \in Threads : WritesTo(p2, t2, x, "disk")'
                      /\ tmp'[x].state = "empty"  => \E t2 \in Threads : WritesTo(p2, t2, x, "tmp")'
    BY DEF EmptyIsFilled
  <2>1. CASE x = r
    BY <1>4, <2>1
  <2>2. CASE x # r
    <3>1. ASSUME NEW t2 \in Threads, NEW name, WritesTo(p2, t2, x, name)
          PROVE  WritesTo(p2, t2, x, name)'
      <4>1. req[p2][t2].run # r
        BY <2>2, <3>1 DEF WritesTo
      <4>2. req'[p2][t2] = req[p2][t2]
        BY <1>1, <1>3, <4>1
      <4> QED BY <3>1, <4>1, <4>2 DEF WritesTo
    <3> QED BY <2>2, <3>1 DEF FilesInStep, EmptyIsFilled
  <2> QED BY <2>1, <2>2
<1>10. StartedFile'
  <2>1. \A p2 \in Procs, x \in Runs : x \in started[p2] => owner[x] = p2 /\ x # r
    BY <1>1, <1>2 DEF Ownership, StartedIsInWork
  <2> QED BY <2>1 DEF FilesInStep, StartedFile
<1>11. CancelsWaiting'
  <2> SUFFICES ASSUME NEW p2 \in Procs, NEW t2 \in Threads, req'[p2][t2].pc \in Cancelling
               PROVE  /\ owner[req'[p2][t2].run] = p2
                      /\ mem'[p2][req'[p2][t2].run] = "cancelled"
                      /\ req'[p2][t2].run \notin started[p2]
    BY DEF CancelsWaiting
  <2>1. req[p2][t2].pc \in Cancelling /\ req'[p2][t2].run = req[p2][t2].run
    BY <1>3 DEF Cancelling, Writing, Opening, Filling, Renaming
  <2>2. req[p2][t2].run \in Runs
    BY <2>1, WriterKnows DEF Cancelling, Writing, Opening, Filling, Renaming
  <2> QED BY <2>1, <2>2 DEF FilesInStep, CancelsWaiting
<1>12. EventsOwned' /\ OwnersLive'
  BY DEF FilesInStep, EventsOwned, OwnersLive, Live
<1>13. Locking'
  <2> SUFFICES ASSUME NEW p2 \in Procs, NEW t2 \in Threads,
                      req'[p2][t2].pc \in Scanning \cup Fixing
               PROVE  lock'[p2] = t2
    BY DEF Locking
  <2>1. CASE p2 = p /\ t2 = t
    BY <1>1, <1>3, <2>1
  <2>2. CASE p2 # p \/ t2 # t
    <3>1. lock[p2] = t2
      BY <1>3, <2>2 DEF FilesInStep, Locking
    <3> QED BY <2>2, <3>1
  <2> QED BY <2>1, <2>2
<1> QED
  BY <1>5, <1>6, <1>7, <1>8, <1>9, <1>10, <1>11, <1>12, <1>13 DEF FilesInStep

\* A writer goes on to another place, with the run it has in hand.
LEMMA MoveWrites ==
  ASSUME TypeOK, NEW p \in Procs, NEW t \in Threads, req[p][t].pc \in Writing,
         NEW place \in Writing \cup {"submit_enqueue", "answer", "file_error"},
         Goto(p, t, place),
         place \in Cancelling => req[p][t].pc \in Cancelling,
         place \in Fixing => req[p][t].pc \in Fixing /\ UNCHANGED lock,
         UNCHANGED lock \/ (lock[p] = t /\ AndRelease(p)),
         \A x \in Runs \ {req[p][t].run} : disk'[x] = disk[x] /\ tmp'[x] = tmp[x],
         \A p2 \in Procs, t2 \in Threads :
           req[p2][t2].run # req[p][t].run => handle'[p2][t2] = handle[p2][t2],
         UNCHANGED <<up, mem, event, started, worker, owner, scanned>>
  PROVE  \E q : /\ WriteStep(p, t, req[p][t].run, q) /\ q.pc = place /\ q.run = req[p][t].run
                /\ q.got = req[p][t].got /\ req'[p][t] = q
<1> DEFINE q == [req[p][t] EXCEPT !.pc = place]
<1>1. req[p][t] \in Request /\ req[p][t].run \in Runs
  BY InHand DEF Writing, Opening, Filling, Renaming, NoRun
<1>2. place \in Places
  BY DEF Writing, Opening, Filling, Renaming, Places
<1>3. /\ q \in Request /\ q.pc = place /\ q.run = req[p][t].run /\ q.got = req[p][t].got
      /\ Becomes(p, t, q)
  BY <1>1, <1>2, MovePc, MovedFields DEF Goto
<1> HIDE DEF q
<1>4. req'[p][t] = q
  BY <1>3, OneMoves DEF TypeOK
<1>5. /\ \A p2 \in Procs : p2 # p => lock'[p2] = lock[p2]
      /\ lock'[p] # lock[p] => lock[p] = t
  BY DEF AndRelease, TypeOK
<1>6. /\ q.pc \in Holding => q.pc \in Fixing
      /\ q.pc \notin Scanning
  BY <1>3 DEF Holding, Scanning, Fixing, Writing, Opening, Filling, Renaming
<1> QED BY <1>3, <1>4, <1>5, <1>6 DEF WriteStep

\* the open: a new, empty file
LEMMA OpenWrites ==
  ASSUME TypeOK, NEW p \in Procs, NEW t \in Threads, OpenTmp(p, t)
  PROVE  LET r == req[p][t].run
         IN /\ req[p][t].pc \in Opening /\ req[p][t].pc \in Writing /\ r \in Runs
            /\ UNCHANGED disk /\ tmp'[r] = Empty /\ \A x \in Runs \ {r} : tmp'[x] = tmp[x]
            /\ handle'[p][t] = "tmp"
            /\ \A p2 \in Procs, t2 \in Threads : p2 # p \/ t2 # t => handle'[p2][t2] = handle[p2][t2]
            /\ \E q : /\ WriteStep(p, t, r, q) /\ req'[p][t] = q /\ q.run = r
                      /\ q.pc \in Filling /\ (q.pc \in Creating <=> req[p][t].pc \in Creating)
                      /\ q.got = req[p][t].got
<1> DEFINE r == req[p][t].run
           place == CASE req[p][t].pc = "submit_open" -> "submit_write"
                      [] req[p][t].pc = "cancel_open" -> "cancel_write"
                      [] req[p][t].pc = "fix_open"    -> "fix_write"
<1>1. /\ req[p][t].pc \in Opening /\ req[p][t].pc \in Writing
      /\ tmp' = [tmp EXCEPT ![r] = Empty]
      /\ handle' = [handle EXCEPT ![p][t] = "tmp"] /\ Goto(p, t, place)
      /\ UNCHANGED <<up, mem, event, started, worker, owner, scanned, lock, disk>>
  BY DEF OpenTmp, At, Writing
<1>2. r \in Runs
  BY <1>1, InHand DEF Opening, NoRun
<1>3. /\ place \in Filling /\ (place \in Cancelling <=> req[p][t].pc \in Cancelling)
      /\ place \in Creating <=> req[p][t].pc \in Creating
      /\ place \in Fixing <=> req[p][t].pc \in Fixing
  BY <1>1 DEF Opening, Filling, Cancelling, Creating, Fixing
<1> HIDE DEF place
<1>4. /\ tmp'[r] = Empty /\ \A x \in Runs \ {r} : tmp'[x] = tmp[x]
      /\ handle'[p][t] = "tmp"
      /\ \A p2 \in Procs, t2 \in Threads : p2 # p \/ t2 # t => handle'[p2][t2] = handle[p2][t2]
  BY <1>1, <1>2 DEF TypeOK
<1>5. \E q : /\ WriteStep(p, t, r, q) /\ q.pc = place /\ q.run = r
             /\ q.got = req[p][t].got /\ req'[p][t] = q
  BY <1>1, <1>3, <1>4, MoveWrites DEF Writing
<1> QED BY <1>1, <1>2, <1>3, <1>4, <1>5

LEMMA OpenTmpFiles ==
  ASSUME TypeOK, Ownership, FilesInStep, NEW p \in Procs, NEW t \in Threads, OpenTmp(p, t)
  PROVE  FilesInStep'
<1> SUFFICES ASSUME NEW r, r = req[p][t].run PROVE FilesInStep'
  OBVIOUS
<1>1. /\ req[p][t].pc \in Opening /\ req[p][t].pc \in Writing /\ r \in Runs
      /\ UNCHANGED disk /\ tmp'[r] = Empty
      /\ handle'[p][t] = "tmp"
      /\ \A p2 \in Procs, t2 \in Threads : p2 # p \/ t2 # t => handle'[p2][t2] = handle[p2][t2]
  BY OpenWrites
<1>2. PICK q : /\ WriteStep(p, t, r, q) /\ req'[p][t] = q /\ q.run = r
               /\ q.pc \in Filling /\ (q.pc \in Creating <=> req[p][t].pc \in Creating)
  BY OpenWrites
<1>3. \A p2 \in Procs, t2 \in Threads : p2 # p \/ t2 # t => req'[p2][t2] = req[p2][t2]
  BY <1>2, OneMoves DEF TypeOK, WriteStep
<1>4. /\ tmp'[r] # NoFile /\ tmp'[r].state = "empty"
      /\ "empty" \in Garbled /\ "empty" \notin States \cup {"absent", "mixed"}
  BY <1>1 DEF Empty, NoFile, Garbled, States, Terminal
<1>5. WritesTo(p, t, r, "tmp")'
  BY <1>1, <1>2 DEF WritesTo
<1>6. disk'[r].state \in States => PidFits(r, disk'[r])
  BY <1>1 DEF FilesInStep, FileFits
<1>7. ASSUME req[p][t].pc \notin Fixing
      PROVE  /\ disk'[r].state = "absent" =>
                  \E t2 \in Threads : req'[p][t2].pc \in Creating /\ req'[p][t2].run = r
             /\ {disk'[r].state, tmp'[r].state} \subseteq
                  {"absent", "queued", mem[p][r]} \cup Garbled
             /\ "mixed" \in {disk'[r].state, tmp'[r].state} => mem[p][r] = "cancelled"
             /\ disk'[r].state = "empty" => \E t2 \in Threads : WritesTo(p, t2, r, "disk")'
  <2>1. owner[r] = p /\ r \notin started[p]
    BY <1>1, <1>7, WriterKnows
  <2>2. ASSUME disk[r].state = "absent"
        PROVE  \E t2 \in Threads : req'[p][t2].pc \in Creating /\ req'[p][t2].run = r
    <3>1. PICK t2 \in Threads : req[p][t2].pc \in Creating /\ req[p][t2].run = r
      BY <1>1, <2>1, <2>2 DEF FilesInStep, FirstWriteComes
    <3> QED BY <1>2, <1>3, <3>1
  <2>3. ASSUME disk[r].state = "empty"
        PROVE  \E t2 \in Threads : WritesTo(p, t2, r, "disk")'
    <3>1. PICK t2 \in Threads : WritesTo(p, t2, r, "disk")
      BY <1>1, <2>1, <2>3 DEF FilesInStep, EmptyIsFilled
    <3>2. t2 # t
      BY <1>1, <3>1 DEF WritesTo, Opening, Filling
    <3> QED BY <1>1, <1>3, <3>1, <3>2 DEF WritesTo
  <2> QED BY <1>1, <1>4, <2>1, <2>2, <2>3 DEF FilesInStep, WaitingFile
<1> QED BY <1>2, <1>4, <1>5, <1>6, <1>7, WriteFiles

\* the write: what the thread's open file holds then
LEMMA FillWrites ==
  ASSUME TypeOK, NEW p \in Procs, NEW t \in Threads, WriteTmp(p, t)
  PROVE  LET r == req[p][t].run
             text(old) == Onto(old, Text(p, req[p][t]))
         IN /\ req[p][t].pc \in Filling /\ req[p][t].pc \in Writing /\ r \in Runs
            /\ tmp'[r]  = IF handle[p][t] = "tmp" THEN text(tmp[r]) ELSE tmp[r]
            /\ disk'[r] = IF handle[p][t] = "disk" THEN text(disk[r]) ELSE disk[r]
            /\ \A x \in Runs \ {r} : disk'[x] = disk[x] /\ tmp'[x] = tmp[x]
            /\ \A p2 \in Procs, t2 \in Threads : p2 # p \/ t2 # t => handle'[p2][t2] = handle[p2][t2]
            /\ \E q : /\ WriteStep(p, t, r, q) /\ req'[p][t] = q /\ q.run = r
                      /\ q.pc \in Renaming /\ (q.pc \in Creating <=> req[p][t].pc \in Creating)
                      /\ q.got = req[p][t].got
<1> DEFINE r == req[p][t].run
           place == CASE req[p][t].pc = "submit_write" -> "submit_replace"
                      [] req[p][t].pc = "cancel_write" -> "cancel_replace"
                      [] req[p][t].pc = "fix_write"    -> "fix_replace"
           text(old) == Onto(old, Text(p, req[p][t]))
<1>1. /\ req[p][t].pc \in Filling /\ req[p][t].pc \in Writing
      /\ tmp'  = IF handle[p][t] = "tmp" THEN [tmp EXCEPT ![r] = text(@)] ELSE tmp
      /\ disk' = IF handle[p][t] = "disk" THEN [disk EXCEPT ![r] = text(@)] ELSE disk
      /\ handle' = [handle EXCEPT ![p][t] = "none"] /\ Goto(p, t, place)
      /\ UNCHANGED <<up, mem, event, started, worker, owner, scanned, lock>>
  BY DEF WriteTmp, At, Writing
<1>2. r \in Runs
  BY <1>1, InHand DEF Filling, NoRun
<1>3. /\ place \in Renaming /\ (place \in Cancelling <=> req[p][t].pc \in Cancelling)
      /\ place \in Creating <=> req[p][t].pc \in Creating
      /\ place \in Fixing <=> req[p][t].pc \in Fixing
  BY <1>1 DEF Renaming, Filling, Cancelling, Creating, Fixing
<1> HIDE DEF place, text
<1>4. /\ tmp'[r]  = IF handle[p][t] = "tmp" THEN text(tmp[r]) ELSE tmp[r]
      /\ disk'[r] = IF handle[p][t] = "disk" THEN text(disk[r]) ELSE disk[r]
      /\ \A x \in Runs \ {r} : disk'[x] = disk[x] /\ tmp'[x] = tmp[x]
      /\ \A p2 \in Procs, t2 \in Threads : p2 # p \/ t2 # t => handle'[p2][t2] = handle[p2][t2]
  BY <1>1, <1>2 DEF TypeOK
<1>5. \E q : /\ WriteStep(p, t, r, q) /\ q.pc = place /\ q.run = r
             /\ q.got = req[p][t].got /\ req'[p][t] = q
  BY <1>1, <1>3, <1>4, MoveWrites DEF Writing
<1> QED BY <1>1, <1>2, <1>3, <1>4, <1>5 DEF text

LEMMA WriteTmpFiles ==
  ASSUME TypeOK, Ownership, FilesInStep, NEW p \in Procs, NEW t \in Threads, WriteTmp(p, t)
  PROVE  FilesInStep'
<1> SUFFICES ASSUME NEW r, r = req[p][t].run PROVE FilesInStep'
  OBVIOUS
<1> DEFINE new(old) == Onto(old, Text(p, req[p][t]))
<1>1. /\ req[p][t].pc \in Filling /\ req[p][t].pc \in Writing /\ r \in Runs
      /\ tmp'[r]  = IF handle[p][t] = "tmp" THEN new(tmp[r]) ELSE tmp[r]
      /\ disk'[r] = IF handle[p][t] = "disk" THEN new(disk[r]) ELSE disk[r]
      /\ \A p2 \in Procs, t2 \in Threads : p2 # p \/ t2 # t => handle'[p2][t2] = handle[p2][t2]
  BY FillWrites
<1>2. PICK q : /\ WriteStep(p, t, r, q) /\ req'[p][t] = q /\ q.run = r
               /\ q.pc \in Renaming /\ (q.pc \in Creating <=> req[p][t].pc \in Creating)
  BY FillWrites
<1>3. \A p2 \in Procs, t2 \in Threads : p2 # p \/ t2 # t => req'[p2][t2] = req[p2][t2]
  BY <1>2, OneMoves DEF TypeOK, WriteStep
<1>4. /\ req[p][t] \in Request
      /\ req[p][t].pc \notin Fixing => owner[r] = p /\ r \notin started[p]
      /\ req[p][t].pc \in Cancelling => mem[p][r] = "cancelled"
      /\ req[p][t].pc \in Fixing => owner[r] = "lost" /\ PidFits(r, req[p][t].got)
  BY <1>1, WriterKnows
<1>5. ASSUME NEW old
      PROVE  /\ new(old).state \notin {"absent", "empty"}
             /\ new(old).state \in States =>
                  PidFits(r, new(old)) /\ new(old).state \in {"queued", "cancelled", "error"}
             /\ req[p][t].pc \notin Fixing =>
                  new(old).state \in {"queued", mem[p][r], "mixed"}
             /\ new(old).state = "mixed" =>
                  req[p][t].pc \notin Fixing /\ old.state \notin {"absent", "empty", "queued"}
  <2> DEFINE text == Text(p, req[p][t])
  <2>1. /\ \/ text = [state |-> "queued", pid |-> p] /\ req[p][t].pc = "submit_write"
           \/ text = [state |-> "cancelled", pid |-> p] /\ req[p][t].pc = "cancel_write"
           \/ text = [state |-> "error", pid |-> req[p][t].got.pid] /\ req[p][t].pc = "fix_write"
        /\ new(old) \in {text, Mixed}
        /\ new(old) = Mixed =>
             req[p][t].pc = "submit_write" /\ old.state \notin {"absent", "empty", "queued"}
    BY <1>1, <1>4, Written
  <2>2. Mixed.state = "mixed" /\ "mixed" \notin States \cup {"absent", "empty", "queued"}
    BY DEF Mixed, States, Terminal
  <2> HIDE DEF new
  <2>3. PidFits(r, text)
    BY <1>4, <2>1, ConstantsAssumption DEF Fixing, PidFits
  <2>4. /\ text.state \in {"queued", "cancelled", "error"}
        /\ req[p][t].pc \notin Fixing => text.state \in {"queued", mem[p][r]}
    BY <1>4, <2>1 DEF Fixing, Cancelling
  <2> HIDE DEF text
  <2> QED BY <2>1, <2>2, <2>3, <2>4 DEF Fixing
<1> HIDE DEF new
<1>6. /\ disk'[r].state \in States => PidFits(r, disk'[r])
      /\ tmp'[r].state = "absent" => tmp'[r] = NoFile
      /\ tmp'[r].state \in States =>
           PidFits(r, tmp'[r]) /\ tmp'[r].state \in {"queued", "cancelled", "error"}
  BY <1>1, <1>5 DEF FilesInStep, FileFits, TmpFits
<1>7. ASSUME req[p][t].pc \notin Fixing
      PROVE  /\ disk'[r].state = "absent" =>
                  /\ \E t2 \in Threads : req'[p][t2].pc \in Creating /\ req'[p][t2].run = r
                  /\ \A t2 \in Threads :
                       req'[p][t2].pc \in Filling \cup Renaming /\ req'[p][t2].run = r
                         => tmp'[r] # NoFile
             /\ {disk'[r].state, tmp'[r].state} \subseteq
                  {"absent", "queued", mem[p][r]} \cup Garbled
             /\ "mixed" \in {disk'[r].state, tmp'[r].state} => mem[p][r] = "cancelled"
             /\ disk'[r].state = "empty" => \E t2 \in Threads : WritesTo(p, t2, r, "disk")'
             /\ tmp'[r].state = "empty"  => \E t2 \in Threads : WritesTo(p, t2, r, "tmp")'
  <2>1. owner[r] = p /\ r \notin started[p]
    BY <1>4, <1>7
  <2>2. /\ {disk[r].state, tmp[r].state} \subseteq {"absent", "queued", mem[p][r]} \cup Garbled
        /\ "mixed" \in {disk[r].state, tmp[r].state} => mem[p][r] = "cancelled"
    BY <1>1, <2>1 DEF FilesInStep, WaitingFile
  <2>3. mem[p][r] \in {"queued", "cancelled"}
    BY <1>1, <2>1 DEF Ownership, OwnerRemembers
  <2>4. ASSUME NEW old, old.state \in {disk[r].state, tmp[r].state}
        PROVE  new(old).state = "mixed" => mem[p][r] = "cancelled"
    BY <1>5, <2>2, <2>3, <2>4 DEF Garbled
  <2>5. /\ {disk'[r].state, tmp'[r].state} \subseteq {"absent", "queued", mem[p][r]} \cup Garbled
        /\ "mixed" \in {disk'[r].state, tmp'[r].state} => mem[p][r] = "cancelled"
    BY <1>1, <1>5, <1>7, <2>2, <2>4 DEF Garbled
  <2>6. ASSUME disk'[r].state = "absent"
        PROVE  /\ \E t2 \in Threads : req'[p][t2].pc \in Creating /\ req'[p][t2].run = r
               /\ \A t2 \in Threads :
                    req'[p][t2].pc \in Filling \cup Renaming /\ req'[p][t2].run = r
                      => tmp'[r] # NoFile
    <3>1. disk[r].state = "absent"
      BY <1>1, <1>5, <2>6
    <3>2. PICK t2 \in Threads : req[p][t2].pc \in Creating /\ req[p][t2].run = r
      BY <1>1, <2>1, <3>1 DEF FilesInStep, FirstWriteComes
    <3>3. tmp[r] # NoFile
      BY <1>1, <2>1, <3>1 DEF FilesInStep, FirstWriteComes
    <3>4. tmp'[r] # NoFile
      BY <1>1, <1>5, <3>3 DEF NoFile
    <3> QED BY <1>2, <1>3, <3>2, <3>4
  <2>7. ASSUME NEW name \in {"disk", "tmp"}, NEW t2 \in Threads, WritesTo(p, t2, r, name),
               handle[p][t] # name
        PROVE  WritesTo(p, t2, r, name)'
    <3>1. t2 # t
      BY <2>7 DEF WritesTo
    <3> QED BY <1>1, <1>3, <2>7, <3>1 DEF WritesTo
  <2>8. disk'[r].state = "empty" => \E t2 \in Threads : WritesTo(p, t2, r, "disk")'
    <3> SUFFICES ASSUME disk'[r].state = "empty"
                 PROVE  \E t2 \in Threads : WritesTo(p, t2, r, "disk")'
      OBVIOUS
    <3>1. disk[r].state = "empty" /\ handle[p][t] # "disk"
      BY <1>1, <1>5
    <3> QED BY <1>1, <2>1, <2>7, <3>1 DEF FilesInStep, EmptyIsFilled
  <2>9. tmp'[r].state = "empty" => \E t2 \in Threads : WritesTo(p, t2, r, "tmp")'
    <3> SUFFICES ASSUME tmp'[r].state = "empty"
                 PROVE  \E t2 \in Threads : WritesTo(p, t2, r, "tmp")'
      OBVIOUS
    <3>1. tmp[r].state = "empty" /\ handle[p][t] # "tmp"
      BY <1>1, <1>5
    <3> QED BY <1>1, <2>1, <2>7, <3>1 DEF FilesInStep, EmptyIsFilled
  <2> QED BY <2>5, <2>6, <2>8, <2>9
<1> QED BY <1>2, <1>6, <1>7, WriteFiles

\* The rename takes the open files along.
LEMMA Followed ==
  ASSUME TypeOK, NEW r \in Runs, Rename(r)
  PROVE  /\ \A p \in Procs, t \in Threads : req[p][t].run # r => handle'[p][t] = handle[p][t]
         /\ \A p \in Procs, t \in Threads :
              req[p][t].run = r /\ handle[p][t] = "tmp" => handle'[p][t] = "disk"
BY DEF Rename, Follow

\* the file that is renamed to status.json fits there
LEMMA RenamedFits ==
  ASSUME TypeOK, FilesInStep, NEW r \in Runs, Rename(r)
  PROVE  /\ disk'[r] = tmp[r] /\ disk'[r].state # "absent" /\ tmp'[r] = NoFile
         /\ disk'[r].state \in States => PidFits(r, disk'[r])
         /\ tmp'[r].state = "absent"
         /\ \A x \in Runs \ {r} : disk'[x] = disk[x] /\ tmp'[x] = tmp[x]
<1>1. NoFile.state = "absent"
  BY DEF NoFile
<1> QED BY <1>1, OneRenamed DEF FilesInStep, TmpFits

LEMMA ReplaceWrites ==
  ASSUME TypeOK, NEW p \in Procs, NEW t \in Threads, Replace(p, t)
  PROVE  LET r == req[p][t].run
         IN /\ req[p][t].pc \in Renaming \ Fixing /\ req[p][t].pc \in Writing
            /\ r \in Runs /\ Rename(r)
            /\ \E q : WriteStep(p, t, r, q) /\ req'[p][t] = q /\ q.pc \notin Writing \cup Holding
<1> DEFINE r == req[p][t].run
           place == IF req[p][t].pc = "submit_replace" THEN "submit_enqueue" ELSE "answer"
<1>1. /\ req[p][t].pc \in Renaming \ Fixing /\ req[p][t].pc \in Writing
      /\ Rename(r) /\ Goto(p, t, place)
      /\ UNCHANGED <<up, mem, event, started, worker, owner, scanned, lock>>
  BY DEF Replace, At, Writing, Renaming, Fixing
<1>2. r \in Runs
  BY <1>1, InHand DEF Renaming, NoRun
<1>3. place \in {"submit_enqueue", "answer"}
  OBVIOUS
<1> HIDE DEF place
<1>4. /\ place \notin Cancelling \cup Fixing \cup Writing \cup Holding
  BY <1>3 DEF Cancelling, Fixing, Writing, Opening, Filling, Renaming, Holding
<1>5. /\ \A x \in Runs \ {r} : disk'[x] = disk[x] /\ tmp'[x] = tmp[x]
      /\ \A p2 \in Procs, t2 \in Threads : req[p2][t2].run # r => handle'[p2][t2] = handle[p2][t2]
  BY <1>1, <1>2, OneRenamed, Followed
<1>6. \E q : /\ WriteStep(p, t, r, q) /\ q.pc = place /\ req'[p][t] = q
  BY <1>1, <1>3, <1>4, <1>5, MoveWrites
<1> QED BY <1>1, <1>2, <1>4, <1>6

LEMMA ReplaceFiles ==
  ASSUME TypeOK, Ownership, FilesInStep, NEW p \in Procs, NEW t \in Threads, Replace(p, t)
  PROVE  FilesInStep'
<1> SUFFICES ASSUME NEW r, r = req[p][t].run PROVE FilesInStep'
  OBVIOUS
<1>1. /\ req[p][t].pc \in Renaming \ Fixing /\ req[p][t].pc \in Writing
      /\ r \in Runs /\ Rename(r)
  BY ReplaceWrites
<1>2. PICK q : WriteStep(p, t, r, q) /\ req'[p][t] = q /\ q.pc \notin Writing \cup Holding
  BY ReplaceWrites
<1>3. \A p2 \in Procs, t2 \in Threads : p2 # p \/ t2 # t => req'[p2][t2] = req[p2][t2]
  BY <1>2, OneMoves DEF TypeOK, WriteStep
<1>4. /\ disk'[r] = tmp[r] /\ disk'[r].state # "absent" /\ tmp'[r] = NoFile
      /\ disk'[r].state \in States => PidFits(r, disk'[r])
      /\ tmp'[r].state = "absent" /\ "absent" \notin States \cup {"mixed", "empty"}
  BY <1>1, RenamedFits DEF States, Terminal
<1>5. owner[r] = p /\ r \notin started[p]
  BY <1>1, WriterKnows
<1>6. /\ {disk'[r].state, tmp'[r].state} \subseteq {"absent", "queued", mem[p][r]} \cup Garbled
      /\ "mixed" \in {disk'[r].state, tmp'[r].state} => mem[p][r] = "cancelled"
  BY <1>1, <1>4, <1>5 DEF FilesInStep, WaitingFile
<1>7. disk'[r].state = "empty" => \E t2 \in Threads : WritesTo(p, t2, r, "disk")'
  <2> SUFFICES ASSUME disk'[r].state = "empty"
               PROVE  \E t2 \in Threads : WritesTo(p, t2, r, "disk")'
    OBVIOUS
  <2>1. PICK t2 \in Threads : WritesTo(p, t2, r, "tmp")
    BY <1>1, <1>4, <1>5 DEF FilesInStep, EmptyIsFilled
  <2>2. t2 # t
    BY <1>1, <2>1 DEF WritesTo, Filling, Renaming
  <2>3. handle'[p][t2] = "disk"
    BY <1>1, <2>1, Followed DEF WritesTo
  <2> QED BY <1>3, <2>1, <2>2, <2>3 DEF WritesTo
<1> QED BY <1>2, <1>4, <1>6, <1>7, WriteFiles

LEMMA FailWrites ==
  ASSUME TypeOK, NEW p \in Procs, NEW t \in Threads, ReplaceFails(p, t)
  PROVE  LET r == req[p][t].run
         IN /\ req[p][t].pc \in Renaming /\ req[p][t].pc \in Writing /\ r \in Runs
            /\ tmp[r] = NoFile /\ UNCHANGED <<disk, tmp, handle>>
            /\ \E q : WriteStep(p, t, r, q) /\ req'[p][t] = q /\ q.pc \notin Writing \cup Holding
<1> DEFINE r == req[p][t].run
<1>1. /\ req[p][t].pc \in Renaming /\ req[p][t].pc \in Writing
      /\ Goto(p, t, "file_error") /\ (UNCHANGED lock \/ (lock[p] = t /\ AndRelease(p)))
      /\ tmp[r] = NoFile
      /\ UNCHANGED <<up, mem, event, started, worker, owner, scanned, disk, tmp, handle>>
  BY DEF ReplaceFails, Throw, At, Writing
<1>2. r \in Runs
  BY <1>1, InHand DEF Renaming, NoRun
<1>3. "file_error" \notin Cancelling \cup Fixing \cup Writing \cup Holding
  BY DEF Cancelling, Fixing, Writing, Opening, Filling, Renaming, Holding
<1>4. \E q : /\ WriteStep(p, t, r, q) /\ q.pc = "file_error" /\ req'[p][t] = q
  BY <1>1, <1>3, MoveWrites
<1> QED BY <1>1, <1>2, <1>3, <1>4

LEMMA ReplaceFailsFiles ==
  ASSUME TypeOK, Ownership, FilesInStep, NEW p \in Procs, NEW t \in Threads, ReplaceFails(p, t)
  PROVE  FilesInStep'
<1> SUFFICES ASSUME NEW r, r = req[p][t].run PROVE FilesInStep'
  OBVIOUS
<1>1. /\ req[p][t].pc \in Renaming /\ req[p][t].pc \in Writing /\ r \in Runs
      /\ tmp[r] = NoFile /\ UNCHANGED <<disk, tmp, handle>>
  BY FailWrites
<1>2. PICK q : WriteStep(p, t, r, q) /\ req'[p][t] = q
  BY FailWrites
<1>3. \A p2 \in Procs, t2 \in Threads : p2 # p \/ t2 # t => req'[p2][t2] = req[p2][t2]
  BY <1>2, OneMoves DEF TypeOK, WriteStep
<1>4. /\ disk[r].state \in States => PidFits(r, disk[r])
      /\ tmp[r].state = "absent" /\ "absent" \notin States \cup {"empty"}
  BY <1>1 DEF FilesInStep, FileFits, NoFile, States, Terminal
<1>5. ASSUME req[p][t].pc \notin Fixing
      PROVE  /\ disk[r].state # "absent"
             /\ {disk[r].state, tmp[r].state} \subseteq {"absent", "queued", mem[p][r]} \cup Garbled
             /\ "mixed" \in {disk[r].state, tmp[r].state} => mem[p][r] = "cancelled"
             /\ disk[r].state = "empty" => \E t2 \in Threads : WritesTo(p, t2, r, "disk")'
  <2>1. owner[r] = p /\ r \notin started[p]
    BY <1>1, <1>5, WriterKnows
  <2>2. disk[r].state = "empty" => \E t2 \in Threads : WritesTo(p, t2, r, "disk")'
    <3> SUFFICES ASSUME disk[r].state = "empty"
                 PROVE  \E t2 \in Threads : WritesTo(p, t2, r, "disk")'
      OBVIOUS
    <3>1. PICK t2 \in Threads : WritesTo(p, t2, r, "disk")
      BY <1>1, <2>1 DEF FilesInStep, EmptyIsFilled
    <3>2. t2 # t
      BY <1>1, <3>1 DEF WritesTo, Filling, Renaming
    <3> QED BY <1>1, <1>3, <3>1, <3>2 DEF WritesTo
  <2>3. disk[r].state # "absent"
    BY <1>1, <2>1 DEF FilesInStep, FirstWriteComes
  <2> QED BY <1>1, <2>1, <2>2, <2>3 DEF FilesInStep, WaitingFile
<1> QED BY <1>1, <1>2, <1>4, <1>5, WriteFiles

LEMMA CorrectWrites ==
  ASSUME TypeOK, Ownership, FilesInStep, NEW p \in Procs, NEW t \in Threads, Correct(p, t)
  PROVE  LET r == req[p][t].run
         IN /\ req[p][t].pc = "fix_replace" /\ req[p][t].pc \in Writing /\ r \in Runs /\ Rename(r)
            /\ mem'[p][r] = "error" /\ UNCHANGED scanned
            /\ \E q : /\ WriteStep(p, t, r, q) /\ req'[p][t] = q
                      /\ q.pc \notin Writing \cup Holding
                      /\ q.pc \in Scanning => req[p][t].op = "scan" /\ q.todo = req[p][t].todo
<1> DEFINE old == req[p][t]
           r   == old.run
           q   == IF old.op \in {"scan", "list"} THEN Loop(old.op, old.todo)
                  ELSE AfterGet(old.op, r, "error")
<1>1. /\ old.pc = "fix_replace" /\ old.pc \in Writing /\ old.pc \in Fixing /\ r \in Runs
      /\ old.todo \in SUBSET Runs
      /\ Rename(r) /\ mem' = [mem EXCEPT ![p][r] = "error"] /\ Becomes(p, t, q)
      /\ IF old.op = "scan" THEN UNCHANGED lock ELSE AndRelease(p)
      /\ UNCHANGED <<up, event, started, scanned, worker, owner>>
  BY InHand, RequestFields DEF Correct, At, NoRun, Writing, Renaming, Fixing
<1>2. owner[r] = "lost" /\ lock[p] = t
  BY <1>1, WriterKnows
<1>3. /\ q \in Request /\ q.pc \notin Writing \cup Holding
      /\ q.pc \in Scanning => old.op = "scan" /\ q.todo = old.todo
  <2>1. CASE old.op \in {"scan", "list"}
    <3>1. /\ q = Loop(old.op, old.todo) /\ q \in Request /\ q.pc = old.op /\ q.todo = old.todo
          /\ q.pc \notin Writing \cup Holding
      BY <1>1, <2>1, LoopPlain
    <3> HIDE DEF q, old
    <3> QED BY <2>1, <3>1 DEF Scanning
  <2>2. CASE old.op \notin {"scan", "list"}
    <3>1. q \in Request /\ q.pc \notin Writing \cup Holding \cup {"scan", "scan_classify"}
      BY <1>1, <2>2, AfterGetPlain
    <3> HIDE DEF q, old
    <3> QED BY <3>1 DEF Scanning
  <2> QED BY <2>1, <2>2
<1> HIDE DEF q
<1>4. req'[p][t] = q
  BY <1>1, <1>3, OneMoves DEF TypeOK
<1>5. /\ \A x \in Runs \ {r} : disk'[x] = disk[x] /\ tmp'[x] = tmp[x]
      /\ \A p2 \in Procs, t2 \in Threads : req[p2][t2].run # r => handle'[p2][t2] = handle[p2][t2]
  BY <1>1, OneRenamed, Followed
<1>6. /\ mem'[p][r] = "error"
      /\ \A p2 \in Procs, x \in Runs : x # r \/ owner[x] = p2 => mem'[p2][x] = mem[p2][x]
  <2>1. "error" \in States \cup {"absent"} /\ owner[r] \notin Procs
    BY <1>2, ConstantsAssumption DEF States, Terminal
  <2>2. r \in Runs /\ mem' = [mem EXCEPT ![p][r] = "error"]
    BY <1>1
  <2> HIDE DEF r
  <2>3. /\ mem'[p][r] = "error"
        /\ \A p2 \in Procs, x \in Runs : p2 # p \/ x # r => mem'[p2][x] = mem[p2][x]
    BY <2>2 DEF TypeOK
  <2> QED BY <2>1, <2>3
<1>7. /\ \A p2 \in Procs : p2 # p => lock'[p2] = lock[p2]
      /\ lock'[p] # lock[p] => lock[p] = t
      /\ q.pc \in Scanning \cup Fixing => lock'[p] = lock[p]
  <2>1. q.pc \notin Fixing
    BY <1>3 DEF Holding
  <2> QED BY <1>1, <1>2, <1>3, <2>1 DEF AndRelease, TypeOK
<1>8. q.pc \notin Cancelling
  BY <1>3 DEF Cancelling, Writing, Opening, Filling, Renaming
<1>9. WriteStep(p, t, r, q)
  BY <1>1, <1>3, <1>5, <1>6, <1>7, <1>8 DEF WriteStep
<1> QED BY <1>1, <1>3, <1>4, <1>6, <1>9

LEMMA CorrectFiles ==
  ASSUME TypeOK, Ownership, FilesInStep, NEW p \in Procs, NEW t \in Threads, Correct(p, t)
  PROVE  FilesInStep'
<1> SUFFICES ASSUME NEW r, r = req[p][t].run PROVE FilesInStep'
  OBVIOUS
<1>1. req[p][t].pc \in Fixing /\ r \in Runs /\ Rename(r)
  BY CorrectWrites DEF Fixing
<1>2. PICK q : WriteStep(p, t, r, q)
  BY CorrectWrites
<1>3. /\ disk'[r].state \in States => PidFits(r, disk'[r])
      /\ tmp'[r] = NoFile /\ tmp'[r].state = "absent" /\ "absent" \notin States
  BY <1>1, RenamedFits DEF States, Terminal
<1> QED BY <1>1, <1>2, <1>3, WriteFiles

LEMMA CancelFiles ==
  ASSUME TypeOK, Ownership, FilesInStep, NEW p \in Procs, NEW t \in Threads,
         CancelsQueued(p, t)
  PROVE  FilesInStep'
<1> SUFFICES ASSUME NEW r, r = req[p][t].run PROVE FilesInStep'
  OBVIOUS
<1> DEFINE q == [req[p][t] EXCEPT !.pc = "cancel_open"]
<1>1. /\ req[p][t].pc = "cancel" /\ r \in Runs /\ req[p][t] \in Request
      /\ r \notin started[p] /\ event[p][r] # "absent" /\ mem[p][r] \notin Terminal
  BY InHand DEF CancelsQueued, Cancel, At, NoRun
<1>2. owner[r] = p
  BY <1>1 DEF FilesInStep, EventsOwned
<1>3. mem[p][r] = "queued"
  BY <1>1, <1>2 DEF Ownership, OwnerRemembers, Terminal
<1>4. /\ event' = [event EXCEPT ![p][r] = "set"] /\ mem' = [mem EXCEPT ![p][r] = "cancelled"]
      /\ Becomes(p, t, q) /\ UNCHANGED <<up, started, worker, disk, tmp, owner, handle, lock>>
  BY <1>1, <1>3 DEF CancelsQueued, Cancel, Goto, Begun, Terminal
<1>5. q \in Request /\ q.pc = "cancel_open" /\ q.run = r
  <2>1. "cancel_open" \in Places
    BY DEF Places
  <2>2. q \in Request
    BY <1>1, <2>1, MovePc
  <2> QED BY <1>1, <2>2, MovedFields
<1> HIDE DEF q
<1>6. /\ req'[p][t] = q
      /\ \A p2 \in Procs, t2 \in Threads : p2 # p \/ t2 # t => req'[p2][t2] = req[p2][t2]
  BY <1>4, <1>5, OneMoves DEF TypeOK
<1>7. /\ mem'[p][r] = "cancelled"
      /\ \A p2 \in Procs, x \in Runs : p2 # p \/ x # r =>
           mem'[p2][x] = mem[p2][x] /\ event'[p2][x] = event[p2][x]
  BY <1>1, <1>4 DEF TypeOK
<1>8. q.pc \notin Filling \cup Renaming \cup Holding \cup Scanning \cup Fixing
  BY <1>5 DEF Filling, Renaming, Holding, Scanning, Fixing
<1>9. CopiesFit'
  <2> SUFFICES ASSUME NEW p2 \in Procs, NEW t2 \in Threads PROVE CopyFits(req[p2][t2])'
    BY DEF CopiesFit
  <2>1. CASE p2 = p /\ t2 = t
    BY <1>6, <1>8, <2>1 DEF CopyFits, Scanning
  <2>2. CASE p2 # p \/ t2 # t
    BY <1>4, <1>6, <2>2 DEF CopyFits, PidFits, FilesInStep, CopiesFit
  <2> QED BY <2>1, <2>2
<1>10. FirstWriteComes'
  <2> SUFFICES ASSUME NEW p2 \in Procs, NEW x \in Runs, owner[x] = p2, disk[x].state = "absent"
               PROVE  /\ \E t2 \in Threads : req'[p2][t2].pc \in Creating /\ req'[p2][t2].run = x
                      /\ \A t2 \in Threads :
                           req'[p2][t2].pc \in Filling \cup Renaming /\ req'[p2][t2].run = x
                             => tmp[x] # NoFile
    BY <1>4 DEF FirstWriteComes
  <2>1. PICK t2 \in Threads : req[p2][t2].pc \in Creating /\ req[p2][t2].run = x
    BY DEF FilesInStep, FirstWriteComes
  <2>2. req'[p2][t2] = req[p2][t2]
    BY <1>1, <1>6, <2>1 DEF Creating
  <2>3. \A t3 \in Threads : req'[p2][t3].pc \in Filling \cup Renaming => req'[p2][t3] = req[p2][t3]
    BY <1>6, <1>8
  <2> QED BY <2>1, <2>2, <2>3 DEF FilesInStep, FirstWriteComes
<1>11. WaitingFile'
  <2> SUFFICES ASSUME NEW p2 \in Procs, NEW x \in Runs, owner[x] = p2, x \notin started[p2]
               PROVE  /\ {disk[x].state, tmp[x].state} \subseteq
                           {"absent", "queued", mem'[p2][x]} \cup Garbled
                      /\ "mixed" \in {disk[x].state, tmp[x].state} => mem'[p2][x] = "cancelled"
    BY <1>4 DEF WaitingFile
  <2>1. /\ {disk[x].state, tmp[x].state} \subseteq {"absent", "queued", mem[p2][x]} \cup Garbled
        /\ "mixed" \in {disk[x].state, tmp[x].state} => mem[p2][x] = "cancelled"
    BY DEF FilesInStep, WaitingFile
  <2>2. mem'[p2][x] = mem[p2][x] \/ (mem[p2][x] = "queued" /\ mem'[p2][x] = "cancelled")
    BY <1>3, <1>7
  <2> QED BY <2>1, <2>2
<1>12. EmptyIsFilled'
  <2>1. ASSUME NEW p2 \in Procs, NEW t2 \in Threads, NEW x \in Runs, NEW name,
               WritesTo(p2, t2, x, name)
        PROVE  WritesTo(p2, t2, x, name)'
    <3>1. req'[p2][t2] = req[p2][t2]
      BY <1>1, <1>6, <2>1 DEF WritesTo, Filling
    <3> QED BY <1>4, <2>1, <3>1 DEF WritesTo
  <2> QED BY <1>4, <2>1 DEF FilesInStep, EmptyIsFilled
<1>13. StartedFile'
  <2> SUFFICES ASSUME NEW p2 \in Procs, NEW x \in Runs, x \in started[p2]
               PROVE  IF worker[p2].run = x /\ worker[p2].pc = "write"
                      THEN disk[x].state \in {"queued", "running"}
                      ELSE disk[x].state = mem'[p2][x]
    BY <1>4 DEF StartedFile
  <2>1. mem'[p2][x] = mem[p2][x]
    BY <1>1, <1>7
  <2> QED BY <2>1 DEF FilesInStep, StartedFile
<1>14. CancelsWaiting'
  <2> SUFFICES ASSUME NEW p2 \in Procs, NEW t2 \in Threads, req'[p2][t2].pc \in Cancelling
               PROVE  /\ owner[req'[p2][t2].run] = p2
                      /\ mem'[p2][req'[p2][t2].run] = "cancelled"
                      /\ req'[p2][t2].run \notin started[p2]
    BY <1>4 DEF CancelsWaiting
  <2>1. CASE p2 = p /\ t2 = t
    BY <1>1, <1>2, <1>5, <1>6, <1>7, <2>1
  <2>2. CASE p2 # p \/ t2 # t
    <3>1. req'[p2][t2] = req[p2][t2] /\ req[p2][t2].run \in Runs
      BY <1>6, <2>2, WriterKnows DEF Cancelling, Writing, Opening, Filling, Renaming
    <3> QED BY <1>7, <3>1 DEF FilesInStep, CancelsWaiting
  <2> QED BY <2>1, <2>2
<1>15. EventsOwned'
  BY <1>2, <1>4, <1>7 DEF FilesInStep, EventsOwned
<1>16. FileFits' /\ TmpFits' /\ OwnersLive'
  BY <1>4 DEF FilesInStep, FileFits, TmpFits, PidFits, OwnersLive, Live
<1>17. Locking'
  BY <1>4, <1>6, <1>8 DEF FilesInStep, Locking
<1> QED
  BY <1>9, <1>10, <1>11, <1>12, <1>13, <1>14, <1>15, <1>16, <1>17 DEF FilesInStep

LEMMA StillFiles ==
  ASSUME FilesInStep,
         UNCHANGED <<up, mem, event, started, worker, owner, disk, tmp, handle, lock, req>>
  PROVE  FilesInStep'
<1>1. FileFits' /\ TmpFits' /\ CopiesFit' /\ FirstWriteComes' /\ WaitingFile' /\ StartedFile'
  BY DEF FilesInStep, FileFits, TmpFits, PidFits, CopiesFit, CopyFits, FirstWriteComes,
         WaitingFile, StartedFile
<1>2. EmptyIsFilled' /\ CancelsWaiting' /\ EventsOwned' /\ OwnersLive' /\ Locking'
  BY DEF FilesInStep, EmptyIsFilled, WritesTo, CancelsWaiting, EventsOwned, OwnersLive, Live,
         Locking
<1> QED BY <1>1, <1>2 DEF FilesInStep

LEMMA TakeFiles ==
  ASSUME TypeOK, Ownership, FilesInStep, NEW p \in Procs, Take(p)
  PROVE  FilesInStep'
<1> DEFINE r == Head(queue[p])
           w == [Resting EXCEPT !.pc = "begin", !.run = r]
<1>1. /\ worker[p].pc = "idle" /\ queue[p] # <<>>
      /\ UNCHANGED <<up, mem, event, owner, disk, tmp, req, handle, lock>>
  BY DEF Take, WorkerUnchanged
<1>2. CASE CancelledInQueue(p, r)
  BY <1>1, <1>2, StillFiles DEF Take
<1>3. CASE ~CancelledInQueue(p, r)
  <2>1. started' = [started EXCEPT ![p] = @ \cup {r}] /\ Works(p, w)
    BY <1>3 DEF Take
  <2>2. r = queue[p][1] /\ 1 \in 1..Len(queue[p]) /\ r \in Runs
    BY <1>1 DEF TypeOK
  <2>3. owner[r] = p /\ r \notin started[p]
    BY <2>2 DEF Ownership, QueueIsWaiting
  <2>4. mem[p][r] = "queued"
    BY <1>3, <2>2, <2>3 DEF Ownership, OwnerRemembers, CancelledInQueue
  <2>5. \A t \in Threads :
          req[p][t].pc \in Creating \cup Cancelling \cup Fixing => req[p][t].run # r
    <3> SUFFICES ASSUME NEW t \in Threads, req[p][t].run = r,
                        req[p][t].pc \in Creating \cup Cancelling \cup Fixing
                 PROVE  FALSE
      OBVIOUS
    <3>1. Sound(p, req[p][t])
      BY DEF Ownership, RequestsSound
    <3>2. req[p][t].pc \in Fixing => owner[r] # p
      BY <3>1 DEF Sound, Borrowing, Elsewhere
    <3>3. req[p][t].pc \in Cancelling => mem[p][r] = "cancelled"
      BY DEF FilesInStep, CancelsWaiting
    <3>4. req[p][t].pc \notin Creating
      BY <2>2, <3>1 DEF Sound, Creating, Submitting
    <3> QED BY <2>3, <2>4, <3>2, <3>3, <3>4
  <2>6. disk[r].state = "queued"
    <3>1. disk[r].state # "absent"
      BY <2>2, <2>3, <2>5 DEF FilesInStep, FirstWriteComes
    <3>2. disk[r].state # "empty"
      <4>1. \A t \in Threads : ~WritesTo(p, t, r, "disk")
        BY <2>5 DEF WritesTo, Filling, Creating, Cancelling, Fixing
      <4> HIDE DEF r
      <4> QED BY <2>2, <2>3, <4>1 DEF FilesInStep, EmptyIsFilled
    <3>3. /\ disk[r].state \in {"absent", "queued", mem[p][r]} \cup Garbled
          /\ disk[r].state = "mixed" => mem[p][r] = "cancelled"
      BY <2>2, <2>3 DEF FilesInStep, WaitingFile
    <3> QED BY <2>4, <3>1, <3>2, <3>3 DEF Garbled
  <2>7. w \in Worker /\ w.pc = "begin" /\ w.run = r
    BY <2>2, WorkerBegin DEF Resting
  <2> HIDE DEF w, r
  <2>8. worker'[p] = w /\ \A p2 \in Procs \ {p} : worker'[p2] = worker[p2]
    BY <2>1, <2>7, OneWorks DEF TypeOK
  <2>9. /\ started'[p] = started[p] \cup {r}
        /\ \A p2 \in Procs \ {p} : started'[p2] = started[p2]
    BY <2>1 DEF TypeOK
  <2>10. WaitingFile'
    BY <1>1, <2>9 DEF FilesInStep, WaitingFile
  <2>11. StartedFile'
    <3> SUFFICES ASSUME NEW p2 \in Procs, NEW x \in Runs, x \in started'[p2]
                 PROVE  IF worker'[p2].run = x /\ worker'[p2].pc = "write"
                        THEN disk[x].state \in {"queued", "running"}
                        ELSE disk[x].state = mem[p2][x]
      BY <1>1 DEF StartedFile
    <3>1. CASE p2 = p
      <4>1. x # r => disk[x].state = mem[p][x]
        BY <1>1, <2>9, <3>1 DEF FilesInStep, StartedFile
      <4> QED BY <2>4, <2>6, <2>7, <2>8, <3>1, <4>1
    <3>2. CASE p2 # p
      BY <2>8, <2>9, <3>2 DEF FilesInStep, StartedFile
    <3> QED BY <3>1, <3>2
  <2>12. CancelsWaiting'
    <3> SUFFICES ASSUME NEW p2 \in Procs, NEW t \in Threads, req[p2][t].pc \in Cancelling
                 PROVE  /\ owner[req[p2][t].run] = p2
                        /\ mem[p2][req[p2][t].run] = "cancelled"
                        /\ req[p2][t].run \notin started'[p2]
      BY <1>1 DEF CancelsWaiting
    <3> QED BY <2>4, <2>9 DEF FilesInStep, CancelsWaiting
  <2>13. FileFits' /\ TmpFits' /\ CopiesFit' /\ FirstWriteComes' /\ EventsOwned' /\ OwnersLive'
    BY <1>1 DEF FilesInStep, FileFits, TmpFits, PidFits, CopiesFit, CopyFits, FirstWriteComes,
                EventsOwned, OwnersLive, Live
  <2>14. EmptyIsFilled' /\ Locking'
    BY <1>1 DEF FilesInStep, EmptyIsFilled, WritesTo, Locking
  <2> QED
    BY <2>10, <2>11, <2>12, <2>13, <2>14 DEF FilesInStep
<1> QED BY <1>2, <1>3

\* the worker moves on with its run, or lays it down; nobody else is concerned
LEMMA WorkFiles ==
  ASSUME TypeOK, Ownership, FilesInStep, NEW p \in Procs, worker[p].pc # "idle",
         NEW r, r = worker[p].run, NEW w \in Worker, Works(p, w), w = Resting \/ w.run = r,
         \A p2 \in Procs, x \in Runs : p2 # p \/ x # r => mem'[p2][x] = mem[p2][x],
         \A x \in Runs : x # r => disk'[x] = disk[x],
         disk'[r].state \in States, disk'[r].pid = p,
         IF w.run = r /\ w.pc = "write" THEN disk'[r].state \in {"queued", "running"}
                                        ELSE disk'[r].state = mem'[p][r],
         UNCHANGED <<up, event, started, owner, tmp, req, handle, lock>>
  PROVE  FilesInStep'
<1>1. r \in Runs /\ r \in started[p] /\ owner[r] = p
  BY DEF Ownership, WorkerInStep, StartedIsInWork, TypeOK
<1>2. worker'[p] = w /\ \A p2 \in Procs \ {p} : worker'[p2] = worker[p2]
  BY OneWorks DEF TypeOK
<1>3. w.run = r \/ w.run \notin Runs
  BY ConstantsAssumption DEF Resting
<1>4. FileFits'
  <2> SUFFICES ASSUME NEW x \in Runs, disk'[x].state \in States PROVE PidFits(x, disk[x])'
    BY DEF FileFits
  <2>1. CASE x = r
    BY <1>1, <2>1 DEF PidFits
  <2>2. CASE x # r
    BY <2>2 DEF FilesInStep, FileFits, PidFits
  <2> QED BY <2>1, <2>2
<1>5. FirstWriteComes' /\ EmptyIsFilled'
  <2>1. disk'[r].state \notin {"absent", "empty"}
    BY DEF States, Terminal
  <2>2. FirstWriteComes'
    BY <2>1 DEF FilesInStep, FirstWriteComes
  <2>3. EmptyIsFilled'
    BY <2>1 DEF FilesInStep, EmptyIsFilled, WritesTo
  <2> QED BY <2>2, <2>3
<1>6. WaitingFile'
  BY <1>1 DEF FilesInStep, WaitingFile
<1>7. StartedFile'
  <2> SUFFICES ASSUME NEW p2 \in Procs, NEW x \in Runs, x \in started[p2]
               PROVE  IF worker'[p2].run = x /\ worker'[p2].pc = "write"
                      THEN disk'[x].state \in {"queued", "running"}
                      ELSE disk'[x].state = mem'[p2][x]
    BY DEF StartedFile
  <2>1. CASE p2 = p /\ x = r
    BY <1>2, <2>1
  <2>2. CASE p2 = p /\ x # r
    BY <1>2, <1>3, <2>2 DEF FilesInStep, StartedFile
  <2>3. CASE p2 # p
    <3>1. x # r
      BY <1>1, <2>3 DEF Ownership, StartedIsInWork
    <3> QED BY <1>2, <2>3, <3>1 DEF FilesInStep, StartedFile
  <2> QED BY <2>1, <2>2, <2>3
<1>8. CancelsWaiting'
  <2> SUFFICES ASSUME NEW p2 \in Procs, NEW t \in Threads, req[p2][t].pc \in Cancelling
               PROVE  /\ owner[req[p2][t].run] = p2
                      /\ mem'[p2][req[p2][t].run] = "cancelled"
                      /\ req[p2][t].run \notin started[p2]
    BY DEF CancelsWaiting
  <2>1. req[p2][t].run \in Runs
    BY WriterKnows DEF Cancelling, Writing, Opening, Filling, Renaming
  <2> QED BY <1>1, <2>1 DEF FilesInStep, CancelsWaiting
<1>9. TmpFits' /\ CopiesFit' /\ EventsOwned' /\ OwnersLive' /\ Locking'
  BY DEF FilesInStep, TmpFits, PidFits, CopiesFit, CopyFits, EventsOwned, OwnersLive, Live, Locking
<1> QED
  BY <1>4, <1>5, <1>6, <1>7, <1>8, <1>9 DEF FilesInStep

LEMMA WorkerFiles ==
  ASSUME TypeOK, Ownership, FilesInStep, NEW p \in Procs,
         \/ Publish(p) \/ WriteStatus(p) \/ Progress(p) \/ StopSeen(p) \/ WorkEnds(p)
         \/ Settle(p)
  PROVE  FilesInStep'
<1> DEFINE old == worker[p]
           r   == old.run
<1>1. /\ old \in Worker /\ old.pc # "idle"
      /\ UNCHANGED <<up, event, started, owner, tmp, req, handle, lock>>
  BY DEF Publish, WriteStatus, Progress, StopSeen, WorkEnds, Settle, TypeOK, WorkerUnchanged
<1>2. /\ r \in Runs /\ r \in started[p] /\ owner[r] = p /\ InStep(old, mem[p][r])
      /\ old.out \in States /\ old.stage \in 0..Stages
  BY <1>1, WorkerFields DEF Ownership, WorkerInStep, StartedIsInWork
<1>3. IF old.pc = "write" THEN disk[r].state \in {"queued", "running"}
                          ELSE disk[r].state = mem[p][r]
  BY <1>2 DEF FilesInStep, StartedFile
<1>4. disk[r].state \in States /\ disk[r].pid = p
  <2>1. disk[r].state \in States
    <3>1. mem[p][r] \in States
      BY <1>2 DEF Ownership, OwnerRemembers, TypeOK
    <3> QED BY <1>3, <3>1 DEF States
  <2> QED BY <1>2, <2>1 DEF FilesInStep, FileFits, PidFits
<1>5. CASE Publish(p) \/ Settle(p)
  <2>1. PICK out \in States, s \in States :
          /\ Works(p, [old EXCEPT !.pc = "write", !.out = out])
          /\ mem' = [mem EXCEPT ![p][r] = s] /\ UNCHANGED disk
    <3>1. CASE Publish(p)
      BY <3>1 DEF Publish, States
    <3>2. CASE Settle(p)
      <4>1. Works(p, [old EXCEPT !.pc = "write"]) /\ UNCHANGED disk
            /\ mem' = [mem EXCEPT ![p][r] = old.out]
        BY <3>2 DEF Settle
      <4>2. [old EXCEPT !.pc = "write"] = [old EXCEPT !.pc = "write", !.out = old.out]
        BY <1>1 DEF Worker
      <4> QED BY <1>2, <4>1, <4>2
    <3> QED BY <1>5, <3>1, <3>2
  <2> DEFINE w == [old EXCEPT !.pc = "write", !.out = out]
  <2>2. w \in Worker /\ w.run = r /\ w.pc = "write" /\ Works(p, w)
    <3>1. w \in Worker
      BY <1>1, WorkerOut
    <3> QED BY <1>1, <2>1, <3>1 DEF Worker
  <2>3. old.pc \in {"begin", "publish", "finish"}
    BY <1>5 DEF Publish, Settle
  <2>4. disk[r].state \in {"queued", "running"}
    BY <1>2, <1>3, <2>3 DEF InStep
  <2>5. \A p2 \in Procs, x \in Runs : p2 # p \/ x # r => mem'[p2][x] = mem[p2][x]
    BY <2>1 DEF TypeOK
  <2> HIDE DEF w, r, old
  <2> QED BY <1>1, <1>4, <2>1, <2>2, <2>4, <2>5, WorkFiles DEF r, old
<1>6. CASE WriteStatus(p)
  <2>1. /\ disk' = [disk EXCEPT ![r] = [state |-> old.out, pid |-> p]] /\ UNCHANGED mem
        /\ old.pc = "write"
    BY <1>6 DEF WriteStatus
  <2>2. PICK w : Works(p, w) /\ (w = Resting \/ w = [old EXCEPT !.pc = "work"])
    BY <1>6 DEF WriteStatus
  <2>3. w \in Worker /\ (w = Resting \/ w.run = r) /\ w.pc # "write"
    <3>1. CASE w = Resting
      BY <3>1, RestingType DEF Resting
    <3>2. CASE w = [old EXCEPT !.pc = "work"]
      <4>1. w \in Worker
        BY <1>1, <3>2, WorkerPc
      <4> QED BY <1>1, <3>2, <4>1 DEF Worker
    <3> QED BY <2>2, <3>1, <3>2
  <2>4. /\ disk'[r] = [state |-> old.out, pid |-> p]
        /\ \A x \in Runs : x # r => disk'[x] = disk[x]
    BY <1>2, <2>1 DEF TypeOK
  <2>5. mem[p][r] = old.out /\ old.out \in States
    BY <1>2, <2>1 DEF InStep
  <2> HIDE DEF r, old
  <2> QED BY <1>1, <2>1, <2>2, <2>3, <2>4, <2>5, WorkFiles DEF r, old
<1>7. CASE Progress(p) \/ StopSeen(p) \/ WorkEnds(p)
  <2>1. UNCHANGED <<mem, disk>> /\ old.pc = "work"
    BY <1>7 DEF Progress, StopSeen, WorkEnds
  <2>2. PICK w : /\ Works(p, w)
                 /\ \/ \E out \in States : w = [old EXCEPT !.pc = "finish", !.out = out]
                    \/ old.stage < Stages /\ w = [old EXCEPT !.pc = "publish", !.stage = @ + 1]
    BY <1>7 DEF Progress, StopSeen, WorkEnds, End, StagesLeft, States, Terminal
  <2>3. w \in Worker /\ w.run = r /\ w.pc # "write"
    <3>1. CASE \E out \in States : w = [old EXCEPT !.pc = "finish", !.out = out]
      <4>1. w \in Worker
        BY <1>1, <3>1, WorkerOut
      <4> QED BY <1>1, <3>1, <4>1 DEF Worker
    <3>2. CASE old.stage < Stages /\ w = [old EXCEPT !.pc = "publish", !.stage = @ + 1]
      <4>1. w \in Worker
        BY <1>1, <3>2, WorkerStage
      <4> QED BY <1>1, <3>2, <4>1 DEF Worker
    <3> QED BY <2>2, <3>1, <3>2
  <2> HIDE DEF r, old
  <2> QED BY <1>1, <1>3, <1>4, <2>1, <2>2, <2>3, WorkFiles DEF r, old
<1> QED BY <1>5, <1>6, <1>7

\* What a crash does: the process's memory is gone, its files stay.
LEMMA CrashTakes ==
  ASSUME TypeOK, NEW p \in Procs, Crash(p)
  PROVE  /\ up'[p] \in {"dead", "outlived"} /\ \A q \in Procs \ {p} : up'[q] = up[q]
         /\ \A r \in Runs : owner'[r] = IF owner[r] = p THEN "lost" ELSE owner[r]
         /\ \A r \in Runs : mem'[p][r] = "absent" /\ event'[p][r] = "absent"
         /\ started'[p] = {} /\ ~scanned'[p] /\ \A t \in Threads : req'[p][t] = Idle
         /\ \A q \in Procs \ {p} :
              /\ mem'[q] = mem[q] /\ event'[q] = event[q] /\ started'[q] = started[q]
              /\ scanned'[q] = scanned[q] /\ worker'[q] = worker[q] /\ req'[q] = req[q]
              /\ lock'[q] = lock[q] /\ handle'[q] = handle[q]
         /\ UNCHANGED <<disk, tmp>>
BY DEF Crash, TypeOK

LEMMA CrashFiles ==
  ASSUME TypeOK, Ownership, FilesInStep, NEW p \in Procs, Crash(p)
  PROVE  FilesInStep'
<1>1. /\ up'[p] \in {"dead", "outlived"} /\ \A q \in Procs \ {p} : up'[q] = up[q]
      /\ \A r \in Runs : owner'[r] = IF owner[r] = p THEN "lost" ELSE owner[r]
      /\ \A r \in Runs : mem'[p][r] = "absent" /\ event'[p][r] = "absent"
      /\ started'[p] = {} /\ \A t \in Threads : req'[p][t] = Idle
      /\ \A q \in Procs \ {p} :
           /\ mem'[q] = mem[q] /\ event'[q] = event[q] /\ started'[q] = started[q]
           /\ worker'[q] = worker[q] /\ req'[q] = req[q]
           /\ lock'[q] = lock[q] /\ handle'[q] = handle[q]
      /\ UNCHANGED <<disk, tmp>>
  BY CrashTakes
<1>2. \A q \in Procs, r \in Runs : owner'[r] = q <=> (q # p /\ owner[r] = q)
  BY <1>1, ConstantsAssumption
<1>3. ASSUME NEW r \in Runs, NEW f, PidFits(r, f)
      PROVE  /\ f.pid \in Procs => f.pid = owner'[r] \/ up'[f.pid] \in {"dead", "outlived"}
             /\ owner'[r] \in Procs => f.pid = owner'[r]
  BY <1>1, <1>2, <1>3 DEF PidFits
<1>4. FileFits' /\ TmpFits'
  BY <1>1, <1>3 DEF FilesInStep, FileFits, TmpFits, PidFits
<1>5. CopiesFit'
  <2> SUFFICES ASSUME NEW q \in Procs, NEW t \in Threads PROVE CopyFits(req[q][t])'
    BY DEF CopiesFit
  <2>1. CASE q = p
    BY <1>1, <2>1 DEF CopyFits, Idle, Holding, Fixing
  <2>2. CASE q # p
    <3>1. req'[q][t] = req[q][t] /\ CopyFits(req[q][t])
      BY <1>1, <2>2 DEF FilesInStep, CopiesFit
    <3>2. req[q][t].pc \in Holding => req[q][t].run \in Runs
      BY InHand DEF Holding, Fixing, NoRun
    <3>3. req[q][t].pc \in Fixing => req[q][t].pc \in Holding /\ owner'[req[q][t].run] = "lost"
      BY <1>1, <3>1, <3>2, ConstantsAssumption DEF CopyFits, Holding
    <3> QED BY <1>3, <3>1, <3>2, <3>3 DEF CopyFits, PidFits
  <2> QED BY <2>1, <2>2
<1>6. FirstWriteComes' /\ WaitingFile' /\ EmptyIsFilled'
  BY <1>1, <1>2 DEF FilesInStep, FirstWriteComes, WaitingFile, EmptyIsFilled, WritesTo
<1>7. StartedFile'
  <2> SUFFICES ASSUME NEW q \in Procs, NEW r \in Runs, r \in started'[q]
               PROVE  IF worker'[q].run = r /\ worker'[q].pc = "write"
                      THEN disk[r].state \in {"queued", "running"}
                      ELSE disk[r].state = mem'[q][r]
    BY <1>1 DEF StartedFile
  <2>1. q # p
    BY <1>1
  <2> QED BY <1>1, <2>1 DEF FilesInStep, StartedFile
<1>8. CancelsWaiting'
  <2> SUFFICES ASSUME NEW q \in Procs, NEW t \in Threads, req'[q][t].pc \in Cancelling
               PROVE  /\ owner'[req'[q][t].run] = q
                      /\ mem'[q][req'[q][t].run] = "cancelled"
                      /\ req'[q][t].run \notin started'[q]
    BY DEF CancelsWaiting
  <2>1. q # p
    BY <1>1 DEF Idle, Cancelling
  <2>2. req'[q][t] = req[q][t] /\ req[q][t].run \in Runs
    BY <1>1, <2>1, WriterKnows DEF Cancelling, Writing, Opening, Filling, Renaming
  <2> QED BY <1>1, <1>2, <2>1, <2>2 DEF FilesInStep, CancelsWaiting
<1>9. EventsOwned'
  BY <1>1, <1>2 DEF FilesInStep, EventsOwned
<1>10. OwnersLive'
  BY <1>1, <1>2 DEF FilesInStep, OwnersLive, Live
<1>11. Locking'
  BY <1>1 DEF FilesInStep, Locking, Idle, Scanning, Fixing
<1> QED
  BY <1>4, <1>5, <1>6, <1>7, <1>8, <1>9, <1>10, <1>11 DEF FilesInStep

LEMMA BootFiles ==
  ASSUME TypeOK, FilesInStep, NEW p \in Procs, Boot(p)
  PROVE  FilesInStep'
<1>1. /\ up[p] = "new" /\ up'[p] = "up" /\ \A q \in Procs : q # p => up'[q] = up[q]
      /\ UNCHANGED <<mem, event, started, worker, owner, disk, tmp, req, handle, lock>>
  BY DEF Boot, TypeOK
<1>2. FileFits' /\ TmpFits'
  BY <1>1 DEF FilesInStep, FileFits, TmpFits, PidFits
<1>3. CopiesFit'
  BY <1>1 DEF FilesInStep, CopiesFit, CopyFits, PidFits
<1>4. FirstWriteComes' /\ WaitingFile' /\ StartedFile' /\ CancelsWaiting' /\ EventsOwned'
  BY <1>1 DEF FilesInStep, FirstWriteComes, WaitingFile, StartedFile, CancelsWaiting, EventsOwned
<1>5. OwnersLive' /\ Locking' /\ EmptyIsFilled'
  BY <1>1 DEF FilesInStep, OwnersLive, Live, Locking, EmptyIsFilled, WritesTo
<1> QED BY <1>2, <1>3, <1>4, <1>5 DEF FilesInStep

\* Every step of a request is a look, the submission or cancellation of a
\* waiting run, or a part of a file write.
LEMMA RequestKinds ==
  ASSUME TypeOK, Ownership, FilesInStep, Recovering, NEW p \in Procs, NEW t \in Threads,
         Arrive(p, t) \/ RequestNext(p, t)
  PROVE  \/ \E q : Looks(p, t, q)
         \/ \E r \in Runs : Submit(p, t, r)
         \/ CancelsQueued(p, t)
         \/ OpenTmp(p, t) \/ WriteTmp(p, t) \/ Replace(p, t) \/ ReplaceFails(p, t)
         \/ Correct(p, t)
<1>1. CASE Arrive(p, t)
  BY <1>1, GetLooks, LoopLooks DEF Arrive
<1>2. CASE RequestNext(p, t)
  BY <1>2, GetLooks, GetReadLooks, LockLooks, VisitLooks, LoopLooks, CancelLooks DEF RequestNext
<1> QED BY <1>1, <1>2

LEMMA FilesStep ==
  TypeOK /\ Ownership /\ FilesInStep /\ Recovering /\ [Next]_vars => FilesInStep'
<1> SUFFICES ASSUME TypeOK, Ownership, FilesInStep, Recovering, [Next]_vars PROVE FilesInStep'
  OBVIOUS
<1>1. CASE UNCHANGED vars
  BY <1>1, StillFiles DEF vars
<1>2. ASSUME NEW p \in Procs, WorkerNext(p) PROVE FilesInStep'
  BY <1>2, TakeFiles, WorkerFiles DEF WorkerNext
<1>3. ASSUME NEW p \in Procs, NEW t \in Threads, Arrive(p, t) \/ RequestNext(p, t)
      PROVE  FilesInStep'
  BY <1>3, RequestKinds, LookFiles, SubmitFiles, CancelFiles, OpenTmpFiles, WriteTmpFiles,
     ReplaceFiles, ReplaceFailsFiles, CorrectFiles
<1> QED BY <1>1, <1>2, <1>3, BootFiles, CrashFiles DEF Next
-----------------------------------------------------------------------------
\* Who moves in a step: the others' memory, scans and requests stay.
Alone(p) ==
  \A q \in Procs \ {p} : mem'[q] = mem[q] /\ scanned'[q] = scanned[q] /\ req'[q] = req[q]

LEMMA RestStep == TypeOK /\ AtRest /\ [Next]_vars => AtRest'
<1> SUFFICES ASSUME TypeOK, AtRest, [Next]_vars PROVE AtRest'
  OBVIOUS
<1>1. ASSUME NEW p \in Procs, Live(p), UNCHANGED up, Alone(p) PROVE AtRest'
  BY <1>1 DEF AtRest, Alone, Live
<1>2. CASE UNCHANGED vars
  BY <1>2 DEF AtRest, Live, vars
<1>3. ASSUME NEW p \in Procs, Boot(p) PROVE AtRest'
  <2>1. /\ up'[p] = "up" /\ \A q \in Procs : q # p => up'[q] = up[q]
        /\ UNCHANGED <<mem, scanned, req>>
    BY <1>3 DEF Boot, TypeOK
  <2> QED BY <2>1 DEF AtRest, Live
<1>4. ASSUME NEW p \in Procs, Crash(p) PROVE AtRest'
  BY <1>4, CrashTakes DEF AtRest, Live
<1>5. ASSUME NEW p \in Procs, WorkerNext(p) PROVE AtRest'
  <2>1. Live(p) /\ UNCHANGED <<up, scanned, req>>
    BY <1>5 DEF WorkerNext, Take, Publish, WriteStatus, Progress, StopSeen, WorkEnds, Settle,
                WorkerUnchanged
  <2>2. \A q \in Procs \ {p} : mem'[q] = mem[q]
    BY <1>5 DEF WorkerNext, Take, Publish, WriteStatus, Progress, StopSeen, WorkEnds, Settle, TypeOK
  <2> QED BY <1>1, <2>1, <2>2 DEF Alone
<1>6. ASSUME NEW p \in Procs, NEW t \in Threads, Arrive(p, t) \/ RequestNext(p, t)
      PROVE  AtRest'
  <2>1. Live(p) /\ UNCHANGED up
    BY <1>6 DEF Arrive, RequestNext, Submit, Get, List, OpenTmp, WriteTmp, Replace, ReplaceFails,
                Throw, Correct, Enqueue, ServerError, GetRead, GetLock, Cancel,
                ScanVisit, ListRead, ScanClassify, ScanEnd, ListLock, ListEnd, RequestUnchanged, At
  <2>2. \A q \in Procs \ {p} : req'[q] = req[q]
    BY <1>6, ZenonT(60) DEF Arrive, RequestNext, Submit, Get, List, OpenTmp, WriteTmp, Replace, ReplaceFails,
                Throw, Correct, Enqueue, ServerError, GetRead, GetLock, Cancel,
                ScanVisit, ListRead, ScanClassify, ScanEnd, ListLock, ListEnd, Classify, Becomes, Goto, Return, TypeOK
  <2>3. \A q \in Procs \ {p} : mem'[q] = mem[q] /\ scanned'[q] = scanned[q]
    BY <1>6 DEF Arrive, RequestNext, Submit, Get, List, OpenTmp, WriteTmp, Replace, ReplaceFails,
                Throw, Correct, Enqueue, ServerError, GetRead, GetLock, Cancel,
                ScanVisit, ListRead, ScanClassify, ScanEnd, ListLock, ListEnd, Classify, TypeOK
  <2> QED BY <1>1, <2>1, <2>2, <2>3 DEF Alone
<1> QED BY <1>2, <1>3, <1>4, <1>5, <1>6 DEF Next

\* A step that leaves the dead processes' runs alone, and takes no thread to a
\* place where it holds a file or is scanning.
LEMMA AloofRecovers ==
  ASSUME Recovering, Mingled => Mingled',
         \A r \in Runs : owner'[r] = "lost" =>
           owner[r] = "lost" /\ disk'[r] = disk[r] /\ tmp'[r] = tmp[r],
         \A p \in Procs, r \in Runs : owner'[r] = "lost" => mem'[p][r] = mem[p][r],
         UNCHANGED scanned,
         \A p \in Procs, t \in Threads :
           \/ /\ req'[p][t] = req[p][t]
              /\ handle'[p][t] = handle[p][t] \/ owner'[req[p][t].run] # "lost"
           \/ req'[p][t].pc \notin Holding \cup {"scan"}
  PROVE  Recovering'
<1> SUFFICES ASSUME ~Mingled, NEW p \in Procs, NEW r \in Runs, owner'[r] = "lost"
             PROVE  /\ mem'[p][r] # "absent" \/ scanned'[p] => disk'[r].state # "running"
                    /\ \A t \in Threads :
                         /\ SeenBy(req'[p][t], r, disk'[r])
                         /\ Corrects(req'[p][t], handle'[p][t], r, tmp'[r])
  BY DEF Recovering
<1>1. /\ mem[p][r] # "absent" \/ scanned[p] => disk[r].state # "running"
      /\ \A t \in Threads : /\ SeenBy(req[p][t], r, disk[r])
                              /\ Corrects(req[p][t], handle[p][t], r, tmp[r])
  BY DEF Recovering
<1>2. ASSUME NEW t \in Threads
      PROVE  /\ SeenBy(req'[p][t], r, disk'[r])
             /\ Corrects(req'[p][t], handle'[p][t], r, tmp'[r])
  <2>1. CASE req'[p][t].pc \notin Holding \cup {"scan"}
    BY <2>1 DEF SeenBy, Corrects, Holding, Scanning, Fixing
  <2>2. CASE /\ req'[p][t] = req[p][t]
             /\ handle'[p][t] = handle[p][t] \/ owner'[req[p][t].run] # "lost"
    BY <1>1, <2>2 DEF Corrects
  <2> QED BY <2>1, <2>2
<1> QED BY <1>1, <1>2

\* A step that sets one entry of memory leaves all others.
LEMMA OneEntry ==
  ASSUME TypeOK, NEW p \in Procs, NEW r, NEW s, mem' = [mem EXCEPT ![p][r] = s],
         NEW q \in Procs, NEW x \in Runs, x # r
  PROVE  mem'[q][x] = mem[q][x]
<1>1. CASE q = p
  BY <1>1 DEF TypeOK
<1>2. CASE q # p
  BY <1>2 DEF TypeOK
<1> QED BY <1>1, <1>2

\* the write of a waiting run's file, as far as dead processes' runs go
LEMMA WriteRecovers ==
  ASSUME TypeOK, Ownership, FilesInStep, Recovering, NEW p \in Procs, NEW t \in Threads,
         OpenTmp(p, t) \/ WriteTmp(p, t) \/ Replace(p, t) \/ ReplaceFails(p, t),
         req[p][t].pc \notin Fixing
  PROVE  Recovering'
<1> DEFINE r == req[p][t].run
<1>1. PICK q : WriteStep(p, t, r, q) /\ req'[p][t] = q /\ q.pc \notin Fixing
  <2>1. \E q : WriteStep(p, t, r, q) /\ req'[p][t] = q
    BY OpenWrites, FillWrites, ReplaceWrites, FailWrites
  <2> QED BY <2>1 DEF WriteStep, Holding
<1>2. r \in Runs /\ owner[r] = p /\ p # "lost" /\ (Mingled => Mingled')
  BY <1>1, WriterKnows, ConstantsAssumption DEF WriteStep, Mingled, Live
<1>3. UNCHANGED mem
  BY DEF OpenTmp, WriteTmp, Replace, ReplaceFails
<1>4. q.pc \notin Holding \cup {"scan"}
  BY <1>1 DEF WriteStep, Scanning
<1>5. ASSUME NEW p2 \in Procs, NEW t2 \in Threads, req'[p2][t2].pc \in Holding \cup {"scan"}
      PROVE  /\ req'[p2][t2] = req[p2][t2]
             /\ handle'[p2][t2] = handle[p2][t2] \/ owner[req[p2][t2].run] # "lost"
  <2>1. req'[p2][t2] = req[p2][t2]
    BY <1>1, <1>4, <1>5, OneMoves DEF TypeOK, WriteStep
  <2> QED BY <1>1, <1>2, <2>1 DEF WriteStep
<1> HIDE DEF r
<1> QED BY <1>1, <1>2, <1>3, <1>5, AloofRecovers DEF WriteStep

\* the correction of a dead process's file: it is the only one under way
LEMMA FixRecovers ==
  ASSUME TypeOK, Ownership, FilesInStep, AtRest, Recovering, NEW p \in Procs, NEW t \in Threads,
         \/ (OpenTmp(p, t) \/ WriteTmp(p, t) \/ ReplaceFails(p, t)) /\ req[p][t].pc \in Fixing
         \/ Correct(p, t)
  PROVE  Recovering'
<1> SUFFICES ASSUME NEW r, r = req[p][t].run PROVE Recovering'
  OBVIOUS
<1>1. PICK q : WriteStep(p, t, r, q) /\ req'[p][t] = q
  BY OpenWrites, FillWrites, FailWrites, CorrectWrites
<1>2. /\ req[p][t].pc \in Fixing /\ r \in Runs /\ owner[r] = "lost" /\ lock[p] = t
      /\ req[p][t].got.state = "running" /\ Live(p) /\ UNCHANGED <<up, owner, scanned>>
  <2>1. req[p][t].pc \in Fixing
    BY DEF Correct, At, Fixing
  <2>2. req[p][t].pc \in Writing
    BY <2>1 DEF Writing, Opening, Filling, Renaming, Fixing
  <2>3. Live(p)
    BY DEF Correct, OpenTmp, WriteTmp, ReplaceFails, At
  <2>4. UNCHANGED <<up, owner, scanned>>
    BY <1>1 DEF WriteStep
  <2> QED BY <2>1, <2>2, <2>3, <2>4, WriterKnows
<1>3. SUFFICES ASSUME ~Mingled, NEW p2 \in Procs, NEW x \in Runs, owner[x] = "lost"
               PROVE  /\ mem'[p2][x] # "absent" \/ scanned[p2] => disk'[x].state # "running"
                      /\ \A t2 \in Threads :
                           /\ SeenBy(req'[p2][t2], x, disk'[x])
                           /\ Corrects(req'[p2][t2], handle'[p2][t2], x, tmp'[x])
  BY <1>2 DEF Recovering, Mingled, Live
<1>4. /\ mem[p2][x] # "absent" \/ scanned[p2] => disk[x].state # "running"
      /\ \A t2 \in Threads : /\ SeenBy(req[p2][t2], x, disk[x])
                              /\ Corrects(req[p2][t2], handle[p2][t2], x, tmp[x])
  BY <1>3 DEF Recovering
<1>5. SeenBy(req[p][t], x, disk[x]) /\ Corrects(req[p][t], handle[p][t], r, tmp[r])
  BY <1>2, <1>3 DEF Recovering
<1>6. ASSUME NEW t2 \in Threads, p2 # p \/ t2 # t
      PROVE  req'[p2][t2] = req[p2][t2] /\ req[p2][t2].pc \notin Fixing
  <2>1. req'[p2][t2] = req[p2][t2]
    BY <1>1, <1>6, OneMoves DEF TypeOK, WriteStep
  <2>2. CASE p2 = p
    BY <1>2, <1>6, <2>1, <2>2 DEF FilesInStep, Locking
  <2>3. CASE p2 # p
    <3>1. req[p2][t2] = Idle
      BY <1>2, <1>3, <2>3 DEF Mingled, AtRest
    <3> QED BY <2>1, <3>1 DEF Idle, Fixing
  <2> QED BY <2>1, <2>2, <2>3
\* as long as disk and memory are left alone, only t's own correction goes on
<1>7. ASSUME UNCHANGED <<mem, disk>>, Corrects(q, handle'[p][t], r, tmp'[r]),
             q.pc \notin {"scan"}, q.pc \in Holding => q.op = req[p][t].op /\ q.todo = req[p][t].todo
      PROVE  /\ mem'[p2][x] # "absent" \/ scanned[p2] => disk'[x].state # "running"
             /\ \A t2 \in Threads :
                  /\ SeenBy(req'[p2][t2], x, disk'[x])
                  /\ Corrects(req'[p2][t2], handle'[p2][t2], x, tmp'[x])
  <2> SUFFICES ASSUME NEW t2 \in Threads
               PROVE  /\ SeenBy(req'[p2][t2], x, disk[x])
                      /\ Corrects(req'[p2][t2], handle'[p2][t2], x, tmp'[x])
    BY <1>4, <1>7
  <2>1. CASE p2 # p \/ t2 # t
    <3>1. req'[p2][t2].pc \notin {"fix_write", "fix_replace"}
      BY <1>6, <2>1 DEF Fixing
    <3> QED BY <1>4, <1>6, <2>1, <3>1 DEF Corrects
  <2>2. CASE p2 = p /\ t2 = t
    <3>1. q.pc \in Holding => /\ q.pc \in Fixing /\ q.run = r /\ q.got = req[p][t].got
                              /\ q.op = req[p][t].op /\ q.todo = req[p][t].todo
      BY <1>1, <1>7 DEF WriteStep, Writing, Opening, Filling, Renaming, Holding, Fixing
    <3>2. q.pc \in Scanning \cup Fixing => q.pc \in Holding
      BY <1>7 DEF Scanning, Holding
    <3>3. req[p][t].pc \in Holding /\ Fixing \cap {"scan", "scan_classify"} = {}
      BY <1>2 DEF Holding, Fixing
    <3>4. SeenBy(q, x, disk[x])
      BY <1>2, <1>5, <3>1, <3>2, <3>3 DEF SeenBy, Scanning
    <3>5. Corrects(q, handle'[p][t], x, tmp'[x])
      <4>1. q.pc \in {"fix_write", "fix_replace"} => q.run = r
        BY <3>1 DEF Holding, Fixing
      <4> QED BY <1>7, <4>1 DEF Corrects
    <3> QED BY <1>1, <2>2, <3>4, <3>5
  <2> QED BY <2>1, <2>2
<1>8. CASE OpenTmp(p, t)
  <2>1. /\ req[p][t].pc = "fix_open" /\ handle'[p][t] = "tmp" /\ UNCHANGED <<mem, disk>>
        /\ q = [req[p][t] EXCEPT !.pc = "fix_write"] /\ req[p][t] \in Request
    <3>1. req[p][t].pc = "fix_open" /\ req[p][t] \in Request /\ UNCHANGED <<mem, disk>>
      BY <1>1, <1>2, <1>8, WriterKnows DEF WriteStep, OpenTmp, At, Opening, Fixing
    <3>2. Becomes(p, t, [req[p][t] EXCEPT !.pc = "fix_write"])
      BY <1>8, <3>1 DEF OpenTmp, Goto
    <3>3. [req[p][t] EXCEPT !.pc = "fix_write"] \in Request
      <4>1. "fix_write" \in Places /\ req[p][t].run \in Runs
        BY <1>2 DEF Places
      <4> QED BY <3>1, <4>1, MovePc
    <3>4. q = [req[p][t] EXCEPT !.pc = "fix_write"]
      BY <1>1, <3>2, <3>3, OneMoves DEF TypeOK
    <3> QED BY <1>8, <3>1, <3>4, OpenWrites
  <2>2. /\ q.pc = "fix_write" /\ q.op = req[p][t].op /\ q.todo = req[p][t].todo
    BY <2>1, MovedFields
  <2>3. Corrects(q, handle'[p][t], r, tmp'[r])
    BY <2>1, <2>2 DEF Corrects
  <2> QED BY <1>7, <2>1, <2>2, <2>3
<1>9. CASE WriteTmp(p, t)
  <2>1. /\ req[p][t].pc = "fix_write" /\ UNCHANGED mem /\ req[p][t] \in Request
        /\ q = [req[p][t] EXCEPT !.pc = "fix_replace"]
    <3>1. req[p][t].pc = "fix_write" /\ req[p][t] \in Request /\ UNCHANGED mem
      BY <1>1, <1>2, <1>9, WriterKnows DEF WriteStep, WriteTmp, At, Filling, Fixing
    <3>2. Becomes(p, t, [req[p][t] EXCEPT !.pc = "fix_replace"])
      BY <1>9, <3>1 DEF WriteTmp, Goto
    <3>3. [req[p][t] EXCEPT !.pc = "fix_replace"] \in Request
      <4>1. "fix_replace" \in Places /\ req[p][t].run \in Runs
        BY <1>2 DEF Places
      <4> QED BY <3>1, <4>1, MovePc
    <3> QED BY <1>1, <3>1, <3>2, <3>3, OneMoves DEF TypeOK
  <2>2. /\ q.pc = "fix_replace" /\ q.op = req[p][t].op /\ q.todo = req[p][t].todo
        /\ q.got = req[p][t].got
    BY <2>1, MovedFields
  <2>3. handle[p][t] = "tmp"
    BY <1>5, <2>1 DEF Corrects
  <2>4. /\ tmp'[r] = Onto(tmp[r], Text(p, req[p][t])) /\ disk'[r] = disk[r]
        /\ \A y \in Runs \ {r} : disk'[y] = disk[y]
    BY <1>9, <2>3, FillWrites
  <2>5. Onto(tmp[r], Text(p, req[p][t])) = [state |-> "error", pid |-> req[p][t].got.pid]
    BY <2>1 DEF Onto, Text
  <2>6. UNCHANGED disk
    BY <1>9, <2>3 DEF WriteTmp
  <2>7. Corrects(q, handle'[p][t], r, tmp'[r])
    BY <2>2, <2>4, <2>5 DEF Corrects
  <2> QED BY <1>7, <2>1, <2>2, <2>6, <2>7
<1>10. CASE ReplaceFails(p, t)
  <2>1. req[p][t].pc = "fix_replace" /\ tmp[r] = NoFile
    BY <1>2, <1>10 DEF ReplaceFails, At, Renaming, Fixing
  <2> QED BY <1>5, <2>1 DEF Corrects, NoFile
<1>11. CASE Correct(p, t)
  <2>1. /\ req[p][t].pc = "fix_replace" /\ Rename(r) /\ mem'[p][r] = "error"
        /\ q.pc \notin Writing \cup Holding
        /\ q.pc \in Scanning => req[p][t].op = "scan" /\ q.todo = req[p][t].todo
    BY <1>1, <1>11, CorrectWrites
  <2>2. /\ disk'[r] = [state |-> "error", pid |-> req[p][t].got.pid]
        /\ \A y \in Runs \ {r} : disk'[y] = disk[y] /\ tmp'[y] = tmp[y]
    BY <1>2, <1>5, <2>1, OneRenamed DEF Corrects
  <2>3. mem'[p2][x] # "absent" \/ scanned[p2] => disk'[x].state # "running"
    BY <1>1, <1>4, <2>2 DEF WriteStep
  <2> SUFFICES ASSUME NEW t2 \in Threads
               PROVE  /\ SeenBy(req'[p2][t2], x, disk'[x])
                      /\ Corrects(req'[p2][t2], handle'[p2][t2], x, tmp'[x])
    BY <2>3
  <2>4. Kept(req[p][t].got, disk[r]) /\ req[p][t].pc \in Holding
    BY <1>2, <1>3, <2>1 DEF Recovering, SeenBy, Holding
  <2>5. CASE p2 # p \/ t2 # t
    <3>1. /\ req'[p2][t2] = req[p2][t2]
          /\ req'[p2][t2].pc \notin {"fix_write", "fix_replace"}
      BY <1>6, <2>5 DEF Fixing
    <3>2. SeenBy(req[p2][t2], x, disk'[x])
      <4>1. CASE x # r
        BY <1>4, <2>2, <4>1
      <4>2. CASE x = r
        <5>1. SeenBy(req[p2][t2], r, disk[r])
          BY <1>4, <4>2
        <5>2. \A got : Kept(got, disk[r]) => Kept(got, disk'[r])
          BY <1>2, <2>2, <2>4 DEF Kept
        <5> QED BY <2>2, <4>2, <5>1, <5>2 DEF SeenBy
      <4> QED BY <4>1, <4>2
    <3> QED BY <3>1, <3>2 DEF Corrects
  <2>6. CASE p2 = p /\ t2 = t
    <3>1. q.pc \notin {"fix_write", "fix_replace"} /\ q.pc \notin Fixing
      BY <2>1 DEF Holding, Fixing
    <3>2. SeenBy(q, x, disk'[x])
      <4>1. ASSUME q.pc \in Scanning, x \notin q.todo PROVE disk'[x].state # "running"
        BY <1>2, <1>5, <2>1, <2>2, <4>1 DEF SeenBy, Fixing
      <4> QED BY <2>1, <3>1, <4>1 DEF SeenBy
    <3> QED BY <1>1, <2>6, <3>1, <3>2 DEF Corrects
  <2> QED BY <2>5, <2>6
<1> QED BY <1>8, <1>9, <1>10, <1>11

LEMMA RecoverStep ==
  TypeOK /\ Ownership /\ FilesInStep /\ AtRest /\ Recovering /\ [Next]_vars => Recovering'
<1> SUFFICES ASSUME TypeOK, Ownership, FilesInStep, AtRest, Recovering, [Next]_vars
             PROVE  Recovering'
  OBVIOUS
<1>1. CASE UNCHANGED vars
  BY <1>1, AloofRecovers DEF vars, Mingled, Live
<1>2. ASSUME NEW p \in Procs, Boot(p) PROVE Recovering'
  <2>1. /\ up[p] = "new" /\ up'[p] = "up" /\ \A q \in Procs : q # p => up'[q] = up[q]
        /\ UNCHANGED <<mem, owner, disk, tmp, handle, scanned, req>>
    BY <1>2 DEF Boot, TypeOK
  <2>2. Mingled => Mingled'
    BY <2>1 DEF Mingled, Live
  <2> QED BY <2>1, <2>2, AloofRecovers
<1>3. ASSUME NEW p \in Procs, WorkerNext(p) PROVE Recovering'
  <2> DEFINE r == worker[p].run
  <2>1. UNCHANGED <<up, owner, scanned, req, tmp, handle>> /\ (Mingled => Mingled')
    BY <1>3 DEF WorkerNext, Take, Publish, WriteStatus, Progress, StopSeen, WorkEnds, Settle,
                WorkerUnchanged, Mingled, Live
  <2>2. CASE UNCHANGED <<mem, disk>>
    BY <2>1, <2>2, AloofRecovers
  <2>3. CASE worker[p].pc # "idle" /\ ~UNCHANGED <<mem, disk>>
    <3>1. r \in Runs /\ owner[r] # "lost"
      BY <2>3, ConstantsAssumption, WorkerFields DEF TypeOK, Ownership, WorkerInStep, StartedIsInWork
    <3>2. \/ \E s : mem' = [mem EXCEPT ![p][r] = s]
          \/ UNCHANGED mem
      BY <1>3 DEF WorkerNext, Take, Publish, WriteStatus, Progress, StopSeen, WorkEnds, Settle
    <3>3. \/ \E f : disk' = [disk EXCEPT ![r] = f]
          \/ UNCHANGED disk
      BY <1>3 DEF WorkerNext, Take, Publish, WriteStatus, Progress, StopSeen, WorkEnds, Settle
    <3> HIDE DEF r
    <3>4. \A q \in Procs, x \in Runs : x # r => mem'[q][x] = mem[q][x]
      BY <3>2, OneEntry
    <3>5. \A x \in Runs : x # r => disk'[x] = disk[x]
      BY <3>3 DEF TypeOK
    <3> QED BY <2>1, <3>1, <3>4, <3>5, AloofRecovers
  <2> QED
    BY <1>3, <2>2, <2>3 DEF WorkerNext, Take, Publish, WriteStatus, Progress, StopSeen, WorkEnds,
                            Settle
<1>4. ASSUME NEW p \in Procs, NEW t \in Threads, Arrive(p, t) \/ RequestNext(p, t)
      PROVE  Recovering'
  <2>1. CASE \E q : Looks(p, t, q)
    BY <2>1, LookRecovers
  <2>2. ASSUME NEW r \in Runs, Submit(p, t, r) PROVE Recovering'
    <3> DEFINE q == [Idle EXCEPT !.pc = "submit_open", !.run = r]
    <3>1. /\ owner' = [owner EXCEPT ![r] = p] /\ mem' = [mem EXCEPT ![p][r] = "queued"]
          /\ Becomes(p, t, q) /\ UNCHANGED <<up, scanned, disk, tmp, handle>>
      BY <2>2 DEF Submit
    <3>2. q \in Request /\ q.pc = "submit_open"
      BY TakeRun DEF Places, Idle
    <3> HIDE DEF q
    <3>3. \A p2 \in Procs, t2 \in Threads : req'[p2][t2] = req[p2][t2] \/ req'[p2][t2] = q
      BY <3>1, <3>2, OneMoves DEF TypeOK
    <3>4. /\ owner'[r] = p /\ p # "lost"
          /\ \A x \in Runs : x # r => owner'[x] = owner[x]
          /\ \A p2 \in Procs, x \in Runs : x # r => mem'[p2][x] = mem[p2][x]
      BY <3>1, ConstantsAssumption DEF TypeOK
    <3>5. Mingled => Mingled'
      BY <3>1 DEF Mingled, Live
    <3> QED BY <3>1, <3>2, <3>3, <3>4, <3>5, AloofRecovers DEF Holding, Fixing
  <2>3. CASE CancelsQueued(p, t)
    <3> DEFINE r == req[p][t].run
               q == [req[p][t] EXCEPT !.pc = "cancel_open"]
    <3>1. /\ req[p][t].pc = "cancel" /\ event[p][r] # "absent" /\ r \in Runs
          /\ req[p][t] \in Request
          /\ UNCHANGED <<up, owner, scanned, disk, tmp, handle>>
      BY <2>3, InHand DEF CancelsQueued, Cancel, At, NoRun
    <3>2. owner[r] = p /\ p # "lost" /\ (Mingled => Mingled')
      BY <3>1, ConstantsAssumption DEF FilesInStep, EventsOwned, Mingled, Live
    <3>3. mem' = [mem EXCEPT ![p][r] = "cancelled"]
      <4>1. mem[p][r] \notin Terminal \cup {"absent"} /\ r \notin started[p]
        BY <2>3, <3>1, <3>2 DEF CancelsQueued, Ownership, OwnerRemembers
      <4> QED BY <2>3, <3>1, <4>1 DEF CancelsQueued, Cancel, Begun
    <3>4. Becomes(p, t, q)
      <4>1. mem[p][r] \notin Terminal \cup {"absent"} /\ r \notin started[p]
        BY <2>3, <3>1, <3>2 DEF CancelsQueued, Ownership, OwnerRemembers
      <4> QED BY <2>3, <3>1, <4>1 DEF CancelsQueued, Cancel, Goto, Begun
    <3>5. q \in Request /\ q.pc = "cancel_open"
      <4>1. "cancel_open" \in Places
        BY DEF Places
      <4>2. q \in Request
        BY <3>1, <4>1, MovePc
      <4> QED BY <3>1, <4>2, MovedFields
    <3> HIDE DEF q, r
    <3>6. \A p2 \in Procs, t2 \in Threads : req'[p2][t2] = req[p2][t2] \/ req'[p2][t2] = q
      BY <3>4, <3>5, OneMoves DEF TypeOK
    <3>7. \A p2 \in Procs, x \in Runs : x # r => mem'[p2][x] = mem[p2][x]
      BY <3>3, OneEntry
    <3>8. q.pc \notin Holding \cup {"scan"}
      BY <3>5 DEF Holding, Fixing
    <3> QED BY <3>1, <3>2, <3>6, <3>7, <3>8, AloofRecovers
  <2>4. CASE OpenTmp(p, t) \/ WriteTmp(p, t) \/ Replace(p, t) \/ ReplaceFails(p, t)
               \/ Correct(p, t)
    <3>1. CASE req[p][t].pc \notin Fixing /\ ~Correct(p, t)
      BY <2>4, <3>1, WriteRecovers
    <3>2. CASE req[p][t].pc \in Fixing \/ Correct(p, t)
      <4>1. Replace(p, t) => req[p][t].pc \notin Fixing
        BY ReplaceWrites
      <4>2. Replace(p, t) => ~Correct(p, t)
        BY DEF Replace, Correct, At
      <4> QED BY <2>4, <3>2, <4>1, <4>2, FixRecovers
    <3> QED BY <3>1, <3>2
  <2> QED BY <1>4, <2>1, <2>2, <2>3, <2>4, RequestKinds
<1>5. ASSUME NEW p \in Procs, Crash(p) PROVE Recovering'
  <2> SUFFICES ASSUME ~Mingled', NEW q \in Procs, NEW r \in Runs, owner'[r] = "lost"
               PROVE  /\ mem'[q][r] # "absent" \/ scanned'[q] => disk'[r].state # "running"
                      /\ \A t \in Threads :
                           /\ SeenBy(req'[q][t], r, disk'[r])
                           /\ Corrects(req'[q][t], handle'[q][t], r, tmp'[r])
    BY DEF Recovering
  <2>1. up'[p] = "dead" /\ \A x \in Procs \ {p} : ~Live(x) /\ up'[x] = up[x]
    BY <1>5 DEF Crash, Mingled, TypeOK
  <2>2. ~(Live(q)')
    BY <2>1 DEF Live
  <2>3. ~scanned'[q] /\ mem'[q][r] = "absent" /\ \A t \in Threads : req'[q][t] = Idle
    BY <2>2, RestStep DEF AtRest
  <2> QED BY <2>3 DEF SeenBy, Corrects, Idle, Holding, Scanning, Fixing
<1> QED BY <1>1, <1>2, <1>3, <1>4, <1>5 DEF Next

\* The whole inductive invariant of the registry.
RegistryInv == TypeOK /\ Ownership /\ FilesInStep /\ AtRest /\ Recovering

LEMMA RegistryInit == Init => RegistryInv
<1> SUFFICES ASSUME Init PROVE RegistryInv
  OBVIOUS
<1>1. /\ \A r \in Runs : owner[r] \notin Procs /\ disk[r].pid \notin Procs /\ tmp[r] = NoFile
      /\ NoFile.state \notin States
  BY ConstantsAssumption DEF Init, NoFile, States, Terminal
<1>2. FileFits /\ TmpFits /\ FirstWriteComes /\ WaitingFile /\ EmptyIsFilled /\ OwnersLive
  BY <1>1
  DEF FileFits, TmpFits, PidFits, FirstWriteComes, WaitingFile, EmptyIsFilled, OwnersLive
<1>3. CopiesFit /\ CancelsWaiting /\ EventsOwned /\ StartedFile /\ Locking
  BY DEF Init, CopiesFit, CopyFits, CancelsWaiting, EventsOwned, StartedFile, Locking, Idle,
         Holding, Cancelling, Scanning, Fixing
<1>4. AtRest
  BY DEF Init, AtRest
<1>5. Recovering
  BY DEF Init, Recovering, SeenBy, Corrects, Idle, Holding, Scanning, Fixing
<1> QED BY <1>2, <1>3, <1>4, <1>5, TypeInit, OwnershipInit DEF RegistryInv, FilesInStep

\* What memory, files, copies of files and processes say of a run always fit.
THEOREM RegistryInvariant == Spec => []RegistryInv
<1>1. RegistryInv /\ [Next]_vars => RegistryInv'
  BY TypeStep, OwnershipStep, FilesStep, RestStep, RecoverStep DEF RegistryInv
<1> QED BY <1>1, RegistryInit, PTL DEF Spec

\* When nobody is writing it, the file of a live process's run says what its
\* registry says, but for a run cancelled while submit was writing its file: that
\* may be left saying "queued", or with two texts in one.
THEOREM FilesMirrorMemory == Spec => []FileMirrorsMemory
<1>1. RegistryInv => FileMirrorsMemory
  <2> SUFFICES ASSUME RegistryInv, NEW p \in Procs, NEW r \in Runs, owner[r] = p, ~Mirroring(p, r)
               PROVE  \/ disk[r] = [state |-> mem[p][r], pid |-> p]
                      \/ /\ mem[p][r] = "cancelled"
                         /\ disk[r] = [state |-> "queued", pid |-> p] \/ disk[r].state = "mixed"
    BY DEF FileMirrorsMemory
  <2>1. TypeOK /\ Ownership /\ FilesInStep
    BY DEF RegistryInv
  <2>2. \A t \in Threads : req[p][t].pc \in Writing \cup Creating => req[p][t].run # r
    BY DEF Mirroring, Writing, Creating, Opening, Filling, Renaming
  <2>3. disk[r].state \notin {"absent", "empty"}
    <3>1. \A t \in Threads : ~WritesTo(p, t, r, "disk")
      BY <2>2 DEF WritesTo, Writing
    <3> QED BY <2>1, <2>2, <3>1 DEF FilesInStep, FirstWriteComes, EmptyIsFilled
  <2>4. disk[r].state # "mixed" => disk[r] = [state |-> disk[r].state, pid |-> p]
    <3> SUFFICES ASSUME disk[r].state # "mixed"
                 PROVE  disk[r] = [state |-> disk[r].state, pid |-> p]
      OBVIOUS
    <3>1. disk[r] \in File
      BY <2>1 DEF TypeOK
    <3>2. disk[r].state \in States
      BY <2>3, <3>1, FileFields DEF Garbled
    <3>3. disk[r].pid = p
      BY <2>1, <3>2 DEF FilesInStep, FileFits, PidFits
    <3> QED BY <3>1, <3>3 DEF File
  <2>5. CASE r \in started[p]
    <3>1. disk[r].state = mem[p][r]
      BY <2>1, <2>5 DEF FilesInStep, StartedFile, Mirroring
    <3>2. mem[p][r] # "mixed"
      BY <2>1 DEF TypeOK, States, Terminal
    <3> QED BY <2>4, <3>1, <3>2
  <2>6. CASE r \notin started[p]
    <3>1. /\ mem[p][r] \in {"queued", "cancelled"}
          /\ disk[r].state \in {"queued", "mixed", mem[p][r]}
          /\ disk[r].state = "mixed" => mem[p][r] = "cancelled"
      BY <2>1, <2>3, <2>6 DEF Ownership, OwnerRemembers, FilesInStep, WaitingFile, Garbled
    <3> QED BY <2>4, <3>1
  <2> QED BY <2>5, <2>6
<1> QED BY <1>1, RegistryInvariant, PTL

\* After a scan no file of a dead process still says "running", as long as
\* processes follow each other.
THEOREM ScansRecover == Spec => []ScanRecovers
<1>1. RegistryInv => ScanRecovers
  BY DEF RegistryInv, Recovering, ScanRecovers
<1> QED BY <1>1, RegistryInvariant, PTL

\* what a step may do to a file: its owner's thread or worker writes it, or the
\* stale file of a dead process's run is corrected
LEMMA FileChanges ==
  ASSUME RegistryInv, [Next]_vars, NEW r \in Runs, disk'[r] # disk[r]
  PROVE  \/ /\ owner[r] \in Procs /\ r \notin started[owner[r]]
            /\ disk'[r].state # "error"
         \/ /\ owner[r] \in Procs /\ worker[owner[r]].run = r /\ worker[owner[r]].pc = "write"
            /\ r \in started[owner[r]] /\ disk'[r].state = worker[owner[r]].out
         \/ /\ owner[r] = "lost"
            /\ \E p \in Procs, t \in Threads :
                 /\ req[p][t].pc \in Fixing /\ req[p][t].run = r /\ UNCHANGED up
                 /\ (Correct(p, t) /\ disk'[r] = tmp[r]) \/ (WriteTmp(p, t) /\ handle[p][t] = "disk")
<1> USE DEF RegistryInv
<1>1. ~UNCHANGED vars
  BY DEF vars
<1>2. ASSUME NEW p \in Procs, Boot(p) \/ Crash(p) PROVE FALSE
  BY <1>2 DEF Boot, Crash
<1>3. ASSUME NEW p \in Procs, WorkerNext(p)
      PROVE  /\ owner[r] = p /\ worker[p].run = r /\ worker[p].pc = "write"
             /\ r \in started[p] /\ disk'[r].state = worker[p].out
  <2>1. WriteStatus(p)
    BY <1>3 DEF WorkerNext, Take, Publish, Progress, StopSeen, WorkEnds, Settle
  <2>2. /\ worker[p].pc = "write"
        /\ disk' = [disk EXCEPT ![worker[p].run] = [state |-> worker[p].out, pid |-> p]]
    BY <2>1 DEF WriteStatus
  <2>3. worker[p].run = r
    BY <2>2 DEF TypeOK
  <2>4. r \in started[p] /\ owner[r] = p
    BY <2>2, <2>3 DEF Ownership, WorkerInStep, StartedIsInWork
  <2> QED BY <2>2, <2>3, <2>4 DEF TypeOK
<1>4. ASSUME NEW p \in Procs, NEW t \in Threads, Arrive(p, t) \/ RequestNext(p, t)
      PROVE  \/ /\ owner[r] = p /\ r \notin started[p] /\ disk'[r].state # "error"
             \/ /\ owner[r] = "lost"
                /\ req[p][t].pc \in Fixing /\ req[p][t].run = r /\ UNCHANGED up
                /\ (Correct(p, t) /\ disk'[r] = tmp[r]) \/ (WriteTmp(p, t) /\ handle[p][t] = "disk")
  <2>1. \/ WriteTmp(p, t) /\ handle[p][t] = "disk"
        \/ Replace(p, t) \/ Correct(p, t)
    <3>1. ~\E q : Looks(p, t, q)
      BY DEF Looks
    <3>2. /\ ~\E x \in Runs : Submit(p, t, x)
          /\ ~CancelsQueued(p, t) /\ ~OpenTmp(p, t) /\ ~ReplaceFails(p, t)
      BY DEF Submit, CancelsQueued, Cancel, OpenTmp, ReplaceFails
    <3>3. WriteTmp(p, t) => handle[p][t] = "disk"
      BY DEF WriteTmp
    <3> QED BY <1>4, <3>1, <3>2, <3>3, RequestKinds
  <2>2. \E q : WriteStep(p, t, req[p][t].run, q)
    BY <2>1, FillWrites, ReplaceWrites, CorrectWrites
  <2>3. req[p][t].run = r /\ req[p][t].pc \in Writing /\ UNCHANGED up
    BY <2>2 DEF WriteStep
  <2>4. CASE req[p][t].pc \in Fixing
    <3>1. owner[r] = "lost"
      BY <2>3, <2>4, WriterKnows
    <3>2. ~Replace(p, t)
      BY <2>4, ReplaceWrites
    <3>3. Correct(p, t) => disk'[r] = tmp[r]
      BY <2>3, CorrectWrites, OneRenamed
    <3> QED BY <2>1, <2>3, <2>4, <3>1, <3>2, <3>3
  <2>5. CASE req[p][t].pc \notin Fixing
    <3>1. owner[r] = p /\ r \notin started[p]
      BY <2>3, <2>5, WriterKnows
    <3>2. FilesInStep'
      BY FilesStep
    <3>3. UNCHANGED <<owner, started, mem>>
      <4>1. ~Correct(p, t)
        BY <2>5, CorrectWrites DEF Fixing
      <4> QED BY <2>1, <4>1 DEF WriteTmp, Replace
    <3>4. /\ disk'[r].state \in {"absent", "queued", mem[p][r]} \cup Garbled
          /\ mem[p][r] \in {"queued", "cancelled"}
      BY <3>1, <3>2, <3>3 DEF FilesInStep, WaitingFile, Ownership, OwnerRemembers
    <3> QED BY <3>1, <3>4 DEF Garbled
  <2> QED BY <2>4, <2>5
<1>5. PICK p \in Procs : \/ Boot(p) \/ Crash(p) \/ WorkerNext(p)
                         \/ \E t \in Threads : Arrive(p, t) \/ RequestNext(p, t)
  BY <1>1 DEF Next
<1> QED BY <1>2, <1>3, <1>4, <1>5

\* A live process's run is turned into an error by its own worker alone.
THEOREM LiveRunsKeepTheirFiles == Spec => LiveRunNeverCorrected
<1> DEFINE A == \A r \in Runs :
                  disk'[r].state = "error" /\ disk[r].state # "error" /\ owner[r] \in Procs =>
                    worker[owner[r]].run = r /\ worker[owner[r]].out = "error"
<1>1. RegistryInv /\ [Next]_vars => A
  <2> SUFFICES ASSUME RegistryInv, [Next]_vars, NEW r \in Runs, disk'[r].state = "error",
                      disk[r].state # "error", owner[r] \in Procs
               PROVE  worker[owner[r]].run = r /\ worker[owner[r]].out = "error"
    OBVIOUS
  <2>1. disk'[r] # disk[r]
    OBVIOUS
  <2> QED BY <2>1, FileChanges, ConstantsAssumption
<1> QED BY <1>1, RegistryInvariant, PTL DEF Spec, LiveRunNeverCorrected

\* No restart rewrites a "done", or an error that the run itself reported.
THEOREM OutcomesAreDurable == Spec => OutcomeIsDurable
<1> DEFINE A == \A r \in Runs : ~Mingled' /\ disk[r].state \in {"done", "error"} => disk'[r] = disk[r]
<1>1. RegistryInv /\ [Next]_vars => A
  <2> SUFFICES ASSUME RegistryInv, [Next]_vars, NEW r \in Runs, ~Mingled',
                      disk[r].state \in {"done", "error"}, disk'[r] # disk[r]
               PROVE  FALSE
    OBVIOUS
  <2>1. TypeOK /\ Ownership /\ FilesInStep /\ Recovering
    BY DEF RegistryInv
  <2>2. ASSUME owner[r] \in Procs, r \notin started[owner[r]] PROVE FALSE
    <3>1. disk[r].state \in {"absent", "queued", mem[owner[r]][r]} \cup Garbled
      BY <2>1, <2>2 DEF FilesInStep, WaitingFile
    <3> QED BY <2>1, <2>2, <3>1 DEF Ownership, OwnerRemembers, Garbled
  <2>3. ASSUME owner[r] \in Procs, worker[owner[r]].run = r, worker[owner[r]].pc = "write",
               r \in started[owner[r]]
        PROVE  FALSE
    BY <2>1, <2>3 DEF FilesInStep, StartedFile
  <2>4. ASSUME owner[r] = "lost", NEW p \in Procs, NEW t \in Threads,
               req[p][t].pc \in Fixing, req[p][t].run = r, UNCHANGED up,
               (Correct(p, t) /\ disk'[r] = tmp[r]) \/ (WriteTmp(p, t) /\ handle[p][t] = "disk")
        PROVE  FALSE
    <3>1. ~Mingled
      BY <2>4 DEF Mingled, Live
    <3>2. /\ SeenBy(req[p][t], r, disk[r])
          /\ Corrects(req[p][t], handle[p][t], r, tmp[r])
      BY <2>1, <2>4, <3>1 DEF Recovering
    <3>3. Kept(req[p][t].got, disk[r]) /\ req[p][t].got.state = "running"
      BY <2>1, <2>4, <3>2, HeldFile DEF SeenBy, Holding
    <3>4. CASE Correct(p, t)
      <4>1. disk'[r] = [state |-> "error", pid |-> req[p][t].got.pid]
        BY <2>4, <3>2, <3>4 DEF Corrects, Correct, WriteTmp, At, Filling
      <4> QED BY <3>3, <4>1 DEF Kept
    <3>5. CASE WriteTmp(p, t)
      BY <2>4, <3>2, <3>5 DEF Corrects, Correct, WriteTmp, At, Filling, Fixing
    <3> QED BY <2>4, <3>4, <3>5
  <2> QED BY <2>2, <2>3, <2>4, FileChanges
<1> QED BY <1>1, RegistryInvariant, PTL DEF Spec, OutcomeIsDurable
=============================================================================
