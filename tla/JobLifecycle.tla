---------------------------- MODULE JobLifecycle ----------------------------
(***************************************************************************)
(* What the job registry promises of one run, whatever the threads, the    *)
(* processes and the disk do: a run is queued once, may be cancelled while *)
(* it is queued, is executed at most once, ends in exactly one of "done",  *)
(* "error" and "cancelled", and leaves that state only when the process    *)
(* that owns it dies ("lost": nothing in memory speaks for it any more).   *)
(***************************************************************************)
CONSTANT Runs                  \* run ids (engine/src/funnel/api/app.py, create_run)

VARIABLE life                  \* life[r]: where run r stands

Outcomes == {"done", "error", "cancelled"}

Lives == {"none", "queued", "running", "lost"} \cup Outcomes

LTypeOK == life \in [Runs -> Lives]

LInit == life \in [Runs -> {"none", "lost"}]

\* POST /api/runs or /api/overlays
Queue(r) == /\ life[r] = "none"
            /\ life' = [life EXCEPT ![r] = "queued"]

\* the single worker takes the run
Start(r) == /\ life[r] = "queued"
            /\ life' = [life EXCEPT ![r] = "running"]

\* cancelled before the worker reached it: it never executes
CancelQueued(r) == /\ life[r] = "queued"
                   /\ life' = [life EXCEPT ![r] = "cancelled"]

\* the work returned, raised, or noticed a cancellation
Finish(r) == /\ life[r] = "running"
             /\ \E o \in Outcomes : life' = [life EXCEPT ![r] = o]

\* a process dies and takes with it the memory of every run it owned
Lose == \E S \in SUBSET {r \in Runs : life[r] # "none"} :
           life' = [r \in Runs |-> IF r \in S THEN "lost" ELSE life[r]]

LNext == \/ \E r \in Runs : Queue(r) \/ Start(r) \/ CancelQueued(r) \/ Finish(r)
         \/ Lose

LSpec == LInit /\ [][LNext]_life
=============================================================================
