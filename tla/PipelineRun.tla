---------------------------- MODULE PipelineRun ----------------------------
(***************************************************************************)
(* One run from its submission to its report: the stages of run_pipeline   *)
(* and run_overlay_pipeline (engine/src/funnel/pipeline.py), the artifacts *)
(* they leave in runs/<id>/, and the requests that cancel the run and read *)
(* its report meanwhile (api/app.py).                                      *)
(*                                                                         *)
(* The registry is the one JobRegistry models, seen from one run: each of  *)
(* its critical sections is one step, and the status file written after it *)
(* is another.  What submit and a queued cancellation do between the two   *)
(* is JobRegistry's subject and is one step here.                          *)
(***************************************************************************)
EXTENDS Naturals, Sequences

VARIABLES
  kind,      \* "strategy" or "overlay"
  state,     \* the registry's state of the run, "absent" if it has none
  file,      \* status.json's state, "absent" before the submission
  event,     \* the cancel event
  pc,        \* the worker: its place in _run and in the pipeline
  stage,     \* stages announced so far; the final "done" counts as one
  outcome,   \* how _run ended
  dir,       \* the run's artifacts: "absent", "partial" or "whole"
  lost,      \* history: the process that accepted the run has died
  mark,      \* history: the stage during which a cancellation was first accepted
  asked,     \* the report request: the state registry.get returned to it
  served     \* the last report a client received

vars == <<kind, state, file, event, pc, stage, outcome, dir, lost, mark, asked, served>>
-----------------------------------------------------------------------------
\* What each stage writes when its work is done; "none" if it writes nothing.
Strategy ==
  << "none",                      \* data
     "none",                      \* thresholds
     "sweep_results.csv", "funnel_report.csv", "sensitivity.csv", "bootstrap.csv",
     "cross_sectional.csv", "regime_performance.csv", "layer_attribution.csv",
     "correlation_matrix.csv",
     "none",                      \* screen
     "report.json" >>
Overlay == <<"none", "overlay_results.csv", "report.json">>

Sweeps    == {"sweep_results.csv", "overlay_results.csv"}    \* these stages poll should_stop
Artifacts == ({Strategy[i] : i \in 1..12} \cup {Overlay[i] : i \in 1..3}) \ {"none"}
Plan      == IF kind = "strategy" THEN Strategy ELSE Overlay
Terminal  == {"done", "error", "cancelled"}
States    == {"absent", "queued", "running"} \cup Terminal
Never     == 100                            \* beyond any stage

Init ==
  /\ kind \in {"strategy", "overlay"}
  /\ state = "absent" /\ file = "absent" /\ event = "absent"
  /\ pc = "idle" /\ stage = 0 /\ outcome = "none"
  /\ dir = [a \in Artifacts |-> "absent"]
  /\ lost = FALSE /\ mark = Never
  /\ asked = "none" /\ served = "none"
-----------------------------------------------------------------------------
RequestsUnchanged == UNCHANGED <<kind, lost, asked, served>>

\* POST /api/runs or /api/overlays
Submit ==
  /\ file = "absent"
  /\ state' = "queued" /\ file' = "queued" /\ event' = "clear"
  /\ UNCHANGED <<pc, stage, outcome, dir, mark>>
  /\ RequestsUnchanged

\* the worker takes a run that was not cancelled in the queue
Start ==
  /\ pc = "idle" /\ state = "queued" /\ event = "clear"
  /\ pc' = "publish"
  /\ UNCHANGED <<state, file, event, stage, outcome, dir, mark>>
  /\ RequestsUnchanged

\* _update(state="running") on entry and from progress
Publish ==
  /\ pc = "publish"
  /\ state' = "running" /\ pc' = "mirror"
  /\ UNCHANGED <<file, event, stage, outcome, dir, mark>>
  /\ RequestsUnchanged

MirrorRunning ==
  /\ pc = "mirror"
  /\ file' = "running"
  /\ IF stage > Len(Plan) THEN pc' = "end" /\ outcome' = "done"
     ELSE pc' = (IF stage = 0 THEN "next" ELSE "work") /\ UNCHANGED outcome
  /\ UNCHANGED <<state, event, stage, dir, mark>>
  /\ RequestsUnchanged

RequestedUntilReport == event = "set" /\ stage < Len(Plan)          \* fault
Requested == event = "set"                  \* cancel_event.is_set()

Ends(o) == pc' = "end" /\ outcome' = o

\* progress: raise if cancelled, else announce the next stage
Progress ==
  /\ pc = "next"
  /\ IF Requested
     THEN Ends("cancelled") /\ UNCHANGED stage
     ELSE stage' = stage + 1 /\ pc' = "publish" /\ UNCHANGED outcome
  /\ UNCHANGED <<state, file, event, dir, mark>>
  /\ RequestsUnchanged

\* the sweep notices the cancellation between two pairs
SweepStops ==
  /\ pc = "work" /\ Plan[stage] \in Sweeps /\ event = "set"
  /\ Ends("cancelled")
  /\ UNCHANGED <<state, file, event, stage, dir, mark>>
  /\ RequestsUnchanged

\* the stage's work returns; the artifact's file is created and then filled
WorkReturns ==
  /\ pc = "work"
  /\ IF Plan[stage] = "none"
     THEN pc' = "next" /\ UNCHANGED dir
     ELSE pc' = "write" /\ dir' = [dir EXCEPT ![Plan[stage]] = "partial"]
  /\ UNCHANGED <<state, file, event, stage, outcome, mark>>
  /\ RequestsUnchanged

Written ==
  /\ pc = "write"
  /\ pc' = "next"
  /\ dir' = [dir EXCEPT ![Plan[stage]] = "whole"]
  /\ UNCHANGED <<state, file, event, stage, outcome, mark>>
  /\ RequestsUnchanged

Swallow == pc' = "next" /\ UNCHANGED outcome     \* fault: the error is ignored
Fail == Ends("error")

\* mkdir, a stage's work or the writing of its artifact raises
Raises ==
  /\ pc \in {"work", "write"} \/ (pc = "next" /\ stage = 0)
  /\ Fail
  /\ UNCHANGED <<state, file, event, stage, dir, mark>>
  /\ RequestsUnchanged

Unreported == IF outcome = "cancelled" THEN state ELSE outcome     \* fault
Reported == outcome

\* the last _update
Settle ==
  /\ pc = "end"
  /\ state' = Reported /\ pc' = "mirror_end"
  /\ UNCHANGED <<file, event, stage, outcome, dir, mark>>
  /\ RequestsUnchanged

MirrorEnd ==
  /\ pc = "mirror_end"
  /\ file' = state /\ pc' = "over"
  /\ UNCHANGED <<state, event, stage, outcome, dir, mark>>
  /\ RequestsUnchanged

Worker == Start \/ Publish \/ MirrorRunning \/ Progress \/ SweepStops \/ WorkReturns
            \/ Written \/ Raises \/ Settle \/ MirrorEnd
-----------------------------------------------------------------------------
NotYetPublished == state = "queued"                 \* fault: _started unused
InQueue == pc = "idle" /\ state = "queued"

\* POST /api/runs/{id}/cancel: 409 once the run is over; KeyError, and no
\* change, for a run that the registry only knows from its file
Cancel ==
  /\ state \in {"queued", "running"} /\ event # "absent"
  /\ event' = "set"
  /\ mark' = IF event = "set" THEN mark ELSE stage
  /\ IF InQueue
     THEN state' = "cancelled" /\ file' = "cancelled"
     ELSE UNCHANGED <<state, file>>
  /\ UNCHANGED <<pc, stage, outcome, dir>>
  /\ RequestsUnchanged

\* registry.get after a restart: the file is all there is
Load ==
  /\ state = "absent" /\ file # "absent"
  /\ LET found == IF file = "running" THEN "error" ELSE file
     IN state' = found /\ file' = found
  /\ UNCHANGED <<event, pc, stage, outcome, dir, mark>>
  /\ RequestsUnchanged

\* GET /api/runs/{id}/report: registry.get ...
AskReport ==
  /\ asked = "none" /\ state # "absent"
  /\ asked' = state
  /\ UNCHANGED <<kind, state, file, event, pc, stage, outcome, dir, lost, mark, served>>

AlwaysReady(s) == TRUE                      \* fault: no check before the read
Ready(s) == s = "done" /\ dir["report.json"] # "absent"

\* ... then the file, unless the run is not done or has none: 404
ReadReport ==
  /\ asked # "none"
  /\ asked' = "none"
  /\ served' = IF Ready(asked) THEN dir["report.json"] ELSE served
  /\ UNCHANGED <<kind, state, file, event, pc, stage, outcome, dir, lost, mark>>

\* The process dies at any point and another one starts on its directory.
Restart ==
  /\ file # "absent"
  /\ lost' = TRUE
  /\ state' = "absent" /\ event' = "absent" /\ pc' = "over" /\ asked' = "none"
  /\ UNCHANGED <<kind, file, stage, outcome, dir, mark, served>>
-----------------------------------------------------------------------------
Next == Submit \/ Worker \/ Cancel \/ Load \/ AskReport \/ ReadReport \/ Restart

Spec == Init /\ [][Next]_vars

\* the worker thread runs as long as its process does; the stages are finite
FairSpec == Spec /\ WF_vars(Worker)
-----------------------------------------------------------------------------
\* stage i has left its artifact, or had none to leave
Left(i) == Plan[i] = "none" \/ dir[Plan[i]] = "whole"
Complete == \A i \in 1..Len(Plan) : Left(i)

\* A client that is served a report is served all of it, and only of a run
\* whose other artifacts are there too: reading the status before the file
\* is safe because nothing is written after "done".
ReportServedIsWhole == served # "none" => served = "whole" /\ Complete

\* The artifacts are written in the order of the stages, none is skipped, at
\* most the last one is cut short, and none is of the other kind of run.  A run
\* that is reported "done", from memory or from its file, before or after a
\* restart, has them all.
ArtifactsFollowPlan ==
  /\ \A i, j \in 1..Len(Plan) :
       i < j /\ Plan[j] # "none" /\ dir[Plan[j]] # "absent" => Left(i)
  /\ \A a \in Artifacts : dir[a] # "absent" => \E i \in 1..Len(Plan) : Plan[i] = a
  /\ state = "done" \/ file = "done" => Complete

\* Once a cancellation is accepted the later stages never touch the disk: what
\* is added is at most the artifact of the stage that was past its check.
\* Accepted before the last stage boundary it is honoured: the run may still
\* fail, but it never ends "done".
CancelTakesHold ==
  /\ \A i \in 1..Len(Plan) :
       i > mark /\ Plan[i] # "none" => dir[Plan[i]] = "absent"
  /\ mark <= Len(Plan) => state # "done" /\ file # "done"

\* An accepted cancellation ends the run, whatever stage it is in, unless the
\* process dies first.
CancelEndsRun == event = "set" ~> state \in Terminal \/ lost

\* Seen from outside, the run goes through the life JobLifecycle promises.
Life == [r \in {"run"} |-> IF lost THEN "lost"
                           ELSE IF state = "absent" THEN "none" ELSE state]
Lifecycle == INSTANCE JobLifecycle WITH Runs <- {"run"}, life <- Life
RefinesLifecycle == Lifecycle!LSpec
=============================================================================
