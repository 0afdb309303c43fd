------------------------- MODULE PipelineRunProofs -------------------------
(***************************************************************************)
(* Proofs about one run of either pipeline: its artifacts follow the plan, *)
(* a cancellation takes hold, a client is served whole reports only, and   *)
(* the run implements JobLifecycle.                                        *)
(***************************************************************************)
EXTENDS PipelineRun, TLAPS

Places == {"idle", "publish", "mirror", "next", "work", "write", "end", "mirror_end", "over"}
Ended  == {"end", "mirror_end", "over"}

TypeOK ==
  /\ kind \in {"strategy", "overlay"}
  /\ state \in States /\ file \in States
  /\ event \in {"absent", "clear", "set"}
  /\ pc \in Places /\ stage \in 0 .. Len(Plan) + 1
  /\ outcome \in Terminal \cup {"none"}
  /\ dir \in [Artifacts -> {"absent", "partial", "whole"}]
  /\ lost \in BOOLEAN

\* Nothing of a stage is on disk.
Untouched(i) == Plan[i] = "none" \/ dir[Plan[i]] = "absent"

\* Where the run stands among its stages, and what each has left.
Staged ==
  /\ \A i \in 1..Len(Plan) : /\ i < stage => Left(i)
                             /\ i > stage => Untouched(i)
                             /\ i = stage /\ pc \in {"publish", "mirror", "work"} => Untouched(i)
                             /\ i = stage /\ pc = "next" => Left(i)
  /\ \A a \in Artifacts : dir[a] # "absent" => \E i \in 1..Len(Plan) : Plan[i] = a
  /\ pc \in {"work", "write"} => stage \in 1..Len(Plan)
  /\ pc = "write" => Plan[stage] # "none"
  /\ pc = "next" => stage <= Len(Plan)

\* What the registry and the file say fits the worker's place.
Registered ==
  /\ pc \notin Ended => outcome = "none"
  /\ pc = "idle" => stage = 0 /\ state \in {"absent", "queued", "cancelled"}
  /\ pc = "publish" => state \in {"queued", "running"}
  /\ pc \in {"mirror", "next", "work", "write", "end"} => state = "running"
  /\ pc \in {"end", "mirror_end"} => outcome \in Terminal
  /\ pc = "mirror_end" => state = outcome
  /\ state = "absent" => IF lost THEN file # "absent" ELSE file = "absent"
  /\ file = "absent" => state = "absent" /\ pc = "idle"
  /\ lost => pc = "over"

\* "done" is said only of a run that has passed its last stage.
DoneIsLast ==
  /\ outcome = "done" => stage > Len(Plan)
  /\ "done" \in {state, file, asked} => outcome = "done"
  /\ served # "none" => served = "whole" /\ outcome = "done"

\* From the first accepted cancellation on, no stage begins.
Marked ==
  /\ mark # Never => /\ mark = stage
                     /\ event = "set" \/ pc = "over"
  /\ file = "absent" => mark = Never

RunInv == TypeOK /\ Staged /\ Registered /\ DoneIsLast /\ Marked
-----------------------------------------------------------------------------
\* Both plans: each artifact is the work of one stage, the report of the last.
LEMMA PlanOf ==
  ASSUME kind \in {"strategy", "overlay"}
  PROVE  /\ Len(Plan) \in {3, 12}
         /\ \A i \in 1..Len(Plan) : Plan[i] # "none" => Plan[i] \in Artifacts
         /\ \A i, j \in 1..Len(Plan) : Plan[i] # "none" /\ Plan[i] = Plan[j] => i = j
         /\ Plan[Len(Plan)] = "report.json"
<1>1. CASE kind = "strategy"
  <2>1. Plan = Strategy /\ Len(Strategy) = 12
    BY <1>1 DEF Plan, Strategy
  <2>2. \A i \in 1..12 : Strategy[i] # "none" => Strategy[i] \in Artifacts
    BY DEF Artifacts
  <2>3. \A i, j \in 1..12 : Strategy[i] # "none" /\ Strategy[i] = Strategy[j] => i = j
    BY DEF Strategy
  <2>4. Strategy[12] = "report.json"
    BY DEF Strategy
  <2> QED BY <2>1, <2>2, <2>3, <2>4
<1>2. CASE kind = "overlay"
  <2>1. Plan = Overlay /\ Len(Overlay) = 3
    BY <1>2 DEF Plan, Overlay
  <2>2. \A i \in 1..3 : Overlay[i] # "none" => Overlay[i] \in Artifacts
    BY DEF Artifacts
  <2>3. \A i, j \in 1..3 : Overlay[i] # "none" /\ Overlay[i] = Overlay[j] => i = j
    BY DEF Overlay
  <2>4. Overlay[3] = "report.json"
    BY DEF Overlay
  <2> QED BY <2>1, <2>2, <2>3, <2>4
<1> QED BY <1>1, <1>2

LEMMA RunStart == Init => RunInv
<1> SUFFICES ASSUME Init PROVE RunInv
  OBVIOUS
<1>1. /\ Len(Plan) \in {3, 12}
      /\ \A i \in 1..Len(Plan) : Plan[i] # "none" => Plan[i] \in Artifacts
  BY PlanOf DEF Init
<1>2. TypeOK
  <2>1. stage \in 0 .. Len(Plan) + 1
    BY <1>1 DEF Init
  <2> QED BY <2>1 DEF Init, TypeOK, Places, States, Terminal
<1>3. \A i \in 1..Len(Plan) : Untouched(i)
  BY <1>1 DEF Init, Untouched
<1>4. Staged
  BY <1>1, <1>3 DEF Init, Staged
<1>5. Registered /\ DoneIsLast /\ Marked
  BY DEF Init, Registered, Ended, DoneIsLast, Marked
<1> QED BY <1>2, <1>4, <1>5 DEF RunInv

\* A step that keeps the stage and the artifacts, and enters no place that says
\* more of them.
LEMMA StillStaged ==
  ASSUME Staged, UNCHANGED <<kind, stage, dir>>,
         pc' \in {"work", "write", "next"} => pc' = pc \/ pc = "mirror",
         pc' \in {"publish", "mirror"} => pc \in {"idle", "publish", "mirror"}, 
         pc = "mirror" /\ pc' \in {"work", "write", "next"} =>
           IF stage = 0 THEN pc' = "next" ELSE pc' = "work" /\ stage <= Len(Plan),
         pc = "idle" => stage = 0, stage \in Nat, Len(Plan) \in Nat
  PROVE  Staged'
<1>1. Plan' = Plan
  BY DEF Plan
<1>2. \A i : Left(i)' = Left(i) /\ Untouched(i)' = Untouched(i)
  BY <1>1 DEF Left, Untouched
<1>3. \A i \in 1..Len(Plan) : /\ i < stage => Left(i)
                              /\ i > stage => Untouched(i)
                              /\ i = stage /\ pc' \in {"publish", "mirror", "work"} => Untouched(i)
                              /\ i = stage /\ pc' = "next" => Left(i)
  BY DEF Staged
<1>4. \A a \in Artifacts : dir[a] # "absent" => \E i \in 1..Len(Plan) : Plan[i] = a
  BY DEF Staged
<1>5. /\ pc' \in {"work", "write"} => stage \in 1..Len(Plan)
      /\ pc' = "write" => Plan[stage] # "none"
      /\ pc' = "next" => stage <= Len(Plan)
  BY DEF Staged
<1> QED BY <1>1, <1>2, <1>3, <1>4, <1>5 DEF Staged

\* A stage that writes its artifact disturbs no other stage's.
LEMMA StageWrites ==
  ASSUME TypeOK, Staged, kind' = kind, stage' = stage, stage \in 1..Len(Plan),
         Plan[stage] # "none", Plan[stage] \in Artifacts, Len(Plan) \in Nat,
         \A i, j \in 1..Len(Plan) : Plan[i] # "none" /\ Plan[i] = Plan[j] => i = j,
         NEW s \in {"partial", "whole"}, dir' = [dir EXCEPT ![Plan[stage]] = s],
         \/ s = "partial" /\ pc' = "write"
         \/ s = "whole" /\ pc' = "next"
  PROVE  Staged'
<1>1. Plan' = Plan
  BY DEF Plan
<1>2. dir \in [Artifacts -> {"absent", "partial", "whole"}]
  BY DEF TypeOK
<1>3. dir'[Plan[stage]] = s /\ \A a \in Artifacts \ {Plan[stage]} : dir'[a] = dir[a]
  BY <1>2
<1>4. \A i \in 1..Len(Plan) : i # stage /\ Plan[i] # "none" => dir'[Plan[i]] = dir[Plan[i]]
  BY <1>2
<1>5. \A i \in 1..Len(Plan) : /\ i < stage => Left(i)
                              /\ i > stage => Untouched(i)
  BY DEF Staged
<1>6. ASSUME NEW i \in 1..Len(Plan)
      PROVE  /\ i < stage => Left(i)'
             /\ i > stage => Untouched(i)'
             /\ i = stage /\ pc' = "next" => Left(i)'
  <2>1. CASE i = stage
    BY <1>1, <1>3, <2>1 DEF Left
  <2>2. CASE i # stage
    <3>1. (i < stage => Left(i)) /\ (i > stage => Untouched(i))
      BY <1>5
    <3>2. Plan'[i] = Plan[i] /\ (Plan[i] # "none" => dir'[Plan[i]] = dir[Plan[i]])
      BY <1>1, <1>4, <2>2
    <3>3. (Left(i) => Left(i)') /\ (Untouched(i) => Untouched(i)')
      BY <3>2 DEF Left, Untouched
    <3> QED BY <2>2, <3>1, <3>3
  <2> QED BY <2>1, <2>2
<1>7. \A a \in Artifacts : dir'[a] # "absent" => \E i \in 1..Len(Plan) : Plan[i] = a
  <2> SUFFICES ASSUME NEW a \in Artifacts, dir'[a] # "absent"
               PROVE  \E i \in 1..Len(Plan) : Plan[i] = a
    OBVIOUS
  <2>1. CASE a = Plan[stage]
    BY <2>1
  <2>2. CASE a # Plan[stage]
    BY <1>3, <2>2 DEF Staged
  <2> QED BY <2>1, <2>2
<1> QED BY <1>1, <1>6, <1>7 DEF Staged

LEMMA RunStep == RunInv /\ [Next]_vars => RunInv'
<1> SUFFICES ASSUME RunInv, [Next]_vars PROVE RunInv'
  OBVIOUS
<1>1. /\ TypeOK /\ Staged /\ Registered /\ DoneIsLast /\ Marked
      /\ kind' = kind /\ Plan' = Plan /\ Ended' = Ended
  BY DEF RunInv, Next, vars, Submit, Worker, Start, Publish, MirrorRunning, Progress, SweepStops,
         WorkReturns, Written, Raises, Settle, MirrorEnd, Cancel, Load, AskReport, ReadReport,
         Restart, RequestsUnchanged, Plan, Ended
<1>2. /\ Len(Plan) \in {3, 12} /\ stage \in Nat
      /\ \A i \in 1..Len(Plan) : Plan[i] # "none" => Plan[i] \in Artifacts
      /\ \A i, j \in 1..Len(Plan) : Plan[i] # "none" /\ Plan[i] = Plan[j] => i = j
      /\ Plan[Len(Plan)] = "report.json"
  BY <1>1, PlanOf DEF TypeOK
<1>3. CASE Submit
  <2>1. TypeOK' /\ Registered' /\ DoneIsLast' /\ Marked'
    BY <1>1, <1>2, <1>3 DEF Submit, RequestsUnchanged, TypeOK, Registered, DoneIsLast,
       Marked, States, Terminal, Ended, Places
  <2>2. Staged'
    BY <1>1, <1>2, <1>3, StillStaged DEF Submit, RequestsUnchanged, Registered
  <2> QED BY <2>1, <2>2 DEF RunInv
<1>4. CASE Start
  <2>1. TypeOK' /\ Registered' /\ DoneIsLast' /\ Marked'
    BY <1>1, <1>2, <1>4 DEF Start, RequestsUnchanged, TypeOK, Registered, DoneIsLast,
       Marked, States, Terminal, Ended, Places
  <2>2. Staged'
    BY <1>1, <1>2, <1>4, StillStaged DEF Start, RequestsUnchanged, Registered
  <2> QED BY <2>1, <2>2 DEF RunInv
<1>5. CASE Publish
  <2>1. TypeOK' /\ Registered' /\ DoneIsLast' /\ Marked'
    BY <1>1, <1>2, <1>5 DEF Publish, RequestsUnchanged, TypeOK, Registered, DoneIsLast,
       Marked, States, Terminal, Ended, Places
  <2>2. Staged'
    BY <1>1, <1>2, <1>5, StillStaged DEF Publish, RequestsUnchanged, Registered
  <2> QED BY <2>1, <2>2 DEF RunInv
<1>6. CASE MirrorRunning
  <2>1. TypeOK' /\ Registered' /\ DoneIsLast' /\ Marked'
    BY <1>1, <1>2, <1>6 DEF MirrorRunning, RequestsUnchanged, TypeOK, Registered, DoneIsLast,
       Marked, States, Terminal, Ended, Places
  <2>2. Staged'
    BY <1>1, <1>2, <1>6, StillStaged DEF MirrorRunning, RequestsUnchanged, Registered
  <2> QED BY <2>1, <2>2 DEF RunInv
<1>7. CASE Progress
  <2>1. TypeOK' /\ Registered' /\ DoneIsLast' /\ Marked'
    BY <1>1, <1>2, <1>7 DEF Progress, RequestsUnchanged, TypeOK, Registered, DoneIsLast,
       Marked, States, Terminal, Ended, Places, Requested, Ends, Staged
  <2>2. Staged'
    <3>1. CASE event = "set"
      BY <1>1, <1>2, <1>7, <3>1, StillStaged DEF Progress, RequestsUnchanged, Registered, Requested, Ends
    <3>2. CASE event # "set"
      <4>1. stage' = stage + 1 /\ pc' = "publish" /\ pc = "next" /\ dir' = dir
        BY <1>7, <3>2 DEF Progress, Requested
      <4>2. \A i : Left(i)' = Left(i) /\ Untouched(i)' = Untouched(i)
        BY <1>1, <4>1 DEF Left, Untouched
      <4>3. \A i \in 1..Len(Plan) : /\ i < stage' => Left(i)
                                    /\ i >= stage' => Untouched(i)
        BY <1>1, <1>2, <4>1 DEF Staged
      <4>4. \A a \in Artifacts : dir[a] # "absent" => \E i \in 1..Len(Plan) : Plan[i] = a
        BY <1>1 DEF Staged
      <4> QED BY <1>1, <1>2, <4>1, <4>2, <4>3, <4>4 DEF Staged
    <3> QED BY <3>1, <3>2
  <2> QED BY <2>1, <2>2 DEF RunInv
<1>8. CASE SweepStops
  <2>1. TypeOK' /\ Registered' /\ DoneIsLast' /\ Marked'
    BY <1>1, <1>2, <1>8 DEF SweepStops, RequestsUnchanged, TypeOK, Registered, DoneIsLast,
       Marked, States, Terminal, Ended, Places, Ends
  <2>2. Staged'
    BY <1>1, <1>2, <1>8, StillStaged DEF SweepStops, RequestsUnchanged, Registered, Ends
  <2> QED BY <2>1, <2>2 DEF RunInv
<1>9. CASE WorkReturns
  <2>1. TypeOK' /\ Registered' /\ DoneIsLast' /\ Marked'
    BY <1>1, <1>2, <1>9 DEF WorkReturns, RequestsUnchanged, TypeOK, Registered, DoneIsLast,
       Marked, States, Terminal, Ended, Places
  <2>2. Staged'
    <3>1. CASE Plan[stage] = "none"
      <4>1. pc' = "next" /\ pc = "work" /\ dir' = dir /\ stage' = stage /\ stage \in 1..Len(Plan)
        BY <1>1, <1>9, <3>1 DEF WorkReturns, Staged
      <4>2. \A i : Left(i)' = Left(i) /\ Untouched(i)' = Untouched(i)
        BY <1>1, <4>1 DEF Left, Untouched
      <4>3. Left(stage)
        BY <3>1 DEF Left
      <4>4. \A i \in 1..Len(Plan) : /\ i < stage => Left(i)
                                    /\ i > stage => Untouched(i)
        BY <1>1 DEF Staged
      <4>5. \A a \in Artifacts : dir[a] # "absent" => \E i \in 1..Len(Plan) : Plan[i] = a
        BY <1>1 DEF Staged
      <4> QED BY <1>1, <1>2, <4>1, <4>2, <4>3, <4>4, <4>5 DEF Staged
    <3>2. CASE Plan[stage] # "none"
      <4>1. /\ pc' = "write" /\ pc = "work" /\ stage' = stage /\ stage \in 1..Len(Plan)
            /\ dir' = [dir EXCEPT ![Plan[stage]] = "partial"]
        BY <1>1, <1>9, <3>2 DEF WorkReturns, Staged
      <4>2. Len(Plan) \in Nat /\ Plan[stage] \in Artifacts
        BY <1>2, <3>2, <4>1
      <4> QED BY <1>1, <1>2, <3>2, <4>1, <4>2, StageWrites
    <3> QED BY <3>1, <3>2
  <2> QED BY <2>1, <2>2 DEF RunInv
<1>10. CASE Written
  <2>1. TypeOK' /\ Registered' /\ DoneIsLast' /\ Marked'
    BY <1>1, <1>2, <1>10 DEF Written, RequestsUnchanged, TypeOK, Registered, DoneIsLast,
       Marked, States, Terminal, Ended, Places
  <2>2. Staged'
    <3>1. /\ pc' = "next" /\ pc = "write" /\ stage' = stage /\ stage \in 1..Len(Plan)
          /\ dir' = [dir EXCEPT ![Plan[stage]] = "whole"] /\ Plan[stage] # "none"
      BY <1>1, <1>10 DEF Written, Staged
    <3>2. Len(Plan) \in Nat /\ Plan[stage] \in Artifacts
      BY <1>2, <3>1
    <3> QED BY <1>1, <1>2, <3>1, <3>2, StageWrites
  <2> QED BY <2>1, <2>2 DEF RunInv
<1>11. CASE Raises
  <2>1. TypeOK' /\ Registered' /\ DoneIsLast' /\ Marked'
    BY <1>1, <1>2, <1>11 DEF Raises, RequestsUnchanged, TypeOK, Registered, DoneIsLast,
       Marked, States, Terminal, Ended, Places, Fail, Ends
  <2>2. Staged'
    BY <1>1, <1>2, <1>11, StillStaged DEF Raises, RequestsUnchanged, Registered, Fail, Ends
  <2> QED BY <2>1, <2>2 DEF RunInv
<1>12. CASE Settle
  <2>1. TypeOK' /\ Registered' /\ DoneIsLast' /\ Marked'
    BY <1>1, <1>2, <1>12 DEF Settle, RequestsUnchanged, TypeOK, Registered, DoneIsLast,
       Marked, States, Terminal, Ended, Places, Reported
  <2>2. Staged'
    BY <1>1, <1>2, <1>12, StillStaged DEF Settle, RequestsUnchanged, Registered, Reported
  <2> QED BY <2>1, <2>2 DEF RunInv
<1>13. CASE MirrorEnd
  <2>1. TypeOK' /\ Registered' /\ DoneIsLast' /\ Marked'
    BY <1>1, <1>2, <1>13 DEF MirrorEnd, RequestsUnchanged, TypeOK, Registered, DoneIsLast,
       Marked, States, Terminal, Ended, Places
  <2>2. Staged'
    BY <1>1, <1>2, <1>13, StillStaged DEF MirrorEnd, RequestsUnchanged, Registered
  <2> QED BY <2>1, <2>2 DEF RunInv
<1>14. CASE Cancel
  <2>1. TypeOK' /\ Registered' /\ DoneIsLast' /\ Marked'
    BY <1>1, <1>2, <1>14 DEF Cancel, RequestsUnchanged, TypeOK, Registered, DoneIsLast,
       Marked, States, Terminal, Ended, Places, InQueue
  <2>2. Staged'
    BY <1>1, <1>2, <1>14, StillStaged DEF Cancel, RequestsUnchanged, Registered, InQueue
  <2> QED BY <2>1, <2>2 DEF RunInv
<1>15. CASE Load
  <2>1. TypeOK' /\ Registered' /\ DoneIsLast' /\ Marked'
    BY <1>1, <1>2, <1>15 DEF Load, RequestsUnchanged, TypeOK, Registered, DoneIsLast,
       Marked, States, Terminal, Ended, Places
  <2>2. Staged'
    BY <1>1, <1>2, <1>15, StillStaged DEF Load, RequestsUnchanged, Registered
  <2> QED BY <2>1, <2>2 DEF RunInv
<1>16. CASE AskReport
  <2>1. TypeOK' /\ Registered' /\ DoneIsLast' /\ Marked'
    BY <1>1, <1>2, <1>16 DEF AskReport, RequestsUnchanged, TypeOK, Registered, DoneIsLast,
       Marked, States, Terminal, Ended, Places
  <2>2. Staged'
    BY <1>1, <1>2, <1>16, StillStaged DEF AskReport, RequestsUnchanged, Registered
  <2> QED BY <2>1, <2>2 DEF RunInv
<1>17. CASE ReadReport
  <2>1. TypeOK' /\ Registered' /\ DoneIsLast' /\ Marked'
    <3>1. outcome = "done" => dir["report.json"] = "whole"
      <4>1. outcome = "done" => Left(Len(Plan))
        BY <1>1, <1>2 DEF DoneIsLast, Staged
      <4> QED BY <1>2, <4>1 DEF Left
    <3>2. /\ served' = served \/ (outcome = "done" /\ served' = dir["report.json"])
          /\ asked' = "none"
          /\ UNCHANGED <<kind, state, file, event, pc, stage, outcome, dir, lost, mark>>
      BY <1>1, <1>17 DEF ReadReport, Ready, DoneIsLast
    <3> QED
      BY <1>1, <1>2, <3>1, <3>2 DEF TypeOK, Registered, DoneIsLast, Marked
  <2>2. Staged'
    BY <1>1, <1>2, <1>17, StillStaged DEF ReadReport, RequestsUnchanged, Registered, Ready
  <2> QED BY <2>1, <2>2 DEF RunInv
<1>18. CASE Restart
  <2>1. TypeOK' /\ Registered' /\ DoneIsLast' /\ Marked'
    BY <1>1, <1>2, <1>18 DEF Restart, RequestsUnchanged, TypeOK, Registered, DoneIsLast,
       Marked, States, Terminal, Ended, Places
  <2>2. Staged'
    BY <1>1, <1>2, <1>18, StillStaged DEF Restart, RequestsUnchanged, Registered
  <2> QED BY <2>1, <2>2 DEF RunInv
<1>19. CASE UNCHANGED vars
  <2>1. TypeOK' /\ Registered' /\ DoneIsLast' /\ Marked'
    BY <1>1, <1>19 DEF vars, TypeOK, Registered, DoneIsLast, Marked
  <2>2. Staged'
    BY <1>1, <1>2, <1>19, StillStaged DEF vars, Registered
  <2> QED BY <2>1, <2>2 DEF RunInv
<1> QED
  BY <1>3, <1>4, <1>5, <1>6, <1>7, <1>8, <1>9, <1>10, <1>11, <1>12, <1>13, <1>14, <1>15,
     <1>16, <1>17, <1>18, <1>19 DEF Next, Worker

\* The places, artifacts and history of a run always fit each other.
THEOREM RunInvariant == Spec => []RunInv
<1> QED BY RunStart, RunStep, PTL DEF Spec

\* Artifacts appear in the order of the stages, none skipped, and a run that is
\* called done by memory or by its file has every one of them.
THEOREM ArtifactsInOrder == Spec => []ArtifactsFollowPlan
<1>1. RunInv => ArtifactsFollowPlan
  <2> SUFFICES ASSUME RunInv PROVE ArtifactsFollowPlan
    OBVIOUS
  <2>1. Staged /\ DoneIsLast /\ TypeOK /\ Len(Plan) \in Nat /\ stage \in Nat
    BY PlanOf DEF RunInv, TypeOK
  <2>2. ASSUME NEW i \in 1..Len(Plan), NEW j \in 1..Len(Plan),
               i < j, Plan[j] # "none", dir[Plan[j]] # "absent"
        PROVE  Left(i)
    <3>1. ~Untouched(j)
      BY <2>2 DEF Untouched
    <3>2. j <= stage
      BY <2>1, <3>1 DEF Staged
    <3> QED BY <2>1, <2>2, <3>2 DEF Staged
  <2>3. \A a \in Artifacts : dir[a] # "absent" => \E i \in 1..Len(Plan) : Plan[i] = a
    BY <2>1 DEF Staged
  <2>4. ASSUME state = "done" \/ file = "done" PROVE Complete
    <3>1. stage > Len(Plan)
      BY <2>1, <2>4 DEF DoneIsLast
    <3> QED BY <2>1, <3>1 DEF Staged, Complete
  <2> QED BY <2>2, <2>3, <2>4 DEF ArtifactsFollowPlan
<1> QED BY <1>1, RunInvariant, PTL

\* After an accepted cancellation no later stage touches the disk, and the run
\* does not end "done" unless it had passed its last stage by then.
THEOREM CancelIsHonoured == Spec => []CancelTakesHold
<1>1. RunInv => CancelTakesHold
  <2> SUFFICES ASSUME RunInv PROVE CancelTakesHold
    OBVIOUS
  <2>1. /\ Staged /\ DoneIsLast /\ Marked /\ stage \in Nat
        /\ Len(Plan) \in {3, 12} /\ (mark = Never => mark > Len(Plan))
    <3>1. Len(Plan) \in {3, 12} /\ stage \in 0 .. Len(Plan) + 1
      BY PlanOf DEF RunInv, TypeOK
    <3>2. stage \in Nat /\ Len(Plan) \in Nat
      BY <3>1
    <3>3. Never > Len(Plan)
      <4>1. \A n \in {3, 12} : Never > n
        BY DEF Never
      <4> QED BY <3>1, <4>1
    <3> QED BY <3>1, <3>2, <3>3 DEF RunInv
  <2>2. ASSUME NEW i \in 1..Len(Plan), i > mark, Plan[i] # "none"
        PROVE  dir[Plan[i]] = "absent"
    <3>1. mark # Never
      BY <2>1, <2>2 DEF Never
    <3>2. Untouched(i)
      BY <2>1, <2>2, <3>1 DEF Marked, Staged
    <3> QED BY <2>2, <3>2 DEF Untouched
  <2>3. ASSUME mark <= Len(Plan) PROVE state # "done" /\ file # "done"
    <3>1. mark # Never
      BY <2>1, <2>3 DEF Never
    <3> QED BY <2>1, <2>3, <3>1 DEF Marked, DoneIsLast
  <2> QED BY <2>2, <2>3 DEF CancelTakesHold
<1> QED BY <1>1, RunInvariant, PTL

\* A client that is served a report is served the whole of it, of a run whose
\* other artifacts are whole too.
THEOREM ReportsAreWhole == Spec => []ReportServedIsWhole
<1>1. RunInv => ReportServedIsWhole
  <2> SUFFICES ASSUME RunInv, served # "none" PROVE served = "whole" /\ Complete
    BY DEF ReportServedIsWhole
  <2>1. Staged /\ Len(Plan) \in Nat /\ stage \in Nat
    BY PlanOf DEF RunInv, TypeOK
  <2>2. served = "whole" /\ stage > Len(Plan)
    BY DEF RunInv, DoneIsLast
  <2> QED BY <2>1, <2>2 DEF Staged, Complete
<1> QED BY <1>1, RunInvariant, PTL
-----------------------------------------------------------------------------
(***************************************************************************)
(* The run implements JobLifecycle.                                        *)
(***************************************************************************)
Standing == IF lost THEN "lost" ELSE IF state = "absent" THEN "none" ELSE state

\* What each lifecycle step asks of the one run.
LEMMA StandingMoves ==
  ASSUME \/ Standing = "none" /\ Standing' = "queued"
         \/ Standing = "queued" /\ Standing' \in {"running", "cancelled"}
         \/ Standing = "running" /\ Standing' \in Terminal
         \/ Standing # "none" /\ Standing' = "lost"
         \/ Standing' = Standing
  PROVE  [Lifecycle!LNext]_Life
<1>1. Life = [r \in {"run"} |-> Standing] /\ Life' = [r \in {"run"} |-> Standing']
  BY DEF Life, Standing
<1>2. \A v : [Life EXCEPT !["run"] = v] = [r \in {"run"} |-> v]
  BY <1>1
<1>3. Life["run"] = Standing
  BY <1>1
<1>4. CASE Standing = "none" /\ Standing' = "queued"
  <2>1. Lifecycle!Queue("run")
    BY <1>1, <1>2, <1>3, <1>4 DEF Lifecycle!Queue
  <2> QED BY <2>1 DEF Lifecycle!LNext
<1>5. CASE Standing = "queued" /\ Standing' = "running"
  <2>1. Lifecycle!Start("run")
    BY <1>1, <1>2, <1>3, <1>5 DEF Lifecycle!Start
  <2> QED BY <2>1 DEF Lifecycle!LNext
<1>6. CASE Standing = "queued" /\ Standing' = "cancelled"
  <2>1. Lifecycle!CancelQueued("run")
    BY <1>1, <1>2, <1>3, <1>6 DEF Lifecycle!CancelQueued
  <2> QED BY <2>1 DEF Lifecycle!LNext
<1>7. CASE Standing = "running" /\ Standing' \in Terminal
  <2>1. Lifecycle!Finish("run")
    BY <1>1, <1>2, <1>3, <1>7 DEF Lifecycle!Finish, Lifecycle!Outcomes, Terminal
  <2> QED BY <2>1 DEF Lifecycle!LNext
<1>8. CASE Standing # "none" /\ Standing' = "lost"
  <2>1. {"run"} \in SUBSET {r \in {"run"} : Life[r] # "none"}
    BY <1>3, <1>8
  <2>2. Life' = [r \in {"run"} |-> IF r \in {"run"} THEN "lost" ELSE Life[r]]
    BY <1>1, <1>8
  <2>3. Lifecycle!Lose
    BY <2>1, <2>2 DEF Lifecycle!Lose
  <2> QED BY <2>3 DEF Lifecycle!LNext
<1>9. CASE Standing' = Standing
  BY <1>1, <1>9
<1> QED BY <1>4, <1>5, <1>6, <1>7, <1>8, <1>9

LEMMA RunStepImplements == RunInv /\ [Next]_vars => [Lifecycle!LNext]_Life
<1> SUFFICES ASSUME RunInv, [Next]_vars PROVE [Lifecycle!LNext]_Life
  OBVIOUS
<1>1. /\ state \in States /\ outcome \in Terminal \cup {"none"} /\ lost \in BOOLEAN
      /\ Registered
  BY DEF RunInv, TypeOK
<1>2. CASE Submit
  BY <1>1, <1>2, StandingMoves DEF Submit, RequestsUnchanged, Registered, Ended, Standing
<1>3. CASE Publish
  BY <1>1, <1>3, StandingMoves DEF Publish, RequestsUnchanged, Registered, Standing
<1>4. CASE Settle
  BY <1>1, <1>4, StandingMoves
     DEF Settle, Reported, RequestsUnchanged, Registered, Terminal, Standing
<1>5. CASE Cancel
  BY <1>1, <1>5, StandingMoves DEF Cancel, InQueue, RequestsUnchanged, Registered, Standing
<1>6. CASE Load
  BY <1>1, <1>6, StandingMoves DEF Load, RequestsUnchanged, Registered, Standing
<1>7. CASE Restart
  BY <1>1, <1>7, StandingMoves DEF Restart, Registered, States, Terminal, Standing
<1>8. CASE Start \/ MirrorRunning \/ Progress \/ SweepStops \/ WorkReturns \/ Written
             \/ Raises \/ MirrorEnd \/ AskReport \/ ReadReport \/ UNCHANGED vars
  <2>1. UNCHANGED <<lost, state>>
    BY <1>8 DEF Start, MirrorRunning, Progress, SweepStops, WorkReturns, Written, Raises,
       MirrorEnd, AskReport, ReadReport, RequestsUnchanged, vars
  <2> QED BY <2>1, StandingMoves DEF Standing
<1> QED BY <1>2, <1>3, <1>4, <1>5, <1>6, <1>7, <1>8 DEF Next, Worker

\* A run of either pipeline lives as JobLifecycle promises: it is queued once,
\* cancelled in the queue or executed once, ends once, and leaves that end only
\* when its process dies.
THEOREM RunLifecycleImplemented == Spec => RefinesLifecycle
<1>1. Init => Lifecycle!LInit
  BY DEF Init, Lifecycle!LInit, Life
<1>2. RunInv /\ [Next]_vars => [Lifecycle!LNext]_Life
  BY RunStepImplements
<1> QED
  BY <1>1, <1>2, RunInvariant, PTL DEF Spec, RefinesLifecycle, Lifecycle!LSpec
=============================================================================
