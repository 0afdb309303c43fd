------------------------- MODULE ComputeCacheProofs -------------------------
(***************************************************************************)
(* What the files of the cache are between calls, for any processes and    *)
(* fingerprints, and what a file cut short says about its writer.  The     *)
(* first holds only while one process at a time uses the directory and     *)
(* none has died; the invariant has to follow that process through its     *)
(* call.  Then, what an eviction leaves: never less than what the call has *)
(* just written, never more than the capacity.                             *)
(***************************************************************************)
EXTENDS ComputeCache, FiniteSetTheorems, FunctionTheorems, SequenceTheorems, TLAPS

TypeOK ==
  /\ entry \in [Keys -> {"absent", "torn", "whole"}]
  /\ opener \in [Keys -> Procs \cup {Nobody}]
  /\ sidecar \in [Keys -> {"absent", "torn", "whole"}] /\ slipped \subseteq Keys
  /\ pc \in [Procs -> Places] /\ key \in [Procs -> Keys \cup {"none"}]
  /\ seen \in [Procs -> SUBSET Keys] /\ \E S : doomed \in [Procs -> S]
  /\ mingled \in BOOLEAN
  /\ \A p \in Procs : pc[p] \in {"read", "compute", "write", "sidecar"} => key[p] \in Keys

\* The process that truncated a torn file last is still writing it, or dead.
TornHasWriter ==
  \A k \in Keys : entry[k] = "torn" =>
    opener[k] \in Procs /\ key[opener[k]] = k /\ pc[opener[k]] \in {"write", "dead"}

Undisturbed == ~mingled /\ \A p \in Procs : pc[p] # "dead"

\* Where the only process in the directory is in its call, and which file and
\* metadata do not fit yet for that reason.
Alone ==
  /\ \A p, q \in Procs : Up(p) /\ Up(q) => p = q
  /\ \A p \in Procs :
       /\ pc[p] = "compute" => entry[key[p]] = "absent"
       /\ pc[p] = "write" =>
            opener[key[p]] = p /\ entry[key[p]] = "torn"
       /\ pc[p] = "sidecar" => entry[key[p]] = "whole"
       /\ pc[p] \in {"write", "sidecar"} => sidecar[key[p]] = "absent" /\ key[p] \notin slipped
       /\ pc[p] = "unlink_sidecar" =>
            \A k \in Keys : k = Head(doomed[p]) => entry[k] = "absent"
  /\ \A k \in Keys :
       /\ sidecar[k] # "absent" /\ entry[k] # "whole" =>
            \E p \in Procs : pc[p] = "unlink_sidecar" /\ k = Head(doomed[p])
       /\ entry[k] = "whole" /\ k \in slipped => sidecar[k] # "whole"
       /\ entry[k] = "whole" /\ k \notin slipped /\ sidecar[k] # "whole" =>
            \E p \in Procs : pc[p] = "sidecar" /\ key[p] = k

CacheInv == TypeOK /\ TornHasWriter /\ (Undisturbed => Alone)

LEMMA CacheInvInit == Init => CacheInv
<1> SUFFICES ASSUME Init PROVE CacheInv
  OBVIOUS
<1>1. TypeOK
  BY DEF Init, TypeOK, Places
<1>2. TornHasWriter
  BY DEF Init, TornHasWriter
<1>3. Alone
  BY DEF Init, Alone, Up
<1> QED BY <1>1, <1>2, <1>3 DEF CacheInv

LEMMA InvDescribes == CacheInv => EntriesAreDescribed
<1> SUFFICES ASSUME CacheInv, NEW k \in Keys
             PROVE  /\ ~mingled /\ Quiet /\ (\A p \in Procs : pc[p] # "dead") =>
                         /\ entry[k] # "torn"
                         /\ sidecar[k] # "absent" => entry[k] = "whole"
                         /\ entry[k] = "whole" => (sidecar[k] = "whole" <=> k \notin slipped)
                    /\ entry[k] = "torn" =>
                         opener[k] \in Procs /\ key[opener[k]] = k
                         /\ pc[opener[k]] \in {"write", "dead"}
  BY DEF EntriesAreDescribed
<1>1. ASSUME ~mingled, Quiet, \A p \in Procs : pc[p] # "dead"
      PROVE  /\ entry[k] # "torn"
             /\ sidecar[k] # "absent" => entry[k] = "whole"
             /\ entry[k] = "whole" => (sidecar[k] = "whole" <=> k \notin slipped)
  <2>1. Alone /\ \A p \in Procs : pc[p] \in {"new", "idle"}
    BY <1>1 DEF CacheInv, Undisturbed, Quiet
  <2>2. entry[k] # "torn"
    BY <2>1 DEF CacheInv, TornHasWriter
  <2> QED BY <2>1, <2>2 DEF Alone
<1> QED BY <1>1 DEF CacheInv, TornHasWriter
-----------------------------------------------------------------------------
\* A process may move on if it leaves the files alone and was not writing.
LEMMA FilesStay ==
  ASSUME CacheInv, NEW p \in Procs, Up(p), FilesUnchanged, TypeOK', mingled' = mingled,
         \A q \in Procs \ {p} : pc'[q] = pc[q] /\ key'[q] = key[q] /\ doomed'[q] = doomed[q],
         pc[p] \in {"idle", "read", "compute", "glob", "stat", "unlink"},
         pc'[p] \in {"idle", "read", "compute", "stat", "unlink"},
         pc'[p] = "compute" => entry[key'[p]] = "absent"
  PROVE  CacheInv'
<1>1. UNCHANGED <<entry, opener, sidecar, slipped>>
  BY DEF FilesUnchanged
<1>2. TornHasWriter'
  BY <1>1 DEF CacheInv, TornHasWriter
<1>3. ASSUME Undisturbed' PROVE Alone'
  <2>1. Alone
    BY <1>3 DEF CacheInv, Undisturbed, Up
  <2>2. \A q \in Procs : Up(q)' <=> Up(q)
    BY DEF Up
  <2> QED BY <1>1, <2>1, <2>2 DEF Alone
<1> QED BY <1>2, <1>3 DEF CacheInv

LEMMA BeginKeepsInv ==
  ASSUME CacheInv, NEW p \in Procs, NEW k \in Keys, Begin(p, k), mingled' = mingled
  PROVE  CacheInv'
<1>1. /\ pc[p] = "idle" /\ key' = [key EXCEPT ![p] = k] /\ UNCHANGED <<seen, doomed>>
      /\ pc' = [pc EXCEPT ![p] = IF entry[k] = "absent" THEN "compute" ELSE "read"]
      /\ FilesUnchanged
  BY DEF Begin, Goto, EvictUnchanged
<1>2. TypeOK'
  BY <1>1 DEF CacheInv, TypeOK, Places, FilesUnchanged
<1>3. pc'[p] = (IF entry[k] = "absent" THEN "compute" ELSE "read") /\ key'[p] = k
      /\ \A q \in Procs \ {p} : pc'[q] = pc[q] /\ key'[q] = key[q]
  BY <1>1 DEF CacheInv, TypeOK
<1> QED BY <1>1, <1>2, <1>3, FilesStay DEF Up

LEMMA QuietKeepsInv ==
  ASSUME CacheInv, NEW p \in Procs, Read(p) \/ Raise(p) \/ Glob(p) \/ Stat(p), mingled' = mingled
  PROVE  CacheInv'
<1>1. /\ pc[p] \in {"read", "compute", "glob", "stat"} /\ key' = key /\ FilesUnchanged
      /\ \E place \in {"idle", "stat", "unlink"} : pc' = [pc EXCEPT ![p] = place]
      /\ doomed' = doomed \/ \E d : doomed' = [doomed EXCEPT ![p] = d]
      /\ seen' = seen \/ \E files \in {Entries, {}} : seen' = [seen EXCEPT ![p] = files]
  BY DEF Read, Raise, Glob, Stat, Goto, Return, EvictUnchanged, FilesUnchanged
<1>2. TypeOK'
  <2>1. \E S : doomed' \in [Procs -> S]
    <3>1. PICK S : doomed \in [Procs -> S]
      BY DEF CacheInv, TypeOK
    <3>2. CASE doomed' = doomed
      BY <3>1, <3>2
    <3>3. ASSUME NEW d, doomed' = [doomed EXCEPT ![p] = d] PROVE doomed' \in [Procs -> S \cup {d}]
      BY <3>1, <3>3
    <3> QED BY <1>1, <3>2, <3>3
  <2>2. seen' \in [Procs -> SUBSET Keys]
    <3>1. Entries \subseteq Keys
      BY DEF Entries
    <3> QED BY <1>1, <3>1 DEF CacheInv, TypeOK
  <2>3. pc' \in [Procs -> Places] /\ \A q \in Procs : pc'[q] = pc[q] \/ pc'[q] \in {"idle", "stat", "unlink"}
    BY <1>1 DEF CacheInv, TypeOK, Places
  <2> QED BY <1>1, <2>1, <2>2, <2>3 DEF CacheInv, TypeOK, FilesUnchanged
<1>3. pc'[p] \in {"idle", "stat", "unlink"}
      /\ \A q \in Procs \ {p} : pc'[q] = pc[q] /\ key'[q] = key[q] /\ doomed'[q] = doomed[q]
  BY <1>1 DEF CacheInv, TypeOK
<1> QED BY <1>1, <1>2, <1>3, FilesStay DEF Up

LEMMA OpenKeepsInv ==
  ASSUME CacheInv, NEW p \in Procs, Open(p), mingled' = mingled
  PROVE  CacheInv'
<1>1. /\ pc[p] = "compute" /\ key' = key /\ UNCHANGED <<seen, doomed>> /\ sidecar' = sidecar
      /\ entry' = [entry EXCEPT ![key[p]] = "torn"] /\ opener' = [opener EXCEPT ![key[p]] = p]
      /\ pc' = [pc EXCEPT ![p] = "write"] /\ slipped' = slipped \ {key[p]}
  BY DEF Open, Goto, EvictUnchanged
<1>2. key[p] \in Keys /\ TypeOK
  BY <1>1 DEF CacheInv, TypeOK
<1>3. TypeOK'
  BY <1>1, <1>2 DEF TypeOK, Places
<1>4. /\ entry'[key[p]] = "torn" /\ opener'[key[p]] = p /\ pc'[p] = "write"
      /\ \A k \in Keys \ {key[p]} : entry'[k] = entry[k] /\ opener'[k] = opener[k]
      /\ \A q \in Procs \ {p} : pc'[q] = pc[q]
  BY <1>1, <1>2 DEF TypeOK
<1>5. TornHasWriter'
  BY <1>1, <1>2, <1>4 DEF CacheInv, TornHasWriter
<1>6. ASSUME Undisturbed' PROVE Alone'
  <2>1. Alone
    BY <1>1, <1>4, <1>6 DEF CacheInv, Undisturbed
  <2>2. \A q \in Procs : Up(q) => q = p
    BY <1>1, <2>1 DEF Alone, Up
  <2>3. sidecar[key[p]] = "absent"
    BY <1>1, <1>2, <2>1, <2>2 DEF Alone, Up
  <2>4. \A q \in Procs \ {p} : pc'[q] = "new"
    BY <1>4, <1>6, <2>2 DEF Up, Undisturbed
  <2> QED BY <1>1, <1>2, <1>4, <2>1, <2>2, <2>3, <2>4 DEF Alone, Up
<1> QED BY <1>3, <1>5, <1>6 DEF CacheInv

LEMMA FillKeepsInv ==
  ASSUME CacheInv, NEW p \in Procs, Fill(p), mingled' = mingled
  PROVE  CacheInv'
<1>1. /\ pc[p] = "write" /\ key' = key /\ UNCHANGED <<seen, doomed, sidecar, slipped>> /\ opener' = opener
      /\ pc' = [pc EXCEPT ![p] = "sidecar"]
      /\ entry' = IF entry[key[p]] = "absent" THEN entry
                  ELSE [entry EXCEPT ![key[p]] = IF opener[key[p]] = p THEN "whole" ELSE @]
  BY DEF Fill, Goto, EvictUnchanged
<1>2. key[p] \in Keys /\ TypeOK
  BY <1>1 DEF CacheInv, TypeOK
<1>3. TypeOK'
  BY <1>1, <1>2 DEF TypeOK, Places
<1>4. /\ pc'[p] = "sidecar" /\ \A q \in Procs \ {p} : pc'[q] = pc[q]
      /\ \A k \in Keys : k # key[p] \/ opener[k] # p => entry'[k] = entry[k]
      /\ entry'[key[p]] = "torn" => opener[key[p]] # p
      /\ opener[key[p]] = p /\ entry[key[p]] = "torn" => entry'[key[p]] = "whole"
  BY <1>1, <1>2 DEF TypeOK
<1>5. TornHasWriter'
  BY <1>1, <1>2, <1>4 DEF CacheInv, TornHasWriter
<1>6. ASSUME Undisturbed' PROVE Alone'
  <2>1. Alone
    BY <1>1, <1>4, <1>6 DEF CacheInv, Undisturbed
  <2>2. \A q \in Procs \ {p} : pc'[q] = "new"
    BY <1>1, <1>4, <1>6, <2>1 DEF Alone, Up, Undisturbed
  <2>3. entry'[key[p]] = "whole" /\ \A k \in Keys \ {key[p]} : entry'[k] = entry[k]
    BY <1>1, <1>4, <2>1 DEF Alone
  <2> QED BY <1>1, <1>2, <1>4, <2>1, <2>2, <2>3 DEF Alone, Up
<1> QED BY <1>3, <1>5, <1>6 DEF CacheInv

LEMMA WriteFailsKeepsInv ==
  ASSUME CacheInv, NEW p \in Procs, WriteFails(p), mingled' = mingled
  PROVE  CacheInv'
<1>1. /\ pc[p] = "write" /\ key' = key /\ UNCHANGED <<seen, doomed, sidecar, slipped>>
      /\ pc' = [pc EXCEPT ![p] = "idle"]
      /\ entry' = [entry EXCEPT ![key[p]] = "absent"]
      /\ opener' = [opener EXCEPT ![key[p]] = Nobody]
  BY DEF WriteFails, CleanUp, DeleteEntry, Deleted, Return, Goto, EvictUnchanged
<1>2. key[p] \in Keys /\ TypeOK
  BY <1>1 DEF CacheInv, TypeOK
<1>3. TypeOK'
  BY <1>1, <1>2 DEF TypeOK, Places
<1>4. /\ pc'[p] = "idle" /\ \A q \in Procs \ {p} : pc'[q] = pc[q]
      /\ \A k \in Keys \ {key[p]} : entry'[k] = entry[k] /\ opener'[k] = opener[k]
      /\ entry'[key[p]] = "absent"
  BY <1>1, <1>2 DEF TypeOK
<1>5. TornHasWriter'
  BY <1>1, <1>2, <1>4 DEF CacheInv, TornHasWriter
<1>6. ASSUME Undisturbed' PROVE Alone'
  <2>1. Alone
    BY <1>1, <1>4, <1>6 DEF CacheInv, Undisturbed
  <2>2. \A q \in Procs \ {p} : pc'[q] = "new"
    BY <1>1, <1>4, <1>6, <2>1 DEF Alone, Up, Undisturbed
  <2> QED BY <1>1, <1>2, <1>4, <2>1, <2>2 DEF Alone, Up
<1> QED BY <1>3, <1>5, <1>6 DEF CacheInv

LEMMA WriteSidecarKeepsInv ==
  ASSUME CacheInv, NEW p \in Procs, WriteSidecar(p) \/ SidecarFails(p), mingled' = mingled
  PROVE  CacheInv'
<1>1. /\ pc[p] = "sidecar" /\ UNCHANGED <<entry, opener, key, seen, doomed>>
      /\ \/ /\ sidecar' = [sidecar EXCEPT ![key[p]] = "whole"]
            /\ slipped' = slipped \ {key[p]}
            /\ pc' = [pc EXCEPT ![p] = "glob"]
         \/ /\ \E left \in {"torn", sidecar[key[p]]} : sidecar' = [sidecar EXCEPT ![key[p]] = left]
            /\ slipped' = slipped \cup {key[p]}
            /\ pc' = [pc EXCEPT ![p] = "idle"]
  BY DEF WriteSidecar, SidecarFails, Return, Goto, EvictUnchanged
<1>2. key[p] \in Keys /\ TypeOK
  BY <1>1 DEF CacheInv, TypeOK
<1>3. TypeOK'
  BY <1>1, <1>2 DEF TypeOK, Places
<1>4. pc'[p] \in {"glob", "idle"} /\ \A q \in Procs \ {p} : pc'[q] = pc[q]
  BY <1>1, <1>2 DEF TypeOK
<1>5. TornHasWriter'
  BY <1>1, <1>4 DEF CacheInv, TornHasWriter
<1>6. ASSUME Undisturbed' PROVE Alone'
  <2>1. Alone
    BY <1>1, <1>4, <1>6 DEF CacheInv, Undisturbed
  <2>2. \A q \in Procs \ {p} : pc'[q] = "new"
    BY <1>1, <1>4, <1>6, <2>1 DEF Alone, Up, Undisturbed
  <2>3. /\ sidecar'[key[p]] # "absent" \/ key[p] \in slipped'
        /\ sidecar'[key[p]] = "whole" <=> key[p] \notin slipped'
        /\ \A k \in Keys \ {key[p]} :
             sidecar'[k] = sidecar[k] /\ (k \in slipped' <=> k \in slipped)
    <3>1. sidecar[key[p]] = "absent"
      BY <1>1, <2>1 DEF Alone
    <3> QED BY <1>1, <1>2, <3>1 DEF TypeOK
  <2>4. entry[key[p]] = "whole"
    BY <1>1, <2>1 DEF Alone
  <2> QED BY <1>1, <1>2, <1>4, <2>1, <2>2, <2>3, <2>4 DEF Alone, Up
<1> QED BY <1>3, <1>5, <1>6 DEF CacheInv

\* Eviction deletes an entry, which leaves its metadata alone for one step.
LEMMA UnlinkKeepsInv ==
  ASSUME CacheInv, NEW p \in Procs, Unlink(p), mingled' = mingled
  PROVE  CacheInv'
<1>1. pc[p] = "unlink" /\ UNCHANGED <<sidecar, slipped, key, seen, doomed>> /\ TypeOK
  BY DEF Unlink, EvictUnchanged, CacheInv
<1>2. CASE doomed[p] = <<>>
  <2>1. UNCHANGED <<entry, opener>> /\ pc' = [pc EXCEPT ![p] = "idle"]
    BY <1>2 DEF Unlink, Return, Goto
  <2>2. TypeOK'
    BY <1>1, <2>1 DEF TypeOK, Places
  <2>3. pc'[p] = "idle" /\ \A q \in Procs \ {p} : pc'[q] = pc[q]
    BY <1>1, <2>1 DEF TypeOK
  <2>4. TornHasWriter'
    BY <1>1, <2>1, <2>3 DEF CacheInv, TornHasWriter
  <2>5. ASSUME Undisturbed' PROVE Alone'
    <3>1. Alone
      BY <1>1, <2>3, <2>5 DEF CacheInv, Undisturbed
    <3>2. \A q \in Procs : Up(q)' <=> Up(q)
      BY <1>1, <2>3 DEF Up
    <3> QED BY <1>1, <2>1, <2>3, <3>1, <3>2 DEF Alone
  <2> QED BY <2>2, <2>4, <2>5 DEF CacheInv
<1>3. CASE doomed[p] # <<>>
  <2> DEFINE d == Head(doomed[p])
  <2>1. /\ entry' = [entry EXCEPT ![d] = "absent"] /\ opener' = [opener EXCEPT ![d] = Nobody]
        /\ pc' = [pc EXCEPT ![p] = "unlink_sidecar"]
    BY <1>3 DEF Unlink, DeleteEntry, Deleted, Goto
  <2> HIDE DEF d
  <2>2. TypeOK'
    BY <1>1, <2>1 DEF TypeOK, Places
  <2>3. /\ pc'[p] = "unlink_sidecar" /\ \A q \in Procs \ {p} : pc'[q] = pc[q]
        /\ \A k \in Keys : k # d => entry'[k] = entry[k] /\ opener'[k] = opener[k]
        /\ \A k \in Keys : k = d => entry'[k] = "absent"
    BY <1>1, <2>1 DEF TypeOK
  <2>4. TornHasWriter'
    BY <1>1, <2>3 DEF CacheInv, TornHasWriter
  <2>5. ASSUME Undisturbed' PROVE Alone'
    <3>1. Alone
      BY <1>1, <2>3, <2>5 DEF CacheInv, Undisturbed
    <3>2. \A q \in Procs \ {p} : pc'[q] = "new"
      BY <1>1, <2>3, <2>5, <3>1 DEF Alone, Up, Undisturbed
    <3>3. \A k \in Keys : k = Head(doomed'[p]) <=> k = d
      BY <1>1 DEF d
    <3> QED BY <1>1, <2>3, <3>1, <3>2, <3>3 DEF Alone, Up
  <2> QED BY <2>2, <2>4, <2>5 DEF CacheInv
<1> QED BY <1>2, <1>3

LEMMA UnlinkSidecarKeepsInv ==
  ASSUME CacheInv, NEW p \in Procs, UnlinkSidecar(p), mingled' = mingled
  PROVE  CacheInv'
<1> DEFINE d == Head(doomed[p])
<1>1. /\ pc[p] = "unlink_sidecar" /\ UNCHANGED <<entry, opener, slipped, key, seen>> /\ TypeOK
      /\ sidecar' = [sidecar EXCEPT ![d] = "absent"] /\ pc' = [pc EXCEPT ![p] = "unlink"]
      /\ doomed' = [doomed EXCEPT ![p] = Tail(@)]
  BY DEF UnlinkSidecar, SidecarGoes, Goto, CacheInv
<1>2. TypeOK'
  <2>1. PICK S : doomed \in [Procs -> S]
    BY <1>1 DEF TypeOK
  <2>2. doomed' \in [Procs -> S \cup {Tail(doomed[p])}]
    BY <1>1, <2>1
  <2>3. \E T : doomed' \in [Procs -> T]
    BY <2>2
  <2> QED BY <1>1, <2>3 DEF TypeOK, Places
<1>3. pc'[p] = "unlink" /\ \A q \in Procs \ {p} : pc'[q] = pc[q]
  BY <1>1 DEF TypeOK
<1>4. TornHasWriter'
  BY <1>1, <1>3 DEF CacheInv, TornHasWriter
<1>5. ASSUME Undisturbed' PROVE Alone'
  <2>1. Alone
    BY <1>1, <1>3, <1>5 DEF CacheInv, Undisturbed
  <2>2. \A q \in Procs \ {p} : pc'[q] = "new" /\ pc[q] = "new"
    BY <1>1, <1>3, <1>5, <2>1 DEF Alone, Up, Undisturbed
  <2>3. \A k \in Keys : k = d => entry[k] = "absent"
    BY <1>1, <2>1 DEF Alone
  <2>4. \A k \in Keys : k # d /\ sidecar[k] # "absent" => entry[k] = "whole"
    BY <1>1, <2>1, <2>2 DEF Alone
  <2>5. \A k \in Keys : sidecar'[k] = IF k = d THEN "absent" ELSE sidecar[k]
    BY <1>1 DEF TypeOK
  <2> HIDE DEF d
  <2> QED BY <1>1, <1>3, <2>1, <2>2, <2>3, <2>4, <2>5 DEF Alone, Up
<1> QED BY <1>2, <1>4, <1>5 DEF CacheInv

LEMMA BootKeepsInv ==
  ASSUME CacheInv, NEW p \in Procs, Boot(p)
  PROVE  CacheInv'
<1>1. /\ pc[p] = "new" /\ UNCHANGED <<entry, opener, sidecar, slipped, key, seen, doomed>> /\ TypeOK
      /\ pc' = [pc EXCEPT ![p] = "idle"] /\ mingled' = (mingled \/ \E q \in Procs : Up(q))
  BY DEF Boot, FilesUnchanged, EvictUnchanged, Goto, CacheInv
<1>2. TypeOK'
  BY <1>1 DEF TypeOK, Places
<1>3. pc'[p] = "idle" /\ \A q \in Procs \ {p} : pc'[q] = pc[q]
  BY <1>1 DEF TypeOK
<1>4. TornHasWriter'
  BY <1>1, <1>3 DEF CacheInv, TornHasWriter
<1>5. ASSUME Undisturbed' PROVE Alone'
  <2>1. ~mingled /\ \A q \in Procs : ~Up(q)
    BY <1>1, <1>5 DEF Undisturbed
  <2>2. Alone
    BY <1>1, <1>3, <1>5, <2>1 DEF CacheInv, Undisturbed
  <2>3. \A q \in Procs \ {p} : ~Up(q)'
    BY <1>3, <2>1 DEF Up
  <2> QED BY <1>1, <1>3, <2>2, <2>3 DEF Alone
<1> QED BY <1>2, <1>4, <1>5 DEF CacheInv

LEMMA CrashKeepsInv ==
  ASSUME CacheInv, NEW p \in Procs, Crash(p)
  PROVE  CacheInv'
<1>1. /\ UNCHANGED <<entry, opener, sidecar, slipped, key, mingled>> /\ TypeOK
      /\ seen' = [seen EXCEPT ![p] = {}]
      /\ pc' = [pc EXCEPT ![p] = "dead"] /\ doomed' = [doomed EXCEPT ![p] = <<>>]
  BY DEF Crash, FilesUnchanged, Goto, CacheInv
<1>2. TypeOK'
  <2>1. PICK S : doomed \in [Procs -> S]
    BY <1>1 DEF TypeOK
  <2>2. doomed' \in [Procs -> S \cup {<<>>}]
    BY <1>1, <2>1
  <2>3. \E T : doomed' \in [Procs -> T]
    BY <2>2
  <2> QED BY <1>1, <2>3 DEF TypeOK, Places
<1>3. pc'[p] = "dead" /\ \A q \in Procs \ {p} : pc'[q] = pc[q]
  BY <1>1 DEF TypeOK
<1>4. TornHasWriter'
  BY <1>1, <1>3 DEF CacheInv, TornHasWriter
<1>5. ~Undisturbed'
  BY <1>3 DEF Undisturbed
<1> QED BY <1>2, <1>4, <1>5 DEF CacheInv
-----------------------------------------------------------------------------
LEMMA CacheInvStep == CacheInv /\ [Next]_vars => CacheInv'
<1> SUFFICES ASSUME CacheInv, [Next]_vars PROVE CacheInv'
  OBVIOUS
<1>1. CASE UNCHANGED vars
  <2>1. UNCHANGED <<entry, opener, sidecar, slipped, pc, key, seen, doomed, mingled>>
    BY <1>1 DEF vars
  <2> QED BY <2>1 DEF CacheInv, TypeOK, TornHasWriter, Undisturbed, Alone, Up
<1>2. ASSUME NEW p \in Procs, Run(p) PROVE CacheInv'
  <2>1. mingled' = mingled /\ (Call(p) \/ \E k \in Keys : Begin(p, k))
    BY <1>2 DEF Run
  <2> QED BY <2>1, BeginKeepsInv, QuietKeepsInv, OpenKeepsInv, FillKeepsInv, WriteFailsKeepsInv,
             WriteSidecarKeepsInv, UnlinkKeepsInv, UnlinkSidecarKeepsInv DEF Call
<1>3. ASSUME NEW p \in Procs, Boot(p) \/ Crash(p) PROVE CacheInv'
  BY <1>3, BootKeepsInv, CrashKeepsInv
<1> QED BY <1>1, <1>2, <1>3 DEF Next

\* While one process at a time uses the directory and none has died, every
\* entry is whole between calls and, unless its sidecar's write raised,
\* described; no sidecar outlives its entry; and an entry cut short always has
\* its writer, still at it or dead, for any number of processes that write,
\* fail and evict at the same time (sweep_cache.py, compute_cache.py).
THEOREM CacheIsDescribed == Spec => []EntriesAreDescribed
BY CacheInvInit, CacheInvStep, InvDescribes, PTL DEF Spec
-----------------------------------------------------------------------------
(***************************************************************************)
(* Why a call that missed leaves its own entry behind.  The eviction takes *)
(* what has KeepMost younger files; nothing is younger than what the call  *)
(* has just written, and no more than KeepMost files have fewer than       *)
(* KeepMost younger ones, since each of them has another number of them.   *)
(***************************************************************************)
\* The directory holds finitely many files, and their mtimes order them.
FilesOrdered ==
  /\ IsFiniteSet(Entries)
  /\ older \subseteq Entries \X Entries
  /\ \A j, k \in Entries : j # k => <<j, k>> \in older \/ <<k, j>> \in older
  /\ \A j, k \in Entries : <<j, k>> \in older => <<k, j>> \notin older
  /\ \A i, j, k \in Entries : <<i, j>> \in older /\ <<j, k>> \in older => <<i, k>> \in older

LEMMA PairOfOlder ==
  ASSUME FilesOrdered, NEW j, NEW k, <<j, k>> \in older
  PROVE  j \in Entries /\ k \in Entries /\ j # k
BY DEF FilesOrdered

\* A file that is written becomes the youngest.
LEMMA LatestKeepsOrder ==
  ASSUME FilesOrdered, NEW k, Latest(k), Entries' = Entries \cup {k}
  PROVE  FilesOrdered' /\ \A j : <<k, j>> \notin older'
<1> DEFINE E == Entries
<1>1. IsFiniteSet(Entries')
  BY FS_AddElement DEF FilesOrdered
<1>2. \A i, j : <<i, j>> \in older' <=> \/ <<i, j>> \in older /\ i # k /\ j # k
                                        \/ i \in E \ {k} /\ j = k
  <2>1. older' = Without(k) \cup ((E \ {k}) \X {k})
    BY DEF Latest
  <2>2. \A i, j : <<i, j>> \in Without(k) <=> <<i, j>> \in older /\ i # k /\ j # k
    BY DEF Without
  <2> HIDE DEF E
  <2> QED BY <2>1, <2>2
<1>3. \A x \in older' : x = <<x[1], x[2]>>
  BY DEF Latest, Without, FilesOrdered
<1>4. /\ \A i, j : <<i, j>> \in older => i \in E /\ j \in E
      /\ \A i, j \in E : i # j => <<i, j>> \in older \/ <<j, i>> \in older
      /\ \A i, j \in E : <<i, j>> \in older => <<j, i>> \notin older
      /\ \A i, j, l \in E : <<i, j>> \in older /\ <<j, l>> \in older => <<i, l>> \in older
  BY DEF FilesOrdered
<1>5. \A i, j : <<i, j>> \in older' => i \in E \cup {k} /\ j \in E \cup {k}
  BY <1>2, <1>4
<1>6. older' \subseteq (E \cup {k}) \X (E \cup {k})
  BY <1>3, <1>5
<1> HIDE DEF E
<1>7. \A i, j \in E \cup {k} : i # j => <<i, j>> \in older' \/ <<j, i>> \in older'
  BY <1>2, <1>4
<1>8. \A i, j \in E \cup {k} : <<i, j>> \in older' => <<j, i>> \notin older'
  BY <1>2, <1>4
<1>9. \A i, j, l \in E \cup {k} : <<i, j>> \in older' /\ <<j, l>> \in older' => <<i, l>> \in older'
  BY <1>2, <1>4
<1>10. \A j : <<k, j>> \notin older'
  BY <1>2
<1>11. Entries' = E \cup {k}
  BY DEF E
<1> QED BY <1>1, <1>6, <1>7, <1>8, <1>9, <1>10, <1>11 DEF FilesOrdered

\* The files that remain keep their order when one is deleted.
LEMMA DeleteKeepsOrder ==
  ASSUME FilesOrdered, NEW k, older' = Without(k), Entries' = Entries \ {k}
  PROVE  FilesOrdered'
<1>1. IsFiniteSet(Entries')
  BY FS_Subset DEF FilesOrdered
<1>2. \A i, j : <<i, j>> \in older' <=> <<i, j>> \in older /\ i # k /\ j # k
  BY DEF Without
<1>3. older' \subseteq Entries' \X Entries'
  BY DEF Without, FilesOrdered
<1> QED BY <1>1, <1>2, <1>3 DEF FilesOrdered

LEMMA SameFilesSameOrder ==
  ASSUME FilesOrdered, Entries' = Entries, older' = older
  PROVE  FilesOrdered'
BY DEF FilesOrdered

LEMMA OrderStep == TypeOK /\ FilesOrdered /\ [Next]_vars => FilesOrdered'
<1> SUFFICES ASSUME TypeOK, FilesOrdered, [Next]_vars PROVE FilesOrdered'
  OBVIOUS
<1>1. CASE UNCHANGED <<entry, older>>
  BY <1>1, SameFilesSameOrder DEF Entries
<1>2. ASSUME NEW p \in Procs, Open(p) PROVE FilesOrdered'
  <2>1. key[p] \in Keys /\ entry' = [entry EXCEPT ![key[p]] = "torn"] /\ Latest(key[p])
    BY <1>2 DEF Open, TypeOK
  <2>2. Entries' = Entries \cup {key[p]}
    BY <2>1 DEF Entries, TypeOK
  <2> QED BY <2>1, <2>2, LatestKeepsOrder
<1>3. ASSUME NEW p \in Procs, Fill(p), ~UNCHANGED <<entry, older>> PROVE FilesOrdered'
  <2>1. /\ key[p] \in Keys /\ entry[key[p]] # "absent" /\ Latest(key[p])
        /\ entry' = [entry EXCEPT ![key[p]] = IF opener[key[p]] = p THEN "whole" ELSE @]
    BY <1>3 DEF Fill, TypeOK
  <2>2. Entries' = Entries \cup {key[p]}
    BY <2>1 DEF Entries, TypeOK
  <2> QED BY <2>1, <2>2, LatestKeepsOrder
<1>4. ASSUME NEW k, DeleteEntry(k) PROVE FilesOrdered'
  <2>1. entry' = [entry EXCEPT ![k] = "absent"] /\ older' = Without(k)
    BY <1>4 DEF DeleteEntry, Deleted
  <2>2. Entries' = Entries \ {k}
    BY <2>1 DEF Entries, TypeOK
  <2> QED BY <2>1, <2>2, DeleteKeepsOrder
<1>5. ASSUME NEW p \in Procs, Run(p), ~UNCHANGED <<entry, older>> PROVE FilesOrdered'
  BY <1>5, <1>2, <1>3, <1>4 DEF Run, Call, Begin, Read, Raise, WriteFails, CleanUp, WriteSidecar,
                               SidecarFails, Glob, Stat, Unlink, UnlinkSidecar, FilesUnchanged
<1> QED BY <1>1, <1>5 DEF Next, Boot, Crash, FilesUnchanged, vars
-----------------------------------------------------------------------------
\* Of two files the older has more younger ones.
LEMMA OlderHasMore ==
  ASSUME FilesOrdered, NEW f \in Entries, NEW g \in Entries, <<f, g>> \in older
  PROVE  /\ Cardinality(Younger(f, Entries)) \in Nat /\ Cardinality(Younger(g, Entries)) \in Nat
         /\ Cardinality(Younger(g, Entries)) < Cardinality(Younger(f, Entries))
<1> DEFINE yf == Younger(f, Entries)
           yg == Younger(g, Entries)
<1>1. IsFiniteSet(yf) /\ IsFiniteSet(yg)
  BY FS_Subset DEF FilesOrdered, Younger
<1>2. yg \subseteq yf /\ g \in yf /\ g \notin yg
  BY DEF FilesOrdered, Younger
<1> HIDE DEF yf, yg
<1>3. Cardinality(yf) \in Nat /\ Cardinality(yg) \in Nat /\ Cardinality(yg) <= Cardinality(yf)
      /\ (Cardinality(yf) = Cardinality(yg) => yf = yg)
  BY <1>1, <1>2, FS_Subset, FS_CardinalityType
<1> QED BY <1>2, <1>3 DEF yf, yg

\* Eviction leaves at most KeepMost files.
LEMMA EvictionSuffices ==
  ASSUME FilesOrdered
  PROVE  Cardinality(Entries \ OldestBeyondKeep(Entries)) <= KeepMost
<1> DEFINE kept  == Entries \ OldestBeyondKeep(Entries)
           count == [f \in kept |-> Cardinality(Younger(f, Entries))]
<1>1. KeepMost \in Nat /\ KeepMost > 0
  BY CacheAssumption
<1>2. ASSUME NEW f \in kept PROVE f \in Entries /\ count[f] \in 0 .. KeepMost - 1
  <2>1. f \in Entries /\ ~(Cardinality(Younger(f, Entries)) >= KeepMost)
    BY DEF OldestBeyondKeep
  <2>2. Cardinality(Younger(f, Entries)) \in Nat
    BY FS_Subset, FS_CardinalityType DEF FilesOrdered, Younger
  <2> QED BY <1>1, <2>1, <2>2
<1>3. ASSUME NEW f \in kept, NEW g \in kept, count[f] = count[g] PROVE f = g
  <2>1. f \in Entries /\ g \in Entries
    OBVIOUS
  <2>2. Cardinality(Younger(f, Entries)) = Cardinality(Younger(g, Entries))
    BY <1>3
  <2>3. <<f, g>> \notin older /\ <<g, f>> \notin older
    BY <2>1, <2>2, OlderHasMore
  <2> QED BY <2>1, <2>3 DEF FilesOrdered
<1> HIDE DEF kept
<1>4. count \in [kept -> 0 .. KeepMost - 1]
  BY <1>2
<1> HIDE DEF count
<1>5. count \in Injection(kept, 0 .. KeepMost - 1)
  BY <1>3, <1>4 DEF Injection, IsInjective
<1>6. IsFiniteSet(0 .. KeepMost - 1) /\ Cardinality(0 .. KeepMost - 1) = KeepMost
  BY <1>1, FS_Interval
<1>7. Cardinality(kept) <= KeepMost
  BY <1>5, <1>6, FS_Injection
<1> QED BY <1>7 DEF kept

\* The files that a list names.
Listed(s) == {s[n] : n \in DOMAIN s}

\* The list to delete names just the files that it was made of.
LEMMA ListNamesAll ==
  ASSUME FilesOrdered, NEW files \in SUBSET Entries, NEW s \in NewestFirst(files)
  PROVE  s \in Seq(files) /\ Listed(s) = files
<1> DEFINE n == Cardinality(files)
<1>1. IsFiniteSet(files) /\ n \in Nat
  BY FS_Subset, FS_CardinalityType DEF FilesOrdered
<1>2. s \in [1..n -> files] /\ \A i, j \in 1..n : i < j => <<s[j], s[i]>> \in older
  BY DEF NewestFirst
<1>3. IsFiniteSet(1..n) /\ Cardinality(1..n) = n
  <2> HIDE DEF n
  <2> QED BY <1>1, FS_Interval
<1> HIDE DEF n
<1>4. \A i, j \in 1..n : s[i] = s[j] => i = j
  <2> SUFFICES ASSUME NEW i \in 1..n, NEW j \in 1..n, s[i] = s[j], i # j PROVE FALSE
    OBVIOUS
  <2>1. <<s[i], s[i]>> \in older
    BY <1>1, <1>2
  <2> QED BY <2>1, PairOfOlder
<1>5. s \in Injection(1..n, files)
  BY <1>2, <1>4 DEF Injection, IsInjective
<1>6. s \in Surjection(1..n, files)
  BY <1>1, <1>3, <1>5, FS_Injection DEF n
<1>7. Listed(s) = files
  BY <1>2, <1>6 DEF Surjection, Listed
<1> QED BY <1>1, <1>2, <1>7
-----------------------------------------------------------------------------
Written == {"sidecar", "glob", "stat", "unlink", "unlink_sidecar"}
Evicting == {"unlink", "unlink_sidecar"}

\* What a call that missed has left of its own file, and of the others.
KeptBy(p) ==
  /\ pc[p] \in {"write"} \cup Written => key[p] \in Keys
  /\ pc[p] = "write" => entry[key[p]] = "torn" /\ opener[key[p]] = p
  /\ pc[p] \in Written => entry[key[p]] = "whole"
  /\ pc[p] \in {"write", "sidecar", "glob", "stat"} => \A j : <<key[p], j>> \notin older
  /\ pc[p] = "stat" => seen[p] = Entries
  /\ pc[p] \in Evicting => /\ doomed[p] \in Seq(Keys)
                           /\ key[p] \notin Listed(doomed[p])
                           /\ Cardinality(Entries \ Listed(doomed[p])) <= KeepMost
  /\ pc[p] = "unlink_sidecar" => doomed[p] # <<>> /\ entry[Head(doomed[p])] = "absent"

Kept == ~mingled => /\ \A p, q \in Procs : Up(p) /\ Up(q) => p = q
                    /\ \A p \in Procs : KeptBy(p)

\* Only the process that is up has to be looked at.
LEMMA OthersRest ==
  ASSUME Kept, ~mingled, NEW p \in Procs, Up(p), \A q \in Procs \ {p} : pc'[q] = pc[q], KeptBy(p)'
  PROVE  Kept'
<1>1. \A q \in Procs \ {p} : pc'[q] \in {"new", "dead"}
  BY DEF Kept, Up
<1>2. \A q \in Procs \ {p} : KeptBy(q)'
  BY <1>1 DEF KeptBy, Written, Evicting
<1> QED BY <1>1, <1>2 DEF Kept, Up

KeepInv == TypeOK /\ FilesOrdered /\ Kept /\ result \in [Procs -> Results]

\* Before anything has been written nothing is asked of the call.
LEMMA LightStep ==
  ASSUME KeepInv, ~mingled, NEW p \in Procs, Up(p), \A q \in Procs \ {p} : pc'[q] = pc[q],
         pc'[p] \notin {"write"} \cup Written
  PROVE  Kept'
BY OthersRest DEF KeepInv, KeptBy, Written, Evicting

\* A step that leaves the files alone.
LEMMA SameFiles == FilesUnchanged => Entries' = Entries /\ entry' = entry /\ older' = older
  BY DEF FilesUnchanged, Entries

LEMMA OpenKept ==
  ASSUME KeepInv, ~mingled, NEW p \in Procs, Open(p)
  PROVE  Kept'
<1>1. key[p] \in Keys /\ Up(p) /\ key' = key
  BY DEF Open, KeepInv, TypeOK, Up
<1>2. /\ pc'[p] = "write" /\ entry'[key[p]] = "torn" /\ opener'[key[p]] = p
      /\ \A q \in Procs \ {p} : pc'[q] = pc[q]
      /\ Entries' = Entries \cup {key[p]} /\ Latest(key[p])
  BY <1>1 DEF Open, Goto, KeepInv, TypeOK, Entries
<1>3. \A j : <<key[p], j>> \notin older'
  BY <1>2, LatestKeepsOrder DEF KeepInv
<1>4. KeptBy(p)'
  BY <1>1, <1>2, <1>3 DEF KeptBy, Written, Evicting
<1> QED BY <1>1, <1>2, <1>4, OthersRest DEF KeepInv

LEMMA FillKept ==
  ASSUME KeepInv, ~mingled, NEW p \in Procs, Fill(p)
  PROVE  Kept'
<1>1. key[p] \in Keys /\ Up(p) /\ key' = key /\ entry[key[p]] = "torn" /\ opener[key[p]] = p
  BY DEF Fill, KeepInv, TypeOK, Up, Kept, KeptBy
<1>2. /\ pc'[p] = "sidecar" /\ entry'[key[p]] = "whole"
      /\ \A q \in Procs \ {p} : pc'[q] = pc[q]
      /\ Entries' = Entries \cup {key[p]} /\ Latest(key[p])
  BY <1>1 DEF Fill, Goto, KeepInv, TypeOK, Entries
<1>3. \A j : <<key[p], j>> \notin older'
  BY <1>2, LatestKeepsOrder DEF KeepInv
<1>4. KeptBy(p)'
  BY <1>1, <1>2, <1>3 DEF KeptBy, Written, Evicting
<1> QED BY <1>1, <1>2, <1>4, OthersRest DEF KeepInv

LEMMA ListingKept ==
  ASSUME KeepInv, ~mingled, NEW p \in Procs, WriteSidecar(p) \/ Glob(p)
  PROVE  Kept'
<1>1. /\ pc[p] \in {"sidecar", "glob"} /\ Up(p)
      /\ UNCHANGED <<entry, older, key>>
      /\ \/ pc' = [pc EXCEPT ![p] = "glob"]
         \/ pc' = [pc EXCEPT ![p] = "stat"] /\ seen' = [seen EXCEPT ![p] = Entries]
  BY DEF WriteSidecar, Glob, Goto, FilesUnchanged, Up
<1>2. /\ pc'[p] = "glob" \/ (pc'[p] = "stat" /\ seen'[p] = Entries')
      /\ \A q \in Procs \ {p} : pc'[q] = pc[q]
  <2>1. Entries' = Entries /\ pc \in [Procs -> Places]
        /\ seen \in [Procs -> SUBSET Keys]
    BY <1>1 DEF KeepInv, TypeOK, Entries
  <2> QED BY <1>1, <2>1
<1>3. KeptBy(p)
  BY DEF KeepInv, Kept
<1>4. KeptBy(p)'
  BY <1>1, <1>2, <1>3 DEF KeptBy, Written, Evicting
<1> QED BY <1>1, <1>2, <1>4, OthersRest DEF KeepInv

\* The call's own file has no younger one, so that it is not on the list, and
\* what is not on the list are at most KeepMost.
LEMMA StatKept ==
  ASSUME KeepInv, ~mingled, NEW p \in Procs, Stat(p)
  PROVE  Kept'
<1>1. /\ pc[p] = "stat" /\ Up(p) /\ key[p] \in Keys /\ entry[key[p]] = "whole" /\ seen[p] = Entries
      /\ \A j : <<key[p], j>> \notin older
  BY DEF Stat, Up, KeepInv, Kept, KeptBy, Written, Evicting
<1> DEFINE stale == OldestBeyondKeep(Entries)
<1>2. PICK s \in NewestFirst(stale) : doomed' = [doomed EXCEPT ![p] = s]
  BY <1>1 DEF Stat
<1>3. /\ pc' = [pc EXCEPT ![p] = "unlink"] /\ UNCHANGED <<entry, older, key>>
  BY <1>1 DEF Stat, Goto, FilesUnchanged
<1>4. stale \subseteq Entries
  BY DEF OldestBeyondKeep
<1>5. s \in Seq(stale) /\ Listed(s) = stale
  BY <1>2, <1>4, ListNamesAll DEF KeepInv
<1>6. key[p] \notin stale
  <2>1. Younger(key[p], Entries) = {}
    BY <1>1 DEF Younger
  <2>2. Cardinality(Younger(key[p], Entries)) = 0
    BY <2>1, FS_EmptySet
  <2> QED BY <2>2, CacheAssumption DEF OldestBeyondKeep
<1>7. Cardinality(Entries \ stale) <= KeepMost
  BY EvictionSuffices DEF KeepInv
<1> HIDE DEF stale
<1>8. s \in Seq(Keys)
  BY <1>4, <1>5 DEF Entries
<1>9. /\ pc'[p] = "unlink" /\ doomed'[p] = s /\ Entries' = Entries
      /\ \A q \in Procs \ {p} : pc'[q] = pc[q]
  BY <1>2, <1>3 DEF KeepInv, TypeOK, Entries
<1>10. KeptBy(p)'
  BY <1>1, <1>3, <1>5, <1>6, <1>7, <1>8, <1>9 DEF KeptBy, Written, Evicting
<1> QED BY <1>1, <1>9, <1>10, OthersRest DEF KeepInv

LEMMA UnlinkKept ==
  ASSUME KeepInv, ~mingled, NEW p \in Procs, Unlink(p)
  PROVE  Kept'
<1>1. /\ pc[p] = "unlink" /\ Up(p) /\ key[p] \in Keys /\ entry[key[p]] = "whole"
      /\ doomed[p] \in Seq(Keys) /\ key[p] \notin Listed(doomed[p])
      /\ Cardinality(Entries \ Listed(doomed[p])) <= KeepMost
  BY DEF Unlink, Up, KeepInv, Kept, KeptBy, Written, Evicting
<1>2. CASE doomed[p] = <<>>
  <2>1. pc'[p] = "idle" /\ \A q \in Procs \ {p} : pc'[q] = pc[q]
    BY <1>2 DEF Unlink, Return, Goto, KeepInv, TypeOK
  <2> QED BY <1>1, <2>1, LightStep DEF Written
<1>3. CASE doomed[p] # <<>>
  <2> DEFINE d == Head(doomed[p])
  <2>1. /\ entry' = [entry EXCEPT ![d] = "absent"] /\ UNCHANGED <<key, doomed>>
        /\ pc' = [pc EXCEPT ![p] = "unlink_sidecar"]
    BY <1>3 DEF Unlink, DeleteEntry, Deleted, Goto, EvictUnchanged
  <2>2. d \in Keys /\ d \in Listed(doomed[p])
    <3>1. 1 \in DOMAIN doomed[p] /\ d = doomed[p][1]
      BY <1>1, <1>3
    <3> QED BY <1>1, <3>1 DEF Listed
  <2> HIDE DEF d
  <2>3. /\ pc'[p] = "unlink_sidecar" /\ \A q \in Procs \ {p} : pc'[q] = pc[q]
        /\ entry'[d] = "absent" /\ entry'[key[p]] = "whole"
        /\ Entries' = Entries \ {d}
    BY <1>1, <2>1, <2>2 DEF KeepInv, TypeOK, Entries
  <2>4. Entries' \ Listed(doomed[p]) = Entries \ Listed(doomed[p])
    BY <2>2, <2>3
  <2>5. doomed'[p] = doomed[p] /\ key'[p] = key[p] /\ Head(doomed'[p]) = d
    BY <2>1 DEF d
  <2>6. KeptBy(p)'
    BY <1>1, <1>3, <2>3, <2>4, <2>5 DEF KeptBy, Written, Evicting
  <2> QED BY <1>1, <2>3, <2>6, OthersRest DEF KeepInv
<1> QED BY <1>2, <1>3

LEMMA UnlinkSidecarKept ==
  ASSUME KeepInv, ~mingled, NEW p \in Procs, UnlinkSidecar(p)
  PROVE  Kept'
<1> DEFINE s == doomed[p]
<1>1. /\ pc[p] = "unlink_sidecar" /\ Up(p) /\ key[p] \in Keys /\ entry[key[p]] = "whole"
      /\ s \in Seq(Keys) /\ key[p] \notin Listed(s) /\ s # <<>> /\ entry[Head(s)] = "absent"
      /\ Cardinality(Entries \ Listed(s)) <= KeepMost
  BY DEF UnlinkSidecar, Up, KeepInv, Kept, KeptBy, Written, Evicting
<1>2. /\ doomed' = [doomed EXCEPT ![p] = Tail(s)] /\ UNCHANGED <<entry, key>>
      /\ pc' = [pc EXCEPT ![p] = "unlink"]
  BY DEF UnlinkSidecar, Goto
<1>3. /\ pc'[p] = "unlink" /\ \A q \in Procs \ {p} : pc'[q] = pc[q]
      /\ doomed'[p] = Tail(s) /\ Entries' = Entries
  BY <1>2 DEF KeepInv, TypeOK, Entries
<1> HIDE DEF s
<1>4. Tail(s) \in Seq(Keys)
  BY <1>1
<1>5. ASSUME NEW k PROVE k \in Listed(s) <=> k \in Listed(Tail(s)) \/ k = Head(s)
  <2>1. /\ DOMAIN s = 1..Len(s) /\ Len(s) \in Nat \ {0} /\ Head(s) = s[1]
        /\ DOMAIN Tail(s) = 1..(Len(s) - 1)
        /\ \A n \in 1..(Len(s) - 1) : Tail(s)[n] = s[n + 1]
    BY <1>1
  <2>2. k \in Listed(s) => k \in Listed(Tail(s)) \/ k = Head(s)
    <3> SUFFICES ASSUME NEW n \in 1..Len(s), k = s[n], n # 1 PROVE k \in Listed(Tail(s))
      BY <2>1 DEF Listed
    <3>1. n - 1 \in 1..(Len(s) - 1) /\ (n - 1) + 1 = n
      BY <2>1
    <3>2. Tail(s)[n - 1] = s[n]
      BY <2>1, <3>1
    <3> QED BY <2>1, <3>1, <3>2 DEF Listed
  <2>3. k \in Listed(Tail(s)) => k \in Listed(s)
    <3> SUFFICES ASSUME NEW n \in 1..(Len(s) - 1), k = Tail(s)[n] PROVE k \in Listed(s)
      BY <2>1 DEF Listed
    <3>1. n + 1 \in 1..Len(s) /\ k = s[n + 1]
      BY <2>1
    <3> QED BY <2>1, <3>1 DEF Listed
  <2>4. k = Head(s) => k \in Listed(s)
    BY <2>1 DEF Listed
  <2> QED BY <2>2, <2>3, <2>4
<1>6. Entries \ Listed(Tail(s)) = Entries \ Listed(s) /\ key[p] \notin Listed(Tail(s))
  BY <1>1, <1>5 DEF Entries
<1>7. KeptBy(p)'
  BY <1>1, <1>2, <1>3, <1>4, <1>6 DEF KeptBy, Written, Evicting
<1> QED BY <1>1, <1>3, <1>7, OthersRest DEF KeepInv
-----------------------------------------------------------------------------
LEMMA KeptStep == KeepInv /\ [Next]_vars => Kept'
<1> SUFFICES ASSUME KeepInv, [Next]_vars, ~mingled' PROVE Kept'
  BY DEF Kept
<1>1. CASE UNCHANGED vars
  <2>1. UNCHANGED <<mingled, pc, key, entry, opener, older, seen, doomed>>
    BY <1>1 DEF vars
  <2>2. Entries' = Entries /\ \A p \in Procs : Up(p)' <=> Up(p)
    BY <2>1 DEF Entries, Up
  <2>3. \A p \in Procs : KeptBy(p) => KeptBy(p)'
    BY <2>1, <2>2 DEF KeptBy
  <2> QED BY <2>1, <2>2, <2>3 DEF KeepInv, Kept
<1>2. ASSUME NEW p \in Procs, Run(p) PROVE Kept'
  <2>1. ~mingled
    BY <1>2 DEF Run
  <2>2. ASSUME \/ Read(p) \/ Raise(p) \/ WriteFails(p) \/ SidecarFails(p)
               \/ \E k \in Keys : Begin(p, k)
        PROVE  Kept'
    <3>1. /\ Up(p)
          /\ \E place \in {"idle", "compute", "read"} : pc' = [pc EXCEPT ![p] = place]
      BY <2>2 DEF Read, Raise, WriteFails, SidecarFails, Begin, Goto, Return, Up
    <3>2. pc'[p] \in {"idle", "compute", "read"} /\ \A q \in Procs \ {p} : pc'[q] = pc[q]
      BY <3>1 DEF KeepInv, TypeOK
    <3> QED BY <2>1, <3>1, <3>2, LightStep DEF Written
  <2> QED BY <1>2, <2>1, <2>2, OpenKept, FillKept, ListingKept, StatKept, UnlinkKept,
             UnlinkSidecarKept DEF Run, Call
<1>3. ASSUME NEW p \in Procs, Boot(p) PROVE Kept'
  <2>1. ~mingled /\ \A q \in Procs : ~Up(q)
    BY <1>3 DEF Boot
  <2>2. pc'[p] = "idle" /\ \A q \in Procs \ {p} : pc'[q] = pc[q]
    BY <1>3 DEF Boot, Goto, KeepInv, TypeOK
  <2>3. \A q \in Procs \ {p} : ~(Up(q)')
    BY <2>1, <2>2 DEF Up
  <2>4. \A q \in Procs : KeptBy(q)'
    BY <2>2, <2>3 DEF KeptBy, Written, Evicting, Up
  <2> QED BY <2>3, <2>4 DEF Kept
<1>4. ASSUME NEW p \in Procs, Crash(p) PROVE Kept'
  <2>1. ~mingled /\ Up(p) /\ pc'[p] = "dead" /\ \A q \in Procs \ {p} : pc'[q] = pc[q]
    BY <1>4 DEF Crash, Goto, KeepInv, TypeOK
  <2> QED BY <2>1, LightStep DEF Written
<1> QED BY <1>1, <1>2, <1>3, <1>4 DEF Next

LEMMA KeepInvInit == Init => KeepInv
<1> SUFFICES ASSUME Init PROVE KeepInv
  OBVIOUS
<1>1. Entries = {} /\ older = {}
  BY DEF Init, Entries
<1>2. FilesOrdered
  BY <1>1, FS_EmptySet DEF FilesOrdered
<1>4. result \in [Procs -> Results]
  BY DEF Init, Results
<1>3. Kept
  BY DEF Init, Kept, KeptBy, Up, Written, Evicting
<1> QED BY <1>2, <1>3, <1>4, CacheInvInit DEF KeepInv, CacheInv

LEMMA ResultStep ==
  result \in [Procs -> Results] /\ [Next]_vars => result' \in [Procs -> Results]
<1> SUFFICES ASSUME result \in [Procs -> Results], [Next]_vars PROVE result' \in [Procs -> Results]
  OBVIOUS
<1>1. ASSUME NEW p \in Procs, Boot(p) \/ Crash(p) \/ Run(p) PROVE result' \in [Procs -> Results]
  <2>1. result' = result \/ \E how \in Results : result' = [result EXCEPT ![p] = how]
    BY <1>1 DEF Boot, Crash, Run, Call, Begin, Read, Raise, Open, Fill, WriteFails, WriteSidecar,
                SidecarFails, Glob, Stat, Unlink, UnlinkSidecar, Return, Results
  <2> QED BY <2>1
<1> QED BY <1>1 DEF Next, vars

\* While processes follow each other, a call that missed leaves its own entry,
\* whole, in the cache and the cache within its capacity, for any capacity and
\* whatever files earlier deaths have left (compute_cache.py:80-92).
THEOREM MissesAreKept == Spec => MissIsKept
<1> DEFINE A == \A p \in Procs :
                  ~mingled /\ Up(p) /\ pc[p] # "idle" /\ pc'[p] = "idle" /\ result'[p] = "miss" =>
                    /\ entry'[key[p]] = "whole"
                    /\ Cardinality({k \in Keys : entry'[k] # "absent"}) <= KeepMost
<1>1. KeepInv /\ [Next]_vars => A
  <2> SUFFICES ASSUME KeepInv, [Next]_vars, NEW p \in Procs, ~mingled, Up(p), pc[p] # "idle",
                      pc'[p] = "idle", result'[p] = "miss"
               PROVE  /\ entry'[key[p]] = "whole"
                      /\ Cardinality({k \in Keys : entry'[k] # "absent"}) <= KeepMost
    OBVIOUS
  <2>1. ASSUME NEW q \in Procs, Boot(q) \/ Crash(q) \/ Run(q) PROVE Unlink(p)
    <3>1. q = p
      <4>1. \E place : pc' = [pc EXCEPT ![q] = place]
        BY <2>1 DEF Boot, Crash, Run, Call, Begin, Read, Raise, Open, Fill, WriteFails,
                    WriteSidecar, SidecarFails, Glob, Stat, Unlink, UnlinkSidecar, Goto, Return
      <4> QED BY <4>1 DEF KeepInv, TypeOK
    <3>2. ASSUME NEW how, how # "miss", Return(p, how) PROVE FALSE
      BY <3>2 DEF Return, KeepInv, TypeOK
    <3>3. ~Boot(p) /\ ~(\E k \in Keys : Begin(p, k))
      BY DEF Boot, Begin, Up
    <3>4. ASSUME NEW place, Goto(p, place) PROVE place = "idle"
      BY <3>4 DEF Goto, KeepInv, TypeOK
    <3>5. ~Crash(p) /\ ~Open(p) /\ ~Fill(p) /\ ~WriteSidecar(p) /\ ~Glob(p) /\ ~UnlinkSidecar(p)
      BY <3>4 DEF Crash, Open, Fill, WriteSidecar, Glob, UnlinkSidecar
    <3>6. ~Read(p) /\ ~Raise(p) /\ ~WriteFails(p) /\ ~SidecarFails(p) /\ ~Stat(p)
      BY <3>2, <3>4 DEF Read, Raise, WriteFails, SidecarFails, Stat
    <3> QED BY <2>1, <3>1, <3>3, <3>5, <3>6 DEF Run, Call
  <2>2. Unlink(p)
    BY <2>1 DEF Next, vars
  <2>3. doomed[p] = <<>> /\ UNCHANGED entry
    BY <2>2 DEF Unlink, Goto, KeepInv, TypeOK
  <2>4. /\ entry[key[p]] = "whole"
        /\ Cardinality(Entries \ Listed(doomed[p])) <= KeepMost
    BY <2>2 DEF Unlink, KeepInv, Kept, KeptBy, Written, Evicting
  <2>5. Entries \ Listed(doomed[p]) = {k \in Keys : entry'[k] # "absent"}
    BY <2>3 DEF Listed, Entries
  <2> QED BY <2>3, <2>4, <2>5
<1>2. TypeOK /\ CacheInv /\ KeepInv /\ [Next]_vars => KeepInv' /\ CacheInv'
  BY CacheInvStep, OrderStep, KeptStep, ResultStep DEF KeepInv, CacheInv
<1>3. CacheInv => TypeOK
  BY DEF CacheInv
<1> QED BY <1>1, <1>2, <1>3, CacheInvInit, KeepInvInit, PTL DEF Spec, MissIsKept
=============================================================================
