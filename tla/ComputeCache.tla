---------------------------- MODULE ComputeCache ----------------------------
(***************************************************************************)
(* The on-disk cache of sweep metrics (engine/src/funnel/backtest/         *)
(* sweep_cache.py) and of regime labels (regime/label_cache.py), with the  *)
(* eviction they share (compute_cache.py).  The two callers have the same  *)
(* control and one instance of this module stands for either.              *)
(*                                                                         *)
(* A server process has one worker, hence one call at a time; sibling      *)
(* processes share the directory.  Files are written in place, so a crash  *)
(* leaves a torn one.  What a file holds is a function of its fingerprint, *)
(* which is all the model keeps of it.                                     *)
(***************************************************************************)
EXTENDS Naturals, Sequences, FiniteSets

CONSTANTS
  Procs,      \* processes
  Keys,       \* fingerprints
  KeepMost    \* MAX_ENTRIES_PER_KIND

ASSUME CacheAssumption == KeepMost \in Nat \ {0}

VARIABLES
  entry,      \* the parquet file of a fingerprint: "absent", "torn" or "whole"
  opener,     \* the process that opened it last (and truncated it)
  sidecar,    \* the .json file of a fingerprint: "absent", "torn" or "whole"
  older,      \* the order of the parquet files by mtime: pairs, the older one first
  pc,         \* each process's place in run_sweep_cached / classify_all_cached
  key,        \* the fingerprint it works on
  seen,       \* evict_oldest: the files that it found in the directory ...
  doomed,     \* ... and those that it has yet to delete, the newest first
  result,     \* how its last call ended
  mingled,    \* history: two processes have been up at once
  slipped     \* history: entries that were written and their metadata failed to be

vars == <<entry, opener, sidecar, older, pc, key, seen, doomed, result, mingled, slipped>>

Places  == {"new", "idle", "read", "compute", "write", "sidecar", "glob", "stat",
            "unlink", "unlink_sidecar", "dead"}
Results == {"none", "hit", "miss", "raised", "failed"}
Nobody  == "nobody"
Entries == {k \in Keys : entry[k] # "absent"}

Init ==
  /\ entry   = [k \in Keys |-> "absent"]
  /\ opener  = [k \in Keys |-> Nobody]
  /\ sidecar = [k \in Keys |-> "absent"]
  /\ older   = {} /\ slipped = {}
  /\ pc      = [p \in Procs |-> "new"]
  /\ key     = [p \in Procs |-> "none"]
  /\ seen    = [p \in Procs |-> {}]
  /\ doomed  = [p \in Procs |-> <<>>]
  /\ result  = [p \in Procs |-> "none"]
  /\ mingled = FALSE

Goto(p, place)  == pc' = [pc EXCEPT ![p] = place]
Return(p, how)  == Goto(p, "idle") /\ result' = [result EXCEPT ![p] = how]
FilesUnchanged  == UNCHANGED <<entry, opener, sidecar, older, slipped>>
EvictUnchanged  == UNCHANGED <<seen, doomed>>
Without(k)      == {pair \in older : k \notin {pair[1], pair[2]}}
Latest(k)       == older' = Without(k) \cup ((Entries \ {k}) \X {k})
-----------------------------------------------------------------------------
\* path.exists()
Begin(p, k) ==
  /\ pc[p] = "idle"
  /\ key' = [key EXCEPT ![p] = k]
  /\ result' = [result EXCEPT ![p] = "none"]
  /\ Goto(p, IF entry[k] = "absent" THEN "compute" ELSE "read")
  /\ EvictUnchanged /\ FilesUnchanged

\* pd.read_parquet: a file that is torn, or gone since it was looked for, raises
Read(p) ==
  /\ pc[p] = "read"
  /\ Return(p, IF entry[key[p]] = "whole" THEN "hit" ELSE "failed")
  /\ UNCHANGED key /\ EvictUnchanged /\ FilesUnchanged

\* run_sweep or the detectors raise or are cancelled: nothing is cached
Raise(p) ==
  /\ pc[p] = "compute"
  /\ Return(p, "raised")
  /\ UNCHANGED key /\ EvictUnchanged /\ FilesUnchanged

\* to_parquet opens the file ...
Open(p) ==
  /\ pc[p] = "compute"
  /\ entry'  = [entry EXCEPT ![key[p]] = "torn"]
  /\ opener' = [opener EXCEPT ![key[p]] = p]
  /\ Latest(key[p])
  /\ slipped' = slipped \ {key[p]}
  /\ Goto(p, "write")
  /\ UNCHANGED <<sidecar, key, result>> /\ EvictUnchanged

\* ... and fills it.  Whoever truncated it last fills it from the start; if
\* it was deleted meanwhile, the bytes go to a file without a name.
Fill(p) ==
  /\ pc[p] = "write"
  /\ IF entry[key[p]] = "absent" THEN UNCHANGED <<entry, older>>
     ELSE /\ entry' = [entry EXCEPT ![key[p]] = IF opener[key[p]] = p THEN "whole" ELSE @]
          /\ Latest(key[p])
  /\ Goto(p, "sidecar")
  /\ UNCHANGED <<opener, sidecar, key, result, slipped>> /\ EvictUnchanged

Deleted == "absent"

DeleteEntry(k) == /\ entry'  = [entry EXCEPT ![k] = Deleted]
                  /\ opener' = [opener EXCEPT ![k] = Nobody]
                  /\ older'  = Without(k)

CleanUp(k) == DeleteEntry(k)

\* external: when the write raises, pyarrow removes the file it was writing
WriteFails(p) ==
  /\ pc[p] = "write"
  /\ CleanUp(key[p])
  /\ Return(p, "raised")
  /\ UNCHANGED <<sidecar, key, slipped>> /\ EvictUnchanged

\* write_cache_metadata
WriteSidecar(p) ==
  /\ pc[p] = "sidecar"
  /\ sidecar' = [sidecar EXCEPT ![key[p]] = "whole"]
  /\ slipped' = slipped \ {key[p]}
  /\ Goto(p, "glob")
  /\ UNCHANGED <<entry, opener, older, key, result>> /\ EvictUnchanged

\* It raises on opening the file or, with the file cut short, on filling it:
\* the entry stays and nothing is evicted.
SidecarFails(p) ==
  /\ pc[p] = "sidecar"
  /\ \E left \in {"torn", sidecar[key[p]]} : sidecar' = [sidecar EXCEPT ![key[p]] = left]
  /\ slipped' = slipped \cup {key[p]}
  /\ Return(p, "raised")
  /\ UNCHANGED <<entry, opener, older, key>> /\ EvictUnchanged

\* evict_oldest: list the directory ...
Glob(p) ==
  /\ pc[p] = "glob"
  /\ seen' = [seen EXCEPT ![p] = Entries]
  /\ Goto(p, "stat")
  /\ UNCHANGED <<key, doomed, result>> /\ FilesUnchanged

Younger(f, files) == {g \in files : <<f, g>> \in older}
NewestBeyondKeep(files) ==                                               \* fault
  {f \in files : Cardinality({g \in files : <<g, f>> \in older}) >= KeepMost}
OldestBeyondKeep(files) == {f \in files : Cardinality(Younger(f, files)) >= KeepMost}

NewestFirst(files) == {s \in [1..Cardinality(files) -> files] :
                         \A m, n \in DOMAIN s : m < n => <<s[n], s[m]>> \in older}

\* ... ask every file for its mtime (one that is gone raises) and keep the newest
Stat(p) ==
  /\ pc[p] = "stat"
  /\ seen' = [seen EXCEPT ![p] = {}]
  /\ IF seen[p] \subseteq Entries
     THEN /\ \E s \in NewestFirst(OldestBeyondKeep(seen[p])) : doomed' = [doomed EXCEPT ![p] = s]
          /\ Goto(p, "unlink")
          /\ UNCHANGED result
     ELSE /\ Return(p, "failed")
          /\ UNCHANGED doomed
  /\ UNCHANGED key /\ FilesUnchanged

\* unlink(missing_ok=True) of a parquet file ...
Unlink(p) ==
  /\ pc[p] = "unlink"
  /\ IF doomed[p] = <<>>
     THEN Return(p, "miss") /\ UNCHANGED <<entry, opener, older>>
     ELSE /\ DeleteEntry(Head(doomed[p]))
          /\ Goto(p, "unlink_sidecar")
          /\ UNCHANGED result
  /\ UNCHANGED <<sidecar, key, slipped>> /\ EvictUnchanged

SidecarStays(k) == sidecar                                               \* fault
SidecarGoes(k) == [sidecar EXCEPT ![k] = "absent"]

\* ... and of its metadata
UnlinkSidecar(p) ==
  /\ pc[p] = "unlink_sidecar"
  /\ sidecar' = SidecarGoes(Head(doomed[p]))
  /\ doomed'  = [doomed EXCEPT ![p] = Tail(@)]
  /\ Goto(p, "unlink")
  /\ UNCHANGED <<entry, opener, older, key, seen, result, slipped>>
-----------------------------------------------------------------------------
Up(p) == pc[p] \notin {"new", "dead"}

Boot(p) ==
  /\ pc[p] = "new"
  /\ Goto(p, "idle")
  /\ mingled' = (mingled \/ \E q \in Procs : Up(q))
  /\ UNCHANGED <<key, result>> /\ EvictUnchanged /\ FilesUnchanged

Crash(p) ==
  /\ Up(p)
  /\ Goto(p, "dead")
  /\ seen'   = [seen EXCEPT ![p] = {}]
  /\ doomed' = [doomed EXCEPT ![p] = <<>>]
  /\ result' = [result EXCEPT ![p] = "none"]
  /\ UNCHANGED <<key, mingled>> /\ FilesUnchanged

Call(p) == Read(p) \/ Raise(p) \/ Open(p) \/ Fill(p) \/ WriteFails(p) \/ WriteSidecar(p)
            \/ SidecarFails(p) \/ Glob(p) \/ Stat(p) \/ Unlink(p) \/ UnlinkSidecar(p)
Run(p)  == (Call(p) \/ \E k \in Keys : Begin(p, k)) /\ UNCHANGED mingled
Next == \E p \in Procs : Boot(p) \/ Crash(p) \/ Run(p)

Spec == Init /\ [][Next]_vars
-----------------------------------------------------------------------------
Quiet == \A p \in Procs : pc[p] \in {"new", "idle", "dead"}

\* While processes follow each other, a call that missed leaves the cache
\* within its capacity and its own entry, whole, in it: the eviction that
\* follows the write never takes what was just written, whatever earlier
\* crashes left behind.
MissIsKept ==
  [][\A p \in Procs :
       ~mingled /\ Up(p) /\ pc[p] # "idle" /\ pc'[p] = "idle" /\ result'[p] = "miss" =>
         /\ entry'[key[p]] = "whole"
         /\ Cardinality({k \in Keys : entry'[k] # "absent"}) <= KeepMost]_vars

\* As long as processes follow each other and none has died, between calls
\* every entry is whole, no metadata outlives its entry, and the entries
\* without whole metadata are those whose metadata could not be written:
\* neither a failed parquet write nor an eviction leaves another.
\* However many processes write one fingerprint, delete each other's file or
\* fail half-way, a torn entry is still being written, or the process that
\* truncated it last has died.
EntriesAreDescribed ==
  \A k \in Keys :
    /\ ~mingled /\ Quiet /\ (\A p \in Procs : pc[p] # "dead") =>
         /\ entry[k] # "torn"
         /\ sidecar[k] # "absent" => entry[k] = "whole"
         /\ entry[k] = "whole" => (sidecar[k] = "whole" <=> k \notin slipped)
    /\ entry[k] = "torn" =>
         opener[k] \in Procs /\ key[opener[k]] = k /\ pc[opener[k]] \in {"write", "dead"}
=============================================================================
