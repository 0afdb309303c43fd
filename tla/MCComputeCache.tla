--------------------------- MODULE MCComputeCache ---------------------------
(* Three fingerprints against a capacity of one: a crash or a failed       *)
(* sidecar before the eviction leaves two entries for the next call to     *)
(* find.  The second process starts after the first one's death, or beside *)
(* it.  Processes and fingerprints are interchangeable, and both properties *)
(* are about states and steps only, so that symmetry is sound.             *)
EXTENDS ComputeCache, TLC

Interchangeable == Permutations(Procs) \cup Permutations(Keys)
=============================================================================
