--------------------------- MODULE MCJobRegistry ---------------------------
(***************************************************************************)
(* Small instances of JobRegistry.  Processes are interchangeable; the     *)
(* symmetry is used with safety properties only.                           *)
(***************************************************************************)
EXTENDS JobRegistry, TLC

Symmetric == Permutations(Procs)
=============================================================================
