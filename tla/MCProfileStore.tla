--------------------------- MODULE MCProfileStore ---------------------------
(* A preset, and two names with one slug.                                  *)
EXTENDS ProfileStore
CONSTANTS core, mine, MINE
SlugOf(n) == IF n = MINE THEN mine ELSE n
=============================================================================
