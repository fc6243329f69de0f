--------------------------- MODULE MCDuckDBQueue ---------------------------
(***************************************************************************)
(* DuckDBQueue for TLC. The values of the constants are in the .cfg files  *)
(* of the runs; callers of one kind, replay ids and worker threads are     *)
(* interchangeable.                                                        *)
(***************************************************************************)
EXTENDS DuckDBQueueProps, TLC

Symmetry ==
  Permutations(Sync) \union Permutations(Works \ Sync)
    \union Permutations(ReplayIds) \union Permutations(Workers)
=============================================================================
