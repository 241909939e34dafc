--------------------------- MODULE MCConfigUpdates ---------------------------
(* Two keys, which any field may hold, and one launch list. *)
EXTENDS ConfigUpdates, TLC

CONSTANTS k1, k2, l1

Keys == Permutations({k1, k2})
=============================================================================
