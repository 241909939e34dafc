--------------------------- MODULE MCKeeperTurns ---------------------------
(***************************************************************************)
(* Small instances of KeeperTurns.  One lamport of the model is a million, *)
(* so that the rents keep their proportion: 890 880 (1), 2 039 280 (2).    *)
(***************************************************************************)
EXTENDS KeeperTurns

\* One coin burns and funds Fusion; one only burns.
BothHooks == {[burn |-> 30, fusion |-> 70]}
BurnHook  == {[burn |-> 100, fusion |-> 0]}
=============================================================================
