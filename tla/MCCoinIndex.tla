----------------------------- MODULE MCCoinIndex -----------------------------
(***************************************************************************)
(* Two coins made with one metadata URI, one of them a Quantum coin, and   *)
(* two workers; and, beside them, the file store's leases, which every     *)
(* lock of the index is: a behaviour is one of the index or of the leases  *)
(* (`part`).                                                               *)
(***************************************************************************)
EXTENDS CoinIndex, FileLeases, TLC

CONSTANTS a, b, uri1, w1, w2, c1, c2, c3, p1, p2

VARIABLE part

OneUri == [m \in Mint |-> uri1]

\* One caller in a process of its own, two in another.
TwoProcesses == c1 :> p1 @@ c2 :> p2 @@ c3 :> p2

Workers == Permutations({w1, w2})

PartsInit == Init /\ LeaseInit /\ part \in {"index", "uris", "leases"}

PartsNext ==
    \/ part = "index" /\ (Pass \/ Work) /\ UNCHANGED <<part, leaseVars>>
    \/ part = "uris" /\ (Reissue \/ Work) /\ UNCHANGED <<part, leaseVars>>
    \/ part = "leases" /\ LeaseNext /\ UNCHANGED <<part, vars>>

PartsSpec == PartsInit /\ [][PartsNext]_<<part, vars, leaseVars>>
=============================================================================
