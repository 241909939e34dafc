------------------------------ MODULE MCKeeper ------------------------------
(***************************************************************************)
(* One coin's epochs, and beside them the records its holders' time is     *)
(* kept in: a behaviour is one of the keeper's ticks (KeeperEpochs) or of  *)
(* the samples (HolderBuckets), by `part`.  The fairness is of the ticks;  *)
(* the samples promise nothing that must happen.                           *)
(*                                                                         *)
(* Four wallets and a pool's vault, in two buckets once one is too small:  *)
(* three wallets meet in one bucket, which holds two.                      *)
(***************************************************************************)
EXTENDS KeeperEpochs

CONSTANTS
    Wallet, Vault, Order, Hash, Holdings, Gaps, MAX_STEP, maxTracked, maxRecords, bucketTarget,
    bucketMax, OFF_CURVE_MAX, MaxSamples, MaxLosses, MaxWindows

VARIABLES part, holders, bucket, last, earned, gap, samples, losses

\* The owners are 1 to 5, the vault the last.
OwnersInOrder == <<1, 2, 3, 4, 5>>
OwnersHash    == <<1, 3, 5, 0, 2>>
SomeHoldings  == {<<2, 1, 0, 0, 3>>, <<1, 3, 2, 1, 3>>, <<0, 3, 1, 2, 0>>}

\* No two owners have the same address.
ASSUME HoldersAssumption ==
    /\ IsFiniteSet(Wallet \cup Vault) /\ Wallet \cap Vault = {}
    /\ Order \in [Wallet \cup Vault -> Nat] /\ Hash \in [Wallet \cup Vault -> Nat]
    /\ \A u, w \in Wallet \cup Vault : Order[u] = Order[w] => u = w
    /\ Holdings \subseteq [Wallet \cup Vault -> Nat] /\ Gaps \subseteq Nat
    /\ {MAX_STEP, maxTracked, maxRecords, bucketMax, OFF_CURVE_MAX} \subseteq Nat
    /\ bucketTarget \in Nat \ {0} /\ {MaxSamples, MaxLosses, MaxWindows} \subseteq Nat

H == INSTANCE HolderBuckets WITH header <- holders

holderVars == <<holders, bucket, last, earned, gap, samples, losses>>

PartsInit == Init /\ H!Init /\ part \in {"epochs", "holders"}

PartsNext ==
    \/ part = "epochs" /\ Next /\ UNCHANGED <<part, holderVars>>
    \/ part = "holders" /\ H!Next /\ UNCHANGED <<part, vars>>
    \/ part = "holders" /\ UNCHANGED <<part, vars, holderVars>>      \* the bounds end it

PartsSpec == PartsInit /\ [][PartsNext]_<<part, vars, holderVars>> /\ Fairness

\* What an epoch is weighed by is what each wallet earned, and the records keep their bounds
\* (HolderBuckets).
WeightsEarned == H!WeightsEarned /\ H!RecordsBounded
=============================================================================
