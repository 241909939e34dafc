------------------------------- MODULE MCWell -------------------------------
(***************************************************************************)
(* A coin's registration and pulses beside the form its rules come from,   *)
(* checked together: a behaviour is one of either (`part`).  What the form *)
(* may hand over is among the registrations the ledger considers, so the   *)
(* other part rests.                                                       *)
(***************************************************************************)
EXTENDS MCQuantumWell, TLC

CONSTANTS
    BPS, MAX_SPLITS, MAX_LOCK_DURATION, w1, w2, Payable, Reserved, NoAddress, SplitShares,
    LockShares, Days, Tokens

VARIABLES part, draft, launch

Alloc(creator, burn, entangle, fusion) ==
    "creator" :> creator @@ "burn" :> burn @@ "entangle" :> entangle @@ "fusion" :> fusion

Empty == Alloc(1, 1, 1, 1)
Presets == {Empty, Alloc(1, 3, 0, 0), Alloc(1, 0, 3, 0), Alloc(4, 0, 0, 0)}

F == INSTANCE LaunchForm

ASSUME FormAssumption ==
    /\ BPS \in Nat \ {0} /\ MAX_SPLITS \in Nat /\ MAX_LOCK_DURATION \in Nat \ {0}
    /\ Empty \in Presets
    /\ \A p \in Presets : p \in [F!Hook -> 0..BPS] /\ F!Allocated(p) = BPS
    /\ SplitShares \subseteq 0..BPS /\ LockShares \subseteq 1..BPS
    /\ Days \subseteq Nat /\ Tokens \subseteq Nat
    /\ \A n \in Tokens \ {0}, share \in LockShares \cup {BPS \div 2} : n * share >= BPS
    /\ NoAddress \notin Payable \cup Reserved

formVars == <<draft, launch>>

PartsInit ==
    /\ Init /\ F!Init
    /\ part \in {"form", "ledger"}
    /\ part = "form" => config = CHOOSE c \in Configs : TRUE

PartsNext ==
    \/ part = "form" /\ F!Next /\ UNCHANGED <<part, vars>>
    \/ part = "ledger" /\ Next /\ UNCHANGED <<part, formVars>>

PartsSpec == PartsInit /\ [][PartsNext]_<<part, formVars, vars>>

Wallets == Permutations({w1, w2})

\* The shares make up the whole (no other field matters to them), and what the form lets pass is
\* never stranded (LaunchForm).
FormAccepted ==
    part = "form" => (draft.splits = <<>> /\ ~draft.lock.enabled => F!SharesWhole)
                     /\ F!NothingStranded
=============================================================================
