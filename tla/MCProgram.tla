------------------------------ MODULE MCProgram ------------------------------
(***************************************************************************)
(* The program beside its pulses, checked together: a behaviour is one of  *)
(* the config and the tools that change it, of a coin's lock, or of its    *)
(* ledger after the launch (`part`).  What they share is written into each *)
(* of them - the contents a config may have, and that it may change at any *)
(* time, in the ledger - so the other parts rest.                          *)
(***************************************************************************)
EXTENDS MCQuantumWell, ConfigState, LockState, TLC

CONSTANTS k1, k2, l1       \* two keys, which any field may hold, and one launch list

VARIABLE part

U == INSTANCE ConfigUpdates
D == INSTANCE TimeDilation

Keys == Permutations({k1, k2})

T(c, d) == [cliff |-> c, duration |-> d]

LockTerms == { T(0, 3), T(2, 4), T(3, 3), T(1, 2),        \* valid
               T(3, 2), T(0, 0), T(-1, 2), T(0, 5) }     \* refused

\* The parts that rest have one initial state.
PartsInit ==
    /\ Init /\ U!Init /\ D!Init
    /\ part \in {"config", "lock", "ledger"}
    /\ part # "config" => \E v \in Value : OnChain.fields = [f \in Field |-> v]
    /\ part # "lock" => clock = 0
    /\ part # "ledger" => config = CHOOSE c \in Configs : TRUE

PartsNext ==
    \/ part = "config" /\ U!Next /\ UNCHANGED <<part, lockVars, vars>>
    \/ part = "lock" /\ D!Next /\ UNCHANGED <<part, toolVars, vars>>
    \/ part = "ledger" /\ Next /\ UNCHANGED <<part, toolVars, lockVars>>

PartsSpec == PartsInit /\ [][PartsNext]_<<part, toolVars, lockVars, vars>>
=============================================================================
