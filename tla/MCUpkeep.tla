------------------------------ MODULE MCUpkeep ------------------------------
(***************************************************************************)
(* The keeper's upkeep of the coins, checked together: a behaviour is one  *)
(* of a coin's turns, of the closing of its epochs or of the rounds that   *)
(* ticks make (`part`).  What one needs of another is its fairness; they   *)
(* share no state, so the other parts rest.                                *)
(***************************************************************************)
EXTENDS MCKeeperTurns

CONSTANTS
    SCAN_CHUNK, MaxEpochs, MaxFailed, MaxOthers,
    Coin, Slow, Filling, Ticks, Budget, MIGRATION_LOOKUPS, MIGRATIONS_PER_TICK,
    MaxChanges, MaxTroubles,
    x, y, z, t1, t2

ASSUME PartsAssumption ==
    /\ {SCAN_CHUNK, MIN_PULSE_LAMPORTS, MaxBurn, Budget, MIGRATION_LOOKUPS,
        MIGRATIONS_PER_TICK} \subseteq Nat \ {0}
    /\ RentMin < AtaRent
    /\ Slow \subseteq Coin /\ Filling \subseteq Coin /\ None \notin Coin \cup Ticks

VARIABLES
    part,
    count, expired, status, fresh, rec, served, floor, closing, scan, failed, others,
    list, phase, known, cursor, lease, tick, lastTurn, changes, troubles

C == INSTANCE EpochClosing WITH pc <- closing, faults <- failed, MaxFaults <- MaxFailed
R == INSTANCE TickRounds WITH turn <- lastTurn

closeVars == <<count, expired, status, fresh, rec, served, floor, closing, scan, failed, others>>
roundVars == <<list, phase, known, cursor, lease, tick, lastTurn, changes, troubles>>

\* The parts that rest have one initial state.
PartsInit ==
    /\ Init /\ C!Init /\ R!Init
    /\ part \in {"turns", "closing", "rounds"}
    /\ part # "turns" => own
    /\ part # "rounds" => list = R!SetToSeq(Coin \ {CHOOSE c \in Coin : TRUE})

PartsNext ==
    \/ part = "turns" /\ Next /\ UNCHANGED <<part, closeVars, roundVars>>
    \/ part = "closing" /\ C!Next /\ UNCHANGED <<part, vars, roundVars>>
    \/ part = "rounds" /\ R!Next /\ UNCHANGED <<part, vars, closeVars>>

\* The fairness of the part that moves.
PartsFair ==
    /\ WF_vars(part = "turns" /\ Turn) /\ SF_vars(part = "turns" /\ Pass)
    /\ WF_vars(part = "turns" /\ (Land \/ Fail))
    /\ WF_closeVars(part = "closing" /\ C!CloseExpired)
    /\ WF_closeVars(part = "closing" /\ C!CatchUp)
    /\ WF_closeVars(part = "closing" /\ C!Expire)
    /\ WF_roundVars(part = "rounds" /\ \E t \in Ticks : R!Begin(t))
    /\ \A t \in Ticks : WF_roundVars(part = "rounds" /\ tick[t] # R!NoTick /\ R!Step(t))
    /\ WF_roundVars(part = "rounds" /\ R!LeaseExpires)
    /\ WF_roundVars(part = "rounds" /\ \E c \in Coin : R!IndexSync(c))

PartsSpec == PartsInit /\ [][PartsNext]_<<part, vars, closeVars, roundVars>> /\ PartsFair

\* Every expired epoch is closed at last (EpochClosing).
AllClosed == C!AllClosed

\* Every listed coin keeps having its turns and is migrated (TickRounds).
CoinsServed ==
    \A c \in Coin :
       /\ []<>(part = "rounds" /\ c \in R!ToSet(list) => lastTurn = c)
       /\ []<>(c \in R!ToSet(list) => phase[c] # "full")
=============================================================================
