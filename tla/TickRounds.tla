----------------------------- MODULE TickRounds -----------------------------
(***************************************************************************)
(* How the keeper's ticks go round the coins: one tick at a time under a   *)
(* lease that outlives its time limit, first the migrations of full        *)
(* curves, then the turns of a few coins from where the last tick stopped. *)
(* The platform kills a tick whose coin takes too long; two ticks overlap  *)
(* when one outlives its lease; coins are listed and dropped meanwhile.    *)
(*                                                                         *)
(* What a turn does is KeeperTurns, KeeperEpochs and EpochClosing; the     *)
(* holder samples a tick takes first are in KeeperEpochs.                  *)
(***************************************************************************)
EXTENDS Integers, Sequences, SequencesExt

CONSTANTS
    Coin, Slow,               \* the coins; those whose turn outlives the platform's limit
    Filling,                  \* bound: coins whose curve fills during the run
    Ticks,                    \* names of the ticks that may run
    Budget,                   \* coins of one tick
    MIGRATION_LOOKUPS, MIGRATIONS_PER_TICK,
    MaxChanges,               \* bound: coins listed and dropped, migrated by others
    MaxTroubles,              \* bound: ticks that die, stall or fail to migrate
    None

VARIABLES
    list,                     \* the index's coins, newest first
    phase, known,             \* each coin's "curve", "full" or "pool"; what the index says
    cursor, lease,            \* store: keeper:cursor, keeper:lease
    tick,                     \* each tick: where it is, the list it read
    turn,                     \* the coin whose turn began last
    changes, troubles         \* bounds

vars == <<list, phase, known, cursor, lease, tick, turn, changes, troubles>>

NoTick == [pc |-> "idle", coins |-> <<>>, waiting |-> <<>>, migrations |-> 0, start |-> 0, n |-> 0]

Init ==
    /\ \E c \in Coin : list = SetToSeq(Coin \ {c})
    /\ phase = [c \in Coin |-> "curve"] /\ known = phase
    /\ cursor = 0 /\ lease = None
    /\ tick = [t \in Ticks |-> NoTick]
    /\ turn = None
    /\ changes = 0 /\ troubles = 0

Trouble == troubles < MaxTroubles /\ troubles' = troubles + 1
Change  == changes < MaxChanges /\ changes' = changes + 1

-----------------------------------------------------------------------------
(* The coins.                                                              *)

ListChanges ==
    /\ Change
    /\ \/ \E c \in Coin \ ToSet(list) : list' = <<c>> \o list
       \/ \E c \in ToSet(list) : list' = SelectSeq(list, LAMBDA d : d # c)
    /\ UNCHANGED <<phase, known, cursor, lease, tick, turn, troubles>>

CurveFills(c) ==
    /\ phase[c] = "curve" /\ c \in Filling
    /\ phase' = [phase EXCEPT ![c] = "full"]
    /\ UNCHANGED <<list, known, cursor, lease, tick, turn, changes, troubles>>

MigratedByOthers(c) ==
    /\ phase[c] = "full" /\ Change
    /\ phase' = [phase EXCEPT ![c] = "pool"]
    /\ UNCHANGED <<list, known, cursor, lease, tick, turn, troubles>>

IndexSync(c) ==
    /\ known[c] # phase[c]
    /\ known' = [known EXCEPT ![c] = phase[c]]
    /\ UNCHANGED <<list, phase, cursor, lease, tick, turn, changes, troubles>>

-----------------------------------------------------------------------------
(* A tick.                                                                 *)

First(s, n) == SubSeq(s, 1, IF Len(s) < n THEN Len(s) ELSE n)

Begin(t) ==
    /\ tick[t] = NoTick
    /\ lease = None
    /\ lease' = t
    /\ tick' = [tick EXCEPT ![t] = [NoTick EXCEPT
          !.pc = "migrate", !.coins = list,
          !.waiting = First(SelectSeq(list, LAMBDA c : known[c] = "full"), MIGRATION_LOOKUPS)]]
    /\ UNCHANGED <<list, phase, known, cursor, turn, changes, troubles>>

\* migrateGraduates: a coin migrated already does not count; one that could not be is left for
\* the next tick.
Migrate(t) ==
    LET c == Head(tick[t].waiting)
    IN /\ tick[t].pc = "migrate" /\ tick[t].waiting # <<>>
       /\ tick[t].migrations < MIGRATIONS_PER_TICK
       /\ tick' = [tick EXCEPT ![t].waiting = Tail(@),
                               ![t].migrations = IF phase[c] = "full" THEN @ + 1 ELSE @]
       /\ \/ phase[c] # "full" /\ UNCHANGED <<phase, known, troubles>>
          \/ /\ phase[c] = "full"
             /\ phase' = [phase EXCEPT ![c] = "pool"]
             /\ known' \in {known, [known EXCEPT ![c] = "pool"]}       \* syncCoin may fail
             /\ UNCHANGED troubles
          \/ phase[c] = "full" /\ Trouble /\ UNCHANGED <<phase, known>>
       /\ UNCHANGED <<list, cursor, lease, turn, changes>>

\* The cursor is read once, for the list this tick read.
StartRound(t) ==
    /\ tick[t].pc = "migrate"
    /\ tick[t].waiting = <<>> \/ tick[t].migrations >= MIGRATIONS_PER_TICK
    /\ tick' = [tick EXCEPT ![t].pc = IF tick[t].coins = <<>> THEN "end" ELSE "advance",
                            ![t].waiting = <<>>, ![t].migrations = 0,
                            ![t].start = IF tick[t].coins = <<>> THEN 0
                                         ELSE cursor % Len(tick[t].coins)]
    /\ UNCHANGED <<list, phase, known, cursor, lease, turn, changes, troubles>>

NthCoin(t) == tick[t].coins[((tick[t].start + tick[t].n) % Len(tick[t].coins)) + 1]
AfterNth(t) == (tick[t].start + tick[t].n + 1) % Len(tick[t].coins)
Least(a, b) == IF a < b THEN a ELSE b

\* Mutant: the cursor moves on after the turn, which a slow coin does not reach.
CursorAfterTurn(t) == IF NthCoin(t) \in Slow THEN cursor ELSE AfterNth(t)

CursorAtTurn(t) == AfterNth(t)

\* The cursor moves on first.
Advance(t) ==
    /\ tick[t].pc = "advance"
    /\ tick[t].n < Least(Budget, Len(tick[t].coins))
    /\ cursor' = CursorAtTurn(t)
    /\ tick' = [tick EXCEPT ![t].pc = "run"]
    /\ UNCHANGED <<list, phase, known, lease, turn, changes, troubles>>

\* A coin that takes too long takes the tick with it, and the lease stays.
RunCoin(t) ==
    /\ tick[t].pc = "run"
    /\ turn' = NthCoin(t)
    /\ tick' = [tick EXCEPT ![t] = IF NthCoin(t) \in Slow THEN NoTick
                                   ELSE [@ EXCEPT !.pc = "advance", !.n = @ + 1]]
    /\ UNCHANGED <<list, phase, known, cursor, lease, changes, troubles>>

\* All coins of the budget had their turn, or the time limit is reached.
EndRound(t) ==
    /\ tick[t].pc = "advance"
    /\ \/ tick[t].n = Least(Budget, Len(tick[t].coins)) /\ UNCHANGED troubles
       \/ 0 < tick[t].n /\ tick[t].n < Least(Budget, Len(tick[t].coins)) /\ UNCHANGED troubles
       \/ tick[t].n = 0 /\ Trouble
    /\ tick' = [tick EXCEPT ![t].pc = "end"]
    /\ UNCHANGED <<list, phase, known, cursor, lease, turn, changes>>

\* Only the tick's own lease is released.
Release(t) ==
    /\ tick[t].pc = "end"
    /\ lease' = IF lease = t THEN None ELSE lease
    /\ tick' = [tick EXCEPT ![t] = NoTick]
    /\ UNCHANGED <<list, phase, known, cursor, turn, changes, troubles>>

Die(t) ==
    /\ tick[t] # NoTick
    /\ Trouble
    /\ tick' = [tick EXCEPT ![t] = NoTick]
    /\ UNCHANGED <<list, phase, known, cursor, lease, turn, changes>>

\* The lease is longer than a tick's time limit; a tick that stalls outlives it.
LeaseExpires ==
    /\ lease # None
    /\ IF tick[lease] = NoTick THEN UNCHANGED troubles ELSE Trouble
    /\ lease' = None
    /\ UNCHANGED <<list, phase, known, cursor, tick, turn, changes>>

-----------------------------------------------------------------------------

Step(t) == \/ Begin(t) \/ Migrate(t) \/ StartRound(t) \/ Advance(t) \/ RunCoin(t)
           \/ EndRound(t) \/ Release(t)

Next == \/ ListChanges \/ LeaseExpires
        \/ \E c \in Coin : CurveFills(c) \/ MigratedByOthers(c) \/ IndexSync(c)
        \/ \E t \in Ticks : Step(t) \/ Die(t)

Spec == Init /\ [][Next]_vars

\* The cron starts ticks and a running tick goes on; a lease has a lifetime; the index is synced.
\* A migration that was tried lands unless it meets one of the bounded troubles.
Fairness ==
    /\ WF_vars(\E t \in Ticks : Begin(t))
    /\ \A t \in Ticks : WF_vars(tick[t] # NoTick /\ Step(t))
    /\ WF_vars(LeaseExpires)
    /\ WF_vars(\E c \in Coin : IndexSync(c))

FairSpec == Spec /\ Fairness

-----------------------------------------------------------------------------
(* Properties.                                                             *)

\* Every variable keeps its type.
TypeOK ==
    /\ list \in Seq(Coin) /\ IsInjective(list)
    /\ phase \in [Coin -> {"curve", "full", "pool"}]
    /\ known \in [Coin -> {"curve", "full", "pool"}]
    /\ cursor \in Nat /\ lease \in Ticks \cup {None}
    /\ \A t \in Ticks : tick[t].pc \in {"idle", "migrate", "advance", "run", "end"}
    /\ turn \in Coin \cup {None}

\* Every coin that stays listed has its turns again and again, and its full curve is migrated:
\* neither a coin whose turns always kill the tick, nor ticks that die or overlap, nor coins that
\* are listed and dropped starve the others (tick, migrateGraduates).
CoinsServed ==
    \A c \in Coin :
       /\ []<>(c \in ToSet(list) => turn = c)
       /\ []<>(c \in ToSet(list) => phase[c] # "full")
=============================================================================
