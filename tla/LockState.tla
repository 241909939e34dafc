----------------------------- MODULE LockState -----------------------------
(***************************************************************************)
(* The state of one coin's lock, what of it may be released at any moment  *)
(* (vested_amount of dilation.rs), and what the lock promises.  The        *)
(* instructions that move it are TimeDilation.                             *)
(***************************************************************************)
EXTENDS Integers

CONSTANTS
    MAX_LOCK_DURATION,
    Supply,          \* tokens of the coin
    Terms,           \* lock terms a launcher may submit: [cliff, duration]
    Horizon,         \* bound: the clock stops there
    NoCoin           \* the coin is not registered yet

ASSUME DilationAssumption ==
    /\ MAX_LOCK_DURATION \in Nat
    /\ Supply \in Nat
    /\ Terms \subseteq [cliff : Int, duration : Int]
    /\ Horizon \in Nat
    /\ NoCoin \notin [cliff : Int, duration : Int]

VARIABLES
    clock,
    plan,                                        \* planned_cliff_secs, planned_duration_secs
    locked_amount, released_amount, lock_start, lock_cliff, lock_end,
    launcher_token, lock_ata,                    \* token balances
    given                                        \* tokens strangers sent to lock_ata

lockTerms == <<locked_amount, lock_start, lock_cliff, lock_end>>
lockVars == <<clock, plan, lockTerms, released_amount, launcher_token, lock_ata, given>>

\* vested_amount: nothing before the cliff, then linear from the start, all of it at the end.
Vested(t) ==
    IF locked_amount = 0 \/ t < lock_cliff THEN 0
    ELSE IF t >= lock_end THEN locked_amount
    ELSE (locked_amount * (t - lock_start)) \div (lock_end - lock_start)

\* Mutant: every release pays all that has vested.
ReleasableVested == Vested(clock)

\* The saturating difference of what has vested and what was released.
Releasable == IF Vested(clock) > released_amount THEN Vested(clock) - released_amount ELSE 0

-----------------------------------------------------------------------------
\* However releases are spread over time, the launcher has never received more than the schedule
\* allows at this moment: nothing before the cliff, never more than the lock, never more than the
\* elapsed part of it (compared without division).
NeverEarly ==
    released_amount > 0 =>
        /\ clock >= lock_cliff
        /\ released_amount <= locked_amount
        /\ released_amount * (lock_end - lock_start) <= locked_amount * (clock - lock_start)

\* When the lock has ended, one release pays everything that is left of it: no token of the launcher
\* stays locked for ever, whatever was released before and whatever terms were accepted.
AllOutAtEnd ==
    locked_amount > 0 /\ clock >= lock_end =>
        Releasable = locked_amount - released_amount /\ Releasable <= lock_ata
=============================================================================
