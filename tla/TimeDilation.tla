---------------------------- MODULE TimeDilation ----------------------------
(***************************************************************************)
(* Time Dilation: the launcher's dev-buy tokens, locked once with a cliff  *)
(* and linear vesting, and released as they vest (dilation.rs), under the  *)
(* lock terms the launcher committed to at registration (register.rs).     *)
(*                                                                         *)
(* Tokens move between three places: the launcher's token account, the     *)
(* lock's token account (owned by the Quantum PDA) and everybody else.     *)
(* Anyone may send tokens to the lock's account; only `release` takes any  *)
(* out.  The coin charges no transfer fee (Meteora's mints have none) and  *)
(* the cluster's clock never goes back.  Times and amounts are in any unit.*)
(***************************************************************************)
EXTENDS LockState

NoPlan == [cliff |-> 0, duration |-> 0]

Init ==
    /\ clock \in 0..Horizon
    /\ plan = NoCoin
    /\ locked_amount = 0 /\ released_amount = 0
    /\ lock_start = 0 /\ lock_cliff = 0 /\ lock_end = 0
    /\ launcher_token = 0 /\ lock_ata = 0
    /\ given = 0

\* Mutant: the cliff may lie behind the end of the lock.
ValidTermsAnyCliff(t) == t.duration > 0 /\ t.duration <= MAX_LOCK_DURATION /\ t.cliff >= 0

\* validate_lock_terms
ValidTerms(t) ==
    /\ t.duration > 0 /\ t.duration <= MAX_LOCK_DURATION
    /\ t.cliff >= 0 /\ t.cliff <= t.duration

\* register, as far as the lock is concerned: terms are committed to, or none are.
Register ==
    /\ plan = NoCoin
    /\ \/ plan' = NoPlan
       \/ \E t \in Terms : ValidTerms(t) /\ plan' = t
    /\ UNCHANGED <<clock, lockTerms, released_amount, launcher_token, lock_ata, given>>

Unlocked == locked_amount = 0

AsPlanned(t) == plan.duration > 0 => t = plan

Lock ==
    /\ plan # NoCoin
    /\ \E t \in Terms, amount \in 1..Supply :
          /\ ValidTerms(t)
          /\ Unlocked
          /\ AsPlanned(t)
          /\ amount <= launcher_token                     \* else the transfer fails
          /\ launcher_token' = launcher_token - amount
          /\ lock_ata' = lock_ata + amount
          /\ locked_amount' = amount
          /\ released_amount' = 0
          /\ lock_start' = clock
          /\ lock_cliff' = clock + t.cliff
          /\ lock_end' = clock + t.duration
    /\ UNCHANGED <<clock, plan, given>>

Release ==
    /\ plan # NoCoin
    /\ Releasable > 0                                     \* else NothingToRelease
    /\ Releasable <= lock_ata                             \* else the transfer fails
    /\ lock_ata' = lock_ata - Releasable
    /\ launcher_token' = launcher_token + Releasable
    /\ released_amount' = released_amount + Releasable
    /\ UNCHANGED <<clock, plan, lockTerms, given>>

-----------------------------------------------------------------------------
(* The world around the program.                                           *)

Tick ==
    /\ clock < Horizon
    /\ clock' = clock + 1
    /\ UNCHANGED <<plan, lockTerms, released_amount, launcher_token, lock_ata, given>>

\* The launcher buys, sells or moves tokens.
Trade ==
    /\ \E n \in 0..(Supply - lock_ata) : launcher_token' = n
    /\ UNCHANGED <<clock, plan, lockTerms, released_amount, lock_ata, given>>

\* Somebody sends tokens to the lock's account.
Give ==
    /\ \E n \in 1..(Supply - lock_ata - launcher_token) :
          lock_ata' = lock_ata + n /\ given' = given + n
    /\ UNCHANGED <<clock, plan, lockTerms, released_amount, launcher_token>>

Next == Register \/ Lock \/ Release \/ Tick \/ Trade \/ Give

Spec == Init /\ [][Next]_lockVars

-----------------------------------------------------------------------------
(* Types and properties.                                                   *)

\* Balances, the lock's terms and the plan have their types, and no token appears from nowhere:
\* lock (dilation.rs:80) and release (dilation.rs:153) only move tokens.
TypeOK ==
    /\ clock \in Nat
    /\ plan \in {NoCoin} \cup [cliff : Nat, duration : Nat]
    /\ locked_amount \in Nat /\ released_amount \in Nat
    /\ lock_start \in Nat /\ lock_cliff \in Nat /\ lock_end \in Nat
    /\ launcher_token \in Nat /\ lock_ata \in Nat /\ given \in Nat
    /\ launcher_token + lock_ata <= Supply

\* What has not been released is still there: the lock's account holds the unreleased part of the
\* lock plus whatever strangers sent to it, so no release can fail for want of tokens and no gift
\* can be released as if it had been locked.
VaultHoldsRest == lock_ata = given + (locked_amount - released_amount)

\* A lock made under committed terms is exactly the one committed to.
AsCommitted ==
    locked_amount > 0 /\ plan.duration > 0 =>
        lock_cliff - lock_start = plan.cliff /\ lock_end - lock_start = plan.duration

\* Once made, a lock is never replaced, extended or shortened, not even when it is paid out.
LockedOnce == [][locked_amount > 0 => UNCHANGED lockTerms]_lockVars
=============================================================================
