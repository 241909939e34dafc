----------------------------- MODULE EngineHours -----------------------------
(***************************************************************************)
(* The hourly run of $QUANTP's payout engine (quantp-engine.mjs): several  *)
(* server instances tick it, on one wallet, and each hour must be paid at  *)
(* most once whatever the store says.                                      *)
(*                                                                         *)
(* A tick asks the cheapest witness first - the store's record and its own *)
(* memory, then the wallet's history, then a lock in the store - and only  *)
(* then claims the hour on-chain, by creating the hour's account, before   *)
(* it pays anything.  The same claim takes back the rent of the accounts   *)
(* of earlier hours.  The steps between two awaits are one action.  An     *)
(* instance may die at any step and forgets everything; the store may be   *)
(* down for any of its operations; a node may miss transactions; what was  *)
(* sent lands until its blockhash expires or never, seen or unseen.         *)
(*                                                                         *)
(* Outside the model: what a run releases and to whom (planRun), fees and  *)
(* preflight's diagnostics, transactions of the wallet that are not the    *)
(* engine's, forks that drop a confirmed transaction.                      *)
(***************************************************************************)
EXTENDS Integers, FiniteSets

CONSTANTS
    Server,           \* instances of the server, their clocks in step
    HOUR,             \* units of time in an hour (policy.everySecs)
    BLOCKHASH,        \* units after signing in which a transaction may land
    RECLAIM_FROM, RECLAIM_HOURS, RECLAIM_MAX,   \* which earlier hours a claim takes rent from
    Part,             \* what a run pays in one transaction: a batch of payouts, the buyback
    MaxNow, MaxRuns,  \* bounds of the clock and of the runs that get to claim
    None              \* no run

Run     == 1..MaxRuns
NoHour  == -1
Hour(t) == t \div HOUR
Hours   == 0..Hour(MaxNow)

ASSUME EngineAssumption ==
    /\ HOUR \in Nat \ {0}
    /\ BLOCKHASH \in Nat
    /\ RECLAIM_FROM \in Nat /\ RECLAIM_HOURS \in Nat /\ RECLAIM_MAX \in Nat
    /\ BLOCKHASH <= (RECLAIM_FROM - 1) * HOUR    \* "about a minute", and an hour apart
    /\ MaxNow \in Nat /\ MaxRuns \in Nat
    /\ None \notin Int

VARIABLES
    now,
    last,             \* the store's LAST_RUN, as an hour
    local,            \* each instance's lastLocal, as an hour
    srv,              \* each instance's tick: where it is and what it knows
    runs,             \* runs that built a claim so far; numbers them, as their nonces do
    account,          \* the hours whose claim account holds its rent
    inflight,         \* transactions that may still land
    history,          \* the wallet's transactions in the ledger, failed ones included
    begun             \* history variable: the hours some run recorded as its own

ledger == <<account, inflight, history>>
vars == <<now, last, local, srv, runs, ledger, begun>>

Idle == [pc |-> "idle", hour |-> NoHour, run |-> None, reclaims |-> {}, sent |-> {}]

Init ==
    /\ now = 0
    /\ last = NoHour
    /\ local = [s \in Server |-> NoHour]
    /\ srv = [s \in Server |-> Idle]
    /\ runs = 0
    /\ account = {} /\ inflight = {} /\ history = {} /\ begun = {}

-----------------------------------------------------------------------------
(* The chain.                                                              *)

\* Time passes, and what no longer can land never will.
Tick ==
    /\ now < MaxNow
    /\ now' = now + 1
    /\ inflight' = {tx \in inflight : tx.until > now}
    /\ UNCHANGED <<last, local, srv, runs, account, history, begun>>

\* A claim creates its hour's account, and fails as a whole if that exists or if an account it
\* takes back is gone.  A payment always has the lamports it needs.
Outcome(tx) ==
    CASE tx.kind = "claim" /\ tx.hour \in account           -> "used"
      [] tx.kind = "claim" /\ tx.hour \notin account
           /\ ~(tx.reclaims \subseteq account)              -> "failed"
      [] OTHER                                              -> "ok"

Recorded(tx, outcome) ==
    [ kind |-> tx.kind, hour |-> tx.hour, nonce |-> tx.nonce, part |-> tx.part,
      until |-> tx.until, outcome |-> outcome, at |-> Hour(now) ]

Land(tx) ==
    /\ LET outcome == Outcome(tx)
       IN /\ history' = history \cup {Recorded(tx, outcome)}
          /\ account' = IF tx.kind = "claim" /\ outcome = "ok"
                        THEN (account \ tx.reclaims) \cup {tx.hour}
                        ELSE account
    /\ inflight' = inflight \ {tx}
    /\ UNCHANGED <<now, last, local, srv, runs, begun>>

-----------------------------------------------------------------------------
(* Steps of a tick.                                                        *)

At(s, pc)    == srv[s].pc = pc
Goes(s, pc)  == srv' = [srv EXCEPT ![s].pc = pc]
Ends(s)      == srv' = [srv EXCEPT ![s] = Idle]

\* storedRun, or nothing when the store is down or lost what was written.
Stored == {last, NoHour}

\* A tick is of the hour it starts in, and not due when the store or this instance knows that
\* hour has run.
Start(s) ==
    /\ At(s, "idle")
    /\ \E stored \in Stored :
          srv' = IF stored >= Hour(now) \/ local[s] >= Hour(now) THEN srv
                 ELSE [srv EXCEPT ![s] = [Idle EXCEPT !.pc = "chain", !.hour = Hour(now)]]
    /\ UNCHANGED <<now, last, local, runs, ledger, begun>>

\* Mutant: the hour a transaction's memo names is not looked at.
ShowsRunUnnamed(x, hour) == x.at >= hour

\* A transaction of the wallet in this hour whose memo names no earlier hour: the hour has run.
ShowsRun(x, hour) == x.at >= hour /\ x.hour >= hour

\* Recorded within this tick's hour, though it may have landed after the hour turned.
FoundAt(x, hour) == IF x.at < hour THEN x.at ELSE hour

\* chainRunThisPeriod finds a run of this hour.
AskChain(s) ==
    /\ At(s, "chain")
    /\ \E x \in history :
          /\ ShowsRun(x, srv[s].hour)
          /\ local' = [local EXCEPT ![s] = FoundAt(x, srv[s].hour)]
          /\ last' = FoundAt(x, srv[s].hour)
    /\ Ends(s)
    /\ UNCHANGED <<now, runs, ledger, begun>>

\* It finds none, or the node missed it.  Then the lock, and the store once more: the tick goes on
\* when it takes the lock or the store is down, so the lock keeps nobody out for certain.
TakeLock(s) ==
    /\ At(s, "chain")
    /\ \E stored \in Stored : stored < srv[s].hour
    /\ Goes(s, "read")
    /\ UNCHANGED <<now, last, local, runs, ledger, begun>>

\* The chain could not be read (it fails closed), the lock is another's, the state could not be
\* read, or it is too late in the hour or before the deadline: nothing is recorded.
GiveUp(s) ==
    /\ At(s, "chain") \/ At(s, "read")
    /\ Ends(s)
    /\ UNCHANGED <<now, last, local, runs, ledger, begun>>

\* now() < claimBy: the hour is not over.
InTime(s) == Hour(now) = srv[s].hour

\* Mutant: the rent of the last hour's account is taken back.
ReclaimableLastHour(hour) == {h \in account : h <= hour - 1}

\* The earlier hours whose accounts still hold rent, from RECLAIM_FROM hours back.
Reclaimable(hour) ==
    {h \in account : h <= hour - RECLAIM_FROM /\ h > hour - RECLAIM_FROM - RECLAIM_HOURS}

Nearest(S) == {h \in S : Cardinality({g \in S : g > h}) < RECLAIM_MAX}

\* The state was read; the hour is recorded before anything is sent, and a run with nothing to send
\* ends here.  Then claimFor builds this run's claim with the rent it takes back: none when the
\* accounts cannot be read, or when preflight refuses them and it is tried once more without.
RecordRun(s) ==
    /\ At(s, "read")
    /\ InTime(s)
    /\ local' = [local EXCEPT ![s] = srv[s].hour]
    /\ last' = srv[s].hour
    /\ begun' = begun \cup {srv[s].hour}
    /\ \/ /\ runs < MaxRuns
          /\ runs' = runs + 1
          /\ \E reclaims \in {Nearest(Reclaimable(srv[s].hour)), {}} :
                srv' = [srv EXCEPT ![s].pc = "sign", ![s].run = runs + 1, ![s].reclaims = reclaims]
       \/ Ends(s) /\ UNCHANGED runs
    /\ UNCHANGED <<now, ledger>>

Nonce(run) == run

ClaimTx(s) ==
    [ kind |-> "claim", hour |-> srv[s].hour, nonce |-> Nonce(srv[s].run), part |-> None,
      reclaims |-> srv[s].reclaims, until |-> now + BLOCKHASH ]

\* Signed only while the hour lasts, and sent; the node may know nothing against it yet.
SendClaim(s) ==
    /\ At(s, "sign")
    /\ InTime(s)
    /\ inflight' = inflight \cup {ClaimTx(s)}
    /\ Goes(s, "sent")
    /\ UNCHANGED <<now, last, local, runs, account, history, begun>>

\* The claim this run signed is in the ledger and succeeded.
SeenLanded(s) ==
    \E x \in history : x.kind = "claim" /\ x.hour = srv[s].hour
                       /\ x.nonce = Nonce(srv[s].run) /\ x.outcome = "ok"

PayTx(s, p) ==
    [ kind |-> "pay", hour |-> srv[s].hour, nonce |-> srv[s].run, part |-> p,
      reclaims |-> {}, until |-> now + BLOCKHASH ]

Unsent(s, p) == p \notin srv[s].sent

\* The claim is confirmed, so the hour is this run's.  A part is sent, or refused before it is,
\* and not sent again.  The code sends the batches one after the other, the buyback beside them;
\* here any part may go first.
PayPart(s, p) ==
    /\ At(s, "sent") /\ SeenLanded(s)
    /\ Unsent(s, p)
    /\ srv' = [srv EXCEPT ![s].sent = @ \cup {p}]
    /\ inflight' \in {inflight \cup {PayTx(s, p)}, inflight}
    /\ UNCHANGED <<now, last, local, runs, account, history, begun>>

\* The hour turned before the claim was signed, the claim was refused or failed or is not confirmed
\* in time, a payment is not, everything was sent, or the time is up.  The hour is recorded, so
\* what was not sent waits for the next.
Finish(s) ==
    /\ At(s, "sign") \/ At(s, "sent")
    /\ Ends(s)
    /\ UNCHANGED <<now, last, local, runs, ledger, begun>>

\* The platform ends the function, or a deployment replaces the instance.
Crash(s) ==
    /\ ~At(s, "idle")
    /\ Ends(s)
    /\ local' = [local EXCEPT ![s] = NoHour]
    /\ UNCHANGED <<now, last, runs, ledger, begun>>

Step(s) ==
    \/ Start(s) \/ AskChain(s) \/ TakeLock(s) \/ GiveUp(s)
    \/ RecordRun(s) \/ SendClaim(s) \/ (\E p \in Part : PayPart(s, p))
    \/ Finish(s) \/ Crash(s)

Next ==
    \/ Tick
    \/ \E tx \in inflight : Land(tx)
    \/ \E s \in Server : Step(s)

Spec == Init /\ [][Next]_vars

-----------------------------------------------------------------------------
(* Types and properties.                                                   *)

Tx == [ kind : {"claim", "pay"}, hour : Hours, nonce : Run, part : Part \cup {None},
        reclaims : SUBSET Hours, until : Nat ]

Landed == [ kind : {"claim", "pay"}, hour : Hours, nonce : Run, part : Part \cup {None},
            until : Nat, outcome : {"ok", "used", "failed"}, at : Hours ]

ServerState ==
    [ pc : {"idle", "chain", "read", "sign", "sent"},
      hour : Hours \cup {NoHour}, run : Run \cup {None}, reclaims : SUBSET Hours,
      sent : SUBSET Part ]

\* Types; nothing is recorded, claimed or sent for an hour that has not begun, and a claim takes
\* back only accounts of hours long over (RECLAIM_FROM, quantp-engine.mjs:99).
TypeOK ==
    /\ now \in 0..MaxNow
    /\ last \in {NoHour} \cup 0..Hour(now)
    /\ local \in [Server -> {NoHour} \cup 0..Hour(now)]
    /\ srv \in [Server -> ServerState]
    /\ runs \in 0..MaxRuns
    /\ account \subseteq 0..Hour(now) /\ begun \subseteq 0..Hour(now)
    /\ inflight \subseteq Tx /\ history \subseteq Landed
    /\ \A tx \in inflight : \A h \in tx.reclaims : h + RECLAIM_FROM <= tx.hour

\* An hour is held off - by the store's record or by an instance's memory - only by a run of its
\* own, never by one of an earlier hour that landed late.
HeldOffByItself ==
    /\ last >= Hour(now) => Hour(now) \in begun
    /\ \A s \in Server : local[s] >= Hour(now) => Hour(now) \in begun

\* The claims that landed are who owns an hour, the payments that landed what was paid of it:
\* owned once, paid by the owner, each part once.
Promise == INSTANCE HourlyPayout WITH
    owns <- {<<x.hour, x.nonce>> : x \in {y \in history : y.kind = "claim" /\ y.outcome = "ok"}},
    paid <- {<<x.hour, x.nonce, x.part, x.until>> : x \in {y \in history : y.kind = "pay"}},
    Moments <- 0..(MaxNow + BLOCKHASH)

KeepsPromise == Promise!Spec
=============================================================================
