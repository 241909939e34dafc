------------------------------ MODULE PayoutRun ------------------------------
(***************************************************************************)
(* What one hour's run of the $QUANTP payout engine sends once the hour is *)
(* its own (EngineHours): the plan read from the wallet, the market cap    *)
(* and the holders (planRun), its payout batches one after the other with  *)
(* the buyback beside them (execute, payBatch, buyback, send, confirm),    *)
(* and the report of the run that the site shows.                          *)
(*                                                                         *)
(* Fees and the claims' rent come out of the reserve and are left out.  A  *)
(* transaction waits in `pending` until it lands or its blockhash expires, *)
(* which is long before the hour after the next.                           *)
(***************************************************************************)
EXTENDS Integers, SequencesExt, FiniteSetsExt

CONSTANTS
    Owner, Wallets,        \* owners of token accounts; those that are wallets a transfer can pay
    Holdings,              \* what the owners may hold of the token: functions on Owner
    minHold,               \* the least an eligible holder holds
    Rates, everySecs, DAY, \* the tiers' daily bps; a run and a day
    holdersShareBps, reserveLamports, maxRunLamports, minTransferLamports, minBuybackLamports,
    RENT_EXEMPT, TRANSFERS_PER_TX,
    Balance, Income,        \* the wallet's lamports at first, and what may come in
    MaxRuns, MaxFaults, MaxMoves

VARIABLES
    wallet,      \* the engine wallet's lamports
    sol,         \* owners whose wallets hold SOL
    pending,     \* transactions that were sent and may land
    landed,      \* those that landed and paid
    broken,      \* those that landed and failed
    run,         \* the run under way
    report,      \* lastReport
    hours,       \* runs begun
    plans,       \* history variable: the hours' plans
    faults, moves

vars == <<wallet, sol, pending, landed, broken, run, report, hours, plans, faults, moves>>

NoRun == [pc |-> "none"]

Init ==
    /\ wallet = Balance /\ sol = Owner
    /\ pending = {} /\ landed = {} /\ broken = {}
    /\ run = NoRun /\ report = NoRun /\ hours = 0 /\ plans = <<>> /\ faults = 0 /\ moves = 0

Total(f, S) == MapThenSumSet(LAMBDA x : f[x], S)

-----------------------------------------------------------------------------
(* The plan.                                                               *)

\* eligibleHolders that can be paid, and the orders of owners with the largest first.
Payable(held) == {h \in Wallets : held[h] >= minHold}
Ranked(held, owners) ==
    {s \in SetToSeqs(owners) : \A i, j \in DOMAIN s : i < j => held[s[i]] >= held[s[j]]}

Slice(available, bps) == (available * bps * everySecs) \div (10000 * DAY)

Plan(balance, bps, held, empty) ==
    LET available == IF balance > reserveLamports THEN balance - reserveLamports ELSE 0
        slice     == Slice(available, bps)
        release   == IF slice > maxRunLamports THEN maxRunLamports ELSE slice
        pot       == (release * holdersShareBps) \div 10000
        owners    == Payable(held)
        all       == Total(held, owners)
        share     == [h \in owners |-> (pot * held[h]) \div all]
        paid      == {h \in owners : /\ share[h] >= minTransferLamports
                                     /\ h \in empty => share[h] >= RENT_EXEMPT}
    IN [pot |-> pot, release |-> release, all |-> all, held |-> held, share |-> share,
        payouts |-> paid,
        buyback |-> IF release - pot >= minBuybackLamports THEN release - pot ELSE 0]

\* The plan's payouts in transactions.
Batches(payouts) ==
    LET size == (Len(payouts) + TRANSFERS_PER_TX - 1) \div TRANSFERS_PER_TX
        upto(n) == IF n * TRANSFERS_PER_TX > Len(payouts) THEN Len(payouts) ELSE n * TRANSFERS_PER_TX
    IN [n \in 1..size |-> SubSeq(payouts, (n - 1) * TRANSFERS_PER_TX + 1, upto(n))]

\* One run in an hour; what is sent in an hour lands or expires before the hour after the next.
ReadPlan ==
    /\ run = NoRun /\ hours < MaxRuns
    /\ \A tx \in pending : tx.hour >= hours
    /\ \E bps \in Rates, held \in Holdings :
          LET p == Plan(wallet, bps, held, Owner \ sol)
          IN /\ plans' = Append(plans, p)
             /\ \E payouts \in Ranked(held, p.payouts) :
                   run' = [pc |-> "next", batches |-> Batches(payouts), n |-> 1, sends |-> 0, retry |-> FALSE,
                           buying |-> IF p.buyback > 0 THEN "build" ELSE "done",
                           sent |-> {}, skipped |-> {}, failed |-> {}, unknown |-> {}, bought |-> FALSE,
                           stopped |-> FALSE]
    /\ hours' = hours + 1
    /\ UNCHANGED <<wallet, sol, pending, landed, broken, report, faults, moves>>

plan  == plans[hours]
batch == run.batches[run.n]

-----------------------------------------------------------------------------
(* The chain.                                                              *)

Payout(owners) ==
    [hour |-> hours, n |-> run.n, of |-> run.sends, to |-> ToSet(owners),
     spends |-> Total(plan.share, ToSet(owners))]
Buyback == [hour |-> hours, n |-> 0, of |-> 0, to |-> {}, spends |-> plan.buyback]

\* A transfer to a wallet without SOL must leave it rent exempt.
Refused(tx, h) == h \notin sol /\ plans[tx.hour].share[h] < RENT_EXEMPT
Executes(tx)   == tx.spends <= wallet /\ \A h \in tx.to : ~Refused(tx, h)

\* It lands and pays all, or lands and fails; the buyback's swap may fail.
Land ==
    /\ \E tx \in pending :
          /\ pending' = pending \ {tx}
          /\ \/ /\ Executes(tx)
                /\ wallet' = wallet - tx.spends /\ sol' = sol \cup tx.to /\ landed' = landed \cup {tx}
                /\ UNCHANGED broken
             \/ /\ ~Executes(tx) \/ tx.n = 0
                /\ broken' = broken \cup {tx} /\ UNCHANGED <<wallet, sol, landed>>
    /\ UNCHANGED <<run, report, hours, plans, faults, moves>>

Expire ==
    /\ \E tx \in pending : pending' = pending \ {tx}
    /\ UNCHANGED <<wallet, sol, landed, broken, run, report, hours, plans, faults, moves>>

\* A holder moves its SOL away, or fees come in.
Move ==
    /\ moves < MaxMoves /\ moves' = moves + 1
    /\ \/ \E h \in sol : sol' = sol \ {h} /\ UNCHANGED wallet
       \/ wallet' = wallet + Income /\ UNCHANGED sol
    /\ UNCHANGED <<pending, landed, broken, run, report, hours, plans, faults>>

-----------------------------------------------------------------------------
(* Sending the plan.                                                       *)

Paying == run.pc = "next" /\ run.n <= Len(run.batches)

\* send: preflight passes, or the node's answer is lost and it may be out.
SendBatch ==
    /\ Paying
    /\ LET tx == Payout(batch)
       IN /\ Executes(tx) \/ faults < MaxFaults
          /\ faults' = IF Executes(tx) THEN faults ELSE faults + 1
          /\ pending' = pending \cup {tx}
          /\ run' = [run EXCEPT !.pc = "sent"]
    /\ UNCHANGED <<wallet, sol, landed, broken, report, hours, plans, moves>>

NextBatch(r) == [r EXCEPT !.pc = "next", !.n = @ + 1, !.retry = FALSE, !.sends = @ + 1]

\* Preflight refuses it at one transfer: that recipient is left out and the rest sent once more.
RefusedAt ==
    /\ Paying
    /\ \E i \in DOMAIN batch :
          /\ Refused(Payout(batch), batch[i]) /\ \A j \in 1..i - 1 : ~Refused(Payout(batch), batch[j])
          /\ LET rest == RemoveAt(batch, i)
                 left == [run EXCEPT !.skipped = @ \cup {batch[i]}, !.batches[run.n] = rest]
             IN run' = CASE run.retry   -> NextBatch([run EXCEPT !.failed = @ \cup ToSet(batch)])
                         [] ~run.retry /\ rest = <<>> -> NextBatch(left)
                         [] OTHER       -> [left EXCEPT !.retry = TRUE]
    /\ UNCHANGED <<wallet, sol, pending, landed, broken, report, hours, plans, faults, moves>>

\* No blockhash, a node that stays behind, or 429s until no time is left: nothing was sent.
NotSent ==
    /\ Paying /\ faults < MaxFaults /\ faults' = faults + 1
    /\ run' = NextBatch([run EXCEPT !.failed = @ \cup ToSet(batch)])
    /\ UNCHANGED <<wallet, sol, pending, landed, broken, report, hours, plans, moves>>

\* Mutant: a payout that is not confirmed in time is signed anew.
SignedAnew(r, owners) == [r EXCEPT !.pc = "next", !.sends = @ + 1]

\* Sent and not confirmed in time: the rest wait.
Unconfirmed(r, owners) == [r EXCEPT !.pc = "over", !.stopped = TRUE, !.unknown = @ \cup owners]

Confirm ==
    /\ run.pc = "sent"
    /\ LET tx == Payout(batch)
       IN \/ tx \in landed /\ run' = NextBatch([run EXCEPT !.sent = @ \cup tx.to])
          \/ tx \in broken /\ run' = NextBatch([run EXCEPT !.failed = @ \cup tx.to])
          \/ run' = Unconfirmed(run, tx.to)
    /\ UNCHANGED <<wallet, sol, pending, landed, broken, report, hours, plans, faults, moves>>

\* The time is up before a batch.
TimeLimit ==
    /\ Paying /\ ~run.retry
    /\ run' = [run EXCEPT !.pc = "over", !.stopped = TRUE]
    /\ UNCHANGED <<wallet, sol, pending, landed, broken, report, hours, plans, faults, moves>>

\* The buyback goes out beside the payouts; there may be no pool, or its reads or preflight fail.
Buy ==
    /\ run # NoRun /\ run.buying = "build"
    /\ \/ pending' = pending \cup {Buyback} /\ run' = [run EXCEPT !.buying = "sent"]
       \/ run' = [run EXCEPT !.buying = "done", !.stopped = TRUE] /\ UNCHANGED pending
    /\ UNCHANGED <<wallet, sol, landed, broken, report, hours, plans, faults, moves>>

ConfirmBuy ==
    /\ run # NoRun /\ run.buying = "sent"
    /\ \/ Buyback \in landed /\ run' = [run EXCEPT !.buying = "done", !.bought = TRUE]
       \/ Buyback \notin landed /\ run' = [run EXCEPT !.buying = "done", !.stopped = TRUE]
    /\ UNCHANGED <<wallet, sol, pending, landed, broken, report, hours, plans, faults, moves>>

\* Both are done: the run is remembered.
Finish ==
    /\ run # NoRun /\ run.buying = "done"
    /\ run.pc = "over" \/ (run.pc = "next" /\ run.n > Len(run.batches))
    /\ report' = [run EXCEPT !.pc = "report", !.n = hours]
    /\ run' = NoRun
    /\ UNCHANGED <<wallet, sol, pending, landed, broken, hours, plans, faults, moves>>

Crash ==
    /\ run # NoRun /\ faults < MaxFaults /\ faults' = faults + 1
    /\ run' = NoRun
    /\ UNCHANGED <<wallet, sol, pending, landed, broken, report, hours, plans, moves>>

Next ==
    \/ ReadPlan \/ SendBatch \/ RefusedAt \/ NotSent \/ Confirm \/ TimeLimit \/ Buy \/ ConfirmBuy
    \/ Finish \/ Crash \/ Land \/ Expire \/ Move

Spec == Init /\ [][Next]_vars

-----------------------------------------------------------------------------

\* What a holder was paid of an hour, and what everything that landed of it came to.
Paid(hour, h) == plans[hour].share[h] * Cardinality({tx \in landed : tx.hour = hour /\ h \in tx.to})
Spends(txs)   == Total([tx \in txs |-> tx.spends], txs)
Spent(hour)   == Spends({tx \in landed : tx.hour = hour})

\* Of an hour, a holder is paid its share of the pot or nothing, and what everything sent comes to
\* stays within what was released and never touches the reserve: whatever is refused and sent anew,
\* lands late or during the next hour's run.
SharesExact ==
    /\ \A n \in DOMAIN plans :
          /\ \A tx \in landed : tx.hour = n => tx.to \subseteq DOMAIN plans[n].share
          /\ \A h \in DOMAIN plans[n].share : Paid(n, h) \in {0, plans[n].share[h]}
          /\ Spent(n) <= plans[n].release
    /\ wallet >= reserveLamports

\* What the site shows of a run is true: who it says was paid was, whoever it says was skipped or
\* failed was not and never will be, and only those it calls unknown may yet be.  A run that is not
\* said to have stopped tried every holder of its plan.
ReportTrue ==
    report # NoRun =>
        LET n == report.n
        IN /\ \A h \in report.sent : Paid(n, h) > 0
           /\ \A h \in report.skipped \cup report.failed :
                 Paid(n, h) = 0 /\ \A tx \in pending : tx.hour = n => h \notin tx.to
           /\ report.bought => \E tx \in landed : tx.hour = n /\ tx.n = 0
           /\ ~report.stopped =>
                 plans[n].payouts = report.sent \cup report.skipped \cup report.failed
=============================================================================
