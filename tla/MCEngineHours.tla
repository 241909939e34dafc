---------------------------- MODULE MCEngineHours ----------------------------
(***************************************************************************)
(* The payout engine, in two parts checked together: a behaviour is one of *)
(* the hours and whose they are (EngineHours) or of what the runs of two   *)
(* hours send (PayoutRun).  The first gives every hour one run; the second *)
(* starts from that.                                                       *)
(***************************************************************************)
EXTENDS EngineHours, TLC

CONSTANTS
    s1, s2, p1,
    h1, h2, h3,
    Owner, Wallets, Holdings, minHold, Rates, everySecs, DAY, holdersShareBps, reserveLamports,
    maxRunLamports, minTransferLamports, minBuybackLamports, RENT_EXEMPT, TRANSFERS_PER_TX,
    Balance, Income, MaxHours, MaxFaults, MaxMoves

VARIABLES part, wallet, sol, pending, landed, broken, run, report, hours, plans, faults, moves

\* Three wallets and a pool's vault.  The second wallet's share is below the rent exemption; the
\* third's is below the minimum in the second hour, unless the first hour's payments did not land
\* or income came in, and then the cap on a run binds.
Held == { [h \in Owner |-> IF h = h1 THEN 3 ELSE IF h = h2 THEN 2 ELSE 1] }

\* The wallet starts with its reserve, and no tier releases more than a quarter of the rest in a
\* run (the highest a twelfth).
ASSUME PayoutAssumption ==
    /\ IsFiniteSet(Owner) /\ Wallets \subseteq Owner
    /\ Holdings \subseteq [Owner -> Nat] /\ minHold \in Nat \ {0}
    /\ everySecs \in Nat /\ DAY \in Nat \ {0}
    /\ \A bps \in Rates : bps \in Nat /\ 4 * bps * everySecs <= 10000 * DAY
    /\ holdersShareBps \in 0..10000
    /\ reserveLamports \in Nat /\ maxRunLamports \in Nat
    /\ minTransferLamports \in Nat \ {0} /\ minBuybackLamports \in Nat
    /\ RENT_EXEMPT \in Nat /\ TRANSFERS_PER_TX \in Nat \ {0}
    /\ Balance \in Nat /\ Balance >= reserveLamports /\ Income \in Nat

P == INSTANCE PayoutRun WITH MaxRuns <- MaxHours

payVars == <<wallet, sol, pending, landed, broken, run, report, hours, plans, faults, moves>>
hourVars == <<now, last, local, srv, runs, account, inflight, history, begun>>

PartsInit == Init /\ P!Init /\ part \in {"hours", "run"}

PartsNext ==
    \/ part = "hours" /\ Next /\ UNCHANGED <<part, payVars>>
    \/ part = "run" /\ P!Next /\ UNCHANGED <<part, hourVars>>

PartsSpec == PartsInit /\ [][PartsNext]_<<part, hourVars, payVars>>

Instances == Permutations({s1, s2})

\* Of an hour, a holder is paid its share once or not at all, and what the site shows of the run
\* is true, whatever was refused, sent anew or landed late (PayoutRun).
PaidAsReported == P!SharesExact /\ P!ReportTrue
=============================================================================
