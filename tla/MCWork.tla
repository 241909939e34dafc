------------------------------- MODULE MCWork -------------------------------
(***************************************************************************)
(* Work that must come to its end, checked together: a behaviour is one of *)
(* a launch, of the public reads or of the $QUANTP ledger (`part`).  They  *)
(* share nothing, so the other parts rest.                                 *)
(***************************************************************************)
EXTENDS LaunchJob

CONSTANTS
    Key, Request, READ_CACHE_MS, READ_CACHE_MAX, MaxReads, MaxWrites, MaxNow,
    Histories, pageLimit, maxPages, maxReads, READ_TRIES, MaxListFaults, MaxStrays

VARIABLES
    part,
    now, value, entries, shared, swept, request, readFaults,
    history, tip, listed, read, failed, newest, cursors, listing, stray, pending, last, hurry,
    listFaults, strays, overtaken, overwritten

\* A standard launch, a Quantum launch without a dev buy, and one with all four stages.
AllPlans == { {"launch", "buy"}, {"register", "launch"}, {"register", "launch", "buy", "lock"} }

Dust == [dust |-> TRUE, paid |-> 0, spent |-> 0, bought |-> 0, burned |-> 0]
Plain == [Dust EXCEPT !.dust = FALSE]
Buy  == [Plain EXCEPT !.spent = 5, !.bought = 3]
Pay  == [Plain EXCEPT !.paid = 2]
Burn == [Plain EXCEPT !.spent = 4, !.bought = 2, !.burned = 4]

\* With a transaction that cannot be read, and without: only then are the lists ever complete.
BoughtAndBurned == { <<Buy, Dust, Burn, Pay>>, <<Buy, Pay, Burn, Buy>> }

ASSUME LedgerAssumption ==
    /\ Histories \subseteq Seq([dust : BOOLEAN, paid : Nat, spent : Nat, bought : Nat, burned : Nat])
    /\ {pageLimit, maxPages, maxReads} \subseteq Nat \ {0}
    /\ {READ_TRIES, MaxListFaults, MaxStrays} \subseteq Nat

R == INSTANCE PublicReads WITH faults <- readFaults, MaxFaults <- 1
Q == INSTANCE QuantpLedger WITH faults <- listFaults, MaxFaults <- MaxListFaults

readVars == <<now, value, entries, shared, swept, request, readFaults>>
listVars == <<history, tip, listed, read, failed, newest, cursors, listing, stray, pending, last,
              hurry, listFaults, strays, overtaken, overwritten>>

PartsInit ==
    /\ Init /\ R!Init /\ Q!Init /\ tip = 2
    /\ \/ part = "launch"
       \/ part \in {"reads", "ledger"} /\ plan = {"launch", "buy"}
    /\ part = "ledger" \/ history = CHOOSE h \in Histories : TRUE

PartsNext ==
    \/ part = "launch" /\ Next /\ UNCHANGED <<part, readVars, listVars>>
    \/ part = "reads" /\ R!Next /\ UNCHANGED <<part, vars, listVars>>
    \/ part = "ledger" /\ Q!Next /\ UNCHANGED <<part, vars, readVars>>

\* The fairness of the part that moves.
PartsFair ==
    /\ WF_vars(part = "launch" /\ Attempt) /\ WF_vars(part = "launch" /\ Registration)
    /\ WF_vars(part = "launch" /\ VisitCoin) /\ WF_vars(part = "launch" /\ Unpause)
    /\ \A t \in Tx : /\ WF_vars(part = "launch" /\ Land(t))
                     /\ WF_vars(part = "launch" /\ See(t))
    /\ WF_readVars(part = "reads" /\ R!Reads)
    /\ part # "ledger" \/ []<><<Q!Load>>_listVars

PartsSpec == PartsInit /\ [][PartsNext]_<<part, vars, readVars, listVars>> /\ PartsFair

\* Every request that asked ends (PublicReads).
AllEnd == R!AllEnd

\* Complete lists are complete, until a listing writes its ranges over those another one wrote
\* since it began (QuantpLedger).
FiguresTrue == Q!FiguresTrue

\* All that can be read is read, unless a listing writes its ranges over those another one wrote
\* since it began (QuantpLedger).
CaughtUp ==
    <>[](part = "ledger" =>
            \/ overwritten
            \/ ~hurry /\ \A i \in DOMAIN history : i <= tip => history[i].dust \/ i \in read)
=============================================================================
