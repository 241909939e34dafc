---------------------------- MODULE RequestLimits ----------------------------
(***************************************************************************)
(* The counters behind the request limits (createLimiter) and the RPC      *)
(* proxy that charges them: a visitor's own bucket and its /48's first,    *)
(* then the one everybody shares, and both again for a large answer.       *)
(*                                                                         *)
(* Each instance of the server counts in memory and adds what it counted   *)
(* to the shared store once it holds a batch unsent.  Those commands are   *)
(* awaited, so other requests are charged meanwhile; one may fail, or be   *)
(* applied and its answer lost.  The model is one minute: a bucket's keys  *)
(* carry their minute, so minutes share nothing.                           *)
(***************************************************************************)
EXTENDS Integers, FiniteSets

CONSTANTS
    Instance, Visitor, Prefix,
    MaxRequests,              \* how many requests come in the minute
    PrefixOf,                 \* a visitor's /48
    AllKey,                   \* the bucket of the whole deployment
    limit, PREFIX_FACTOR, globalLimit,
    SHARE,                    \* a batch is one SHARE-th of a limit (batchShare)
    Cost,                     \* what one request may cost, and its answer
    MaxLarge, MaxFaults       \* bounds: how many answers are large, how many commands fail

Requests == 1..MaxRequests
Bucket  == Visitor \cup Prefix \cup {AllKey}

VARIABLES
    local,     \* each instance's entries: the total it knows of and what it did not send yet
    stored,    \* the store's counters
    req,       \* the requests: who, where, at which charge, and what is still being sent
    real,      \* history variable: what was charged to each bucket
    doubled,   \* history variable: what the store counted twice, its answer lost
    faults

vars == <<local, stored, req, real, doubled, faults>>

LimitOf(k) ==
    IF k \in Visitor THEN limit ELSE IF k = AllKey THEN globalLimit ELSE limit * PREFIX_FACTOR

Batch(k) == IF LimitOf(k) \div SHARE > 1 THEN LimitOf(k) \div SHARE ELSE 1

Unborn == [pc |-> "unborn", sending |-> {}, over |-> {}]

Init ==
    /\ local = [i \in Instance |-> [k \in Bucket |-> [total |-> 0, unsent |-> 0]]]
    /\ stored = [k \in Bucket |-> 0]
    /\ req = [r \in Requests |-> Unborn]
    /\ real = [k \in Bucket |-> 0] /\ doubled = [k \in Bucket |-> 0] /\ faults = 0

-----------------------------------------------------------------------------

Sends(i, k, cost) == local[i][k].unsent + cost >= Batch(k)

\* charge() of several buckets at once: those with a batch to send wait for the store's answer.
Charge(q, keys, cost, pc) ==
    LET entry(k) == local[q.at][k]
        out      == {k \in keys : Sends(q.at, k, cost)}
    IN /\ local' = [local EXCEPT ![q.at] = [k \in Bucket |->
                        IF k \notin keys THEN entry(k)
                        ELSE [entry(k) EXCEPT !.unsent = IF k \in out THEN 0 ELSE @ + cost]]]
       /\ req' = [req EXCEPT ![q.id] =
                    [q EXCEPT !.pc = pc, !.cost = cost,
                              !.sending = {[key |-> k, had |-> entry(k).total,
                                            sent |-> entry(k).unsent + cost, reply |-> 0] : k \in out},
                              !.over = {k \in keys \ out : entry(k).total + entry(k).unsent + cost > LimitOf(k)}]]
       /\ real' = [k \in Bucket |-> IF k \in keys THEN real[k] + cost ELSE real[k]]

\* The visitor's own budget first.
OwnBuckets(v) == {v, PrefixOf[v]}

Ask(r) ==
    /\ req[r].pc = "unborn" /\ \A p \in 1..r - 1 : req[p].pc # "unborn"
    /\ \E v \in Visitor, i \in Instance, cost \in Cost :
          Charge([id |-> r, by |-> v, at |-> i, cost |-> cost, pc |-> "own", sending |-> {},
                  over |-> {}, relayed |-> FALSE], OwnBuckets(v), cost, "own")
    /\ UNCHANGED <<stored, doubled, faults>>

StoreAdds(r, s) ==
    /\ s.reply = 0
    /\ stored' = [stored EXCEPT ![s.key] = @ + s.sent]
    /\ req' = [req EXCEPT ![r].sending = (@ \ {s}) \cup {[s EXCEPT !.reply = stored[s.key] + s.sent]}]
    /\ UNCHANGED <<local, real, doubled, faults>>

\* The count a request sees when its command ends: what the entry holds by then.
Counted(r, s, entry) ==
    /\ local' = [local EXCEPT ![req[r].at][s.key] = entry]
    /\ req' = [req EXCEPT ![r].sending = @ \ {s},
                          ![r].over = IF entry.total + entry.unsent > LimitOf(s.key) THEN @ \cup {s.key} ELSE @]

\* Mutant: what was sent is counted beside the store's total, which holds it.
TotalBesideSent(entry, s) ==
    [entry EXCEPT !.total = IF s.reply + s.sent > s.had THEN s.reply + s.sent ELSE s.had]

\* The larger of the answer and of the total known when the command was sent: of two commands
\* in flight, the answer that comes last stands, be it the older one.
WithTotal(entry, s) == [entry EXCEPT !.total = IF s.reply > s.had THEN s.reply ELSE s.had]

Answers(r, s) ==
    /\ s.reply > 0
    /\ Counted(r, s, WithTotal(local[req[r].at][s.key], s))
    /\ UNCHANGED <<stored, real, doubled, faults>>

\* The command failed, before it was applied or after: what was sent is unsent again.
StoreFails(r, s) ==
    /\ faults < MaxFaults
    /\ Counted(r, s, [local[req[r].at][s.key] EXCEPT !.unsent = @ + s.sent])
    /\ doubled' = IF s.reply > 0 THEN [doubled EXCEPT ![s.key] = @ + s.sent] ELSE doubled
    /\ faults' = faults + 1
    /\ UNCHANGED <<stored, real>>

\* All answers are in: a 429, the next charge, or the call to the provider.
Decide(r) ==
    LET q == req[r]
    IN /\ q.pc \in {"own", "all"} /\ q.sending = {}
       /\ \/ /\ q.over # {}
             /\ req' = [req EXCEPT ![r].pc = IF q.relayed THEN "done" ELSE "refused"]
             /\ UNCHANGED <<local, real>>
          \/ /\ q.over = {} /\ q.pc = "own"
             /\ Charge(q, {AllKey}, q.cost, "all")
          \/ /\ q.over = {} /\ q.pc = "all"
             /\ req' = [req EXCEPT ![r].pc = IF q.relayed THEN "done" ELSE "out"]
             /\ UNCHANGED <<local, real>>
       /\ UNCHANGED <<stored, doubled, faults>>

LargeAnswers == {r \in Requests : req[r] # Unborn /\ req[r].relayed}

\* The provider answered, at length or not; the answer goes out whatever the second charge says.
Relay(r) ==
    /\ req[r].pc = "out"
    /\ \/ req' = [req EXCEPT ![r].pc = "done"] /\ UNCHANGED <<local, real>>
       \/ /\ Cardinality(LargeAnswers) < MaxLarge
          /\ \E cost \in Cost :
             Charge([req[r] EXCEPT !.relayed = TRUE], OwnBuckets(req[r].by), cost, "own")
    /\ UNCHANGED <<stored, doubled, faults>>

Next ==
    \E r \in Requests :
        \/ Ask(r) \/ Decide(r) \/ Relay(r)
        \/ \E s \in req[r].sending : StoreAdds(r, s) \/ Answers(r, s) \/ StoreFails(r, s)

Spec == Init /\ [][Next]_vars

-----------------------------------------------------------------------------

\* A request is refused only over a bucket that was really charged past its limit (or counted
\* twice past it, an answer lost): never for what other visitors spent of theirs, and never over
\* the shared bucket for requests that their own visitor's limit refused.
RefusalEarned ==
    \A r \in Requests : \A k \in req[r].over :
        /\ real[k] + doubled[k] > LimitOf(k)
        /\ k = AllKey => req[r].pc # "own"
=============================================================================
