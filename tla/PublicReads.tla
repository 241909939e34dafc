---------------------------- MODULE PublicReads -----------------------------
(***************************************************************************)
(* The shared reads of large stored values behind the market, list, trades *)
(* and candles routes (application.mjs: freshValue, startValue, sharedGet, *)
(* publicRead).  A request that has to go to the store is charged once; a  *)
(* request that finds a read under way or settled lately joins it, and     *)
(* starts one of its own when the one it joined was refused to the visitor *)
(* who started it.                                                         *)
(***************************************************************************)
EXTENDS Integers, SequencesExt

CONSTANTS
    Key, Request,
    READ_CACHE_MS, READ_CACHE_MAX,
    MaxReads,       \* bound: reads one request makes
    MaxWrites, MaxFaults, MaxNow

VARIABLES
    now,
    value,       \* the store: how often a key was written
    entries,     \* all reads ever started
    shared,      \* sharedValues, in its order: places of the entries it holds
    swept,       \* sharedSweptAt
    request,     \* what each request's context holds, and the reads it waits for
    faults

vars == <<now, value, entries, shared, swept, request, faults>>

Init ==
    /\ now = 0 /\ swept = 0 /\ faults = 0
    /\ value = [k \in Key |-> 0]
    /\ entries = <<>> /\ shared = <<>>
    /\ request = [r \in Request |-> [pc |-> "open", asks |-> 0, paid |-> "no", charges |-> 0,
                                     seen |-> {}, waits |-> {}]]

Holds(key, e) == entries[e].key = key

\* freshValue: the entry of a read under way (it has no expiry yet) or settled lately.
Fresh(key) ==
    {e \in DOMAIN entries :
        e \in ToSet(shared) /\ Holds(key, e) /\ (entries[e].pc # "done" \/ entries[e].expires > now)}

\* The sweep of startValue: the expired ones, when it is time or the map is full; then the oldest.
Kept ==
    LET due  == now - swept >= READ_CACHE_MS \/ Len(shared) >= READ_CACHE_MAX
        live == SelectSeq(shared, LAMBDA e : entries[e].pc # "done" \/ entries[e].expires > now)
        left == IF Len(live) >= READ_CACHE_MAX
                THEN SubSeq(live, Len(live) - READ_CACHE_MAX + 2, Len(live)) ELSE live
    IN IF due THEN left ELSE shared

\* Map.set: a key the map still holds keeps its place.
WithEntry(map, key, e) ==
    IF \E i \in DOMAIN map : Holds(key, map[i])
    THEN [i \in DOMAIN map |-> IF Holds(key, map[i]) THEN e ELSE map[i]]
    ELSE Append(map, e)

\* startValue for request q (the record): its own read, charged once per request.
Start(r, q, key, least) ==
    LET e == Len(entries) + 1
    IN /\ swept' = IF now - swept >= READ_CACHE_MS \/ Len(shared) >= READ_CACHE_MAX THEN now ELSE swept
       /\ shared' = WithEntry(Kept, key, e)
       /\ entries' = Append(entries, [key |-> key, by |-> r, pc |-> "charging", expires |-> 0, value |-> 0])
       /\ request' = [request EXCEPT ![r] =
                         [q EXCEPT !.seen = @ \cup {key},
                                   !.waits = @ \cup {[entry |-> e, joined |-> FALSE, least |-> least]},
                                   !.charges = IF q.paid = "no" THEN @ + 1 ELSE @,
                                   !.paid = IF @ = "no" THEN "asked" ELSE @]]

\* Mutant: a key read again is shared like the first time.
SharesAgain(q, key) == TRUE

\* A key read again within one request is being re-checked, in the store.
Shares(q, key) == key \notin q.seen

\* sharedGet: `least` is what the store held when a key was asked for again.
SharedGet(r, q, key, least) ==
    IF Shares(q, key) /\ Fresh(key) # {}
    THEN /\ \E e \in Fresh(key) :
              request' = [request EXCEPT ![r] =
                             [q EXCEPT !.seen = @ \cup {key},
                                       !.waits = @ \cup {[entry |-> e, joined |-> TRUE, least |-> least]}]]
         /\ UNCHANGED <<entries, shared, swept>>
    ELSE Start(r, q, key, least)

-----------------------------------------------------------------------------
(* A request's reads, some of them in parallel.                            *)

Ask(r) ==
    /\ request[r].pc = "open" /\ request[r].asks < MaxReads
    /\ \E key \in Key :
          SharedGet(r, [request[r] EXCEPT !.asks = @ + 1], key,
                    IF key \in request[r].seen THEN value[key] ELSE 0)
    /\ UNCHANGED <<now, value, faults>>

\* The limiter's answer about the request's visitor.
ChargeAnswers(r) ==
    /\ request[r].paid = "asked"
    /\ \E answer \in {"ok", "over"} : request' = [request EXCEPT ![r].paid = answer]
    /\ UNCHANGED <<now, value, entries, shared, swept, faults>>

\* Mutant: a refused read stays in the map.
StaysListed(e) == shared

\* A rejected entry leaves the map, when it is still the one there.
Unlisted(e) == SelectSeq(shared, LAMBDA x : x # e)

Refused(e) ==
    /\ entries[e].pc = "charging" /\ request[entries[e].by].paid = "over"
    /\ entries' = [entries EXCEPT ![e].pc = "refused"]
    /\ shared' = Unlisted(e)
    /\ UNCHANGED <<now, value, swept, request, faults>>

\* The store serves the read once the charge passed.
StoreServes(e) ==
    /\ entries[e].pc = "charging" /\ request[entries[e].by].paid = "ok"
    /\ entries' = [entries EXCEPT ![e].pc = "read", ![e].value = value[entries[e].key]]
    /\ UNCHANGED <<now, value, shared, swept, request, faults>>

Settles(e) ==
    /\ entries[e].pc = "read"
    /\ entries' = [entries EXCEPT ![e].pc = "done", ![e].expires = now + READ_CACHE_MS]
    /\ UNCHANGED <<now, value, shared, swept, request, faults>>

StoreFails(e) ==
    /\ entries[e].pc = "read" /\ faults < MaxFaults
    /\ entries' = [entries EXCEPT ![e].pc = "failed"]
    /\ shared' = Unlisted(e) /\ faults' = faults + 1
    /\ UNCHANGED <<now, value, swept, request>>

-----------------------------------------------------------------------------
(* What a read that ended does to a request that waits for it.             *)

Waiting(r, w) == request[r].pc = "open" /\ w \in request[r].waits

Receive(r, w) ==
    /\ Waiting(r, w) /\ entries[w.entry].pc = "done"
    /\ request' = [request EXCEPT ![r].waits = @ \ {w}]
    /\ UNCHANGED <<now, value, entries, shared, swept, faults>>

\* A refusal is its visitor's own.
RefusesOwn(w) == ~w.joined

\* The request ends with an error: its own refusal's, or the store's.
Fails(r, w) ==
    /\ Waiting(r, w)
    /\ \/ entries[w.entry].pc = "failed" /\ request' = [request EXCEPT ![r].pc = "failed"]
       \/ /\ entries[w.entry].pc = "refused" /\ RefusesOwn(w)
          /\ request' = [request EXCEPT ![r].pc = "refused"]
    /\ UNCHANGED <<now, value, entries, shared, swept, faults>>

\* The visitor who started that read was over their limit: read it for this request.
ReadAgain(r, w) ==
    LET key == entries[w.entry].key IN
    /\ Waiting(r, w) /\ entries[w.entry].pc = "refused" /\ ~RefusesOwn(w)
    /\ SharedGet(r, [request[r] EXCEPT !.waits = @ \ {w}, !.seen = @ \ {key}], key, w.least)
    /\ UNCHANGED <<now, value, faults>>

Finish(r) ==
    /\ request[r].pc = "open" /\ request[r].asks > 0 /\ request[r].waits = {}
    /\ request' = [request EXCEPT ![r].pc = "done"]
    /\ UNCHANGED <<now, value, entries, shared, swept, faults>>

-----------------------------------------------------------------------------

Write ==
    /\ \E k \in Key : value[k] < MaxWrites /\ value' = [value EXCEPT ![k] = @ + 1]
    /\ UNCHANGED <<now, entries, shared, swept, request, faults>>

Tick ==
    /\ now < MaxNow /\ now' = now + 1
    /\ UNCHANGED <<value, entries, shared, swept, request, faults>>

Reads ==
    \/ \E e \in DOMAIN entries : Refused(e) \/ StoreServes(e) \/ Settles(e) \/ StoreFails(e)
    \/ \E r \in Request : \/ ChargeAnswers(r) \/ Finish(r)
                          \/ \E w \in request[r].waits : Receive(r, w) \/ Fails(r, w) \/ ReadAgain(r, w)

Next == Reads \/ (\E r \in Request : Ask(r)) \/ Write \/ Tick

Spec == Init /\ [][Next]_vars /\ WF_vars(Reads)

-----------------------------------------------------------------------------

\* A visitor's refusal is theirs alone and comes after one charge, and the store is read only for
\* requests that were charged: however requests join each other's reads.
OwnCharge ==
    /\ \A r \in Request :
          /\ request[r].charges <= 1
          /\ request[r].pc = "refused" => request[r].paid = "over"
    /\ \A e \in DOMAIN entries :
          entries[e].pc \in {"read", "done", "failed"} => request[entries[e].by].paid = "ok"

\* A re-check sees what the store holds by then: it never gets an older value than was stored when
\* it asked, though others' reads of before may still be shared.
RecheckIsNew ==
    \A r \in Request : \A w \in request[r].waits :
        entries[w.entry].pc = "done" => entries[w.entry].value >= w.least

\* Every request that asked ends, however many of the reads it joined are refused.
AllEnd == <>[](\A r \in Request : request[r].asks > 0 => request[r].pc # "open")
=============================================================================
