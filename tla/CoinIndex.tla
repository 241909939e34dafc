----------------------------- MODULE CoinIndex -----------------------------
(***************************************************************************)
(* The server's index of coins (indexer.mjs): records, the list shown to   *)
(* visitors, issued metadata URIs, the launchers' daily slots and the      *)
(* trades read so far, kept in a store that many requests on many          *)
(* instances work on at once.                                              *)
(*                                                                         *)
(* A worker runs one operation on one coin: a registration, a visit        *)
(* (`track`) or a sync.  Its steps are the reads and writes another worker *)
(* can come between; what a lock of the store covers is one action unless  *)
(* it reads something else too.  A worker may die anywhere - its locks and *)
(* leases then expire - and a write may fail after it was applied.         *)
(*                                                                         *)
(* A coin's transactions are numbered from its create; a coin's cursor is  *)
(* the last one read.  Outside the model: prices and figures, notices of   *)
(* launches, migrated pools, paging through signatures, sections that      *)
(* outlive their lock's 5 s.                                               *)
(***************************************************************************)
EXTENDS Integers, FiniteSets, Sequences

CONSTANTS
    Worker, Mint, Uri,
    UriOf,               \* the metadata URI each coin was created with
    OwnConfig,           \* coins under one of Quant Pad's DBC configs
    Quantum,             \* coins a check verifies as Quantum coins, when it can tell
    MAX_EXTERNAL, maxNative, launchesPerWallet,
    MaxTx, MaxOps, MaxDay, MaxFaults, MaxLapses,      \* bounds
    None

ASSUME IndexAssumption ==
    /\ UriOf \in [Mint -> Uri]
    /\ OwnConfig \subseteq Mint /\ Quantum \subseteq Mint
    /\ MAX_EXTERNAL \in Nat /\ maxNative \in Nat /\ launchesPerWallet \in Nat \ {0}
    /\ MaxTx \in Nat \ {0} /\ MaxOps \in Nat /\ MaxDay \in Nat /\ MaxFaults \in Nat /\ MaxLapses \in Nat
    /\ IsFiniteSet(Worker) /\ IsFiniteSet(Mint)

VARIABLES
    coin,        \* coin:<mint>, or None
    listed,      \* coins:list: each coin's summary, "external" or "native", or None
    trades,      \* the transactions whose trades are stored
    issued,      \* the URIs /api/metadata issued within a day and no registration consumed
    claim,       \* the coin each URI is bound to, or None; a binding lasts CLAIM_TTL_MS
    slots,       \* launcher-day: slots taken, per day; one launcher for all coins
    chain,       \* each coin's transactions so far
    old,         \* coins without recent trades, old enough to be stale
    day,
    checked,     \* the URIs some request to /api/metadata found unbound, and is to issue
    worker,      \* each worker's operation: where it is and what it read
    made, dropped,           \* history: launches admitted per day, deleted coins
    lapsed,                  \* history: the coins each URI was bound to before, in order
    byUri,                   \* history: the coins listed by their URI, each with its binding
    ops, faults

store   == <<coin, listed, trades, issued, claim, slots>>
world   == <<chain, old, day, checked>>
history == <<made, dropped, lapsed, byUri>>
vars    == <<store, world, worker, history, ops, faults>>

External == "external"
Native   == {"quantum", "issued-uri"}

Record == [ provenance : {External} \cup Native, cursor : 0..MaxTx, from : 0..MaxTx,
            behind : BOOLEAN ]

\* "None" is nothing else.
ASSUME NoneAssumption ==
    /\ \A m \in Mint : m # None
    /\ \A r \in Record : r # None
    /\ \A d \in 0..MaxDay : d # None
    /\ \A n \in 0..MaxLapses : n # None

IsNative(m)   == coin[m] # None /\ coin[m].provenance \in Native
Summary(r)    == IF r.provenance = External THEN External ELSE "native"
NativeListed  == {m \in Mint : listed[m] = "native"}

\* isStale, of the record: old, without recent trades, not a Quantum coin and fully read.
IsStale(m) == IsNative(m) /\ m \notin Quantum /\ ~coin[m].behind /\ m \in old

\* A URI's binding is known by how many lapsed before it.
Binding(u) == Len(lapsed[u])

Idle == [ op |-> "none", pc |-> "idle", mint |-> None, seen |-> None, quantum |-> FALSE,
          bound |-> None, admitted |-> FALSE, slot |-> None, todo |-> {}, gone |-> {},
          fresh |-> {} ]

Init ==
    /\ coin = [m \in Mint |-> None] /\ listed = [m \in Mint |-> None]
    /\ trades = [m \in Mint |-> {}]
    /\ issued = Uri /\ claim = [u \in Uri |-> None]
    /\ slots = [d \in 0..MaxDay |-> 0]
    /\ chain = [m \in Mint |-> 1] /\ old = {} /\ day = 0 /\ checked = {}
    /\ worker = [w \in Worker |-> Idle]
    /\ made = {} /\ dropped = {} /\ lapsed = [u \in Uri |-> <<>>] /\ byUri = {}
    /\ ops = 0 /\ faults = 0

At(w, pc) == worker[w].pc = pc
MintOf(w) == worker[w].mint
Op(w)     == worker[w].op
Goes(w, pc) == worker' = [worker EXCEPT ![w].pc = pc]
Ends(w)   == worker' = [worker EXCEPT ![w] = Idle]

\* lock:coin:<mint> and lock:coins:list, held over two steps; other sections are one action.
CoinFree(m) == \A w \in Worker : At(w, "delete") => m \notin worker[w].gone
ListFree    == \A w \in Worker : ~At(w, "list")

-----------------------------------------------------------------------------
(* The world.                                                              *)

Trade(m) ==
    /\ chain[m] < MaxTx
    /\ chain' = [chain EXCEPT ![m] = @ + 1]
    /\ UNCHANGED <<store, old, day, checked, worker, history, ops, faults>>

\* A week without trades that the index has read of.
GrowOld(m) ==
    /\ m \notin old /\ IsNative(m)
    /\ old' = old \cup {m}
    /\ UNCHANGED <<store, chain, day, checked, worker, history, ops, faults>>

NextDay ==
    /\ day < MaxDay
    /\ day' = day + 1
    /\ UNCHANGED <<store, chain, old, checked, worker, history, ops, faults>>

\* /api/metadata: the same fields give the same URI, which is refused while it is bound (checkUri)
\* and issued once its document is stored; a registration may bind it in between.
CheckUri(u) ==
    /\ claim[u] = None /\ u \notin checked
    /\ checked' = checked \cup {u}
    /\ UNCHANGED <<store, chain, old, day, worker, history, ops, faults>>

IssueUri(u) ==
    /\ u \in checked
    /\ issued' = issued \cup {u} /\ checked' = checked \ {u}
    /\ UNCHANGED <<coin, listed, trades, claim, slots, chain, old, day, worker, history, ops, faults>>

\* After a day.
IssueExpires(u) ==
    /\ u \in issued
    /\ issued' = issued \ {u}
    /\ UNCHANGED <<coin, listed, trades, claim, slots, world, worker, history, ops, faults>>

\* After thirty days, when nothing that was issued or checked before the binding is left; an
\* operation that read the binding just before may still be at work.
ClaimLapses(u) ==
    /\ claim[u] # None /\ u \notin issued \cup checked /\ Len(lapsed[u]) < MaxLapses
    /\ claim' = [claim EXCEPT ![u] = None]
    /\ lapsed' = [lapsed EXCEPT ![u] = Append(@, claim[u])]
    /\ UNCHANGED <<coin, listed, trades, issued, slots, world, worker, made, dropped, byUri, ops, faults>>

-----------------------------------------------------------------------------
(* The start of an operation: the record is read without a lock.           *)

Begin(w, op, m, pc) ==
    /\ At(w, "idle") /\ ops < MaxOps
    /\ ops' = ops + 1
    /\ worker' = [worker EXCEPT ![w] = [Idle EXCEPT !.op = op, !.mint = m, !.seen = coin[m],
                                                    !.pc = pc]]
    /\ UNCHANGED <<store, world, history, faults>>

\* registerLaunch: a native launch is only listed again; a coin under someone else's config refused.
Register(w, m) == Begin(w, "register", m, IF IsNative(m) THEN "relist" ELSE "issued") /\ m \in OwnConfig

Track(w, m) == Begin(w, "track", m, "verify")

\* syncCoin: one sync of a coin at a time.
Sync(w, m) ==
    /\ coin[m] # None
    /\ \A v \in Worker : Op(v) = "sync" => MintOf(v) # m
    /\ Begin(w, "sync", m, "read")

\* ensureListed
Relist(w) ==
    /\ At(w, "relist")
    /\ IF listed[MintOf(w)] = None THEN Goes(w, "summary") ELSE Ends(w)
    /\ UNCHANGED <<store, world, history, ops, faults>>

\* verifyQuantum: TRUE, FALSE, or not known now.
Verified(m) == IF m \in Quantum THEN BOOLEAN ELSE {FALSE}

\* registerLaunch: a coin that is not known to be a Quantum coin needs an issued URI, or the one
\* bound to it.
ReadIssued(w) ==
    LET m == MintOf(w)  u == UriOf[m]
        bound == claim[u] = m
        has == bound \/ u \in issued
    IN /\ At(w, "issued")
       /\ \E q \in Verified(m) :
             IF ~q /\ ~has THEN Ends(w)
             ELSE worker' = [worker EXCEPT ![w].quantum = q,
                                ![w].bound = IF bound THEN Binding(u) ELSE None,
                                ![w].pc = IF has /\ ~bound THEN "claim" ELSE "admit"]
       /\ UNCHANGED <<store, world, history, ops, faults>>

\* Mutant: a URI that was bound to another coin is bound anew.
ClaimFreeAlways(u) == TRUE

ClaimFree(u) == claim[u] = None

\* The URI is bound to one coin at a time; a Quantum coin goes on without it.
ClaimUri(w) ==
    LET m == MintOf(w)  u == UriOf[m]
    IN /\ At(w, "claim")
       /\ \/ /\ ClaimFree(u)
             /\ claim' = [claim EXCEPT ![u] = m]
             /\ worker' = [worker EXCEPT ![w].bound = Binding(u), ![w].pc = "admit"]
          \/ /\ ~ClaimFree(u)
             /\ IF claim[u] = m \/ worker[w].quantum
                THEN worker' = [worker EXCEPT ![w].pc = "admit",
                                   ![w].bound = IF claim[u] = m THEN Binding(u) ELSE None]
                ELSE Ends(w)
             /\ UNCHANGED claim
       /\ UNCHANGED <<coin, listed, trades, issued, slots, world, history, ops, faults>>

\* track and sync: a verified Quantum coin under an own config that is not native yet becomes a
\* native launch, when it is admitted (track's draft, healQuantum).
Verify(w) ==
    LET m == MintOf(w)  seen == worker[w].seen
    IN /\ At(w, "verify")
       /\ \E q \in Verified(m) :
             worker' = [worker EXCEPT ![w].quantum = q,
                ![w].pc = IF q /\ m \in OwnConfig /\ (seen = None \/ seen.provenance = External)
                          THEN "admit"
                          ELSE IF Op(w) = "track" /\ seen # None THEN "relist" ELSE "write"]
       /\ UNCHANGED <<store, world, history, ops, faults>>

-----------------------------------------------------------------------------
(* admitNative, hasRoom, evictStale, takeLaunchSlot.                       *)

\* Not admitted: a registration is refused, a visit or a sync leaves the coin external.
Refused(w) ==
    IF Op(w) = "register" THEN Ends(w)
    ELSE IF Op(w) = "track" /\ worker[w].seen # None THEN Goes(w, "relist")
    ELSE Goes(w, "write")

HasRoom == Cardinality(NativeListed) < maxNative

\* The summaries that look stale: they do not say whether a coin is still being read.
Candidates == {m \in NativeListed \ Quantum : m \in old}

\* Listed as a native launch already, room in the list, or none before stale launches are evicted.
Admit(w) ==
    LET m == MintOf(w)
    IN /\ At(w, "admit")
       /\ CASE m \in NativeListed ->
                 worker' = [worker EXCEPT ![w].admitted = TRUE, ![w].pc = "write"]
            [] m \notin NativeListed /\ HasRoom -> Goes(w, "slot")
            [] m \notin NativeListed /\ ~HasRoom /\ Candidates # {} ->
                 worker' = [worker EXCEPT ![w].todo = Candidates, ![w].pc = "evict"]
            [] OTHER -> Refused(w)
       /\ UNCHANGED <<store, world, history, ops, faults>>

\* Checked again under the coin's lock, and deleted with its trades.
Evict(w, m) ==
    /\ At(w, "evict") /\ m \in worker[w].todo /\ CoinFree(m)
    /\ IF coin[m] # None /\ ~IsStale(m)
       THEN /\ worker' = [worker EXCEPT ![w].todo = @ \ {m}]
            /\ UNCHANGED <<coin, trades, dropped>>
       ELSE /\ coin' = [coin EXCEPT ![m] = None]
            /\ trades' = [trades EXCEPT ![m] = {}]
            /\ dropped' = dropped \cup {m}
            /\ worker' = [worker EXCEPT ![w].todo = @ \ {m}, ![w].gone = @ \cup {m}]
    /\ UNCHANGED <<listed, issued, claim, slots, world, made, lapsed, byUri, ops, faults>>

\* Those deleted leave the list.
Unlist(w) ==
    /\ At(w, "evict") /\ worker[w].todo = {} /\ worker[w].gone # {} /\ ListFree
    /\ listed' = [m \in Mint |-> IF m \in worker[w].gone THEN None ELSE listed[m]]
    /\ worker' = [worker EXCEPT ![w].gone = {}, ![w].pc = "recount"]
    /\ UNCHANGED <<coin, trades, issued, claim, slots, world, history, ops, faults>>

NothingEvicted(w) ==
    /\ At(w, "evict") /\ worker[w].todo = {} /\ worker[w].gone = {}
    /\ Refused(w)
    /\ UNCHANGED <<store, world, history, ops, faults>>

Recount(w) ==
    /\ At(w, "recount")
    /\ IF HasRoom THEN Goes(w, "slot") ELSE Refused(w)
    /\ UNCHANGED <<store, world, history, ops, faults>>

\* Mutant: one slot more than the allowance.
SlotLeftOneMore == slots[day] <= launchesPerWallet

SlotLeft == slots[day] < launchesPerWallet

TakeSlot(w) ==
    /\ At(w, "slot")
    /\ IF SlotLeft
       THEN /\ slots' = [slots EXCEPT ![day] = @ + 1]
            /\ worker' = [worker EXCEPT ![w].admitted = TRUE, ![w].slot = day, ![w].pc = "write"]
       ELSE /\ Refused(w)
            /\ UNCHANGED slots
    /\ UNCHANGED <<coin, listed, trades, issued, claim, world, history, ops, faults>>

-----------------------------------------------------------------------------
(* Reading the chain (syncHeld's collect) and writing the record.          *)

\* In order, up to the first one the node does not show yet.
Readable(from, to) == {from + 1 .. k : k \in from..to}

\* A coin that was opened first by a visitor starts at its newest transaction, a launch at its
\* first.  The node may be behind.
ReadChain(w) ==
    LET m == MintOf(w)  seen == worker[w].seen
    IN /\ At(w, "read")
       /\ \E tip \in seen.cursor..chain[m] :
          LET newest == seen.cursor = 0 /\ seen.provenance = External /\ tip > 0
              start  == IF newest THEN tip - 1 ELSE seen.cursor
          IN \E fresh \in Readable(start, tip) :
                LET cursor == IF fresh = {} THEN seen.cursor
                              ELSE CHOOSE n \in fresh : \A k \in fresh : k <= n
                IN worker' = [worker EXCEPT ![w].fresh = fresh, ![w].pc = "verify",
                      ![w].seen = [seen EXCEPT !.cursor = cursor,
                                               !.from = IF seen.cursor = 0 THEN start ELSE @,
                                               !.behind = cursor < tip]]
       /\ UNCHANGED <<store, world, history, ops, faults>>

\* Mutant: the upgrade to a native launch is applied to whatever is stored.
ApplyHealAlways(current, upgrade) ==
    IF upgrade THEN [current EXCEPT !.provenance = "quantum"] ELSE current

\* applyHeal: only while the record is still external; a registration that won keeps its fields.
ApplyHeal(current, upgrade) ==
    IF upgrade /\ current.provenance = External THEN [current EXCEPT !.provenance = "quantum"]
    ELSE current

Fresh(provenance) == [provenance |-> provenance, cursor |-> 0, from |-> 0, behind |-> TRUE]

\* What the operation stores, from the record as stored now; None leaves it alone.
NextRecord(w) ==
    LET m == MintOf(w)  me == worker[w]  current == coin[m]
    IN CASE Op(w) = "register" /\ ~IsNative(m) ->
              [ (IF current = None THEN Fresh(External) ELSE current)
                EXCEPT !.provenance = IF me.quantum THEN "quantum" ELSE "issued-uri",
                       !.behind = TRUE ]
         [] Op(w) = "track" /\ me.seen = None /\ current = None ->
              Fresh(IF me.admitted THEN "quantum" ELSE External)
         [] Op(w) = "track" /\ me.seen # None /\ current # None ->
              ApplyHeal(current, me.admitted)
         [] Op(w) = "sync" /\ current # None ->
              [ ApplyHeal(current, me.admitted)
                EXCEPT !.cursor = me.seen.cursor, !.from = me.seen.from,
                       !.behind = me.seen.behind ]
         [] OTHER -> None

\* A registration indexes the create, which carries the dev buy.
ReadTrades(w) == IF Op(w) = "register" THEN {1} ELSE worker[w].fresh

Store(w) ==
    LET m == MintOf(w)  r == NextRecord(w)  becomes == r.provenance \in Native /\ ~IsNative(m)
    IN /\ coin' = [coin EXCEPT ![m] = r]
       /\ trades' = [trades EXCEPT ![m] = @ \cup ReadTrades(w)]
       /\ old' = IF worker[w].fresh = {} THEN old ELSE old \ {m}
       /\ made' = IF becomes /\ worker[w].slot # None THEN made \cup {<<m, worker[w].slot>>}
                  ELSE made
       /\ byUri' = IF becomes /\ r.provenance = "issued-uri" THEN byUri \cup {<<m, worker[w].bound>>}
                   ELSE byUri

LeaveStored == UNCHANGED <<coin, trades, old, made, byUri>>

\* writeCoin.  A registration or a first visit whose record someone else created gives the slot
\* back; an upgrade (healQuantum) does not.
Write(w) ==
    LET m == MintOf(w)  me == worker[w]  creates == me.seen = None \/ Op(w) = "register"
    IN /\ At(w, "write") /\ CoinFree(m)
       /\ IF NextRecord(w) # None
          THEN Store(w) /\ Goes(w, IF Op(w) = "register" THEN "consume" ELSE "summary")
          ELSE /\ LeaveStored
               /\ IF coin[m] = None THEN Ends(w)
                  ELSE Goes(w, IF creates /\ me.slot # None THEN "refund"
                               ELSE IF Op(w) = "register" THEN "consume" ELSE "summary")
       /\ UNCHANGED <<listed, issued, claim, slots, chain, day, checked, dropped, lapsed, ops, faults>>

\* The write is answered with an error, whether it was applied or not: the slot is given back.
WriteFails(w) ==
    /\ At(w, "write") /\ CoinFree(MintOf(w)) /\ faults < MaxFaults
    /\ faults' = faults + 1
    /\ IF NextRecord(w) # None THEN Store(w) \/ LeaveStored ELSE LeaveStored
    /\ IF worker[w].slot # None /\ (worker[w].seen = None \/ Op(w) = "register")
       THEN Goes(w, "giveback") ELSE Ends(w)
    /\ UNCHANGED <<listed, issued, claim, slots, chain, day, checked, dropped, lapsed, ops>>

Refund(w) ==
    /\ At(w, "refund") \/ At(w, "giveback")
    /\ slots' = [slots EXCEPT ![worker[w].slot] = IF @ > 0 THEN @ - 1 ELSE 0]
    /\ IF At(w, "giveback") THEN Ends(w)
       ELSE Goes(w, IF Op(w) = "register" THEN "consume" ELSE "summary")
    /\ UNCHANGED <<coin, listed, trades, issued, claim, world, history, ops, faults>>

\* A registration consumes the URI it is bound to.
Consume(w) ==
    /\ At(w, "consume")
    /\ issued' = IF worker[w].bound # None THEN issued \ {UriOf[MintOf(w)]} ELSE issued
    /\ Goes(w, "summary")
    /\ UNCHANGED <<coin, listed, trades, claim, slots, world, history, ops, faults>>

-----------------------------------------------------------------------------
(* saveSummary and forget.                                                 *)

\* Mutant: the summary is made from the record the operation started from.
SummarizedFirstRead(w) == worker[w].seen

\* The record as stored once the list's lock is held.
Summarized(w) == coin[MintOf(w)]

ReadStored(w) ==
    /\ At(w, "summary") /\ ListFree
    /\ IF Summarized(w) = None THEN Ends(w)
       ELSE worker' = [worker EXCEPT ![w].seen = Summarized(w), ![w].pc = "list"]
    /\ UNCHANGED <<store, world, history, ops, faults>>

\* The coins dropped at the external cap: any as many as are too many, never the one being saved.
\* (The code takes the least recently read ones.)
Drops(m, summary) ==
    LET others == {n \in Mint \ {m} : listed[n] = External}
        excess == Cardinality(others) + (IF summary = External THEN 1 ELSE 0) - MAX_EXTERNAL
    IN {S \in SUBSET others : Cardinality(S) = IF excess > 0 THEN excess ELSE 0}

SaveSummary(w) ==
    LET m == MintOf(w)  summary == Summary(worker[w].seen)
    IN /\ At(w, "list")
       /\ IF listed[m] = summary
          THEN Ends(w) /\ UNCHANGED listed
          ELSE \E drop \in Drops(m, summary) :
                 /\ listed' = [n \in Mint |-> IF n = m THEN summary
                                              ELSE IF n \in drop THEN None ELSE listed[n]]
                 /\ IF drop = {} THEN Ends(w)
                    ELSE worker' = [worker EXCEPT ![w].todo = drop, ![w].pc = "forget"]
       /\ UNCHANGED <<coin, trades, issued, claim, slots, world, history, ops, faults>>

\* Not listed again, and not a launch by now.
Forgettable(m) == listed[m] = None /\ ~IsNative(m)

Forget(w, m) ==
    /\ At(w, "forget") /\ m \in worker[w].todo /\ CoinFree(m)
    /\ worker' = [worker EXCEPT ![w].todo = @ \ {m},
                     ![w].gone = IF Forgettable(m) THEN {m} ELSE {},
                     ![w].pc = IF Forgettable(m) THEN "delete" ELSE "forget"]
    /\ UNCHANGED <<store, world, history, ops, faults>>

Delete(w) ==
    /\ At(w, "delete")
    /\ coin' = [m \in Mint |-> IF m \in worker[w].gone THEN None ELSE coin[m]]
    /\ trades' = [m \in Mint |-> IF m \in worker[w].gone THEN {} ELSE trades[m]]
    /\ dropped' = dropped \cup worker[w].gone
    /\ worker' = [worker EXCEPT ![w].gone = {}, ![w].pc = "forget"]
    /\ UNCHANGED <<listed, issued, claim, slots, world, made, lapsed, byUri, ops, faults>>

Forgotten(w) ==
    /\ At(w, "forget") /\ worker[w].todo = {}
    /\ Ends(w)
    /\ UNCHANGED <<store, world, history, ops, faults>>

\* The instance dies; the locks and the lease it held expire.
Crash(w) ==
    /\ ~At(w, "idle") /\ faults < MaxFaults
    /\ faults' = faults + 1
    /\ Ends(w)
    /\ UNCHANGED <<store, world, history, ops>>

Step(w) ==
    \/ \E m \in Mint : Register(w, m) \/ Track(w, m) \/ Sync(w, m)
    \/ Relist(w) \/ ReadIssued(w) \/ ClaimUri(w) \/ Verify(w)
    \/ Admit(w) \/ (\E m \in Mint : Evict(w, m)) \/ Unlist(w) \/ NothingEvicted(w)
    \/ Recount(w) \/ TakeSlot(w)
    \/ ReadChain(w) \/ Write(w) \/ WriteFails(w) \/ Refund(w) \/ Consume(w)
    \/ ReadStored(w) \/ SaveSummary(w)
    \/ (\E m \in Mint : Forget(w, m)) \/ Delete(w) \/ Forgotten(w)
    \/ Crash(w)

\* Time passes, on the chain and for launchers; for URIs; and the server works.
Pass    == NextDay \/ \E m \in Mint : Trade(m) \/ GrowOld(m)
Reissue == \E u \in Uri : CheckUri(u) \/ IssueUri(u) \/ IssueExpires(u) \/ ClaimLapses(u)
Work    == \E w \in Worker : Step(w)

Next == Pass \/ Reissue \/ Work

Spec == Init /\ [][Next]_vars

-----------------------------------------------------------------------------
(* Types and properties.                                                   *)

\* Types; two workers never hold one coin's lock or the list's (locked, indexer.mjs:179).
TypeOK ==
    /\ coin \in [Mint -> Record \cup {None}]
    /\ listed \in [Mint -> {External, "native", None}]
    /\ trades \in [Mint -> SUBSET (1..MaxTx)] /\ \A m \in Mint : trades[m] \subseteq 1..chain[m]
    /\ issued \subseteq Uri /\ claim \in [Uri -> Mint \cup {None}]
    /\ slots \in [0..MaxDay -> 0..launchesPerWallet]
    /\ chain \in [Mint -> 1..MaxTx] /\ old \subseteq Mint /\ day \in 0..MaxDay
    /\ checked \subseteq Uri /\ \A u \in Uri : Len(lapsed[u]) <= MaxLapses
    /\ Cardinality({w \in Worker : At(w, "list")}) <= 1
    /\ \A v, w \in Worker : v # w /\ At(v, "delete") /\ At(w, "delete")
                               => worker[v].gone # worker[w].gone

\* An issued URI lists one coin (QP-SEC-9, indexer.mjs:772), for as long as it is bound: of two
\* coins it listed, one was registered after a binding to the other had lapsed - however their
\* registrations race, die, are refused at a cap or outlive the binding, and although the URI may
\* be issued again.
UriListsOneCoin ==
    \A x, y \in byUri : UriOf[x[1]] = UriOf[y[1]] /\ x[2] = y[2] => x[1] = y[1]

\* A launcher adds no more launches in a day than it may, except one for each write whose answer
\* was lost and whose slot was given back all the same.
DailyAllowance ==
    \A d \in 0..MaxDay : Cardinality({m \in Mint : <<m, d>> \in made}) <= launchesPerWallet + faults

\* A launch that nobody works on any more is in the list, as a launch - unless its worker died or it
\* was evicted before.
LaunchListed ==
    \A m \in Mint \ dropped :
        IsNative(m) /\ faults = 0 /\ (\A w \in Worker : MintOf(w) # m) => listed[m] = "native"

\* A launch stays the launch it was registered as - a sync or a visit that verified the coin
\* meanwhile does not change it (applyHeal) - and only a stale one is ever deleted, never one whose
\* registration came between the drop of an external coin and its deletion (forget, evictStale).
LaunchStays ==
    [][\A m \in Mint : IsNative(m) =>
          IF coin'[m] = None THEN m \in old \ Quantum /\ ~coin[m].behind
          ELSE coin'[m].provenance = coin[m].provenance]_vars

\* coveredFrom: "Native coins are read from their first transaction; tracked coins from their newest
\* signatures" - a record that was dropped and stored anew included.
HistoryComplete ==
    \A m \in Mint :
        coin[m] # None => coin[m].from + 1 .. coin[m].cursor \subseteq trades[m]
=============================================================================
