---------------------------- MODULE KeeperEpochs ----------------------------
(***************************************************************************)
(* How the keeper pays one coin's holding time: the tick that samples      *)
(* holders, settles the last post and posts the next Entanglement epoch,   *)
(* over a store it writes key by key and a chain whose nodes lag.  The     *)
(* process may die between any two writes; a post it sent may still land.  *)
(*                                                                         *)
(* A second of holding time is a number; a window, and the root of the     *)
(* tree built from it, is the set of the seconds it pays.  Times are       *)
(* abstracted to what the code compares: a record is `old` when the time   *)
(* limits of reconcile and entangle (DROP_MARGIN blocks past its blockhash,*)
(* CANCEL_MIN_AGE, 600 s) are behind it, a post is `due` when epochGap is. *)
(*                                                                         *)
(* Outside the model: epochs older than EPOCH_TTL (a keeper down for 30    *)
(* days), the schedule, leaves and proofs, who holds how much, alerts.     *)
(***************************************************************************)
EXTENDS Integers, Sequences, FiniteSets, SequencesExt

CONSTANTS
    MIN_COVERED,      \* seconds an epoch needs behind it
    MaxSeconds,       \* bound: seconds sampled in all
    MaxEpochs,        \* bound: epochs on the chain
    MaxFaults,       \* bound: crashes of the process, and reads that fail
    Foreign,          \* bound: epochs posted elsewhere with the keeper's key
    Cancels,          \* bound: epochs the authority cancels
    None

ASSUME KeeperAssumption ==
    /\ MIN_COVERED \in Nat \ {0}
    /\ MaxSeconds \in Nat /\ MaxEpochs \in Nat
    /\ MaxFaults \in Nat /\ Foreign \in Nat /\ Cancels \in Nat

Seconds == 1..MaxSeconds
Indexes == 0..MaxEpochs

VARIABLES
    chain,        \* the posted epochs, in order: [root, open, seen]
    due,          \* the interval since the last post is over
    live,         \* the keeper's signed posts whose blockhash is valid: [index, root, sent]
    rec,          \* store: epoch:<mint>:<index>
    list,         \* store: epochs:<mint>, newest first
    header,       \* store: holdtime:<mint>
    clock,        \* seconds sampled so far
    pc, view, todo, mayPost, post,        \* the running tick
    faults, foreign, cancels             \* bounds

store == <<rec, list, header>>
local == <<view, todo, mayPost, post>>
world == <<chain, due, live>>
counts == <<faults, foreign, cancels>>
vars  == <<world, store, clock, pc, local, counts>>

Count == Len(chain)
Epoch(i) == chain[i + 1]                       \* the epoch of index i < Count

\* A node that lags may not show the newest epoch, in the count or as an account.
CountsRead == IF Count > 0 /\ ~Epoch(Count - 1).seen THEN {Count - 1, Count} ELSE {Count}
Reads(i)   == IF ~Epoch(i).open THEN {None}
              ELSE IF Epoch(i).seen THEN {Epoch(i).root} ELSE {Epoch(i).root, None}

Init ==
    /\ chain = <<>> /\ due = TRUE /\ live = {}
    /\ rec = [i \in Indexes |-> None] /\ list = <<>>
    /\ header = [window |-> {}, at |-> 0, cut |-> None, next |-> None]
    /\ clock = 0
    /\ pc = "idle" /\ view = 0 /\ todo = <<>> /\ mayPost = FALSE /\ post = None
    /\ faults = 0 /\ foreign = 0 /\ cancels = 0

-----------------------------------------------------------------------------
(* The chain.                                                              *)

\* post_entanglement runs: the index must be the next one and the interval over.
PostEpoch(root) == chain' = Append(chain, [root |-> root, open |-> TRUE, seen |-> FALSE])

Land(tx) ==
    /\ tx.sent /\ tx.index = Count /\ due /\ Count < MaxEpochs
    /\ PostEpoch(tx.root)
    /\ due' = FALSE
    /\ live' = live \ {tx}
    /\ UNCHANGED <<store, clock, pc, local, counts>>

\* A post that did not land never will: its blockhash expired, or its index is taken.
Expire(tx) ==
    /\ live' = live \ {tx}
    /\ UNCHANGED <<chain, due, store, clock, pc, local, counts>>

\* Someone else with the keeper's key posts; an older keeper on this store records it too.
ForeignPost ==
    /\ foreign < Foreign /\ due /\ Count < MaxEpochs
    /\ PostEpoch({})
    /\ due' = FALSE
    /\ foreign' = foreign + 1
    /\ \/ UNCHANGED <<rec, list>>
       \/ /\ rec[Count] = None
          /\ rec' = [rec EXCEPT ![Count] =
                       [root |-> {}, status |-> "posted", cancelled |-> FALSE, old |-> FALSE]]
          /\ list' = <<Count>> \o list
    /\ UNCHANGED <<live, header, clock, pc, local, faults, cancels>>

\* cancel_epoch, by the authority.
CancelEpoch(i) ==
    /\ cancels < Cancels /\ Epoch(i).open
    /\ chain' = [chain EXCEPT ![i + 1].open = FALSE]
    /\ cancels' = cancels + 1
    /\ UNCHANGED <<due, live, store, clock, pc, local, faults, foreign>>

AllSeen == \A i \in 0..Count - 1 : Epoch(i).seen

CatchUp ==
    /\ ~AllSeen
    /\ chain' = [i \in DOMAIN chain |-> [chain[i] EXCEPT !.seen = TRUE]]
    /\ UNCHANGED <<due, live, store, clock, pc, local, counts>>

\* The lag of a node stays under the margins: by the time a record counts as old, no post for
\* its index may land any more and every node shows what landed.  A tick is over long before a
\* count it read for entangle is that old.
Age(i) ==
    /\ pc # "entangle"
    /\ rec[i] # None /\ ~rec[i].old
    /\ AllSeen
    /\ \A tx \in live : tx.index # i
    /\ rec' = [rec EXCEPT ![i].old = TRUE]
    /\ UNCHANGED <<world, list, header, clock, pc, local, counts>>

\* epochGap, longer than every other limit, passes without a post.
Day ==
    /\ pc = "idle"
    /\ ~due /\ live = {} /\ AllSeen
    /\ \A i \in Indexes : rec[i] # None => rec[i].old
    /\ due' = TRUE
    /\ UNCHANGED <<chain, live, store, clock, pc, local, counts>>

-----------------------------------------------------------------------------
(* The store.                                                              *)

Put(i, r) == rec' = [rec EXCEPT ![i] = r]
ListFirst(i) == list' = <<i>> \o SelectSeq(list, LAMBDA j : j # i)

DropEpoch(i) ==
    /\ Put(i, None)
    /\ list' = SelectSeq(list, LAMBDA j : j # i)

\* Mutant: a cut without a record counts as posted.
CutStatusUnrecorded(cut, count) ==
    IF rec[cut.index] = None THEN "posted"
    ELSE IF rec[cut.index].root # cut.root \/ rec[cut.index].cancelled THEN "dropped"
    ELSE IF rec[cut.index].status # "pending" \/ count > cut.index THEN "posted"
    ELSE "pending"

\* Mutant: a cut without a record waits for one.
CutStatusWaits(cut, count) ==
    IF rec[cut.index] = None THEN "pending"
    ELSE IF rec[cut.index].root # cut.root \/ rec[cut.index].cancelled THEN "dropped"
    ELSE IF rec[cut.index].status # "pending" \/ count > cut.index THEN "posted"
    ELSE "pending"

\* cutStatus: where the post of a cut window stands, by the chain's count as far as it is known.
CutStatus(cut, count) ==
    LET r == rec[cut.index]
    IN IF r = None \/ r.root # cut.root \/ r.cancelled THEN "dropped"
       ELSE IF r.status # "pending" \/ count > cut.index THEN "posted"
       ELSE "pending"

\* Mutant: the window is not started over.
FinalizedKeepsWindow(h) ==
    IF h.cut = None THEN h ELSE [h EXCEPT !.cut = None, !.next = h.cut.index + 1]

\* holdtime's finalize: the cut's epoch posted, and the next window starts at the cut's end.
Finalized(h) ==
    IF h.cut = None THEN h
    ELSE [h EXCEPT !.window = {}, !.cut = None, !.next = h.cut.index + 1]

Settled(h, count) ==
    IF h.cut = None THEN h
    ELSE LET status == CutStatus(h.cut, count)
         IN IF status = "posted" THEN Finalized(h)
            ELSE IF status = "dropped" THEN [h EXCEPT !.cut = None]
            ELSE h

\* holdtime's sample: the time since the last sample is credited; the first one opens the window.
Sampled(h) == [h EXCEPT !.at = 1, !.window = IF h.at = 0 THEN @ ELSE @ \cup {clock + 1}]

\* windowFor: the window settled against the chain's count, started over when epochs this store
\* recorded landed outside it.
WindowFor(count) ==
    LET h == Settled(header, count)
    IN IF h.cut # None \/ (h.next # None /\ count <= h.next) THEN h
       ELSE IF /\ h.next # None
               /\ \E i \in h.next..count - 1 : rec[i] # None /\ ~rec[i].cancelled
            THEN [h EXCEPT !.window = {}, !.next = count]
            ELSE [h EXCEPT !.next = count]

-----------------------------------------------------------------------------
(* One tick of the keeper on the coin.                                     *)

Goto(label) == pc' = label

\* A sample, or the first one, which credits nothing.
Sample(h) ==
    /\ h.cut = None
    /\ h.at = 0 \/ clock < MaxSeconds
    /\ header' = Sampled(h)
    /\ clock' = IF h.at = 0 THEN clock ELSE clock + 1

\* sampleDue: the coin is sampled unless its last post is unsettled; it may not be its turn.  The
\* pass reads nothing from the chain.
SamplePass ==
    /\ pc = "idle"
    /\ \/ /\ header' = Settled(header, 0)
          /\ UNCHANGED clock
       \/ Sample(Settled(header, 0))
       \/ UNCHANGED <<header, clock>>
    /\ Goto("turn")
    /\ UNCHANGED <<world, rec, list, local, counts>>

\* runCoin reads the coin's account; reconcile takes the newest three records.
StartTurn ==
    /\ pc = "turn"
    /\ view' \in CountsRead
    /\ todo' = SubSeq(list, 1, IF Len(list) < 3 THEN Len(list) ELSE 3)
    /\ mayPost' = TRUE
    /\ Goto("reconcile")
    /\ UNCHANGED <<world, store, clock, post, counts>>

\* A pending record that this read of the chain says landed.
SettleLanded(i, count) ==
    \E root \in Reads(i) :
       \/ /\ root = rec[i].root                      \* markPosted
          /\ Put(i, [rec[i] EXCEPT !.status = "posted"])
          /\ ListFirst(i)
       \/ /\ root # None /\ root # rec[i].root       \* another root holds this index
          /\ DropEpoch(i)
       \/ /\ root = None /\ rec[i].old /\ ~Epoch(i).open       \* cancelledBy finds the proof
          /\ DropEpoch(i)
       \/ /\ root = None
          /\ UNCHANGED <<rec, list>>

\* The record of index i, newest first: settled, or left with nothing posted over it.
ReconcileOne(i) ==
    IF i < view THEN SettleLanded(i, view) /\ UNCHANGED <<view, mayPost>>
    ELSE IF ~rec[i].old
         THEN mayPost' = FALSE /\ UNCHANGED <<rec, list, view>>
         ELSE /\ view' \in CountsRead              \* it may have landed just before it expired
              /\ UNCHANGED mayPost
              /\ IF i < view' THEN SettleLanded(i, view') ELSE DropEpoch(i)

Reconcile ==
    /\ pc = "reconcile"
    /\ todo # <<>>
    /\ LET i == Head(todo)
       IN IF rec[i] = None \/ rec[i].status # "pending"
          THEN UNCHANGED <<rec, list, view, mayPost>>
          ELSE ReconcileOne(i)
    /\ todo' = IF mayPost' THEN Tail(todo) ELSE <<>>
    /\ UNCHANGED <<world, header, clock, pc, post, counts>>

\* An RPC error ends reconcile: nothing is posted this tick.
ReconcileFails ==
    /\ pc = "reconcile"
    /\ todo # <<>>
    /\ faults < MaxFaults
    /\ faults' = faults + 1
    /\ todo' = <<>>
    /\ mayPost' = FALSE
    /\ UNCHANGED <<world, store, clock, pc, view, post, foreign, cancels>>

\* After the burns the account is read again, and tendWindow settles the window; a coin whose
\* scan outlasts the pass is sampled here.
TendWindow ==
    /\ pc = "reconcile"
    /\ todo = <<>>
    /\ view' \in CountsRead
    /\ \/ header' = WindowFor(view') /\ UNCHANGED clock
       \/ Sample(WindowFor(view'))
    /\ Goto(IF mayPost THEN "entangle" ELSE "watch")
    /\ UNCHANGED <<world, rec, list, todo, mayPost, post, counts>>

\* A read of the store or the chain fails.
TendFails ==
    /\ pc = "reconcile"
    /\ todo = <<>>
    /\ faults < MaxFaults
    /\ faults' = faults + 1
    /\ view' \in CountsRead
    /\ Goto(IF mayPost THEN "entangle" ELSE "watch")
    /\ UNCHANGED <<world, store, clock, todo, mayPost, post, foreign, cancels>>

\* entangle ends early: too soon, no reserve, a fresh record at the next index, a failed read.
NothingToPost ==
    /\ pc = "entangle"
    /\ Goto("watch")
    /\ UNCHANGED <<world, store, clock, local, counts>>

\* A record left at the next index is dropped once it is old.
DropStale ==
    /\ pc = "entangle"
    /\ due \/ view < Count
    /\ rec[view] # None /\ rec[view].old
    /\ DropEpoch(view)
    /\ UNCHANGED <<world, header, clock, pc, local, counts>>

\* The window is settled and sampled once more, and its tree built.
Window ==
    /\ pc = "entangle"
    /\ due \/ view < Count
    /\ view \in Indexes /\ rec[view] = None
    /\ LET h == WindowFor(view)
       IN /\ h.cut = None
          /\ \/ Sample(h)
             \/ h.at # 0 /\ header' = h /\ UNCHANGED clock
    /\ IF Cardinality(header'.window) >= MIN_COVERED
       THEN post' = [index |-> view, root |-> header'.window] /\ Goto("cut")
       ELSE post' = post /\ Goto("watch")
    /\ UNCHANGED <<world, rec, list, view, todo, mayPost, counts>>

\* The post is signed; beforeSend marks the window's end, then saves the record and lists it.
Cut ==
    /\ pc = "cut"
    /\ live' = live \cup {[index |-> post.index, root |-> post.root, sent |-> FALSE]}
    /\ header' = [header EXCEPT !.cut = post]
    /\ Goto("record")
    /\ UNCHANGED <<chain, due, rec, list, clock, local, counts>>

Record ==
    /\ pc = "record"
    /\ Put(post.index, [root |-> post.root, status |-> "pending", cancelled |-> FALSE,
                        old |-> FALSE])
    /\ Goto("list")
    /\ UNCHANGED <<world, list, header, clock, local, counts>>

List ==
    /\ pc = "list"
    /\ ListFirst(post.index)
    /\ Goto("send")
    /\ UNCHANGED <<world, rec, header, clock, local, counts>>

\* The broadcast, which an error may follow although the post went out.
Broadcast ==
    /\ pc = "send"
    /\ live' = {IF tx.index = post.index /\ tx.root = post.root
                THEN [tx EXCEPT !.sent = TRUE] ELSE tx : tx \in live}
    /\ Goto("confirm")
    /\ UNCHANGED <<chain, due, store, clock, local, counts>>

\* The send fails, or it is not confirmed in time or at all: the record stays pending.
GiveUp ==
    /\ pc \in {"send", "confirm"}
    /\ Goto("watch")
    /\ UNCHANGED <<world, store, clock, local, counts>>

Confirmed ==
    /\ pc = "confirm"
    /\ post.index < Count /\ Epoch(post.index).root = post.root
    /\ Goto("posted")
    /\ UNCHANGED <<world, store, clock, local, counts>>

MarkPosted ==
    /\ pc = "posted"
    /\ Put(post.index, [root |-> post.root, status |-> "posted", cancelled |-> FALSE,
                        old |-> FALSE])
    /\ ListFirst(post.index)
    /\ Goto("finalize")
    /\ UNCHANGED <<world, header, clock, local, counts>>

Finalize ==
    /\ pc = "finalize"
    /\ header' = Finalized(header)
    /\ Goto("watch")
    /\ UNCHANGED <<world, rec, list, clock, local, counts>>

\* Mutant: a missing account is taken for a cancelled epoch.
GoneIsCancelled(i) == None \in Reads(i)

\* cancelledBy: a transaction that cancelled the epoch, found on its address.
CancelProof(i) == ~Epoch(i).open

\* watchRecent: posted records whose account is missing are settled on proof of the cancel.
Watch ==
    /\ pc = "watch"
    /\ \/ UNCHANGED rec
       \/ \E i \in 0..Count - 1 :
             /\ rec[i] # None /\ rec[i].status = "posted" /\ ~rec[i].cancelled
             /\ None \in Reads(i)
             /\ CancelProof(i)
             /\ rec' = [rec EXCEPT ![i].cancelled = TRUE]
    /\ Goto("idle")
    /\ view' = 0 /\ todo' = <<>> /\ mayPost' = FALSE /\ post' = None
    /\ UNCHANGED <<world, list, header, clock, counts>>

\* The process dies, or the platform stops it; what it signed and did not send is lost.
Crash ==
    /\ pc # "idle"
    /\ faults < MaxFaults
    /\ faults' = faults + 1
    /\ live' = {tx \in live : tx.sent}
    /\ Goto("idle")
    /\ view' = 0 /\ todo' = <<>> /\ mayPost' = FALSE /\ post' = None
    /\ UNCHANGED <<chain, due, store, clock, foreign, cancels>>

-----------------------------------------------------------------------------

Chain == \/ \E tx \in live : Land(tx) \/ Expire(tx)
         \/ ForeignPost
         \/ \E i \in 0..Count - 1 : CancelEpoch(i)
         \/ CatchUp \/ Day
         \/ \E i \in Indexes : Age(i)

Tick == \/ SamplePass \/ StartTurn \/ Reconcile \/ ReconcileFails \/ TendWindow
        \/ TendFails \/ NothingToPost \/ DropStale \/ Window \/ Cut \/ Record \/ List
        \/ Broadcast \/ GiveUp \/ Confirmed \/ MarkPosted \/ Finalize \/ Watch

Next == Chain \/ Tick \/ Crash

Spec == Init /\ [][Next]_vars

\* The cron keeps ticking, a post lands or expires, nodes catch up, time passes, and a stale
\* record that entangle reaches again and again is dropped.  Nothing is assumed of samples or
\* posts; faults are bounded by MaxFaults.
Fairness ==
    /\ WF_vars(Tick) /\ SF_vars(DropStale)
    /\ WF_vars(\E tx \in live : Land(tx) \/ Expire(tx))
    /\ WF_vars(CatchUp) /\ SF_vars(Day)
    /\ \A i \in Indexes : SF_vars(Age(i))

FairSpec == Spec /\ Fairness

-----------------------------------------------------------------------------
(* Properties.                                                             *)

Roots   == SUBSET Seconds
Posts   == [index : Indexes, root : Roots]
Epochs  == [root : Roots, open : BOOLEAN, seen : BOOLEAN]
Records == [root : Roots, status : {"pending", "posted"}, cancelled : BOOLEAN, old : BOOLEAN]

ASSUME NoneAssumption == None \notin Int /\ \A v \in Roots \cup Posts \cup Records : None # v

\* Every variable keeps its type, and the list of epochs names no index twice (saveEpoch).
TypeOK ==
    /\ chain \in Seq(Epochs) /\ Count <= MaxEpochs
    /\ due \in BOOLEAN
    /\ live \subseteq [index : Indexes, root : Roots, sent : BOOLEAN]
    /\ rec \in [Indexes -> {None} \cup Records]
    /\ list \in Seq(Indexes) /\ IsInjective(list)
    /\ header \in [window : Roots, at : {0, 1}, cut : {None} \cup Posts,
                   next : {None} \cup 0..MaxEpochs + 1]
    /\ clock \in 0..MaxSeconds
    /\ view \in Indexes /\ todo \in Seq(Indexes) /\ mayPost \in BOOLEAN
    /\ post \in {None} \cup Posts

Posted(i) == i < Count /\ Epoch(i).open /\ Epoch(i).root # {}

\* The keeper implements HoldingTime: an epoch of its own pays sampled seconds that no other
\* standing epoch pays, whatever happened to the posts before it (entangle, cutStatus).
Promise == INSTANCE HoldingTime WITH
    sampled <- clock,
    paid    <- {Epoch(i).root : i \in {j \in 0..Count - 1 : Posted(j)}}

KeepsPromise == Promise!Spec

\* An epoch of the keeper that stands on the chain can be claimed: its record holds its root and
\* has not been given up (saveEpoch before the send, dropEpoch, settleCancelled).
LandedServed ==
    \A i \in Indexes :
       Posted(i) => rec[i] # None /\ rec[i].root = Epoch(i).root /\ ~rec[i].cancelled

\* As long as only this keeper posted and nothing was cancelled, every sampled second is in the
\* window or in an epoch on the chain: no crash, expiry or lag loses holding time.
NothingLost ==
    foreign = 0 /\ cancels = 0 =>
        1..clock \subseteq header.window \cup UNION {Epoch(i).root : i \in 0..Count - 1}

\* A cut window is always settled, so sampling resumes: the keeper is never stuck behind a post
\* that landed, expired, was taken over or was never recorded.
CutSettles == []<>(header.cut = None)

=============================================================================
