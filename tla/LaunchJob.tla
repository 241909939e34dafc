------------------------------ MODULE LaunchJob ------------------------------
(***************************************************************************)
(* A launch from the launch page: one mint, taken through its stages by    *)
(* one or more transactions whose outcome the page may never learn         *)
(* (LaunchPage.jsx, launchPlan.js, launch.js, txflow.js).                  *)
(*                                                                         *)
(* The job lives in the page and is saved to the browser's storage when an *)
(* attempt ends.  An attempt that fails may be finished: the page looks at *)
(* the chain, folds what landed into the job, and sends what is left.  A   *)
(* reload, or starting another launch, loses the page's job for good; the  *)
(* saved one only serves to register the coin when its page is opened, and *)
(* an attempt goes on behind another page until the tab is reloaded.       *)
(*                                                                         *)
(* Outside the model: what the stages contain (QuantumWell, TimeDilation), *)
(* another launch (it has a mint and a job of its own), a second tab,      *)
(* the 14 days after which a saved job is dropped, amounts, and the words  *)
(* of errors.  The server never calls such a coin "not_quantpad".          *)
(***************************************************************************)
EXTENDS Naturals, FiniteSets, Sequences

CONSTANTS
    Plans,       \* the launches considered, each the set of its stages
    MaxTx,       \* transactions that still matter at one time
    Passes,      \* passes of one attempt
    Attempts,    \* tries of one registration (1 + REGISTER_DELAYS.length)
    MaxFaults,   \* failed calls, dropped transactions and pauses, together
    None         \* no transaction, no job

Stage == {"register", "launch", "buy", "lock"}
Tx    == 1..MaxTx

ASSUME LaunchAssumption ==
    /\ \A p \in Plans :
          /\ p \subseteq Stage /\ "launch" \in p
          /\ "lock" \in p => {"register", "buy"} \subseteq p
    /\ {MaxTx, Passes, Attempts} \subseteq Nat \ {0} /\ MaxFaults \in Nat
    /\ None \notin Tx \cup [done : SUBSET Stage, pending : Tx \cup {None}, registered : BOOLEAN]
                   \cup [done : SUBSET Stage, registered : BOOLEAN]

VARIABLES
    plan,      \* the stages this launch needs
    times,     \* how often each stage has been executed on-chain
    tx,        \* transactions signed and not forgotten
    paused,    \* whether the program refuses registrations
    page,      \* the launch page: where it is, and what of its attempt is known
    job,       \* the page's job
    store,     \* the saved job, less what only an attempt uses
    reg,       \* the registration in flight: tries left, and whether it is of the page's own job
    server,    \* how the server lists the coin
    faults

vars == <<plan, times, tx, paused, page, job, store, reg, server, faults>>

Free   == [stages |-> {}, st |-> "free", seen |-> TRUE]
NoReg  == [left |-> 0, own |-> FALSE]
NewJob == [done |-> {}, pending |-> None, registered |-> FALSE]

\* conf: the stages of this pass' confirmed transactions; again: the failure offers to finish.
At(pc) == [pc |-> pc, pass |-> 0, todo |-> <<>>, cur |-> None, conf |-> {}, verdict |-> "none",
           again |-> FALSE]

Init ==
    /\ plan \in Plans
    /\ times = [s \in Stage |-> 0]
    /\ tx = [t \in Tx |-> Free]
    /\ paused = FALSE
    /\ page = At("idle") /\ job = None
    /\ store = None /\ reg = NoReg /\ server = "none"
    /\ faults = 0

Fault == faults < MaxFaults /\ faults' = faults + 1

-----------------------------------------------------------------------------
(* The chain, and what its nodes show of it.                               *)

Landed == {s \in Stage : times[s] > 0}

\* What every node shows by now: all but the transactions no node has shown yet.
View == Landed \ UNION {tx[t].stages : t \in {u \in Tx : tx[u].st = "landed" /\ ~tx[u].seen}}

\* A transaction takes effect as a whole.  The group that creates a Quantum coin also syncs it.
Executes(stages, on) ==
    /\ stages \cap on \subseteq {"buy"}
    /\ "register" \in stages => ~paused /\ "launch" \notin on
    /\ "launch" \in stages => plan \cap {"register"} \subseteq stages \cup on
    /\ stages \cap {"buy", "lock"} # {} => "launch" \in stages \cup on
    /\ "lock" \in stages => {"register", "buy"} \subseteq stages \cup on

Land(t) ==
    /\ tx[t].st = "live"
    /\ IF Executes(tx[t].stages, Landed)
       THEN /\ times' = [s \in Stage |-> IF s \in tx[t].stages THEN times[s] + 1 ELSE times[s]]
            /\ tx' = [tx EXCEPT ![t].st = "landed", ![t].seen = FALSE]
       ELSE tx' = [tx EXCEPT ![t].st = "failed", ![t].seen = FALSE] /\ UNCHANGED times
    /\ UNCHANGED <<plan, paused, page, job, store, reg, server, faults>>

See(t) ==
    /\ ~tx[t].seen
    /\ tx' = [tx EXCEPT ![t].seen = TRUE]
    /\ UNCHANGED <<plan, times, paused, page, job, store, reg, server, faults>>

\* The blockhash runs out on a transaction that is not in a block.
Expire(t) ==
    /\ tx[t].st \in {"signed", "live"}
    /\ Fault
    /\ tx' = [tx EXCEPT ![t].st = "expired"]
    /\ UNCHANGED <<plan, times, paused, page, job, store, reg, server>>

Pause   == ~paused /\ Fault /\ paused' = TRUE
           /\ UNCHANGED <<plan, times, tx, page, job, store, reg, server>>
Unpause == paused /\ paused' = FALSE
           /\ UNCHANGED <<plan, times, tx, page, job, store, reg, server, faults>>

-----------------------------------------------------------------------------
(* The job.                                                                *)

Complete(j)    == plan \subseteq j.done
HasProgress(j) == j.done # {} \/ j.pending # None
NeedsRegister  == "register" \in plan \ job.done

Recorded(j, stages) == [j EXCEPT !.done = @ \cup stages]

\* Only a transaction that may still land is looked up when the launch is finished.
RecordPending(j, unknown) == IF unknown THEN [j EXCEPT !.pending = page.cur] ELSE j

ReconciledUnlessFailed(j, verdict) ==
    LET shown == View \ {"buy"} IN
    [Recorded(j, (IF j.pending # None /\ verdict # "failed" THEN tx[j.pending].stages ELSE {})
                 \cup (plan \cap (shown \cup (IF "launch" \in View THEN {"buy"} ELSE {}))))
     EXCEPT !.pending = None]

ReconciledByStage(j, verdict) ==
    [Recorded(j, (IF verdict = "landed" THEN tx[j.pending].stages ELSE {})
                 \cup (plan \cap (View \ {"buy"})))
     EXCEPT !.pending = None]

\* What the chain shows, folded into the job; the lookup of the pending transaction may know more.
Reconciled(j, verdict) ==
    LET shown == View \ {"buy"} IN
    [Recorded(j, (IF verdict = "landed" THEN tx[j.pending].stages ELSE {})
                 \cup (plan \cap (shown \cup (IF "launch" \in View THEN {"buy"} ELSE {}))))
     EXCEPT !.pending = None]

Saved(j) == [done |-> j.done, registered |-> j.registered]

\* The instruction groups of some stages, in order, those aside of which everything is done.
Unless(group, done) == IF group \subseteq done THEN <<>> ELSE <<group>>

Grouped(stages, done) ==
    Unless(stages \cap {"register"}, done) \o Unless(stages \cap {"launch", "buy"}, done)
    \o Unless(stages \cap {"lock"}, done)

KeptAll(j) == Grouped(plan, {})

\* The groups of the launch still to send.
Kept(j) == Grouped(plan, j.done)

Remaining(j) ==
    IF "launch" \notin j.done THEN Kept(j)
    ELSE IF "buy" \in plan \ j.done THEN <<{"buy"}>>
    ELSE Grouped(plan \cap {"lock"}, j.done)

\* The packer may join neighbours: a group goes into the transaction after as many others as
\* there are cuts before it.
Packings(groups) ==
    LET Place(cut, k) == 1 + Cardinality({c \in cut : c < k}) IN
    { [i \in 1..(1 + Cardinality(cut)) |->
          UNION {groups[k] : k \in {m \in DOMAIN groups : Place(cut, m) = i}}]
        : cut \in SUBSET (1..(Len(groups) - 1)) }

-----------------------------------------------------------------------------
(* An attempt: launch() of the page, up to the registration.               *)

chain   == <<plan, times, paused>>
outside == <<chain, server>>

Goes(pc) == page' = [page EXCEPT !.pc = pc]

\* registerOnce: nothing to do, or joined to the one in flight.
RegisterOnce(j, own) ==
    reg' = IF j.registered \/ reg.left > 0 THEN reg ELSE [left |-> Attempts, own |-> own]

\* The error path registers a coin that is known to exist, and offers to finish the launch when
\* something of it landed or may have, or the same call can be tried again.
Ends(j, retryable) ==
    /\ job' = j
    /\ page' = [At("failed") EXCEPT !.again = HasProgress(j) \/ retryable]
    /\ IF "launch" \in j.done THEN RegisterOnce(j, TRUE) ELSE UNCHANGED reg

FailsBefore(retryable) == Ends(job, retryable) /\ UNCHANGED <<tx, store>>

FailsSending(unknown, retryable) ==
    LET j == RecordPending(Recorded(job, page.conf), unknown)
    IN Ends(j, retryable) /\ store' = Saved(j)

\* A config that cannot be read stops nothing: the simulation will tell.
Open ==
    \/ ~paused /\ UNCHANGED faults
    \/ Fault

\* Until the job is there, what fails leaves nothing behind.
Start ==
    /\ page.pc = "idle"
    /\ IF "register" \in plan THEN Open ELSE UNCHANGED faults
    /\ job' = NewJob /\ Goes("open")
    /\ UNCHANGED <<outside, tx, store, reg>>

\* "Finish the remaining steps", with the wallet that started them.
Finish ==
    /\ page.pc = "failed" /\ page.again
    /\ \/ page' = At("settle") /\ UNCHANGED <<tx, job, store, reg, faults>>
       \/ Fault /\ FailsBefore(FALSE)
    /\ UNCHANGED outside

ReadPending ==
    /\ page.pc = "settle"
    /\ \/ /\ page' = [page EXCEPT !.pc = "progress",
                         !.verdict = IF job.pending # None /\ tx[job.pending].seen
                                     THEN tx[job.pending].st ELSE "none"]
          /\ UNCHANGED <<tx, job, store, reg, faults>>
       \/ Fault /\ \E transient \in BOOLEAN : FailsBefore(transient)
    /\ UNCHANGED outside

ReadProgress ==
    /\ page.pc = "progress"
    /\ \/ /\ job' = Reconciled(job, page.verdict)
          /\ store' = Saved(job')
          /\ page' = At("open")
          /\ UNCHANGED <<tx, reg, faults>>
       \/ Fault /\ \E transient \in BOOLEAN : FailsBefore(transient)
    /\ UNCHANGED outside

CheckOpen ==
    /\ page.pc = "open"
    /\ \/ /\ IF NeedsRegister THEN Open ELSE UNCHANGED faults
          /\ Goes("build") /\ UNCHANGED <<tx, job, store, reg>>
       \/ NeedsRegister /\ paused /\ FailsBefore(TRUE) /\ UNCHANGED faults
    /\ UNCHANGED outside

MorePasses == page.pass < Passes /\ Remaining(job) # <<>>

Build ==
    /\ page.pc = "build" /\ ~Complete(job) /\ MorePasses
    /\ \/ /\ \E txs \in Packings(Remaining(job)) :
                page' = [At("check") EXCEPT !.pass = page.pass, !.todo = txs]
          /\ UNCHANGED <<tx, job, store, reg, faults>>
       \/ Fault /\ \E retryable \in BOOLEAN : FailsBefore(retryable)
    /\ UNCHANGED outside

BuiltAll ==
    /\ page.pc = "build"
    /\ \/ /\ Complete(job)
          /\ page' = At("register") /\ RegisterOnce(job, TRUE)
          /\ UNCHANGED <<tx, job, store>>
       \/ ~Complete(job) /\ ~MorePasses /\ FailsBefore(FALSE)
    /\ UNCHANGED <<outside, faults>>

\* The wallet never sees what does not simulate; a later transaction is simulated again for a while.
Check ==
    /\ page.pc = "check"
    /\ LET runs == Executes(Head(page.todo), View) IN
       \/ runs /\ Goes("sign") /\ UNCHANGED <<tx, job, store, reg, faults>>
       \/ ~runs /\ FailsSending(FALSE, FALSE) /\ UNCHANGED <<tx, faults>>
       \/ Fault /\ FailsSending(FALSE, TRUE) /\ UNCHANGED tx
    /\ UNCHANGED outside

Forgotten(t) ==
    /\ t # page.cur /\ (job # None => t # job.pending)
    /\ tx[t].st \in {"free", "expired", "landed", "failed"} /\ tx[t].seen

Signed(t, st) == tx' = [tx EXCEPT ![t] = [stages |-> Head(page.todo), st |-> st, seen |-> TRUE]]

\* A wallet that can only sign and send may have sent what it then reports as an error.
Sign ==
    /\ page.pc = "sign"
    /\ \E t \in Tx :
       /\ Forgotten(t) /\ \A u \in Tx : Forgotten(u) => t <= u
       /\ \/ /\ page' = [page EXCEPT !.pc = "send", !.cur = t] /\ Signed(t, "signed")
             /\ UNCHANGED <<job, store, reg, faults>>
          \/ /\ page' = [page EXCEPT !.pc = "confirm", !.cur = t] /\ Signed(t, "live")
             /\ UNCHANGED <<job, store, reg, faults>>
          \/ /\ Fault /\ FailsSending(FALSE, FALSE)
             /\ Signed(t, "live") \/ UNCHANGED tx
    /\ UNCHANGED outside

Cur == tx[page.cur]
Becomes(st) == tx' = [tx EXCEPT ![page.cur].st = st]
Unsent      == Becomes(IF Cur.st = "signed" THEN "expired" ELSE Cur.st)

\* A node that takes the bytes, or says that it has them already.
Send ==
    /\ page.pc = "send"
    /\ \/ Cur.st = "signed" /\ Executes(Cur.stages, View) /\ Becomes("live")
       \/ Cur.st \in {"live", "landed", "failed"} /\ UNCHANGED tx
    /\ Goes("confirm")
    /\ UNCHANGED <<outside, job, store, reg, faults>>

\* A node that does not answer may have taken them; the same bytes are sent again, up to a point.
SendBusy ==
    /\ page.pc = "send" /\ Fault
    /\ \E reached \in BOOLEAN :
       \/ /\ IF reached /\ Cur.st = "signed" THEN Becomes("live") ELSE UNCHANGED tx
          /\ UNCHANGED <<page, job, store, reg>>
       \/ /\ IF reached /\ Cur.st = "signed" THEN Becomes("live") ELSE Unsent
          /\ FailsSending(TRUE, FALSE)
    /\ UNCHANGED outside

\* A refusal: the preflight fails, the blockhash is gone, or the node is behind.
SendRefused ==
    /\ page.pc = "send"
    /\ \/ Cur.st = "expired" /\ UNCHANGED faults
       \/ Cur.st \in {"signed", "live"} /\ ~Executes(Cur.stages, View) /\ UNCHANGED faults
       \/ Fault
    /\ Unsent /\ FailsSending(FALSE, FALSE)
    /\ UNCHANGED outside

\* The next transaction of the pass, or the end of the pass.
Confirmed ==
    /\ page.pc = "confirm" /\ Cur.st = "landed" /\ Cur.seen
    /\ LET conf == page.conf \cup Cur.stages IN
       IF Len(page.todo) > 1
       THEN /\ page' = [page EXCEPT !.pc = "check", !.todo = Tail(@), !.cur = None, !.conf = conf]
            /\ UNCHANGED <<job, store>>
       ELSE /\ page' = [At("build") EXCEPT !.pass = page.pass + 1]
            /\ job' = Recorded(job, conf) /\ store' = Saved(job')
    /\ UNCHANGED <<outside, tx, reg, faults>>

\* It failed; or its blockhash has expired and one more lookup finds nothing, which a node that
\* is behind may say of one that landed; or nobody could tell.
NotConfirmed ==
    /\ page.pc = "confirm"
    /\ \/ Cur.st = "failed" /\ Cur.seen /\ FailsSending(FALSE, FALSE) /\ UNCHANGED faults
       \/ Cur.st = "expired" /\ FailsSending(FALSE, FALSE) /\ UNCHANGED faults
       \/ ~Cur.seen /\ Fault /\ FailsSending(FALSE, FALSE)
       \/ Fault /\ FailsSending(TRUE, FALSE)
    /\ UNCHANGED <<outside, tx>>

\* The tab is closed or reloaded; or the launch is discarded, or another one started, and then a
\* registration in flight goes on.
Leave ==
    /\ page.pc \notin {"idle", "left", "live"}
    /\ reg' \in {NoReg} \cup (IF page.pc = "failed" THEN {reg} ELSE {})
    /\ page' = At("left") /\ job' = None
    /\ IF page.pc = "send" THEN Unsent ELSE UNCHANGED tx
    /\ UNCHANGED <<outside, store, faults>>

-----------------------------------------------------------------------------
(* The registration of the coin with the server.                           *)

MarkRegistered(s) ==
    IF s = None THEN None
    ELSE IF Complete(s) THEN None
    ELSE [s EXCEPT !.registered = TRUE]

\* registerOnce is over; the launch page, if it waits for it, is done.
RegisterEnds(registered) ==
    /\ reg' = NoReg
    /\ store' = IF registered THEN MarkRegistered(store) ELSE store
    /\ IF page.pc = "register"
       THEN page' = At("live") /\ job' = None
       ELSE /\ job' = IF registered /\ reg.own /\ job # None THEN [job EXCEPT !.registered = TRUE] ELSE job
            /\ UNCHANGED page

Registers ==
    /\ reg.left > 0 /\ "launch" \in View
    /\ server' = "native" /\ RegisterEnds(TRUE)
    /\ UNCHANGED <<chain, tx, faults>>

\* Not indexed yet, too many requests, or no answer, perhaps to what was done.
RegisterAgain ==
    /\ reg.left > 0
    /\ \/ "launch" \notin View /\ UNCHANGED <<server, faults>>
       \/ Fault /\ server' \in {server} \cup (IF "launch" \in View THEN {"native"} ELSE {})
    /\ IF reg.left > 1
       THEN reg' = [reg EXCEPT !.left = @ - 1] /\ UNCHANGED <<page, job, store>>
       ELSE RegisterEnds(FALSE)
    /\ UNCHANGED <<chain, tx>>

Tracked == IF server = "none" /\ "launch" \in View THEN "external" ELSE server

\* The server lists no more launches today (the coin is tracked instead), or refuses the request.
RegisterRefused ==
    /\ reg.left > 0 /\ Fault
    /\ server' \in {server, Tracked} /\ RegisterEnds(FALSE)
    /\ UNCHANGED <<chain, tx>>

\* registerOnce of a job that is registered already
AlreadyRegistered ==
    /\ page.pc = "register" /\ job.registered
    /\ page' = At("live") /\ job' = None
    /\ UNCHANGED <<outside, tx, store, reg, faults>>

\* Mutant: only a launch that is complete.
UnregisteredWhole == store # None /\ ~store.registered /\ Complete(store)

UnregisteredLaunch == store # None /\ ~store.registered /\ "launch" \in store.done

\* The coin's page, opened later or while an attempt goes on behind it: a launch of this browser
\* is registered, any other coin tracked.
VisitCoin ==
    /\ page.pc # "idle" /\ server # "native"
    /\ IF UnregisteredLaunch
       THEN reg.left = 0 /\ RegisterOnce(store, FALSE) /\ UNCHANGED server
       ELSE server = "none" /\ server' = Tracked /\ UNCHANGED reg
    /\ UNCHANGED <<chain, tx, page, job, store, faults>>

\* The launch page drops finished jobs when it opens.
Prune ==
    /\ page.pc \in {"left", "live"} /\ store # None /\ store.registered /\ Complete(store)
    /\ store' = None
    /\ UNCHANGED <<outside, tx, page, job, reg, faults>>

-----------------------------------------------------------------------------
Attempt ==
    \/ Start \/ Finish \/ ReadPending \/ ReadProgress \/ CheckOpen \/ Build \/ BuiltAll
    \/ Check \/ Sign \/ Send \/ SendBusy \/ SendRefused \/ Confirmed \/ NotConfirmed

Registration == Registers \/ RegisterAgain \/ RegisterRefused \/ AlreadyRegistered

Next ==
    \/ Attempt \/ Leave \/ Registration \/ VisitCoin \/ Prune
    \/ Pause \/ Unpause
    \/ \E t \in Tx : Land(t) \/ See(t) \/ Expire(t)

Spec == Init /\ [][Next]_vars

\* What the network has, lands or expires, and every node shows it in the end; a pause ends.  The
\* page and the registration run on by themselves, but for the launcher, who approves, finishes a
\* failed launch and opens the coin's page.  Faults are bounded by MaxFaults; nobody has to leave.
Fairness ==
    /\ WF_vars(Attempt) /\ WF_vars(Registration) /\ WF_vars(VisitCoin) /\ WF_vars(Unpause)
    /\ \A t \in Tx : WF_vars(Land(t)) /\ WF_vars(See(t))

FairSpec == Spec /\ Fairness

-----------------------------------------------------------------------------
(* Properties.                                                             *)

\* Every variable keeps its type, and no transaction is built without instructions.
TypeOK ==
    /\ plan \in Plans /\ times \in [Stage -> Nat] /\ paused \in BOOLEAN
    /\ tx \in [Tx -> [stages : SUBSET plan, seen : BOOLEAN,
                      st : {"free", "signed", "live", "landed", "failed", "expired"}]]
    /\ page.pc \in {"idle", "open", "build", "check", "sign", "send", "confirm", "failed",
                    "settle", "progress", "register", "live", "left"}
    /\ page.pass \in 0..Passes /\ page.cur \in Tx \cup {None} /\ page.again \in BOOLEAN
    /\ \A i \in DOMAIN page.todo : page.todo[i] # {} /\ page.todo[i] \subseteq plan
    /\ page.conf \subseteq plan
    /\ job = None \/ job \in [done : SUBSET plan, pending : Tx \cup {None}, registered : BOOLEAN]
    /\ store = None \/ store \in [done : SUBSET plan, registered : BOOLEAN]
    /\ reg \in [left : 0..Attempts, own : BOOLEAN] /\ server \in {"none", "native", "external"} /\ faults \in 0..MaxFaults

\* Whatever fails and however often it is finished, no stage is executed twice, the coin is never
\* created before it is registered with the program, nor without its dev buy, and the lock comes
\* last ("so nothing is sent twice and nothing landed is skipped").
StagesOnce ==
    /\ \A s \in Stage : times[s] <= 1
    /\ "launch" \in Landed => plan \ {"lock"} \subseteq Landed
    /\ Landed \cap {"buy", "lock"} # {} => "launch" \in Landed

\* The page and the saved job never claim a stage that did not land, nor a registration the server
\* does not list; a launch is called live only when all of it is on-chain and the server lists it,
\* or the saved job still remembers that it has to.
SaysWhatLanded ==
    /\ job # None => job.done \subseteq Landed /\ (job.registered => server = "native")
    /\ store # None => store.done \subseteq Landed /\ (store.registered => server = "native")
    /\ page.pc \in {"register", "live"} => plan \subseteq Landed
    /\ page.pc = "live" => server = "native" \/ (store # None /\ ~store.registered)

\* A launch of which a stage is known to have landed can be finished, unless the page is left, and
\* a coin whose create was saved gets listed as a launch.
Finishes ==
    /\ (job # None /\ job.done # {}) ~> (plan \subseteq Landed \/ page.pc = "left")
    /\ (store # None /\ "launch" \in store.done) ~> server = "native"

=============================================================================
