---------------------------- MODULE EpochClosing ----------------------------
(***************************************************************************)
(* How the keeper closes one coin's expired epochs, 30 days after they     *)
(* were posted, and forgets their leaves: a scan from a stored floor over  *)
(* accounts that lagging nodes may not show, records that may be missing   *)
(* or pending, and epochs that are cancelled or closed by others.          *)
(*                                                                         *)
(* Epochs expire in the order they were posted.  Posting them is           *)
(* KeeperEpochs; here an epoch appears with whatever record its post left. *)
(***************************************************************************)
EXTENDS Integers, FiniteSets

CONSTANTS
    SCAN_CHUNK,               \* epochs read at a time
    MaxEpochs,                \* bound: epochs posted
    MaxFaults,                \* bound: crashes, failed sends and late turns
    MaxOthers                 \* bound: epochs cancelled, and closed by others

Indexes == 0..MaxEpochs - 1

VARIABLES
    count, expired,           \* epochs posted; of these, the first `expired` are past expiry
    status, fresh,            \* of each: "open", "closed" or "cancelled"; all nodes show it
    rec, served,              \* its record in the store, and whether its leaves are kept
    floor,                    \* store: epoch:floor:<mint>
    pc, scan,                 \* the running closeExpired
    faults, others            \* bounds

chain == <<count, expired, status, fresh>>
store == <<rec, served, floor>>
vars  == <<chain, store, pc, scan, faults, others>>

NoScan == [upto |-> 0, at |-> 0, shown |-> {}, floor |-> 0, advancing |-> TRUE, unsure |-> {}]

Init ==
    /\ count = 0 /\ expired = 0
    /\ status = [i \in Indexes |-> "open"] /\ fresh = [i \in Indexes |-> TRUE]
    /\ rec = [i \in Indexes |-> "none"] /\ served = [i \in Indexes |-> FALSE]
    /\ floor = 0
    /\ pc = "idle" /\ scan = NoScan /\ faults = 0 /\ others = 0

-----------------------------------------------------------------------------
(* The chain and the rest of the keeper.                                   *)

\* An epoch is posted: by this keeper, confirmed or not, or by somebody else.  A scan that is
\* under way does not come to it.
Post ==
    /\ pc = "idle"
    /\ count < MaxEpochs
    /\ count' = count + 1
    /\ fresh' = [fresh EXCEPT ![count] = FALSE]
    /\ \E r \in {"none", "pending", "posted"} :
          /\ rec' = [rec EXCEPT ![count] = r]
          /\ served' = [served EXCEPT ![count] = r # "none"]
    /\ UNCHANGED <<expired, status, floor, pc, scan, faults, others>>

\* reconcile settles a pending record, earlier in the same turn.
Settle(i) ==
    /\ pc = "idle"
    /\ rec[i] = "pending"
    /\ rec' = [rec EXCEPT ![i] = "posted"]
    /\ UNCHANGED <<chain, served, floor, pc, scan, faults, others>>

\* cancel_epoch, before the claims open; watchRecent may find the proof.
Cancel(i) ==
    /\ i >= expired /\ status[i] = "open"
    /\ status' = [status EXCEPT ![i] = "cancelled"]
    /\ fresh' = [fresh EXCEPT ![i] = FALSE]
    /\ others < MaxOthers /\ others' = others + 1
    /\ UNCHANGED <<count, expired, store, pc, scan, faults>>

SettleCancelled(i) ==
    /\ pc = "idle"
    /\ status[i] = "cancelled" /\ rec[i] = "posted"
    /\ rec' = [rec EXCEPT ![i] = "cancelled"]
    /\ served' = [served EXCEPT ![i] = FALSE]
    /\ UNCHANGED <<chain, floor, pc, scan, faults, others>>

CatchUp ==
    /\ \E i \in Indexes : ~fresh[i]
    /\ fresh' = [i \in Indexes |-> TRUE]
    /\ UNCHANGED <<count, expired, status, store, pc, scan, faults, others>>

\* close_epoch, which anyone may send after expiry.
Close(i) ==
    /\ status' = [status EXCEPT ![i] = "closed"]
    /\ fresh' = [fresh EXCEPT ![i] = FALSE]

CloseByOthers(i) ==
    /\ i < expired /\ status[i] = "open"
    /\ Close(i)
    /\ others < MaxOthers /\ others' = others + 1
    /\ UNCHANGED <<count, expired, store, pc, scan, faults>>

-----------------------------------------------------------------------------
(* closeExpired.                                                           *)

\* What a node answers for an epoch's account: shown or missing.
Reads(i) == IF ~fresh[i] THEN {TRUE, FALSE} ELSE {status[i] = "open"}

\* Mutant: a record nobody wrote says the epoch is over.
KnownExpiredUnrecorded(i) == rec[i] = "none" \/ (rec[i] # "pending" /\ i < expired)

\* knownExpired: only a record that is not pending tells when its epoch ends.
KnownExpired(i) == rec[i] \notin {"none", "pending"} /\ i < expired

\* markClosed: records that exist and are not pending; their leaves are deleted.
MarkClosed(S) ==
    served' = [i \in Indexes |-> served[i] /\ ~(i \in S /\ rec[i] \notin {"none", "pending"})]

Chunk == scan.at..(scan.at + SCAN_CHUNK - 1) \cap 0..(scan.upto - 1)

\* 30 days after its post and CLOSE_DELAY.  No node lags for that long, and a scan is over long
\* before an epoch that its reads did not show yet expires.
Expire ==
    /\ expired < count
    /\ \A i \in 0..expired : fresh[i]
    /\ status[expired] = "open" => expired \notin scan.unsure \cup (Chunk \ scan.shown)
    /\ expired' = expired + 1
    /\ UNCHANGED <<count, status, fresh, store, pc, scan, faults, others>>

\* The account's epoch count, which a lagging node may not know of yet.
StartScan ==
    /\ pc = "idle" /\ count > 0
    /\ \E n \in {count} \cup (IF fresh[count - 1] THEN {} ELSE {count - 1}) :
          scan' = [NoScan EXCEPT !.upto = n, !.at = floor, !.floor = floor]
    /\ pc' = "read"
    /\ UNCHANGED <<chain, store, faults, others>>

ReadChunk ==
    /\ pc = "read"
    /\ IF scan.at >= scan.upto
       THEN pc' = "save" /\ UNCHANGED scan
       ELSE /\ \E shown \in SUBSET Chunk :
                  /\ \A i \in Chunk : (i \in shown) \in Reads(i)
                  /\ scan' = [scan EXCEPT !.shown = shown]
            /\ pc' = "each"
    /\ UNCHANGED <<chain, store, faults, others>>

\* On to the next index, in this chunk or the next.
Onwards(s) ==
    /\ scan' = [s EXCEPT !.at = scan.at + 1]
    /\ pc' = IF scan.at + 1 >= scan.upto \/ (scan.at + 1 - floor) % SCAN_CHUNK = 0
             THEN "read" ELSE "each"

\* A missing account: cancelled for good, or not known to be past its expiry.
Missing ==
    /\ pc = "each" /\ scan.at \notin scan.shown
    /\ \/ /\ rec[scan.at] = "cancelled"
          /\ Onwards([scan EXCEPT !.floor = IF scan.advancing /\ scan.unsure = {}
                                            THEN scan.at + 1 ELSE @])
       \/ /\ rec[scan.at] # "cancelled" /\ ~KnownExpired(scan.at)
          /\ Onwards([scan EXCEPT !.unsure = @ \cup {scan.at}])
    /\ UNCHANGED <<chain, store, faults, others>>

\* The first open epoch ends the scan.
StillOpen ==
    /\ pc = "each" /\ scan.at \in scan.shown /\ scan.at >= expired
    /\ pc' = "save"
    /\ UNCHANGED <<chain, store, scan, faults, others>>

\* An expired epoch: every missing one before it was closed.
PastExpiry ==
    /\ pc = "each"
    /\ \/ scan.at \in scan.shown /\ scan.at < expired
       \/ scan.at \notin scan.shown /\ rec[scan.at] # "cancelled" /\ KnownExpired(scan.at)
    /\ MarkClosed(scan.unsure)
    /\ scan' = [scan EXCEPT !.unsure = {}, !.floor = IF scan.advancing THEN scan.at ELSE @]
    /\ pc' = IF scan.at \in scan.shown THEN "close" ELSE "mark"
    /\ UNCHANGED <<chain, rec, floor, faults, others>>

\* The close lands; one that others closed, or that is lost, leaves the floor where it is.
CloseSent ==
    /\ pc = "close"
    /\ \/ /\ status[scan.at] = "open" /\ Close(scan.at)
          /\ pc' = "mark" /\ UNCHANGED <<scan, faults>>
       \/ /\ status[scan.at] # "open"
          /\ Onwards([scan EXCEPT !.advancing = FALSE])
          /\ UNCHANGED <<status, fresh, faults>>
       \/ /\ faults < MaxFaults /\ faults' = faults + 1
          /\ Onwards([scan EXCEPT !.advancing = FALSE])
          /\ UNCHANGED <<status, fresh>>
    /\ UNCHANGED <<count, expired, store, others>>

Mark ==
    /\ pc = "mark"
    /\ MarkClosed({scan.at})
    /\ Onwards([scan EXCEPT !.floor = IF scan.advancing THEN scan.at + 1 ELSE @])
    /\ UNCHANGED <<chain, rec, floor, faults, others>>

\* The deadline is behind before a close is sent.
Late ==
    /\ pc = "close"
    /\ faults < MaxFaults /\ faults' = faults + 1
    /\ pc' = "save"
    /\ UNCHANGED <<chain, store, scan, others>>

Save ==
    /\ pc = "save"
    /\ floor' = IF scan.floor > floor THEN scan.floor ELSE floor
    /\ pc' = "idle" /\ scan' = NoScan
    /\ UNCHANGED <<chain, rec, served, faults, others>>

\* A read fails or the process dies: the floor is not saved.
Crash ==
    /\ pc # "idle"
    /\ faults < MaxFaults /\ faults' = faults + 1
    /\ pc' = "idle" /\ scan' = NoScan
    /\ UNCHANGED <<chain, store, others>>

-----------------------------------------------------------------------------

CloseExpired == \/ StartScan \/ ReadChunk \/ Missing \/ StillOpen \/ PastExpiry
                \/ CloseSent \/ Mark \/ Late \/ Save

Next == \/ Post \/ CatchUp \/ Expire \/ CloseExpired \/ Crash
        \/ \E i \in 0..count - 1 :
              Settle(i) \/ Cancel(i) \/ SettleCancelled(i) \/ CloseByOthers(i)

Spec == Init /\ [][Next]_vars

\* The coin keeps getting turns (TickRounds), nodes catch up and time passes.
Fairness == WF_vars(CloseExpired) /\ WF_vars(CatchUp) /\ WF_vars(Expire)

FairSpec == Spec /\ Fairness

-----------------------------------------------------------------------------
(* Properties.                                                             *)

\* Every variable keeps its type.
TypeOK ==
    /\ count \in 0..MaxEpochs /\ expired \in 0..count
    /\ status \in [Indexes -> {"open", "closed", "cancelled"}]
    /\ fresh \in [Indexes -> BOOLEAN] /\ served \in [Indexes -> BOOLEAN]
    /\ rec \in [Indexes -> {"none", "pending", "posted", "cancelled"}]
    /\ floor \in 0..count
    /\ pc \in {"idle", "read", "each", "close", "mark", "save"}

\* Every expired epoch is closed at last, so its lamports return to the reserve: no lag, lost or
\* pending record, cancel, failed close or crash makes the floor pass one that is still open
\* (closeExpired, knownExpired).
AllClosed == <>[](\A i \in 0..expired - 1 : status[i] # "open")

\* The leaves of an epoch are kept as long as it can be claimed from (markClosed).
LeavesKept == \A i \in 0..count - 1 :
                 rec[i] = "posted" /\ status[i] = "open" /\ i >= expired => served[i]
=============================================================================
