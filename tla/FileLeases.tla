----------------------------- MODULE FileLeases -----------------------------
(***************************************************************************)
(* The leases of the file store (storage.mjs: set with nx, release), which *)
(* every lock of the server takes: a key is a file, created by a link that *)
(* fails when it exists and removed by moving it aside first.  The calls   *)
(* of one process on a key run one at a time; those of several processes   *)
(* meet only in the file.                                                  *)
(*                                                                         *)
(* A lease is a number, written with the time it expires at; 0 is none.    *)
(***************************************************************************)
EXTENDS Integers

CONSTANTS
    Caller,        \* who takes the lease, each time for a while
    ProcessOf,     \* the process each caller runs in
    MaxLeases      \* bound: how often the lease is tried for

VARIABLES
    entry,         \* the lease the file holds
    call,          \* what each caller has under way
    lease,         \* the lease each caller was given and has not given back
    expired,       \* the leases whose time is over
    tried,         \* how many leases were tried for
    lost           \* history: a live lease was moved aside, and not put back in time

leaseVars == <<entry, call, lease, expired, tried, lost>>

NoLease == 0
NoCall  == [at |-> "idle", for |-> "set", id |-> NoLease, attempt |-> 0, moved |-> NoLease]

LeaseInit ==
    /\ entry = NoLease /\ expired = {} /\ tried = 0 /\ lost = FALSE
    /\ call = [c \in Caller |-> NoCall]
    /\ lease = [c \in Caller |-> NoLease]

live(id) == id # NoLease /\ id \notin expired

\* serialized: no other call of this process on the key is under way.
serialized(c) == \A d \in Caller : ProcessOf[d] = ProcessOf[c] => call[d] = NoCall

Now(c, doing) == call' = [call EXCEPT ![c] = doing]

\* A set removes what has expired, a release what is its own.
matches(c) == IF call[c].for = "set" THEN ~live(call[c].moved) ELSE call[c].moved = call[c].id

\* Mutant: whatever was moved aside is dropped.
PutBackNever(c) == FALSE

\* What was moved aside belongs to someone else.
PutBack(c) == ~matches(c)

\* A live lease that a call has moved aside and is about to put back.
InTheAir(c) == call[c].at = "match" /\ ~matches(c) /\ live(call[c].moved)

-----------------------------------------------------------------------------
(* set(name, owner, { nx, ttl }).                                          *)

\* The expiry is written before the link.
Ask(c) ==
    /\ serialized(c) /\ lease[c] = NoLease /\ tried < MaxLeases
    /\ tried' = tried + 1
    /\ Now(c, [NoCall EXCEPT !.at = "link", !.id = tried + 1])
    /\ UNCHANGED <<entry, lease, expired, lost>>

Link(c) ==
    /\ call[c].at = "link" /\ entry = NoLease
    /\ entry' = call[c].id
    /\ lease' = [lease EXCEPT ![c] = call[c].id]
    /\ Now(c, NoCall)
    /\ lost' = (lost \/ \E d \in Caller : InTheAir(d))
    /\ UNCHANGED <<expired, tried>>

LinkFails(c) ==
    /\ call[c].at = "link" /\ entry # NoLease
    /\ Now(c, [call[c] EXCEPT !.at = "look"])
    /\ UNCHANGED <<entry, lease, expired, tried, lost>>

\* readEntry: a live entry refuses the lease, and a release leaves what is not its own.
Look(c) ==
    /\ call[c].at = "look"
    /\ LET goes == IF call[c].for = "set" THEN ~live(entry) ELSE entry = call[c].id
       IN Now(c, IF goes THEN [call[c] EXCEPT !.at = "aside"] ELSE NoCall)
    /\ UNCHANGED <<entry, lease, expired, tried, lost>>

-----------------------------------------------------------------------------
(* release(name, owner), and removeIf, which both use.                     *)

\* The holder is done, be the lease still its own or not.
Release(c) ==
    /\ serialized(c) /\ lease[c] # NoLease
    /\ Now(c, [NoCall EXCEPT !.at = "look", !.for = "release", !.id = lease[c]])
    /\ lease' = [lease EXCEPT ![c] = NoLease]
    /\ UNCHANGED <<entry, expired, tried, lost>>

\* After removeIf: a release is over, a set links again, three times at most.
Removed(c) ==
    Now(c, IF call[c].for = "set" /\ call[c].attempt < 2
           THEN [call[c] EXCEPT !.at = "link", !.attempt = @ + 1, !.moved = NoLease]
           ELSE NoCall)

\* rename(target, aside)
MoveAside(c) ==
    /\ call[c].at = "aside"
    /\ IF entry = NoLease THEN Removed(c) ELSE Now(c, [call[c] EXCEPT !.at = "match", !.moved = entry])
    /\ entry' = NoLease
    /\ UNCHANGED <<lease, expired, tried, lost>>

\* link(aside, target), then the file moved aside is deleted: also when another one exists by now.
Match(c) ==
    /\ call[c].at = "match"
    /\ entry' = IF PutBack(c) /\ entry = NoLease THEN call[c].moved ELSE entry
    /\ lost' = (lost \/ (InTheAir(c) /\ entry # NoLease))
    /\ Removed(c)
    /\ UNCHANGED <<lease, expired, tried>>

-----------------------------------------------------------------------------

Expire ==
    /\ \E id \in (1..tried) \ expired : expired' = expired \cup {id}
    /\ UNCHANGED <<entry, call, lease, tried, lost>>

\* A process ends, with whatever its callers had under way or held.
Stop(p) ==
    /\ call' = [c \in Caller |-> IF ProcessOf[c] = p THEN NoCall ELSE call[c]]
    /\ lease' = [c \in Caller |-> IF ProcessOf[c] = p THEN NoLease ELSE lease[c]]
    /\ lost' = (lost \/ \E c \in Caller : ProcessOf[c] = p /\ InTheAir(c))
    /\ UNCHANGED <<entry, expired, tried>>

LeaseNext ==
    \/ \E c \in Caller : \/ Ask(c) \/ Link(c) \/ LinkFails(c) \/ Look(c)
                         \/ Release(c) \/ MoveAside(c) \/ Match(c)
    \/ Expire
    \/ \E p \in {ProcessOf[c] : c \in Caller} : Stop(p)

LeaseSpec == LeaseInit /\ [][LeaseNext]_leaseVars

-----------------------------------------------------------------------------
(* Properties.                                                             *)

\* One caller at most holds a lease whose time is not over, however the calls of several processes
\* meet (setNx, removeIf) - unless one process had moved aside a lease another had just taken, and
\* a third caller linked its own, an expired one was put back or the process ended before that
\* lease was put back.
OneHolder ==
    ~lost => \A c, d \in Caller : c # d => ~(live(lease[c]) /\ live(lease[d]))
=============================================================================
