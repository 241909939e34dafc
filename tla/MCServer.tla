------------------------------ MODULE MCServer ------------------------------
(***************************************************************************)
(* What requests may store, spend and read, checked together: a behaviour  *)
(* is one of the media of launches, of the request limits or of the public *)
(* reads (`part`).  They share nothing here, so the other parts rest.      *)
(***************************************************************************)
EXTENDS LaunchMedia, TLC

CONSTANTS
    a, b, d, d2,
    p1, Instance, Visitor, Prefix, MaxRequests, PrefixOf, AllKey, limit, PREFIX_FACTOR, globalLimit,
    SHARE, Cost, MaxLarge, MaxFaults,
    Key, Request, READ_CACHE_MS, READ_CACHE_MAX, MaxReads, MaxWrites, MaxReadNow

VARIABLES
    part,
    local, stored, req, real, doubled, faults,
    readNow, value, entries, shared, swept, request, readFaults

\* Two documents of one artwork, and another artwork; not everything fits.
ArtOfDoc == d :> a @@ d2 :> a
SizeOf   == a :> 2 @@ b :> 2 @@ d :> 1 @@ d2 :> 1

\* All visitors come from one /48.
OnePrefix == [v \in Visitor |-> p1]

ASSUME LimitsAssumption ==
    /\ IsFiniteSet(Instance) /\ MaxRequests \in Nat /\ Cost \subseteq Nat
    /\ PrefixOf \in [Visitor -> Prefix] /\ AllKey \notin Visitor \cup Prefix
    /\ limit \in Nat /\ PREFIX_FACTOR \in Nat /\ globalLimit \in Nat /\ SHARE \in Nat \ {0}

ASSUME ReadsAssumption == READ_CACHE_MS \in Nat

L == INSTANCE RequestLimits
R == INSTANCE PublicReads WITH now <- readNow, MaxNow <- MaxReadNow, faults <- readFaults

limitVars == <<local, stored, req, real, doubled, faults>>
readVars  == <<readNow, value, entries, shared, swept, request, readFaults>>

PartsInit ==
    /\ Init /\ L!Init /\ R!Init
    /\ part \in {"media", "limits", "reads"}
    /\ part # "media" => ipfs

PartsNext ==
    \/ part = "media" /\ Next /\ UNCHANGED <<part, limitVars, readVars>>
    \/ part = "limits" /\ L!Next /\ UNCHANGED <<part, vars, readVars>>
    \/ part = "reads" /\ R!Next /\ UNCHANGED <<part, vars, limitVars>>

PartsSpec == PartsInit /\ [][PartsNext]_<<part, vars, limitVars, readVars>>

Alike == Permutations(Instance) \cup Permutations(Visitor)

\* A visitor is refused only for what they or their prefix spent: no counter is charged for
\* more than was asked of it (RequestLimits), and no shared read passes its refusal on
\* (PublicReads).
RefusalsEarned ==
    /\ part = "limits" => L!RefusalEarned
    /\ part = "reads" => R!OwnCharge

\* A re-check sees what the store holds by then (PublicReads).
RecheckIsNew == part = "reads" => R!RecheckIsNew
=============================================================================
