-------------------------- MODULE CoinIndexProofs --------------------------
(***************************************************************************)
(* What CoinIndex promises, for any number of workers, coins and URIs, any *)
(* caps and any number of crashes and lost answers; and, at the end, what  *)
(* the leases promise that its locks are made of.                          *)
(***************************************************************************)
EXTENDS CoinIndex, FileLeases, FiniteSetTheorems, TLAPS

Places == { "idle", "relist", "issued", "claim", "read", "verify", "admit", "evict", "recount",
            "slot", "write", "refund", "giveback", "consume", "summary", "list", "forget",
            "delete" }

\* The operation has not asked for a slot yet.
Unslotted == { "idle", "relist", "issued", "claim", "read", "verify", "admit", "evict", "recount",
               "slot" }

\* It may hold a slot that no launch is recorded under yet.
Unbooked  == {"write", "refund", "giveback"}

\* A registration here may yet store its coin as a launch.
Acting    == {"admit", "evict", "recount", "slot", "write"}

WorkerRec == [ op : {"none", "register", "track", "sync"}, pc : Places, mint : Mint \cup {None},
               seen : Record \cup {None}, quantum : BOOLEAN,
               bound : (0..MaxLapses) \cup {None}, admitted : BOOLEAN,
               slot : (0..MaxDay) \cup {None}, todo : SUBSET Mint, gone : SUBSET Mint,
               fresh : SUBSET (1..MaxTx) ]

StoreOK ==
    /\ coin \in [Mint -> Record \cup {None}]
    /\ listed \in [Mint -> {External, "native", None}]
    /\ trades \in [Mint -> SUBSET (1..MaxTx)]
    /\ issued \subseteq Uri /\ claim \in [Uri -> Mint \cup {None}]
    /\ checked \subseteq Uri
    /\ lapsed \in [Uri -> Seq(Mint)] /\ \A u \in Uri : Len(lapsed[u]) <= MaxLapses
    /\ slots \in [0..MaxDay -> 0..launchesPerWallet]
    /\ chain \in [Mint -> 1..MaxTx] /\ old \subseteq Mint /\ day \in 0..MaxDay
    /\ made \subseteq Mint \X (0..MaxDay) /\ byUri \subseteq Mint \X (0..MaxLapses)
    /\ dropped \subseteq Mint
    /\ faults \in Nat

\* What an operation is where: its coin and its kind, the record it works on, its slot.
Placed(x) ==
    /\ x \in WorkerRec
    /\ x.pc = "idle" => x = Idle
    /\ x.pc # "idle" => x.mint \in Mint /\ x.op \in {"register", "track", "sync"}
    /\ x.pc \in {"issued", "claim", "consume"} => x.op = "register"
    /\ x.pc = "read" => x.op = "sync"
    /\ x.pc = "verify" => x.op \in {"track", "sync"}
    /\ x.op = "sync" => x.seen \in Record
    /\ x.pc = "list" => x.seen \in Record
    /\ x.pc \in Unslotted => x.slot = None
    /\ x.pc \in {"refund", "giveback"} => x.slot # None
    /\ x.pc \notin {"evict", "delete"} => x.gone = {}

\* The coin of a URI's binding number n, lapsed or not.
Owner(u, n) == IF n < Len(lapsed[u]) THEN lapsed[u][n + 1]
               ELSE IF n = Len(lapsed[u]) THEN claim[u] ELSE None

\* A registration that may yet store its coin is of a Quantum coin, or has seen its URI bound to
\* the coin.
Bound(x) ==
    /\ x.bound # None => x.mint \in Mint /\ Owner(UriOf[x.mint], x.bound) = x.mint
    /\ x.op = "register" /\ x.pc \in Acting => x.quantum \/ x.bound # None

Fits(x) ==
    /\ Placed(x) /\ Bound(x)
    /\ x.pc = "evict" => x.gone \subseteq dropped
    /\ x.pc = "delete" => \A m \in x.gone : ~IsNative(m)

WorkersFit == worker \in [Worker -> WorkerRec] /\ \A w \in Worker : Fits(worker[w])

\* What was listed by its URI was listed under a binding of its own.
UrisKept == \A x \in byUri : x[1] \in Mint /\ Owner(UriOf[x[1]], x[2]) = x[1]

\* Every launch of a day and every slot held for one is a slot taken, or was given back by mistake.
MadeOn(d)  == {m \in Mint : <<m, d>> \in made}
Holders(d) == {w \in Worker : worker[w].slot = d /\ worker[w].pc \in Unbooked}
SlotsKept  ==
    \A d \in 0..MaxDay : Cardinality(MadeOn(d)) + Cardinality(Holders(d)) <= slots[d] + faults

\* The lock of the list.
OneLists == \A v, w \in Worker : At(v, "list") /\ At(w, "list") => v = w

\* The operation is about to list its coin as a launch.
Serves(x, m) ==
    x.mint = m /\ (x.pc \in {"consume", "summary"} \/ (x.pc = "list" /\ Summary(x.seen) = "native"))

Served(m) ==
    \/ \E w \in Worker : Serves(worker[w], m)
    \/ /\ listed[m] = "native"
       /\ \A w \in Worker : At(w, "list") /\ MintOf(w) = m => Summary(worker[w].seen) = "native"

LaunchesServed == faults = 0 => \A m \in Mint \ dropped : IsNative(m) => Served(m)

IndexInv == StoreOK /\ WorkersFit /\ UrisKept /\ SlotsKept /\ OneLists /\ LaunchesServed

-----------------------------------------------------------------------------
(* Types.                                                                  *)

LEMMA NoneIsNot ==
    /\ None \notin Mint /\ None \notin Record /\ None \notin 0..MaxDay
    /\ None \notin 0..MaxLapses
BY NoneAssumption

LEMMA ConstantTypes ==
    /\ MaxTx \in Nat /\ 1 <= MaxTx /\ MaxDay \in Nat /\ MaxLapses \in Nat /\ launchesPerWallet \in Nat
    /\ 1 <= launchesPerWallet
    /\ UriOf \in [Mint -> Uri]
    /\ IsFiniteSet(Worker) /\ IsFiniteSet(Mint)
BY IndexAssumption

LEMMA IdleFits == Fits(Idle) /\ Idle.pc = "idle" /\ Idle.mint = None
                  /\ Idle.slot = None /\ Idle.bound = None /\ Idle.gone = {}
<1>1. Placed(Idle)
  BY NoneIsNot DEF Placed, Idle, WorkerRec, Places, Unslotted
<1> QED BY <1>1 DEF Fits, Bound, Owner, Idle, Acting

\* A record that is written again.
LEMMA RecordTypes ==
    ASSUME NEW r \in Record
    PROVE  /\ r.provenance \in {External} \cup Native /\ r.cursor \in 0..MaxTx
           /\ r.from \in 0..MaxTx /\ r.behind \in BOOLEAN
           /\ \A b \in BOOLEAN : [r EXCEPT !.behind = b] \in Record
           /\ \A p \in {External} \cup Native : [r EXCEPT !.provenance = p] \in Record
           /\ \A c, f \in 0..MaxTx, b \in BOOLEAN :
                 [r EXCEPT !.cursor = c, !.from = f, !.behind = b] \in Record
BY DEF Record

\* A worker at work, and its record.
LEMMA AtWork ==
    ASSUME IndexInv, NEW w \in Worker
    PROVE  /\ worker[w] \in WorkerRec /\ Fits(worker[w]) /\ Placed(worker[w])
           /\ Bound(worker[w])
           /\ ~At(w, "idle") => /\ worker[w].mint \in Mint
                                /\ worker[w].op \in {"register", "track", "sync"}
BY DEF IndexInv, WorkersFit, Fits, Placed, At

-----------------------------------------------------------------------------
(* A worker that only moves.                                               *)

\* The worker goes to a place of its own, where it holds no slot it did not hold before and still
\* serves the launches it served.
Moved(w) ==
    \E y : /\ Fits(y) /\ worker' = [worker EXCEPT ![w] = y]
           /\ y.pc \in Unbooked /\ y.slot # None
                 => worker[w].pc \in Unbooked /\ worker[w].slot = y.slot
           /\ y.pc = "list" => ListFree /\ y.seen = coin[y.mint]
           /\ \A m \in Mint : IsNative(m) /\ Serves(worker[w], m) => Serves(y, m)

\* What the others see of the move.
LEMMA OneMoves ==
    ASSUME IndexInv, NEW w \in Worker, NEW y, Placed(y), worker' = [worker EXCEPT ![w] = y]
    PROVE  /\ worker' \in [Worker -> WorkerRec]
           /\ worker'[w] = y /\ \A v \in Worker \ {w} : worker'[v] = worker[v]
BY DEF IndexInv, WorkersFit, Placed

\* No binding gets another coin.
BindingsKept ==
    \A u \in Uri, n \in 0..MaxLapses : Owner(u, n) # None => Owner(u, n)' = Owner(u, n)

LEMMA BindingsSame ==
    ASSUME UNCHANGED <<claim, lapsed>>
    PROVE  BindingsKept
  BY DEF BindingsKept, Owner

\* A worker keeps fitting a store in which no binding changes its coin and no coin it deletes is a launch.
LEMMA StillFits ==
    ASSUME NEW x, Fits(x),
           BindingsKept,
           dropped \subseteq dropped',
           x.pc = "delete" => \A m \in x.gone : ~IsNative(m)'
    PROVE  Fits(x)'
<1>1. Bound(x)'
  BY ConstantTypes, NoneIsNot DEF Fits, Placed, WorkerRec, Bound, BindingsKept
<1> QED BY <1>1 DEF Fits

LEMMA HoldersBound ==
    ASSUME NEW d \in 0..MaxDay
    PROVE  /\ IsFiniteSet(Holders(d)) /\ Cardinality(Holders(d)) \in Nat
           /\ IsFiniteSet(MadeOn(d)) /\ Cardinality(MadeOn(d)) \in Nat
           /\ IsFiniteSet(MadeOn(d)') /\ Cardinality(MadeOn(d)') \in Nat
           /\ IsFiniteSet(Holders(d)') /\ Cardinality(Holders(d)') \in Nat
<1>1. Holders(d) \subseteq Worker /\ MadeOn(d) \subseteq Mint /\ MadeOn(d)' \subseteq Mint
      /\ Holders(d)' \subseteq Worker
  BY DEF Holders, MadeOn
<1>2. IsFiniteSet(Worker) /\ IsFiniteSet(Mint)
  BY ConstantTypes
<1>3. \A S : S \subseteq Worker \/ S \subseteq Mint => IsFiniteSet(S)
  BY <1>2, FS_Subset
<1> QED BY <1>1, <1>3, FS_CardinalityType

\* The slots held do not grow when the worker holds none it did not hold before.
LEMMA HoldersShrink ==
    ASSUME NEW w \in Worker, \A v \in Worker \ {w} : worker'[v] = worker[v],
           worker'[w].pc \in Unbooked /\ worker'[w].slot # None
                 => worker[w].pc \in Unbooked /\ worker[w].slot = worker'[w].slot,
           NEW d \in 0..MaxDay
    PROVE  Holders(d)' \subseteq Holders(d) /\ Cardinality(Holders(d)') <= Cardinality(Holders(d))
<1>1. Holders(d)' \subseteq Holders(d)
  BY NoneIsNot DEF Holders
<1> QED BY <1>1, HoldersBound, FS_Subset

LEMMA SlotNumbers ==
    ASSUME IndexInv, NEW d \in 0..MaxDay
    PROVE  faults \in Nat /\ slots[d] \in Nat /\ slots[d] <= launchesPerWallet
<1>1. faults \in Nat /\ slots \in [0..MaxDay -> 0..launchesPerWallet]
  BY DEF IndexInv, StoreOK
<1> QED BY <1>1, ConstantTypes

LEMMA SlotsKeptFrame ==
    ASSUME IndexInv, UNCHANGED <<made, slots>>, faults' \in Nat, faults <= faults',
           \A d \in 0..MaxDay : Cardinality(Holders(d)') <= Cardinality(Holders(d))
    PROVE  SlotsKept'
<1> SUFFICES ASSUME NEW d \in 0..MaxDay
             PROVE  Cardinality(MadeOn(d)') + Cardinality(Holders(d)') <= slots'[d] + faults'
  BY DEF SlotsKept
<1>1. MadeOn(d)' = MadeOn(d)
  BY DEF MadeOn
<1>2. Cardinality(MadeOn(d)) + Cardinality(Holders(d)) <= slots[d] + faults
  BY DEF IndexInv, SlotsKept
<1>3. faults \in Nat /\ slots[d] \in Nat
  BY SlotNumbers
<1>4. Cardinality(Holders(d)') <= Cardinality(Holders(d))
  OBVIOUS
<1> QED BY <1>1, <1>2, <1>3, <1>4, HoldersBound

LEMMA OneListsFrame ==
    ASSUME IndexInv, NEW w \in Worker, \A v \in Worker \ {w} : worker'[v] = worker[v],
           worker'[w].pc = "list" => ListFree \/ At(w, "list")
    PROVE  OneLists'
BY DEF IndexInv, OneLists, ListFree, At

\* A launch is still served when neither it nor its entry changed and the worker did nothing to it.
LEMMA StillServed ==
    ASSUME IndexInv, NEW w \in Worker, \A v \in Worker \ {w} : worker'[v] = worker[v],
           NEW m \in Mint, Served(m), IsNative(m), listed[m] = "native" => listed'[m] = "native",
           worker'[w].pc = "list" /\ worker'[w].mint = m => Summary(worker'[w].seen) = "native",
           Serves(worker[w], m) => Serves(worker'[w], m)
    PROVE  Served(m)'
<1>1. CASE \E v \in Worker : Serves(worker[v], m)
  <2>1. PICK v \in Worker : Serves(worker[v], m)
    BY <1>1
  <2>2. Serves(worker'[v], m)
    BY <2>1
  <2> QED BY <2>2 DEF Served, Serves
<1>2. CASE /\ listed[m] = "native"
           /\ \A v \in Worker : At(v, "list") /\ MintOf(v) = m => Summary(worker[v].seen) = "native"
  BY <1>2 DEF Served, At, MintOf, Summary
<1> QED BY <1>1, <1>2 DEF Served

LEMMA PlainMove ==
    ASSUME IndexInv, NEW w \in Worker, Moved(w), StoreOK',
           UNCHANGED <<coin, listed, claim, slots, history, faults>>
    PROVE  IndexInv'
<1>1. PICK y : /\ Fits(y) /\ worker' = [worker EXCEPT ![w] = y]
               /\ y.pc \in Unbooked /\ y.slot # None
                     => worker[w].pc \in Unbooked /\ worker[w].slot = y.slot
               /\ y.pc = "list" => ListFree /\ y.seen = coin[y.mint]
               /\ \A m \in Mint : IsNative(m) /\ Serves(worker[w], m) => Serves(y, m)
  BY DEF Moved
<1>2. /\ worker' \in [Worker -> WorkerRec]
      /\ worker'[w] = y /\ \A v \in Worker \ {w} : worker'[v] = worker[v]
  BY <1>1, OneMoves DEF Fits
<1>3. WorkersFit'
  <2>1. ASSUME NEW v \in Worker
        PROVE  Fits(worker'[v])
    BY <1>1, <1>2 DEF IndexInv, WorkersFit
  <2>2. ASSUME NEW v \in Worker
        PROVE  Fits(worker[v])'
    <3>1. Fits(worker'[v])
      BY <2>1
    <3> QED BY <3>1 DEF history, Fits, Bound, Owner, IsNative
  <2> QED BY <1>2, <2>2 DEF WorkersFit
<1>4. UrisKept'
  BY DEF IndexInv, UrisKept, Owner, history
<1>5. SlotsKept'
  <2>1. \A d \in 0..MaxDay : Cardinality(Holders(d)') <= Cardinality(Holders(d))
    BY <1>1, <1>2, HoldersShrink
  <2>2. faults \in Nat /\ faults <= faults /\ faults' = faults
    BY DEF IndexInv, StoreOK
  <2> QED BY <2>1, <2>2, SlotsKeptFrame DEF history
<1>6. OneLists'
  BY <1>1, <1>2, OneListsFrame
<1>7. LaunchesServed'
  <2> SUFFICES ASSUME faults = 0, NEW m \in Mint \ dropped, IsNative(m)
               PROVE  Served(m)'
    BY DEF LaunchesServed, history, IsNative
  <2>1. Served(m)
    BY DEF IndexInv, LaunchesServed
  <2>2. worker'[w].pc = "list" /\ worker'[w].mint = m => Summary(worker'[w].seen) = "native"
    BY <1>1, <1>2 DEF Summary, IsNative, Native, External
  <2>3. Serves(worker[w], m) => Serves(worker'[w], m)
    BY <1>1, <1>2
  <2> QED BY <1>2, <2>1, <2>2, <2>3, StillServed
<1> QED BY <1>3, <1>4, <1>5, <1>6, <1>7 DEF IndexInv

-----------------------------------------------------------------------------
(* The steps that only move a worker.                                      *)

\* The operation goes on with what it was.
LEMMA GoesOn ==
    ASSUME IndexInv, NEW w \in Worker, NEW y, Placed(y), worker' = [worker EXCEPT ![w] = y],
           y.op = Op(w), y.mint = MintOf(w), y.bound = worker[w].bound,
           y.op = "register" => y.quantum = worker[w].quantum,
           y.pc \in Acting => worker[w].pc \in Acting \/ y.op # "register",
           y.pc \notin {"list", "delete"}, y.gone = {},
           y.pc \in Unbooked /\ y.slot # None
                => worker[w].pc \in Unbooked /\ worker[w].slot = y.slot,
           worker[w].pc \notin {"summary", "list"},
           At(w, "consume") => y.pc = "summary"
    PROVE  Moved(w)
<1>1. Bound(y)
  BY AtWork DEF Bound, Owner, Op, MintOf
<1>2. Fits(y)
  BY <1>1 DEF Fits
<1>3. \A m \in Mint : Serves(worker[w], m) => Serves(y, m)
  BY DEF Serves, At, MintOf
<1> QED BY <1>2, <1>3 DEF Moved

LEMMA EndsMoves ==
    ASSUME IndexInv, NEW w \in Worker, Ends(w),
           \A m \in Mint : ~(IsNative(m) /\ Serves(worker[w], m))
    PROVE  Moved(w)
BY IdleFits DEF Ends, Moved, Unbooked

LEMMA GoesMoves ==
    ASSUME IndexInv, NEW w \in Worker, NEW pc \in Places \ {"idle", "list", "delete"}, Goes(w, pc),
           ~At(w, "idle"), worker[w].gone = {},
           pc \in {"issued", "claim", "consume"} => Op(w) = "register",
           pc = "read" => Op(w) = "sync",
           pc = "verify" => Op(w) # "register",
           pc \in Unslotted => worker[w].slot = None,
           pc \in {"refund", "giveback"} => worker[w].slot # None,
           pc \in Acting => worker[w].pc \in Acting \/ Op(w) # "register",
           pc \in Unbooked => worker[w].pc \in Unbooked \/ worker[w].slot = None,
           worker[w].pc \notin {"summary", "list"},
           At(w, "consume") => pc = "summary"
    PROVE  Moved(w)
<1> DEFINE x == worker[w]
           y == [x EXCEPT !.pc = pc]
<1>1. x \in WorkerRec /\ Placed(x) /\ x.mint \in Mint /\ x.op \in {"register", "track", "sync"}
  BY AtWork
<1>2. worker' = [worker EXCEPT ![w] = y]
  BY DEF Goes, IndexInv, WorkersFit
<1>3. /\ y \in WorkerRec /\ y.pc = pc /\ y.op = x.op /\ y.mint = x.mint /\ y.seen = x.seen
      /\ y.quantum = x.quantum /\ y.bound = x.bound /\ y.slot = x.slot /\ y.gone = x.gone
  BY <1>1 DEF WorkerRec
<1>4. Placed(y)
  <2> HIDE DEF x, y
  <2>1. x.op = Op(w) /\ x.slot = worker[w].slot /\ x.gone = worker[w].gone
    BY DEF Op, x
  <2> QED BY <1>1, <1>3, <2>1 DEF Placed
<1>5. y.op = Op(w) /\ y.mint = MintOf(w)
  BY <1>3 DEF Op, MintOf
<1> HIDE DEF y
<1> QED BY <1>2, <1>3, <1>4, <1>5, GoesOn

LEMMA RefusedMoves ==
    ASSUME IndexInv, NEW w \in Worker, worker[w].pc \in {"admit", "evict", "recount", "slot"},
           worker[w].gone = {}, Refused(w)
    PROVE  Moved(w)
<1>1. worker[w].slot = None /\ Placed(worker[w])
  BY AtWork DEF Placed, Unslotted
<1>2. CASE Ends(w)
  BY <1>2, EndsMoves DEF Serves
<1>3. CASE Goes(w, "relist") /\ Op(w) = "track"
  BY <1>1, <1>3, GoesMoves DEF Places, At, Acting, Unslotted, Unbooked
<1>4. CASE Goes(w, "write")
  BY <1>1, <1>4, GoesMoves DEF Places, At, Acting, Unslotted, Unbooked
<1> QED BY <1>2, <1>3, <1>4 DEF Refused

LEMMA BeginMoves ==
    ASSUME IndexInv, NEW w \in Worker, NEW op \in {"register", "track", "sync"}, NEW m \in Mint,
           NEW pc \in {"relist", "issued", "verify", "read"}, Begin(w, op, m, pc),
           pc = "issued" => op = "register", pc = "read" => op = "sync",
           pc = "verify" => op # "register",
           op = "sync" => coin[m] \in Record
    PROVE  Moved(w)
<1> DEFINE y == [Idle EXCEPT !.op = op, !.mint = m, !.seen = coin[m], !.pc = pc]
<1>1. worker' = [worker EXCEPT ![w] = y] /\ worker[w].pc = "idle"
  BY DEF Begin, At
<1>2. coin[m] \in Record \cup {None}
  BY DEF IndexInv, StoreOK
<1>3. Idle \in WorkerRec
  BY IdleFits DEF Fits, Placed
<1>4. /\ y \in WorkerRec /\ y.pc = pc /\ y.op = op /\ y.mint = m /\ y.seen = coin[m]
      /\ y.slot = None /\ y.gone = {} /\ y.bound = None
  BY <1>2, <1>3 DEF WorkerRec, Places, Idle
<1>5. Placed(y)
  <2> HIDE DEF y
  <2> QED BY <1>4 DEF Placed
<1> HIDE DEF y
<1>6. Fits(y)
  BY <1>4, <1>5 DEF Fits, Bound, Owner, Acting
<1> QED BY <1>1, <1>4, <1>6 DEF Moved, Serves, Unbooked

LEMMA IdleMoves ==
    ASSUME IndexInv, NEW w \in Worker, NEW m \in Mint,
           Register(w, m) \/ Track(w, m) \/ Sync(w, m)
    PROVE  Moved(w)
<1>1. CASE Register(w, m)
  <2>1. PICK pc \in {"relist", "issued"} : Begin(w, "register", m, pc)
    BY <1>1 DEF Register
  <2> QED BY <2>1, BeginMoves
<1>2. CASE Track(w, m)
  BY <1>2, BeginMoves DEF Track
<1>3. CASE Sync(w, m)
  <2>1. coin[m] \in Record
    BY <1>3 DEF Sync, IndexInv, StoreOK
  <2>2. Begin(w, "sync", m, "read")
    BY <1>3 DEF Sync
  <2> QED BY <2>1, <2>2, BeginMoves
<1> QED BY <1>1, <1>2, <1>3

LEMMA RelistMoves ==
    ASSUME IndexInv, NEW w \in Worker, Relist(w)
    PROVE  Moved(w)
<1>1. worker[w].pc = "relist" /\ worker[w].gone = {}
  BY AtWork DEF Relist, At, Placed
<1>2. CASE Goes(w, "summary")
  BY <1>1, <1>2, GoesMoves DEF Places, Unslotted, At, Acting, Unbooked
<1>3. CASE Ends(w)
  BY <1>1, <1>3, EndsMoves DEF Serves
<1> QED BY <1>2, <1>3 DEF Relist

\* The binding that is seen is the URI's, and no other's.
LEMMA BindingIs ==
    ASSUME IndexInv, NEW u \in Uri
    PROVE  Binding(u) \in 0..MaxLapses /\ Owner(u, Binding(u)) = claim[u]
<1>1. Len(lapsed[u]) \in Nat /\ Len(lapsed[u]) <= MaxLapses
  BY DEF IndexInv, StoreOK
<1> QED BY <1>1, ConstantTypes DEF Binding, Owner

LEMMA ReadIssuedMoves ==
    ASSUME IndexInv, NEW w \in Worker, ReadIssued(w)
    PROVE  Moved(w)
<1> DEFINE x == worker[w]
<1>1. /\ x.pc = "issued" /\ x.op = "register" /\ x.gone = {} /\ x.slot = None /\ x.mint \in Mint
      /\ x \in WorkerRec
  BY AtWork DEF ReadIssued, At, Placed, Unslotted
<1>2. CASE Ends(w)
  BY <1>1, <1>2, EndsMoves DEF Serves
<1>3. CASE ~Ends(w)
  <2>0. UriOf[x.mint] \in Uri /\ Binding(UriOf[x.mint]) \in 0..MaxLapses
        /\ Owner(UriOf[x.mint], Binding(UriOf[x.mint])) = claim[UriOf[x.mint]]
    BY <1>1, ConstantTypes, BindingIs
  <2>1. PICK q \in BOOLEAN, b \in (0..MaxLapses) \cup {None}, pc \in {"claim", "admit"} :
           /\ worker' = [worker EXCEPT ![w].quantum = q, ![w].bound = b, ![w].pc = pc]
           /\ b # None => Owner(UriOf[x.mint], b) = x.mint
           /\ pc = "admit" => q \/ b # None
    <3>1. PICK q \in BOOLEAN :
             worker' = [worker EXCEPT ![w].quantum = q,
                ![w].bound = IF claim[UriOf[x.mint]] = x.mint THEN Binding(UriOf[x.mint]) ELSE None,
                ![w].pc = IF (claim[UriOf[x.mint]] = x.mint \/ UriOf[x.mint] \in issued)
                             /\ claim[UriOf[x.mint]] # x.mint THEN "claim" ELSE "admit"]
             /\ (q \/ claim[UriOf[x.mint]] = x.mint \/ UriOf[x.mint] \in issued)
      BY <1>3 DEF ReadIssued, Verified, MintOf
    <3>2. CASE claim[UriOf[x.mint]] = x.mint
      BY <2>0, <3>1, <3>2, NoneIsNot
    <3>3. CASE claim[UriOf[x.mint]] # x.mint
      BY <2>0, <3>1, <3>3, NoneIsNot
    <3> QED BY <3>2, <3>3
  <2> DEFINE y == [x EXCEPT !.quantum = q, !.bound = b, !.pc = pc]
  <2>2. worker' = [worker EXCEPT ![w] = y]
    BY <2>1 DEF IndexInv, WorkersFit
  <2>3. y \in WorkerRec
    <3>1. pc \in Places
      BY DEF Places
    <3> QED BY <1>1, <3>1 DEF WorkerRec
  <2>4. /\ y.pc = pc /\ y.op = "register" /\ y.mint = x.mint /\ y.quantum = q /\ y.bound = b
        /\ y.gone = {} /\ y.slot = None
    BY <1>1 DEF WorkerRec
  <2> HIDE DEF y
  <2>5. Placed(y)
    BY <1>1, <2>3, <2>4 DEF Placed
  <2>6. Fits(y)
    BY <1>1, <2>1, <2>4, <2>5 DEF Fits, Bound, Owner, Acting
  <2> QED BY <1>1, <2>2, <2>4, <2>6 DEF Moved, Serves, Unbooked
<1> QED BY <1>2, <1>3

LEMMA VerifyMoves ==
    ASSUME IndexInv, NEW w \in Worker, Verify(w)
    PROVE  Moved(w)
<1> DEFINE x == worker[w]
<1>1. /\ x.pc = "verify" /\ x.gone = {} /\ x.slot = None /\ x.mint \in Mint
      /\ x.op \in {"track", "sync"} /\ (x.op = "sync" => x.seen \in Record) /\ x \in WorkerRec
  BY AtWork DEF Verify, At, Placed, Unslotted
<1>2. PICK q \in BOOLEAN, pc \in {"admit", "relist", "write"} :
         worker' = [worker EXCEPT ![w].quantum = q, ![w].pc = pc]
  BY DEF Verify, Verified
<1> DEFINE y == [x EXCEPT !.quantum = q, !.pc = pc]
<1>3. worker' = [worker EXCEPT ![w] = y]
  BY <1>2 DEF IndexInv, WorkersFit
<1>4. y \in WorkerRec
  <2>1. pc \in Places
    BY DEF Places
  <2> QED BY <1>1, <2>1 DEF WorkerRec
<1>5. /\ y.pc = pc /\ y.op = x.op /\ y.mint = x.mint /\ y.bound = x.bound
      /\ y.gone = {} /\ y.slot = None /\ y.seen = x.seen
  BY <1>1 DEF WorkerRec
<1>6. Placed(y)
  <2> HIDE DEF y
  <2> QED BY <1>1, <1>4, <1>5 DEF Placed
<1>7. y.op = Op(w) /\ y.mint = MintOf(w) /\ ~At(w, "consume")
  BY <1>1, <1>5 DEF Op, MintOf, At
<1> HIDE DEF y
<1> QED BY <1>1, <1>3, <1>5, <1>6, <1>7, GoesOn

LEMMA AdmitMoves ==
    ASSUME IndexInv, NEW w \in Worker, Admit(w)
    PROVE  Moved(w)
<1> DEFINE x == worker[w]
<1>1. /\ x.pc = "admit" /\ x.gone = {} /\ x.slot = None /\ x.mint \in Mint
      /\ x.op \in {"register", "track", "sync"} /\ (x.op = "sync" => x.seen \in Record)
      /\ x \in WorkerRec
  BY AtWork DEF Admit, At, Placed, Unslotted
<1>2. CASE Refused(w)
  BY <1>1, <1>2, RefusedMoves
<1>3. CASE Goes(w, "slot")
  BY <1>1, <1>3, GoesMoves DEF Places, Unslotted, At, Acting, Unbooked
<1>4. CASE worker' = [worker EXCEPT ![w].admitted = TRUE, ![w].pc = "write"]
  <2> DEFINE y == [x EXCEPT !.admitted = TRUE, !.pc = "write"]
  <2>1. worker' = [worker EXCEPT ![w] = y]
    BY <1>4 DEF IndexInv, WorkersFit
  <2>2. /\ y \in WorkerRec /\ y.pc = "write" /\ y.op = x.op /\ y.mint = x.mint
        /\ y.quantum = x.quantum /\ y.bound = x.bound
        /\ y.gone = {} /\ y.slot = None /\ y.seen = x.seen
    BY <1>1 DEF WorkerRec, Places
  <2>3. Placed(y)
    <3> HIDE DEF y
    <3> QED BY <1>1, <2>2 DEF Placed, Unslotted
  <2>4. y.op = Op(w) /\ y.mint = MintOf(w) /\ ~At(w, "consume")
    BY <1>1, <2>2 DEF Op, MintOf, At
  <2> HIDE DEF y
  <2> QED BY <1>1, <2>1, <2>2, <2>3, <2>4, GoesOn DEF Acting
<1>5. CASE worker' = [worker EXCEPT ![w].todo = Candidates, ![w].pc = "evict"]
  <2> DEFINE y == [x EXCEPT !.todo = Candidates, !.pc = "evict"]
  <2>1. worker' = [worker EXCEPT ![w] = y]
    BY <1>5 DEF IndexInv, WorkersFit
  <2>2. Candidates \in SUBSET Mint
    BY DEF Candidates, NativeListed
  <2>3. /\ y \in WorkerRec /\ y.pc = "evict" /\ y.op = x.op /\ y.mint = x.mint
        /\ y.quantum = x.quantum /\ y.bound = x.bound
        /\ y.gone = {} /\ y.slot = None /\ y.seen = x.seen
    <3> DEFINE looks == [x EXCEPT !.todo = Candidates]
    <3>1. looks \in WorkerRec
      BY <1>1, <2>2 DEF WorkerRec
    <3>2. y = [looks EXCEPT !.pc = "evict"]
      OBVIOUS
    <3>3. /\ y.pc = "evict" /\ y.op = x.op /\ y.mint = x.mint /\ y.quantum = x.quantum
          /\ y.bound = x.bound /\ y.gone = {} /\ y.slot = None /\ y.seen = x.seen
      BY <1>1 DEF WorkerRec
    <3> HIDE DEF looks, y
    <3>4. y \in WorkerRec
      BY <3>1, <3>2 DEF WorkerRec, Places
    <3> QED BY <3>3, <3>4
  <2>4. Placed(y)
    <3> HIDE DEF y
    <3> QED BY <1>1, <2>3 DEF Placed, Unslotted
  <2>5. y.op = Op(w) /\ y.mint = MintOf(w) /\ ~At(w, "consume")
    BY <1>1, <2>3 DEF Op, MintOf, At
  <2> HIDE DEF y
  <2> QED BY <1>1, <2>1, <2>3, <2>4, <2>5, GoesOn DEF Acting
<1> QED BY <1>2, <1>3, <1>4, <1>5 DEF Admit

LEMMA RecountMoves ==
    ASSUME IndexInv, NEW w \in Worker, NothingEvicted(w) \/ Recount(w)
    PROVE  Moved(w)
<1>1. worker[w].pc \in {"evict", "recount"} /\ worker[w].gone = {} /\ worker[w].slot = None
  BY AtWork DEF NothingEvicted, Recount, At, Placed, Unslotted
<1>2. CASE Refused(w)
  BY <1>1, <1>2, RefusedMoves
<1>3. CASE Goes(w, "slot")
  BY <1>1, <1>3, GoesMoves DEF Places, Unslotted, At, Acting, Unbooked
<1> QED BY <1>2, <1>3 DEF NothingEvicted, Recount

LEMMA ConsumeMoves ==
    ASSUME IndexInv, NEW w \in Worker, Consume(w)
    PROVE  Moved(w)
<1>1. worker[w].pc = "consume" /\ worker[w].gone = {} /\ Goes(w, "summary")
  BY AtWork DEF Consume, At, Placed
<1> QED BY <1>1, GoesMoves DEF Places, Unslotted, At, Acting, Unbooked

\* The cursor of a read: the last transaction of those read, or the one of before.
LEMMA ReadableHasLast ==
    ASSUME NEW from \in 0..MaxTx, NEW to \in 0..MaxTx, NEW fresh \in Readable(from, to)
    PROVE  /\ fresh \subseteq 1..MaxTx
           /\ fresh # {} => (CHOOSE n \in fresh : \A k \in fresh : k <= n) \in 1..MaxTx
<1>1. PICK k \in from..to : fresh = from + 1 .. k
  BY DEF Readable
<1>2. from \in Int /\ to \in Int /\ k \in Int /\ 0 <= from /\ k <= to /\ to <= MaxTx
  BY <1>1, ConstantTypes
<1>3. fresh \subseteq 1..MaxTx
  <2> SUFFICES ASSUME NEW n \in fresh
               PROVE  n \in 1..MaxTx
    OBVIOUS
  <2>1. n \in Int /\ from + 1 <= n /\ n <= k
    BY <1>1, <1>2
  <2> QED BY <1>2, <2>1, ConstantTypes
<1>4. ASSUME fresh # {}
      PROVE  (CHOOSE n \in fresh : \A j \in fresh : j <= n) \in 1..MaxTx
  <2>1. k \in fresh /\ \A j \in fresh : j <= k
    BY <1>1, <1>2, <1>4
  <2> QED BY <1>3, <2>1
<1> QED BY <1>3, <1>4

LEMMA ReadChainMoves ==
    ASSUME IndexInv, NEW w \in Worker, ReadChain(w)
    PROVE  Moved(w)
<1> DEFINE x == worker[w]
<1>1. /\ x.pc = "read" /\ x.gone = {} /\ x.slot = None /\ x.mint \in Mint
      /\ x.op = "sync" /\ x.seen \in Record /\ x \in WorkerRec
  BY AtWork DEF ReadChain, At, Placed, Unslotted
<1>2. PICK tip \in x.seen.cursor..chain[x.mint] :
         LET newest == x.seen.cursor = 0 /\ x.seen.provenance = External /\ tip > 0
             start  == IF newest THEN tip - 1 ELSE x.seen.cursor
         IN \E fresh \in Readable(start, tip) :
               LET cursor == IF fresh = {} THEN x.seen.cursor
                             ELSE CHOOSE n \in fresh : \A k \in fresh : k <= n
               IN worker' = [worker EXCEPT ![w].fresh = fresh, ![w].pc = "verify",
                     ![w].seen = [x.seen EXCEPT !.cursor = cursor,
                                                !.from = IF x.seen.cursor = 0 THEN start ELSE @,
                                                !.behind = cursor < tip]]
  BY DEF ReadChain, MintOf
<1> DEFINE start == IF x.seen.cursor = 0 /\ x.seen.provenance = External /\ tip > 0
                    THEN tip - 1 ELSE x.seen.cursor
<1>3. PICK fresh \in Readable(start, tip) :
         LET cursor == IF fresh = {} THEN x.seen.cursor
                       ELSE CHOOSE n \in fresh : \A k \in fresh : k <= n
         IN worker' = [worker EXCEPT ![w].fresh = fresh, ![w].pc = "verify",
               ![w].seen = [x.seen EXCEPT !.cursor = cursor,
                                          !.from = IF x.seen.cursor = 0 THEN start ELSE @,
                                          !.behind = cursor < tip]]
  BY <1>2
<1> DEFINE c == IF fresh = {} THEN x.seen.cursor
                ELSE CHOOSE n \in fresh : \A k \in fresh : k <= n
           late == c < tip
           f == IF x.seen.cursor = 0 THEN start ELSE x.seen.from
           seen == [x.seen EXCEPT !.cursor = c, !.from = f, !.behind = late]
           y == [x EXCEPT !.fresh = fresh, !.pc = "verify", !.seen = seen]
<1>4. worker' = [worker EXCEPT ![w] = y]
  <2>1. worker' = [worker EXCEPT ![w].fresh = fresh, ![w].pc = "verify", ![w].seen = seen]
    <3>1. x \in WorkerRec /\ worker \in [Worker -> WorkerRec] /\ x.seen \in Record
      BY <1>1 DEF IndexInv, WorkersFit
    <3>2. worker' = [worker EXCEPT ![w].fresh = fresh, ![w].pc = "verify",
                          ![w].seen = [x.seen EXCEPT !.cursor = c,
                                          !.from = IF x.seen.cursor = 0 THEN start ELSE @,
                                          !.behind = late]]
      BY <1>3
    <3>3. [x.seen EXCEPT !.cursor = c, !.from = IF x.seen.cursor = 0 THEN start ELSE @,
                         !.behind = late] = seen
      <4> HIDE DEF start, c, late
      <4> QED BY <3>1 DEF Record
    <3> HIDE DEF start, c, late, seen
    <3> QED BY <3>1, <3>2, <3>3 DEF WorkerRec
  <2>2. worker \in [Worker -> WorkerRec]
    BY DEF IndexInv, WorkersFit
  <2> HIDE DEF seen
  <2> QED BY <2>1, <2>2
<1>5. fresh \subseteq 1..MaxTx /\ c \in 0..MaxTx /\ f \in 0..MaxTx
  <2>1. x.seen.cursor \in 0..MaxTx /\ chain[x.mint] \in 1..MaxTx /\ x.seen.from \in 0..MaxTx
    BY <1>1, RecordTypes DEF IndexInv, StoreOK
  <2>2. tip \in 0..MaxTx /\ start \in 0..MaxTx
    BY <2>1, ConstantTypes
  <2>3. fresh \subseteq 1..MaxTx
        /\ (fresh # {} => (CHOOSE n \in fresh : \A k \in fresh : k <= n) \in 1..MaxTx)
    BY <1>3, <2>2, ReadableHasLast
  <2>4. 1..MaxTx \subseteq 0..MaxTx
    BY ConstantTypes
  <2>5. f \in 0..MaxTx
    BY <2>1, <2>2
  <2> QED BY <2>1, <2>3, <2>4, <2>5
<1>6. seen \in Record
  <2>1. late \in BOOLEAN
    OBVIOUS
  <2> HIDE DEF c, late, f
  <2> QED BY <1>1, <1>5, <2>1, RecordTypes
<1> HIDE DEF seen
<1>7. /\ y \in WorkerRec /\ y.pc = "verify" /\ y.op = x.op /\ y.mint = x.mint
      /\ y.quantum = x.quantum /\ y.bound = x.bound
      /\ y.gone = {} /\ y.slot = None /\ y.seen = seen
  BY <1>1, <1>5, <1>6 DEF WorkerRec, Places
<1>8. Placed(y)
  <2> HIDE DEF y
  <2> QED BY <1>1, <1>6, <1>7 DEF Placed, Unslotted
<1>9. y.op = Op(w) /\ y.mint = MintOf(w) /\ ~At(w, "consume")
  BY <1>1, <1>7 DEF Op, MintOf, At
<1> HIDE DEF y
<1> QED BY <1>1, <1>4, <1>7, <1>8, <1>9, GoesOn DEF Acting

LEMMA ReadStoredMoves ==
    ASSUME IndexInv, NEW w \in Worker, ReadStored(w)
    PROVE  Moved(w)
<1> DEFINE x == worker[w]
<1>1. /\ x.pc = "summary" /\ x.gone = {} /\ x.mint \in Mint /\ x \in WorkerRec
      /\ x.op \in {"register", "track", "sync"} /\ ListFree
      /\ coin[x.mint] \in Record \cup {None} /\ Bound(x)
  BY AtWork DEF ReadStored, At, Placed, IndexInv, StoreOK
<1>2. CASE coin[x.mint] = None /\ Ends(w)
  BY <1>1, <1>2, EndsMoves DEF Serves, IsNative
<1>3. CASE /\ coin[x.mint] # None
           /\ worker' = [worker EXCEPT ![w].seen = coin[x.mint], ![w].pc = "list"]
  <2> DEFINE y == [x EXCEPT !.seen = coin[x.mint], !.pc = "list"]
  <2>1. worker' = [worker EXCEPT ![w] = y]
    BY <1>3 DEF IndexInv, WorkersFit
  <2>2. /\ y \in WorkerRec /\ y.pc = "list" /\ y.op = x.op /\ y.mint = x.mint
        /\ y.quantum = x.quantum /\ y.bound = x.bound
        /\ y.gone = {} /\ y.slot = x.slot /\ y.seen = coin[y.mint] /\ y.seen \in Record
    BY <1>1, <1>3 DEF WorkerRec, Places
  <2> HIDE DEF y
  <2>3. Placed(y)
    BY <1>1, <2>2 DEF Placed, Unslotted
  <2>4. Fits(y)
    BY <1>1, <2>2, <2>3 DEF Fits, Bound, Owner, Acting
  <2>5. \A m \in Mint : IsNative(m) /\ Serves(x, m) => Serves(y, m)
    BY <1>1, <2>2 DEF Serves, IsNative, Summary, Native, External
  <2> QED BY <1>1, <2>1, <2>2, <2>4, <2>5 DEF Moved, Unbooked
<1> QED BY <1>2, <1>3 DEF ReadStored, Summarized, MintOf

LEMMA ForgetMoves ==
    ASSUME IndexInv, NEW w \in Worker, NEW m \in Mint, Forget(w, m)
    PROVE  Moved(w)
<1> DEFINE x == worker[w]
<1>1. /\ x.pc = "forget" /\ x.gone = {} /\ x.mint \in Mint /\ x \in WorkerRec
      /\ x.op \in {"register", "track", "sync"} /\ (x.op = "sync" => x.seen \in Record)
      /\ Bound(x)
  BY AtWork DEF Forget, At, Placed
<1>2. PICK g \in {{}, {m}}, pc \in {"forget", "delete"} :
         /\ worker' = [worker EXCEPT ![w].todo = @ \ {m}, ![w].gone = g, ![w].pc = pc]
         /\ pc = "forget" => g = {}
         /\ pc = "delete" => ~IsNative(m)
  BY DEF Forget, Forgettable
<1> DEFINE y == [x EXCEPT !.todo = @ \ {m}, !.gone = g, !.pc = pc]
<1>3. worker' = [worker EXCEPT ![w] = y]
  BY <1>2 DEF IndexInv, WorkersFit
<1>4. y \in WorkerRec
  <2>1. pc \in Places /\ g \in SUBSET Mint
    BY DEF Places
  <2> QED BY <1>1, <2>1 DEF WorkerRec
<1>5. /\ y.pc = pc /\ y.op = x.op /\ y.mint = x.mint
      /\ y.quantum = x.quantum /\ y.bound = x.bound /\ y.gone = g /\ y.seen = x.seen
  BY <1>1 DEF WorkerRec
<1> HIDE DEF y
<1>6. Placed(y)
  BY <1>1, <1>2, <1>4, <1>5 DEF Placed, Unslotted
<1>7. Fits(y)
  BY <1>1, <1>2, <1>5, <1>6 DEF Fits, Bound, Owner, Acting
<1> QED BY <1>1, <1>3, <1>5, <1>7 DEF Moved, Serves, Unbooked

LEMMA ForgottenMoves ==
    ASSUME IndexInv, NEW w \in Worker, Forgotten(w)
    PROVE  Moved(w)
BY EndsMoves DEF Forgotten, At, Serves

-----------------------------------------------------------------------------
(* The steps that change the store.                                        *)

LEMMA AllFit ==
    ASSUME IndexInv, NEW w \in Worker, NEW y, Fits(y)', worker' = [worker EXCEPT ![w] = y],
           BindingsKept,
           dropped \subseteq dropped',
           \A v \in Worker \ {w} : At(v, "delete") => \A m \in worker[v].gone : ~IsNative(m)'
    PROVE  WorkersFit'
<1>1. /\ worker' \in [Worker -> WorkerRec]
      /\ worker'[w] = y /\ \A v \in Worker \ {w} : worker'[v] = worker[v]
  BY OneMoves DEF Fits
<1>2. Fits(worker[w])'
  BY <1>1 DEF Fits, Bound, Owner, IsNative
<1>3. ASSUME NEW v \in Worker \ {w}
      PROVE  Fits(worker[v])'
  <2>1. PICK x : x = worker[v]
    OBVIOUS
  <2>2. Fits(x)
    BY <2>1, AtWork
  <2>3. x.pc = "delete" => \A m \in x.gone : ~IsNative(m)'
    BY <2>1 DEF At
  <2>4. Fits(x)'
    BY <2>2, <2>3, StillFits
  <2>5. x = worker'[v]
    BY <1>1, <2>1
  <2> QED BY <2>4, <2>5 DEF Fits, Bound, Owner, IsNative
<1> QED BY <1>1, <1>2, <1>3 DEF WorkersFit

LEMMA ServedFrame ==
    ASSUME IndexInv, NEW w \in Worker, \A v \in Worker \ {w} : worker'[v] = worker[v],
           faults' = 0 => faults = 0, dropped \subseteq dropped',
           \A m \in Mint \ dropped' : IsNative(m)' =>
              /\ IsNative(m)
              /\ listed[m] = "native" => listed'[m] = "native"
              /\ worker'[w].pc = "list" /\ worker'[w].mint = m
                    => Summary(worker'[w].seen) = "native"
              /\ Serves(worker[w], m) => Serves(worker'[w], m)
    PROVE  LaunchesServed'
<1> SUFFICES ASSUME faults' = 0, NEW m \in Mint \ dropped', IsNative(m)'
             PROVE  Served(m)'
  BY DEF LaunchesServed
<1>1. Served(m) /\ IsNative(m)
  BY DEF IndexInv, LaunchesServed
<1> QED BY <1>1, StillServed

LEMMA ClaimUriKeeps ==
    ASSUME IndexInv, NEW w \in Worker, ClaimUri(w)
    PROVE  IndexInv'
<1>1. PICK x : x = worker[w]
  OBVIOUS
<1>2. /\ x.pc = "claim" /\ x.op = "register" /\ x.gone = {} /\ x.slot = None /\ x.mint \in Mint
      /\ x \in WorkerRec /\ Placed(x)
  BY <1>1, AtWork DEF ClaimUri, At, Placed, Unslotted
<1>3. StoreOK'
  <2>1. claim' \in [Uri -> Mint \cup {None}]
    BY <1>1, <1>2 DEF ClaimUri, IndexInv, StoreOK, MintOf
  <2> QED BY <2>1 DEF ClaimUri, IndexInv, StoreOK, world, history
<1>4. CASE UNCHANGED claim /\ Ends(w)
  <2>1. Moved(w)
    BY <1>1, <1>2, <1>4, EndsMoves DEF Serves
  <2> QED BY <1>3, <1>4, <2>1, PlainMove DEF ClaimUri
<1>5. CASE ~(UNCHANGED claim /\ Ends(w))
  <2>0. PICK k \in 0..MaxLapses :
           /\ UriOf[x.mint] \in Uri /\ k = Binding(UriOf[x.mint])
           /\ Owner(UriOf[x.mint], k)' = claim'[UriOf[x.mint]]
    <3>1. UriOf[x.mint] \in Uri
      BY <1>2, ConstantTypes
    <3>2. PICK k : k = Binding(UriOf[x.mint])
      OBVIOUS
    <3>3. lapsed' = lapsed /\ k \in 0..MaxLapses
      BY <3>1, <3>2, BindingIs DEF ClaimUri, history
    <3>4. Owner(UriOf[x.mint], k)' = claim'[UriOf[x.mint]]
      BY <3>2, <3>3 DEF Owner, Binding
    <3> QED BY <3>1, <3>2, <3>3, <3>4
  <2>1. PICK b \in (0..MaxLapses) \cup {None} :
           /\ worker' = [worker EXCEPT ![w].bound = b, ![w].pc = "admit"]
           /\ b # None => Owner(UriOf[x.mint], b)' = x.mint
           /\ x.quantum \/ b # None
    <3>1. CASE ClaimFree(UriOf[x.mint])
      <4>1. worker' = [worker EXCEPT ![w].bound = k, ![w].pc = "admit"]
            /\ claim' = [claim EXCEPT ![UriOf[x.mint]] = x.mint]
        BY <1>1, <2>0, <3>1 DEF ClaimUri, MintOf
      <4>2. claim'[UriOf[x.mint]] = x.mint
        BY <2>0, <4>1 DEF IndexInv, StoreOK
      <4> QED BY <2>0, <4>1, <4>2, NoneIsNot
    <3>2. CASE ~ClaimFree(UriOf[x.mint])
      <4>1. /\ claim' = claim /\ (claim[UriOf[x.mint]] = x.mint \/ x.quantum)
            /\ worker' = [worker EXCEPT ![w].pc = "admit",
                   ![w].bound = IF claim[UriOf[x.mint]] = x.mint THEN k ELSE None]
        BY <1>1, <1>5, <2>0, <3>2 DEF ClaimUri, MintOf
      <4>2. PICK b : b = IF claim[UriOf[x.mint]] = x.mint THEN k ELSE None
        OBVIOUS
      <4>3. worker' = [worker EXCEPT ![w].bound = b, ![w].pc = "admit"]
        BY <4>1, <4>2
      <4> QED BY <2>0, <4>1, <4>2, <4>3, NoneIsNot
    <3> QED BY <3>1, <3>2
  <2>2. PICK y : y = [x EXCEPT !.bound = b, !.pc = "admit"]
    OBVIOUS
  <2>3. worker' = [worker EXCEPT ![w] = y]
    BY <1>1, <2>1, <2>2 DEF IndexInv, WorkersFit
  <2>4. /\ y \in WorkerRec /\ y.pc = "admit" /\ y.op = "register" /\ y.mint = x.mint
        /\ y.quantum = x.quantum /\ y.bound = b /\ y.gone = {} /\ y.slot = None
    BY <1>2, <2>2, ZenonT(60) DEF WorkerRec, Places
  <2>5. Placed(y)
    BY <1>2, <2>4 DEF Placed
  <2>6. Fits(y)'
    BY <1>2, <2>1, <2>4, <2>5 DEF Fits, Bound, Owner
  <2>7. BindingsKept
    <3>1. \A u \in Uri : claim[u] # None => claim'[u] = claim[u]
      BY DEF ClaimUri, ClaimFree, IndexInv, StoreOK
    <3>2. lapsed' = lapsed
      BY DEF ClaimUri, history
    <3> QED BY <3>1, <3>2 DEF BindingsKept, Owner
  <2>8. UNCHANGED <<coin, listed, slots, history, faults>>
    BY DEF ClaimUri
  <2>9. /\ worker' \in [Worker -> WorkerRec]
        /\ worker'[w] = y /\ \A v \in Worker \ {w} : worker'[v] = worker[v]
    BY <2>3, <2>5, OneMoves
  <2>10. WorkersFit'
    <3>1. \A v \in Worker \ {w} : At(v, "delete") => \A m \in worker[v].gone : ~IsNative(m)'
      BY <2>8, AtWork DEF At, Fits, IsNative
    <3> QED BY <2>3, <2>6, <2>7, <2>8, <3>1, AllFit DEF history
  <2>11. UrisKept'
    <3>1. byUri' = byUri /\ byUri \subseteq Mint \X (0..MaxLapses)
      BY <2>8 DEF IndexInv, StoreOK, history
    <3> QED BY <2>7, <3>1, ConstantTypes, NoneIsNot DEF UrisKept, BindingsKept, IndexInv
  <2>12. SlotsKept'
    <3>1. \A d \in 0..MaxDay : Cardinality(Holders(d)') <= Cardinality(Holders(d))
      BY <2>4, <2>9, HoldersShrink
    <3>2. faults' \in Nat /\ faults <= faults'
      BY <2>8 DEF IndexInv, StoreOK
    <3> QED BY <2>8, <3>1, <3>2, SlotsKeptFrame DEF history
  <2>13. OneLists'
    BY <2>4, <2>9, OneListsFrame
  <2>14. LaunchesServed'
    <3>1. \A m \in Mint : IsNative(m)' => IsNative(m)
      BY <2>8 DEF IsNative
    <3>2. \A m \in Mint : ~Serves(worker[w], m)
      BY <1>1, <1>2 DEF Serves
    <3> QED BY <2>4, <2>8, <2>9, <3>1, <3>2, ServedFrame DEF history
  <2> QED BY <1>3, <2>10, <2>11, <2>12, <2>13, <2>14 DEF IndexInv
<1> QED BY <1>4, <1>5

LEMMA EvictKeeps ==
    ASSUME IndexInv, NEW w \in Worker, NEW m \in Mint, Evict(w, m)
    PROVE  IndexInv'
<1>1. PICK x : x = worker[w]
  OBVIOUS
<1>2. /\ x.pc = "evict" /\ x.slot = None /\ x.mint \in Mint /\ x \in WorkerRec /\ Placed(x)
      /\ x.gone \subseteq dropped /\ Bound(x) /\ x.gone \in SUBSET Mint
  BY <1>1, AtWork DEF Evict, At, Placed, Unslotted, Fits, WorkerRec
<1>3. /\ \A n \in Mint : IsNative(n)' => IsNative(n) /\ coin'[n] = coin[n]
      /\ \A n \in Mint : coin'[n] = coin[n] \/ coin'[n] = None
      /\ dropped \subseteq dropped'
  BY DEF Evict, IsNative, IndexInv, StoreOK
<1>4. StoreOK'
  <2>1. coin' \in [Mint -> Record \cup {None}] /\ trades' \in [Mint -> SUBSET (1..MaxTx)]
        /\ dropped' \subseteq Mint
    BY DEF Evict, IndexInv, StoreOK
  <2> QED BY <2>1 DEF Evict, IndexInv, StoreOK, world
<1>5. PICK g \in SUBSET dropped' : worker' = [worker EXCEPT ![w].todo = @ \ {m}, ![w].gone = g]
  <2>1. CASE worker' = [worker EXCEPT ![w].todo = @ \ {m}]
    <3>1. worker' = [worker EXCEPT ![w].todo = @ \ {m}, ![w].gone = x.gone]
      BY <1>1, <1>2, <2>1 DEF IndexInv, WorkersFit, WorkerRec
    <3> QED BY <1>2, <1>3, <3>1
  <2>2. CASE /\ worker' = [worker EXCEPT ![w].todo = @ \ {m}, ![w].gone = @ \cup {m}]
             /\ dropped' = dropped \cup {m}
    <3>1. worker' = [worker EXCEPT ![w].todo = @ \ {m}, ![w].gone = x.gone \cup {m}]
      BY <1>1, <2>2
    <3> QED BY <1>2, <2>2, <3>1
  <2> QED BY <2>1, <2>2 DEF Evict
<1>6. PICK y : y = [x EXCEPT !.todo = @ \ {m}, !.gone = g]
  OBVIOUS
<1>7. worker' = [worker EXCEPT ![w] = y]
  BY <1>1, <1>5, <1>6 DEF IndexInv, WorkersFit
<1>8. /\ y \in WorkerRec /\ y.pc = "evict" /\ y.op = x.op /\ y.mint = x.mint /\ y.bound = x.bound
      /\ y.quantum = x.quantum /\ y.gone = g /\ y.slot = None /\ y.seen = x.seen
  <2>1. g \in SUBSET Mint
    BY <1>4 DEF StoreOK
  <2> QED BY <1>2, <1>6, <2>1 DEF WorkerRec
<1>9. Placed(y)
  BY <1>2, <1>8 DEF Placed
<1>10. /\ worker' \in [Worker -> WorkerRec]
       /\ worker'[w] = y /\ \A v \in Worker \ {w} : worker'[v] = worker[v]
  BY <1>7, <1>9, OneMoves
<1>11. UNCHANGED <<listed, claim, slots, made, lapsed, byUri, faults>>
  BY DEF Evict
<1>12. WorkersFit'
  <2>1. Fits(y)'
    BY <1>2, <1>8, <1>9, <1>11 DEF Fits, Bound, Owner, Acting
  <2>2. \A v \in Worker \ {w} : At(v, "delete") => \A n \in worker[v].gone : ~IsNative(n)'
    BY <1>3, AtWork DEF At, Fits, WorkerRec
  <2> QED BY <1>3, <1>7, <1>11, <2>1, <2>2, AllFit, BindingsSame
<1>13. UrisKept'
  BY <1>3, <1>11 DEF UrisKept, Owner, IndexInv
<1>14. SlotsKept'
  <2>1. \A d \in 0..MaxDay : Cardinality(Holders(d)') <= Cardinality(Holders(d))
    BY <1>8, <1>10, HoldersShrink
  <2>2. faults' \in Nat /\ faults <= faults'
    BY <1>11 DEF IndexInv, StoreOK
  <2> QED BY <1>11, <2>1, <2>2, SlotsKeptFrame
<1>15. OneLists'
  BY <1>8, <1>10, OneListsFrame
<1>16. LaunchesServed'
  <2>1. \A n \in Mint : ~Serves(worker[w], n)
    BY <1>1, <1>2 DEF Serves
  <2> QED BY <1>3, <1>8, <1>10, <1>11, <2>1, ServedFrame
<1> QED BY <1>4, <1>12, <1>13, <1>14, <1>15, <1>16 DEF IndexInv

LEMMA HoldersChange ==
    ASSUME NEW w \in Worker, \A v \in Worker \ {w} : worker'[v] = worker[v],
           NEW d \in 0..MaxDay
    PROVE  /\ Cardinality(Holders(d)') <= Cardinality(Holders(d)) + 1
           /\ w \in Holders(d) /\ ~(w \in Holders(d))'
                => Cardinality(Holders(d)') + 1 <= Cardinality(Holders(d))
<1> DEFINE H == Holders(d)
<1>1. IsFiniteSet(H) /\ Cardinality(H) \in Nat /\ Cardinality(Holders(d)') \in Nat
  BY HoldersBound
<1>2. Holders(d)' \subseteq H \cup {w}
  BY DEF Holders
<1>3. /\ IsFiniteSet(H \cup {w})
      /\ Cardinality(H \cup {w}) = IF w \in H THEN Cardinality(H) ELSE Cardinality(H) + 1
  BY <1>1, FS_AddElement
<1>4. Cardinality(Holders(d)') <= Cardinality(H \cup {w})
  BY <1>2, <1>3, FS_Subset
<1>5. ASSUME w \in H, ~(w \in Holders(d))'
      PROVE  Cardinality(Holders(d)') + 1 <= Cardinality(H)
  <2>1. Holders(d)' \subseteq H \ {w}
    BY <1>5 DEF Holders
  <2>2. IsFiniteSet(H \ {w}) /\ Cardinality(H \ {w}) = Cardinality(H) - 1
    BY <1>1, <1>5, FS_RemoveElement
  <2>3. Cardinality(Holders(d)') <= Cardinality(H \ {w})
    BY <2>1, <2>2, FS_Subset
  <2> HIDE DEF H
  <2> QED BY <1>1, <2>2, <2>3
<1>6. Cardinality(Holders(d)') <= Cardinality(H) + 1
  <2> HIDE DEF H
  <2> QED BY <1>1, <1>3, <1>4
<1> QED BY <1>5, <1>6

LEMMA UnlistKeeps ==
    ASSUME IndexInv, NEW w \in Worker, Unlist(w)
    PROVE  IndexInv'
<1>1. PICK x : x = worker[w]
  OBVIOUS
<1>2. /\ x.pc = "evict" /\ x.slot = None /\ x.mint \in Mint /\ x \in WorkerRec /\ Placed(x)
      /\ x.gone \subseteq dropped /\ Bound(x)
  BY <1>1, AtWork DEF Unlist, At, Placed, Unslotted, Fits
<1>3. PICK y : y = [x EXCEPT !.gone = {}, !.pc = "recount"]
  OBVIOUS
<1>4. worker' = [worker EXCEPT ![w] = y]
  BY <1>1, <1>3 DEF Unlist, IndexInv, WorkersFit
<1>5. /\ y \in WorkerRec /\ y.pc = "recount" /\ y.op = x.op /\ y.mint = x.mint /\ y.bound = x.bound
      /\ y.quantum = x.quantum /\ y.gone = {} /\ y.slot = None /\ y.seen = x.seen
  <2> DEFINE left == [x EXCEPT !.gone = {}]
  <2>1. left \in WorkerRec
    BY <1>2 DEF WorkerRec
  <2>2. y = [left EXCEPT !.pc = "recount"]
    BY <1>3
  <2> HIDE DEF left
  <2>3. y \in WorkerRec
    BY <2>1, <2>2 DEF WorkerRec, Places
  <2>4. /\ y.pc = "recount" /\ y.op = x.op /\ y.mint = x.mint /\ y.bound = x.bound
        /\ y.quantum = x.quantum /\ y.gone = {} /\ y.slot = None /\ y.seen = x.seen
    BY <1>2, <1>3 DEF WorkerRec
  <2> QED BY <2>3, <2>4
<1>6. Placed(y)
  BY <1>2, <1>5 DEF Placed, Unslotted
<1>7. /\ worker' \in [Worker -> WorkerRec]
      /\ worker'[w] = y /\ \A v \in Worker \ {w} : worker'[v] = worker[v]
  BY <1>4, <1>6, OneMoves
<1>8. UNCHANGED <<coin, claim, slots, history, faults>>
  BY DEF Unlist
<1>9. StoreOK'
  <2>1. listed' \in [Mint -> {External, "native", None}]
    BY DEF Unlist, IndexInv, StoreOK
  <2> QED BY <2>1 DEF Unlist, IndexInv, StoreOK, world, history
<1>10. WorkersFit'
  <2>1. Fits(y)'
    BY <1>2, <1>5, <1>6, <1>8 DEF Fits, Bound, Owner, Acting, history
  <2>2. \A v \in Worker \ {w} : At(v, "delete") => \A n \in worker[v].gone : ~IsNative(n)'
    BY <1>8, AtWork DEF At, Fits, WorkerRec, IsNative
  <2> QED BY <1>4, <1>8, <2>1, <2>2, AllFit, BindingsSame DEF history
<1>11. UrisKept'
  BY <1>8 DEF UrisKept, Owner, IndexInv, history
<1>12. SlotsKept'
  <2>1. \A d \in 0..MaxDay : Cardinality(Holders(d)') <= Cardinality(Holders(d))
    BY <1>5, <1>7, HoldersShrink
  <2>2. faults' \in Nat /\ faults <= faults'
    BY <1>8 DEF IndexInv, StoreOK
  <2> QED BY <1>8, <2>1, <2>2, SlotsKeptFrame DEF history
<1>13. OneLists'
  BY <1>5, <1>7, OneListsFrame
<1>14. LaunchesServed'
  <2>1. \A n \in Mint : ~Serves(worker[w], n)
    BY <1>1, <1>2 DEF Serves
  <2>2. \A n \in Mint \ dropped : listed'[n] = listed[n]
    BY <1>1, <1>2 DEF Unlist
  <2>3. \A n \in Mint : IsNative(n)' => IsNative(n)
    BY <1>8 DEF IsNative
  <2> QED BY <1>5, <1>7, <1>8, <2>1, <2>2, <2>3, ServedFrame DEF history
<1> QED BY <1>9, <1>10, <1>11, <1>12, <1>13, <1>14 DEF IndexInv

LEMMA TakeSlotKeeps ==
    ASSUME IndexInv, NEW w \in Worker, TakeSlot(w)
    PROVE  IndexInv'
<1>1. PICK x : x = worker[w]
  OBVIOUS
<1>2. /\ x.pc = "slot" /\ x.slot = None /\ x.gone = {} /\ x.mint \in Mint /\ x \in WorkerRec
      /\ Placed(x) /\ Bound(x)
  BY <1>1, AtWork DEF TakeSlot, At, Placed, Unslotted
<1>3. UNCHANGED <<coin, listed, claim, history, faults>>
  BY DEF TakeSlot
<1>4. day \in 0..MaxDay /\ slots[day] \in 0..launchesPerWallet
  BY DEF IndexInv, StoreOK
<1>5. CASE UNCHANGED slots /\ Refused(w)
  <2>1. Moved(w)
    BY <1>1, <1>2, <1>5, RefusedMoves
  <2>2. StoreOK'
    BY <1>5 DEF TakeSlot, IndexInv, StoreOK, world, history
  <2> QED BY <1>3, <1>5, <2>1, <2>2, PlainMove
<1>6. CASE /\ SlotLeft /\ slots' = [slots EXCEPT ![day] = @ + 1]
           /\ worker' = [worker EXCEPT ![w].admitted = TRUE, ![w].slot = day, ![w].pc = "write"]
  <2>1. PICK y : y = [x EXCEPT !.admitted = TRUE, !.slot = day, !.pc = "write"]
    OBVIOUS
  <2>2. worker' = [worker EXCEPT ![w] = y]
    BY <1>1, <1>6, <2>1 DEF IndexInv, WorkersFit
  <2>3. /\ y \in WorkerRec /\ y.pc = "write" /\ y.op = x.op /\ y.mint = x.mint
        /\ y.bound = x.bound /\ y.quantum = x.quantum /\ y.gone = {} /\ y.slot = day
        /\ y.seen = x.seen
    <3>1. day \in (0..MaxDay) \cup {None} /\ "write" \in Places /\ TRUE \in BOOLEAN
      BY <1>4 DEF Places
    <3>2. y \in WorkerRec
      <4> DEFINE held == [x EXCEPT !.admitted = TRUE, !.slot = day]
      <4>1. held \in WorkerRec
        BY <1>2, <3>1 DEF WorkerRec
      <4>2. y = [held EXCEPT !.pc = "write"]
        BY <2>1
      <4> HIDE DEF held
      <4> QED BY <3>1, <4>1, <4>2 DEF WorkerRec
    <3>3. /\ y.pc = "write" /\ y.op = x.op /\ y.mint = x.mint /\ y.bound = x.bound
          /\ y.quantum = x.quantum /\ y.gone = {} /\ y.slot = day /\ y.seen = x.seen
      BY <1>2, <2>1 DEF WorkerRec
    <3> QED BY <3>2, <3>3
  <2>4. Placed(y)
    BY <1>2, <2>3 DEF Placed, Unslotted
  <2>5. /\ worker' \in [Worker -> WorkerRec]
        /\ worker'[w] = y /\ \A v \in Worker \ {w} : worker'[v] = worker[v]
    BY <2>2, <2>4, OneMoves
  <2>6. slots' \in [0..MaxDay -> 0..launchesPerWallet]
    <3>1. slots[day] + 1 \in 0..launchesPerWallet
      BY <1>4, <1>6, ConstantTypes DEF SlotLeft
    <3> QED BY <1>6, <3>1 DEF IndexInv, StoreOK
  <2>7. StoreOK'
    BY <2>6 DEF TakeSlot, IndexInv, StoreOK, world, history
  <2>8. WorkersFit'
    <3>1. Fits(y)'
      BY <1>2, <1>3, <2>3, <2>4 DEF Fits, Bound, Owner, Acting, history
    <3>2. \A v \in Worker \ {w} : At(v, "delete") => \A n \in worker[v].gone : ~IsNative(n)'
      BY <1>3, AtWork DEF At, Fits, WorkerRec, IsNative
    <3> QED BY <1>3, <2>2, <3>1, <3>2, AllFit, BindingsSame DEF history
  <2>9. UrisKept'
    BY <1>3 DEF UrisKept, Owner, IndexInv, history
  <2>10. SlotsKept'
    <3> SUFFICES ASSUME NEW d \in 0..MaxDay
                 PROVE  Cardinality(MadeOn(d)') + Cardinality(Holders(d)') <= slots'[d] + faults'
      BY DEF SlotsKept
    <3>1. MadeOn(d)' = MadeOn(d)
      BY <1>3 DEF MadeOn, history
    <3>2. Cardinality(MadeOn(d)) + Cardinality(Holders(d)) <= slots[d] + faults
      BY DEF IndexInv, SlotsKept
    <3>3. faults \in Nat /\ slots[d] \in Nat /\ faults' = faults
      BY <1>3, SlotNumbers
    <3>4. CASE d = day
      <4>1. slots'[d] = slots[d] + 1
        BY <1>6, <3>4 DEF IndexInv, StoreOK
      <4>2. Cardinality(Holders(d)') <= Cardinality(Holders(d)) + 1
        BY <2>5, HoldersChange
      <4> QED BY <3>1, <3>2, <3>3, <4>1, <4>2, HoldersBound
    <3>5. CASE d # day
      <4>1. slots'[d] = slots[d]
        BY <1>6, <3>5 DEF IndexInv, StoreOK
      <4>2. Holders(d)' = Holders(d)
        BY <1>1, <1>2, <2>3, <2>5, <3>5 DEF Holders, Unbooked
      <4> QED BY <3>1, <3>2, <3>3, <4>1, <4>2, HoldersBound
    <3> QED BY <3>4, <3>5
  <2>11. OneLists'
    BY <2>3, <2>5, OneListsFrame
  <2>12. LaunchesServed'
    <3>1. \A n \in Mint : ~Serves(worker[w], n)
      BY <1>1, <1>2 DEF Serves
    <3>2. \A n \in Mint : IsNative(n)' => IsNative(n)
      BY <1>3 DEF IsNative
    <3> QED BY <1>3, <2>3, <2>5, <3>1, <3>2, ServedFrame DEF history
  <2> QED BY <2>7, <2>8, <2>9, <2>10, <2>11, <2>12 DEF IndexInv
<1> QED BY <1>5, <1>6 DEF TakeSlot

LEMMA RefundKeeps ==
    ASSUME IndexInv, NEW w \in Worker, Refund(w)
    PROVE  IndexInv'
<1>1. PICK x : x = worker[w]
  OBVIOUS
<1>2. /\ x.pc \in {"refund", "giveback"} /\ x.slot # None /\ x.gone = {} /\ x.mint \in Mint
      /\ x \in WorkerRec /\ Placed(x) /\ Bound(x) /\ x.slot \in 0..MaxDay
  BY <1>1, AtWork DEF Refund, At, Placed, WorkerRec
<1>3. UNCHANGED <<coin, listed, claim, history, faults>>
  BY DEF Refund
<1>4. slots' = [slots EXCEPT ![x.slot] = IF @ > 0 THEN @ - 1 ELSE 0]
  BY <1>1 DEF Refund
<1>5. PICK y : /\ Fits(y) /\ worker' = [worker EXCEPT ![w] = y]
               /\ y.pc \in {"idle", "consume", "summary"}
  <2>1. CASE Ends(w)
    BY <2>1, IdleFits DEF Ends
  <2>2. ASSUME NEW pc \in {"consume", "summary"}, Goes(w, pc), pc = "consume" => Op(w) = "register"
        PROVE  \E y : /\ Fits(y) /\ worker' = [worker EXCEPT ![w] = y]
                      /\ y.pc \in {"idle", "consume", "summary"}
    <3>1. PICK y : y = [x EXCEPT !.pc = pc]
      OBVIOUS
    <3>2. worker' = [worker EXCEPT ![w] = y]
      BY <1>1, <2>2, <3>1 DEF Goes, IndexInv, WorkersFit
    <3>3. /\ y \in WorkerRec /\ y.pc = pc /\ y.op = x.op /\ y.mint = x.mint
          /\ y.bound = x.bound /\ y.quantum = x.quantum /\ y.gone = {} /\ y.slot = x.slot
          /\ y.seen = x.seen
      BY <1>2, <3>1 DEF WorkerRec, Places
    <3>4. x.op = Op(w)
      BY <1>1 DEF Op
    <3>5. Placed(y)
      BY <1>2, <2>2, <3>3, <3>4 DEF Placed, Unslotted
    <3>6. Fits(y)
      BY <1>2, <3>3, <3>5 DEF Fits, Bound, Owner, Acting
    <3> QED BY <3>2, <3>3, <3>6
  <2> QED BY <2>1, <2>2 DEF Refund
<1>6. /\ worker' \in [Worker -> WorkerRec]
      /\ worker'[w] = y /\ \A v \in Worker \ {w} : worker'[v] = worker[v]
  BY <1>5, OneMoves DEF Fits
<1>7. slots' \in [0..MaxDay -> 0..launchesPerWallet]
  <2>1. slots[x.slot] \in 0..launchesPerWallet
    BY <1>2 DEF IndexInv, StoreOK
  <2>2. (IF slots[x.slot] > 0 THEN slots[x.slot] - 1 ELSE 0) \in 0..launchesPerWallet
    BY <2>1, ConstantTypes
  <2> QED BY <1>2, <1>4, <2>2 DEF IndexInv, StoreOK
<1>8. StoreOK'
  BY <1>7 DEF Refund, IndexInv, StoreOK, world, history
<1>9. WorkersFit'
  <2>1. Fits(y)'
    BY <1>3, <1>5 DEF Fits, Bound, Owner, IsNative, history
  <2>2. \A v \in Worker \ {w} : At(v, "delete") => \A n \in worker[v].gone : ~IsNative(n)'
    BY <1>3, AtWork DEF At, Fits, WorkerRec, IsNative
  <2> QED BY <1>3, <1>5, <2>1, <2>2, AllFit, BindingsSame DEF history
<1>10. UrisKept'
  BY <1>3 DEF UrisKept, Owner, IndexInv, history
<1>11. SlotsKept'
  <2> SUFFICES ASSUME NEW d \in 0..MaxDay
               PROVE  Cardinality(MadeOn(d)') + Cardinality(Holders(d)') <= slots'[d] + faults'
    BY DEF SlotsKept
  <2>1. MadeOn(d)' = MadeOn(d)
    BY <1>3 DEF MadeOn, history
  <2>2. Cardinality(MadeOn(d)) + Cardinality(Holders(d)) <= slots[d] + faults
    BY DEF IndexInv, SlotsKept
  <2>3. faults \in Nat /\ slots[d] \in Nat /\ faults' = faults
    BY <1>3, SlotNumbers
  <2>4. CASE d = x.slot
    <3>1. slots'[d] >= slots[d] - 1 /\ slots'[d] \in Nat
      BY <1>4, <2>3, <2>4 DEF IndexInv, StoreOK
    <3>2. w \in Holders(d) /\ ~(w \in Holders(d))'
      BY <1>1, <1>2, <1>5, <1>6, <2>4 DEF Holders, Unbooked
    <3>3. Cardinality(Holders(d)') + 1 <= Cardinality(Holders(d))
      BY <1>6, <3>2, HoldersChange
    <3> QED BY <2>1, <2>2, <2>3, <3>1, <3>3, HoldersBound
  <2>5. CASE d # x.slot
    <3>1. slots'[d] = slots[d]
      BY <1>4, <2>5 DEF IndexInv, StoreOK
    <3>2. Cardinality(Holders(d)') <= Cardinality(Holders(d))
      BY <1>5, <1>6, HoldersShrink DEF Unbooked
    <3> QED BY <2>1, <2>2, <2>3, <3>1, <3>2, HoldersBound
  <2> QED BY <2>4, <2>5
<1>12. OneLists'
  BY <1>5, <1>6, OneListsFrame
<1>13. LaunchesServed'
  <2>1. \A n \in Mint : ~Serves(worker[w], n)
    BY <1>1, <1>2 DEF Serves
  <2>2. \A n \in Mint : IsNative(n)' => IsNative(n)
    BY <1>3 DEF IsNative
  <2> QED BY <1>3, <1>5, <1>6, <2>1, <2>2, ServedFrame DEF history
<1> QED BY <1>8, <1>9, <1>10, <1>11, <1>12, <1>13 DEF IndexInv

LEMMA SaveSummaryKeeps ==
    ASSUME IndexInv, NEW w \in Worker, SaveSummary(w)
    PROVE  IndexInv'
<1>1. PICK x : x = worker[w]
  OBVIOUS
<1>2. /\ x.pc = "list" /\ x.gone = {} /\ x.mint \in Mint /\ x \in WorkerRec /\ x.seen \in Record
      /\ Placed(x) /\ Bound(x) /\ x.op \in {"register", "track", "sync"}
  BY <1>1, AtWork DEF SaveSummary, At, Placed
<1>3. UNCHANGED <<coin, claim, slots, history, faults>>
  BY DEF SaveSummary
<1>4. /\ listed' \in [Mint -> {External, "native", None}]
      /\ listed'[x.mint] = Summary(x.seen)
      /\ \A n \in Mint \ {x.mint} : listed[n] = "native" => listed'[n] = "native"
  <2>1. CASE listed[x.mint] = Summary(x.seen) /\ UNCHANGED listed
    BY <1>2, <2>1 DEF IndexInv, StoreOK
  <2>2. CASE \E drop \in Drops(x.mint, Summary(x.seen)) :
               listed' = [n \in Mint |-> IF n = x.mint THEN Summary(x.seen)
                                         ELSE IF n \in drop THEN None ELSE listed[n]]
    <3>1. PICK drop \in Drops(x.mint, Summary(x.seen)) :
               listed' = [n \in Mint |-> IF n = x.mint THEN Summary(x.seen)
                                         ELSE IF n \in drop THEN None ELSE listed[n]]
      BY <2>2
    <3>2. \A n \in drop : listed[n] = External
      BY <3>1 DEF Drops
    <3> QED BY <1>2, <3>1, <3>2 DEF IndexInv, StoreOK, Summary, External
  <2> QED BY <1>1, <2>1, <2>2 DEF SaveSummary, MintOf
<1>5. PICK y : /\ Fits(y) /\ worker' = [worker EXCEPT ![w] = y]
               /\ y.pc \in {"idle", "forget"}
  <2>1. CASE Ends(w)
    BY <2>1, IdleFits DEF Ends
  <2>2. CASE ~Ends(w)
    <3>1. PICK drop \in SUBSET Mint :
             worker' = [worker EXCEPT ![w].todo = drop, ![w].pc = "forget"]
      BY <2>2 DEF SaveSummary, Drops
    <3>2. PICK y : y = [x EXCEPT !.todo = drop, !.pc = "forget"]
      OBVIOUS
    <3>3. worker' = [worker EXCEPT ![w] = y]
      BY <1>1, <3>1, <3>2 DEF IndexInv, WorkersFit
    <3>4. /\ y \in WorkerRec /\ y.pc = "forget" /\ y.op = x.op /\ y.mint = x.mint
          /\ y.bound = x.bound /\ y.quantum = x.quantum /\ y.gone = {} /\ y.slot = x.slot
          /\ y.seen = x.seen
      BY <1>2, <3>2 DEF WorkerRec, Places
    <3>5. Placed(y)
      BY <1>2, <3>4 DEF Placed, Unslotted
    <3>6. Fits(y)
      BY <1>2, <3>4, <3>5 DEF Fits, Bound, Owner, Acting
    <3> QED BY <3>3, <3>4, <3>6
  <2> QED BY <2>1, <2>2
<1>6. /\ worker' \in [Worker -> WorkerRec]
      /\ worker'[w] = y /\ \A v \in Worker \ {w} : worker'[v] = worker[v]
  BY <1>5, OneMoves DEF Fits
<1>7. StoreOK'
  BY <1>4 DEF SaveSummary, IndexInv, StoreOK, world, history
<1>8. WorkersFit'
  <2>1. Fits(y)'
    BY <1>3, <1>5 DEF Fits, Bound, Owner, IsNative, history
  <2>2. \A v \in Worker \ {w} : At(v, "delete") => \A n \in worker[v].gone : ~IsNative(n)'
    BY <1>3, AtWork DEF At, Fits, WorkerRec, IsNative
  <2> QED BY <1>3, <1>5, <2>1, <2>2, AllFit, BindingsSame DEF history
<1>9. UrisKept'
  BY <1>3 DEF UrisKept, Owner, IndexInv, history
<1>10. SlotsKept'
  <2>1. \A d \in 0..MaxDay : Cardinality(Holders(d)') <= Cardinality(Holders(d))
    BY <1>5, <1>6, HoldersShrink DEF Unbooked
  <2>2. faults' \in Nat /\ faults <= faults'
    BY <1>3 DEF IndexInv, StoreOK
  <2> QED BY <1>3, <2>1, <2>2, SlotsKeptFrame DEF history
<1>11. OneLists'
  BY <1>5, <1>6, OneListsFrame
<1>12. LaunchesServed'
  <2> SUFFICES ASSUME faults = 0, NEW n \in Mint \ dropped, IsNative(n)
               PROVE  Served(n)'
    BY <1>3 DEF LaunchesServed, history, IsNative
  <2>1. Served(n)
    BY DEF IndexInv, LaunchesServed
  <2>2. CASE n # x.mint
    <3>1. ~Serves(worker[w], n)
      BY <1>1, <2>2 DEF Serves
    <3>2. listed[n] = "native" => listed'[n] = "native"
      BY <1>4, <2>2
    <3> QED BY <1>5, <1>6, <2>1, <3>1, <3>2, StillServed
  <2>3. CASE n = x.mint /\ Summary(x.seen) = "native"
    <3>1. listed'[n] = "native"
      BY <1>4, <2>3
    <3>2. \A v \in Worker : worker'[v].pc # "list"
      BY <1>1, <1>2, <1>5, <1>6 DEF IndexInv, OneLists, At
    <3> QED BY <3>1, <3>2 DEF Served, At
  <2>4. CASE n = x.mint /\ Summary(x.seen) # "native"
    <3>1. PICK v \in Worker : Serves(worker[v], n)
      BY <1>1, <1>2, <2>1, <2>4 DEF Served, At, MintOf
    <3>2. v # w
      BY <1>1, <1>2, <2>4, <3>1 DEF Serves
    <3> QED BY <1>6, <3>1, <3>2 DEF Served, Serves
  <2> QED BY <2>2, <2>3, <2>4
<1> QED BY <1>7, <1>8, <1>9, <1>10, <1>11, <1>12 DEF IndexInv

LEMMA DeleteKeeps ==
    ASSUME IndexInv, NEW w \in Worker, Delete(w)
    PROVE  IndexInv'
<1>1. PICK x : x = worker[w]
  OBVIOUS
<1>2. /\ x.pc = "delete" /\ x.mint \in Mint /\ x \in WorkerRec /\ Placed(x) /\ Bound(x)
      /\ x.gone \subseteq Mint
      /\ x.op \in {"register", "track", "sync"}
  BY <1>1, AtWork DEF Delete, At, Placed, WorkerRec
<1>3. PICK y : y = [x EXCEPT !.gone = {}, !.pc = "forget"]
  OBVIOUS
<1>4. worker' = [worker EXCEPT ![w] = y]
  BY <1>1, <1>3 DEF Delete, IndexInv, WorkersFit
<1>5. /\ y \in WorkerRec /\ y.pc = "forget" /\ y.op = x.op /\ y.mint = x.mint /\ y.bound = x.bound
      /\ y.quantum = x.quantum /\ y.gone = {} /\ y.slot = x.slot /\ y.seen = x.seen
  BY <1>2, <1>3 DEF WorkerRec, Places
<1>6. Placed(y)
  BY <1>2, <1>5 DEF Placed, Unslotted
<1>7. /\ worker' \in [Worker -> WorkerRec]
      /\ worker'[w] = y /\ \A v \in Worker \ {w} : worker'[v] = worker[v]
  BY <1>4, <1>6, OneMoves
<1>8. UNCHANGED <<listed, claim, slots, made, lapsed, byUri, faults>>
  BY DEF Delete
<1>9. /\ \A n \in Mint : coin'[n] = coin[n] \/ coin'[n] = None
      /\ \A n \in Mint : IsNative(n)' => IsNative(n)
      /\ dropped \subseteq dropped'
  BY DEF Delete, IsNative
<1>10. StoreOK'
  <2>1. coin' \in [Mint -> Record \cup {None}] /\ trades' \in [Mint -> SUBSET (1..MaxTx)]
        /\ dropped' \subseteq Mint
    BY <1>1, <1>2 DEF Delete, IndexInv, StoreOK
  <2> QED BY <2>1 DEF Delete, IndexInv, StoreOK, world
<1>11. WorkersFit'
  <2>1. Fits(y)'
    BY <1>2, <1>5, <1>6, <1>8 DEF Fits, Bound, Owner, Acting
  <2>2. \A v \in Worker \ {w} : At(v, "delete") => \A n \in worker[v].gone : ~IsNative(n)'
    BY <1>9, AtWork DEF At, Fits, WorkerRec
  <2> QED BY <1>4, <1>8, <1>9, <2>1, <2>2, AllFit, BindingsSame
<1>12. UrisKept'
  BY <1>8, <1>9 DEF UrisKept, Owner, IndexInv
<1>13. SlotsKept'
  <2>1. \A d \in 0..MaxDay : Cardinality(Holders(d)') <= Cardinality(Holders(d))
    BY <1>5, <1>7, HoldersShrink DEF Unbooked
  <2>2. faults' \in Nat /\ faults <= faults'
    BY <1>8 DEF IndexInv, StoreOK
  <2> QED BY <1>8, <2>1, <2>2, SlotsKeptFrame
<1>14. OneLists'
  BY <1>5, <1>7, OneListsFrame
<1>15. LaunchesServed'
  <2>1. \A n \in Mint : ~Serves(worker[w], n)
    BY <1>1, <1>2 DEF Serves
  <2> QED BY <1>5, <1>7, <1>8, <1>9, <2>1, ServedFrame
<1> QED BY <1>10, <1>11, <1>12, <1>13, <1>14, <1>15 DEF IndexInv

LEMMA CrashKeeps ==
    ASSUME IndexInv, NEW w \in Worker, Crash(w)
    PROVE  IndexInv'
<1>1. UNCHANGED <<coin, listed, claim, slots, history>> /\ faults' = faults + 1 /\ faults \in Nat
  BY DEF Crash, store, IndexInv, StoreOK
<1>2. worker' = [worker EXCEPT ![w] = Idle] /\ Fits(Idle)
  BY IdleFits DEF Crash, Ends
<1>3. /\ worker' \in [Worker -> WorkerRec]
      /\ worker'[w] = Idle /\ \A v \in Worker \ {w} : worker'[v] = worker[v]
  BY <1>2, OneMoves DEF Fits
<1>4. StoreOK'
  BY <1>1 DEF Crash, IndexInv, StoreOK, store, world, history
<1>5. WorkersFit'
  <2>1. PICK y : y = Idle
    OBVIOUS
  <2>2. Fits(y)'
    BY <1>1, <1>2, <2>1 DEF Fits, Bound, Owner, IsNative, history
  <2>3. \A v \in Worker \ {w} : At(v, "delete") => \A n \in worker[v].gone : ~IsNative(n)'
    BY <1>1, AtWork DEF At, Fits, WorkerRec, IsNative
  <2> QED BY <1>1, <1>2, <2>1, <2>2, <2>3, AllFit, BindingsSame DEF history
<1>6. UrisKept'
  BY <1>1 DEF UrisKept, Owner, IndexInv, history
<1>7. SlotsKept'
  <2>1. \A d \in 0..MaxDay : Cardinality(Holders(d)') <= Cardinality(Holders(d))
    BY <1>3, IdleFits, HoldersShrink DEF Unbooked
  <2>2. faults' \in Nat /\ faults <= faults'
    BY <1>1
  <2> QED BY <1>1, <2>1, <2>2, SlotsKeptFrame DEF history
<1>8. OneLists'
  BY <1>3, IdleFits, OneListsFrame
<1>9. LaunchesServed'
  BY <1>1 DEF LaunchesServed
<1> QED BY <1>4, <1>5, <1>6, <1>7, <1>8, <1>9 DEF IndexInv

\* What a write stores: a record, of the launch it was if it was one, and a launch by a URI only
\* under a binding to it.
LEMMA NextRecordIs ==
    ASSUME IndexInv, NEW w \in Worker, At(w, "write"), NEW r, r = NextRecord(w), r # None
    PROVE  /\ r \in Record
           /\ IsNative(MintOf(w)) => r.provenance = coin[MintOf(w)].provenance
           /\ r.provenance = "issued-uri" => IsNative(MintOf(w)) \/ worker[w].bound # None
<1> DEFINE x == worker[w]
           m == x.mint
           current == coin[m]
<1>1. /\ x.pc = "write" /\ m \in Mint /\ x.op \in {"register", "track", "sync"} /\ x \in WorkerRec
      /\ Bound(x) /\ (x.op = "sync" => x.seen \in Record) /\ current \in Record \cup {None}
  BY AtWork DEF At, Placed, IndexInv, StoreOK
<1>2. current # None /\ current.provenance = "issued-uri" => IsNative(m)
  BY DEF IsNative, Native
<1>3. \A p \in {External} \cup Native : Fresh(p) \in Record /\ Fresh(p).provenance = p
  BY ConstantTypes DEF Fresh, Record
<1>4. \A c \in Record, b \in BOOLEAN :
         /\ ApplyHeal(c, b) \in Record
         /\ c.provenance \in Native => ApplyHeal(c, b) = c
         /\ ApplyHeal(c, b).provenance = "issued-uri" => c.provenance = "issued-uri"
  <2> TAKE c \in Record, b \in BOOLEAN
  <2>1. [c EXCEPT !.provenance = "quantum"] \in Record
        /\ [c EXCEPT !.provenance = "quantum"].provenance = "quantum"
    BY DEF Record, Native
  <2>2. CASE b /\ c.provenance = External
    BY <2>1, <2>2 DEF ApplyHeal, Native, External
  <2>3. CASE ~(b /\ c.provenance = External)
    BY <2>3 DEF ApplyHeal
  <2> QED BY <2>2, <2>3
<1>5. CASE x.op = "register" /\ ~IsNative(m)
  <2>1. PICK c, p : /\ c \in Record /\ p \in Native
                    /\ r = [c EXCEPT !.provenance = p, !.behind = TRUE]
                    /\ p = "issued-uri" => ~x.quantum
    <3>1. PICK c : c = IF current = None THEN Fresh(External) ELSE current
      OBVIOUS
    <3>2. PICK p : p = IF x.quantum THEN "quantum" ELSE "issued-uri"
      OBVIOUS
    <3>3. r = [c EXCEPT !.provenance = p, !.behind = TRUE]
      BY <1>5, <3>1, <3>2 DEF NextRecord, Op, MintOf
    <3>4. c \in Record
      BY <1>1, <1>3, <3>1
    <3>5. p \in Native /\ (p = "issued-uri" => ~x.quantum)
      BY <3>2 DEF Native
    <3> QED BY <3>3, <3>4, <3>5
  <2>2. r \in Record /\ r.provenance = p
    BY <2>1 DEF Record
  <2>3. p = "issued-uri" => x.bound # None
    BY <1>1, <1>5, <2>1 DEF Bound, Owner, Acting
  <2> QED BY <1>5, <2>2, <2>3 DEF MintOf
<1>6. CASE x.op = "track" /\ x.seen = None /\ current = None
  <2>1. r = Fresh(IF x.admitted THEN "quantum" ELSE External)
    BY <1>6 DEF NextRecord, Op, MintOf
  <2>2. (IF x.admitted THEN "quantum" ELSE External) \in {External} \cup Native
    BY DEF Native
  <2>3. (IF x.admitted THEN "quantum" ELSE External) # "issued-uri"
    BY DEF External
  <2> QED BY <1>3, <1>6, <2>1, <2>2, <2>3 DEF IsNative, MintOf
<1>7. CASE x.op = "track" /\ x.seen # None /\ current # None
  <2>1. r = ApplyHeal(current, x.admitted)
    BY <1>7 DEF NextRecord, Op, MintOf
  <2>2. x.admitted \in BOOLEAN /\ current \in Record
    BY <1>1, <1>7 DEF WorkerRec
  <2> QED BY <1>2, <1>4, <1>7, <2>1, <2>2 DEF IsNative, MintOf
<1>8. CASE x.op = "sync" /\ current # None
  <2>1. r = [ ApplyHeal(current, x.admitted)
              EXCEPT !.cursor = x.seen.cursor, !.from = x.seen.from, !.behind = x.seen.behind ]
    BY <1>8 DEF NextRecord, Op, MintOf
  <2>2. x.admitted \in BOOLEAN /\ current \in Record /\ x.seen \in Record
    BY <1>1, <1>8 DEF WorkerRec
  <2>3. PICK h : h = ApplyHeal(current, x.admitted)
    OBVIOUS
  <2>4. /\ h \in Record /\ (current.provenance \in Native => h = current)
        /\ h.provenance = "issued-uri" => current.provenance = "issued-uri"
    BY <1>4, <2>2, <2>3
  <2>5. x.seen.cursor \in 0..MaxTx /\ x.seen.from \in 0..MaxTx /\ x.seen.behind \in BOOLEAN
    BY <2>2, RecordTypes
  <2>6. r \in Record /\ r.provenance = h.provenance
    BY <2>1, <2>3, <2>4, <2>5 DEF Record
  <2> QED BY <1>2, <1>8, <2>4, <2>6 DEF IsNative, MintOf
<1>9. \/ x.op = "register" /\ ~IsNative(m)
      \/ x.op = "track" /\ x.seen = None /\ current = None
      \/ x.op = "track" /\ x.seen # None /\ current # None
      \/ x.op = "sync" /\ current # None
  BY DEF NextRecord, Op, MintOf
<1> QED BY <1>5, <1>6, <1>7, <1>8, <1>9

\* What a write that is applied does to the store.
LEMMA StoreDoes ==
    ASSUME IndexInv, NEW w \in Worker, At(w, "write"), CoinFree(MintOf(w)), NextRecord(w) # None,
           Store(w), UNCHANGED <<listed, issued, claim, slots, chain, day, checked, dropped, lapsed>>,
           faults' \in Nat
    PROVE  /\ StoreOK' /\ UrisKept'
           /\ \A n \in Mint : n # MintOf(w) => coin'[n] = coin[n]
           /\ \A n \in Mint : IsNative(n) => coin'[n] # None
                                             /\ coin'[n].provenance = coin[n].provenance
           /\ \A d \in 0..MaxDay :
                /\ Cardinality(MadeOn(d)') <= Cardinality(MadeOn(d)) + 1
                /\ d # worker[w].slot => MadeOn(d)' = MadeOn(d)
<1> DEFINE x == worker[w]
           m == MintOf(w)
<1>1. m \in Mint /\ x \in WorkerRec /\ x.pc = "write"
  BY AtWork DEF At, MintOf
<1>2. PICK r : r = NextRecord(w)
  OBVIOUS
<1>3. /\ r \in Record /\ r # None
      /\ IsNative(m) => r.provenance = coin[m].provenance
      /\ r.provenance = "issued-uri" => IsNative(m) \/ x.bound # None
  BY <1>2, NextRecordIs
<1>4. coin' = [coin EXCEPT ![m] = r] /\ coin'[m] = r
  BY <1>1, <1>2 DEF Store, IndexInv, StoreOK
<1>5. made' \in {made, made \cup {<<m, x.slot>>}} /\ (x.slot = None => made' = made)
  BY DEF Store
<1>9. byUri' \in {byUri, byUri \cup {<<m, x.bound>>}} /\ (x.bound = None => byUri' = byUri)
  <2>1. byUri' = IF r.provenance \in Native /\ ~IsNative(m) /\ r.provenance = "issued-uri"
                 THEN byUri \cup {<<m, x.bound>>} ELSE byUri
    BY <1>2 DEF Store
  <2> QED BY <1>3, <2>1
<1>6. StoreOK'
  <2>1. coin' \in [Mint -> Record \cup {None}]
    BY <1>1, <1>3, <1>4 DEF IndexInv, StoreOK
  <2>2. trades' \in [Mint -> SUBSET (1..MaxTx)]
    <3>1. ReadTrades(w) \subseteq 1..MaxTx
      BY <1>1, ConstantTypes DEF ReadTrades, WorkerRec
    <3>2. trades' = [trades EXCEPT ![m] = @ \cup ReadTrades(w)]
      BY DEF Store
    <3> QED BY <1>1, <3>1, <3>2 DEF IndexInv, StoreOK
  <2>3. old' \subseteq Mint
    BY <1>1 DEF Store, IndexInv, StoreOK
  <2>5. byUri' \subseteq Mint \X (0..MaxLapses)
    BY <1>1, <1>9 DEF IndexInv, StoreOK, WorkerRec
  <2>4. made' \subseteq Mint \X (0..MaxDay)
    <3>1. x.slot \in (0..MaxDay) \cup {None}
      BY <1>1 DEF WorkerRec
    <3> QED BY <1>1, <1>5, <3>1 DEF IndexInv, StoreOK
  <2> QED BY <2>1, <2>2, <2>3, <2>4, <2>5 DEF IndexInv, StoreOK
<1>7. UrisKept'
  <2>1. \A u, n : Owner(u, n)' = Owner(u, n)
    BY DEF Owner
  <2>2. x.bound # None => Owner(UriOf[m], x.bound) = m
    BY AtWork DEF Bound, MintOf
  <2>3. ASSUME NEW p \in byUri'
        PROVE  p[1] \in Mint /\ Owner(UriOf[p[1]], p[2]) = p[1]
    <3>1. CASE p \in byUri
      BY <3>1 DEF IndexInv, UrisKept
    <3>2. CASE p = <<m, x.bound>> /\ x.bound # None
      BY <1>1, <2>2, <3>2
    <3> QED BY <1>9, <3>1, <3>2
  <2> QED BY <2>1, <2>3 DEF UrisKept
<1>8. ASSUME NEW d \in 0..MaxDay
      PROVE  /\ Cardinality(MadeOn(d)') <= Cardinality(MadeOn(d)) + 1
             /\ d # x.slot => MadeOn(d)' = MadeOn(d)
  <2>1. MadeOn(d)' \subseteq MadeOn(d) \cup {m} /\ (d # x.slot => MadeOn(d)' = MadeOn(d))
    BY <1>5 DEF MadeOn
  <2>2. /\ IsFiniteSet(MadeOn(d) \cup {m})
        /\ Cardinality(MadeOn(d) \cup {m})
              = IF m \in MadeOn(d) THEN Cardinality(MadeOn(d)) ELSE Cardinality(MadeOn(d)) + 1
    BY HoldersBound, FS_AddElement
  <2>3. Cardinality(MadeOn(d)') <= Cardinality(MadeOn(d) \cup {m})
    BY <2>1, <2>2, FS_Subset
  <2>4. Cardinality(MadeOn(d)') \in Nat /\ Cardinality(MadeOn(d)) \in Nat
    BY HoldersBound
  <2> QED BY <2>1, <2>2, <2>3, <2>4
<1> QED BY <1>3, <1>4, <1>6, <1>7, <1>8 DEF IndexInv, StoreOK, IsNative

LEMMA WriteKeeps ==
    ASSUME IndexInv, NEW w \in Worker, Write(w)
    PROVE  IndexInv'
<1>1. PICK x : x = worker[w]
  OBVIOUS
<1>2. /\ x.pc = "write" /\ x.gone = {} /\ x.mint \in Mint /\ x \in WorkerRec /\ Placed(x)
      /\ Bound(x) /\ x.op \in {"register", "track", "sync"} /\ x.slot \in (0..MaxDay) \cup {None}
      /\ x.op = Op(w) /\ x.mint = MintOf(w)
  BY <1>1, AtWork DEF Write, At, Placed, WorkerRec, Op, MintOf
<1>3. At(w, "write") /\ CoinFree(x.mint)
      /\ UNCHANGED <<listed, issued, claim, slots, chain, day, checked, dropped, lapsed, ops, faults>>
  BY <1>2 DEF Write
<1>4. CASE NextRecord(w) = None
  <2>1. LeaveStored
    BY <1>4 DEF Write
  <2>2. StoreOK'
    BY <1>3, <2>1 DEF IndexInv, StoreOK, LeaveStored
  <2>3. CASE Ends(w)
    <3>1. Moved(w)
      BY <1>1, <1>2, <2>3, EndsMoves DEF Serves
    <3> QED BY <1>3, <2>1, <2>2, <3>1, PlainMove DEF LeaveStored, history
  <2>4. ASSUME NEW pc \in {"refund", "consume", "summary"}, Goes(w, pc),
               pc = "refund" => x.slot # None, pc = "consume" => x.op = "register"
        PROVE  Moved(w)
    <3>1. /\ pc \in Places \ {"idle", "list", "delete"}
          /\ pc \notin {"issued", "claim", "read", "verify", "giveback"} /\ pc \notin Unslotted
          /\ pc \notin Acting
      BY DEF Places, Unslotted, Acting
    <3>2. ~At(w, "idle") /\ ~At(w, "consume") /\ worker[w].pc \in Unbooked
          /\ worker[w].gone = {} /\ worker[w].pc \notin {"summary", "list"}
      BY <1>1, <1>2 DEF At, Unbooked
    <3> QED BY <1>1, <1>2, <2>4, <3>1, <3>2, GoesMoves
  <2>5. CASE ~Ends(w)
    <3>1. Moved(w)
      BY <1>1, <1>2, <1>4, <2>4, <2>5 DEF Write
    <3> QED BY <1>3, <2>1, <2>2, <3>1, PlainMove DEF LeaveStored, history
  <2> QED BY <2>3, <2>5
<1>5. CASE NextRecord(w) # None
  <2>1. Store(w) /\ faults' \in Nat /\ faults' = faults
    BY <1>3, <1>5 DEF Write, IndexInv, StoreOK
  <2>2. /\ StoreOK' /\ UrisKept'
        /\ \A n \in Mint : n # x.mint => coin'[n] = coin[n]
        /\ \A n \in Mint : IsNative(n) => coin'[n] # None
                                          /\ coin'[n].provenance = coin[n].provenance
        /\ \A d \in 0..MaxDay :
             /\ Cardinality(MadeOn(d)') <= Cardinality(MadeOn(d)) + 1
             /\ d # x.slot => MadeOn(d)' = MadeOn(d)
    BY <1>1, <1>2, <1>3, <1>5, <2>1, StoreDoes
  <2>3. PICK pc \in {"consume", "summary"} : Goes(w, pc) /\ (pc = "consume" => x.op = "register")
    BY <1>2, <1>5 DEF Write
  <2>4. PICK y : y = [x EXCEPT !.pc = pc]
    OBVIOUS
  <2>5. worker' = [worker EXCEPT ![w] = y]
    BY <1>1, <2>3, <2>4 DEF Goes, IndexInv, WorkersFit
  <2>6. /\ y \in WorkerRec /\ y.pc = pc /\ y.op = x.op /\ y.mint = x.mint
        /\ y.bound = x.bound /\ y.quantum = x.quantum /\ y.gone = {} /\ y.slot = x.slot
        /\ y.seen = x.seen
    BY <1>2, <2>4 DEF WorkerRec, Places
  <2>7. Placed(y)
    BY <1>2, <2>3, <2>6 DEF Placed, Unslotted
  <2>8. /\ worker' \in [Worker -> WorkerRec]
        /\ worker'[w] = y /\ \A v \in Worker \ {w} : worker'[v] = worker[v]
    BY <2>5, <2>7, OneMoves
  <2>9. WorkersFit'
    <3>1. Fits(y)'
      BY <1>2, <1>3, <2>6, <2>7 DEF Fits, Bound, Owner, Acting
    <3>2. \A v \in Worker \ {w} : At(v, "delete") => \A n \in worker[v].gone : ~IsNative(n)'
      BY <1>3, <2>2, AtWork DEF At, Fits, WorkerRec, IsNative, CoinFree
    <3> QED BY <1>3, <2>5, <3>1, <3>2, AllFit, BindingsSame
  <2>10. SlotsKept'
    <3> SUFFICES ASSUME NEW d \in 0..MaxDay
                 PROVE  Cardinality(MadeOn(d)') + Cardinality(Holders(d)') <= slots'[d] + faults'
      BY DEF SlotsKept
    <3>1. Cardinality(MadeOn(d)) + Cardinality(Holders(d)) <= slots[d] + faults
      BY DEF IndexInv, SlotsKept
    <3>2. faults \in Nat /\ slots[d] \in Nat /\ faults' = faults /\ slots'[d] = slots[d]
      BY <1>3, SlotNumbers
    <3>3. CASE d = x.slot
      <4>1. w \in Holders(d) /\ ~(w \in Holders(d))'
        BY <1>1, <1>2, <2>6, <2>8, <3>3 DEF Holders, Unbooked
      <4>2. Cardinality(Holders(d)') + 1 <= Cardinality(Holders(d))
        BY <2>8, <4>1, HoldersChange
      <4>3. Cardinality(MadeOn(d)') <= Cardinality(MadeOn(d)) + 1
        BY <2>2
      <4> QED BY <3>1, <3>2, <4>2, <4>3, HoldersBound
    <3>4. CASE d # x.slot
      <4>1. MadeOn(d)' = MadeOn(d)
        BY <2>2, <3>4
      <4>2. Cardinality(Holders(d)') <= Cardinality(Holders(d))
        BY <2>6, <2>8, HoldersShrink DEF Unbooked
      <4> QED BY <3>1, <3>2, <4>1, <4>2, HoldersBound
    <3> QED BY <3>3, <3>4
  <2>11. OneLists'
    BY <2>6, <2>8, OneListsFrame
  <2>12. LaunchesServed'
    <3> SUFFICES ASSUME faults = 0, NEW n \in Mint \ dropped, IsNative(n)'
                 PROVE  Served(n)'
      BY <1>3 DEF LaunchesServed
    <3>1. CASE n = x.mint
      <4>1. Serves(worker'[w], n)
        BY <2>6, <2>8, <3>1 DEF Serves
      <4> QED BY <4>1 DEF Served, Serves
    <3>2. CASE n # x.mint
      <4>1. IsNative(n) /\ Served(n)
        BY <2>2, <3>2 DEF IsNative, IndexInv, LaunchesServed
      <4>2. ~Serves(worker[w], n)
        BY <1>1, <3>2 DEF Serves
      <4> QED BY <1>3, <2>6, <2>8, <4>1, <4>2, StillServed
    <3> QED BY <3>1, <3>2
  <2> QED BY <2>2, <2>9, <2>10, <2>11, <2>12 DEF IndexInv
<1> QED BY <1>4, <1>5

LEMMA WriteFailsKeeps ==
    ASSUME IndexInv, NEW w \in Worker, WriteFails(w)
    PROVE  IndexInv'
<1>1. PICK x : x = worker[w]
  OBVIOUS
<1>2. /\ x.pc = "write" /\ x.gone = {} /\ x.mint \in Mint /\ x \in WorkerRec /\ Placed(x)
      /\ Bound(x) /\ x.op \in {"register", "track", "sync"} /\ x.slot \in (0..MaxDay) \cup {None}
      /\ x.mint = MintOf(w)
  BY <1>1, AtWork DEF WriteFails, At, Placed, WorkerRec, MintOf
<1>3. /\ At(w, "write") /\ CoinFree(x.mint) /\ faults' = faults + 1 /\ faults \in Nat
      /\ UNCHANGED <<listed, issued, claim, slots, chain, day, checked, dropped, lapsed>>
  BY <1>2 DEF WriteFails, IndexInv, StoreOK
<1>4. /\ StoreOK' /\ UrisKept'
      /\ \A n \in Mint : n # x.mint => coin'[n] = coin[n]
      /\ \A d \in 0..MaxDay : Cardinality(MadeOn(d)') <= Cardinality(MadeOn(d)) + 1
  <2>1. CASE LeaveStored
    <3>1. \A d \in 0..MaxDay : MadeOn(d)' = MadeOn(d) /\ Cardinality(MadeOn(d)) \in Nat
      BY <2>1, HoldersBound DEF LeaveStored, MadeOn
    <3>2. \A d \in 0..MaxDay : Cardinality(MadeOn(d)') <= Cardinality(MadeOn(d)) + 1
      BY <3>1
    <3>3. StoreOK'
      BY <1>3, <2>1 DEF IndexInv, StoreOK, LeaveStored
    <3>4. UrisKept'
      BY <1>3, <2>1 DEF IndexInv, LeaveStored, UrisKept, Owner
    <3>5. \A n \in Mint : n # x.mint => coin'[n] = coin[n]
      BY <2>1 DEF LeaveStored
    <3> QED BY <3>2, <3>3, <3>4, <3>5
  <2>2. CASE NextRecord(w) # None /\ Store(w)
    BY <1>2, <1>3, <2>2, StoreDoes
  <2> QED BY <2>1, <2>2 DEF WriteFails
<1>5. PICK y : /\ Placed(y) /\ Bound(y) /\ worker' = [worker EXCEPT ![w] = y]
               /\ y.pc \in {"idle", "giveback"} /\ (y.pc = "giveback" => y.slot = x.slot)
  <2>1. CASE Ends(w)
    BY <2>1, IdleFits DEF Ends, Fits
  <2>2. CASE ~Ends(w)
    <3>1. Goes(w, "giveback") /\ x.slot # None
      BY <1>1, <2>2 DEF WriteFails
    <3>2. PICK y : y = [x EXCEPT !.pc = "giveback"]
      OBVIOUS
    <3>3. worker' = [worker EXCEPT ![w] = y]
      BY <1>1, <3>1, <3>2 DEF Goes, IndexInv, WorkersFit
    <3>4. /\ y \in WorkerRec /\ y.pc = "giveback" /\ y.op = x.op /\ y.mint = x.mint
          /\ y.bound = x.bound /\ y.quantum = x.quantum /\ y.gone = {} /\ y.slot = x.slot
          /\ y.seen = x.seen
      BY <1>2, <3>2 DEF WorkerRec, Places
    <3>5. Placed(y) /\ Bound(y)
      BY <1>2, <3>1, <3>4 DEF Placed, Unslotted, Bound, Owner, Acting
    <3> QED BY <3>3, <3>4, <3>5
  <2> QED BY <2>1, <2>2
<1>6. /\ worker' \in [Worker -> WorkerRec]
      /\ worker'[w] = y /\ \A v \in Worker \ {w} : worker'[v] = worker[v]
  BY <1>5, OneMoves
<1>7. WorkersFit'
  <2>1. Fits(y)'
    BY <1>3, <1>5 DEF Fits, Bound, Owner
  <2>2. \A v \in Worker \ {w} : At(v, "delete") => \A n \in worker[v].gone : ~IsNative(n)'
    BY <1>3, <1>4, AtWork DEF At, Fits, WorkerRec, IsNative, CoinFree
  <2> QED BY <1>3, <1>5, <2>1, <2>2, AllFit, BindingsSame
<1>8. SlotsKept'
  <2> SUFFICES ASSUME NEW d \in 0..MaxDay
               PROVE  Cardinality(MadeOn(d)') + Cardinality(Holders(d)') <= slots'[d] + faults'
    BY DEF SlotsKept
  <2>1. Cardinality(MadeOn(d)) + Cardinality(Holders(d)) <= slots[d] + faults
    BY DEF IndexInv, SlotsKept
  <2>2. faults \in Nat /\ slots[d] \in Nat /\ faults' = faults + 1 /\ slots'[d] = slots[d]
    BY <1>3, SlotNumbers
  <2>3. Cardinality(Holders(d)') <= Cardinality(Holders(d))
    BY <1>1, <1>2, <1>5, <1>6, HoldersShrink DEF Unbooked
  <2>4. Cardinality(MadeOn(d)') <= Cardinality(MadeOn(d)) + 1
    BY <1>4
  <2> QED BY <2>1, <2>2, <2>3, <2>4, HoldersBound
<1>9. OneLists'
  BY <1>5, <1>6, OneListsFrame
<1>10. LaunchesServed'
  BY <1>3 DEF LaunchesServed
<1> QED BY <1>4, <1>7, <1>8, <1>9, <1>10 DEF IndexInv

-----------------------------------------------------------------------------
(* The invariant, and what follows from it.                                *)

LEMMA IndexInit == Init => IndexInv
<1> SUFFICES ASSUME Init
             PROVE  IndexInv
  OBVIOUS
<1>1. \A m \in Mint : coin[m] = None
  BY DEF Init
<1>2. StoreOK
  <2>1. 0 \in 0..MaxDay /\ 0 \in 0..launchesPerWallet /\ 1 \in 1..MaxTx
    BY ConstantTypes
  <2>2. <<>> \in Seq(Mint) /\ Len(<<>>) <= MaxLapses
    BY ConstantTypes
  <2>3. lapsed \in [Uri -> Seq(Mint)] /\ \A u \in Uri : Len(lapsed[u]) <= MaxLapses
    BY <2>2 DEF Init
  <2> QED BY <2>1, <2>3 DEF Init, StoreOK
<1>3. WorkersFit
  BY IdleFits DEF Init, WorkersFit, Fits, Placed
<1>4. UrisKept
  BY <1>1 DEF Init, UrisKept, Owner
<1>5. SlotsKept
  <2> SUFFICES ASSUME NEW d \in 0..MaxDay
               PROVE  Cardinality(MadeOn(d)) + Cardinality(Holders(d)) <= slots[d] + faults
    BY DEF SlotsKept
  <2>1. MadeOn(d) = {} /\ Holders(d) = {}
    BY IdleFits DEF Init, MadeOn, Holders, Unbooked
  <2>2. slots[d] = 0 /\ faults = 0
    BY DEF Init
  <2> QED BY <2>1, <2>2, FS_EmptySet
<1>6. OneLists
  BY IdleFits DEF Init, OneLists, At
<1>7. LaunchesServed
  BY <1>1 DEF LaunchesServed, IsNative
<1> QED BY <1>2, <1>3, <1>4, <1>5, <1>6, <1>7 DEF IndexInv

\* What changes neither the workers nor what the invariant says of the store.
LEMMA WorldKeeps ==
    ASSUME IndexInv, UNCHANGED <<coin, listed, claim, slots, worker, history, faults>>, StoreOK'
    PROVE  IndexInv'
<1>1. WorkersFit'
  BY DEF IndexInv, WorkersFit, Fits, Bound, Owner, IsNative, history
<1>2. UrisKept' /\ OneLists'
  BY DEF IndexInv, UrisKept, Owner, OneLists, At, history
<1>3. SlotsKept'
  BY DEF IndexInv, SlotsKept, MadeOn, Holders, history
<1>4. LaunchesServed'
  BY DEF IndexInv, LaunchesServed, Served, IsNative, At, MintOf, history
<1> QED BY <1>1, <1>2, <1>3, <1>4 DEF IndexInv

LEMMA WorldStepKeeps ==
    ASSUME IndexInv, NEW m \in Mint, Trade(m) \/ GrowOld(m) \/ NextDay
    PROVE  IndexInv'
<1>1. CASE Trade(m)
  <2>1. chain' \in [Mint -> 1..MaxTx]
    <3>1. chain[m] \in 1..MaxTx /\ chain[m] < MaxTx
      BY <1>1 DEF Trade, IndexInv, StoreOK
    <3>2. chain[m] + 1 \in 1..MaxTx
      BY <3>1, ConstantTypes
    <3> QED BY <1>1, <3>2 DEF Trade, IndexInv, StoreOK
  <2>2. StoreOK'
    BY <1>1, <2>1 DEF Trade, IndexInv, StoreOK, store, history
  <2> QED BY <1>1, <2>2, WorldKeeps DEF Trade, store
<1>2. CASE GrowOld(m)
  <2>1. StoreOK'
    BY <1>2 DEF GrowOld, IndexInv, StoreOK, store, history
  <2> QED BY <1>2, <2>1, WorldKeeps DEF GrowOld, store
<1>3. CASE NextDay
  <2>1. day' \in 0..MaxDay
    BY <1>3, ConstantTypes DEF NextDay, IndexInv, StoreOK
  <2>2. StoreOK'
    BY <1>3, <2>1 DEF NextDay, IndexInv, StoreOK, store, history
  <2> QED BY <1>3, <2>2, WorldKeeps DEF NextDay, store
<1> QED BY <1>1, <1>2, <1>3

\* A binding that lapses keeps its number, and its coin under it; the next has none yet.
LEMMA LapseKeeps ==
    ASSUME IndexInv, NEW u \in Uri, ClaimLapses(u)
    PROVE  IndexInv'
<1>1. /\ claim[u] \in Mint /\ Len(lapsed[u]) \in Nat /\ Len(lapsed[u]) < MaxLapses
      /\ lapsed[u] \in Seq(Mint) /\ claim' = [claim EXCEPT ![u] = None]
      /\ lapsed' = [lapsed EXCEPT ![u] = Append(lapsed[u], claim[u])]
      /\ lapsed \in [Uri -> Seq(Mint)] /\ claim \in [Uri -> Mint \cup {None}]
      /\ \A v \in Uri : Len(lapsed[v]) <= MaxLapses
  BY DEF ClaimLapses, IndexInv, StoreOK
<1>2. UNCHANGED <<coin, listed, trades, issued, slots, world, worker, made, dropped, byUri, ops, faults>>
  BY DEF ClaimLapses
<1>3. Append(lapsed[u], claim[u]) \in Seq(Mint)
      /\ Len(Append(lapsed[u], claim[u])) = Len(lapsed[u]) + 1
      /\ \A i \in 1..Len(lapsed[u]) : Append(lapsed[u], claim[u])[i] = lapsed[u][i]
      /\ Append(lapsed[u], claim[u])[Len(lapsed[u]) + 1] = claim[u]
  BY <1>1
<1>4. /\ lapsed'[u] = Append(lapsed[u], claim[u]) /\ claim'[u] = None
      /\ \A v \in Uri \ {u} : lapsed'[v] = lapsed[v] /\ claim'[v] = claim[v]
      /\ lapsed' \in [Uri -> Seq(Mint)] /\ claim' \in [Uri -> Mint \cup {None}]
  BY <1>1, <1>3
<1>5. \A v \in Uri : Len(lapsed'[v]) <= MaxLapses
  <2> TAKE v \in Uri
  <2>1. CASE v = u
    BY <1>1, <1>3, <1>4, <2>1, ConstantTypes
  <2>2. CASE v # u
    BY <1>1, <1>4, <2>2
  <2> QED BY <2>1, <2>2
<1>6. StoreOK'
  BY <1>2, <1>4, <1>5 DEF IndexInv, StoreOK, world
<1>7. BindingsKept
  <2> SUFFICES ASSUME NEW v \in Uri, NEW n \in 0..MaxLapses, Owner(v, n) # None
               PROVE  Owner(v, n)' = Owner(v, n)
    BY DEF BindingsKept
  <2>1. CASE v # u
    BY <1>4, <2>1 DEF Owner
  <2>2. CASE v = u /\ n < Len(lapsed[u])
    <3>1. n + 1 \in 1..Len(lapsed[u]) /\ n < Len(lapsed[u]) + 1
      BY <1>1, <2>2
    <3> QED BY <1>3, <1>4, <2>2, <3>1 DEF Owner
  <2>3. CASE v = u /\ ~(n < Len(lapsed[u]))
    <3>1. n = Len(lapsed[u])
      BY <2>3 DEF Owner
    <3> QED BY <1>1, <1>3, <1>4, <2>3, <3>1 DEF Owner
  <2> QED BY <2>1, <2>2, <2>3
<1>8. WorkersFit'
  <2>1. ASSUME NEW w \in Worker
        PROVE  Fits(worker[w])'
    <3>1. PICK x : x = worker[w]
      OBVIOUS
    <3>2. Fits(x)
      BY <3>1, AtWork
    <3>3. x.pc = "delete" => \A m \in x.gone : ~IsNative(m)'
      BY <1>2, <3>2 DEF Fits, IsNative
    <3>4. Fits(x)'
      BY <1>2, <1>7, <3>2, <3>3, StillFits
    <3>5. x = worker'[w]
      BY <1>2, <3>1
    <3> QED BY <3>4, <3>5 DEF Fits, Bound, Owner, IsNative
  <2> QED BY <1>2, <2>1 DEF IndexInv, WorkersFit
<1>9. UrisKept'
  <2>1. byUri' = byUri /\ byUri \subseteq Mint \X (0..MaxLapses)
    BY <1>2 DEF IndexInv, StoreOK
  <2> QED BY <1>7, <2>1, ConstantTypes, NoneIsNot DEF UrisKept, BindingsKept, IndexInv
<1>10. SlotsKept' /\ OneLists'
  BY <1>2 DEF IndexInv, SlotsKept, MadeOn, Holders, OneLists, At
<1>11. LaunchesServed'
  BY <1>2 DEF IndexInv, LaunchesServed, Served, IsNative, At, MintOf
<1> QED BY <1>6, <1>8, <1>9, <1>10, <1>11 DEF IndexInv

LEMMA ReissueKeeps ==
    ASSUME IndexInv, NEW u \in Uri,
           CheckUri(u) \/ IssueUri(u) \/ IssueExpires(u) \/ ClaimLapses(u)
    PROVE  IndexInv'
<1>1. CASE CheckUri(u) \/ IssueUri(u) \/ IssueExpires(u)
  <2>1. UNCHANGED <<coin, listed, trades, claim, slots, chain, old, day, worker, history, ops, faults>>
        /\ issued' \subseteq Uri /\ checked' \subseteq Uri
    BY <1>1 DEF CheckUri, IssueUri, IssueExpires, IndexInv, StoreOK, store, world
  <2>2. StoreOK'
    BY <2>1 DEF IndexInv, StoreOK, history
  <2> QED BY <2>1, <2>2, WorldKeeps
<1> QED BY <1>1, LapseKeeps

LEMMA StepKeeps ==
    ASSUME IndexInv, NEW w \in Worker, Step(w)
    PROVE  IndexInv'
<1>1. ASSUME Moved(w), UNCHANGED <<store, world, history, faults>>
      PROVE  IndexInv'
  <2>1. StoreOK'
    BY <1>1 DEF IndexInv, StoreOK, store, world, history
  <2> QED BY <1>1, <2>1, PlainMove DEF store
<1>2. ASSUME NEW m \in Mint, Register(w, m) \/ Track(w, m) \/ Sync(w, m)
      PROVE  IndexInv'
  BY <1>1, <1>2, IdleMoves DEF Register, Track, Sync, Begin
<1>3. CASE Relist(w) \/ ReadIssued(w) \/ Verify(w)
  BY <1>1, <1>3, RelistMoves, ReadIssuedMoves, VerifyMoves DEF Relist, ReadIssued, Verify
<1>4. CASE Admit(w) \/ NothingEvicted(w) \/ Recount(w)
  BY <1>1, <1>4, AdmitMoves, RecountMoves DEF Admit, NothingEvicted, Recount
<1>5. CASE ReadChain(w) \/ ReadStored(w) \/ Forgotten(w)
  BY <1>1, <1>5, ReadChainMoves, ReadStoredMoves, ForgottenMoves
     DEF ReadChain, ReadStored, Forgotten
<1>6. ASSUME NEW m \in Mint, Forget(w, m)
      PROVE  IndexInv'
  BY <1>1, <1>6, ForgetMoves DEF Forget
<1>7. CASE Consume(w)
  <2>1. Moved(w)
    BY <1>7, ConsumeMoves
  <2>2. issued' \subseteq Uri
    BY <1>7 DEF Consume, IndexInv, StoreOK
  <2>3. StoreOK'
    BY <1>7, <2>2 DEF Consume, IndexInv, StoreOK, world, history
  <2> QED BY <1>7, <2>1, <2>3, PlainMove DEF Consume
<1>8. CASE ClaimUri(w) \/ Unlist(w) \/ TakeSlot(w) \/ Refund(w)
  BY <1>8, ClaimUriKeeps, UnlistKeeps, TakeSlotKeeps, RefundKeeps
<1>9. CASE Write(w) \/ WriteFails(w) \/ SaveSummary(w) \/ Delete(w) \/ Crash(w)
  BY <1>9, WriteKeeps, WriteFailsKeeps, SaveSummaryKeeps, DeleteKeeps, CrashKeeps
<1>10. ASSUME NEW m \in Mint, Evict(w, m)
       PROVE  IndexInv'
  BY <1>10, EvictKeeps
<1> QED BY <1>2, <1>3, <1>4, <1>5, <1>6, <1>7, <1>8, <1>9, <1>10 DEF Step

LEMMA IndexStep == IndexInv /\ [Next]_vars => IndexInv'
<1> SUFFICES ASSUME IndexInv, [Next]_vars
             PROVE  IndexInv'
  OBVIOUS
<1>1. CASE UNCHANGED vars
  <2>1. StoreOK'
    BY <1>1 DEF vars, IndexInv, StoreOK, store, world, history
  <2> QED BY <1>1, <2>1, WorldKeeps DEF vars, store
<1>2. ASSUME NEW w \in Worker, Step(w)
      PROVE  IndexInv'
  BY <1>2, StepKeeps
<1>3. ASSUME NEW m \in Mint, Trade(m) \/ GrowOld(m)
      PROVE  IndexInv'
  BY <1>3, WorldStepKeeps
<1>4. CASE NextDay
  <2>1. day' \in 0..MaxDay
    BY <1>4, ConstantTypes DEF NextDay, IndexInv, StoreOK
  <2>2. StoreOK'
    BY <1>4, <2>1 DEF NextDay, IndexInv, StoreOK, store, history
  <2> QED BY <1>4, <2>2, WorldKeeps DEF NextDay, store
<1>5. ASSUME NEW u \in Uri,
             CheckUri(u) \/ IssueUri(u) \/ IssueExpires(u) \/ ClaimLapses(u)
      PROVE  IndexInv'
  BY <1>5, ReissueKeeps
<1> QED BY <1>1, <1>2, <1>3, <1>4, <1>5 DEF Next, Pass, Reissue, Work

\* IndexInv holds throughout: it is where the four promises below come from.
THEOREM IndexAccounted == Spec => []IndexInv
BY IndexInit, IndexStep, PTL DEF Spec

\* While a URI is bound it lists no coin but the one it is bound to, whatever races for it, dies, is
\* evicted or outlives the binding, and however often the URI is issued again (registerLaunch,
\* indexer.mjs:772): a launch by URI is stored only under a binding to it, and a binding never gets
\* another coin.
THEOREM OneCoinPerUri == Spec => []UriListsOneCoin
<1>1. IndexInv => UriListsOneCoin
  BY DEF IndexInv, UrisKept, UriListsOneCoin
<1> QED BY <1>1, IndexAccounted, PTL

\* However many requests of a launcher run at once, a day's launches are no more than its allowance
\* and the writes whose answers were lost (takeLaunchSlot): each has a slot of that day's count.
THEOREM AllowanceKept == Spec => []DailyAllowance
<1>1. IndexInv => DailyAllowance
  <2> SUFFICES ASSUME IndexInv, NEW d \in 0..MaxDay
               PROVE  Cardinality(MadeOn(d)) <= launchesPerWallet + faults
    BY DEF DailyAllowance, MadeOn
  <2>1. Cardinality(MadeOn(d)) + Cardinality(Holders(d)) <= slots[d] + faults
    BY DEF IndexInv, SlotsKept
  <2>2. faults \in Nat /\ slots[d] \in 0..launchesPerWallet
    BY DEF IndexInv, StoreOK
  <2> QED BY <2>1, <2>2, ConstantTypes, HoldersBound
<1> QED BY <1>1, IndexAccounted, PTL

\* A launch nobody works on is listed as one, unless it was deleted or a worker died (saveSummary):
\* until a worker that wrote it lists it, that worker is still on its way.
THEOREM LaunchesListed == Spec => []LaunchListed
<1>1. IndexInv => LaunchListed
  BY DEF IndexInv, LaunchesServed, LaunchListed, Served, Serves, MintOf
<1> QED BY <1>1, IndexAccounted, PTL

\* What one step leaves of a launch.
LaunchKept(m) ==
    IsNative(m) => IF coin'[m] = None THEN m \in old \ Quantum /\ ~coin[m].behind
                   ELSE coin'[m].provenance = coin[m].provenance

LEMMA StepKeepsLaunch ==
    ASSUME IndexInv, NEW w \in Worker, Step(w), NEW m \in Mint
    PROVE  LaunchKept(m)
<1> SUFFICES ASSUME IsNative(m), coin'[m] # coin[m]
             PROVE  LaunchKept(m)
  BY DEF LaunchKept, IsNative
<1>1. ASSUME NEW n \in Mint, Evict(w, n)
      PROVE  LaunchKept(m)
  <2>1. m = n /\ IsStale(m) /\ coin'[m] = None
    BY <1>1 DEF Evict, IndexInv, StoreOK, IsNative
  <2> QED BY <2>1 DEF LaunchKept, IsStale
<1>2. CASE Write(w) \/ WriteFails(w)
  <2>1. Store(w) /\ NextRecord(w) # None
    BY <1>2 DEF Write, WriteFails, LeaveStored
  <2>2. /\ At(w, "write") /\ CoinFree(MintOf(w)) /\ faults' \in Nat
        /\ UNCHANGED <<listed, issued, claim, slots, chain, day, checked, dropped, lapsed>>
    BY <1>2 DEF Write, WriteFails, IndexInv, StoreOK
  <2>3. coin'[m] # None /\ coin'[m].provenance = coin[m].provenance
    BY <2>1, <2>2, StoreDoes
  <2> QED BY <2>3 DEF LaunchKept
<1>3. CASE Delete(w)
  <2>1. m \in worker[w].gone
    BY <1>3 DEF Delete
  <2>2. ~IsNative(m)
    BY <1>3, <2>1, AtWork DEF Delete, At, Fits
  <2> QED BY <2>2
<1>4. \/ \E n \in Mint : Evict(w, n)
      \/ Write(w) \/ WriteFails(w) \/ Delete(w)
  BY DEF Step, Register, Track, Sync, Begin, Relist, ReadIssued, ClaimUri, Verify, Admit, Unlist,
     NothingEvicted, Recount, TakeSlot, ReadChain, Refund, Consume, ReadStored, SaveSummary,
     Forget, Forgotten, Crash, store
<1> QED BY <1>1, <1>2, <1>3, <1>4

\* A launch stays the launch it is: writes keep its provenance, and only an eviction, of a stale
\* one, deletes it (applyHeal, evictStale, forget).
THEOREM LaunchesStay == Spec => LaunchStays
<1>1. IndexInv /\ [Next]_vars => [\A m \in Mint : LaunchKept(m)]_vars
  <2> SUFFICES ASSUME IndexInv, Next, NEW m \in Mint
               PROVE  LaunchKept(m)
    OBVIOUS
  <2>1. ASSUME NEW w \in Worker, Step(w)
        PROVE  LaunchKept(m)
    BY <2>1, StepKeepsLaunch
  <2>2. CASE UNCHANGED coin
    BY <2>2 DEF LaunchKept, IsNative
  <2> QED BY <2>1, <2>2 DEF Next, Pass, Reissue, Work, Trade, GrowOld, NextDay,
     CheckUri, IssueUri, IssueExpires, ClaimLapses, store
<1>2. [\A m \in Mint : LaunchKept(m)]_vars
         <=> [\A m \in Mint :
                IsNative(m) =>
                  IF coin'[m] = None THEN m \in old \ Quantum /\ ~coin[m].behind
                  ELSE coin'[m].provenance = coin[m].provenance]_vars
  BY DEF LaunchKept
<1> QED BY <1>1, <1>2, IndexAccounted, PTL DEF Spec, LaunchStays

-----------------------------------------------------------------------------
(* The leases of the file store, for any number of callers in any number   *)
(* of processes: a live lease is where its holder left it, in the file or  *)
(* with the one call that moved it aside; while it is moved aside nothing  *)
(* live is in the file, so no second one can be given without the loss     *)
(* that OneHolder excepts.                                                 *)

Active(c)  == call[c].at # "idle"
Setting(c) == Active(c) /\ call[c].for = "set"

Call == [ at : {"idle", "link", "look", "aside", "match"}, for : {"set", "release"},
          id : Nat, attempt : Nat, moved : Nat ]

LeaseType ==
    /\ entry \in Nat /\ tried \in Nat /\ lost \in BOOLEAN
    /\ lease \in [Caller -> Nat]
    /\ call \in [Caller -> Call]
    /\ \A c \in Caller : call[c].at = "link" => call[c].for = "set"

\* No number is beyond those tried.
Bounded ==
    /\ entry <= tried
    /\ \A c \in Caller : lease[c] <= tried /\ call[c].id <= tried /\ call[c].moved <= tried

\* A lease has one caller, and one that is given back has none.
Held ==
    /\ \A c, d \in Caller : c # d /\ lease[c] # NoLease => lease[c] # lease[d]
    /\ \A c, d \in Caller : Active(c) => call[c].id # NoLease /\ lease[d] # call[c].id

\* A lease still tried for is nowhere yet.
Untaken ==
    \A c \in Caller : Setting(c) =>
        /\ entry # call[c].id
        /\ \A d \in Caller : call[d].moved # call[c].id
        /\ \A d \in Caller : c # d /\ Active(d) => call[d].id # call[c].id

\* One live lease at most is moved aside, and none is in the file then.
InAir == \A c, d \in Caller : InTheAir(c) => ~live(entry) /\ (InTheAir(d) => c = d)

\* A live lease is in the file or moved aside.
OnFile ==
    \A c \in Caller : live(lease[c]) =>
        \/ entry = lease[c]
        \/ \E d \in Caller : InTheAir(d) /\ call[d].moved = lease[c]

LeaseInv == LeaseType /\ Bounded /\ Held /\ Untaken /\ (~lost => InAir /\ OnFile)

-----------------------------------------------------------------------------

LEMMA NoCallFields ==
    NoCall \in Call /\ NoCall.at = "idle" /\ NoCall.id = 0 /\ NoCall.moved = 0
  BY DEF NoCall, NoLease, Call

LEMMA InitLeaseInv == LeaseInit => LeaseInv
<1> SUFFICES ASSUME LeaseInit PROVE LeaseInv
  OBVIOUS
<1>1. \A c \in Caller : /\ call[c] \in Call /\ ~Active(c)
                        /\ call[c].id = 0 /\ call[c].moved = 0 /\ call[c].at = "idle"
  BY DEF LeaseInit, NoCall, NoLease, Call, Active
<1>2. entry = 0 /\ tried = 0 /\ lost = FALSE /\ lease = [c \in Caller |-> 0]
  BY DEF LeaseInit, NoLease
<1>5. call \in [Caller -> Call]
  BY NoCallFields DEF LeaseInit
<1>6. LeaseType
  BY <1>1, <1>2, <1>5 DEF LeaseType
<1>7. Bounded
  BY <1>1, <1>2 DEF Bounded
<1>3. Held /\ Untaken
  BY <1>1 DEF LeaseInit, Held, Untaken, Setting
<1>4. InAir /\ OnFile
  BY <1>1 DEF LeaseInit, InAir, OnFile, InTheAir, live
<1> QED
  BY <1>3, <1>4, <1>6, <1>7 DEF LeaseInv

\* What a step of one caller does to the calls.
LEMMA NowChanges ==
    ASSUME LeaseType, NEW c \in Caller, NEW doing \in Call, Now(c, doing)
    PROVE  /\ call' \in [Caller -> Call]
           /\ call'[c] = doing
           /\ \A d \in Caller : d # c => call'[d] = call[d]
  BY DEF LeaseType, Now

\* The fields of a call.
LEMMA CallFields ==
    ASSUME LeaseType
    PROVE  /\ \A c \in Caller : /\ call[c].id \in Nat /\ call[c].moved \in Nat
                                /\ call[c].attempt \in Nat /\ lease[c] \in Nat
           /\ entry \in Nat /\ tried \in Nat
  BY DEF LeaseType, Call

-----------------------------------------------------------------------------
(* A call that goes on, or ends: its lease is the one it was for.          *)

LEMMA CallGoesOn ==
    ASSUME LeaseInv, NEW c \in Caller, NEW doing \in Call, Now(c, doing), Active(c),
           doing = NoCall \/ (doing.id = call[c].id /\ doing.for = call[c].for),
           doing.at = "link" => doing.for = "set",
           doing.moved \in {0, call[c].moved, entry},
           entry' \in {entry, 0, call[c].moved},
           lost' \in BOOLEAN, UNCHANGED <<lease, tried>>
    PROVE  LeaseType' /\ Bounded' /\ Held' /\ Untaken'
<1> USE DEF NoLease
<1>1. LeaseType /\ Bounded /\ Held /\ Untaken
  BY DEF LeaseInv
<1>2. /\ call' \in [Caller -> Call] /\ call'[c] = doing
      /\ \A d \in Caller : d # c => call'[d] = call[d]
  BY <1>1, NowChanges
<1>3. /\ \A d \in Caller : call[d].id \in Nat /\ call[d].moved \in Nat /\ lease[d] \in Nat
      /\ entry \in Nat /\ tried \in Nat
  BY <1>1, CallFields
<1>4. LeaseType'
  BY <1>1, <1>2, <1>3 DEF LeaseType
<1>5. \/ doing.at = "idle" /\ doing.id = 0 /\ doing.moved = 0
      \/ doing.id = call[c].id /\ doing.for = call[c].for
  BY NoCallFields
<1>6. Bounded'
  <2>1. entry' <= tried'
    BY <1>1, <1>3 DEF Bounded
  <2>2. \A d \in Caller : lease'[d] <= tried' /\ call'[d].id <= tried'
    BY <1>1, <1>2, <1>3, <1>5 DEF Bounded
  <2>3. \A d \in Caller : call'[d].moved <= tried'
    BY <1>1, <1>2, <1>3 DEF Bounded
  <2> QED
    BY <2>1, <2>2, <2>3 DEF Bounded
<1>7. \A d \in Caller : Active(d)' => /\ Active(d) /\ call'[d].id = call[d].id
                                      /\ call'[d].for = call[d].for
  BY <1>2, <1>5 DEF Active
<1>8. Held'
  BY <1>1, <1>7 DEF Held
<1>9. Untaken'
  <2> SUFFICES ASSUME NEW d \in Caller, Setting(d)'
               PROVE  /\ entry' # call'[d].id
                      /\ \A e \in Caller : call'[e].moved # call'[d].id
                      /\ \A e \in Caller : d # e /\ Active(e)' => call'[e].id # call'[d].id
    BY DEF Untaken
  <2>1. Setting(d) /\ call'[d].id = call[d].id
    BY <1>7 DEF Setting
  <2>2. /\ entry # call[d].id /\ 0 # call[d].id
        /\ \A e \in Caller : call[e].moved # call[d].id
    BY <1>1, <2>1 DEF Untaken, Held, Setting
  <2>3. entry' # call[d].id /\ \A e \in Caller : call'[e].moved # call[d].id
    BY <2>2, <1>2
  <2>4. \A e \in Caller : d # e /\ Active(e)' => call'[e].id # call[d].id
    BY <1>1, <1>7, <2>1 DEF Untaken
  <2> QED
    BY <2>1, <2>3, <2>4
<1> QED
  BY <1>4, <1>6, <1>8, <1>9

\* A live lease stays where it is while neither the file nor what is moved aside changes.
LEMMA StaysInPlace ==
    ASSUME InAir, OnFile, UNCHANGED <<entry, lease, expired>>,
           \A d \in Caller : (InTheAir(d)' <=> InTheAir(d)) /\ (InTheAir(d) => call'[d].moved = call[d].moved)
    PROVE  InAir' /\ OnFile'
  BY DEF InAir, OnFile, live

\* A call of another caller is in the air as before.
LEMMA OthersInAir ==
    ASSUME NEW d \in Caller, call'[d] = call[d], expired' = expired
    PROVE  InTheAir(d)' <=> InTheAir(d)
  BY DEF InTheAir, matches, live

-----------------------------------------------------------------------------
(* One lemma per action.                                                   *)

\* Setting out for the lease takes a number that is nowhere.
LEMMA AskKeeps == ASSUME LeaseInv, NEW c \in Caller, Ask(c) PROVE LeaseInv'
<1> DEFINE doing == [NoCall EXCEPT !.at = "link", !.id = tried + 1]
<1> USE DEF NoLease
<1>0. LeaseType /\ Bounded /\ Held /\ Untaken /\ (~lost => InAir /\ OnFile)
  BY DEF LeaseInv
<1>7. /\ \A d \in Caller : call[d].id \in Nat /\ call[d].moved \in Nat /\ lease[d] \in Nat
      /\ entry \in Nat /\ tried \in Nat
  BY <1>0, CallFields
<1>5. tried + 1 \in Nat /\ NoCall \in Call /\ NoCall.for = "set" /\ NoCall.moved = 0
  BY <1>7, NoCallFields DEF NoCall
<1>2. /\ doing \in Call /\ doing.at = "link" /\ doing.for = "set"
      /\ doing.id = tried + 1 /\ doing.moved = 0
  BY <1>5 DEF Call
<1>1. Now(c, doing) /\ tried' = tried + 1 /\ UNCHANGED <<entry, lease, expired, lost>>
  BY DEF Ask
<1>4. call[c].at = "idle"
  BY NoCallFields DEF Ask, serialized
<1> HIDE DEF doing
<1>3. /\ call' \in [Caller -> Call] /\ call'[c] = doing
      /\ \A d \in Caller : d # c => call'[d] = call[d]
  BY <1>0, <1>1, <1>2, NowChanges
<1>6. LeaseType'
  BY <1>0, <1>1, <1>2, <1>3, <1>7 DEF LeaseType
<1>8. Bounded'
  BY <1>0, <1>1, <1>2, <1>3, <1>7 DEF Bounded
<1>9. Held'
  BY <1>0, <1>1, <1>2, <1>3, <1>7 DEF Held, Active, Bounded
<1>10. Untaken'
  <2> SUFFICES ASSUME NEW d \in Caller, Setting(d)'
               PROVE  /\ entry # call'[d].id
                      /\ \A e \in Caller : call'[e].moved # call'[d].id
                      /\ \A e \in Caller : d # e /\ Active(e)' => call'[e].id # call'[d].id
    BY <1>1 DEF Untaken
  <2>1. CASE d = c
    BY <2>1, <1>0, <1>2, <1>3, <1>7 DEF Bounded
  <2>2. CASE d # c
    <3>1. call'[d] = call[d] /\ Setting(d)
      BY <2>2, <1>3 DEF Setting, Active
    <3>2. call[d].id # 0 /\ call[d].id <= tried
      BY <3>1, <1>0 DEF Held, Bounded, Setting
    <3>3. entry # call[d].id /\ \A e \in Caller : call'[e].moved # call[d].id
      BY <3>1, <3>2, <1>0, <1>2, <1>3 DEF Untaken
    <3>4. \A e \in Caller : d # e /\ Active(e)' => call'[e].id # call[d].id
      BY <3>1, <3>2, <1>0, <1>2, <1>3, <1>7 DEF Untaken, Active
    <3> QED
      BY <3>1, <3>3, <3>4
  <2> QED
    BY <2>1, <2>2
<1>11. \A d \in Caller : /\ InTheAir(d)' <=> InTheAir(d)
                         /\ InTheAir(d) => call'[d].moved = call[d].moved
  BY <1>1, <1>2, <1>3, <1>4, OthersInAir DEF InTheAir
<1>12. ~lost => InAir' /\ OnFile'
  BY <1>0, <1>1, <1>11, StaysInPlace
<1> QED
  BY <1>1, <1>6, <1>8, <1>9, <1>10, <1>12 DEF LeaseInv

LEMMA LinkFailsKeeps == ASSUME LeaseInv, NEW c \in Caller, LinkFails(c) PROVE LeaseInv'
<1> DEFINE doing == [call[c] EXCEPT !.at = "look"]
<1>1. LeaseType /\ (~lost => InAir /\ OnFile)
  BY DEF LeaseInv
<1>2. Now(c, doing) /\ UNCHANGED <<entry, lease, expired, tried, lost>>
  BY DEF LinkFails
<1>3. call[c] \in Call /\ call[c].at = "link" /\ Active(c)
  BY <1>1 DEF LeaseType, LinkFails, Active
<1>4. /\ doing \in Call /\ doing.at = "look" /\ doing.id = call[c].id /\ doing.for = call[c].for
      /\ doing.moved = call[c].moved
  BY <1>3 DEF Call
<1> HIDE DEF doing
<1>5. LeaseType' /\ Bounded' /\ Held' /\ Untaken'
  BY <1>1, <1>2, <1>3, <1>4, CallGoesOn DEF LeaseType
<1>6. call'[c] = doing /\ \A d \in Caller : d # c => call'[d] = call[d]
  BY <1>1, <1>2, <1>4, NowChanges
<1>7. \A d \in Caller : (InTheAir(d)' <=> InTheAir(d)) /\ (InTheAir(d) => call'[d].moved = call[d].moved)
  BY <1>2, <1>3, <1>4, <1>6, OthersInAir DEF InTheAir
<1> QED
  BY <1>1, <1>2, <1>5, <1>7, StaysInPlace DEF LeaseInv

LEMMA LookKeeps == ASSUME LeaseInv, NEW c \in Caller, Look(c) PROVE LeaseInv'
<1>1. LeaseType /\ (~lost => InAir /\ OnFile)
  BY DEF LeaseInv
<1>2. PICK doing \in {[call[c] EXCEPT !.at = "aside"], NoCall} : Now(c, doing)
  BY DEF Look
<1>3. UNCHANGED <<entry, lease, expired, tried, lost>>
  BY DEF Look
<1>4. call[c] \in Call /\ call[c].at = "look" /\ Active(c)
  BY <1>1 DEF LeaseType, Look, Active
<1>5. /\ doing \in Call /\ doing.at \in {"aside", "idle"}
      /\ doing = NoCall \/ (doing.id = call[c].id /\ doing.for = call[c].for)
      /\ doing.moved \in {0, call[c].moved}
  <2>1. CASE doing = NoCall
    BY <2>1, NoCallFields
  <2>2. CASE doing = [call[c] EXCEPT !.at = "aside"]
    BY <2>2, <1>4 DEF Call
  <2> QED
    BY <2>1, <2>2
<1>6. LeaseType' /\ Bounded' /\ Held' /\ Untaken'
  BY <1>1, <1>2, <1>3, <1>4, <1>5, CallGoesOn DEF LeaseType
<1>7. call'[c] = doing /\ \A d \in Caller : d # c => call'[d] = call[d]
  BY <1>1, <1>2, <1>5, NowChanges
<1>8. \A d \in Caller : (InTheAir(d)' <=> InTheAir(d)) /\ (InTheAir(d) => call'[d].moved = call[d].moved)
  BY <1>3, <1>4, <1>5, <1>7, OthersInAir DEF InTheAir
<1> QED
  BY <1>1, <1>3, <1>6, <1>8, StaysInPlace DEF LeaseInv

\* What removeIf leaves of the call.
LEMMA RemovedGoes ==
    ASSUME LeaseType, NEW c \in Caller, Removed(c)
    PROVE  \E doing \in Call :
               /\ Now(c, doing) /\ doing.at \in {"link", "idle"} /\ doing.moved = 0
               /\ doing = NoCall \/ (doing.id = call[c].id /\ doing.for = call[c].for)
               /\ doing.at = "link" => doing.for = "set"
<1> USE DEF NoLease
<1>1. call[c] \in Call
  BY DEF LeaseType
<1>4. call[c].attempt \in Nat /\ call[c].attempt + 1 \in Nat
  BY CallFields
<1> DEFINE again == [call[c] EXCEPT !.at = "link", !.attempt = @ + 1, !.moved = NoLease]
<1>2. /\ again \in Call /\ again.at = "link" /\ again.moved = 0
      /\ again.id = call[c].id /\ again.for = call[c].for
  BY <1>1, <1>4 DEF Call
<1>3. (call[c].for = "set" /\ Now(c, again)) \/ Now(c, NoCall)
  BY DEF Removed
<1> HIDE DEF again
<1> QED
  BY <1>2, <1>3, NoCallFields

LEMMA MoveAsideKeeps == ASSUME LeaseInv, NEW c \in Caller, MoveAside(c) PROVE LeaseInv'
<1> USE DEF NoLease
<1> DEFINE moves == [call[c] EXCEPT !.at = "match", !.moved = entry]
<1>1. LeaseType /\ Held /\ Untaken /\ (~lost => InAir /\ OnFile)
  BY DEF LeaseInv
<1>2. entry' = 0 /\ UNCHANGED <<lease, expired, tried, lost>>
  BY DEF MoveAside
<1>3. call[c] \in Call /\ call[c].at = "aside" /\ Active(c) /\ entry \in Nat
  BY <1>1 DEF LeaseType, MoveAside, Active
<1>4. /\ moves \in Call /\ moves.at = "match" /\ moves.moved = entry
      /\ moves.id = call[c].id /\ moves.for = call[c].for
  BY <1>3 DEF Call
<1>5. (entry = 0 /\ Removed(c)) \/ (entry # 0 /\ Now(c, moves))
  BY DEF MoveAside
<1> HIDE DEF moves
<1>6. CASE entry = 0 /\ Removed(c)
  <2>1. PICK doing \in Call :
          /\ Now(c, doing) /\ doing.at \in {"link", "idle"} /\ doing.moved = 0
          /\ doing = NoCall \/ (doing.id = call[c].id /\ doing.for = call[c].for)
          /\ doing.at = "link" => doing.for = "set"
    BY <1>1, <1>6, RemovedGoes
  <2>2. LeaseType' /\ Bounded' /\ Held' /\ Untaken'
    BY <1>1, <1>2, <1>3, <2>1, CallGoesOn DEF LeaseType
  <2>3. call'[c] = doing /\ \A d \in Caller : d # c => call'[d] = call[d]
    BY <1>1, <2>1, NowChanges
  <2>4. \A d \in Caller : (InTheAir(d)' <=> InTheAir(d)) /\ (InTheAir(d) => call'[d].moved = call[d].moved)
    BY <1>2, <1>3, <2>1, <2>3, OthersInAir DEF InTheAir
  <2> QED
    BY <1>1, <1>2, <1>6, <2>2, <2>4, StaysInPlace DEF LeaseInv
<1>7. CASE entry # 0 /\ Now(c, moves)
  <2>1. LeaseType' /\ Bounded' /\ Held' /\ Untaken'
    BY <1>1, <1>2, <1>3, <1>4, <1>7, CallGoesOn DEF LeaseType
  <2>2. call'[c] = moves /\ \A d \in Caller : d # c => call'[d] = call[d]
    BY <1>1, <1>4, <1>7, NowChanges
  <2>3. \A d \in Caller : d # c => (InTheAir(d)' <=> InTheAir(d)) /\ call'[d].moved = call[d].moved
    BY <1>2, <2>2, OthersInAir
  <2>4. ~InTheAir(c)
    BY <1>3 DEF InTheAir
  <2>5. InTheAir(c)' => live(entry)
    BY <1>2, <1>4, <2>2 DEF InTheAir, live
  <2>6. ~live(entry)'
    BY <1>2 DEF live
  <2>7. ASSUME ~lost PROVE InAir'
    BY <1>1, <2>3, <2>5, <2>6, <2>7 DEF InAir, live
  <2>8. ASSUME ~lost, NEW d \in Caller, live(lease[d])'
        PROVE  \E e \in Caller : InTheAir(e)' /\ call'[e].moved = lease'[d]
    <3>1. live(lease[d])
      BY <1>2, <2>8 DEF live
    <3>2. CASE \E e \in Caller : InTheAir(e) /\ call[e].moved = lease[d]
      BY <3>2, <1>2, <2>3, <2>4
    <3>3. CASE entry = lease[d]
      <4>1. call[c].id # lease[d]
        BY <1>1, <1>3 DEF Held
      <4>2. ~matches(c)'
        BY <3>1, <3>3, <4>1, <1>2, <1>4, <2>2 DEF matches, live
      <4>3. InTheAir(c)' /\ call'[c].moved = lease'[d]
        BY <3>1, <3>3, <4>2, <1>2, <1>4, <2>2 DEF InTheAir, live
      <4> QED
        BY <4>3
    <3> QED
      BY <3>1, <3>2, <3>3, <1>1, <2>8 DEF OnFile
  <2> QED
    BY <1>1, <1>2, <2>1, <2>7, <2>8 DEF LeaseInv, OnFile
<1> QED
  BY <1>5, <1>6, <1>7

LEMMA MatchKeeps == ASSUME LeaseInv, NEW c \in Caller, Match(c) PROVE LeaseInv'
<1> USE DEF NoLease
<1>1. LeaseType /\ (~lost => InAir /\ OnFile)
  BY DEF LeaseInv
<1>2. /\ entry' = IF PutBack(c) /\ entry = 0 THEN call[c].moved ELSE entry
      /\ lost' = (lost \/ (InTheAir(c) /\ entry # 0))
      /\ Removed(c) /\ UNCHANGED <<lease, expired, tried>>
  BY DEF Match
<1>3. call[c] \in Call /\ call[c].at = "match" /\ Active(c) /\ entry \in Nat /\ lost \in BOOLEAN
  BY <1>1 DEF LeaseType, Match, Active
<1>4. PICK doing \in Call :
        /\ Now(c, doing) /\ doing.at \in {"link", "idle"} /\ doing.moved = 0
        /\ doing = NoCall \/ (doing.id = call[c].id /\ doing.for = call[c].for)
        /\ doing.at = "link" => doing.for = "set"
  BY <1>1, <1>2, RemovedGoes
<1>5. lost' \in BOOLEAN /\ entry' \in {entry, 0, call[c].moved}
  BY <1>2, <1>3
<1>6. LeaseType' /\ Bounded' /\ Held' /\ Untaken'
  BY <1>2, <1>3, <1>4, <1>5, CallGoesOn
<1>7. call'[c] = doing /\ \A d \in Caller : d # c => call'[d] = call[d]
  BY <1>1, <1>4, NowChanges
<1>8. ~InTheAir(c)'
  BY <1>4, <1>7 DEF InTheAir
<1>9. \A d \in Caller : d # c => (InTheAir(d)' <=> InTheAir(d)) /\ call'[d].moved = call[d].moved
  BY <1>2, <1>7, OthersInAir
<1>10. ASSUME ~lost' PROVE InAir' /\ OnFile'
  <2>1. InAir /\ OnFile /\ (InTheAir(c) => entry = 0)
    BY <1>1, <1>2, <1>10
  <2>2. CASE InTheAir(c)
    <3>1. entry' = call[c].moved
      BY <2>1, <2>2, <1>2 DEF InTheAir, PutBack
    <3>2. \A d \in Caller : ~InTheAir(d)'
      BY <2>1, <2>2, <1>8, <1>9 DEF InAir
    <3>3. \A d \in Caller : live(lease[d]) => lease[d] = call[c].moved
      BY <2>1, <2>2 DEF OnFile, InAir, live
    <3> QED
      BY <3>1, <3>2, <3>3, <1>2 DEF InAir, OnFile, live
  <2>3. CASE ~InTheAir(c)
    <3>1. entry' = entry \/ (entry = 0 /\ ~live(entry'))
      BY <2>3, <1>2, <1>3 DEF InTheAir, PutBack, live
    <3>2. InAir'
      BY <3>1, <2>1, <1>2, <1>8, <1>9 DEF InAir, live
    <3>3. OnFile'
      BY <3>1, <2>1, <2>3, <1>2, <1>9 DEF OnFile, live
    <3> QED
      BY <3>2, <3>3
  <2> QED
    BY <2>2, <2>3
<1> QED
  BY <1>6, <1>10 DEF LeaseInv

\* A lease is given only while no live one is anywhere, or with the loss.
LEMMA LinkKeeps == ASSUME LeaseInv, NEW c \in Caller, Link(c) PROVE LeaseInv'
<1> USE DEF NoLease
<1>1. LeaseType /\ Bounded /\ Held /\ Untaken /\ (~lost => InAir /\ OnFile)
  BY DEF LeaseInv
<1>2. /\ entry = 0 /\ entry' = call[c].id /\ Now(c, NoCall)
      /\ lost' = (lost \/ \E d \in Caller : InTheAir(d))
      /\ UNCHANGED <<expired, tried>>
  BY DEF Link
<1>3. /\ \A d \in Caller : call[d].id \in Nat /\ call[d].moved \in Nat /\ lease[d] \in Nat
      /\ tried \in Nat
  BY <1>1, CallFields
<1>4. lease' = [lease EXCEPT ![c] = call[c].id]
  BY DEF Link
<1>5. /\ lease' \in [Caller -> Nat] /\ lease'[c] = call[c].id
      /\ \A d \in Caller : d # c => lease'[d] = lease[d]
  BY <1>1, <1>3, <1>4 DEF LeaseType
<1>6. /\ call' \in [Caller -> Call] /\ call'[c] = NoCall
      /\ \A d \in Caller : d # c => call'[d] = call[d]
  BY <1>1, <1>2, NoCallFields, NowChanges
<1>7. ~Active(c)' /\ call'[c].id = 0 /\ call'[c].moved = 0 /\ call'[c].at = "idle"
  BY <1>6, NoCallFields DEF Active
<1>8. Setting(c)
  BY <1>1 DEF Link, Setting, Active, LeaseType
<1>9. \A d \in Caller : d # c => (Active(d)' <=> Active(d)) /\ (Setting(d)' <=> Setting(d))
  BY <1>6 DEF Active, Setting
<1>10. LeaseType'
  BY <1>1, <1>2, <1>3, <1>5, <1>6, <1>7 DEF LeaseType
<1>11. Bounded'
  BY <1>1, <1>2, <1>3, <1>5, <1>6, <1>7 DEF Bounded
<1>12. \A d \in Caller : d # c /\ Active(d) => call[d].id # call[c].id
  BY <1>1, <1>8 DEF Untaken
<1>13. Held'
  <2>1. \A d \in Caller : lease[d] # call[c].id
    BY <1>1, <1>8 DEF Held, Setting
  <2>2. \A d, e \in Caller : d # e /\ lease'[d] # 0 => lease'[d] # lease'[e]
    BY <2>1, <1>1, <1>5 DEF Held
  <2>3. \A d, e \in Caller : Active(d)' => call'[d].id # 0 /\ lease'[e] # call'[d].id
    BY <1>1, <1>5, <1>6, <1>7, <1>9, <1>12 DEF Held
  <2> QED
    BY <2>2, <2>3 DEF Held
<1>14. Untaken'
  <2> SUFFICES ASSUME NEW d \in Caller, Setting(d)'
               PROVE  /\ entry' # call'[d].id
                      /\ \A e \in Caller : call'[e].moved # call'[d].id
                      /\ \A e \in Caller : d # e /\ Active(e)' => call'[e].id # call'[d].id
    BY DEF Untaken
  <2>1. d # c /\ Setting(d) /\ call'[d] = call[d]
    BY <1>6, <1>7, <1>9 DEF Setting
  <2>2. call[d].id # 0
    BY <2>1, <1>1 DEF Held, Setting
  <2>3. entry' # call[d].id
    BY <2>1, <1>2, <1>12 DEF Setting
  <2>4. \A e \in Caller : call'[e].moved # call[d].id
    BY <2>1, <2>2, <1>1, <1>6, <1>7 DEF Untaken
  <2>5. \A e \in Caller : d # e /\ Active(e)' => call'[e].id # call[d].id
    BY <2>1, <1>1, <1>6, <1>7, <1>9 DEF Untaken
  <2> QED
    BY <2>1, <2>3, <2>4, <2>5
<1>15. ASSUME ~lost' PROVE InAir' /\ OnFile'
  <2>1. InAir /\ OnFile /\ \A d \in Caller : ~InTheAir(d)
    BY <1>1, <1>2, <1>15
  <2>2. \A d \in Caller : ~InTheAir(d)'
    BY <2>1, <1>2, <1>6, <1>7, OthersInAir DEF InTheAir
  <2>3. \A d \in Caller : ~live(lease[d])
    BY <2>1, <1>2 DEF OnFile, live
  <2>4. \A d \in Caller : live(lease'[d]) => d = c
    BY <2>3, <1>5
  <2> QED
    BY <2>2, <2>4, <1>2, <1>5 DEF InAir, OnFile, live
<1> QED
  BY <1>10, <1>11, <1>13, <1>14, <1>15 DEF LeaseInv

LEMMA ReleaseKeeps == ASSUME LeaseInv, NEW c \in Caller, Release(c) PROVE LeaseInv'
<1> USE DEF NoLease
<1> DEFINE doing == [NoCall EXCEPT !.at = "look", !.for = "release", !.id = lease[c]]
<1>1. LeaseType /\ Bounded /\ Held /\ Untaken /\ (~lost => InAir /\ OnFile)
  BY DEF LeaseInv
<1>2. /\ lease[c] # 0 /\ Now(c, doing) /\ lease' = [lease EXCEPT ![c] = 0]
      /\ UNCHANGED <<entry, expired, tried, lost>>
  BY DEF Release
<1>3. /\ \A d \in Caller : call[d].id \in Nat /\ call[d].moved \in Nat /\ lease[d] \in Nat
      /\ tried \in Nat
  BY <1>1, CallFields
<1>4. /\ lease' \in [Caller -> Nat] /\ lease'[c] = 0
      /\ \A d \in Caller : d # c => lease'[d] = lease[d]
  BY <1>1, <1>2 DEF LeaseType
<1>5. /\ doing \in Call /\ doing.at = "look" /\ doing.for = "release"
      /\ doing.id = lease[c] /\ doing.moved = 0
  BY <1>3, NoCallFields DEF Call
<1>6. call[c].at = "idle"
  BY NoCallFields DEF Release, serialized
<1> HIDE DEF doing
<1>7. /\ call' \in [Caller -> Call] /\ call'[c] = doing
      /\ \A d \in Caller : d # c => call'[d] = call[d]
  BY <1>1, <1>2, <1>5, NowChanges
<1>8. \A d \in Caller : d # c => (Active(d)' <=> Active(d)) /\ (Setting(d)' <=> Setting(d))
  BY <1>7 DEF Active, Setting
<1>9. LeaseType'
  BY <1>1, <1>2, <1>3, <1>4, <1>5, <1>7 DEF LeaseType
<1>10. Bounded'
  BY <1>1, <1>2, <1>3, <1>4, <1>5, <1>7 DEF Bounded
<1>11. \A d \in Caller : d # c => lease[d] # lease[c]
  BY <1>1, <1>2 DEF Held
<1>12. Held'
  <2>1. \A d, e \in Caller : d # e /\ lease'[d] # 0 => lease'[d] # lease'[e]
    BY <1>1, <1>4 DEF Held
  <2>2. \A d, e \in Caller : Active(d)' => call'[d].id # 0 /\ lease'[e] # call'[d].id
    BY <1>1, <1>2, <1>4, <1>5, <1>7, <1>8, <1>11 DEF Held
  <2> QED
    BY <2>1, <2>2 DEF Held
<1>13. Untaken'
  <2> SUFFICES ASSUME NEW d \in Caller, Setting(d)'
               PROVE  /\ entry # call'[d].id
                      /\ \A e \in Caller : call'[e].moved # call'[d].id
                      /\ \A e \in Caller : d # e /\ Active(e)' => call'[e].id # call'[d].id
    BY <1>2 DEF Untaken
  <2>1. d # c /\ Setting(d) /\ call'[d] = call[d]
    BY <1>5, <1>7, <1>8 DEF Setting
  <2>2. call[d].id # 0 /\ lease[c] # call[d].id
    BY <2>1, <1>1 DEF Held, Setting
  <2>3. entry # call[d].id /\ \A e \in Caller : call'[e].moved # call[d].id
    BY <2>1, <2>2, <1>1, <1>5, <1>7 DEF Untaken
  <2>4. \A e \in Caller : d # e /\ Active(e)' => call'[e].id # call[d].id
    BY <2>1, <2>2, <1>1, <1>5, <1>7, <1>8 DEF Untaken
  <2> QED
    BY <2>1, <2>3, <2>4
<1>14. \A d \in Caller : /\ InTheAir(d)' <=> InTheAir(d)
                         /\ InTheAir(d) => call'[d].moved = call[d].moved
  BY <1>2, <1>5, <1>6, <1>7, OthersInAir DEF InTheAir
<1>15. ASSUME ~lost PROVE InAir' /\ OnFile'
  <2>1. InAir'
    BY <1>1, <1>2, <1>14, <1>15 DEF InAir, live
  <2>2. \A d \in Caller : live(lease[d])' => live(lease[d]) /\ lease'[d] = lease[d]
    BY <1>2, <1>4 DEF live
  <2>3. OnFile'
    BY <2>2, <1>1, <1>2, <1>14, <1>15 DEF OnFile
  <2> QED
    BY <2>1, <2>3
<1> QED
  BY <1>2, <1>9, <1>10, <1>12, <1>13, <1>15 DEF LeaseInv

LEMMA ExpireKeeps == ASSUME LeaseInv, Expire PROVE LeaseInv'
<1>1. LeaseType /\ Bounded /\ Held /\ Untaken /\ (~lost => InAir /\ OnFile)
  BY DEF LeaseInv
<1>2. UNCHANGED <<entry, call, lease, tried, lost>> /\ expired \subseteq expired'
  BY DEF Expire
<1>3. LeaseType' /\ Bounded' /\ Held' /\ Untaken'
  BY <1>1, <1>2 DEF LeaseType, Bounded, Held, Untaken, Active, Setting
<1>4. \A id : live(id)' => live(id)
  BY <1>2 DEF live
<1>5. \A c \in Caller : InTheAir(c)' <=> InTheAir(c) /\ live(call[c].moved)'
  BY <1>2, <1>4 DEF InTheAir, matches, live
<1>6. ASSUME ~lost PROVE InAir' /\ OnFile'
  <2>1. InAir'
    BY <1>1, <1>2, <1>4, <1>5, <1>6 DEF InAir, live
  <2>2. ASSUME NEW c \in Caller, live(lease[c])'
        PROVE  entry = lease[c] \/ \E d \in Caller : InTheAir(d)' /\ call[d].moved = lease[c]
    BY <2>2, <1>1, <1>2, <1>5, <1>6 DEF OnFile, live
  <2> QED
    BY <2>1, <2>2, <1>2 DEF OnFile
<1> QED
  BY <1>2, <1>3, <1>6 DEF LeaseInv

LEMMA StopKeeps == ASSUME LeaseInv, NEW p, Stop(p) PROVE LeaseInv'
<1> USE DEF NoLease
<1>1. LeaseType /\ Bounded /\ Held /\ Untaken /\ (~lost => InAir /\ OnFile)
  BY DEF LeaseInv
<1>2. /\ UNCHANGED <<entry, expired, tried>>
      /\ lost' = (lost \/ \E c \in Caller : ProcessOf[c] = p /\ InTheAir(c))
  BY DEF Stop
<1>3. /\ \A c \in Caller : call'[c] = IF ProcessOf[c] = p THEN NoCall ELSE call[c]
      /\ \A c \in Caller : lease'[c] = IF ProcessOf[c] = p THEN 0 ELSE lease[c]
  BY DEF Stop
<1>4. call' \in [Caller -> Call] /\ lease' \in [Caller -> Nat]
  BY <1>1, NoCallFields DEF Stop, LeaseType
<1>5. /\ \A d \in Caller : call[d].id \in Nat /\ call[d].moved \in Nat /\ lease[d] \in Nat
      /\ tried \in Nat /\ entry \in Nat
  BY <1>1, CallFields
<1>6. \A c \in Caller : Active(c)' => Active(c) /\ call'[c] = call[c]
  BY <1>3, NoCallFields DEF Active
<1>7. LeaseType'
  BY <1>1, <1>2, <1>3, <1>4, NoCallFields DEF LeaseType
<1>8. Bounded'
  BY <1>1, <1>2, <1>3, <1>5, NoCallFields DEF Bounded
<1>9. Held'
  BY <1>1, <1>3, <1>6 DEF Held
<1>10. Untaken'
  <2> SUFFICES ASSUME NEW d \in Caller, Setting(d)'
               PROVE  /\ entry # call'[d].id
                      /\ \A e \in Caller : call'[e].moved # call'[d].id
                      /\ \A e \in Caller : d # e /\ Active(e)' => call'[e].id # call'[d].id
    BY <1>2 DEF Untaken
  <2>1. Setting(d) /\ call'[d] = call[d]
    BY <1>6 DEF Setting
  <2>2. call[d].id # 0
    BY <2>1, <1>1 DEF Held, Setting
  <2> QED
    BY <2>1, <2>2, <1>1, <1>3, <1>6, NoCallFields DEF Untaken
<1>11. \A c \in Caller : InTheAir(c)' => InTheAir(c)
  BY <1>2, <1>3, NoCallFields, OthersInAir DEF InTheAir
<1>12. ASSUME ~lost' PROVE InAir' /\ OnFile'
  <2>1. InAir /\ OnFile /\ \A c \in Caller : InTheAir(c) => ProcessOf[c] # p
    BY <1>1, <1>2, <1>12
  <2>2. InAir'
    BY <2>1, <1>2, <1>11 DEF InAir, live
  <2>3. \A c \in Caller : InTheAir(c) => InTheAir(c)' /\ call'[c] = call[c]
    BY <2>1, <1>2, <1>3, OthersInAir
  <2>4. \A c \in Caller : live(lease[c])' => live(lease[c]) /\ lease'[c] = lease[c]
    BY <1>2, <1>3 DEF live
  <2> QED
    BY <2>1, <2>2, <2>3, <2>4, <1>2 DEF OnFile
<1> QED
  BY <1>7, <1>8, <1>9, <1>10, <1>12 DEF LeaseInv

-----------------------------------------------------------------------------

\* Every step keeps the account of where the leases are.
LEMMA NextLeaseInv == LeaseInv /\ [LeaseNext]_leaseVars => LeaseInv'
<1> SUFFICES ASSUME LeaseInv, [LeaseNext]_leaseVars PROVE LeaseInv'
  OBVIOUS
<1>1. CASE UNCHANGED leaseVars
  BY <1>1 DEF leaseVars, LeaseInv, LeaseType, Bounded, Held, Untaken, InAir, OnFile, Active,
              Setting, InTheAir, matches, live
<1>2. CASE LeaseNext
  BY <1>2, AskKeeps, LinkKeeps, LinkFailsKeeps, LookKeeps, ReleaseKeeps, MoveAsideKeeps,
     MatchKeeps, ExpireKeeps, StopKeeps DEF LeaseNext
<1> QED
  BY <1>1, <1>2

\* The inductive invariant: a live lease is in the file, or with the one call that moved it aside
\* while nothing live is in the file - until one is lost.
THEOREM LeasesAccounted == LeaseSpec => []LeaseInv
  BY InitLeaseInv, NextLeaseInv, PTL DEF LeaseSpec

\* OneHolder for any callers, processes and number of leases: link, look and the two-step removal
\* (setNx, removeIf, release) never give a lease to two, except by the loss the file store's rename
\* leaves open.
THEOREM OneHolderAlways == LeaseSpec => []OneHolder
<1>1. LeaseInv => OneHolder
  <2> SUFFICES ASSUME LeaseInv, ~lost, NEW c \in Caller, NEW d \in Caller, c # d,
                      live(lease[c]), live(lease[d])
               PROVE  FALSE
    BY DEF OneHolder
  <2>1. Held /\ InAir /\ OnFile
    BY DEF LeaseInv
  <2>2. lease[c] # lease[d]
    BY <2>1 DEF Held, live
  <2> QED
    BY <2>1, <2>2 DEF OnFile, InAir
<1> QED
  BY <1>1, LeasesAccounted, PTL
=============================================================================
