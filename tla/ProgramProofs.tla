---------------------------- MODULE ProgramProofs ----------------------------
(***************************************************************************)
(* Proofs about the program beside its pulses: the changes of its config   *)
(* (ConfigUpdates), for any keys, fields, values and lists and any number  *)
(* of changes; and the lock (TimeDilation, as D), for every supply, every  *)
(* lock terms and every clock.                                             *)
(*                                                                         *)
(* Config: a version is the number of changes before it, so an instruction *)
(* pinned to the version its operator was shown can only land on that very *)
(* content; and when no second read is older than the first (~NodesLag),   *)
(* the values an update filled in were read at that content or later,      *)
(* hence - it is still the last one - at it.                               *)
(*                                                                         *)
(* Lock: LockInv adds to the types that the lock's account holds the       *)
(* unreleased rest, that a lock's cliff lies inside it and that its start  *)
(* lies in the past (LockShape), and that the releases so far obey the     *)
(* schedule.                                                               *)
(***************************************************************************)
EXTENDS ConfigUpdates, LockState, TLAPS

D == INSTANCE TimeDilation

-----------------------------------------------------------------------------
(* The config.                                                             *)

\* A pinned instruction names the version of the content that was shown.
Pinned ==
    \A ix \in pending : ix.kind # "paused" => ix.expected = ix.shown - 1

\* The values an update fills in were served by a node no older than the first read.
FilledIn ==
    \A ix \in pending : ix.kind = "update" =>
        \E current \in SecondRead(ix.shown) :
            \A f \in Field \ ix.asked : ix.fields[f] = past[current].fields[f]

UpdateInv == TypeOK /\ Pinned /\ FilledIn

LEMMA InitUpdateInv == Init => UpdateInv
<1> SUFFICES ASSUME Init PROVE UpdateInv
    OBVIOUS
<1>1. PICK f \in [Field -> Value], l \in Lists :
          past = << [fields |-> f, paused |-> FALSE, launch |-> l, version |-> 0] >>
    BY DEF Init
<1>2. past \in Seq(Content) /\ Len(past) = 1 /\ past[1].version = 0
    BY <1>1 DEF Content
<1>3. TypeOK
    BY <1>2 DEF Init, TypeOK
<1> QED
    BY <1>3 DEF Init, UpdateInv, Pinned, FilledIn

\* An instruction that is built joins the pending ones; what was pending stays as it was.
LEMMA BuildKeeps ==
    ASSUME UpdateInv, NEW ix, Build(ix), ix \in Instruction,
           ix.kind # "paused" => ix.expected = ix.shown - 1,
           ix.kind = "update" =>
               \E current \in SecondRead(ix.shown) :
                   \A f \in Field \ ix.asked : ix.fields[f] = past[current].fields[f]
    PROVE  /\ pending' \subseteq Instruction'
           /\ past' = past
           /\ Pinned' /\ FilledIn'
<1>1. past' = past /\ pending' = pending \cup {ix}
    BY DEF Build
<1> QED
    BY <1>1 DEF UpdateInv, TypeOK, Instruction, Pinned, FilledIn, SecondRead

LEMMA ReadKeeps ==
    ASSUME UpdateInv, NEW o \in Operator, ReadConfig(o)
    PROVE  UpdateInv'
<1>1. PICK shown \in 1..Len(past) : tool' = [tool EXCEPT ![o] = shown]
    BY DEF ReadConfig
<1>2. past' = past /\ pending' = pending
    BY DEF ReadConfig
<1>3. tool' \in [Operator -> {Idle} \cup 1..Len(past)]
    BY <1>1 DEF UpdateInv, TypeOK
<1> QED
    BY <1>2, <1>3 DEF UpdateInv, TypeOK, Instruction, Pinned, FilledIn, SecondRead

LEMMA BuildUpdateKeeps ==
    ASSUME UpdateInv, NEW o \in Operator, BuildUpdate(o)
    PROVE  UpdateInv'
<1> DEFINE shown == tool[o]
           Ix(asked, current) == [ kind |-> "update", signer |-> o, shown |-> shown,
                            expected |-> past[shown].version, asked |-> DOMAIN asked,
                            fields |-> [f \in Field |-> IF f \in DOMAIN asked THEN asked[f]
                                                        ELSE past[current].fields[f]] ]
<1>1. PICK asked \in Changes, current \in SecondRead(shown) : Build(Ix(asked, current))
    BY DEF BuildUpdate
<1>2. shown \in 1..Len(past)
    BY DEF BuildUpdate, UpdateInv, TypeOK
<1>3. DOMAIN asked \in SUBSET Field /\ \A f \in DOMAIN asked : asked[f] \in Value
    BY DEF Changes
<1>4. current \in 1..Len(past) /\ past[shown].version = shown - 1 /\ shown - 1 \in Nat
    BY <1>2 DEF SecondRead, UpdateInv, TypeOK
<1>5. past[current].fields \in [Field -> Value]
    <2>1. past[current] \in Content
        BY <1>4 DEF UpdateInv, TypeOK
    <2> QED
        BY <2>1 DEF Content
<1> HIDE DEF shown
<1>6. Ix(asked, current) \in Instruction
    <2>1. [f \in Field |-> IF f \in DOMAIN asked THEN asked[f]
                           ELSE past[current].fields[f]] \in [Field -> Value]
        BY <1>3, <1>5
    <2> QED
        BY <1>2, <1>3, <1>4, <2>1 DEF Instruction
<1>7. /\ Ix(asked, current).kind # "paused" => Ix(asked, current).expected = Ix(asked, current).shown - 1
      /\ \A f \in Field \ Ix(asked, current).asked : Ix(asked, current).fields[f] = past[current].fields[f]
    BY <1>4
<1>8. Ix(asked, current).shown = shown
    OBVIOUS
<1> HIDE DEF Ix
<1>9. pending' \subseteq Instruction' /\ past' = past /\ Pinned' /\ FilledIn'
    BY <1>1, <1>6, <1>7, <1>8, BuildKeeps
<1>10. tool' = [tool EXCEPT ![o] = Idle]
    BY DEF BuildUpdate
<1>11. TypeOK'
    BY <1>9, <1>10 DEF UpdateInv, TypeOK
<1> QED
    BY <1>9, <1>11 DEF UpdateInv

LEMMA BuildOtherKeeps ==
    ASSUME UpdateInv, NEW o \in Operator, BuildLaunch(o) \/ BuildPaused(o)
    PROVE  UpdateInv'
<1>1. PICK ix \in Instruction :
          /\ Build(ix)
          /\ ix.kind # "paused" => ix.expected = ix.shown - 1
          /\ ix.kind # "update"
    <2>1. CASE BuildLaunch(o)
        <3>1. PICK shown \in 1..Len(past), list \in Lists :
                  Build([ kind |-> "launch", signer |-> o, shown |-> shown,
                          expected |-> past[shown].version, list |-> list ])
            BY <2>1 DEF BuildLaunch
        <3>2. past[shown].version = shown - 1 /\ shown - 1 \in Nat
            BY DEF UpdateInv, TypeOK
        <3> QED
            BY <3>1, <3>2 DEF Instruction
    <2>2. CASE BuildPaused(o)
        BY <2>2 DEF BuildPaused, Instruction
    <2> QED
        BY <2>1, <2>2
<1>2. pending' \subseteq Instruction' /\ past' = past /\ Pinned' /\ FilledIn'
    BY <1>1, BuildKeeps
<1>3. tool' = tool
    BY DEF BuildLaunch, BuildPaused
<1>4. TypeOK'
    BY <1>2, <1>3 DEF UpdateInv, TypeOK
<1> QED
    BY <1>2, <1>4 DEF UpdateInv

\* A content changed by an instruction is a content of the next version.
LEMMA ChangedType ==
    ASSUME UpdateInv, NEW ix \in pending
    PROVE  Changed(ix) \in Content /\ Changed(ix).version = Len(past)
<1>1. Len(past) \in Nat \ {0} /\ OnChain \in Content /\ OnChain.version = Len(past) - 1
    BY DEF UpdateInv, TypeOK, OnChain
<1>2. ix \in Instruction
    BY DEF UpdateInv, TypeOK
<1> DEFINE c == OnChain
<1>3. c.version + 1 = Len(past)
    BY <1>1
<1>4. c.fields \in [Field -> Value] /\ c.paused \in BOOLEAN /\ c.launch \in Lists
          /\ c = [fields |-> c.fields, paused |-> c.paused, launch |-> c.launch,
                  version |-> c.version]
    BY <1>1 DEF Content
<1> HIDE DEF c
<1>5. Bumped(ix) = Len(past)
    BY <1>3 DEF Bumped, c
<1>6. CASE ix.kind = "update"
    <2>1. Changed(ix) = [c EXCEPT !.fields = ix.fields, !.version = Len(past)]
        BY <1>5, <1>6 DEF Changed, c
    <2>2. ix.fields \in [Field -> Value]
        BY <1>2, <1>6 DEF Instruction
    <2> QED
        BY <1>1, <1>4, <2>1, <2>2 DEF Content
<1>7. CASE ix.kind = "paused"
    <2>1. Changed(ix) = [c EXCEPT !.paused = ix.paused, !.version = Len(past)]
        BY <1>5, <1>7 DEF Changed, c
    <2>2. ix.paused \in BOOLEAN
        BY <1>2, <1>7 DEF Instruction
    <2> QED
        BY <1>1, <1>4, <2>1, <2>2 DEF Content
<1>8. CASE ix.kind = "launch"
    <2>1. Changed(ix) = [c EXCEPT !.launch = ix.list, !.version = Len(past)]
        BY <1>5, <1>8 DEF Changed, c
    <2>2. ix.list \in Lists
        BY <1>2, <1>8 DEF Instruction
    <2> QED
        BY <1>1, <1>4, <2>1, <2>2 DEF Content
<1> QED
    BY <1>2, <1>6, <1>7, <1>8 DEF Instruction

LEMMA LandKeeps ==
    ASSUME UpdateInv, NEW ix \in pending, Land(ix)
    PROVE  UpdateInv'
<1> DEFINE c == Changed(ix)
<1>1. past' = Append(past, c) /\ pending' = pending \ {ix} /\ tool' = tool
    BY DEF Land
<1>2. c \in Content /\ c.version = Len(past)
    BY ChangedType
<1> HIDE DEF c
<1>3. /\ past' \in Seq(Content) /\ Len(past') = Len(past) + 1 /\ Len(past) \in Nat
      /\ \A i \in 1..Len(past) : past'[i] = past[i]
      /\ past'[Len(past) + 1] = c
    BY <1>1, <1>2 DEF UpdateInv, TypeOK
<1>4. \A i \in 1..Len(past') : past'[i].version = i - 1
    BY <1>2, <1>3 DEF UpdateInv, TypeOK
<1>5. 1..Len(past) \subseteq 1..Len(past')
    BY <1>3
<1>6. tool' \in [Operator -> {Idle} \cup 1..Len(past')]
    BY <1>1, <1>5 DEF UpdateInv, TypeOK
<1>7. pending' \subseteq Instruction'
    BY <1>1, <1>5 DEF UpdateInv, TypeOK, Instruction
<1>8. TypeOK'
    BY <1>3, <1>4, <1>6, <1>7 DEF TypeOK
<1>9. Pinned'
    BY <1>1 DEF UpdateInv, Pinned
<1>10. FilledIn'
    <2> SUFFICES ASSUME NEW jx \in pending', jx.kind = "update"
                 PROVE  \E current \in SecondRead(jx.shown)' :
                            \A f \in Field \ jx.asked : jx.fields[f] = past'[current].fields[f]
        BY DEF FilledIn
    <2>1. PICK current \in SecondRead(jx.shown) :
              \A f \in Field \ jx.asked : jx.fields[f] = past[current].fields[f]
        BY <1>1 DEF UpdateInv, FilledIn
    <2>2. jx.shown \in 1..Len(past)
        BY <1>1 DEF UpdateInv, TypeOK, Instruction
    <2>3. current \in 1..Len(past) /\ current \in SecondRead(jx.shown)'
        BY <1>3, <2>2 DEF SecondRead
    <2> QED
        BY <1>3, <2>1, <2>3
<1> QED
    BY <1>8, <1>9, <1>10 DEF UpdateInv

LEMMA NextUpdateInv == UpdateInv /\ [Next]_toolVars => UpdateInv'
<1> SUFFICES ASSUME UpdateInv, [Next]_toolVars PROVE UpdateInv'
    OBVIOUS
<1>1. CASE \E o \in Operator : ReadConfig(o) \/ BuildUpdate(o) \/ BuildLaunch(o) \/ BuildPaused(o)
    BY <1>1, ReadKeeps, BuildUpdateKeeps, BuildOtherKeeps
<1>2. CASE Drop
    <2>1. pending' \subseteq pending /\ past' = past /\ tool' = tool
        BY <1>2 DEF Drop
    <2>2. TypeOK'
        BY <2>1 DEF UpdateInv, TypeOK, Instruction
    <2>3. Pinned' /\ FilledIn'
        BY <2>1 DEF UpdateInv, Pinned, FilledIn, SecondRead
    <2> QED
        BY <2>2, <2>3 DEF UpdateInv
<1>3. CASE \E ix \in pending : Land(ix)
    BY <1>3, LandKeeps
<1>4. CASE UNCHANGED toolVars
    BY <1>4 DEF toolVars, UpdateInv, TypeOK, Instruction, Pinned, FilledIn, SecondRead
<1> QED
    BY <1>1, <1>2, <1>3, <1>4 DEF Next

\* Every reachable state satisfies the invariant.
THEOREM UpdatesSafe == Spec => []UpdateInv
<1>1. Init => UpdateInv
    BY InitUpdateInv
<1>2. UpdateInv /\ [Next]_toolVars => UpdateInv'
    BY NextUpdateInv
<1> QED
    BY <1>1, <1>2, PTL DEF Spec

\* Types, and that version v is the content after exactly v changes (bump_version).
THEOREM ConfigTypeCorrect == Spec => []TypeOK
<1>1. UpdateInv => TypeOK
    BY DEF UpdateInv
<1> QED
    BY <1>1, UpdatesSafe, PTL

\* A pinned instruction that lands was shown the config it lands on.
LEMMA LandsOnPast ==
    ASSUME UpdateInv, NEW ix \in pending, ix.kind # "paused", Land(ix)
    PROVE  ix.shown = Len(past)
<1>1. ix.expected = OnChain.version /\ ix.expected = ix.shown - 1
    BY DEF Land, Fresh, UpdateInv, Pinned
<1>2. Len(past) \in Nat \ {0} /\ OnChain.version = Len(past) - 1
    BY DEF UpdateInv, TypeOK, OnChain
<1>3. ix.shown \in Nat
    BY <1>2 DEF UpdateInv, TypeOK, Instruction
<1>4. ix.shown - 1 = Len(past) - 1
    BY <1>1, <1>2
<1> QED
    BY <1>2, <1>3, <1>4

\* Nothing lands between what an operator was shown and a pinned change, whatever the nodes served.
THEOREM NothingBetween == Spec => LandsOnShown
<1>1. UpdateInv /\ [Next]_toolVars =>
          [\A ix \in pending : ix.kind # "paused" /\ Land(ix) => ix.shown = Len(past)]_toolVars
    BY LandsOnPast
<1> QED
    BY <1>1, UpdatesSafe, PTL DEF Spec, LandsOnShown

\* When no read is older than the read before it, an update changes exactly what was asked for.
THEOREM NothingUndoneWithoutLag ==
    ASSUME ~NodesLag
    PROVE  Spec => NothingUndone
<1>1. ASSUME UpdateInv, NEW ix \in pending, ix.kind = "update", Land(ix),
             NEW f \in Field \ ix.asked
      PROVE  OnChain'.fields[f] = OnChain.fields[f]
    <2>1. ix.shown = Len(past) /\ Len(past) \in Nat \ {0}
        BY <1>1, LandsOnPast DEF UpdateInv, TypeOK
    <2>2. PICK current \in SecondRead(ix.shown) :
              \A g \in Field \ ix.asked : ix.fields[g] = past[current].fields[g]
        BY <1>1 DEF UpdateInv, FilledIn
    <2>3. current = Len(past)
        <3>1. current \in ix.shown..Len(past)
            BY DEF SecondRead
        <3> QED
            BY <2>1, <3>1
    <2>4. ix.fields[f] = OnChain.fields[f]
        BY <2>2, <2>3 DEF OnChain
    <2>5. past' = Append(past, Changed(ix)) /\ past \in Seq(Content)
        BY <1>1 DEF Land, UpdateInv, TypeOK
    <2>6. OnChain' = Changed(ix)
        <3> DEFINE c == Changed(ix)
        <3>1. c \in Content
            BY <1>1, ChangedType
        <3> HIDE DEF c
        <3>2. past' = Append(past, c)
            BY <2>5 DEF c
        <3>3. Len(past') = Len(past) + 1 /\ past'[Len(past) + 1] = c
            BY <2>5, <3>1, <3>2
        <3> QED
            BY <3>3 DEF OnChain, c
    <2>7. Changed(ix).fields = ix.fields
        <3>1. OnChain \in Content
            BY <1>1, <2>1 DEF UpdateInv, TypeOK, OnChain
        <3> DEFINE c == OnChain
        <3>2. Changed(ix) = [c EXCEPT !.fields = ix.fields, !.version = Bumped(ix)]
            BY <1>1 DEF Changed
        <3> HIDE DEF c
        <3>3. c \in Content
            BY <3>1 DEF c
        <3> QED
            BY <3>2, <3>3 DEF Content
    <2> QED
        BY <2>4, <2>6, <2>7
<1>2. UpdateInv /\ [Next]_toolVars =>
          [\A ix \in pending : ix.kind = "update" /\ Land(ix) =>
               \A f \in Field \ ix.asked : OnChain'.fields[f] = OnChain.fields[f]]_toolVars
    BY <1>1
<1> QED
    BY <1>2, UpdatesSafe, PTL DEF Spec, NothingUndone

-----------------------------------------------------------------------------
(* The lock.                                                               *)

\* A lock that was made has a coin, a start in the past and its cliff inside it; nothing is
\* released of a lock that was not made.
LockShape ==
    /\ released_amount <= locked_amount
    /\ locked_amount > 0 =>
          /\ plan # NoCoin
          /\ lock_start <= clock
          /\ lock_start <= lock_cliff
          /\ lock_cliff <= lock_end
          /\ lock_start < lock_end

LockInv == D!TypeOK /\ D!VaultHoldsRest /\ LockShape /\ NeverEarly /\ D!AsCommitted

USE DilationAssumption DEF lockTerms, D!lockTerms, lockVars, D!lockVars

-----------------------------------------------------------------------------
(* Arithmetic of a schedule.                                               *)

\* Floor division never exceeds the quotient, and a part of the lock never exceeds the lock.
LEMMA FloorOfSchedule ==
    ASSUME NEW L \in Nat, NEW e \in Nat, NEW d \in Nat, d > 0, e < d
    PROVE  /\ (L * e) \div d \in Nat
           /\ ((L * e) \div d) * d <= L * e
           /\ (L * e) \div d <= L
<1> DEFINE q == (L * e) \div d
<1>1. L * e \in Nat
    OBVIOUS
<1>2. q \in Nat /\ q * d <= L * e
    BY <1>1
<1>3. L * e <= L * d
    OBVIOUS
<1>4. q <= L
    <2> HIDE DEF q
    <2>1. SUFFICES ASSUME q > L PROVE FALSE
        BY <1>2
    <2>2. q * d >= (L + 1) * d
        BY <1>2, <2>1
    <2>3. (L + 1) * d = L * d + d
        OBVIOUS
    <2>4. L * d \in Nat /\ q * d \in Nat
        BY <1>2
    <2> QED
        BY <1>1, <1>2, <1>3, <2>2, <2>3, <2>4
<1> QED
    BY <1>2, <1>4

\* A moment later the schedule allows at least as much.
LEMMA ScheduleGrows ==
    ASSUME NEW L \in Nat, NEW r \in Nat, NEW e \in Nat, r <= L * e
    PROVE  r <= L * (e + 1)
<1>1. L * (e + 1) = L * e + L
    OBVIOUS
<1>2. L * e \in Nat
    OBVIOUS
<1> QED
    BY <1>1, <1>2

-----------------------------------------------------------------------------
(* What vests and what a release pays.                                     *)

\* What has vested is a natural number, obeys the schedule, and is the whole lock at its end.
LEMMA VestedObeys ==
    ASSUME D!TypeOK, LockShape
    PROVE  /\ Vested(clock) \in Nat
           /\ Vested(clock) <= locked_amount
           /\ Vested(clock) > 0 =>
                 /\ clock >= lock_cliff
                 /\ Vested(clock) * (lock_end - lock_start) <= locked_amount * (clock - lock_start)
           /\ locked_amount > 0 /\ clock >= lock_end => Vested(clock) = locked_amount
<1>1. CASE locked_amount = 0 \/ clock < lock_cliff
    <2>1. Vested(clock) = 0
        BY <1>1 DEF Vested
    <2>2. ~(locked_amount > 0 /\ clock >= lock_end)
        BY <1>1 DEF D!TypeOK, LockShape
    <2> QED
        BY <2>1, <2>2 DEF D!TypeOK
<1>2. CASE ~(locked_amount = 0 \/ clock < lock_cliff) /\ clock >= lock_end
    <2>1. Vested(clock) = locked_amount
        BY <1>2 DEF Vested
    <2>2. clock - lock_start \in Nat /\ lock_end - lock_start \in Nat
              /\ lock_end - lock_start <= clock - lock_start /\ clock >= lock_cliff
        BY <1>2 DEF D!TypeOK, LockShape
    <2>3. locked_amount * (lock_end - lock_start) <= locked_amount * (clock - lock_start)
        <3> DEFINE d == lock_end - lock_start  e == clock - lock_start
        <3>1. d \in Nat /\ e \in Nat /\ d <= e /\ locked_amount \in Nat
            BY <2>2 DEF D!TypeOK
        <3> HIDE DEF d, e
        <3>2. locked_amount * d <= locked_amount * e
            BY <3>1
        <3> QED
            BY <3>2 DEF d, e
    <2> QED
        BY <2>1, <2>2, <2>3 DEF D!TypeOK
<1>3. CASE ~(locked_amount = 0 \/ clock < lock_cliff) /\ ~(clock >= lock_end)
    <2> DEFINE d == lock_end - lock_start  e == clock - lock_start
    <2>1. Vested(clock) = (locked_amount * e) \div d
        BY <1>3 DEF Vested
    <2>2. d \in Nat /\ e \in Nat /\ d > 0 /\ e < d /\ locked_amount \in Nat /\ clock >= lock_cliff
        BY <1>3 DEF D!TypeOK, LockShape
    <2>3. /\ (locked_amount * e) \div d \in Nat
          /\ ((locked_amount * e) \div d) * d <= locked_amount * e
          /\ (locked_amount * e) \div d <= locked_amount
        <3> HIDE DEF d, e
        <3> QED
            BY <2>2, FloorOfSchedule
    <2> QED
        BY <1>3, <2>1, <2>2, <2>3
<1> QED
    BY <1>1, <1>2, <1>3

-----------------------------------------------------------------------------
(* The invariant.                                                          *)

LEMMA InitLockInv == D!Init => LockInv
    BY DEF D!Init, LockInv, D!TypeOK, D!VaultHoldsRest, LockShape, NeverEarly, D!AsCommitted, D!NoPlan

LEMMA LockKeeps ==
    ASSUME LockInv, D!Lock
    PROVE  LockInv'
<1>1. PICK t \in Terms, amount \in 1..Supply :
          /\ D!ValidTerms(t)
          /\ D!Unlocked
          /\ D!AsPlanned(t)
          /\ amount <= launcher_token
          /\ launcher_token' = launcher_token - amount
          /\ lock_ata' = lock_ata + amount
          /\ locked_amount' = amount
          /\ released_amount' = 0
          /\ lock_start' = clock
          /\ lock_cliff' = clock + t.cliff
          /\ lock_end' = clock + t.duration
    BY DEF D!Lock
<1>2. UNCHANGED <<clock, plan, given>> /\ plan # NoCoin
    BY DEF D!Lock
<1>3. /\ t.cliff \in Nat /\ t.duration \in Nat /\ t.duration > 0 /\ t.cliff <= t.duration
      /\ amount \in Nat /\ amount > 0
    BY <1>1 DEF D!ValidTerms
<1>4. D!TypeOK'
    BY <1>1, <1>2, <1>3 DEF LockInv, D!TypeOK
<1>5. D!VaultHoldsRest'
    BY <1>1, <1>2, <1>3 DEF LockInv, D!TypeOK, D!VaultHoldsRest, LockShape, D!Unlocked
<1>6. LockShape' /\ NeverEarly'
    BY <1>1, <1>2, <1>3 DEF LockInv, D!TypeOK, LockShape, NeverEarly
<1>7. D!AsCommitted'
    BY <1>1, <1>2, <1>3 DEF LockInv, D!TypeOK, D!AsCommitted, D!AsPlanned
<1> QED
    BY <1>4, <1>5, <1>6, <1>7 DEF LockInv

\* The instructions release what LockState says may be released.
LEMMA SameReleasable == D!Releasable = Releasable
    BY DEF Releasable, D!Releasable, Vested, D!Vested

LEMMA ReleaseKeeps ==
    ASSUME LockInv, D!Release
    PROVE  LockInv'
<1>1. D!TypeOK /\ LockShape /\ D!VaultHoldsRest /\ NeverEarly /\ D!AsCommitted
    BY DEF LockInv
<1> DEFINE v == Vested(clock)
<1>2. /\ v \in Nat /\ v <= locked_amount
      /\ v > 0 => /\ clock >= lock_cliff
                  /\ v * (lock_end - lock_start) <= locked_amount * (clock - lock_start)
    BY <1>1, VestedObeys
<1>3. UNCHANGED <<clock, plan, locked_amount, lock_start, lock_cliff, lock_end, given>>
    BY DEF D!Release
<1>4. v > released_amount /\ Releasable = v - released_amount
    BY <1>1, <1>2, SameReleasable DEF D!Release, Releasable, D!TypeOK
<1> HIDE DEF v
<1>5. /\ v - released_amount <= lock_ata
      /\ lock_ata' = lock_ata - (v - released_amount)
      /\ launcher_token' = launcher_token + (v - released_amount)
      /\ released_amount' = released_amount + (v - released_amount)
    BY <1>4, SameReleasable DEF D!Release
<1>6. released_amount' = v
    BY <1>1, <1>2, <1>5 DEF D!TypeOK
<1>7. D!TypeOK'
    BY <1>1, <1>2, <1>3, <1>4, <1>5, <1>6 DEF D!TypeOK
<1>8. D!VaultHoldsRest'
    BY <1>1, <1>2, <1>3, <1>5, <1>6 DEF D!TypeOK, D!VaultHoldsRest
<1>9. LockShape' /\ NeverEarly' /\ D!AsCommitted'
    <2>1. LockShape'
        BY <1>1, <1>2, <1>3, <1>6 DEF LockShape
    <2>2. NeverEarly'
        BY <1>2, <1>3, <1>6 DEF NeverEarly
    <2>3. D!AsCommitted'
        BY <1>1, <1>3 DEF D!AsCommitted
    <2> QED
        BY <2>1, <2>2, <2>3
<1> QED
    BY <1>7, <1>8, <1>9 DEF LockInv

LEMMA TickKeeps ==
    ASSUME LockInv, D!Tick
    PROVE  LockInv'
<1>1. /\ clock' = clock + 1
      /\ UNCHANGED <<plan, locked_amount, lock_start, lock_cliff, lock_end, released_amount,
                     launcher_token, lock_ata, given>>
    BY DEF D!Tick
<1>2. D!TypeOK' /\ D!VaultHoldsRest' /\ LockShape' /\ D!AsCommitted'
    BY <1>1 DEF LockInv, D!TypeOK, D!VaultHoldsRest, LockShape, D!AsCommitted
<1>3. ASSUME released_amount > 0
      PROVE  released_amount * (lock_end - lock_start) <= locked_amount * (clock + 1 - lock_start)
    <2> DEFINE r == released_amount * (lock_end - lock_start)  e == clock - lock_start
    <2>1. locked_amount > 0 /\ r <= locked_amount * e
        BY <1>3 DEF LockInv, D!TypeOK, LockShape, NeverEarly
    <2>2. e \in Nat /\ lock_end - lock_start \in Nat /\ released_amount \in Nat
              /\ locked_amount \in Nat
        BY <2>1 DEF LockInv, D!TypeOK, LockShape
    <2>3. r \in Nat /\ clock + 1 - lock_start = e + 1
        BY <2>2 DEF LockInv, D!TypeOK
    <2> HIDE DEF r, e
    <2>4. r <= locked_amount * (e + 1)
        BY <2>1, <2>2, <2>3, ScheduleGrows
    <2> QED
        BY <2>3, <2>4 DEF r
<1>4. NeverEarly'
    BY <1>1, <1>3 DEF LockInv, D!TypeOK, NeverEarly
<1> QED
    BY <1>2, <1>4 DEF LockInv

LEMMA NextLockInv == LockInv /\ [D!Next]_lockVars => LockInv'
<1> SUFFICES ASSUME LockInv, [D!Next]_lockVars PROVE LockInv'
    OBVIOUS
<1> USE DEF LockInv, D!TypeOK, D!VaultHoldsRest, LockShape, NeverEarly, D!AsCommitted
<1>1. CASE D!Register
    <2>1. plan' \in [cliff : Nat, duration : Nat] /\ plan' # NoCoin /\ plan = NoCoin
        BY <1>1 DEF D!Register, D!ValidTerms, D!NoPlan
    <2>2. locked_amount = 0
        BY <2>1
    <2> QED
        BY <1>1, <2>1, <2>2 DEF D!Register
<1>2. CASE D!Lock
    BY <1>2, LockKeeps
<1>3. CASE D!Release
    BY <1>3, ReleaseKeeps
<1>4. CASE D!Tick
    BY <1>4, TickKeeps
<1>5. CASE D!Trade
    BY <1>5 DEF D!Trade
<1>6. CASE D!Give
    BY <1>6 DEF D!Give
<1>7. CASE UNCHANGED lockVars
    BY <1>7
<1> QED
    BY <1>1, <1>2, <1>3, <1>4, <1>5, <1>6, <1>7 DEF D!Next

\* Every reachable state satisfies the invariant.
THEOREM LockSafe == D!Spec => []LockInv
<1>1. D!Init => LockInv
    BY InitLockInv
<1>2. LockInv /\ [D!Next]_lockVars => LockInv'
    BY NextLockInv
<1> QED
    BY <1>1, <1>2, PTL DEF D!Spec

\* Balances, lock terms and plan keep their types and no token appears: lock and release of
\* dilation.rs only move tokens.
THEOREM LockTypeCorrect == D!Spec => []D!TypeOK
<1>1. LockInv => D!TypeOK
    BY DEF LockInv
<1> QED
    BY <1>1, LockSafe, PTL

\* The lock's account holds the unreleased rest of the lock and what strangers gave, exactly.
THEOREM VaultExact == D!Spec => []D!VaultHoldsRest
<1>1. LockInv => D!VaultHoldsRest
    BY DEF LockInv
<1> QED
    BY <1>1, LockSafe, PTL

\* The launcher never has more of the lock than vested_amount's schedule allows.
THEOREM NothingEarly == D!Spec => []NeverEarly
<1>1. LockInv => NeverEarly
    BY DEF LockInv
<1> QED
    BY <1>1, LockSafe, PTL

\* A lock is made on the terms committed to at registration.
THEOREM LockedAsCommitted == D!Spec => []D!AsCommitted
<1>1. LockInv => D!AsCommitted
    BY DEF LockInv
<1> QED
    BY <1>1, LockSafe, PTL

\* Once the lock has ended one release pays everything left of it.
THEOREM AllReleasableAtEnd == D!Spec => []AllOutAtEnd
<1>1. LockInv => AllOutAtEnd
    <2> SUFFICES ASSUME LockInv, locked_amount > 0, clock >= lock_end
                 PROVE  /\ Releasable = locked_amount - released_amount
                        /\ Releasable <= lock_ata
        BY DEF AllOutAtEnd
    <2>1. Vested(clock) = locked_amount
        BY VestedObeys DEF LockInv
    <2> QED
        BY <2>1 DEF LockInv, D!TypeOK, LockShape, D!VaultHoldsRest, Releasable
<1> QED
    BY <1>1, LockSafe, PTL

\* A lock that was made keeps its amount and its terms for ever: `lock` refuses to run again.
THEOREM OneLock == D!Spec => D!LockedOnce
<1>1. LockInv /\ [D!Next]_lockVars => [locked_amount > 0 => UNCHANGED lockTerms]_lockVars
    <2> SUFFICES ASSUME LockInv, D!Next, locked_amount > 0 PROVE UNCHANGED lockTerms
        OBVIOUS
    <2> QED
        BY DEF D!Next, D!Register, D!Lock, D!Release, D!Tick, D!Trade, D!Give, D!Unlocked, LockInv, D!TypeOK
<1> QED
    BY <1>1, LockSafe, PTL
       DEF D!Spec, D!LockedOnce
=============================================================================
