-------------------------- MODULE EngineHoursProofs --------------------------
(***************************************************************************)
(* That an hour of the payout engine is paid once, whatever the store, the *)
(* nodes and the instances do, and for any hour and blockhash lifetimes    *)
(* the engine's assumption allows.  The argument is the one of the code's  *)
(* comment on RECLAIM_FROM: an hour's claim account stays until no claim   *)
(* of that hour can land any more, so a second claim of it always fails;   *)
(* and a part is sent once by the one run that numbers it.                 *)
(*                                                                         *)
(* And that one hour's run pays what it plans and reports what it paid     *)
(* (PayoutRun), for any owners, holdings and rates the assumptions allow.  *)
(* The argument of the second part: the shares, rounded down, come to no   *)
(* more than what is released, which is at most a quarter of what is free  *)
(* in the wallet, so that two hours' payments under way at once never      *)
(* touch the reserve; and a holder is sent to only while no transaction of *)
(* the hour that paid or may yet pay goes to it.                           *)
(***************************************************************************)
EXTENDS MCEngineHours, FiniteSetTheorems, SequenceTheorems, WellFoundedInduction, TLAPS

Claiming(s) == srv[s].pc \in {"sign", "sent"}

ClaimedBy(x, h, n) == x.kind = "claim" /\ x.outcome = "ok" /\ x.hour = h /\ x.nonce = n
Pays(x, n, p)      == x.kind = "pay" /\ x.nonce = n /\ x.part = p

Timely == \A s \in Server : srv[s].hour <= Hour(now)

\* What claims, pays or has paid is a run that recorded its hour.
Begun ==
    /\ \A s \in Server : Claiming(s) => srv[s].hour \in begun
    /\ \A x \in inflight \cup history : x.hour \in begun

\* What may still land has not expired, and a claim expires before its account may be taken back.
Expiring ==
    \A tx \in inflight :
        /\ now <= tx.until /\ tx.until <= MaxNow + BLOCKHASH
        /\ tx.kind = "claim" => tx.until < (tx.hour + RECLAIM_FROM) * HOUR

ReclaimsOld ==
    \A s \in Server : srv[s].pc = "sign" => \A h \in srv[s].reclaims : h + RECLAIM_FROM <= srv[s].hour

\* The account of a claimed hour is there until the hour is long over.
AccountStays ==
    \A x \in history : x.kind = "claim" /\ x.outcome = "ok" =>
        x.hour \in account \/ now >= (x.hour + RECLAIM_FROM) * HOUR

\* A run's number is its own.
Numbered ==
    /\ \A s \in Server : Claiming(s) => srv[s].run \in 1..runs
    /\ \A x \in inflight \cup history : x.nonce \in 1..runs
    /\ \A s, u \in Server : s # u /\ Claiming(s) /\ Claiming(u) => srv[s].run # srv[u].run

\* Only the owner's parts are in flight, each in one transaction that has not landed.
PaidOnce ==
    /\ \A tx \in inflight : tx.kind = "pay" =>
          /\ tx.part \in Part
          /\ \E x \in history : ClaimedBy(x, tx.hour, tx.nonce)
          /\ \A x \in history : ~Pays(x, tx.nonce, tx.part)
          /\ \A ty \in inflight : Pays(ty, tx.nonce, tx.part) => ty = tx
    /\ \A s \in Server : Claiming(s) =>
          \A p \in Part \ srv[s].sent : \A x \in inflight \cup history : ~Pays(x, srv[s].run, p)

EngineInv ==
    /\ TypeOK /\ Timely /\ Begun /\ Expiring /\ ReclaimsOld
    /\ AccountStays /\ Numbered /\ PaidOnce

-----------------------------------------------------------------------------
(* Hours and the clock.                                                    *)

LEMMA HourBounds ==
    ASSUME NEW t \in Nat
    PROVE  Hour(t) \in Nat /\ Hour(t) * HOUR <= t /\ t < (Hour(t) + 1) * HOUR
<1>1. HOUR \in Nat /\ HOUR > 0
  BY EngineAssumption
<1>2. Hour(t) \in Nat
  BY <1>1 DEF Hour
<1>3. Hour(t) * HOUR <= t
  BY <1>1 DEF Hour
<1>4. t < (Hour(t) + 1) * HOUR
  BY <1>1 DEF Hour
<1> QED
  BY <1>2, <1>3, <1>4

LEMMA HourGrows == ASSUME NEW t \in Nat, NEW u \in Nat, t <= u PROVE Hour(t) <= Hour(u)
<1>1. HOUR \in Nat /\ HOUR > 0
  BY EngineAssumption
<1> QED
  BY <1>1 DEF Hour

LEMMA HoursTimes == ASSUME NEW h \in Int, NEW k \in Int, h <= k PROVE h * HOUR <= k * HOUR
<1>1. HOUR \in Nat /\ HOUR > 0
  BY EngineAssumption
<1>2. (k - h) * HOUR >= 0
  BY <1>1
<1> QED
  BY <1>1, <1>2

LEMMA ClockFacts ==
    ASSUME TypeOK
    PROVE  /\ now \in Nat /\ MaxNow \in Nat /\ BLOCKHASH \in Nat /\ RECLAIM_FROM \in Nat
           /\ Hour(now) \in Nat /\ Hour(MaxNow) \in Nat /\ Hour(now) <= Hour(MaxNow)
           /\ runs \in Nat /\ MaxRuns \in Nat
<1>1. now \in Nat /\ MaxNow \in Nat /\ now <= MaxNow /\ runs \in Nat
  BY EngineAssumption DEF TypeOK
<1> QED
  BY <1>1, EngineAssumption, HourBounds, HourGrows

\* A claim signed within its hour expires before anyone may take the hour's account back.
LEMMA ClaimExpires ==
    ASSUME NEW t \in Nat
    PROVE  t + BLOCKHASH < (Hour(t) + RECLAIM_FROM) * HOUR
<1>1. /\ HOUR \in Nat /\ BLOCKHASH \in Nat /\ RECLAIM_FROM \in Nat
      /\ BLOCKHASH <= (RECLAIM_FROM - 1) * HOUR
  BY EngineAssumption
<1>2. Hour(t) \in Nat /\ t < (Hour(t) + 1) * HOUR
  BY HourBounds
<1>3. (Hour(t) + RECLAIM_FROM) * HOUR = (Hour(t) + 1) * HOUR + (RECLAIM_FROM - 1) * HOUR
  BY <1>1, <1>2
<1> DEFINE u == (Hour(t) + 1) * HOUR
           v == (RECLAIM_FROM - 1) * HOUR
<1>4. u \in Int /\ v \in Int /\ t < u /\ BLOCKHASH <= v
  BY <1>1, <1>2
<1> HIDE DEF u, v
<1>5. t + BLOCKHASH < u + v
  BY <1>1, <1>4
<1> QED
  BY <1>3, <1>5 DEF u, v

-----------------------------------------------------------------------------

LEMMA InitEngineInv == Init => EngineInv
<1> SUFFICES ASSUME Init PROVE EngineInv
  OBVIOUS
<1>1. /\ now = 0 /\ runs = 0 /\ last = NoHour /\ MaxNow \in Nat /\ MaxRuns \in Nat
      /\ account = {} /\ inflight = {} /\ history = {} /\ begun = {}
      /\ local = [s \in Server |-> NoHour] /\ srv = [s \in Server |-> Idle]
  BY EngineAssumption DEF Init
<1>2. Hour(0) \in Nat
  BY HourBounds
<1>3. Idle \in ServerState
  BY DEF Idle, ServerState
<1>4. \A s \in Server : srv[s].pc = "idle" /\ srv[s].hour = -1
  BY <1>1 DEF Idle, NoHour
<1>5. TypeOK
  BY <1>1, <1>2, <1>3 DEF TypeOK
<1>6. Timely
  BY <1>1, <1>2, <1>4 DEF Timely
<1>7. Begun /\ Expiring /\ ReclaimsOld /\ AccountStays /\ Numbered /\ PaidOnce
  BY <1>1, <1>4 DEF Begun, Expiring, ReclaimsOld, AccountStays, Numbered, PaidOnce, Claiming
<1> QED
  BY <1>5, <1>6, <1>7 DEF EngineInv

LEMMA SrvChanges ==
    ASSUME TypeOK, NEW s \in Server, NEW me \in ServerState, srv' = [srv EXCEPT ![s] = me]
    PROVE  /\ srv' \in [Server -> ServerState] /\ srv'[s] = me
           /\ \A u \in Server : u # s => srv'[u] = srv[u]
  BY DEF TypeOK

LEMMA IdleFields == Idle \in ServerState /\ Idle.pc = "idle" /\ Idle.hour = -1
  BY DEF Idle, ServerState, NoHour

\* A step that sends nothing and claims nothing.
LEMMA QuietKeeps ==
    ASSUME EngineInv, NEW s \in Server, NEW me \in ServerState, srv' = [srv EXCEPT ![s] = me],
           me.pc \notin {"sign", "sent"}, me.hour <= Hour(now),
           UNCHANGED <<now, runs, ledger>>,
           last' \in {NoHour} \cup 0..Hour(now),
           local' \in [Server -> {NoHour} \cup 0..Hour(now)],
           begun \subseteq begun', begun' \subseteq 0..Hour(now)
    PROVE  EngineInv'
<1>1. /\ TypeOK /\ Timely /\ Begun /\ Expiring /\ ReclaimsOld
      /\ AccountStays /\ Numbered /\ PaidOnce
  BY DEF EngineInv
<1>2. /\ srv' \in [Server -> ServerState] /\ srv'[s] = me
      /\ \A u \in Server : u # s => srv'[u] = srv[u]
  BY <1>1, SrvChanges
<1>3. \A u \in Server : Claiming(u)' => Claiming(u) /\ srv'[u] = srv[u]
  BY <1>2 DEF Claiming
<1>4. UNCHANGED <<now, runs, account, inflight, history>> /\ Hour(now)' = Hour(now)
  BY DEF ledger
<1>5. TypeOK'
  BY <1>1, <1>2, <1>4 DEF TypeOK
<1>6. Timely'
  BY <1>1, <1>2, <1>4 DEF Timely
<1>7. Begun' /\ Expiring' /\ AccountStays'
  BY <1>1, <1>3, <1>4 DEF Begun, Expiring, AccountStays
<1>8. ReclaimsOld'
  BY <1>1, <1>2 DEF ReclaimsOld
<1>9. Numbered'
  BY <1>1, <1>3, <1>4 DEF Numbered
<1>10. PaidOnce'
  BY <1>1, <1>3, <1>4 DEF PaidOnce
<1> QED
  BY <1>5, <1>6, <1>7, <1>8, <1>9, <1>10 DEF EngineInv

-----------------------------------------------------------------------------
(* One lemma per action.                                                   *)

LEMMA TickKeeps == ASSUME EngineInv, Tick PROVE EngineInv'
<1>1. /\ TypeOK /\ Timely /\ Begun /\ Expiring /\ ReclaimsOld
      /\ AccountStays /\ Numbered /\ PaidOnce
  BY DEF EngineInv
<1>2. /\ now' = now + 1 /\ now < MaxNow
      /\ UNCHANGED <<last, local, srv, runs, account, history, begun>>
      /\ inflight' = {tx \in inflight : tx.until > now}
  BY DEF Tick
<1>3. /\ now \in Nat /\ now' \in 0..MaxNow /\ MaxNow \in Nat /\ Hour(now) \in Nat
      /\ BLOCKHASH \in Nat /\ RECLAIM_FROM \in Nat
  BY <1>1, <1>2, ClockFacts
<1>4. Hour(now') \in Nat /\ Hour(now) <= Hour(now')
  BY <1>2, <1>3, HourBounds, HourGrows
<1>5. inflight' \subseteq inflight
  BY <1>2
<1>6. TypeOK'
  <2>1. 0..Hour(now) \subseteq 0..Hour(now')
    BY <1>3, <1>4
  <2>2. last' \in {NoHour} \cup 0..Hour(now') /\ local' \in [Server -> {NoHour} \cup 0..Hour(now')]
    BY <1>1, <1>2, <2>1 DEF TypeOK
  <2> QED
    BY <1>1, <1>2, <1>3, <1>5, <2>1, <2>2 DEF TypeOK
<1>7. Timely'
  <2>1. \A s \in Server : srv[s].hour \in Int
    BY <1>1 DEF TypeOK, ServerState, Hours, NoHour
  <2> QED
    BY <1>1, <1>2, <1>3, <1>4, <2>1 DEF Timely
<1>8. Expiring'
  <2>1. \A tx \in inflight : tx.until \in Nat
    BY <1>1 DEF TypeOK, Tx
  <2> QED
    BY <1>1, <1>2, <1>3, <1>5, <2>1 DEF Expiring
<1>9. Begun' /\ ReclaimsOld' /\ Numbered' /\ PaidOnce'
  BY <1>1, <1>2, <1>5 DEF Begun, ReclaimsOld, Numbered, PaidOnce, Claiming
<1>10. AccountStays'
  <2>1. \A x \in history : x.hour \in Nat
    BY <1>1 DEF TypeOK, Landed, Hours
  <2>2. \A x \in history : (x.hour + RECLAIM_FROM) * HOUR \in Int
    BY <1>3, <2>1, EngineAssumption
  <2> QED
    BY <1>1, <1>2, <1>3, <2>2 DEF AccountStays
<1> QED
  BY <1>6, <1>7, <1>8, <1>9, <1>10 DEF EngineInv

LEMMA StartKeeps == ASSUME EngineInv, NEW s \in Server, Start(s) PROVE EngineInv'
<1>1. TypeOK
  BY DEF EngineInv
<1>2. UNCHANGED <<now, last, local, runs, ledger, begun>>
  BY DEF Start
<1>3. CASE srv' = srv
  <2>1. UNCHANGED vars
    BY <1>2, <1>3 DEF vars
  <2> QED
    BY <2>1 DEF vars, ledger, EngineInv, TypeOK, Timely, Begun, Expiring, ReclaimsOld,
                AccountStays, Numbered, PaidOnce, Claiming
<1>4. CASE srv' = [srv EXCEPT ![s] = [Idle EXCEPT !.pc = "chain", !.hour = Hour(now)]]
  <2> DEFINE me == [Idle EXCEPT !.pc = "chain", !.hour = Hour(now)]
  <2>1. Hour(now) \in Hours
    BY <1>1, ClockFacts DEF Hours
  <2>2. me \in ServerState /\ me.pc = "chain" /\ me.hour = Hour(now)
    BY <2>1, IdleFields DEF ServerState
  <2> HIDE DEF me
  <2>3. Hour(now) <= Hour(now)
    BY <1>1, ClockFacts
  <2> QED
    BY <1>1, <1>2, <1>4, <2>2, <2>3, QuietKeeps DEF TypeOK, me
<1> QED
  BY <1>3, <1>4 DEF Start

LEMMA TakeLockKeeps == ASSUME EngineInv, NEW s \in Server, TakeLock(s) PROVE EngineInv'
<1> DEFINE me == [srv[s] EXCEPT !.pc = "read"]
<1>1. TypeOK /\ Timely
  BY DEF EngineInv
<1>2. srv[s] \in ServerState
  BY <1>1 DEF TypeOK
<1>3. me \in ServerState /\ me.pc = "read" /\ me.hour = srv[s].hour
  BY <1>2 DEF ServerState
<1>4. srv' = [srv EXCEPT ![s] = me] /\ UNCHANGED <<now, last, local, runs, ledger, begun>>
  BY DEF TakeLock, Goes
<1> HIDE DEF me
<1> QED
  BY <1>1, <1>3, <1>4, QuietKeeps DEF TypeOK, Timely

\* Going idle, with nothing recorded.
LEMMA EndsKeeps ==
    ASSUME EngineInv, NEW s \in Server, Ends(s), UNCHANGED <<now, last, runs, ledger, begun>>,
           local' \in [Server -> {NoHour} \cup 0..Hour(now)]
    PROVE  EngineInv'
<1>1. TypeOK
  BY DEF EngineInv
<1>2. Idle.hour <= Hour(now)
  BY <1>1, ClockFacts, IdleFields
<1> QED
  BY <1>1, <1>2, IdleFields, QuietKeeps DEF TypeOK, Ends

LEMMA AskChainKeeps == ASSUME EngineInv, NEW s \in Server, AskChain(s) PROVE EngineInv'
<1>1. TypeOK /\ Timely
  BY DEF EngineInv
<1>2. PICK x \in history : /\ ShowsRun(x, srv[s].hour)
                           /\ local' = [local EXCEPT ![s] = FoundAt(x, srv[s].hour)]
                           /\ last' = FoundAt(x, srv[s].hour)
  BY DEF AskChain
<1>3. x.at \in Nat /\ srv[s].hour \in {-1} \cup Nat /\ srv[s].hour <= Hour(now) /\ Hour(now) \in Nat
  BY <1>1, ClockFacts DEF TypeOK, Landed, Hours, ServerState, Timely, NoHour
<1>4. FoundAt(x, srv[s].hour) \in {NoHour} \cup 0..Hour(now)
  BY <1>2, <1>3 DEF FoundAt, ShowsRun, NoHour
<1>5. UNCHANGED <<now, runs, ledger, begun>> /\ srv' = [srv EXCEPT ![s] = Idle]
  BY DEF AskChain, Ends
<1>6. local' \in [Server -> {NoHour} \cup 0..Hour(now)]
  BY <1>1, <1>2, <1>4 DEF TypeOK
<1>7. Idle.hour <= Hour(now)
  BY <1>3, IdleFields
<1> QED
  BY <1>1, <1>2, <1>4, <1>5, <1>6, <1>7, IdleFields, QuietKeeps DEF TypeOK

\* A run's number is new, so nothing was sent under it.
LEMMA RecordRunKeeps == ASSUME EngineInv, NEW s \in Server, RecordRun(s) PROVE EngineInv'
<1>1. /\ TypeOK /\ Timely /\ Begun /\ Expiring /\ ReclaimsOld
      /\ AccountStays /\ Numbered /\ PaidOnce
  BY DEF EngineInv
<1>2. /\ now \in Nat /\ Hour(now) \in Nat /\ Hour(now) <= Hour(MaxNow) /\ Hour(MaxNow) \in Nat
      /\ runs \in Nat /\ MaxRuns \in Nat
  BY <1>1, ClockFacts
<1>3. /\ srv[s].hour = Hour(now) /\ local' = [local EXCEPT ![s] = Hour(now)] /\ last' = Hour(now)
      /\ begun' = begun \cup {Hour(now)} /\ UNCHANGED <<now, ledger>>
  BY DEF RecordRun, InTime
<1>4. /\ local' \in [Server -> {NoHour} \cup 0..Hour(now)] /\ last' \in {NoHour} \cup 0..Hour(now)
      /\ begun \subseteq begun' /\ begun' \subseteq 0..Hour(now)
  <2>1. Hour(now) \in 0..Hour(now)
    BY <1>2
  <2>2. local \in [Server -> {NoHour} \cup 0..Hour(now)] /\ begun \subseteq 0..Hour(now)
    BY <1>1 DEF TypeOK
  <2> QED
    BY <1>3, <2>1, <2>2
<1>5. CASE Ends(s) /\ UNCHANGED runs
  <2>1. Idle.hour <= Hour(now)
    BY <1>2, IdleFields
  <2> QED
    BY <1>3, <1>4, <1>5, <2>1, IdleFields, QuietKeeps DEF Ends
<1>6. ASSUME NEW reclaims \in {Nearest(Reclaimable(srv[s].hour)), {}},
             runs < MaxRuns, runs' = runs + 1,
             srv' = [srv EXCEPT ![s].pc = "sign", ![s].run = runs + 1, ![s].reclaims = reclaims]
      PROVE  EngineInv'
  <2> DEFINE me == [srv[s] EXCEPT !.pc = "sign", !.run = runs + 1, !.reclaims = reclaims]
  <2>1. srv[s] \in ServerState /\ srv[s].sent \subseteq Part
    BY <1>1 DEF TypeOK, ServerState
  <2>2. \A h \in reclaims : h \in account /\ h <= Hour(now) - RECLAIM_FROM
    BY <1>3, <1>6 DEF Nearest, Reclaimable
  <2>3. account \subseteq 0..Hour(now) /\ RECLAIM_FROM \in Nat
    BY <1>1, EngineAssumption DEF TypeOK
  <2>4. reclaims \subseteq Hours /\ \A h \in reclaims : h + RECLAIM_FROM <= Hour(now)
    <3> SUFFICES ASSUME NEW h \in reclaims PROVE h \in Hours /\ h + RECLAIM_FROM <= Hour(now)
      OBVIOUS
    <3>2. h \in 0..Hour(now) /\ h <= Hour(now) - RECLAIM_FROM
      BY <2>2, <2>3
    <3>1. h \in Nat /\ h <= Hour(now) /\ h <= Hour(now) - RECLAIM_FROM
      BY <1>2, <3>2
    <3> QED
      BY <1>2, <2>3, <3>1 DEF Hours
  <2>5. runs + 1 \in Run
    BY <1>2, <1>6 DEF Run
  <2>6. /\ me \in ServerState /\ me.pc = "sign" /\ me.run = runs + 1 /\ me.reclaims = reclaims
        /\ me.hour = Hour(now)
    BY <1>3, <2>1, <2>4, <2>5 DEF ServerState
  <2>7. srv' = [srv EXCEPT ![s] = me]
    BY <1>6
  <2> HIDE DEF me
  <2>8. /\ srv' \in [Server -> ServerState] /\ srv'[s] = me
        /\ \A u \in Server : u # s => srv'[u] = srv[u]
    BY <1>1, <2>6, <2>7, SrvChanges
  <2>9. UNCHANGED <<now, account, inflight, history>> /\ Hour(now)' = Hour(now)
    BY <1>3 DEF ledger
  <2>10. TypeOK'
    BY <1>1, <1>2, <1>4, <1>6, <2>5, <2>8, <2>9 DEF TypeOK, Run
  <2>11. Timely' /\ ReclaimsOld'
    BY <1>1, <1>2, <2>4, <2>6, <2>8, <2>9 DEF Timely, ReclaimsOld
  <2>12. \A u \in Server : u # s => (Claiming(u)' <=> Claiming(u))
    BY <2>8 DEF Claiming
  <2>13. Begun'
    BY <1>1, <1>3, <2>6, <2>8, <2>9, <2>12 DEF Begun
  <2>14. Expiring' /\ AccountStays'
    BY <1>1, <2>9 DEF Expiring, AccountStays
  <2>15. Numbered'
    <3>1. \A n \in 1..runs : n \in 1..runs' /\ n # runs + 1
      BY <1>2, <1>6
    <3>2. runs + 1 \in 1..runs'
      BY <1>2, <1>6
    <3> QED
      BY <1>1, <2>6, <2>8, <2>9, <2>12, <3>1, <3>2 DEF Numbered
  <2>16. PaidOnce'
    <3>1. \A x \in inflight \cup history : x.nonce # runs + 1
      BY <1>1, <1>2 DEF Numbered
    <3>2. \A p : \A x \in inflight \cup history : ~Pays(x, srv'[s].run, p)
      BY <2>6, <2>8, <3>1 DEF Pays
    <3>3. \A u \in Server : Claiming(u)' =>
             \A p \in Part \ srv'[u].sent : \A x \in inflight \cup history : ~Pays(x, srv'[u].run, p)
      BY <1>1, <2>8, <2>12, <3>2 DEF PaidOnce
    <3> QED
      BY <1>1, <2>9, <3>3 DEF PaidOnce
  <2> QED
    BY <2>10, <2>11, <2>13, <2>14, <2>15, <2>16 DEF EngineInv
<1> QED
  BY <1>5, <1>6 DEF RecordRun

LEMMA SendClaimKeeps == ASSUME EngineInv, NEW s \in Server, SendClaim(s) PROVE EngineInv'
<1> DEFINE me == [srv[s] EXCEPT !.pc = "sent"]
           tx == ClaimTx(s)
<1>1. /\ TypeOK /\ Timely /\ Begun /\ Expiring /\ ReclaimsOld
      /\ AccountStays /\ Numbered /\ PaidOnce
  BY DEF EngineInv
<1>2. /\ srv[s].pc = "sign" /\ srv[s].hour = Hour(now) /\ srv' = [srv EXCEPT ![s] = me]
      /\ inflight' = inflight \cup {tx}
      /\ UNCHANGED <<now, last, local, runs, account, history, begun>>
  BY DEF SendClaim, At, InTime, Goes
<1>3. /\ now \in Nat /\ now <= MaxNow /\ Hour(now) \in Nat /\ Hour(now) <= Hour(MaxNow)
      /\ Hour(MaxNow) \in Nat /\ MaxNow \in Nat /\ BLOCKHASH \in Nat /\ RECLAIM_FROM \in Nat
      /\ runs \in Nat /\ MaxRuns \in Nat /\ runs <= MaxRuns
  BY <1>1, ClockFacts DEF TypeOK
<1>4. srv[s] \in ServerState /\ Claiming(s) /\ srv[s].run \in 1..runs /\ srv[s].reclaims \subseteq Hours
  BY <1>1, <1>2 DEF TypeOK, ServerState, Claiming, Numbered
<1>5. /\ me \in ServerState /\ me.pc = "sent" /\ me.hour = srv[s].hour /\ me.run = srv[s].run
      /\ me.sent = srv[s].sent
  BY <1>4 DEF ServerState
<1>6. /\ tx.kind = "claim" /\ tx.hour = Hour(now) /\ tx.nonce = srv[s].run
      /\ tx.reclaims = srv[s].reclaims /\ tx.until = now + BLOCKHASH /\ tx.part = None
  BY <1>2 DEF ClaimTx, Nonce
<1>7. tx \in Tx
  <2>1. Hour(now) \in Hours /\ srv[s].run \in Run /\ now + BLOCKHASH \in Nat
    BY <1>3, <1>4 DEF Hours, Run
  <2> QED
    BY <1>2, <1>4, <2>1 DEF ClaimTx, Nonce, Tx
<1> HIDE DEF me, tx
<1>8. /\ srv' \in [Server -> ServerState] /\ srv'[s] = me
      /\ \A u \in Server : u # s => srv'[u] = srv[u]
  BY <1>1, <1>2, <1>5, SrvChanges
<1>9. \A u \in Server : /\ Claiming(u)' <=> Claiming(u)
                        /\ srv'[u].hour = srv[u].hour /\ srv'[u].run = srv[u].run
                        /\ srv'[u].sent = srv[u].sent
                        /\ srv'[u].pc = "sign" => srv'[u] = srv[u]
  BY <1>4, <1>5, <1>8 DEF Claiming
<1>10. \A h \in tx.reclaims : h + RECLAIM_FROM <= tx.hour
  BY <1>1, <1>2, <1>6 DEF ReclaimsOld
<1>11. TypeOK'
  BY <1>1, <1>2, <1>7, <1>8, <1>10 DEF TypeOK
<1>12. Timely' /\ ReclaimsOld' /\ AccountStays'
  BY <1>1, <1>2, <1>9 DEF Timely, ReclaimsOld, AccountStays
<1>13. Begun'
  BY <1>1, <1>2, <1>4, <1>6, <1>9 DEF Begun
<1>14. Expiring'
  <2>1. now <= tx.until /\ tx.until <= MaxNow + BLOCKHASH
    BY <1>3, <1>6
  <2>2. tx.until < (tx.hour + RECLAIM_FROM) * HOUR
    BY <1>3, <1>6, ClaimExpires
  <2> QED
    BY <1>1, <1>2, <2>1, <2>2 DEF Expiring
<1>15. Numbered'
  BY <1>1, <1>2, <1>4, <1>6, <1>9 DEF Numbered
<1>16. PaidOnce'
  BY <1>1, <1>2, <1>6, <1>9 DEF PaidOnce, Pays
<1> QED
  BY <1>11, <1>12, <1>13, <1>14, <1>15, <1>16 DEF EngineInv

\* A part goes out once, and only when the ledger shows this run's claim.
LEMMA PayPartKeeps ==
    ASSUME EngineInv, NEW s \in Server, NEW p \in Part, PayPart(s, p)
    PROVE  EngineInv'
<1> DEFINE me == [srv[s] EXCEPT !.sent = @ \cup {p}]
           tx == PayTx(s, p)
<1>1. /\ TypeOK /\ Timely /\ Begun /\ Expiring /\ ReclaimsOld
      /\ AccountStays /\ Numbered /\ PaidOnce
  BY DEF EngineInv
<1>2. /\ srv[s].pc = "sent" /\ SeenLanded(s) /\ p \notin srv[s].sent
      /\ srv' = [srv EXCEPT ![s] = me]
      /\ UNCHANGED <<now, last, local, runs, account, history, begun>>
  BY DEF PayPart, At, Unsent
<1>3. /\ now \in Nat /\ now <= MaxNow /\ MaxNow \in Nat /\ BLOCKHASH \in Nat
      /\ runs \in Nat /\ MaxRuns \in Nat /\ runs <= MaxRuns
  BY <1>1, ClockFacts DEF TypeOK
<1>4. srv[s] \in ServerState /\ Claiming(s) /\ srv[s].run \in 1..runs /\ srv[s].sent \subseteq Part
  BY <1>1, <1>2 DEF TypeOK, ServerState, Claiming, Numbered
<1>5. /\ me \in ServerState /\ me.pc = "sent" /\ me.hour = srv[s].hour /\ me.run = srv[s].run
      /\ me.sent = srv[s].sent \cup {p}
  BY <1>2, <1>4 DEF ServerState
<1>6. /\ tx.kind = "pay" /\ tx.hour = srv[s].hour /\ tx.nonce = srv[s].run /\ tx.part = p
      /\ tx.reclaims = {} /\ tx.until = now + BLOCKHASH
  BY DEF PayTx
<1>7. srv[s].hour \in begun /\ begun \subseteq 0..Hour(now)
  BY <1>1, <1>4 DEF Begun, TypeOK
<1>8. tx \in Tx
  <2>1. Hour(now) \in Nat /\ Hour(MaxNow) \in Nat /\ Hour(now) <= Hour(MaxNow)
    BY <1>1, ClockFacts
  <2>3. srv[s].hour \in 0..Hour(now)
    BY <1>7
  <2>4. srv[s].hour \in Hours
    BY <2>1, <2>3 DEF Hours
  <2>2. srv[s].run \in Run /\ now + BLOCKHASH \in Nat
    BY <1>3, <1>4 DEF Run
  <2> QED
    BY <2>2, <2>4 DEF PayTx, Tx
<1>9. \E x \in history : ClaimedBy(x, srv[s].hour, srv[s].run)
  BY <1>2 DEF SeenLanded, ClaimedBy, Nonce
<1>10. inflight' = inflight \cup {tx} \/ inflight' = inflight
  BY DEF PayPart
<1> HIDE DEF me, tx
<1>11. /\ srv' \in [Server -> ServerState] /\ srv'[s] = me
       /\ \A u \in Server : u # s => srv'[u] = srv[u]
  BY <1>1, <1>2, <1>5, SrvChanges
<1>12. \A u \in Server : /\ Claiming(u)' <=> Claiming(u)
                         /\ srv'[u].hour = srv[u].hour /\ srv'[u].run = srv[u].run
                         /\ srv'[u].pc = "sign" => srv'[u] = srv[u]
                         /\ srv[u].sent \subseteq srv'[u].sent
  BY <1>2, <1>4, <1>5, <1>11 DEF Claiming
<1>13. TypeOK'
  BY <1>1, <1>2, <1>6, <1>8, <1>10, <1>11 DEF TypeOK
<1>14. Timely' /\ ReclaimsOld' /\ AccountStays'
  BY <1>1, <1>2, <1>12 DEF Timely, ReclaimsOld, AccountStays
<1>15. Begun'
  BY <1>1, <1>2, <1>6, <1>7, <1>10, <1>12 DEF Begun
<1>16. Expiring'
  <2>1. now <= tx.until /\ tx.until <= MaxNow + BLOCKHASH
    BY <1>3, <1>6
  <2> QED
    BY <1>1, <1>2, <1>6, <1>10, <2>1 DEF Expiring
<1>17. Numbered'
  BY <1>1, <1>2, <1>4, <1>6, <1>10, <1>12 DEF Numbered
<1>18. PaidOnce'
  <2>1. \A x \in inflight \cup history : ~Pays(x, srv[s].run, p)
    BY <1>1, <1>2, <1>4 DEF PaidOnce
  <2>2. ASSUME NEW ty \in inflight', ty.kind = "pay"
        PROVE  /\ ty.part \in Part
               /\ \E x \in history' : ClaimedBy(x, ty.hour, ty.nonce)
               /\ \A x \in history' : ~Pays(x, ty.nonce, ty.part)
               /\ \A tz \in inflight' : Pays(tz, ty.nonce, ty.part) => tz = ty
    <3>1. CASE ty \in inflight
      <4>1. ~Pays(ty, srv[s].run, p)
        BY <3>1, <2>1
      <4>2. ~Pays(tx, ty.nonce, ty.part)
        BY <4>1, <2>2, <1>6 DEF Pays
      <4> QED
        BY <3>1, <4>2, <2>2, <1>1, <1>2, <1>10 DEF PaidOnce
    <3>2. CASE ty = tx
      BY <3>2, <2>1, <1>2, <1>6, <1>9, <1>10
    <3> QED
      BY <3>1, <3>2, <2>2, <1>10
  <2>3. ASSUME NEW u \in Server, Claiming(u)', NEW q \in Part \ srv'[u].sent,
               NEW x \in inflight' \cup history'
        PROVE  ~Pays(x, srv'[u].run, q)
    <3>1. Claiming(u) /\ q \in Part \ srv[u].sent /\ srv'[u].run = srv[u].run
      BY <2>3, <1>12
    <3>2. CASE x \in inflight \cup history
      BY <3>1, <3>2, <1>1 DEF PaidOnce
    <3>3. CASE x = tx /\ u = s
      BY <3>3, <2>3, <1>5, <1>6, <1>11 DEF Pays
    <3>4. CASE x = tx /\ u # s
      BY <3>1, <3>4, <1>1, <1>4, <1>6 DEF Pays, Numbered
    <3> QED
      BY <3>2, <3>3, <3>4, <2>3, <1>2, <1>10
  <2> QED
    BY <2>2, <2>3 DEF PaidOnce
<1> QED
  BY <1>13, <1>14, <1>15, <1>16, <1>17, <1>18 DEF EngineInv

LEMMA FinishKeeps ==
    ASSUME EngineInv, NEW s \in Server, GiveUp(s) \/ Finish(s) \/ Crash(s)
    PROVE  EngineInv'
<1>1. local \in [Server -> {NoHour} \cup 0..Hour(now)]
  BY DEF EngineInv, TypeOK
<1>2. Ends(s) /\ UNCHANGED <<now, last, runs, ledger, begun>>
  BY DEF GiveUp, Finish, Crash
<1>3. local' \in [Server -> {NoHour} \cup 0..Hour(now)]
  BY <1>1 DEF GiveUp, Finish, Crash
<1> QED
  BY <1>2, <1>3, EndsKeeps

-----------------------------------------------------------------------------
(* What lands.                                                             *)

LEMMA LandFacts ==
    ASSUME EngineInv, NEW tx \in inflight, Land(tx)
    PROVE  /\ UNCHANGED <<now, last, local, srv, runs, begun>>
           /\ inflight' = inflight \ {tx}
           /\ Outcome(tx) \in {"used", "failed", "ok"}
           /\ \E r \in Landed :
                 /\ history' = history \cup {r}
                 /\ r.kind = tx.kind /\ r.hour = tx.hour /\ r.nonce = tx.nonce /\ r.part = tx.part
                 /\ r.until = tx.until /\ r.outcome = Outcome(tx)
<1> DEFINE r == Recorded(tx, Outcome(tx))
<1>1. TypeOK /\ tx \in Tx
  BY DEF EngineInv, TypeOK
<1>2. Outcome(tx) \in {"used", "failed", "ok"}
  BY DEF Outcome
<1>3. Hour(now) \in Hours
  BY <1>1, ClockFacts DEF Hours
<1>4. /\ r \in Landed /\ r.kind = tx.kind /\ r.hour = tx.hour /\ r.nonce = tx.nonce
      /\ r.part = tx.part /\ r.until = tx.until /\ r.outcome = Outcome(tx)
  BY <1>1, <1>2, <1>3 DEF Recorded, Tx, Landed
<1>5. /\ history' = history \cup {r} /\ inflight' = inflight \ {tx}
      /\ UNCHANGED <<now, last, local, srv, runs, begun>>
  BY DEF Land
<1> QED
  BY <1>2, <1>4, <1>5

\* A claim of an hour whose account is gone comes too late: it has expired.
LEMMA SecondClaimFails ==
    ASSUME EngineInv, NEW tx \in inflight, tx.kind = "claim", Outcome(tx) = "ok",
           NEW x \in history, x.kind = "claim", x.outcome = "ok"
    PROVE  x.hour # tx.hour
<1>1. TypeOK /\ Expiring /\ AccountStays
  BY DEF EngineInv
<1>2. /\ now \in Nat /\ RECLAIM_FROM \in Nat /\ HOUR \in Nat /\ tx.until \in Nat /\ tx.hour \in Nat
  BY <1>1, ClockFacts, EngineAssumption DEF TypeOK, Tx, Hours
<1>3. tx.hour \notin account
  BY DEF Outcome
<1>4. now <= tx.until /\ tx.until < (tx.hour + RECLAIM_FROM) * HOUR
  BY <1>1 DEF Expiring
<1> DEFINE gone == (tx.hour + RECLAIM_FROM) * HOUR
<1>5. gone \in Int /\ now <= tx.until /\ tx.until < gone
  BY <1>2, <1>4
<1> HIDE DEF gone
<1>6. ~(now >= gone)
  BY <1>2, <1>5
<1> QED
  BY <1>1, <1>3, <1>6 DEF AccountStays, gone

LEMMA LandKeeps == ASSUME EngineInv, NEW tx \in inflight, Land(tx) PROVE EngineInv'
<1>1. /\ TypeOK /\ Timely /\ Begun /\ Expiring /\ ReclaimsOld
      /\ AccountStays /\ Numbered /\ PaidOnce
  BY DEF EngineInv
<1>2. UNCHANGED <<now, last, local, srv, runs, begun>> /\ inflight' = inflight \ {tx}
  BY LandFacts
<1>3. PICK r \in Landed :
        /\ history' = history \cup {r}
        /\ r.kind = tx.kind /\ r.hour = tx.hour /\ r.nonce = tx.nonce /\ r.part = tx.part
        /\ r.until = tx.until /\ r.outcome = Outcome(tx)
  BY LandFacts
<1>4. account' = IF tx.kind = "claim" /\ Outcome(tx) = "ok"
                 THEN (account \ tx.reclaims) \cup {tx.hour}
                 ELSE account
  BY DEF Land
<1>5. tx.hour \in begun /\ tx.nonce \in 1..runs /\ begun \subseteq 0..Hour(now)
  BY <1>1 DEF Begun, Numbered, TypeOK
<1>6. TypeOK'
  <2>1. account' \subseteq 0..Hour(now)
    BY <1>1, <1>4, <1>5 DEF TypeOK
  <2> QED
    BY <1>1, <1>2, <1>3, <2>1 DEF TypeOK
<1>7. Timely' /\ ReclaimsOld' /\ Expiring'
  BY <1>1, <1>2 DEF Timely, ReclaimsOld, Expiring
<1>8. Begun' /\ Numbered'
  BY <1>1, <1>2, <1>3, <1>5 DEF Begun, Numbered, Claiming
<1>9. AccountStays'
  <2>1. \A h \in tx.reclaims : now >= (h + RECLAIM_FROM) * HOUR
    <3> SUFFICES ASSUME NEW h \in tx.reclaims PROVE now >= (h + RECLAIM_FROM) * HOUR
      OBVIOUS
    <3>1. h \in Nat /\ tx.hour \in Nat /\ RECLAIM_FROM \in Nat /\ h + RECLAIM_FROM <= tx.hour
      BY <1>1, EngineAssumption DEF TypeOK, Tx, Hours
    <3>6. tx.hour \in 0..Hour(now)
      BY <1>5
    <3>2. tx.hour <= Hour(now) /\ Hour(now) \in Nat /\ now \in Nat
      BY <3>6, <1>1, ClockFacts
    <3>3. h + RECLAIM_FROM \in Int /\ h + RECLAIM_FROM <= Hour(now)
      BY <3>1, <3>2
    <3>4. (h + RECLAIM_FROM) * HOUR <= Hour(now) * HOUR /\ Hour(now) * HOUR <= now
      BY <3>2, <3>3, HoursTimes, HourBounds
    <3>5. (h + RECLAIM_FROM) * HOUR \in Int /\ Hour(now) * HOUR \in Int
      BY <3>2, <3>3, EngineAssumption
    <3> QED
      BY <3>2, <3>4, <3>5
  <2>2. ASSUME NEW x \in history', x.kind = "claim", x.outcome = "ok"
        PROVE  x.hour \in account' \/ now >= (x.hour + RECLAIM_FROM) * HOUR
    <3>1. CASE x = r
      BY <3>1, <2>2, <1>3, <1>4
    <3>2. CASE x \in history
      BY <3>2, <2>1, <2>2, <1>1, <1>4 DEF AccountStays
    <3> QED
      BY <3>1, <3>2, <2>2, <1>3
  <2> QED
    BY <2>2, <1>2 DEF AccountStays
<1>10. PaidOnce'
  <2>1. ASSUME NEW ty \in inflight', ty.kind = "pay"
        PROVE  /\ ty.part \in Part
               /\ \E x \in history' : ClaimedBy(x, ty.hour, ty.nonce)
               /\ \A x \in history' : ~Pays(x, ty.nonce, ty.part)
               /\ \A tz \in inflight' : Pays(tz, ty.nonce, ty.part) => tz = ty
    <3>1. ty \in inflight /\ ty # tx
      BY <1>2
    <3>2. /\ ty.part \in Part
          /\ \E x \in history : ClaimedBy(x, ty.hour, ty.nonce)
          /\ \A x \in history : ~Pays(x, ty.nonce, ty.part)
          /\ \A tz \in inflight : Pays(tz, ty.nonce, ty.part) => tz = ty
      BY <2>1, <3>1, <1>1 DEF PaidOnce
    <3>3. ~Pays(r, ty.nonce, ty.part)
      BY <3>1, <3>2, <1>3 DEF Pays
    <3> QED
      BY <3>2, <3>3, <1>2, <1>3
  <2>2. ASSUME NEW s \in Server, Claiming(s), NEW p \in Part \ srv[s].sent
        PROVE  \A x \in inflight' \cup history' : ~Pays(x, srv[s].run, p)
    <3>1. \A x \in inflight \cup history : ~Pays(x, srv[s].run, p)
      BY <2>2, <1>1 DEF PaidOnce
    <3>2. ~Pays(r, srv[s].run, p)
      BY <3>1, <1>3 DEF Pays
    <3> QED
      BY <3>1, <3>2, <1>2, <1>3
  <2>3. \A s \in Server : Claiming(s)' <=> Claiming(s)
    BY <1>2 DEF Claiming
  <2> QED
    BY <2>1, <2>2, <2>3, <1>2 DEF PaidOnce
<1> QED
  BY <1>6, <1>7, <1>8, <1>9, <1>10 DEF EngineInv

-----------------------------------------------------------------------------
(* The theorems.                                                           *)

LEMMA NextEngineInv == EngineInv /\ [Next]_vars => EngineInv'
<1> SUFFICES ASSUME EngineInv, [Next]_vars PROVE EngineInv'
  OBVIOUS
<1>1. CASE UNCHANGED vars
  BY <1>1 DEF vars, ledger, EngineInv, TypeOK, Timely, Begun, Expiring, ReclaimsOld, AccountStays,
              Numbered, PaidOnce, Claiming
<1>2. CASE Next
  BY <1>2, TickKeeps, LandKeeps, StartKeeps, AskChainKeeps, TakeLockKeeps, RecordRunKeeps,
     SendClaimKeeps, PayPartKeeps, FinishKeeps DEF Next, Step
<1> QED
  BY <1>1, <1>2

\* The inductive invariant.
THEOREM EngineAccounted == Spec => []EngineInv
  BY InitEngineInv, NextEngineInv, PTL DEF Spec

\* TypeOK for every bound; no record, claim or payment of an hour to come.
THEOREM TypeCorrect == Spec => []TypeOK
<1>1. EngineInv => TypeOK
  BY DEF EngineInv
<1> QED
  BY <1>1, EngineAccounted, PTL

\* HeldOffByItself for any number of instances: the store's record and the instances' memories hold
\* an hour off only when a run of that hour recorded it (chainRunThisPeriod, tick).
THEOREM HoursHeldOffByThemselves == Spec => []HeldOffByItself
<1>1. Init => HeldOffByItself
  <2> SUFFICES ASSUME Init PROVE HeldOffByItself
    OBVIOUS
  <2>1. Hour(now) \in Nat /\ last = -1 /\ \A s \in Server : local[s] = -1
    BY HourBounds DEF Init, NoHour
  <2> QED
    BY <2>1 DEF HeldOffByItself
<1>2. EngineInv /\ EngineInv' /\ HeldOffByItself /\ [Next]_vars => HeldOffByItself'
  <2> SUFFICES ASSUME EngineInv, HeldOffByItself, [Next]_vars PROVE HeldOffByItself'
    OBVIOUS
  <2>1. TypeOK /\ Timely /\ Begun
    BY DEF EngineInv
  <2>2. now \in Nat /\ Hour(now) \in Nat
    BY <2>1, ClockFacts
  <2>3. ASSUME NEW s \in Server, AskChain(s) PROVE HeldOffByItself'
    <3>1. PICK x \in history : /\ ShowsRun(x, srv[s].hour)
                               /\ local' = [local EXCEPT ![s] = FoundAt(x, srv[s].hour)]
                               /\ last' = FoundAt(x, srv[s].hour)
      BY <2>3 DEF AskChain
    <3>2. UNCHANGED <<now, begun>> /\ local \in [Server -> Int]
      BY <2>1, <2>3, <2>2 DEF AskChain, TypeOK, NoHour
    <3>3. /\ x.at \in Nat /\ x.hour \in begun /\ begun \subseteq 0..Hour(now)
          /\ srv[s].hour \in {-1} \cup Nat /\ srv[s].hour <= Hour(now)
      BY <2>1 DEF TypeOK, Landed, Hours, ServerState, Timely, Begun, NoHour
    <3>4. FoundAt(x, srv[s].hour) >= Hour(now) => Hour(now) \in begun
      <4>3. x.hour \in 0..Hour(now)
        BY <3>3
      <4>1. x.hour <= Hour(now) /\ x.hour \in Nat
        BY <4>3, <2>2
      <4>2. FoundAt(x, srv[s].hour) = srv[s].hour /\ x.hour >= srv[s].hour
        BY <3>1, <3>3 DEF FoundAt, ShowsRun
      <4> QED
        BY <4>1, <4>2, <3>3, <2>2
    <3> QED
      BY <3>1, <3>2, <3>4 DEF HeldOffByItself
  <2>4. ASSUME NEW s \in Server, RecordRun(s) PROVE HeldOffByItself'
    BY <2>4 DEF RecordRun, InTime, HeldOffByItself
  <2>5. CASE Tick
    <3>1. now' = now + 1 /\ UNCHANGED <<last, local, begun>>
      BY <2>5 DEF Tick
    <3>2. Hour(now) <= Hour(now') /\ Hour(now') \in Nat
      BY <3>1, <2>2, HourBounds, HourGrows
    <3>3. last \in Int /\ last <= Hour(now) /\ \A s \in Server : local[s] \in Int /\ local[s] <= Hour(now)
      BY <2>1, <2>2 DEF TypeOK, NoHour
    <3> QED
      BY <3>1, <3>2, <3>3, <2>2 DEF HeldOffByItself
  <2>6. ASSUME NEW s \in Server, Crash(s) PROVE HeldOffByItself'
    <3>1. UNCHANGED <<now, last, begun>> /\ local' = [local EXCEPT ![s] = -1]
      BY <2>6 DEF Crash, NoHour
    <3>2. local \in [Server -> {-1} \cup 0..Hour(now)]
      BY <2>1 DEF TypeOK, NoHour
    <3> QED
      BY <3>1, <3>2, <2>2 DEF HeldOffByItself
  <2>7. CASE UNCHANGED <<now, last, local, begun>>
    BY <2>7 DEF HeldOffByItself
  <2> QED
    BY <2>3, <2>4, <2>5, <2>6, <2>7
    DEF Next, Step, vars, Land, Start, TakeLock, GiveUp, SendClaim, PayPart, Finish
<1> QED
  BY <1>1, <1>2, EngineAccounted, PTL DEF Spec

-----------------------------------------------------------------------------
(* The engine implements HourlyPayout.                                     *)

Owns == {<<x.hour, x.nonce>> : x \in {y \in history : y.kind = "claim" /\ y.outcome = "ok"}}
Paid == {<<x.hour, x.nonce, x.part, x.until>> : x \in {y \in history : y.kind = "pay"}}

\* What a transaction that lands adds to who owns which hour and what is paid.
LEMMA LandAdds ==
    ASSUME EngineInv, NEW tx \in inflight, NEW r \in Landed, history' = history \cup {r}
    PROVE  /\ Owns' = IF r.kind = "claim" /\ r.outcome = "ok" THEN Owns \cup {<<r.hour, r.nonce>>} ELSE Owns
           /\ Paid' = IF r.kind = "pay" THEN Paid \cup {<<r.hour, r.nonce, r.part, r.until>>} ELSE Paid
<1>1. {y \in history' : y.kind = "claim" /\ y.outcome = "ok"}
        = IF r.kind = "claim" /\ r.outcome = "ok"
          THEN {y \in history : y.kind = "claim" /\ y.outcome = "ok"} \cup {r}
          ELSE {y \in history : y.kind = "claim" /\ y.outcome = "ok"}
  OBVIOUS
<1>2. {y \in history' : y.kind = "pay"}
        = IF r.kind = "pay" THEN {y \in history : y.kind = "pay"} \cup {r}
          ELSE {y \in history : y.kind = "pay"}
  OBVIOUS
<1> QED
  BY <1>1, <1>2 DEF Owns, Paid

\* The promise's payment, of one who owns the hour.
LEMMA PayIs ==
    ASSUME NEW h, NEW n, NEW p \in Part, NEW t \in 0..(MaxNow + BLOCKHASH), <<h, n>> \in Owns,
           Owns' = Owns, Paid' = Paid \cup {<<h, n, p, t>>},
           \A q \in Paid : <<q[1], q[2], q[3]>> # <<h, n, p>>
    PROVE  Promise!Pay
<1> DEFINE o == <<h, n>>
<1>1. /\ o \in Owns /\ Paid' = Paid \cup {<<o[1], o[2], p, t>>}
      /\ \A q \in Paid : <<q[1], q[2], q[3]>> # <<o[1], o[2], p>>
  OBVIOUS
<1>2. \E w \in Owns : \E pp \in Part, tt \in 0..(MaxNow + BLOCKHASH) :
         /\ \A q \in Paid : <<q[1], q[2], q[3]>> # <<w[1], w[2], pp>>
         /\ Paid' = Paid \cup {<<w[1], w[2], pp, tt>>}
  <2> HIDE DEF o
  <2> QED
    BY <1>1
<1> QED
  BY <1>2, Zenon DEF Promise!Pay, Owns, Paid

\* A step of the engine is one of the promise, or none.
LEMMA StepKeepsPromise == EngineInv /\ [Next]_vars => [Promise!Next]_<<Owns, Paid>>
<1> SUFFICES ASSUME EngineInv, [Next]_vars PROVE [Promise!Next]_<<Owns, Paid>>
  OBVIOUS
<1>1. CASE history' = history
  BY <1>1 DEF Owns, Paid
<1>2. ASSUME NEW tx \in inflight, Land(tx) PROVE [Promise!Next]_<<Owns, Paid>>
  <2>1. PICK r \in Landed :
          /\ history' = history \cup {r}
          /\ r.kind = tx.kind /\ r.hour = tx.hour /\ r.nonce = tx.nonce /\ r.part = tx.part
          /\ r.until = tx.until /\ r.outcome = Outcome(tx)
    BY <1>2, LandFacts
  <2>2. /\ Owns' = IF r.kind = "claim" /\ r.outcome = "ok" THEN Owns \cup {<<r.hour, r.nonce>>} ELSE Owns
        /\ Paid' = IF r.kind = "pay" THEN Paid \cup {<<r.hour, r.nonce, r.part, r.until>>} ELSE Paid
    BY <1>2, <2>1, LandAdds
  <2>3. /\ tx.hour \in Hours /\ tx.nonce \in Run /\ tx.part \in Part \cup {None}
        /\ tx.until \in 0..(MaxNow + BLOCKHASH)
    <3>1. tx \in Tx /\ tx.until <= MaxNow + BLOCKHASH
      BY DEF EngineInv, TypeOK, Expiring
    <3>2. tx.until \in Nat /\ MaxNow \in Nat /\ BLOCKHASH \in Nat
      BY <3>1, EngineAssumption DEF Tx
    <3> QED
      BY <3>1, <3>2 DEF Tx
  <2>4. CASE tx.kind = "claim" /\ Outcome(tx) = "ok"
    <3>1. \A x \in history : x.kind = "claim" /\ x.outcome = "ok" => x.hour # tx.hour
      BY <2>4, SecondClaimFails
    <3>2. tx.hour \notin {o[1] : o \in Owns}
      BY <3>1 DEF Owns
    <3>3. Owns' = Owns \cup {<<tx.hour, tx.nonce>>} /\ Paid' = Paid
      BY <2>1, <2>2, <2>4
    <3>4. Promise!Own
      BY <2>3, <3>2, <3>3 DEF Promise!Own, Owns, Paid
    <3> QED
      BY <3>4 DEF Promise!Next
  <2>5. CASE tx.kind = "pay"
    <3>1. Owns' = Owns /\ Paid' = Paid \cup {<<tx.hour, tx.nonce, tx.part, tx.until>>}
      BY <2>1, <2>2, <2>5
    <3>2. /\ tx.part \in Part
          /\ \E x \in history : ClaimedBy(x, tx.hour, tx.nonce)
          /\ \A x \in history : ~Pays(x, tx.nonce, tx.part)
      BY <2>5 DEF EngineInv, PaidOnce
    <3>3. <<tx.hour, tx.nonce>> \in Owns
      BY <3>2 DEF Owns, ClaimedBy
    <3>4. \A q \in Paid : <<q[1], q[2], q[3]>> # <<tx.hour, tx.nonce, tx.part>>
      BY <3>2 DEF Paid, Pays
    <3>5. Promise!Pay
      BY <2>3, <3>1, <3>2, <3>3, <3>4, PayIs, SMTT(60) DEF Owns, Paid
    <3> QED
      BY <3>5 DEF Promise!Next
  <2>6. CASE ~(tx.kind = "claim" /\ Outcome(tx) = "ok") /\ tx.kind # "pay"
    BY <2>1, <2>2, <2>6
  <2> QED
    BY <2>4, <2>5, <2>6
<1> QED
  BY <1>1, <1>2 DEF Next, Step, vars, ledger, Tick, Start, AskChain, TakeLock, GiveUp, RecordRun,
     SendClaim, PayPart, Finish, Crash

\* KeepsPromise for any number of instances, hours and runs: the wallet's history pays every hour
\* as HourlyPayout promises, once, by one run, each part in one transaction.
THEOREM EngineKeepsPromise == Spec => KeepsPromise
<1>1. Init => Promise!Init
  BY DEF Init, Promise!Init
<1>2. EngineInv /\ [Next]_vars => [Promise!Next]_<<Owns, Paid>>
  BY StepKeepsPromise
<1> QED
  BY <1>1, <1>2, EngineAccounted, PTL DEF Spec, KeepsPromise, Promise!Spec, Owns, Paid

-----------------------------------------------------------------------------
(* Sums over finite sets.                                                  *)

\* A set that holds 0, and with each natural the next, holds them all.
LEMMA SetInduction ==
    ASSUME NEW S, 0 \in S, \A n \in Nat : n \in S => n + 1 \in S
    PROVE  \A n \in Nat : n \in S
<1> DEFINE T == {n \in Nat : n \notin S}
<1> SUFFICES ASSUME T # {} PROVE FALSE
  OBVIOUS
<1>1. IsWellFoundedOn(OpToRel(<, Nat), Nat)
  BY NatLessThanWellFounded
<1>2. T \subseteq Nat
  OBVIOUS
<1> HIDE DEF T
<1>3. PICK m \in T : \A k \in T : <<k, m>> \notin OpToRel(<, Nat)
  BY <1>1, <1>2, WFMin
<1>4. m \in Nat /\ m \notin S /\ \A k \in Nat : k < m => k \in S
  BY <1>2, <1>3 DEF T, OpToRel
<1> QED BY <1>4

Chosen(s) == CHOOSE x \in s : TRUE

\* The sums of f over the parts of S, as the fold takes them.
Sums(f, S) ==
    CHOOSE g : g = [s \in SUBSET S |-> IF s = {} THEN 0 ELSE f[Chosen(s)] + g[s \ {Chosen(s)}]]

LEMMA TotalIs ==
    ASSUME NEW f, NEW S
    PROVE  P!Total(f, S) = Sums(f, S)[S]
  BY DEF P!Total, P!MapThenSumSet, P!MapThenFoldSet, Sums, Chosen


\* A set that holds nothing, and with a set one more, holds every finite set.
LEMMA FiniteInduction ==
    ASSUME NEW U, IsFiniteSet(U), NEW Q, {} \in Q,
           \A T \in SUBSET U : \A x \in U \ T : T \in Q => T \cup {x} \in Q
    PROVE  U \in Q
<1> DEFINE N == {n \in Nat : \A T \in SUBSET U : Cardinality(T) = n => T \in Q}
<1>1. 0 \in N
  <2> SUFFICES ASSUME NEW T \in SUBSET U, Cardinality(T) = 0 PROVE T \in Q
    OBVIOUS
  <2>1. T = {}
    BY FS_Subset, FS_EmptySet
  <2> QED BY <2>1
<1>2. ASSUME NEW n \in Nat, n \in N PROVE n + 1 \in N
  <2> SUFFICES ASSUME NEW T \in SUBSET U, Cardinality(T) = n + 1 PROVE T \in Q
    OBVIOUS
  <2>1. IsFiniteSet(T) /\ T # {}
    BY FS_Subset, FS_EmptySet
  <2>2. PICK x \in T : TRUE
    BY <2>1
  <2>3. Cardinality(T \ {x}) = Cardinality(T) - 1
    BY <2>1, FS_RemoveElement
  <2>4. T \ {x} \in Q
    BY <1>2, <2>3
  <2>5. (T \ {x}) \cup {x} = T
    OBVIOUS
  <2> QED BY <2>4, <2>5
<1> HIDE DEF N
<1>3. \A n \in Nat : n \in N
  BY <1>1, <1>2, SetInduction
<1>4. Cardinality(U) \in Nat
  BY FS_CardinalityType
<1> QED BY <1>3, <1>4 DEF N

SumsEq(g, f, D) == g = [s \in D |-> IF s = {} THEN 0 ELSE f[Chosen(s)] + g[s \ {Chosen(s)}]]

LEMMA SumsExist ==
    ASSUME NEW f, NEW S, IsFiniteSet(S)
    PROVE  SumsEq(Sums(f, S), f, SUBSET S)
<1> DEFINE Upto(k) == {s \in SUBSET S : Cardinality(s) <= k}
           N == {k \in Nat : \E g : SumsEq(g, f, Upto(k))}
<1>1. \A s \in SUBSET S : IsFiniteSet(s) /\ Cardinality(s) \in Nat
  BY FS_Subset, FS_CardinalityType
<1>2. \A s \in SUBSET S : s # {} => /\ Chosen(s) \in s /\ s \ {Chosen(s)} \in SUBSET S
                                    /\ Cardinality(s \ {Chosen(s)}) = Cardinality(s) - 1
  <2> SUFFICES ASSUME NEW s \in SUBSET S, s # {}
               PROVE  Chosen(s) \in s /\ Cardinality(s \ {Chosen(s)}) = Cardinality(s) - 1
    OBVIOUS
  <2>1. Chosen(s) \in s
    BY DEF Chosen
  <2> QED BY <1>1, <2>1, FS_RemoveElement
<1>3. 0 \in N
  <2> DEFINE g == [s \in Upto(0) |-> 0]
  <2>1. \A s \in Upto(0) : s = {}
    BY <1>1, FS_EmptySet
  <2>2. SumsEq(g, f, Upto(0))
    BY <2>1 DEF SumsEq
  <2> QED BY <2>2
<1>4. ASSUME NEW k \in Nat, k \in N PROVE k + 1 \in N
  <2>1. PICK g : SumsEq(g, f, Upto(k))
    BY <1>4
  <2> DEFINE h == [s \in Upto(k + 1) |-> IF s = {} THEN 0 ELSE f[Chosen(s)] + g[s \ {Chosen(s)}]]
  <2>2. \A s \in Upto(k) : h[s] = g[s]
    <3>1. \A s \in Upto(k) : s \in Upto(k + 1)
      BY <1>1
    <3>2. \A s \in Upto(k) : g[s] = IF s = {} THEN 0 ELSE f[Chosen(s)] + g[s \ {Chosen(s)}]
      BY <2>1 DEF SumsEq
    <3> HIDE DEF Upto
    <3> QED BY <3>1, <3>2
  <2>3. \A s \in Upto(k + 1) : s # {} => s \ {Chosen(s)} \in Upto(k)
    BY <1>1, <1>2
  <2>4. SumsEq(h, f, Upto(k + 1))
    <3>1. \A s \in Upto(k + 1) :
             h[s] = IF s = {} THEN 0 ELSE f[Chosen(s)] + h[s \ {Chosen(s)}]
      BY <2>2, <2>3
    <3>2. h = [s \in Upto(k + 1) |-> h[s]]
      OBVIOUS
    <3> HIDE DEF h, Upto
    <3> QED BY <3>1, <3>2 DEF SumsEq
  <2> HIDE DEF h, Upto
  <2>5. \E g1 : SumsEq(g1, f, Upto(k + 1))
    BY <2>4
  <2> QED BY <2>5
<1>5. \E g : SumsEq(g, f, SUBSET S)
  <2> HIDE DEF N
  <2>1. \A k \in Nat : k \in N
    BY <1>3, <1>4, SetInduction
  <2>2. Cardinality(S) \in N
    BY <1>1, <2>1
  <2>3. Upto(Cardinality(S)) = SUBSET S
    BY FS_Subset
  <2> QED BY <2>2, <2>3 DEF N
<1> QED BY <1>5 DEF Sums, SumsEq

\* The sums of two sets agree on what they share.
LEMMA SumsAgree ==
    ASSUME NEW f, NEW S, IsFiniteSet(S), NEW T \in SUBSET S
    PROVE  Sums(f, S)[T] = P!Total(f, T)
<1> DEFINE N == {n \in Nat : \A s \in SUBSET T : Cardinality(s) = n => Sums(f, S)[s] = Sums(f, T)[s]}
<1>1. IsFiniteSet(T)
  BY FS_Subset
<1>2. SumsEq(Sums(f, S), f, SUBSET S) /\ SumsEq(Sums(f, T), f, SUBSET T)
  BY <1>1, SumsExist
<1>3. \A s \in SUBSET T :
         /\ Sums(f, S)[s] = IF s = {} THEN 0 ELSE f[Chosen(s)] + Sums(f, S)[s \ {Chosen(s)}]
         /\ Sums(f, T)[s] = IF s = {} THEN 0 ELSE f[Chosen(s)] + Sums(f, T)[s \ {Chosen(s)}]
  BY <1>2 DEF SumsEq
<1>4. \A s \in SUBSET T : IsFiniteSet(s) /\ Cardinality(s) \in Nat
  BY <1>1, FS_Subset, FS_CardinalityType
<1>5. 0 \in N
  BY <1>3, <1>4, FS_EmptySet
<1>6. ASSUME NEW n \in Nat, n \in N PROVE n + 1 \in N
  <2> SUFFICES ASSUME NEW s \in SUBSET T, Cardinality(s) = n + 1
               PROVE  Sums(f, S)[s] = Sums(f, T)[s]
    OBVIOUS
  <2>1. s # {}
    BY FS_EmptySet
  <2>2. Chosen(s) \in s
    BY <2>1 DEF Chosen
  <2>3. Cardinality(s \ {Chosen(s)}) = n
    BY <1>4, <2>2, FS_RemoveElement
  <2>4. Sums(f, S)[s \ {Chosen(s)}] = Sums(f, T)[s \ {Chosen(s)}]
    BY <1>6, <2>3
  <2> QED BY <1>3, <2>1, <2>4
<1> HIDE DEF N
<1>7. Cardinality(T) \in N
  BY <1>4, <1>5, <1>6, SetInduction
<1> QED BY <1>7, TotalIs DEF N

LEMMA TotalEmpty == ASSUME NEW f PROVE P!Total(f, {}) = 0
<1>1. SumsEq(Sums(f, {}), f, SUBSET {})
  BY FS_EmptySet, SumsExist
<1> QED BY <1>1, TotalIs DEF SumsEq

LEMMA TotalOfChosen ==
    ASSUME NEW f, NEW S, IsFiniteSet(S), S # {}
    PROVE  Chosen(S) \in S /\ P!Total(f, S) = f[Chosen(S)] + P!Total(f, S \ {Chosen(S)})
<1>1. Chosen(S) \in S
  BY DEF Chosen
<1>2. SumsEq(Sums(f, S), f, SUBSET S)
  BY SumsExist
<1>3. \A s \in SUBSET S :
         Sums(f, S)[s] = IF s = {} THEN 0 ELSE f[Chosen(s)] + Sums(f, S)[s \ {Chosen(s)}]
  BY <1>2 DEF SumsEq
<1>4. Sums(f, S)[S] = f[Chosen(S)] + Sums(f, S)[S \ {Chosen(S)}]
  BY <1>3
<1>5. Sums(f, S)[S \ {Chosen(S)}] = P!Total(f, S \ {Chosen(S)})
  BY SumsAgree
<1> QED BY <1>1, <1>4, <1>5, TotalIs

LEMMA TotalNat ==
    ASSUME NEW f, NEW S, IsFiniteSet(S), \A x \in S : f[x] \in Nat
    PROVE  P!Total(f, S) \in Nat
<1> DEFINE N == {n \in Nat : \A s \in SUBSET S : Cardinality(s) = n => P!Total(f, s) \in Nat}
<1>1. \A s \in SUBSET S : IsFiniteSet(s) /\ Cardinality(s) \in Nat
  BY FS_Subset, FS_CardinalityType
<1>2. 0 \in N
  BY <1>1, FS_EmptySet, TotalEmpty
<1>3. ASSUME NEW n \in Nat, n \in N PROVE n + 1 \in N
  <2> SUFFICES ASSUME NEW s \in SUBSET S, Cardinality(s) = n + 1
               PROVE  P!Total(f, s) \in Nat
    OBVIOUS
  <2>1. s # {}
    BY FS_EmptySet
  <2>2. Chosen(s) \in s /\ P!Total(f, s) = f[Chosen(s)] + P!Total(f, s \ {Chosen(s)})
    BY <1>1, <2>1, TotalOfChosen
  <2>3. Cardinality(s \ {Chosen(s)}) = n
    BY <1>1, <2>2, FS_RemoveElement, SMTT(60)
  <2>4. P!Total(f, s \ {Chosen(s)}) \in Nat
    BY <1>3, <2>3
  <2> QED BY <2>2, <2>4
<1> HIDE DEF N
<1>4. Cardinality(S) \in N
  BY <1>1, <1>2, <1>3, SetInduction
<1> QED BY <1>4 DEF N

\* Any summand may be taken first.
LEMMA TotalSplit ==
    ASSUME NEW f, NEW S, IsFiniteSet(S), \A y \in S : f[y] \in Nat, NEW x \in S
    PROVE  P!Total(f, S) = f[x] + P!Total(f, S \ {x})
<1> DEFINE N == {n \in Nat : \A s \in SUBSET S : Cardinality(s) = n =>
                                \A y \in s : P!Total(f, s) = f[y] + P!Total(f, s \ {y})}
<1>1. \A s \in SUBSET S : IsFiniteSet(s) /\ Cardinality(s) \in Nat /\ P!Total(f, s) \in Nat
  BY FS_Subset, FS_CardinalityType, TotalNat
<1>2. 0 \in N
  BY <1>1, FS_EmptySet
<1>3. ASSUME NEW n \in Nat, n \in N PROVE n + 1 \in N
  <2> SUFFICES ASSUME NEW s \in SUBSET S, Cardinality(s) = n + 1, NEW y \in s
               PROVE  P!Total(f, s) = f[y] + P!Total(f, s \ {y})
    OBVIOUS
  <2> DEFINE c == Chosen(s)
  <2>1. c \in s /\ P!Total(f, s) = f[c] + P!Total(f, s \ {c})
    BY <1>1, TotalOfChosen
  <2> HIDE DEF c
  <2>2. CASE y = c
    BY <2>1, <2>2
  <2>3. CASE y # c
    <3>1. Cardinality(s \ {c}) = n /\ Cardinality(s \ {y}) = n
      <4>1. IsFiniteSet(s)
        BY <1>1
      <4>2. Cardinality(s \ {c}) = Cardinality(s) - 1
        BY <2>1, <4>1, FS_RemoveElement
      <4>3. Cardinality(s \ {y}) = Cardinality(s) - 1
        BY <4>1, FS_RemoveElement
      <4> QED BY <4>2, <4>3
    <3>2. P!Total(f, s \ {c}) = f[y] + P!Total(f, (s \ {c}) \ {y})
      BY <1>3, <2>3, <3>1
    <3>3. P!Total(f, s \ {y}) = f[c] + P!Total(f, (s \ {y}) \ {c})
      BY <1>3, <2>1, <2>3, <3>1
    <3>4. (s \ {c}) \ {y} = (s \ {y}) \ {c}
      OBVIOUS
    <3>5. P!Total(f, (s \ {y}) \ {c}) \in Nat /\ f[y] \in Nat /\ f[c] \in Nat
      BY <1>1, <2>1
    <3> DEFINE rest == P!Total(f, (s \ {y}) \ {c})
    <3>6. P!Total(f, s) = f[c] + (f[y] + rest)
      BY <2>1, <3>2, <3>4
    <3>7. P!Total(f, s \ {y}) = f[c] + rest
      BY <3>3
    <3>8. rest \in Nat
      BY <3>5
    <3> HIDE DEF rest
    <3> QED BY <3>5, <3>6, <3>7, <3>8
  <2> QED BY <2>2, <2>3
<1> HIDE DEF N
<1>4. Cardinality(S) \in N
  BY <1>1, <1>2, <1>3, SetInduction
<1> QED BY <1>4 DEF N

LEMMA TotalAdd ==
    ASSUME NEW f, NEW T, IsFiniteSet(T), NEW x, x \notin T, \A y \in T \cup {x} : f[y] \in Nat
    PROVE  /\ IsFiniteSet(T \cup {x})
           /\ P!Total(f, T \cup {x}) = f[x] + P!Total(f, T)
           /\ P!Total(f, T) \in Nat
<1>1. IsFiniteSet(T \cup {x}) /\ (T \cup {x}) \ {x} = T
  BY FS_AddElement
<1>2. P!Total(f, T \cup {x}) = f[x] + P!Total(f, (T \cup {x}) \ {x})
  BY <1>1, TotalSplit
<1> QED BY <1>1, <1>2, TotalNat

LEMMA TotalSame ==
    ASSUME NEW S, IsFiniteSet(S), NEW f, NEW g, \A x \in S : f[x] \in Nat /\ g[x] = f[x]
    PROVE  P!Total(g, S) = P!Total(f, S)
<1> DEFINE Q == {T \in SUBSET S : P!Total(g, T) = P!Total(f, T)}
<1>1. {} \in Q
  BY TotalEmpty
<1>2. ASSUME NEW T \in SUBSET S, NEW x \in S \ T, T \in Q PROVE T \cup {x} \in Q
  <2>1. IsFiniteSet(T)
    BY FS_Subset
  <2>2. P!Total(f, T \cup {x}) = f[x] + P!Total(f, T) /\ P!Total(g, T \cup {x}) = g[x] + P!Total(g, T)
    BY <2>1, TotalAdd
  <2> QED BY <1>2, <2>2
<1> HIDE DEF Q
<1>3. S \in Q
  BY <1>1, <1>2, FiniteInduction
<1> QED BY <1>3 DEF Q

LEMMA TotalUnion ==
    ASSUME NEW f, NEW S, IsFiniteSet(S), NEW R, IsFiniteSet(R), S \cap R = {},
           \A x \in S \cup R : f[x] \in Nat
    PROVE  P!Total(f, R \cup S) = P!Total(f, R) + P!Total(f, S)
<1> DEFINE Q == {T \in SUBSET S : P!Total(f, R \cup T) = P!Total(f, R) + P!Total(f, T)}
<1>1. {} \in Q
  <2>1. R \cup {} = R /\ P!Total(f, R) \in Nat
    BY TotalNat
  <2> QED BY <2>1, TotalEmpty
<1>2. ASSUME NEW T \in SUBSET S, NEW x \in S \ T, T \in Q PROVE T \cup {x} \in Q
  <2>1. IsFiniteSet(T) /\ IsFiniteSet(R \cup T) /\ x \notin R \cup T
    BY FS_Subset, FS_Union
  <2>2. P!Total(f, T \cup {x}) = f[x] + P!Total(f, T) /\ P!Total(f, T) \in Nat
    BY <2>1, TotalAdd
  <2>3. P!Total(f, (R \cup T) \cup {x}) = f[x] + P!Total(f, R \cup T)
    BY <2>1, TotalAdd
  <2>4. P!Total(f, R \cup (T \cup {x})) = P!Total(f, (R \cup T) \cup {x})
    <3>1. (R \cup T) \cup {x} = R \cup (T \cup {x})
      OBVIOUS
    <3> QED BY <3>1, Zenon
  <2>5. f[x] \in Nat /\ P!Total(f, R) \in Nat /\ P!Total(f, R \cup T) = P!Total(f, R) + P!Total(f, T)
    BY <1>2, TotalNat
  <2>6. P!Total(f, R \cup (T \cup {x})) = P!Total(f, R) + P!Total(f, T \cup {x})
    BY <2>2, <2>3, <2>4, <2>5
  <2> QED BY <2>6
<1> HIDE DEF Q
<1>3. S \in Q
  BY <1>1, <1>2, FiniteInduction
<1> QED BY <1>3 DEF Q

\* A part is no more than the whole.
LEMMA TotalPart ==
    ASSUME NEW f, NEW S, IsFiniteSet(S), \A x \in S : f[x] \in Nat, NEW T \in SUBSET S
    PROVE  P!Total(f, T) \in Nat /\ P!Total(f, T) <= P!Total(f, S)
<1>1. IsFiniteSet(T) /\ IsFiniteSet(S \ T) /\ (S \ T) \cap T = {} /\ T \cup (S \ T) = S
  BY FS_Subset, FS_Difference
<1>2. P!Total(f, T) \in Nat /\ P!Total(f, S \ T) \in Nat
  BY <1>1, TotalNat
<1>3. P!Total(f, T \cup (S \ T)) = P!Total(f, T) + P!Total(f, S \ T)
  BY <1>1, TotalUnion
<1>4. P!Total(f, S) = P!Total(f, T) + P!Total(f, S \ T)
  BY <1>1, <1>3
<1> QED BY <1>2, <1>4

\* When every summand, so many times, is within so many of another, so is the sum.
LEMMA TotalScaled ==
    ASSUME NEW S, IsFiniteSet(S), NEW f, NEW g, NEW k \in Nat, NEW m \in Nat,
           \A x \in S : f[x] \in Nat /\ g[x] \in Nat /\ k * f[x] <= m * g[x]
    PROVE  k * P!Total(f, S) <= m * P!Total(g, S)
<1> DEFINE Q == {T \in SUBSET S : k * P!Total(f, T) <= m * P!Total(g, T)}
<1>1. {} \in Q
  BY TotalEmpty
<1>2. ASSUME NEW T \in SUBSET S, NEW x \in S \ T, T \in Q PROVE T \cup {x} \in Q
  <2>1. IsFiniteSet(T)
    BY FS_Subset
  <2>2. /\ P!Total(f, T \cup {x}) = f[x] + P!Total(f, T) /\ P!Total(f, T) \in Nat
        /\ P!Total(g, T \cup {x}) = g[x] + P!Total(g, T) /\ P!Total(g, T) \in Nat
    BY <2>1, TotalAdd
  <2>3. k * P!Total(f, T) <= m * P!Total(g, T) /\ k * f[x] <= m * g[x] /\ f[x] \in Nat /\ g[x] \in Nat
    BY <1>2
  <2>4. \A a, b, c, d \in Nat : k * a <= m * b /\ k * c <= m * d => k * (c + a) <= m * (d + b)
    <3> TAKE a, b, c, d \in Nat
    <3>1. k * (c + a) = k * c + k * a /\ m * (d + b) = m * d + m * b
      OBVIOUS
    <3>2. k * a \in Nat /\ k * c \in Nat /\ m * b \in Nat /\ m * d \in Nat
      OBVIOUS
    <3> QED BY <3>1, <3>2
  <2>5. k * (f[x] + P!Total(f, T)) <= m * (g[x] + P!Total(g, T))
    BY <2>2, <2>3, <2>4
  <2> QED BY <2>2, <2>5
<1> HIDE DEF Q
<1>3. S \in Q
  BY <1>1, <1>2, FiniteInduction
<1> QED BY <1>3 DEF Q

-----------------------------------------------------------------------------
(* The plan of a run.                                                      *)

PlanRec == [ pot : Nat, release : Nat, all : Nat, held : [Owner -> Nat],
             share : UNION {[D -> Nat] : D \in SUBSET Owner}, payouts : SUBSET Owner, buyback : Nat ]

\* Everybody in the plan gets something, and it all comes to no more than is released.
PlanOK(p) ==
    /\ p \in PlanRec
    /\ p.payouts \subseteq DOMAIN p.share
    /\ \A h \in p.payouts : p.share[h] > 0
    /\ P!Total(p.share, p.payouts) + p.buyback <= p.release

Available(balance) == IF balance > reserveLamports THEN balance - reserveLamports ELSE 0

LEMMA Floors ==
    ASSUME NEW n \in Nat, NEW d \in Nat \ {0}
    PROVE  n \div d \in Nat /\ d * (n \div d) <= n
  OBVIOUS

\* A quarter of what is above the reserve, at most.
LEMMA SliceIsSmall ==
    ASSUME NEW available \in Nat, NEW bps \in Rates
    PROVE  P!Slice(available, bps) \in Nat /\ 4 * P!Slice(available, bps) <= available
<1> DEFINE D == 10000 * DAY
           n == available * bps * everySecs
           q == n \div D
<1>1. D \in Nat \ {0} /\ bps \in Nat /\ everySecs \in Nat /\ 4 * bps * everySecs <= D
  BY PayoutAssumption
<1>2. n \in Nat
  BY <1>1
<1>3. q \in Nat /\ D * q <= n
  <2> HIDE DEF n, D
  <2> QED BY <1>1, <1>2, Floors
<1>4. P!Slice(available, bps) = q
  BY DEF P!Slice
<1>5. 4 * n <= available * D
  <2> DEFINE m == bps * everySecs
  <2>1. m \in Nat /\ 4 * bps * everySecs = 4 * m /\ n = available * m
    BY <1>1
  <2> HIDE DEF m, n, D
  <2>2. 4 * m <= D
    BY <1>1, <2>1
  <2>3. available * (4 * m) <= available * D
    BY <1>1, <2>1, <2>2
  <2>4. available * (4 * m) = 4 * (available * m)
    BY <2>1
  <2> QED BY <2>1, <2>3, <2>4
<1> HIDE DEF n, q, D
<1>6. 4 * q <= available
  <2>1. D * (4 * q) = 4 * (D * q)
    BY <1>1, <1>3
  <2>2. D * (4 * q) <= available * D
    BY <1>1, <1>2, <1>3, <1>5, <2>1
  <2>3. SUFFICES ASSUME 4 * q >= available + 1 PROVE FALSE
    BY <1>3
  <2>4. D * (4 * q) >= D * (available + 1)
    BY <1>1, <1>3, <2>3
  <2>5. D * (available + 1) = available * D + D
    BY <1>1
  <2>6. D * (4 * q) \in Nat /\ available * D \in Nat
    BY <1>1, <1>3
  <2> QED BY <1>1, <2>2, <2>4, <2>5, <2>6
<1> QED BY <1>3, <1>4, <1>6

\* The holders' shares come to no more than their pot.
LEMMA SharesWithinPot ==
    ASSUME NEW owners \in SUBSET Owner, NEW held \in [Owner -> Nat], NEW pot \in Nat,
           \A h \in owners : held[h] > 0,
           NEW share, share = [h \in owners |-> (pot * held[h]) \div P!Total(held, owners)]
    PROVE  /\ P!Total(held, owners) \in Nat
           /\ share \in [owners -> Nat]
           /\ P!Total(share, owners) <= pot
<1> DEFINE all == P!Total(held, owners)
<1>1. IsFiniteSet(owners)
  BY PayoutAssumption, FS_Subset
<1>2. all \in Nat
  BY <1>1, TotalNat
<1>3. \A h \in owners : held[h] <= all
  <2> TAKE h \in owners
  <2>1. P!Total(held, owners) = held[h] + P!Total(held, owners \ {h})
    BY <1>1, TotalSplit
  <2>2. IsFiniteSet(owners \ {h})
    BY <1>1, FS_Difference
  <2>3. P!Total(held, owners \ {h}) \in Nat
    BY <2>2, TotalNat
  <2> QED BY <2>1, <2>3
<1> HIDE DEF all
<1>4. \A h \in owners : /\ share[h] \in Nat /\ all * share[h] <= pot * held[h]
  <2> TAKE h \in owners
  <2>1. all \in Nat \ {0} /\ pot * held[h] \in Nat
    BY <1>2, <1>3
  <2>2. share[h] = (pot * held[h]) \div all
    BY DEF all
  <2> DEFINE n == pot * held[h]
  <2> HIDE DEF n
  <2>3. n \div all \in Nat /\ all * (n \div all) <= n
    BY <2>1, Floors DEF n
  <2> QED BY <2>2, <2>3 DEF n
<1>5. share \in [owners -> Nat]
  BY <1>4
<1>6. P!Total(share, owners) <= pot
  <2>1. CASE owners = {}
    BY <2>1, TotalEmpty
  <2>2. CASE owners # {}
    <3>1. all > 0
      BY <1>2, <1>3, <2>2
    <3>2. all * P!Total(share, owners) <= pot * P!Total(held, owners)
      BY <1>1, <1>2, <1>4, TotalScaled
    <3>3. P!Total(share, owners) \in Nat
      BY <1>1, <1>4, TotalNat
    <3> DEFINE t == P!Total(share, owners)
    <3>4. all * t <= pot * all /\ t \in Nat
      BY <3>2, <3>3 DEF all
    <3> HIDE DEF t
    <3>5. t <= pot
      <4>1. SUFFICES ASSUME t >= pot + 1 PROVE FALSE
        BY <3>4
      <4>2. all * t >= all * (pot + 1)
        BY <1>2, <3>4, <4>1
      <4>3. all * (pot + 1) = pot * all + all
        BY <1>2
      <4>4. pot * all \in Nat /\ all * t \in Nat
        BY <1>2, <3>4
      <4> QED BY <1>2, <3>1, <3>4, <4>2, <4>3, <4>4
    <3> QED BY <3>5 DEF t
  <2> QED BY <2>1, <2>2
<1> QED BY <1>2, <1>5, <1>6 DEF all

LEMMA PlanIsOK ==
    ASSUME NEW balance \in Nat, NEW bps \in Rates, NEW held \in Holdings, NEW empty
    PROVE  LET p == P!Plan(balance, bps, held, empty)
           IN /\ PlanOK(p)
              /\ 4 * p.release <= Available(balance)
<1> DEFINE available == Available(balance)
           slice   == P!Slice(available, bps)
           release == IF slice > maxRunLamports THEN maxRunLamports ELSE slice
           pot     == (release * holdersShareBps) \div 10000
           owners  == P!Payable(held)
           all     == P!Total(held, owners)
           share   == [h \in owners |-> (pot * held[h]) \div all]
           paid    == {h \in owners : /\ share[h] >= minTransferLamports
                                      /\ h \in empty => share[h] >= RENT_EXEMPT}
           buyback == IF release - pot >= minBuybackLamports THEN release - pot ELSE 0
           p       == P!Plan(balance, bps, held, empty)
<1>1. p = [ pot |-> pot, release |-> release, all |-> all, held |-> held, share |-> share,
            payouts |-> paid, buyback |-> buyback ]
  BY DEF P!Plan, Available
<1>2. available \in Nat
  BY PayoutAssumption DEF Available
<1>3. release \in Nat /\ 4 * release <= available
  <2> HIDE DEF available
  <2>1. slice \in Nat /\ 4 * slice <= available
    BY <1>2, SliceIsSmall
  <2>2. maxRunLamports \in Nat
    BY PayoutAssumption
  <2> HIDE DEF slice
  <2>3. CASE slice > maxRunLamports
    BY <1>2, <2>1, <2>2, <2>3
  <2>4. CASE ~(slice > maxRunLamports)
    BY <2>1, <2>4
  <2> QED BY <2>3, <2>4
<1> HIDE DEF release
<1>4. pot \in Nat /\ pot <= release
  <2> DEFINE n == release * holdersShareBps
  <2>1. holdersShareBps \in Nat /\ holdersShareBps <= 10000
    BY PayoutAssumption
  <2>2. n \in Nat /\ n <= release * 10000
    BY <1>3, <2>1
  <2> HIDE DEF n
  <2>3. n \div 10000 \in Nat /\ 10000 * (n \div 10000) <= n
    BY <2>2, Floors
  <2>4. n \div 10000 <= release
    BY <1>3, <2>2, <2>3
  <2> QED BY <2>3, <2>4 DEF n
<1> HIDE DEF pot
<1>5. held \in [Owner -> Nat] /\ owners \in SUBSET Owner /\ \A h \in owners : held[h] > 0
  BY PayoutAssumption DEF P!Payable
<1> HIDE DEF owners
<1>6. all \in Nat /\ share \in [owners -> Nat] /\ P!Total(share, owners) <= pot
  <2>1. share = [h \in owners |-> (pot * held[h]) \div P!Total(held, owners)]
    OBVIOUS
  <2> HIDE DEF share
  <2> QED BY <1>4, <1>5, <2>1, SharesWithinPot
<1>7. IsFiniteSet(owners) /\ paid \in SUBSET owners
  BY <1>5, PayoutAssumption, FS_Subset, SMTT(60)
<1>8. P!Total(share, paid) \in Nat /\ P!Total(share, paid) <= P!Total(share, owners)
      /\ P!Total(share, owners) \in Nat
  BY <1>6, <1>7, TotalPart, TotalNat
<1>9. \A h \in paid : share[h] > 0
  BY <1>6, PayoutAssumption
<1>10. buyback \in Nat /\ buyback <= release - pot
  BY <1>3, <1>4
<1> HIDE DEF share, paid, buyback, all
<1>11. P!Total(share, paid) + buyback <= release
  BY <1>3, <1>4, <1>6, <1>8, <1>10
<1>12. p \in PlanRec
  <2>1. share \in UNION {[D -> Nat] : D \in SUBSET Owner} /\ paid \in SUBSET Owner
    BY <1>5, <1>6, <1>7
  <2> QED BY <1>1, <1>3, <1>4, <1>5, <1>6, <1>10, <2>1 DEF PlanRec
<1>13. p.release = release /\ p.share = share /\ p.payouts = paid /\ p.buyback = buyback
  BY <1>1
<1>14. DOMAIN p.share = owners /\ paid \subseteq owners
  BY <1>6, <1>7, <1>13
<1> HIDE DEF p
<1>15. PlanOK(p)
  <2>1. p.payouts \subseteq DOMAIN p.share
    BY <1>13, <1>14
  <2>2. \A h \in p.payouts : p.share[h] > 0
    BY <1>9, <1>13
  <2>3. P!Total(p.share, p.payouts) + p.buyback <= p.release
    BY <1>11, <1>13
  <2> QED BY <1>12, <2>1, <2>2, <2>3 DEF PlanOK
<1> QED BY <1>3, <1>13, <1>15 DEF p

-----------------------------------------------------------------------------
(* The batches of a run.                                                   *)

Distinct(s) == \A i, j \in DOMAIN s : s[i] = s[j] => i = j

LEMMA MembersOf ==
    ASSUME NEW s, NEW h
    PROVE  h \in P!ToSet(s) <=> \E i \in DOMAIN s : s[i] = h
  BY DEF P!ToSet

\* An order of owners names each of them once.
LEMMA RankedNamesAll ==
    ASSUME NEW held, NEW owners \in SUBSET Owner, NEW s \in P!Ranked(held, owners)
    PROVE  s \in Seq(Owner) /\ Distinct(s) /\ P!ToSet(s) = owners
<1> DEFINE n == Cardinality(owners)
<1>1. IsFiniteSet(owners) /\ n \in Nat
  BY PayoutAssumption, FS_Subset, FS_CardinalityType
<1>2. P!Cardinality(owners) = n
  BY DEF P!Cardinality, Cardinality
<1>3. s \in [1..n -> owners] /\ \A i, j \in 1..n : i # j => s[i] # s[j]
  BY <1>2 DEF P!Ranked, P!SetToSeqs
<1>4. IsFiniteSet(1..n) /\ Cardinality(1..n) = n
  <2> HIDE DEF n
  <2>1. Cardinality(1..n) = IF 1 > n THEN 0 ELSE n - 1 + 1
    BY <1>1, FS_Interval
  <2>2. IsFiniteSet(1..n)
    BY <1>1, FS_Interval
  <2> QED BY <1>1, <2>1, <2>2
<1>5. s \in Injection(1..n, owners)
  BY <1>3 DEF Injection, IsInjective
<1>6. s \in Surjection(1..n, owners)
  BY <1>1, <1>4, <1>5, FS_Injection
<1> HIDE DEF n
<1>7. \A h \in owners : \E i \in 1..n : s[i] = h
  BY <1>6 DEF Surjection
<1>8. DOMAIN s = 1..n /\ s \in Seq(Owner)
  BY <1>1, <1>3
<1>9. \A h : h \in P!ToSet(s) <=> h \in owners
  <2>1. ASSUME NEW h, h \in P!ToSet(s) PROVE h \in owners
    <3>1. PICK i \in 1..n : s[i] = h
      BY <1>8, <2>1, MembersOf
    <3> QED BY <1>3, <3>1
  <2>2. ASSUME NEW h, h \in owners PROVE h \in P!ToSet(s)
    <3>1. PICK i \in DOMAIN s : s[i] = h
      BY <1>7, <1>8, <2>2
    <3> QED BY <3>1, MembersOf
  <2> QED BY <2>1, <2>2
<1>10. P!ToSet(s) = owners
  BY <1>9
<1> QED BY <1>3, <1>8, <1>10 DEF Distinct

\* Every holder is in one place of one batch.
Apart(b) ==
    /\ \A m \in DOMAIN b : Distinct(b[m])
    /\ \A m, k \in DOMAIN b : m # k => P!ToSet(b[m]) \cap P!ToSet(b[k]) = {}

Ahead(b, k) == UNION {P!ToSet(b[m]) : m \in k..Len(b)}

LEMMA AheadOf ==
    ASSUME NEW b, NEW k, NEW h
    PROVE  h \in Ahead(b, k) <=> \E m \in k..Len(b) : h \in P!ToSet(b[m])
  BY DEF Ahead

LEMMA BatchesHoldAll ==
    ASSUME NEW s \in Seq(Owner), Distinct(s)
    PROVE  LET b == P!Batches(s)
           IN b \in Seq(Seq(Owner)) /\ Apart(b) /\ Ahead(b, 1) = P!ToSet(s)
<1> DEFINE L == Len(s)
           T == TRANSFERS_PER_TX
           size == (L + T - 1) \div T
           upto(n) == IF n * T > L THEN L ELSE n * T
           b == P!Batches(s)
<1>1. L \in Nat /\ T \in Nat \ {0} /\ DOMAIN s = 1..L
  BY PayoutAssumption
<1>2. b = [n \in 1..size |-> SubSeq(s, (n - 1) * T + 1, upto(n))]
  BY DEF P!Batches
<1> HIDE DEF L, T, b
<1>3. size \in Nat /\ T * size <= L + T - 1 /\ T * size >= L
  <2> DEFINE n == L + T - 1
  <2>1. n \in Nat
    BY <1>1
  <2> HIDE DEF n
  <2>2. n \div T \in Nat /\ T * (n \div T) <= n /\ n < T * (n \div T) + T
    BY <1>1, <2>1
  <2>3. T * (n \div T) \in Nat
    BY <1>1, <2>2
  <2> QED BY <1>1, <2>2, <2>3 DEF n
<1> HIDE DEF size
<1>4. \A n \in 1..size : /\ (n - 1) * T \in Nat /\ (n - 1) * T < L /\ upto(n) \in Nat /\ upto(n) <= L
                         /\ upto(n) > (n - 1) * T /\ upto(n) <= (n - 1) * T + T
  <2> TAKE n \in 1..size
  <2>1. (n - 1) * T \in Nat /\ n * T = (n - 1) * T + T
    BY <1>1
  <2>2. (n - 1) * T <= T * size - T
    <3>1. n - 1 <= size - 1 /\ n - 1 \in Nat
      BY <1>3
    <3>2. T * (n - 1) <= T * (size - 1)
      BY <1>1, <1>3, <3>1
    <3>3. T * (size - 1) = T * size - T /\ T * (n - 1) = (n - 1) * T
      BY <1>1, <1>3, <3>1
    <3> QED BY <3>2, <3>3
  <2> DEFINE q == T * size
             c == (n - 1) * T
             d == n * T
  <2>3. q \in Nat /\ q <= L + T - 1 /\ c \in Nat /\ c <= q - T /\ d = c + T
    BY <1>1, <1>3, <2>1, <2>2
  <2>4. upto(n) = IF d > L THEN L ELSE d
    OBVIOUS
  <2> HIDE DEF q, c, d, upto
  <2>5. c \in Nat /\ c < L /\ upto(n) \in Nat /\ upto(n) <= L /\ upto(n) > c /\ upto(n) <= c + T
    BY <1>1, <2>3, <2>4
  <2> QED BY <2>5 DEF c
<1> HIDE DEF upto
<1>5. \A n \in 1..size : /\ b[n] \in Seq(Owner) /\ DOMAIN b[n] = 1..(upto(n) - (n - 1) * T)
                         /\ \A i \in DOMAIN b[n] : (n - 1) * T + i \in 1..L /\ b[n][i] = s[(n - 1) * T + i]
  <2> TAKE n \in 1..size
  <2> DEFINE c == (n - 1) * T
             d == upto(n)
  <2>1. c \in Nat /\ c < L /\ d \in Nat /\ d <= L /\ d > c
    BY <1>4
  <2>2. b[n] = SubSeq(s, c + 1, d)
    BY <1>2
  <2> HIDE DEF c, d
  <2>3. \A i \in (c + 1)..d : s[i] \in Owner
    BY <1>1, <2>1
  <2>4. /\ b[n] \in Seq(Owner)
        /\ Len(b[n]) = IF c + 1 <= d THEN d - (c + 1) + 1 ELSE 0
        /\ \A i \in 1..(d - (c + 1) + 1) : b[n][i] = s[(c + 1) + i - 1]
    <3> DEFINE t == SubSeq(s, c + 1, d)
    <3>1. c + 1 \in Int /\ d \in Int
      BY <2>1
    <3>2. /\ t \in Seq(Owner)
          /\ Len(t) = IF c + 1 <= d THEN d - (c + 1) + 1 ELSE 0
          /\ \A i \in 1..(d - (c + 1) + 1) : t[i] = s[(c + 1) + i - 1]
      BY <2>3, <3>1, SubSeqProperties
    <3>3. b[n] = t
      BY <2>2
    <3> HIDE DEF t
    <3> QED BY <3>2, <3>3
  <2>5. d - (c + 1) + 1 = d - c /\ c + 1 <= d /\ \A i \in 1..(d - c) : (c + 1) + i - 1 = c + i /\ c + i \in 1..L
    BY <1>1, <2>1
  <2>6. DOMAIN b[n] = 1..(d - c) /\ \A i \in 1..(d - c) : b[n][i] = s[c + i]
    BY <2>4, <2>5
  <2> QED BY <2>4, <2>5, <2>6 DEF c, d
<1>6. b \in Seq(Seq(Owner)) /\ DOMAIN b = 1..size /\ Len(b) = size
  BY <1>2, <1>3, <1>5
<1>7. Apart(b)
  <2> SUFFICES ASSUME NEW m \in 1..size, NEW k \in 1..size, NEW i \in DOMAIN b[m], NEW j \in DOMAIN b[k],
                      b[m][i] = b[k][j]
               PROVE  m = k /\ i = j
    BY <1>6, MembersOf DEF Apart, Distinct
  <2> DEFINE c == (m - 1) * T
             d == (k - 1) * T
  <2>1. /\ i \in 1..(upto(m) - c) /\ j \in 1..(upto(k) - d)
        /\ c + i \in 1..L /\ d + j \in 1..L /\ s[c + i] = s[d + j]
    BY <1>5
  <2>2. c + i = d + j
    BY <1>1, <2>1 DEF Distinct
  <2>3. c \in Nat /\ d \in Nat /\ i \in 1..T /\ j \in 1..T
    <3>1. upto(m) \in Nat /\ upto(m) <= c + T /\ upto(k) \in Nat /\ upto(k) <= d + T /\ c \in Nat /\ d \in Nat
      BY <1>4
    <3> HIDE DEF c, d
    <3> QED BY <1>1, <2>1, <3>1, SMTT(60)
  <2>4. ~(m < k)
    <3> SUFFICES ASSUME m < k PROVE FALSE
      OBVIOUS
    <3>1. T * (k - 1) >= T * m
      BY <1>1
    <3>2. T * (k - 1) = d /\ T * m = c + T
      BY <1>1
    <3> HIDE DEF c, d
    <3> QED BY <1>1, <2>2, <2>3, <3>1, <3>2
  <2>5. ~(k < m)
    <3> SUFFICES ASSUME k < m PROVE FALSE
      OBVIOUS
    <3>1. T * (m - 1) >= T * k
      BY <1>1
    <3>2. T * (m - 1) = c /\ T * k = d + T
      BY <1>1
    <3> HIDE DEF c, d
    <3> QED BY <1>1, <2>2, <2>3, <3>1, <3>2
  <2>6. m = k
    BY <2>4, <2>5
  <2>7. c = d
    BY <2>6
  <2> HIDE DEF c, d
  <2> QED BY <2>2, <2>3, <2>6, <2>7
<1>8. \A h : h \in P!ToSet(s) <=> h \in Ahead(b, 1)
  <2>1. ASSUME NEW h, h \in P!ToSet(s) PROVE h \in Ahead(b, 1)
    <3>1. PICK x \in 1..L : s[x] = h
      BY <1>1, <2>1, MembersOf
    <3> DEFINE y == x - 1
               m == y \div T
    <3>2. y \in Nat
      OBVIOUS
    <3> HIDE DEF y
    <3>3. m \in Nat /\ T * m <= y /\ y < T * m + T
      BY <1>1, <3>2
    <3> HIDE DEF m
    <3>4. m + 1 \in 1..size
      <4>1. SUFFICES ASSUME m >= size PROVE FALSE
        BY <1>3, <3>3
      <4>2. T * m >= T * size /\ T * m \in Nat /\ T * size \in Nat
        BY <1>1, <1>3, <3>3, <4>1
      <4> QED BY <1>1, <1>3, <3>3, <4>2 DEF y
    <3> DEFINE c == m * T
               i == x - c
    <3>5. c \in Nat /\ c = T * m /\ ((m + 1) - 1) * T = c /\ (m + 1) * T = c + T
      BY <1>1, <3>3
    <3> HIDE DEF c
    <3>6. i \in 1..T /\ i \in Nat /\ c + i = x
      BY <1>1, <3>3, <3>5 DEF y
    <3> HIDE DEF i
    <3>7. i \in 1..(upto(m + 1) - c)
      <4>1. upto(m + 1) = IF c + T > L THEN L ELSE c + T
        BY <3>5 DEF upto
      <4> QED BY <1>1, <3>1, <3>5, <3>6, <4>1
    <3>8. i \in DOMAIN b[m + 1] /\ b[m + 1][i] = s[c + i]
      BY <1>5, <3>4, <3>5, <3>7
    <3>9. h \in P!ToSet(b[m + 1])
      BY <3>1, <3>6, <3>8, MembersOf
    <3> QED BY <1>6, <3>4, <3>9, AheadOf
  <2>2. ASSUME NEW h, h \in Ahead(b, 1) PROVE h \in P!ToSet(s)
    <3>1. PICK m \in 1..size : h \in P!ToSet(b[m])
      BY <1>6, <2>2, AheadOf
    <3>2. PICK i \in DOMAIN b[m] : b[m][i] = h
      BY <3>1, MembersOf
    <3> QED BY <1>1, <1>5, <3>2, MembersOf
  <2> QED BY <2>1, <2>2
<1>9. Ahead(b, 1) = P!ToSet(s)
  BY <1>8
<1> QED BY <1>6, <1>7, <1>9 DEF b

\* One recipient is left out of a batch.
LEMMA LeftOut ==
    ASSUME NEW s \in Seq(Owner), Distinct(s), NEW i \in DOMAIN s
    PROVE  LET rest == P!RemoveAt(s, i)
           IN rest \in Seq(Owner) /\ Distinct(rest) /\ P!ToSet(rest) = P!ToSet(s) \ {s[i]}
<1> DEFINE rest == P!RemoveAt(s, i)
           n == Len(s)
           before == SubSeq(s, 1, i - 1)
           after == SubSeq(s, i + 1, n)
<1>1. n \in Nat /\ DOMAIN s = 1..n /\ i \in 1..n /\ \A j \in 1..n : s[j] \in Owner
  OBVIOUS
<1>2. rest = before \o after
  BY DEF P!RemoveAt
<1> HIDE DEF rest, n
<1>3. /\ before \in Seq(Owner) /\ Len(before) = i - 1
      /\ \A j \in 1..i - 1 : before[j] = s[j]
  <2> DEFINE m == i - 1
  <2>1. m \in Int /\ 1 \in Int /\ (\A j \in 1..m : s[j] \in Owner) /\ m - 1 + 1 = m /\ m \in Nat
        /\ \A j \in 1..m : 1 + j - 1 = j
    BY <1>1
  <2> HIDE DEF m
  <2> DEFINE t == SubSeq(s, 1, m)
  <2>2. /\ t \in Seq(Owner) /\ Len(t) = IF 1 <= m THEN m - 1 + 1 ELSE 0
        /\ \A j \in 1..(m - 1 + 1) : t[j] = s[1 + j - 1]
    BY <2>1, SubSeqProperties
  <2>3. before = t
    BY DEF m
  <2> HIDE DEF t, before
  <2>4. t \in Seq(Owner) /\ Len(t) = m /\ \A j \in 1..m : t[j] = s[j]
    BY <2>1, <2>2
  <2> QED BY <2>3, <2>4 DEF m
<1>4. /\ after \in Seq(Owner) /\ Len(after) = n - i
      /\ \A j \in 1..n - i : after[j] = s[i + j]
  <2> DEFINE m == i + 1
  <2>1. m \in Int /\ n \in Int /\ (\A j \in m..n : s[j] \in Owner) /\ n - m + 1 = n - i /\ n - i \in Nat
        /\ (\A j \in 1..n - i : m + j - 1 = i + j) /\ (m <= n <=> n - i > 0)
    BY <1>1
  <2> HIDE DEF m
  <2> DEFINE t == SubSeq(s, m, n)
  <2>2. /\ t \in Seq(Owner) /\ Len(t) = IF m <= n THEN n - m + 1 ELSE 0
        /\ \A j \in 1..(n - m + 1) : t[j] = s[m + j - 1]
    BY <2>1, SubSeqProperties
  <2>3. after = t
    BY DEF m
  <2> HIDE DEF t, after
  <2>4. t \in Seq(Owner) /\ Len(t) = n - i /\ \A j \in 1..n - i : t[j] = s[i + j]
    BY <2>1, <2>2, SMTT(60)
  <2> QED BY <2>3, <2>4
<1> HIDE DEF before, after
<1>5. /\ rest \in Seq(Owner) /\ Len(rest) = n - 1
      /\ \A j \in 1..n - 1 : rest[j] = IF j <= i - 1 THEN s[j] ELSE s[j + 1]
  <2> DEFINE t == before \o after
  <2>1. /\ t \in Seq(Owner) /\ Len(t) = (i - 1) + (n - i)
        /\ \A j \in 1..(i - 1) + (n - i) : t[j] = IF j <= i - 1 THEN before[j] ELSE after[j - (i - 1)]
    <3>1. Len(t) = Len(before) + Len(after)
      BY <1>3, <1>4, ConcatProperties
    <3>2. \A j \in 1..Len(before) + Len(after) :
             t[j] = IF j <= Len(before) THEN before[j] ELSE after[j - Len(before)]
      BY <1>3, <1>4
    <3>3. t \in Seq(Owner)
      BY <1>3, <1>4
    <3> HIDE DEF t
    <3> QED BY <1>3, <1>4, <3>1, <3>2, <3>3
  <2> HIDE DEF t
  <2>2. (i - 1) + (n - i) = n - 1
    BY <1>1
  <2>3. \A j \in 1..n - 1 : t[j] = IF j <= i - 1 THEN s[j] ELSE s[j + 1]
    <3> TAKE j \in 1..n - 1
    <3>1. CASE j <= i - 1
      BY <1>1, <1>3, <2>1, <2>2, <3>1
    <3>2. CASE ~(j <= i - 1)
      <4>1. j - (i - 1) \in 1..n - i /\ i + (j - (i - 1)) = j + 1
        BY <1>1, <3>2
      <4>2. t[j] = after[j - (i - 1)]
        BY <1>1, <2>1, <2>2, <3>2
      <4> QED BY <1>4, <3>2, <4>1, <4>2
    <3> QED BY <3>1, <3>2
  <2>4. rest = t
    BY <1>2 DEF t
  <2> QED BY <2>1, <2>2, <2>3, <2>4
<1>6. DOMAIN rest = 1..n - 1
  BY <1>5
<1>7. Distinct(rest)
  <2> SUFFICES ASSUME NEW j \in 1..n - 1, NEW k \in 1..n - 1, rest[j] = rest[k] PROVE j = k
    BY <1>6 DEF Distinct
  <2> DEFINE at(x) == IF x <= i - 1 THEN x ELSE x + 1
  <2>1. at(j) \in 1..n /\ at(k) \in 1..n /\ rest[j] = s[at(j)] /\ rest[k] = s[at(k)]
    BY <1>1, <1>5
  <2>2. at(j) = at(k)
    BY <1>1, <2>1 DEF Distinct
  <2> QED BY <1>1, <2>2
<1>8. \A h : h \in P!ToSet(rest) <=> h \in P!ToSet(s) \ {s[i]}
  <2>1. ASSUME NEW h, h \in P!ToSet(rest) PROVE h \in P!ToSet(s) \ {s[i]}
    <3>1. PICK j \in 1..n - 1 : rest[j] = h
      BY <1>6, <2>1, MembersOf
    <3>2. PICK k \in 1..n : k # i /\ s[k] = h
      BY <1>1, <1>5, <3>1
    <3> QED BY <1>1, <3>2, MembersOf DEF Distinct
  <2>2. ASSUME NEW h, h \in P!ToSet(s) \ {s[i]} PROVE h \in P!ToSet(rest)
    <3>1. PICK k \in 1..n : k # i /\ s[k] = h
      BY <1>1, <2>2, MembersOf
    <3>2. CASE k < i
      <4>1. k \in 1..n - 1 /\ rest[k] = h
        BY <1>1, <1>5, <3>1, <3>2
      <4> QED BY <1>6, <4>1, MembersOf
    <3>3. CASE k > i
      <4>1. k - 1 \in 1..n - 1 /\ rest[k - 1] = h
        BY <1>1, <1>5, <3>1, <3>3
      <4> QED BY <1>6, <4>1, MembersOf
    <3> QED BY <1>1, <3>1, <3>2, <3>3
  <2> QED BY <2>1, <2>2
<1>9. P!ToSet(rest) = P!ToSet(s) \ {s[i]}
  BY <1>8
<1> QED BY <1>5, <1>7, <1>9 DEF rest

-----------------------------------------------------------------------------
(* What transactions spend.                                                *)

LEMMA SpendsIs ==
    ASSUME NEW U, IsFiniteSet(U), \A tx \in U : tx.spends \in Nat, NEW T \in SUBSET U
    PROVE  IsFiniteSet(T) /\ P!Spends(T) \in Nat /\ P!Spends(T) = P!Total([tx \in U |-> tx.spends], T)
<1> DEFINE f == [tx \in U |-> tx.spends]
           g == [tx \in T |-> tx.spends]
<1>1. IsFiniteSet(T)
  BY FS_Subset
<1>2. \A tx \in T : f[tx] \in Nat /\ g[tx] = f[tx]
  OBVIOUS
<1>3. P!Spends(T) = P!Total(g, T)
  BY DEF P!Spends
<1> HIDE DEF f, g
<1>4. P!Total(g, T) = P!Total(f, T) /\ P!Total(f, T) \in Nat
  BY <1>1, <1>2, TotalSame, TotalNat
<1> QED BY <1>1, <1>3, <1>4 DEF f

LEMMA SpendsEmpty == P!Spends({}) = 0
  BY TotalEmpty DEF P!Spends

LEMMA SpendsAdd ==
    ASSUME NEW T, IsFiniteSet(T), NEW t, t \notin T, \A tx \in T \cup {t} : tx.spends \in Nat
    PROVE  /\ IsFiniteSet(T \cup {t}) /\ P!Spends(T) \in Nat
           /\ P!Spends(T \cup {t}) = t.spends + P!Spends(T)
<1> DEFINE U == T \cup {t}
           f == [tx \in U |-> tx.spends]
<1>1. IsFiniteSet(U) /\ T \in SUBSET U /\ \A tx \in U : f[tx] \in Nat
  BY FS_AddElement
<1>2. f[t] = t.spends
  OBVIOUS
<1> HIDE DEF f
<1>3. P!Total(f, T \cup {t}) = f[t] + P!Total(f, T)
  BY <1>1, TotalAdd
<1>4. P!Spends(T) = P!Total(f, T) /\ P!Spends(T) \in Nat
  BY <1>1, SpendsIs DEF f
<1>5. P!Spends(U) = P!Total(f, U)
  BY <1>1, SpendsIs DEF f
<1> QED BY <1>1, <1>2, <1>3, <1>4, <1>5

LEMMA SpendsPart ==
    ASSUME NEW U, IsFiniteSet(U), \A tx \in U : tx.spends \in Nat, NEW T \in SUBSET U
    PROVE  P!Spends(T) \in Nat /\ P!Spends(U) \in Nat /\ P!Spends(T) <= P!Spends(U)
<1> DEFINE f == [tx \in U |-> tx.spends]
<1>1. \A tx \in U : f[tx] \in Nat
  OBVIOUS
<1> HIDE DEF f
<1>2. P!Spends(T) = P!Total(f, T) /\ P!Spends(T) \in Nat
  BY SpendsIs DEF f
<1>3. P!Spends(U) = P!Total(f, U) /\ P!Spends(U) \in Nat
  BY SpendsIs DEF f
<1> QED BY <1>1, <1>2, <1>3, TotalPart

LEMMA SpendsUnion ==
    ASSUME NEW S, NEW T, IsFiniteSet(S), IsFiniteSet(T), S \cap T = {},
           \A tx \in S \cup T : tx.spends \in Nat
    PROVE  P!Spends(S \cup T) = P!Spends(S) + P!Spends(T)
<1> DEFINE U == S \cup T
           f == [tx \in U |-> tx.spends]
<1>1. IsFiniteSet(U) /\ S \in SUBSET U /\ T \in SUBSET U /\ \A tx \in U : f[tx] \in Nat
  BY FS_Union
<1> HIDE DEF f
<1>2. P!Total(f, S \cup T) = P!Total(f, S) + P!Total(f, T)
  BY <1>1, TotalUnion
<1>3. P!Spends(S) = P!Total(f, S) /\ P!Spends(T) = P!Total(f, T)
  BY <1>1, SpendsIs DEF f
<1>4. P!Spends(U) = P!Total(f, U)
  BY <1>1, SpendsIs DEF f
<1> QED BY <1>2, <1>3, <1>4

\* Payments that share no recipient come to no more than all the shares.
LEMMA PaymentsAddUp ==
    ASSUME NEW p, PlanOK(p), NEW T, IsFiniteSet(T),
           \A t \in T : t.to \subseteq p.payouts /\ t.spends = P!Total(p.share, t.to),
           \A t, u \in T : t.to \cap u.to # {} => t = u
    PROVE  /\ \A t \in T : t.spends \in Nat
           /\ P!Spends(T) <= P!Total(p.share, p.payouts)
<1> DEFINE To(S) == UNION {t.to : t \in S}
           Q == {S \in SUBSET T : P!Spends(S) = P!Total(p.share, To(S))}
<1>1. IsFiniteSet(p.payouts) /\ \A h \in p.payouts : p.share[h] \in Nat
  <2>1. p.payouts \in SUBSET Owner /\ p.share \in UNION {[D -> Nat] : D \in SUBSET Owner}
    BY DEF PlanOK, PlanRec
  <2>2. PICK D \in SUBSET Owner : p.share \in [D -> Nat]
    BY <2>1
  <2>3. p.payouts \subseteq D
    BY <2>2 DEF PlanOK
  <2> QED BY <2>1, <2>2, <2>3, PayoutAssumption, FS_Subset
<1>2. \A S \in SUBSET T : To(S) \in SUBSET p.payouts /\ IsFiniteSet(To(S))
  BY <1>1, FS_Subset
<1>3. \A t \in T : t.spends \in Nat /\ IsFiniteSet(t.to)
  BY <1>1, FS_Subset, TotalNat
<1>4. {} \in Q
  <2>1. To({}) = {}
    OBVIOUS
  <2> QED BY <2>1, SpendsEmpty, TotalEmpty
<1>5. ASSUME NEW S \in SUBSET T, NEW t \in T \ S, S \in Q PROVE S \cup {t} \in Q
  <2>1. IsFiniteSet(S)
    BY FS_Subset
  <2>2. P!Spends(S \cup {t}) = t.spends + P!Spends(S) /\ P!Spends(S) \in Nat
    BY <1>3, <2>1, SpendsAdd
  <2>3. To(S \cup {t}) = To(S) \cup t.to /\ t.to \cap To(S) = {}
    OBVIOUS
  <2>4. P!Total(p.share, To(S) \cup t.to) = P!Total(p.share, To(S)) + P!Total(p.share, t.to)
    <3>1. IsFiniteSet(To(S)) /\ IsFiniteSet(t.to) /\ t.to \cap To(S) = {}
          /\ \A h \in t.to \cup To(S) : p.share[h] \in Nat
      BY <1>1, <1>2, <1>3, <2>3
    <3> HIDE DEF To
    <3> QED BY <3>1, TotalUnion
  <2>5. P!Spends(S) = P!Total(p.share, To(S)) /\ t.spends = P!Total(p.share, t.to) /\ t.spends \in Nat
    BY <1>3, <1>5
  <2>6. P!Spends(S \cup {t}) = P!Total(p.share, To(S \cup {t}))
    <3>1. P!Total(p.share, To(S \cup {t})) = P!Total(p.share, To(S) \cup t.to)
      BY <2>3, Zenon
    <3> HIDE DEF To
    <3> QED BY <2>2, <2>4, <2>5, <3>1
  <2> QED BY <2>6
<1> HIDE DEF Q
<1>6. T \in Q
  BY <1>4, <1>5, FiniteInduction
<1>7. P!Spends(T) = P!Total(p.share, To(T)) /\ To(T) \in SUBSET p.payouts
  BY <1>2, <1>6 DEF Q
<1> HIDE DEF To
<1> QED BY <1>1, <1>3, <1>7, TotalPart

-----------------------------------------------------------------------------
(* The invariant of the payments.                                          *)

TxRec == [hour : Nat, n : Nat, of : Nat, to : SUBSET Owner, spends : Nat]

RunRec == [ pc : {"next", "sent", "over"}, batches : Seq(Seq(Owner)), n : Nat, sends : Nat,
            retry : BOOLEAN, buying : {"build", "sent", "done"}, sent : SUBSET Owner,
            skipped : SUBSET Owner, failed : SUBSET Owner, unknown : SUBSET Owner,
            bought : BOOLEAN, stopped : BOOLEAN ]

\* What has paid or may yet, and all that was ever sent and is not expired.
Live  == pending \cup landed
Known == Live \cup broken

Of(txs, hour) == {tx \in txs : tx.hour = hour}

\* A transaction is a part of its hour's plan, at the plan's amounts.
TxOK(tx) ==
    /\ tx \in TxRec /\ tx.hour \in 1..hours
    /\ tx.n = 0 => tx.of = 0 /\ tx.to = {} /\ tx.spends = plans[tx.hour].buyback
    /\ tx.n # 0 => /\ tx.to \subseteq plans[tx.hour].payouts
                   /\ tx.spends = P!Total(plans[tx.hour].share, tx.to)

PayTypes ==
    /\ wallet \in Nat /\ sol \subseteq Owner /\ hours \in Nat
    /\ plans \in Seq(PlanRec) /\ Len(plans) = hours /\ \A n \in 1..hours : PlanOK(plans[n])
    /\ IsFiniteSet(pending) /\ IsFiniteSet(landed)
    /\ \A tx \in Known : TxOK(tx)
    /\ pending \cap landed = {} /\ Live \cap broken = {}

\* Of an hour, no holder is in two transactions that paid or may pay.
OncePaid == \A t, u \in Live : t.hour = u.hour /\ t.to \cap u.to # {} => t = u

\* Above its reserve the wallet holds what the last hour's transactions may still take, and twice
\* what this hour's run has not spent yet; nothing older is under way.
Covered ==
    /\ wallet >= reserveLamports
    /\ hours > 0 => wallet - reserveLamports
                      >= 2 * (plans[hours].release - P!Spent(hours))
                         + P!Spends(Of(pending, hours - 1))
    /\ \A tx \in pending : tx.hour \in {hours - 1, hours}

LedgerInv == PayTypes /\ OncePaid /\ Covered

Got(hour, h)     == \E tx \in landed : tx.hour = hour /\ h \in tx.to
Touched(hour, h) == \E tx \in Live : tx.hour = hour /\ h \in tx.to

\* What is still ahead of a run's batches, the one that was sent aside.
StillDue(r) == Ahead(r.batches, IF r.pc = "sent" THEN r.n + 1 ELSE r.n)

\* The transaction of the batch that a run is at.
Current(r) ==
    [hour |-> hours, n |-> r.n, of |-> r.sends, to |-> P!ToSet(r.batches[r.n]),
     spends |-> P!Total(plans[hours].share, P!ToSet(r.batches[r.n]))]

\* A run that is under way: everybody in its plan is accounted for, and whoever was left out or is
\* still to be paid is in no transaction of the hour.
Accounts(r) ==
    /\ r \in RunRec /\ r.n \in 1..Len(r.batches) + 1 /\ (r.pc = "sent" => r.n <= Len(r.batches))
    /\ Apart(r.batches) /\ Ahead(r.batches, 1) \subseteq plans[hours].payouts
    /\ r.sent \cup r.skipped \cup r.failed \subseteq plans[hours].payouts
    /\ r.pc = "over" => r.stopped
    /\ r.pc # "over" =>
          plans[hours].payouts = r.sent \cup r.skipped \cup r.failed \cup Ahead(r.batches, r.n)

OnChain(r) ==
    /\ \A h \in r.sent : Got(hours, h)
    /\ \A h \in r.skipped \cup r.failed : ~Touched(hours, h) /\ h \notin Ahead(r.batches, r.n)
    /\ r.pc # "over" => \A h \in StillDue(r) : ~Touched(hours, h)
    /\ r.pc = "sent" => \A h \in P!ToSet(r.batches[r.n]) : \A tx \in Live :
                           tx.hour = hours /\ h \in tx.to => tx = Current(r)
    /\ \A tx \in Known : tx.hour = hours /\ tx.n # 0 =>
                            tx.of < r.sends \/ (tx.of = r.sends /\ r.pc # "next")
    /\ r.buying = "build" => \A tx \in Known : tx.hour = hours => tx.n # 0
    /\ r.bought => P!Buyback \in landed

RunInv == run # P!NoRun => hours > 0 /\ Accounts(run) /\ OnChain(run)

ReportInv == report # P!NoRun =>
    /\ report.n \in 1..hours /\ (run # P!NoRun => report.n < hours)
    /\ report.sent \cup report.skipped \cup report.failed \subseteq plans[report.n].payouts
    /\ \A h \in report.sent : Got(report.n, h)
    /\ \A h \in report.skipped \cup report.failed : ~Touched(report.n, h)
    /\ report.bought => \E tx \in landed : tx.hour = report.n /\ tx.n = 0
    /\ ~report.stopped => plans[report.n].payouts = report.sent \cup report.skipped \cup report.failed

PayInv == LedgerInv /\ RunInv /\ ReportInv

LEMMA PlanFacts ==
    ASSUME PayTypes, NEW n \in 1..hours
    PROVE  /\ PlanOK(plans[n]) /\ plans[n] \in PlanRec
           /\ plans[n].release \in Nat /\ plans[n].buyback \in Nat
           /\ plans[n].payouts \in SUBSET Owner /\ IsFiniteSet(plans[n].payouts)
           /\ \A h \in plans[n].payouts : h \in DOMAIN plans[n].share /\ plans[n].share[h] \in Nat
                                          /\ plans[n].share[h] > 0
           /\ \A to \in SUBSET plans[n].payouts : P!Total(plans[n].share, to) \in Nat
           /\ P!Total(plans[n].share, plans[n].payouts) + plans[n].buyback <= plans[n].release
<1> DEFINE p == plans[n]
<1>1. PlanOK(p)
  BY DEF PayTypes
<1> HIDE DEF p
<1>2. p \in PlanRec /\ p.payouts \in SUBSET Owner /\ p.share \in UNION {[D -> Nat] : D \in SUBSET Owner}
  BY <1>1 DEF PlanOK, PlanRec
<1>3. PICK D \in SUBSET Owner : p.share \in [D -> Nat]
  BY <1>2
<1>4. \A h \in p.payouts : h \in DOMAIN p.share /\ p.share[h] \in Nat /\ p.share[h] > 0
  BY <1>1, <1>3 DEF PlanOK
<1>5. IsFiniteSet(p.payouts)
  BY <1>2, PayoutAssumption, FS_Subset
<1>6. \A to \in SUBSET p.payouts : P!Total(p.share, to) \in Nat
  BY <1>4, <1>5, TotalPart
<1>7. p.release \in Nat /\ p.buyback \in Nat
  BY <1>2 DEF PlanRec
<1>8. P!Total(p.share, p.payouts) + p.buyback <= p.release
  BY <1>1 DEF PlanOK
<1> QED BY <1>1, <1>2, <1>4, <1>5, <1>6, <1>7, <1>8 DEF p

LEMMA TxFacts ==
    ASSUME PayTypes
    PROVE  /\ \A tx \in Known : TxOK(tx) /\ tx \in TxRec /\ tx.hour \in 1..hours /\ tx.spends \in Nat
           /\ IsFiniteSet(Live) /\ pending \subseteq Live /\ landed \subseteq Live /\ Live \subseteq Known
<1>1. \A tx \in Known : TxOK(tx)
  BY DEF PayTypes
<1>2. \A tx \in Known : tx \in TxRec /\ tx.hour \in 1..hours /\ tx.spends \in Nat
  BY <1>1 DEF TxOK, TxRec
<1>3. IsFiniteSet(Live)
  BY FS_Union DEF PayTypes, Live
<1> QED BY <1>1, <1>2, <1>3 DEF Live, Known

LEMMA SomeOf ==
    ASSUME PayTypes, NEW txs \in SUBSET Live
    PROVE  /\ IsFiniteSet(txs) /\ P!Spends(txs) \in Nat
           /\ \A part1 \in SUBSET txs : P!Spends(part1) \in Nat /\ P!Spends(part1) <= P!Spends(txs)
<1>1. IsFiniteSet(txs) /\ \A tx \in txs : tx.spends \in Nat
  BY TxFacts, FS_Subset
<1> QED BY <1>1, SpendsPart

\* What paid and may yet pay of an hour stays within what the hour released.
LEMMA HourWithinRelease ==
    ASSUME PayTypes, OncePaid, NEW n \in 1..hours
    PROVE  P!Spends(Of(Live, n)) <= plans[n].release
<1> DEFINE p == plans[n]
           buys == {tx \in Of(Live, n) : tx.n = 0}
           pays == {tx \in Of(Live, n) : tx.n # 0}
<1>1. PlanOK(p) /\ p.buyback \in Nat /\ p.release \in Nat
      /\ P!Total(p.share, p.payouts) + p.buyback <= p.release /\ P!Total(p.share, p.payouts) \in Nat
  BY PlanFacts
<1>2. buys \in SUBSET Live /\ pays \in SUBSET Live /\ buys \cup pays = Of(Live, n) /\ buys \cap pays = {}
  BY DEF Of
<1>3. \A tx \in Of(Live, n) : TxOK(tx) /\ tx \in TxRec /\ tx.hour = n /\ tx.spends \in Nat
  BY TxFacts DEF Of
<1>4. P!Spends(buys) \in Nat /\ P!Spends(buys) <= p.buyback
  <2>1. CASE buys = {}
    <3>1. P!Spends(buys) = P!Spends({})
      BY <2>1, Zenon
    <3> HIDE DEF buys, p
    <3> QED BY <1>1, <3>1, SpendsEmpty
  <2>2. CASE buys # {}
    <3>1. PICK t \in buys : TRUE
      BY <2>2
    <3>2. \A tx \in buys : /\ tx \in TxRec /\ tx.hour = n /\ tx.n = 0 /\ tx.of = 0 /\ tx.to = {}
                           /\ tx.spends = p.buyback
      BY <1>3 DEF TxOK
    <3>3. \A tx \in buys : tx = t
      <4> TAKE tx \in buys
      <4>1. tx \in TxRec /\ t \in TxRec
        BY <3>2
      <4>2. tx.hour = t.hour /\ tx.n = t.n /\ tx.of = t.of /\ tx.to = t.to /\ tx.spends = t.spends
        BY <3>2
      <4> HIDE DEF buys
      <4> QED BY <4>1, <4>2 DEF TxRec
    <3>4. buys = {} \cup {t}
      BY <3>1, <3>3
    <3>5. t.spends = p.buyback /\ t.spends \in Nat
      BY <1>1, <3>1, <3>2
    <3>6. P!Spends({} \cup {t}) = t.spends + P!Spends({})
      BY <3>5, FS_EmptySet, SpendsAdd
    <3>7. P!Spends(buys) = t.spends + P!Spends({})
      BY <3>4, <3>6, Zenon
    <3> HIDE DEF buys, p
    <3> QED BY <3>5, <3>7, SpendsEmpty
  <2> QED BY <2>1, <2>2
<1>5. P!Spends(pays) \in Nat /\ P!Spends(pays) <= P!Total(p.share, p.payouts)
  <2>1. IsFiniteSet(pays) /\ P!Spends(pays) \in Nat
    BY <1>2, SomeOf
  <2>2. \A t \in pays : t.to \subseteq p.payouts /\ t.spends = P!Total(p.share, t.to)
    BY <1>3 DEF TxOK
  <2>3. \A t, u \in pays : t.to \cap u.to # {} => t = u
    BY <1>2, <1>3 DEF OncePaid
  <2> HIDE DEF p, pays
  <2> QED BY <1>1, <2>1, <2>2, <2>3, PaymentsAddUp
<1>6. P!Spends(buys \cup pays) = P!Spends(buys) + P!Spends(pays)
  <2>1. IsFiniteSet(buys) /\ IsFiniteSet(pays) /\ \A tx \in buys \cup pays : tx.spends \in Nat
    BY <1>2, <1>3, SomeOf
  <2> HIDE DEF buys, pays
  <2> QED BY <1>2, <2>1, SpendsUnion
<1>7. P!Spends(Of(Live, n)) = P!Spends(buys) + P!Spends(pays)
  BY <1>2, <1>6, Zenon
<1> HIDE DEF p, buys, pays
<1> QED BY <1>1, <1>4, <1>5, <1>7 DEF p

LEMMA HourAddsUp ==
    ASSUME PayTypes, OncePaid, NEW n \in 1..hours
    PROVE  /\ P!Spends(Of(landed, n)) \in Nat /\ P!Spends(Of(pending, n)) \in Nat
           /\ P!Spends(Of(landed, n)) + P!Spends(Of(pending, n)) <= plans[n].release
           /\ plans[n].release \in Nat
<1>1. Of(landed, n) \in SUBSET Live /\ Of(pending, n) \in SUBSET Live
      /\ Of(Live, n) = Of(landed, n) \cup Of(pending, n) /\ Of(landed, n) \cap Of(pending, n) = {}
  BY DEF Of, Live, PayTypes
<1>2. /\ P!Spends(Of(landed, n)) \in Nat /\ IsFiniteSet(Of(landed, n))
      /\ P!Spends(Of(pending, n)) \in Nat /\ IsFiniteSet(Of(pending, n))
  BY <1>1, SomeOf
<1>3. \A t \in Of(landed, n) \cup Of(pending, n) : t.spends \in Nat
  BY <1>1, TxFacts
<1>4. P!Spends(Of(landed, n) \cup Of(pending, n)) = P!Spends(Of(landed, n)) + P!Spends(Of(pending, n))
  BY <1>1, <1>2, <1>3, SpendsUnion
<1>5. P!Spends(Of(Live, n)) = P!Spends(Of(landed, n) \cup Of(pending, n))
  BY <1>1, Zenon
<1>6. P!Spends(Of(Live, n)) <= plans[n].release /\ plans[n].release \in Nat
  BY HourWithinRelease, PlanFacts
<1> QED BY <1>2, <1>4, <1>5, <1>6

LEMMA SpentIs == ASSUME NEW n PROVE P!Spent(n) = P!Spends(Of(landed, n))
  BY DEF P!Spent, Of

\* Coming in, or nothing of the ledger changing.
LEMMA LedgerGrows ==
    ASSUME LedgerInv, wallet' \in Nat, wallet' >= wallet, sol' \subseteq Owner,
           UNCHANGED <<pending, landed, broken, hours, plans>>
    PROVE  LedgerInv'
<1>1. Live' = Live /\ Known' = Known /\ P!Spent(hours)' = P!Spent(hours)
      /\ P!Spends(Of(pending, hours - 1))' = P!Spends(Of(pending, hours - 1))
  BY DEF Live, Known, P!Spent, Of
<1>2. \A tx : TxOK(tx)' <=> TxOK(tx)
  BY DEF TxOK
<1>3. PayTypes'
  BY <1>1, <1>2 DEF LedgerInv, PayTypes
<1>4. OncePaid'
  BY <1>1 DEF LedgerInv, OncePaid
<1>5. Covered'
  <2>1. wallet \in Nat /\ wallet >= reserveLamports /\ reserveLamports \in Nat
    BY PayoutAssumption DEF LedgerInv, PayTypes, Covered
  <2>2. wallet' >= reserveLamports
    BY <2>1
  <2>3. hours > 0 => wallet' - reserveLamports
           >= 2 * (plans[hours].release - P!Spent(hours)) + P!Spends(Of(pending, hours - 1))
    <3> SUFFICES ASSUME hours > 0
                 PROVE  wallet' - reserveLamports
                          >= 2 * (plans[hours].release - P!Spent(hours)) + P!Spends(Of(pending, hours - 1))
      OBVIOUS
    <3> DEFINE due == 2 * (plans[hours].release - P!Spent(hours)) + P!Spends(Of(pending, hours - 1))
    <3>1. hours \in 1..hours
      BY DEF LedgerInv, PayTypes
    <3>2. plans[hours].release \in Int /\ P!Spent(hours) \in Int
      BY <3>1, HourAddsUp, SpentIs DEF LedgerInv
    <3>3. Of(pending, hours - 1) \in SUBSET Live
      BY DEF Of, Live
    <3>4. P!Spends(Of(pending, hours - 1)) \in Int
      BY <3>3, SomeOf DEF LedgerInv
    <3>5. due \in Int
      BY <3>2, <3>4
    <3>6. wallet - reserveLamports >= due
      BY DEF LedgerInv, Covered
    <3> DEFINE more == wallet'
    <3>7. more \in Nat /\ more >= wallet
      OBVIOUS
    <3> HIDE DEF due, more
    <3>8. more - reserveLamports >= due
      BY <2>1, <3>5, <3>6, <3>7
    <3> QED BY <3>8 DEF due, more
  <2> QED BY <1>1, <2>2, <2>3 DEF LedgerInv, Covered
<1> QED BY <1>3, <1>4, <1>5 DEF LedgerInv

\* A transaction is sent, to holders no transaction of the hour goes to.
LEMMA AddKeeps ==
    ASSUME LedgerInv, hours > 0, NEW tx, TxOK(tx), tx.hour = hours, tx \notin Known,
           \A h \in tx.to : ~Touched(hours, h),
           pending' = pending \cup {tx}, UNCHANGED <<wallet, sol, landed, broken, hours, plans>>
    PROVE  LedgerInv'
<1>1. Live' = Live \cup {tx} /\ Known' = Known \cup {tx} /\ hours \in Nat
  BY DEF Live, Known, LedgerInv, PayTypes
<1>2. \A t : TxOK(t) => TxOK(t)'
  BY DEF TxOK
<1>3. PayTypes'
  <2>1. IsFiniteSet(pending')
    BY FS_AddElement DEF LedgerInv, PayTypes
  <2>2. \A t \in Known' : TxOK(t)'
    BY <1>1, <1>2 DEF LedgerInv, PayTypes
  <2>3. pending' \cap landed' = {} /\ Live' \cap broken' = {}
    BY <1>1 DEF LedgerInv, PayTypes, Live, Known
  <2>4. plans' \in Seq(PlanRec) /\ Len(plans') = hours' /\ \A n \in 1..hours' : PlanOK(plans'[n])
    BY DEF LedgerInv, PayTypes
  <2> QED BY <2>1, <2>2, <2>3, <2>4 DEF LedgerInv, PayTypes
<1>4. OncePaid'
  BY <1>1 DEF LedgerInv, OncePaid, Touched
<1>5. Covered'
  <2>1. Of(pending', hours - 1) = Of(pending, hours - 1)
    BY <1>1 DEF Of
  <2>2. P!Spent(hours)' = P!Spent(hours)
    BY DEF P!Spent
  <2>3. \A t \in pending' : t.hour \in {hours - 1, hours}
    BY DEF LedgerInv, Covered
  <2>4. P!Spends(Of(pending, hours - 1))' = P!Spends(Of(pending, hours - 1))
    BY <2>1 DEF Of
  <2> QED BY <2>2, <2>3, <2>4 DEF LedgerInv, Covered
<1> QED BY <1>3, <1>4, <1>5 DEF LedgerInv

\* A transaction leaves the network: it lands and pays, or pays nothing.
LEMMA LeavesKeeps ==
    ASSUME LedgerInv, NEW tx \in pending, pending' = pending \ {tx},
           \/ /\ tx.spends <= wallet
              /\ wallet' = wallet - tx.spends /\ landed' = landed \cup {tx} /\ broken' = broken
              /\ sol' = sol \cup tx.to
           \/ UNCHANGED <<wallet, sol, landed>> /\ broken' \in {broken, broken \cup {tx}},
           UNCHANGED <<hours, plans>>
    PROVE  LedgerInv' /\ Live' \subseteq Live /\ landed \subseteq landed' /\ Known' \subseteq Known
<1>1. PayTypes /\ OncePaid /\ Covered
  BY DEF LedgerInv
<1>2. TxOK(tx) /\ tx \in TxRec /\ tx.hour \in 1..hours /\ tx.spends \in Nat /\ hours \in Nat /\ wallet \in Nat
      /\ reserveLamports \in Nat
  BY <1>1, TxFacts, PayoutAssumption DEF PayTypes
<1>3. Live' \subseteq Live /\ landed \subseteq landed' /\ Known' \subseteq Known
  BY DEF Live, Known
<1>4. OncePaid'
  BY <1>1, <1>3 DEF OncePaid
<1>5. \A n \in 1..hours :
         /\ P!Spends(Of(landed, n)) \in Nat /\ P!Spends(Of(pending, n)) \in Nat
         /\ P!Spends(Of(landed, n)) + P!Spends(Of(pending, n)) <= plans[n].release
         /\ plans[n].release \in Nat
  BY <1>1, HourAddsUp
<1>6. \A n \in 1..hours : P!Spends(Of(pending, n)) =
         P!Spends(Of(pending', n)) + (IF n = tx.hour THEN tx.spends ELSE 0)
         /\ P!Spends(Of(pending', n)) \in Nat
  <2> TAKE n \in 1..hours
  <2> DEFINE after == Of(pending', n)
  <2>1. after \in SUBSET Live /\ after = Of(pending, n) \ {tx} /\ tx \notin after
    BY DEF Of, Live
  <2>2. IsFiniteSet(after) /\ P!Spends(after) \in Nat /\ \A t \in after : t.spends \in Nat
    BY <1>1, <2>1, SomeOf, TxFacts
  <2>3. CASE n = tx.hour
    <3>1. Of(pending, n) = after \cup {tx}
      BY <2>1, <2>3 DEF Of
    <3>2. P!Spends(after \cup {tx}) = tx.spends + P!Spends(after)
      BY <1>2, <2>1, <2>2, SpendsAdd
    <3>3. P!Spends(Of(pending, n)) = tx.spends + P!Spends(after)
      BY <3>1, <3>2, Zenon
    <3> HIDE DEF after
    <3> QED BY <1>2, <2>2, <2>3, <3>3 DEF after
  <2>4. CASE n # tx.hour
    <3>1. Of(pending, n) = after
      BY <2>1, <2>4 DEF Of
    <3>2. P!Spends(Of(pending, n)) = P!Spends(after)
      BY <3>1, Zenon
    <3> HIDE DEF after
    <3> QED BY <2>2, <2>4, <3>2 DEF after
  <2> QED BY <2>3, <2>4
<1>7. PayTypes' /\ \A t \in pending' : t.hour \in {hours - 1, hours}
  <2>1. IsFiniteSet(pending') /\ IsFiniteSet(landed')
    <3>1. IsFiniteSet(pending \ {tx}) /\ IsFiniteSet(landed \cup {tx}) /\ IsFiniteSet(landed)
      BY <1>1, FS_RemoveElement, FS_AddElement DEF PayTypes
    <3> QED BY <3>1
  <2>2. \A t : TxOK(t) => TxOK(t)'
    BY DEF TxOK
  <2>3. \A t \in Known' : TxOK(t)'
    BY <1>1, <1>3, <2>2 DEF PayTypes
  <2>4. pending' \cap landed' = {} /\ Live' \cap broken' = {}
    BY <1>1 DEF PayTypes, Live
  <2>5. wallet' \in Nat /\ sol' \subseteq Owner
    BY <1>1, <1>2 DEF PayTypes, TxRec
  <2>6. plans' \in Seq(PlanRec) /\ Len(plans') = hours' /\ \A n \in 1..hours' : PlanOK(plans'[n])
    BY <1>1 DEF PayTypes
  <2>7. \A t \in pending' : t.hour \in {hours - 1, hours}
    BY <1>1 DEF Covered
  <2> QED BY <1>1, <2>1, <2>3, <2>4, <2>5, <2>6, <2>7 DEF PayTypes
<1>8. Covered'
  <2> DEFINE free    == wallet - reserveLamports
             release == plans[hours].release
             spent   == P!Spends(Of(landed, hours))
             older   == P!Spends(Of(pending, hours - 1))
  <2>1. hours \in 1..hours /\ tx.hour \in {hours - 1, hours}
    BY <1>1, <1>2 DEF Covered
  <2>2. release \in Nat /\ spent \in Nat /\ P!Spends(Of(pending, hours)) \in Nat
        /\ spent + P!Spends(Of(pending, hours)) <= release
    BY <1>5, <2>1
  <2>3. older \in Nat /\ P!Spends(Of(pending', hours - 1)) \in Nat
        /\ older = P!Spends(Of(pending', hours - 1)) + (IF tx.hour = hours - 1 THEN tx.spends ELSE 0)
    <3>1. CASE hours - 1 \in 1..hours
      BY <1>2, <1>5, <1>6, <3>1
    <3>2. CASE hours - 1 \notin 1..hours
      <4>1. hours - 1 \notin 1..hours /\ \A t \in pending : t.hour \in 1..hours
        BY <1>1, <3>2, TxFacts DEF Known, Live
      <4>2. Of(pending, hours - 1) = {} /\ Of(pending', hours - 1) = {} /\ tx.hour # hours - 1
        BY <4>1 DEF Of
      <4>3. older = 0 /\ P!Spends(Of(pending', hours - 1)) = 0
        BY <4>2, SpendsEmpty, Zenon
      <4> QED BY <4>2, <4>3
    <3> QED BY <3>1, <3>2
  <2>4. free \in Int /\ free >= 2 * (release - spent) + older /\ wallet >= reserveLamports
    <3>1. P!Spent(hours) = spent
      BY SpentIs
    <3>2. wallet - reserveLamports >= 2 * (release - P!Spent(hours)) + older /\ wallet >= reserveLamports
      BY <1>1, <2>1 DEF Covered
    <3> QED BY <1>2, <3>1, <3>2
  <2> DEFINE olderThen == P!Spends(Of(pending', hours - 1))
             spentThen == P!Spends(Of(landed', hours))
             pend      == P!Spends(Of(pending, hours))
             pendThen  == P!Spends(Of(pending', hours))
  <2>5. pend = pendThen + (IF tx.hour = hours THEN tx.spends ELSE 0) /\ pendThen \in Nat
    BY <1>6, <2>1
  <2>6. /\ wallet' \in Nat /\ spentThen \in Nat
        /\ \/ wallet' = wallet /\ spentThen = spent
           \/ wallet' = wallet - tx.spends
              /\ spentThen = spent + (IF tx.hour = hours THEN tx.spends ELSE 0)
    <3>1. CASE landed' = landed \cup {tx} /\ wallet' = wallet - tx.spends /\ tx.spends <= wallet
      <4>1. wallet' \in Nat
        BY <1>2, <3>1
      <4>2. Of(landed, hours) \in SUBSET Live /\ tx \notin Of(landed, hours)
        BY <1>1 DEF Of, Live, PayTypes
      <4>3. IsFiniteSet(Of(landed, hours)) /\ \A t \in Of(landed, hours) : t.spends \in Nat
        BY <1>1, <4>2, SomeOf, TxFacts
      <4>4. CASE tx.hour = hours
        <5>1. Of(landed', hours) = Of(landed, hours) \cup {tx}
          BY <3>1, <4>4 DEF Of
        <5>2. P!Spends(Of(landed, hours) \cup {tx}) = tx.spends + spent
          BY <1>2, <4>2, <4>3, SpendsAdd
        <5>3. spentThen = tx.spends + spent
          BY <5>1, <5>2, Zenon
        <5> HIDE DEF spentThen, spent
        <5> QED BY <1>2, <2>2, <3>1, <4>1, <4>4, <5>3
      <4>5. CASE tx.hour # hours
        <5>1. Of(landed', hours) = Of(landed, hours)
          BY <3>1, <4>5 DEF Of
        <5>2. spentThen = spent
          BY <5>1, Zenon
        <5> HIDE DEF spentThen, spent
        <5> QED BY <1>2, <2>2, <3>1, <4>1, <4>5, <5>2
      <4> QED BY <4>4, <4>5
    <3>2. CASE UNCHANGED <<wallet, landed>>
      <4>1. spentThen = spent
        BY <3>2, Zenon
      <4> HIDE DEF spentThen, spent
      <4> QED BY <1>2, <2>2, <3>2, <4>1
    <3> QED BY <3>1, <3>2
  <2> HIDE DEF free, release, spent, older, olderThen, spentThen, pend, pendThen
  <2>7. spent + pend <= release /\ pend \in Nat /\ olderThen \in Nat
        /\ older = olderThen + (IF tx.hour = hours - 1 THEN tx.spends ELSE 0)
    BY <2>2, <2>3 DEF pend, olderThen
  <2>8. wallet' - reserveLamports >= 2 * (release - spentThen) + olderThen
        /\ wallet' >= reserveLamports
    <3>1. free = wallet - reserveLamports
      BY DEF free
    <3>2. CASE tx.hour = hours
      <4>1. hours # hours - 1
        BY <1>2
      <4>2. older = olderThen
        BY <2>7, <3>2, <4>1
      <4>3. pend = pendThen + tx.spends
        BY <2>5, <3>2
      <4>4. CASE wallet' = wallet /\ spentThen = spent
        BY <1>2, <2>4, <3>1, <4>2, <4>4
      <4>5. CASE wallet' = wallet - tx.spends /\ spentThen = spent + tx.spends
        <5>1. free >= 2 * release - 2 * spent + olderThen
          BY <2>2, <2>4, <2>7, <4>2
        <5>2. spent + tx.spends <= release
          BY <1>2, <2>2, <2>5, <2>7, <4>3
        <5>3. wallet' - reserveLamports = free - tx.spends /\ free \in Int
          BY <1>2, <2>4, <3>1, <4>5
        <5> QED BY <1>2, <2>2, <2>6, <2>7, <4>5, <5>1, <5>2, <5>3
      <4> QED BY <2>6, <3>2, <4>4, <4>5
    <3>3. CASE tx.hour = hours - 1
      <4>1. hours # hours - 1
        BY <1>2
      <4>2. older = olderThen + tx.spends /\ spentThen = spent
        BY <1>2, <2>2, <2>6, <2>7, <3>3, <4>1
      <4>3. CASE wallet' = wallet
        BY <1>2, <2>2, <2>4, <2>7, <3>1, <4>2, <4>3
      <4>4. CASE wallet' = wallet - tx.spends
        <5>1. wallet' - reserveLamports = free - tx.spends /\ free \in Int
          BY <1>2, <2>4, <3>1, <4>4
        <5>2. spent <= release /\ free >= 2 * (release - spent) + olderThen + tx.spends /\ wallet' \in Nat
          BY <1>2, <2>2, <2>4, <2>6, <2>7, <4>2
        <5>3. free - tx.spends >= 2 * (release - spent) + olderThen
          BY <1>2, <2>2, <2>7, <5>1, <5>2
        <5>4. wallet' - reserveLamports >= 2 * (release - spent) + olderThen
          BY <5>1, <5>3
        <5> DEFINE left == wallet'
        <5>5. left - reserveLamports >= 2 * (release - spent) + olderThen /\ left \in Nat
          BY <5>2, <5>4
        <5> HIDE DEF left
        <5>6. release \in Nat /\ spent \in Nat /\ olderThen \in Nat /\ spent <= release /\ reserveLamports \in Nat
          BY <1>2, <2>2, <2>7, <5>2
        <5>7. left >= reserveLamports
          BY <5>5, <5>6
        <5> QED BY <4>2, <5>4, <5>7 DEF left
      <4> QED BY <2>6, <4>3, <4>4
    <3> QED BY <2>1, <3>2, <3>3
  <2>9. P!Spent(hours)' = spentThen
    BY DEF P!Spent, Of, spentThen
  <2>10. P!Spends(Of(pending, hours - 1))' = olderThen
    BY DEF Of, olderThen
  <2> QED BY <1>7, <2>8, <2>9, <2>10 DEF Covered, release
<1> QED BY <1>3, <1>4, <1>7, <1>8 DEF LedgerInv

\* An hour's run begins: its plan releases no more than a quarter of what is free, and half of that
\* covers whatever the hour before may still take.
LEMMA ReadPlanKeeps ==
    ASSUME LedgerInv, P!ReadPlan
    PROVE  /\ LedgerInv' /\ hours' = hours + 1 /\ hours \in Nat
           /\ \A n \in 1..hours : plans'[n] = plans[n]
           /\ Live' = Live /\ Known' = Known
<1>1. PayTypes /\ OncePaid /\ Covered
  BY DEF LedgerInv
<1>2. PICK bps \in Rates, held \in Holdings :
         plans' = Append(plans, P!Plan(wallet, bps, held, Owner \ sol))
  BY DEF P!ReadPlan
<1> DEFINE p == P!Plan(wallet, bps, held, Owner \ sol)
<1>3. PlanOK(p) /\ 4 * p.release <= Available(wallet)
  BY <1>1, PlanIsOK DEF PayTypes
<1>4. plans' = Append(plans, p)
  BY <1>2
<1> HIDE DEF p
<1>5. /\ hours' = hours + 1 /\ hours \in Nat /\ Live' = Live /\ Known' = Known
      /\ UNCHANGED <<wallet, sol, pending, landed, broken>>
      /\ \A tx \in pending : tx.hour >= hours
  BY <1>1 DEF P!ReadPlan, Live, Known, PayTypes
<1>6. p \in PlanRec
  BY <1>3 DEF PlanOK
<1>7. /\ plans' \in Seq(PlanRec) /\ Len(plans') = hours + 1
      /\ plans'[hours + 1] = p /\ \A n \in 1..hours : plans'[n] = plans[n]
  BY <1>1, <1>4, <1>5, <1>6 DEF PayTypes
<1>8. \A t : TxOK(t) => TxOK(t)'
  <2> SUFFICES ASSUME NEW t, TxOK(t) PROVE TxOK(t)'
    OBVIOUS
  <2>1. t.hour \in 1..hours /\ t.hour \in 1..hours + 1 /\ plans'[t.hour] = plans[t.hour]
    BY <1>5, <1>7 DEF TxOK
  <2>2. P!Total(plans'[t.hour].share, t.to) = P!Total(plans[t.hour].share, t.to)
    BY <2>1, Zenon
  <2> QED BY <1>5, <2>1, <2>2 DEF TxOK
<1>9. PayTypes'
  <2>1. \A n \in 1..hours' : PlanOK(plans'[n])
    BY <1>1, <1>3, <1>5, <1>7 DEF PayTypes
  <2>2. \A t \in Known' : TxOK(t)'
    BY <1>1, <1>5, <1>8 DEF PayTypes
  <2> QED BY <1>1, <1>5, <1>7, <2>1, <2>2 DEF PayTypes
<1>10. OncePaid'
  BY <1>1, <1>5 DEF OncePaid
<1>11. \A tx \in Known : tx.hour \in 1..hours
  BY <1>1, TxFacts
<1>12. Covered'
  <2> DEFINE free == wallet - reserveLamports
             older == P!Spends(Of(pending, hours))
             release == p.release
  <2>1. wallet >= reserveLamports /\ free \in Nat /\ 4 * release <= free /\ release \in Nat
    <3>1. wallet \in Nat /\ wallet >= reserveLamports /\ reserveLamports \in Nat /\ release \in Nat
      BY <1>1, <1>6, PayoutAssumption DEF PayTypes, Covered, PlanRec
    <3>2. Available(wallet) = free
      BY <3>1 DEF Available
    <3> QED BY <1>3, <3>1, <3>2
  <2>2. older \in Nat /\ 2 * older <= free
    <3>1. CASE hours = 0
      <4>1. Of(pending, hours) = {}
        BY <1>5, <1>11, <3>1 DEF Of, Known, Live
      <4>2. older = 0
        BY <4>1, SpendsEmpty, Zenon
      <4> HIDE DEF older, free
      <4> QED BY <2>1, <4>2
    <3>2. CASE hours > 0
      <4> DEFINE spent == P!Spends(Of(landed, hours))
                 before == plans[hours].release
                 oldest == P!Spends(Of(pending, hours - 1))
      <4>1. hours \in 1..hours
        BY <1>5, <3>2
      <4>2. spent \in Nat /\ older \in Nat /\ before \in Nat /\ spent + older <= before
        BY <1>1, <4>1, HourAddsUp
      <4>3. Of(pending, hours - 1) \in SUBSET Live
        BY DEF Of, Live
      <4>4. oldest \in Nat
        BY <1>1, <4>3, SomeOf
      <4>5. free >= 2 * (before - spent) + oldest
        BY <1>1, <3>2, SpentIs DEF Covered
      <4> HIDE DEF spent, before, oldest, free, older
      <4> QED BY <2>1, <4>2, <4>4, <4>5
    <3> QED BY <1>5, <3>1, <3>2
  <2>3. P!Spent(hours)' = 0
    <3>1. Of(landed', hours') = {}
      BY <1>5, <1>11 DEF Of, Known, Live
    <3>2. P!Spends(Of(landed', hours')) = 0
      BY <3>1, SpendsEmpty, Zenon
    <3>3. P!Spent(hours)' = P!Spends(Of(landed', hours'))
      BY DEF P!Spent, Of
    <3> QED BY <3>2, <3>3
  <2>4. P!Spends(Of(pending, hours - 1))' = older
    <3>1. Of(pending, hours - 1)' = Of(pending, hours)
      BY <1>5 DEF Of
    <3>2. P!Spends(Of(pending, hours - 1))' = P!Spends(Of(pending, hours - 1)')
      OBVIOUS
    <3>3. P!Spends(Of(pending, hours - 1)') = P!Spends(Of(pending, hours))
      BY <3>1, Zenon
    <3> QED BY <3>2, <3>3
  <2>5. (plans[hours].release)' = release
    BY <1>5, <1>7
  <2>6. \A tx \in pending' : tx.hour \in {hours' - 1, hours'}
    <3> TAKE tx \in pending'
    <3>1. tx \in Known /\ tx \in pending
      BY <1>5 DEF Known, Live
    <3>2. tx.hour \in 1..hours /\ tx.hour >= hours
      BY <1>5, <1>11, <3>1
    <3> QED BY <1>5, <3>2
  <2> HIDE DEF free, older, release
  <2>7. free >= 2 * (release - 0) + older
    BY <2>1, <2>2
  <2>8. wallet' >= reserveLamports /\ wallet' - reserveLamports = free
    BY <1>5, <2>1 DEF free
  <2> QED BY <2>3, <2>4, <2>5, <2>6, <2>7, <2>8 DEF Covered
<1> QED BY <1>5, <1>7, <1>9, <1>10, <1>12 DEF LedgerInv

\* What is ahead of a run: its next batch, and what is ahead of that.
LEMMA AheadIs ==
    ASSUME NEW b \in Seq(Seq(Owner)), Apart(b), NEW n \in 1..Len(b)
    PROVE  /\ b[n] \in Seq(Owner) /\ P!ToSet(b[n]) \subseteq Owner
           /\ Ahead(b, n) = P!ToSet(b[n]) \cup Ahead(b, n + 1)
           /\ P!ToSet(b[n]) \cap Ahead(b, n + 1) = {}
           /\ Ahead(b, n) \subseteq Ahead(b, 1)
<1>1. Len(b) \in Nat /\ b[n] \in Seq(Owner) /\ \A m \in 1..Len(b) : b[m] \in Seq(Owner)
  OBVIOUS
<1>2. P!ToSet(b[n]) \subseteq Owner
  BY <1>1, MembersOf
<1>3. \A h : h \in Ahead(b, n) <=> h \in P!ToSet(b[n]) \cup Ahead(b, n + 1)
  BY <1>1, AheadOf
<1>4. \A h \in Ahead(b, n + 1) : h \notin P!ToSet(b[n])
  <2> TAKE h \in Ahead(b, n + 1)
  <2>1. PICK m \in n + 1..Len(b) : h \in P!ToSet(b[m])
    BY AheadOf
  <2>2. m \in DOMAIN b /\ n \in DOMAIN b /\ m # n
    BY <1>1
  <2>3. P!ToSet(b[m]) \cap P!ToSet(b[n]) = {}
    BY <2>2 DEF Apart
  <2> QED BY <2>1, <2>3
<1>5. \A h \in Ahead(b, n) : h \in Ahead(b, 1)
  BY <1>1, AheadOf
<1>6. Ahead(b, n) = P!ToSet(b[n]) \cup Ahead(b, n + 1)
  BY <1>3
<1> QED BY <1>1, <1>2, <1>4, <1>5, <1>6

\* Nobody is ahead of a run that is through.
LEMMA NoneAhead ==
    ASSUME NEW b \in Seq(Seq(Owner)), NEW n, n = Len(b) + 1
    PROVE  Ahead(b, n) = {}
  BY AheadOf

\* The record of the run, the chain as it was.
LEMMA RunChanges ==
    ASSUME RunInv, hours > 0, UNCHANGED <<pending, landed, broken, hours, plans>>,
           run' # P!NoRun => Accounts(run') /\ OnChain(run')
    PROVE  RunInv'
  BY DEF RunInv, Accounts, OnChain, Got, Touched, Live, Known, Current, P!Buyback, P!plan

\* The chain, the record as it was.
LEMMA ChainChanges ==
    ASSUME RunInv, UNCHANGED <<run, hours, plans>>,
           Live' \subseteq Live, landed \subseteq landed', Known' \subseteq Known
    PROVE  RunInv'
<1> SUFFICES ASSUME run # P!NoRun PROVE Accounts(run)' /\ OnChain(run)'
  BY DEF RunInv
<1>1. Accounts(run)'
  BY DEF RunInv, Accounts
<1>2. OnChain(run)'
  <2>1. Current(run)' = Current(run) /\ P!Buyback' = P!Buyback
    BY DEF Current, P!Buyback, P!plan
  <2>2. /\ \A h : Got(hours, h) => Got(hours, h)'
        /\ \A h : Touched(hours, h)' => Touched(hours, h)
    BY DEF Got, Touched
  <2> QED BY <2>1, <2>2 DEF RunInv, OnChain
<1> QED BY <1>1, <1>2

\* A run goes on to its next batch: everybody in the one before was paid or is in no transaction.
LEMMA Advances ==
    ASSUME LedgerInv, NEW r, Accounts(r), OnChain(r), r.pc # "over", r.n <= Len(r.batches),
           NEW paid, NEW lost, paid \cup lost = P!ToSet(r.batches[r.n]),
           \A h \in paid : Got(hours, h), \A h \in lost : ~Touched(hours, h),
           NEW q \in RunRec, q.pc = "next", q.n = r.n + 1, q.batches = r.batches, q.sends = r.sends + 1,
           q.sent = r.sent \cup paid, q.failed = r.failed \cup lost, q.skipped = r.skipped,
           q.buying = r.buying, q.bought = r.bought
    PROVE  Accounts(q) /\ OnChain(q)
<1> DEFINE b == r.batches
           due == Ahead(b, r.n + 1)
<1>1. /\ b \in Seq(Seq(Owner)) /\ Apart(b) /\ r.n \in 1..Len(b) /\ r.n \in Nat /\ Len(b) \in Nat
      /\ r.pc \in {"next", "sent"} /\ r.sends \in Nat
  BY DEF Accounts, RunRec
<1>2. /\ Ahead(b, r.n) = P!ToSet(b[r.n]) \cup due /\ P!ToSet(b[r.n]) \cap due = {}
      /\ Ahead(b, r.n) \subseteq Ahead(b, 1)
  BY <1>1, AheadIs
<1>3. Ahead(q.batches, q.n) = due /\ StillDue(q) = due /\ q.batches = b
  BY DEF StillDue
<1>4. \A h \in due : ~Touched(hours, h)
  BY <1>1, <1>2 DEF OnChain, StillDue
<1> HIDE DEF b, due
<1>5. Accounts(q)
  <2>1. q.n \in 1..Len(b) + 1
    BY <1>1
  <2>2. plans[hours].payouts = q.sent \cup q.skipped \cup q.failed \cup due
    BY <1>1, <1>2 DEF Accounts, b
  <2> QED BY <1>1, <1>3, <2>1, <2>2 DEF Accounts, b
<1>6. OnChain(q)
  <2>1. \A h \in q.sent : Got(hours, h)
    BY DEF OnChain
  <2>2. \A h \in q.skipped \cup q.failed : ~Touched(hours, h) /\ h \notin due
    BY <1>2 DEF OnChain, b
  <2>3. \A tx \in Known : tx.hour = hours /\ tx.n # 0 => tx.of < q.sends
    <3> SUFFICES ASSUME NEW tx \in Known, tx.hour = hours, tx.n # 0 PROVE tx.of < q.sends
      OBVIOUS
    <3>1. tx.of \in Nat
      BY TxFacts DEF LedgerInv, TxRec
    <3>2. tx.of <= r.sends
      BY <1>1, <3>1 DEF OnChain
    <3> QED BY <1>1, <3>1, <3>2
  <2> QED BY <1>3, <1>4, <2>1, <2>2, <2>3 DEF OnChain
<1> QED BY <1>5, <1>6

\* Batches c are batches b without one recipient of the nth.
Without(c, b, n, out) ==
    /\ c \in Seq(Seq(Owner)) /\ Len(c) = Len(b) /\ Apart(c)
    /\ out \in P!ToSet(b[n]) /\ P!ToSet(c[n]) = P!ToSet(b[n]) \ {out}
    /\ Ahead(c, n + 1) = Ahead(b, n + 1) /\ Ahead(c, 1) \subseteq Ahead(b, 1)

\* A recipient is left out of the batch a run is at, and of nothing else.
LEMMA Dropped ==
    ASSUME NEW b \in Seq(Seq(Owner)), Apart(b), NEW n \in 1..Len(b), NEW i \in DOMAIN b[n]
    PROVE  Without([b EXCEPT ![n] = P!RemoveAt(b[n], i)], b, n, b[n][i])
<1> DEFINE rest == P!RemoveAt(b[n], i)
           c == [b EXCEPT ![n] = rest]
<1>1. Len(b) \in Nat /\ DOMAIN b = 1..Len(b) /\ b[n] \in Seq(Owner) /\ Distinct(b[n])
  BY DEF Apart
<1>2. rest \in Seq(Owner) /\ Distinct(rest) /\ P!ToSet(rest) = P!ToSet(b[n]) \ {b[n][i]}
  BY <1>1, LeftOut
<1>3. b[n][i] \in P!ToSet(b[n])
  BY MembersOf
<1>4. c = [b EXCEPT ![n] = rest]
  OBVIOUS
<1> HIDE DEF rest, c
<1>5. /\ c \in Seq(Seq(Owner)) /\ Len(c) = Len(b) /\ DOMAIN c = 1..Len(b)
      /\ c[n] = rest /\ \A m \in 1..Len(b) : m # n => c[m] = b[m]
  BY <1>1, <1>2, <1>4
<1>6. \A m \in 1..Len(b) : P!ToSet(c[m]) \subseteq P!ToSet(b[m]) /\ Distinct(c[m])
  <2> TAKE m \in 1..Len(b)
  <2>1. CASE m = n
    BY <1>2, <1>5, <2>1
  <2>2. CASE m # n
    BY <1>1, <1>5, <2>2 DEF Apart
  <2> QED BY <2>1, <2>2
<1>7. Apart(c)
  <2>1. \A m, k \in 1..Len(b) : m # k => P!ToSet(b[m]) \cap P!ToSet(b[k]) = {}
    BY <1>1 DEF Apart
  <2>2. \A m, k \in 1..Len(b) : m # k => P!ToSet(c[m]) \cap P!ToSet(c[k]) = {}
    BY <1>6, <2>1
  <2> QED BY <1>5, <1>6, <2>2 DEF Apart
<1>8. \A h : h \in Ahead(c, n + 1) <=> h \in Ahead(b, n + 1)
  <2> TAKE h
  <2>1. \A m \in n + 1..Len(b) : c[m] = b[m]
    BY <1>5
  <2>2. h \in Ahead(c, n + 1) <=> \E m \in n + 1..Len(c) : h \in P!ToSet(c[m])
    BY AheadOf
  <2>3. h \in Ahead(b, n + 1) <=> \E m \in n + 1..Len(b) : h \in P!ToSet(b[m])
    BY AheadOf
  <2>4. n + 1..Len(c) = n + 1..Len(b)
    BY <1>5
  <2> QED BY <2>1, <2>2, <2>3, <2>4
<1>9. \A h \in Ahead(c, 1) : h \in Ahead(b, 1)
  <2> TAKE h \in Ahead(c, 1)
  <2>1. PICK m \in 1..Len(b) : h \in P!ToSet(c[m])
    BY <1>5, AheadOf
  <2> QED BY <1>6, <2>1, AheadOf
<1>10. Ahead(c, n + 1) = Ahead(b, n + 1)
  BY <1>8
<1>11. Without(c, b, n, b[n][i])
  BY <1>2, <1>3, <1>5, <1>7, <1>9, <1>10 DEF Without
<1> QED BY <1>11 DEF c, rest

\* Who is left out of a batch that was not sent is in no transaction.
LEMMA LeavesOut ==
    ASSUME LedgerInv, NEW r, Accounts(r), OnChain(r), r.pc = "next", r.n <= Len(r.batches),
           NEW out,
           NEW q \in RunRec, q.pc = "next", q.n = r.n, q.sends = r.sends,
           Without(q.batches, r.batches, r.n, out),
           q.sent = r.sent, q.failed = r.failed, q.skipped = r.skipped \cup {out},
           q.buying = r.buying, q.bought = r.bought
    PROVE  Accounts(q) /\ OnChain(q)
<1> DEFINE b == r.batches
           c == q.batches
           due == Ahead(b, r.n + 1)
<1>1. /\ b \in Seq(Seq(Owner)) /\ Apart(b) /\ r.n \in 1..Len(b) /\ r.n \in Nat /\ Len(b) \in Nat
  BY DEF Accounts, RunRec
<1>2. /\ Ahead(b, r.n) = P!ToSet(b[r.n]) \cup due /\ P!ToSet(b[r.n]) \cap due = {}
      /\ Ahead(b, r.n) \subseteq Ahead(b, 1)
  BY <1>1, AheadIs
<1>3. /\ c \in Seq(Seq(Owner)) /\ Len(c) = Len(b) /\ Apart(c)
      /\ P!ToSet(c[r.n]) = P!ToSet(b[r.n]) \ {out} /\ Ahead(c, r.n + 1) = due
      /\ Ahead(c, 1) \subseteq Ahead(b, 1) /\ out \in P!ToSet(b[r.n])
  BY DEF Without
<1>4. Ahead(c, r.n) = P!ToSet(c[r.n]) \cup due
  <2> DEFINE n == r.n
  <2>1. n \in 1..Len(c) /\ due = Ahead(c, n + 1)
    BY <1>1, <1>3
  <2> HIDE DEF n, b, c, due
  <2>2. Ahead(c, n) = P!ToSet(c[n]) \cup Ahead(c, n + 1)
    BY <1>3, <2>1, AheadIs
  <2> QED BY <2>1, <2>2 DEF n
<1>5. Ahead(c, r.n) = Ahead(b, r.n) \ {out} /\ out \in Ahead(b, r.n)
  BY <1>2, <1>3, <1>4
<1>6. \A h \in Ahead(b, r.n) : ~Touched(hours, h)
  BY DEF OnChain, StillDue
<1>7. StillDue(q) = Ahead(c, r.n)
  BY DEF StillDue
<1> HIDE DEF b, c, due
<1>8. Accounts(q)
  <2>1. q.n \in 1..Len(c) + 1
    BY <1>1, <1>3
  <2>2. plans[hours].payouts = q.sent \cup q.skipped \cup q.failed \cup Ahead(c, q.n)
    BY <1>5 DEF Accounts, b
  <2>3. Ahead(c, 1) \subseteq plans[hours].payouts
    BY <1>3 DEF Accounts, b
  <2> QED BY <1>3, <2>1, <2>2, <2>3 DEF Accounts, c
<1>9. OnChain(q)
  <2>1. \A h \in q.skipped \cup q.failed : ~Touched(hours, h) /\ h \notin Ahead(c, q.n)
    BY <1>5, <1>6 DEF OnChain, b
  <2> QED BY <1>5, <1>6, <1>7, <2>1 DEF OnChain, c
<1> QED BY <1>8, <1>9

\* The report stays true: only transactions of a later hour are sent after it.
LEMMA ReportKeeps ==
    ASSUME ReportInv, report' = report, hours \in Nat, hours' \in {hours, hours + 1},
           \A n \in 1..hours : plans'[n] = plans[n], landed \subseteq landed',
           \A tx \in Live' : tx \in Live \/ (run # P!NoRun /\ tx.hour = hours),
           run' # P!NoRun => (run # P!NoRun /\ hours' = hours) \/ hours' = hours + 1
    PROVE  ReportInv'
<1> SUFFICES ASSUME report # P!NoRun PROVE ReportInv'
  BY DEF ReportInv
<1> DEFINE n == report.n
<1>1. n \in 1..hours /\ (run # P!NoRun => n < hours) /\ n \in 1..hours' /\ plans'[n] = plans[n]
  BY DEF ReportInv
<1>2. run' # P!NoRun => n < hours'
  BY <1>1
<1>3. \A h : Got(n, h) => Got(n, h)'
  BY DEF Got
<1>4. \A h : Touched(n, h)' => Touched(n, h)
  BY <1>1 DEF Touched
<1>5. \A h \in report.sent : Got(n, h)'
  BY <1>3 DEF ReportInv
<1>6. \A h \in report.skipped \cup report.failed : ~Touched(n, h)'
  BY <1>4 DEF ReportInv
<1>7. report.bought => \E tx \in landed' : tx.hour = n /\ tx.n = 0
  BY DEF ReportInv
<1> QED BY <1>1, <1>2, <1>5, <1>6, <1>7 DEF ReportInv

\* A step that changes the run alone.
LEMMA RunAlone ==
    ASSUME PayInv, hours > 0, UNCHANGED <<wallet, sol, pending, landed, broken, report, hours, plans>>,
           run # P!NoRun, run' # P!NoRun => Accounts(run') /\ OnChain(run')
    PROVE  PayInv'
<1>1. LedgerInv'
  BY LedgerGrows DEF PayInv, LedgerInv, PayTypes
<1>2. RunInv'
  BY RunChanges DEF PayInv
<1>3. ReportInv'
  <2>1. Live' = Live /\ hours \in Nat
    BY DEF Live, PayInv, LedgerInv, PayTypes
  <2> QED BY <2>1, ReportKeeps DEF PayInv
<1> QED BY <1>1, <1>2, <1>3 DEF PayInv

\* A step that takes a transaction off the network, or changes the wallets alone.
LEMMA ChainAlone ==
    ASSUME PayInv, LedgerInv', UNCHANGED <<run, report, hours, plans>>,
           Live' \subseteq Live, landed \subseteq landed', Known' \subseteq Known
    PROVE  PayInv'
<1>1. RunInv'
  BY ChainChanges DEF PayInv
<1>2. ReportInv'
  <2>1. hours \in Nat
    BY DEF PayInv, LedgerInv, PayTypes
  <2> QED BY <2>1, ReportKeeps DEF PayInv
<1> QED BY <1>1, <1>2 DEF PayInv

LEMMA LandPaysKeeps ==
    ASSUME PayInv, P!Land PROVE PayInv'
<1>1. PICK tx \in pending :
         /\ pending' = pending \ {tx}
         /\ \/ /\ P!Executes(tx)
               /\ wallet' = wallet - tx.spends /\ sol' = sol \cup tx.to /\ landed' = landed \cup {tx}
               /\ UNCHANGED broken
            \/ /\ broken' = broken \cup {tx} /\ UNCHANGED <<wallet, sol, landed>>
  BY DEF P!Land
<1>2. UNCHANGED <<run, report, hours, plans>>
  BY DEF P!Land
<1>3. LedgerInv' /\ Live' \subseteq Live /\ landed \subseteq landed' /\ Known' \subseteq Known
  <2>1. \/ /\ tx.spends <= wallet
           /\ wallet' = wallet - tx.spends /\ landed' = landed \cup {tx} /\ broken' = broken
           /\ sol' = sol \cup tx.to
        \/ UNCHANGED <<wallet, sol, landed>> /\ broken' \in {broken, broken \cup {tx}}
    BY <1>1 DEF P!Executes
  <2> QED BY <1>1, <1>2, <2>1, LeavesKeeps DEF PayInv
<1> QED BY <1>2, <1>3, ChainAlone

LEMMA ExpireKeeps ==
    ASSUME PayInv, P!Expire PROVE PayInv'
<1>1. PICK tx \in pending : pending' = pending \ {tx}
  BY DEF P!Expire
<1>2. UNCHANGED <<wallet, sol, landed, broken, run, report, hours, plans>>
  BY DEF P!Expire
<1>3. LedgerInv' /\ Live' \subseteq Live /\ landed \subseteq landed' /\ Known' \subseteq Known
  BY <1>1, <1>2, LeavesKeeps DEF PayInv
<1> QED BY <1>2, <1>3, ChainAlone

LEMMA MoveKeeps ==
    ASSUME PayInv, P!Move PROVE PayInv'
<1>1. UNCHANGED <<pending, landed, broken, run, report, hours, plans>>
  BY DEF P!Move
<1>2. wallet' \in Nat /\ wallet' >= wallet /\ sol' \subseteq Owner
  <2>1. wallet \in Nat /\ sol \subseteq Owner /\ Income \in Nat
    BY PayoutAssumption DEF PayInv, LedgerInv, PayTypes
  <2>2. CASE \E h \in sol : sol' = sol \ {h} /\ UNCHANGED wallet
    BY <2>1, <2>2
  <2>3. CASE wallet' = wallet + Income /\ UNCHANGED sol
    BY <2>1, <2>3
  <2> QED BY <2>2, <2>3 DEF P!Move
<1>3. LedgerInv'
  BY <1>1, <1>2, LedgerGrows DEF PayInv
<1>4. Live' \subseteq Live /\ landed \subseteq landed' /\ Known' \subseteq Known
  BY <1>1 DEF Live, Known
<1> QED BY <1>1, <1>3, <1>4, ChainAlone

\* A run that pays: what is known of it, its batch and its transaction.
LEMMA UnderWay ==
    ASSUME PayInv, run # P!NoRun
    PROVE  /\ hours > 0 /\ hours \in 1..hours /\ hours \in Nat
           /\ Accounts(run) /\ OnChain(run) /\ run \in RunRec
           /\ LedgerInv /\ PayTypes /\ RunInv /\ ReportInv
           /\ P!NoRun.pc = "none"
  BY DEF PayInv, RunInv, LedgerInv, PayTypes, Accounts, P!NoRun

LEMMA AtBatch ==
    ASSUME PayInv, run.pc \in {"next", "sent"}, run.n <= Len(run.batches)
    PROVE  /\ run # P!NoRun /\ run.n \in 1..Len(run.batches) /\ run.n \in Nat /\ run.n # 0
           /\ run.batches \in Seq(Seq(Owner)) /\ Apart(run.batches) /\ run.sends \in Nat
           /\ P!batch = run.batches[run.n] /\ P!batch \in Seq(Owner)
           /\ P!ToSet(P!batch) \subseteq plans[hours].payouts /\ P!ToSet(P!batch) \subseteq Owner
           /\ P!Payout(P!batch) = Current(run) /\ Current(run).to = P!ToSet(P!batch)
           /\ Ahead(run.batches, run.n) = P!ToSet(P!batch) \cup Ahead(run.batches, run.n + 1)
           /\ P!ToSet(P!batch) \cap Ahead(run.batches, run.n + 1) = {}
           /\ TxOK(Current(run)) /\ Current(run).hour = hours /\ Current(run).n = run.n
           /\ Current(run).of = run.sends
<1>1. run # P!NoRun
  BY DEF P!NoRun
<1>2. /\ run \in RunRec /\ run.batches \in Seq(Seq(Owner)) /\ Apart(run.batches) /\ run.sends \in Nat
      /\ run.n \in 1..Len(run.batches) /\ run.n \in Nat /\ run.n # 0
      /\ Ahead(run.batches, 1) \subseteq plans[hours].payouts
  BY <1>1, UnderWay DEF Accounts, RunRec
<1>3. P!batch = run.batches[run.n]
  BY DEF P!batch
<1>4. /\ run.batches[run.n] \in Seq(Owner) /\ P!ToSet(run.batches[run.n]) \subseteq Owner
      /\ Ahead(run.batches, run.n) = P!ToSet(run.batches[run.n]) \cup Ahead(run.batches, run.n + 1)
      /\ P!ToSet(run.batches[run.n]) \cap Ahead(run.batches, run.n + 1) = {}
      /\ Ahead(run.batches, run.n) \subseteq Ahead(run.batches, 1)
  BY <1>2, AheadIs
<1>5. P!Payout(P!batch) = Current(run)
  BY DEF P!Payout, Current, P!batch, P!plan
<1>6. /\ Current(run).to = P!ToSet(P!batch) /\ Current(run).hour = hours /\ Current(run).n = run.n
      /\ Current(run).of = run.sends
  BY <1>3 DEF Current
<1>7. TxOK(Current(run))
  <2> DEFINE to == P!ToSet(run.batches[run.n])
  <2>1. to \subseteq Owner /\ to \subseteq plans[hours].payouts
    BY <1>2, <1>4
  <2>2. P!Total(plans[hours].share, to) \in Nat /\ hours \in 1..hours /\ hours \in Nat
    BY <1>1, <2>1, UnderWay, PlanFacts
  <2> HIDE DEF to
  <2>3. Current(run) = [hour |-> hours, n |-> run.n, of |-> run.sends, to |-> to,
                        spends |-> P!Total(plans[hours].share, to)]
    BY DEF Current, to
  <2> QED BY <1>2, <2>1, <2>2, <2>3 DEF TxOK, TxRec
<1> QED BY <1>1, <1>2, <1>3, <1>4, <1>5, <1>6, <1>7

\* Two fields are all a step of the buyback changes.
LEMMA Buying ==
    ASSUME NEW r, Accounts(r), OnChain(r), NEW q \in RunRec,
           q.pc = r.pc, q.n = r.n, q.batches = r.batches, q.sends = r.sends,
           q.sent = r.sent, q.failed = r.failed, q.skipped = r.skipped,
           q.buying # "build", r.stopped => q.stopped, q.bought => P!Buyback \in landed
    PROVE  Accounts(q) /\ OnChain(q)
<1>1. Accounts(q)
  BY DEF Accounts
<1>2. Current(q) = Current(r) /\ StillDue(q) = StillDue(r)
  BY DEF Current, StillDue
<1>3. OnChain(q)
  BY <1>2 DEF OnChain
<1> QED BY <1>1, <1>3

LEMMA SendBatchKeeps ==
    ASSUME PayInv, P!SendBatch PROVE PayInv'
<1> DEFINE tx == Current(run)
<1>1. /\ run.pc = "next" /\ run.n <= Len(run.batches)
      /\ pending' = pending \cup {P!Payout(P!batch)}
      /\ run' = [run EXCEPT !.pc = "sent"]
      /\ UNCHANGED <<wallet, sol, landed, broken, report, hours, plans>>
  BY DEF P!SendBatch, P!Paying
<1>2. /\ run # P!NoRun /\ run.n \in 1..Len(run.batches) /\ run.n # 0
      /\ P!ToSet(P!batch) \subseteq Owner
      /\ P!Payout(P!batch) = tx /\ tx.to = P!ToSet(P!batch)
      /\ Ahead(run.batches, run.n) = P!ToSet(P!batch) \cup Ahead(run.batches, run.n + 1)
      /\ P!ToSet(P!batch) \cap Ahead(run.batches, run.n + 1) = {}
      /\ TxOK(tx) /\ tx.hour = hours /\ tx.n = run.n /\ tx.of = run.sends
      /\ P!batch = run.batches[run.n] /\ run.sends \in Nat
  BY <1>1, AtBatch
<1>3. /\ hours > 0 /\ hours \in Nat /\ Accounts(run) /\ OnChain(run) /\ run \in RunRec
      /\ LedgerInv /\ PayTypes /\ RunInv /\ ReportInv
  BY <1>2, UnderWay
<1>4. tx \notin Known
  BY <1>1, <1>2, <1>3 DEF OnChain
<1>5. \A h \in Ahead(run.batches, run.n) : ~Touched(hours, h)
  BY <1>1, <1>3 DEF OnChain, StillDue
<1>6. Live' = Live \cup {tx} /\ Known' = Known \cup {tx} /\ pending' = pending \cup {tx}
  BY <1>1, <1>2 DEF Live, Known
<1>7. LedgerInv'
  BY <1>1, <1>2, <1>3, <1>4, <1>5, <1>6, AddKeeps
<1>8. /\ run' \in RunRec /\ run'.pc = "sent" /\ run'.n = run.n /\ run'.batches = run.batches
      /\ run'.sends = run.sends /\ run'.sent = run.sent /\ run'.failed = run.failed
      /\ run'.skipped = run.skipped /\ run'.buying = run.buying /\ run'.bought = run.bought
  BY <1>1, <1>3 DEF RunRec
<1>9. Accounts(run)'
  BY <1>1, <1>2, <1>3, <1>8 DEF Accounts
<1> HIDE DEF tx
<1>10. \A h : Touched(hours, h)' => Touched(hours, h) \/ h \in tx.to
  BY <1>1, <1>6 DEF Touched
<1>11. OnChain(run)'
  <2>1. \A h \in run'.sent : Got(hours, h)'
    BY <1>1, <1>3, <1>8 DEF OnChain, Got
  <2>2. \A h \in run'.skipped \cup run'.failed : ~Touched(hours, h)' /\ h \notin Ahead(run'.batches, run'.n)
    BY <1>2, <1>3, <1>8, <1>10 DEF OnChain
  <2>3. \A h \in StillDue(run)' : ~Touched(hours, h)'
    BY <1>2, <1>5, <1>8, <1>10 DEF StillDue
  <2>4. Current(run)' = tx
    BY <1>1, <1>8 DEF Current, tx
  <2>5. \A h \in P!ToSet(run'.batches[run'.n]) : \A t \in Live' : t.hour = hours /\ h \in t.to => t = tx
    BY <1>2, <1>5, <1>6, <1>8 DEF Touched
  <2>6. \A t \in Known' : t.hour = hours /\ t.n # 0 => t.of < run'.sends \/ t.of = run'.sends
    BY <1>1, <1>2, <1>3, <1>6, <1>8 DEF OnChain
  <2>7. run'.buying = "build" => \A t \in Known' : t.hour = hours => t.n # 0
    BY <1>2, <1>3, <1>6, <1>8 DEF OnChain
  <2>8. run'.bought => P!Buyback' \in landed'
    BY <1>1, <1>3, <1>8 DEF OnChain, P!Buyback, P!plan
  <2> QED BY <1>1, <1>8, <2>1, <2>2, <2>3, <2>4, <2>5, <2>6, <2>7, <2>8 DEF OnChain
<1>12. ReportInv'
  BY <1>1, <1>2, <1>3, <1>6, ReportKeeps
<1>13. RunInv'
  BY <1>1, <1>3, <1>9, <1>11 DEF RunInv
<1> QED BY <1>7, <1>12, <1>13 DEF PayInv

LEMMA BuyKeeps ==
    ASSUME PayInv, P!Buy PROVE PayInv'
<1> DEFINE tx == P!Buyback
<1>1. /\ run # P!NoRun /\ run.buying = "build"
      /\ UNCHANGED <<wallet, sol, landed, broken, report, hours, plans>>
  BY DEF P!Buy
<1>2. /\ hours > 0 /\ hours \in 1..hours /\ hours \in Nat /\ Accounts(run) /\ OnChain(run) /\ run \in RunRec
      /\ LedgerInv /\ PayTypes /\ RunInv /\ ReportInv
  BY <1>1, UnderWay
<1>3. CASE pending' = pending \cup {P!Buyback} /\ run' = [run EXCEPT !.buying = "sent"]
  <2>1. /\ tx = [hour |-> hours, n |-> 0, of |-> 0, to |-> {}, spends |-> plans[hours].buyback]
        /\ tx.hour = hours /\ tx.n = 0 /\ tx.to = {}
    BY DEF P!Buyback, P!plan
  <2>2. TxOK(tx)
    <3>1. plans[hours].buyback \in Nat
      BY <1>2, PlanFacts
    <3> QED BY <1>2, <2>1, <3>1 DEF TxOK, TxRec
  <2> HIDE DEF tx
  <2>3. tx \notin Known
    BY <1>1, <1>2, <2>1 DEF OnChain
  <2>4. Live' = Live \cup {tx} /\ Known' = Known \cup {tx} /\ pending' = pending \cup {tx}
    BY <1>1, <1>3 DEF Live, Known, tx
  <2>5. LedgerInv'
    BY <1>1, <1>2, <2>1, <2>2, <2>3, <2>4, AddKeeps
  <2>6. /\ run' \in RunRec /\ run'.pc = run.pc /\ run'.n = run.n /\ run'.batches = run.batches
        /\ run'.sends = run.sends /\ run'.sent = run.sent /\ run'.failed = run.failed
        /\ run'.skipped = run.skipped /\ run'.buying = "sent" /\ run'.bought = run.bought
        /\ run'.stopped = run.stopped
    BY <1>2, <1>3 DEF RunRec
  <2>7. Accounts(run)'
    BY <1>1, <1>2, <2>6 DEF Accounts
  <2>8. \A h : Touched(hours, h)' => Touched(hours, h)
    BY <1>1, <2>1, <2>4 DEF Touched
  <2>9. OnChain(run)'
    <3>1. \A h \in run'.sent : Got(hours, h)'
      BY <1>1, <1>2, <2>6 DEF OnChain, Got
    <3>2. \A h \in run'.skipped \cup run'.failed : ~Touched(hours, h)' /\ h \notin Ahead(run'.batches, run'.n)
      BY <1>2, <2>6, <2>8 DEF OnChain
    <3>3. run'.pc # "over" => \A h \in StillDue(run)' : ~Touched(hours, h)'
      BY <1>2, <2>6, <2>8 DEF OnChain, StillDue
    <3>4. Current(run)' = Current(run) /\ P!Buyback' = P!Buyback
      BY <1>1, <2>6 DEF Current, P!Buyback, P!plan
    <3>5. run'.pc = "sent" => \A h \in P!ToSet(run'.batches[run'.n]) : \A t \in Live' :
             t.hour = hours /\ h \in t.to => t = Current(run)
      BY <1>2, <2>1, <2>4, <2>6 DEF OnChain
    <3>6. \A t \in Known' : t.hour = hours /\ t.n # 0 =>
             t.of < run'.sends \/ (t.of = run'.sends /\ run'.pc # "next")
      BY <1>2, <2>1, <2>4, <2>6 DEF OnChain
    <3>7. run'.bought => P!Buyback \in landed'
      BY <1>1, <1>2, <2>6 DEF OnChain
    <3> QED BY <1>1, <2>6, <3>1, <3>2, <3>3, <3>4, <3>5, <3>6, <3>7 DEF OnChain
  <2>10. ReportInv'
    BY <1>1, <1>2, <2>1, <2>4, ReportKeeps
  <2>11. RunInv'
    BY <1>1, <1>2, <2>7, <2>9 DEF RunInv
  <2> QED BY <2>5, <2>10, <2>11 DEF PayInv
<1>4. CASE run' = [run EXCEPT !.buying = "done", !.stopped = TRUE] /\ UNCHANGED pending
  <2>1. /\ run' \in RunRec /\ run'.pc = run.pc /\ run'.n = run.n /\ run'.batches = run.batches
        /\ run'.sends = run.sends /\ run'.sent = run.sent /\ run'.failed = run.failed
        /\ run'.skipped = run.skipped /\ run'.buying = "done" /\ run'.bought = run.bought
        /\ run'.stopped
    BY <1>2, <1>4 DEF RunRec
  <2>2. Accounts(run') /\ OnChain(run')
    <3>1. run'.bought => P!Buyback \in landed
      BY <1>2, <2>1 DEF OnChain
    <3> QED BY <1>2, <2>1, <3>1, Buying
  <2> QED BY <1>1, <1>2, <1>4, <2>2, RunAlone
<1> QED BY <1>3, <1>4 DEF P!Buy

LEMMA ConfirmBuyKeeps ==
    ASSUME PayInv, P!ConfirmBuy PROVE PayInv'
<1>1. /\ run # P!NoRun /\ UNCHANGED <<wallet, sol, pending, landed, broken, report, hours, plans>>
      /\ \/ P!Buyback \in landed /\ run' = [run EXCEPT !.buying = "done", !.bought = TRUE]
         \/ run' = [run EXCEPT !.buying = "done", !.stopped = TRUE]
  BY DEF P!ConfirmBuy
<1>2. hours > 0 /\ Accounts(run) /\ OnChain(run) /\ run \in RunRec
  BY <1>1, UnderWay
<1>3. /\ run' \in RunRec /\ run'.pc = run.pc /\ run'.n = run.n /\ run'.batches = run.batches
      /\ run'.sends = run.sends /\ run'.sent = run.sent /\ run'.failed = run.failed
      /\ run'.skipped = run.skipped /\ run'.buying = "done" /\ (run.stopped => run'.stopped)
      /\ (run'.bought => run.bought \/ P!Buyback \in landed)
  BY <1>1, <1>2 DEF RunRec
<1>4. run'.bought => P!Buyback \in landed
  BY <1>2, <1>3 DEF OnChain
<1>5. Accounts(run') /\ OnChain(run')
  BY <1>2, <1>3, <1>4, Buying
<1> QED BY <1>1, <1>2, <1>5, RunAlone

\* A run that stops where it is.
LEMMA Stops ==
    ASSUME NEW r, Accounts(r), OnChain(r), NEW q \in RunRec,
           q.pc = "over", q.n = r.n, q.batches = r.batches, q.sends = r.sends, q.stopped,
           q.sent = r.sent, q.failed = r.failed, q.skipped = r.skipped,
           q.buying = r.buying, q.bought = r.bought
    PROVE  Accounts(q) /\ OnChain(q)
  BY DEF Accounts, OnChain

LEMMA TimeLimitKeeps ==
    ASSUME PayInv, P!TimeLimit PROVE PayInv'
<1>1. /\ run.pc = "next" /\ run.n <= Len(run.batches)
      /\ run' = [run EXCEPT !.pc = "over", !.stopped = TRUE]
      /\ UNCHANGED <<wallet, sol, pending, landed, broken, report, hours, plans>>
  BY DEF P!TimeLimit, P!Paying
<1>2. run # P!NoRun /\ hours > 0 /\ Accounts(run) /\ OnChain(run) /\ run \in RunRec
  BY <1>1, AtBatch, UnderWay
<1>3. /\ run' \in RunRec /\ run'.pc = "over" /\ run'.n = run.n /\ run'.batches = run.batches
      /\ run'.sends = run.sends /\ run'.sent = run.sent /\ run'.failed = run.failed
      /\ run'.skipped = run.skipped /\ run'.buying = run.buying /\ run'.bought = run.bought
      /\ run'.stopped
  BY <1>1, <1>2 DEF RunRec
<1>4. Accounts(run') /\ OnChain(run')
  BY <1>2, <1>3, Stops
<1> QED BY <1>1, <1>2, <1>4, RunAlone

\* What NextBatch does to a record.
LEMMA NextBatchIs ==
    ASSUME NEW r \in RunRec, NEW q, q = P!NextBatch(r)
    PROVE  /\ q \in RunRec /\ q.pc = "next" /\ q.n = r.n + 1 /\ q.batches = r.batches /\ q.sends = r.sends + 1
           /\ q.sent = r.sent /\ q.failed = r.failed /\ q.skipped = r.skipped
           /\ q.buying = r.buying /\ q.bought = r.bought
<1> DEFINE n == r.n + 1
           m == r.sends + 1
<1>1. n \in Nat /\ m \in Nat
  BY DEF RunRec
<1>2. q = [r EXCEPT !.pc = "next", !.n = n, !.retry = FALSE, !.sends = m]
  BY DEF P!NextBatch
<1> HIDE DEF n, m
<1>3. /\ q \in RunRec /\ q.pc = "next" /\ q.n = n /\ q.batches = r.batches /\ q.sends = m
      /\ q.sent = r.sent /\ q.failed = r.failed /\ q.skipped = r.skipped
      /\ q.buying = r.buying /\ q.bought = r.bought
  BY <1>1, <1>2 DEF RunRec
<1> QED BY <1>3 DEF n, m

LEMMA NotSentKeeps ==
    ASSUME PayInv, P!NotSent PROVE PayInv'
<1> DEFINE r == [run EXCEPT !.failed = @ \cup P!ToSet(P!batch)]
<1>1. /\ run.pc = "next" /\ run.n <= Len(run.batches)
      /\ run' = P!NextBatch(r)
      /\ UNCHANGED <<wallet, sol, pending, landed, broken, report, hours, plans>>
  BY DEF P!NotSent, P!Paying
<1>2. run # P!NoRun /\ hours > 0 /\ Accounts(run) /\ OnChain(run) /\ run \in RunRec /\ LedgerInv
  BY <1>1, AtBatch, UnderWay
<1>3. /\ P!ToSet(P!batch) \subseteq Owner /\ P!batch = run.batches[run.n]
      /\ P!ToSet(P!batch) \subseteq Ahead(run.batches, run.n)
  BY <1>1, AtBatch
<1>4. /\ r \in RunRec /\ r.n = run.n /\ r.batches = run.batches /\ r.sends = run.sends
      /\ r.sent = run.sent /\ r.failed = run.failed \cup P!ToSet(run.batches[run.n]) /\ r.skipped = run.skipped
      /\ r.buying = run.buying /\ r.bought = run.bought
  BY <1>2, <1>3 DEF RunRec
<1> HIDE DEF r
<1>5. \A h \in P!ToSet(run.batches[run.n]) : ~Touched(hours, h)
  BY <1>1, <1>2, <1>3 DEF OnChain, StillDue
<1>6. Accounts(run') /\ OnChain(run')
  <2>1. /\ run' \in RunRec /\ run'.pc = "next" /\ run'.n = run.n + 1 /\ run'.batches = run.batches
        /\ run'.sends = run.sends + 1 /\ run'.sent = run.sent \cup {}
        /\ run'.failed = run.failed \cup P!ToSet(run.batches[run.n])
        /\ run'.skipped = run.skipped /\ run'.buying = run.buying /\ run'.bought = run.bought
    BY <1>1, <1>4, NextBatchIs
  <2>2. {} \cup P!ToSet(run.batches[run.n]) = P!ToSet(run.batches[run.n]) /\ run.pc # "over"
        /\ \A h \in {} : Got(hours, h)
    BY <1>1
  <2> QED BY <1>1, <1>2, <1>5, <2>1, <2>2, Advances
<1> QED BY <1>1, <1>2, <1>6, RunAlone

LEMMA ConfirmKeeps ==
    ASSUME PayInv, P!Confirm PROVE PayInv'
<1> DEFINE tx == Current(run)
           all == P!ToSet(run.batches[run.n])
<1>1. run.pc = "sent" /\ UNCHANGED <<wallet, sol, pending, landed, broken, report, hours, plans>>
  BY DEF P!Confirm
<1>2. run # P!NoRun
  BY <1>1 DEF P!NoRun
<1>3. hours > 0 /\ Accounts(run) /\ OnChain(run) /\ run \in RunRec /\ LedgerInv /\ run.n <= Len(run.batches)
  BY <1>1, <1>2, UnderWay DEF Accounts
<1>4. /\ P!ToSet(P!batch) = all /\ all \subseteq Owner /\ P!Payout(P!batch) = tx /\ tx.to = all
      /\ tx.hour = hours
  BY <1>1, <1>3, AtBatch
<1> HIDE DEF tx, all
<1>5. CASE tx \in landed /\ run' = P!NextBatch([run EXCEPT !.sent = @ \cup tx.to])
  <2> DEFINE r == [run EXCEPT !.sent = @ \cup tx.to]
  <2>1. /\ r \in RunRec /\ r.n = run.n /\ r.batches = run.batches /\ r.sends = run.sends
        /\ r.sent = run.sent \cup all /\ r.failed = run.failed /\ r.skipped = run.skipped
        /\ r.buying = run.buying /\ r.bought = run.bought
    BY <1>3, <1>4 DEF RunRec
  <2>2. run' = P!NextBatch(r)
    BY <1>5
  <2> HIDE DEF r
  <2>3. /\ run' \in RunRec /\ run'.pc = "next" /\ run'.n = run.n + 1 /\ run'.batches = run.batches
        /\ run'.sends = run.sends + 1 /\ run'.sent = run.sent \cup all
        /\ run'.failed = run.failed \cup {}
        /\ run'.skipped = run.skipped /\ run'.buying = run.buying /\ run'.bought = run.bought
    BY <2>1, <2>2, NextBatchIs
  <2>4. \A h \in all : Got(hours, h)
    BY <1>4, <1>5 DEF Got
  <2>5. all \cup {} = P!ToSet(run.batches[run.n]) /\ run.pc # "over" /\ \A h \in {} : ~Touched(hours, h)
    BY <1>1 DEF all
  <2>6. Accounts(run') /\ OnChain(run')
    BY <1>3, <2>3, <2>4, <2>5, Advances
  <2> QED BY <1>1, <1>2, <1>3, <2>6, RunAlone
<1>6. CASE tx \in broken /\ run' = P!NextBatch([run EXCEPT !.failed = @ \cup tx.to])
  <2> DEFINE r == [run EXCEPT !.failed = @ \cup tx.to]
  <2>1. /\ r \in RunRec /\ r.n = run.n /\ r.batches = run.batches /\ r.sends = run.sends
        /\ r.failed = run.failed \cup all /\ r.sent = run.sent /\ r.skipped = run.skipped
        /\ r.buying = run.buying /\ r.bought = run.bought
    BY <1>3, <1>4 DEF RunRec
  <2>2. run' = P!NextBatch(r)
    BY <1>6
  <2> HIDE DEF r
  <2>3. /\ run' \in RunRec /\ run'.pc = "next" /\ run'.n = run.n + 1 /\ run'.batches = run.batches
        /\ run'.sends = run.sends + 1 /\ run'.sent = run.sent \cup {}
        /\ run'.failed = run.failed \cup all
        /\ run'.skipped = run.skipped /\ run'.buying = run.buying /\ run'.bought = run.bought
    BY <2>1, <2>2, NextBatchIs
  <2>4. tx \notin Live
    BY <1>3, <1>6 DEF LedgerInv, PayTypes
  <2>5. \A h \in all : ~Touched(hours, h)
    BY <1>1, <1>3, <2>4 DEF OnChain, Touched, tx, all
  <2>6. {} \cup all = P!ToSet(run.batches[run.n]) /\ run.pc # "over" /\ \A h \in {} : Got(hours, h)
    BY <1>1 DEF all
  <2>7. Accounts(run') /\ OnChain(run')
    BY <1>3, <2>3, <2>5, <2>6, Advances
  <2> QED BY <1>1, <1>2, <1>3, <2>7, RunAlone
<1>7. CASE run' = P!Unconfirmed(run, tx.to)
  <2>1. /\ run' \in RunRec /\ run'.pc = "over" /\ run'.n = run.n /\ run'.batches = run.batches
        /\ run'.sends = run.sends /\ run'.sent = run.sent /\ run'.failed = run.failed
        /\ run'.skipped = run.skipped /\ run'.buying = run.buying /\ run'.bought = run.bought
        /\ run'.stopped
    BY <1>3, <1>4, <1>7 DEF P!Unconfirmed, RunRec
  <2>2. Accounts(run') /\ OnChain(run')
    BY <1>3, <2>1, Stops
  <2> QED BY <1>1, <1>2, <1>3, <2>2, RunAlone
<1>8. \/ tx \in landed /\ run' = P!NextBatch([run EXCEPT !.sent = @ \cup tx.to])
      \/ tx \in broken /\ run' = P!NextBatch([run EXCEPT !.failed = @ \cup tx.to])
      \/ run' = P!Unconfirmed(run, tx.to)
  BY <1>4 DEF P!Confirm
<1> QED BY <1>5, <1>6, <1>7, <1>8

LEMMA FinishRunKeeps ==
    ASSUME PayInv, P!Finish PROVE PayInv'
<1>1. /\ run # P!NoRun /\ run' = P!NoRun
      /\ run.pc = "over" \/ (run.pc = "next" /\ run.n > Len(run.batches))
      /\ report' = [run EXCEPT !.pc = "report", !.n = hours]
      /\ UNCHANGED <<wallet, sol, pending, landed, broken, hours, plans>>
  BY DEF P!Finish
<1>2. /\ hours > 0 /\ hours \in 1..hours /\ hours \in Nat /\ Accounts(run) /\ OnChain(run) /\ run \in RunRec
      /\ LedgerInv /\ PayTypes
  BY <1>1, UnderWay
<1>3. LedgerInv'
  BY <1>1, <1>2, LedgerGrows DEF PayTypes
<1>4. /\ report'.n = hours /\ report'.sent = run.sent /\ report'.skipped = run.skipped
      /\ report'.failed = run.failed /\ report'.bought = run.bought /\ report'.stopped = run.stopped
  BY <1>1, <1>2 DEF RunRec
<1>5. ~run.stopped => plans[hours].payouts = run.sent \cup run.skipped \cup run.failed
  <2> SUFFICES ASSUME ~run.stopped PROVE plans[hours].payouts = run.sent \cup run.skipped \cup run.failed
    OBVIOUS
  <2>1. run.pc = "next" /\ run.n > Len(run.batches)
    BY <1>1, <1>2 DEF Accounts
  <2>2. run.n = Len(run.batches) + 1 /\ run.batches \in Seq(Seq(Owner))
    BY <1>2, <2>1 DEF Accounts, RunRec
  <2>3. Ahead(run.batches, run.n) = {}
    BY <2>2, NoneAhead
  <2> QED BY <1>2, <2>1, <2>3 DEF Accounts
<1>6. run.bought => \E tx \in landed : tx.hour = hours /\ tx.n = 0
  BY <1>2 DEF OnChain, P!Buyback
<1>7. ReportInv'
  <2>1. \A h : (Got(hours, h)' <=> Got(hours, h)) /\ (Touched(hours, h)' <=> Touched(hours, h))
    BY <1>1 DEF Got, Touched, Live
  <2>2. \A h \in run.sent : Got(hours, h)'
    BY <1>2, <2>1 DEF OnChain
  <2>3. \A h \in run.skipped \cup run.failed : ~Touched(hours, h)'
    BY <1>2, <2>1 DEF OnChain
  <2> QED BY <1>1, <1>2, <1>4, <1>5, <1>6, <2>2, <2>3 DEF ReportInv, Accounts, Got, Touched
<1>8. RunInv'
  BY <1>1 DEF RunInv, P!NoRun
<1> QED BY <1>3, <1>7, <1>8 DEF PayInv

LEMMA CrashKeeps ==
    ASSUME PayInv, P!Crash PROVE PayInv'
<1>1. /\ run # P!NoRun /\ run' = P!NoRun
      /\ UNCHANGED <<wallet, sol, pending, landed, broken, report, hours, plans>>
  BY DEF P!Crash
<1>2. hours > 0
  BY <1>1, UnderWay
<1>3. run' = P!NoRun
  BY <1>1
<1> QED BY <1>1, <1>2, <1>3, RunAlone

LEMMA RefusedAtKeeps ==
    ASSUME PayInv, P!RefusedAt PROVE PayInv'
<1> DEFINE b == run.batches
           n == run.n
           all == P!ToSet(b[n])
<1>1. /\ run.pc = "next" /\ run.n <= Len(run.batches)
      /\ UNCHANGED <<wallet, sol, pending, landed, broken, report, hours, plans>>
  BY DEF P!RefusedAt, P!Paying
<1>2. run # P!NoRun /\ hours > 0 /\ Accounts(run) /\ OnChain(run) /\ run \in RunRec /\ LedgerInv
  BY <1>1, AtBatch, UnderWay
<1>3. /\ P!batch = b[n] /\ all \subseteq Owner /\ all \subseteq Ahead(b, n)
      /\ b \in Seq(Seq(Owner)) /\ Apart(b) /\ n \in 1..Len(b) /\ b[n] \in Seq(Owner)
  BY <1>1, AtBatch
<1> HIDE DEF b, n, all
<1>4. PICK i \in DOMAIN b[n] :
         LET rest == P!RemoveAt(b[n], i)
             left == [run EXCEPT !.skipped = @ \cup {b[n][i]}, !.batches[run.n] = rest]
         IN run' = CASE run.retry -> P!NextBatch([run EXCEPT !.failed = @ \cup P!ToSet(b[n])])
                     [] ~run.retry /\ rest = <<>> -> P!NextBatch(left)
                     [] OTHER -> [left EXCEPT !.retry = TRUE]
  BY <1>3 DEF P!RefusedAt
<1>5. \A h \in all : ~Touched(hours, h)
  BY <1>1, <1>2, <1>3 DEF OnChain, StillDue, b, n
<1> DEFINE rest == P!RemoveAt(b[n], i)
           out == b[n][i]
           c == [b EXCEPT ![n] = rest]
           left == [run EXCEPT !.skipped = @ \cup {out}, !.batches[run.n] = rest]
<1>6. CASE run.retry
  <2> DEFINE r == [run EXCEPT !.failed = @ \cup all]
  <2>1. run' = P!NextBatch(r)
    BY <1>4, <1>6 DEF all
  <2>2. /\ r \in RunRec /\ r.n = run.n /\ r.batches = run.batches /\ r.sends = run.sends
        /\ r.failed = run.failed \cup all /\ r.sent = run.sent /\ r.skipped = run.skipped
        /\ r.buying = run.buying /\ r.bought = run.bought
    BY <1>2, <1>3 DEF RunRec
  <2> HIDE DEF r
  <2>3. /\ run' \in RunRec /\ run'.pc = "next" /\ run'.n = run.n + 1 /\ run'.batches = run.batches
        /\ run'.sends = run.sends + 1 /\ run'.sent = run.sent \cup {}
        /\ run'.failed = run.failed \cup all
        /\ run'.skipped = run.skipped /\ run'.buying = run.buying /\ run'.bought = run.bought
    BY <2>1, <2>2, NextBatchIs
  <2>4. {} \cup all = P!ToSet(run.batches[run.n]) /\ run.pc # "over" /\ \A h \in {} : Got(hours, h)
    BY <1>1 DEF all, b, n
  <2>5. Accounts(run') /\ OnChain(run')
    BY <1>1, <1>2, <1>5, <2>3, <2>4, Advances
  <2> QED BY <1>1, <1>2, <2>5, RunAlone
<1>7. Without(c, b, n, out)
  BY <1>3, <1>4, Dropped
<1>8. left = [run EXCEPT !.skipped = @ \cup {out}, !.batches = c]
  BY <1>2 DEF RunRec, b, n
<1>9. c[n] = rest /\ (rest = <<>> => P!ToSet(c[n]) = {})
  BY <1>3 DEF P!ToSet
<1> HIDE DEF c, left, rest
<1>10. /\ left \in RunRec /\ left.pc = "next" /\ left.n = run.n /\ left.sends = run.sends
       /\ left.batches = c /\ left.sent = run.sent /\ left.failed = run.failed
       /\ left.skipped = run.skipped \cup {out} /\ left.buying = run.buying /\ left.bought = run.bought
  <2>1. out \in Owner
    BY <1>3, <1>7 DEF all, Without
  <2> HIDE DEF out
  <2>2. c \in Seq(Seq(Owner))
    BY <1>7 DEF Without
  <2> QED BY <1>1, <1>2, <1>8, <2>1, <2>2 DEF RunRec
<1> HIDE DEF out
<1>11. Without(left.batches, run.batches, run.n, out)
  BY <1>7, <1>10 DEF b, n
<1>12. P!ToSet(left.batches[left.n]) = P!ToSet(c[n])
  BY <1>10 DEF n
<1>13. Accounts(left) /\ OnChain(left)
  BY <1>1, <1>2, <1>10, <1>11, LeavesOut
<1>14. CASE ~run.retry /\ rest = <<>>
  <2>1. run' = P!NextBatch(left)
    BY <1>4, <1>14 DEF left, rest, out
  <2>2. /\ run' \in RunRec /\ run'.pc = "next" /\ run'.n = left.n + 1 /\ run'.batches = left.batches
        /\ run'.sends = left.sends + 1 /\ run'.sent = left.sent \cup {}
        /\ run'.failed = left.failed \cup {}
        /\ run'.skipped = left.skipped /\ run'.buying = left.buying /\ run'.bought = left.bought
    BY <1>10, <2>1, NextBatchIs
  <2>3. /\ {} \cup {} = P!ToSet(left.batches[left.n]) /\ left.pc # "over" /\ left.n <= Len(left.batches)
        /\ \A h \in {} : Got(hours, h) /\ ~Touched(hours, h)
    BY <1>1, <1>9, <1>10, <1>11, <1>12, <1>14 DEF Without
  <2>4. Accounts(run') /\ OnChain(run')
    BY <1>2, <1>13, <2>2, <2>3, Advances
  <2> QED BY <1>1, <1>2, <2>4, RunAlone
<1>15. CASE ~run.retry /\ rest # <<>>
  <2>1. run' = [left EXCEPT !.retry = TRUE]
    BY <1>4, <1>15 DEF left, rest, out
  <2>2. /\ run' \in RunRec /\ run'.pc = left.pc /\ run'.n = left.n /\ run'.sends = left.sends
        /\ run'.batches = left.batches /\ run'.sent = left.sent /\ run'.failed = left.failed
        /\ run'.skipped = left.skipped /\ run'.buying = left.buying /\ run'.bought = left.bought
        /\ run'.stopped = left.stopped
    BY <1>10, <2>1 DEF RunRec
  <2>3. Accounts(run') /\ OnChain(run')
    <3>1. Current(run') = Current(left) /\ StillDue(run') = StillDue(left)
      BY <2>2 DEF Current, StillDue
    <3> QED BY <1>13, <2>2, <3>1 DEF Accounts, OnChain
  <2> QED BY <1>1, <1>2, <2>3, RunAlone
<1> QED BY <1>6, <1>14, <1>15

LEMMA BeginKeeps ==
    ASSUME PayInv, P!ReadPlan PROVE PayInv'
<1>1. /\ LedgerInv' /\ hours' = hours + 1 /\ hours \in Nat
      /\ \A n \in 1..hours : plans'[n] = plans[n]
      /\ Live' = Live /\ Known' = Known
  BY ReadPlanKeeps DEF PayInv
<1>2. run = P!NoRun /\ UNCHANGED <<wallet, sol, pending, landed, broken, report>>
  BY DEF P!ReadPlan
<1>3. ReportInv'
  BY <1>1, <1>2, ReportKeeps DEF PayInv
<1>4. PICK bps \in Rates, held \in Holdings :
         LET p == P!Plan(wallet, bps, held, Owner \ sol)
         IN /\ plans' = Append(plans, p)
            /\ \E payouts \in P!Ranked(held, p.payouts) :
                  run' = [pc |-> "next", batches |-> P!Batches(payouts), n |-> 1, sends |-> 0, retry |-> FALSE,
                          buying |-> IF p.buyback > 0 THEN "build" ELSE "done",
                          sent |-> {}, skipped |-> {}, failed |-> {}, unknown |-> {}, bought |-> FALSE,
                          stopped |-> FALSE]
  BY DEF P!ReadPlan
<1> DEFINE p == P!Plan(wallet, bps, held, Owner \ sol)
<1>5. plans' = Append(plans, p) /\ Len(plans) = hours /\ plans \in Seq(PlanRec) /\ wallet \in Nat
  BY <1>4 DEF PayInv, LedgerInv, PayTypes
<1>6. PICK payouts \in P!Ranked(held, p.payouts) :
         run' = [pc |-> "next", batches |-> P!Batches(payouts), n |-> 1, sends |-> 0, retry |-> FALSE,
                 buying |-> IF p.buyback > 0 THEN "build" ELSE "done",
                 sent |-> {}, skipped |-> {}, failed |-> {}, unknown |-> {}, bought |-> FALSE,
                 stopped |-> FALSE]
  BY <1>4
<1>7. p \in PlanRec /\ p.payouts \in SUBSET Owner
  BY <1>5, PlanIsOK DEF PlanOK, PlanRec
<1> HIDE DEF p
<1>8. plans'[hours'] = p
  BY <1>1, <1>5, <1>7
<1>9. payouts \in Seq(Owner) /\ Distinct(payouts) /\ P!ToSet(payouts) = p.payouts
  BY <1>6, <1>7, RankedNamesAll
<1> DEFINE b == P!Batches(payouts)
<1>10. b \in Seq(Seq(Owner)) /\ Apart(b) /\ Ahead(b, 1) = p.payouts
  BY <1>9, BatchesHoldAll
<1> HIDE DEF b
<1>11. /\ run' \in RunRec /\ run'.pc = "next" /\ run'.batches = b /\ run'.n = 1 /\ run'.sends = 0
       /\ run'.sent = {} /\ run'.skipped = {} /\ run'.failed = {} /\ ~run'.bought
  BY <1>6, <1>10 DEF RunRec, b
<1>12. Accounts(run)'
  <2>1. 1 \in 1..Len(b) + 1
    BY <1>10
  <2> QED BY <1>8, <1>10, <1>11, <2>1 DEF Accounts
<1>13. \A tx \in Known : tx.hour \in 1..hours
  BY TxFacts DEF PayInv, LedgerInv
<1>14. OnChain(run)'
  <2>1. \A tx \in Known' : tx.hour # hours'
    BY <1>1, <1>13
  <2>2. \A h : ~Touched(hours, h)'
    BY <1>1, <2>1 DEF Touched, Known
  <2> QED BY <1>11, <2>1, <2>2 DEF OnChain, StillDue
<1> QED BY <1>1, <1>3, <1>12, <1>14 DEF PayInv, RunInv

LEMMA PayInit == P!Init => PayInv
<1> SUFFICES ASSUME P!Init PROVE PayInv
  OBVIOUS
<1> USE DEF P!Init
<1>1. Known = {} /\ Live = {} /\ pending = {} /\ landed = {} /\ hours = 0 /\ plans = <<>>
  BY DEF Known, Live
<1>2. PayTypes
  <2>1. IsFiniteSet({}) /\ <<>> \in Seq(PlanRec) /\ Len(<<>>) = 0 /\ 1..0 = {}
    BY FS_EmptySet
  <2>2. wallet \in Nat /\ sol \subseteq Owner
    BY PayoutAssumption
  <2> QED BY <1>1, <2>1, <2>2 DEF PayTypes
<1>3. OncePaid
  BY <1>1 DEF OncePaid
<1>4. Covered
  BY <1>1, PayoutAssumption DEF Covered
<1>5. RunInv /\ ReportInv
  BY DEF RunInv, ReportInv
<1> QED BY <1>2, <1>3, <1>4, <1>5 DEF PayInv, LedgerInv

LEMMA PayStep == PayInv /\ [P!Next]_payVars => PayInv'
<1> SUFFICES ASSUME PayInv, [P!Next]_payVars PROVE PayInv'
  OBVIOUS
<1>1. CASE P!Next
  BY <1>1, BeginKeeps, SendBatchKeeps, RefusedAtKeeps, NotSentKeeps, ConfirmKeeps, TimeLimitKeeps,
     BuyKeeps, ConfirmBuyKeeps, FinishRunKeeps, CrashKeeps, LandPaysKeeps, ExpireKeeps, MoveKeeps DEF P!Next
<1>2. CASE UNCHANGED payVars
  <2>1. UNCHANGED <<wallet, sol, pending, landed, broken, run, report, hours, plans>>
    BY <1>2 DEF payVars
  <2>2. LedgerInv'
    BY <2>1, LedgerGrows DEF PayInv, LedgerInv, PayTypes
  <2>3. Live' \subseteq Live /\ landed \subseteq landed' /\ Known' \subseteq Known
    BY <2>1 DEF Live, Known
  <2> QED BY <2>1, <2>2, <2>3, ChainAlone
<1> QED BY <1>1, <1>2

\* What a holder of the plan was paid of an hour: its share if a transaction to it landed, and never twice.
LEMMA ShareOnce ==
    ASSUME PayInv, NEW n \in 1..hours, NEW h \in DOMAIN plans[n].share
    PROVE  /\ plans[n].share[h] \in Nat
           /\ P!Paid(n, h) = IF Got(n, h) THEN plans[n].share[h] ELSE 0
<1> DEFINE S == {tx \in landed : tx.hour = n /\ h \in tx.to}
           share == plans[n].share[h]
<1>1. P!Paid(n, h) = share * Cardinality(S)
  BY DEF P!Paid, P!Cardinality, Cardinality
<1>2. share \in Nat
  <2>1. plans[n].share \in UNION {[D -> Nat] : D \in SUBSET Owner}
    BY PlanFacts DEF PayInv, LedgerInv, PlanRec
  <2> QED BY <2>1
<1>3. CASE Got(n, h)
  <2>1. PICK t \in landed : t.hour = n /\ h \in t.to
    BY <1>3 DEF Got
  <2>2. S = {t}
    BY <2>1 DEF PayInv, LedgerInv, OncePaid, Live
  <2>3. Cardinality(S) = 1
    BY <2>2, FS_Singleton, Zenon
  <2> HIDE DEF S, share
  <2> QED BY <1>1, <1>2, <1>3, <2>3 DEF share
<1>4. CASE ~Got(n, h)
  <2>1. S = {}
    BY <1>4 DEF Got
  <2>2. Cardinality(S) = 0
    BY <2>1, FS_EmptySet, Zenon
  <2> HIDE DEF S, share
  <2> QED BY <1>1, <1>2, <1>4, <2>2 DEF share
<1> QED BY <1>3, <1>4

\* Who was paid of an hour was in its plan, for a share above nothing.
LEMMA InPlan ==
    ASSUME PayInv, NEW n \in 1..hours
    PROVE  /\ plans[n].payouts \subseteq DOMAIN plans[n].share
           /\ \A h \in plans[n].payouts : plans[n].share[h] > 0
           /\ \A tx \in landed : tx.hour = n => tx.to \subseteq plans[n].payouts
<1>1. PlanOK(plans[n])
  BY PlanFacts DEF PayInv, LedgerInv
<1>2. \A tx \in landed : TxOK(tx)
  BY TxFacts DEF PayInv, LedgerInv
<1> QED BY <1>1, <1>2 DEF PlanOK, TxOK

LEMMA PaidTrue == PayInv => PaidAsReported
<1> SUFFICES ASSUME PayInv PROVE PaidAsReported
  OBVIOUS
<1>1. LedgerInv /\ PayTypes /\ OncePaid /\ Covered /\ ReportInv /\ hours \in Nat /\ DOMAIN plans = 1..hours
  BY DEF PayInv, LedgerInv, PayTypes
<1>2. P!SharesExact
  <2>1. ASSUME NEW n \in 1..hours
        PROVE  /\ \A tx \in landed : tx.hour = n => tx.to \subseteq DOMAIN plans[n].share
               /\ \A h \in DOMAIN plans[n].share : P!Paid(n, h) \in {0, plans[n].share[h]}
    BY InPlan, ShareOnce
  <2>2. ASSUME NEW n \in 1..hours PROVE P!Spent(n) <= plans[n].release
    <3> DEFINE spent == P!Spends(Of(landed, n))
               due == P!Spends(Of(pending, n))
               release == plans[n].release
    <3>1. spent \in Nat /\ due \in Nat /\ spent + due <= release /\ release \in Nat
      BY <1>1, HourAddsUp
    <3> HIDE DEF spent, due, release
    <3>2. spent <= release
      BY <3>1
    <3> QED BY <3>2, SpentIs DEF spent, release
  <2> QED BY <1>1, <2>1, <2>2 DEF P!SharesExact, Covered
<1>3. P!ReportTrue
  <2> SUFFICES ASSUME report # P!NoRun PROVE P!ReportTrue
    BY DEF P!ReportTrue
  <2> DEFINE n == report.n
  <2>1. n \in 1..hours /\ report.sent \cup report.skipped \cup report.failed \subseteq plans[n].payouts
    BY <1>1 DEF ReportInv
  <2>2. plans[n].payouts \subseteq DOMAIN plans[n].share /\ \A h \in plans[n].payouts : plans[n].share[h] > 0
    BY <2>1, InPlan
  <2>3. \A h \in plans[n].payouts : P!Paid(n, h) = IF Got(n, h) THEN plans[n].share[h] ELSE 0
    BY <2>1, <2>2, ShareOnce
  <2>4. \A h \in report.sent : P!Paid(n, h) > 0
    BY <1>1, <2>1, <2>2, <2>3 DEF ReportInv
  <2>5. \A h \in report.skipped \cup report.failed :
           P!Paid(n, h) = 0 /\ \A tx \in pending : tx.hour = n => h \notin tx.to
    <3> TAKE h \in report.skipped \cup report.failed
    <3>1. ~Touched(n, h) /\ h \in plans[n].payouts
      BY <1>1, <2>1 DEF ReportInv
    <3>2. ~Got(n, h) /\ \A tx \in pending : tx.hour = n => h \notin tx.to
      BY <3>1 DEF Got, Touched, Live
    <3> QED BY <2>3, <3>1, <3>2
  <2>6. report.bought => \E tx \in landed : tx.hour = n /\ tx.n = 0
    BY <1>1 DEF ReportInv
  <2>7. ~report.stopped => plans[n].payouts = report.sent \cup report.skipped \cup report.failed
    BY <1>1 DEF ReportInv
  <2> QED BY <2>4, <2>5, <2>6, <2>7 DEF P!ReportTrue
<1> QED BY <1>2, <1>3 DEF PaidAsReported

\* Whatever the owners hold and whatever fails: the wallet keeps covering what may still be taken
\* from it, and the run under way and the report account for every holder of their hours' plans.
THEOREM PayoutsAccounted == PartsSpec => []PayInv
<1>1. PartsInit => PayInv
  BY PayInit DEF PartsInit
<1>2. PayInv /\ [PartsNext]_<<part, hourVars, payVars>> => PayInv'
  <2>1. [PartsNext]_<<part, hourVars, payVars>> => [P!Next]_payVars
    BY DEF PartsNext
  <2> QED BY <2>1, PayStep
<1> QED BY <1>1, <1>2, PTL DEF PartsSpec

\* PaidAsReported for any owners, holdings, rates, faults and hours: of an hour a holder is paid its
\* share once or not at all, the reserve is never touched, and what the site shows of a run is true.
THEOREM PayoutsStayAsReported == PartsSpec => []PaidAsReported
  BY PayoutsAccounted, PaidTrue, PTL
=============================================================================
