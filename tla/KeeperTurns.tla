---------------------------- MODULE KeeperTurns ----------------------------
(***************************************************************************)
(* What the keeper does with one coin's fees on each of its turns: it      *)
(* pulses them into the well, records the migration, burns and funds       *)
(* Fusion, beside public callers, trades that fill the curve, a pool that  *)
(* Meteora disables and a paused program.                                  *)
(*                                                                         *)
(* A turn reads the coin's account once and decides from it; the builders  *)
(* and the program read the chain again.  Elapsed times count up to the    *)
(* longest limit any guard compares them with.  Outside the model: prices  *)
(* and slippage, debts to recipients and the other books of the well       *)
(* (QuantumWell), Entanglement (KeeperEpochs, EpochClosing).               *)
(***************************************************************************)
EXTENDS Integers, FiniteSets

CONSTANTS
    RentMin, AtaRent,          \* rent-exempt minimums: an empty account, a token account
    MIN_PULSE_LAMPORTS,        \* the least the program allocates
    MIN_PULSE, MIN_BURN, MIN_FUSION,    \* the least the keeper pulses, burns, fuses
    MaxBurn,                   \* config.max_burn_lamports
    Interval, Grace,           \* config.min_action_interval, keeper_grace
    BURN_AFTER,                \* seconds the launch fees stay raised
    Hooks,                     \* [burn, fusion]: percents of the fees, the rest is paid out
    Fees,                      \* creator fees that come in at a time
    MaxFees, MaxFaults, MaxSwitches,    \* bounds: fees in all, faults, switches by operators
    None

PUBLIC_SPEND_DIVISOR == 10

VARIABLES
    hooks, own,            \* the coin's hooks; the keeper is config.keeper
    venue, enabled, shown, \* "curve", "full" or "pool"; the pool trades; its position is found
    paused,
    fees,                  \* fees in Meteora: of the curve, of the pool
    well,                  \* lamports in the well above what it reserves: rent and free ones
    reserve,               \* burn_reserve, fusion_reserve
    damm,                  \* sync recorded the pool and the position
    age,                   \* time since the last burn, Fusion deposit, sync and the launch
    pc, seen, seenVenue, tx,       \* the turn: the account and venue read, what was sent
    paid, faults, switches         \* bounds

coin   == <<hooks, own>>
market == <<venue, enabled, shown, paused, paid, switches>>
books  == <<fees, well, reserve, damm>>
turn   == <<pc, seen, seenVenue, tx, faults>>
vars   == <<coin, market, books, age, turn>>

Oldest == CHOOSE m \in {Interval, Grace + 1, BURN_AFTER} :
              \A n \in {Interval, Grace + 1, BURN_AFTER} : n <= m
Older(ages) == [k \in DOMAIN ages |-> IF ages[k] < Oldest THEN ages[k] + 1 ELSE Oldest]
Least(a, b) == IF a < b THEN a ELSE b

Init ==
    /\ hooks \in Hooks /\ own \in BOOLEAN
    /\ venue = "curve" /\ enabled = TRUE /\ shown = FALSE /\ paused = FALSE
    /\ fees = [curve |-> 0, pool |-> 0] /\ well = RentMin
    /\ reserve = [burn |-> 0, fusion |-> 0] /\ damm = FALSE
    /\ age = [burn |-> 0, fusion |-> 0, sync |-> 0, launch |-> 0]
    /\ pc = "idle" /\ seen = None /\ seenVenue = None /\ tx = None
    /\ paid = 0 /\ faults = 0 /\ switches = 0

-----------------------------------------------------------------------------
(* The coin's market.                                                      *)

\* Trades pay creator fees.
Trade ==
    /\ venue = "curve" \/ (venue = "pool" /\ enabled)
    /\ \E n \in Fees :
          /\ paid + n <= MaxFees
          /\ paid' = paid + n
          /\ fees' = IF venue = "curve" THEN [fees EXCEPT !.curve = @ + n]
                                        ELSE [fees EXCEPT !.pool = @ + n]
    /\ UNCHANGED <<coin, venue, enabled, shown, paused, switches, well, reserve, damm, age, turn>>

\* The curve fills, is migrated, and nodes show the well's position in the new pool.
Graduate ==
    /\ \/ venue = "curve" /\ venue' = "full" /\ UNCHANGED shown
       \/ venue = "full" /\ venue' = "pool" /\ UNCHANGED shown
       \/ venue = "pool" /\ ~shown /\ shown' = TRUE /\ UNCHANGED venue
    /\ UNCHANGED <<coin, enabled, paused, paid, switches, books, age, turn>>

\* set_paused, and Meteora's operators disabling a pool.
Switch ==
    /\ switches < MaxSwitches
    /\ switches' = switches + 1
    /\ \/ paused' = ~paused /\ UNCHANGED enabled
       \/ venue = "pool" /\ enabled' = ~enabled /\ UNCHANGED paused
    /\ UNCHANGED <<coin, venue, shown, paid, books, age, turn>>

\* Between turns: a turn is short beside the limits.
Pass ==
    /\ pc = "idle"
    /\ \E k \in DOMAIN age : age[k] < Oldest
    /\ age' = Older(age)
    /\ UNCHANGED <<coin, market, books, turn>>

-----------------------------------------------------------------------------
(* The program's instructions, as far as this coin's turns can tell.       *)

\* sync, with the accounts of the migrated pool.
Sync == damm' = TRUE /\ age' = [age EXCEPT !.sync = 0]

\* What a harvest brings in: the pool's fees only through the recorded position.
Harvested(recorded) == fees.curve + (IF recorded THEN fees.pool ELSE 0)

\* harvest and pulse, after a sync when the builder found a migration to record.
PulseAllowed(withSync) ==
    /\ withSync => venue = "pool"
    /\ well - RentMin + Harvested(damm \/ withSync) >= MIN_PULSE_LAMPORTS

Pulse(withSync) ==
    LET recorded  == damm \/ withSync
        allocated == well - RentMin + Harvested(recorded)
    IN /\ fees' = [curve |-> 0, pool |-> IF recorded THEN 0 ELSE fees.pool]
       /\ well' = RentMin
       /\ reserve' = [burn   |-> reserve.burn + (allocated * hooks.burn) \div 100,
                      fusion |-> reserve.fusion + (allocated * hooks.fusion) \div 100]
       /\ IF withSync /\ ~damm THEN Sync ELSE UNCHANGED <<damm, age>>

\* check_action_gate
Gate(isKeeper, lastAt, graceFrom) ==
    /\ ~paused
    /\ ~isKeeper => graceFrom > Grace
    /\ lastAt >= Interval

Cap(isKeeper) == IF isKeeper THEN MaxBurn ELSE MaxBurn \div PUBLIC_SPEND_DIVISOR

\* wrap_from_well: the well pays for the WSOL account, which is closed after every harvest and
\* spend, and then for the wrapped SOL.
CanWrap(spend) == spend + AtaRent <= well + reserve.burn + reserve.fusion

SpendAllowed(isKeeper, spend, of) ==
    /\ spend > 0 /\ spend <= of /\ spend <= Cap(isKeeper)
    /\ CanWrap(spend)

\* Where the well can buy: the recorded pool, or a curve that is not full.
CanBuy == IF damm THEN enabled ELSE venue = "curve"

BurnAllowed(isKeeper, spend) ==
    /\ Gate(isKeeper, age.burn, age.burn)
    /\ SpendAllowed(isKeeper, spend, reserve.burn)
    /\ CanBuy

FuseAllowed(isKeeper, spend) ==
    /\ damm /\ enabled
    /\ Gate(isKeeper, age.fusion, Least(age.fusion, age.sync))
    /\ SpendAllowed(isKeeper, spend, reserve.fusion)

\* A buy at the end of the curve fills it and spends only a part.
Burn(spend) ==
    /\ \/ reserve' = [reserve EXCEPT !.burn = @ - spend] /\ UNCHANGED venue
       \/ ~damm /\ venue' = "full" /\ reserve' = [reserve EXCEPT !.burn = @ - 1]
    /\ age' = [age EXCEPT !.burn = 0]

Fuse(spend) ==
    /\ reserve' = [reserve EXCEPT !.fusion = @ - spend]
    /\ age' = [age EXCEPT !.fusion = 0]

\* Anyone else, once the keeper's grace is over.
PublicSpend ==
    /\ \/ LET spend == Least(Cap(FALSE), reserve.burn)
          IN BurnAllowed(FALSE, spend) /\ Burn(spend)
       \/ LET spend == Least(Cap(FALSE), reserve.fusion)
          IN FuseAllowed(FALSE, spend) /\ Fuse(spend) /\ UNCHANGED venue
    /\ UNCHANGED <<coin, enabled, shown, paused, paid, switches, fees, well, damm, turn>>

-----------------------------------------------------------------------------
(* What the keeper sent.                                                   *)

Allowed(t) == CASE t.kind = "pulse"  -> PulseAllowed(t.sync)
                [] t.kind = "sync"   -> venue = "pool"
                [] t.kind = "burn"   -> BurnAllowed(own, t.spend)
                [] t.kind = "fusion" -> FuseAllowed(own, t.spend)

\* The turn goes on with the answer; nobody waits for what outlived its turn.
Answer(status) == tx' = IF pc = "sent" THEN [tx EXCEPT !.status = status] ELSE None

Sent == tx # None /\ tx.status = "sent"

Land ==
    /\ Sent /\ Allowed(tx)
    /\ \/ tx.kind = "pulse" /\ Pulse(tx.sync) /\ UNCHANGED venue
       \/ tx.kind = "sync" /\ (IF damm THEN UNCHANGED <<damm, age>> ELSE Sync)
          /\ UNCHANGED <<fees, well, reserve, venue>>
       \/ tx.kind = "burn" /\ Burn(tx.spend) /\ UNCHANGED <<fees, well, damm>>
       \/ tx.kind = "fusion" /\ Fuse(tx.spend) /\ UNCHANGED <<fees, well, damm, venue>>
    /\ Answer("landed")
    /\ UNCHANGED <<coin, enabled, shown, paused, paid, switches, pc, seen, seenVenue, faults>>

\* The program refuses it, or a fault loses it.
Fail ==
    /\ Sent
    /\ IF Allowed(tx) THEN faults < MaxFaults /\ faults' = faults + 1 ELSE UNCHANGED faults
    /\ Answer("failed")
    /\ UNCHANGED <<coin, market, books, age, pc, seen, seenVenue>>

-----------------------------------------------------------------------------
(* A turn of the coin.                                                     *)

\* What the turn uses of the account: the reserves, the pool, and whether the interval since the
\* last burn and Fusion deposit is over.
Account == [ reserve |-> reserve, damm |-> damm,
             due |-> [burn |-> age.burn >= Interval, fusion |-> age.fusion >= Interval] ]

Send(t) == tx' = t /\ pc' = "sent"
Skip(label) == pc' = label /\ UNCHANGED tx

\* Turns are minutes apart: what the last one sent has landed or expired.
StartTurn ==
    /\ pc = "idle" /\ tx = None
    /\ seen' = Account
    /\ pc' = "pulse"
    /\ UNCHANGED <<coin, market, books, age, seenVenue, tx, faults>>

\* findMigration, as buildPulseInstructions and buildSyncInstruction use it.
Unrecorded == ~damm /\ venue = "pool" /\ shown

PulseStep ==
    /\ pc = "pulse"
    /\ IF Harvested(damm) >= MIN_PULSE
       THEN Send([kind |-> "pulse", sync |-> Unrecorded, status |-> "sent"])
       ELSE Skip("venue")
    /\ UNCHANGED <<coin, market, books, age, seen, seenVenue, faults>>

ReadVenue ==
    /\ pc = "venue"
    /\ \/ seenVenue' = [kind |-> venue, enabled |-> enabled] /\ UNCHANGED faults
       \/ seenVenue' = None /\ faults < MaxFaults /\ faults' = faults + 1
    /\ pc' = "sync"
    /\ UNCHANGED <<coin, market, books, age, seen, tx>>

SeenKind(k) == seenVenue # None /\ seenVenue.kind = k

SyncStep ==
    /\ pc = "sync"
    /\ IF SeenKind("pool") /\ ~seen.damm /\ Unrecorded
       THEN Send([kind |-> "sync", status |-> "sent"])
       ELSE Skip("burn")
    /\ UNCHANGED <<coin, market, books, age, seen, seenVenue, faults>>

Open == SeenKind("curve") \/ (SeenKind("pool") /\ seen.damm /\ seenVenue.enabled)

\* Mutant: the keeper takes itself for config.keeper.
MaxSpendAsKeeper == MaxBurn

\* maxSpend
MaxSpend == Cap(own)

BurnWanted ==
    /\ Open
    /\ seen.reserve.burn >= MIN_BURN
    /\ seen.due.burn
    /\ SeenKind("pool") \/ age.launch >= BURN_AFTER

\* The builder refuses a full curve.
BurnStep ==
    /\ pc = "burn"
    /\ IF BurnWanted /\ (damm \/ venue = "curve")
       THEN Send([kind |-> "burn", spend |-> Least(seen.reserve.burn, MaxSpend),
                  status |-> "sent"])
       ELSE Skip("fusion")
    /\ UNCHANGED <<coin, market, books, age, seen, seenVenue, faults>>

FusionWanted ==
    /\ Open /\ SeenKind("pool") /\ seen.damm
    /\ seen.reserve.fusion >= MIN_FUSION
    /\ seen.due.fusion

FusionStep ==
    /\ pc = "fusion"
    /\ IF FusionWanted
       THEN /\ Send([kind |-> "fusion", spend |-> Least(seen.reserve.fusion, MaxSpend),
                     status |-> "sent"])
            /\ UNCHANGED <<seen, seenVenue>>
       ELSE pc' = "idle" /\ UNCHANGED tx /\ seen' = None /\ seenVenue' = None
    /\ UNCHANGED <<coin, market, books, age, faults>>

AfterTx == [pulse |-> "venue", sync |-> "burn", burn |-> "fusion", fusion |-> "idle"]

\* The answer to what was sent; a pulse or a sync that landed is followed by a new read.
Answered ==
    /\ pc = "sent" /\ tx.status # "sent"
    /\ pc' = AfterTx[tx.kind]
    /\ tx' = None
    /\ seen' = IF pc' = "idle" THEN None
               ELSE IF tx.kind \in {"pulse", "sync"} /\ tx.status = "landed" THEN Account
               ELSE seen
    /\ seenVenue' = IF pc' = "idle" THEN None ELSE seenVenue
    /\ UNCHANGED <<coin, market, books, age, faults>>

\* A failed read, the deadline or the platform ends the turn; what was sent may still land.
CutShort ==
    /\ pc # "idle"
    /\ faults < MaxFaults
    /\ faults' = faults + 1
    /\ pc' = "idle" /\ seen' = None /\ seenVenue' = None
    /\ tx' = IF Sent THEN tx ELSE None
    /\ UNCHANGED <<coin, market, books, age>>

-----------------------------------------------------------------------------

Turn == \/ StartTurn \/ PulseStep \/ ReadVenue \/ SyncStep \/ BurnStep \/ FusionStep
        \/ Answered

Next == Trade \/ Graduate \/ Switch \/ Pass \/ PublicSpend \/ Land \/ Fail \/ Turn \/ CutShort

Spec == Init /\ [][Next]_vars

\* The cron keeps giving the coin its turns (TickRounds), time passes, and what was sent lands,
\* is refused or expires.  Faults and switches are bounded; nothing is assumed of anyone else.
Fairness == WF_vars(Turn) /\ SF_vars(Pass) /\ WF_vars(Land \/ Fail)

FairSpec == Spec /\ Fairness

-----------------------------------------------------------------------------
(* Properties.                                                             *)

Kinds == {"pulse", "sync", "burn", "fusion"}

\* Every variable keeps its type.
TypeOK ==
    /\ hooks \in Hooks /\ own \in BOOLEAN /\ venue \in {"curve", "full", "pool"}
    /\ {enabled, shown, paused, damm} \subseteq BOOLEAN
    /\ fees.curve \in 0..MaxFees /\ fees.pool \in 0..MaxFees /\ well = RentMin
    /\ reserve.burn \in Nat /\ reserve.fusion \in Nat
    /\ \A k \in DOMAIN age : age[k] \in 0..Oldest
    /\ pc \in {"idle", "pulse", "venue", "sync", "burn", "fusion", "sent"}
    /\ tx = None \/ tx.kind \in Kinds

\* What waits for the keeper: fees it can harvest, a migration it can record, reserves the venue
\* and the pause let it spend.
FeesWait      == Harvested(damm) >= MIN_PULSE
MigrationWaits == Unrecorded
BurnWaits     == reserve.burn >= MIN_BURN /\ CanBuy /\ ~paused
FusionWaits   == reserve.fusion >= MIN_FUSION /\ damm /\ enabled /\ ~paused

\* Once the fees stop, everything is done at the end: whatever the keeper could pulse, record or
\* spend is, whether or not it is config.keeper, however often public callers come first, the
\* curve fills under a burn or a turn dies (runCoin) - as long as the well can pay for the WSOL
\* account beside what is to be spent.
WorkDone ==
    <>[]( /\ ~FeesWait /\ ~MigrationWaits
          /\ ~(BurnWaits /\ CanWrap(Least(reserve.burn, MaxSpend)))
          /\ ~(FusionWaits /\ CanWrap(Least(reserve.fusion, MaxSpend))) )

\* fee-modules.md: what accumulates in the coin's burn reserve is spent by the keeper, in capped
\* buys.
ReserveSpent == <>[]~BurnWaits
=============================================================================
