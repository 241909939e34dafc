# Verification of Quantum Hooks

TLA+ specifications of the Quantum Hooks launchpad: the on-chain program, the
keeper and the payout engine that drive it, the store they share and the tools
around them. Each module is translated from the source; `PROJECT.json` names
the lines every definition stands for. TLC checks small instances, TLAPS proves
the theorems for every value of the constants.

    tlc -workers 2 -config well_pulse.cfg MCWell    # a run of PROJECT.json
    tlapm QuantumWellProofs.tla                            # a module of proofs

## 1. The system

A coin is launched on a Meteora bonding curve (DBC) under a launch config and
registered with the `quantum_hooks` program. Its trading fees are harvested
into its *well*, a system-owned PDA, and `pulse` splits them by fixed rates
between treasury, creator side, burning, Fusion (liquidity) and Entanglement
(payouts by holding time). A keeper drives all of it from a cron, a web server
indexes coins and trades, and `$QUANTP` has an engine that pays its holders
every hour.

| Component | State it keeps | Operations | Talks to | Hard behaviour | What makes it correct |
|---|---|---|---|---|---|
| Program, coin ledger (`programs/.../instructions/`) | `Quantum`, the well, its WSOL account, `Epoch`s | register, harvest, pulse, burn, fuse, post / claim / cancel / close epoch, sync | Meteora by CPI; called by anyone | two callers with two paces; recipients that cannot be paid; terms of earlier configs | solvency, balanced books, epochs backed, pacing, total veto |
| Program, Time Dilation (`dilation.rs`) | the lock in `Quantum`, its token account | lock, release | SPL token | rounding, boundaries of cliff and end, strangers' tokens | never early, all of it at the end, locked once |
| Program, config (`config.rs`) with `program-ops`, `set-launch-configs` | `Config` with a version | update, pause, set launch configs | operators, multisig proposals, lagging RPC nodes | read, build and land are far apart | nobody's change is undone unseen |
| Program, venues (`sync.rs`, `meteora.rs`) | bindings of a coin to its pool and position | sync, CPI swaps, liquidity | Meteora | migration from DBC to DAMM v2 | a binding is never replaced |
| Keeper (`keeper.mjs`, `holdtime.mjs`) | in the store: holding-time header and buckets, epoch records and list, signed migrations, schedule | a lease, then per coin: sample, settle, post an epoch, pulse, burn, fuse, sync, migrate, close | program, store, RPC | dies between any two writes; a post may land after it was given up; lagging nodes; posts made elsewhere with the same key | each second of holding time is paid at most once, none is lost, an epoch can be claimed |
| Payout engine (`quantp-engine.mjs`) | last run (store, memory), claim accounts on chain | tick: look for a run, lock, read, record, claim, pay, buy back | wallet history, store, RPC | several instances on one wallet; the store may lose anything | an hour is paid by one run, each part once |
| Storage (`storage.mjs`) | Redis or a directory of files | get, set, setNx, lease and removeIf, lists, counters, media quota | everybody on the server | processes sharing a directory; clocks of two machines; expiry | one holder of a lease, exact quota |
| Coin index (`indexer.mjs`) | coin records, lists, issued URIs, daily slots, chunks of trades | register, track, forget, evict, sync, read trades | store, chain reader, API | read-modify-write over a store with locks on part of it; crashes between writes | a URI lists one coin while it is bound to it, slots are given back, a page of trades is one the index had |
| API server (`application.mjs`, `start.mjs`) | uploads, shared caches, claim slots | routes, uploads, metadata refresh, mint import, background tick | all of the above | instances that share the store; shared promises | quotas, one import per mint, bounded work |
| Limits (`request-limits.mjs`, `rpc-proxy.mjs`) | per-minute counters, local and shared | charge, flush | store | counts not yet shared | a bounded overshoot |
| `$QUANTP` ledger (`quantp.mjs`) | cached history, lists of payouts | refresh, serve | RPC, API | failed or reordered refreshes | an answer is never older than one served |
| Front end (`src/lib/txflow.js`, `launch*.js`, `trade.js`, `burn.js`, `claims.js`) | the saved launch job, transactions under way | sign, send, confirm, resume a launch | wallet, RPC, API | unknown outcomes, reloads between stages | no stage twice, a launch can always be finished |
| Operator scripts, shared encodings, pages, ad, documentation, tests | – | – | – | – | see "Not modelled" |

`PROJECT.json` lists these components with their files and, under `hazards`,
each place of the code that is hard to test, at its line.

## 2. The modules

| Module | Models | Checked through |
|---|---|---|
| `QuantumWell` (`QuantumWellProofs`) | the coin ledger of the program | `MCWell`, over `MCQuantumWell`; `MCProgram` |
| `LaunchForm` (`QuantumWellProofs`) | the rules of a coin, in the form and in the program | `MCWell` |
| `TimeDilation` over `LockState` (`ProgramProofs`) | the lock of the launcher's tokens | `MCProgram` |
| `ConfigUpdates` over `ConfigState` (`ProgramProofs`) | config changes and the tools that prepare them | `MCProgram`, `MCConfigUpdates` |
| `KeeperEpochs` implements `HoldingTime` (`KeeperEpochsProofs`) | a coin's holding time, from samples to epochs | `MCKeeper` |
| `HolderBuckets` (`KeeperEpochsProofs`) | the stored records of the holders' time | `MCKeeper` |
| `KeeperTurns` | pulse, venue, sync, burn and Fusion of a coin's turn, beside the public | `MCUpkeep`, `MCKeeperTurns` |
| `EpochClosing` | closing expired epochs behind a stored floor | `MCUpkeep` |
| `TickRounds` | ticks, their lease and cursor, migrations | `MCUpkeep` |
| `EngineHours` implements `HourlyPayout` (`EngineHoursProofs`) | the payout engine: whose hour it is | `MCEngineHours` |
| `PayoutRun` (`EngineHoursProofs`) | what one hour's run plans, sends and reports | `MCEngineHours` |
| `CoinIndex` (`CoinIndexProofs`) | records, list, issued URIs and daily slots of the coin index | `MCCoinIndex` |
| `FileLeases` (`CoinIndexProofs`) | the leases of the file store, which are the locks of the index | `MCCoinIndex` |
| `TradeHistory` (`TradeHistoryProofs`) | a coin's transactions: paging, passes, stored trades, pages served | `MCTradeHistory` |
| `LaunchJob` (`LaunchJobProofs`) | a launch from the launch page, its transactions and its registration | `MCWork` |
| `LaunchMedia` (`ServerProofs`) | artwork and documents of launches in both stores | `MCServer` |
| `RequestLimits` (`ServerProofs`) | counters behind the request limits and the RPC proxy | `MCServer` |
| `PublicReads` (`ServerProofs`) | shared reads of stored values | `MCServer`, `MCWork` |
| `QuantpLedger` (`LaunchJobProofs`) | the history of the $QUANTP wallet and its totals | `MCWork` |

`MCWell`, `MCProgram`, `MCKeeper`, `MCUpkeep`, `MCEngineHours`, `MCCoinIndex`, `MCServer`
and `MCWork` check several modules in one run: a variable `part` picks in the initial state which module's
steps a behaviour takes, and the others keep one initial state. That is sound
because those modules share no variable: a step of one can neither enable nor
disable one of another, so interleaving them would add products of states and no
behaviour of either. Where two of them do meet in the code, one module has the
other's effect written into it, and the section says so. A property of a part is
stated over that part's variables, which rest in every other.

A module's type invariant is its `TypeOK`. Those of the program's modules, of
`EngineHours` and of `LaunchJob` are proved. The other inductive invariants start with
their types (`KeeperType`, `HeaderTyped`, `LeaseType`, `MediaType`, `LimitsType`,
`ReadsType`, `PayTypes`, `StoreTypes`); what is left, of the modules about turns, is
documentation beside the properties, which TLC evaluates on the same fields.

### QuantumWell

One action is one instruction. Solana executes a transaction atomically, so an
instruction that a guard refuses is not enabled. The variables are the fields of
`Quantum` and of each `Epoch` under their own names, plus `well` and `ata` (the
lamports of the two accounts), `wallet` (what a recipient's address can hold:
nothing, something, or it is owned by a program) and `config`. `Pulse` is
`pulse.rs` whole: what is free above rent, reserves and debts; the protocol cut;
the floored shares with the remainders' places; the settlement of each recipient
in order, with the debt of one that cannot be paid. `Burn` and `Fuse` take the
spend asked for and what the curve took of it, so partial fills and WSOL that
strangers sent are there. `PostEntanglement`, `Claim`, `CloseEpoch` and
`CancelEpoch` share `entangle_owed`.

The program's checks on itself — checked subtraction, `assert_well_invariant` —
are not guards of the model. Failing one reverts the instruction and records the
error in `fault`, and `NoFault` says that never happens: nothing in the well can
get stuck behind the program's own check.

| Run | Question | Instance |
|---|---|---|
| `well_pulse`, part `ledger` | do pulses keep the well solvent and the books balanced while recipients drain, fund or deploy over their wallets? | three registrations (two splits and a launcher; two slots with one address; bps that do not add up), amounts around the pulse floor |
| `program`, part `ledger` | do burns and Fusion deposits of two kinds of callers and two epochs keep the reserves natural, paced and backed; are leaves paid once, vetoes total, never a step the program's own checks refuse? | a coin that burns and fuses, one that only burns, one that posts epochs; two claim delays, one tree adding up to more than its total |

One lamport of the model is 100 000, so that 9, 20 and 10 are the rent of a
well, the rent of a token account and the pulse floor in their real proportion:
the interesting boundaries are between them. `MaxInflow` and `MaxNow` stop the
runs after enough for two pulses, or two epochs and their expiry, so deadlock is
not checked.

Proved for every constant in `QuantumWellProofs`: `TypeCorrect` (no balance or debt
goes negative), `WellStaysSolvent`, `BooksAlwaysBalance`, `DebtsArePaidWhole`,
`VetoStaysTotal`. Solvency is not inductive by itself: a pulse of an unregistered
coin, a claim above its epoch's total or a WSOL balance unwrapped twice would break
it. The inductive invariant is `IInv` = `TypeOK` ∧ `HooksValid` (a registration that
passed `register`) ∧ `NothingReservedYet` (before one) ∧ `Solvent` ∧ `BooksBalance` ∧
`WellCheckNeverFails`; what a pulse needs is the lemma that floored shares never add
up to more than the whole. The veto has an invariant of its own, `VetoIsTotal` ∧
`NothingClaimedYet`: an epoch cannot be claimed while it can still be cancelled.

Its second half goes on from there. `EpochsStayExact`: `entangle_owed` is the sum of
what the open epochs have left, and each has paid the leaves its bitmap marks. The sums
are a recursive function; that the prover cannot do induction over a formula is met by
inducting over *sets* of numbers (`SetInduction`, from the well-foundedness of the
naturals), which gives what `SumTo` does when one member changes (`SumToChanges`) and when one is
added. `NothingFails` follows from it and from `IInv`: what a claim or a close takes off
`entangle_owed` was there. `PaceIsKept` counts to the last burn, Fusion deposit or post
instead of to now (`PaceInv`): up to it, the coin spent one cap of the largest config per
shortest interval at most. A config that waives the interval promises no pace, so the spends
are compared only while no config does (`ShortestGap > 0`). Burns and Fusion deposits are
paced apart: a coin with both may spend one cap of each in an interval. Assumed of the
constants: among the configs one has the largest cap (a u64), and `MIN_EPOCH_INTERVAL`
is positive.

The rent of the WSOL account comes out of the well's free lamports, and those are
less than a pulse floor plus the rent minimum. So a coin with nothing but a burn
reserve cannot spend all of it at once when the account is missing: `CanWrap`
then holds only for a smaller spend.

### TimeDilation

`Register` commits (or not) to lock terms; `Lock` moves the launcher's tokens in
under exactly those terms; `Release` pays what has vested, rounded down. `Trade`
moves the launcher's other tokens, `Give` sends tokens to the lock's account. The
run `program`, part `lock`, checks all of it with `LockTerms` on both sides of every
boundary (negative cliff, cliff = duration, the longest duration). It may stop —
everything released at the last tick — so deadlock is not checked.

Proved for every supply, terms and clock: `NothingEarly`, `VaultExact`, `OneLock`,
`AllReleasableAtEnd`, `LockTypeCorrect` (in `ProgramProofs`). The inductive invariant `LockInv` adds to
them that a lock which exists has valid terms, and that nothing is released or
locked before. `NothingEarly` compares products instead of quotients; its step
for `Release` rests on the lemma that flooring never rounds up. `AsCommitted` and
`LockedOnce` are part of the argument only: no run lists them. Assumed: the mints have no transfer fee (Meteora's launch mints
have none) and the cluster's clock never goes back.

### ConfigUpdates

Operators read the config, build an instruction from it and from a second read,
and send it or pass it on; it lands when it lands, or never. `past` is every
content the config has had, because a node that is behind may serve any of them.
`program`, part `config`, lets second reads be only as old as the first (`NodesLag =
FALSE`) and shows that an update changes exactly what was asked for.
`config_lagging` allows older ones and finds a **violation**: the version pinned
is the first read's, the fields filled in are the second's, so another operator's
change is undone although the version check passed.

Proved: `NothingBetween` (`LandsOnShown`, however reads lag),
`NothingUndoneWithoutLag`, `ConfigTypeCorrect` (in `ProgramProofs`), from `UpdateInv` (a version is a
position in `past`; what is pending was built from what was there). Two changes
and one pending instruction are enough for every race of two operators, since a
landing only looks at the current config. A field's value is abstract and valid;
program-ops' simulation only holds instructions back and is left out.

### KeeperEpochs and HoldingTime

A second of holding time is a number; a window, and the root of the tree built
from it, is the set of the seconds it pays. One action is the code between two
writes or two reads that can be answered differently: `SamplePass`, the reads
and decisions of `reconcile`, `TendWindow` (`cutStatus`, `windowFor`), then
`Window`, `Cut`, `Record`, `List`, `Broadcast`, `Confirmed`, `MarkPosted`,
`Finalize`, `Watch`. `Crash` stops the tick between any two. The chain has an
epoch posted elsewhere with the same key (`ForeignPost`), a veto, a node that
does not show the newest epoch yet (`seen`), and posts that land late or expire.

| Run | Question |
|---|---|
| `keeper_pays_once` | with crashes, failing reads, epochs posted elsewhere and vetoes: is each second paid by one standing epoch (it implements `HoldingTime`), each of the keeper's epochs claimable, and — while only this keeper posts — no second lost? Does a cut window always settle, so that sampling goes on? (`CutSettles`, liveness) |

Bounds: two epochs and two seconds give a window before, in and after a post, and
a second epoch that takes the index of the first;  `MaxFaults` is how many crashes and failed reads are
met in one behaviour. Times are abstracted to what the code compares: a record is
`old` when `DROP_MARGIN` blocks or `CANCEL_MIN_AGE` have passed.

Assumed, because the code's margins say so: one keeper process at a time (its
lease, 240 s, outlives the platform's function limit); a node is never behind by
more than the margins; the keeper is not down for `EPOCH_TTL` (30 days); the two
writes that delete a record and its entry in the list are one step. Fairness: the
cron ticks again (`WF(Tick)`), a sent post lands or expires, nodes catch up and
time passes (`SF(Day)`, `SF(Age)`: both are interrupted by posts), and a stale
record met again and again is dropped (`SF(DropStale)`: the tick may give up
elsewhere first). Nothing is assumed of samples or posts. Not lost is not the
same as paid: with foreign epochs a pending record whose index the chain has
passed counts as posted and its window is given up, never paid twice —
`NothingLost` is about behaviours without them.

Proved in `KeeperEpochsProofs`, for any number of seconds, epochs, faults, foreign
epochs and vetoes, from `KeeperAssumption` (the bounds are numbers, a window to cut
has a second) and `NoneAssumption` (none is nothing else): `LandedAlwaysServed`,
`NothingIsLost`, and `KeeperKeepsPromise`, that every step is a step of `HoldingTime` or
none of it. "A second is paid once" is not inductive: it is broken by a window that is
still pending, by a record deleted while its transaction is in the network, or by a header
that names seconds an epoch already paid. `KeeperInv` says why none of these is
reached: a post that may still land has its record, young and its own, and pays what no
standing epoch pays (`LiveKept`); a record says posted only of its own epoch, and an old one's
epoch is shown by every node (`RecordsTrue`); an old record at the index a tick is about to
take is of no standing epoch (`NextIsFree`); what the tick is about to post is the header's
cut (`Posting`); standing epochs are disjoint (`EpochsDisjoint`); and the header's window
holds what no epoch pays, or what its own cut pays (`HeaderTrue`). That a cut settles stays with TLC: it is liveness.

### HolderBuckets

What `KeeperEpochs` takes as "the seconds of a window" is kept per holder, balance ×
seconds, in buckets of two slots (`holdtime.mjs`). `Sample` writes the buckets whose balances changed
to the slot the header does not point at, one after the other, and then the header; it may
stop between any two, a bucket may be lost, and a bucket too full is split. `earned` adds up
at every sample what the records stand for. `WeightsEarned`: an epoch weighs each wallet by
what it earned, never more, and less only after its record was lost or gave way to larger
ones; and the records keep their bounds. Four wallets and a pool's vault in two buckets - three
wallets meet in one, which holds two - and three samples are what it takes for a
stopped sample, the one after it, and one that reads both.

`WeightsStayEarned` (`KeeperEpochsProofs`, second half) proves it for any owners, hashes,
holdings, gaps, bounds and numbers of samples, losses and windows, from
`HoldersAssumption`: the owners are finite in number and have different addresses,
balances and bounds are natural numbers, a bucket is meant to hold a record. The weights alone
are not inductive, because a sample trusts what it does not read. `HoldersInv` says what it
may trust: a record has the balance its bucket's digest was taken of, and a balance in the
digest that no record has was lost (`RecsTrue`); a record's balance is the wallet's at the last sample, and
its weight what the wallet earned, either less only while the wallet's gap says so
(`WalletTrue`); and a bucket holds no more than its count (`BucketsTrue`), which is why
the sum of the counts bounds the records of buckets nobody reads. The steps, in the
order of the code: a bucket left unread has the digest of the balances found, so its records
stay true (`NotedIsHeld`); a record that is read weighs what it did and the lesser balance for
the step (`AfterWeighs`, from `TouchWeighs`); of n ranked records the lowest k leave n - k
(`RanksCount`, `LowestLeaves`), so pruning keeps the bounds; and what the store then shows under the new
header is what was just written or was not touched (`LiveOut`). A sample that stops has
written only slots the header does not point at, so every live bucket is as it was
(`FailStep`, `SameLives`); a loss opens the gaps it makes (`LostKeeps`). The counts
are a fold of the library, worked out by induction over a set of naturals (`SumsExist`,
`CountedCovers`).

### KeeperTurns

One coin's turns of the keeper outside Entanglement. `StartTurn` reads the
account once (`seen`); `PulseStep`, `ReadVenue`, `SyncStep`, `BurnStep` and
`FusionStep` decide from it and build a transaction from a second read, which
`Land` checks against the chain by the program's own guards and `Fail` loses. A
confirmation that is given up because of RPC errors ends the turn (`CutShort`).
Beside it: trades that pay fees and fill the curve, Meteora's migration, an
operator who disables the pool or pauses the program, and public callers who pulse,
sync, burn and fuse whenever the program lets them.

`keeper_upkeep` shows `WorkDone`: under fair turns the coin is again and
again without fees worth a pulse, an unrecorded migration, or a reserve that both
the keeper's minimum and the program's cap allow to spend. It excludes the case that
`burn_waits` is about, a **violation**: when the burn reserve is below the cap the
keeper asks for all of it, the well of a coin that only burns has less beside it
than the rent of the WSOL account, and the burn is refused on every turn
(`ReserveSpent`). Once trades fill the reserve past the cap it comes through.

A lamport of the model is about a million; the two rents keep their proportion,
and 20 is what the keeper pulses at least. Ages count up to the longest limit a guard
compares them with. Assumed: a turn is short beside those limits, the pool's creator
is the well (`register` sees to it), nobody donates to the well. Fairness: turns go on
(`TickRounds`), what is sent lands or fails, time passes (`SF`: turns may keep
resetting an age). Pauses and disabled pools are finite in number, so they end or stay;
while one stays nothing is asked for.

### EpochClosing

`closeExpired` of one coin: the floor read from the store, the scan of epoch
accounts in chunks, for each index what the account and its record say, the close
transaction, the mark, the new floor. A scan may be late or die at any await, a close
may fail or land unseen, nodes may not show a fresh epoch, others cancel and close.
`AllClosed`: every epoch past its expiry is closed in the end and its leaves are
forgotten. Two epochs in chunks of one are what a floor needs to pass over one of
them wrongly. Assumed: no node is 30 days behind; a scan is short beside an expiry.

### TickRounds

`tick` for all coins: the lease, the migrations of full curves, and then turns
from where the cursor stopped, which is written *before* each turn. A tick may be
killed by a coin whose turn outlives the platform's limit (`Slow`: always), two
overlap when one outlives its lease, coins are listed and dropped between. `CoinsServed`:
every coin that stays listed keeps having turns, and a full curve is migrated. One
slow coin out of three, budgets of two turns and of one migration, so that the slow
coin meets every position. Fairness: the cron ticks, a tick goes on or dies, its
lease expires, the index is synced.

### EngineHours and HourlyPayout

Instances of the server tick the engine on one wallet. `Start` … `RecordRun`
are a tick's witnesses, cheapest first: the store's record, the instance's own
memory, the wallet's history, the lock. `SendClaim`, `PayPart` send what the hour
allows, `Finish` and `Crash` leave the rest. The store may answer nothing at any
read (a lost write looks the same), the lock may be got by everybody (a store
that is down is ignored), a node may miss any transaction, and what was sent lands
until its blockhash expires.

`engine_hours` (three hours, three runs, two instances) shows that an hour is
paid by one run only: the claim's account, created in the transaction everything
waits for, is what decides, and taking back the rent of old accounts never
reopens an hour. It also shows that an hour is held off only by a run of its own.
The engine is shown to implement `HourlyPayout` (`KeepsPromise`): at most one
run pays an hour and no part of it is paid twice. Parts do not interact, so one is
enough.

Both are proved in `EngineHoursProofs`, for any number of instances, runs and hours,
whatever the store, the lock and the nodes answer (`HoursHeldOffByThemselves`,
`EngineKeepsPromise`, `TypeCorrect`), from `EngineAssumption` alone. `EngineInv` is the
argument in pieces: nobody works on an hour to come (`Timely`); what claims, pays or has
paid is a run that recorded its hour (`Begun`); a claim in the network expires before its
account may be taken back (`Expiring`), and only accounts of hours that old are
(`ReclaimsOld`), so the account of a claimed hour stays while a claim of that hour may
still land (`AccountStays`); runs have numbers of their own (`Numbered`), and a part in
the network has its claim and is the only one of its run (`PaidOnce`).

An hour is one unit of the clock and a blockhash lives for one unit — far longer
than it does, which only adds behaviours. Assumed: the instances' clocks agree;
`BLOCKHASH ≤ (RECLAIM_FROM − 1) · HOUR` (an `ASSUME`: about a minute against an
hour); no confirmed transaction is dropped by a fork; only the engine uses the
wallet. No liveness is claimed: the code promises at most once, and a missed hour
is a smaller release later.

### PayoutRun

The inside of one run, in amounts. `ReadPlan` is `read` and `planRun`: eligible
holders, ranks, the rate by market cap, the release bounded by reserve and
maximum, the holders' slices with the minimum transfer, the buyback's rest.
`SendBatch` … `NextBatch` is `execute`/`payBatch`: a batch refused at one
transfer is sent anew without it, one that is not confirmed is never signed
again; `Buy` and `ConfirmBuy` run beside. Sent transactions land, fail or expire
later than the run thinks, also into the next hour's.

`engine_hours` (second part) shows `PaidAsReported`: `SharesExact`, every holder has got
exactly its planned share once or nothing, over all that landed of two hours, and
`ReportTrue`, the report's figures of paid, failed and unconfirmed are what became of
them. Three
wallets and a pool's vault, transfers two to a transaction: the third wallet's share is below
the minimum in the second hour, unless the first hour's payments did not land or income came
in (then the cap on a run binds), and the second's below the rent exemption when its wallet
is emptied.
Fees and the claim's rent come from the reserve; a blockhash expires before the hour
after next; forks are not modelled. The bounds stop the runs, so deadlock is not
checked.

`PayoutsStayAsReported` proves it (in `EngineHoursProofs`, with the sums, the orders and the
batches worked out in lemmas of their own) for any owners, holdings, rates, faults, hours
and batch sizes, from `PayoutAssumption`: the wallet starts with its reserve, and no tier
releases more than a quarter of what is free (the highest a twelfth). The quarter is what
the reserve rests on, for a plan is read while the hour before may still land. `PayInv`
(`PayoutsAccounted`) is the induction, in three parts. `LedgerInv`: above the reserve
(`Covered`) the wallet holds twice what this hour's run has not spent and what is under way
of the hour before — releasing a quarter keeps this true at the next plan — and no holder is
in two live transactions of one hour (`OncePaid`). `RunInv`: the run's sets and the batches
ahead of it make up the plan (`Accounts`), and whoever was skipped or failed, or is still to
be paid, is in no live transaction of the hour (`OnChain`); so a batch sent anew can never
pay anybody twice. `ReportInv`: what the report says, said of the chain; the runs after it
send only for later hours. The rest is arithmetic: shares rounded down come to no more than
the pot (`SharesWithinPot`), and the transactions of an hour, sharing no recipient, to no
more than the shares (`PaymentsAddUp`).

### CoinIndex

A worker is one operation on one coin - a registration, a visit, a sync - and its
`pc` is where it awaits. `issued`, `claim`, `slots`, `admit` … `write`, `consume`,
`list` are the steps of `registerLaunch`, with `track` and `syncHeld` sharing them;
`Evict`/`Unlist` and `Forget`/`Delete` are the two ways a record goes. A section
under a lock is one action unless it reads what another lock covers
(`saveSummary`, `forget`), which is two. A worker may die anywhere and one write
may be answered with an error, applied or not. The history variables `made`,
`byUri`, `lapsed` and `dropped` remember what the store forgets.

A metadata URI is content-addressed, so `/api/metadata` may issue it again: `CheckUri` finds it
unbound and `IssueUri` records it, for a day (`IssueExpires`). A binding to a coin lasts
`CLAIM_TTL_MS`, 30 days, and then lapses (`ClaimLapses`). Assumed: what was issued or checked
before a binding is gone by then (a day, a request), while a registration that read
the binding just before may still be at work.

`index_races` (two coins created with one URI, one of them a Quantum coin; two
workers, three operations, caps and allowance of one, two transactions a coin, two
days, one fault) shows that a URI lists one coin as long as it is bound to it, that no sync or visit turns
a launch into something else, that only stale launches are deleted, that a launch
nobody works on is listed as one, and that the allowance is passed only by lost
answers. One coin at each cap is enough to make every admission evict or
drop; two workers because every race here is between two operations on one coin
or between one and the list. The operations are checked with the time of the launchers and of the
chain (part `index`) and again with that of the URIs (part `uris`: issues, their
expiry, and `MaxLapses`, one lapse of the binding, so the URI is bound twice, to two coins or to one). The
runs stop after their three operations, so deadlock is not checked.

`UriListsOneCoin` is stated per binding because the code's promise has a term the comments leave
out: "so one issued URI lists one coin even when /api/metadata issues it again"
(`indexer.mjs:93-95`) holds for 30 days. After that the same fields give the same URI once
more, and the model reaches the state in which it has listed both coins, one under each binding.

All four are proved in `CoinIndexProofs`, for any number of workers, coins, URIs, crashes and lost
answers, from `IndexAssumption` and `NoneAssumption`. `IndexInv` has a part for each and what they
share, a worker's place (`Fits`). A registration that may still store its coin is of a verified
Quantum coin or has its URI bound, or had when it read the binding (`Bound`), and a coin listed by
a URI is the one the binding it was listed under was to, the claim of now or one that lapsed
(`UrisKept`, `Owner`). A day's launches *and* the slots held by
workers that have not stored theirs are no more than the slots taken and the answers lost
(`SlotsKept`): without the second, giving a slot back would break it. What `delete` is about to
remove is no launch, although the list says nothing of it any more: the coin's lock keeps
registrations out. And a launch is in the list or some worker is on its way to list it,
while none that would list it as external is (`LaunchesServed`, with `OneLists`, the list's
lock) - a fault ends that promise, so the part is about behaviours without one.

`index_dropped` asks that what a record claims as read is stored, and fails: a sync that began before its
coin fell out at the external cap writes its old cursor over the record of the
next visit. The trades between are deleted and never read again, though the
record says it has them.

Locks are taken to outlive their sections (5 s against sections of a few store
calls). Prices, notices of launches, the DAMM v2 pool's own cursor are not
modelled; the transactions of a coin are numbers here, and how they are paged
through is `TradeHistory`.

### FileLeases

Every lock above is a lease of the store. `FileLeases` is the file store's
(`storage.mjs:383-425, 513-518`): a key is a file, taken by a link that fails when it
exists, and removed by moving it aside, comparing, and linking it back if it was not the
one meant. `Ask`, `Link`, `Look`, `MoveAside`, `Match` are the steps between which another
process can come; within a process the calls on a key are serialized. Leases expire, a process may stop
anywhere. `OneHolder` (run `index_races`, part `leases`: three callers in two processes,
three leases): one caller at most holds a live lease, unless a live one was moved aside
and not put back - `lost`: a third caller linked its own first, it was put back after it had
expired, or the process stopped between. The code accepts those; the property is that nothing
else breaks the lock.

Proved for any callers, processes and leases (`OneHolderAlways`): `LeaseInv` says that a live
lease is in the file, or in the hands of the one call that moved it aside (`OnFile`, `InAir`),
that a lease has one caller (`Held`), and that one still tried for is nowhere yet
(`Untaken`). The proof is the last part of `CoinIndexProofs`.

### TradeHistory

The passes over one coin's DBC pool. `chain` is the pool's transactions (a number
each; `TRUE` when it succeeded), `shown` how many of them every node shows.
`record` holds the fields of `coin:<mint>` a pass works from: the cursor, the
anchor of a gap (`gaps`), where the history starts (`historyFrom`), whether it is
behind, and the tally of the day. `head` and `chunk` are the index
`trades:<mint>` and its chunks. A pass is `BeginPass`; the requests of
`pendingSignatures` (`ReadFirst` of a visitor's coin, `ReadSignatures` of a gap);
`ReadTransactions` (`fetchTransactions`, up to the first one a node does not show);
`Merge` (`mergeTrades` and the chunks of `saveTrades`), `WriteIndex`,
`DeleteReplaced`, `WriteRecord`. It may die between any two (`Crash`). A visitor's
page is `Ask`, `ReadIndex`, one `ReadChunk` per chunk and `Answer`, beside the pass
and without its lock.

`trades_read` (pages of two signatures, two requests and one transaction a pass,
four transactions, a cap of three trades in chunks of two, one fault) shows that
what a record claims as read is stored or older than a full list, that a page is
a cut of one list though chunks are replaced under it, and that once the traffic
pauses everything is read. Four
signatures against two requests of two are the shortest backlog that a pass pages
to its limit; a cap of three over chunks of two trims a chunk in the middle; pages of two
from the top and from the second trade on cross two chunks.

Fairness: passes go on (every visit and the background tick start one, and the
lease of a pass that died expires), and every node shows every transaction in the
end. It is stated as infinitely many steps of a pass without a fault; some step
of one is always enabled.

`TallyComplete` states what `indexer.mjs:1333` says of the tally. No run checks it and
it does not hold: a pass that dies after the index of trades and before the record
leaves trades that the next pass finds stored, and never tallies.

Proved for every traffic, page size, cap, number of faults and set of queries, from
`HistoryAssumption` alone: `HistoryStaysAsClaimed` and `PagesAreCut`. `StoreInv` is the inductive
invariant of the first: the stored list is well formed (chunks under numbers below
`head.next`, counted as they are, newest first, capped) and covers what the record claims;
and a pass knows at each step what it still owes: a gap it pages lies above its cursor (`Scanning`),
what it will read holds every success from its cursor to the window's end (`Reading`), what it has read
is in `fresh` or in the list (`Merging`), and between the chunks and the index the *new* list
covers the old claim as well as the new one (`Writing`), so that a crash on either side leaves a true
record. `LayoutIs` shows that the chunks laid out are the merged list again, `TopIs` and
`CoveredStays` that cutting it at the cap drops only what a full list need not hold. `PageInv` adds
the visitor: what a page has and what is still to be read of it are together the
page of the list its index named, whichever of its chunks are still there. It is kept because no
pass writes a number the index may have named before (`RowsStay`, the reason for `head.next`). `StoreInv` also holds as an
invariant of `trades_read`; the lists that `PageInv` says exist are more than TLC can enumerate.
Windows and what is fresh are sets, and `Held` a recursive function, for the provers' sake: their
order is put back where the code needs it (`Ascending`). Not proved, and checked by no property: that
every chunk but the newest is full.

Not modelled: sides and prices of trades, candles, lists stored as one array or
with a lost chunk, the DAMM v2 pool's cursor, nodes that do not show what was
already read.

### LaunchJob

One launch of one mint. `page` is the launch page: `pc` is the `await` its attempt
is at, `todo` the transactions of the pass, `conf` what of them was confirmed,
`again` whether a failure offers to finish. `job` and `store` are the page's job
and the copy in the browser's storage; `reg` is a registration in flight, which
outlives an attempt (`registerOnce`). `tx` is every signed transaction with what
became of it: `signed` (the node may not have it), `live` (it may land),
`landed`, `failed`, `expired`; `seen` says whether the nodes show it yet, so
`View` is the chain as the page reads it. `times` counts what really happened.

The actions of `Attempt` are the sections of `launch()` between two awaits:
`Start` or `Finish`, `ReadPending` and `ReadProgress` (`reconcileLaunch`),
`CheckOpen`, `Build` / `BuiltAll` (the loop over passes), and for each transaction
`Check` (simulation), `Sign`, `Send*`, `Confirmed` / `NotConfirmed`. The packer of
`txflow.js` may join neighbouring groups or not: `Packings` gives every cut. A
fault is a call without an answer (done or not), a refusal, a transaction that
expires, a wrong "expired" from a node that is behind, or a pause of the program.
`Leave` is a reload at any step, or discarding the launch.

`work_settles`, part `launch` (a standard launch, a Quantum launch without dev buy and one of
all four stages; three transactions that still matter, three passes as in the
code, two tries of a registration, two faults) shows that no stage happens twice
or out of order, that neither page nor storage claims what did not land, that a
live launch is listed or still remembered, that a launch known to have begun can
be finished and a created coin gets listed (`Finishes`). Two faults are what it takes
for an unknown outcome and a second failure while it is still open; three
transactions let one be pending while two of a new attempt are under way. The
system stops when the launch is live and listed, so deadlock is not checked.

`StagesOnce` and `SaysWhatLanded` are proved in `LaunchJobProofs` (`NoStageTwice`,
`ClaimsAreTrue`), for any set of plans, any number of transactions, passes, tries and
faults. `StagesOnce` does not follow from what the chain checks alone: a dev buy could be
executed twice. It cannot because it never travels without its coin, and that is
`LaunchInv`: what is signed, confirmed, recorded or saved is `Whole` (the create with its dev
buy, or neither), so the branch of `remainingLaunchGroups` that buys alone is never taken.
Then, what a transaction that landed carried has landed, as has what the page saw of it
(`SeenTrue`), and a job with something done is saved until the server lists the coin
(`Remembered`), which is why a launch that goes live unlisted is still registered later.
The packer is proved to leave no transaction empty and no group out of its place
(`EveryPlaceTaken`). Assumed: `LaunchAssumption`, a plan has a launch, and a lock needs
registration and a buy.

Liveness assumes what the code waits for: what is in the network lands or expires
and is shown by every node, a pause ends, requests are answered, and the launcher
approves in the wallet, presses "Finish the remaining steps" and opens the coin's
page. Faults are finite; nobody has to leave.

`Finishes` asks for a stage that is *known* to have landed. It would not hold from
"some stage landed": finishing forgets a pending transaction that may still land
(`launchPlan.js`, `reconcileJob`), and when it lands before its successor is
simulated, that attempt fails with nothing recorded and nothing to finish.

### LaunchForm

The rules of a coin are written down four times: by the sliders that keep the four
shares at 100 % (`setAllocation`, hooks.js), by the form's `validate`
(LaunchPage.jsx), by `validateHooks` (shared/quantum.mjs) before anything is
published, and by `register` and `lock` in the program. `draft` is the form, with a
share of four quarters and days of which one is the longest lock; `launch` says how
far the launch of it came. `NothingStranded`: whatever was typed, in any order, what
the first three let pass the fourth accepts to the last transaction. `SharesWhole`:
from every allocation the sliders can reach, every slider can be put anywhere and
keeps its value, the others stay at or above nothing, and the whole stays whole.

`well_pulse`, part `form`, checks both (`FormAccepted`), with two splits, two wallets and a
reserved key, shares of 0, 1 and 3 quarters, and cliffs and durations below, at and
above the longest lock. The well's and the coin's own address as a split wallet are
outside: they come from the mint, which exists only after the form was checked.

`FormAccepted` is proved in `QuantumWellProofs` (`FormStaysAccepted`) for any shares, splits,
presets and limits. Two facts carry it. The sliders: from a whole allocation `setAllocation`
returns a whole one and nothing below zero (`SlidersKeepWhole`), because what is cut from the
others is exactly what the moved one is over (`CutIs`); it follows that an allocation never
leaves the whole while it is edited (`EditsKeep`). And the hand-over: what a submitted launch
holds satisfies `validateHooks`, so `register` accepts it (`ValidRegisters`), and its lock's
amount is a positive part of what the dev buy got, so `lock` accepts it (`ValidLocks`). The
second needs `FormAssumption`: what a dev buy gets, times the smallest share that can be
locked, is at least one unit (a buy of one lamport gets over a hundred units, the form locks
one percent or more); with less the amount would round to zero and the launch would go
through without the lock its creator asked for, which the model counts as stranded.

### LaunchMedia

"Both expose the same interface so application code has one path"
(`storage.mjs:3`): `redis` and `file` are the two stores, and every call of the application is
made on both. `RedisPut`/`FilePut`, `RedisPromote`/`FilePromote` are `putMedia` and
`promoteMedia` whole: existing blobs, the expiry of pending uploads, the byte quota, the
sweep. The actions above them are the upload and metadata routes (`Upload`,
`BeginIssue` … `IssueDoc`, pinned or not), the notice that keeps a launch's media
(`BeginKeep`, `KeepArt`, `KeepDoc`), and restarts of the file store.

`server_requests`, part `media`: both stores answer alike and serve the same
blobs although one frees space by expiry and the other by sweeping (`OnePath`); the
byte counters equal what is stored, also after restarts (`QuotaExact`; the two are checked as `StoresTrue`); a document that
is permanent has its artwork permanent too (`KeptWhole`). Two documents share an
artwork and a second one fills the quota. Assumed: a unit of time is hours, so none
passes between two puts or promotions of one request; nothing is stored without
lifetime but by promotion; one process uses the file store.

Proved in `ServerProofs` (`StoresStayTrue`, `MediaStaysWhole`) for any documents, artworks, sizes
and quota, from `MediaAssumption`. `MediaInv` relates the two stores: a blob that one keeps for good
the other keeps for good, and a live upload expires in both at once (`Agree`) - what has
expired one may still know of, and that is where they differ; each counter is the sum
of its own blobs (`RedisOK`, `FileOK`), so the room left over is the same once both have
forgotten what expired. `Covered` is what `KeptWhole` needs: a document that is served has
its artwork at least as long, and one being issued or promoted has it already - the
order of the calls in the routes.

### RequestLimits

One minute of `createLimiter` over two instances and the store, with the two
charges of `rpc-proxy.mjs`. Counts are sent in batches whose answers come out of
order, may fail, or may be applied and fail. The total an answer is compared with is the one
known when the command was sent (`had`: `entry.total` is read before the `await`), so an
older answer that comes last lowers the total. `MaxLarge` bounds how many answers are
large enough to be charged again. `RefusalsEarned`: a visitor is refused only when its own or
its prefix's bucket, or everybody's, was really charged past its limit, or was counted
twice by a lost answer. It says nothing of the other direction: what is in flight and what a late
answer lowered is not counted, and more may be let through than the comment in
`request-limits.mjs:122-126` says. Buckets of different minutes share nothing.

Proved for any visitors, prefixes, instances, requests, costs and limits
(`RefusalsStayEarned`, with `PublicReads`' half, from `LimitsAssumption`): `LimitsInv` counts
every charge where it is - in the store, unsent in an instance, or in a request's command
without answer (`Counts`) - and nobody was told of more than the store holds (`Heard`): totals
may go down when answers come out of order, but each is one the store once had.

### PublicReads

`sharedGet`/`startValue` of `application.mjs`: requests of several visitors join one
store read whose starter may be refused. A refusal stays its visitor's
(`RefusalsEarned`), a key read again in one request is really read again
(`RecheckIsNew`), and every request ends (`AllEnd`, in `work_settles`). Two requests
and one key with room for one entry are enough for a join, a replaced entry and a
sweep. The fairness of `AllEnd`: a read that was started is answered or fails, and a
request that can go on does.

Proved for any requests, keys, lifetime and size of the map (`RechecksStayNew`, and its
half of `RefusalsStayEarned`; `ReadsAssumption`): in `ReadsInv` a read goes by the answer about the
request that started it, which is charged once (`PaidFor`), and a request that asks after a
value waits for a read of its own, begun since (`Owed`).

### QuantpLedger

The history of one wallet listed by pages from the newest backwards and read in
parts (`createQuantpLedger`), while new transactions land. All wallets are listed at once
(`quantp.mjs:888`): a load also ends when another wallet's call fails, after this wallet's
listing (`ListFails` of a load that has read nothing) or before it, and then the listing is left behind and
goes on (`stray`, `StrayPage`), beside the next load. Transactions that failed on
chain, which the listing drops, are not in the histories.

A listing writes its ranges whole (`quantp.mjs:880`). When one is left behind and the next load's
overlaps it, the one that ends last knows nothing of the gap the other may have left, and writes its own
ranges over it: that gap is never listed again, although `quantp.mjs:808-811` says "no signature is ever
skipped". It takes a call that outlives the 30 s before the next load. The history variable `overwritten` is set
when this happens (`overtaken` says which listing would do it), and both properties are
stated until then and say nothing afterwards: `FiguresTrue`, that a summary holds at most what has landed
and, complete up to a time, all that had landed by then; `CaughtUp`, that everything but dust
is read once nothing lands any more. Loads that another wallet's call ends, and listings left behind
that end before the next load begins, that fail, or that never end, are within them. Without the condition
both are false of the model.

In `work_settles` pages of one and one page per listing make every new transaction a cut; of four
transactions two are there when the first listing begins, so ranges and gaps of
both kinds occur. One history has dust, which is never read, and one has none, since only then
the lists ever become complete. `failed` is counted up to `READ_TRIES` (2), more than the calls
that may fail for a transaction that can be read (`MaxListFaults`, 1), so it never ties with the dust. Fairness:
some step of a load happens again and again (visitors and the cache's age start
them); a listing left behind need not go on.

`FiguresStayTrue` (`LaunchJobProofs`, second half) proves the figures for every history and
all limits of pages and reads, from `LedgerAssumption`, until `overwritten`.
`LedgerInv`: a listing of the tip has everything above the floor it has reached (`ListsOn`), under way
(`ListingTrue`) or left behind (`StrayTrue`), unless it is overtaken;
below the newest place every transaction is listed or in a range still to be listed, and
no step that cuts, closes or joins ranges forgets one (`WalletTrue`, `Reads`); what is read
was listed. A figure is a sum over places, and sums grow with the places (`SumsGrow`): what
is summed lies between what had landed when the load began and what has landed.

## 3. The plan

In order of importance, each module with its proofs where they pay:

1. `QuantumWell`, `TimeDilation`, `ConfigUpdates`: the program. Done, proved.
2. `KeeperEpochs`, `EngineHours`: who is paid what, once. Done, proved, liveness aside.
3. `CoinIndex` and the locks it stands on (`FileLeases`): which coins are launches. Done, proved.
4. `TradeHistory`: what of a coin's transactions is read, stored and served. Done, proved,
   liveness aside.
5. `LaunchJob`: a launch of several transactions with unknown outcomes. Done, proved,
   liveness aside.
6. `HolderBuckets`: what an epoch is weighed by. Done, proved. `KeeperTurns`, `EpochClosing`,
   `TickRounds`: the keeper's other work. Done, model-checked, for it is liveness.
7. `PayoutRun`, `QuantpLedger`, `LaunchMedia`, `RequestLimits`, `PublicReads`, `LaunchForm`:
   the server's other state and the form's rules. Done, proved, liveness aside.
8. Left to model: prices and quotes as operators against reference definitions (`shared/meteora.mjs`,
   `market-math.mjs`), the notices of launches.

Composition: the program's modules share nothing but the clock and are checked
apart; `KeeperEpochs` contains of the program what it sees of it (the epoch
counter and its interval), `HolderBuckets` is the inside of what it calls a window,
`LaunchJob` contains the transactions and the registration it waits for, and `TradeHistory` is
the inside of what `CoinIndex` treats as one transaction after another.

## 4. Proofs and what stays with TLC

Theorems are in modules named `...Proofs`. Each safety theorem goes by an
inductive invariant (named in section 2), checked by TLC before it was proved,
with one step per action, lemmas for the arithmetic and the cardinalities, and frame lemmas for
the parts a step leaves alone. The assumptions are the named `ASSUME`s of the modules:
constants are natural numbers, "none" is nothing else, sets of configs and registrations hold
records of the right shape, sets of workers and coins are finite. TLC evaluates them in every run.

The refinements are proved too: that the keeper implements `HoldingTime`
(`KeeperKeepsPromise`) and the engine `HourlyPayout` (`EngineKeepsPromise`), step by step
under the mapping the run uses.

With that, every safety property of a passing run is a theorem. Only model-checked is liveness
(`CutSettles`, `WorkDone`, `AllClosed`, `CoinsServed`, `CatchesUp`, `Finishes`, `AllEnd`,
`CaughtUp`), which the prover's temporal back end does not reach under fairness; and the type
invariants of `KeeperTurns`, `EpochClosing` and `TickRounds`, whose runs ask for nothing but
liveness. The three violations are counterexamples and need no proof.

The library has no theorems about the order and the concatenation of sequences that the lists of
trades are made of, and its induction theorems take an operator. So `TradeHistoryProofs` begins with
what it needs: induction as a fact about sets of naturals (`SetInduction`), from well-foundedness; the
prefixes of a concatenation (`FlatsExist` and what follows it), the ascending sequence of a
finite set, and slices of concatenations.

## 5. Not modelled

Prices and market figures are floating-point display values. The clients of
Meteora, merkle trees and instruction encodings are conversions without state;
their readers are covered by unit tests of the repository. Pages, components,
scenes, the ad, the social images and documentation render. The other operator
scripts are run once by hand. `PROJECT.json` gives the reason per component.
