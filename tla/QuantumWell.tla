----------------------------- MODULE QuantumWell -----------------------------
(***************************************************************************)
(* The lamport ledger of one coin under the quantum_hooks program: its     *)
(* `Quantum` account, its well (a system-owned PDA) with the well's WSOL   *)
(* account, and the Entanglement epochs posted for it.                     *)
(*                                                                         *)
(* One action is one instruction, executed atomically, as a Solana         *)
(* transaction is.  An instruction refused by a guard leaves no trace and  *)
(* is simply not enabled.  The checks that guard against the program's own *)
(* book-keeping - checked subtraction and assert_well_invariant - are not  *)
(* guards of the model: failing one reverts the instruction and records    *)
(* the error in `fault`, so that a run can show that they never fail.      *)
(*                                                                         *)
(* Amounts are lamports (in any unit), times are seconds (in any unit).    *)
(* Outside the model: the coin's tokens, epoch-account rent (it never      *)
(* passes through the well), merkle hashing (a root is the leaves it       *)
(* commits to), u64 overflow of the running totals.                        *)
(***************************************************************************)
EXTENDS Integers, Sequences

CONSTANTS
    RentMin,             \* rent-exempt minimum of an account without data
    AtaRent,             \* rent-exempt minimum of an SPL token account
    MIN_PULSE_LAMPORTS,
    EPOCH_TTL,
    MIN_EPOCH_INTERVAL,
    Wallet,              \* addresses that may be paid by a pulse
    Owners,              \* bound: addresses whose owners act during the run
    Params,              \* registrations a launcher may submit
    Configs,             \* contents update_config may give the config
    Trees,               \* merkle trees a keeper may post: [total, leaves]
    Amounts,             \* lamports that arrive at a time
    Spends,              \* what callers ask a burn or a fusion to spend
    Start,               \* the clock when the coin is registered at the earliest
    MaxNow, MaxInflow,   \* bounds of the clock and of the lamports that arrive
    NoHooks              \* the coin is not registered yet

BPS_DENOMINATOR      == 10000
MAX_PROTOCOL_BPS     == 1000
PUBLIC_SPEND_DIVISOR == 10

Split    == 1..4                      \* MAX_SPLITS
TREASURY == 0
LAUNCHER == 5
Payee    == {TREASURY} \cup Split \cup {LAUNCHER}   \* in the order of settlement
Bps      == 0..BPS_DENOMINATOR

ConfigRec == [ treasury : Wallet, protocol_bps : 0..MAX_PROTOCOL_BPS,
               max_burn_lamports : Nat \ {0}, min_action_interval : Nat,
               keeper_grace : Nat, claim_delay : Nat, paused : BOOLEAN ]

HooksRec == [ creator : Bps, burn : Bps, entangle : Bps, fusion : Bps,
              splits : [Split -> Bps],            \* 0: the slot is not used
              wallet : [Payee -> Wallet] ]        \* TREASURY's is the config's

TreeRec == [total : Nat, leaves : Seq(Nat)]

EpochRec == [ total : Nat, claimed : Nat, leaves : Seq(Nat), bitmap : SUBSET Nat,
              claim_start : Nat, expires_at : Nat,
              status : {"open", "closed", "cancelled"} ]

ASSUME WellAssumption ==
    /\ RentMin \in Nat
    /\ AtaRent \in Nat \ {0}
    /\ MIN_PULSE_LAMPORTS \in Nat \ {0}
    /\ EPOCH_TTL \in Nat
    /\ MIN_EPOCH_INTERVAL \in Nat \ {0}
    /\ Start \in Nat
    /\ Owners \subseteq Wallet
    /\ Configs \subseteq ConfigRec
    /\ \E c \in Configs : \A d \in Configs : d.max_burn_lamports <= c.max_burn_lamports  \* a u64
    /\ Params \subseteq HooksRec
    /\ NoHooks \notin HooksRec
    /\ Trees \subseteq TreeRec
    /\ Amounts \subseteq Nat
    /\ Spends \subseteq Nat
    /\ MaxInflow \in Nat

VARIABLES
    now, config, hooks,
    wallet,                                       \* what each address can hold
    well, ata,                                    \* lamports; ata = 0: no such account
    burn_reserve, entangle_reserve, entangle_owed, fusion_reserve,
    owed,                                         \* protocol_owed, split_owed, launcher_owed
    epochs, epoch_count,
    created_at, last_burn_at, last_fusion_at, last_epoch_at, migrated_at,
    total_collected, total_protocol, total_creator_paid,
    total_burn_sol, total_fused_sol, total_claimed,
    inflow,                                       \* bound: lamports that arrived so far
    fault                                         \* internal checks that failed

reserves == <<burn_reserve, entangle_reserve, entangle_owed, fusion_reserve>>
times    == <<created_at, last_burn_at, last_fusion_at, last_epoch_at, migrated_at>>
totals   == <<total_collected, total_protocol, total_creator_paid,
              total_burn_sol, total_fused_sol, total_claimed>>
books    == <<reserves, owed, totals>>
vars     == <<now, config, hooks, wallet, well, ata, books, epochs, epoch_count,
              times, inflow, fault>>

-----------------------------------------------------------------------------
(* Ledger arithmetic.                                                      *)

BpsOf(amount, bps) == (amount * bps) \div BPS_DENOMINATOR

Sum(f) == f[TREASURY] + f[1] + f[2] + f[3] + f[4] + f[LAUNCHER]

OwedLamports == Sum(owed)

\* Mutant: the recipients' debts do not count as reserved.
ReservedWithoutDebts == burn_reserve + entangle_reserve + entangle_owed + fusion_reserve

ReservedLamports ==
    burn_reserve + entangle_reserve + entangle_owed + fusion_reserve + OwedLamports

\* assert_well_invariant, of the lamports and the ledger an instruction leaves.
WellHolds(lamports, reserved) == lamports >= RentMin + reserved

\* An internal check fails: the transaction reverts.
Revert(error) ==
    /\ fault' = fault \cup {error}
    /\ UNCHANGED <<now, config, hooks, wallet, well, ata, books, epochs,
                   epoch_count, times, inflow>>

Registered == hooks # NoHooks

WalletOf(k) == IF k = TREASURY THEN config.treasury ELSE hooks.wallet[k]

-----------------------------------------------------------------------------
(* The world around the program: time, wallets, arriving lamports.         *)

Init ==
    /\ now = Start
    /\ config \in {c \in Configs : ~c.paused}
    /\ hooks = NoHooks
    /\ wallet = [w \in Wallet |-> "empty"]
    /\ well = 0 /\ ata = 0
    /\ burn_reserve = 0 /\ entangle_reserve = 0 /\ entangle_owed = 0 /\ fusion_reserve = 0
    /\ owed = [k \in Payee |-> 0]
    /\ epochs = [i \in {} |-> {}] /\ epoch_count = 0
    /\ created_at = 0 /\ last_burn_at = 0 /\ last_fusion_at = 0
    /\ last_epoch_at = 0 /\ migrated_at = 0
    /\ total_collected = 0 /\ total_protocol = 0 /\ total_creator_paid = 0
    /\ total_burn_sol = 0 /\ total_fused_sol = 0 /\ total_claimed = 0
    /\ inflow = 0
    /\ fault = {}

Tick ==
    /\ now < MaxNow
    /\ now' = now + 1
    /\ UNCHANGED <<config, hooks, wallet, well, ata, books, epochs, epoch_count,
                   times, inflow, fault>>

\* The owner of a recipient's address drains it, funds it, or deploys a program there.
WalletChanges(w) ==
    /\ wallet[w] # "program"
    /\ \E s \in {"empty", "funded", "program"} \ {wallet[w]} :
          wallet' = [wallet EXCEPT ![w] = s]
    /\ UNCHANGED <<now, config, hooks, well, ata, books, epochs, epoch_count,
                   times, inflow, fault>>

\* Lamports that arrive from outside, within the bound.
Arrive(n) ==
    /\ inflow + n <= MaxInflow
    /\ inflow' = inflow + n

\* Anyone may send lamports to the well's address, registered or not.
Donate ==
    /\ \E n \in Amounts : Arrive(n) /\ well' = well + n
    /\ UNCHANGED <<now, config, hooks, wallet, ata, books, epochs, epoch_count,
                   times, fault>>

\* Anyone may create the well's WSOL account, paying its rent, and send WSOL to it.
SendWsol ==
    /\ \E n \in Amounts : Arrive(n) /\ ata' = (IF ata = 0 THEN AtaRent ELSE ata) + n
    /\ UNCHANGED <<now, config, hooks, wallet, well, books, epochs, epoch_count,
                   times, fault>>

\* update_config and set_paused, as far as this coin's instructions read the config.
ConfigChanges ==
    /\ config' \in Configs
    /\ UNCHANGED <<now, hooks, wallet, well, ata, books, epochs, epoch_count,
                   times, inflow, fault>>

-----------------------------------------------------------------------------
(* register                                                                *)

ValidParams(p) ==
    /\ p.creator + p.burn + p.entangle + p.fusion = BPS_DENOMINATOR
    /\ p.splits[1] + p.splits[2] + p.splits[3] + p.splits[4] <= BPS_DENOMINATOR
    /\ \A i, j \in Split :
          i # j /\ p.splits[i] > 0 /\ p.splits[j] > 0 => p.wallet[i] # p.wallet[j]

Register ==
    /\ ~Registered
    /\ ~config.paused
    /\ \E p \in Params : ValidParams(p) /\ hooks' = p
    /\ well' = IF well < RentMin THEN RentMin ELSE well
    /\ created_at' = now /\ last_burn_at' = now /\ last_fusion_at' = now
    /\ UNCHANGED <<now, config, wallet, ata, books, epochs, epoch_count,
                   last_epoch_at, migrated_at, inflow, fault>>

\* sync records the DAMM v2 pool the curve migrated into.
SyncMigration ==
    /\ Registered
    /\ migrated_at = 0
    /\ migrated_at' = now
    /\ UNCHANGED <<now, config, hooks, wallet, well, ata, books, epochs, epoch_count,
                   created_at, last_burn_at, last_fusion_at, last_epoch_at, inflow, fault>>

\* harvest: the fees land in the WSOL account (the caller creates it when it is missing), which
\* is closed into the well; its rent goes back to the caller.
Harvest ==
    /\ Registered
    /\ \E fees \in Amounts \cup {0} :
          /\ Arrive(fees)
          /\ LET closed  == (IF ata = 0 THEN AtaRent ELSE ata) + fees
                 refund  == IF closed < AtaRent THEN closed ELSE AtaRent
             IN IF WellHolds(well + (closed - refund), ReservedLamports)
                THEN /\ well' = well + (closed - refund)
                     /\ ata' = 0
                     /\ UNCHANGED fault
                ELSE /\ UNCHANGED <<well, ata>>
                     /\ fault' = fault \cup {"WellInvariant"}
    /\ UNCHANGED <<now, config, hooks, wallet, books, epochs, epoch_count, times>>

-----------------------------------------------------------------------------
(* pulse                                                                   *)

Available == well - RentMin - ReservedLamports
Allocated == IF Available >= MIN_PULSE_LAMPORTS THEN Available ELSE 0

Protocol      == BpsOf(Allocated, config.protocol_bps)
Net           == Allocated - Protocol
BurnAdded     == BpsOf(Net, hooks.burn)
EntangleAdded == BpsOf(Net, hooks.entangle)
FusionAdded   == BpsOf(Net, hooks.fusion)

\* Mutant: the creator's slice floored like the others, instead of what the others leave.
CreatorSliceFloored == BpsOf(Net, hooks.creator)

CreatorSlice  == Net - (BurnAdded + EntangleAdded + FusionAdded)

SplitShare(i) == BpsOf(CreatorSlice, hooks.splits[i])
SplitTotal    == SplitShare(1) + SplitShare(2) + SplitShare(3) + SplitShare(4)

Share == [k \in Payee |-> IF k = TREASURY THEN Protocol
                          ELSE IF k = LAUNCHER THEN CreatorSlice - SplitTotal
                          ELSE SplitShare(k)]

\* Split wallets that are programs cannot be paid: their share stays in the well, unledgered.
Unpayable == {i \in Split : wallet[WalletOf(i)] = "program"}

\* Mutant: a pulse settles its own share and forgets what it owed before.
DueOfThisPulse(k) == Share[k]

Due(k) == owed[k] + Share[k]

\* can_receive: the account exists already (or was paid earlier in this pulse) or the amount
\* due covers its rent-exempt minimum; nothing is credited to a program.
CanHold(k, paid) ==
    LET w == WalletOf(k)
    IN \/ wallet[w] = "funded"
       \/ /\ wallet[w] = "empty"
          /\ \/ Due(k) >= RentMin
             \/ \E j \in paid : j < k /\ WalletOf(j) = w

\* The recipients this pulse pays in full; everybody else is owed its share.
Creditors == {k \in Payee \ Unpayable : Due(k) > 0}
PaidBy(paid) == paid = {k \in Creditors : CanHold(k, paid)}

Over(S, f) == [k \in Payee |-> IF k \in S THEN f[k] ELSE 0]

Pulse ==
    /\ Registered
    /\ IF Available < 0
       THEN Revert("WellInvariant")
       ELSE \E paid \in SUBSET Creditors :
              LET due     == [k \in Payee |-> Due(k)]
                  resplit == Sum(Over(Unpayable, Share))
                  newOwed == [k \in Payee |-> IF k \in paid THEN 0
                                              ELSE IF k \in Unpayable THEN owed[k]
                                              ELSE Due(k)]
                  left    == well - Sum(Over(paid, due))
              IN /\ PaidBy(paid)
                 /\ \/ Allocated > 0
                    \/ \E k \in paid : owed[k] > 0      \* else NothingToPulse
                 /\ IF WellHolds(left, ReservedLamports - OwedLamports + Sum(newOwed)
                                       + BurnAdded + EntangleAdded + FusionAdded)
                    THEN /\ well' = left
                         /\ wallet' = [w \in Wallet |-> IF \E k \in paid : WalletOf(k) = w
                                                        THEN "funded" ELSE wallet[w]]
                         /\ owed' = newOwed
                         /\ burn_reserve' = burn_reserve + BurnAdded
                         /\ entangle_reserve' = entangle_reserve + EntangleAdded
                         /\ fusion_reserve' = fusion_reserve + FusionAdded
                         /\ total_collected' = total_collected + (Allocated - resplit)
                         /\ total_protocol' = total_protocol + Over(paid, due)[TREASURY]
                         /\ total_creator_paid' = total_creator_paid
                                + Sum(Over(paid \ {TREASURY}, due))
                         /\ UNCHANGED <<now, config, hooks, ata, entangle_owed,
                                        total_burn_sol, total_fused_sol, total_claimed,
                                        epochs, epoch_count, times, inflow, fault>>
                    ELSE Revert("WellInvariant")

-----------------------------------------------------------------------------
(* quantum_burn and fusion                                                 *)

\* Mutant: nothing paces the keeper.
ActionGateUnpaced(isKeeper, lastAt, graceFrom) ==
    /\ ~config.paused
    /\ ~isKeeper => now > graceFrom + config.keeper_grace

\* check_action_gate
ActionGate(isKeeper, lastAt, graceFrom) ==
    /\ ~config.paused
    /\ ~isKeeper => now > graceFrom + config.keeper_grace
    /\ now >= lastAt + config.min_action_interval

SpendCap(isKeeper) ==
    IF isKeeper THEN config.max_burn_lamports
                ELSE config.max_burn_lamports \div PUBLIC_SPEND_DIVISOR

\* check_spend
SpendAllowed(isKeeper, spend, reserve) ==
    spend > 0 /\ spend <= reserve /\ spend <= SpendCap(isKeeper)

\* wrap_from_well: the well itself pays for a missing WSOL account before it wraps `spend`.
CanWrap(spend) == well >= spend + (IF ata = 0 THEN AtaRent ELSE 0)

\* What the instruction leaves in the well once the venue took `spent`: closing the WSOL account
\* returns everything else, the rent the well paid and the WSOL that was there before included.
AfterSwap(spent) == well + ata - spent

Burn(isKeeper, spend, spent) ==
    /\ Registered
    /\ ActionGate(isKeeper, last_burn_at, last_burn_at)
    /\ SpendAllowed(isKeeper, spend, burn_reserve)
    /\ spent \in 1..spend                    \* the curve may fill an order in part
    /\ CanWrap(spend)
    /\ IF WellHolds(AfterSwap(spent), ReservedLamports - spent)
       THEN /\ well' = AfterSwap(spent)
            /\ ata' = 0
            /\ burn_reserve' = burn_reserve - spent
            /\ total_burn_sol' = total_burn_sol + spent
            /\ last_burn_at' = now
            /\ UNCHANGED <<now, config, hooks, wallet, entangle_reserve, entangle_owed,
                           fusion_reserve, owed, total_collected, total_protocol,
                           total_creator_paid, total_fused_sol, total_claimed, epochs,
                           epoch_count, created_at, last_fusion_at, last_epoch_at,
                           migrated_at, inflow, fault>>
       ELSE Revert("WellInvariant")

LaterOf(a, b) == IF a > b THEN a ELSE b

Fuse(isKeeper, spend, spent) ==
    /\ Registered
    /\ migrated_at > 0                       \* else NotMigrated
    /\ ActionGate(isKeeper, last_fusion_at, LaterOf(last_fusion_at, migrated_at))
    /\ SpendAllowed(isKeeper, spend, fusion_reserve)
    /\ spend > 1                             \* 0 < swap_in < spend
    /\ spent \in 1..spend
    /\ CanWrap(spend)
    /\ IF WellHolds(AfterSwap(spent), ReservedLamports - spent)
       THEN /\ well' = AfterSwap(spent)
            /\ ata' = 0
            /\ fusion_reserve' = fusion_reserve - spent
            /\ total_fused_sol' = total_fused_sol + spent
            /\ last_fusion_at' = now
            /\ UNCHANGED <<now, config, hooks, wallet, burn_reserve, entangle_reserve,
                           entangle_owed, owed, total_collected, total_protocol,
                           total_creator_paid, total_burn_sol, total_claimed, epochs,
                           epoch_count, created_at, last_burn_at, last_epoch_at,
                           migrated_at, inflow, fault>>
       ELSE Revert("WellInvariant")

-----------------------------------------------------------------------------
(* Entanglement epochs                                                     *)

EpochDue == now >= last_epoch_at + MIN_EPOCH_INTERVAL

\* post_entanglement, by config.keeper.  The leaves need not add up to the total.
PostEntanglement(tree) ==
    /\ Registered
    /\ Len(tree.leaves) > 0
    /\ tree.total > 0
    /\ tree.total <= entangle_reserve
    /\ EpochDue
    /\ epochs' = [i \in 0..epoch_count |->
                     IF i < epoch_count THEN epochs[i]
                     ELSE [ total |-> tree.total, claimed |-> 0, leaves |-> tree.leaves,
                            bitmap |-> {}, claim_start |-> now + config.claim_delay,
                            expires_at |-> now + EPOCH_TTL, status |-> "open" ]]
    /\ epoch_count' = epoch_count + 1
    /\ entangle_reserve' = entangle_reserve - tree.total
    /\ entangle_owed' = entangle_owed + tree.total
    /\ last_epoch_at' = now
    /\ UNCHANGED <<now, config, hooks, wallet, well, ata, burn_reserve, fusion_reserve,
                   owed, totals, created_at, last_burn_at, last_fusion_at, migrated_at,
                   inflow, fault>>

OpenEpoch(i) == epochs[i].status = "open"

InWindow(e) == e.claim_start <= now /\ now < e.expires_at

\* Mutants: a claim that forgets the bitmap, the claim delay, the epoch's total.
ClaimableTwice(e, l) ==
    InWindow(e) /\ e.leaves[l] > 0 /\ e.claimed + e.leaves[l] <= e.total
ClaimableAtOnce(e, l) ==
    /\ now < e.expires_at
    /\ l \notin e.bitmap /\ e.leaves[l] > 0 /\ e.claimed + e.leaves[l] <= e.total
ClaimablePastTotal(e, l) == InWindow(e) /\ l \notin e.bitmap /\ e.leaves[l] > 0

Claimable(e, l) ==
    InWindow(e) /\ l \notin e.bitmap /\ e.leaves[l] > 0 /\ e.claimed + e.leaves[l] <= e.total

\* claim_entanglement, with the proof of leaf `l` of epoch `i`.
Claim(i, l) ==
    LET amount == epochs[i].leaves[l]
    IN /\ OpenEpoch(i)
       /\ Claimable(epochs[i], l)
       /\ IF entangle_owed < amount
          THEN Revert("MathOverflow")
          ELSE IF ~WellHolds(well - amount, ReservedLamports - amount)
          THEN Revert("WellInvariant")
          ELSE /\ epochs' = [epochs EXCEPT ![i].claimed = @ + amount,
                                           ![i].bitmap = @ \cup {l}]
               /\ entangle_owed' = entangle_owed - amount
               /\ total_claimed' = total_claimed + amount
               /\ well' = well - amount
               /\ UNCHANGED <<now, config, hooks, wallet, ata, burn_reserve,
                              entangle_reserve, fusion_reserve, owed, total_collected,
                              total_protocol, total_creator_paid, total_burn_sol,
                              total_fused_sol, epoch_count, times, inflow, fault>>

Unclaimed(i) == epochs[i].total - epochs[i].claimed

\* What close_epoch and cancel_epoch do to the ledger once their windows allow them.
GiveBack(i, status) ==
    LET unclaimed == Unclaimed(i)
    IN IF unclaimed < 0 \/ entangle_owed < unclaimed
       THEN Revert("MathOverflow")
       ELSE /\ epochs' = [epochs EXCEPT ![i].status = status]
            /\ entangle_owed' = entangle_owed - unclaimed
            /\ entangle_reserve' = entangle_reserve + unclaimed
            /\ UNCHANGED <<now, config, hooks, wallet, well, ata, burn_reserve,
                           fusion_reserve, owed, totals, epoch_count, times,
                           inflow, fault>>

\* Anyone, once the epoch has expired.
CloseEpoch(i) ==
    /\ OpenEpoch(i)
    /\ now >= epochs[i].expires_at
    /\ GiveBack(i, "closed")

\* The authority's veto, before claims open.
CancelEpoch(i) ==
    /\ OpenEpoch(i)
    /\ now < epochs[i].claim_start
    /\ GiveBack(i, "cancelled")

-----------------------------------------------------------------------------

World == Tick \/ Donate \/ SendWsol \/ ConfigChanges \/ \E w \in Owners : WalletChanges(w)

Spending == \E isKeeper \in BOOLEAN, spend \in Spends :
               \E spent \in Spends : Burn(isKeeper, spend, spent)
                                   \/ Fuse(isKeeper, spend, spent)

Entanglement ==
    \/ \E tree \in Trees : PostEntanglement(tree)
    \/ \E i \in DOMAIN epochs :
          \/ \E l \in DOMAIN epochs[i].leaves : Claim(i, l)
          \/ CloseEpoch(i)
          \/ CancelEpoch(i)

Next == World \/ Register \/ SyncMigration \/ Harvest \/ Pulse \/ Spending \/ Entanglement

Spec == Init /\ [][Next]_vars

-----------------------------------------------------------------------------
(* Properties                                                              *)

TypeOK ==
    /\ now \in Nat
    /\ config \in ConfigRec
    /\ hooks \in HooksRec \cup {NoHooks}
    /\ wallet \in [Wallet -> {"empty", "funded", "program"}]
    /\ well \in Nat /\ ata \in Nat
    /\ burn_reserve \in Nat /\ entangle_reserve \in Nat
    /\ entangle_owed \in Nat /\ fusion_reserve \in Nat
    /\ owed \in [Payee -> Nat]
    /\ epoch_count \in Nat
    /\ epochs \in [0..epoch_count - 1 -> EpochRec]
    /\ created_at \in Nat /\ last_burn_at \in Nat /\ last_fusion_at \in Nat
    /\ last_epoch_at \in Nat /\ migrated_at \in Nat
    /\ total_collected \in Nat /\ total_protocol \in Nat /\ total_creator_paid \in Nat
    /\ total_burn_sol \in Nat /\ total_fused_sol \in Nat /\ total_claimed \in Nat
    /\ inflow \in Nat
    /\ fault \subseteq {"WellInvariant", "MathOverflow"}

\* The well always holds its rent-exempt minimum and every lamport the program reserved for a
\* module, for Entanglement claimants or for a recipient it owes (assert_well_invariant, and
\* the instructions that move reserves without asserting it).
Solvent ==
    Registered =>
        well >= RentMin + burn_reserve + fusion_reserve + entangle_reserve + entangle_owed
                + owed[TREASURY] + owed[1] + owed[2] + owed[3] + owed[4] + owed[LAUNCHER]

\* The program's own checks (assert_well_invariant, checked subtraction) never refuse an
\* instruction whose guards hold: nothing in the well can be stuck behind them.
NoFault == fault = {}

\* Every lamport a pulse ever allocated is in exactly one place: paid to the treasury or the
\* creator's side, owed to one of them, in a reserve, spent by a burn or a fusion, in an
\* epoch, or claimed from one.
BooksBalance ==
    total_collected =
        total_protocol + total_creator_paid + OwedLamports
        + burn_reserve + total_burn_sol + fusion_reserve + total_fused_sol
        + entangle_reserve + entangle_owed + total_claimed

\* f[1] + ... + f[n]
SumTo(n, f) == LET s[k \in 0..n] == IF k = 0 THEN 0 ELSE s[k - 1] + f[k] IN s[n]

\* Epochs share one entangle_owed exactly: it is what the open ones still owe their claimants,
\* each has paid the leaves its bitmap marks, once, and never more than its total - whatever was
\* posted, claimed, cancelled and closed in which order, and however the trees were built.
EpochsExact ==
    /\ entangle_owed = SumTo(epoch_count, [k \in 1..epoch_count |->
                           LET e == epochs[k - 1]
                           IN IF e.status = "open" THEN e.total - e.claimed ELSE 0])
    /\ \A i \in DOMAIN epochs :
          LET e == epochs[i]
          IN /\ e.claimed = SumTo(Len(e.leaves), [l \in DOMAIN e.leaves |->
                                  IF l \in e.bitmap THEN e.leaves[l] ELSE 0])
             /\ e.claimed <= e.total

\* The authority's veto is total: an epoch that was cancelled has paid nobody.
VetoIsTotal == \A i \in DOMAIN epochs : epochs[i].status = "cancelled" => epochs[i].claimed = 0

\* What recipients are owed is never shared out again: a debt only grows, until one pulse pays
\* it whole (the recipients' shares cannot be eroded by pulsing while their wallets are empty).
DebtPaidWhole ==
    [][\A k \in Payee : owed'[k] < owed[k] =>
          owed'[k] = 0 /\ well - well' >= owed[k]]_vars

\* The most and the fastest any config of the run lets a burn or fusion go.
LargestSpend == CHOOSE m \in {c.max_burn_lamports : c \in Configs} :
                   \A c \in Configs : c.max_burn_lamports <= m
ShortestGap  == CHOOSE g \in {c.min_action_interval : c \in Configs} :
                   \A c \in Configs : g <= c.min_action_interval

\* However burns interleave, a coin burns at most max_burn_lamports per min_action_interval
\* counted from its registration, and fuses at most as much - unless a config waives the interval.
SpendPaced ==
    Registered /\ ShortestGap > 0 =>
        /\ total_burn_sol <= LargestSpend * ((now - created_at) \div ShortestGap)
        /\ total_fused_sol <= LargestSpend * ((now - created_at) \div ShortestGap)

\* Cancelling an epoch does not let the keeper post the next one sooner: at most one root
\* per MIN_EPOCH_INTERVAL, cancelled ones included.
EpochsPaced == epoch_count <= 1 + (now - Start) \div MIN_EPOCH_INTERVAL

Paced == SpendPaced /\ EpochsPaced

=============================================================================
