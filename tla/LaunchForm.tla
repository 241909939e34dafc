----------------------------- MODULE LaunchForm -----------------------------
(***************************************************************************)
(* The Quantum Hooks of a launch, from the form to the program: what the   *)
(* sliders and rows let a launcher compose (LaunchPage.jsx, hooks.js), what*)
(* the form and the builders check before anything is published            *)
(* (launch.js, shared/quantum.mjs), and what `register` and `lock` accept  *)
(* (register.rs, dilation.rs).  These are four hands' idea of one rule:    *)
(* where they differ, a launch is stranded after its metadata is published *)
(* or after its first transaction.                                         *)
(*                                                                         *)
(* Shares are parts of BPS, times are days.  A launch is made from what    *)
(* the form held when it was submitted; the job it becomes is LaunchJob.   *)
(* Outside the model: names, artwork and links (LaunchMedia), balances,    *)
(* and dev buys whose lock would round to nothing: a buy of one lamport    *)
(* gets over a hundred units, and the form locks at least one percent.     *)
(***************************************************************************)
EXTENDS Integers, Sequences, SequencesExt

CONSTANTS
    BPS,                  \* the whole, which the four shares make up
    MAX_SPLITS,
    MAX_LOCK_DURATION,
    Presets, Empty,       \* allocations offered, and the one a new form starts from
    Payable, Reserved,    \* addresses a split may be typed as: wallets, and keys never paid
    NoAddress,            \* a row not filled in, or not with an address
    SplitShares, LockShares, Days,   \* bound: what is typed into rows and the lock's fields
    Tokens                \* what dev buys get: 0 is too small a buy

Hook == {"creator", "burn", "entangle", "fusion"}

Allocated(hooks) == hooks["creator"] + hooks["burn"] + hooks["entangle"] + hooks["fusion"]

VARIABLES
    draft,     \* the form
    launch     \* how far the launch of it came

formVars == <<draft, launch>>

NoDevBuy == -1

Init ==
    /\ draft = [ hooks |-> Empty, splits |-> <<>>, devBuy |-> NoDevBuy,
                 lock |-> [enabled |-> FALSE, share |-> BPS \div 2, cliff |-> 0, duration |-> 1] ]
    /\ launch = "editing"

-----------------------------------------------------------------------------
(* The sliders.                                                            *)

Least(m, n) == IF m < n THEN m ELSE n

\* Takes what is over the whole from one hook, as far as it has it.
Cut(acc, hook) ==
    LET cut == Least(acc.hooks[hook], acc.excess)
    IN [hooks |-> [acc.hooks EXCEPT ![hook] = @ - cut], excess |-> acc.excess - cut]

\* The first of the largest.
LargestOther(hooks) ==
    LET larger == IF hooks["entangle"] > hooks["burn"] THEN "entangle" ELSE "burn"
    IN IF hooks["fusion"] > hooks[larger] THEN "fusion" ELSE larger

\* The two beside a hook and the creator share.
Others == [ burn |-> <<"entangle", "fusion">>, entangle |-> <<"burn", "fusion">>,
            fusion |-> <<"burn", "entangle">> ]

\* The creator share takes what the others leave of the whole.
WithCreator(hooks) == [hooks EXCEPT !["creator"] = @ + BPS - Allocated(hooks)]

\* setAllocation: the slider that was moved keeps its value.
SetAllocation(hooks, hook, value) ==
    LET next    == [hooks EXCEPT ![hook] = value]
        excess  == Allocated(next) - BPS
        Over(n) == [hooks |-> next, excess |-> n]
    IN IF hook = "creator"
       THEN IF excess >= 0
            THEN Cut(Cut(Cut(Over(excess), "fusion"), "entangle"), "burn").hooks
            ELSE [next EXCEPT ![LargestOther(next)] = @ - excess]
       ELSE WithCreator(
               IF excess > next["creator"]
               THEN Cut(Cut(Over(excess - next["creator"]), Others[hook][1]), Others[hook][2]).hooks
               ELSE next)

-----------------------------------------------------------------------------
(* The form.                                                               *)

Set(changed) == launch = "editing" /\ draft' = changed /\ UNCHANGED launch

MoveSlider == \E h \in Hook, v \in 0..BPS :
    Set([draft EXCEPT !.hooks = SetAllocation(@, h, v)])

ChoosePreset == \E p \in Presets : Set([draft EXCEPT !.hooks = p])

AddSplit ==
    /\ Len(draft.splits) < MAX_SPLITS
    /\ Set([draft EXCEPT !.splits = Append(@, [wallet |-> NoAddress, bps |-> BPS \div 4])])

EditSplit ==
    \E i \in DOMAIN draft.splits :
        \/ \E w \in Payable \cup Reserved \cup {NoAddress} :
              Set([draft EXCEPT !.splits[i].wallet = w])
        \/ \E v \in SplitShares : Set([draft EXCEPT !.splits[i].bps = v])

RemoveSplit == \E i \in DOMAIN draft.splits : Set([draft EXCEPT !.splits = RemoveAt(@, i)])

ToggleLock == Set([draft EXCEPT !.lock.enabled = ~@])

\* The share is brought to at least one percent as it is typed.
EditLock ==
    /\ draft.lock.enabled
    /\ \/ \E share \in LockShares : Set([draft EXCEPT !.lock.share = share])
       \/ \E days \in Days : \/ Set([draft EXCEPT !.lock.cliff = days])
                             \/ Set([draft EXCEPT !.lock.duration = days])

EditDevBuy == \E n \in Tokens \cup {NoDevBuy} : Set([draft EXCEPT !.devBuy = n])

-----------------------------------------------------------------------------
(* What lets a launch go ahead.                                            *)

SplitTotal(splits) == FoldLeft(LAMBDA sum, s : sum + s.bps, 0, splits)

Distinct(splits) == \A i, j \in DOMAIN splits : splits[i].wallet = splits[j].wallet => i = j

\* validate
FormValid(d) ==
    /\ \A i \in DOMAIN d.splits : d.splits[i].wallet # NoAddress /\ d.splits[i].bps > 0
    /\ Distinct(d.splits)
    /\ SplitTotal(d.splits) <= BPS
    /\ d.lock.enabled => /\ d.devBuy # NoDevBuy
                         /\ d.lock.cliff <= d.lock.duration
                         /\ d.lock.duration \in 1..MAX_LOCK_DURATION

\* launchHooks, and what its builder is given besides
Requested(d) ==
    [ hooks |-> d.hooks, splits |-> d.splits, tokens |-> d.devBuy,
      lock |-> IF d.lock.enabled /\ d.devBuy # NoDevBuy THEN <<d.lock>> ELSE <<>> ]

\* Mutant: the builders let keys pass that can never be paid.
ValidWithKeys(r) ==
    /\ Allocated(r.hooks) = BPS
    /\ r.tokens # 0

\* assertLaunchInputs: validateHooks, before the mint is known, and the quote.
InputsValid(r) ==
    /\ \A h \in Hook : r.hooks[h] \in 0..BPS
    /\ Allocated(r.hooks) = BPS
    /\ Len(r.splits) <= MAX_SPLITS
    /\ \A i \in DOMAIN r.splits : r.splits[i].bps \in 1..BPS /\ r.splits[i].wallet \notin Reserved
    /\ Distinct(r.splits)
    /\ SplitTotal(r.splits) <= BPS
    /\ \A i \in DOMAIN r.lock : /\ r.lock[i].share \in 1..BPS
                                /\ r.lock[i].duration \in 1..MAX_LOCK_DURATION
                                /\ r.lock[i].cliff \in 0..r.lock[i].duration
    /\ r.tokens # 0

Submit ==
    /\ launch = "editing"
    /\ FormValid(draft) /\ InputsValid(Requested(draft))
    /\ launch' = "published"
    /\ UNCHANGED draft

-----------------------------------------------------------------------------
(* The program.                                                            *)

ValidLockTerms(t) == t.duration \in 1..MAX_LOCK_DURATION /\ t.cliff \in 0..t.duration

LockAmount(r) == IF r.lock = <<>> THEN 0 ELSE (r.tokens * r.lock[1].share) \div BPS

\* The terms a register carries: only when something will be locked.
Planned(r) == IF LockAmount(r) > 0 THEN r.lock ELSE <<>>

\* register
Registers(r) ==
    /\ Allocated(r.hooks) = BPS /\ \A h \in Hook : r.hooks[h] >= 0
    /\ Len(r.splits) <= MAX_SPLITS
    /\ \A i \in DOMAIN r.splits : r.splits[i].bps \in 1..BPS /\ r.splits[i].wallet \in Payable
    /\ Distinct(r.splits)
    /\ SplitTotal(r.splits) <= BPS
    /\ \A i \in DOMAIN Planned(r) : ValidLockTerms(Planned(r)[i])

\* lock, with terms the job keeps, on the terms registered
Locks(r) ==
    /\ LockAmount(r) > 0
    /\ ValidLockTerms(r.lock[1])
    /\ Planned(r) # <<>> => Planned(r) = r.lock

Register ==
    /\ launch = "published"
    /\ launch' = IF Registers(Requested(draft)) THEN "registered" ELSE "stranded"
    /\ UNCHANGED draft

Lock ==
    /\ launch = "registered" /\ Requested(draft).lock # <<>>
    /\ launch' = IF Locks(Requested(draft)) THEN "locked" ELSE "stranded"
    /\ UNCHANGED draft

Next ==
    \/ MoveSlider \/ ChoosePreset \/ AddSplit \/ EditSplit \/ RemoveSplit
    \/ ToggleLock \/ EditLock \/ EditDevBuy
    \/ Submit \/ Register \/ Lock

Spec == Init /\ [][Next]_formVars

-----------------------------------------------------------------------------
(* Properties.                                                             *)

\* However the sliders were moved, the shares make up the whole, none below nothing, and the one
\* moved last has the value it was given (hooks.js:71).
SharesWhole ==
    /\ Allocated(draft.hooks) = BPS
    /\ \A h \in Hook, v \in 0..BPS :
          LET set == SetAllocation(draft.hooks, h, v)
          IN set \in [Hook -> 0..BPS] /\ set[h] = v

\* What the form and the builders let pass, the program accepts, to the last transaction: no
\* launch is stranded once its metadata is published (launch.js assertLaunchInputs).
NothingStranded == launch # "stranded"
=============================================================================
