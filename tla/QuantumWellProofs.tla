------------------------- MODULE QuantumWellProofs -------------------------
(***************************************************************************)
(* QuantumWell, for every value of its constants: it stays solvent and its *)
(* books balance; the epochs of a coin share one entangle_owed exactly, so *)
(* that none of the program's own checks ever fails; spending keeps its    *)
(* pace.  And the form a coin's rules come from (LaunchForm): what it      *)
(* lets pass the program accepts.                                          *)
(*                                                                         *)
(* SumTo is defined by recursion on data.  Its facts are proved by         *)
(* induction over a set of naturals (SetInduction), which needs no         *)
(* operator parameter.                                                     *)
(***************************************************************************)
EXTENDS MCWell, TLAPS, WellFoundedInduction

\* What register checked of the hooks stays true: they never change.
HooksValid == Registered => hooks \in HooksRec /\ ValidParams(hooks)

\* The part of NoFault that solvency needs: assert_well_invariant never refuses an instruction.
WellCheckNeverFails == "WellInvariant" \notin fault

\* Nothing is reserved in a well whose coin is not registered, and it has no epochs.
NothingReservedYet == ~Registered => ReservedLamports = 0 /\ epoch_count = 0

IInv == /\ TypeOK
        /\ HooksValid
        /\ NothingReservedYet
        /\ Solvent
        /\ BooksBalance
        /\ WellCheckNeverFails

-----------------------------------------------------------------------------
(* Arithmetic of a pulse.                                                  *)

\* bps_of floors: the share is natural and at most `bps` parts of the amount.
LEMMA BpsOfFloors ==
    ASSUME NEW n \in Nat, NEW bps \in Bps
    PROVE  /\ BpsOf(n, bps) \in Nat
           /\ BPS_DENOMINATOR * BpsOf(n, bps) <= n * bps
<1> DEFINE m == n * bps
<1>1. m \in Nat
  BY DEF Bps, BPS_DENOMINATOR
<1>2. m \div 10000 \in Nat /\ 10000 * (m \div 10000) <= m
  <2> HIDE DEF m
  <2> QED BY <1>1
<1> QED BY <1>2 DEF BpsOf, BPS_DENOMINATOR

\* Several floored shares whose bps add up to at most 10 000 do not exceed the amount.
LEMMA FlooredSharesFit ==
    ASSUME NEW n \in Nat,
           NEW n1 \in Bps, NEW n2 \in Bps, NEW n3 \in Bps, NEW n4 \in Bps,
           n1 + n2 + n3 + n4 <= BPS_DENOMINATOR
    PROVE  BpsOf(n, n1) + BpsOf(n, n2) + BpsOf(n, n3) + BpsOf(n, n4) <= n
<1>1. /\ BpsOf(n, n1) \in Nat /\ 10000 * BpsOf(n, n1) <= n * n1
      /\ BpsOf(n, n2) \in Nat /\ 10000 * BpsOf(n, n2) <= n * n2
      /\ BpsOf(n, n3) \in Nat /\ 10000 * BpsOf(n, n3) <= n * n3
      /\ BpsOf(n, n4) \in Nat /\ 10000 * BpsOf(n, n4) <= n * n4
  BY BpsOfFloors DEF BPS_DENOMINATOR
<1>2. n1 \in Nat /\ n2 \in Nat /\ n3 \in Nat /\ n4 \in Nat /\ n1 + n2 + n3 + n4 <= 10000
  BY DEF Bps, BPS_DENOMINATOR
<1>3. n * n1 + n * n2 + n * n3 + n * n4 = n * (n1 + n2 + n3 + n4)
  BY <1>2
<1>4. n * (n1 + n2 + n3 + n4) <= n * 10000
  BY <1>2
<1>5. n * n1 \in Nat /\ n * n2 \in Nat /\ n * n3 \in Nat /\ n * n4 \in Nat
  BY <1>2
<1> HIDE DEF BpsOf
<1> QED BY <1>1, <1>3, <1>4, <1>5

\* A floored share is at most the amount.
LEMMA BpsOfAtMost ==
    ASSUME NEW n \in Nat, NEW bps \in Bps
    PROVE  BpsOf(n, bps) <= n
<1>1. 0 \in Bps /\ bps \in Int /\ bps + 0 + 0 + 0 <= BPS_DENOMINATOR
  BY DEF Bps, BPS_DENOMINATOR
<1>2. BpsOf(n, bps) \in Nat /\ BpsOf(n, 0) \in Nat
  BY <1>1, BpsOfFloors
<1>3. BpsOf(n, bps) + BpsOf(n, 0) + BpsOf(n, 0) + BpsOf(n, 0) <= n
  BY <1>1, FlooredSharesFit
<1> QED BY <1>2, <1>3

\* What a pulse hands out: natural shares that, with the reserves' additions, make up exactly
\* the lamports it allocates (the creator slice and the launcher's share absorb the rounding).
LEMMA SharesAddUp ==
    ASSUME TypeOK, HooksValid, Registered, Available >= 0
    PROVE  /\ Allocated \in Nat
           /\ Allocated <= Available
           /\ BurnAdded \in Nat /\ EntangleAdded \in Nat /\ FusionAdded \in Nat
           /\ Share \in [Payee -> Nat]
           /\ Sum(Share) + BurnAdded + EntangleAdded + FusionAdded = Allocated
<1>1. /\ hooks \in HooksRec
      /\ hooks.creator + hooks.burn + hooks.entangle + hooks.fusion = BPS_DENOMINATOR
      /\ hooks.splits[1] + hooks.splits[2] + hooks.splits[3] + hooks.splits[4]
            <= BPS_DENOMINATOR
  BY DEF HooksValid, ValidParams
<1>2. /\ hooks.creator \in Bps /\ hooks.burn \in Bps
      /\ hooks.entangle \in Bps /\ hooks.fusion \in Bps
      /\ hooks.splits[1] \in Bps /\ hooks.splits[2] \in Bps
      /\ hooks.splits[3] \in Bps /\ hooks.splits[4] \in Bps
  BY <1>1 DEF HooksRec, Split
<1>3. config.protocol_bps \in Bps
  BY DEF TypeOK, ConfigRec, Bps, BPS_DENOMINATOR, MAX_PROTOCOL_BPS
<1>4. Available \in Int
  <2>1. \A k \in Payee : owed[k] \in Nat
    BY DEF TypeOK
  <2>2. OwedLamports \in Nat
    BY <2>1 DEF OwedLamports, Sum, Payee, TREASURY, LAUNCHER, Split
  <2> QED BY <2>2, WellAssumption DEF TypeOK, Available, ReservedLamports
<1>5. Allocated \in Nat /\ Allocated <= Available
  BY <1>4, WellAssumption DEF Allocated
<1>6. Protocol \in Nat /\ Net \in Nat
  <2>1. Protocol \in Nat /\ Protocol <= Allocated
    BY <1>3, <1>5, BpsOfFloors, BpsOfAtMost DEF Protocol
  <2> QED BY <1>5, <2>1 DEF Net
<1>7. /\ BurnAdded \in Nat /\ EntangleAdded \in Nat /\ FusionAdded \in Nat
      /\ BpsOf(Net, hooks.creator) \in Nat
  <2>1. \A x \in Bps : BpsOf(Net, x) \in Nat
    BY <1>6, BpsOfFloors
  <2> QED BY <1>2, <2>1 DEF BurnAdded, EntangleAdded, FusionAdded
<1>8. CreatorSlice \in Nat
  <2>1. BpsOf(Net, hooks.creator) + BpsOf(Net, hooks.burn) + BpsOf(Net, hooks.entangle)
            + BpsOf(Net, hooks.fusion) <= Net
    <3>1. hooks.creator + hooks.burn + hooks.entangle + hooks.fusion <= BPS_DENOMINATOR
      BY <1>1 DEF BPS_DENOMINATOR
    <3> QED BY <1>2, <1>6, <3>1, FlooredSharesFit
  <2> QED BY <1>6, <1>7, <2>1 DEF CreatorSlice, BurnAdded, EntangleAdded, FusionAdded
<1>9. \A i \in Split : SplitShare(i) \in Nat
  <2> TAKE i \in Split
  <2>1. hooks.splits[i] \in Bps
    BY <1>1 DEF HooksRec
  <2> QED BY <1>8, <2>1, BpsOfFloors DEF SplitShare
<1>10. SplitTotal \in Nat /\ SplitTotal <= CreatorSlice
  <2>1. SplitTotal <= CreatorSlice
    BY <1>1, <1>2, <1>8, FlooredSharesFit DEF SplitTotal, SplitShare
  <2> QED BY <1>9, <2>1 DEF SplitTotal, Split
<1>11. /\ Share[TREASURY] = Protocol
       /\ Share[LAUNCHER] = CreatorSlice - SplitTotal
       /\ \A i \in Split : Share[i] = SplitShare(i)
  BY DEF Share, Payee, TREASURY, LAUNCHER, Split
<1>12. Share \in [Payee -> Nat]
  <2>1. CreatorSlice - SplitTotal \in Nat
    BY <1>8, <1>10
  <2> QED BY <1>6, <1>9, <2>1 DEF Share, Payee, TREASURY, LAUNCHER, Split
<1>13. Sum(Share) = Protocol + CreatorSlice
  <2>1. Sum(Share) = Protocol + SplitShare(1) + SplitShare(2) + SplitShare(3)
                       + SplitShare(4) + (CreatorSlice - SplitTotal)
    BY <1>11 DEF Sum, Split
  <2>2. /\ SplitShare(1) \in Nat /\ SplitShare(2) \in Nat
        /\ SplitShare(3) \in Nat /\ SplitShare(4) \in Nat
    BY <1>9 DEF Split
  <2> QED BY <1>6, <1>8, <2>1, <2>2 DEF SplitTotal
<1>14. Net = CreatorSlice + BurnAdded + EntangleAdded + FusionAdded
  BY <1>6, <1>7 DEF CreatorSlice
<1>15. Allocated = Protocol + Net
  BY <1>5, <1>6 DEF Net
<1> QED
  <2> HIDE DEF Share, Allocated, Protocol, Net, CreatorSlice, BurnAdded, EntangleAdded,
               FusionAdded, Sum
  <2> QED BY <1>5, <1>6, <1>7, <1>8, <1>12, <1>13, <1>14, <1>15

\* The sum over the payees is natural and adds pointwise.
LEMMA SumIsNat ==
    ASSUME NEW f \in [Payee -> Nat]
    PROVE  Sum(f) \in Nat /\ \A k \in Payee : f[k] <= Sum(f)
<1>1. \A k \in Payee : f[k] \in Nat
  OBVIOUS
<1> QED BY <1>1 DEF Sum, Payee, TREASURY, LAUNCHER, Split

LEMMA SumAdds ==
    ASSUME NEW f \in [Payee -> Nat], NEW g \in [Payee -> Nat], NEW h \in [Payee -> Nat],
           NEW p \in [Payee -> Nat], NEW q \in [Payee -> Nat],
           \A k \in Payee : f[k] + g[k] + h[k] = p[k] + q[k]
    PROVE  Sum(f) + Sum(g) + Sum(h) = Sum(p) + Sum(q)
<1>1. \A k \in Payee : /\ f[k] \in Nat /\ g[k] \in Nat /\ h[k] \in Nat
                       /\ p[k] \in Nat /\ q[k] \in Nat
  OBVIOUS
<1> QED BY <1>1 DEF Sum, Payee, TREASURY, LAUNCHER, Split

\* Taking the treasury out of the payees takes its part out of the sum.
LEMMA SumWithoutTreasury ==
    ASSUME NEW S \in SUBSET Payee, NEW f \in [Payee -> Nat]
    PROVE  /\ Over(S, f) \in [Payee -> Nat]
           /\ Over(S \ {TREASURY}, f) \in [Payee -> Nat]
           /\ Sum(Over(S, f)) = Over(S, f)[TREASURY] + Sum(Over(S \ {TREASURY}, f))
<1>1. Over(S, f) \in [Payee -> Nat] /\ Over(S \ {TREASURY}, f) \in [Payee -> Nat]
  BY DEF Over
<1> DEFINE g == Over(S, f)
           h == Over(S \ {TREASURY}, f)
<1>2. h[TREASURY] = 0 /\ \A k \in Payee \ {TREASURY} : h[k] = g[k]
  BY DEF Over, Payee, TREASURY
<1>3. \A k \in Payee : g[k] \in Nat /\ h[k] \in Nat
  BY <1>1
<1>4. Sum(g) = g[TREASURY] + Sum(h)
  <2> HIDE DEF g, h
  <2> QED BY <1>2, <1>3 DEF Sum, Payee, TREASURY, LAUNCHER, Split
<1> QED BY <1>1, <1>4

\* A pulse settles every lamport it looks at: what recipients were owed and what they are
\* given now is paid out, owed from now on, or left unledgered for a later pulse.
LEMMA PulseSettles ==
    ASSUME owed \in [Payee -> Nat], Share \in [Payee -> Nat],
           NEW paid \in SUBSET Creditors
    PROVE  LET due     == [k \in Payee |-> Due(k)]
               newOwed == [k \in Payee |-> IF k \in paid THEN 0
                                           ELSE IF k \in Unpayable THEN owed[k]
                                           ELSE Due(k)]
           IN /\ due \in [Payee -> Nat] /\ newOwed \in [Payee -> Nat]
              /\ Over(paid, due) \in [Payee -> Nat]
              /\ Over(Unpayable, Share) \in [Payee -> Nat]
              /\ Sum(newOwed) + Sum(Over(paid, due)) + Sum(Over(Unpayable, Share))
                    = OwedLamports + Sum(Share)
<1> DEFINE due == [k \in Payee |-> Due(k)]
           newOwed == [k \in Payee |-> IF k \in paid THEN 0
                                       ELSE IF k \in Unpayable THEN owed[k]
                                       ELSE Due(k)]
<1>1. \A k \in Payee : Due(k) \in Nat /\ Due(k) = owed[k] + Share[k]
  BY DEF Due
<1>2. paid \in SUBSET Payee /\ paid \cap Unpayable = {}
  BY DEF Creditors
<1>3. due \in [Payee -> Nat] /\ newOwed \in [Payee -> Nat]
  BY <1>1
<1>4. Over(paid, due) \in [Payee -> Nat] /\ Over(Unpayable, Share) \in [Payee -> Nat]
  BY <1>3 DEF Over
<1>5. \A k \in Payee : newOwed[k] + Over(paid, due)[k] + Over(Unpayable, Share)[k]
                         = owed[k] + Share[k]
  <2> TAKE k \in Payee
  <2>1. Share[k] \in Nat /\ owed[k] \in Nat
    OBVIOUS
  <2>2. CASE k \in paid
    BY <1>1, <1>2, <2>1, <2>2 DEF Over
  <2>3. CASE k \in Unpayable
    BY <1>1, <1>2, <2>1, <2>3 DEF Over
  <2>4. CASE k \notin paid /\ k \notin Unpayable
    BY <1>1, <2>1, <2>4 DEF Over
  <2> QED BY <2>2, <2>3, <2>4
<1>6. Sum(newOwed) + Sum(Over(paid, due)) + Sum(Over(Unpayable, Share))
        = Sum(owed) + Sum(Share)
  <2> HIDE DEF newOwed, due
  <2> QED BY <1>3, <1>4, <1>5, SumAdds, SMTT(60)
<1> QED BY <1>3, <1>4, <1>6 DEF OwedLamports

-----------------------------------------------------------------------------
(* The invariant is inductive: one lemma per instruction that moves money. *)

\* Solvent is what assert_well_invariant asks.
LEMMA SolventIsWellHolds ==
    ASSUME TypeOK
    PROVE  /\ OwedLamports \in Nat
           /\ ReservedLamports \in Nat
           /\ Available \in Int
           /\ Solvent <=> (Registered => WellHolds(well, ReservedLamports))
           /\ Registered /\ Solvent => Available >= 0
<1>1. OwedLamports \in Nat
  BY SumIsNat DEF TypeOK, OwedLamports
<1>2. /\ well \in Nat /\ burn_reserve \in Nat /\ entangle_reserve \in Nat
      /\ entangle_owed \in Nat /\ fusion_reserve \in Nat
  BY DEF TypeOK
<1>3. /\ owed[TREASURY] \in Nat /\ owed[1] \in Nat /\ owed[2] \in Nat
      /\ owed[3] \in Nat /\ owed[4] \in Nat /\ owed[LAUNCHER] \in Nat
  BY DEF TypeOK, Payee, TREASURY, LAUNCHER, Split
<1>4. ReservedLamports \in Nat
  BY <1>1, <1>2 DEF ReservedLamports
<1>5. Solvent <=> (Registered => WellHolds(well, ReservedLamports))
  BY <1>1, <1>2, <1>3, WellAssumption
     DEF Solvent, WellHolds, ReservedLamports, OwedLamports, Sum
<1>6. Available \in Int
  BY <1>2, <1>4, WellAssumption DEF Available
<1>7. Registered /\ Solvent => Available >= 0
  BY <1>2, <1>4, <1>5, WellAssumption DEF Available, WellHolds
<1> QED BY <1>1, <1>4, <1>5, <1>6, <1>7

LEMMA SolventAfterStep ==
    ASSUME TypeOK', WellHolds(well, ReservedLamports)'
    PROVE  Solvent'
<1>1. /\ well' \in Nat /\ burn_reserve' \in Nat /\ entangle_reserve' \in Nat
      /\ entangle_owed' \in Nat /\ fusion_reserve' \in Nat /\ owed' \in [Payee -> Nat]
  BY DEF TypeOK
<1>2. /\ owed'[TREASURY] \in Nat /\ owed'[1] \in Nat /\ owed'[2] \in Nat
      /\ owed'[3] \in Nat /\ owed'[4] \in Nat /\ owed'[LAUNCHER] \in Nat
  BY <1>1 DEF Payee, TREASURY, LAUNCHER, Split
<1>3. well' >= RentMin + (burn_reserve' + entangle_reserve' + entangle_owed'
                 + fusion_reserve' + (owed'[TREASURY] + owed'[1] + owed'[2] + owed'[3]
                                      + owed'[4] + owed'[LAUNCHER]))
  BY DEF WellHolds, ReservedLamports, OwedLamports, Sum
<1> QED BY <1>1, <1>2, <1>3, WellAssumption DEF Solvent

\* A pulse never fails its own check, leaves the well solvent and the books balanced,
\* whoever it can pay.
LEMMA PulseKeeps ==
    ASSUME IInv, Pulse
    PROVE  IInv'
<1> DEFINE due == [k \in Payee |-> Due(k)]
           resplit == Sum(Over(Unpayable, Share))
           NewOwed(S) == [k \in Payee |-> IF k \in S THEN 0
                                          ELSE IF k \in Unpayable THEN owed[k]
                                          ELSE Due(k)]
           Paid(S) == Sum(Over(S, due))
           held == ReservedLamports - OwedLamports
<1>1. /\ TypeOK /\ HooksValid /\ Solvent /\ BooksBalance /\ WellCheckNeverFails
      /\ Registered
  BY DEF IInv, Pulse
<1>2. /\ OwedLamports \in Nat /\ ReservedLamports \in Nat
      /\ Available \in Int /\ Available >= 0
  BY <1>1, SolventIsWellHolds
<1>3. PICK paid \in SUBSET Creditors :
         /\ \/ /\ ~WellHolds(well - Paid(paid), held + Sum(NewOwed(paid)) + BurnAdded
                                                + EntangleAdded + FusionAdded)
            \/ /\ well' = well - Paid(paid)
               /\ wallet' = [w \in Wallet |-> IF \E k \in paid : WalletOf(k) = w
                                              THEN "funded" ELSE wallet[w]]
               /\ owed' = NewOwed(paid)
               /\ burn_reserve' = burn_reserve + BurnAdded
               /\ entangle_reserve' = entangle_reserve + EntangleAdded
               /\ fusion_reserve' = fusion_reserve + FusionAdded
               /\ total_collected' = total_collected + (Allocated - resplit)
               /\ total_protocol' = total_protocol + Over(paid, due)[TREASURY]
               /\ total_creator_paid' = total_creator_paid
                                          + Sum(Over(paid \ {TREASURY}, due))
               /\ UNCHANGED <<now, config, hooks, ata, entangle_owed, total_burn_sol,
                              total_fused_sol, total_claimed, epochs, epoch_count, times,
                              inflow, fault>>
  <2>1. ~(Available < 0)
    BY <1>2
  <2> QED BY <2>1 DEF Pulse
<1>4. /\ Allocated \in Nat /\ Allocated <= Available
      /\ BurnAdded \in Nat /\ EntangleAdded \in Nat /\ FusionAdded \in Nat
      /\ Share \in [Payee -> Nat]
      /\ Sum(Share) + BurnAdded + EntangleAdded + FusionAdded = Allocated
  BY <1>1, <1>2, SharesAddUp
<1>5. /\ due \in [Payee -> Nat] /\ NewOwed(paid) \in [Payee -> Nat]
      /\ Over(Unpayable, Share) \in [Payee -> Nat]
      /\ Sum(NewOwed(paid)) + Paid(paid) + resplit = OwedLamports + Sum(Share)
  <2>1. owed \in [Payee -> Nat]
    BY <1>1 DEF TypeOK
  <2> QED BY <1>4, <2>1, PulseSettles
<1>6. /\ Over(paid, due) \in [Payee -> Nat]
      /\ Over(paid \ {TREASURY}, due) \in [Payee -> Nat]
      /\ Paid(paid) = Over(paid, due)[TREASURY] + Sum(Over(paid \ {TREASURY}, due))
  <2>1. paid \in SUBSET Payee
    BY DEF Creditors
  <2> QED BY <1>5, <2>1, SumWithoutTreasury
<1>7. /\ Sum(Share) \in Nat /\ Sum(NewOwed(paid)) \in Nat /\ Paid(paid) \in Nat
      /\ resplit \in Nat /\ Sum(Over(paid \ {TREASURY}, due)) \in Nat
      /\ Over(paid, due)[TREASURY] \in Nat
  <2>1. TREASURY \in Payee
    BY DEF Payee
  <2>2. /\ Sum(Share) \in Nat /\ resplit \in Nat
    BY <1>4, <1>5, SumIsNat
  <2>3. Sum(NewOwed(paid)) \in Nat
    <3> HIDE DEF NewOwed
    <3> QED BY <1>5, SumIsNat
  <2>4. Paid(paid) \in Nat /\ Sum(Over(paid \ {TREASURY}, due)) \in Nat
    <3> HIDE DEF due
    <3> QED BY <1>6, SumIsNat
  <2>5. Over(paid, due)[TREASURY] \in Nat
    BY <1>6, <2>1
  <2> QED BY <2>2, <2>3, <2>4, <2>5
<1>8. /\ well \in Nat /\ RentMin \in Nat /\ held \in Nat
      /\ held = burn_reserve + entangle_reserve + entangle_owed + fusion_reserve
      /\ burn_reserve \in Nat /\ entangle_reserve \in Nat
      /\ entangle_owed \in Nat /\ fusion_reserve \in Nat
      /\ Allocated <= well - RentMin - ReservedLamports
  BY <1>1, <1>2, <1>4, WellAssumption DEF TypeOK, ReservedLamports, Available
<1>9. WellHolds(well - Paid(paid), held + Sum(NewOwed(paid)) + BurnAdded + EntangleAdded
                                     + FusionAdded)
  <2> HIDE DEF NewOwed, Paid, resplit
  <2> QED BY <1>2, <1>4, <1>5, <1>7, <1>8 DEF WellHolds
<1>10. /\ well' = well - Paid(paid) /\ well' \in Nat
       /\ owed' = NewOwed(paid) /\ owed' \in [Payee -> Nat]
       /\ burn_reserve' = burn_reserve + BurnAdded
       /\ entangle_reserve' = entangle_reserve + EntangleAdded
       /\ fusion_reserve' = fusion_reserve + FusionAdded
       /\ total_collected' = total_collected + (Allocated - resplit)
       /\ total_protocol' = total_protocol + Over(paid, due)[TREASURY]
       /\ total_creator_paid' = total_creator_paid + Sum(Over(paid \ {TREASURY}, due))
       /\ UNCHANGED <<now, config, hooks, ata, entangle_owed, total_burn_sol,
                      total_fused_sol, total_claimed, epochs, epoch_count, times,
                      inflow, fault>>
       /\ wallet' \in [Wallet -> {"empty", "funded", "program"}]
  <2>1. well - Paid(paid) \in Nat
    <3> HIDE DEF NewOwed, Paid
    <3> QED BY <1>4, <1>7, <1>8, <1>9 DEF WellHolds
  <2>2. \A w \in Wallet : wallet[w] \in {"empty", "funded", "program"}
    BY <1>1 DEF TypeOK
  <2> HIDE DEF NewOwed, Paid, resplit, due, held
  <2> QED BY <1>3, <1>5, <1>9, <2>1, <2>2
<1>11. resplit <= Allocated
  <2>1. \A k \in Payee : Over(Unpayable, Share)[k] \in Nat
                         /\ Over(Unpayable, Share)[k] <= Share[k] /\ Share[k] \in Nat
    BY <1>4 DEF Over
  <2>2. resplit <= Sum(Share)
    BY <2>1 DEF Sum, Payee, TREASURY, LAUNCHER, Split
  <2> HIDE DEF resplit
  <2> QED BY <1>4, <1>7, <2>2
<1>12. TypeOK'
  <2>1. /\ total_collected' \in Nat /\ total_protocol' \in Nat
        /\ total_creator_paid' \in Nat
    <3>1. /\ total_collected \in Nat /\ total_protocol \in Nat
          /\ total_creator_paid \in Nat
      BY <1>1 DEF TypeOK
    <3> HIDE DEF NewOwed, Paid, resplit, due, held
    <3> QED BY <1>4, <1>7, <1>10, <1>11, <3>1
  <2>2. /\ burn_reserve' \in Nat /\ entangle_reserve' \in Nat
        /\ fusion_reserve' \in Nat /\ entangle_owed' \in Nat
    BY <1>4, <1>8, <1>10
  <2> HIDE DEF NewOwed, Paid, resplit, due, held
  <2> QED BY <1>1, <1>10, <2>1, <2>2 DEF TypeOK, times
<1>13. HooksValid'
  BY <1>1, <1>10 DEF HooksValid, Registered, ValidParams
<1>14. /\ OwedLamports' = Sum(NewOwed(paid))
       /\ ReservedLamports' = held + Sum(NewOwed(paid)) + BurnAdded + EntangleAdded
                                + FusionAdded
  <2>1. OwedLamports' = Sum(NewOwed(paid))
    BY <1>10 DEF OwedLamports, Sum
  <2> HIDE DEF NewOwed, held
  <2> QED BY <1>4, <1>7, <1>8, <1>10, <2>1 DEF ReservedLamports
<1>15. Solvent'
  <2>1. WellHolds(well, ReservedLamports)'
    <3> HIDE DEF NewOwed, held, Paid
    <3> QED BY <1>9, <1>10, <1>14 DEF WellHolds
  <2> QED BY <1>12, <2>1, SolventAfterStep
<1>16. BooksBalance'
  <2>1. total_collected =
           total_protocol + total_creator_paid + OwedLamports
           + burn_reserve + total_burn_sol + fusion_reserve + total_fused_sol
           + entangle_reserve + entangle_owed + total_claimed
    BY <1>1 DEF BooksBalance
  <2>2. /\ total_protocol \in Nat /\ total_creator_paid \in Nat /\ total_burn_sol \in Nat
        /\ total_fused_sol \in Nat /\ total_claimed \in Nat
        /\ total_collected \in Nat
    BY <1>1 DEF TypeOK
  <2> HIDE DEF NewOwed, Paid, resplit, due, held
  <2> QED BY <1>2, <1>4, <1>5, <1>6, <1>7, <1>8, <1>10, <1>14, <2>1, <2>2
          DEF BooksBalance
<1>17. WellCheckNeverFails'
  BY <1>1, <1>10 DEF WellCheckNeverFails
<1>18. NothingReservedYet'
  BY <1>1, <1>10 DEF NothingReservedYet, Registered
<1> QED BY <1>12, <1>13, <1>15, <1>16, <1>17, <1>18 DEF IInv

\* An instruction that leaves the ledger alone and takes nothing out of the well: lamports
\* and WSOL that arrive, harvest, the clock, the config, a checked subtraction that reverts.
LEMMA LedgerUntouched ==
    ASSUME IInv, TypeOK', UNCHANGED <<hooks, books, epoch_count>>, well' >= well,
           fault' \in {fault, fault \cup {"MathOverflow"}}
    PROVE  IInv'
<1>1. /\ TypeOK /\ HooksValid /\ Solvent /\ BooksBalance /\ WellCheckNeverFails
      /\ NothingReservedYet
  BY DEF IInv
<1>2. /\ ReservedLamports' = ReservedLamports
      /\ OwedLamports' = OwedLamports
      /\ Registered' = Registered
  BY DEF books, reserves, ReservedLamports, OwedLamports, Sum, Registered
<1>3. HooksValid'
  BY <1>1 DEF HooksValid, Registered, ValidParams
<1>4. NothingReservedYet'
  BY <1>1, <1>2 DEF NothingReservedYet
<1>5. Solvent'
  <2>1. CASE Registered
    <3>1. WellHolds(well, ReservedLamports) /\ ReservedLamports \in Nat
      BY <1>1, <2>1, SolventIsWellHolds
    <3>2. well \in Nat /\ well' \in Nat
      BY <1>1 DEF TypeOK
    <3>3. WellHolds(well, ReservedLamports)'
      BY <1>2, <3>1, <3>2, WellAssumption DEF WellHolds
    <3> QED BY <3>3, SolventAfterStep
  <2>2. CASE ~Registered
    BY <1>2, <2>2 DEF Solvent
  <2> QED BY <2>1, <2>2
<1>6. BooksBalance'
  BY <1>1, <1>2 DEF BooksBalance, books, reserves, totals
<1>7. WellCheckNeverFails'
  BY <1>1 DEF WellCheckNeverFails
<1> QED BY <1>3, <1>4, <1>5, <1>6, <1>7 DEF IInv

\* An instruction that takes `n` lamports out of a reserve and at most as many out of the well
\* keeps the well's check, and therefore the well solvent.
LEMMA SpendingKeepsCheck ==
    ASSUME IInv, Registered, NEW n \in Nat, NEW lamports \in Int, lamports >= well - n
    PROVE  WellHolds(lamports, ReservedLamports - n)
<1>1. /\ ReservedLamports \in Nat
      /\ WellHolds(well, ReservedLamports)
  BY SolventIsWellHolds DEF IInv
<1> QED BY <1>1, WellAssumption DEF WellHolds, IInv, TypeOK

LEMMA RegisterKeeps ==
    ASSUME IInv, Register
    PROVE  IInv'
<1>1. /\ TypeOK /\ ~Registered /\ BooksBalance /\ WellCheckNeverFails
      /\ ReservedLamports = 0
  BY DEF IInv, Register, NothingReservedYet
<1>2. /\ hooks' \in HooksRec /\ ValidParams(hooks')
      /\ hooks' # NoHooks
  BY WellAssumption DEF Register
<1>3. well' \in Nat /\ well' >= RentMin
  BY <1>1, WellAssumption DEF Register, TypeOK
<1>4. TypeOK'
  BY <1>1, <1>2, <1>3 DEF TypeOK, Register, books, reserves, totals
<1>5. HooksValid' /\ Registered'
  BY <1>2 DEF HooksValid, Registered, ValidParams
<1>6. ReservedLamports' = 0 /\ OwedLamports' = OwedLamports
  BY <1>1 DEF Register, books, reserves, ReservedLamports, OwedLamports, Sum
<1>7. Solvent'
  <2>1. WellHolds(well, ReservedLamports)'
    BY <1>3, <1>6, WellAssumption DEF WellHolds
  <2> QED BY <1>4, <2>1, SolventAfterStep
<1>8. BooksBalance'
  BY <1>1, <1>6 DEF BooksBalance, Register, books, reserves, totals
<1>9. NothingReservedYet' /\ WellCheckNeverFails'
  BY <1>1, <1>5 DEF NothingReservedYet, WellCheckNeverFails, Register
<1> QED BY <1>4, <1>5, <1>7, <1>8, <1>9 DEF IInv

LEMMA HarvestKeeps ==
    ASSUME IInv, Harvest
    PROVE  IInv'
<1>1. TypeOK /\ Registered
  BY DEF IInv, Harvest
<1>2. PICK fees \in Amounts \cup {0} :
         /\ Arrive(fees)
         /\ LET closed == (IF ata = 0 THEN AtaRent ELSE ata) + fees
                refund == IF closed < AtaRent THEN closed ELSE AtaRent
            IN IF WellHolds(well + (closed - refund), ReservedLamports)
               THEN /\ well' = well + (closed - refund)
                    /\ ata' = 0
                    /\ UNCHANGED fault
               ELSE /\ UNCHANGED <<well, ata>>
                    /\ fault' = fault \cup {"WellInvariant"}
  BY DEF Harvest
<1> DEFINE closed == (IF ata = 0 THEN AtaRent ELSE ata) + fees
           refund == IF closed < AtaRent THEN closed ELSE AtaRent
<1>3. fees \in Nat /\ well \in Nat /\ ata \in Nat /\ AtaRent \in Nat
  BY <1>1, WellAssumption DEF TypeOK
<1>4. closed \in Nat /\ closed - refund \in Nat
  BY <1>3
<1>5. WellHolds(well + (closed - refund), ReservedLamports)
  <2>1. ReservedLamports \in Nat
    BY <1>1, SolventIsWellHolds
  <2>2. ReservedLamports - 0 = ReservedLamports
    BY <2>1
  <2>3. /\ well + (closed - refund) \in Int
        /\ well + (closed - refund) >= well - 0
    <3> HIDE DEF closed, refund
    <3> QED BY <1>3, <1>4
  <2> HIDE DEF closed, refund
  <2> QED BY <1>1, <2>2, <2>3, SpendingKeepsCheck
<1>6. /\ well' = well + (closed - refund) /\ well' \in Nat /\ well' >= well
      /\ ata' \in Nat
      /\ UNCHANGED fault
  BY <1>2, <1>3, <1>4, <1>5
<1>7. inflow' \in Nat
  BY <1>1, <1>2, <1>3 DEF Arrive, TypeOK
<1>8. UNCHANGED <<now, config, hooks, wallet, books, epochs, epoch_count, times>>
  BY DEF Harvest
<1>9. TypeOK'
  <2> HIDE DEF closed, refund
  <2> QED BY <1>1, <1>6, <1>7, <1>8 DEF TypeOK, books, reserves, totals, times
<1> HIDE DEF closed, refund
<1> QED BY <1>6, <1>8, <1>9, LedgerUntouched

LEMMA BurnKeeps ==
    ASSUME IInv, NEW isKeeper \in BOOLEAN, NEW spend \in Spends, NEW spent \in Spends,
           Burn(isKeeper, spend, spent)
    PROVE  IInv'
<1>1. /\ TypeOK /\ HooksValid /\ BooksBalance /\ WellCheckNeverFails /\ Registered
  BY DEF IInv, Burn
<1>2. spent \in Nat /\ spent <= burn_reserve
  BY <1>1, WellAssumption DEF Burn, SpendAllowed, TypeOK
<1>3. well \in Nat /\ ata \in Nat /\ RentMin \in Nat /\ ReservedLamports \in Nat
  BY <1>1, SolventIsWellHolds, WellAssumption DEF TypeOK
<1>4. /\ AfterSwap(spent) \in Int
      /\ WellHolds(AfterSwap(spent), ReservedLamports - spent)
  BY <1>1, <1>2, <1>3, SpendingKeepsCheck DEF AfterSwap
<1>5. /\ well' = AfterSwap(spent) /\ ata' = 0
      /\ burn_reserve' = burn_reserve - spent
      /\ total_burn_sol' = total_burn_sol + spent
      /\ last_burn_at' = now
      /\ UNCHANGED <<now, config, hooks, wallet, entangle_reserve, entangle_owed,
                     fusion_reserve, owed, total_collected, total_protocol,
                     total_creator_paid, total_fused_sol, total_claimed, epochs,
                     epoch_count, created_at, last_fusion_at, last_epoch_at,
                     migrated_at, inflow, fault>>
  BY <1>4 DEF Burn
<1>6. ReservedLamports' = ReservedLamports - spent /\ OwedLamports' = OwedLamports
  <2>1. OwedLamports' = OwedLamports
    BY <1>5 DEF OwedLamports, Sum
  <2> QED BY <1>1, <1>2, <1>5, <2>1, SolventIsWellHolds DEF ReservedLamports, TypeOK
<1>7. WellHolds(well, ReservedLamports)'
  BY <1>4, <1>5, <1>6 DEF WellHolds
<1>8. TypeOK'
  <2>1. well' \in Nat
    <3>1. ReservedLamports - spent \in Nat
      BY <1>1, <1>2, SolventIsWellHolds DEF ReservedLamports, TypeOK
    <3> QED BY <1>3, <1>4, <1>5, <3>1 DEF WellHolds
  <2>2. burn_reserve' \in Nat /\ total_burn_sol' \in Nat /\ last_burn_at' \in Nat
    BY <1>1, <1>2, <1>5 DEF TypeOK
  <2> QED BY <1>1, <1>5, <2>1, <2>2 DEF TypeOK
<1>9. Solvent'
  BY <1>7, <1>8, SolventAfterStep
<1>10. HooksValid' /\ NothingReservedYet' /\ WellCheckNeverFails'
  BY <1>1, <1>5 DEF HooksValid, NothingReservedYet, WellCheckNeverFails, Registered,
                   ValidParams
<1>11. BooksBalance'
  <2>1. /\ OwedLamports \in Nat /\ burn_reserve \in Nat /\ fusion_reserve \in Nat
        /\ entangle_reserve \in Nat /\ entangle_owed \in Nat /\ total_protocol \in Nat
        /\ total_creator_paid \in Nat /\ total_burn_sol \in Nat /\ total_fused_sol \in Nat
        /\ total_claimed \in Nat
    BY <1>1, SolventIsWellHolds DEF TypeOK
  <2>2. burn_reserve' + total_burn_sol' = burn_reserve + total_burn_sol
    BY <1>2, <1>5, <2>1
  <2> QED BY <1>1, <1>2, <1>5, <1>6, <2>1, <2>2 DEF BooksBalance
<1> QED BY <1>8, <1>9, <1>10, <1>11 DEF IInv

LEMMA FuseKeeps ==
    ASSUME IInv, NEW isKeeper \in BOOLEAN, NEW spend \in Spends, NEW spent \in Spends,
           Fuse(isKeeper, spend, spent)
    PROVE  IInv'
<1>1. /\ TypeOK /\ HooksValid /\ BooksBalance /\ WellCheckNeverFails /\ Registered
  BY DEF IInv, Fuse
<1>2. spent \in Nat /\ spent <= fusion_reserve
  BY <1>1, WellAssumption DEF Fuse, SpendAllowed, TypeOK
<1>3. well \in Nat /\ ata \in Nat /\ RentMin \in Nat /\ ReservedLamports \in Nat
  BY <1>1, SolventIsWellHolds, WellAssumption DEF TypeOK
<1>4. /\ AfterSwap(spent) \in Int
      /\ WellHolds(AfterSwap(spent), ReservedLamports - spent)
  BY <1>1, <1>2, <1>3, SpendingKeepsCheck DEF AfterSwap
<1>5. /\ well' = AfterSwap(spent) /\ ata' = 0
      /\ fusion_reserve' = fusion_reserve - spent
      /\ total_fused_sol' = total_fused_sol + spent
      /\ last_fusion_at' = now
      /\ UNCHANGED <<now, config, hooks, wallet, burn_reserve, entangle_reserve,
                     entangle_owed, owed, total_collected, total_protocol,
                     total_creator_paid, total_burn_sol, total_claimed, epochs,
                     epoch_count, created_at, last_burn_at, last_epoch_at,
                     migrated_at, inflow, fault>>
  BY <1>4 DEF Fuse
<1>6. ReservedLamports' = ReservedLamports - spent /\ OwedLamports' = OwedLamports
  <2>1. OwedLamports' = OwedLamports
    BY <1>5 DEF OwedLamports, Sum
  <2> QED BY <1>1, <1>2, <1>5, <2>1, SolventIsWellHolds DEF ReservedLamports, TypeOK
<1>7. WellHolds(well, ReservedLamports)'
  BY <1>4, <1>5, <1>6 DEF WellHolds
<1>8. TypeOK'
  <2>1. well' \in Nat
    <3>1. ReservedLamports - spent \in Nat
      BY <1>1, <1>2, SolventIsWellHolds DEF ReservedLamports, TypeOK
    <3> QED BY <1>3, <1>4, <1>5, <3>1 DEF WellHolds
  <2>2. fusion_reserve' \in Nat /\ total_fused_sol' \in Nat /\ last_fusion_at' \in Nat
    BY <1>1, <1>2, <1>5 DEF TypeOK
  <2> QED BY <1>1, <1>5, <2>1, <2>2 DEF TypeOK
<1>9. Solvent'
  BY <1>7, <1>8, SolventAfterStep
<1>10. HooksValid' /\ NothingReservedYet' /\ WellCheckNeverFails'
  BY <1>1, <1>5 DEF HooksValid, NothingReservedYet, WellCheckNeverFails, Registered,
                   ValidParams
<1>11. BooksBalance'
  <2>1. /\ OwedLamports \in Nat /\ burn_reserve \in Nat /\ fusion_reserve \in Nat
        /\ entangle_reserve \in Nat /\ entangle_owed \in Nat /\ total_protocol \in Nat
        /\ total_creator_paid \in Nat /\ total_burn_sol \in Nat /\ total_fused_sol \in Nat
        /\ total_claimed \in Nat
    BY <1>1, SolventIsWellHolds DEF TypeOK
  <2>2. fusion_reserve' + total_fused_sol' = fusion_reserve + total_fused_sol
    BY <1>2, <1>5, <2>1
  <2> QED BY <1>1, <1>2, <1>5, <1>6, <2>1, <2>2 DEF BooksBalance
<1> QED BY <1>8, <1>9, <1>10, <1>11 DEF IInv

\* Posting moves a reserve into what epochs owe: nothing else of the ledger moves.
LEMMA PostKeeps ==
    ASSUME IInv, NEW tree \in Trees, PostEntanglement(tree)
    PROVE  IInv'
<1>1. /\ TypeOK /\ HooksValid /\ BooksBalance /\ WellCheckNeverFails /\ Registered
  BY DEF IInv, PostEntanglement
<1>2. /\ tree.total \in Nat /\ tree.leaves \in Seq(Nat)
      /\ tree.total <= entangle_reserve
  BY WellAssumption DEF TreeRec, PostEntanglement
<1>3. /\ entangle_reserve' = entangle_reserve - tree.total
      /\ entangle_owed' = entangle_owed + tree.total
      /\ epoch_count' = epoch_count + 1
      /\ last_epoch_at' = now
      /\ UNCHANGED <<now, config, hooks, wallet, well, ata, burn_reserve, fusion_reserve,
                     owed, totals, created_at, last_burn_at, last_fusion_at,
                     migrated_at, inflow, fault>>
  BY DEF PostEntanglement
<1>4. /\ OwedLamports \in Nat /\ burn_reserve \in Nat /\ fusion_reserve \in Nat
      /\ entangle_reserve \in Nat /\ entangle_owed \in Nat /\ total_protocol \in Nat
      /\ total_creator_paid \in Nat /\ total_burn_sol \in Nat /\ total_fused_sol \in Nat
      /\ total_claimed \in Nat /\ now \in Nat /\ epoch_count \in Nat
  BY <1>1, SolventIsWellHolds DEF TypeOK
<1>5. /\ entangle_reserve' \in Nat /\ entangle_owed' \in Nat
      /\ entangle_reserve' + entangle_owed' = entangle_reserve + entangle_owed
  BY <1>2, <1>3, <1>4
<1>6. ReservedLamports' = ReservedLamports /\ OwedLamports' = OwedLamports
  <2>1. OwedLamports' = OwedLamports
    BY <1>3 DEF OwedLamports, Sum
  <2> QED BY <1>3, <1>4, <1>5, <2>1 DEF ReservedLamports
<1>7. epochs' \in [0..epoch_count' - 1 -> EpochRec]
  <2> DEFINE new == [ total |-> tree.total, claimed |-> 0, leaves |-> tree.leaves,
                      bitmap |-> {}, claim_start |-> now + config.claim_delay,
                      expires_at |-> now + EPOCH_TTL, status |-> "open" ]
  <2>1. config.claim_delay \in Nat
    BY <1>1 DEF TypeOK, ConfigRec
  <2>2. new \in EpochRec
    BY <1>2, <1>4, <2>1, WellAssumption DEF EpochRec
  <2>3. epochs \in [0..epoch_count - 1 -> EpochRec]
    BY <1>1 DEF TypeOK
  <2>4. epochs' = [i \in 0..epoch_count |-> IF i < epoch_count THEN epochs[i] ELSE new]
    BY DEF PostEntanglement
  <2>5. \A i \in 0..epoch_count : i < epoch_count => i \in 0..epoch_count - 1
    BY <1>4
  <2>6. epoch_count' - 1 = epoch_count
    BY <1>3, <1>4
  <2> HIDE DEF new
  <2> QED BY <2>2, <2>3, <2>4, <2>5, <2>6
<1>8. TypeOK'
  BY <1>1, <1>3, <1>4, <1>5, <1>7 DEF TypeOK, totals
<1>9. Solvent'
  <2>1. WellHolds(well, ReservedLamports)'
    BY <1>1, <1>3, <1>6, SolventIsWellHolds DEF IInv, WellHolds
  <2> QED BY <1>8, <2>1, SolventAfterStep
<1>10. HooksValid' /\ NothingReservedYet' /\ WellCheckNeverFails'
  BY <1>1, <1>3 DEF HooksValid, NothingReservedYet, WellCheckNeverFails, Registered,
                   ValidParams
<1>11. BooksBalance'
  BY <1>1, <1>3, <1>4, <1>5, <1>6 DEF BooksBalance, totals
<1> QED BY <1>8, <1>9, <1>10, <1>11 DEF IInv

\* A failed checked subtraction reverts and leaves everything as it was.
LEMMA MathOverflowKeeps ==
    ASSUME IInv, Revert("MathOverflow")
    PROVE  IInv'
<1>1. TypeOK
  BY DEF IInv
<1>2. TypeOK'
  BY <1>1 DEF TypeOK, Revert, books, reserves, totals, times
<1>3. well' = well /\ well \in Nat
  BY <1>1 DEF TypeOK, Revert
<1> QED BY <1>2, <1>3, LedgerUntouched DEF Revert

\* A claim takes its leaf out of the well and out of what epochs owe.
LEMMA ClaimKeeps ==
    ASSUME IInv, Registered, NEW i \in DOMAIN epochs, NEW leaf \in DOMAIN epochs[i].leaves,
           Claim(i, leaf)
    PROVE  IInv'
<1> DEFINE amount == epochs[i].leaves[leaf]
<1>1. /\ TypeOK /\ HooksValid /\ BooksBalance /\ WellCheckNeverFails
  BY DEF IInv
<1>2. /\ epochs[i] \in EpochRec /\ epochs \in [0..epoch_count - 1 -> EpochRec]
      /\ i \in 0..epoch_count - 1
  BY <1>1 DEF TypeOK
<1>3. /\ amount \in Nat /\ leaf \in Nat /\ epochs[i].claimed \in Nat
      /\ epochs[i].bitmap \in SUBSET Nat
  <2>1. epochs[i].leaves \in Seq(Nat) /\ epochs[i].claimed \in Nat
        /\ epochs[i].bitmap \in SUBSET Nat
    BY <1>2 DEF EpochRec
  <2>2. leaf \in Nat
    BY <2>1
  <2> QED BY <2>1, <2>2
<1>4. /\ OwedLamports \in Nat /\ burn_reserve \in Nat /\ fusion_reserve \in Nat
      /\ entangle_reserve \in Nat /\ entangle_owed \in Nat /\ total_protocol \in Nat
      /\ total_creator_paid \in Nat /\ total_burn_sol \in Nat /\ total_fused_sol \in Nat
      /\ total_claimed \in Nat /\ well \in Nat /\ ReservedLamports \in Nat
  BY <1>1, SolventIsWellHolds DEF TypeOK
<1>5. CASE entangle_owed < amount
  <2>1. Revert("MathOverflow")
    BY <1>5 DEF Claim
  <2> QED BY <2>1, MathOverflowKeeps
<1>6. CASE ~(entangle_owed < amount)
  <2>1. WellHolds(well - amount, ReservedLamports - amount)
    <3> HIDE DEF amount
    <3> QED BY <1>3, <1>4, SpendingKeepsCheck
  <2>2. /\ epochs' = [epochs EXCEPT ![i].claimed = @ + amount, ![i].bitmap = @ \cup {leaf}]
        /\ entangle_owed' = entangle_owed - amount
        /\ total_claimed' = total_claimed + amount
        /\ well' = well - amount
        /\ UNCHANGED <<now, config, hooks, wallet, ata, burn_reserve, entangle_reserve,
                       fusion_reserve, owed, total_collected, total_protocol,
                       total_creator_paid, total_burn_sol, total_fused_sol,
                       epoch_count, times, inflow, fault>>
    BY <1>6, <2>1 DEF Claim
  <2>3. epochs' \in [0..epoch_count' - 1 -> EpochRec]
    <3> DEFINE new == [epochs[i] EXCEPT !.claimed = @ + amount, !.bitmap = @ \cup {leaf}]
    <3>1. new \in EpochRec
      <4>1. epochs[i].claimed + amount \in Nat /\ epochs[i].bitmap \cup {leaf} \in SUBSET Nat
        <5> HIDE DEF amount
        <5> QED BY <1>3
      <4> HIDE DEF amount
      <4> QED BY <1>2, <4>1 DEF EpochRec
    <3>2. epochs' = [epochs EXCEPT ![i] = new]
      BY <1>2, <2>2
    <3> HIDE DEF new
    <3> QED BY <1>2, <2>2, <3>1, <3>2
  <2> HIDE DEF amount
  <2>4. /\ entangle_owed' \in Nat /\ total_claimed' \in Nat
        /\ entangle_owed' + total_claimed' = entangle_owed + total_claimed
    BY <1>3, <1>4, <1>6, <2>2
  <2>5. OwedLamports' = OwedLamports /\ ReservedLamports' = ReservedLamports - amount
    <3>1. OwedLamports' = OwedLamports
      BY <2>2 DEF OwedLamports, Sum
    <3> QED BY <1>3, <1>4, <2>2, <3>1 DEF ReservedLamports
  <2>6. well' \in Nat
    <3>1. ReservedLamports - amount \in Nat
      BY <1>3, <1>4, <1>6 DEF ReservedLamports
    <3> QED BY <1>3, <1>4, <2>1, <2>2, <3>1, WellAssumption DEF WellHolds
  <2>7. TypeOK'
    BY <1>1, <2>2, <2>3, <2>4, <2>6 DEF TypeOK, times
  <2>8. Solvent'
    <3>1. WellHolds(well, ReservedLamports)'
      BY <2>1, <2>2, <2>5 DEF WellHolds
    <3> QED BY <2>7, <3>1, SolventAfterStep
  <2>9. HooksValid' /\ NothingReservedYet' /\ WellCheckNeverFails'
    BY <1>1, <2>2 DEF HooksValid, NothingReservedYet, WellCheckNeverFails, Registered,
                     ValidParams
  <2>10. BooksBalance'
    <3>1. UNCHANGED <<burn_reserve, entangle_reserve, fusion_reserve, total_collected,
                      total_protocol, total_creator_paid, total_burn_sol,
                      total_fused_sol>>
      BY <2>2
    <3> DEFINE rest == total_protocol + total_creator_paid + OwedLamports + burn_reserve
                       + total_burn_sol + fusion_reserve + total_fused_sol
                       + entangle_reserve
    <3>2. rest \in Nat
      BY <1>4
    <3>3. rest' = rest
      BY <2>5, <3>1
    <3>4. /\ BooksBalance <=> total_collected = rest + entangle_owed + total_claimed
          /\ BooksBalance' <=> total_collected' = rest' + entangle_owed' + total_claimed'
      BY DEF BooksBalance
    <3> HIDE DEF rest
    <3>5. rest + entangle_owed' + total_claimed' = rest + entangle_owed + total_claimed
      BY <1>3, <1>4, <2>2, <3>2
    <3> QED BY <1>1, <3>1, <3>3, <3>4, <3>5
  <2> QED BY <2>7, <2>8, <2>9, <2>10 DEF IInv
<1> QED BY <1>5, <1>6

\* Closing or cancelling moves what was not claimed back into the reserve.
LEMMA GiveBackKeeps ==
    ASSUME IInv, Registered, NEW i \in DOMAIN epochs,
           NEW status \in {"closed", "cancelled"}, GiveBack(i, status)
    PROVE  IInv'
<1> DEFINE unclaimed == Unclaimed(i)
<1>1. /\ TypeOK /\ HooksValid /\ BooksBalance /\ WellCheckNeverFails
  BY DEF IInv
<1>2. /\ epochs[i] \in EpochRec /\ epochs \in [0..epoch_count - 1 -> EpochRec]
      /\ i \in 0..epoch_count - 1
  BY <1>1 DEF TypeOK
<1>3. unclaimed \in Int
  BY <1>2 DEF EpochRec, Unclaimed
<1>4. /\ OwedLamports \in Nat /\ burn_reserve \in Nat /\ fusion_reserve \in Nat
      /\ entangle_reserve \in Nat /\ entangle_owed \in Nat /\ total_protocol \in Nat
      /\ total_creator_paid \in Nat /\ total_burn_sol \in Nat /\ total_fused_sol \in Nat
      /\ total_claimed \in Nat /\ well \in Nat /\ ReservedLamports \in Nat
  BY <1>1, SolventIsWellHolds DEF TypeOK
<1>5. CASE unclaimed < 0 \/ entangle_owed < unclaimed
  <2>1. Revert("MathOverflow")
    BY <1>5 DEF GiveBack
  <2> QED BY <2>1, MathOverflowKeeps
<1>6. CASE ~(unclaimed < 0 \/ entangle_owed < unclaimed)
  <2>1. /\ epochs' = [epochs EXCEPT ![i].status = status]
        /\ entangle_owed' = entangle_owed - unclaimed
        /\ entangle_reserve' = entangle_reserve + unclaimed
        /\ UNCHANGED <<now, config, hooks, wallet, well, ata, burn_reserve,
                       fusion_reserve, owed, totals, epoch_count, times, inflow, fault>>
    BY <1>6 DEF GiveBack
  <2> HIDE DEF unclaimed
  <2>2. /\ entangle_owed' \in Nat /\ entangle_reserve' \in Nat
        /\ entangle_reserve' + entangle_owed' = entangle_reserve + entangle_owed
    BY <1>3, <1>4, <1>6, <2>1
  <2>3. epochs' \in [0..epoch_count' - 1 -> EpochRec]
    BY <1>2, <2>1 DEF EpochRec
  <2>4. OwedLamports' = OwedLamports /\ ReservedLamports' = ReservedLamports
    <3>1. OwedLamports' = OwedLamports
      BY <2>1 DEF OwedLamports, Sum
    <3> QED BY <1>4, <2>1, <2>2, <3>1 DEF ReservedLamports
  <2>5. TypeOK'
    BY <1>1, <2>1, <2>2, <2>3 DEF TypeOK, times, totals
  <2>6. Solvent'
    <3>1. WellHolds(well, ReservedLamports)'
      BY <1>1, <2>1, <2>4, SolventIsWellHolds DEF IInv, WellHolds
    <3> QED BY <2>5, <3>1, SolventAfterStep
  <2>7. HooksValid' /\ NothingReservedYet' /\ WellCheckNeverFails'
    BY <1>1, <2>1 DEF HooksValid, NothingReservedYet, WellCheckNeverFails, Registered,
                     ValidParams
  <2>8. BooksBalance'
    <3>1. UNCHANGED <<burn_reserve, fusion_reserve, total_collected, total_protocol,
                      total_creator_paid, total_burn_sol, total_fused_sol, total_claimed>>
      BY <2>1 DEF totals
    <3> DEFINE rest == total_protocol + total_creator_paid + OwedLamports + burn_reserve
                       + total_burn_sol + fusion_reserve + total_fused_sol
    <3>2. rest \in Nat
      BY <1>4
    <3>3. rest' = rest
      BY <2>4, <3>1
    <3>4. /\ BooksBalance <=>
               total_collected = rest + entangle_reserve + entangle_owed + total_claimed
          /\ BooksBalance' <=>
               total_collected' = rest' + entangle_reserve' + entangle_owed' + total_claimed'
      BY DEF BooksBalance
    <3> HIDE DEF rest
    <3>5. rest + entangle_reserve' + entangle_owed' = rest + entangle_reserve + entangle_owed
      BY <1>3, <1>4, <2>1, <3>2
    <3> QED BY <1>1, <3>1, <3>3, <3>4, <3>5
  <2> QED BY <2>5, <2>6, <2>7, <2>8 DEF IInv
<1> QED BY <1>5, <1>6

-----------------------------------------------------------------------------
(* The theorems.                                                           *)

LEMMA InitEstablishes == Init => IInv
<1> SUFFICES ASSUME Init PROVE IInv
  OBVIOUS
<1>1. config \in ConfigRec
  BY WellAssumption DEF Init
<1>2. owed = [k \in Payee |-> 0] /\ OwedLamports = 0
  BY DEF Init, OwedLamports, Sum, Payee, TREASURY, LAUNCHER, Split
<1>3. ReservedLamports = 0
  BY <1>2 DEF Init, ReservedLamports
<1>4. epochs \in [0..epoch_count - 1 -> EpochRec]
  BY DEF Init
<1>5. TypeOK
  BY <1>1, <1>2, <1>4, WellAssumption DEF Init, TypeOK
<1>6. ~Registered
  BY DEF Init, Registered
<1>7. BooksBalance
  <2>1. /\ total_collected = 0 /\ total_protocol = 0 /\ total_creator_paid = 0
        /\ total_burn_sol = 0 /\ total_fused_sol = 0 /\ total_claimed = 0
        /\ burn_reserve = 0 /\ fusion_reserve = 0
        /\ entangle_reserve = 0 /\ entangle_owed = 0
    BY DEF Init
  <2> QED BY <1>2, <2>1 DEF BooksBalance
<1> QED BY <1>3, <1>5, <1>6, <1>7
        DEF Init, IInv, HooksValid, NothingReservedYet, Solvent, WellCheckNeverFails

LEMMA StepKeeps == IInv /\ [Next]_vars => IInv'
<1> SUFFICES ASSUME IInv, [Next]_vars PROVE IInv'
  OBVIOUS
<1>1. TypeOK
  BY DEF IInv
<1>2. ASSUME World \/ SyncMigration \/ UNCHANGED vars
      PROVE  IInv'
  <2>1. \A n \in Amounts : n \in Nat
    BY WellAssumption
  <2>2. UNCHANGED <<hooks, books, epochs, epoch_count, fault>> /\ well' \in Nat
        /\ well' >= well
    <3>1. CASE Donate
      BY <1>1, <2>1, <3>1 DEF Donate, Arrive, TypeOK
    <3>2. CASE Tick \/ SendWsol \/ ConfigChanges \/ \E w \in Owners : WalletChanges(w)
      BY <1>1, <3>2 DEF Tick, SendWsol, ConfigChanges, WalletChanges, TypeOK
    <3>3. CASE SyncMigration \/ UNCHANGED vars
      BY <1>1, <3>3 DEF SyncMigration, vars, TypeOK
    <3> QED BY <1>2, <3>1, <3>2, <3>3 DEF World
  <2>3. /\ now' \in Nat /\ ata' \in Nat /\ inflow' \in Nat /\ config' \in ConfigRec
        /\ wallet' \in [Wallet -> {"empty", "funded", "program"}]
        /\ created_at' \in Nat /\ last_burn_at' \in Nat /\ last_fusion_at' \in Nat
        /\ last_epoch_at' \in Nat /\ migrated_at' \in Nat
    <3>1. CASE Tick
      BY <1>1, <3>1 DEF Tick, TypeOK, times
    <3>2. CASE Donate
      BY <1>1, <2>1, <3>2 DEF Donate, Arrive, TypeOK, times
    <3>3. CASE SendWsol
      BY <1>1, <2>1, <3>3, WellAssumption DEF SendWsol, Arrive, TypeOK, times
    <3>4. CASE ConfigChanges
      BY <1>1, <3>4, WellAssumption DEF ConfigChanges, TypeOK, times
    <3>5. CASE \E w \in Owners : WalletChanges(w)
      BY <1>1, <3>5 DEF WalletChanges, TypeOK, times
    <3>6. CASE SyncMigration
      BY <1>1, <3>6 DEF SyncMigration, TypeOK
    <3>7. CASE UNCHANGED vars
      BY <1>1, <3>7 DEF vars, TypeOK, times
    <3> QED BY <1>2, <3>1, <3>2, <3>3, <3>4, <3>5, <3>6, <3>7 DEF World
  <2>4. TypeOK'
    BY <1>1, <2>2, <2>3 DEF TypeOK, books, reserves, totals
  <2> QED BY <2>2, <2>4, LedgerUntouched
<1>3. ASSUME Entanglement
      PROVE  IInv'
  <2>1. CASE \E tree \in Trees : PostEntanglement(tree)
    BY <2>1, PostKeeps
  <2>2. ASSUME NEW i \in DOMAIN epochs,
               \/ \E leaf \in DOMAIN epochs[i].leaves : Claim(i, leaf)
               \/ CloseEpoch(i)
               \/ CancelEpoch(i)
        PROVE  IInv'
    <3>1. Registered
      BY <1>1, <2>2 DEF IInv, NothingReservedYet, TypeOK
    <3>2. CASE \E leaf \in DOMAIN epochs[i].leaves : Claim(i, leaf)
      BY <3>1, <3>2, ClaimKeeps
    <3>3. CASE CloseEpoch(i)
      BY <3>1, <3>3, GiveBackKeeps DEF CloseEpoch
    <3>4. CASE CancelEpoch(i)
      BY <3>1, <3>4, GiveBackKeeps DEF CancelEpoch
    <3> QED BY <2>2, <3>2, <3>3, <3>4
  <2> QED BY <1>3, <2>1, <2>2 DEF Entanglement
<1>4. CASE Spending
  BY <1>4, BurnKeeps, FuseKeeps DEF Spending
<1> QED BY <1>2, <1>3, <1>4, RegisterKeeps, HarvestKeeps, PulseKeeps DEF Next

LEMMA IInvHolds == Spec => []IInv
<1>1. Init => IInv
  BY InitEstablishes
<1>2. IInv /\ [Next]_vars => IInv'
  BY StepKeeps
<1> QED BY <1>1, <1>2, PTL DEF Spec

\* Every lamport amount stays natural whatever instructions run in whatever order: no checked
\* subtraction of a reserve, a debt or the well's balance would ever go below zero.
THEOREM TypeCorrect == Spec => []TypeOK
<1>1. IInv => TypeOK
  BY DEF IInv
<1> QED BY <1>1, IInvHolds, PTL

\* The well of every coin always covers its rent-exempt minimum and everything reserved in it,
\* for all rents, bps, recipients, configs and amounts.
THEOREM WellStaysSolvent == Spec => []Solvent
<1>1. IInv => Solvent
  BY DEF IInv
<1> QED BY <1>1, IInvHolds, PTL

\* The running totals of every coin account for every lamport its pulses allocated.
THEOREM BooksAlwaysBalance == Spec => []BooksBalance
<1>1. IInv => BooksBalance
  BY DEF IInv
<1> QED BY <1>1, IInvHolds, PTL

\* assert_well_invariant never refuses an instruction whose own guards hold.
THEOREM WellCheckNeverRefuses == Spec => []WellCheckNeverFails
<1>1. IInv => WellCheckNeverFails
  BY DEF IInv
<1> QED BY <1>1, IInvHolds, PTL

LEMMA DebtStep ==
    ASSUME IInv, [Next]_vars, NEW k \in Payee, owed'[k] < owed[k]
    PROVE  owed'[k] = 0 /\ well - well' >= owed[k]
<1>1. /\ TypeOK /\ HooksValid /\ Solvent
      /\ owed[k] \in Nat
  BY DEF IInv, TypeOK
<1>2. ~(owed' = owed)
  BY <1>1
<1>3. Pulse
  <2>1. World \/ Register \/ SyncMigration \/ Harvest \/ UNCHANGED vars => owed' = owed
    BY DEF World, Tick, Donate, SendWsol, ConfigChanges, WalletChanges, Register,
           SyncMigration, Harvest, vars, books
  <2>2. Spending => owed' = owed
    BY DEF Spending, Burn, Fuse, Revert, books
  <2>3. Entanglement => owed' = owed
    BY DEF Entanglement, PostEntanglement, Claim, CloseEpoch, CancelEpoch, GiveBack,
           Revert, books
  <2> QED BY <1>2, <2>1, <2>2, <2>3 DEF Next
<1> DEFINE due == [p \in Payee |-> Due(p)]
<1>4. Registered /\ Available >= 0 /\ Available \in Int
  BY <1>1, <1>3, SolventIsWellHolds DEF Pulse
<1>5. PICK paid \in SUBSET Creditors :
         /\ owed' = [p \in Payee |-> IF p \in paid THEN 0
                                     ELSE IF p \in Unpayable THEN owed[p] ELSE Due(p)]
         /\ well' = well - Sum(Over(paid, due))
  BY <1>2, <1>3, <1>4 DEF Pulse, Revert, books
<1>6. Share \in [Payee -> Nat] /\ owed \in [Payee -> Nat]
  BY <1>1, <1>4, SharesAddUp DEF TypeOK
<1>7. Due(k) \in Nat /\ Due(k) >= owed[k]
  BY <1>1, <1>6 DEF Due
<1>8. k \in paid /\ owed'[k] = 0
  BY <1>1, <1>5, <1>7
<1>9. Sum(Over(paid, due)) \in Nat /\ Due(k) <= Sum(Over(paid, due))
  <2>1. Over(paid, due) \in [Payee -> Nat] /\ Over(paid, due)[k] = Due(k)
    BY <1>6, <1>8 DEF Over, Due
  <2> HIDE DEF due
  <2> QED BY <2>1, SumIsNat
<1>10. well \in Nat
  BY <1>1 DEF TypeOK
<1> HIDE DEF due
<1> QED BY <1>1, <1>5, <1>7, <1>8, <1>9, <1>10

\* A recipient's debt only grows until one pulse pays it whole, out of the well.
THEOREM DebtsArePaidWhole == Spec => DebtPaidWhole
<1>1. IInv /\ [Next]_vars =>
        [\A k \in Payee : owed'[k] < owed[k] => owed'[k] = 0 /\ well - well' >= owed[k]]_vars
  BY DebtStep
<1> QED BY <1>1, IInvHolds, PTL DEF Spec, DebtPaidWhole

\* No claim is paid before claims open, so nothing is claimed of an epoch that can still be
\* cancelled.
NothingClaimedYet ==
    \A i \in DOMAIN epochs :
        epochs[i].status = "open" /\ now < epochs[i].claim_start => epochs[i].claimed = 0

VetoInv == VetoIsTotal /\ NothingClaimedYet

LEMMA VetoStep == TypeOK /\ VetoInv /\ [Next]_vars => VetoInv'
<1> SUFFICES ASSUME TypeOK, VetoInv, [Next]_vars PROVE VetoInv'
  OBVIOUS
<1>1. /\ epochs \in [0..epoch_count - 1 -> EpochRec] /\ epoch_count \in Nat /\ now \in Nat
      /\ \A j \in DOMAIN epochs : epochs[j] \in EpochRec
      /\ config.claim_delay \in Nat
  BY DEF TypeOK, ConfigRec
<1>2. CASE UNCHANGED epochs
  <2>1. now' \in Nat /\ now' >= now
    <3>1. World \/ Register \/ SyncMigration \/ Harvest \/ UNCHANGED vars
            => now' \in {now, now + 1}
      BY DEF World, Tick, Donate, SendWsol, ConfigChanges, WalletChanges, Register,
             SyncMigration, Harvest, vars
    <3>2. Pulse \/ Spending => now' = now
      BY DEF Pulse, Spending, Burn, Fuse, Revert
    <3>3. Entanglement => now' = now
      BY DEF Entanglement, PostEntanglement, Claim, CloseEpoch, CancelEpoch, GiveBack,
             Revert
    <3> QED BY <1>1, <3>1, <3>2, <3>3 DEF Next
  <2>2. \A i \in DOMAIN epochs : epochs[i].claim_start \in Nat
    BY <1>1 DEF EpochRec
  <2> QED BY <1>1, <1>2, <2>1, <2>2 DEF VetoInv, VetoIsTotal, NothingClaimedYet
<1>3. ASSUME NEW tree \in Trees, PostEntanglement(tree)
      PROVE  VetoInv'
  <2>1. /\ epochs' = [i \in 0..epoch_count |->
                         IF i < epoch_count THEN epochs[i]
                         ELSE [ total |-> tree.total, claimed |-> 0,
                                leaves |-> tree.leaves, bitmap |-> {},
                                claim_start |-> now + config.claim_delay,
                                expires_at |-> now + EPOCH_TTL, status |-> "open" ]]
        /\ now' = now
    BY <1>3 DEF PostEntanglement
  <2>2. \A i \in DOMAIN epochs' : \/ i \in DOMAIN epochs /\ epochs'[i] = epochs[i]
                                  \/ epochs'[i].status = "open" /\ epochs'[i].claimed = 0
    BY <1>1, <2>1
  <2> QED BY <2>1, <2>2 DEF VetoInv, VetoIsTotal, NothingClaimedYet
<1>4. ASSUME NEW i \in DOMAIN epochs, NEW leaf \in DOMAIN epochs[i].leaves,
             Claim(i, leaf), ~UNCHANGED epochs
      PROVE  VetoInv'
  <2>1. /\ epochs[i].status = "open" /\ epochs[i].claim_start <= now
        /\ now' = now
        /\ epochs' = [epochs EXCEPT ![i].claimed = @ + epochs[i].leaves[leaf],
                                    ![i].bitmap = @ \cup {leaf}]
    BY <1>4 DEF Claim, Claimable, InWindow, OpenEpoch, Revert
  <2>2. epochs[i].claim_start \in Nat
    BY <1>1 DEF EpochRec
  <2>3. /\ DOMAIN epochs' = DOMAIN epochs
        /\ \A j \in DOMAIN epochs : j # i => epochs'[j] = epochs[j]
        /\ epochs'[i].status = "open" /\ epochs'[i].claim_start = epochs[i].claim_start
    BY <1>1, <2>1 DEF EpochRec
  <2> QED BY <1>1, <2>1, <2>2, <2>3 DEF VetoInv, VetoIsTotal, NothingClaimedYet
<1>5. ASSUME NEW i \in DOMAIN epochs, CloseEpoch(i) \/ CancelEpoch(i), ~UNCHANGED epochs
      PROVE  VetoInv'
  <2>1. /\ epochs[i].status = "open"
        /\ now' = now
        /\ \/ epochs' = [epochs EXCEPT ![i].status = "closed"]
           \/ /\ epochs' = [epochs EXCEPT ![i].status = "cancelled"]
              /\ now < epochs[i].claim_start
    BY <1>5 DEF CloseEpoch, CancelEpoch, GiveBack, OpenEpoch, Revert
  <2>2. /\ DOMAIN epochs' = DOMAIN epochs
        /\ \A j \in DOMAIN epochs : j # i => epochs'[j] = epochs[j]
        /\ epochs'[i].claimed = epochs[i].claimed
        /\ \/ epochs'[i].status = "closed"
           \/ epochs'[i].status = "cancelled" /\ now < epochs[i].claim_start
    BY <1>1, <2>1, SMTT(60) DEF EpochRec
  <2> QED BY <2>1, <2>2 DEF VetoInv, VetoIsTotal, NothingClaimedYet
<1> QED BY <1>2, <1>3, <1>4, <1>5, ZenonT(60)
        DEF Next, World, Tick, Donate, SendWsol, ConfigChanges, WalletChanges, Register,
            SyncMigration, Harvest, Pulse, Spending, Burn, Fuse, Entanglement, Revert, vars

\* The authority's veto is total: whatever the claim delays of the configs, a cancelled epoch
\* has paid nobody.
THEOREM VetoStaysTotal == Spec => []VetoIsTotal
<1>1. Init => VetoInv
  BY DEF Init, VetoInv, VetoIsTotal, NothingClaimedYet
<1>2. TypeOK /\ VetoInv /\ [Next]_vars => VetoInv'
  BY VetoStep
<1>3. VetoInv => VetoIsTotal
  BY DEF VetoInv
<1> QED BY <1>1, <1>2, <1>3, TypeCorrect, PTL DEF Spec


-----------------------------------------------------------------------------
(* Induction, and the sums it gives.                                       *)

\* Every set of naturals that is not empty has a least element.
LEMMA LeastNatural ==
    ASSUME NEW S \in SUBSET Nat, S # {}
    PROVE  \E m \in S : \A k \in S : m <= k
<1> DEFINE R == OpToRel(<, Nat)
<1>1. IsWellFoundedOn(R, Nat)
  BY NatLessThanWellFounded
<1>2. \A x, y \in Nat : x < y => <<x, y>> \in R
  BY DEF OpToRel
<1> HIDE DEF R
<1>3. PICK m \in S : \A y \in S : <<y, m>> \notin R
  BY <1>1, WFMin
<1>4. \A k \in S : ~(k < m)
  BY <1>2, <1>3
<1> QED BY <1>4

\* A set that holds 0, and with each natural the next, holds them all.
LEMMA SetInduction ==
    ASSUME NEW S, 0 \in S, \A n \in Nat : n \in S => n + 1 \in S
    PROVE  \A n \in Nat : n \in S
<1> DEFINE T == {n \in Nat : n \notin S}
<1> SUFFICES ASSUME T # {} PROVE FALSE
  OBVIOUS
<1>1. PICK m \in T : \A k \in T : m <= k
  BY LeastNatural
<1>2. m # 0 /\ m - 1 \in Nat /\ m - 1 \notin T
  BY <1>1
<1> QED BY <1>1, <1>2

\* s holds the sums of f up to n.
Prefix(s, n, f) == s = [k \in 0..n |-> IF k = 0 THEN 0 ELSE s[k - 1] + f[k]]

LEMMA PrefixExists ==
    ASSUME NEW f
    PROVE  \A n \in Nat : \E s : Prefix(s, n, f)
<1> DEFINE S == {n \in Nat : \E s : Prefix(s, n, f)}
<1>1. 0 \in S
  <2> DEFINE s == [k \in 0..0 |-> 0]
  <2>1. Prefix(s, 0, f)
    BY DEF Prefix
  <2> QED BY <2>1
<1>2. ASSUME NEW n \in Nat, n \in S
      PROVE  n + 1 \in S
  <2>1. PICK s : Prefix(s, n, f)
    BY <1>2
  <2> DEFINE u == [k \in 0..n + 1 |-> IF k = n + 1 THEN s[n] + f[n + 1] ELSE s[k]]
  <2>2. Prefix(u, n + 1, f)
    <3>1. ASSUME NEW k \in 0..n + 1
          PROVE  u[k] = IF k = 0 THEN 0 ELSE u[k - 1] + f[k]
      <4>1. CASE k = 0
        BY <2>1, <4>1 DEF Prefix
      <4>2. CASE k \in 1..n
        <5>1. s[k] = s[k - 1] + f[k]
          BY <2>1, <4>2 DEF Prefix
        <5> QED BY <4>2, <5>1
      <4>3. CASE k = n + 1
        BY <4>3
      <4> QED BY <4>1, <4>2, <4>3
    <3> QED BY <3>1 DEF Prefix
  <2> QED BY <2>2
<1> HIDE DEF S
<1>3. \A n \in Nat : n \in S
  BY <1>1, <1>2, SetInduction
<1> QED BY <1>3 DEF S

LEMMA PrefixUnique ==
    ASSUME NEW f, NEW m \in Nat, NEW n \in Nat, m <= n,
           NEW s, NEW u, Prefix(s, m, f), Prefix(u, n, f)
    PROVE  s[m] = u[m]
<1> DEFINE S == {k \in Nat : k <= m => s[k] = u[k]}
<1>1. 0 \in S
  BY DEF Prefix
<1>2. ASSUME NEW k \in Nat, k \in S
      PROVE  k + 1 \in S
  <2>1. CASE k + 1 <= m
    <3>1. s[k + 1] = s[k] + f[k + 1] /\ u[k + 1] = u[k] + f[k + 1]
      BY <2>1 DEF Prefix
    <3> QED BY <1>2, <2>1, <3>1
  <2> QED BY <2>1
<1> HIDE DEF S
<1>3. \A k \in Nat : k \in S
  BY <1>1, <1>2, SetInduction
<1> QED BY <1>3 DEF S

LEMMA SumToIsPrefix ==
    ASSUME NEW f, NEW n \in Nat
    PROVE  \E s : Prefix(s, n, f) /\ SumTo(n, f) = s[n]
<1> DEFINE c == CHOOSE s : Prefix(s, n, f)
<1>1. Prefix(c, n, f)
  BY PrefixExists
<1>2. SumTo(n, f) = c[n]
  BY DEF SumTo, Prefix
<1> QED BY <1>1, <1>2

\* SumTo satisfies the equations it is defined by.
LEMMA SumToStep ==
    ASSUME NEW f
    PROVE  /\ SumTo(0, f) = 0
           /\ \A n \in Nat : SumTo(n + 1, f) = SumTo(n, f) + f[n + 1]
<1>1. SumTo(0, f) = 0
  <2>1. PICK s : Prefix(s, 0, f) /\ SumTo(0, f) = s[0]
    BY SumToIsPrefix
  <2> QED BY <2>1 DEF Prefix
<1>2. ASSUME NEW n \in Nat
      PROVE  SumTo(n + 1, f) = SumTo(n, f) + f[n + 1]
  <2>1. PICK s : Prefix(s, n, f) /\ SumTo(n, f) = s[n]
    BY SumToIsPrefix
  <2>2. PICK u : Prefix(u, n + 1, f) /\ SumTo(n + 1, f) = u[n + 1]
    BY SumToIsPrefix
  <2>3. s[n] = u[n]
    BY <2>1, <2>2, PrefixUnique
  <2>4. u[n + 1] = u[n] + f[n + 1]
    BY <2>2 DEF Prefix
  <2> QED BY <2>1, <2>2, <2>3, <2>4
<1> QED BY <1>1, <1>2

\* Only the summands count.
LEMMA SumToAgrees ==
    ASSUME NEW n \in Nat, NEW f, NEW g, \A k \in 1..n : f[k] = g[k]
    PROVE  SumTo(n, f) = SumTo(n, g)
<1> DEFINE S == {m \in Nat : m <= n => SumTo(m, f) = SumTo(m, g)}
<1>1. 0 \in S
  BY SumToStep
<1>2. ASSUME NEW m \in Nat, m \in S
      PROVE  m + 1 \in S
  <2>1. CASE m + 1 <= n
    <3>1. m + 1 \in 1..n /\ SumTo(m, f) = SumTo(m, g)
      BY <1>2, <2>1
    <3>2. SumTo(m + 1, f) = SumTo(m, f) + f[m + 1] /\ SumTo(m + 1, g) = SumTo(m, g) + g[m + 1]
      BY SumToStep
    <3> QED BY <3>1, <3>2
  <2> QED BY <2>1
<1> HIDE DEF S
<1>3. \A m \in Nat : m \in S
  BY <1>1, <1>2, SetInduction
<1> QED BY <1>3 DEF S

\* A sum of integers is one, a sum of naturals is one too, and no summand exceeds it.
LEMMA SumToIsInt ==
    ASSUME NEW n \in Nat, NEW f, \A k \in 1..n : f[k] \in Int
    PROVE  \A m \in 0..n : SumTo(m, f) \in Int
<1> DEFINE S == {m \in Nat : m <= n => SumTo(m, f) \in Int}
<1>1. 0 \in S
  BY SumToStep
<1>2. ASSUME NEW m \in Nat, m \in S
      PROVE  m + 1 \in S
  <2>1. CASE m + 1 <= n
    <3>1. f[m + 1] \in Int /\ SumTo(m, f) \in Int
      BY <1>2, <2>1
    <3>2. SumTo(m + 1, f) = SumTo(m, f) + f[m + 1]
      BY SumToStep
    <3> QED BY <3>1, <3>2
  <2> QED BY <2>1
<1> HIDE DEF S
<1>3. \A m \in Nat : m \in S
  BY <1>1, <1>2, SetInduction
<1> QED BY <1>3 DEF S

LEMMA SumToCovers ==
    ASSUME NEW n \in Nat, NEW f, \A k \in 1..n : f[k] \in Nat
    PROVE  SumTo(n, f) \in Nat /\ \A k \in 1..n : f[k] <= SumTo(n, f)
<1> DEFINE S == {m \in Nat : m <= n => /\ SumTo(m, f) \in Nat
                                       /\ \A k \in 1..m : f[k] <= SumTo(m, f)}
<1>1. 0 \in S
  BY SumToStep
<1>2. ASSUME NEW m \in Nat, m \in S
      PROVE  m + 1 \in S
  <2>1. CASE m + 1 <= n
    <3>1. f[m + 1] \in Nat /\ SumTo(m, f) \in Nat /\ \A k \in 1..m : f[k] <= SumTo(m, f)
      BY <1>2, <2>1
    <3>2. SumTo(m + 1, f) = SumTo(m, f) + f[m + 1]
      BY SumToStep
    <3>3. \A k \in 1..m : f[k] \in Nat
      BY <2>1
    <3>4. SumTo(m + 1, f) \in Nat /\ SumTo(m + 1, f) >= SumTo(m, f)
          /\ SumTo(m + 1, f) >= f[m + 1]
      BY <3>1, <3>2
    <3>5. \A k \in 1..m + 1 : f[k] <= SumTo(m + 1, f)
      <4> TAKE k \in 1..m + 1
      <4>1. CASE k = m + 1
        BY <3>1, <3>4, <4>1
      <4>2. CASE k \in 1..m
        BY <3>1, <3>3, <3>4, <4>2
      <4> QED BY <4>1, <4>2
    <3> QED BY <3>4, <3>5
  <2> QED BY <2>1
<1> HIDE DEF S
<1>3. \A m \in Nat : m \in S
  BY <1>1, <1>2, SetInduction
<1> QED BY <1>3 DEF S

\* One summand changes: so does the sum, by as much.
LEMMA SumToChanges ==
    ASSUME NEW n \in Nat, NEW f, NEW g, NEW j \in 1..n,
           \A k \in 1..n : f[k] \in Int /\ g[k] \in Int,
           \A k \in (1..n) \ {j} : f[k] = g[k]
    PROVE  SumTo(n, g) = SumTo(n, f) + (g[j] - f[j])
<1> DEFINE S == {m \in Nat : j <= m /\ m <= n => SumTo(m, g) = SumTo(m, f) + (g[j] - f[j])}
<1>0. /\ \A m \in 0..n : SumTo(m, f) \in Int /\ SumTo(m, g) \in Int
      /\ f[j] \in Int /\ g[j] \in Int
  BY SumToIsInt
<1>1. 0 \in S
  OBVIOUS
<1>2. ASSUME NEW m \in Nat, m \in S
      PROVE  m + 1 \in S
  <2>1. SumTo(m + 1, f) = SumTo(m, f) + f[m + 1] /\ SumTo(m + 1, g) = SumTo(m, g) + g[m + 1]
    BY SumToStep
  <2>2. CASE m + 1 = j
    <3>1. \A k \in 1..m : f[k] = g[k]
      BY <2>2
    <3>2. SumTo(m, f) = SumTo(m, g)
      BY <3>1, SumToAgrees
    <3>3. SumTo(m, f) \in Int
      BY <1>0, <2>2
    <3> QED BY <1>0, <2>1, <2>2, <3>2, <3>3
  <2>3. CASE j < m + 1 /\ m + 1 <= n
    <3>1. f[m + 1] = g[m + 1] /\ f[m + 1] \in Int /\ SumTo(m, f) \in Int /\ SumTo(m, g) \in Int
      BY <1>0, <2>3
    <3>2. SumTo(m, g) = SumTo(m, f) + (g[j] - f[j])
      BY <1>2, <2>3
    <3> QED BY <1>0, <2>1, <3>1, <3>2
  <2> QED BY <2>2, <2>3
<1> HIDE DEF S
<1>3. \A m \in Nat : m \in S
  BY <1>1, <1>2, SetInduction
<1> QED BY <1>3 DEF S

\* Nothing adds up to nothing.
LEMMA SumToOfNothing ==
    ASSUME NEW n \in Nat, NEW f, \A k \in 1..n : f[k] = 0
    PROVE  SumTo(n, f) = 0
<1> DEFINE S == {m \in Nat : m <= n => SumTo(m, f) = 0}
<1>1. 0 \in S
  BY SumToStep
<1>2. ASSUME NEW m \in Nat, m \in S
      PROVE  m + 1 \in S
  BY <1>2, SumToStep
<1> HIDE DEF S
<1>3. \A m \in Nat : m \in S
  BY <1>1, <1>2, SetInduction
<1> QED BY <1>3 DEF S

-----------------------------------------------------------------------------
(* The epochs are exact, so that no check fails.                           *)

\* What each epoch still owes its claimants, and what the leaves its bitmap marks were paid.
Debts == [k \in 1..epoch_count |-> LET e == epochs[k - 1]
                                   IN IF e.status = "open" THEN e.total - e.claimed ELSE 0]
Paid(e) == [leaf \in DOMAIN e.leaves |-> IF leaf \in e.bitmap THEN e.leaves[leaf] ELSE 0]

EpochExact(e) == e.claimed = SumTo(Len(e.leaves), Paid(e)) /\ e.claimed <= e.total

LEMMA EpochsExactParts ==
    EpochsExact <=> /\ entangle_owed = SumTo(epoch_count, Debts)
                    /\ \A i \in DOMAIN epochs : EpochExact(epochs[i])
BY DEF EpochsExact, Debts, EpochExact, Paid

\* Exact epochs owe naturals, none more than all of them together.
LEMMA DebtsAreNat ==
    ASSUME TypeOK, EpochsExact
    PROVE  /\ \A k \in 1..epoch_count : Debts[k] \in Nat /\ Debts[k] <= entangle_owed
           /\ \A i \in DOMAIN epochs :
                 /\ i + 1 \in 1..epoch_count
                 /\ OpenEpoch(i) => Debts[i + 1] = Unclaimed(i) /\ Unclaimed(i) \in Nat
<1>1. /\ epoch_count \in Nat /\ epochs \in [0..epoch_count - 1 -> EpochRec]
      /\ \A i \in 0..epoch_count - 1 : EpochExact(epochs[i])
      /\ entangle_owed = SumTo(epoch_count, Debts)
  BY EpochsExactParts DEF TypeOK
<1>2. ASSUME NEW i \in 0..epoch_count - 1
      PROVE  /\ i + 1 \in 1..epoch_count
             /\ Debts[i + 1] = IF OpenEpoch(i) THEN Unclaimed(i) ELSE 0
             /\ Unclaimed(i) \in Nat
  <2>1. i + 1 \in 1..epoch_count /\ (i + 1) - 1 = i
    BY <1>1
  <2>2. epochs[i].total \in Nat /\ epochs[i].claimed \in Nat
    BY <1>1 DEF EpochRec
  <2>3. epochs[i].claimed <= epochs[i].total
    BY <1>1 DEF EpochExact
  <2>4. Unclaimed(i) \in Nat
    BY <2>2, <2>3 DEF Unclaimed
  <2> QED BY <2>1, <2>4 DEF Debts, OpenEpoch, Unclaimed
<1>3. \A k \in 1..epoch_count : Debts[k] \in Nat
  <2> TAKE k \in 1..epoch_count
  <2>1. k - 1 \in 0..epoch_count - 1 /\ (k - 1) + 1 = k
    BY <1>1
  <2>2. /\ Debts[(k - 1) + 1] = IF OpenEpoch(k - 1) THEN Unclaimed(k - 1) ELSE 0
        /\ Unclaimed(k - 1) \in Nat
    BY <1>2, <2>1
  <2> QED BY <2>1, <2>2
<1>4. \A k \in 1..epoch_count : Debts[k] <= entangle_owed
  BY <1>1, <1>3, SumToCovers
<1> QED BY <1>1, <1>2, <1>3, <1>4

\* What a leaf of an epoch is paid is natural.
LEMMA PaidIsInt ==
    ASSUME NEW e \in EpochRec
    PROVE  \A k \in 1..Len(e.leaves) : Paid(e)[k] \in Int
<1>1. e.leaves \in Seq(Nat) /\ DOMAIN e.leaves = 1..Len(e.leaves)
  BY DEF EpochRec
<1>2. \A k \in 1..Len(e.leaves) : e.leaves[k] \in Nat
  BY <1>1
<1> QED BY <1>1, <1>2 DEF Paid

LEMMA ExactKept ==
    ASSUME EpochsExact, UNCHANGED <<epochs, epoch_count, entangle_owed>>
    PROVE  EpochsExact'
BY DEF EpochsExact

LEMMA PostExact ==
    ASSUME TypeOK, EpochsExact, NEW tree \in Trees, PostEntanglement(tree)
    PROVE  EpochsExact'
<1> DEFINE new == [ total |-> tree.total, claimed |-> 0, leaves |-> tree.leaves,
                    bitmap |-> {}, claim_start |-> now + config.claim_delay,
                    expires_at |-> now + EPOCH_TTL, status |-> "open" ]
<1>1. /\ epochs' = [i \in 0..epoch_count |-> IF i < epoch_count THEN epochs[i] ELSE new]
      /\ epoch_count' = epoch_count + 1
      /\ entangle_owed' = entangle_owed + tree.total
      /\ tree.total > 0
  BY DEF PostEntanglement
<1>2. tree.total \in Nat /\ tree.leaves \in Seq(Nat) /\ epoch_count \in Nat
      /\ epochs \in [0..epoch_count - 1 -> EpochRec] /\ entangle_owed \in Nat
  BY WellAssumption DEF TreeRec, TypeOK
<1>3. /\ entangle_owed = SumTo(epoch_count, Debts)
      /\ \A i \in DOMAIN epochs : EpochExact(epochs[i])
  BY EpochsExactParts
<1>4. new.total = tree.total /\ new.claimed = 0 /\ new.status = "open" /\ new.bitmap = {}
      /\ new.leaves = tree.leaves
  OBVIOUS
<1> HIDE DEF new
<1>5. /\ \A i \in 0..epoch_count - 1 : epochs'[i] = epochs[i]
      /\ epochs'[epoch_count] = new
      /\ DOMAIN epochs' = 0..epoch_count
  BY <1>1, <1>2
<1>6. \A k \in 1..epoch_count : Debts'[k] = Debts[k]
  <2> TAKE k \in 1..epoch_count
  <2>1. k \in 1..epoch_count + 1 /\ k - 1 \in 0..epoch_count - 1
    BY <1>2
  <2>2. epochs'[k - 1] = epochs[k - 1]
    BY <1>5, <2>1
  <2> QED BY <1>1, <2>1, <2>2 DEF Debts
<1>7. Debts'[epoch_count + 1] = tree.total
  <2>1. epoch_count + 1 \in 1..epoch_count + 1 /\ (epoch_count + 1) - 1 = epoch_count
    BY <1>2
  <2>2. Debts'[epoch_count + 1] = IF new.status = "open" THEN new.total - new.claimed ELSE 0
    BY <1>1, <1>5, <2>1 DEF Debts
  <2> QED BY <1>2, <1>4, <2>2
<1>8. SumTo(epoch_count, Debts') = SumTo(epoch_count, Debts)
  BY <1>2, <1>6, SumToAgrees
<1>9. SumTo(epoch_count + 1, Debts') = SumTo(epoch_count, Debts') + Debts'[epoch_count + 1]
  BY <1>2, SumToStep
<1>10. entangle_owed' = SumTo(epoch_count', Debts')
  BY <1>1, <1>3, <1>7, <1>8, <1>9
<1>11. EpochExact(new)
  <2>1. Len(new.leaves) \in Nat /\ DOMAIN new.leaves = 1..Len(new.leaves)
    BY <1>2, <1>4
  <2>2. \A k \in 1..Len(new.leaves) : Paid(new)[k] = 0
    BY <1>4, <2>1 DEF Paid
  <2>3. SumTo(Len(new.leaves), Paid(new)) = 0
    BY <2>1, <2>2, SumToOfNothing
  <2> QED BY <1>2, <1>4, <2>3 DEF EpochExact
<1>12. \A i \in DOMAIN epochs' : EpochExact(epochs'[i])
  <2> TAKE i \in DOMAIN epochs'
  <2>1. CASE i \in 0..epoch_count - 1
    BY <1>2, <1>3, <1>5, <2>1
  <2>2. CASE i = epoch_count
    BY <1>5, <1>11, <2>2
  <2> QED BY <1>2, <1>5, <2>1, <2>2
<1>13. EpochsExact' <=> /\ entangle_owed' = SumTo(epoch_count', Debts')
                        /\ \A i \in DOMAIN epochs' : EpochExact(epochs'[i])
  BY DEF EpochsExact, Debts, EpochExact, Paid
<1> QED BY <1>10, <1>12, <1>13

\* One epoch changes, and entangle_owed by as much as what it owes.
LEMMA OneEpochChanges ==
    ASSUME TypeOK, EpochsExact, NEW i \in DOMAIN epochs, OpenEpoch(i), NEW e \in EpochRec,
           epochs' = [epochs EXCEPT ![i] = e], epoch_count' = epoch_count,
           EpochExact(e),
           entangle_owed' = entangle_owed - Unclaimed(i)
                              + (IF e.status = "open" THEN e.total - e.claimed ELSE 0)
    PROVE  EpochsExact'
<1>1. /\ epoch_count \in Nat /\ epochs \in [0..epoch_count - 1 -> EpochRec]
      /\ i \in 0..epoch_count - 1 /\ entangle_owed \in Nat
  BY DEF TypeOK
<1>2. /\ entangle_owed = SumTo(epoch_count, Debts)
      /\ \A k \in DOMAIN epochs : EpochExact(epochs[k])
  BY EpochsExactParts
<1>3. /\ \A k \in 1..epoch_count : Debts[k] \in Nat
      /\ i + 1 \in 1..epoch_count /\ Debts[i + 1] = Unclaimed(i) /\ Unclaimed(i) \in Nat
  BY DebtsAreNat
<1>4. /\ epochs'[i] = e /\ DOMAIN epochs' = DOMAIN epochs
      /\ \A k \in DOMAIN epochs : k # i => epochs'[k] = epochs[k]
  BY <1>1
<1> DEFINE owes == IF e.status = "open" THEN e.total - e.claimed ELSE 0
<1>5. owes \in Int
  BY DEF EpochRec
<1>6. Debts'[i + 1] = owes
  <2>1. (i + 1) - 1 = i
    BY <1>1
  <2> QED BY <1>3, <1>4, <2>1 DEF Debts
<1>7. \A k \in (1..epoch_count) \ {i + 1} : Debts'[k] = Debts[k]
  <2> TAKE k \in (1..epoch_count) \ {i + 1}
  <2>1. k - 1 \in 0..epoch_count - 1 /\ k - 1 # i
    BY <1>1
  <2>2. epochs'[k - 1] = epochs[k - 1]
    BY <1>1, <1>4, <2>1
  <2> QED BY <2>2 DEF Debts
<1> HIDE DEF owes
<1>8. \A k \in 1..epoch_count : Debts[k] \in Int /\ Debts'[k] \in Int
  BY <1>3, <1>5, <1>6, <1>7
<1>9. SumTo(epoch_count, Debts') = SumTo(epoch_count, Debts) + (Debts'[i + 1] - Debts[i + 1])
  BY <1>1, <1>3, <1>7, <1>8, SumToChanges, ZenonT(60)
<1>10. entangle_owed' = SumTo(epoch_count', Debts')
  BY <1>1, <1>2, <1>3, <1>5, <1>6, <1>9 DEF owes
<1>11. \A k \in DOMAIN epochs' : EpochExact(epochs'[k])
  BY <1>2, <1>4
<1>12. EpochsExact' <=> /\ entangle_owed' = SumTo(epoch_count', Debts')
                        /\ \A k \in DOMAIN epochs' : EpochExact(epochs'[k])
  BY DEF EpochsExact, Debts, EpochExact, Paid
<1> QED BY <1>10, <1>11, <1>12

LEMMA ClaimExact ==
    ASSUME TypeOK, EpochsExact, NEW i \in DOMAIN epochs, NEW leaf \in DOMAIN epochs[i].leaves,
           Claim(i, leaf)
    PROVE  EpochsExact' /\ (fault' = fault \/ Revert("WellInvariant"))
<1> DEFINE amount == epochs[i].leaves[leaf]
           e == [epochs[i] EXCEPT !.claimed = @ + amount, !.bitmap = @ \cup {leaf}]
<1>1. /\ epoch_count \in Nat /\ epochs \in [0..epoch_count - 1 -> EpochRec]
      /\ i \in 0..epoch_count - 1 /\ entangle_owed \in Nat /\ epochs[i] \in EpochRec
  BY DEF TypeOK
<1>2. /\ OpenEpoch(i) /\ leaf \notin epochs[i].bitmap
      /\ epochs[i].claimed + amount <= epochs[i].total
  BY DEF Claim, Claimable
<1>3. /\ epochs[i].leaves \in Seq(Nat) /\ epochs[i].claimed \in Nat /\ epochs[i].total \in Nat
      /\ epochs[i].bitmap \in SUBSET Nat
  BY <1>1 DEF EpochRec
<1>4. /\ leaf \in 1..Len(epochs[i].leaves) /\ amount \in Nat
      /\ DOMAIN epochs[i].leaves = 1..Len(epochs[i].leaves) /\ Len(epochs[i].leaves) \in Nat
  BY <1>3
<1>5. amount <= entangle_owed
  <2>1. Unclaimed(i) \in Nat /\ Unclaimed(i) <= entangle_owed
    BY <1>2, DebtsAreNat
  <2>2. amount <= Unclaimed(i)
    BY <1>2, <1>3, <1>4 DEF Unclaimed
  <2> HIDE DEF amount
  <2> QED BY <1>1, <1>4, <2>1, <2>2
<1>6. e \in EpochRec
  <2>1. epochs[i].claimed + amount \in Nat /\ epochs[i].bitmap \cup {leaf} \in SUBSET Nat
    BY <1>3, <1>4
  <2> HIDE DEF amount
  <2> QED BY <1>1, <2>1 DEF EpochRec
<1>7. /\ e.claimed = epochs[i].claimed + amount /\ e.bitmap = epochs[i].bitmap \cup {leaf}
      /\ e.leaves = epochs[i].leaves /\ e.total = epochs[i].total /\ e.status = "open"
  BY <1>1, <1>2 DEF EpochRec, OpenEpoch
<1>8. EpochExact(e)
  <2>1. EpochExact(epochs[i])
    BY EpochsExactParts
  <2> DEFINE n == Len(epochs[i].leaves)
             f == Paid(epochs[i])
             g == Paid(e)
  <2>2. f[leaf] = 0 /\ g[leaf] = amount
    BY <1>2, <1>4, <1>7 DEF Paid
  <2>3. \A k \in (1..n) \ {leaf} : f[k] = g[k]
    BY <1>4, <1>7 DEF Paid
  <2>4. \A k \in 1..n : f[k] \in Int /\ g[k] \in Int
    BY <1>1, <1>6, <1>7, PaidIsInt
  <2>5. SumTo(n, g) = SumTo(n, f) + (g[leaf] - f[leaf])
    <3> HIDE DEF f, g, e
    <3> QED BY <1>4, <2>3, <2>4, SumToChanges
  <2>6. epochs[i].claimed = SumTo(n, f)
    BY <2>1 DEF EpochExact
  <2>7. e.claimed = SumTo(n, g)
    <3> HIDE DEF f, g, e, amount
    <3> QED BY <1>3, <1>4, <1>7, <2>2, <2>5, <2>6
  <2> QED BY <1>2, <1>7, <2>7 DEF EpochExact
<1>9. CASE Revert("WellInvariant")
  BY <1>9, ExactKept DEF Revert, books, reserves
<1>10. CASE ~Revert("WellInvariant")
  <2>1. /\ epochs' = [epochs EXCEPT ![i].claimed = @ + amount, ![i].bitmap = @ \cup {leaf}]
        /\ entangle_owed' = entangle_owed - amount
        /\ epoch_count' = epoch_count /\ fault' = fault
    <3>1. ~(entangle_owed < amount)
      <4> HIDE DEF amount
      <4> QED BY <1>1, <1>4, <1>5
    <3> QED BY <1>10, <3>1 DEF Claim
  <2>2. epochs' = [epochs EXCEPT ![i] = e]
    BY <1>1, <2>1
  <2>3. entangle_owed' = entangle_owed - Unclaimed(i)
                           + (IF e.status = "open" THEN e.total - e.claimed ELSE 0)
    <3> HIDE DEF e, amount
    <3> QED BY <1>1, <1>3, <1>4, <1>7, <2>1 DEF Unclaimed
  <2> HIDE DEF e
  <2> QED BY <1>2, <1>6, <1>8, <2>1, <2>2, <2>3, OneEpochChanges
<1> QED BY <1>9, <1>10

LEMMA GiveBackExact ==
    ASSUME TypeOK, EpochsExact, NEW i \in DOMAIN epochs, OpenEpoch(i),
           NEW status \in {"closed", "cancelled"}, GiveBack(i, status)
    PROVE  EpochsExact' /\ fault' = fault
<1> DEFINE e == [epochs[i] EXCEPT !.status = status]
<1>1. /\ epoch_count \in Nat /\ epochs \in [0..epoch_count - 1 -> EpochRec]
      /\ i \in 0..epoch_count - 1 /\ entangle_owed \in Nat /\ epochs[i] \in EpochRec
  BY DEF TypeOK
<1>2. Unclaimed(i) \in Nat /\ Unclaimed(i) <= entangle_owed
  BY DebtsAreNat
<1>3. /\ epochs' = [epochs EXCEPT ![i].status = status]
      /\ entangle_owed' = entangle_owed - Unclaimed(i)
      /\ epoch_count' = epoch_count /\ fault' = fault
  <2>1. ~(Unclaimed(i) < 0 \/ entangle_owed < Unclaimed(i))
    BY <1>1, <1>2
  <2> QED BY <2>1 DEF GiveBack
<1>4. e \in EpochRec /\ e.status = status /\ e.total = epochs[i].total
      /\ e.claimed = epochs[i].claimed /\ e.leaves = epochs[i].leaves
      /\ e.bitmap = epochs[i].bitmap
  BY <1>1 DEF EpochRec
<1>5. EpochExact(e)
  <2>1. EpochExact(epochs[i])
    BY EpochsExactParts
  <2>2. Paid(e) = Paid(epochs[i])
    BY <1>4 DEF Paid
  <2> QED BY <1>4, <2>1, <2>2 DEF EpochExact
<1>6. epochs' = [epochs EXCEPT ![i] = e]
  BY <1>1, <1>3
<1>7. entangle_owed' = entangle_owed - Unclaimed(i)
                         + (IF e.status = "open" THEN e.total - e.claimed ELSE 0)
  BY <1>1, <1>2, <1>3, <1>4
<1> HIDE DEF e
<1> QED BY <1>3, <1>4, <1>5, <1>6, <1>7, OneEpochChanges

LEMMA ExactStep ==
    ASSUME IInv, EpochsExact, [Next]_vars
    PROVE  EpochsExact' /\ (NoFault /\ "WellInvariant" \notin fault' => NoFault')
<1>1. TypeOK
  BY DEF IInv
<1>2. CASE World \/ Register \/ SyncMigration \/ UNCHANGED vars
  <2>1. UNCHANGED <<epochs, epoch_count, entangle_owed, fault>>
    BY <1>2 DEF World, Tick, Donate, SendWsol, ConfigChanges, WalletChanges, Register,
                SyncMigration, vars, books, reserves
  <2> QED BY <2>1, ExactKept DEF NoFault
<1>3. CASE Harvest \/ Pulse \/ Spending
  <2> DEFINE Kept == /\ UNCHANGED <<epochs, epoch_count, entangle_owed>>
                     /\ fault' = fault \/ fault' = fault \cup {"WellInvariant"}
  <2>1. ASSUME Revert("WellInvariant") PROVE Kept
    BY <2>1 DEF Revert, books, reserves
  <2>2. ASSUME Harvest PROVE Kept
    BY <2>2 DEF Harvest, books, reserves
  <2>3. ASSUME Pulse PROVE Kept
    <3> HIDE DEF Kept
    <3>1. CASE Revert("WellInvariant")
      BY <2>1, <3>1
    <3>2. CASE ~Revert("WellInvariant")
      BY <2>3, <3>2 DEF Pulse, Kept
    <3> QED BY <3>1, <3>2
  <2>4. ASSUME NEW isKeeper \in BOOLEAN, NEW spend \in Spends, NEW spent \in Spends,
               Burn(isKeeper, spend, spent)
        PROVE  Kept
    <3> HIDE DEF Kept
    <3>1. CASE Revert("WellInvariant")
      BY <2>1, <3>1
    <3>2. CASE ~Revert("WellInvariant")
      BY <2>4, <3>2 DEF Burn, Kept
    <3> QED BY <3>1, <3>2
  <2>5. ASSUME NEW isKeeper \in BOOLEAN, NEW spend \in Spends, NEW spent \in Spends,
               Fuse(isKeeper, spend, spent)
        PROVE  Kept
    <3> HIDE DEF Kept
    <3>1. CASE Revert("WellInvariant")
      BY <2>1, <3>1
    <3>2. CASE ~Revert("WellInvariant")
      BY <2>5, <3>2 DEF Fuse, Kept
    <3> QED BY <3>1, <3>2
  <2> HIDE DEF Kept
  <2>6. Kept
    BY <1>3, <2>2, <2>3, <2>4, <2>5 DEF Spending
  <2> QED BY <2>6, ExactKept DEF NoFault, Kept
<1>4. CASE Entanglement
  <2>1. CASE \E tree \in Trees : PostEntanglement(tree)
    BY <1>1, <2>1, PostExact DEF PostEntanglement, NoFault
  <2>2. ASSUME NEW i \in DOMAIN epochs, NEW leaf \in DOMAIN epochs[i].leaves, Claim(i, leaf)
        PROVE  EpochsExact' /\ (NoFault /\ "WellInvariant" \notin fault' => NoFault')
    BY <1>1, <2>2, ClaimExact DEF Revert, NoFault
  <2>3. ASSUME NEW i \in DOMAIN epochs, CloseEpoch(i) \/ CancelEpoch(i)
        PROVE  EpochsExact' /\ (NoFault /\ "WellInvariant" \notin fault' => NoFault')
    BY <1>1, <2>3, GiveBackExact DEF CloseEpoch, CancelEpoch, NoFault
  <2> QED BY <1>4, <2>1, <2>2, <2>3 DEF Entanglement
<1> QED BY <1>2, <1>3, <1>4 DEF Next

LEMMA InitExact == Init => EpochsExact /\ NoFault
<1> SUFFICES ASSUME Init PROVE EpochsExact /\ NoFault
  OBVIOUS
<1>1. epoch_count = 0 /\ entangle_owed = 0 /\ DOMAIN epochs = {} /\ fault = {}
  BY DEF Init
<1>2. SumTo(0, Debts) = 0
  BY SumToStep
<1> QED BY <1>1, <1>2, EpochsExactParts DEF NoFault

\* The open epochs of a coin share its entangle_owed to the lamport, and each has paid exactly
\* the leaves its bitmap marks and never more than its total, for all trees a keeper may post
\* and any order of posts, claims, vetoes and closes.
THEOREM EpochsStayExact == Spec => []EpochsExact
<1>1. Init => EpochsExact
  BY InitExact
<1>2. IInv /\ EpochsExact /\ [Next]_vars => EpochsExact'
  BY ExactStep
<1> QED BY <1>1, <1>2, IInvHolds, PTL DEF Spec

\* None of the program's checks of its own book-keeping, neither assert_well_invariant nor a
\* checked subtraction, ever refuses an instruction whose guards hold.
THEOREM NothingFails == Spec => []NoFault
<1>1. Init => NoFault
  BY InitExact
<1>2. IInv /\ IInv' /\ EpochsExact /\ NoFault /\ [Next]_vars => NoFault'
  BY ExactStep DEF IInv, WellCheckNeverFails
<1> QED BY <1>1, <1>2, IInvHolds, EpochsStayExact, PTL DEF Spec

-----------------------------------------------------------------------------
(* Spending and posting keep their pace.                                   *)

\* The invariant counts to the last burn, fusion or post, each of which waits for its interval;
\* Paced, which counts to now, is not inductive.
SpentBy(total, last) == total <= LargestSpend * ((last - created_at) \div ShortestGap)

PaceInv ==
    /\ Registered => /\ created_at <= last_burn_at /\ last_burn_at <= now
                     /\ created_at <= last_fusion_at /\ last_fusion_at <= now
    /\ Registered /\ ShortestGap > 0 => /\ SpentBy(total_burn_sol, last_burn_at)
                                        /\ SpentBy(total_fused_sol, last_fusion_at)
    /\ ~Registered => total_burn_sol = 0 /\ total_fused_sol = 0
    /\ Start <= now
    /\ epoch_count > 0 => /\ Start <= last_epoch_at /\ last_epoch_at <= now
                          /\ (epoch_count - 1) * MIN_EPOCH_INTERVAL <= last_epoch_at - Start

\* What LargestSpend and ShortestGap bound.
LEMMA ConfigBounds ==
    ASSUME config \in Configs
    PROVE  /\ LargestSpend \in Nat /\ config.max_burn_lamports <= LargestSpend
           /\ ShortestGap \in Nat /\ ShortestGap <= config.min_action_interval
<1>1. \A c \in Configs : c.max_burn_lamports \in Nat /\ c.min_action_interval \in Nat
  BY WellAssumption DEF ConfigRec
<1> DEFINE C == {c.max_burn_lamports : c \in Configs}
           G == {c.min_action_interval : c \in Configs}
<1>2. \E m \in C : \A c \in Configs : c.max_burn_lamports <= m
  BY WellAssumption
<1>3. LargestSpend \in C /\ \A c \in Configs : c.max_burn_lamports <= LargestSpend
  BY <1>2 DEF LargestSpend
<1>4. PICK g \in G : \A k \in G : g <= k
  <2>1. G \in SUBSET Nat /\ G # {}
    BY <1>1
  <2> QED BY <2>1, LeastNatural
<1>5. \E m \in G : \A c \in Configs : m <= c.min_action_interval
  BY <1>4
<1>6. ShortestGap \in G /\ \A c \in Configs : ShortestGap <= c.min_action_interval
  BY <1>5 DEF ShortestGap
<1> QED BY <1>1, <1>3, <1>6

\* Quotients grow with the dividend, and by one at least when it grows by the divisor.
LEMMA Quotients ==
    ASSUME NEW m1 \in Nat, NEW m2 \in Nat, NEW g \in Nat \ {0}
    PROVE  /\ m1 \div g \in Nat
           /\ m1 <= m2 => m1 \div g <= m2 \div g
           /\ m1 + g <= m2 => m1 \div g + 1 <= m2 \div g
<1>1. /\ m1 \div g \in Nat /\ g * (m1 \div g) <= m1 /\ m1 < g * (m1 \div g) + g
      /\ m2 \div g \in Nat /\ g * (m2 \div g) <= m2 /\ m2 < g * (m2 \div g) + g
  OBVIOUS
<1> DEFINE p == m1 \div g
           q == m2 \div g
<1>2. p \in Nat /\ q \in Nat /\ g * p <= m1 /\ m2 < g * q + g
  BY <1>1
<1> HIDE DEF p, q
<1>3. ASSUME m1 <= m2 PROVE p <= q
  <2> SUFFICES ASSUME q + 1 <= p PROVE FALSE
    BY <1>2
  <2>1. g * (q + 1) <= g * p
    BY <1>2
  <2>2. g * (q + 1) = g * q + g
    BY <1>2
  <2>3. g * q \in Nat /\ g * p \in Nat
    BY <1>2
  <2> QED BY <1>2, <1>3, <2>1, <2>2, <2>3
<1>4. ASSUME m1 + g <= m2 PROVE p + 1 <= q
  <2> SUFFICES ASSUME q <= p PROVE FALSE
    BY <1>2
  <2>1. g * q <= g * p /\ g * q \in Nat /\ g * p \in Nat
    BY <1>2
  <2> QED BY <1>2, <1>4, <2>1
<1> QED BY <1>1, <1>3, <1>4 DEF p, q

\* A spend of at most the largest, at least the shortest gap after the last one, keeps the pace.
LEMMA SpendKeepsPace ==
    ASSUME LargestSpend \in Nat, ShortestGap \in Nat, ShortestGap > 0,
           created_at \in Nat, NEW last \in Nat, NEW at \in Nat, NEW total \in Nat,
           NEW spent \in Nat, created_at <= last, last + ShortestGap <= at,
           spent <= LargestSpend, SpentBy(total, last)
    PROVE  SpentBy(total + spent, at)
<1> DEFINE p == (last - created_at) \div ShortestGap
           q == (at - created_at) \div ShortestGap
<1>1. /\ last - created_at \in Nat /\ at - created_at \in Nat
      /\ (last - created_at) + ShortestGap <= at - created_at
  OBVIOUS
<1>2. p \in Nat /\ q \in Nat /\ p + 1 <= q
  BY <1>1, Quotients
<1>3. total <= LargestSpend * p
  BY DEF SpentBy
<1> HIDE DEF p, q
<1>4. LargestSpend * (p + 1) <= LargestSpend * q
  BY <1>2
<1>5. LargestSpend * (p + 1) = LargestSpend * p + LargestSpend
  BY <1>2
<1>6. LargestSpend * p \in Nat /\ LargestSpend * q \in Nat
  BY <1>2
<1>7. total + spent <= LargestSpend * q
  BY <1>3, <1>4, <1>5, <1>6
<1> QED BY <1>7 DEF SpentBy, q

\* What was spent by some time was spent by any later one.
LEMMA LaterPace ==
    ASSUME LargestSpend \in Nat, ShortestGap \in Nat, ShortestGap > 0,
           created_at \in Nat, NEW last \in Nat, NEW at \in Nat, NEW total \in Nat,
           created_at <= last, last <= at, SpentBy(total, last)
    PROVE  SpentBy(total, at)
<1> DEFINE p == (last - created_at) \div ShortestGap
           q == (at - created_at) \div ShortestGap
<1>1. /\ last - created_at \in Nat /\ at - created_at \in Nat
      /\ last - created_at <= at - created_at
  OBVIOUS
<1>2. p \in Nat /\ q \in Nat /\ p <= q
  BY <1>1, Quotients
<1>3. total <= LargestSpend * p
  BY DEF SpentBy
<1> HIDE DEF p, q
<1>4. LargestSpend * p <= LargestSpend * q /\ LargestSpend * p \in Nat /\ LargestSpend * q \in Nat
  BY <1>2
<1>5. total <= LargestSpend * q
  BY <1>3, <1>4
<1> QED BY <1>5 DEF SpentBy, q

\* What a burn and a fusion that go through do.
LEMMA BurnDoes ==
    ASSUME TypeOK, config \in Configs, NEW isKeeper \in BOOLEAN, NEW spend \in Spends,
           NEW spent \in Spends, Burn(isKeeper, spend, spent), last_burn_at' # last_burn_at
                                                                \/ total_burn_sol' # total_burn_sol
    PROVE  /\ spent \in Nat /\ spent <= LargestSpend
           /\ last_burn_at + ShortestGap <= now
           /\ total_burn_sol' = total_burn_sol + spent /\ last_burn_at' = now
           /\ UNCHANGED <<now, hooks, created_at, last_fusion_at, last_epoch_at,
                          total_fused_sol, epoch_count>>
<1>1. /\ spend \in Nat /\ spent \in Nat /\ spent <= spend /\ spend <= SpendCap(isKeeper)
      /\ now >= last_burn_at + config.min_action_interval
  BY WellAssumption DEF Burn, SpendAllowed, ActionGate
<1>2. /\ config.max_burn_lamports \in Nat /\ config.min_action_interval \in Nat
      /\ now \in Nat /\ last_burn_at \in Nat
  BY DEF TypeOK, ConfigRec
<1>3. SpendCap(isKeeper) <= config.max_burn_lamports /\ SpendCap(isKeeper) \in Nat
  <2>1. /\ config.max_burn_lamports \div 10 \in Nat
        /\ config.max_burn_lamports \div 10 <= config.max_burn_lamports
    BY <1>2
  <2> QED BY <1>2, <2>1 DEF SpendCap, PUBLIC_SPEND_DIVISOR
<1>4. spent <= LargestSpend /\ last_burn_at + ShortestGap <= now
  BY <1>1, <1>2, <1>3, ConfigBounds
<1>5. ~Revert("WellInvariant")
  BY DEF Revert, books, totals, times
<1> QED BY <1>1, <1>4, <1>5 DEF Burn

LEMMA FuseDoes ==
    ASSUME TypeOK, config \in Configs, NEW isKeeper \in BOOLEAN, NEW spend \in Spends,
           NEW spent \in Spends, Fuse(isKeeper, spend, spent), last_fusion_at' # last_fusion_at
                                                                \/ total_fused_sol' # total_fused_sol
    PROVE  /\ spent \in Nat /\ spent <= LargestSpend
           /\ last_fusion_at + ShortestGap <= now
           /\ total_fused_sol' = total_fused_sol + spent /\ last_fusion_at' = now
           /\ UNCHANGED <<now, hooks, created_at, last_burn_at, last_epoch_at,
                          total_burn_sol, epoch_count>>
<1>1. /\ spend \in Nat /\ spent \in Nat /\ spent <= spend /\ spend <= SpendCap(isKeeper)
      /\ now >= last_fusion_at + config.min_action_interval
  BY WellAssumption DEF Fuse, SpendAllowed, ActionGate
<1>2. /\ config.max_burn_lamports \in Nat /\ config.min_action_interval \in Nat
      /\ now \in Nat /\ last_fusion_at \in Nat
  BY DEF TypeOK, ConfigRec
<1>3. SpendCap(isKeeper) <= config.max_burn_lamports /\ SpendCap(isKeeper) \in Nat
  <2>1. /\ config.max_burn_lamports \div 10 \in Nat
        /\ config.max_burn_lamports \div 10 <= config.max_burn_lamports
    BY <1>2
  <2> QED BY <1>2, <2>1 DEF SpendCap, PUBLIC_SPEND_DIVISOR
<1>4. spent <= LargestSpend /\ last_fusion_at + ShortestGap <= now
  BY <1>1, <1>2, <1>3, ConfigBounds
<1>5. ~Revert("WellInvariant")
  BY DEF Revert, books, totals, times
<1> QED BY <1>1, <1>4, <1>5 DEF Fuse

paceVars == <<hooks, epoch_count, created_at, last_burn_at, last_fusion_at, last_epoch_at,
              total_burn_sol, total_fused_sol>>

\* Steps that only let time pass, as far as the pace is concerned.
LEMMA PaceKept ==
    ASSUME TypeOK, PaceInv, now' \in Nat, now <= now', UNCHANGED paceVars
    PROVE  PaceInv'
<1>1. /\ now \in Nat /\ created_at \in Nat /\ last_burn_at \in Nat /\ last_fusion_at \in Nat
      /\ last_epoch_at \in Nat /\ Start \in Nat
  BY WellAssumption DEF TypeOK
<1>2. \A x \in Nat : x <= now => x <= now'
  BY <1>1
<1> QED BY <1>1, <1>2 DEF PaceInv, paceVars, SpentBy, Registered

LEMMA PaceStep ==
    ASSUME TypeOK, TypeOK', config \in Configs, PaceInv, [Next]_vars
    PROVE  PaceInv'
<1>1. /\ now \in Nat /\ created_at \in Nat /\ last_burn_at \in Nat /\ last_fusion_at \in Nat
      /\ last_epoch_at \in Nat /\ epoch_count \in Nat
      /\ total_burn_sol \in Nat /\ total_fused_sol \in Nat
      /\ Start \in Nat /\ MIN_EPOCH_INTERVAL \in Nat \ {0}
  BY WellAssumption DEF TypeOK
<1>2. LargestSpend \in Nat /\ ShortestGap \in Nat
  BY ConfigBounds
<1>3. CASE World \/ SyncMigration \/ Harvest \/ Pulse \/ UNCHANGED vars
  <2>1. UNCHANGED paceVars
    BY <1>3 DEF World, Tick, Donate, SendWsol, ConfigChanges, WalletChanges, SyncMigration,
                Harvest, Pulse, Revert, vars, books, totals, times, paceVars
  <2>2. now' = now \/ now' = now + 1
    BY <1>3 DEF World, Tick, Donate, SendWsol, ConfigChanges, WalletChanges, SyncMigration,
                Harvest, Pulse, Revert, vars
  <2> QED BY <1>1, <2>1, <2>2, PaceKept
<1>4. CASE Register
  <2>1. /\ created_at' = now /\ last_burn_at' = now /\ last_fusion_at' = now
        /\ UNCHANGED <<now, last_epoch_at, epoch_count, total_burn_sol, total_fused_sol>>
        /\ total_burn_sol = 0 /\ total_fused_sol = 0
        /\ hooks' \in Params
    BY <1>4 DEF Register, books, totals, PaceInv
  <2>2. Registered'
    BY <2>1, WellAssumption DEF Registered
  <2>3. ShortestGap > 0 => SpentBy(total_burn_sol, last_burn_at)'
                           /\ SpentBy(total_fused_sol, last_fusion_at)'
    <3>1. ShortestGap > 0 => (now - now) \div ShortestGap = 0
      BY <1>1, <1>2
    <3> QED BY <1>1, <1>2, <2>1, <3>1 DEF SpentBy
  <2> QED BY <1>1, <2>1, <2>2, <2>3 DEF PaceInv
<1>5. ASSUME NEW isKeeper \in BOOLEAN, NEW spend \in Spends, NEW spent \in Spends,
             Burn(isKeeper, spend, spent)
      PROVE  PaceInv'
  <2>1. CASE last_burn_at' = last_burn_at /\ total_burn_sol' = total_burn_sol
    <3>1. UNCHANGED paceVars /\ now' = now
      BY <1>5, <2>1 DEF Burn, Revert, books, totals, times, paceVars
    <3> QED BY <1>1, <3>1, PaceKept
  <2>2. CASE ~(last_burn_at' = last_burn_at /\ total_burn_sol' = total_burn_sol)
    <3>1. /\ spent \in Nat /\ spent <= LargestSpend
          /\ last_burn_at + ShortestGap <= now
          /\ total_burn_sol' = total_burn_sol + spent /\ last_burn_at' = now
          /\ UNCHANGED <<now, hooks, created_at, last_fusion_at, last_epoch_at,
                         total_fused_sol, epoch_count>>
      BY <1>5, <2>2, BurnDoes
    <3>2. Registered /\ Registered'
      BY <1>5, <3>1 DEF Burn, Registered
    <3>3. created_at <= last_burn_at
      BY <3>2 DEF PaceInv
    <3>4. ShortestGap > 0 => SpentBy(total_burn_sol + spent, now)
      BY <1>1, <1>2, <3>1, <3>2, <3>3, SpendKeepsPace DEF PaceInv
    <3>5. created_at' <= last_burn_at' /\ last_burn_at' <= now'
      BY <1>1, <3>1, <3>2 DEF PaceInv
    <3>6. ShortestGap > 0 => SpentBy(total_burn_sol, last_burn_at)'
      BY <3>1, <3>4 DEF SpentBy
    <3>7. ShortestGap > 0 => SpentBy(total_fused_sol, last_fusion_at)'
      BY <3>1, <3>2 DEF PaceInv, SpentBy
    <3> QED BY <3>1, <3>2, <3>5, <3>6, <3>7 DEF PaceInv
  <2> QED BY <2>1, <2>2
<1>6. ASSUME NEW isKeeper \in BOOLEAN, NEW spend \in Spends, NEW spent \in Spends,
             Fuse(isKeeper, spend, spent)
      PROVE  PaceInv'
  <2>1. CASE last_fusion_at' = last_fusion_at /\ total_fused_sol' = total_fused_sol
    <3>1. UNCHANGED paceVars /\ now' = now
      BY <1>6, <2>1 DEF Fuse, Revert, books, totals, times, paceVars
    <3> QED BY <1>1, <3>1, PaceKept
  <2>2. CASE ~(last_fusion_at' = last_fusion_at /\ total_fused_sol' = total_fused_sol)
    <3>1. /\ spent \in Nat /\ spent <= LargestSpend
          /\ last_fusion_at + ShortestGap <= now
          /\ total_fused_sol' = total_fused_sol + spent /\ last_fusion_at' = now
          /\ UNCHANGED <<now, hooks, created_at, last_burn_at, last_epoch_at,
                         total_burn_sol, epoch_count>>
      BY <1>6, <2>2, FuseDoes
    <3>2. Registered /\ Registered'
      BY <1>6, <3>1 DEF Fuse, Registered
    <3>3. created_at <= last_fusion_at
      BY <3>2 DEF PaceInv
    <3>4. ShortestGap > 0 => SpentBy(total_fused_sol + spent, now)
      BY <1>1, <1>2, <3>1, <3>2, <3>3, SpendKeepsPace DEF PaceInv
    <3>5. created_at' <= last_fusion_at' /\ last_fusion_at' <= now'
      BY <1>1, <3>1, <3>2 DEF PaceInv
    <3>6. ShortestGap > 0 => SpentBy(total_fused_sol, last_fusion_at)'
      BY <3>1, <3>4 DEF SpentBy
    <3>7. ShortestGap > 0 => SpentBy(total_burn_sol, last_burn_at)'
      BY <3>1, <3>2 DEF PaceInv, SpentBy
    <3> QED BY <3>1, <3>2, <3>5, <3>6, <3>7 DEF PaceInv
  <2> QED BY <2>1, <2>2
<1>7. ASSUME NEW tree \in Trees, PostEntanglement(tree)
      PROVE  PaceInv'
  <2>1. /\ Registered /\ now >= last_epoch_at + MIN_EPOCH_INTERVAL
        /\ epoch_count' = epoch_count + 1 /\ last_epoch_at' = now
        /\ UNCHANGED <<now, hooks, created_at, last_burn_at, last_fusion_at,
                       total_burn_sol, total_fused_sol>>
    BY <1>7 DEF PostEntanglement, EpochDue, totals
  <2>2. Start <= now
    BY DEF PaceInv
  <2>3. epoch_count * MIN_EPOCH_INTERVAL <= now - Start
    <3>1. CASE epoch_count = 0
      BY <1>1, <2>2, <3>1
    <3>2. CASE epoch_count > 0
      <4>1. (epoch_count - 1) * MIN_EPOCH_INTERVAL <= last_epoch_at - Start
        BY <3>2 DEF PaceInv
      <4>2. epoch_count * MIN_EPOCH_INTERVAL
              = (epoch_count - 1) * MIN_EPOCH_INTERVAL + MIN_EPOCH_INTERVAL
        BY <1>1
      <4>3. (epoch_count - 1) * MIN_EPOCH_INTERVAL \in Int
        BY <1>1
      <4> QED BY <1>1, <2>1, <4>1, <4>2, <4>3
    <3> QED BY <1>1, <3>1, <3>2
  <2>4. epoch_count' - 1 = epoch_count
    BY <1>1, <2>1
  <2>5. now <= now
    BY <1>1
  <2> QED BY <2>1, <2>2, <2>3, <2>4, <2>5 DEF PaceInv, SpentBy, Registered
<1>8. ASSUME NEW i \in DOMAIN epochs, \/ \E leaf \in DOMAIN epochs[i].leaves : Claim(i, leaf)
                                      \/ CloseEpoch(i)
                                      \/ CancelEpoch(i)
      PROVE  PaceInv'
  <2>1. UNCHANGED paceVars /\ now' = now
    BY <1>8 DEF Claim, CloseEpoch, CancelEpoch, GiveBack, Revert, books, totals, times, paceVars
  <2> QED BY <1>1, <2>1, PaceKept
<1> QED BY <1>3, <1>4, <1>5, <1>6, <1>7, <1>8 DEF Next, Spending, Entanglement

LEMMA PaceImplies ==
    ASSUME TypeOK, config \in Configs, PaceInv
    PROVE  Paced
<1>1. /\ now \in Nat /\ created_at \in Nat /\ last_burn_at \in Nat /\ last_fusion_at \in Nat
      /\ last_epoch_at \in Nat /\ epoch_count \in Nat
      /\ total_burn_sol \in Nat /\ total_fused_sol \in Nat
      /\ Start \in Nat /\ MIN_EPOCH_INTERVAL \in Nat \ {0}
  BY WellAssumption DEF TypeOK
<1>2. LargestSpend \in Nat /\ ShortestGap \in Nat
  BY ConfigBounds
<1>3. SpendPaced
  <2> SUFFICES ASSUME Registered, ShortestGap > 0
               PROVE  SpentBy(total_burn_sol, now) /\ SpentBy(total_fused_sol, now)
    BY DEF SpendPaced, SpentBy
  <2>1. /\ created_at <= last_burn_at /\ last_burn_at <= now
        /\ created_at <= last_fusion_at /\ last_fusion_at <= now
        /\ SpentBy(total_burn_sol, last_burn_at) /\ SpentBy(total_fused_sol, last_fusion_at)
    BY DEF PaceInv
  <2> QED BY <1>1, <1>2, <2>1, LaterPace
<1>4. EpochsPaced
  <2> DEFINE q == (now - Start) \div MIN_EPOCH_INTERVAL
  <2>1. now - Start \in Nat
    BY <1>1 DEF PaceInv
  <2>2. q \in Nat /\ now - Start < MIN_EPOCH_INTERVAL * q + MIN_EPOCH_INTERVAL
    BY <1>1, <2>1
  <2>3. EpochsPaced <=> epoch_count <= 1 + q
    BY DEF EpochsPaced
  <2> HIDE DEF q
  <2>4. CASE epoch_count = 0
    BY <2>2, <2>3, <2>4
  <2>5. CASE epoch_count > 0
    <3> SUFFICES ASSUME q + 1 <= epoch_count - 1 PROVE FALSE
      BY <1>1, <2>2, <2>3
    <3>1. (epoch_count - 1) * MIN_EPOCH_INTERVAL <= last_epoch_at - Start /\ last_epoch_at <= now
      BY <2>5 DEF PaceInv
    <3>2. (q + 1) * MIN_EPOCH_INTERVAL <= (epoch_count - 1) * MIN_EPOCH_INTERVAL
      BY <1>1, <2>2
    <3>3. (q + 1) * MIN_EPOCH_INTERVAL = MIN_EPOCH_INTERVAL * q + MIN_EPOCH_INTERVAL
      BY <1>1, <2>2
    <3>4. (epoch_count - 1) * MIN_EPOCH_INTERVAL \in Int /\ MIN_EPOCH_INTERVAL * q \in Int
      BY <1>1, <2>2
    <3> QED BY <1>1, <2>1, <2>2, <3>1, <3>2, <3>3, <3>4
  <2> QED BY <1>1, <2>4, <2>5
<1> QED BY <1>3, <1>4 DEF Paced

\* update_config leaves one of the contents a config may have.
ConfigListed == config \in Configs

LEMMA ConfigKept == Spec => []ConfigListed
<1>1. Init => ConfigListed
  BY DEF Init, ConfigListed
<1>2. ConfigListed /\ [Next]_vars => ConfigListed'
  <2> SUFFICES ASSUME config \in Configs, [Next]_vars PROVE config' \in Configs
    BY DEF ConfigListed
  <2>1. CASE World \/ Register \/ SyncMigration \/ Harvest \/ Pulse \/ UNCHANGED vars
    BY <2>1 DEF World, Tick, Donate, SendWsol, ConfigChanges, WalletChanges, Register,
                SyncMigration, Harvest, Pulse, Revert, vars
  <2>2. CASE Spending
    BY <2>2 DEF Spending, Burn, Fuse, Revert
  <2>3. CASE Entanglement
    BY <2>3 DEF Entanglement, PostEntanglement, Claim, CloseEpoch, CancelEpoch, GiveBack, Revert
  <2> QED BY <2>1, <2>2, <2>3 DEF Next
<1> QED BY <1>1, <1>2, PTL DEF Spec

\* However burns and fusions of the keeper and of the public interleave, and configs change
\* between them, a coin spends at most the largest cap per shortest interval since it was
\* registered; and a keeper posts at most one root per MIN_EPOCH_INTERVAL, vetoed ones included.
THEOREM PaceIsKept == Spec => []Paced
<1>1. Init => PaceInv
  <2> SUFFICES ASSUME Init PROVE PaceInv
    OBVIOUS
  <2>1. ~Registered /\ epoch_count = 0 /\ total_burn_sol = 0 /\ total_fused_sol = 0 /\ now = Start
    BY DEF Init, Registered
  <2>2. Start <= Start
    BY WellAssumption
  <2> QED BY <2>1, <2>2 DEF PaceInv
<1>2. TypeOK /\ TypeOK' /\ ConfigListed /\ PaceInv /\ [Next]_vars => PaceInv'
  BY PaceStep DEF ConfigListed
<1>3. TypeOK /\ ConfigListed /\ PaceInv => Paced
  BY PaceImplies DEF ConfigListed
<1> QED BY <1>1, <1>2, <1>3, TypeCorrect, ConfigKept, PTL DEF Spec

-----------------------------------------------------------------------------
(* The form a coin's rules come from: the four shares stay the whole, and  *)
(* what the form lets pass the program accepts.                            *)

Hooks4 == [F!Hook -> Nat]
Left   == [hooks : Hooks4, excess : Nat]

LEMMA AllocatedIs ==
    ASSUME NEW h \in Hooks4
    PROVE  /\ h["creator"] \in Nat /\ h["burn"] \in Nat /\ h["entangle"] \in Nat /\ h["fusion"] \in Nat
           /\ F!Allocated(h) = h["creator"] + h["burn"] + h["entangle"] + h["fusion"]
  BY DEF Hooks4, F!Hook, F!Allocated

\* A cut takes nothing from another hook, and all it can from this one.
LEMMA CutIs ==
    ASSUME NEW acc \in Left, NEW h \in F!Hook, NEW less, less = F!Cut(acc, h)
    PROVE  /\ less \in Left
           /\ \A o \in F!Hook \ {h} : less.hooks[o] = acc.hooks[o]
           /\ IF acc.hooks[h] < acc.excess
              THEN less.hooks[h] = 0 /\ less.excess = acc.excess - acc.hooks[h]
              ELSE less.hooks[h] = acc.hooks[h] - acc.excess /\ less.excess = 0
<1> DEFINE cut == F!Least(acc.hooks[h], acc.excess)
<1>1. acc.hooks \in Hooks4 /\ acc.hooks[h] \in Nat /\ acc.excess \in Nat
  BY DEF Left, Hooks4
<1>2. /\ cut \in Nat /\ acc.hooks[h] - cut \in Nat /\ acc.excess - cut \in Nat
      /\ cut = IF acc.hooks[h] < acc.excess THEN acc.hooks[h] ELSE acc.excess
  BY <1>1 DEF F!Least
<1>3. less = [hooks |-> [acc.hooks EXCEPT ![h] = acc.hooks[h] - cut], excess |-> acc.excess - cut]
  BY DEF F!Cut
<1> HIDE DEF cut
<1>4. /\ less.excess = acc.excess - cut /\ less.hooks \in Hooks4
      /\ less.hooks[h] = acc.hooks[h] - cut
      /\ \A o \in F!Hook \ {h} : less.hooks[o] = acc.hooks[o]
  BY <1>1, <1>2, <1>3 DEF Hooks4
<1>5. less \in Left
  BY <1>2, <1>3, <1>4 DEF Left
<1> QED BY <1>1, <1>2, <1>4, <1>5

Whole(h) == h \in [F!Hook -> 0..BPS] /\ F!Allocated(h) = BPS

LEMMA WholeIs ==
    ASSUME NEW h \in Hooks4, BPS \in Nat, F!Allocated(h) = BPS
    PROVE  Whole(h)
<1>1. \A o \in F!Hook : h[o] \in 0..BPS
  BY AllocatedIs DEF F!Hook
<1> QED BY <1>1 DEF Whole, Hooks4

\* setAllocation keeps the whole, and the slider that was moved where it was put.
LEMMA SlidersKeepWhole ==
    ASSUME NEW hooks0, Whole(hooks0), NEW h \in F!Hook, NEW v \in 0..BPS
    PROVE  Whole(F!SetAllocation(hooks0, h, v)) /\ F!SetAllocation(hooks0, h, v)[h] = v
<1> DEFINE next == [hooks0 EXCEPT ![h] = v]
           excess == F!Allocated(next) - BPS
           More(n) == [hooks |-> next, excess |-> n]
<1>1. BPS \in Nat /\ v \in Nat /\ v <= BPS
  BY FormAssumption
<1>2. /\ hooks0 \in Hooks4 /\ next \in Hooks4 /\ next[h] = v
      /\ \A o \in F!Hook \ {h} : next[o] = hooks0[o]
  BY <1>1 DEF Whole, Hooks4
<1>3. /\ F!Allocated(hooks0) = BPS /\ hooks0[h] \in 0..BPS
      /\ F!Allocated(next) = F!Allocated(hooks0) - hooks0[h] + v
  <2>1. F!Allocated(hooks0) = BPS /\ hooks0[h] \in 0..BPS
    BY DEF Whole
  <2> HIDE DEF next
  <2>2. F!Allocated(next) = F!Allocated(hooks0) - hooks0[h] + v
    BY <1>1, <1>2, AllocatedIs DEF F!Hook
  <2> QED BY <2>1, <2>2
<1>4. excess \in Int /\ excess = v - hooks0[h]
  BY <1>1, <1>3
<1>5. F!SetAllocation(hooks0, h, v) =
         IF h = "creator"
         THEN IF excess >= 0
              THEN F!Cut(F!Cut(F!Cut(More(excess), "fusion"), "entangle"), "burn").hooks
              ELSE [next EXCEPT ![F!LargestOther(next)] = @ - excess]
         ELSE F!WithCreator(
                 IF excess > next["creator"]
                 THEN F!Cut(F!Cut(More(excess - next["creator"]), F!Others[h][1]), F!Others[h][2]).hooks
                 ELSE next)
  BY Zenon DEF F!SetAllocation
<1> HIDE DEF next, excess
<1>6. CASE h = "creator" /\ excess >= 0
  <2> DEFINE one == F!Cut(More(excess), "fusion")
             two == F!Cut(one, "entangle")
             all == F!Cut(two, "burn")
  <2>1. More(excess) \in Left /\ More(excess).hooks = next /\ More(excess).excess = excess
    BY <1>2, <1>4, <1>6 DEF Left
  <2> HIDE DEF More
  <2>2. /\ one \in Left
        /\ \A o \in F!Hook \ {"fusion"} : one.hooks[o] = next[o]
        /\ IF next["fusion"] < excess
           THEN one.hooks["fusion"] = 0 /\ one.excess = excess - next["fusion"]
           ELSE one.hooks["fusion"] = next["fusion"] - excess /\ one.excess = 0
    BY <2>1, CutIs DEF F!Hook
  <2> HIDE DEF one
  <2>3. /\ two \in Left
        /\ \A o \in F!Hook \ {"entangle"} : two.hooks[o] = one.hooks[o]
        /\ IF one.hooks["entangle"] < one.excess
           THEN two.hooks["entangle"] = 0 /\ two.excess = one.excess - one.hooks["entangle"]
           ELSE two.hooks["entangle"] = one.hooks["entangle"] - one.excess /\ two.excess = 0
    BY <2>2, CutIs DEF F!Hook
  <2> HIDE DEF two
  <2>4. /\ all \in Left
        /\ \A o \in F!Hook \ {"burn"} : all.hooks[o] = two.hooks[o]
        /\ IF two.hooks["burn"] < two.excess
           THEN all.hooks["burn"] = 0 /\ all.excess = two.excess - two.hooks["burn"]
           ELSE all.hooks["burn"] = two.hooks["burn"] - two.excess /\ all.excess = 0
    BY <2>3, CutIs DEF F!Hook
  <2> HIDE DEF all
  <2>5. /\ all.hooks \in Hooks4 /\ one.hooks \in Hooks4 /\ two.hooks \in Hooks4
        /\ one.excess \in Nat /\ two.excess \in Nat
    BY <2>2, <2>3, <2>4 DEF Left
  <2>6. all.hooks["creator"] = v
    BY <1>2, <1>6, <2>2, <2>3, <2>4 DEF F!Hook
  <2>7. F!Allocated(all.hooks) = BPS
    <3>1. /\ one.hooks["burn"] = next["burn"] /\ one.hooks["entangle"] = next["entangle"]
          /\ two.hooks["burn"] = next["burn"] /\ two.hooks["fusion"] = one.hooks["fusion"]
          /\ all.hooks["fusion"] = one.hooks["fusion"]
          /\ all.hooks["entangle"] = two.hooks["entangle"]
          /\ next["creator"] = v
      BY <1>2, <1>6, <2>2, <2>3, <2>4 DEF F!Hook
    <3>2. excess = v + next["burn"] + next["entangle"] + next["fusion"] - BPS
      BY <1>1, <1>2, <3>1, AllocatedIs DEF excess
    <3>3. F!Allocated(all.hooks)
            = v + all.hooks["burn"] + two.hooks["entangle"] + one.hooks["fusion"]
      BY <2>5, <2>6, <3>1, AllocatedIs
    <3>4. /\ next["burn"] \in Nat /\ next["entangle"] \in Nat /\ next["fusion"] \in Nat
      BY <1>2, AllocatedIs
    <3>5. CASE next["fusion"] >= excess
      BY <1>1, <1>4, <1>6, <2>2, <2>3, <2>4, <3>1, <3>2, <3>3, <3>4, <3>5
    <3>6. CASE next["fusion"] < excess /\ next["fusion"] + next["entangle"] >= excess
      BY <1>1, <1>4, <1>6, <2>2, <2>3, <2>4, <3>1, <3>2, <3>3, <3>4, <3>6
    <3>7. CASE next["fusion"] + next["entangle"] < excess
      BY <1>1, <1>4, <1>6, <2>2, <2>3, <2>4, <3>1, <3>2, <3>3, <3>4, <3>7
    <3> QED BY <1>4, <3>4, <3>5, <3>6, <3>7
  <2>8. F!SetAllocation(hooks0, h, v) = all.hooks
    BY <1>5, <1>6, Zenon DEF all, two, one
  <2> QED BY <1>1, <1>6, <2>5, <2>6, <2>7, <2>8, WholeIs
<1>7. CASE h = "creator" /\ excess < 0
  <2> DEFINE o == F!LargestOther(next)
             then == [next EXCEPT ![o] = @ - excess]
  <2>1. o \in F!Hook \ {"creator"}
    BY DEF F!LargestOther, F!Hook
  <2> HIDE DEF o
  <2>2. next[o] \in Nat /\ next[o] - excess \in Nat
    BY <1>2, <1>4, <1>7, <2>1 DEF Hooks4
  <2>3. /\ then \in Hooks4 /\ then[o] = next[o] - excess
        /\ \A p \in F!Hook \ {o} : then[p] = next[p]
    BY <1>2, <2>1, <2>2 DEF Hooks4
  <2> HIDE DEF then
  <2>4. then["creator"] = v /\ F!Allocated(then) = F!Allocated(next) - excess
    BY <1>2, <1>4, <1>7, <2>1, <2>2, <2>3, AllocatedIs DEF F!Hook
  <2>5. F!Allocated(then) = BPS
    BY <1>1, <1>2, <1>3, <2>4 DEF excess
  <2>6. F!SetAllocation(hooks0, h, v) = then
    BY <1>4, <1>5, <1>7 DEF then, o
  <2> QED BY <1>1, <1>7, <2>3, <2>4, <2>5, <2>6, WholeIs
<1>8. CASE h # "creator"
  <2> DEFINE rest == IF excess > next["creator"]
                     THEN F!Cut(F!Cut(More(excess - next["creator"]), F!Others[h][1]), F!Others[h][2]).hooks
                     ELSE next
             x == F!Others[h][1]
             y == F!Others[h][2]
             n == excess - next["creator"]
  <2>1. /\ x \in F!Hook /\ y \in F!Hook /\ x # y /\ x # h /\ y # h /\ x # "creator" /\ y # "creator"
        /\ \A z \in Hooks4 : F!Allocated(z) = z["creator"] + z[h] + z[x] + z[y]
    BY <1>8, AllocatedIs DEF F!Others, F!Hook
  <2>2. /\ next["creator"] \in Nat /\ next["creator"] = hooks0["creator"]
        /\ next[x] \in Nat /\ next[y] \in Nat /\ n \in Int
        /\ n = v + next[x] + next[y] - BPS
    <3> HIDE DEF x, y
    <3>1. /\ next["creator"] \in Nat /\ next["creator"] = hooks0["creator"]
          /\ next[x] \in Nat /\ next[y] \in Nat
      BY <1>2, <1>8, <2>1 DEF Hooks4, F!Hook
    <3>2. F!Allocated(next) = next["creator"] + v + next[x] + next[y]
      BY <1>2, <2>1
    <3> QED BY <1>1, <1>4, <3>1, <3>2 DEF excess
  <2>3. /\ rest \in Hooks4 /\ rest[h] = v /\ rest["creator"] = next["creator"]
        /\ v + rest[x] + rest[y] <= BPS
    <3>1. CASE n > 0
      <4> DEFINE one == F!Cut(More(n), x)
                 two == F!Cut(one, y)
      <4> HIDE DEF x, y, n
      <4>1. More(n) \in Left /\ More(n).hooks = next /\ More(n).excess = n
        BY <1>2, <2>2, <3>1 DEF Left
      <4> HIDE DEF More
      <4>2. /\ one \in Left
            /\ \A o \in F!Hook \ {x} : one.hooks[o] = next[o]
            /\ IF next[x] < n THEN one.hooks[x] = 0 /\ one.excess = n - next[x]
               ELSE one.hooks[x] = next[x] - n /\ one.excess = 0
        <5>1. x \in F!Hook
          BY <2>1
        <5> QED BY <4>1, <5>1, CutIs
      <4> HIDE DEF one
      <4>3. /\ two \in Left
            /\ \A o \in F!Hook \ {y} : two.hooks[o] = one.hooks[o]
            /\ IF one.hooks[y] < one.excess
               THEN two.hooks[y] = 0 /\ two.excess = one.excess - one.hooks[y]
               ELSE two.hooks[y] = one.hooks[y] - one.excess /\ two.excess = 0
        BY <2>1, <4>2, CutIs
      <4> HIDE DEF two
      <4>4. two.hooks \in Hooks4 /\ one.hooks \in Hooks4 /\ one.excess \in Nat
        BY <4>2, <4>3 DEF Left
      <4>5. /\ two.hooks[h] = v /\ two.hooks["creator"] = next["creator"]
            /\ two.hooks[x] = one.hooks[x] /\ one.hooks[y] = next[y]
        BY <1>2, <2>1, <4>2, <4>3 DEF F!Hook
      <4>6. v + two.hooks[x] + two.hooks[y] <= BPS
        BY <1>1, <2>2, <3>1, <4>2, <4>3, <4>4, <4>5
      <4>7. rest = two.hooks
        <5>1. excess > next["creator"]
          BY <1>4, <2>2, <3>1 DEF n
        <5> QED BY <5>1, Zenon DEF rest, two, one, x, y, n
      <4> QED BY <4>4, <4>5, <4>6, <4>7
    <3>2. CASE ~(n > 0)
      <4>1. rest = next
        BY <1>4, <2>2, <3>2
      <4> HIDE DEF rest, x, y, n
      <4> QED BY <1>1, <1>2, <2>2, <3>2, <4>1
    <3> QED BY <3>1, <3>2
  <2> DEFINE then == F!WithCreator(rest)
  <2>4. then = [rest EXCEPT !["creator"] = @ + BPS - F!Allocated(rest)]
    BY DEF F!WithCreator
  <2> HIDE DEF rest, x, y, n
  <2>5. /\ F!Allocated(rest) = rest["creator"] + v + rest[x] + rest[y]
        /\ rest["creator"] \in Nat /\ rest[x] \in Nat /\ rest[y] \in Nat
    BY <2>1, <2>3 DEF Hooks4, F!Hook
  <2>6. rest["creator"] + BPS - F!Allocated(rest) \in Nat
    BY <1>1, <2>3, <2>5
  <2>7. /\ then \in Hooks4 /\ then["creator"] = rest["creator"] + BPS - F!Allocated(rest)
        /\ \A o \in F!Hook \ {"creator"} : then[o] = rest[o]
    BY <2>3, <2>4, <2>6 DEF Hooks4, F!Hook
  <2> HIDE DEF then
  <2>8. F!Allocated(then) = BPS /\ then[h] = v
    <3>1. then[h] = v /\ then[x] = rest[x] /\ then[y] = rest[y]
      BY <1>8, <2>1, <2>3, <2>7
    <3>2. F!Allocated(then) = then["creator"] + then[h] + then[x] + then[y]
      BY <2>1, <2>7
    <3> QED BY <1>1, <2>5, <2>7, <3>1, <3>2
  <2>9. F!SetAllocation(hooks0, h, v) = then
    BY <1>5, <1>8, Zenon DEF then, rest
  <2> QED BY <1>1, <2>7, <2>8, <2>9, WholeIs
<1> QED BY <1>4, <1>6, <1>7, <1>8

SplitRow == [wallet : Payable \cup Reserved \cup {NoAddress}, bps : 0..BPS]
LockRow  == [ enabled : BOOLEAN, share : LockShares \cup {BPS \div 2}, cliff : Days \cup {0},
              duration : Days \cup {1} ]
DraftRec == [ hooks : [F!Hook -> 0..BPS], splits : Seq(SplitRow),
              devBuy : Tokens \cup {F!NoDevBuy}, lock : LockRow ]

\* What was submitted had passed the form and the builders, and is not edited any more.
FormInv ==
    /\ draft \in DraftRec /\ Whole(draft.hooks)
    /\ launch \in {"editing", "published", "registered", "locked"}
    /\ launch \in {"published", "registered"} => F!FormValid(draft) /\ F!InputsValid(F!Requested(draft))

LEMMA FormNumbers ==
    /\ BPS \in Nat /\ BPS > 0 /\ BPS \div 2 \in Nat /\ BPS \div 4 \in 0..BPS
    /\ \A n \in Tokens : n \in Nat
    /\ \A share \in LockShares \cup {BPS \div 2} : share \in Nat
    /\ \A n \in Tokens \ {0}, share \in LockShares \cup {BPS \div 2} : n * share >= BPS
    /\ Whole(Empty)
    /\ \A p \in Presets : Whole(p)
<1>1. BPS \in Nat /\ BPS > 0
  BY FormAssumption
<1>2. BPS \div 2 \in Nat /\ BPS \div 4 \in 0..BPS
  BY <1>1
<1>3. Empty \in Presets /\ \A p \in Presets : Whole(p)
  BY FormAssumption DEF Whole
<1>4. \A share \in LockShares \cup {BPS \div 2} : share \in Nat
  BY <1>1, <1>2, FormAssumption
<1> QED BY <1>1, <1>2, <1>3, <1>4, FormAssumption

LEMMA FormInit == F!Init => FormInv
<1> SUFFICES ASSUME F!Init PROVE FormInv
  OBVIOUS
<1>1. Empty \in [F!Hook -> 0..BPS] /\ Whole(Empty)
  BY FormNumbers DEF Whole
<1> HIDE DEF Empty
<1>2. draft \in DraftRec /\ draft.hooks = Empty
  BY <1>1 DEF F!Init, DraftRec, LockRow
<1> QED BY <1>1, <1>2 DEF F!Init, FormInv

\* Everything the form can do to what is typed leaves the shares whole.
LEMMA EditsKeep ==
    ASSUME FormInv, F!MoveSlider \/ F!ChoosePreset \/ F!AddSplit \/ F!EditSplit \/ F!RemoveSplit
                    \/ F!ToggleLock \/ F!EditLock \/ F!EditDevBuy
    PROVE  FormInv'
<1>1. /\ draft \in DraftRec /\ Whole(draft.hooks)
      /\ draft.hooks \in [F!Hook -> 0..BPS] /\ draft.splits \in Seq(SplitRow) /\ draft.lock \in LockRow
  BY DEF FormInv, DraftRec
<1>2. launch = "editing" /\ launch' = "editing"
  BY DEF F!MoveSlider, F!ChoosePreset, F!AddSplit, F!EditSplit, F!RemoveSplit, F!ToggleLock,
         F!EditLock, F!EditDevBuy, F!Set
<1>3. draft' \in DraftRec /\ Whole(draft'.hooks)
  <2>1. CASE F!MoveSlider
    <3>1. PICK h \in F!Hook, v \in 0..BPS :
             draft' = [draft EXCEPT !.hooks = F!SetAllocation(draft.hooks, h, v)]
      BY <2>1 DEF F!MoveSlider, F!Set
    <3>2. Whole(F!SetAllocation(draft.hooks, h, v))
      BY <1>1, SlidersKeepWhole
    <3>3. F!SetAllocation(draft.hooks, h, v) \in [F!Hook -> 0..BPS]
      BY <3>2 DEF Whole
    <3> QED BY <1>1, <3>1, <3>2, <3>3 DEF DraftRec
  <2>2. CASE F!ChoosePreset
    <3>1. PICK p \in Presets : draft' = [draft EXCEPT !.hooks = p]
      BY <2>2 DEF F!ChoosePreset, F!Set
    <3>2. Whole(p) /\ p \in [F!Hook -> 0..BPS]
      BY FormNumbers DEF Whole
    <3> QED BY <1>1, <3>1, <3>2 DEF DraftRec
  <2>3. CASE F!AddSplit
    <3> DEFINE row == [wallet |-> NoAddress, bps |-> BPS \div 4]
    <3>1. draft' = [draft EXCEPT !.splits = Append(@, row)]
      BY <2>3 DEF F!AddSplit, F!Set
    <3>2. row \in SplitRow
      BY FormNumbers DEF SplitRow
    <3> HIDE DEF row
    <3>3. Append(draft.splits, row) \in Seq(SplitRow)
      BY <1>1, <3>2
    <3> QED BY <1>1, <3>1, <3>3 DEF DraftRec
  <2>4. CASE F!EditSplit
    <3>1. PICK i \in DOMAIN draft.splits :
             \/ \E w \in Payable \cup Reserved \cup {NoAddress} :
                   draft' = [draft EXCEPT !.splits[i].wallet = w]
             \/ \E v \in SplitShares : draft' = [draft EXCEPT !.splits[i].bps = v]
      BY <2>4 DEF F!EditSplit, F!Set
    <3>2. draft.splits[i] \in SplitRow /\ \A v \in SplitShares : v \in 0..BPS
      BY <1>1, FormAssumption
    <3>3. PICK row \in SplitRow : draft' = [draft EXCEPT !.splits = [@ EXCEPT ![i] = row]]
      <4>1. ASSUME NEW w \in Payable \cup Reserved \cup {NoAddress},
                   draft' = [draft EXCEPT !.splits[i].wallet = w]
            PROVE  \E row \in SplitRow : draft' = [draft EXCEPT !.splits = [@ EXCEPT ![i] = row]]
        <5>1. [draft.splits[i] EXCEPT !.wallet = w] \in SplitRow
          BY <3>2 DEF SplitRow
        <5> QED BY <4>1, <5>1
      <4>2. ASSUME NEW v \in SplitShares, draft' = [draft EXCEPT !.splits[i].bps = v]
            PROVE  \E row \in SplitRow : draft' = [draft EXCEPT !.splits = [@ EXCEPT ![i] = row]]
        <5>1. [draft.splits[i] EXCEPT !.bps = v] \in SplitRow
          BY <3>2 DEF SplitRow
        <5> QED BY <4>2, <5>1
      <4> QED BY <3>1, <4>1, <4>2
    <3>4. [draft.splits EXCEPT ![i] = row] \in Seq(SplitRow)
      BY <1>1
    <3> QED BY <1>1, <3>3, <3>4 DEF DraftRec
  <2>5. CASE F!RemoveSplit
    <3>1. PICK i \in DOMAIN draft.splits :
             draft' = [draft EXCEPT !.splits = F!RemoveAt(@, i)]
      BY <2>5 DEF F!RemoveSplit, F!Set
    <3>2. F!RemoveAt(draft.splits, i) \in Seq(SplitRow)
      <4>1. /\ i \in 1..Len(draft.splits) /\ Len(draft.splits) \in Nat
            /\ \A j \in 1..Len(draft.splits) : draft.splits[j] \in SplitRow
        BY <1>1
      <4>2. /\ SubSeq(draft.splits, 1, i - 1) \in Seq(SplitRow)
            /\ SubSeq(draft.splits, i + 1, Len(draft.splits)) \in Seq(SplitRow)
        BY <1>1, <4>1
      <4> QED BY <4>2 DEF F!RemoveAt
    <3> QED BY <1>1, <3>1, <3>2 DEF DraftRec
  <2>6. CASE F!ToggleLock
    BY <1>1, <2>6 DEF F!ToggleLock, F!Set, DraftRec, LockRow
  <2>7. CASE F!EditLock
    <3>1. PICK lock \in LockRow : draft' = [draft EXCEPT !.lock = lock]
      BY <1>1, <2>7 DEF F!EditLock, F!Set, DraftRec, LockRow
    <3> QED BY <1>1, <3>1 DEF DraftRec
  <2>8. CASE F!EditDevBuy
    BY <1>1, <2>8 DEF F!EditDevBuy, F!Set, DraftRec
  <2> QED BY <2>1, <2>2, <2>3, <2>4, <2>5, <2>6, <2>7, <2>8
<1> QED BY <1>2, <1>3 DEF FormInv

\* What the form and the builders let pass, the program's register accepts.
LEMMA ValidRegisters ==
    ASSUME draft \in DraftRec, F!FormValid(draft), F!InputsValid(F!Requested(draft))
    PROVE  F!Registers(F!Requested(draft))
<1> DEFINE r == F!Requested(draft)
<1>1. r.splits = draft.splits /\ r.hooks = draft.hooks
  BY DEF F!Requested
<1>2. \A i \in DOMAIN r.splits : r.splits[i].wallet \in Payable
  <2>1. ASSUME NEW i \in DOMAIN draft.splits PROVE draft.splits[i].wallet \in Payable
    <3>1. draft.splits[i] \in SplitRow
      BY DEF DraftRec
    <3>2. draft.splits[i].wallet # NoAddress /\ draft.splits[i].wallet \notin Reserved
      BY <1>1 DEF F!FormValid, F!InputsValid
    <3> QED BY <3>1, <3>2 DEF SplitRow
  <2> QED BY <1>1, <2>1
<1> HIDE DEF r
<1>3. \A i \in DOMAIN F!Planned(r) : F!ValidLockTerms(F!Planned(r)[i])
  BY DEF r, F!Planned, F!InputsValid, F!ValidLockTerms
<1> QED BY <1>2, <1>3, FormNumbers DEF r, F!InputsValid, F!Registers

\* And lock accepts the terms: something is locked, on the terms registered.
LEMMA ValidLocks ==
    ASSUME draft \in DraftRec, F!InputsValid(F!Requested(draft)), F!Requested(draft).lock # <<>>
    PROVE  F!Locks(F!Requested(draft))
<1> DEFINE r == F!Requested(draft)
<1>1. /\ r.lock = <<draft.lock>> /\ r.tokens = draft.devBuy /\ draft.devBuy # F!NoDevBuy
      /\ r.lock[1] = draft.lock /\ 1 \in DOMAIN r.lock
  BY DEF F!Requested
<1>2. draft.devBuy \in Tokens \ {0} /\ draft.lock.share \in LockShares \cup {BPS \div 2}
  BY <1>1 DEF DraftRec, LockRow, F!InputsValid
<1> HIDE DEF r
<1>3. F!ValidLockTerms(r.lock[1])
  BY <1>1 DEF r, F!InputsValid, F!ValidLockTerms
<1>4. F!LockAmount(r) > 0
  <2> DEFINE m == draft.devBuy * draft.lock.share
  <2>1. m \in Nat /\ m >= BPS
    BY <1>2, FormNumbers
  <2>2. F!LockAmount(r) = m \div BPS
    BY <1>1 DEF F!LockAmount
  <2> HIDE DEF m
  <2>3. m \div BPS > 0
    BY <2>1, FormNumbers
  <2> QED BY <2>2, <2>3
<1> QED BY <1>3, <1>4 DEF F!Locks, F!Planned, r

LEMMA FormStep == FormInv /\ [F!Next]_formVars => FormInv'
<1> SUFFICES ASSUME FormInv, [F!Next]_formVars PROVE FormInv'
  OBVIOUS
<1>1. CASE F!MoveSlider \/ F!ChoosePreset \/ F!AddSplit \/ F!EditSplit \/ F!RemoveSplit
           \/ F!ToggleLock \/ F!EditLock \/ F!EditDevBuy
  BY <1>1, EditsKeep
<1>2. CASE F!Submit
  BY <1>2 DEF F!Submit, FormInv
<1>3. CASE F!Register
  <2>1. F!Registers(F!Requested(draft))
    BY <1>3, ValidRegisters DEF F!Register, FormInv
  <2> QED BY <1>3, <2>1 DEF F!Register, FormInv
<1>4. CASE F!Lock
  <2>1. F!Locks(F!Requested(draft))
    BY <1>4, ValidLocks DEF F!Lock, FormInv
  <2> QED BY <1>4, <2>1 DEF F!Lock, FormInv
<1>5. CASE UNCHANGED formVars
  BY <1>5 DEF formVars, FormInv
<1> QED BY <1>1, <1>2, <1>3, <1>4, <1>5 DEF F!Next

\* From every allocation the sliders of hooks.js can reach, each can be put anywhere and the four
\* shares stay the whole; and whatever was typed, a launch that the form and its builders let pass
\* is refused neither by `register` nor by `lock`, after its metadata was published.
THEOREM FormStaysAccepted == PartsSpec => []FormAccepted
<1>1. PartsInit => FormInv
  BY FormInit DEF PartsInit
<1>2. FormInv /\ [PartsNext]_<<part, formVars, vars>> => FormInv'
  <2>1. [PartsNext]_<<part, formVars, vars>> => [F!Next]_formVars
    BY DEF PartsNext
  <2> QED BY <2>1, FormStep
<1>3. FormInv => FormAccepted
  <2> SUFFICES ASSUME FormInv PROVE F!SharesWhole /\ F!NothingStranded
    BY DEF FormAccepted
  <2>1. Whole(draft.hooks)
    BY DEF FormInv
  <2>2. \A h \in F!Hook, v \in 0..BPS :
           LET set == F!SetAllocation(draft.hooks, h, v)
           IN set \in [F!Hook -> 0..BPS] /\ set[h] = v
    BY <2>1, SlidersKeepWhole DEF Whole
  <2>3. /\ F!Allocated(draft.hooks) = BPS
        /\ F!NothingStranded
    BY <2>1 DEF FormInv, Whole, F!NothingStranded
  <2> QED BY <2>2, <2>3 DEF F!SharesWhole
<1> QED BY <1>1, <1>2, <1>3, PTL DEF PartsSpec
=============================================================================
