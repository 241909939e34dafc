---------------------------- MODULE MCQuantumWell ----------------------------
(***************************************************************************)
(* Small instances of QuantumWell.  One lamport of the model is 100 000    *)
(* lamports, so the rents and the pulse floor keep their real proportions: *)
(* 890 880 (9), 2 039 280 (20) and 1 000 000 (10).                         *)
(***************************************************************************)
EXTENDS QuantumWell

CONSTANTS t, l, a         \* the treasury, the launcher and a split wallet

\* The launcher's address is also the second split's.  Unused slots name it too, for
\* Pubkey::default().
Addresses == [k \in Payee |-> IF k = TREASURY THEN t ELSE IF k = 1 THEN a ELSE l]

Hooks(creator, burn, entangle, fusion, split1, split2, wallets) ==
    [ creator |-> creator, burn |-> burn, entangle |-> entangle, fusion |-> fusion,
      splits |-> [i \in Split |-> IF i = 1 THEN split1 ELSE IF i = 2 THEN split2 ELSE 0],
      wallet |-> wallets ]

Config(bps, maxBurn, interval, grace, delay, paused) ==
    [ treasury |-> t, protocol_bps |-> bps, max_burn_lamports |-> maxBurn,
      min_action_interval |-> interval, keeper_grace |-> grace,
      claim_delay |-> delay, paused |-> paused ]

\* Pulses: two splits and a launcher; two slots with one address; bps that do not add up.
PulseParams ==
    { Hooks(8000, 2000, 0, 0, 2500, 3333, Addresses),
      Hooks(8000, 2000, 0, 0, 2500, 3333, [Addresses EXCEPT ![2] = a]),
      Hooks(9000, 2000, 0, 0, 2500, 0, Addresses) }
PulseConfigs == {Config(1000, 20, 1, 1, 0, FALSE), Config(1000, 20, 1, 1, 0, TRUE)}

\* Spending: one coin that burns and funds Fusion, one that only burns.  Epochs: everything goes to
\* Entanglement; the claim delay changes while epochs are open.
LedgerParams ==
    { Hooks(0, 5000, 0, 5000, 0, 0, [k \in Payee |-> t]),
      Hooks(0, 10000, 0, 0, 0, 0, [k \in Payee |-> t]),
      Hooks(0, 0, 10000, 0, 0, 0, [k \in Payee |-> t]) }
LedgerConfigs ==
    { Config(0, 20, 2, 1, 0, FALSE), Config(0, 20, 2, 1, 1, FALSE) }
LedgerTrees == { [total |-> 6, leaves |-> <<2, 4>>], [total |-> 9, leaves |-> <<5, 5>>] }

NoTrees == {}
=============================================================================
