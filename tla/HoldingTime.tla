----------------------------- MODULE HoldingTime -----------------------------
(***************************************************************************)
(* What Entanglement promises for one coin: the seconds of holding time    *)
(* the keeper has sampled are paid by epochs, each second by one epoch at  *)
(* most.  Cancelling an epoch takes the payment of its seconds back.       *)
(* KeeperEpochs is shown to implement this.                                *)
(***************************************************************************)
EXTENDS Integers

VARIABLES
    sampled,      \* the number of seconds sampled: 1..sampled
    paid          \* the standing epochs, each the set of the seconds it pays

Init == sampled = 0 /\ paid = {}

Sample ==
    /\ sampled' = sampled + 1
    /\ UNCHANGED paid

\* An epoch pays seconds no standing epoch pays.
Pay(seconds) ==
    /\ seconds # {}
    /\ \A other \in paid : seconds \cap other = {}
    /\ paid' = paid \cup {seconds}
    /\ UNCHANGED sampled

Cancel(seconds) ==
    /\ paid' = paid \ {seconds}
    /\ UNCHANGED sampled

Next == \/ Sample
        \/ \E seconds \in SUBSET (1..sampled) : Pay(seconds)
        \/ \E seconds \in paid : Cancel(seconds)

Spec == Init /\ [][Next]_<<sampled, paid>>

=============================================================================
