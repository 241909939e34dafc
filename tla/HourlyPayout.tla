---------------------------- MODULE HourlyPayout ----------------------------
(***************************************************************************)
(* What the payout engine promises of an hour: at most one run owns it,    *)
(* and every part of that run - a batch of payouts, the buyback - is paid  *)
(* at most once, and only by the owner.                                    *)
(***************************************************************************)
CONSTANTS Hours, Run, Part,
    Moments      \* when a payment's transaction expires: two payments of one part differ in it

VARIABLES
    owns,        \* which run owns which hour: <<hour, run>>
    paid         \* the payments made: <<hour, run, part, moment>>

Init == owns = {} /\ paid = {}

Own ==
    /\ UNCHANGED paid
    /\ \E h \in Hours \ {o[1] : o \in owns}, r \in Run : owns' = owns \cup {<<h, r>>}

Pay ==
    /\ UNCHANGED owns
    /\ \E o \in owns, p \in Part, t \in Moments :
          /\ \A q \in paid : <<q[1], q[2], q[3]>> # <<o[1], o[2], p>>
          /\ paid' = paid \cup {<<o[1], o[2], p, t>>}

Next == Own \/ Pay

Spec == Init /\ [][Next]_<<owns, paid>>
=============================================================================
