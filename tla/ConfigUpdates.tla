---------------------------- MODULE ConfigUpdates ----------------------------
(***************************************************************************)
(* Changes of the program's config (config.rs) by operators whose tools    *)
(* first read it, then build an instruction, then send it or pass it on as *)
(* a multisig proposal (program-ops.mjs, set-launch-configs.mjs and the    *)
(* builders of shared/quantum.mjs).  Between those steps other operators'  *)
(* changes land, and a read may be answered by a node that is behind.      *)
(*                                                                         *)
(* A config's content is abstract: every field of update_config holds one  *)
(* of a few values, all valid, and the list of launch configs is one value.*)
(* The simulation program-ops runs before sending only holds back          *)
(* instructions; the proposals it prints are not held back, so it is left  *)
(* out.                                                                    *)
(***************************************************************************)
EXTENDS ConfigState, FiniteSets

Init ==
    /\ \E f \in [Field -> Value], l \in Lists :           \* initialize_config
          past = << [fields |-> f, paused |-> FALSE, launch |-> l, version |-> 0] >>
    /\ tool = [o \in Operator |-> Idle]
    /\ pending = {}

-----------------------------------------------------------------------------
(* The tools.  A read is the index of the content some node serves.        *)

Build(ix) ==
    /\ Cardinality(pending) < MaxPending
    /\ pending' = pending \cup {ix}
    /\ UNCHANGED past

\* program-ops reads the config it shows to the operator and pins the update to.
ReadConfig(o) ==
    /\ tool[o] = Idle
    /\ \E shown \in 1..Len(past) : tool' = [tool EXCEPT ![o] = shown]
    /\ UNCHANGED <<past, pending>>

\* What the builder's own read may see after the first read saw `shown`.
SecondRead(shown) == IF NodesLag THEN 1..Len(past) ELSE shown..Len(past)

\* buildUpdateConfigInstruction: fields nobody asked to change are filled in from a second read,
\* the version comes from the first.
BuildUpdate(o) ==
    /\ tool[o] # Idle
    /\ LET shown == tool[o]
       IN \E asked \in Changes, current \in SecondRead(shown) :
            Build([ kind |-> "update", signer |-> o, shown |-> shown,
                    expected |-> past[shown].version, asked |-> DOMAIN asked,
                    fields |-> [f \in Field |-> IF f \in DOMAIN asked THEN asked[f]
                                                ELSE past[current].fields[f]] ])
    /\ tool' = [tool EXCEPT ![o] = Idle]

\* set-launch-configs: the list is given whole, pinned to the version read.
BuildLaunch(o) ==
    /\ \E shown \in 1..Len(past), list \in Lists :
          Build([ kind |-> "launch", signer |-> o, shown |-> shown,
                  expected |-> past[shown].version, list |-> list ])
    /\ UNCHANGED tool

BuildPaused(o) ==
    /\ \E paused \in BOOLEAN :
          Build([kind |-> "paused", signer |-> o, paused |-> paused])
    /\ UNCHANGED tool

Drop == \E ix \in pending : pending' = pending \ {ix} /\ UNCHANGED <<past, tool>>

Next ==
    \/ \E o \in Operator : ReadConfig(o) \/ BuildUpdate(o) \/ BuildLaunch(o) \/ BuildPaused(o)
    \/ Drop
    \/ \E ix \in pending : Land(ix)

Spec == Init /\ [][Next]_toolVars

-----------------------------------------------------------------------------
(* Types and properties.                                                   *)

Instruction ==
    [ kind : {"update"}, signer : Operator, shown : 1..Len(past), expected : Nat,
      asked : SUBSET Field, fields : [Field -> Value] ]
    \cup [ kind : {"launch"}, signer : Operator, shown : 1..Len(past), expected : Nat,
           list : Lists ]
    \cup [kind : {"paused"}, signer : Operator, paused : BOOLEAN]

\* Contents, readings and instructions have their types, and a version names one content: every
\* change, pauses included, bumps it (bump_version, config.rs:80).
TypeOK ==
    /\ past \in Seq(Content) /\ past # <<>>
    /\ \A i \in 1..Len(past) : past[i].version = i - 1
    /\ tool \in [Operator -> {Idle} \cup 1..Len(past)]
    /\ pending \subseteq Instruction

\* An update or a launch list lands only on the very config its operator was shown: not a pause,
\* not another list, not a change that was changed back has come between.
LandsOnShown ==
    [][\A ix \in pending : ix.kind # "paused" /\ Land(ix) => ix.shown = Len(past)]_toolVars
=============================================================================
