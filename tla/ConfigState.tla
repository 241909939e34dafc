----------------------------- MODULE ConfigState -----------------------------
(***************************************************************************)
(* The program's config, the instructions that change it (config.rs), and  *)
(* what they promise.  Who builds them, from what, is ConfigUpdates.       *)
(***************************************************************************)
EXTENDS Integers, Sequences

CONSTANTS
    Field,          \* what update_config rewrites, "authority" among them
    Value,          \* what a field may hold
    Operator,       \* keys of the people with the tools: values "authority" may hold
    Lists,          \* contents of launch_configs
    NodesLag,       \* may a tool's second read be older than its first?
    MaxChanges,     \* bound: changes of the config
    MaxPending,     \* bound: instructions built and not yet landed
    Idle            \* the operator's tool is not in use

\* The changes an operator may ask for.
Changes == UNION {[S -> Value] : S \in SUBSET Field \ {{}}}

ASSUME ConfigAssumption ==
    /\ "authority" \in Field
    /\ Operator \subseteq Value
    /\ Idle \notin Nat
    /\ NodesLag \in BOOLEAN
    /\ MaxChanges \in Nat
    /\ MaxPending \in Nat

Content == [ fields : [Field -> Value], paused : BOOLEAN, launch : Lists, version : Nat ]

VARIABLES
    past,        \* every content the config has had, the current one last: what nodes may serve
    tool,        \* the content each operator's program-ops was shown
    pending      \* instructions built and signed, which may land at any time or never

toolVars == <<past, tool, pending>>

OnChain == past[Len(past)]

-----------------------------------------------------------------------------
(* The instructions.                                                       *)

\* bump_version, run by every change
Bumped(ix) == OnChain.version + 1

\* Mutant: an update lands on any later version too.
FreshOrNewer(ix) == ix.kind # "paused" => ix.expected <= OnChain.version

\* update_config and set_launch_configs: ConfigChanged unless at the expected version.
Fresh(ix) == ix.kind # "paused" => ix.expected = OnChain.version

Changed(ix) ==
    CASE ix.kind = "update" -> [OnChain EXCEPT !.fields = ix.fields, !.version = Bumped(ix)]
      [] ix.kind = "paused" -> [OnChain EXCEPT !.paused = ix.paused, !.version = Bumped(ix)]
      [] ix.kind = "launch" -> [OnChain EXCEPT !.launch = ix.list, !.version = Bumped(ix)]

Land(ix) ==
    /\ ix.signer = OnChain.fields["authority"]               \* has_one authority
    /\ Fresh(ix)
    /\ Len(past) <= MaxChanges
    /\ past' = Append(past, Changed(ix))
    /\ pending' = pending \ {ix}
    /\ UNCHANGED tool

\* An update changes what its operator asked for and nothing else: the fields it fills in itself
\* hold what they held just before it lands, whatever other operators changed between its
\* reads, its building and its landing (config.rs:127, shared/quantum.mjs:1372).
NothingUndone ==
    [][\A ix \in pending :
         ix.kind = "update" /\ Land(ix) =>
             \A f \in Field \ ix.asked : OnChain'.fields[f] = OnChain.fields[f]]_toolVars
=============================================================================
