------------------------------ MODULE ToolLoop ------------------------------
(***************************************************************************)
(* What every runtime adapter promises the host about one run              *)
(* (docs/agent-harness.md, internal/runtime/runtime.go): it executes each  *)
(* call of the model once and at most Limit of them, and it ends with      *)
(* success or with an error.  After an error nothing is promised of the    *)
(* run but its end.                                                        *)
(***************************************************************************)
EXTENDS Naturals, FiniteSets

CONSTANTS
    Id,      \* ids of tool calls
    Limit    \* calls a run may execute (64)

VARIABLES
    ran,     \* the calls executed
    state    \* "running", "broken" after an error, "succeeded" or "failed"

vars == <<ran, state>>

Init == ran = {} /\ state = "running"

Execute(id) ==
    /\ state = "running"
    /\ id \notin ran
    /\ Cardinality(ran) < Limit
    /\ ran' = ran \union {id}
    /\ UNCHANGED state

Break == state = "running" /\ state' = "broken"
Succeed == state = "running" /\ state' = "succeeded" /\ UNCHANGED ran
Fail == state \in {"running", "broken"} /\ state' = "failed" /\ UNCHANGED ran
Wreck == state = "broken" /\ UNCHANGED state

Next == (\E id \in Id : Execute(id)) \/ Break \/ Succeed \/ Fail \/ Wreck

Spec == Init /\ [][Next]_vars
=============================================================================
