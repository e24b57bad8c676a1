---------------------------- MODULE Conversation ----------------------------
(***************************************************************************)
(* What the application promises about the conversation of one session,    *)
(* with no hosts, leases or runtimes: a turn opens behind all the turns    *)
(* before it, is settled at most once and only while it is the last, and   *)
(* nothing recorded is ever lost.  AgentTurn implements it.                *)
(***************************************************************************)
EXTENDS Naturals, Sequences

CONSTANT Turn

VARIABLE conversation   \* the turns of the session and how each one stands

Final == {"completed", "failed", "cancelled", "budget_exhausted"}

Init == conversation = <<>>

Open(t) ==
    /\ \A i \in 1..Len(conversation) : conversation[i].turn # t
    /\ conversation' = Append(conversation, [turn |-> t, status |-> "running"])

\* A turn whose process died or whose final save failed is left running; the
\* next one opens behind it.
Settle(t, status) ==
    LET last == Len(conversation) IN
    /\ last > 0
    /\ conversation[last] = [turn |-> t, status |-> "running"]
    /\ conversation' = [conversation EXCEPT ![last].status = status]

Next == \E t \in Turn : Open(t) \/ \E status \in Final : Settle(t, status)

Spec == Init /\ [][Next]_conversation
=============================================================================
