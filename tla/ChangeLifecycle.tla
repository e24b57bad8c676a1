-------------------------- MODULE ChangeLifecycle --------------------------
(***************************************************************************)
(* What the Change Service promises about one advertising change, with no  *)
(* processes, leases or clocks: a change is carried out at most once, only *)
(* after approval, and what is reported never contradicts what the         *)
(* platform did.  ChangeService implements it.                             *)
(***************************************************************************)
CONSTANT Change

VARIABLES
    status,   \* the recorded state of each change, "none" before it is staged
    effect    \* what has reached the platform: "none", "partial" or "full"

vars == <<status, effect>>

Statuses == {"none", "staged", "applying", "applied", "discarded",
             "expired", "failed", "indeterminate"}

\* ads.CanTransition, with the insertion of a draft as its first step.
CanTransition(from, to) ==
    \/ from = "none"          /\ to = "staged"
    \/ from = "staged"        /\ to \in {"applying", "discarded", "expired"}
    \/ from = "applying"      /\ to \in {"applied", "failed", "indeterminate",
                                         "expired"}
    \/ from = "indeterminate" /\ to \in {"applied", "failed"}

Init ==
    /\ status = [c \in Change |-> "none"]
    /\ effect = [c \in Change |-> "none"]

\* A change is reported applied straight from execution only when all of it
\* happened, and failed or expired only when none of it did or will.
Report(c, to) ==
    /\ CanTransition(status[c], to)
    /\ to \in {"failed", "expired", "discarded"} => effect[c] = "none"
    /\ status[c] = "applying" /\ to = "applied" => effect[c] = "full"
    /\ status' = [status EXCEPT ![c] = to]
    /\ UNCHANGED effect

\* The platform carries out an approved change, in one or two steps, possibly
\* after its outcome was given up as unknown.
Execute(c, amount) ==
    /\ status[c] \in {"applying", "indeterminate", "applied"}
    /\ \/ effect[c] = "none"
       \/ effect[c] = "partial" /\ amount = "full"
    /\ effect' = [effect EXCEPT ![c] = amount]
    /\ UNCHANGED status

Next == \E c \in Change :
            \/ \E to \in Statuses : Report(c, to)
            \/ \E amount \in {"partial", "full"} : Execute(c, amount)

Spec == Init /\ [][Next]_vars
=============================================================================
