---------------------------- MODULE PlatformWrite ----------------------------
(***************************************************************************)
(* What the Change Service is promised of one approved write that is sent  *)
(* to TikTok: one answer, true of what the platform did and may still do,  *)
(* and a confirmation of acknowledged writes only.  PlatformOperation      *)
(* implements it; ChangeService takes its answers from the same sets.      *)
(***************************************************************************)
EXTENDS PlatformAnswers

CONSTANT None

VARIABLES
    bundle,    \* the write is a campaign with its group and ads
    answer,    \* the answer, None while there is none
    effect,    \* what the platform did of it and may still do
    confirmed  \* it was read back

vars == <<bundle, answer, effect, confirmed>>

Init ==
    /\ bundle \in BOOLEAN
    /\ answer = None /\ effect = "none" /\ confirmed = FALSE

Answers == IF bundle THEN BundleAnswers ELSE RequestAnswers

Answer ==
    /\ answer = None
    /\ <<answer', effect'>> \in Answers
    /\ UNCHANGED <<bundle, confirmed>>

\* TikTok carries out a request whose answer was given up.
Arrive ==
    /\ effect \in {"inflight", "trailing"}
    /\ effect' = Arrived(effect, bundle)
    /\ UNCHANGED <<bundle, answer, confirmed>>

\* It never will.
Vanish ==
    /\ effect \in {"inflight", "trailing"}
    /\ effect' = IF effect = "inflight" THEN "none" ELSE "partial"
    /\ UNCHANGED <<bundle, answer, confirmed>>

Confirm ==
    /\ answer = "acknowledged"
    /\ confirmed' = TRUE
    /\ UNCHANGED <<bundle, answer, effect>>

Next == Answer \/ Arrive \/ Vanish \/ Confirm

Spec == Init /\ [][Next]_vars
=============================================================================
