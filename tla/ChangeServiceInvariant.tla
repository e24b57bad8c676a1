---------------------- MODULE ChangeServiceInvariant ----------------------
(***************************************************************************)
(* What makes AtMostOneSend and NothingHidden inductive, whatever time     *)
(* does: which changes the handlers hold, in what states these can be, and *)
(* what their attempts know of them.                                       *)
(***************************************************************************)
EXTENDS ChangeService

Drafting == {"drafting", "drafted"}
Holding == Leaseless \union Claiming \union Attempting
\* Where an approved change can be until its own attempt reports on it.
Open == {"applying", "indeterminate", "applied"}
Untried == {"none", "staged"}

\* A draft under way is nobody else's and is not stored yet; every other
\* change a handler holds is stored.
JobsKnown ==
    \A e \in Executor :
        /\ exec[e].pc \in Holding => exec[e].job \in Change
        /\ exec[e].pc \in Drafting =>
              /\ row[exec[e].job].state = "none"
              /\ \A f \in Executor : exec[f].job = exec[e].job => f = e
        /\ exec[e].pc \in Holding \ Drafting => row[exec[e].job].state # "none"

\* Two attempts never hold the same change, and nobody but its attempt
\* reports that a change failed or expired.
AttemptsAlone ==
    \A e \in Executor : exec[e].pc \in Attempting =>
        /\ row[exec[e].job].state \in Open
        /\ \A f \in Executor :
              exec[f].pc \in Attempting /\ exec[f].job = exec[e].job => f = e

\* Nothing is sent for a change before an attempt has validated it.
SendsAfterClaim ==
    /\ \A c \in Change : row[c].state \in Untried => sends[c] = 0
    /\ \A e \in Executor : exec[e].pc \in {"claimed", "validated"} =>
          sends[exec[e].job] = 0 /\ effect[exec[e].job] = "none"

\* An attempt reports what happened: nothing, all of it, or that it is unsure.
VerdictsTrue ==
    \A e \in Executor :
        /\ exec[e].pc = "acked" => effect[exec[e].job] = "full"
        /\ exec[e].pc = "settling" =>
              \/ exec[e].verdict = "indeterminate"
              \/ exec[e].verdict \in {"failed", "expired"}
                    /\ effect[exec[e].job] = "none"
              \/ exec[e].verdict = "applied" /\ effect[exec[e].job] = "full"

\* Contents that are written are contents the target can have.
ContentsKnown ==
    /\ \A c \in Change : row[c].state # "none" => row[c].after \in Value
    /\ \A e \in Executor : exec[e].pc = "simulating" => exec[e].cur \in Value

\* The inductive invariant.
IInv ==
    /\ TypeOK
    /\ JobsKnown
    /\ AttemptsAlone
    /\ SendsAfterClaim
    /\ VerdictsTrue
    /\ ContentsKnown
    /\ NothingHidden
    /\ AtMostOneSend
=============================================================================
