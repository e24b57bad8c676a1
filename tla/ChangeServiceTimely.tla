------------------------ MODULE ChangeServiceTimely ------------------------
(***************************************************************************)
(* The Change Service where time keeps its promises: a process is never    *)
(* stopped for long, and the backend answers the account read made under   *)
(* the lease early enough.  Local work does; three TikTok attempts of 20   *)
(* seconds need not.                                                       *)
(***************************************************************************)
EXTENDS ChangeServiceInvariant

\* 60 s of lease over a refresh and 30 s of execution, or over a save; 10
\* minutes of lease over 5; 60 s of grace over 30 s of execution and a 5 s save.
LeaseCovers ==
    /\ RefreshBound + ApplyTimeout < LeaseTTL
    /\ SaveTimeout < LeaseTTL
    /\ AdvanceTimeout < AdvanceTTL
GraceCovers == ApplyTimeout + SaveTimeout < ReconcileGrace

ASSUME TimingAssumption == LeaseCovers /\ GraceCovers

-----------------------------------------------------------------------------
(* What makes LeaseExcludes, NoAttemptStolen, WriteMeetsPolicy and          *)
(* AdvanceLosesNothing inductive.                                           *)

\* What comes after the present deadline and still needs the lease.
Remaining(e) == IF exec[e].pc \in Claiming THEN ApplyTimeout ELSE 0

LeaseLasts(e) ==
    exec[e].pc \in Protected =>
        lease.owner = e /\ exec[e].left + Remaining(e) < lease.left

GraceLasts(e) ==
    /\ exec[e].pc \in Attempting => row[exec[e].job].state = "applying"
    /\ exec[e].pc \in Executing => exec[e].left + SaveTimeout < row[exec[e].job].timer
    /\ exec[e].pc = "settling" => exec[e].left < row[exec[e].job].timer

PolicyMet(e) ==
    At(e, "validated") /\ Kind[exec[e].job] \in Budgeted =>
        \E b \in Judged(Kind[exec[e].job], row[exec[e].job].before) :
            Permitted(policy, Kind[exec[e].job], b, row[exec[e].job].after)

ReadsKept(e) ==
    /\ exec[e].pc \in {"refreshed", "claimed"} => exec[e].pol = policy
    /\ exec[e].pc \in Advancing => ~Live
    /\ At(e, "simulating") => exec[e].cur = target /\ exec[e].pol = policy

Safe(e) == LeaseLasts(e) /\ GraceLasts(e) /\ PolicyMet(e) /\ ReadsKept(e)

\* Only TikTok carries out requests late.
SandboxAnswersAtOnce ==
    \A c \in Change : effect[c] \in {"inflight", "trailing"} => Live

TInv ==
    /\ IInv
    /\ \A e \in Executor : Safe(e)
    /\ SandboxAnswersAtOnce
=============================================================================
