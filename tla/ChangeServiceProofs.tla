------------------------- MODULE ChangeServiceProofs -------------------------
(***************************************************************************)
(* Proofs about ChangeService, for any number of changes, executors,       *)
(* contents and policies.  The first part assumes nothing about time: the  *)
(* types, AtMostOneSend, NothingHidden and that it implements              *)
(* ChangeLifecycle; its invariant is IInv (ChangeServiceInvariant).  Most  *)
(* steps only move one handler on.  QuietStep proves, once, that such a    *)
(* step preserves IInv when the handler's new record Fits; each action     *)
(* then shows its record.  The steps that write rows or reach the platform *)
(* are proved one conjunct at a time.                                      *)
(***************************************************************************)
EXTENDS ChangeServiceTimely, TLAPS

-----------------------------------------------------------------------------
(* Constants and types.                                                     *)

\* The recorded states.
LEMMA StatesKnown ==
    {"none", "staged", "applying", "applied", "discarded", "expired",
     "failed", "indeterminate"} = Lifecycle!Statuses
  BY DEF Lifecycle!Statuses

\* The handlers' points of control.
LEMMA PointsKnown ==
    {"idle", "drafting", "drafted", "approving", "leased", "refreshed",
     "claimed", "validated", "acked", "settling", "releasing", "reconciling",
     "observing", "confirming", "configuring", "advancing", "simulating"} = Points
  BY DEF Points, Timed, Protected, Claiming, Executing, Advancing, Leaseless

\* Every duration is a natural number of ticks.
LEMMA TimersAreNat ==
    /\ StageTTL \in Nat /\ LeaseTTL \in Nat /\ RefreshBound \in Nat
    /\ ApplyTimeout \in Nat /\ SaveTimeout \in Nat /\ ReconcileGrace \in Nat
    /\ AdvanceTTL \in Nat /\ AdvanceTimeout \in Nat
  BY TimerAssumption DEF Timers

\* A lease is taken by an executor, for a natural time.
LEMMA TakeLeaseType ==
  ASSUME NEW e \in Executor, NEW time \in Nat, TakeLease(e, time)
  PROVE  lease' \in [owner: Executor \union {None}, left: Nat]
  BY DEF TakeLease

-----------------------------------------------------------------------------
(* Steps of one handler that leave the rows and the platform alone.         *)

\* A handler e may go on with the record r.
Fits(e, r) ==
    /\ r.pc \in Holding => r.job \in Change
    /\ r.pc \in Holding \ Drafting => row[r.job].state # "none"
    /\ r.pc \in Drafting => row[r.job].state = "none"
    /\ \A f \in Executor :
          /\ r.pc \in Drafting \/ exec[f].pc \in Drafting
          /\ exec[f].job = r.job
          => f = e
    /\ r.pc \in Attempting => exec[e].pc \in Attempting /\ r.job = exec[e].job
    /\ r.pc \in {"claimed", "validated"} => exec[e].pc \in {"claimed", "validated"}
    /\ r.pc = "acked" => effect[r.job] = "full"
    /\ r.pc = "settling" =>
          \/ r.verdict = "indeterminate"
          \/ r.verdict \in {"failed", "expired"} /\ effect[r.job] = "none"
          \/ r.verdict = "applied" /\ effect[r.job] = "full"
    /\ r.pc = "simulating" => r.cur \in Value

\* A handler that goes on with a fitting record preserves the invariant.
LEMMA QuietStep ==
  ASSUME IInv, NEW e \in Executor, NEW r \in Exec, Fits(e, r),
         exec' = [exec EXCEPT ![e] = r],
         UNCHANGED <<row, effect, sends>>,
         policy' \in Policies, target' \in Value, faults' \in Nat,
         lease' \in [owner: Executor \union {None}, left: Nat]
  PROVE  IInv'
  <1>1. TypeOK BY DEF IInv
  <1>2. exec'[e] = r /\ \A f \in Executor : f # e => exec'[f] = exec[f]
    BY <1>1 DEF TypeOK
  <1>3. TypeOK' BY <1>1 DEF TypeOK
  <1>4. JobsKnown' BY <1>2 DEF IInv, JobsKnown, Fits
  <1>5. AttemptsAlone' BY <1>2 DEF IInv, AttemptsAlone, Fits
  <1>6. SendsAfterClaim'
    BY <1>2 DEF IInv, SendsAfterClaim, Fits, Attempting, Executing
  <1>7. VerdictsTrue' BY <1>2 DEF IInv, VerdictsTrue, Fits
  <1>8. ContentsKnown' BY <1>2 DEF IInv, ContentsKnown, Fits
  <1>9. NothingHidden' /\ AtMostOneSend' BY DEF IInv, NothingHidden, AtMostOneSend
  <1> QED BY <1>3, <1>4, <1>5, <1>6, <1>7, <1>8, <1>9 DEF IInv

\* A handler that ends, or has only its lease to release, fits.
LEMMA BareFits ==
  ASSUME IInv, NEW e \in Executor, NEW p \in {"idle", "releasing"}
  PROVE  /\ [Idle EXCEPT !.pc = p] \in Exec
         /\ Fits(e, [Idle EXCEPT !.pc = p])
  <1> DEFINE r == [Idle EXCEPT !.pc = p]
  <1>1. r \in Exec /\ r.pc = p /\ r.job = None
    BY StatesKnown, PointsKnown DEF Idle, Exec, Outcomes
  <1> HIDE DEF r
  <1>2. Fits(e, r)
    BY <1>1, NoneAssumption
    DEF IInv, JobsKnown, Fits, Holding, Drafting, Attempting, Executing,
        Claiming, Leaseless
  <1> QED BY <1>1, <1>2 DEF r

\* Finish and Leave preserve the invariant.
LEMMA BareStep ==
  ASSUME IInv, NEW e \in Executor, Finish(e) \/ Leave(e),
         UNCHANGED <<row, effect, sends>>,
         policy' \in Policies, target' \in Value, faults' \in Nat,
         lease' \in [owner: Executor \union {None}, left: Nat]
  PROVE  IInv'
  <1>1. PICK p \in {"idle", "releasing"} :
            exec' = [exec EXCEPT ![e] = [Idle EXCEPT !.pc = p]]
    <2>1. Idle = [Idle EXCEPT !.pc = "idle"] BY DEF Idle
    <2> QED BY <2>1 DEF Finish, Leave
  <1> QED BY <1>1, BareFits, QuietStep

\* A handler that keeps its change and does not begin, end or judge an
\* attempt preserves the invariant.
LEMMA MoveStep ==
  ASSUME IInv, NEW e \in Executor, NEW r \in Exec,
         exec' = [exec EXCEPT ![e] = r], r.job = exec[e].job,
         r.pc \in Holding => exec[e].pc \in Holding \ Drafting,
         r.pc \notin Drafting \union Attempting \union {"simulating"},
         UNCHANGED <<row, effect, sends, policy, target, faults>>,
         lease' \in [owner: Executor \union {None}, left: Nat]
  PROVE  IInv'
  <1>1. Fits(e, r) BY DEF Fits, IInv, JobsKnown, Attempting, Executing
  <1>2. policy' \in Policies /\ target' \in Value /\ faults' \in Nat
    BY DEF IInv, TypeOK
  <1> QED BY <1>1, <1>2, QuietStep

-----------------------------------------------------------------------------
(* Staging.                                                                 *)

\* A new draft is held by one handler only.
LEMMA StagePolicyStep ==
  ASSUME IInv, NEW e \in Executor, NEW c \in Change, StagePolicy(e, c)
  PROVE  IInv'
  <1> DEFINE r == [exec[e] EXCEPT !.pc = "drafting", !.job = c, !.pol = policy]
  <1>1. r \in Exec /\ r.pc = "drafting" /\ r.job = c
    BY ZenonT(60), PointsKnown DEF IInv, TypeOK, Exec
  <1>2. exec' = [exec EXCEPT ![e] = r] BY DEF StagePolicy
  <1> HIDE DEF r
  <1>3. row[c].state = "none" /\ \A f \in Executor : exec[f].job # c
    BY DEF StagePolicy, Drafted
  <1>4. Fits(e, r)
    BY <1>1, <1>3
    DEF Fits, Holding, Drafting, Attempting, Executing, Claiming, Leaseless
  <1>5. /\ UNCHANGED <<row, effect, sends>>
        /\ policy' \in Policies /\ target' \in Value /\ faults' \in Nat
        /\ lease' \in [owner: Executor \union {None}, left: Nat]
    BY DEF StagePolicy, UnchangedPlatform, IInv, TypeOK
  <1> QED BY <1>1, <1>2, <1>4, <1>5, QuietStep

\* Reading the target keeps the draft.
LEMMA StageReadStep ==
  ASSUME IInv, NEW e \in Executor, StageRead(e)
  PROVE  IInv'
  <1>1. PICK seen \in Value \union {None} :
            exec' = [exec EXCEPT ![e] = [exec[e] EXCEPT !.pc = "drafted", !.cur = seen]]
    BY DEF StageRead, IInv, TypeOK
  <1> DEFINE r == [exec[e] EXCEPT !.pc = "drafted", !.cur = seen]
  <1>2. r \in Exec /\ r.pc = "drafted" /\ r.job = exec[e].job
    BY ZenonT(60), PointsKnown DEF IInv, TypeOK, Exec
  <1>3. exec' = [exec EXCEPT ![e] = r] BY <1>1
  <1> HIDE DEF r
  <1>4. exec[e].pc = "drafting" BY DEF StageRead, At
  <1>5. Fits(e, r)
    BY <1>2, <1>4
    DEF IInv, JobsKnown, Fits, Holding, Drafting, Attempting, Executing,
        Claiming, Leaseless
  <1>6. /\ UNCHANGED <<row, effect, sends>>
        /\ policy' \in Policies /\ target' \in Value /\ faults' \in Nat
        /\ lease' \in [owner: Executor \union {None}, left: Nat]
    BY DEF StageRead, UnchangedPlatform, IInv, TypeOK
  <1> QED BY <1>2, <1>3, <1>5, <1>6, QuietStep

\* The inserted draft has no other handler, and nothing was sent for it.
LEMMA StageInsertStep ==
  ASSUME IInv, NEW e \in Executor, StageInsert(e)
  PROVE  IInv'
  <1> DEFINE c == exec[e].job
  <1>1. TypeOK /\ exec[e].pc = "drafted" BY DEF IInv, StageInsert, At
  <1>2. /\ c \in Change /\ row[c].state = "none"
        /\ \A f \in Executor : exec[f].job = c => f = e
    BY <1>1 DEF IInv, JobsKnown, Holding, Leaseless, Drafting
  <1>3. PICK a \in Value : row' = [row EXCEPT ![c] =
            [row[c] EXCEPT !.state = "staged", !.before = exec[e].cur,
                           !.after = a, !.timer = StageTTL]]
    BY DEF StageInsert
  <1>4. /\ row' \in [Change -> Row]
        /\ row'[c].state = "staged" /\ row'[c].after = a
        /\ \A d \in Change : d # c => row'[d] = row[d]
    <2> DEFINE new == [row[c] EXCEPT !.state = "staged", !.before = exec[e].cur,
                                     !.after = a, !.timer = StageTTL]
    <2>1. new \in Row /\ new.state = "staged" /\ new.after = a
      BY ZenonT(60), <1>1, <1>2, StatesKnown, TimersAreNat DEF TypeOK, Row, Exec
    <2>2. row' = [row EXCEPT ![c] = new] BY <1>3
    <2> HIDE DEF new
    <2> QED BY <1>1, <1>2, <2>1, <2>2 DEF TypeOK
  <1>5. exec' = [exec EXCEPT ![e] = Idle] BY DEF StageInsert, Finish
  <1>6. Idle \in Exec /\ Idle.pc = "idle" /\ Idle.job = None
    BY StatesKnown, PointsKnown DEF Idle, Exec, Outcomes
  <1>7. /\ exec' \in [Executor -> Exec]
        /\ exec'[e].pc = "idle" /\ exec'[e].job = None
        /\ \A f \in Executor : f # e => exec'[f] = exec[f]
    BY <1>1, <1>5, <1>6 DEF TypeOK
  <1>8. UNCHANGED <<policy, lease, target, effect, sends, faults>>
    BY DEF StageInsert, UnchangedPlatform
  <1>9. TypeOK' BY <1>1, <1>4, <1>7, <1>8 DEF TypeOK
  <1>10. JobsKnown'
    BY <1>2, <1>4, <1>7, NoneAssumption
    DEF IInv, JobsKnown, Holding, Drafting, Attempting, Executing, Claiming, Leaseless
  <1>11. AttemptsAlone'
    BY <1>2, <1>4, <1>7
    DEF IInv, JobsKnown, Holding, AttemptsAlone, Attempting, Executing
  <1>12. SendsAfterClaim'
    BY <1>2, <1>4, <1>7, <1>8 DEF IInv, SendsAfterClaim, Untried
  <1>13. VerdictsTrue' BY <1>7, <1>8 DEF IInv, VerdictsTrue
  <1>14. ContentsKnown' BY <1>4, <1>7 DEF IInv, ContentsKnown
  <1>15. NothingHidden' /\ AtMostOneSend'
    BY <1>2, <1>4, <1>8 DEF IInv, NothingHidden, AtMostOneSend
  <1> QED BY <1>9, <1>10, <1>11, <1>12, <1>13, <1>14, <1>15 DEF IInv

-----------------------------------------------------------------------------
(* Transitions of a row.                                                    *)

\* What Store.Transition does to the changes table.
LEMMA TransitionStep ==
  ASSUME TypeOK, NEW c \in Change, NEW from, NEW to, NEW outcome \in Outcomes,
         Transition(c, from, to, outcome)
  PROVE  /\ row' \in [Change -> Row]
         /\ row[c].state = from
         /\ row'[c].state = to
         /\ row'[c].after = row[c].after
         /\ row'[c].before = row[c].before
         /\ row'[c].timer = IF to = "applying" THEN ReconcileGrace ELSE 0
         /\ \A d \in Change : d # c => row'[d] = row[d]
         /\ Lifecycle!CanTransition(from, to)
  <1>1. row \in [Change -> Row] BY DEF TypeOK
  <1>2. Lifecycle!CanTransition(from, to) /\ row[c].state = from BY DEF Transition
  <1>3. to \in Lifecycle!Statuses
    BY <1>2 DEF Lifecycle!CanTransition, Lifecycle!Statuses
  <1> DEFINE time == IF to = "applying" THEN ReconcileGrace ELSE 0
             new == [row[c] EXCEPT !.state = to, !.outcome = outcome, !.timer = time]
  <1>4. row' = [row EXCEPT ![c] = new] BY DEF Transition
  <1>5. time \in Nat BY TimersAreNat
  <1>6. /\ new \in Row /\ new.state = to
        /\ new.after = row[c].after /\ new.before = row[c].before
        /\ new.timer = time
    <2> HIDE DEF time
    <2> QED BY <1>1, <1>3, <1>5 DEF Row
  <1> HIDE DEF new
  <1> QED BY <1>1, <1>2, <1>4, <1>6

\* A draft that nobody approved is discarded or marked expired.
LEMMA ClosedDraftStep ==
  ASSUME IInv, NEW c \in Change, NEW to \in {"discarded", "expired"},
         Transition(c, "staged", to, "nil"),
         UNCHANGED <<policy, lease, exec, faults, target, effect, sends>>
  PROVE  IInv'
  <1>1. TypeOK BY DEF IInv
  <1>2. /\ row' \in [Change -> Row]
        /\ row[c].state = "staged" /\ row'[c].state = to
        /\ row'[c].after = row[c].after
        /\ \A d \in Change : d # c => row'[d] = row[d]
    BY <1>1, TransitionStep DEF Outcomes
  <1>3. TypeOK' BY <1>1, <1>2 DEF TypeOK
  <1>4. JobsKnown'
    BY <1>2 DEF IInv, JobsKnown, Holding, Drafting, Leaseless
  <1>5. AttemptsAlone' BY <1>2 DEF IInv, AttemptsAlone, JobsKnown, Holding, Open
  <1>6. SendsAfterClaim' BY <1>2 DEF IInv, SendsAfterClaim, Untried
  <1>7. VerdictsTrue' /\ AtMostOneSend' BY DEF IInv, VerdictsTrue, AtMostOneSend
  <1>8. ContentsKnown' /\ NothingHidden'
    BY <1>2 DEF IInv, ContentsKnown, NothingHidden
  <1> QED BY <1>3, <1>4, <1>5, <1>6, <1>7, <1>8 DEF IInv

\* The claim: nobody else attempts a change that was still staged.
LEMMA ClaimStep ==
  ASSUME IInv, NEW e \in Executor, Claim(e)
  PROVE  IInv'
  <1> DEFINE c == exec[e].job
             r == [exec[e] EXCEPT !.pc = "claimed", !.left = ApplyTimeout]
  <1>1. /\ TypeOK /\ c \in Change /\ exec[e].pc = "refreshed"
    BY DEF IInv, JobsKnown, Holding, Claiming, Claim, At
  <1>2. r \in Exec /\ r.pc = "claimed" /\ r.job = c
    BY ZenonT(60), <1>1, PointsKnown, TimersAreNat DEF TypeOK, Exec
  <1>3. exec' = [exec EXCEPT ![e] = r] BY <1>1 DEF Claim, TypeOK, Exec
  <1> HIDE DEF r
  <1>4. /\ exec' \in [Executor -> Exec]
        /\ exec'[e].pc = "claimed" /\ exec'[e].job = c
        /\ \A f \in Executor : f # e => exec'[f] = exec[f]
    BY <1>1, <1>2, <1>3 DEF TypeOK
  <1>5. /\ row' \in [Change -> Row]
        /\ row[c].state = "staged" /\ row'[c].state = "applying"
        /\ row'[c].after = row[c].after
        /\ \A d \in Change : d # c => row'[d] = row[d]
    BY <1>1, TransitionStep DEF Claim, Outcomes
  <1>6. UNCHANGED <<policy, lease, target, effect, sends, faults>>
    BY DEF Claim, UnchangedPlatform
  <1>7. TypeOK' BY <1>1, <1>4, <1>5, <1>6 DEF TypeOK
  <1>8. JobsKnown'
    BY <1>1, <1>4, <1>5
    DEF IInv, JobsKnown, Holding, Drafting, Attempting, Executing, Claiming, Leaseless
  <1>9. AttemptsAlone'
    BY <1>1, <1>4, <1>5
    DEF IInv, JobsKnown, Holding, AttemptsAlone, Attempting, Executing, Open
  <1>10. SendsAfterClaim'
    BY <1>1, <1>4, <1>5, <1>6
    DEF IInv, JobsKnown, Holding, Attempting, Executing, SendsAfterClaim,
        NothingHidden, Untried
  <1>11. VerdictsTrue' BY <1>1, <1>4, <1>6 DEF IInv, VerdictsTrue
  <1>12. ContentsKnown' BY <1>4, <1>5 DEF IInv, ContentsKnown
  <1>13. NothingHidden' /\ AtMostOneSend'
    BY <1>1, <1>5, <1>6 DEF IInv, NothingHidden, AtMostOneSend
  <1> QED BY <1>7, <1>8, <1>9, <1>10, <1>11, <1>12, <1>13 DEF IInv

-----------------------------------------------------------------------------
(* Approval.                                                                *)

\* An approval starts from a stored draft.
LEMMA ApplyReadStep ==
  ASSUME IInv, NEW e \in Executor, NEW c \in Change, ApplyRead(e, c)
  PROVE  IInv'
  <1> DEFINE r == [exec[e] EXCEPT !.pc = "approving", !.job = c]
  <1>1. r \in Exec /\ r.pc = "approving" /\ r.job = c
    BY ZenonT(60), PointsKnown DEF IInv, TypeOK, Exec
  <1>2. exec' = [exec EXCEPT ![e] = r] BY DEF ApplyRead, IInv, TypeOK, Exec
  <1> HIDE DEF r
  <1>3. row[c].state # "none" BY DEF ApplyRead
  <1>4. Fits(e, r)
    BY <1>1, <1>3
    DEF IInv, JobsKnown, Fits, Holding, Drafting, Attempting, Executing,
        Claiming, Leaseless
  <1>5. /\ UNCHANGED <<row, effect, sends>>
        /\ policy' \in Policies /\ target' \in Value /\ faults' \in Nat
        /\ lease' \in [owner: Executor \union {None}, left: Nat]
    BY DEF ApplyRead, UnchangedPlatform, IInv, TypeOK
  <1> QED BY <1>1, <1>2, <1>4, <1>5, QuietStep

\* Taking the lease keeps the change.
LEMMA ApplyLeaseStep ==
  ASSUME IInv, NEW e \in Executor, ApplyLease(e)
  PROVE  IInv'
  <1> DEFINE r == [exec[e] EXCEPT !.pc = "leased", !.left = RefreshBound]
  <1>1. r \in Exec /\ r.pc = "leased" /\ r.job = exec[e].job
    BY ZenonT(60), PointsKnown, TimersAreNat DEF IInv, TypeOK, Exec
  <1>2. exec' = [exec EXCEPT ![e] = r] BY DEF ApplyLease, Goto, IInv, TypeOK, Exec
  <1> HIDE DEF r
  <1>3. exec[e].pc = "approving" BY DEF ApplyLease, At
  <1>4. /\ UNCHANGED <<row, effect, sends, policy, target, faults>>
        /\ lease' \in [owner: Executor \union {None}, left: Nat]
    BY TakeLeaseType, TimersAreNat DEF ApplyLease, UnchangedPlatform, IInv, TypeOK
  <1> QED
    BY <1>1, <1>2, <1>3, <1>4, MoveStep
    DEF Holding, Drafting, Claiming, Attempting, Executing, Leaseless

\* So does reading the policy under it.
LEMMA RefreshPolicyStep ==
  ASSUME IInv, NEW e \in Executor, RefreshPolicy(e)
  PROVE  IInv'
  <1> DEFINE r == [exec[e] EXCEPT !.pc = "refreshed", !.pol = policy]
  <1>1. r \in Exec /\ r.pc = "refreshed" /\ r.job = exec[e].job
    BY ZenonT(60), PointsKnown, TimersAreNat DEF IInv, TypeOK, Exec
  <1>2. exec' = [exec EXCEPT ![e] = r] BY DEF RefreshPolicy, Goto, IInv, TypeOK, Exec
  <1> HIDE DEF r
  <1>3. exec[e].pc = "leased" BY DEF RefreshPolicy, At
  <1>4. /\ UNCHANGED <<row, effect, sends, policy, target, faults>>
        /\ lease' \in [owner: Executor \union {None}, left: Nat]
    BY DEF RefreshPolicy, UnchangedPlatform, IInv, TypeOK
  <1> QED
    BY <1>1, <1>2, <1>3, <1>4, MoveStep
    DEF Holding, Drafting, Claiming, Attempting, Executing, Leaseless

\* A handler that gives up has sent nothing.
LEMMA RefuseStep ==
  ASSUME IInv, NEW e \in Executor, Refuse(e)
  PROVE  IInv'
  <1>1. Finish(e) \/ Leave(e) BY DEF Refuse
  <1>2. /\ UNCHANGED <<row, effect, sends>>
        /\ policy' \in Policies /\ target' \in Value /\ faults' \in Nat
        /\ lease' \in [owner: Executor \union {None}, left: Nat]
    BY DEF Refuse, UnchangedPlatform, IInv, TypeOK
  <1> QED BY <1>1, <1>2, BareStep

\* A verdict that is true of what happened may be saved.
LEMMA DecideStep ==
  ASSUME IInv, NEW e \in Executor,
         NEW to \in {"applied", "failed", "expired", "indeterminate"},
         NEW reply \in Outcomes, Decide(e, to, reply),
         exec[e].pc \in Attempting,
         to \in {"failed", "expired"} => effect[exec[e].job] = "none",
         to = "applied" => effect[exec[e].job] = "full",
         UNCHANGED <<row, effect, sends, policy, target, faults, lease>>
  PROVE  IInv'
  <1> DEFINE r == [Idle EXCEPT !.pc = "settling", !.job = exec[e].job,
                       !.verdict = to, !.reply = reply, !.left = SaveTimeout]
  <1>1. exec[e].job \in Change BY DEF IInv, JobsKnown, Holding
  <1>2. r \in Exec /\ r.pc = "settling" /\ r.job = exec[e].job /\ r.verdict = to
    BY <1>1, PointsKnown, StatesKnown, TimersAreNat DEF Idle, Exec, Outcomes
  <1>3. exec' = [exec EXCEPT ![e] = r] BY DEF Decide
  <1> HIDE DEF r
  <1>4. Fits(e, r)
    BY <1>1, <1>2
    DEF IInv, JobsKnown, Fits, Holding, Drafting, Attempting, Executing,
        Claiming, Leaseless
  <1>5. /\ policy' \in Policies /\ target' \in Value /\ faults' \in Nat
        /\ lease' \in [owner: Executor \union {None}, left: Nat]
    BY DEF IInv, TypeOK
  <1> QED BY <1>2, <1>3, <1>4, <1>5, QuietStep

\* Revalidation sends nothing, whatever it finds.
LEMMA RevalidateStep ==
  ASSUME IInv, NEW e \in Executor, Revalidate(e)
  PROVE  IInv'
  <1>1. exec[e].pc = "claimed" BY DEF Revalidate, At
  <1>2. UNCHANGED <<row, effect, sends, policy, target, faults, lease>>
    BY DEF Revalidate, UnchangedPlatform
  <1>3. effect[exec[e].job] = "none" BY <1>1 DEF IInv, SendsAfterClaim
  <1>4. CASE \E to \in {"failed", "expired"} : Decide(e, to, "nil")
    BY <1>1, <1>2, <1>3, <1>4, DecideStep DEF Attempting, Executing, Outcomes
  <1>5. CASE Goto(e, "validated")
    <2> DEFINE r == [exec[e] EXCEPT !.pc = "validated"]
    <2>1. r \in Exec /\ r.pc = "validated" /\ r.job = exec[e].job
      BY PointsKnown DEF IInv, TypeOK, Exec
    <2>2. exec' = [exec EXCEPT ![e] = r] BY <1>5 DEF Goto, IInv, TypeOK, Exec
    <2> HIDE DEF r
    <2>3. Fits(e, r)
      BY <1>1, <2>1
      DEF IInv, JobsKnown, Fits, Holding, Drafting, Attempting, Executing,
          Claiming, Leaseless
    <2>4. /\ policy' \in Policies /\ target' \in Value /\ faults' \in Nat
          /\ lease' \in [owner: Executor \union {None}, left: Nat]
      BY <1>2 DEF IInv, TypeOK
    <2> QED BY <1>2, <2>1, <2>2, <2>3, <2>4, QuietStep
  <1> QED BY <1>4, <1>5 DEF Revalidate

\* Each answer says what its request can have done.
LEMMA AnswersTrue ==
  ASSUME NEW c, NEW answer \in Answers(c)
  PROVE  /\ answer[2] \in Effects
         /\ answer[1] = "refused" => answer[2] = "none"
         /\ answer[1] = "acknowledged" => answer[2] = "full"
  BY DEF Answers, LiveAnswers, RequestAnswers, BundleAnswers, SandboxAnswers,
         Effects

\* The one request of an attempt.
LEMMA SendStep ==
  ASSUME IInv, NEW e \in Executor, Send(e)
  PROVE  IInv'
  <1> DEFINE c == exec[e].job
  <1>1. /\ TypeOK /\ exec[e].pc = "validated" /\ c \in Change
        /\ row[c].state \in Open
        /\ sends[c] = 0 /\ effect[c] = "none"
    BY DEF IInv, JobsKnown, AttemptsAlone, SendsAfterClaim, Holding, Attempting,
           Executing, Send, At
  <1>2. PICK answer \in Answers(c) :
          /\ effect' = [effect EXCEPT ![c] = answer[2]]
          /\ target' = IF answer[2] = "full" /\ Kind[c] \in Edits
                       THEN row[c].after ELSE target
          /\ CASE answer[1] = "refused" -> Decide(e, "failed", "unsure")
               [] answer[1] = "acknowledged" ->
                    exec' = [exec EXCEPT ![e].pc = "acked", ![e].reply = "acked"]
               [] OTHER -> Decide(e, "indeterminate", "unsure")
    BY DEF Send
  <1> DEFINE ack == [exec[e] EXCEPT !.pc = "acked", !.reply = "acked"]
             done(to) == [Idle EXCEPT !.pc = "settling", !.job = c,
                             !.verdict = to, !.reply = "unsure", !.left = SaveTimeout]
  <1>3. PICK r \in Exec :
          /\ exec' = [exec EXCEPT ![e] = r]
          /\ r.job = c
          /\ \/ r.pc = "acked" /\ answer[2] = "full"
             \/ /\ r.pc = "settling"
                /\ \/ r.verdict = "indeterminate"
                   \/ r.verdict = "failed" /\ answer[2] = "none"
    <2>1. CASE answer[1] = "acknowledged"
      <3>1. ack \in Exec /\ ack.pc = "acked" /\ ack.job = c
        BY ZenonT(60), <1>1, PointsKnown DEF TypeOK, Exec, Outcomes
      <3>2. exec' = [exec EXCEPT ![e] = ack] BY <1>1, <1>2, <2>1 DEF TypeOK, Exec
      <3> QED BY <2>1, <3>1, <3>2, AnswersTrue
    <2>2. ASSUME NEW to \in {"failed", "indeterminate"}
          PROVE  /\ done(to) \in Exec /\ done(to).pc = "settling"
                 /\ done(to).job = c /\ done(to).verdict = to
      BY <1>1, PointsKnown, StatesKnown, TimersAreNat DEF Idle, Exec, Outcomes
    <2>3. CASE answer[1] = "refused"
      <3>1. exec' = [exec EXCEPT ![e] = done("failed")] BY <1>2, <2>3 DEF Decide
      <3> QED BY <2>2, <2>3, <3>1, AnswersTrue
    <2>4. CASE answer[1] \notin {"refused", "acknowledged"}
      <3>1. exec' = [exec EXCEPT ![e] = done("indeterminate")]
        BY <1>2, <2>4 DEF Decide
      <3> QED BY <2>2, <3>1
    <2> QED BY <2>1, <2>3, <2>4
  <1>4. /\ exec' \in [Executor -> Exec]
        /\ exec'[e] = r /\ \A f \in Executor : f # e => exec'[f] = exec[f]
    BY <1>1, <1>3 DEF TypeOK
  <1>5. /\ effect' \in [Change -> Effects]
        /\ effect'[c] = answer[2]
        /\ \A d \in Change : d # c => effect'[d] = effect[d]
    BY <1>1, <1>2, AnswersTrue DEF TypeOK
  <1>6. /\ sends' \in [Change -> Nat]
        /\ sends'[c] = 1
        /\ \A d \in Change : d # c => sends'[d] = sends[d]
    BY <1>1 DEF Send, TypeOK
  <1>7. UNCHANGED <<row, policy, lease, faults>> BY DEF Send
  <1>8. row[c].after \in Value BY <1>1 DEF IInv, ContentsKnown, Open
  <1>9. TypeOK' BY <1>1, <1>2, <1>4, <1>5, <1>6, <1>7, <1>8 DEF TypeOK
  <1>10. JobsKnown'
    BY <1>1, <1>3, <1>4, <1>7
    DEF IInv, JobsKnown, Holding, Drafting, Attempting, Executing, Claiming,
        Leaseless, Open
  <1>11. AttemptsAlone'
    BY <1>1, <1>3, <1>4, <1>7 DEF IInv, AttemptsAlone, Attempting, Executing
  <1>12. SendsAfterClaim'
    BY <1>1, <1>3, <1>4, <1>5, <1>6, <1>7
    DEF IInv, JobsKnown, Holding, SendsAfterClaim, AttemptsAlone, Attempting,
        Executing, Open, Untried
  <1>13. VerdictsTrue'
    BY <1>1, <1>3, <1>4, <1>5
    DEF IInv, JobsKnown, Holding, VerdictsTrue, AttemptsAlone, Attempting, Executing
  <1>14. ContentsKnown' BY <1>3, <1>4, <1>7 DEF IInv, ContentsKnown
  <1>15. NothingHidden' BY <1>1, <1>5, <1>7 DEF IInv, NothingHidden, Open
  <1>16. AtMostOneSend' BY <1>1, <1>6 DEF IInv, AtMostOneSend
  <1> QED BY <1>9, <1>10, <1>11, <1>12, <1>13, <1>14, <1>15, <1>16 DEF IInv

\* A read-back is made after an acknowledgement only.
LEMMA ReadBackStep ==
  ASSUME IInv, NEW e \in Executor, ReadBack(e)
  PROVE  IInv'
  <1>1. exec[e].pc = "acked" BY DEF ReadBack, At
  <1>2. effect[exec[e].job] = "full" BY <1>1 DEF IInv, VerdictsTrue
  <1>3. PICK to \in {"applied", "indeterminate"} : Decide(e, to, "acked")
    BY DEF ReadBack
  <1>4. UNCHANGED <<row, effect, sends, policy, target, faults, lease>>
    BY DEF ReadBack, UnchangedPlatform
  <1> QED BY <1>1, <1>2, <1>3, <1>4, DecideStep DEF Attempting, Executing, Outcomes

\* The verdict is saved by the only attempt there is.
LEMMA SettleStep ==
  ASSUME IInv, NEW e \in Executor, Settle(e)
  PROVE  IInv'
  <1> DEFINE c == exec[e].job
             to == exec[e].verdict
  <1>1. /\ TypeOK /\ exec[e].pc = "settling" /\ c \in Change
        /\ exec[e].reply \in Outcomes
    BY DEF IInv, TypeOK, JobsKnown, Holding, Attempting, Settle, At, Exec
  <1>2. \/ to \in {"indeterminate", "applied"}
        \/ to \in {"failed", "expired"} /\ effect[c] = "none"
    BY <1>1 DEF IInv, VerdictsTrue
  <1>3. /\ row' \in [Change -> Row]
        /\ row[c].state = "applying" /\ row'[c].state = to
        /\ row'[c].after = row[c].after
        /\ \A d \in Change : d # c => row'[d] = row[d]
    BY <1>1, TransitionStep DEF Settle
  <1>4. PICK r \in Exec : /\ exec' = [exec EXCEPT ![e] = r]
                         /\ r.pc = "releasing" /\ r.job = None
    <2>1. /\ [Idle EXCEPT !.pc = "releasing"].pc = "releasing"
          /\ [Idle EXCEPT !.pc = "releasing"].job = None
      BY DEF Idle
    <2> QED BY <2>1, BareFits DEF Settle, Leave
  <1>5. /\ exec' \in [Executor -> Exec]
        /\ exec'[e].pc = "releasing" /\ exec'[e].job = None
        /\ \A f \in Executor : f # e => exec'[f] = exec[f]
    BY <1>1, <1>4 DEF TypeOK
  <1>6. UNCHANGED <<policy, lease, target, effect, sends, faults>>
    BY DEF Settle, UnchangedPlatform
  <1>7. \A f \in Executor : f # e /\ exec[f].pc \in Attempting => exec[f].job # c
    BY <1>1 DEF IInv, AttemptsAlone, Attempting
  <1>8. TypeOK' BY <1>1, <1>3, <1>5, <1>6 DEF TypeOK
  <1>9. JobsKnown'
    BY <1>1, <1>2, <1>3, <1>5, NoneAssumption
    DEF IInv, JobsKnown, Holding, Drafting, Attempting, Executing, Claiming, Leaseless
  <1>10. AttemptsAlone'
    BY <1>1, <1>3, <1>5, <1>7
    DEF IInv, JobsKnown, Holding, AttemptsAlone, Attempting, Executing
  <1>11. SendsAfterClaim'
    BY <1>2, <1>3, <1>5, <1>6 DEF IInv, SendsAfterClaim, Untried
  <1>12. VerdictsTrue' BY <1>5, <1>6 DEF IInv, VerdictsTrue
  <1>13. ContentsKnown' BY <1>3, <1>5 DEF IInv, ContentsKnown
  <1>14. NothingHidden' /\ AtMostOneSend'
    BY <1>2, <1>3, <1>6 DEF IInv, NothingHidden, AtMostOneSend
  <1> QED BY <1>8, <1>9, <1>10, <1>11, <1>12, <1>13, <1>14 DEF IInv

\* A save that fails changes nothing.
LEMMA SettleFailsStep ==
  ASSUME IInv, NEW e \in Executor, SettleFails(e)
  PROVE  IInv'
  <1>1. Finish(e) \/ Leave(e) BY DEF SettleFails
  <1>2. /\ UNCHANGED <<row, effect, sends>>
        /\ policy' \in Policies /\ target' \in Value /\ faults' \in Nat
        /\ lease' \in [owner: Executor \union {None}, left: Nat]
    BY DEF SettleFails, UnchangedPlatform, IInv, TypeOK
  <1> QED BY <1>1, <1>2, BareStep

\* Nor does one that finds the change reconciled.
LEMMA SettleConflictStep ==
  ASSUME IInv, NEW e \in Executor, SettleConflict(e)
  PROVE  IInv'
  <1>1. Finish(e) \/ Leave(e) BY DEF SettleConflict
  <1>2. /\ UNCHANGED <<row, effect, sends>>
        /\ policy' \in Policies /\ target' \in Value /\ faults' \in Nat
        /\ lease' \in [owner: Executor \union {None}, left: Nat]
    BY DEF SettleConflict, UnchangedPlatform, IInv, TypeOK
  <1> QED BY <1>1, <1>2, BareStep

\* Releasing the lease touches no change.
LEMMA ReleaseStep ==
  ASSUME IInv, NEW e \in Executor, Release(e)
  PROVE  IInv'
  <1>1. Finish(e) \/ Leave(e) BY DEF Release
  <1>2. /\ UNCHANGED <<row, effect, sends>>
        /\ policy' \in Policies /\ target' \in Value /\ faults' \in Nat
        /\ lease' \in [owner: Executor \union {None}, left: Nat]
    BY DEF Release, Free, UnchangedPlatform, IInv, TypeOK
  <1> QED BY <1>1, <1>2, BareStep

-----------------------------------------------------------------------------
(* Reconciliation.                                                          *)

\* A reconciliation starts from a claimed change.
LEMMA ReconcileReadStep ==
  ASSUME IInv, NEW e \in Executor, NEW c \in Change, ReconcileRead(e, c)
  PROVE  IInv'
  <1> DEFINE p == IF row[c].state = "applying" THEN "reconciling" ELSE "observing"
             r == [exec[e] EXCEPT !.pc = p, !.job = c]
  <1>1. p \in {"reconciling", "observing"} OBVIOUS
  <1>2. exec' = [exec EXCEPT ![e] = r]
    BY DEF ReconcileRead, IInv, TypeOK, Exec
  <1> HIDE DEF p
  <1>3. r \in Exec /\ r.pc = p /\ r.job = c
    BY ZenonT(60), <1>1, PointsKnown DEF IInv, TypeOK, Exec
  <1> HIDE DEF r
  <1>4. row[c].state # "none" BY DEF ReconcileRead
  <1>5. Fits(e, r)
    BY <1>1, <1>3, <1>4
    DEF IInv, JobsKnown, Fits, Holding, Drafting, Attempting, Executing,
        Claiming, Leaseless
  <1>6. /\ UNCHANGED <<row, effect, sends>>
        /\ policy' \in Policies /\ target' \in Value /\ faults' \in Nat
        /\ lease' \in [owner: Executor \union {None}, left: Nat]
    BY DEF ReconcileRead, UnchangedPlatform, IInv, TypeOK
  <1> QED BY <1>2, <1>3, <1>5, <1>6, QuietStep

\* Reconciling a claimed change reports nothing that hides an effect.
LEMMA ReconciledStep ==
  ASSUME IInv, NEW e \in Executor,
         NEW from \in {"applying", "indeterminate"},
         NEW to \in {"indeterminate", "applied"}, NEW outcome \in Outcomes,
         exec[e].pc \in {"reconciling", "confirming"},
         Transition(exec[e].job, from, to, outcome),
         NEW r \in Exec, exec' = [exec EXCEPT ![e] = r],
         \/ r.pc = "observing" /\ r.job = exec[e].job
         \/ r.pc = "idle" /\ r.job = None,
         UNCHANGED <<policy, lease, faults, target, effect, sends>>
  PROVE  IInv'
  <1> DEFINE c == exec[e].job
  <1>1. TypeOK /\ c \in Change BY DEF IInv, JobsKnown, Holding, Leaseless
  <1>2. /\ row' \in [Change -> Row]
        /\ row[c].state = from /\ row'[c].state = to
        /\ row'[c].after = row[c].after
        /\ \A d \in Change : d # c => row'[d] = row[d]
    BY <1>1, TransitionStep
  <1>3. /\ exec' \in [Executor -> Exec]
        /\ exec'[e] = r /\ \A f \in Executor : f # e => exec'[f] = exec[f]
    BY <1>1 DEF TypeOK
  <1>4. TypeOK' BY <1>1, <1>2, <1>3 DEF TypeOK
  <1>5. JobsKnown'
    BY <1>1, <1>2, <1>3, NoneAssumption
    DEF IInv, JobsKnown, Holding, Drafting, Attempting, Executing, Claiming, Leaseless
  <1>6. AttemptsAlone'
    BY <1>2, <1>3
    DEF IInv, JobsKnown, Holding, AttemptsAlone, Attempting, Executing, Open
  <1>7. SendsAfterClaim' BY <1>2, <1>3 DEF IInv, SendsAfterClaim, Untried
  <1>8. VerdictsTrue' BY <1>3 DEF IInv, VerdictsTrue
  <1>9. ContentsKnown' BY <1>2, <1>3 DEF IInv, ContentsKnown
  <1>10. NothingHidden' /\ AtMostOneSend'
    BY <1>2 DEF IInv, NothingHidden, AtMostOneSend
  <1> QED BY <1>4, <1>5, <1>6, <1>7, <1>8, <1>9, <1>10 DEF IInv

\* An interrupted attempt is marked, and its change is looked at.
LEMMA ReconcileInterruptedStep ==
  ASSUME IInv, NEW e \in Executor, ReconcileInterrupted(e)
  PROVE  IInv'
  <1> DEFINE r == [exec[e] EXCEPT !.pc = "observing"]
  <1>1. r \in Exec /\ r.pc = "observing" /\ r.job = exec[e].job
    BY PointsKnown DEF IInv, TypeOK, Exec
  <1>2. exec' = [exec EXCEPT ![e] = r]
    BY DEF ReconcileInterrupted, Goto, IInv, TypeOK, Exec
  <1> HIDE DEF r
  <1>3. /\ exec[e].pc = "reconciling"
        /\ Transition(exec[e].job, "applying", "indeterminate", "nil")
        /\ UNCHANGED <<policy, lease, faults, target, effect, sends>>
    BY DEF ReconcileInterrupted, At, UnchangedPlatform
  <1> QED BY <1>1, <1>2, <1>3, ReconciledStep DEF Outcomes

\* A match is only observed.
LEMMA ReconcileObserveStep ==
  ASSUME IInv, NEW e \in Executor, ReconcileObserve(e)
  PROVE  IInv'
  <1> DEFINE r == [exec[e] EXCEPT !.pc = "confirming"]
  <1>1. r \in Exec /\ r.pc = "confirming" /\ r.job = exec[e].job
    BY PointsKnown, TimersAreNat DEF IInv, TypeOK, Exec
  <1>2. exec' = [exec EXCEPT ![e] = r] BY DEF ReconcileObserve, Goto, IInv, TypeOK, Exec
  <1> HIDE DEF r
  <1>3. exec[e].pc = "observing" BY DEF ReconcileObserve, At
  <1>4. /\ UNCHANGED <<row, effect, sends, policy, target, faults>>
        /\ lease' \in [owner: Executor \union {None}, left: Nat]
    BY DEF ReconcileObserve, UnchangedPlatform, IInv, TypeOK
  <1> QED
    BY <1>1, <1>2, <1>3, <1>4, MoveStep
    DEF Holding, Drafting, Claiming, Attempting, Executing, Leaseless

\* A change that matches is reported applied.
LEMMA ReconcileConfirmStep ==
  ASSUME IInv, NEW e \in Executor, ReconcileConfirm(e)
  PROVE  IInv'
  <1>1. exec[e].pc = "confirming" BY DEF ReconcileConfirm, At
  <1>2. exec[e].job \in Change
    BY <1>1 DEF IInv, JobsKnown, Holding, Leaseless
  <1>3. row[exec[e].job].outcome \in Outcomes BY <1>2 DEF IInv, TypeOK, Row
  <1>4. Idle \in Exec /\ Idle.pc = "idle" /\ Idle.job = None
    BY StatesKnown, PointsKnown DEF Idle, Exec, Outcomes
  <1>5. /\ Transition(exec[e].job, "indeterminate", "applied", row[exec[e].job].outcome)
        /\ exec' = [exec EXCEPT ![e] = Idle]
        /\ UNCHANGED <<policy, lease, faults, target, effect, sends>>
    BY DEF ReconcileConfirm, Finish, UnchangedPlatform
  <1> QED BY <1>1, <1>3, <1>4, <1>5, ReconciledStep

-----------------------------------------------------------------------------
(* The other users of the lease.                                            *)

\* A settings save takes the lease and no change.
LEMMA SettingsLeaseStep ==
  ASSUME IInv, NEW e \in Executor, SettingsLease(e)
  PROVE  IInv'
  <1> DEFINE r == [exec[e] EXCEPT !.pc = "configuring", !.left = SaveTimeout]
  <1>1. r \in Exec /\ r.pc = "configuring" /\ r.job = exec[e].job
    BY ZenonT(60), PointsKnown, TimersAreNat DEF IInv, TypeOK, Exec
  <1>2. exec' = [exec EXCEPT ![e] = r] BY DEF SettingsLease, Goto, IInv, TypeOK, Exec
  <1> HIDE DEF r
  <1>3. exec[e].pc = "idle" BY DEF SettingsLease, At
  <1>4. /\ UNCHANGED <<row, effect, sends, policy, target, faults>>
        /\ lease' \in [owner: Executor \union {None}, left: Nat]
    BY TakeLeaseType, TimersAreNat DEF SettingsLease, UnchangedPlatform, IInv, TypeOK
  <1> QED
    BY <1>1, <1>2, <1>3, <1>4, MoveStep
    DEF Holding, Drafting, Claiming, Attempting, Executing, Leaseless

\* It replaces the policy by another.
LEMMA SettingsSaveStep ==
  ASSUME IInv, NEW e \in Executor, SettingsSave(e)
  PROVE  IInv'
  <1>1. Finish(e) \/ Leave(e) BY DEF SettingsSave
  <1>2. /\ UNCHANGED <<row, effect, sends>>
        /\ policy' \in Policies /\ target' \in Value /\ faults' \in Nat
        /\ lease' \in [owner: Executor \union {None}, left: Nat]
    BY DEF SettingsSave, UnchangedPlatform, IInv, TypeOK
  <1> QED BY <1>1, <1>2, BareStep

\* A clock advance takes the lease and no change.
LEMMA AdvanceLeaseStep ==
  ASSUME IInv, NEW e \in Executor, AdvanceLease(e)
  PROVE  IInv'
  <1> DEFINE r == [exec[e] EXCEPT !.pc = "advancing", !.left = AdvanceTimeout]
  <1>1. r \in Exec /\ r.pc = "advancing" /\ r.job = exec[e].job
    BY ZenonT(60), PointsKnown, TimersAreNat DEF IInv, TypeOK, Exec
  <1>2. exec' = [exec EXCEPT ![e] = r] BY DEF AdvanceLease, Goto, IInv, TypeOK, Exec
  <1> HIDE DEF r
  <1>3. exec[e].pc = "idle" BY DEF AdvanceLease, At
  <1>4. /\ UNCHANGED <<row, effect, sends, policy, target, faults>>
        /\ lease' \in [owner: Executor \union {None}, left: Nat]
    BY TakeLeaseType, TimersAreNat DEF AdvanceLease, UnchangedPlatform, IInv, TypeOK
  <1> QED
    BY <1>1, <1>2, <1>3, <1>4, MoveStep
    DEF Holding, Drafting, Claiming, Attempting, Executing, Leaseless

\* It reads a content the target has.
LEMMA AdvanceLoadStep ==
  ASSUME IInv, NEW e \in Executor, AdvanceLoad(e)
  PROVE  IInv'
  <1> DEFINE r == [exec[e] EXCEPT !.pc = "simulating", !.cur = target, !.pol = policy]
  <1>1. /\ r \in Exec /\ r.pc = "simulating"
        /\ r.job = exec[e].job /\ r.cur \in Value
    BY ZenonT(60), PointsKnown DEF IInv, TypeOK, Exec
  <1>2. exec' = [exec EXCEPT ![e] = r] BY DEF AdvanceLoad
  <1> HIDE DEF r
  <1>3. exec[e].pc = "advancing" BY DEF AdvanceLoad, At
  <1>4. Fits(e, r)
    BY <1>1, <1>3
    DEF IInv, JobsKnown, Fits, Holding, Drafting, Attempting, Executing,
        Claiming, Leaseless
  <1>5. /\ UNCHANGED <<row, effect, sends>>
        /\ policy' \in Policies /\ target' \in Value /\ faults' \in Nat
        /\ lease' \in [owner: Executor \union {None}, left: Nat]
    BY DEF AdvanceLoad, UnchangedPlatform, IInv, TypeOK
  <1> QED BY <1>1, <1>2, <1>4, <1>5, QuietStep

\* What it writes back is a content, the one it read or a rule's.
LEMMA AdvanceCommitStep ==
  ASSUME IInv, NEW e \in Executor, AdvanceCommit(e)
  PROVE  IInv'
  <1>1. exec[e].cur \in Value BY DEF AdvanceCommit, At, IInv, ContentsKnown
  <1>2. target' \in Value BY <1>1 DEF AdvanceCommit
  <1>3. /\ UNCHANGED <<row, effect, sends>>
        /\ policy' \in Policies /\ faults' \in Nat
        /\ lease' \in [owner: Executor \union {None}, left: Nat]
    BY DEF AdvanceCommit, IInv, TypeOK
  <1> QED BY <1>2, <1>3, BareStep DEF AdvanceCommit

-----------------------------------------------------------------------------
(* The environment.                                                         *)

\* An edit elsewhere changes the target only.
LEMMA EditElsewhereStep ==
  ASSUME IInv, EditElsewhere
  PROVE  IInv'
  BY DEF EditElsewhere, IInv, TypeOK, JobsKnown, AttemptsAlone, SendsAfterClaim,
         VerdictsTrue, ContentsKnown, NothingHidden, AtMostOneSend

\* A late arrival concerns a change that may have been carried out.
LEMMA ArriveStep ==
  ASSUME IInv, NEW c \in Change, Arrive(c)
  PROVE  IInv'
  <1> DEFINE amount == Arrived(effect[c], Kind[c] = "bundle")
  <1>1. amount \in {"partial", "full"} /\ effect' = [effect EXCEPT ![c] = amount]
    BY DEF Arrive, Arrived
  <1> HIDE DEF amount
  <1>2. TypeOK /\ effect[c] \in {"inflight", "trailing"} BY DEF Arrive, IInv
  <1>3. row[c].state \notin {"none", "staged", "discarded", "expired", "failed"}
    BY <1>2 DEF IInv, NothingHidden
  <1>4. row[c].after \in Value BY <1>3 DEF IInv, ContentsKnown
  <1>5. /\ effect' \in [Change -> Effects]
        /\ effect'[c] = amount
        /\ \A d \in Change : d # c => effect'[d] = effect[d]
    BY <1>1, <1>2 DEF TypeOK, Effects
  <1>6. UNCHANGED <<row, policy, lease, sends, exec, faults>> BY DEF Arrive
  <1>7. TypeOK' BY <1>2, <1>4, <1>5, <1>6 DEF TypeOK, Arrive
  <1>8. JobsKnown' /\ AttemptsAlone' /\ ContentsKnown' /\ AtMostOneSend'
    BY <1>6 DEF IInv, JobsKnown, AttemptsAlone, ContentsKnown, AtMostOneSend
  <1>9. SendsAfterClaim'
    BY <1>2, <1>5, <1>6
    DEF IInv, SendsAfterClaim, JobsKnown, Holding, Attempting, Executing
  <1>10. VerdictsTrue'
    BY <1>2, <1>5, <1>6
    DEF IInv, VerdictsTrue, JobsKnown, Holding, Attempting, Executing
  <1>11. NothingHidden' BY <1>3, <1>5, <1>6 DEF IInv, NothingHidden
  <1> QED BY <1>7, <1>8, <1>9, <1>10, <1>11 DEF IInv

\* A process that dies leaves what it stored.
LEMMA CrashStep ==
  ASSUME IInv, NEW e \in Executor, Crash(e)
  PROVE  IInv'
  <1>1. Finish(e) \/ Leave(e) BY DEF Crash
  <1>2. /\ UNCHANGED <<row, effect, sends>>
        /\ policy' \in Policies /\ target' \in Value /\ faults' \in Nat
        /\ lease' \in [owner: Executor \union {None}, left: Nat]
    BY DEF Crash, UnchangedPlatform, IInv, TypeOK
  <1> QED BY <1>1, <1>2, BareStep

\* Time only moves timers.
LEMMA TickStep ==
  ASSUME IInv, Tick
  PROVE  IInv'
  <1>1. TypeOK BY DEF IInv
  <1>2. \A n \in Nat : Down(n) \in Nat BY DEF Down
  <1>3. /\ row' \in [Change -> Row]
        /\ \A c \in Change : row'[c].state = row[c].state /\ row'[c].after = row[c].after
    BY ZenonT(60), <1>1, <1>2 DEF Tick, TypeOK, Row
  <1>4. /\ exec' \in [Executor -> Exec]
        /\ \A e \in Executor :
              /\ exec'[e].pc = exec[e].pc /\ exec'[e].job = exec[e].job
              /\ exec'[e].verdict = exec[e].verdict /\ exec'[e].cur = exec[e].cur
    BY ZenonT(60), <1>1, <1>2 DEF Tick, TypeOK, Exec
  <1>5. lease' \in [owner: Executor \union {None}, left: Nat]
    BY <1>1, <1>2 DEF Tick, TypeOK
  <1>6. UNCHANGED <<policy, faults, target, effect, sends>>
    BY DEF Tick, UnchangedPlatform
  <1>7. TypeOK' BY <1>1, <1>3, <1>4, <1>5, <1>6 DEF TypeOK
  <1>8. JobsKnown'
    BY <1>3, <1>4 DEF IInv, JobsKnown, Holding, Drafting, Leaseless
  <1>9. AttemptsAlone'
    BY <1>3, <1>4 DEF IInv, JobsKnown, Holding, AttemptsAlone
  <1>10. SendsAfterClaim' BY <1>3, <1>4, <1>6 DEF IInv, SendsAfterClaim
  <1>11. VerdictsTrue' BY <1>4, <1>6 DEF IInv, VerdictsTrue
  <1>12. ContentsKnown' BY <1>3, <1>4 DEF IInv, ContentsKnown
  <1>13. NothingHidden' /\ AtMostOneSend'
    BY <1>3, <1>6 DEF IInv, NothingHidden, AtMostOneSend
  <1> QED BY <1>7, <1>8, <1>9, <1>10, <1>11, <1>12, <1>13 DEF IInv

-----------------------------------------------------------------------------
(* The theorems.                                                            *)

\* The invariant holds initially.
LEMMA InitIInv ==
  ASSUME Init
  PROVE  IInv
  <1>1. /\ row = [c \in Change |-> NoRow] /\ exec = [e \in Executor |-> Idle]
        /\ effect = [c \in Change |-> "none"] /\ sends = [c \in Change |-> 0]
        /\ policy \in Policies /\ lease = Free /\ target \in Value /\ faults = 0
    BY DEF Init
  <1>2. /\ NoRow \in Row /\ NoRow.state = "none"
        /\ Idle \in Exec /\ Idle.pc = "idle" /\ Idle.job = None
        /\ Free \in [owner: Executor \union {None}, left: Nat]
    BY StatesKnown, PointsKnown DEF NoRow, Row, Idle, Exec, Free, Outcomes
  <1>3. TypeOK BY <1>1, <1>2 DEF TypeOK, Effects
  <1>4. JobsKnown /\ AttemptsAlone
    BY <1>1, <1>2
    DEF JobsKnown, AttemptsAlone, Holding, Drafting, Attempting, Executing,
        Claiming, Leaseless
  <1>5. SendsAfterClaim /\ VerdictsTrue /\ ContentsKnown
    BY <1>1, <1>2 DEF SendsAfterClaim, VerdictsTrue, ContentsKnown
  <1>6. NothingHidden /\ AtMostOneSend
    BY <1>1 DEF NothingHidden, AtMostOneSend
  <1> QED BY <1>3, <1>4, <1>5, <1>6 DEF IInv

\* Every step preserves it.
LEMMA NextIInv ==
  ASSUME IInv, [Next]_vars
  PROVE  IInv'
  <1>1. CASE UNCHANGED vars
    BY <1>1
    DEF vars, IInv, TypeOK, JobsKnown, AttemptsAlone, SendsAfterClaim,
        VerdictsTrue, ContentsKnown, NothingHidden, AtMostOneSend
  <1>2. ASSUME NEW e \in Executor, NEW c \in Change, StagePolicy(e, c) PROVE IInv'
    BY <1>2, StagePolicyStep
  <1>3. ASSUME NEW e \in Executor, StageRead(e) \/ StageInsert(e) \/ Refuse(e)
        PROVE  IInv'
    BY <1>3, StageReadStep, StageInsertStep, RefuseStep
  <1>4. ASSUME NEW e \in Executor, Apply(e) PROVE IInv'
    BY <1>4, ApplyReadStep, ApplyLeaseStep, RefreshPolicyStep, ClaimStep,
       RevalidateStep, SendStep, ReadBackStep, SettleStep, SettleFailsStep,
       SettleConflictStep, ReleaseStep
    DEF Apply
  <1>5. ASSUME NEW e \in Executor, Reconcile(e) PROVE IInv'
    BY <1>5, ReconcileReadStep, ReconcileInterruptedStep, ReconcileObserveStep,
       ReconcileConfirmStep
    DEF Reconcile
  <1>6. ASSUME NEW e \in Executor, LeaseUsers(e) PROVE IInv'
    BY <1>6, SettingsLeaseStep, SettingsSaveStep, AdvanceLeaseStep,
       AdvanceLoadStep, AdvanceCommitStep
    DEF LeaseUsers
  <1>7. ASSUME NEW c \in Change, Discard(c) \/ ApplyExpired(c) PROVE IInv'
    BY <1>7, ClosedDraftStep DEF Discard, ApplyExpired, UnchangedPlatform
  <1>8. CASE Environment
    BY <1>8, EditElsewhereStep, TickStep, ArriveStep, CrashStep DEF Environment
  <1> QED BY <1>1, <1>2, <1>3, <1>4, <1>5, <1>6, <1>7, <1>8 DEF Next

\* The invariant holds in every reachable state.
THEOREM Invariance == Spec => []IInv
  <1>1. Init => IInv BY InitIInv
  <1>2. IInv /\ [Next]_vars => IInv' BY NextIInv
  <1> QED BY <1>1, <1>2, PTL DEF Spec

\* Every variable keeps its type.
THEOREM TypeCorrect == Spec => []TypeOK
  <1>1. IInv => TypeOK BY DEF IInv
  <1> QED BY <1>1, Invariance, PTL

\* Whatever approvals race, stall, die or are reconciled, at most one request
\* is ever sent for a change.
THEOREM OneSend == Spec => []AtMostOneSend
  <1>1. IInv => AtMostOneSend BY DEF IInv
  <1> QED BY <1>1, Invariance, PTL

\* What is reported failed, expired or discarded never reaches the platform.
THEOREM NoHiddenEffect == Spec => []NothingHidden
  <1>1. IInv => NothingHidden BY DEF IInv
  <1> QED BY <1>1, Invariance, PTL

-----------------------------------------------------------------------------
(* The Change Service implements ChangeLifecycle: every step reports on    *)
(* one change, carries one out, or is not seen.                            *)

\* The effect a change has had, as ChangeLifecycle sees it.
Had(amount) == CASE amount = "inflight" -> "none"
                 [] amount = "trailing" -> "partial"
                 [] OTHER -> amount

\* A step that leaves states and effects alone is not seen.
LEMMA UnseenStep ==
  ASSUME UNCHANGED effect,
         \A c \in Change : row'[c].state = row[c].state
  PROVE  UNCHANGED Lifecycle!vars
  BY DEF Lifecycle!vars

\* A step that changes one state is a report.
LEMMA ReportStep ==
  ASSUME NEW c \in Change, NEW to, UNCHANGED effect,
         row'[c].state = to,
         \A d \in Change : d # c => row'[d].state = row[d].state,
         Lifecycle!CanTransition(row[c].state, to),
         to \in {"failed", "expired", "discarded"} => effect[c] = "none",
         row[c].state = "applying" /\ to = "applied" => effect[c] = "full"
  PROVE  Lifecycle!Next
  <1>1. to \in Lifecycle!Statuses
    BY DEF Lifecycle!CanTransition, Lifecycle!Statuses
  <1>2. Lifecycle!Report(c, to)
    BY DEF Lifecycle!Report
  <1> QED BY <1>1, <1>2 DEF Lifecycle!Next

\* A step that changes one effect is an execution or is not seen.
LEMMA ExecuteStep ==
  ASSUME NEW c \in Change, NEW amount, UNCHANGED row,
         effect \in [Change -> Effects],
         effect' = [effect EXCEPT ![c] = amount],
         row[c].state \in {"applying", "indeterminate", "applied"},
         \/ Had(amount) = Had(effect[c])
         \/ Had(effect[c]) = "none" /\ Had(amount) \in {"partial", "full"}
         \/ Had(effect[c]) = "partial" /\ Had(amount) = "full"
  PROVE  [Lifecycle!Next]_(Lifecycle!vars)
  <1>1. \A d \in Change : effect'[d] = IF d = c THEN amount ELSE effect[d] OBVIOUS
  <1>2. CASE Had(amount) = Had(effect[c])
    <2>1. \A d \in Change : Had(effect'[d]) = Had(effect[d]) BY <1>1, <1>2
    <2> QED BY <2>1 DEF Had, Lifecycle!vars
  <1>3. CASE Had(amount) # Had(effect[c])
    <2>1. Lifecycle!Execute(c, Had(amount))
      BY <1>1, <1>3 DEF Lifecycle!Execute, Had
    <2> QED BY <1>3, <2>1 DEF Lifecycle!Next
  <1> QED BY <1>2, <1>3

-----------------------------------------------------------------------------
\* A draft is reported staged.
LEMMA StageInsertMaps ==
  ASSUME IInv, NEW e \in Executor, StageInsert(e)
  PROVE  Lifecycle!Next
  <1> DEFINE c == exec[e].job
  <1>1. c \in Change /\ row[c].state = "none"
    BY DEF IInv, JobsKnown, Holding, Leaseless, Drafting, StageInsert, At
  <1>2. PICK a \in Value : row' = [row EXCEPT ![c] =
            [row[c] EXCEPT !.state = "staged", !.before = exec[e].cur,
                           !.after = a, !.timer = StageTTL]]
    BY DEF StageInsert
  <1>3. row'[c].state = "staged" /\ \A d \in Change : d # c => row'[d] = row[d]
    BY <1>1, <1>2 DEF IInv, TypeOK, Row
  <1>4. UNCHANGED effect BY DEF StageInsert, UnchangedPlatform
  <1>5. Lifecycle!CanTransition("none", "staged") BY DEF Lifecycle!CanTransition
  <1> QED BY <1>1, <1>3, <1>4, <1>5, ReportStep

\* A row's transition is a report, when it says what is true.
LEMMA TransitionMaps ==
  ASSUME IInv, NEW c \in Change, NEW from, NEW to, NEW outcome \in Outcomes,
         Transition(c, from, to, outcome), UNCHANGED effect,
         to \in {"failed", "expired", "discarded"} => effect[c] = "none",
         from = "applying" /\ to = "applied" => effect[c] = "full"
  PROVE  Lifecycle!Next
  <1>1. /\ row[c].state = from /\ row'[c].state = to
        /\ \A d \in Change : d # c => row'[d] = row[d]
        /\ Lifecycle!CanTransition(from, to)
    BY TransitionStep DEF IInv
  <1> QED BY <1>1, ReportStep

\* Nobody but its attempt sends for a change, and only once it is claimed.
LEMMA SendMaps ==
  ASSUME IInv, NEW e \in Executor, Send(e)
  PROVE  [Lifecycle!Next]_(Lifecycle!vars)
  <1> DEFINE c == exec[e].job
  <1>1. /\ c \in Change /\ effect[c] = "none"
        /\ row[c].state \in {"applying", "indeterminate", "applied"}
    BY DEF IInv, JobsKnown, AttemptsAlone, SendsAfterClaim, Holding, Attempting,
           Executing, Open, Send, At
  <1>2. PICK answer \in Answers(c) : effect' = [effect EXCEPT ![c] = answer[2]]
    BY DEF Send
  <1>3. answer[2] \in Effects BY AnswersTrue
  <1>4. Had("none") = "none" /\ Had(answer[2]) \in {"none", "partial", "full"}
    BY <1>3 DEF Had, Effects
  <1>5. UNCHANGED row /\ effect \in [Change -> Effects] BY DEF Send, IInv, TypeOK
  <1> QED BY <1>1, <1>2, <1>4, <1>5, ExecuteStep

\* A late request adds to what a change has done.
LEMMA ArriveMaps ==
  ASSUME IInv, NEW c \in Change, Arrive(c)
  PROVE  [Lifecycle!Next]_(Lifecycle!vars)
  <1>1. row[c].state \in Lifecycle!Statuses BY DEF IInv, TypeOK, Row
  <1>2. row[c].state \in {"applying", "indeterminate", "applied"}
    BY <1>1 DEF Arrive, IInv, NothingHidden, Lifecycle!Statuses
  <1> DEFINE amount == Arrived(effect[c], Kind[c] = "bundle")
  <1>3. /\ effect' = [effect EXCEPT ![c] = amount] /\ amount \in {"partial", "full"}
        /\ \/ effect[c] = "inflight"
           \/ effect[c] = "trailing" /\ amount = "full"
    BY DEF Arrive, Arrived
  <1> HIDE DEF amount
  <1>4. \/ Had(effect[c]) = "none" /\ Had(amount) \in {"partial", "full"}
        \/ Had(effect[c]) = "partial" /\ Had(amount) = "full"
    BY <1>3 DEF Had
  <1>5. UNCHANGED row /\ effect \in [Change -> Effects] BY DEF Arrive, IInv, TypeOK
  <1> QED BY <1>2, <1>3, <1>4, <1>5, ExecuteStep

\* The attempt's verdict is true.
LEMMA SettleMaps ==
  ASSUME IInv, NEW e \in Executor, Settle(e)
  PROVE  Lifecycle!Next
  <1> DEFINE c == exec[e].job
             to == exec[e].verdict
  <1>1. /\ exec[e].pc = "settling" /\ c \in Change /\ exec[e].reply \in Outcomes
    BY DEF IInv, TypeOK, JobsKnown, Holding, Attempting, Settle, At, Exec
  <1>2. /\ to \in {"failed", "expired", "discarded"} => effect[c] = "none"
        /\ to = "applied" => effect[c] = "full"
    BY <1>1 DEF IInv, VerdictsTrue
  <1>3. Transition(c, "applying", to, exec[e].reply) /\ UNCHANGED effect
    BY DEF Settle, UnchangedPlatform
  <1> QED BY <1>1, <1>2, <1>3, TransitionMaps

\* The other transitions report nothing about an effect, or none of it.
LEMMA OtherTransitionsMap ==
  ASSUME IInv,
         \/ \E e \in Executor :
               Claim(e) \/ ReconcileInterrupted(e) \/ ReconcileConfirm(e)
         \/ \E c \in Change : Discard(c) \/ ApplyExpired(c)
  PROVE  Lifecycle!Next
  <1>1. ASSUME NEW e \in Executor, Claim(e) PROVE Lifecycle!Next
    <2>1. exec[e].job \in Change
      BY <1>1 DEF Claim, At, IInv, JobsKnown, Holding, Claiming
    <2> QED
      BY <1>1, <2>1, TransitionMaps DEF Claim, UnchangedPlatform, Outcomes
  <1>2. ASSUME NEW e \in Executor, ReconcileInterrupted(e) PROVE Lifecycle!Next
    <2>1. exec[e].job \in Change
      BY <1>2 DEF ReconcileInterrupted, At, IInv, JobsKnown, Holding, Leaseless
    <2> QED
      BY <1>2, <2>1, TransitionMaps
      DEF ReconcileInterrupted, UnchangedPlatform, Outcomes
  <1>3. ASSUME NEW e \in Executor, ReconcileConfirm(e) PROVE Lifecycle!Next
    <2>1. exec[e].job \in Change
      BY <1>3 DEF ReconcileConfirm, At, IInv, JobsKnown, Holding, Leaseless
    <2>2. row[exec[e].job].outcome \in Outcomes BY <2>1 DEF IInv, TypeOK, Row
    <2> QED
      BY <1>3, <2>1, <2>2, TransitionMaps DEF ReconcileConfirm, UnchangedPlatform
  <1>4. ASSUME NEW c \in Change, NEW to \in {"discarded", "expired"},
               Transition(c, "staged", to, "nil"), UNCHANGED effect
        PROVE  Lifecycle!Next
    <2>1. row[c].state = "staged" BY <1>4 DEF Transition
    <2>2. effect[c] = "none" BY <2>1 DEF IInv, NothingHidden
    <2> QED BY <1>4, <2>2, TransitionMaps DEF Outcomes
  <1> QED BY <1>1, <1>2, <1>3, <1>4 DEF Discard, ApplyExpired, UnchangedPlatform

-----------------------------------------------------------------------------
\* The initial states map to initial states.
LEMMA InitMaps ==
  ASSUME Init
  PROVE  Lifecycle!Init
  BY DEF Init, NoRow, Lifecycle!Init

\* Every step maps to a step or is not seen.
LEMMA NextMaps ==
  ASSUME IInv, [Next]_vars
  PROVE  [Lifecycle!Next]_(Lifecycle!vars)
  <1>1. CASE UNCHANGED <<row, effect>>
    BY <1>1, UnseenStep
  <1>2. ASSUME Tick PROVE UNCHANGED Lifecycle!vars
    <2>1. \A c \in Change : row'[c].state = row[c].state
      BY <1>2 DEF Tick, IInv, TypeOK, Row
    <2> QED BY <1>2, <2>1, UnseenStep DEF Tick, UnchangedPlatform
  <1>3. ASSUME NEW e \in Executor,
               \/ \E c \in Change : StagePolicy(e, c) \/ ApplyRead(e, c) \/ ReconcileRead(e, c)
               \/ StageRead(e) \/ Refuse(e) \/ ApplyLease(e) \/ RefreshPolicy(e)
               \/ Revalidate(e) \/ ReadBack(e) \/ SettleFails(e)
               \/ SettleConflict(e) \/ Release(e) \/ ReconcileObserve(e)
               \/ LeaseUsers(e) \/ Crash(e)
        PROVE  UNCHANGED <<row, effect>>
    BY <1>3
    DEF StagePolicy, StageRead, Refuse, ApplyRead, ApplyLease, RefreshPolicy,
        Revalidate, ReadBack, SettleFails, SettleConflict, Release,
        ReconcileRead, ReconcileObserve, LeaseUsers, SettingsLease, SettingsSave,
        AdvanceLease, AdvanceLoad, AdvanceCommit, Crash, UnchangedPlatform
  <1>4. ASSUME EditElsewhere PROVE UNCHANGED <<row, effect>>
    BY <1>4 DEF EditElsewhere
  <1>5. ASSUME UNCHANGED vars PROVE UNCHANGED <<row, effect>>
    BY <1>5 DEF vars
  <1> QED
    BY <1>1, <1>2, <1>3, <1>4, <1>5, StageInsertMaps, SendMaps, ArriveMaps,
       SettleMaps, OtherTransitionsMap
    DEF Next, Apply, Reconcile, Environment

\* The Change Service does what ChangeLifecycle promises.
THEOREM Refinement == Spec => ImplementsLifecycle
  <1>1. Init => Lifecycle!Init BY InitMaps
  <1>2. IInv /\ [Next]_vars => [Lifecycle!Next]_(Lifecycle!vars) BY NextMaps
  <1> QED
    BY <1>1, <1>2, Invariance, PTL DEF Spec, ImplementsLifecycle, Lifecycle!Spec

-----------------------------------------------------------------------------
(***************************************************************************)
(* Under the timing assumption: the lease excludes, no live attempt is     *)
(* stolen, what is sent meets the saved policy, and a clock advance loses  *)
(* no write.                                                               *)
(*                                                                         *)
(* A handler is Safe when its lease and its grace period outlast its       *)
(* deadline and what it read is still true.  OthersSafe proves, once, that *)
(* a step of one handler keeps all the others Safe: either it changes      *)
(* nothing they rely on, or the lease says that they rely on nothing.      *)
(***************************************************************************)

\* Nobody else uses the lease while somebody does, or when it is free.
LEMMA Alone ==
  ASSUME TInv, NEW e \in Executor, NEW f \in Executor, f # e,
         exec[e].pc \in Protected \/ lease.left = 0
  PROVE  exec[f].pc \notin Protected
  <1>1. /\ exec[f].left \in Nat /\ Remaining(f) \in Nat /\ lease.left \in Nat
        /\ exec[f].pc \in Protected =>
              lease.owner = f /\ exec[f].left + Remaining(f) < lease.left
        /\ exec[e].pc \in Protected => lease.owner = e
    BY TimersAreNat DEF TInv, IInv, TypeOK, Exec, Safe, LeaseLasts, Remaining
  <1> QED BY <1>1

\* The other handlers stay safe.
LEMMA OthersSafe ==
  ASSUME TInv, NEW e \in Executor, NEW f \in Executor, f # e,
         exec'[f] = exec[f],
         exec[f].pc \in Attempting => row'[exec[f].job] = row[exec[f].job],
         \/ UNCHANGED <<policy, target, lease>>
         \/ exec[e].pc \in Protected
         \/ lease.left = 0
  PROVE  Safe(f)'
  <1>1. Safe(f) BY DEF TInv
  <1>2. CASE UNCHANGED <<policy, target, lease>>
    BY <1>1, <1>2
    DEF Safe, LeaseLasts, Remaining, GraceLasts, PolicyMet, ReadsKept, At,
        Attempting, Executing
  <1>3. CASE exec[e].pc \in Protected \/ lease.left = 0
    <2>1. exec[f].pc \notin Protected BY <1>3, Alone
    <2>2. exec[f].pc \notin Claiming \union Executing \union Advancing
      BY <2>1 DEF Protected
    <2> QED
      BY <1>1, <2>1, <2>2
      DEF Safe, LeaseLasts, GraceLasts, PolicyMet, ReadsKept, At, Attempting,
          Claiming, Executing, Advancing
  <1> QED BY <1>2, <1>3

\* A handler without a deadline relies on nothing.
LEMMA UntimedSafe ==
  ASSUME NEW e \in Executor, exec'[e].pc \notin Timed
  PROVE  Safe(e)'
  BY DEF Safe, LeaseLasts, GraceLasts, PolicyMet, ReadsKept, At, Timed,
         Protected, Attempting, Executing, Claiming, Advancing

\* Outside Arrive and Send nothing new is under way.
LEMMA NothingUnderWay ==
  ASSUME TInv, UNCHANGED effect
  PROVE  SandboxAnswersAtOnce'
  BY DEF TInv, SandboxAnswersAtOnce

\* Only e moves.
Moves(e) == \A f \in Executor : f # e => exec'[f] = exec[f]

\* The rows the other attempts hold stay as they are.
SparesOthers(e) ==
    \A f \in Executor : f # e /\ exec[f].pc \in Attempting =>
        row'[exec[f].job] = row[exec[f].job]

\* A handler that goes on, alone or changing nothing the others rely on, keeps
\* everyone safe when it is safe itself.
LEMMA SafeStep ==
  ASSUME TInv, IInv', NEW e \in Executor, Moves(e), SparesOthers(e),
         \/ UNCHANGED <<policy, target, lease>>
         \/ exec[e].pc \in Protected
         \/ lease.left = 0,
         Safe(e)', SandboxAnswersAtOnce'
  PROVE  TInv'
  <1>1. \A f \in Executor : f # e => Safe(f)'
    BY OthersSafe DEF Moves, SparesOthers
  <1> QED BY <1>1 DEF TInv

\* One that goes on without a deadline is safe itself.
LEMMA UntimedStep ==
  ASSUME TInv, IInv', NEW e \in Executor, Moves(e), SparesOthers(e),
         exec'[e].pc \notin Timed, UNCHANGED effect,
         \/ UNCHANGED <<policy, target, lease>>
         \/ exec[e].pc \in Protected
  PROVE  TInv'
  BY UntimedSafe, NothingUnderWay, SafeStep

-----------------------------------------------------------------------------
(* Steps that end in a point without a deadline.                            *)

\* Handlers that have nothing to protect.
LEMMA LeaselessSteps ==
  ASSUME TInv, IInv', NEW e \in Executor,
         \/ \E c \in Change : StagePolicy(e, c) \/ ApplyRead(e, c) \/ ReconcileRead(e, c)
         \/ StageRead(e) \/ ReconcileObserve(e)
  PROVE  TInv'
  <1>1. exec \in [Executor -> Exec] BY DEF TInv, IInv, TypeOK
  <1>2. Moves(e) /\ exec'[e].pc \in Leaseless
    <2>1. ASSUME NEW c \in Change, StagePolicy(e, c)
          PROVE  Moves(e) /\ exec'[e].pc \in Leaseless
      BY <1>1, <2>1 DEF StagePolicy, Moves, Exec, Leaseless
    <2>2. ASSUME NEW c \in Change, ApplyRead(e, c)
          PROVE  Moves(e) /\ exec'[e].pc \in Leaseless
      BY <1>1, <2>2 DEF ApplyRead, Moves, Exec, Leaseless
    <2>3. ASSUME NEW c \in Change, ReconcileRead(e, c)
          PROVE  Moves(e) /\ exec'[e].pc \in Leaseless
      <3>1. PICK p \in {"reconciling", "observing"} :
                exec' = [exec EXCEPT ![e].job = c, ![e].pc = p]
        BY <2>3 DEF ReconcileRead
      <3> QED BY <1>1, <3>1 DEF Moves, Exec, Leaseless
    <2>4. CASE StageRead(e)
      <3>1. PICK seen :
                exec' = [exec EXCEPT ![e] = [@ EXCEPT !.pc = "drafted", !.cur = seen]]
        BY <2>4 DEF StageRead
      <3> QED BY <1>1, <3>1 DEF Moves, Exec, Leaseless
    <2>5. CASE ReconcileObserve(e)
      BY <1>1, <2>5 DEF ReconcileObserve, Goto, Moves, Exec, Leaseless
    <2> QED BY <2>1, <2>2, <2>3, <2>4, <2>5
  <1>3. UNCHANGED <<row, policy, target, lease, effect>>
    BY DEF StagePolicy, ApplyRead, ReconcileRead, StageRead, ReconcileObserve,
           UnchangedPlatform
  <1>4. \A p \in Leaseless : p \notin Timed
    BY DEF Leaseless, Timed, Protected, Claiming, Executing, Advancing
  <1> QED BY <1>2, <1>3, <1>4, UntimedStep DEF SparesOthers

\* Finish and Leave end in such a point.
LEMMA BareUpdate ==
  ASSUME IInv, NEW e \in Executor, Finish(e) \/ Leave(e)
  PROVE  Moves(e) /\ exec'[e].pc \notin Timed
  BY DEF Finish, Leave, Idle, Moves, IInv, TypeOK, Timed, Protected, Claiming,
         Executing, Advancing

\* Handlers that give up, end or die.
LEMMA EndingSteps ==
  ASSUME TInv, IInv', NEW e \in Executor,
         Refuse(e) \/ SettleFails(e) \/ SettleConflict(e) \/ Crash(e)
  PROVE  TInv'
  <1>1. Finish(e) \/ Leave(e) BY DEF Refuse, SettleFails, SettleConflict, Crash
  <1>2. UNCHANGED <<row, policy, target, lease, effect>>
    BY DEF Refuse, SettleFails, SettleConflict, Crash, UnchangedPlatform
  <1> QED BY <1>1, <1>2, BareUpdate, UntimedStep DEF SparesOthers, TInv

\* Saving under the lease: nobody else relies on what is replaced.
LEMMA SavingSteps ==
  ASSUME TInv, IInv', NEW e \in Executor, SettingsSave(e) \/ AdvanceCommit(e)
  PROVE  TInv'
  <1>1. Leave(e) /\ exec[e].pc \in Protected
    BY DEF SettingsSave, AdvanceCommit, At, Protected, Advancing
  <1>2. UNCHANGED <<row, effect>>
    BY DEF SettingsSave, AdvanceCommit, UnchangedPlatform
  <1> QED BY <1>1, <1>2, BareUpdate, UntimedStep DEF SparesOthers, TInv

\* Releasing frees one's own lease only.
LEMMA ReleaseSafe ==
  ASSUME TInv, IInv', NEW e \in Executor, Release(e)
  PROVE  TInv'
  <1>1. /\ exec[e].pc = "releasing" /\ Finish(e)
        /\ UNCHANGED <<row, policy, target, effect>>
    BY DEF Release, At, UnchangedPlatform
  <1>2. Moves(e) /\ exec'[e].pc \notin Timed BY <1>1, BareUpdate DEF TInv
  <1>3. CASE lease' = lease
    BY <1>1, <1>2, <1>3, UntimedStep DEF SparesOthers
  <1>4. CASE lease' # lease
    <2>1. lease.owner = e BY <1>4 DEF Release
    <2>2. ASSUME NEW f \in Executor, f # e PROVE Safe(f)'
      <3>1. Safe(f) /\ exec[f].pc \notin Protected
        BY <2>1, <2>2 DEF TInv, Safe, LeaseLasts
      <3> QED
        BY <1>1, <1>2, <2>2, <3>1
        DEF Moves, Safe, LeaseLasts, GraceLasts, PolicyMet, ReadsKept, At,
            Attempting, Protected, Claiming, Executing, Advancing
    <2> QED BY <1>1, <1>2, <2>2, UntimedSafe, NothingUnderWay DEF TInv
  <1> QED BY <1>3, <1>4

-----------------------------------------------------------------------------
(* Rows that change under the others.                                       *)

\* A row that no attempt holds may change.
LEMMA RowStep ==
  ASSUME TInv, NEW c \in Change,
         \A d \in Change : d # c => row'[d] = row[d],
         NEW e \in Executor,
         \A f \in Executor : f # e /\ exec[f].pc \in Attempting => exec[f].job # c
  PROVE  SparesOthers(e)
  BY DEF SparesOthers, TInv, IInv, JobsKnown, Holding

\* No attempt holds a change that is not applying, or whose grace is over.
LEMMA NotHeld ==
  ASSUME TInv, NEW c \in Change, row[c].state # "applying" \/ row[c].timer = 0,
         NEW f \in Executor, exec[f].pc \in Attempting
  PROVE  exec[f].job # c
  <1>1. /\ exec[f].left \in Nat /\ SaveTimeout \in Nat
        /\ exec[f].job \in Change /\ row[exec[f].job].timer \in Nat
    BY TimersAreNat DEF TInv, IInv, TypeOK, Exec, Row, JobsKnown, Holding
  <1>2. GraceLasts(f) BY DEF TInv, Safe
  <1> QED BY <1>1, <1>2 DEF GraceLasts, Attempting

\* A draft is inserted, discarded or marked expired before anyone attempts it.
LEMMA StageInsertSafe ==
  ASSUME TInv, IInv', NEW e \in Executor, StageInsert(e)
  PROVE  TInv'
  <1> DEFINE c == exec[e].job
  <1>1. c \in Change /\ row[c].state = "none"
    BY DEF TInv, IInv, JobsKnown, Holding, Leaseless, Drafting, StageInsert, At
  <1>2. \A d \in Change : d # c => row'[d] = row[d]
    BY DEF StageInsert, TInv, IInv, TypeOK
  <1>3. SparesOthers(e) BY <1>1, <1>2, NotHeld, RowStep
  <1>4. Finish(e) /\ UNCHANGED <<policy, target, lease, effect>>
    BY DEF StageInsert, UnchangedPlatform
  <1> QED BY <1>3, <1>4, BareUpdate, UntimedStep DEF TInv

\* No handler moves, and no attempt holds the draft.
LEMMA ClosedDraftSafe ==
  ASSUME TInv, IInv', NEW c \in Change, NEW to,
         Transition(c, "staged", to, "nil"),
         UNCHANGED <<policy, lease, exec, target, effect>>
  PROVE  TInv'
  <1>1. row[c].state = "staged" /\ \A d \in Change : d # c => row'[d] = row[d]
    BY TransitionStep DEF TInv, IInv, Outcomes
  <1>2. ASSUME NEW f \in Executor PROVE Safe(f)'
    <2>1. Safe(f) BY DEF TInv
    <2>2. exec[f].pc \in Attempting => exec[f].job \in Change /\ exec[f].job # c
      BY <1>1, NotHeld DEF TInv, IInv, JobsKnown, Holding
    <2> QED
      BY <1>1, <2>1, <2>2
      DEF Safe, LeaseLasts, Remaining, GraceLasts, PolicyMet, ReadsKept, At,
          Attempting, Executing
  <1> QED BY <1>2, NothingUnderWay DEF TInv

\* The only attempt settles its change.
LEMMA SettleSafe ==
  ASSUME TInv, IInv', NEW e \in Executor, Settle(e)
  PROVE  TInv'
  <1> DEFINE c == exec[e].job
  <1>1. /\ c \in Change /\ exec[e].reply \in Outcomes
        /\ \A f \in Executor : f # e /\ exec[f].pc \in Attempting => exec[f].job # c
    BY DEF TInv, IInv, TypeOK, JobsKnown, AttemptsAlone, Holding, Attempting,
           Settle, At, Exec
  <1>2. \A d \in Change : d # c => row'[d] = row[d]
    BY <1>1, TransitionStep DEF Settle, TInv, IInv
  <1>3. SparesOthers(e) BY <1>1, <1>2, RowStep
  <1>4. Leave(e) /\ UNCHANGED <<policy, target, lease, effect>>
    BY DEF Settle, UnchangedPlatform
  <1> QED BY <1>3, <1>4, BareUpdate, UntimedStep DEF TInv

\* Reconciliation finds the grace period over, or the change reported on.
LEMMA ReconcileSafe ==
  ASSUME TInv, IInv', NEW e \in Executor,
         ReconcileInterrupted(e) \/ ReconcileConfirm(e)
  PROVE  TInv'
  <1> DEFINE c == exec[e].job
  <1>1. c \in Change
    BY DEF TInv, IInv, JobsKnown, Holding, Leaseless, ReconcileInterrupted,
           ReconcileConfirm, At
  <1>2. row[c].outcome \in Outcomes /\ exec \in [Executor -> Exec]
    BY <1>1 DEF TInv, IInv, TypeOK, Row
  <1>3. /\ row[c].state # "applying" \/ row[c].timer = 0
        /\ \A d \in Change : d # c => row'[d] = row[d]
    BY <1>1, <1>2, TransitionStep
    DEF ReconcileInterrupted, ReconcileConfirm, TInv, IInv, Outcomes
  <1>4. SparesOthers(e) BY <1>1, <1>3, NotHeld, RowStep
  <1>5. CASE ReconcileConfirm(e)
    BY <1>4, <1>5, BareUpdate, UntimedStep
    DEF ReconcileConfirm, UnchangedPlatform, TInv
  <1>6. CASE ReconcileInterrupted(e)
    <2>1. Moves(e) /\ exec'[e].pc = "observing"
      BY <1>2, <1>6 DEF ReconcileInterrupted, Goto, Moves, Exec
    <2>2. exec'[e].pc \notin Timed
      BY <2>1 DEF Timed, Protected, Claiming, Executing, Advancing
    <2> QED
      BY <1>4, <1>6, <2>1, <2>2, UntimedStep
      DEF ReconcileInterrupted, UnchangedPlatform
  <1> QED BY <1>5, <1>6

-----------------------------------------------------------------------------
(* Steps that take the lease.                                               *)

\* A handler that takes a lease longer than what is ahead of it is safe.
LEMMA TakingStep ==
  ASSUME TInv, IInv', NEW e \in Executor, NEW r \in Exec, NEW time \in Nat,
         exec' = [exec EXCEPT ![e] = r], TakeLease(e, time),
         r.pc \in {"leased", "configuring", "advancing"},
         r.pc = "leased" => r.left + ApplyTimeout < time,
         r.pc # "leased" => r.left < time,
         r.pc = "advancing" => ~Live,
         UNCHANGED <<row, policy, target, effect>>
  PROVE  TInv'
  <1>1. exec'[e] = r /\ Moves(e) BY DEF TInv, IInv, TypeOK, Moves
  <1>2. lease.left = 0 /\ lease' = [owner |-> e, left |-> time] BY DEF TakeLease
  <1>3. r.left \in Nat BY DEF Exec
  <1>4. LeaseLasts(e)'
    BY <1>1, <1>2, <1>3 DEF LeaseLasts, Remaining, Claiming
  <1>5. GraceLasts(e)' /\ PolicyMet(e)' /\ ReadsKept(e)'
    BY <1>1
    DEF GraceLasts, PolicyMet, ReadsKept, At, Attempting, Executing, Advancing
  <1> QED
    BY <1>1, <1>2, <1>4, <1>5, NothingUnderWay, SafeStep DEF Safe, SparesOthers

\* The lease of an approval, a save or an advance covers it.
LEMMA LeaseSteps ==
  ASSUME TInv, IInv', NEW e \in Executor,
         ApplyLease(e) \/ SettingsLease(e) \/ AdvanceLease(e)
  PROVE  TInv'
  <1>1. exec \in [Executor -> Exec] BY DEF TInv, IInv, TypeOK
  <1>2. CASE ApplyLease(e)
    <2> DEFINE r == [exec[e] EXCEPT !.pc = "leased", !.left = RefreshBound]
    <2>1. r \in Exec /\ r.pc = "leased" /\ r.left = RefreshBound
      BY ZenonT(60), <1>1, PointsKnown, TimersAreNat DEF Exec
    <2>2. exec' = [exec EXCEPT ![e] = r] BY <1>1, <1>2 DEF ApplyLease, Exec
    <2> HIDE DEF r
    <2> QED
      BY <1>2, <2>1, <2>2, TakingStep, TimersAreNat, TimingAssumption
      DEF ApplyLease, UnchangedPlatform, LeaseCovers
  <1>3. CASE SettingsLease(e)
    <2> DEFINE r == [exec[e] EXCEPT !.pc = "configuring", !.left = SaveTimeout]
    <2>1. r \in Exec /\ r.pc = "configuring" /\ r.left = SaveTimeout
      BY ZenonT(60), <1>1, PointsKnown, TimersAreNat DEF Exec
    <2>2. exec' = [exec EXCEPT ![e] = r] BY <1>1, <1>3 DEF SettingsLease, Exec
    <2> HIDE DEF r
    <2> QED
      BY <1>3, <2>1, <2>2, TakingStep, TimersAreNat, TimingAssumption
      DEF SettingsLease, UnchangedPlatform, LeaseCovers
  <1>4. CASE AdvanceLease(e)
    <2> DEFINE r == [exec[e] EXCEPT !.pc = "advancing", !.left = AdvanceTimeout]
    <2>1. r \in Exec /\ r.pc = "advancing" /\ r.left = AdvanceTimeout
      BY ZenonT(60), <1>1, PointsKnown, TimersAreNat DEF Exec
    <2>2. exec' = [exec EXCEPT ![e] = r] BY <1>1, <1>4 DEF AdvanceLease, Exec
    <2> HIDE DEF r
    <2> QED
      BY <1>4, <2>1, <2>2, TakingStep, TimersAreNat, TimingAssumption
      DEF AdvanceLease, UnchangedPlatform, LeaseCovers
  <1> QED BY <1>2, <1>3, <1>4

-----------------------------------------------------------------------------
(* The steps between taking the lease and releasing it.                     *)

\* What is read under the lease is what is saved.
LEMMA ReadingSteps ==
  ASSUME TInv, IInv', NEW e \in Executor, RefreshPolicy(e) \/ AdvanceLoad(e)
  PROVE  TInv'
  <1>1. exec \in [Executor -> Exec] /\ policy \in Policies /\ target \in Value
    BY DEF TInv, IInv, TypeOK
  <1>2. UNCHANGED <<row, policy, lease, target, effect>>
    BY DEF RefreshPolicy, AdvanceLoad, UnchangedPlatform
  <1>3. Safe(e) BY DEF TInv
  <1>4. Moves(e) /\ Safe(e)'
    <2>1. CASE RefreshPolicy(e)
      <3>1. /\ Moves(e)
            /\ exec[e].pc = "leased" /\ exec'[e].pc = "refreshed"
            /\ exec'[e].pol = policy /\ exec'[e].left = exec[e].left
        BY <1>1, <2>1 DEF RefreshPolicy, At, Moves, Exec
      <3> QED
        BY <1>2, <1>3, <3>1
        DEF Safe, LeaseLasts, Remaining, GraceLasts, PolicyMet, ReadsKept, At,
            Protected, Claiming, Attempting, Executing, Advancing
    <2>2. CASE AdvanceLoad(e)
      <3>1. /\ Moves(e)
            /\ exec[e].pc = "advancing" /\ exec'[e].pc = "simulating"
            /\ exec'[e].pol = policy /\ exec'[e].cur = target
            /\ exec'[e].left = exec[e].left
        BY <1>1, <2>2 DEF AdvanceLoad, At, Moves, Exec
      <3> QED
        BY <1>2, <1>3, <3>1
        DEF Safe, LeaseLasts, Remaining, GraceLasts, PolicyMet, ReadsKept, At,
            Protected, Claiming, Attempting, Executing, Advancing
    <2> QED BY <2>1, <2>2
  <1> QED BY <1>2, <1>4, NothingUnderWay, SafeStep DEF SparesOthers

\* The claim starts the grace period, and the lease covers the execution.
LEMMA ClaimSafe ==
  ASSUME TInv, IInv', NEW e \in Executor, Claim(e)
  PROVE  TInv'
  <1> DEFINE c == exec[e].job
  <1>1. /\ exec \in [Executor -> Exec] /\ exec[e].pc = "refreshed"
        /\ c \in Change /\ "nil" \in Outcomes
    BY DEF TInv, IInv, TypeOK, JobsKnown, Holding, Claiming, Claim, At, Outcomes
  <1>2. /\ row[c].state = "staged" /\ row'[c].state = "applying"
        /\ row'[c].timer = ReconcileGrace
        /\ \A d \in Change : d # c => row'[d] = row[d]
    BY <1>1, TransitionStep DEF Claim, TInv, IInv
  <1>3. SparesOthers(e) BY <1>1, <1>2, NotHeld, RowStep
  <1>4. /\ Moves(e)
        /\ exec'[e].pc = "claimed" /\ exec'[e].job = c
        /\ exec'[e].pol = exec[e].pol /\ exec'[e].left = ApplyTimeout
    BY <1>1 DEF Claim, Moves, Exec
  <1>5. UNCHANGED <<policy, lease, target, effect>> BY DEF Claim, UnchangedPlatform
  <1>6. exec[e].left \in Nat /\ lease.left \in Nat /\ Safe(e)
    BY <1>1 DEF TInv, IInv, TypeOK, Exec
  <1>7. LeaseLasts(e)'
    <2>1. lease.owner = e /\ exec[e].left + ApplyTimeout < lease.left
      BY <1>1, <1>6 DEF Safe, LeaseLasts, Remaining, Protected, Claiming
    <2> QED
      BY <1>4, <1>5, <1>6, <2>1, TimersAreNat DEF LeaseLasts, Remaining, Claiming
  <1>8. GraceLasts(e)'
    BY <1>2, <1>4, TimingAssumption, TimersAreNat DEF GraceLasts, GraceCovers
  <1>9. PolicyMet(e)' BY <1>4 DEF PolicyMet, At
  <1>10. ReadsKept(e)'
    BY <1>1, <1>4, <1>5, <1>6 DEF Safe, ReadsKept, At, Advancing
  <1> QED
    BY <1>3, <1>4, <1>5, <1>7, <1>8, <1>9, <1>10, NothingUnderWay, SafeStep
    DEF Safe

\* A verdict is reached before the deadline, and saved within the grace period.
LEMMA DecidedSafe ==
  ASSUME TInv, NEW e \in Executor, NEW to, NEW reply, Decide(e, to, reply),
         exec[e].pc \in Executing, UNCHANGED row
  PROVE  Moves(e) /\ Safe(e)'
  <1>1. /\ exec \in [Executor -> Exec] /\ exec[e].job \in Change
        /\ exec[e].left \in Nat /\ row[exec[e].job].timer \in Nat
    BY DEF TInv, IInv, TypeOK, JobsKnown, Holding, Attempting, Exec, Row
  <1>2. /\ Moves(e)
        /\ exec'[e].pc = "settling" /\ exec'[e].job = exec[e].job
        /\ exec'[e].left = SaveTimeout
    BY <1>1 DEF Decide, Idle, Moves
  <1>3. /\ row[exec[e].job].state = "applying"
        /\ exec[e].left + SaveTimeout < row[exec[e].job].timer
    BY DEF TInv, Safe, GraceLasts, Attempting
  <1>4. SaveTimeout < row[exec[e].job].timer BY <1>1, <1>3, TimersAreNat
  <1>5. GraceLasts(e)' BY <1>2, <1>3, <1>4 DEF GraceLasts, Executing
  <1>6. LeaseLasts(e)' /\ PolicyMet(e)' /\ ReadsKept(e)'
    BY <1>2
    DEF LeaseLasts, PolicyMet, ReadsKept, At, Protected, Claiming, Executing,
        Advancing
  <1> QED BY <1>2, <1>5, <1>6 DEF Safe

\* An attempt that goes on keeps its lease, its change and its deadline.
LEMMA AttemptOn ==
  ASSUME TInv, NEW e \in Executor, exec[e].pc \in Executing,
         exec'[e].pc \in {"validated", "acked"},
         exec'[e].job = exec[e].job, exec'[e].left = exec[e].left,
         UNCHANGED <<row, policy, lease>>
  PROVE  LeaseLasts(e)' /\ GraceLasts(e)' /\ ReadsKept(e)'
  <1>1. Safe(e) BY DEF TInv
  <1> QED
    BY <1>1
    DEF Safe, LeaseLasts, Remaining, GraceLasts, ReadsKept, At, Protected,
        Claiming, Attempting, Executing, Advancing

\* What is validated satisfies the policy that is saved.
LEMMA RevalidateSafe ==
  ASSUME TInv, IInv', NEW e \in Executor, Revalidate(e)
  PROVE  TInv'
  <1>1. /\ exec \in [Executor -> Exec] /\ exec[e].pc = "claimed"
        /\ exec[e].pc \in Executing
    BY DEF Revalidate, At, TInv, IInv, TypeOK, Executing
  <1>2. UNCHANGED <<row, policy, lease, target, effect>>
    BY DEF Revalidate, UnchangedPlatform
  <1>3. Moves(e) /\ Safe(e)'
    <2>1. CASE \E to \in Lifecycle!Statuses, reply \in Outcomes : Decide(e, to, reply)
      BY <1>1, <1>2, <2>1, DecidedSafe
    <2>2. CASE /\ Goto(e, "validated")
               /\ \E b \in Judged(Kind[exec[e].job], row[exec[e].job].before) :
                     Permitted(exec[e].pol, Kind[exec[e].job], b,
                               row[exec[e].job].after)
      <3>1. /\ Moves(e)
            /\ exec'[e].pc = "validated" /\ exec'[e].job = exec[e].job
            /\ exec'[e].left = exec[e].left
        BY <1>1, <2>2 DEF Goto, Moves, Exec
      <3>2. exec[e].pol = policy BY <1>1 DEF TInv, Safe, ReadsKept
      <3>3. PolicyMet(e)' BY <1>2, <2>2, <3>1, <3>2 DEF PolicyMet
      <3> QED BY <1>1, <1>2, <3>1, <3>3, AttemptOn DEF Safe
    <2> QED BY <2>1, <2>2, StatesKnown DEF Revalidate, Outcomes
  <1> QED BY <1>2, <1>3, NothingUnderWay, SafeStep DEF SparesOthers

\* Only TikTok leaves something under way.
LEMMA AnswersTimely ==
  ASSUME NEW c \in Change, NEW answer \in Answers(c),
         answer[2] \in {"inflight", "trailing"}
  PROVE  Live
  BY DEF Answers, SandboxAnswers

\* Sending keeps the lease until the read-back, or ends the attempt.
LEMMA SendSafe ==
  ASSUME TInv, IInv', NEW e \in Executor, Send(e)
  PROVE  TInv'
  <1> DEFINE c == exec[e].job
  <1>1. /\ exec \in [Executor -> Exec] /\ c \in Change
        /\ effect \in [Change -> Effects]
        /\ exec[e].pc \in Executing /\ exec[e].pc \in Protected
    BY DEF Send, At, TInv, IInv, TypeOK, JobsKnown, Holding, Attempting,
           Executing, Protected
  <1>2. UNCHANGED <<row, policy, lease>> BY DEF Send
  <1>3. PICK answer \in Answers(c) :
          /\ effect' = [effect EXCEPT ![c] = answer[2]]
          /\ \/ \E to \in Lifecycle!Statuses : Decide(e, to, "unsure")
             \/ exec' = [exec EXCEPT ![e].pc = "acked", ![e].reply = "acked"]
    BY StatesKnown DEF Send
  <1>4. Moves(e) /\ Safe(e)'
    <2>1. CASE \E to \in Lifecycle!Statuses : Decide(e, to, "unsure")
      BY <1>1, <1>2, <2>1, DecidedSafe
    <2>2. CASE exec' = [exec EXCEPT ![e].pc = "acked", ![e].reply = "acked"]
      <3>1. /\ Moves(e)
            /\ exec'[e].pc = "acked" /\ exec'[e].job = exec[e].job
            /\ exec'[e].left = exec[e].left
        BY <1>1, <2>2 DEF Moves, Exec
      <3>2. PolicyMet(e)' BY <3>1 DEF PolicyMet, At
      <3> QED BY <1>1, <1>2, <3>1, <3>2, AttemptOn DEF Safe
    <2> QED BY <1>3, <2>1, <2>2
  <1>5. SandboxAnswersAtOnce'
    BY <1>1, <1>3, AnswersTimely DEF SandboxAnswersAtOnce, TInv
  <1> QED BY <1>1, <1>2, <1>4, <1>5, SafeStep DEF SparesOthers

\* The read-back ends the attempt.
LEMMA ReadBackSafe ==
  ASSUME TInv, IInv', NEW e \in Executor, ReadBack(e)
  PROVE  TInv'
  <1>1. exec[e].pc \in Executing BY DEF ReadBack, At, Executing
  <1>2. UNCHANGED <<row, policy, lease, target, effect>>
    BY DEF ReadBack, UnchangedPlatform
  <1>3. Moves(e) /\ Safe(e)' BY <1>1, <1>2, DecidedSafe DEF ReadBack
  <1> QED BY <1>2, <1>3, NothingUnderWay, SafeStep DEF SparesOthers

-----------------------------------------------------------------------------
(* The environment.                                                         *)

\* On TikTok nobody holds a snapshot of the target.
LEMMA PlatformSafe ==
  ASSUME TInv, IInv', Live, UNCHANGED <<row, policy, lease, exec>>
  PROVE  TInv'
  <1>1. ASSUME NEW e \in Executor PROVE Safe(e)'
    <2>1. Safe(e) /\ exec[e].pc \notin Advancing BY DEF TInv, Safe, ReadsKept
    <2> QED
      BY <2>1
      DEF Safe, LeaseLasts, Remaining, GraceLasts, PolicyMet, ReadsKept, At, Advancing
  <1> QED BY <1>1 DEF TInv, SandboxAnswersAtOnce

\* Only TikTok carries out a request late.
LEMMA ArriveSafe ==
  ASSUME TInv, IInv', NEW c \in Change, Arrive(c)
  PROVE  TInv'
  <1>1. Live BY DEF Arrive, TInv, SandboxAnswersAtOnce
  <1> QED BY <1>1, PlatformSafe DEF Arrive

\* Time that passes leaves every lease and grace period longer than the
\* deadline it covers.
LEMMA TickSafe ==
  ASSUME TInv, IInv', Tick
  PROVE  TInv'
  <1>1. TypeOK BY DEF TInv, IInv
  <1>2. \A e \in Executor :
          /\ exec'[e].left = Down(exec[e].left)
          /\ exec'[e].pc = exec[e].pc /\ exec'[e].job = exec[e].job
          /\ exec'[e].cur = exec[e].cur /\ exec'[e].pol = exec[e].pol
    BY <1>1 DEF Tick, TypeOK, Exec
  <1>3. \A c \in Change :
          /\ row'[c].timer = Down(row[c].timer)
          /\ row'[c].state = row[c].state
          /\ row'[c].before = row[c].before /\ row'[c].after = row[c].after
    BY <1>1 DEF Tick, TypeOK, Row
  <1>4. lease'.owner = lease.owner /\ lease'.left = Down(lease.left)
    BY <1>1 DEF Tick, TypeOK
  <1>5. UNCHANGED <<policy, target, effect>> BY DEF Tick, UnchangedPlatform
  <1>6. ASSUME NEW a \in Nat, NEW b \in Nat, NEW d \in Nat, a > 0, a + b < d
        PROVE  Down(a) + b < Down(d)
    BY <1>6 DEF Down
  <1>7. ASSUME NEW e \in Executor PROVE Safe(e)'
    <2>1. Safe(e) /\ (exec[e].pc \in Timed => exec[e].left > 0)
      BY DEF TInv, Tick
    <2>2. exec[e].left \in Nat /\ Remaining(e) \in Nat /\ lease.left \in Nat
      BY <1>1, TimersAreNat DEF TypeOK, Exec, Remaining
    <2>3. LeaseLasts(e)'
      <3>1. Remaining(e)' = Remaining(e) BY <1>2 DEF Remaining
      <3>2. SUFFICES ASSUME exec[e].pc \in Protected
                     PROVE  /\ lease'.owner = e
                            /\ exec'[e].left + Remaining(e) < lease'.left
        BY <1>2, <3>1 DEF LeaseLasts
      <3>3. lease.owner = e /\ exec[e].left + Remaining(e) < lease.left
        BY <2>1, <3>2 DEF Safe, LeaseLasts
      <3>4. exec[e].left > 0 BY <2>1, <3>2 DEF Timed
      <3> QED BY <1>2, <1>4, <1>6, <2>2, <3>3, <3>4
    <2>4. exec[e].pc \in Attempting =>
              exec[e].job \in Change /\ row[exec[e].job].timer \in Nat
      BY <1>1 DEF TInv, IInv, JobsKnown, Holding, TypeOK, Row
    <2>5. GraceLasts(e)'
      <3>1. exec'[e].pc \in Attempting => row'[exec'[e].job].state = "applying"
        BY <1>2, <1>3, <2>1, <2>4 DEF Safe, GraceLasts
      <3>2. exec[e].pc \in Executing =>
              exec'[e].left + SaveTimeout < row'[exec'[e].job].timer
        <4>1. SUFFICES ASSUME exec[e].pc \in Executing
                       PROVE  exec'[e].left + SaveTimeout < row'[exec'[e].job].timer
          OBVIOUS
        <4>2. /\ exec[e].pc \in Attempting /\ exec[e].left > 0
              /\ exec[e].left + SaveTimeout < row[exec[e].job].timer
          BY <2>1, <4>1 DEF Safe, GraceLasts, Attempting, Timed, Protected
        <4> QED BY <1>2, <1>3, <1>6, <2>2, <2>4, <4>2, TimersAreNat
      <3>3. exec[e].pc = "settling" => exec'[e].left < row'[exec'[e].job].timer
        <4>1. SUFFICES ASSUME exec[e].pc = "settling"
                       PROVE  exec'[e].left < row'[exec'[e].job].timer
          OBVIOUS
        <4>2. /\ exec[e].pc \in Attempting /\ exec[e].left > 0
              /\ exec[e].left < row[exec[e].job].timer
          BY <2>1, <4>1 DEF Safe, GraceLasts, Attempting, Timed
        <4>3. \A a \in Nat, d \in Nat : a > 0 /\ a < d => Down(a) < Down(d)
          BY DEF Down
        <4> QED BY <1>2, <1>3, <2>2, <2>4, <4>2, <4>3
      <3> QED BY <1>2, <3>1, <3>2, <3>3 DEF GraceLasts
    <2>6. PolicyMet(e)'
      <3>1. exec[e].pc = "validated" => exec[e].job \in Change
        BY <2>4 DEF Attempting, Executing
      <3> QED BY <1>2, <1>3, <1>5, <2>1, <3>1 DEF Safe, PolicyMet, At
    <2>7. ReadsKept(e)' BY <1>2, <1>5, <2>1 DEF Safe, ReadsKept, At
    <2> QED BY <2>3, <2>5, <2>6, <2>7 DEF Safe
  <1> QED BY <1>5, <1>7, NothingUnderWay DEF TInv

-----------------------------------------------------------------------------
(* The theorems.                                                            *)

\* Nobody has started.
LEMMA InitTInv ==
  ASSUME Init
  PROVE  TInv
  <1>1. \A e \in Executor : exec[e].pc = "idle" BY DEF Init, Idle
  <1>2. \A e \in Executor : Safe(e)
    BY <1>1
    DEF Safe, LeaseLasts, GraceLasts, PolicyMet, ReadsKept, At, Protected,
        Claiming, Attempting, Executing, Advancing
  <1>3. SandboxAnswersAtOnce BY DEF Init, SandboxAnswersAtOnce
  <1> QED BY <1>2, <1>3, InitIInv DEF TInv

\* Every step keeps every handler safe.
LEMMA NextTInv ==
  ASSUME TInv, [Next]_vars
  PROVE  TInv'
  <1>0. IInv' BY NextIInv DEF TInv
  <1>1. CASE UNCHANGED vars
    BY <1>0, <1>1
    DEF vars, TInv, Safe, LeaseLasts, Remaining, GraceLasts, PolicyMet,
        ReadsKept, At, SandboxAnswersAtOnce
  <1>2. ASSUME NEW e \in Executor, NEW c \in Change, StagePolicy(e, c) PROVE TInv'
    BY <1>0, <1>2, LeaselessSteps
  <1>3. ASSUME NEW e \in Executor, StageRead(e) \/ StageInsert(e) \/ Refuse(e)
        PROVE  TInv'
    BY <1>0, <1>3, LeaselessSteps, StageInsertSafe, EndingSteps
  <1>4. ASSUME NEW e \in Executor, Apply(e) PROVE TInv'
    BY <1>0, <1>4, LeaselessSteps, LeaseSteps, ReadingSteps, ClaimSafe,
       RevalidateSafe, SendSafe, ReadBackSafe, SettleSafe, EndingSteps, ReleaseSafe
    DEF Apply
  <1>5. ASSUME NEW e \in Executor, Reconcile(e) PROVE TInv'
    BY <1>0, <1>5, LeaselessSteps, ReconcileSafe DEF Reconcile
  <1>6. ASSUME NEW e \in Executor, LeaseUsers(e) PROVE TInv'
    BY <1>0, <1>6, LeaseSteps, SavingSteps, ReadingSteps DEF LeaseUsers
  <1>7. ASSUME NEW c \in Change, Discard(c) \/ ApplyExpired(c) PROVE TInv'
    BY <1>0, <1>7, ClosedDraftSafe DEF Discard, ApplyExpired, UnchangedPlatform
  <1>8. CASE Environment
    <2>1. CASE EditElsewhere
      BY <1>0, <2>1, PlatformSafe DEF EditElsewhere
    <2> QED BY <1>0, <1>8, <2>1, TickSafe, ArriveSafe, EndingSteps DEF Environment
  <1> QED BY <1>1, <1>2, <1>3, <1>4, <1>5, <1>6, <1>7, <1>8 DEF Next

\* Every handler is safe in every reachable state.
THEOREM TimelyInvariance == Spec => []TInv
  <1>1. Init => TInv BY InitTInv
  <1>2. TInv /\ [Next]_vars => TInv' BY NextTInv
  <1> QED BY <1>1, <1>2, PTL DEF Spec

\* Between taking the lease and the last use of what it protects an approval,
\* a settings save or a clock advance is alone.
THEOREM LeaseIsExclusive == Spec => []LeaseExcludes
  <1>1. TInv => LeaseExcludes
    <2> SUFFICES ASSUME TInv, NEW e \in Executor, exec[e].pc \in Protected
                 PROVE  /\ lease.owner = e /\ lease.left > 0
                        /\ \A f \in Executor : exec[f].pc \in Protected => f = e
      BY DEF LeaseExcludes
    <2>1. lease.owner = e /\ exec[e].left + Remaining(e) < lease.left
      BY DEF TInv, Safe, LeaseLasts
    <2>2. exec[e].left \in Nat /\ Remaining(e) \in Nat /\ lease.left \in Nat
      BY TimersAreNat DEF TInv, IInv, TypeOK, Exec, Remaining
    <2> QED BY <2>1, <2>2, Alone
  <1> QED BY <1>1, TimelyInvariance, PTL

\* Reconciliation never steals an attempt that is still alive.
THEOREM AttemptsNotStolen == Spec => []NoAttemptStolen
  <1>1. TInv => NoAttemptStolen BY DEF TInv, Safe, GraceLasts, NoAttemptStolen
  <1> QED BY <1>1, TimelyInvariance, PTL

\* What is about to be sent satisfies the policy that is saved.
THEOREM WritesMeetPolicy == Spec => []WriteMeetsPolicy
  <1>1. TInv => WriteMeetsPolicy BY DEF TInv, Safe, PolicyMet, WriteMeetsPolicy
  <1> QED BY <1>1, TimelyInvariance, PTL

\* A clock advance overwrites no approved write.
THEOREM AdvanceIsSafe == Spec => []AdvanceLosesNothing
  <1>1. TInv => AdvanceLosesNothing BY DEF TInv, Safe, ReadsKept, AdvanceLosesNothing
  <1> QED BY <1>1, TimelyInvariance, PTL
=============================================================================
