--------------------------- MODULE ChangeService ---------------------------
(***************************************************************************)
(* The Change Service (internal/agenthost/changes.go) on its SQLite store: *)
(* approvals, discards and reconciliations of stored changes, run by any   *)
(* number of HTTP requests and CLI processes over one database, next to    *)
(* the two other users of an account's apply lease: the settings form,     *)
(* which replaces the budget policy, and the Sandbox clock, which rewrites *)
(* every entity.                                                           *)
(*                                                                         *)
(* All changes concern one account (the lease is per account) and one      *)
(* target on it, so that they conflict as much as they can.  A version is  *)
(* a hash of an entity's content, so the content stands for its version.   *)
(* Time is counted in ticks; timers run down and stop at zero.             *)
(***************************************************************************)
EXTENDS BudgetPolicy, PlatformAnswers, Naturals, FiniteSets

CONSTANTS
    Change,          \* change ids
    Kind,            \* Kind[c]: what c asks for, one of Kinds
    Executor,        \* HTTP requests and CLI processes
    None,            \* no executor, no change, no parent
    Value,           \* contents the target can have (its budget)
    Policies,        \* budget policies an operator may save
    Live,            \* TRUE: TikTok MAPI; FALSE: the local Sandbox
    StageTTL,        \* ticks from staging to ExpiresAt (15 minutes)
    LeaseTTL,        \* ticks an approval's or a save's lease lasts (1 minute)
    RefreshBound,    \* most ticks from taking the lease to claiming
    ApplyTimeout,    \* the execution context's deadline (30 seconds)
    SaveTimeout,     \* the final save's deadline (5 seconds)
    ReconcileGrace,  \* age below which an attempt may be alive (1 minute)
    AdvanceTTL,      \* ticks a clock advance's lease lasts (10 minutes)
    AdvanceTimeout,  \* deadline of a clock advance (5 minutes)
    MaxDrafts,       \* bound on the changes that are ever drafted
    MaxFaults        \* bound on crashes and failed final saves

Kinds == {"budget", "status", "create", "update", "bundle"}
Timers == {StageTTL, LeaseTTL, RefreshBound, ApplyTimeout, SaveTimeout,
           ReconcileGrace, AdvanceTTL, AdvanceTimeout}

ASSUME KindAssumption == Kind \in [Change -> Kinds]
ASSUME NoneAssumption == None \notin Executor \union Change \union Value
ASSUME TimerAssumption == Timers \subseteq Nat /\ {MaxDrafts, MaxFaults} \subseteq Nat

VARIABLES
    row,      \* the changes table
    policy,   \* the saved budget policy
    lease,    \* the account's apply lease: owner and time left
    target,   \* content of the target on the platform (or in the Sandbox)
    effect,   \* what each change did to the platform
    sends,    \* requests sent for each change (ghost)
    exec,     \* each executor's control point and locals
    faults    \* crashes and failed final saves so far (bounds the model)

vars == <<row, policy, lease, target, effect, sends, exec, faults>>

Lifecycle == INSTANCE ChangeLifecycle
    WITH status <- [c \in Change |-> row[c].state],
         effect <- [c \in Change |->
                       CASE effect[c] = "inflight" -> "none"
                         [] effect[c] = "trailing" -> "partial"
                         [] OTHER -> effect[c]]

\* Apply up to its claim, from the claim to the read-back, and its save.
Claiming == {"leased", "refreshed"}
Executing == {"claimed", "validated", "acked"}
Attempting == Executing \union {"settling"}
Advancing == {"advancing", "simulating"}
\* From taking the lease to the last use of what it protects.
Protected == Claiming \union Executing \union Advancing \union {"configuring"}
Timed == Protected \union {"settling"}
\* A request that fails here has nothing to give back.
Leaseless == {"drafting", "drafted", "approving", "reconciling", "observing",
              "confirming"}
Points == Timed \union Leaseless \union {"idle", "releasing"}

Outcomes == {"nil", "unsure", "acked"}
Effects == {"none", "inflight", "partial", "trailing", "full"}

\* What matters of ads.Change: State, Before or Parent, After or the request,
\* the time left to ExpiresAt while staged or to ApprovedAt plus the grace
\* period while applying, and what is recorded of the request's outcome.
Row == [state: Lifecycle!Statuses, before: Value \union {None},
        after: Value \union {None}, timer: Nat, outcome: Outcomes]

\* A handler's point of control, its change, the content and the policy it
\* read, the time left to its deadline, the state and outcome it will save.
NoPolicy == [min |-> 0, max |-> 0, delta |-> 0]
Exec == [pc: Points, job: Change \union {None}, cur: Value \union {None},
         pol: Policies \union {NoPolicy}, left: Nat,
         verdict: Lifecycle!Statuses, reply: Outcomes]

NoRow == [state |-> "none", before |-> None, after |-> None,
          timer |-> 0, outcome |-> "nil"]
Idle == [pc |-> "idle", job |-> None, cur |-> None, pol |-> NoPolicy,
         left |-> 0, verdict |-> "none", reply |-> "nil"]
Free == [owner |-> None, left |-> 0]

\* Kinds that change the target, and kinds whose amount a policy limits.
Edits == {"budget", "status", "update"}
Budgeted == {"budget", "update", "bundle"}

\* What a draft's amount is checked against.  Nothing checks a creation's.
Permitted(p, kind, b, a) ==
    CASE kind = "budget" -> BudgetAllows(p, b, a)
      [] kind = "status" -> a # b
      [] kind = "update" -> UpdateAllows(p, b, a)
      [] kind = "bundle" -> NewBudgetAllows(p, a)
      [] kind = "create" -> TRUE

\* The content an amount is judged from.  An operation's policy check reads
\* the target on its own, so that on TikTok it may see any passing content.
Judged(kind, b) == IF Live /\ kind = "update" THEN Value ELSE {b}

-----------------------------------------------------------------------------
Init ==
    /\ row = [c \in Change |-> NoRow]
    /\ policy \in Policies
    /\ lease = Free
    /\ target \in Value
    /\ effect = [c \in Change |-> "none"]
    /\ sends = [c \in Change |-> 0]
    /\ exec = [e \in Executor |-> Idle]
    /\ faults = 0

At(e, point) == exec[e].pc = point
Goto(e, point) == exec' = [exec EXCEPT ![e].pc = point]
Finish(e) == exec' = [exec EXCEPT ![e] = Idle]
Leave(e) == exec' = [exec EXCEPT ![e] = [Idle EXCEPT !.pc = "releasing"]]

\* Store.Transition: one compare-and-swap on the row's state.
Transition(c, from, to, outcome) ==
    /\ row[c].state = from
    /\ Lifecycle!CanTransition(from, to)
    /\ row' = [row EXCEPT ![c] =
          [@ EXCEPT !.state = to, !.outcome = outcome,
                    !.timer = IF to = "applying" THEN ReconcileGrace ELSE 0]]

\* A mutant: an upsert that replaces any lease.
TakeLeaseAnyway(e, time) == lease' = [owner |-> e, left |-> time]

\* Store.Lease: an upsert that only replaces an expired lease.
TakeLease(e, time) ==
    /\ lease.left = 0
    /\ lease' = [owner |-> e, left |-> time]

UnchangedPlatform == UNCHANGED <<target, effect, sends>>

-----------------------------------------------------------------------------
(* Stage, StageCreate, StageOperation: the policy and the target are read,  *)
(* then the draft is checked against them and inserted.                     *)

Drafted == {c \in Change : \/ row[c].state # "none"
                           \/ \E e \in Executor : exec[e].job = c}

StagePolicy(e, c) ==
    /\ At(e, "idle")
    /\ c \notin Drafted                       \* store.ID is fresh
    /\ Cardinality(Drafted) < MaxDrafts
    /\ Kind[c] = "create" => ~Live            \* only the Sandbox creates
    /\ exec' = [exec EXCEPT ![e] = [@ EXCEPT !.pc = "drafting", !.job = c,
                                             !.pol = policy]]
    /\ UNCHANGED <<row, policy, lease, faults>> /\ UnchangedPlatform

\* A campaign that is created has no parent.
StageRead(e) ==
    /\ At(e, "drafting")
    /\ \E seen \in {target} \union
                  (IF Kind[exec[e].job] = "create" THEN {None} ELSE {}) :
          exec' = [exec EXCEPT ![e] = [@ EXCEPT !.pc = "drafted", !.cur = seen]]
    /\ UNCHANGED <<row, policy, lease, faults>> /\ UnchangedPlatform

StageInsert(e) ==
    LET c == exec[e].job IN
    /\ At(e, "drafted")
    /\ \E a \in Value :
          /\ \E b \in Judged(Kind[c], exec[e].cur) :
                Permitted(exec[e].pol, Kind[c], b, a)
          /\ row' = [row EXCEPT ![c] =
                [@ EXCEPT !.state = "staged", !.before = exec[e].cur,
                          !.after = a, !.timer = StageTTL]]
    /\ Finish(e)
    /\ UNCHANGED <<policy, lease, faults>> /\ UnchangedPlatform

Discard(c) ==
    /\ Transition(c, "staged", "discarded", "nil")
    /\ UNCHANGED <<policy, lease, exec, faults>> /\ UnchangedPlatform

-----------------------------------------------------------------------------
(* Apply.                                                                   *)

\* An expired draft is only marked when somebody approves it.
ApplyExpired(c) ==
    /\ row[c].timer = 0
    /\ Transition(c, "staged", "expired", "nil")
    /\ UNCHANGED <<policy, lease, exec, faults>> /\ UnchangedPlatform

ApplyRead(e, c) ==
    /\ At(e, "idle")
    /\ row[c].state = "staged" /\ row[c].timer > 0
    /\ exec' = [exec EXCEPT ![e].pc = "approving", ![e].job = c]
    /\ UNCHANGED <<row, policy, lease, faults>> /\ UnchangedPlatform

ApplyLease(e) ==
    /\ At(e, "approving")
    /\ TakeLease(e, LeaseTTL)
    /\ exec' = [exec EXCEPT ![e].pc = "leased", ![e].left = RefreshBound]
    /\ UNCHANGED <<row, policy, faults>> /\ UnchangedPlatform

RefreshPolicy(e) ==
    /\ At(e, "leased")
    /\ exec' = [exec EXCEPT ![e].pc = "refreshed", ![e].pol = policy]
    /\ UNCHANGED <<row, policy, lease, faults>> /\ UnchangedPlatform

\* A mutant: the claim does not look at the state it replaces.
ClaimUnchecked(e) ==
    LET c == exec[e].job IN
    /\ At(e, "refreshed")
    /\ row' = [row EXCEPT ![c].state = "applying", ![c].timer = ReconcileGrace]
    /\ exec' = [exec EXCEPT ![e].pc = "claimed", ![e].left = ApplyTimeout]
    /\ UNCHANGED <<policy, lease, faults>> /\ UnchangedPlatform

\* The claim starts the execution deadline; a client that leaves from here
\* on does not stop the attempt.
Claim(e) ==
    /\ At(e, "refreshed")
    /\ Transition(exec[e].job, "staged", "applying", "nil")
    /\ exec' = [exec EXCEPT ![e].pc = "claimed", ![e].left = ApplyTimeout]
    /\ UNCHANGED <<policy, lease, faults>> /\ UnchangedPlatform

\* change_state_conflict, or an error of Account, of Lease (session_busy),
\* of refreshPolicy or of the database.  The deferred Release follows once
\* the lease was taken.
Refuse(e) ==
    /\ \/ exec[e].pc \in Leaseless /\ Finish(e)
       \/ /\ exec[e].pc \in Claiming \union Advancing \union {"configuring"}
          /\ Leave(e)
    /\ UNCHANGED <<row, policy, lease, faults>> /\ UnchangedPlatform

\* The attempt is over: its verdict will be saved under a fresh deadline.
Decide(e, to, reply) ==
    exec' = [exec EXCEPT ![e] = [Idle EXCEPT !.pc = "settling", !.job = exec[e].job,
                 !.verdict = to, !.reply = reply, !.left = SaveTimeout]]

\* What the draft was made on is read again; its limits are checked again
\* against the policy read under the lease.
Revalidate(e) ==
    LET c == exec[e].job
        kind == Kind[c]
        stale == row[c].before # None /\ row[c].before # target
    IN
    /\ At(e, "claimed")
    /\ \/ \* the read failed
          /\ row[c].before # None
          /\ Decide(e, IF kind = "create" THEN "expired" ELSE "failed", "nil")
       \/ stale /\ Decide(e, "expired", "nil")
       \/ /\ ~stale
          /\ \E b \in Judged(kind, row[c].before) :
                IF Permitted(exec[e].pol, kind, b, row[c].after)
                THEN Goto(e, "validated")
                ELSE Decide(e, "failed", "nil")
    /\ UNCHANGED <<row, policy, lease, faults>> /\ UnchangedPlatform

\* The answers to an attempt's requests, with what these can have done.  The
\* Sandbox refuses a stale target and does nothing it did not answer for.
SandboxAnswers(c) ==
    LET taken == Kind[c] = "create" \/ row[c].before = target IN
    {<<"refused", "none">>}
    \union (IF Kind[c] = "create" THEN {} ELSE {<<"unknown", "none">>})
    \union (IF taken THEN {<<"acknowledged", "full">>} ELSE {})
    \union (IF taken /\ Kind[c] = "bundle" THEN {<<"partial", "partial">>} ELSE {})

LiveAnswers(c) == IF Kind[c] = "bundle" THEN BundleAnswers ELSE RequestAnswers

Answers(c) == IF Live THEN LiveAnswers(c) ELSE SandboxAnswers(c)

\* A mutant: whatever was not acknowledged is reported as failed.
SendOrFail(e) ==
    LET c == exec[e].job IN
    /\ At(e, "validated")
    /\ \E answer \in Answers(c) :
          /\ effect' = [effect EXCEPT ![c] = answer[2]]
          /\ target' = IF answer[2] = "full" /\ Kind[c] \in Edits
                       THEN row[c].after ELSE target
          /\ IF answer[1] = "acknowledged"
             THEN exec' = [exec EXCEPT ![e].pc = "acked", ![e].reply = "acked"]
             ELSE Decide(e, "failed", "unsure")
    /\ sends' = [sends EXCEPT ![c] = @ + 1]
    /\ UNCHANGED <<row, policy, lease, faults>>

\* Writer.Write, Creator.Create or Operator.ApplyOperation, called once.
Send(e) ==
    LET c == exec[e].job IN
    /\ At(e, "validated")
    /\ \E answer \in Answers(c) :
          /\ effect' = [effect EXCEPT ![c] = answer[2]]
          /\ target' = IF answer[2] = "full" /\ Kind[c] \in Edits
                       THEN row[c].after ELSE target
          /\ CASE answer[1] = "refused" -> Decide(e, "failed", "unsure")
               [] answer[1] = "acknowledged" ->
                    exec' = [exec EXCEPT ![e].pc = "acked", ![e].reply = "acked"]
               [] OTHER -> Decide(e, "indeterminate", "unsure")
    /\ sends' = [sends EXCEPT ![c] = @ + 1]
    /\ UNCHANGED <<row, policy, lease, faults>>

\* A read-back shows the whole of the change.
Matches(c) == IF Kind[c] \in Edits THEN target = row[c].after
                                   ELSE effect[c] = "full"

ReadBack(e) ==
    /\ At(e, "acked")
    /\ \/ Matches(exec[e].job) /\ Decide(e, "applied", "acked")
       \/ Decide(e, "indeterminate", "acked")    \* mismatch, or the read failed
    /\ UNCHANGED <<row, policy, lease, faults>> /\ UnchangedPlatform

Settle(e) ==
    /\ At(e, "settling")
    /\ Transition(exec[e].job, "applying", exec[e].verdict, exec[e].reply)
    /\ Leave(e)
    /\ UNCHANGED <<policy, lease, faults>> /\ UnchangedPlatform

\* The final save fails or times out: the change stays applying.
SettleFails(e) ==
    /\ At(e, "settling")
    /\ faults < MaxFaults
    /\ faults' = faults + 1
    /\ Leave(e)
    /\ UNCHANGED <<row, policy, lease>> /\ UnchangedPlatform

SettleConflict(e) ==
    /\ At(e, "settling")
    /\ row[exec[e].job].state # "applying"
    /\ Leave(e)
    /\ UNCHANGED <<row, policy, lease, faults>> /\ UnchangedPlatform

\* Store.Release deletes the lease only from its own owner; it may fail, and
\* its error is dropped.
Release(e) ==
    /\ At(e, "releasing")
    /\ lease' \in {lease, IF lease.owner = e THEN Free ELSE lease}
    /\ Finish(e)
    /\ UNCHANGED <<row, policy, faults>> /\ UnchangedPlatform

-----------------------------------------------------------------------------
(* Reconcile: it observes, and never sends.                                 *)

\* A mutant: only a change already marked indeterminate is looked at.
ReconcileReadMarked(e, c) ==
    /\ At(e, "idle")
    /\ row[c].state = "indeterminate"
    /\ exec' = [exec EXCEPT ![e].job = c, ![e].pc = "observing"]
    /\ UNCHANGED <<row, policy, lease, faults>> /\ UnchangedPlatform

ReconcileRead(e, c) ==
    /\ At(e, "idle")
    /\ row[c].state \in {"applying", "indeterminate"}
    /\ exec' = [exec EXCEPT ![e].job = c, ![e].pc =
                   IF row[c].state = "applying" THEN "reconciling" ELSE "observing"]
    /\ UNCHANGED <<row, policy, lease, faults>> /\ UnchangedPlatform

\* A mutant: no grace period, so that a live attempt is stolen.
ReconcileAtOnce(e) ==
    /\ At(e, "reconciling")
    /\ Transition(exec[e].job, "applying", "indeterminate", "nil")
    /\ Goto(e, "observing")
    /\ UNCHANGED <<policy, lease, faults>> /\ UnchangedPlatform

\* A mutant: an interrupted attempt is reported as failed.
ReconcileAsFailed(e) ==
    /\ At(e, "reconciling")
    /\ row[exec[e].job].timer = 0
    /\ Transition(exec[e].job, "applying", "failed", "nil")
    /\ Finish(e)
    /\ UNCHANGED <<policy, lease, faults>> /\ UnchangedPlatform

ReconcileInterrupted(e) ==
    /\ At(e, "reconciling")
    /\ row[exec[e].job].timer = 0
    /\ Transition(exec[e].job, "applying", "indeterminate", "nil")
    /\ Goto(e, "observing")
    /\ UNCHANGED <<policy, lease, faults>> /\ UnchangedPlatform

\* A creation needs the object that was created, an operation the outcome of
\* its request, and on TikTok an acknowledged one.
Reconcilable(c) ==
    CASE Kind[c] \in {"budget", "status"} -> TRUE
      [] Kind[c] = "create" -> row[c].outcome = "acked"
      [] OTHER -> row[c].outcome \in (IF Live THEN {"acked"} ELSE {"acked", "unsure"})

ReconcileObserve(e) ==
    /\ At(e, "observing")
    /\ Reconcilable(exec[e].job)
    /\ Matches(exec[e].job)
    /\ Goto(e, "confirming")
    /\ UNCHANGED <<row, policy, lease, faults>> /\ UnchangedPlatform

ReconcileConfirm(e) ==
    /\ At(e, "confirming")
    /\ Transition(exec[e].job, "indeterminate", "applied", row[exec[e].job].outcome)
    /\ Finish(e)
    /\ UNCHANGED <<policy, lease, faults>> /\ UnchangedPlatform

-----------------------------------------------------------------------------
(* The settings form (httpapi.replaceSettings) and the Sandbox clock        *)
(* (persistentSandbox.Advance) take the same lease.                         *)

\* A mutant: the settings form does not ask for the lease.
SettingsLeaseless(e) ==
    /\ At(e, "idle")
    /\ exec' = [exec EXCEPT ![e].pc = "configuring", ![e].left = SaveTimeout]
    /\ UNCHANGED <<row, policy, lease, faults>> /\ UnchangedPlatform

SettingsLease(e) ==
    /\ At(e, "idle")
    /\ TakeLease(e, LeaseTTL)
    /\ exec' = [exec EXCEPT ![e].pc = "configuring", ![e].left = SaveTimeout]
    /\ UNCHANGED <<row, policy, faults>> /\ UnchangedPlatform

SettingsSave(e) ==
    /\ At(e, "configuring")
    /\ policy' \in Policies
    /\ Leave(e)
    /\ UNCHANGED <<row, lease, faults>> /\ UnchangedPlatform

\* A mutant: the clock relies on its own compare-and-swap alone.
AdvanceLeaseless(e) ==
    /\ ~Live
    /\ At(e, "idle")
    /\ exec' = [exec EXCEPT ![e].pc = "advancing", ![e].left = AdvanceTimeout]
    /\ UNCHANGED <<row, policy, lease, faults>> /\ UnchangedPlatform

AdvanceLease(e) ==
    /\ ~Live
    /\ At(e, "idle")
    /\ TakeLease(e, AdvanceTTL)
    /\ exec' = [exec EXCEPT ![e].pc = "advancing", ![e].left = AdvanceTimeout]
    /\ UNCHANGED <<row, policy, faults>> /\ UnchangedPlatform

AdvanceLoad(e) ==
    /\ At(e, "advancing")
    /\ exec' = [exec EXCEPT ![e] = [@ EXCEPT !.pc = "simulating", !.cur = target,
                                             !.pol = policy]]
    /\ UNCHANGED <<row, policy, lease, faults>> /\ UnchangedPlatform

\* A mutant: a rule raises a budget without asking the policy.
AdvanceUnlimited(e) ==
    /\ At(e, "simulating")
    /\ target' \in {exec[e].cur, exec[e].cur + 1}
    /\ Leave(e)
    /\ UNCHANGED <<row, policy, lease, effect, sends, faults>>

\* Every entity is written back, changed by no rule or by a rule's budget.
AdvanceCommit(e) ==
    /\ At(e, "simulating")
    /\ target' \in {exec[e].cur} \union
           {v \in Value : BudgetAllows(exec[e].pol, exec[e].cur, v)}
    /\ Leave(e)
    /\ UNCHANGED <<row, policy, lease, effect, sends, faults>>

-----------------------------------------------------------------------------
(* The environment.                                                         *)

\* Another tool changes the target on the platform.
EditElsewhere ==
    /\ Live
    /\ target' \in Value
    /\ UNCHANGED <<row, policy, lease, effect, sends, exec, faults>>

\* TikTok carries out a request whose answer was given up.
Arrive(c) ==
    /\ effect[c] \in {"inflight", "trailing"}
    /\ effect' = [effect EXCEPT ![c] = Arrived(@, Kind[c] = "bundle")]
    /\ target' = IF Kind[c] \in Edits THEN row[c].after ELSE target
    /\ UNCHANGED <<row, policy, lease, sends, exec, faults>>

\* A process dies; what it stored stays, its lease included.
Crash(e) ==
    /\ ~At(e, "idle")
    /\ faults < MaxFaults
    /\ faults' = faults + 1
    /\ Finish(e)
    /\ UNCHANGED <<row, policy, lease>> /\ UnchangedPlatform

Down(n) == IF n > 0 THEN n - 1 ELSE 0

\* Time passes for all timers at once, never beyond a handler's deadline.
Tick ==
    /\ \A e \in Executor : exec[e].pc \in Timed => exec[e].left > 0
    /\ row' = [c \in Change |-> [row[c] EXCEPT !.timer = Down(@)]]
    /\ lease' = [lease EXCEPT !.left = Down(@)]
    /\ exec' = [e \in Executor |-> [exec[e] EXCEPT !.left = Down(@)]]
    /\ UNCHANGED <<policy, faults>> /\ UnchangedPlatform

-----------------------------------------------------------------------------
Apply(e) ==
    \/ \E c \in Change : ApplyRead(e, c)
    \/ ApplyLease(e) \/ RefreshPolicy(e) \/ Claim(e) \/ Revalidate(e)
    \/ Send(e) \/ ReadBack(e) \/ Settle(e) \/ SettleFails(e)
    \/ SettleConflict(e) \/ Release(e)

Reconcile(e) ==
    \/ \E c \in Change : ReconcileRead(e, c)
    \/ ReconcileInterrupted(e) \/ ReconcileObserve(e) \/ ReconcileConfirm(e)

LeaseUsers(e) ==
    SettingsLease(e) \/ SettingsSave(e)
        \/ AdvanceLease(e) \/ AdvanceLoad(e) \/ AdvanceCommit(e)

Environment ==
    EditElsewhere \/ Tick \/ (\E c \in Change : Arrive(c))
                  \/ (\E e \in Executor : Crash(e))

Next ==
    \/ \E e \in Executor :
          \/ \E c \in Change : StagePolicy(e, c)
          \/ StageRead(e) \/ StageInsert(e) \/ Apply(e) \/ Refuse(e) \/ Reconcile(e)
          \/ LeaseUsers(e)
    \/ \E c \in Change : Discard(c) \/ ApplyExpired(c)
    \/ Environment

Spec == Init /\ [][Next]_vars
-----------------------------------------------------------------------------
(* Properties.                                                              *)

TypeOK ==
    /\ row \in [Change -> Row]
    /\ policy \in Policies
    /\ lease \in [owner: Executor \union {None}, left: Nat]
    /\ target \in Value
    /\ effect \in [Change -> Effects]
    /\ sends \in [Change -> Nat]
    /\ exec \in [Executor -> Exec]
    /\ faults \in Nat

\* One write attempt: whatever approvals race, die or are reconciled, at most
\* one request is ever sent for a change (Apply's claim by compare-and-swap).
AtMostOneSend == \A c \in Change : sends[c] <= 1

\* A change reported failed, expired or discarded never reached the platform
\* and never will: only what may have happened is left indeterminate.
NothingHidden ==
    \A c \in Change :
        row[c].state \in {"none", "staged", "discarded", "expired", "failed"} =>
            effect[c] = "none"

\* The account lease excludes: between taking it and the last use of what it
\* protects, an approval, a settings save or a clock advance is alone.
LeaseExcludes ==
    \A e \in Executor : exec[e].pc \in Protected =>
        /\ lease.owner = e /\ lease.left > 0
        /\ \A f \in Executor : exec[f].pc \in Protected => f = e

\* A live attempt is never stolen: until its verdict is saved the change stays
\* applying, so that Reconcile's grace period covers execution and save.
NoAttemptStolen ==
    \A e \in Executor : exec[e].pc \in Attempting => row[exec[e].job].state = "applying"

\* What is about to be sent satisfies the policy that is saved now, not only
\* the one that was read: the recheck is still good when the write goes out.
WriteMeetsPolicy ==
    \A e \in Executor :
        At(e, "validated") /\ Kind[exec[e].job] \in Budgeted =>
            \E b \in Judged(Kind[exec[e].job], row[exec[e].job].before) :
                Permitted(policy, Kind[exec[e].job], b, row[exec[e].job].after)

\* A clock advance writes back every entity: the snapshot it holds has missed
\* no approved write, and its rules run under the saved policy.
AdvanceLosesNothing ==
    \A e \in Executor :
        At(e, "simulating") => exec[e].cur = target /\ exec[e].pol = policy

\* The service does what ChangeLifecycle promises.
ImplementsLifecycle == Lifecycle!Spec

\* "Budget policy is checked at staging and again before execution": the
\* budget of an object about to be created is within the saved limits.
CreationMeetsPolicy ==
    \A e \in Executor :
        At(e, "validated") /\ Kind[exec[e].job] = "create" =>
            NewBudgetAllows(policy, row[exec[e].job].after)

-----------------------------------------------------------------------------
(* Liveness: a handler that started runs on, time passes, and an operator   *)
(* who finds a change still applying keeps asking for its reconciliation    *)
(* once it is old enough.                                                   *)
Step(e) ==
    \/ ApplyLease(e) \/ RefreshPolicy(e) \/ Claim(e) \/ Revalidate(e) \/ Send(e)
    \/ ReadBack(e) \/ Settle(e) \/ SettleConflict(e) \/ Release(e) \/ Refuse(e)
    \/ StageRead(e) \/ StageInsert(e) \/ ReconcileInterrupted(e) \/ ReconcileObserve(e)
    \/ ReconcileConfirm(e) \/ SettingsSave(e) \/ AdvanceLoad(e) \/ AdvanceCommit(e)

Asked(c) ==
    \E e \in Executor :
        row[c].state = "applying" /\ row[c].timer = 0 /\ ReconcileRead(e, c)

Answered(c) ==
    \E e \in Executor : exec[e].job = c /\ ReconcileInterrupted(e)

\* Strong fairness: executors are a bound of the model, so that a request
\* finds one sooner or later, and its reads do not fail every time.
FairSpec ==
    /\ Spec
    /\ WF_vars(Tick)
    /\ \A e \in Executor : WF_vars(Step(e))
    /\ \A c \in Change : SF_vars(Asked(c)) /\ SF_vars(Answered(c))

\* A claimed change never stays applying: its own attempt saves a verdict or,
\* after a crash or a failed save, reconciliation marks it indeterminate.
ClaimedIsSettled ==
    \A c \in Change : row[c].state = "applying" ~> row[c].state # "applying"
=============================================================================
