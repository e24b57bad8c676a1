----------------------------- MODULE ManagerTurn -----------------------------
(***************************************************************************)
(* The Manager host (internal/manager): one agent over several advertiser  *)
(* accounts.  Its tools read an object of an account and stage a change of *)
(* it; a draft carries its account, and the operator's approval is routed  *)
(* by it.  The host runs one turn at a time; the calls of one response may *)
(* run at the same time, one slot each, and only the turn's readings, its  *)
(* cards and its event numbers are under a mutex.                          *)
(*                                                                         *)
(* Creating a campaign, which needs no reading, is left out.                *)
(* An account has one object, which stands for any: its state is a number  *)
(* that grows with every edit.  What AgentTurn models for both hosts (the  *)
(* lease, the conversation, native checkpoints) and what ChangeService     *)
(* models (policy, claims, writes) is left to those modules.               *)
(***************************************************************************)
EXTENDS Naturals, Sequences, FiniteSets

CONSTANTS
    Account,   \* the bound advertiser accounts
    Slot,      \* goroutines running tool calls
    None,
    MaxStaged, \* drafts a turn may stage (20)
    MaxCards,  \* cards a turn may show (20)
    MaxEdits,  \* edits by others (bounds the model)
    MaxTurns,  \* turns (bounds the model)
    MaxFaults  \* failures of the store (bounds the model)

NoneAssumption == None \notin Account
LimitAssumption ==
    {MaxStaged, MaxCards, MaxEdits, MaxTurns, MaxFaults} \subseteq Nat
\* A turn may show as many drafts as it may stage (host.go:393, 480).
CardAssumption == MaxStaged <= MaxCards

VARIABLES
    world,     \* the state of each account's object
    seen,      \* Provenance: the state of each object as last read, or None
    saved,     \* the session's row: its readings and how the last turn stands
    drafts,    \* the changes stored, oldest first
    pc,        \* "idle", "open", "running", "saving", "announcing"
    turn,      \* the turn's number
    alive,     \* its context is not over
    call,      \* each slot's call and how far it is
    staged,    \* drafts the turn has counted
    shown,     \* the drafts with a card of this turn
    lost,      \* eventError: an event could not be stored
    status,    \* how the turn ends
    announced, \* turn.completed was stored
    faults,
    told,      \* history: drafts whose card the client was sent
    reads,     \* history: states of objects the session has read
    effects    \* history: what approvals changed

session == <<seen, saved>>
tools == <<call, staged, shown>>
ending == <<status, announced>>
history == <<told, reads, effects>>
vars == <<world, session, drafts, pc, turn, alive, tools, lost, ending, faults, history>>

Idle == [at |-> "idle", account |-> None, before |-> None, seen |-> None]
Unread == [a \in Account |-> None]

Init ==
    /\ world = [a \in Account |-> 0]
    /\ seen = Unread /\ saved = [seen |-> Unread, status |-> None]
    /\ drafts = <<>>
    /\ pc = "idle" /\ turn = 0 /\ alive = TRUE
    /\ call = [s \in Slot |-> Idle]
    /\ staged = 0 /\ shown = {} /\ lost = FALSE
    /\ status = None /\ announced = FALSE /\ faults = 0
    /\ told = {} /\ reads = {} /\ effects = {}

Fault == faults < MaxFaults /\ faults' = faults + 1

\* turnState.event: silent after the first error; nothing is stored when the
\* turn's context is over.
Event(stored) ==
    IF stored THEN ~lost /\ alive /\ UNCHANGED <<lost, faults>>
    ELSE /\ lost' = TRUE
         /\ IF lost \/ ~alive THEN UNCHANGED faults ELSE Fault

-----------------------------------------------------------------------------
(* A turn begins.                                                           *)

\* The user's message is recorded, with the readings of earlier turns.
Open ==
    /\ pc = "idle" /\ turn < MaxTurns
    /\ pc' = "open" /\ turn' = turn + 1 /\ alive' = TRUE
    /\ seen' = saved.seen /\ saved' = [saved EXCEPT !.status = "running"]
    /\ staged' = 0 /\ shown' = {} /\ lost' = FALSE
    /\ status' = None /\ announced' = FALSE
    /\ UNCHANGED <<world, drafts, call, faults, history>>

\* turn.started, and the runtime runs.
Start ==
    /\ pc = "open"
    /\ \E stored \in BOOLEAN : Event(stored)
    /\ pc' = "running"
    /\ UNCHANGED <<world, session, drafts, turn, alive, tools, ending, history>>

\* The prompt cannot be built: the message stays running.
Abandon ==
    /\ pc = "open"
    /\ pc' = "idle"
    /\ UNCHANGED <<world, session, drafts, turn, alive, tools, lost, ending, faults, history>>

\* The client leaves or the 240 seconds are over.
Cancel ==
    /\ pc # "idle" /\ alive
    /\ alive' = FALSE
    /\ UNCHANGED <<world, session, drafts, pc, turn, tools, lost, ending, faults, history>>

-----------------------------------------------------------------------------
(* Tools.                                                                   *)

At(s, point) == pc = "running" /\ call[s].at = point
Answer(s) == call' = [call EXCEPT ![s] = Idle]

\* A call that fails: wrong arguments, a limit, an account outside the scope, the
\* backend, the policy, the change store or a context that is over.
Refuse(s) ==
    /\ pc = "running" /\ call[s].at \in {"asked", "copied", "read"}
    /\ Answer(s)
    /\ UNCHANGED <<world, session, drafts, pc, turn, alive, staged, shown, lost, ending,
                   faults, history>>

\* get_account_entity, or one of list_account_entities: the backend answers.
Get(s, a) ==
    /\ At(s, "idle")
    /\ call' = [call EXCEPT ![s] = [Idle EXCEPT !.at = "got", !.account = a,
                                                !.before = world[a]]]
    /\ UNCHANGED <<world, session, drafts, pc, turn, alive, staged, shown, lost, ending,
                   faults, history>>

\* provenanceKey: readings are kept by account, level and id.
Key(a) == {a}

\* remember.
Remember(s) ==
    /\ At(s, "got")
    /\ LET c == call[s] IN
       /\ seen' = [a \in Account |-> IF a \in Key(c.account) THEN c.before ELSE seen[a]]
       /\ reads' = reads \union {[account |-> c.account, state |-> c.before]}
    /\ Answer(s)
    /\ UNCHANGED <<world, saved, drafts, pc, turn, alive, staged, shown, lost, ending,
                   faults, told, effects>>

\* stage_*: the limit is checked and the session copied.
Stage(s, a) ==
    /\ At(s, "idle")
    /\ staged < MaxStaged
    /\ call' = [call EXCEPT ![s] = [at |-> "copied", account |-> a, before |-> None,
                                    seen |-> seen[a]]]
    /\ UNCHANGED <<world, session, drafts, pc, turn, alive, staged, shown, lost, ending,
                   faults, history>>

\* Scope.Get of the object to change; a creation goes by its parent as it was read.
ReadTarget(s) ==
    /\ At(s, "copied")
    /\ \E before \in {world[call[s].account], call[s].seen} :
          call' = [call EXCEPT ![s].at = "read", ![s].before = before]
    /\ UNCHANGED <<world, session, drafts, pc, turn, alive, staged, shown, lost, ending,
                   faults, history>>

\* The object was read in this session, and is what it was then and just now.
UnchangedSince(c) == c.seen # None /\ world[c.account] = c.seen /\ c.seen = c.before

\* Changes.Stage: the draft is stored.
Store(s) ==
    /\ At(s, "read") /\ alive
    /\ UnchangedSince(call[s])
    /\ drafts' = Append(drafts, [account |-> call[s].account, basis |-> call[s].before,
                                 turn |-> turn, state |-> "staged"])
    /\ call' = [call EXCEPT ![s].at = "stored", ![s].before = Len(drafts) + 1]
    /\ UNCHANGED <<world, session, pc, turn, alive, staged, shown, lost, ending, faults,
                   history>>

\* The draft is counted and change.updated sent.
Count(s) ==
    /\ At(s, "stored")
    /\ staged' = staged + 1
    /\ \E stored \in BOOLEAN : Event(stored)
    /\ call' = [call EXCEPT ![s].at = "counted"]
    /\ UNCHANGED <<world, session, drafts, pc, turn, alive, shown, ending, history>>

\* showChangePreview: no card when there are enough, else a card and ui.upsert.
Show(s) ==
    /\ At(s, "counted")
    /\ IF Cardinality(shown) >= MaxCards
       THEN UNCHANGED <<shown, lost, faults, told>>
       ELSE /\ shown' = shown \union {call[s].before}
            /\ \E stored \in BOOLEAN :
                  /\ Event(stored)
                  /\ told' = IF stored THEN told \union {call[s].before} ELSE told
    /\ Answer(s)
    /\ UNCHANGED <<world, session, drafts, pc, turn, alive, staged, ending, reads, effects>>

-----------------------------------------------------------------------------
(* The turn ends.                                                           *)

\* What becomes of the runtime's answer: later tests override earlier ones.
Verdict(answer) ==
    IF ~alive THEN "cancelled"
    ELSE IF lost \/ answer = "broken" THEN "failed"
    ELSE IF answer = "budget" THEN "budget_exhausted" ELSE "completed"

\* The runtime answers when its calls have.
Quiet == \A s \in Slot : call[s].at = "idle"

Finish ==
    /\ pc = "running" /\ Quiet
    /\ \E answer \in {"stop", "budget", "broken"} : status' = Verdict(answer)
    /\ pc' = "saving"
    /\ UNCHANGED <<world, session, drafts, turn, alive, tools, lost, announced, faults, history>>

\* The session is saved under a context nothing cancels; the store may fail.
Save ==
    /\ pc = "saving"
    /\ \/ saved' = [seen |-> seen, status |-> status] /\ UNCHANGED <<faults, status>>
       \/ Fault /\ UNCHANGED saved /\ status' = "failed"
    /\ pc' = "announcing"
    /\ UNCHANGED <<world, seen, drafts, turn, alive, tools, lost, announced, history>>

\* turn.completed, under the turn's own context.
Announce ==
    /\ pc = "announcing"
    /\ \E stored \in BOOLEAN : Event(stored) /\ announced' = stored
    /\ pc' = "idle"
    /\ UNCHANGED <<world, session, drafts, turn, alive, tools, status, history>>

-----------------------------------------------------------------------------
(* The operator and others.                                                 *)

\* A mutant: approvals go to the account drafted last.
RouteOfLast(d) == drafts[Len(drafts)].account

\* Scope.Apply: approvals go to the account stored with the draft.
Route(d) == drafts[d].account

\* The operator approves a draft; it is applied to an object that is unchanged, and
\* expires otherwise.
Apply(d) ==
    /\ drafts[d].state = "staged"
    /\ LET a == Route(d) IN
       IF world[a] = drafts[d].basis
       THEN /\ world' = [world EXCEPT ![a] = @ + 1]
            /\ drafts' = [drafts EXCEPT ![d].state = "applied"]
            /\ effects' = effects \union {[draft |-> d, account |-> a, from |-> world[a]]}
       ELSE /\ drafts' = [drafts EXCEPT ![d].state = "expired"]
            /\ UNCHANGED <<world, effects>>
    /\ UNCHANGED <<session, pc, turn, alive, tools, lost, ending, faults, told, reads>>

Edits(a) == world[a] - Cardinality({e \in effects : e.account = a})

Edit(a) ==
    /\ Edits(a) < MaxEdits
    /\ world' = [world EXCEPT ![a] = @ + 1]
    /\ UNCHANGED <<session, drafts, pc, turn, alive, tools, lost, ending, faults, history>>

Tool(s) ==
    \/ Refuse(s) \/ Remember(s) \/ ReadTarget(s) \/ Store(s) \/ Count(s) \/ Show(s)
    \/ \E a \in Account : Get(s, a) \/ Stage(s, a)

Next ==
    \/ Open \/ Start \/ Abandon \/ Cancel \/ Finish \/ Save \/ Announce
    \/ \E s \in Slot : Tool(s)
    \/ \E d \in DOMAIN drafts : Apply(d)
    \/ \E a \in Account : Edit(a)

Spec == Init /\ [][Next]_vars

-----------------------------------------------------------------------------

Final == {"completed", "failed", "cancelled", "budget_exhausted"}

TypeOK ==
    /\ \A a \in Account : world[a] \in Nat /\ seen[a] \in Nat \union {None}
    /\ saved.status \in Final \union {None, "running"} /\ status \in Final \union {None}
    /\ pc \in {"idle", "open", "running", "saving", "announcing"}
    /\ turn \in 0..MaxTurns /\ {alive, lost, announced} \subseteq BOOLEAN
    /\ \A s \in Slot : call[s].at # "idle" => pc = "running"
    /\ shown \subseteq DOMAIN drafts /\ Cardinality(shown) <= MaxCards
    /\ \A d \in DOMAIN drafts : drafts[d].state \in {"staged", "applied", "expired"}

\* A draft rests on a state of the object that this session has read in the draft's
\* own account, whatever was read and staged in the other accounts meanwhile
\* (scope.go:181, changes.go:63).
DraftsWereRead ==
    \A d \in DOMAIN drafts :
       [account |-> drafts[d].account, state |-> drafts[d].basis] \in reads

\* An approval changes the draft's own account and no other, from the state that
\* was reviewed (scope.go:240).
AppliedInPlace ==
    \A e \in effects :
       /\ e.account = drafts[e.draft].account
       /\ e.from = drafts[e.draft].basis

\* A turn that is recorded as completed has shown every draft it stored: no draft
\* waits for an approval that the operator was never offered (host.go:226, 477).
CompletedShowedDrafts ==
    saved.status = "completed" =>
       \A d \in DOMAIN drafts : drafts[d].turn = turn => d \in told

\* A turn whose end was recorded is announced, unless the store failed: also one
\* that was cancelled or timed out (host.go:253).
EndIsAnnounced ==
    pc = "idle" /\ saved.status \in Final /\ faults = 0 => announced
=============================================================================
