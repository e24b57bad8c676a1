----------------------------- MODULE AgentTurn -----------------------------
(***************************************************************************)
(* A turn of the agent (internal/agenthost/host.go): hosts in several      *)
(* processes over one database run the turns of one session.  A turn takes *)
(* the session's lease, loads the conversation, records the user's message *)
(* as running, lets the runtime call tools, numbers and stores events, and *)
(* saves how it ended.  Processes die, clients leave, the store fails, and *)
(* runtimes answer late.                                                   *)
(*                                                                         *)
(* A conversation is a sequence with one entry per turn: "running" stands  *)
(* for the user's message alone, any other status for the pair of messages.*)
(* progress.updated, context.bound and text deltas are events like the     *)
(* others, which stand for them.                                           *)
(* Time is counted in ticks; timers run down and stop at zero.             *)
(***************************************************************************)
EXTENDS Naturals, Sequences

CONSTANTS
    Turn,            \* turn ids, each used once
    Host,            \* processes with a host: the server, the CLI
    Binding,         \* runtime, model connection and execution contract
    Call,            \* tool calls of a turn
    Mutation,        \* those that stage, discard or remember
    Staging,         \* those that stage
    Asks,            \* turns whose message asks for a change
    Captures,        \* whether hosts extract memories automatically
    None,            \* no turn, host, binding or call
    LeaseTTL,        \* ticks the session lease lasts (5 minutes)
    TurnTimeout,     \* deadline of a turn (240 seconds)
    MemoryTimeout,   \* deadline of the memory extraction (45 seconds)
    SaveTimeout,     \* deadline of the last save and event (5 seconds)
    Slack,           \* ticks a turn may overrun its deadlines by
    MaxFaults        \* bound on crashes and failures of the store

ASSUME SetAssumption ==
    Staging \subseteq Mutation /\ Mutation \subseteq Call /\ Asks \subseteq Turn
ASSUME CaptureAssumption == Captures \in BOOLEAN
ASSUME NoneAssumption == None \notin Turn \union Host \union Binding \union Call
ASSUME TimerAssumption ==
    {LeaseTTL, TurnTimeout, MemoryTimeout, SaveTimeout, Slack, MaxFaults} \subseteq Nat

VARIABLES
    session,   \* the session's row: conversation, checkpoint, binding
    lease,     \* the session's lease: owner and time left
    turn,      \* each turn's control point and locals
    call,      \* how far each tool call of each turn is
    feed,      \* each turn's event numbering, and whether an event was lost
    log,       \* the events table, by turn
    faults     \* crashes and store failures so far (bounds the model)

vars == <<session, lease, turn, call, feed, log, faults>>

Ledger == INSTANCE Conversation WITH conversation <- session.messages

Final == Ledger!Final

\* A native checkpoint: who can read it, and the turns its history holds.
NoCheckpoint == [by |-> None, turns |-> <<>>]

Asking == {"leased", "loaded", "opened", "grounding", "thinking"}
Active == Asking \union {"extracting", "saving", "completing"}
Points == Active \union {"unsent", "releasing", "over", "dead"}

\* From taking the lease to the last save.
Protected == Active \ {"completing"}

Blank == [pc |-> "unsent", host |-> None, bind |-> None, prior |-> <<>>,
          checkpoint |-> NoCheckpoint, alive |-> TRUE, left |-> 0, spare |-> 0,
          pass |-> 1, broken |-> FALSE, status |-> "running", result |-> "none"]
Free == [owner |-> None, left |-> 0]

TurnsOf(messages) == [i \in 1..Len(messages) |-> messages[i].turn]

Init ==
    /\ \E b \in Binding :
          session = [messages |-> <<>>, checkpoint |-> NoCheckpoint, binding |-> b]
    /\ lease = Free
    /\ turn = [t \in Turn |-> Blank]
    /\ call = [t \in Turn |-> [c \in Call |-> "idle"]]
    /\ feed = [t \in Turn |-> [seq |-> 0, lost |-> FALSE]]
    /\ log = [t \in Turn |-> <<>>]
    /\ faults = 0

At(t, point) == turn[t].pc = point
Goto(t, point) == turn' = [turn EXCEPT ![t].pc = point]
Fault == faults < MaxFaults /\ faults' = faults + 1

\* The handler returns; its deferred calls follow.
Return(t, result) ==
    turn' = [turn EXCEPT ![t] = [Blank EXCEPT !.pc = "releasing",
                                 !.host = turn[t].host, !.result = result]]

-----------------------------------------------------------------------------
(* The event log.                                                           *)

\* A mutant: an event that could not be stored does not stop the next.
EventAnyway(t, kind, of) ==
    LET n == feed[t].seq + 1
        stored == Append(log[t], [seq |-> n, kind |-> kind, of |-> of])
    IN
    \/ /\ turn[t].alive
       /\ feed' = [feed EXCEPT ![t].seq = n]
       /\ log' = [log EXCEPT ![t] = stored]
       /\ UNCHANGED faults
    \/ /\ feed' = [feed EXCEPT ![t].seq = n]
       /\ log' = log
       /\ IF turn[t].alive THEN Fault ELSE UNCHANGED faults

\* turn.event: numbered and stored under one mutex, and silent after the first
\* error.  Under a context that is over nothing is stored; under a live one an
\* error may be reported of an event that was.
Event(t, kind, of) ==
    LET n == feed[t].seq + 1
        stored == Append(log[t], [seq |-> n, kind |-> kind, of |-> of])
    IN
    \/ /\ feed[t].lost
       /\ UNCHANGED <<feed, log, faults>>
    \/ /\ ~feed[t].lost /\ turn[t].alive
       /\ feed' = [feed EXCEPT ![t].seq = n]
       /\ log' = [log EXCEPT ![t] = stored]
       /\ UNCHANGED faults
    \/ /\ ~feed[t].lost
       /\ feed' = [feed EXCEPT ![t] = [seq |-> n, lost |-> TRUE]]
       /\ IF turn[t].alive
          THEN Fault /\ \E row \in {log[t], stored} : log' = [log EXCEPT ![t] = row]
          ELSE UNCHANGED <<log, faults>>

\* Not written twice: a kind that a turn stores once.
Logged(t, kind, of) ==
    \E i \in 1..Len(log[t]) : log[t][i].kind = kind /\ log[t][i].of = of

\* No tool call is under way.
Waiting == {"called", "entered", "running"}
Quiet(t) == \A c \in Call : call[t][c] \notin Waiting

-----------------------------------------------------------------------------
(* Opening a turn.                                                          *)

Running(t) == turn[t].pc \in Active \union {"releasing"}

\* A mutant: the lease lasts one tick less.
BeginShort(t, h) ==
    /\ At(t, "unsent")
    /\ \A u \in Turn : ~(Running(u) /\ turn[u].host = h)
    /\ lease.left = 0
    /\ lease' = [owner |-> t, left |-> LeaseTTL - 1]
    /\ turn' = [turn EXCEPT ![t] = [@ EXCEPT !.pc = "leased", !.host = h,
                                    !.left = TurnTimeout, !.spare = Slack]]
    /\ UNCHANGED <<session, call, feed, log, faults>>

\* A mutant: only the slot is taken.
BeginUnleased(t, h) ==
    /\ At(t, "unsent")
    /\ \A u \in Turn : ~(Running(u) /\ turn[u].host = h)
    /\ turn' = [turn EXCEPT ![t] = [@ EXCEPT !.pc = "leased", !.host = h,
                                    !.left = TurnTimeout, !.spare = Slack]]
    /\ UNCHANGED <<session, lease, call, feed, log, faults>>

\* One slot per host, then one lease per session in the database.  A request
\* that finds either taken (host_busy, session_busy) changes nothing.
Begin(t, h) ==
    /\ At(t, "unsent")
    /\ \A u \in Turn : ~(Running(u) /\ turn[u].host = h)
    /\ lease.left = 0
    /\ lease' = [owner |-> t, left |-> LeaseTTL]
    /\ turn' = [turn EXCEPT ![t] = [@ EXCEPT !.pc = "leased", !.host = h,
                                    !.left = TurnTimeout, !.spare = Slack]]
    /\ UNCHANGED <<session, call, feed, log, faults>>

\* The lease was stored but the store reports an error: the turn is refused
\* and nothing gives the lease back before it expires.
LeaseFails(t, h) ==
    /\ At(t, "unsent")
    /\ \A u \in Turn : ~(Running(u) /\ turn[u].host = h)
    /\ lease.left = 0
    /\ Fault
    /\ lease' = [owner |-> t, left |-> LeaseTTL]
    /\ turn' = [turn EXCEPT ![t] = [Blank EXCEPT !.pc = "over", !.result = "error"]]
    /\ UNCHANGED <<session, call, feed, log>>

\* A mutant: an unsettled turn keeps the checkpoint.
KeepCheckpointUnsettled(b) == session.binding = b

\* SelectExecution and BindExecutionContract: the checkpoint survives when
\* nothing about its reader changed and the last turn completed.
KeepsCheckpoint(b) ==
    LET n == Len(session.messages) IN
    /\ session.binding = b
    /\ n > 0 => session.messages[n].status = "completed"

Load(t, b) ==
    /\ At(t, "leased")
    /\ turn' = [turn EXCEPT ![t] = [@ EXCEPT
          !.pc = "loaded", !.bind = b, !.prior = session.messages,
          !.checkpoint = IF KeepsCheckpoint(b) THEN session.checkpoint
                                               ELSE NoCheckpoint]]
    /\ UNCHANGED <<session, lease, call, feed, log, faults>>

\* What SaveSession writes.
Saved(t, status) ==
    [messages |-> Append(turn[t].prior, [turn |-> t, status |-> status]),
     checkpoint |-> turn[t].checkpoint, binding |-> turn[t].bind]

\* SaveSession, which may report an error of a row it wrote.
SaveSession(t, status) ==
    /\ turn[t].alive
    /\ session' = Saved(t, status)
    /\ UNCHANGED faults
SaveFails(t, status) ==
    IF turn[t].alive
    THEN Fault /\ session' \in {session, Saved(t, status)}
    ELSE UNCHANGED <<session, faults>>

OpenTurn(t) ==
    /\ At(t, "loaded")
    /\ \/ SaveSession(t, "running") /\ Goto(t, "opened")
       \/ SaveFails(t, "running") /\ Return(t, "error")
    /\ UNCHANGED <<lease, call, feed, log>>

Started(t) ==
    /\ At(t, "opened")
    /\ Event(t, "turn.started", None)
    /\ Goto(t, "grounding")
    /\ UNCHANGED <<session, lease, call>>

\* The account, the view or the session do not fit, or the memories or the
\* prompt fail after the message was recorded: it stays running.
Refuse(t) ==
    /\ \/ At(t, "leased")
       \/ At(t, "grounding") /\ Quiet(t)
    /\ Return(t, "error")
    /\ UNCHANGED <<session, lease, call, feed, log, faults>>

-----------------------------------------------------------------------------
(* Tool calls: turn.execute.  The Built-in runtime runs the calls of one    *)
(* response concurrently.                                                   *)

\* The host reads before the model runs; a runtime calls any tool.
CallTool(t, c) ==
    /\ \/ At(t, "grounding") /\ c \notin Mutation /\ Quiet(t)
       \/ At(t, "thinking")
    /\ call[t][c] = "idle"
    /\ call' = [call EXCEPT ![t][c] = "called"]
    /\ UNCHANGED <<session, lease, turn, feed, log, faults>>

\* A mutant: the early returns keep the mutex.
HoldingRefused(t) == {c \in Mutation : call[t][c] \in {"entered", "running", "refused"}}

\* Who holds mutationMu, taken before the checks and given back by a defer.
Holding(t) == {c \in Mutation : call[t][c] \in {"entered", "running"}}

EnterTool(t, c) ==
    /\ At(t, "grounding") \/ At(t, "thinking")
    /\ call[t][c] = "called"
    /\ c \in Mutation => Holding(t) = {}
    /\ call' = [call EXCEPT ![t][c] = IF turn[t].alive /\ ~feed[t].lost
                                      THEN "entered" ELSE "refused"]
    /\ UNCHANGED <<session, lease, turn, feed, log, faults>>

\* Another call's event may have failed since the check: the tool runs anyway.
StartTool(t, c) ==
    /\ At(t, "grounding") \/ At(t, "thinking")
    /\ call[t][c] = "entered"
    /\ Event(t, "tool.started", c)
    /\ call' = [call EXCEPT ![t][c] = "running"]
    /\ UNCHANGED <<session, lease, turn>>

FinishTool(t, c) ==
    /\ At(t, "grounding") \/ At(t, "thinking")
    /\ call[t][c] = "running"
    /\ Event(t, "tool.finished", c)
    /\ call' = [call EXCEPT ![t][c] = "done"]
    /\ UNCHANGED <<session, lease, turn>>

-----------------------------------------------------------------------------
(* The runtime and what becomes of its answer.                              *)

StartRuntime(t) ==
    /\ At(t, "grounding") /\ Quiet(t)
    /\ Goto(t, "thinking")
    /\ UNCHANGED <<session, lease, call, feed, log, faults>>

\* A change was asked for, and the first pass tried to stage none.
Owes(t) ==
    /\ t \in Asks /\ turn[t].pass = 1
    /\ \A c \in Staging : call[t][c] = "idle"

\* The runtime answered and owes a change: it runs again.
FollowThrough(t) ==
    /\ At(t, "thinking") /\ Quiet(t)
    /\ Owes(t)
    /\ turn' = [turn EXCEPT ![t].pass = 2]
    /\ UNCHANGED <<session, lease, call, feed, log, faults>>

\* What a runtime answers: an error, or a text that is complete or cut short.
Answers == {[broken |-> TRUE, stop |-> "stop"], [broken |-> FALSE, stop |-> "stop"],
            [broken |-> FALSE, stop |-> "budget"]}
LastAnswers(t) ==
    IF Owes(t) THEN {a \in Answers : a.broken \/ a.stop = "budget"} ELSE Answers

\* A mutant: lost events do not fail a turn.
VerdictUnrecorded(t, answer) ==
    IF answer.stop = "budget" THEN "budget_exhausted"
    ELSE IF ~turn[t].alive THEN "cancelled"
    ELSE IF answer.broken THEN "failed" ELSE "completed"

\* A mutant: the runtime's stop reason is the turn's status.
VerdictOfRuntime(t, answer) == IF answer.broken THEN "failed" ELSE answer.stop

\* Later tests override earlier ones, in the order of the code.
Verdict(t, answer) ==
    IF ~answer.broken /\ feed[t].lost THEN "failed"
    ELSE IF answer.stop = "budget" THEN "budget_exhausted"
    ELSE IF ~turn[t].alive THEN "cancelled"
    ELSE IF answer.broken THEN "failed" ELSE "completed"

\* What the native history of an answer holds: the turns of the checkpoint it
\* resumed, or else of conversation_history, and this turn.  That the latter is
\* cut to six turns and 24000 bytes, and says so, is left out.
Context(t) == IF turn[t].checkpoint = NoCheckpoint THEN TurnsOf(turn[t].prior)
              ELSE turn[t].checkpoint.turns

\* The extraction has a deadline of its own; its events have the turn's.
ToExtract(r) == [r EXCEPT !.pc = "extracting", !.left = MemoryTimeout]

\* The last save and event have a context of their own, which no client ends.
ToSave(r) == [r EXCEPT !.pc = "saving", !.alive = TRUE, !.left = SaveTimeout]

\* A checkpoint survives only a completed turn.  Memories are extracted when
\* the runtime answered and automatic capture is on.
Judge(t) ==
    /\ At(t, "thinking") /\ Quiet(t)
    /\ \E answer \in LastAnswers(t) :
          LET status == Verdict(t, answer)
              broken == answer.broken \/ feed[t].lost
              judged == [turn[t] EXCEPT
                  !.status = status, !.broken = broken,
                  !.checkpoint = IF status = "completed"
                                 THEN [by |-> turn[t].bind,
                                       turns |-> Append(Context(t), t)]
                                 ELSE NoCheckpoint]
          IN turn' = [turn EXCEPT ![t] =
                 IF Captures /\ ~broken THEN ToExtract(judged)
                                        ELSE ToSave(judged)]
    /\ UNCHANGED <<session, lease, call, feed, log, faults>>

\* extractMemory writes at most three facts; one stands for them.
Remember(t) ==
    /\ At(t, "extracting")
    /\ ~feed[t].lost /\ ~Logged(t, "memory.updated", None)
    /\ Event(t, "memory.updated", None)
    /\ UNCHANGED <<session, lease, turn, call>>

Extracted(t) ==
    /\ At(t, "extracting")
    /\ turn' = [turn EXCEPT ![t] = ToSave(@)]
    /\ UNCHANGED <<session, lease, call, feed, log, faults>>

\* A mutant: the result is announced although it could not be saved.
SettleAnyway(t) ==
    /\ At(t, "saving")
    /\ \/ SaveSession(t, turn[t].status)
       \/ SaveFails(t, turn[t].status)
    /\ Goto(t, "completing")
    /\ UNCHANGED <<lease, call, feed, log>>

Settle(t) ==
    /\ At(t, "saving")
    /\ \/ SaveSession(t, turn[t].status) /\ Goto(t, "completing")
       \/ SaveFails(t, turn[t].status) /\ Return(t, "error")
    /\ UNCHANGED <<lease, call, feed, log>>

\* A mutant: only the runtime's error is returned.
CompleteSilently(t) ==
    /\ At(t, "completing")
    /\ Event(t, "turn.completed", turn[t].status)
    /\ Return(t, IF turn[t].broken THEN "error" ELSE "ok")
    /\ UNCHANGED <<session, lease, call>>

Complete(t) ==
    /\ At(t, "completing")
    /\ Event(t, "turn.completed", turn[t].status)
    /\ Return(t, IF turn[t].broken \/ feed'[t].lost THEN "error" ELSE "ok")
    /\ UNCHANGED <<session, lease, call>>

\* The slot is given back, and the lease, unless the database fails or the
\* lease has passed to another turn.
Release(t) ==
    /\ At(t, "releasing")
    /\ \/ lease' = (IF lease.owner = t THEN Free ELSE lease) /\ UNCHANGED faults
       \/ UNCHANGED lease /\ Fault
    /\ Goto(t, "over")
    /\ UNCHANGED <<session, call, feed, log>>

-----------------------------------------------------------------------------
(* The environment.                                                         *)

\* The client leaves, or the deadline passes while memories are extracted.
Cancel(t) ==
    /\ turn[t].pc \in Asking \union {"extracting"} /\ turn[t].alive
    /\ turn' = [turn EXCEPT ![t].alive = FALSE]
    /\ UNCHANGED <<session, lease, call, feed, log, faults>>

\* A process dies with the turn it runs; its slot goes with it.
Crash(t) ==
    /\ Running(t)
    /\ Fault
    /\ turn' = [turn EXCEPT ![t] = [Blank EXCEPT !.pc = "dead"]]
    /\ UNCHANGED <<session, lease, call, feed, log>>

\* One tick of a turn: of its deadline, then of what it may overrun.
Elapse(r) ==
    IF r.left = 0 THEN [r EXCEPT !.spare = @ - 1]
    ELSE [r EXCEPT !.left = @ - 1,
                   !.alive = @ /\ (r.left > 1 \/ r.pc = "extracting")]

\* A lease nears its until_unix.
ElapseLease(l) == [l EXCEPT !.left = IF @ = 0 THEN 0 ELSE @ - 1]

\* A turn that is out of time goes on before time does.
Tick ==
    /\ \A t \in Turn : turn[t].pc \in Active => turn[t].left + turn[t].spare > 0
    /\ lease.left > 0 \/ \E t \in Turn : turn[t].pc \in Active
    /\ lease' = ElapseLease(lease)
    /\ turn' = [t \in Turn |-> IF turn[t].pc \in Active THEN Elapse(turn[t])
                                                        ELSE turn[t]]
    /\ UNCHANGED <<session, call, feed, log, faults>>

ToolStep(t, c) == EnterTool(t, c) \/ StartTool(t, c) \/ FinishTool(t, c)

\* What the host does by itself, once the runtime has answered.
HostStep(t) ==
    \/ \E b \in Binding : Load(t, b)
    \/ OpenTurn(t) \/ Started(t) \/ StartRuntime(t)
    \/ Extracted(t) \/ Settle(t) \/ Complete(t) \/ Release(t)

Next ==
    \/ \E t \in Turn :
          \/ \E h \in Host : Begin(t, h) \/ LeaseFails(t, h)
          \/ HostStep(t) \/ Refuse(t) \/ FollowThrough(t) \/ Judge(t)
          \/ Remember(t) \/ Cancel(t) \/ Crash(t)
          \/ \E c \in Call : CallTool(t, c) \/ ToolStep(t, c)
    \/ Tick

Spec == Init /\ [][Next]_vars

\* A host goes on by itself, and time passes; a runtime need not answer before
\* its deadline has passed.
Fairness ==
    /\ \A t \in Turn :
          /\ WF_vars(HostStep(t))
          /\ WF_vars(Judge(t) /\ ~turn[t].alive)
          /\ \A c \in Call : WF_vars(ToolStep(t, c))
    /\ WF_vars(Tick)

FairSpec == Spec /\ Fairness

-----------------------------------------------------------------------------
(* Properties.                                                              *)

Statuses == Final \union {"running"}
Message == [turn : Turn, status : Statuses]
Checkpoint == [by : Binding \union {None}, turns : Seq(Turn)]
Locals ==
    [pc : Points, host : Host \union {None}, bind : Binding \union {None},
     prior : Seq(Message), checkpoint : Checkpoint, alive : BOOLEAN, left : Nat,
     spare : Nat, pass : {1, 2}, broken : BOOLEAN, status : Statuses,
     result : {"none", "ok", "error"}]
Stages == {"idle", "called", "entered", "refused", "running", "done"}
EventKinds == {"turn.started", "tool.started", "tool.finished", "memory.updated",
               "turn.completed"}
Row == [seq : Nat, kind : EventKinds,
        of : Call \union Statuses \union {None}]

TypeOK ==
    /\ session \in [messages : Seq(Message), checkpoint : Checkpoint,
                    binding : Binding]
    /\ lease \in [owner : Turn \union {None}, left : Nat]
    /\ turn \in [Turn -> Locals]
    /\ call \in [Turn -> [Call -> Stages]]
    /\ feed \in [Turn -> [seq : Nat, lost : BOOLEAN]]
    /\ log \in [Turn -> Seq(Row)]
    /\ faults \in 0..MaxFaults

\* Two turns of a session are never under way together, whatever processes
\* they run in: the five minutes of lease cover the turn, the memories, the
\* save and what they overrun (host.go:215-224, 384-393).
OneTurnAtATime ==
    \A t, u \in Turn : turn[t].pc \in Protected /\ turn[u].pc \in Protected => t = u

\* A runtime never resumes a history that misses or invents a turn of the
\* conversation it answers, nor another binding's ("it never resumes a fork
\* missing intervening turns", docs/architecture.md:162), whichever turns
\* failed, died or were saved too late before it.
ResumesWhole ==
    \A t \in Turn : turn[t].pc \in {"grounding", "thinking"} =>
        /\ TurnsOf(session.messages) = Append(Context(t), t)
        /\ turn[t].checkpoint.by \in {turn[t].bind, None}

\* A turn saved as completed has the whole of its log: the start and the end
\* of every tool it ran (host.go:361, execute 500-515).
CompletedIsRecorded ==
    \A i \in 1..Len(session.messages) :
        session.messages[i].status = "completed" =>
            LET t == session.messages[i].turn IN
            \A c \in Call :
                /\ call[t][c] \notin Waiting
                /\ call[t][c] = "done" =>
                      Logged(t, "tool.started", c) /\ Logged(t, "tool.finished", c)

\* The events table never has a gap, not even where the store failed once and
\* recovered (event, host.go:165-185).
LogIsGapless ==
    \A t \in Turn : \A i \in 1..Len(log[t]) : log[t][i].seq = i

\* What turn.completed says of a turn is what the session says of it, and
\* stays so (host.go:393-396).
AnnouncedIsSaved ==
    \A t \in Turn : \A status \in Final : Logged(t, "turn.completed", status) =>
        \E i \in 1..Len(session.messages) :
            session.messages[i] = [turn |-> t, status |-> status]

\* A client that is not told of an error was sent turn.completed: the stream
\* of a turn never ends in silence (host.go:397-400, server.go:663).
SuccessIsAnnounced ==
    \A t \in Turn : turn[t].result = "ok" =>
        \E status \in Final : Logged(t, "turn.completed", status)

\* No turn of the session is lost, reordered or settled twice, by whatever
\* host: AgentTurn implements Conversation.
ImplementsConversation == Ledger!Spec

\* Every turn that begins comes to an end, whatever fails, and however many
\* tools wait for the one that mutates (host.go:489-493).
TurnsEnd ==
    \A t \in Turn : turn[t].pc # "unsent" ~> turn[t].pc \in {"over", "dead"}

\* A session is not blocked for ever by a turn whose process died, or whose
\* lease could not be given back (Store.Lease and Release, store.go:179-193).
LeaseIsFreed == \A t \in Turn :
    turn[t].pc \in {"over", "dead"} ~> lease.owner # t \/ lease.left = 0
=============================================================================
