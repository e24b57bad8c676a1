------------------------ MODULE AgentTurnInvariant ------------------------
(***************************************************************************)
(* What makes the properties of AgentTurn inductive: a turn's lease        *)
(* outlasts all that is left of it, and what it loaded is still stored.    *)
(***************************************************************************)
EXTENDS AgentTurn

\* 300 s of lease over 240 s, 45 s, 5 s and an overrun of less than 10 s.
ASSUME TimingAssumption ==
    TurnTimeout + MemoryTimeout + SaveTimeout + Slack < LeaseTTL

\* What comes after the present deadline and still needs the lease.
Remaining(t) ==
    IF turn[t].pc \in Asking THEN MemoryTimeout + SaveTimeout
    ELSE IF turn[t].pc = "extracting" THEN SaveTimeout ELSE 0

LeaseLasts(t) ==
    turn[t].pc \in Protected =>
        /\ lease.owner = t
        /\ turn[t].left + turn[t].spare + Remaining(t) < lease.left

\* A checkpoint that its reader may resume after these turns.
Fits(checkpoint, binding, turns) ==
    checkpoint # NoCheckpoint =>
        checkpoint.by = binding /\ checkpoint.turns = turns

\* The stored checkpoint can be read with the stored binding, and is up to
\* date unless the last turn was not settled.
SessionFits ==
    LET n == Len(session.messages) IN
    /\ session.checkpoint.by \in {session.binding, None}
    /\ (n > 0 => session.messages[n].status = "completed") =>
           Fits(session.checkpoint, session.binding, TurnsOf(session.messages))

\* A turn that has not been saved yet, and one that was saved as running.
Fresh == {"unsent", "leased", "loaded"}
Opened == {"opened", "grounding", "thinking"}
Judged == {"extracting", "saving"}

LocalFits(t) ==
    /\ turn[t].pc \in Fresh =>
          \A i \in 1..Len(session.messages) : session.messages[i].turn # t
    /\ turn[t].pc = "loaded" => session.messages = turn[t].prior
    /\ turn[t].pc \in Opened \union Judged =>
          session.messages = Append(turn[t].prior, [turn |-> t, status |-> "running"])
    /\ turn[t].pc \in Opened \union {"loaded"} =>
          Fits(turn[t].checkpoint, turn[t].bind, TurnsOf(turn[t].prior))
    /\ turn[t].pc \in Judged =>
          /\ turn[t].status \in Final
          /\ turn[t].status # "completed" => turn[t].checkpoint = NoCheckpoint
          /\ Fits(turn[t].checkpoint, turn[t].bind, Append(TurnsOf(turn[t].prior), t))
    /\ turn[t].pc \in Opened \union Judged \union {"loaded"} =>
          turn[t].bind \in Binding

IInv ==
    /\ TypeOK
    /\ SessionFits
    /\ \A t \in Turn : LeaseLasts(t) /\ LocalFits(t)

\* The numbers of a turn's events.
FeedFits(t) ==
    /\ \A i \in 1..Len(log[t]) : log[t][i].seq = i
    /\ ~feed[t].lost => feed[t].seq = Len(log[t])

\* Every tool that ran has its whole record: no call is under way, and each that is
\* done was announced and reported.
Recorded(t) ==
    \A c \in Call :
        /\ call[t][c] \notin Waiting
        /\ call[t][c] = "done" =>
              Logged(t, "tool.started", c) /\ Logged(t, "tool.finished", c)

\* Until an event is lost, a tool that has started or finished was recorded.
ToolsFit(t) ==
    ~feed[t].lost =>
        \A c \in Call :
            /\ call[t][c] \in {"running", "done"} => Logged(t, "tool.started", c)
            /\ call[t][c] = "done" => Logged(t, "tool.finished", c)

\* The session has turn t with this status.
Stored(t, status) ==
    \E i \in 1..Len(session.messages) : session.messages[i] = [turn |-> t, status |-> status]

\* What a verdict says holds from then on, although later events may be lost; what is
\* about to be announced is stored; a completed turn calls no more tools.
VerdictFits(t) ==
    turn[t].pc \in Judged /\ turn[t].status = "completed" => Recorded(t)
AnnouncingFits(t) ==
    turn[t].pc = "completing" => turn[t].status \in Final /\ Stored(t, turn[t].status)
ClosedFits(t) ==
    Stored(t, "completed") => turn[t].pc \notin Fresh \union Opened /\ Recorded(t)

Announced(t) == \A status \in Final : Logged(t, "turn.completed", status) => Stored(t, status)
Ended(t) == turn[t].result = "ok" => \E status \in Final : Logged(t, "turn.completed", status)

OutcomeFits(t) ==
    /\ ToolsFit(t) /\ VerdictFits(t) /\ AnnouncingFits(t) /\ ClosedFits(t)
    /\ Announced(t) /\ Ended(t)
=============================================================================
