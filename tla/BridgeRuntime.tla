--------------------------- MODULE BridgeRuntime ---------------------------
(***************************************************************************)
(* The runtimes behind an SDK process: Pi and Codex (internal/runtime/     *)
(* pi.go, codex.go) and Claude (claude.go).  The process owns the model    *)
(* loop and writes frames; the adapter reads one frame after the other,    *)
(* executes the call a frame carries and replies before it reads the next. *)
(* The process is external: it may send any frame at any time and exit.    *)
(***************************************************************************)
EXTENDS Naturals, Sequences, FiniteSets

CONSTANTS
    Id,             \* ids of tool calls
    Round,          \* rounds a frame may name
    Limit,          \* calls a run may execute (64)
    MaxRounds,      \* rounds a run may take, 0 for no limit
    MaxText,        \* pieces of text a run may stream (64 KiB)
    NeedsCheckpoint \* whether a run must end with a checkpoint (Claude)

ASSUME RoundAssumption == Round \subseteq Nat
ASSUME LimitAssumption == {Limit, MaxRounds, MaxText} \subseteq Nat
ASSUME CheckpointAssumption == NeedsCheckpoint \in BOOLEAN

VARIABLES
    pc,         \* "reading", "replying", "done" or "failed"
    seen,       \* ids of the calls received
    count,      \* calls received
    lastRound,  \* the round of the last call
    text,       \* text streamed
    executed    \* history: the calls executed, in order

vars == <<pc, seen, count, lastRound, text, executed>>

Init ==
    /\ pc = "reading" /\ seen = {} /\ count = 0 /\ lastRound = 0 /\ text = 0
    /\ executed = <<>>

End(how) ==
    /\ pc' = how
    /\ UNCHANGED <<seen, count, lastRound, text, executed>>

\* text_delta.
Text ==
    /\ pc = "reading"
    /\ \/ text < MaxText /\ text' = text + 1 /\ UNCHANGED pc
       \/ text = MaxText /\ pc' = "failed" /\ UNCHANGED text
    /\ UNCHANGED <<seen, count, lastRound, executed>>

\* A mutant: a call may come again in a later round.
CorrelatedByRound(id, round) == round >= lastRound /\ round >= 1

\* A frame's call is new and its round does not go back.
Correlated(id, round) == id \notin seen /\ round >= lastRound /\ round >= 1

Allowed(round) == MaxRounds = 0 \/ round <= MaxRounds

\* A mutant: the call after the last one is still executed.
WithinLate == count <= Limit
Within == count + 1 <= Limit

\* tool_call: it is counted, and executed unless its round is beyond the
\* allowance, which the reply says.
ToolCall(id, round) ==
    /\ pc = "reading"
    /\ Correlated(id, round) /\ Within
    /\ seen' = seen \union {id}
    /\ count' = count + 1
    /\ lastRound' = round
    /\ executed' = IF Allowed(round) THEN Append(executed, [id |-> id, round |-> round])
                   ELSE executed
    /\ pc' = "replying"
    /\ UNCHANGED text

\* tool_call: a call that does not correlate, or one too many, ends the run.
Reject(id, round) ==
    /\ pc = "reading"
    /\ ~Correlated(id, round) \/ ~Within
    /\ End("failed")

\* The reply goes to the process, which may be gone.
Reply == pc = "replying" /\ (End("reading") \/ End("failed"))

\* done: the run ends with what the process says, if it stopped as it should and
\* its checkpoint is where it must be.
Done ==
    /\ pc = "reading"
    /\ \E stopped, checkpoint \in BOOLEAN :
          End(IF stopped /\ (checkpoint \/ ~NeedsCheckpoint) THEN "done" ELSE "failed")

\* An error frame, a frame that cannot be read, an exit, or the caller's context
\* is over when a frame arrives.
Abort == pc = "reading" /\ End("failed")

Next ==
    \/ Text \/ Reply \/ Done \/ Abort
    \/ \E id \in Id, round \in Round : ToolCall(id, round) \/ Reject(id, round)

Spec == Init /\ [][Next]_vars

-----------------------------------------------------------------------------

TypeOK ==
    /\ pc \in {"reading", "replying", "done", "failed"}
    /\ seen \subseteq Id /\ count = Cardinality(seen)
    /\ lastRound \in Nat /\ text \in 0..MaxText
    /\ Len(executed) <= count

\* Whatever the process sends, the host executes calls in the order of their
\* rounds and none beyond the allowance (pi.go:121).
RoundsAscend ==
    \A n \in DOMAIN executed :
       /\ MaxRounds > 0 => executed[n].round <= MaxRounds
       /\ n > 1 => executed[n - 1].round <= executed[n].round

Loop == INSTANCE ToolLoop WITH
    ran <- {executed[n].id : n \in DOMAIN executed},
    state <- IF pc = "done" THEN "succeeded"
             ELSE IF pc = "failed" THEN "failed" ELSE "running"

\* Whatever the process sends, the run keeps the adapters' promise: each call
\* executed once and at most Limit of them.
KeepsPromise == Loop!Spec
=============================================================================
