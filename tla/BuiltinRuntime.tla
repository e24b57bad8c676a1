--------------------------- MODULE BuiltinRuntime ---------------------------
(***************************************************************************)
(* The built-in runtime (internal/runtime/builtin.go): a loop of model     *)
(* requests, each answered with tool calls or with the final text.  The    *)
(* calls of one response are executed at once (prefetch) before the loop   *)
(* asks for their results one by one (Call), which is where their ids are  *)
(* checked and counted.                                                    *)
(*                                                                         *)
(* The loop is a library (J-agent): it starts a round, asks the model,     *)
(* reports the completed message and then calls the tools of the message   *)
(* in order; a tool's error is an answer to the model like any other.      *)
(* A model that is offered no tools calls none, except that the code looks *)
(* for it when the rounds are used up.  Two runs make a turn when the host *)
(* follows through on a requested change (agenthost/host.go).              *)
(***************************************************************************)
EXTENDS Naturals, Sequences, FiniteSets

CONSTANTS
    Id,         \* ids of tool calls
    Limit,      \* calls a run may dispatch (64)
    MaxRounds,  \* rounds a run may take, 0 for no limit
    MaxBatch,   \* calls in one response (bounds the model)
    RoundBound, \* rounds of a run that the model explores
    Repeats,    \* whether responses may repeat the id of a call
    Follows,    \* whether the host follows through with a second run
    None

LimitAssumption == {Limit, MaxRounds, MaxBatch, RoundBound} \subseteq Nat
SwitchAssumption == {Repeats, Follows} \subseteq BOOLEAN
NoneAssumption == None \notin Id \union [round : Nat, at : Nat]

VARIABLES
    pc,         \* where the run is
    pass,       \* the turn's run: 1, or 2 when the host follows through
    round,      \* the model request of the run
    response,   \* the ids of the calls in the response
    next,       \* the call of the response that is dispatched next
    running,    \* calls of the response that prefetch is executing
    prepared,   \* per id, the execution whose result is kept, or None
    seen,       \* ids dispatched
    calls,      \* calls dispatched
    broken,     \* state.err is set
    closed,     \* a tool closed the tool surface
    executed,   \* history: the executions of the run, in order
    answered,   \* history: which execution answered which call
    before      \* history: how many calls earlier runs of the turn executed

vars == <<pc, pass, round, response, next, running, prepared, seen, calls, broken,
          closed, executed, answered, before>>

\* A call is named by its round and its place in the response.
Place(i) == [round |-> round, at |-> i]

\* A run starts with counters and results of its own.
Start ==
    /\ round' = 0 /\ response' = <<>> /\ next' = 1 /\ running' = {}
    /\ prepared' = [id \in Id |-> None] /\ seen' = {} /\ calls' = 0
    /\ broken' = FALSE /\ closed' = FALSE /\ executed' = <<>> /\ answered' = {}

Init ==
    /\ pc = "asking" /\ pass = 1 /\ before = 0
    /\ round = 0 /\ response = <<>> /\ next = 1 /\ running = {}
    /\ prepared = [id \in Id |-> None] /\ seen = {} /\ calls = 0
    /\ broken = FALSE /\ closed = FALSE /\ executed = <<>> /\ answered = {}

Over == {"done", "failed"}

-----------------------------------------------------------------------------
(* The model.                                                               *)

\* The request after the last round offers no tools.
Exhausted(r) == MaxRounds > 0 /\ r > MaxRounds
Offered(r) == ~Exhausted(r) /\ ~closed

\* Responses: without Repeats every id is new to the run.
Fresh(calls_) ==
    \/ Repeats
    \/ /\ \A i \in DOMAIN calls_ : calls_[i] \notin seen
       /\ \A i, j \in DOMAIN calls_ : calls_[i] = calls_[j] => i = j

Responses == UNION {[1..n -> Id] : n \in 1..MaxBatch}

\* A mutant: what is counted is not compared with the limit.
PrefetchesAll(batch) ==
    Len(batch) >= 2 /\ (MaxRounds = 0 \/ round' <= MaxRounds)

\* prefetch: two calls or more that fit what is left of the limits.
Prefetches(batch) ==
    /\ Len(batch) >= 2
    /\ MaxRounds = 0 \/ round' <= MaxRounds
    /\ calls + Len(batch) <= Limit

\* The response holds tool calls.
CallTools ==
    /\ pc = "asking" /\ round < RoundBound
    /\ Offered(round + 1)
    /\ round' = round + 1
    /\ \E batch \in Responses :
          /\ Fresh(batch)
          /\ response' = batch
          /\ running' = IF Prefetches(batch) THEN DOMAIN batch ELSE {}
    /\ next' = 1
    /\ pc' = "dispatching"
    /\ UNCHANGED <<pass, prepared, seen, calls, broken, closed, executed, answered, before>>

\* The response is the final text: the checkpoint is saved and the run ends,
\* with an error when one was set on the way.
Finish ==
    /\ pc = "asking"
    /\ round' = round + 1
    /\ pc' = IF broken THEN "failed" ELSE "done"
    /\ UNCHANGED <<pass, response, next, running, prepared, seen, calls, broken, closed,
                   executed, answered, before>>

\* The bridge or the request fails, the caller cancels, the response is not what
\* was asked for (tools after the last round, another model, too much text), the
\* checkpoint cannot be saved.
Abort ==
    /\ pc = "asking"
    /\ pc' = "failed"
    /\ UNCHANGED <<pass, round, response, next, running, prepared, seen, calls, broken,
                   closed, executed, answered, before>>

-----------------------------------------------------------------------------
(* The tools.                                                               *)

\* The host executes the call; a successful closing presentation ends the tools.
Run(i) ==
    /\ executed' = Append(executed, [id |-> response[i], place |-> Place(i)])
    /\ \E closes \in BOOLEAN : closed' = (closed \/ closes)

\* A goroutine of prefetch ends: its result is kept under the call's id.
Prefetch(i) ==
    /\ pc = "dispatching" /\ i \in running
    /\ Run(i)
    /\ running' = running \ {i}
    /\ prepared' = [prepared EXCEPT ![response[i]] = Place(i)]
    /\ UNCHANGED <<pc, pass, round, response, next, seen, calls, broken, answered, before>>

\* The loop goes on with the next call, or with the next request.
Advance ==
    IF next < Len(response)
    THEN next' = next + 1 /\ UNCHANGED <<pc, response>>
    ELSE next' = 1 /\ response' = <<>> /\ pc' = "asking"

\* Call has dispatched this id before.
Known(id) == id \in seen

\* Call: an id that came before, or one too many, breaks the run.
Refuse ==
    /\ pc = "dispatching" /\ running = {}
    /\ LET id == response[next] IN
       /\ \/ Known(id) /\ UNCHANGED <<seen, calls>>
          \/ /\ ~Known(id)
             /\ calls + 1 > Limit \/ Exhausted(round)
             /\ seen' = seen \union {id}
             /\ calls' = calls + 1
       /\ broken' = TRUE
       /\ Advance
    /\ UNCHANGED <<pass, round, running, prepared, closed, executed, answered, before>>

\* Call: the result that was prepared, or the call is executed now.
Answer ==
    /\ pc = "dispatching" /\ running = {}
    /\ LET id == response[next] IN
       /\ ~Known(id) /\ calls + 1 <= Limit /\ ~Exhausted(round)
       /\ seen' = seen \union {id}
       /\ calls' = calls + 1
       /\ IF prepared[id] # None
          THEN /\ answered' = answered \union {[call |-> Place(next), by |-> prepared[id]]}
               /\ prepared' = [prepared EXCEPT ![id] = None]
               /\ UNCHANGED <<executed, closed>>
          ELSE /\ Run(next)
               /\ answered' = answered \union {[call |-> Place(next), by |-> Place(next)]}
               /\ UNCHANGED prepared
       /\ Advance
    /\ UNCHANGED <<pass, round, running, broken, before>>

\* The host's second run: another Run with counters of its own.
FollowThrough ==
    /\ Follows /\ pc = "done" /\ pass = 1
    /\ pass' = 2
    /\ pc' = "asking"
    /\ before' = before + Len(executed)
    /\ Start

Next ==
    \/ CallTools \/ Finish \/ Abort
    \/ \E i \in running : Prefetch(i)
    \/ Refuse \/ Answer \/ FollowThrough

Spec == Init /\ [][Next]_vars

-----------------------------------------------------------------------------

\* The run's counter counts the ids it has dispatched, in each run of the turn.
TypeOK ==
    /\ pc \in {"asking", "dispatching"} \union Over
    /\ pass \in 1..2 /\ round \in 0..(RoundBound + 1)
    /\ response \in {<<>>} \union Responses
    /\ running \subseteq DOMAIN response
    /\ seen \subseteq Id /\ calls = Cardinality(seen)
    /\ {broken, closed} \subseteq BOOLEAN

\* A run that has not been found at fault has executed no more calls than the
\* limit, the ones it executed ahead of their counting included (builtin.go:257).
CallsWithinLimit == ~broken => Len(executed) <= Limit

\* The host enforces the limit for the operator's turn (docs/agent-harness.md:32).
TurnWithinLimit == ~broken => before + Len(executed) <= Limit

\* Results are kept by id and handed out later: a run that succeeds executed every
\* call once and answered each with its own result, although the calls of a
\* response run in any order and before their ids are looked at (builtin.go:261).
AnswersAreOwn ==
    pc = "done" =>
       /\ \A a \in answered : a.call = a.by
       /\ {a.call : a \in answered} = {executed[n].place : n \in DOMAIN executed}
       /\ \A m, n \in DOMAIN executed : executed[m].id = executed[n].id => m = n

\* No tool runs for a round beyond the allowance, and none for a response that was
\* asked for after a tool closed the surface (builtin.go:188).
ToolsEndStep ==
    /\ \A n \in DOMAIN executed' \ DOMAIN executed :
          MaxRounds > 0 => executed'[n].place.round <= MaxRounds
    /\ closed /\ round' > round => Len(response') = 0
ToolsEnd == [][ToolsEndStep]_vars

Loop == INSTANCE ToolLoop WITH
    ran <- {executed[n].id : n \in DOMAIN executed},
    state <- IF pc = "done" THEN "succeeded"
             ELSE IF pc = "failed" THEN "failed"
             ELSE IF broken THEN "broken" ELSE "running"

\* With ids of its own for every call a run keeps the adapters' promise.
KeepsPromise == Loop!Spec
=============================================================================
