----------------------------- MODULE TurnTools -----------------------------
(***************************************************************************)
(* The business tools of one turn (internal/agenthost/host.go, execute,    *)
(* dispatch and present).  A runtime runs the calls of one model response  *)
(* at the same time; they share the turn: what the session has read        *)
(* (Provenance), the reports of the turn, its cards, the session's changes.*)
(* stateMu guards each of these for a moment, mutationMu lets one mutating *)
(* tool run at a time.                                                     *)
(*                                                                         *)
(* A slot is a goroutine that runs calls one after the other.  Arguments   *)
(* are fixed when the model answers, so a call can only name a change the  *)
(* model had been told of when its round began.                            *)
(* Turns, events that cannot be stored and the lease are in AgentTurn; the *)
(* Change Service behind stage_* and discard_change is in ChangeService.   *)
(***************************************************************************)
EXTENDS Naturals, FiniteSets, SequencesExt

CONSTANTS
    Slot,        \* goroutines running tool calls
    Entity,      \* campaigns, ad groups and ads of the account
    Level,       \* of each entity: 1 campaign, 2 ad group, 3 ad
    Query,       \* report queries
    Change,      \* ids of changes
    Earlier,     \* changes staged in an earlier turn of the session
    Tool,        \* the tool families this instance calls
    None,
    MaxSeen,     \* entities the session remembers (200)
    MaxListed,   \* entities one list may return (50)
    MaxReports,  \* reports a turn may hold (8)
    MaxCards     \* cards a turn may show (16)

Reading == {"get", "list", "lookup"}
Presenting == {"present_entity", "present_report", "present_change"}
Mutating == {"stage", "discard"}

ToolAssumption ==
    Tool \subseteq Reading \union Presenting \union Mutating \union {"report"}
EntityAssumption ==
    /\ Level \in [Entity -> 1..3]
    /\ None \notin Entity \union Change \union Query \union Slot
ChangeAssumption == Earlier \subseteq Change
LimitAssumption == {MaxSeen, MaxListed, MaxReports, MaxCards} \subseteq Nat \ {0}

VARIABLES
    call,        \* each slot's call and how far it is
    provenance,  \* the entities remembered
    reports,     \* the queries of the reports the turn holds; the place is the id
    inFlight,    \* reportsInFlight
    cards,       \* the turn's cards
    change,      \* the state of each change of the session
    mutationMu,  \* the slot that holds it, or None
    known,       \* changes the model could name when the round began
    reads,       \* every entity that was remembered, by its last reading (Seen.At)
    taken,       \* history: what the Change Service did for this turn
    told         \* history: the change.updated events of this turn

vars == <<call, provenance, reports, inFlight, cards, change, mutationMu,
          known, reads, taken, told>>

Idle == [tool |-> "none", of |-> None, at |-> "idle", found |-> {}]

Init ==
    /\ call = [s \in Slot |-> Idle]
    /\ provenance = {}
    /\ reports = <<>>
    /\ inFlight = 0
    /\ cards = <<>>
    /\ change = [c \in Change |-> IF c \in Earlier THEN "staged" ELSE "absent"]
    /\ mutationMu = None
    /\ known = Earlier
    /\ reads = <<>>
    /\ taken = <<>>
    /\ told = <<>>

At(s, tool, point) == call[s].tool = tool /\ call[s].at = point
Goto(s, point) == call' = [call EXCEPT ![s].at = point]
Answer(s) == call' = [call EXCEPT ![s] = Idle]

\* What a tool may be asked about.
Argument(tool) ==
    CASE tool \in {"get", "present_entity"} -> Entity
      [] tool \in {"list", "stage"} -> Entity \union {None}
      [] tool \in {"report", "present_report"} -> Query
      [] tool \in {"discard", "present_change"} -> known
      [] OTHER -> {None}

\* The runtime hands a call to execute.
Begin(s) ==
    /\ call[s].at = "idle"
    /\ \E tool \in Tool : \E x \in Argument(tool) :
          call' = [call EXCEPT ![s] = [tool |-> tool, of |-> x, at |-> "asked", found |-> {}]]
    /\ UNCHANGED <<provenance, reports, inFlight, cards, change, mutationMu, known,
                   reads, taken, told>>

\* Cancelled, events can no longer be stored, or arguments the schema refuses; a
\* mutating tool finds out with the mutex in hand (Fail).
Reject(s) ==
    /\ call[s].at = "asked" /\ call[s].tool \notin Mutating
    /\ Answer(s)
    /\ UNCHANGED <<provenance, reports, inFlight, cards, change, mutationMu, known,
                   reads, taken, told>>

\* The answers of the round are back with the model.
NextRound ==
    /\ \A s \in Slot : call[s].at = "idle"
    /\ known # {c \in Change : change[c] # "absent"}
    /\ known' = {c \in Change : change[c] # "absent"}
    /\ UNCHANGED <<call, provenance, reports, inFlight, cards, change, mutationMu,
                   reads, taken, told>>

-----------------------------------------------------------------------------
(* Reading the account.                                                     *)

\* The entry that was read longest ago.
Oldest == reads[Min({i \in DOMAIN reads : reads[i] \in provenance})]

\* At the limit it goes, also when the entity that is to be remembered has an entry of
\* its own.
Kept == IF Cardinality(provenance) >= MaxSeen THEN provenance \ {Oldest} ELSE provenance

Remember(e) ==
    /\ provenance' = Kept \union {e}
    /\ reads' = Append(RemoveFirst(reads, e), e)

\* Tools that change nothing of the turn: account, resources, pending changes,
\* memories, skills, earlier conversation.
Lookup(s) ==
    /\ At(s, "lookup", "asked")
    /\ Answer(s)
    /\ UNCHANGED <<provenance, reports, inFlight, cards, change, mutationMu, known,
                   reads, taken, told>>

\* get_entity: the backend knows the entity, or the call fails.
Get(s) ==
    /\ At(s, "get", "asked")
    /\ Answer(s)
    /\ \/ Remember(call[s].of)
       \/ UNCHANGED <<provenance, reads>>
    /\ UNCHANGED <<reports, inFlight, cards, change, mutationMu, known, taken, told>>

\* The entities a list may return: those of one level, or those right below the
\* parent; an ad has none below it.
Listable(parent) ==
    IF parent = None THEN {{e \in Entity : Level[e] = l} : l \in 1..3}
    ELSE {{e \in Entity : Level[e] = Level[parent] + 1}}

\* list_*: the parent must have been read; more than the limit is refused
\* before any entity is remembered.
List(s) ==
    /\ At(s, "list", "asked")
    /\ \/ Answer(s)
       \/ /\ call[s].of = None \/ call[s].of \in provenance
          /\ \E found \in UNION {SUBSET all : all \in Listable(call[s].of)} :
                /\ found # {}
                /\ Cardinality(found) <= MaxListed
                /\ call' = [call EXCEPT ![s].at = "remembering", ![s].found = found]
    /\ UNCHANGED <<provenance, reports, inFlight, cards, change, mutationMu, known,
                   reads, taken, told>>

\* The entities of a list are remembered one by one.
RememberNext(s) ==
    /\ At(s, "list", "remembering")
    /\ \E e \in call[s].found :
          /\ Remember(e)
          /\ IF call[s].found = {e} THEN Answer(s)
             ELSE call' = [call EXCEPT ![s].found = @ \ {e}]
    /\ UNCHANGED <<reports, inFlight, cards, change, mutationMu, known, taken, told>>

-----------------------------------------------------------------------------
(* Reports.                                                                 *)

Held == Len(reports)

\* A mutant: only reports that have arrived count.
FullOfHeld == Held >= MaxReports

\* Reads that are under way have their place already.
Full == Held + inFlight >= MaxReports

\* An equal report of this turn is reused; otherwise a place is reserved.
ReserveReport(s) ==
    /\ At(s, "report", "asked")
    /\ \/ /\ call[s].of \in ToSet(reports)
          /\ Answer(s)
          /\ UNCHANGED inFlight
       \/ /\ call[s].of \notin ToSet(reports)
          /\ Full
          /\ Goto(s, "refused")
          /\ UNCHANGED inFlight
       \/ /\ call[s].of \notin ToSet(reports)
          /\ ~Full
          /\ inFlight' = inFlight + 1
          /\ Goto(s, "fetching")
    /\ UNCHANGED <<provenance, reports, cards, change, mutationMu, known, reads, taken, told>>

\* report_budget_exceeded.
RefuseReport(s) ==
    /\ At(s, "report", "refused")
    /\ Answer(s)
    /\ UNCHANGED <<provenance, reports, inFlight, cards, change, mutationMu, known,
                   reads, taken, told>>

\* The backend answered: the report is kept under an id of its own, or the read
\* failed (an error, another source, too many rows).
FetchReport(s) ==
    /\ At(s, "report", "fetching")
    /\ \/ reports' = Append(reports, call[s].of)
       \/ UNCHANGED reports
    /\ Goto(s, "fetched")
    /\ UNCHANGED <<provenance, inFlight, cards, change, mutationMu, known, reads, taken, told>>

\* The deferred release of the place.
ReleaseReport(s) ==
    /\ At(s, "report", "fetched")
    /\ inFlight' = inFlight - 1
    /\ Answer(s)
    /\ UNCHANGED <<provenance, reports, cards, change, mutationMu, known, reads, taken, told>>

-----------------------------------------------------------------------------
(* Changes.                                                                 *)

Lock(s) ==
    /\ call[s].tool \in Mutating /\ call[s].at = "asked"
    /\ mutationMu = None
    /\ mutationMu' = s
    /\ Goto(s, "locked")
    /\ UNCHANGED <<provenance, reports, inFlight, cards, change, known, reads, taken, told>>

\* A mutant: a mutating tool that fails keeps the mutex.
FailHolding(s) ==
    /\ Answer(s)
    /\ UNCHANGED mutationMu
    /\ UNCHANGED <<provenance, reports, inFlight, cards, change, known, reads, taken, told>>

\* The tool failed: the deferred unlock.
Fail(s) ==
    /\ Answer(s)
    /\ mutationMu' = None
    /\ UNCHANGED <<provenance, reports, inFlight, cards, change, known, reads, taken, told>>

\* The stage_* tools: a target or parent must have been read (a copy of Provenance goes
\* to the service), a new campaign has none; the Change Service saves a draft or refuses.
Stage(s) ==
    /\ At(s, "stage", "locked")
    /\ \/ Fail(s)
       \/ /\ call[s].of = None \/ call[s].of \in provenance
          /\ \E c \in Change :
                /\ change[c] = "absent"
                /\ change' = [change EXCEPT ![c] = "staged"]
                /\ taken' = Append(taken, [did |-> "staged", to |-> c])
                /\ call' = [call EXCEPT ![s].at = "telling", ![s].of = c]
          /\ UNCHANGED <<provenance, reports, inFlight, cards, mutationMu, known, reads, told>>

\* discard_change.
Discard(s) ==
    /\ At(s, "discard", "locked")
    /\ \/ Fail(s)
       \/ LET c == call[s].of IN
          /\ change[c] = "staged"
          /\ change' = [change EXCEPT ![c] = "discarded"]
          /\ taken' = Append(taken, [did |-> "discarded", to |-> c])
          /\ Goto(s, "telling")
          /\ UNCHANGED <<provenance, reports, inFlight, cards, mutationMu, known, reads, told>>

\* change.updated; staging then shows its preview.
Tell(s) ==
    /\ call[s].tool \in Mutating /\ call[s].at = "telling"
    /\ told' = Append(told, [did |-> IF call[s].tool = "stage" THEN "staged" ELSE "discarded",
                             to |-> call[s].of])
    /\ IF call[s].tool = "stage"
       THEN Goto(s, "showing") /\ UNCHANGED mutationMu
       ELSE Answer(s) /\ mutationMu' = None
    /\ UNCHANGED <<provenance, reports, inFlight, cards, change, known, reads, taken>>

CardOf(kind, x) == [kind |-> kind, of |-> x]
Room == Len(cards) < MaxCards

\* showChangePreview: silent when the turn has all its cards.
Show(s) ==
    /\ At(s, "stage", "showing")
    /\ IF Room THEN cards' = Append(cards, CardOf("change", call[s].of))
       ELSE UNCHANGED cards
    /\ Answer(s)
    /\ mutationMu' = None
    /\ UNCHANGED <<provenance, reports, inFlight, change, known, reads, taken, told>>

-----------------------------------------------------------------------------
(* Presentations: one critical section of stateMu each.                     *)

Shown(c) == CardOf("change", c) \in ToSet(cards)

\* What a card may show: records the host holds, never the model's.
Grounded(kind, x) ==
    CASE kind = "entity" -> x \in provenance
      [] kind = "report" -> x \in ToSet(reports)
      [] kind = "change" -> change[x] # "absent"

KindOf(tool) ==
    CASE tool = "present_entity" -> "entity"
      [] tool = "present_report" -> "report"
      [] tool = "present_change" -> "change"

\* A mutant: a preview that is shown already is shown again.
PresentAgain(s) ==
    LET kind == KindOf(call[s].tool)
        x == call[s].of
    IN
    /\ call[s].tool \in Presenting /\ call[s].at = "asked"
    /\ IF Room /\ Grounded(kind, x)
       THEN cards' = Append(cards, CardOf(kind, x))
       ELSE UNCHANGED cards
    /\ Answer(s)
    /\ UNCHANGED <<provenance, reports, inFlight, change, mutationMu, known, reads, taken, told>>

Present(s) ==
    LET kind == KindOf(call[s].tool)
        x == call[s].of
        again == kind = "change" /\ Shown(x)
    IN
    /\ call[s].tool \in Presenting /\ call[s].at = "asked"
    /\ IF ~again /\ Room /\ Grounded(kind, x)
       THEN cards' = Append(cards, CardOf(kind, x))
       ELSE UNCHANGED cards
    /\ Answer(s)
    /\ UNCHANGED <<provenance, reports, inFlight, change, mutationMu, known, reads, taken, told>>

Next ==
    \/ NextRound
    \/ \E s \in Slot :
          \/ Begin(s) \/ Reject(s) \/ Lookup(s) \/ Get(s) \/ List(s) \/ RememberNext(s)
          \/ ReserveReport(s) \/ RefuseReport(s) \/ FetchReport(s) \/ ReleaseReport(s)
          \/ Lock(s) \/ Stage(s) \/ Discard(s) \/ Tell(s) \/ Show(s)
          \/ Present(s)

\* What a running goroutine does by itself, once its call has begun.
Run(s) ==
    \/ Lookup(s) \/ Get(s) \/ List(s) \/ RememberNext(s) \/ ReserveReport(s)
    \/ RefuseReport(s) \/ FetchReport(s) \/ ReleaseReport(s) \/ Stage(s)
    \/ Discard(s) \/ Tell(s) \/ Show(s) \/ Present(s)

\* A mutex of Go is not held back for ever from one that waits for it.
Fairness == \A s \in Slot : WF_vars(Run(s)) /\ SF_vars(Lock(s))

Spec == Init /\ [][Next]_vars /\ Fairness

-----------------------------------------------------------------------------

Pending == {s \in Slot : At(s, "report", "fetching")}
Reserved == {s \in Slot : call[s].tool = "report" /\ call[s].at \in {"fetching", "fetched"}}

\* The state of the turn has the shape the code gives it: at most MaxSeen
\* entities are remembered, each with its last reading, and the mutex is held by a slot that
\* runs a mutating tool.
TypeOK ==
    /\ call \in [Slot -> [tool : Tool \union {"none"},
                          of : Entity \union Query \union Change \union {None},
                          at : {"idle", "asked", "remembering", "fetching", "fetched",
                                "refused", "locked", "telling", "showing"},
                          found : SUBSET Entity]]
    /\ provenance \subseteq ToSet(reads) /\ Cardinality(provenance) <= MaxSeen
    /\ IsInjective(reads) /\ ToSet(reads) \subseteq Entity
    /\ ToSet(reports) \subseteq Query
    /\ inFlight \in Nat
    /\ change \in [Change -> {"absent", "staged", "discarded"}]
    /\ known \subseteq Change
    /\ mutationMu # None => call[mutationMu].tool \in Mutating

\* Reserving before the backend is asked bounds what is held and asked for
\* together, whatever the calls interleave with (host.go:789); every place that
\* is counted belongs to a call that is still running, so none is lost when a
\* read fails.
ReportsWithinBudget ==
    /\ Held + Cardinality(Pending) <= MaxReports
    /\ inFlight = Cardinality(Reserved)

\* A report is refused only when the turn holds or awaits as many as it may: the
\* test of the limit counts on all eight (report_capacity_test.go).
RefusedOnlyWhenFull ==
    [][\A s \in Slot : call[s].at # "refused" /\ call'[s].at = "refused"
          => Held + Cardinality(Pending) >= MaxReports]_vars

\* Forgetting the oldest entry never costs one of the latest readings: the last
\* MaxSeen - 1 entities that were read can be staged and shown (host.go:435).
RecentReadsKept ==
    \A i \in DOMAIN reads : i > Len(reads) - (MaxSeen - 1) => reads[i] \in provenance

\* The client hears of changes in the order the Change Service made them, and
\* of none it did not make, although calls of a round run at once (host.go:494).
EventsFollowStore == IsPrefix(told, taken)

\* Every card shows a record of the host: an entity that was read, a report of
\* this turn, a change of this session (host.go:1141).
CardsAreGrounded ==
    \A i \in DOMAIN cards :
       CASE cards[i].kind = "entity" -> cards[i].of \in ToSet(reads)
         [] cards[i].kind = "report" -> cards[i].of \in ToSet(reports)
         [] cards[i].kind = "change" -> change[cards[i].of] # "absent"

\* The cards stay within their limit and show a change once, staged or presented,
\* in whatever order its tools run (host.go:1144, 1260).
OneCardPerChange ==
    /\ Len(cards) <= MaxCards
    /\ \A i, j \in DOMAIN cards :
          cards[i].kind = "change" /\ cards[i] = cards[j] => i = j

Told(c) == [did |-> "staged", to |-> c] \in ToSet(told)
Showing(c) == \E s \in Slot : At(s, "stage", "showing") /\ call[s].of = c

\* A change staged in this turn has its card unless there was no place left.
StagedIsShownOrFull ==
    \A c \in Change : Told(c) /\ ~Showing(c) => Shown(c) \/ ~Room

\* Staging shows the exact preview (docs/agent-harness.md:17): every change
\* staged in this turn has its card once its call is over.
StagedIsShown ==
    \A c \in Change : Told(c) /\ ~Showing(c) => Shown(c)

\* Every call is answered: none waits for ever for the mutex or for a place.
Answered == \A s \in Slot : call[s].at # "idle" ~> call[s].at = "idle"
=============================================================================
