# A formal model of Ad Agent

Ad Agent is a local-first assistant for one advertiser's operator: a conversation with a
model that reads accounts and *stages* changes, and a **Change Service** that applies a
staged change once, after the operator's approval. This directory holds TLA+ modules that
model it, TLC configurations that check them on small instances, and proofs checked by
TLAPS. Source paths below are relative to the repository.

## 1. The system

| Part | Source | State it keeps | Operations |
| --- | --- | --- | --- |
| Change Service | `internal/agenthost/changes.go`, `policy_settings.go`, `operation_policy.go` | rows of `changes`, the account lease | Stage, StageCreate, StageOperation, Apply, Discard, Reconcile |
| Change lifecycle, budget policy | `internal/ads/changes.go` | the seven states of a change; limits in force | CanTransition, Policy.Validate |
| Store | `internal/store` | SQLite: sessions, events, leases, changes, policies, settings, memories, OAuth states, Sandbox tables | compare-and-swap transitions, leases, transactions |
| Sandbox | `internal/app/app.go`, `internal/sandbox` | entities, clock, hourly facts, rules, balance, learning | Write, Create, ApplyOperation, Advance, Report |
| TikTok backend | `internal/tiktokmapi` | tokens in a file vault; everything else is remote | ApplyOperation (a bundle is several requests), paged reads, read-back |
| Agent host | `internal/agenthost/host.go`, `analysis.go`, `memory.go` | one turn's reports, cards, provenance, events; the session | a turn: lease, prompt, runtime, tools, delegates, save, facts |
| Manager host | `internal/manager` | one session over several accounts | a turn, drafts routed to their account |
| Runtimes | `internal/runtime` | rounds, budgets, call ids, child processes | Run |
| HTTP server | `internal/httpapi` | the operator key, the configuration gate, current services | turns, approvals, settings, streams |
| OAuth | `internal/oauthcallback`, `internal/store/oauth.go`, `internal/tiktokmapi/{authorization,oauth,vault}.go` | single-use states, credential files | begin, callback, exchange |
| Command line | `cmd/ad-agent` | none: a second process on the same database | the same services |
| Web client | `web/src` | a reducer over events | sending, loading, reloading |

**How they interact.** The host gives the model read tools and staging tools only. A staged
change is a row of `changes`. Approval, discard and reconciliation come from an
authenticated HTTP route or a CLI command; several may run at once, in several processes,
over one SQLite database. An approval, a settings save and a Sandbox clock advance all take
the same row of `leases`. Requests of the server run under a read lock on its services,
which a settings save replaces. A runtime calls back into the turn for every tool; the page
receives the turn's events as a stream and replays them from the store later.

**What is hard.** Approvals of one draft that race; an attempt whose answer is lost or late;
a reconciliation that finds an attempt still alive; a lease that must outlast work of
unknown length; a clock advance that writes back a snapshot of everything. Turns that are
cancelled or die with their checkpoint; the tools of one model response, which run at once;
settings replaced under running requests; single-use states; several files written one
after the other; pages of a listing that changes; loads of a page that the operator has
left. `PROJECT.json` lists each hazard at its line.

**What makes the parts correct.**

- Change Service: at most one request for a change; what is reported never contradicts what
  the platform did; a claimed change is settled in the end.
- Account lease: its three users exclude each other from taking it to the last use of what
  they read under it; what is sent satisfies the policy saved at that time.
- Sandbox: every commit is one step on the whole environment; no hour is lost or simulated
  twice, no rule skipped; no budget or balance overspent; a complete report is final.
- Turn: one at a time per session, and none lost; events without a gap; a runtime resumes the
  whole conversation or none of it; what is announced is saved; every turn ends.
- Tools, delegates, runtimes: limits hold however calls overlap; cards and findings rest on
  records the host holds; each call is executed and answered once.
- OAuth, settings, key: a state is used once and no credential lost; a request keeps one
  configuration; a key goes to what it was given for.
- TikTok: no write is sent twice; an outcome tells what may have happened; a list is whole.
- Page: it shows what arrived, of its own session, and everything after a load.

## 2. Modules

| Module | What it is |
| --- | --- |
| `BudgetPolicy` | the policy as predicates: limits, delta, configured or not, accepted guardrails |
| `PlatformAnswers` | the answers to a write on TikTok, each with what may come of it |
| `ChangeLifecycle` | abstract: state and effect of each change, no processes, leases or time |
| `ChangeService` | every handler step, the lease, timers, crashes, late answers |
| `ChangeServiceInvariant`, `ChangeServiceTimely` | the inductive invariants `IInv`, which needs no assumption about time, and `TInv`, which does |
| `ChangeServiceProofs` | proofs, the refinement of `ChangeLifecycle` among them |
| `Conversation` | abstract: a session's turns open one behind the other and settle once |
| `AgentTurn` | a turn: slot, lease, checkpoint, events, tool calls, verdict, save |
| `AgentTurnInvariant`, `AgentTurnProofs` | its invariant; proofs: exclusion, continuity, event log, outcome, refinement of `Conversation` |
| `ToolLoop` | abstract: a run executes each call once, at most so many, and ends |
| `BuiltinRuntime` | the built-in loop: responses, calls executed ahead, rounds, second pass |
| `BridgeRuntime` | the adapters of SDK processes |
| `TurnTools` | the tools of one turn, running at once: provenance, reports, cards, changes |
| `AnalysisDelegate` | child runs: limits, submission, evidence |
| `ManagerTurn` | a turn over several accounts |
| `TurnPartsProofs` | proofs about the five before, the refinement of `ToolLoop` among them |
| `MemoryStore` | facts of an account, over several processes |
| `ConversationPage` | `read_conversation`: pages, cursors, sizes |
| `SandboxRules` | one virtual hour with its rules and books, as functions of an environment |
| `SandboxHistory` | abstract: the environment as one value that its users change in turn |
| `SandboxStore` | loads of five statements, the lease, commits; implements `SandboxHistory` |
| `SandboxAllocation`, `SandboxDelivery` | largest remainders; an hour of auctions, budgets, balance, learning |
| `ReportEvidence` | reports, coverage, late conversions, comparison |
| `LocalDataProofs` | proofs about these, from `MemoryStore` on, the refinement of `SandboxHistory` among them |
| `PlatformWrite` | abstract: an approved write is answered once, of `PlatformAnswers` |
| `PlatformOperation` | one approved operation on TikTok, its requests and read-back; implements `PlatformWrite` |
| `PagedRead` | reads of several pages |
| `PlatformOperationProofs` | proofs about both, the refinement of `PlatformWrite` among them |
| `OAuthConnection` | states, callbacks, credential files |
| `SettingsGate` | the configuration lock, saves, keys, OpenRouter authorizations, restart |
| `OperatorKey` | starts of a server on one state directory |
| `WebClient` | sending, the stream, the reducer, loading, new sessions |
| `ServerPartsProofs` | proofs about the three |
| `MCChangeService`, `MCTimely`, `MCAgentTurn` | values for TLC |
| `MCTurnParts`, `MCServer`, `MCLocalData`, `MCLiveness` | suites of instances, checked side by side (section 3) |
| `MCServerProofs` | proofs about `OAuthConnection`, and that every part of the server's suite has the properties its run checks |
| `MCLocalDataProofs` | that every part of the suite of local data has the properties its run checks |

The modules are coupled where the code is: a *stage* call of `AgentTurn` and `TurnTools` is
a `Stage` of `ChangeService`; an attempt of `ChangeService` on TikTok gets an answer of
`PlatformAnswers`, and `PlatformOperation` is shown to end with no other; `SandboxStore` writes under the lease of `ChangeService`;
the settings form of `ChangeService` is the save of `SettingsGate` under that lease;
`BuiltinRuntime` and `BridgeRuntime` are what a turn's *thinking* stands for.

### ChangeService and the code

| Variable | In the code |
| --- | --- |
| `row` | table `changes`: state, Before (or Parent), After (or the request), the time left to `ExpiresAt`, or while applying to `ApprovedAt` plus one minute, and what is recorded of the outcome |
| `policy` | table `budget_policies` |
| `lease` | the account's row of `leases`; `left = 0` is an expired or missing row |
| `target` | content of the one entity all changes concern; a version is a hash of it |
| `effect`, `sends` | what the platform did for each change; a count of requests (ghosts) |
| `exec` | each handler's point of control and locals: its change, what it read, the time to its deadline, the verdict it will save |
| `faults` | crashes and failed final saves so far (bounds the model) |

A handler moves between points of control. Each point stands between two calls that read or
write something shared:

```
Stage      idle -StagePolicy-> drafting -StageRead-> drafted -StageInsert-> idle
Apply      idle -ApplyRead-> approving -ApplyLease-> leased -RefreshPolicy-> refreshed
           -Claim-> claimed -Revalidate-> validated -Send-> acked -ReadBack-> settling
           -Settle-> releasing -Release-> idle
Reconcile  idle -ReconcileRead-> reconciling -ReconcileInterrupted-> observing
           -ReconcileObserve-> confirming -ReconcileConfirm-> idle
Settings   idle -SettingsLease-> configuring -SettingsSave-> releasing
Advance    idle -AdvanceLease-> advancing -AdvanceLoad-> simulating -AdvanceCommit-> releasing
```

`Refuse` is every early error return, `Decide` every end of an attempt (it fixes the verdict
and starts the five seconds of the final save). `Tick` moves all timers at once and never
passes a handler's deadline: a context that is done makes the next call return, so that a
handler cannot be past its deadline and still go on. Local work (a settings save, a
Sandbox load) has no context of its own or a longer one; the model gives it `SaveTimeout`
or `AdvanceTimeout`, which is an assumption about the machine.

What is abstracted: an entity's content is one value (its budget); amounts are integers;
requests, names, notes and audit records are left out; an operation is an update or a
bundle; session scope, source and authentication checks only refuse and are part of
`Refuse`. A Sandbox write (load, change, save) is one step: both other writers of the
entities, `AdvanceCommit` and another approval, are excluded by the lease, which is
`LeaseExcludes`. SQLite statements and transactions are atomic.

### AgentTurn and the code

| Variable | In the code |
| --- | --- |
| `session` | the session's row: messages (one entry per turn), checkpoint, and the binding it was saved under (runtime, model selection, execution contract) |
| `lease` | the session's row of `leases` |
| `turn` | the locals of `RunWithModelAndView`: its copy of the session, whether its context is over (`alive`), the time to its deadline (`left`), the time it may be late by (`spare`), which pass of the runtime, the verdict, what the caller is told |
| `call` | where each tool call is in `turn.execute` |
| `feed` | `turn.seq`, and whether `turn.eventError` is set |
| `log` | table `events`, by turn |
| `faults` | crashes and store errors so far (bounds the model) |

```
unsent -Begin-> leased -Load-> loaded -OpenTurn-> opened -Started-> grounding
   -StartRuntime-> thinking (-FollowThrough-> thinking) -Judge-> extracting or saving
   -Extracted-> saving -Settle-> completing -Complete-> releasing -Release-> over
```

`Refuse` is every early return, `LeaseFails` a lease that was stored although its statement
reported an error; `CallTool`, `EnterTool`, `StartTool` and `FinishTool` are one call, with
`mutationMu` between the first two. `Event` is `turn.event`: silent after the first error,
which may also be reported of a row that was stored. A context that is over stores nothing.
`Judge` keeps the order of the code's tests: a lost event overrides "budget", which
overrides "cancelled", which overrides "failed".

What is abstracted: texts, cards and usage; progress, context, card and text events, which
are stored like those modelled; what a tool does (`ChangeService` for staging); how much of
a long conversation a rebuilt prompt holds; at most three extracted facts, of which one stands
for all. A runtime returns only when its calls have (the Built-in one waits for them). The
database has one session, as nothing but the slot of a host ties sessions together, and
a slot that is taken only refuses.

### The other modules and the code

Each module's `VARIABLES` name what they stand for, and `PROJECT.json` maps every
definition to its lines. What a reader should know beside that:

- **Runtimes.** In `BuiltinRuntime` a response is a sequence of ids; `prefetch` runs its
  calls in any order, before `Call` checks and counts each (`Prefetches`, `Known`). The
  library that drives the loop is external. `BridgeRuntime` reads one frame after the other
  from a process that may send anything. Both map to `ToolLoop`: `ran` is the set of calls
  executed, `state` is broken once the run has an error.
- **Tools.** A slot is a goroutine. Each critical section of `stateMu` is one step, a step
  of a mutating tool happens under `mutationMu`. Arguments are fixed when the model answers,
  so a call can name only what was known when the round began.
- **Delegates.** A tool of a child checks, computes and writes without a lock; two at once
  may also be stopped by Go for a race on a map (`crashed`).
- **Manager.** One object stands for those of an account; a number that grows with every
  edit is its state. Lease, conversation and checkpoints are those of `AgentTurn`.
- **Memories.** A process has one connection, so its transactions follow each other; those
  of two processes overlap, each reading a snapshot. SQLite refuses the first write of a
  transaction whose snapshot is old, and that is what keeps a key unique.
- **Sandbox.** A load is five statements, any commit may come in between; a copy whose
  facts do not fit its clock is refused, other mixtures are accepted as the code accepts
  them. A unit stands for a campaign with its group and its ad; in `SandboxDelivery` they
  are apart, winners and prices are choices, and amounts are integers. A rule observes spend.
- **Reports.** A day has the hours it has; coverage counts to `FullDay`, as the code does.
- **TikTok.** The platform is external: it takes a request once, at any time, also after the
  client gave up; it may make something else than asked, or nothing; its reads may be behind.
  Fields of a request are abstracted to exact, normalised and other.
- **OAuth.** One listener has the port and one connection; a transaction holds it from
  reading a state to deleting it. A credential file is written beside its place and renamed.
- **Settings.** The lock is Go's RWMutex: a waiting writer keeps later readers out;
  `TryLock` is a save's. Keys are known by the destination they were given for. Another
  process applies changes under the account lease.
- **Operator key.** Open files stay readable when their path is gone; a write fails whole or
  after a part; a start may die at any step.
- **Page.** A load is four requests whose answers come later, while the operator may go on:
  send, or begin a new session, as soon as no message is under way (`MaxLoads` bounds the
  loads that are). The code does not stop a load that was overtaken in this way, so its answers
  arrive among those of what followed. The history variable `overtaken` remembers that this
  may have happened; a load that began alone and is through, a new session begun with no load
  under way, or a reload of the page makes good what it did.

## 3. Runs

Eight runs pass, four show a disagreement of the code with what the repository says of it
(section 4). Four of the passing ones are **suites**: their modules hold one or more
instances of each of several components, side by side. A behaviour picks one instance in
`part` and runs it alone; the others stand still at a beginning of theirs. The components of
a suite share no variable, so that its states are the sum of the parts' and each part is
explored as it would be in a run of its own. Each property says of which parts it speaks.

| Run | Instances | What it shows |
| --- | --- | --- |
| `sandbox` | Sandbox, 2 executors; one change of any of the 5 kinds with advances and settings, or a creation and an update of one account side by side without them (`OneOrTwo`); 1.3 million states | While timers are kept, approvals, reconciliations, saves and advances exclude each other, and what they read under the lease is still true when used. |
| `untimely` | TikTok, 2 executors, one change of any kind, one fault, all timers 1, no grace period | If leases lapse and live attempts are stolen, the compare-and-swap alone allows one request, hides nothing and keeps `ChangeLifecycle`. |
| `recovery` | Sandbox, 2 executors, one fault, `FairSpec`; 128 thousand states | A claimed change is settled after a crash or a failed save. |
| `turns` | one turn with three calls, two turns of two processes, or three turns of one process with two bindings (`Corners`), each with up to two faults and a tick of lateness; 932 thousand states | Log, saved conversation and the answer agree; the lease keeps turns apart; nothing recorded is overwritten; a runtime resumes all of a conversation or none. |
| `turn_parts` | `BridgeRuntime`; `BuiltinRuntime` with repeated ids, with an id for every call, with a bounded pass; `TurnTools` reading, reporting, changing; `AnalysisDelegate` with one and two tools at a time; `ManagerTurn` with one and two calls at a time; 1.2 million states | What a turn runs on keeps its promises and limits. |
| `server` | `OAuthConnection`; `SettingsGate` over accounts and over keys; `OperatorKey` with crashes and with failing writes; `WebClient` with up to two loads under way when the operator acts; `PagedRead`; `PlatformOperation`; 1.0 million states | Each neighbour of the server keeps what it is there for. |
| `local_data` | `MemoryStore`; `SandboxStore` with its lease and with one that runs out; two deliveries; `SandboxAllocation`; `ReportEvidence`; `ConversationPage`; 626 thousand states | What is kept and computed locally is consistent. |
| `liveness` | small instances of ten components (the page with `MaxLoads` 1), `FairSideBySide`; 36 thousand states | Turns end and free their lease; everyone who asks is answered. |
| `slow_refresh`, `creation`, `sandbox_lifetime`, `analysis_race` | | Findings 1 to 4. |

**Bounds.** One tick is about half a minute in the two timed modules; the source's durations
are rounded so that their order is kept (refresh 1, execution 1, save 1, lease 3, grace 3,
advance 2 of 3; every deadline of a turn 1 and its lease one more than their sum and its
lateness). Contents are 10 and 12; the loose policy allows both, the tight one one of them:
enough for every guard to go both ways. Two executors, hosts, callbacks, slots or processes
make every race of two; where a third party may come in between, a third is there: three
calls of a response, three turns (a turn after one that followed a failed one), three
requests at the gate, three starts of a server. Limits of the code (64 calls, 16 cards, 200
entities, 8 reports, 20 pages) are 1 to 4, small enough to be reached and overrun: what is
off by one shows there. Listings have up to three records on pages of one or two, conversations
four turns on pages of three, days two hours, and allocations go over every input of three parties,
four wins and seven opportunities. One or two faults suffice, as each fault is one failed write, lost
answer or death. Interchangeable values are symmetric where the run has no liveness property.
`Apart` tries changes of account and entered keys in different instances.
Deadlock is not checked: a system whose inputs are used up may stop.

**Properties.** A property of a suite is the conjunction of what one or a few components
promise; its conjuncts are definitions of the components' modules, each with its comment:

| Property | Conjuncts |
| --- | --- |
| `LoopKeepsPromise` | `BuiltinRuntime`: refinement of `ToolLoop`, `CallsWithinLimit`, `AnswersAreOwn`, `ToolsEndStep` |
| `ToolsKeepBounds` | `TurnTools`: `RecentReadsKept`, `ReportsWithinBudget` |
| `CardsAreRight` | `TurnTools`: `CardsAreGrounded`, `OneCardPerChange`, `StagedIsShownOrFull`, `EventsFollowStore` |
| `DelegatesKeepLimits` | `AnalysisDelegate`: `DelegatesBounded`, `SubmissionKept`, `RecordsFromAccepted`, `FindingsArePresentable` |
| `DraftsAreAccounted` | `ManagerTurn`: `CompletedShowedDrafts` with one call at a time, `DraftsWereRead`, `AppliedInPlace` |
| `CredentialsKept`, `AuthorizationsHold` | `OAuthConnection`: `SuccessIsResolvable`, `CredentialsSurvive`; `StateUsedOnce`, `AuthorizedRecords` |
| `SettingsHold` | `SettingsGate`: `OneConfiguration`, `ConfigurationAgrees`, `AuthorityFromDeployment`, `KeepsBudgets`, `InstalledKeyFits`, `AttemptUsedOnce` |
| `KeyIsServed` | `OperatorKey`: `SignInPossible`, `MakerKeepsKey` |
| `PageIsTrue` | `WebClient`: `StreamShown`, `OwnSession`, `AllIsShown` |
| `ReadsAreWhole` | `PagedRead`: `WholeWhenStill`, `AddedHideNothing`, `NothingForeign` |
| `OperationsHold` | `PlatformOperation`: refinement of `PlatformWrite`, `SentOnce`, `OutcomeIsTrue`, and `ConfirmedWasHeld` of what can be read back (`Readable`) |
| `MemoriesHold` | `MemoryStore`: `OneFactPerKey`, `SuccessIsStored` |
| `HistoryKept` | `SandboxStore`: refinement of `SandboxHistory`, `BooksBalance`, `RulesRunOnce`, `AdvanceKeepsPolicy`, `TimelineWhole`, `LoadsAgree`, `Grows` |
| `DeliveryWithinMeans` | `SandboxDelivery`: `SpendsWithin`, `PrepaidOnly`, `InventorySoldOnce`, `LosesByChange`; `SandboxAllocation`: `NothingLostOrInvented`, `PartsWithinParts`, `MoreWinsMore` |
| `ReportsAreFinal` | `ReportEvidence`: `CompleteReportIsFinal`, `CompleteSpendIsFinal`, `ContributionsExplainDelta` |
| `WalkIsWhole` | `ConversationPage`: `WalkIsWhole`, `PageFits` |

Every property of a passing run has a mutant of the code that breaks it (`PROJECT.json`): an
update without the compare-and-swap, a lease taken while held, a lease shorter by a tick, a
checkpoint kept past an unsettled turn, calls that are all executed ahead of their
counting, a budget that counts only what is held, a state that is checked after its expiry, a
save that does not wait for readers, a file written in place, an unsure answer taken for a
refusal, a commit that does not compare the clock, a cursor that skips a turn, and others.

### Fairness

- `ClaimedIsSettled` (`ChangeService!FairSpec`): weak fairness of time and of each handler's
  next step (a goroutine that can go on does, and a call returns or fails by its deadline;
  a crash still ends it), and strong fairness of asking for and answering the reconciliation
  of a change that is still applying after its grace period: nothing in the code
  retries on its own, so that an operator who sees the change must keep asking.
- `TurnsEnd`: weak fairness of time, of the host's own steps (store calls, which return), of
  each tool call's steps, and of `Judge` once the turn's context is over: a runtime may
  think as long as it likes, but its process is ended with its context.
- `AskedIsAnswered`: weak fairness of each goroutine's, handler's or client's next step. For
  the tools' mutex it is strong: a slot runs many calls, and a Go mutex lets no waiter
  starve. For callbacks and requests weak fairness is enough, as they are finitely many and
  each passes a lock once. No fairness is assumed of the operator, of the platform or of
  what fails.

## 4. Findings

1. **Creations bypass the budget policy** (`creation`). `README.md:65-66` and
   `docs/validation.md:75` say the policy is checked at staging and before execution, for
   creations too. `StageCreate` and `applyCreate` never ask it. Only the Sandbox implements
   `ads.Creator`; a campaign bundle is checked.
2. **The lease may lapse before the write** (`slow_refresh`). The one-minute lease is taken
   before `refreshPolicy`, whose account read on TikTok is bounded by three attempts of 20
   seconds, not by the lease. Another process can then replace the policy that was
   checked, against `docs/architecture.md:188-190`.
3. **A lifetime budget stops the clock** (`sandbox_lifetime`). It is an infinite daily
   budget, the learning state keeps it, and JSON has no infinity: no advance of that
   environment can be stored any more (`internal/app/app.go:450`), against
   `internal/sandbox/simulation.go:148` and `docs/sandbox-simulator.md:148`.
4. **Two calculations pass one check** (`analysis_race`). A child's limits are
   unsynchronised locals, and the built-in runtime runs the calls of a response at once
   (`internal/agenthost/analysis.go:122`), against `docs/agent-harness.md:36`.

The modules also contain these disagreements. Each is a property of its module, violated in
the instance named; no run is kept for it.

| Property, instance | What the code does | What is said |
| --- | --- | --- |
| `WebClient!StreamShown`, web, also while `overtaken` is not `"no"` | `send` frees the page before the session is reloaded; a message sent in between has its events wiped (`web/src/App.tsx:3079`, `2769`) | `docs/architecture.md:143` |
| `WebClient!OwnCards`, web, likewise | a new session begun during a load shows the old one's cards (`App.tsx:3113`) | `web/tests/reducer.spec.ts:27` |
| `WebClient!AllIsShown`, web, likewise | of two loads the older may end last and put its records back (`App.tsx:2798`) | `web/src/api.ts:117` |
| `ReportsAreFinal`, `local_data` with `Parts = {"long day"}` | a day is covered at 24 facts, also one of 25 hours (`internal/sandbox/backend.go:304`) | `docs/ad-backend-contract.md:86` |
| `SettingsGate!KeyForItsProvider`, keys, turns and saves | a tab opened before the provider changed sends the new key to the old provider (`internal/runtime/selection.go:94`) | `docs/model-connections.md:52` |
| `SettingsGate!RejectedNotQueued`, turns and completions | completing an OpenRouter authorization waits in Lock behind a turn (`internal/httpapi/openrouter.go:56`) | `internal/httpapi/settings.go:91` |
| `TurnTools!RefusedOnlyWhenFull`, reports | a report is counted twice between its storing and the release of its place (`internal/agenthost/host.go:800`) | `report_capacity_test.go:52` |
| `TurnTools!StagedIsShown`, changes | a change staged when all cards are taken gets no preview (`host.go:1263`) | `docs/agent-harness.md:17` |
| `BuiltinRuntime!TurnWithinLimit`, `Follows` true | each of a turn's two runs has its own 64 calls (`host.go:338`) | `docs/agent-harness.md:32` |
| `PlatformOperation!ConfirmedWasHeld` not restricted to `Readable`, actions `reply`, `delete` | any reply confirms a reply; a comment off the first page counts as deleted (`internal/tiktokmapi/operations.go:806`) | `docs/architecture.md:193` |
| `ManagerTurn!CompletedShowedDrafts`, two calls at once | both stagings pass the check of the limit, the second draft has no card (`internal/manager/host.go:393`) | `docs/agent-harness.md:17` |
| `ManagerTurn!EndIsAnnounced` | a cancelled turn's last event is stored under its own context, which is over (`manager/host.go:253`) | `docs/local-development.md:98` |
| `OperatorKey!SignInPossible`, `MaxFaults` 1 | a failed write removes a key file another server has read (`internal/httpapi/server.go:121`) | `docs/local-development.md:11` |

## 5. Proofs

All theorems hold for every value of the constants. What is assumed of these (`ASSUME` in the
modules) says that durations and limits are natural numbers, that `None` is no other value,
and the like; TLC evaluates it in the runs. A component that a suite instantiates states its
assumptions as definitions (`LimitAssumption`, ...), which the suite's `ASSUME`s evaluate for
each instance and which its theorems name as hypotheses; the theorem is then about any
instance, while the run checks the property of the suite's own ones. For two of the suites
`MCServerProofs` and `MCLocalDataProofs` close the gap (see *The suites*).

**The Change Service, without any assumption about time** (`ChangeServiceProofs`, first part, for every
set of changes, executors, contents and policies). `AtMostOneSend` and
`NothingHidden` are not inductive: nothing in them says that a handler about to send holds a
change nobody has sent for. `IInv` adds

- `JobsKnown`: which changes handlers hold, and that a draft under way is nobody else's;
- `AttemptsAlone`: no two attempts hold one change, and while one does, the row can only be
  applying, indeterminate or applied. This is where the compare-and-swap works: an attempt
  starts by taking the row out of *staged*, where nothing puts it back;
- `SendsAfterClaim`: nothing was sent for a staged change, nor by an attempt before `Send`;
- `VerdictsTrue`: a verdict of failed or expired means no effect, applied means all of it;
- `ContentsKnown`: contents that are written are contents.

Most steps only move one handler: `QuietStep` proves once that such a step preserves `IInv`
when the handler's new record `Fits`, and each action shows its record. Steps that write a
row or reach the platform are proved conjunct by conjunct. Results: `TypeCorrect`,
`OneSend`, `NoHiddenEffect`.

**Refinement** (`ChangeServiceProofs`, first part). Under `status <- row.state` and an `effect` that
reads *inflight* as none and *trailing* as partial, `Init` implies `ChangeLifecycle!Init` and
every step is one of `ChangeLifecycle` or a stutter: `Refinement`. It needs `VerdictsTrue`
(a `Settle` is a legal report) and `AttemptsAlone` (a `Send` happens in an open change).

**Under the timing assumption** (`ChangeServiceProofs`, second part, on `ChangeServiceTimely`): a refresh and an execution are
shorter than the lease, a save and an advance than theirs, an execution and a save than the
grace period. Finding 2 is the case in which its first part fails. `TInv` says that a
handler's lease (`LeaseLasts`) and grace period (`GraceLasts`) outlast its deadline, that
what it validated is permitted by the saved policy (`PolicyMet`), and that what it read is
still so (`ReadsKept`). `OthersSafe` is the heart of it: a step of one handler keeps all others safe,
since it either changes nothing they rely on or holds the lease, so that they rely on
nothing. `TickSafe` is the arithmetic: all timers move together and none passes a deadline.
Results: `LeaseIsExclusive`, `AttemptsNotStolen`, `WritesMeetPolicy`, `AdvanceIsSafe`.

**Turns** (`AgentTurnProofs`, under `TimingAssumption`: 240 s + 45 s + 5 s and an overrun
`Slack` are less than the lease of 300 s, so that a turn may be late by anything under 10 s).
`OneTurnAtATime` and `ResumesWhole` are not inductive. `IInv` adds that a turn's lease is its
own and outlasts its deadline, its overrun and all deadlines still to come (`LeaseLasts`), that
what it loaded is what is stored and that its checkpoint holds exactly those turns
(`LocalFits`), and that the stored checkpoint is up to date unless the last turn is unsettled
(`SessionFits`). `Alone` turns the lease into exclusion; `OthersKeep` shows once that a step of
one turn keeps what the others rely on, since those who rely on the session hold the lease; each
action then shows its own turn. Results: `TypeInvariance`, `TurnsAreExclusive`,
`ContinuityIsWhole`; `TurnsAreKept` (under `conversation <- session.messages` a save of a
loaded turn is `Open`, of a judged one `Settle`, and nothing else writes); `EventsAreGapless`,
with `FeedFits`: until an event is lost the counter is the length of the log. What the client
is told rests on `OutcomeFits`: the log holds a turn's call when the call is over, unless an
event was lost; a verdict of "completed" has lost none; a terminal event names what was saved;
an answer of success has its event. Each of these follows one turn through its points of
control, and `RowsStay`, `StoredStays` show that no other turn touches its rows
(`CompletedTurnsAreRecorded`, `AnnouncementsAreTrue`, `SuccessesAreAnnounced`).

**OAuth** (`MCServerProofs`, first part). `Requested` holds types and what a request carries at
each point of control; `Unspent` says that a state whose row is still there, or whose row is about to
be deleted under the connection, was never exchanged, so that the one connection and the
transaction make a state's exchange unique (`OneExchange`); `Authorized` follows a grant from
the check of its state to the file, advertiser by advertiser (`RecordsAuthorized`).
`AuthorizationsSafe` joins the two. `CredentialsAreKept` rests on `Kept`: a record's file is
whole as soon as the record is there, since a rename puts it in its place, and while a
callback writes, what it has passed of its list resolves; success is answered behind the end.

**What a turn runs on** (`TurnPartsProofs`, in five parts). *Bridges:* `Counted` says that
`count` is the number of ids seen and the calls executed are among them without repetition;
with it every step of an adapter is one of `ToolLoop` or a stutter, whatever frames the
process sends (`Promise`), and rounds never go back (`RoundOrder`).

*The built-in loop* executes calls ahead of their counting, in any order, so that between two
responses nothing simple is true of what was executed. `BInv` says that the calls of a
response that are left were all executed or are about to be (`Ahead`), or none was
(`Behind`), with the count that follows, and that results kept and answers given belong to
these calls (`Unbroken`). An id that comes twice makes the run fail, but only when it is
reached: `Doomed` says that it will, and `Sound`, that otherwise each id was executed once
and answered with its own result. From this the limit (`CallsAreLimited`), the answers
(`AnswersBelong`), the rounds (`ToolsAreOver`), and, where every call has an id of its own
and there is no second pass, the refinement of `ToolLoop` (`BuiltinPromise`). The two
hypotheses are needed: with repeated ids a call runs that `ToolLoop` would refuse, and two
passes have a limit each (section 4).

*The tools of a turn:* `ToolsInv` has a part for each thing they share. A place in the report
budget belongs to a call between its reservation and its release (`ReportsFit`). The calls
past `locked` are those of the holder of the mutex, at most one, and the client has been told
of everything but what this call has just done (`ChangesFit`). Nobody can name a change that is being
staged, as a call names what was known when the round began: so its preview is its first
card, and it gets one unless all are taken (`CardsFit`). That the oldest reading may be
forgotten is a counting
argument (`OldestIsOld`): where more are remembered than the limit less one, one of
them is outside the last so many readings. Results: `ToolsStayBounded`, `CardsHold`.

*Delegates:* what is done was accepted and what was submitted is evidence of the child, whatever races
(`FindingsRestOnRecords`). With one goroutine what a tool has checked still holds when it acts
(`Allowed`), hence the limits (`DelegatesStayBounded`); with two that is finding 4.

*The Manager:* a session's readings and every copy of them were read (`ReadingsFit`), so a
draft rests on a reading of its account, and drafts never move, so an approval goes where it was
reviewed (`DraftsStayInPlace`); both for any number of calls at once. With one call at a time
cards are at most as many as drafts counted (`CardsLeft`) and each draft of the turn is shown,
on its way, or an event was lost, which no completed turn has (`DraftsAreOffered`).

**Memories** (`LocalDataProofs`). The argument is about snapshots: a transaction that writes
holds the write lock and its snapshot is the current version (`Locked`, `Past`), so what it
found is what is there and what it did not find is not (`Known`, `Inserted`; `Distinct` keeps
ids and calls apart); hence a commit never makes a second fact of a key (`OneFactPerKey`) nor
updates a row that is gone (`SuccessIsStored`), which `MemoriesSafe` joins. `FactsAreFew` is
about the turn's mutex: its count is the number of facts committed for the turn, and the
upsert that holds the mutex has room for its own (`Counted`, `HasRoom`).

**The Sandbox** (`LocalDataProofs`, for any handlers, units, rules and limits, under
`StoreAssumption`). A call reads the environment in five statements and writes minutes later,
so the argument is about what its copy is a copy of. On a machine of any speed, also when leases run out
(`Slow`), `Fitting` says that every copy has whole hours up to its own clock and that its facts
are those the environment had then (`Copies`): a load is accepted only if the facts read last
fit the clock read before, and the clock's compare-and-swap lets only a commit extend the
hours it started from. Results: `SandboxTypeCorrect`, `TimelineHolds`, `HistoryOnlyGrows`.
While a lease outlasts its call (`~Slow`), `Leased` says that a writer holds the lease
and its copy is the environment as it is, field by field, or what some hours make of it
(`Fresh`); then a commit, which writes over rows, replaces the whole by exactly that many hours:
`SandboxImplementsHistory`. What an hour and an advance do is a recursive function over rules
and over hours. What is true of every turn of these loops is shown by taking the least turn at
which it fails (`RulesTurns`, `AdvanceTurn`, `AdvanceInTime`): a rule changes a unit only within the
policy (`RulesKeepPolicy`), and each evaluation finds every rule exactly half an hour behind
(`RulesInTime`), so that no half-hour is left out, repeated or out of order (`RulesKeepTime`).
`BooksAreBalanced` needs more than its two sums: a day that was not billed had no spend, facts
are finitely many and lie in the past (`Balanced`), so that the facts of one more hour are new,
of one day, and are entered once (`Settled`); rules set budgets but leave the books alone
(`RulesKeepBooks`).

**Pages of a conversation** (`LocalDataProofs`, for any sizes and limits). `Walking` says that what was
read so far is every turn behind the cursor, joined in order; the rest is about one page: a
page that ends with the cut of one turn fits, as texts are halved until they do, and a page of more turns
is taken only if it fits. Sums and halvings are recursive functions of a bounded argument; that they
are what their equation says at every argument is shown by the least one at which they are not
(`HalvesExist` and its like). Result: `WalksAreWhole`.

**Reports** (`LocalDataProofs`, for any ads, calendar, delays and conversions). A complete report is of days that
are over (`CoveredIsOver`): the hours of an ad in one day are different numbers up to the clock's, so
there are as many as coverage counts only at the end of the day, provided that no day is longer (`OrdinaryDays`; section 4
has the day that is). A day that is over gets no hour (`HourKeeps`), and an hour of which nothing was hidden
shows the same when it is older (`AgedSeenAlike`). Result: `ReportsAreFinal`. For `ContributionsExplain`
a sum over a finite set, which is a fold that picks its elements in some order, is shown to be the same in
any (`AddsAny`) and to join over groups and scale (`SumsByGroup`, `SumsScale`); these go by the smallest
set of which they do not hold (`SetsGrow`).

**Allocation and deliveries** (`LocalDataProofs`). For shares by largest remainders, under
`PartiesAssumption` (their number is a natural): the remainders sum to what is left times the
denominator and each is smaller than it, so fewer opportunities are left than there are
positive remainders (`RemaindersSum`, `LeftFits`); ranks are distinct, so each of the first ones
gets one more and nobody two (`AllottedIs`). Result: `AllocationIsFair`.

For an hour of delivery, under `DeliveryAssumption` (natural amounts, positive prices, each ad
once in the order, *unlimited* above all that can be spent), the invariant is `Trading`: the
balance is short of what the account began with by what the campaigns spent, which is what
their groups did (`PaidFor`); the last hour sold no more than there was, and who was reached was
there to be (`Sold`); a group learned with the budget of the last hour (`LearnedWith`). The
work is in one hour. Of a cohort no more is wished for than it has, and an ad that does not
compete, whose wins are zero, is never given a remainder (`DesiredFits`). Wishes are cut to a
fraction of a fraction, for the group and its campaign, and then to what the balance pays for.
`Granted` is the arithmetic of one cut, in integers, rounded down; `GroupScaled` says that the
members of a group then cost no more than it has left and than its fraction of what the
campaign has left, `CampaignScaled` sums the latter, and `ShownWithin` adds the cut to the
balance, which undoes neither. Whoever competes has budget left (`CandidatesHaveBudget`), so that no
cut divides by zero. Results: `BudgetsBoundSpend`, `DeliveryIsPaidAndReal`, `LearningIsKept`.

**TikTok** (`PlatformOperationProofs`). An outcome is true because until there is one the steps
before the one at hand are known and were sent, and those after it were not
(`Proceeding`); an answer that counts is what the platform did, and what is under way has no
effect yet, whenever it takes it (`EffectsWereSent`, `AnswerIsTrue`). A read-back confirms
only what the platform has held (`ReadSoFar`). Result: `OperationsSafe`. The refinement of
`PlatformWrite` needs to know where an operation ended (`EndedWhere`: an unsure answer is the
first request's, after it a bundle is partial); then at most the request after the known ones is left
(`WhatIsLeft`), so that the answer and its effect are a pair of `PlatformAnswers`
(`ReckonedWith`), and what the platform takes or drops later is a step of `Arrive` or `Vanish`, or
changes nothing that the Change Service tells apart (`RestIsSettled`). Result:
`OperationsImplementWrite`: the proofs about `ChangeService` assume no less of TikTok than its
client can produce. For lists
(`ReadsHold`), `KeptOnTheWay` and `OnceOnTheWay` say what holds behind the page at hand while
the listing is only added to, and while it stays; the rest is the arithmetic of pages: the
last page by any way of telling the total covers the listing, and a record inserted moves others
to later places only.

**Settings and key** (`ServerPartsProofs`). `Locked` makes the lock's holder and readers the
requests at its points, so that a writer is alone. What is installed belongs together and is
what was saved, but for the one save between its two steps (`Consistent`); a save writes under
its account's lease (`Leased`), which is what keeps an apply's budget; an attempt that is exchanged is
gone (`Attempted`). Result: `SettingsAreSound`. For the operator key, whoever writes a file
has the path, and so has one that serves a key it made (`MadeBy`, `MakersKeepKeys`); while no
write fails a file stays at its path and is whole when it is read (`Served`, `SignInIsPossible`).

**The page** (`ServerPartsProofs`, for any sessions, turns, events, reloads and loads, and for
any operator). `Typed` and `Recorded` hold whatever overlaps: what a load has read are turns of
its session, with no more events than there are, since turns only grow (`Grown`); so the page never
shows an event nobody recorded. As long as nothing was overtaken, `Settled` holds: stream and
loads are of the page's session and never go on together (`Alone`), so what arrives on
the stream is reduced without gap (`NextEvent`). Two loads may then go on at once, when the page
opens; `CaughtUp` is what the last to end relies on: if all turns were over when they
began, each has read all there is (`ReadsWhole`), and the reducer holds nothing or the latest turn
whole (`Restarted`), on either of which a replay ends with the turn whole (`ReplayIsWhole`,
by the least event at which it would not). Once something was overtaken, none of this is assumed:
what the page holds is arbitrary but recorded, until a load begins with no other under way.
`Mending` is what this one brings about step by step, from any such page: it is the only load, of the
page's session, it replaces messages and reducer, then the records, and when it is through `Settled`
holds again. `PageInvariant` is the three cases of `overtaken`. Result: `PageIsTrueToSession`.

**The suites** (`MCServerProofs`, second part, and `MCLocalDataProofs`). The theorems above are
about any instance; that those of `MCServer` and `MCLocalData`, in which the suite fixes accounts,
switches, budgets and calendars, have the properties as the run states them is a proof of its own,
for any `Parts` and any names given to the suite's requests, servers, units and records. Each
instance of a component is matched with the one that the proofs' module has (`AccountsNext`,
`KeysHold`, `PlatformSame`, `HistorySame`, `SharedSame` and their like: operator by operator, as two
instances with the same constants are different definitions to the prover), a step of the suite
moves the part that was picked and no other (`OnePartMoves`), so that `SideInv`, the inductive
invariants of all parts side by side, is inductive. Results for the run `server`, one for every
property: `SuiteTypeCorrect`, `SuiteServesKeys`, `SuiteShowsPages`, `SuiteReadsWhole`, `SuiteHoldsSettings` and
`SuiteHoldsOperations`, the last with the refinement of `PlatformWrite`. For the run `local_data`:
`MemoriesSafe` and `FactsAreFew` above, `SuiteReportsFinally` (without the part `long day`, the
calendar of section 4), `SuiteWalksWhole`, `SuiteKeepsHistory`, with the refinement of
`SandboxHistory`, and `SuiteDeliversWithinMeans`.

**Model-checked only.** All liveness (out of the prover's reach). For the suite `MCTurnParts` the
theorems stay those about any instance of its components; that its own instances are such is
left to its run. The provers have no induction
over data: what a recursive definition computes is proved only where the least counterexample
suffices (pages, sums over finite sets and sequences, rules and hours).

## 6. Not modelled, and why

- Login sessions of the server with their limits, and routing; the command line's `verify`.
- Layout of prompts, cards and pages, and skills: text without state of interest.
- The bridges in TypeScript: adapters to vendor libraries that are not in the repository.
- Floating-point scores and prices of the delivery; `ConfigureSimulation` and the debug
  trace, which are development tools.
- The fields of a TikTok request and the translation of its answers; validation of requests
  and previews (`internal/ads/operations.go`, `resources.go`), which are pure functions of many fields.
- In `ManagerTurn`: the limits of its performance and analysis tools.
- Details that no property tells apart: identity type and asset kind, which the read-back of an ad
  does not compare (`internal/tiktokmapi/operations.go:751`); learning lost to a new fingerprint or
  bid, besides the budget (`internal/sandbox/causal_model.go:569`); fractions of a unit of spend, of
  which ledgers and balance keep different roundings (`joint_delivery.go:121`, `561`); the days that a
  rule counts from seed rows (`internal/sandbox/rules.go:111`). An ad group's update by operation
  (`internal/sandbox/operations.go:284`) is the `SaveUnit` of its group.
- A save of a Sandbox record or of the settings that reports an error has stored nothing. Each is
  one statement or one transaction of SQLite. Had it stored its row all the same, a creation would
  be reported failed beside its record (`internal/app/app.go:330`; `NothingHidden` would not
  hold), and the old settings would stay installed until the next start
  (`internal/httpapi/settings.go:252`).
- A process that is suspended past its lease is covered by `untimely` for changes only, and
  clocks that jump nowhere.
- Two behaviours are in the models and forbidden by no property, as nothing says whether they are
  meant: a draft that expires between its check and its claim (`internal/agenthost/changes.go:145`), and
  an empty key file that a start left when it died, which every later start refuses
  (`internal/httpapi/server.go:109`).

## 7. Plan

1. Login sessions and their limits; request validation against reference definitions.
