----------------------------- MODULE MCTurnParts -----------------------------
(***************************************************************************)
(* What a turn runs on: the runtimes, the tools, the analysis delegates    *)
(* and the Manager host, in one run.  They share no state and are checked  *)
(* side by side: a behaviour picks one instance in part and runs it alone. *)
(* A component may have several instances, which differ in what they bound. *)
(***************************************************************************)
EXTENDS BridgeRuntime, TLC

CONSTANTS
    Parts, \* the instances that are explored
    None,
    a1, a2, a3, a4, a5, \* ids of calls, goroutines, delegates
    b1, b2, b3,         \* what they work on: entities, queries, changes, evidence, accounts
    c1, q1, ch1, w1, w2

VARIABLES
    part,       \* the instance that runs
    \* BuiltinRuntime
    builtinPc, pass, round, response, next, running, prepared, builtinSeen, calls,
    broken, closed, builtinExecuted, answered, before,
    \* TurnTools
    toolCall, provenance, reports, inFlight, cards, change, mutationMu, known,
    toolReads, taken, toolTold,
    \* AnalysisDelegate
    delegates, child, worker, records, crashed,
    \* ManagerTurn
    world, readings, saved, drafts, managerPc, turn, alive, managerCall, staged, shown,
    lost, status, announced, faults, managerTold, managerReads, effects

bridge == <<pc, seen, count, lastRound, text, executed>>
builtin == <<builtinPc, pass, round, response, next, running, prepared, builtinSeen, calls,
             broken, closed, builtinExecuted, answered, before>>
tools == <<toolCall, provenance, reports, inFlight, cards, change, mutationMu, known,
           toolReads, taken, toolTold>>
analysis == <<delegates, child, worker, records, crashed>>
manager == <<world, readings, saved, drafts, managerPc, turn, alive, managerCall, staged,
             shown, lost, status, announced, faults, managerTold, managerReads, effects>>

-----------------------------------------------------------------------------
(* The built-in runtime: responses that repeat ids, over the two runs of a   *)
(* turn; an id for every call; a bounded pass.                               *)

Repeating == INSTANCE BuiltinRuntime WITH
    Id <- {a1, a2, a3}, Limit <- 3, MaxRounds <- 0, MaxBatch <- 3, RoundBound <- 2,
    Repeats <- TRUE, Follows <- TRUE,
    pc <- builtinPc, seen <- builtinSeen, executed <- builtinExecuted
Numbering == INSTANCE BuiltinRuntime WITH
    Id <- {a1, a2, a3, a4, a5}, Limit <- 4, MaxRounds <- 0, MaxBatch <- 3, RoundBound <- 4,
    Repeats <- FALSE, Follows <- FALSE,
    pc <- builtinPc, seen <- builtinSeen, executed <- builtinExecuted
Bounded == INSTANCE BuiltinRuntime WITH
    Id <- {a1, a2, a3}, Limit <- 4, MaxRounds <- 2, MaxBatch <- 2, RoundBound <- 4,
    Repeats <- TRUE, Follows <- FALSE,
    pc <- builtinPc, seen <- builtinSeen, executed <- builtinExecuted

ASSUME
    /\ Repeating!LimitAssumption
    /\ Repeating!SwitchAssumption
    /\ Repeating!NoneAssumption
    /\ Numbering!LimitAssumption
    /\ Numbering!SwitchAssumption
    /\ Numbering!NoneAssumption
    /\ Bounded!LimitAssumption
    /\ Bounded!SwitchAssumption
    /\ Bounded!NoneAssumption

-----------------------------------------------------------------------------
(* The tools: readings and what is shown of them; reports at once; changes.  *)

OneCampaign(entities) == [e \in entities |-> IF e = c1 THEN 1 ELSE 2]

Reading == INSTANCE TurnTools WITH
    Slot <- {a1, a2}, Entity <- {c1, b1, b2}, Level <- OneCampaign({c1, b1, b2}),
    Query <- {q1}, Change <- {ch1}, Earlier <- {ch1},
    Tool <- {"get", "list", "lookup", "report", "present_entity", "present_report"},
    MaxSeen <- 2, MaxListed <- 2, MaxReports <- 1, MaxCards <- 1,
    call <- toolCall, reads <- toolReads, told <- toolTold
Reporting == INSTANCE TurnTools WITH
    Slot <- {a1, a2, a3}, Entity <- {c1}, Level <- OneCampaign({c1}),
    Query <- {b1, b2, b3}, Change <- {ch1}, Earlier <- {ch1},
    Tool <- {"report", "lookup"},
    MaxSeen <- 1, MaxListed <- 1, MaxReports <- 2, MaxCards <- 1,
    call <- toolCall, reads <- toolReads, told <- toolTold
Changing == INSTANCE TurnTools WITH
    Slot <- {a1, a2, a3}, Entity <- {c1}, Level <- OneCampaign({c1}),
    Query <- {q1}, Change <- {ch1, b1, b2}, Earlier <- {ch1},
    Tool <- {"get", "stage", "discard", "present_change"},
    MaxSeen <- 2, MaxListed <- 1, MaxReports <- 1, MaxCards <- 2,
    call <- toolCall, reads <- toolReads, told <- toolTold

ASSUME
    /\ Reading!ToolAssumption
    /\ Reading!EntityAssumption
    /\ Reading!ChangeAssumption
    /\ Reading!LimitAssumption
    /\ Reporting!ToolAssumption
    /\ Reporting!EntityAssumption
    /\ Reporting!ChangeAssumption
    /\ Reporting!LimitAssumption
    /\ Changing!ToolAssumption
    /\ Changing!EntityAssumption
    /\ Changing!ChangeAssumption
    /\ Changing!LimitAssumption

-----------------------------------------------------------------------------
(* Analysis delegates: one tool at a time, as SDK runtimes call them, and two *)
(* at a time, as the built-in one does.                                      *)

Alone == INSTANCE AnalysisDelegate WITH
    Delegate <- {a1, a2, a3}, Worker <- {w1}, Evidence <- {b1, b2, b3},
    MaxDelegates <- 2, MaxCalculations <- 2, MaxDatasets <- 1, MaxProgress <- 1
AtOnce == INSTANCE AnalysisDelegate WITH
    Delegate <- {a1, a2}, Worker <- {w1, w2}, Evidence <- {b1, b2},
    MaxDelegates <- 2, MaxCalculations <- 1, MaxDatasets <- 1, MaxProgress <- 1

ASSUME
    /\ Alone!LimitAssumption
    /\ AtOnce!LimitAssumption

-----------------------------------------------------------------------------
(* The Manager host: one call at a time over two turns; two at a time over   *)
(* two accounts.                                                             *)

OneByOne == INSTANCE ManagerTurn WITH
    Account <- {b1}, Slot <- {a1},
    MaxStaged <- 2, MaxCards <- 2, MaxEdits <- 0, MaxTurns <- 2, MaxFaults <- 1,
    seen <- readings, pc <- managerPc, call <- managerCall, told <- managerTold,
    reads <- managerReads
Together == INSTANCE ManagerTurn WITH
    Account <- {b1, b2}, Slot <- {a1, a2},
    MaxStaged <- 1, MaxCards <- 1, MaxEdits <- 1, MaxTurns <- 1, MaxFaults <- 0,
    seen <- readings, pc <- managerPc, call <- managerCall, told <- managerTold,
    reads <- managerReads

ASSUME
    /\ OneByOne!NoneAssumption
    /\ OneByOne!LimitAssumption
    /\ OneByOne!CardAssumption
    /\ Together!NoneAssumption
    /\ Together!LimitAssumption
    /\ Together!CardAssumption

-----------------------------------------------------------------------------

SideInit ==
    /\ part \in Parts
    /\ Init
    /\ IF part = "numbering" THEN Numbering!Init
       ELSE IF part = "bounded" THEN Bounded!Init ELSE Repeating!Init
    /\ CASE part = "reporting" -> Reporting!Init
         [] part = "changing" -> Changing!Init
         [] OTHER -> Reading!Init
    /\ IF part = "alone" THEN Alone!Init ELSE AtOnce!Init
    /\ IF part = "one by one" THEN OneByOne!Init ELSE Together!Init

SideNext ==
    \/ part = "bridge" /\ Next /\ UNCHANGED <<part, builtin, tools, analysis, manager>>
    \/ /\ \/ part = "repeating" /\ Repeating!Next
          \/ part = "numbering" /\ Numbering!Next
          \/ part = "bounded" /\ Bounded!Next
       /\ UNCHANGED <<part, bridge, tools, analysis, manager>>
    \/ /\ \/ part = "reading" /\ Reading!Next
          \/ part = "reporting" /\ Reporting!Next
          \/ part = "changing" /\ Changing!Next
       /\ UNCHANGED <<part, bridge, builtin, analysis, manager>>
    \/ /\ \/ part = "alone" /\ Alone!Next
          \/ part = "at once" /\ AtOnce!Next
       /\ UNCHANGED <<part, bridge, builtin, tools, manager>>
    \/ /\ \/ part = "one by one" /\ OneByOne!Next
          \/ part = "together" /\ Together!Next
       /\ UNCHANGED <<part, bridge, builtin, tools, analysis>>

SideBySide ==
    SideInit /\ [][SideNext]_<<part, bridge, builtin, tools, analysis, manager>>

-----------------------------------------------------------------------------

\* The types of the components.
TypesOK ==
    /\ TypeOK
    /\ part = "repeating" => Repeating!TypeOK
    /\ part = "reading" => Reading!TypeOK
    /\ part = "changing" => Changing!TypeOK
    /\ part = "at once" => AtOnce!TypeOK
    /\ part = "one by one" => OneByOne!TypeOK

\* With an id for every call the built-in runtime implements ToolLoop.  Where a response
\* repeats ids, its calls, which run in any order and before they are counted, still stay
\* within the limit and a run that succeeds gave each call its own result.  No tool runs
\* beyond the rounds allowed (runtime/builtin.go:188, 261).
LoopKeepsPromise ==
    /\ part = "numbering" => Numbering!Loop!Init
    /\ [][part = "numbering" => Numbering!Loop!Next \/ UNCHANGED Numbering!Loop!vars]_builtin
    /\ [](part = "repeating" => Repeating!CallsWithinLimit /\ Repeating!AnswersAreOwn)
    /\ [][part = "bounded" => Bounded!ToolsEndStep]_builtin

\* What a turn remembers stays within its bounds however its calls overlap: forgetting the
\* oldest entity never costs one of the latest readings; reports held and asked for stay
\* within the budget, and every place reserved is given back (agenthost/host.go:438, 800).
ToolsKeepBounds ==
    /\ part = "reading" => Reading!RecentReadsKept
    /\ part = "reporting" => Reporting!ReportsWithinBudget

\* In whatever order concurrent tools read, stage, discard and show, every card shows a
\* record the host holds, a change has one card and a staged one has it while there is
\* room, and the client hears of changes in the order they were made (host.go:1144, 1263).
CardsAreRight ==
    /\ part = "reading" => Reading!CardsAreGrounded
    /\ part = "changing" =>
        /\ Changing!CardsAreGrounded
        /\ Changing!OneCardPerChange
        /\ Changing!StagedIsShownOrFull
        /\ Changing!EventsFollowStore

\* Delegates stay within their calculations, datasets and progress reports; what one
\* submitted is final; and the turn gets records only of those that ended well, whose
\* findings name evidence the turn can present (agenthost/analysis.go:122, 247).
DelegatesKeepLimits ==
    /\ [](part = "alone" => Alone!DelegatesBounded)
    /\ [][part = "alone" => Alone!SubmissionKept]_analysis
    /\ [](part = "at once" => AtOnce!RecordsFromAccepted /\ AtOnce!FindingsArePresentable)

\* The documents promise the limits also of two calls at a time (docs/agent-harness.md:36).
DelegatesBoundedAtOnce == part = "at once" => AtOnce!DelegatesBounded

\* A manager turn recorded as completed has shown every draft it stored; a draft rests on a
\* reading of its own account, and an approval changes that account, from the state that
\* was reviewed, whatever happens in another one meanwhile (manager/scope.go:185).
DraftsAreAccounted ==
    /\ part = "one by one" => OneByOne!CompletedShowedDrafts
    /\ part = "together" => Together!DraftsWereRead /\ Together!AppliedInPlace

Alike == Permutations({a1, a2, a3}) \union Permutations({b1, b2, b3})
=============================================================================
