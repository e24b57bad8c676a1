-------------------------- MODULE AnalysisDelegate --------------------------
(***************************************************************************)
(* Analysis delegates (internal/agenthost/analysis.go): run_analysis grants*)
(* a child runtime copies of the turn's reports and tools to slice them,   *)
(* to calculate and to submit findings that name calculated evidence.  Its *)
(* records become the turn's when it ends well.                            *)
(*                                                                         *)
(* The child's maps and its submission are locals of the closure and have  *)
(* no lock, while the built-in runtime executes the calls of one response  *)
(* at once (runtime/builtin.go:256): a tool checks (Check), computes, and  *)
(* writes (Act).  Two such goroutines race: each may act on a check the    *)
(* other has overtaken, and Go may stop the process when it sees two of    *)
(* them in one map.  SDK runtimes call one tool at a time (one worker).    *)
(***************************************************************************)
EXTENDS Naturals, FiniteSets

CONSTANTS
    Delegate,        \* run_analysis calls of the turn
    Worker,          \* goroutines that execute a child's calls
    Evidence,        \* ids of calculations and comparisons
    MaxDelegates,    \* delegates of a turn (2)
    MaxCalculations, \* calculations and comparisons of a child (8)
    MaxDatasets,     \* datasets of a child, granted and sliced (12)
    MaxProgress      \* progress reports of a child (5)

LimitAssumption ==
    {MaxDelegates, MaxCalculations, MaxDatasets, MaxProgress} \subseteq Nat \ {0}

VARIABLES
    delegates,  \* how many the turn has started
    child,      \* each delegate's state
    worker,     \* what each goroutine of each child is doing
    records,    \* the turn's calculations and comparisons
    crashed     \* the process was stopped by a race on a map

vars == <<delegates, child, worker, records, crashed>>

Unstarted == [pc |-> "unasked", evidence |-> {}, datasets |-> 0, progress |-> 0,
              submitted |-> {}, accepted |-> FALSE, expired |-> FALSE]
Resting == [tool |-> "none", at |-> "idle"]

Init ==
    /\ delegates = 0
    /\ child = [d \in Delegate |-> Unstarted]
    /\ worker = [d \in Delegate |-> [w \in Worker |-> Resting]]
    /\ records = {}
    /\ crashed = FALSE

Running(d) == child[d].pc = "running" /\ ~crashed

MayStart == delegates < MaxDelegates

\* run_analysis: the limit of the turn, and reports of this turn.
Begin(d, granted) ==
    /\ child[d].pc = "unasked" /\ ~crashed
    /\ MayStart
    /\ delegates' = delegates + 1
    /\ child' = [child EXCEPT ![d].pc = "running", ![d].datasets = granted]
    /\ UNCHANGED <<worker, records, crashed>>

\* The limit is reached, or a handle is not one of this turn.
Refuse(d) ==
    /\ child[d].pc = "unasked" /\ ~crashed
    /\ child' = [child EXCEPT ![d].pc = "refused"]
    /\ UNCHANGED <<delegates, worker, records, crashed>>

-----------------------------------------------------------------------------
(* The child's tools.                                                       *)

ChildTool == {"calculate", "slice", "progress", "submit"}

Open(d) == ~child[d].expired /\ ~child[d].accepted

LimitAllows(d, tool) ==
    CASE tool = "calculate" -> Cardinality(child[d].evidence) < MaxCalculations
      [] tool = "slice" -> child[d].datasets < MaxDatasets
      [] tool = "progress" -> child[d].progress < MaxProgress
      [] OTHER -> TRUE

\* A call that passes its checks; one that does not is answered at once and
\* changes nothing, as does reading a dataset.
Check(d, w, tool) ==
    /\ Running(d) /\ worker[d][w].at = "idle"
    /\ Open(d) /\ LimitAllows(d, tool)
    /\ worker' = [worker EXCEPT ![d][w] = [tool |-> tool, at |-> "acting"]]
    /\ UNCHANGED <<delegates, child, records, crashed>>

Acting(d, w, tool) ==
    Running(d) /\ worker[d][w] = [tool |-> tool, at |-> "acting"]
Rest(d, w) == worker' = [worker EXCEPT ![d][w] = Resting]

\* The data did not allow it: an unknown handle, periods that differ, evidence
\* or an entity the child has not calculated.
Decline(d, w) ==
    /\ Running(d) /\ worker[d][w].at = "acting"
    /\ Rest(d, w)
    /\ UNCHANGED <<delegates, child, records, crashed>>

Unused == Evidence \ (records \union UNION {child[d].evidence : d \in Delegate})

Calculate(d, w) ==
    /\ Acting(d, w, "calculate")
    /\ \E e \in Unused : child' = [child EXCEPT ![d].evidence = @ \union {e}]
    /\ Rest(d, w)
    /\ UNCHANGED <<delegates, records, crashed>>

Slice(d, w) ==
    /\ Acting(d, w, "slice")
    /\ child' = [child EXCEPT ![d].datasets = @ + 1]
    /\ Rest(d, w)
    /\ UNCHANGED <<delegates, records, crashed>>

Progress(d, w) ==
    /\ Acting(d, w, "progress")
    /\ child' = [child EXCEPT ![d].progress = @ + 1]
    /\ Rest(d, w)
    /\ UNCHANGED <<delegates, records, crashed>>

\* Evidence a finding may name: what this child has calculated.
Citable(d) == child[d].evidence

\* submit_analysis: every finding names evidence of this child.
Submit(d, w) ==
    /\ Acting(d, w, "submit")
    /\ \E cited \in SUBSET Citable(d) :
          child' = [child EXCEPT ![d].submitted = cited, ![d].accepted = TRUE]
    /\ Rest(d, w)
    /\ UNCHANGED <<delegates, records, crashed>>

\* The maps a tool reads and writes.
Writes(tool) ==
    CASE tool = "calculate" -> {"evidence"} [] tool = "slice" -> {"datasets"} [] OTHER -> {}
Reads(tool) ==
    CASE tool = "calculate" -> {"datasets"} [] tool = "slice" -> {"datasets"}
      [] tool = "submit" -> {"evidence"} [] OTHER -> {}

\* Go sees a write of a map beside another access and stops the process.
Race(d) ==
    /\ Running(d)
    /\ \E v, w \in Worker :
          /\ v # w /\ worker[d][v].at = "acting" /\ worker[d][w].at = "acting"
          /\ Writes(worker[d][v].tool) \intersect
                (Writes(worker[d][w].tool) \union Reads(worker[d][w].tool)) # {}
    /\ crashed' = TRUE
    /\ UNCHANGED <<delegates, child, worker, records>>

\* 120 seconds, or the turn's context, are over.
Expire(d) ==
    /\ Running(d) /\ ~child[d].expired
    /\ child' = [child EXCEPT ![d].expired = TRUE]
    /\ UNCHANGED <<delegates, worker, records, crashed>>

-----------------------------------------------------------------------------
(* The end of the child.                                                    *)

\* analysisFailure.
Fails(d, ended) == child[d].expired \/ ended # "stop" \/ ~child[d].accepted

\* A mutant: records are taken over before the outcome is looked at.
TakeOverAlways(d, ended) == records' = records \union child[d].evidence

\* The child's records become the turn's when it ended well.
TakeOver(d, ended) ==
    records' = IF Fails(d, ended) THEN records ELSE records \union child[d].evidence

\* The runtime has returned; the goroutines of its last response are done.
Finish(d) ==
    /\ Running(d)
    /\ \A w \in Worker : worker[d][w].at = "idle"
    /\ \E ended \in {"stop", "budget", "error"} :
          /\ TakeOver(d, ended)
          /\ child' = [child EXCEPT ![d].pc = IF Fails(d, ended) THEN "failed" ELSE "done"]
    /\ UNCHANGED <<delegates, worker, crashed>>

Next ==
    \E d \in Delegate :
       \/ \E granted \in 1..MaxDatasets : Begin(d, granted)
       \/ Refuse(d) \/ Race(d) \/ Expire(d) \/ Finish(d)
       \/ \E w \in Worker :
             \/ \E tool \in ChildTool : Check(d, w, tool)
             \/ Calculate(d, w) \/ Slice(d, w) \/ Progress(d, w) \/ Submit(d, w)
             \/ Decline(d, w)

Spec == Init /\ [][Next]_vars

-----------------------------------------------------------------------------

\* A turn starts at most MaxDelegates children, however many end or fail, and
\* each call of run_analysis is one of them.
TypeOK ==
    /\ delegates \in 0..MaxDelegates
    /\ delegates = Cardinality({d \in Delegate : child[d].pc \in {"running", "done", "failed"}})
    /\ \A d \in Delegate : child[d].submitted \subseteq Evidence
    /\ records \subseteq Evidence
    /\ crashed \in BOOLEAN

\* The turn's records come from children that ended well: nothing of a child that
\* timed out, failed or submitted nothing can be presented (analysis.go:248).
RecordsFromAccepted ==
    records = UNION {child[d].evidence : d \in {x \in Delegate : child[x].pc = "done"}}

\* Every finding of a child that ended well names evidence the host calculated in
\* that child, which the turn can present (docs/architecture.md:115).
FindingsArePresentable ==
    \A d \in Delegate :
       child[d].pc = "done" =>
          child[d].accepted /\ child[d].submitted \subseteq child[d].evidence \intersect records

\* Delegates are bounded (docs/agent-harness.md:35): so many calculations,
\* datasets and progress reports each.
DelegatesBounded ==
    \A d \in Delegate :
       /\ Cardinality(child[d].evidence) <= MaxCalculations
       /\ child[d].datasets <= MaxDatasets
       /\ child[d].progress <= MaxProgress

\* What was submitted is what the turn gets: it is not replaced, and no record is
\* added after it.
SubmissionKept ==
    \A d \in Delegate :
       child[d].accepted => /\ child'[d].submitted = child[d].submitted
                            /\ child'[d].evidence = child[d].evidence
SubmissionIsFinal == [][SubmissionKept]_vars
=============================================================================
