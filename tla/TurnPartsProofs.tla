-------------------------- MODULE TurnPartsProofs ---------------------------
(***************************************************************************)
(* What a turn runs on keeps its promises.  Whatever an SDK process sends, *)
(* and whatever ids a model gives its calls, the runtimes keep theirs;     *)
(* however the calls of a turn overlap, so do its tools, its delegates and *)
(* the Manager's: for every set of ids, calls, records and accounts, every *)
(* limit and every round allowance.  The parts are about BridgeRuntime,    *)
(* BuiltinRuntime, TurnTools, AnalysisDelegate and ManagerTurn.            *)
(***************************************************************************)
EXTENDS BridgeRuntime, FiniteSetTheorems, SequenceTheorems, WellFoundedInduction, TLAPS

Ran == {executed[n].id : n \in DOMAIN executed}
State == IF pc = "done" THEN "succeeded" ELSE IF pc = "failed" THEN "failed" ELSE "running"

\* What the promise rests on: a call that ran was counted, and rounds have not
\* passed the last one.
Counted ==
    /\ pc \in {"reading", "replying", "done", "failed"}
    /\ seen \subseteq Id /\ IsFiniteSet(seen) /\ count = Cardinality(seen) /\ count <= Limit
    /\ lastRound \in Nat /\ text \in 0..MaxText
    /\ executed \in Seq([id : Id, round : Round])
    /\ Len(executed) <= count
    /\ Ran \subseteq seen
    /\ \A n \in DOMAIN executed : executed[n].round <= lastRound
    /\ RoundsAscend

USE RoundAssumption, LimitAssumption

LEMMA CountedInit == Init => Counted
  BY FS_EmptySet DEF Init, Counted, Ran, RoundsAscend

\* The rounds of the calls that ran are numbers.
LEMMA RoundsNat ==
    ASSUME Counted
    PROVE  \A n \in DOMAIN executed : executed[n].round \in Nat
<1> SUFFICES ASSUME NEW n \in DOMAIN executed PROVE executed[n].round \in Nat
  OBVIOUS
<1>1. executed \in Seq([id : Id, round : Round])
  BY DEF Counted
<1>2. DOMAIN executed = 1..Len(executed)
  BY <1>1
<1>3. executed[n] \in [id : Id, round : Round]
  BY <1>1, <1>2, ElementOfSeq
<1> QED
  BY <1>3

\* The one step that changes what has run.
LEMMA CountedCall ==
    ASSUME Counted, NEW id \in Id, NEW round \in Round, ToolCall(id, round)
    PROVE  Counted'
<1> DEFINE call == [id |-> id, round |-> round]
<1>1. /\ id \notin seen /\ round >= lastRound /\ count + 1 <= Limit
      /\ seen' = seen \union {id} /\ count' = count + 1 /\ lastRound' = round
      /\ text' = text /\ pc' = "replying"
      /\ executed' = IF Allowed(round) THEN Append(executed, call) ELSE executed
  BY DEF ToolCall, Correlated, Within
<1>2. round \in Nat /\ count \in Nat /\ call \in [id : Id, round : Round]
  BY FS_CardinalityType DEF Counted
<1>3. IsFiniteSet(seen') /\ Cardinality(seen') = count'
  BY <1>1, FS_AddElement DEF Counted
<1>4. CASE ~Allowed(round)
  <2>1. executed' = executed
    BY <1>1, <1>4
  <2>2. Ran' = Ran /\ DOMAIN executed' = DOMAIN executed /\ RoundsAscend'
    BY <2>1 DEF Counted, Ran, RoundsAscend
  <2>3. Len(executed) \in Nat
    BY DEF Counted
  <2>4. Len(executed') <= count'
    BY <1>1, <1>2, <2>1, <2>3 DEF Counted
  <2>5. \A n \in DOMAIN executed' : executed'[n].round <= lastRound'
    <3> SUFFICES ASSUME NEW n \in DOMAIN executed PROVE executed[n].round <= round
      BY <1>1, <2>1
    <3> QED
      BY SMTT(60), RoundsNat, <1>1, <1>2 DEF Counted
  <2> QED
    BY <1>1, <1>2, <1>3, <2>1, <2>2, <2>4, <2>5 DEF Counted
<1>5. CASE Allowed(round)
  <2>1. executed' = Append(executed, call)
    BY <1>1, <1>5
  <2>2. /\ executed' \in Seq([id : Id, round : Round])
        /\ Len(executed') = Len(executed) + 1
        /\ DOMAIN executed' = 1..(Len(executed) + 1)
        /\ DOMAIN executed = 1..Len(executed)
        /\ executed'[Len(executed) + 1] = call
        /\ \A n \in DOMAIN executed : executed'[n] = executed[n]
    BY <1>2, <2>1 DEF Counted
  <2>3. Len(executed) \in Nat
    BY DEF Counted
  <2>4. Len(executed') <= count'
    BY <1>1, <1>2, <2>2, <2>3 DEF Counted
  <2>5. Ran' \subseteq seen'
    BY <1>1, <2>2, <2>3 DEF Counted, Ran
  <2>6. \A n \in DOMAIN executed' : executed'[n].round <= lastRound'
    <3> SUFFICES ASSUME NEW n \in DOMAIN executed' PROVE executed'[n].round <= round
      BY <1>1
    <3>1. CASE n = Len(executed) + 1
      BY <3>1, <1>2, <2>2
    <3>2. CASE n \in DOMAIN executed
      <4>1. executed[n].round \in Nat /\ executed[n].round <= lastRound /\ lastRound \in Nat
        BY <3>2, RoundsNat DEF Counted
      <4> QED
        BY <4>1, <3>2, <1>1, <1>2, <2>2
    <3> QED
      BY <3>1, <3>2, <2>2, <2>3
  <2>7. RoundsAscend'
    <3> SUFFICES ASSUME NEW n \in DOMAIN executed'
                 PROVE  /\ MaxRounds > 0 => executed'[n].round <= MaxRounds
                        /\ n > 1 => executed'[n - 1].round <= executed'[n].round
      BY DEF RoundsAscend
    <3>1. CASE n \in DOMAIN executed
      <4>1. n > 1 => n - 1 \in DOMAIN executed
        BY <3>1, <2>2, <2>3
      <4> QED
        BY <3>1, <4>1, <2>2 DEF Counted, RoundsAscend
    <3>2. CASE n = Len(executed) + 1
      <4>1. executed'[n].round = round
        BY <3>2, <2>2
      <4>2. MaxRounds > 0 => round <= MaxRounds
        BY <1>5, <1>2 DEF Allowed
      <4>3. ASSUME n > 1 PROVE executed'[n - 1].round <= round
        <5>1. n - 1 \in DOMAIN executed
          BY <4>3, <3>2, <2>2, <2>3
        <5>2. executed[n - 1].round \in Nat /\ executed[n - 1].round <= lastRound /\ lastRound \in Nat
          BY <5>1, RoundsNat DEF Counted
        <5> QED
          BY <5>1, <5>2, <2>2, <1>1, <1>2
      <4> QED
        BY <4>1, <4>2, <4>3
    <3> QED
      BY <3>1, <3>2, <2>2, <2>3
  <2> QED
    BY <1>1, <1>2, <1>3, <2>2, <2>4, <2>5, <2>6, <2>7 DEF Counted
<1> QED
  BY <1>4, <1>5

LEMMA CountedNext == Counted /\ [Next]_vars => Counted'
<1> SUFFICES ASSUME Counted, [Next]_vars PROVE Counted'
  OBVIOUS
<1>1. CASE UNCHANGED vars
  BY <1>1 DEF vars, Counted, Ran, RoundsAscend
<1>2. CASE Text
  BY <1>2 DEF Text, Counted, Ran, RoundsAscend
<1>3. CASE Reply \/ Done \/ Abort
  BY <1>3 DEF Reply, Done, Abort, End, Counted, Ran, RoundsAscend
<1>4. ASSUME NEW id \in Id, NEW round \in Round, ToolCall(id, round) PROVE Counted'
  BY <1>4, CountedCall
<1>5. ASSUME NEW id \in Id, NEW round \in Round, Reject(id, round) PROVE Counted'
  BY <1>5 DEF Reject, End, Counted, Ran, RoundsAscend
<1> QED
  BY <1>1, <1>2, <1>3, <1>4, <1>5 DEF Next

LEMMA CountedAlways == Spec => []Counted
  BY CountedInit, CountedNext, PTL DEF Spec

\* The adapter's state is well typed, and no call runs that was not counted
\* (pi.go:119).
THEOREM TypeCorrect == Spec => []TypeOK
<1>1. Counted => TypeOK
  BY DEF Counted, TypeOK
<1> QED
  BY <1>1, CountedAlways, PTL

\* Calls run in the order of their rounds and none beyond the allowance, however
\* long the process goes on (pi.go:121).
THEOREM RoundOrder == Spec => []RoundsAscend
<1>1. Counted => RoundsAscend
  BY DEF Counted
<1> QED
  BY <1>1, CountedAlways, PTL

-----------------------------------------------------------------------------
\* Every step of the adapter is a step of the promise, or none.

LEMMA PromisedInit == Init => Loop!Init
  BY DEF Init, Loop!Init

LEMMA PromisedCall ==
    ASSUME Counted, NEW id \in Id, NEW round \in Round, ToolCall(id, round)
    PROVE  Loop!Next \/ UNCHANGED <<Ran, State>>
<1> DEFINE call == [id |-> id, round |-> round]
<1>1. /\ pc = "reading" /\ pc' = "replying"
      /\ id \notin seen /\ count + 1 <= Limit
      /\ executed' = IF Allowed(round) THEN Append(executed, call) ELSE executed
  BY DEF ToolCall, Correlated, Within
<1>2. State = "running" /\ State' = "running"
  BY <1>1 DEF State
<1>3. CASE ~Allowed(round)
  BY <1>1, <1>2, <1>3 DEF Ran
<1>4. CASE Allowed(round)
  <2>1. /\ DOMAIN executed' = 1..(Len(executed) + 1)
        /\ DOMAIN executed = 1..Len(executed)
        /\ executed'[Len(executed) + 1] = call
        /\ \A n \in DOMAIN executed : executed'[n] = executed[n]
        /\ Len(executed) \in Nat
    BY <1>1, <1>4 DEF Counted
  <2>2. Ran' = Ran \union {id}
    BY <2>1 DEF Ran
  <2>3. id \notin Ran /\ Cardinality(Ran) < Limit
    <3>1. Cardinality(Ran) <= Cardinality(seen)
      BY FS_Subset DEF Counted
    <3>2. Cardinality(Ran) \in Nat /\ Cardinality(seen) \in Nat
      BY FS_Subset, FS_CardinalityType DEF Counted
    <3> QED
      BY <3>1, <3>2, <1>1 DEF Counted
  <2>4. Loop!Cardinality(Ran) = Cardinality(Ran)
    BY DEF Loop!Cardinality, Cardinality
  <2>5. Loop!Execute(id)
    BY <1>2, <2>2, <2>3, <2>4 DEF Loop!Execute, Ran, State
  <2> QED
    BY <2>5 DEF Loop!Next
<1> QED
  BY <1>3, <1>4

\* The run ends with success or an error from wherever it is.
LEMMA PromisedEnd ==
    ASSUME Counted, pc \in {"reading", "replying"}, NEW how \in {"reading", "done", "failed"}, End(how)
    PROVE  Loop!Next \/ UNCHANGED <<Ran, State>>
  BY DEF End, Loop!Next, Loop!Succeed, Loop!Fail, Ran, State

LEMMA PromisedNext ==
    Counted /\ [Next]_vars => [Loop!Next]_<<Ran, State>>
<1> SUFFICES ASSUME Counted, [Next]_vars PROVE Loop!Next \/ UNCHANGED <<Ran, State>>
  OBVIOUS
<1>1. CASE UNCHANGED vars
  BY <1>1 DEF vars, Ran, State
<1>2. CASE Text
  BY <1>2 DEF Text, Loop!Next, Loop!Fail, Ran, State
<1>3. CASE Reply \/ Done \/ Abort
  BY <1>3, PromisedEnd DEF Reply, Done, Abort
<1>4. ASSUME NEW id \in Id, NEW round \in Round, ToolCall(id, round)
      PROVE  Loop!Next \/ UNCHANGED <<Ran, State>>
  BY <1>4, PromisedCall
<1>5. ASSUME NEW id \in Id, NEW round \in Round, Reject(id, round)
      PROVE  Loop!Next \/ UNCHANGED <<Ran, State>>
  BY <1>5, PromisedEnd DEF Reject
<1> QED
  BY <1>1, <1>2, <1>3, <1>4, <1>5 DEF Next

\* The adapters implement the abstract loop: each call runs once, at most Limit
\* of them, and the run ends once (pi.go:119, claude.go).
THEOREM Promise == Spec => KeepsPromise
<1>1. Init => Loop!Init
  BY PromisedInit
<1>2. Counted /\ [Next]_vars => [Loop!Next]_<<Ran, State>>
  BY PromisedNext
<1> QED
  BY <1>1, <1>2, CountedAlways, PTL DEF Spec, KeepsPromise, Loop!Spec, Loop!vars, Ran, State

-----------------------------------------------------------------------------
(* The built-in runtime.                                                    *)

CONSTANTS MaxBatch, RoundBound, Repeats, Follows, None
VARIABLES
    builtinPc, pass, round, response, next, running, prepared, builtinSeen, calls,
    broken, closed, builtinExecuted, answered, before

Builtin == INSTANCE BuiltinRuntime WITH
    pc <- builtinPc, seen <- builtinSeen, executed <- builtinExecuted

BuiltinAssumptions ==
    Builtin!LimitAssumption /\ Builtin!SwitchAssumption /\ Builtin!NoneAssumption

\* A call by its round and its place there, the calls of the response that are still
\* to be dispatched, and what has been executed.
Places == [round : Nat, at : Nat]
Here(i) == [round |-> round, at |-> i]
Left == next..Len(response)
DonePlaces == {builtinExecuted[n].place : n \in DOMAIN builtinExecuted}
Ids == {builtinExecuted[n].id : n \in DOMAIN builtinExecuted}

BTyped ==
    /\ builtinPc \in {"asking", "dispatching", "done", "failed"}
    /\ pass \in 1..2 /\ round \in Nat /\ next \in Nat
    /\ response \in Seq(Id) /\ running \subseteq 1..Len(response)
    /\ prepared \in [Id -> Places \union {None}]
    /\ builtinSeen \subseteq Id /\ IsFiniteSet(builtinSeen) /\ calls = Cardinality(builtinSeen)
    /\ broken \in BOOLEAN /\ closed \in BOOLEAN
    /\ builtinExecuted \in Seq([id : Id, place : Places])
    /\ IsFiniteSet(Ids) /\ Cardinality(Ids) <= Len(builtinExecuted)
    /\ answered \subseteq [call : Places, by : Places]

\* Where the loop is in its response, and which rounds have been executed.
BPlaced ==
    /\ builtinPc # "dispatching" => response = <<>> /\ next = 1
    /\ builtinPc = "dispatching" => next \in 1..Len(response) /\ ~Builtin!Exhausted(round)
    /\ running # {} => next = 1
    /\ \A i \in running : Here(i) \notin DonePlaces
    /\ \A p \in DonePlaces : p.round <= round
    /\ builtinPc = "done" => ~broken

\* The calls that are left were executed ahead, or are about to be, or none was.
Ahead ==
    /\ \A i \in Left : i \in running \/ Here(i) \in DonePlaces
    /\ Len(builtinExecuted) + Cardinality(running) = calls + Len(response) + 1 - next
    /\ calls + Len(response) + 1 - next <= Limit
Behind ==
    /\ running = {} /\ \A i \in Left : Here(i) \notin DonePlaces
    /\ Len(builtinExecuted) = calls /\ calls <= Limit

\* Until an id is found at fault: results are kept for calls that are left, and every
\* call that is not left has its answer.
Unbroken ==
    /\ Ahead \/ Behind
    /\ \A id \in Id : prepared[id] # None =>
          \E i \in Left : Here(i) \in DonePlaces /\ response[i] = id /\ prepared[id] = Here(i)
    /\ \A i \in Left : Here(i) \in DonePlaces =>
          response[i] \in builtinSeen \/ prepared[response[i]] # None
    /\ {a.call : a \in answered} = DonePlaces \ {Here(i) : i \in Left}

\* An id that came before is left: the run will be found at fault.
Doomed ==
    \/ broken
    \/ \E i \in Left : response[i] \in builtinSeen
    \/ \E i, j \in Left : i # j /\ response[i] = response[j]

\* Otherwise every id was executed once, and every answer is the call's own.
Sound ==
    /\ \A a \in answered : a.call = a.by
    /\ \A m, n \in DOMAIN builtinExecuted : builtinExecuted[m].id = builtinExecuted[n].id => m = n
    /\ \A n \in DOMAIN builtinExecuted :
          \/ builtinExecuted[n].id \in builtinSeen
          \/ \E i \in Left : builtinExecuted[n].id = response[i] /\ builtinExecuted[n].place = Here(i)

BInv ==
    /\ BTyped /\ BPlaced
    /\ ~broken => Unbroken
    /\ ~Doomed => Sound

LEMMA SameCardinality == \A S : Builtin!Cardinality(S) = Cardinality(S)
  BY DEF Builtin!Cardinality, Cardinality

LEMMA HereIsOne == ASSUME NEW i, NEW j, Here(i) = Here(j) PROVE i = j
  BY DEF Here

LEMMA OneMore ==
    ASSUME NEW S, IsFiniteSet(S), NEW x
    PROVE  /\ IsFiniteSet(S \union {x}) /\ Cardinality(S \union {x}) \in Nat /\ Cardinality(S) \in Nat
           /\ Cardinality(S \union {x}) = IF x \in S THEN Cardinality(S) ELSE Cardinality(S) + 1
<1>1. IsFiniteSet(S \union {x}) /\ Cardinality(S \union {x}) = IF x \in S THEN Cardinality(S) ELSE Cardinality(S) + 1
  BY FS_AddElement
<1> QED
  BY <1>1, FS_CardinalityType

\* What executing a call of the response adds.
LEMMA RunAdds ==
    ASSUME BTyped, NEW i \in 1..Len(response), Builtin!Run(i)
    PROVE  /\ builtinExecuted' \in Seq([id : Id, place : Places])
           /\ Len(builtinExecuted') = Len(builtinExecuted) + 1
           /\ DOMAIN builtinExecuted' = 1..(Len(builtinExecuted) + 1)
           /\ DOMAIN builtinExecuted = 1..Len(builtinExecuted) /\ Len(builtinExecuted) \in Nat
           /\ \A n \in DOMAIN builtinExecuted : builtinExecuted'[n] = builtinExecuted[n]
           /\ builtinExecuted'[Len(builtinExecuted) + 1] = [id |-> response[i], place |-> Here(i)]
           /\ DonePlaces' = DonePlaces \union {Here(i)}
           /\ Ids' = Ids \union {response[i]}
           /\ IsFiniteSet(Ids') /\ Cardinality(Ids') <= Len(builtinExecuted')
           /\ closed' \in BOOLEAN
<1> DEFINE call == [id |-> response[i], place |-> Here(i)]
<1>1. builtinExecuted' = Append(builtinExecuted, call)
  BY DEF Builtin!Run, Builtin!Place, Here
<1>2. call \in [id : Id, place : Places] /\ i \in Nat
  BY ElementOfSeq DEF BTyped, Here, Places
<1> HIDE DEF call
<1>3. /\ builtinExecuted' \in Seq([id : Id, place : Places])
      /\ Len(builtinExecuted') = Len(builtinExecuted) + 1
      /\ DOMAIN builtinExecuted' = 1..(Len(builtinExecuted) + 1)
      /\ DOMAIN builtinExecuted = 1..Len(builtinExecuted) /\ Len(builtinExecuted) \in Nat
      /\ \A n \in DOMAIN builtinExecuted : builtinExecuted'[n] = builtinExecuted[n]
      /\ builtinExecuted'[Len(builtinExecuted) + 1] = call
  BY <1>1, <1>2 DEF BTyped
<1>4. DonePlaces' = DonePlaces \union {call.place} /\ Ids' = Ids \union {call.id}
  BY <1>3 DEF DonePlaces, Ids
<1>5. call.place = Here(i) /\ call.id = response[i]
  BY DEF call
<1>6. IsFiniteSet(Ids') /\ Cardinality(Ids') \in Nat /\ Cardinality(Ids) \in Nat
      /\ Cardinality(Ids') = IF call.id \in Ids THEN Cardinality(Ids) ELSE Cardinality(Ids) + 1
  <2>1. IsFiniteSet(Ids)
    BY DEF BTyped
  <2> QED
    BY <1>4, <2>1, OneMore
<1>7. Cardinality(Ids') <= Len(builtinExecuted')
  BY <1>3, <1>6 DEF BTyped
<1>8. closed' \in BOOLEAN
  BY DEF Builtin!Run, BTyped
<1> QED
  BY <1>3, <1>4, <1>5, <1>6, <1>7, <1>8 DEF call

\* Going on takes the call that is dispatched off what is left.
LEMMA AdvanceLeaves ==
    ASSUME BTyped, BPlaced, builtinPc = "dispatching", Builtin!Advance, round' = round
    PROVE  /\ next \in Left /\ Left' = Left \ {next}
           /\ \A i \in Left' : response'[i] = response[i]
           /\ Len(response') + 1 - next' = Len(response) - next
           /\ response' \in Seq(Id) /\ next' \in Nat
           /\ builtinPc' \in {"asking", "dispatching"}
           /\ builtinPc' = "asking" => response' = <<>> /\ next' = 1
           /\ builtinPc' = "dispatching" => next' \in 1..Len(response')
           /\ \A i : Here(i)' = Here(i)
<1>1. next \in 1..Len(response) /\ Len(response) \in Nat /\ next \in Nat
  BY DEF BTyped, BPlaced
<1>2. CASE next < Len(response)
  BY <1>1, <1>2 DEF Builtin!Advance, Left, Here, BTyped
<1>3. CASE ~(next < Len(response))
  <2>1. next = Len(response) /\ next' = 1 /\ response' = <<>> /\ builtinPc' = "asking"
    BY <1>1, <1>3 DEF Builtin!Advance
  <2>2. Left = {next} /\ Left' = {}
    BY <1>1, <2>1 DEF Left
  <2> QED
    BY <1>1, <2>1, <2>2 DEF Here
<1> QED
  BY <1>2, <1>3

LEMMA Members == ASSUME NEW S, NEW s \in Seq(S) PROVE \A n \in DOMAIN s : s[n] \in S
<1>1. DOMAIN s = 1..Len(s)
  OBVIOUS
<1> QED
  BY <1>1, ElementOfSeq

\* Every call executed has a place, in a round that has been.
LEMMA PlacesAre ==
    ASSUME BTyped
    PROVE  /\ \A n \in DOMAIN builtinExecuted : builtinExecuted[n] \in [id : Id, place : Places]
           /\ DonePlaces \subseteq Places
<1>1. builtinExecuted \in Seq([id : Id, place : Places])
  BY DEF BTyped
<1>2. \A n \in DOMAIN builtinExecuted : builtinExecuted[n] \in [id : Id, place : Places]
  BY ONLY <1>1, Members
<1> QED
  BY <1>2 DEF DonePlaces

LEMMA NoCalls == ASSUME NEW S PROVE <<>> \in Seq(S) /\ Len(<<>>) = 0 /\ IsFiniteSet({}) /\ Cardinality({}) = 0
  BY FS_EmptySet

\* What one more answer adds, and what is left of a sum when both sides go on by one.
LEMMA CallsOf ==
    ASSUME NEW S, NEW x, NEW y
    PROVE  {a.call : a \in S \union {[call |-> x, by |-> y]}} = {a.call : a \in S} \union {x}
<1> DEFINE new == [call |-> x, by |-> y]
<1>1. new.call = x
  OBVIOUS
<1> HIDE DEF new
<1>2. {a.call : a \in S \union {new}} = {a.call : a \in S} \union {new.call}
  OBVIOUS
<1> QED
  BY <1>1, <1>2 DEF new

LEMMA SameSum ==
    ASSUME NEW c \in Nat, NEW l \in Nat, NEW n \in Nat, NEW m \in Nat, NEW o \in Nat,
           l + 1 - n = m - o
    PROVE  (c + 1) + l + 1 - n = c + m + 1 - o
  OBVIOUS

LEMMA BuiltinInit == BuiltinAssumptions /\ Builtin!Init => BInv
<1> SUFFICES ASSUME BuiltinAssumptions, Builtin!Init PROVE BInv
  OBVIOUS
<1>1. /\ builtinPc = "asking" /\ pass = 1 /\ round = 0 /\ response = <<>> /\ next = 1 /\ running = {}
      /\ prepared = [id \in Id |-> None] /\ builtinSeen = {} /\ calls = 0 /\ broken = FALSE
      /\ closed = FALSE /\ builtinExecuted = <<>> /\ answered = {}
  BY DEF Builtin!Init
<1>2. DonePlaces = {} /\ Ids = {} /\ Left = {}
  BY <1>1 DEF DonePlaces, Ids, Left
<1>3. BTyped
  <2>1. /\ response \in Seq(Id) /\ builtinExecuted \in Seq([id : Id, place : Places])
        /\ Len(response) = 0 /\ Len(builtinExecuted) = 0
        /\ IsFiniteSet(builtinSeen) /\ calls = Cardinality(builtinSeen)
        /\ IsFiniteSet(Ids) /\ Cardinality(Ids) = 0
    BY <1>1, <1>2, NoCalls
  <2>2. prepared \in [Id -> Places \union {None}]
    BY <1>1
  <2>3. /\ builtinPc \in {"asking", "dispatching", "done", "failed"} /\ pass \in 1..2
        /\ round \in Nat /\ next \in Nat /\ running \subseteq 1..Len(response)
    BY <1>1
  <2>4. /\ builtinSeen \subseteq Id /\ broken \in BOOLEAN /\ closed \in BOOLEAN
        /\ answered \subseteq [call : Places, by : Places]
    BY <1>1
  <2>5. Cardinality(Ids) <= Len(builtinExecuted)
    BY <2>1
  <2> QED
    BY ONLY <2>1, <2>2, <2>3, <2>4, <2>5 DEF BTyped
<1>4. BPlaced
  BY <1>1, <1>2 DEF BPlaced
<1>5. Unbroken
  BY <1>1, <1>2 DEF Unbroken, Behind, BuiltinAssumptions, Builtin!LimitAssumption
<1>6. Sound
  BY <1>1 DEF Sound
<1> QED
  BY <1>3, <1>4, <1>5, <1>6 DEF BInv

\* Between responses nothing is left, and every call is answered.
LEMMA NothingLeft ==
    ASSUME BInv, builtinPc # "dispatching"
    PROVE  /\ response = <<>> /\ next = 1 /\ running = {} /\ Left = {}
           /\ Doomed => broken
           /\ ~broken => /\ Len(builtinExecuted) = calls /\ calls <= Limit
                         /\ \A id \in Id : prepared[id] = None
                         /\ {a.call : a \in answered} = DonePlaces
                         /\ Sound
<1>1. response = <<>> /\ next = 1 /\ running = {} /\ Left = {}
  BY DEF BInv, BPlaced, BTyped, Left
<1>2. Doomed => broken
  BY <1>1 DEF Doomed
<1>3. ASSUME ~broken
      PROVE  /\ Len(builtinExecuted) = calls /\ calls <= Limit
             /\ \A id \in Id : prepared[id] = None
             /\ {a.call : a \in answered} = DonePlaces
  <2>1. Unbroken
    BY <1>3 DEF BInv
  <2>2. Len(builtinExecuted) \in Nat /\ calls \in Nat
    BY FS_CardinalityType DEF BInv, BTyped
  <2>3. Len(builtinExecuted) = calls /\ calls <= Limit
    BY <1>1, <2>1, <2>2, FS_EmptySet DEF Unbroken, Ahead, Behind
  <2> QED
    BY <1>1, <2>1, <2>3 DEF Unbroken
<1> QED
  BY <1>1, <1>2, <1>3 DEF BInv

LEMMA BuiltinCalls ==
    ASSUME BuiltinAssumptions, BInv, Builtin!CallTools
    PROVE  BInv'
<1>1. /\ builtinPc = "asking" /\ Builtin!Offered(round + 1) /\ round' = round + 1
      /\ next' = 1 /\ builtinPc' = "dispatching"
      /\ UNCHANGED <<pass, prepared, builtinSeen, calls, broken, closed, builtinExecuted, answered, before>>
  BY DEF Builtin!CallTools
<1>2. PICK batch \in Builtin!Responses :
        response' = batch /\ running' = IF Builtin!Prefetches(batch) THEN DOMAIN batch ELSE {}
  BY DEF Builtin!CallTools
<1>3. PICK k \in 1..MaxBatch : batch \in [1..k -> Id]
  BY DEF Builtin!Responses
<1>4. k \in Nat /\ k >= 1 /\ batch \in Seq(Id) /\ Len(batch) = k /\ DOMAIN batch = 1..k
  BY <1>3 DEF BuiltinAssumptions, Builtin!LimitAssumption
<1>5. round \in Nat /\ \A p \in DonePlaces : p \in Places /\ p.round <= round
  BY PlacesAre DEF BInv, BPlaced, BTyped
<1>6. DonePlaces' = DonePlaces /\ Ids' = Ids /\ Left' = 1..k
  BY <1>1, <1>2, <1>4 DEF DonePlaces, Ids, Left
<1>7. \A i : Here(i)' \notin DonePlaces
  BY <1>1, <1>5 DEF Here, Places
<1>8. running' = 1..k \/ running' = {}
  BY <1>2, <1>4
<1>9. BTyped'
  BY <1>1, <1>2, <1>4, <1>5, <1>6, <1>8 DEF BInv, BTyped
<1>10. BPlaced'
  <2>1. ~Builtin!Exhausted(round') /\ Builtin!Exhausted(round)' = Builtin!Exhausted(round')
    BY <1>1 DEF Builtin!Offered, Builtin!Exhausted
  <2>2. \A p \in DonePlaces : p.round <= round + 1
    BY <1>5 DEF Places
  <2> QED
    BY <1>1, <1>2, <1>4, <1>6, <1>7, <2>1, <2>2 DEF BPlaced
<1>11. ASSUME ~broken PROVE Unbroken'
  <2>1. /\ Len(builtinExecuted) = calls /\ calls <= Limit /\ calls \in Nat
        /\ \A id \in Id : prepared[id] = None
        /\ {a.call : a \in answered} = DonePlaces
    BY <1>1, <1>11, NothingLeft, FS_CardinalityType DEF BInv, BTyped
  <2>2. CASE Builtin!Prefetches(batch)
    <3>1. running' = 1..k /\ Cardinality(running') = k
      BY <1>2, <1>4, <2>2, FS_Interval
    <3>2. calls + k <= Limit
      BY <1>4, <2>2 DEF Builtin!Prefetches
    <3> QED
      BY <1>1, <1>2, <1>4, <1>6, <1>7, <2>1, <3>1, <3>2 DEF Unbroken, Ahead
  <2>3. CASE ~Builtin!Prefetches(batch)
    <3>1. running' = {}
      BY <1>2, <2>3
    <3> QED
      BY <1>1, <1>6, <1>7, <2>1, <3>1 DEF Unbroken, Behind
  <2> QED
    BY <2>2, <2>3
<1>12. ASSUME ~broken PROVE Sound'
  <2>1. Sound /\ Left = {}
    BY <1>1, <1>12, NothingLeft
  <2> QED
    BY <1>1, <2>1 DEF Sound
<1> QED
  BY <1>1, <1>9, <1>10, <1>11, <1>12 DEF BInv, Doomed

\* A run ends between responses.
LEMMA BuiltinEnds ==
    ASSUME BInv, Builtin!Finish \/ Builtin!Abort
    PROVE  BInv'
<1>1. /\ builtinPc = "asking" /\ builtinPc' \in {"done", "failed"} /\ (builtinPc' = "done" => ~broken)
      /\ round' \in {round, round + 1}
      /\ UNCHANGED <<pass, response, next, running, prepared, builtinSeen, calls, broken, closed,
                     builtinExecuted, answered, before>>
  BY DEF Builtin!Finish, Builtin!Abort
<1>2. Left = {} /\ running = {} /\ Left' = {} /\ DonePlaces' = DonePlaces /\ Ids' = Ids
  BY <1>1, NothingLeft DEF DonePlaces, Ids, Left
<1>3. round \in Nat /\ \A p \in DonePlaces : p \in Places /\ p.round <= round
  BY PlacesAre DEF BInv, BPlaced, BTyped
<1>4. BTyped'
  BY <1>1, <1>2, <1>3 DEF BInv, BTyped
<1>5. BPlaced'
  BY <1>1, <1>2, <1>3 DEF BInv, BPlaced, Places
<1>6. ASSUME ~broken PROVE Unbroken' /\ Sound'
  <2>1. Unbroken /\ Sound
    BY <1>1, <1>6, NothingLeft DEF BInv
  <2>2. Len(builtinExecuted) = calls /\ calls <= Limit
    BY <1>1, <1>6, NothingLeft
  <2>3. Unbroken'
    BY <1>1, <1>2, <2>1, <2>2 DEF Unbroken, Behind
  <2>4. Sound'
    BY <1>1, <1>2, <2>1 DEF Sound
  <2> QED
    BY <2>3, <2>4
<1> QED
  BY <1>1, <1>4, <1>5, <1>6 DEF BInv, Doomed

\* The second run of a turn begins like the first.
LEMMA BuiltinFollows ==
    ASSUME BuiltinAssumptions, BInv, Builtin!FollowThrough
    PROVE  BInv'
<1>1. /\ builtinPc' = "asking" /\ pass' = 2 /\ round' = 0 /\ response' = <<>> /\ next' = 1 /\ running' = {}
      /\ prepared' = [id \in Id |-> None] /\ builtinSeen' = {} /\ calls' = 0 /\ broken' = FALSE
      /\ closed' = FALSE /\ builtinExecuted' = <<>> /\ answered' = {}
  BY DEF Builtin!FollowThrough, Builtin!Start
<1>2. DonePlaces' = {} /\ Ids' = {} /\ Left' = {}
  BY <1>1 DEF DonePlaces, Ids, Left
<1>3. BTyped'
  <2>1. /\ response' \in Seq(Id) /\ builtinExecuted' \in Seq([id : Id, place : Places])
        /\ Len(response') = 0 /\ Len(builtinExecuted') = 0
        /\ IsFiniteSet(builtinSeen') /\ calls' = Cardinality(builtinSeen')
        /\ IsFiniteSet(Ids') /\ Cardinality(Ids') = 0
    BY <1>1, <1>2, NoCalls
  <2>2. prepared' \in [Id -> Places \union {None}]
    BY <1>1
  <2>3. /\ builtinPc' \in {"asking", "dispatching", "done", "failed"} /\ pass' \in 1..2
        /\ round' \in Nat /\ next' \in Nat /\ running' \subseteq 1..Len(response')
    BY <1>1
  <2>4. /\ builtinSeen' \subseteq Id /\ broken' \in BOOLEAN /\ closed' \in BOOLEAN
        /\ answered' \subseteq [call : Places, by : Places]
    BY <1>1
  <2>5. Cardinality(Ids') <= Len(builtinExecuted')
    BY <2>1
  <2> QED
    BY ONLY <2>1, <2>2, <2>3, <2>4, <2>5 DEF BTyped
<1>4. BPlaced'
  BY <1>1, <1>2 DEF BPlaced
<1>5. Unbroken'
  BY <1>1, <1>2 DEF Unbroken, Behind, BuiltinAssumptions, Builtin!LimitAssumption
<1>6. Sound'
  BY <1>1 DEF Sound
<1> QED
  BY <1>3, <1>4, <1>5, <1>6 DEF BInv

\* A call that is executed ahead keeps its result under its id.
LEMMA BuiltinPrefetches ==
    ASSUME BuiltinAssumptions, BInv, NEW i \in running, Builtin!Prefetch(i)
    PROVE  BInv'
<1>1. /\ builtinPc = "dispatching" /\ i \in running /\ Builtin!Run(i) /\ running' = running \ {i}
      /\ prepared' = [prepared EXCEPT ![response[i]] = Here(i)]
      /\ UNCHANGED <<builtinPc, pass, round, response, next, builtinSeen, calls, broken, answered, before>>
  BY DEF Builtin!Prefetch, Builtin!Place, Here
<1>2. /\ BTyped /\ BPlaced /\ next = 1 /\ i \in 1..Len(response) /\ i \in Left /\ response[i] \in Id
      /\ Here(i) \notin DonePlaces /\ i \in Nat /\ round \in Nat /\ Len(response) \in Nat
      /\ Here(i) \in Places
  <2>1. BTyped /\ BPlaced /\ next = 1 /\ i \in 1..Len(response) /\ Here(i) \notin DonePlaces
    BY <1>1 DEF BInv, BPlaced, BTyped
  <2>2. response[i] \in Id
    BY <2>1, ElementOfSeq DEF BTyped
  <2> QED
    BY <2>1, <2>2 DEF BTyped, Left, Here, Places
<1>3. /\ Left' = Left /\ (\A j : Here(j)' = Here(j))
      /\ DonePlaces' = DonePlaces \union {Here(i)}
  BY <1>1, <1>2, RunAdds DEF Left, Here
<1>4. /\ Here(i) # None /\ prepared'[response[i]] = Here(i)
      /\ \A id \in Id : id # response[i] => prepared'[id] = prepared[id]
  BY <1>1, <1>2 DEF BTyped, BuiltinAssumptions, Builtin!NoneAssumption, Places
<1>5. /\ IsFiniteSet(running) /\ Cardinality(running) \in Nat /\ Cardinality(running') \in Nat
      /\ Cardinality(running') = Cardinality(running) - 1
  <2>1. IsFiniteSet(1..Len(response)) /\ running \subseteq 1..Len(response)
    BY <1>2, FS_Interval DEF BTyped
  <2>2. IsFiniteSet(running)
    BY <2>1, FS_Subset
  <2>3. IsFiniteSet(running') /\ Cardinality(running') = Cardinality(running) - 1
    BY <1>1, <2>2, FS_RemoveElement
  <2> QED
    BY <2>2, <2>3, FS_CardinalityType
<1>6. BTyped'
  <2>1. prepared' \in [Id -> Places \union {None}]
    BY <1>1, <1>2 DEF BTyped
  <2> QED
    BY <1>1, <1>2, <2>1, RunAdds DEF BTyped
<1>7. BPlaced'
  <2>1. \A j \in running' : Here(j) # Here(i)
    BY <1>1, HereIsOne
  <2>2. \A p \in DonePlaces' : p.round <= round
    BY <1>2, <1>3 DEF BPlaced, Here
  <2>3. \A j \in running' : Here(j)' \notin DonePlaces'
    BY <1>1, <1>2, <1>3, <2>1 DEF BPlaced
  <2>4. Builtin!Exhausted(round)' = Builtin!Exhausted(round)
    BY <1>1 DEF Builtin!Exhausted
  <2> QED
    BY <1>1, <1>2, <2>2, <2>3, <2>4 DEF BPlaced
<1>8. ASSUME ~broken PROVE Unbroken'
  <2>1. Unbroken /\ running # {}
    BY <1>1, <1>8 DEF BInv
  <2>2. Ahead
    BY <2>1 DEF Unbroken, Behind
  <2>3. Ahead'
    <3>1. \A j \in Left' : j \in running' \/ Here(j)' \in DonePlaces'
      BY <1>1, <1>3, <2>2 DEF Ahead
    <3>2. Len(builtinExecuted') = Len(builtinExecuted) + 1 /\ Len(builtinExecuted) \in Nat
      BY <1>1, <1>2, RunAdds
    <3>3. Len(builtinExecuted') + Cardinality(running') = Len(builtinExecuted) + Cardinality(running)
      BY <1>5, <3>2
    <3> QED
      BY <1>1, <2>2, <3>1, <3>3 DEF Ahead
  <2>4. ASSUME NEW id \in Id, prepared'[id] # None
        PROVE  \E j \in Left' : Here(j)' \in DonePlaces' /\ response'[j] = id /\ prepared'[id] = Here(j)'
    <3>1. CASE id = response[i]
      BY <1>1, <1>2, <1>3, <1>4, <3>1
    <3>2. CASE id # response[i]
      BY <1>1, <1>3, <1>4, <2>1, <2>4, <3>2 DEF Unbroken
    <3> QED
      BY <3>1, <3>2
  <2>5. ASSUME NEW j \in Left', Here(j)' \in DonePlaces'
        PROVE  response'[j] \in builtinSeen' \/ prepared'[response'[j]] # None
    <3>1. CASE response[j] = response[i]
      BY <1>1, <1>4, <3>1
    <3>2. CASE response[j] # response[i]
      <4>1. j \in Left /\ Here(j) \in DonePlaces /\ response[j] \in Id
        <5>1. j # i /\ j \in Left
          BY <1>3, <3>2
        <5>2. Here(j) \in DonePlaces
          BY <1>3, <2>5, <5>1, HereIsOne
        <5>3. j \in 1..Len(response)
          BY <1>2, <5>1 DEF Left
        <5> QED
          BY <1>2, <5>1, <5>2, <5>3, ElementOfSeq DEF BTyped
      <4>2. response[j] \in builtinSeen \/ prepared[response[j]] # None
        BY <2>1, <4>1 DEF Unbroken
      <4> QED
        BY <1>1, <1>4, <3>2, <4>1, <4>2
    <3> QED
      BY <3>1, <3>2
  <2>6. {a.call : a \in answered'} = DonePlaces' \ {Here(j)' : j \in Left'}
    <3>1. {a.call : a \in answered} = DonePlaces \ {Here(j) : j \in Left}
      BY <2>1 DEF Unbroken
    <3>2. {Here(j)' : j \in Left'} = {Here(j) : j \in Left}
      BY <1>3
    <3>3. Here(i) \in {Here(j) : j \in Left}
      BY <1>2
    <3> HIDE DEF Here
    <3> QED
      BY <1>1, <1>3, <3>1, <3>2, <3>3
  <2> QED
    BY <2>3, <2>4, <2>5, <2>6 DEF Unbroken
<1>9. ASSUME ~Doomed' PROVE Sound'
  <2>1. ~Doomed /\ Sound
    BY <1>1, <1>3, <1>9 DEF Doomed, BInv
  <2> DEFINE N == Len(builtinExecuted) + 1
  <2>2. /\ DOMAIN builtinExecuted' = 1..N /\ DOMAIN builtinExecuted = 1..(N - 1) /\ N \in Nat \ {0}
        /\ \A n \in 1..(N - 1) : builtinExecuted'[n] = builtinExecuted[n]
        /\ builtinExecuted'[N].id = response[i] /\ builtinExecuted'[N].place = Here(i)
    <3>1. /\ DOMAIN builtinExecuted' = 1..N /\ N = Len(builtinExecuted) + 1
          /\ DOMAIN builtinExecuted = 1..Len(builtinExecuted) /\ Len(builtinExecuted) \in Nat
          /\ \A n \in DOMAIN builtinExecuted : builtinExecuted'[n] = builtinExecuted[n]
          /\ builtinExecuted'[N] = [id |-> response[i], place |-> Here(i)]
      BY <1>1, <1>2, RunAdds
    <3> HIDE DEF N
    <3>2. N - 1 = Len(builtinExecuted) /\ N \in Nat \ {0}
      BY <3>1
    <3>3. builtinExecuted'[N].id = response[i] /\ builtinExecuted'[N].place = Here(i)
      BY <3>1
    <3> QED
      BY <3>1, <3>2, <3>3
  <2> HIDE DEF N
  <2>3. \A n \in 1..(N - 1) : builtinExecuted[n].id # response[i]
    <3> SUFFICES ASSUME NEW n \in 1..(N - 1), builtinExecuted[n].id = response[i] PROVE FALSE
      OBVIOUS
    <3>1. builtinExecuted[n].id \notin builtinSeen
      BY <1>2, <2>1 DEF Doomed
    <3>2. PICK j \in Left : builtinExecuted[n].id = response[j] /\ builtinExecuted[n].place = Here(j)
      BY <2>1, <2>2, <3>1 DEF Sound
    <3>3. j = i
      BY <1>2, <2>1, <3>2 DEF Doomed
    <3> QED
      BY <1>2, <2>2, <3>2, <3>3 DEF DonePlaces
  <2>4. \A n \in 1..N : n = N \/ n \in 1..(N - 1)
    BY <2>2
  <2>5. \A m, n \in 1..N : builtinExecuted'[m].id = builtinExecuted'[n].id => m = n
    BY <2>1, <2>2, <2>3, <2>4 DEF Sound
  <2>6. \A n \in 1..N :
          \/ builtinExecuted'[n].id \in builtinSeen
          \/ \E j \in Left : builtinExecuted'[n].id = response[j] /\ builtinExecuted'[n].place = Here(j)
    BY SMTT(60), <1>2, <2>1, <2>2, <2>4 DEF Sound
  <2> QED
    BY <1>1, <1>3, <2>1, <2>2, <2>5, <2>6 DEF Sound
<1> QED
  BY <1>1, <1>6, <1>7, <1>8, <1>9 DEF BInv

\* An id at fault breaks the run; nothing is promised of a broken run but its shape.
LEMMA BuiltinRefuses ==
    ASSUME BInv, Builtin!Refuse
    PROVE  BInv'
<1>1. /\ builtinPc = "dispatching" /\ running = {} /\ broken' = TRUE /\ Builtin!Advance
      /\ \/ UNCHANGED <<builtinSeen, calls>>
         \/ /\ response[next] \notin builtinSeen
            /\ builtinSeen' = builtinSeen \union {response[next]} /\ calls' = calls + 1
      /\ UNCHANGED <<pass, round, running, prepared, closed, builtinExecuted, answered, before>>
  BY DEF Builtin!Refuse, Builtin!Known
<1>2. /\ BTyped /\ BPlaced /\ next \in 1..Len(response)
      /\ response[next] \in Id /\ DonePlaces' = DonePlaces /\ Ids' = Ids
  <2>1. BTyped /\ BPlaced /\ next \in 1..Len(response)
    BY <1>1 DEF BInv, BPlaced
  <2> QED
    BY <1>1, <2>1, ElementOfSeq DEF BTyped, DonePlaces, Ids
<1>3. builtinSeen' \subseteq Id /\ IsFiniteSet(builtinSeen') /\ calls' = Cardinality(builtinSeen')
  <2>1. CASE UNCHANGED <<builtinSeen, calls>>
    BY <1>2, <2>1 DEF BTyped
  <2>2. CASE ~UNCHANGED <<builtinSeen, calls>>
    <3>1. /\ response[next] \notin builtinSeen
          /\ builtinSeen' = builtinSeen \union {response[next]} /\ calls' = calls + 1
      BY <1>1, <2>2
    <3> QED
      BY <1>2, <3>1, FS_AddElement DEF BTyped
  <2> QED
    BY <2>1, <2>2
<1>4. BTyped'
  <2>1. response' \in Seq(Id) /\ next' \in Nat /\ builtinPc' \in {"asking", "dispatching"}
    BY <1>1, <1>2, AdvanceLeaves
  <2> QED
    BY <1>1, <1>2, <1>3, <2>1 DEF BTyped
<1>5. BPlaced'
  <2>1. /\ builtinPc' \in {"asking", "dispatching"}
        /\ builtinPc' = "asking" => response' = <<>> /\ next' = 1
        /\ builtinPc' = "dispatching" => next' \in 1..Len(response')
    BY <1>1, <1>2, AdvanceLeaves
  <2>2. Builtin!Exhausted(round)' = Builtin!Exhausted(round)
    BY <1>1 DEF Builtin!Exhausted
  <2> QED
    BY <1>1, <1>2, <2>1, <2>2 DEF BPlaced
<1> QED
  BY <1>1, <1>4, <1>5 DEF BInv, Doomed

\* A call that is dispatched has its answer, its own as long as no id came twice.
LEMMA BuiltinAnswers ==
    ASSUME BuiltinAssumptions, BInv, Builtin!Answer
    PROVE  BInv'
<1> DEFINE id == response[next]
           kept == prepared[id] # None
           by == IF kept THEN prepared[id] ELSE Here(next)
<1>1. /\ builtinPc = "dispatching" /\ running = {} /\ Builtin!Advance
      /\ id \notin builtinSeen /\ calls + 1 <= Limit
      /\ builtinSeen' = builtinSeen \union {id} /\ calls' = calls + 1
      /\ answered' = answered \union {[call |-> Here(next), by |-> by]}
      /\ kept => /\ prepared' = [prepared EXCEPT ![id] = None]
                 /\ UNCHANGED <<builtinExecuted, closed>>
      /\ ~kept => Builtin!Run(next) /\ UNCHANGED prepared
      /\ UNCHANGED <<pass, round, running, broken, before>>
  BY DEF Builtin!Answer, Builtin!Known, Builtin!Place, Here
<1>2. /\ BTyped /\ BPlaced /\ next \in 1..Len(response) /\ id \in Id
      /\ Here(next) \in Places /\ round \in Nat /\ Len(response) \in Nat /\ next \in Nat
  <2>1. BTyped /\ BPlaced /\ next \in 1..Len(response)
    BY <1>1 DEF BInv, BPlaced
  <2>2. id \in Id
    BY <2>1, ElementOfSeq DEF BTyped
  <2> QED
    BY <2>1, <2>2 DEF BTyped, Here, Places
<1> HIDE DEF id, kept, by
<1>3. /\ next \in Left /\ Left' = Left \ {next}
      /\ \A j \in Left' : response'[j] = response[j]
      /\ Len(response') + 1 - next' = Len(response) - next
      /\ response' \in Seq(Id) /\ next' \in Nat
      /\ builtinPc' \in {"asking", "dispatching"}
      /\ builtinPc' = "asking" => response' = <<>> /\ next' = 1
      /\ builtinPc' = "dispatching" => next' \in 1..Len(response')
      /\ \A j : Here(j)' = Here(j)
  BY <1>1, <1>2, AdvanceLeaves
<1>4. /\ \A j \in Left : j \in 1..Len(response) /\ response[j] \in Id
      /\ id = response[next]
  <2>1. \A j \in Left : j \in 1..Len(response)
    BY <1>2 DEF Left
  <2>2. \A j \in 1..Len(response) : response[j] \in Id
    BY <1>2, ElementOfSeq DEF BTyped
  <2> QED
    BY <2>1, <2>2 DEF id
<1>5. /\ DonePlaces' = IF kept THEN DonePlaces ELSE DonePlaces \union {Here(next)}
      /\ Ids' = IF kept THEN Ids ELSE Ids \union {id}
      /\ builtinExecuted' \in Seq([id : Id, place : Places])
      /\ IsFiniteSet(Ids') /\ Cardinality(Ids') <= Len(builtinExecuted') /\ closed' \in BOOLEAN
      /\ Len(builtinExecuted') = IF kept THEN Len(builtinExecuted) ELSE Len(builtinExecuted) + 1
  <2>1. CASE kept
    BY <1>1, <1>2, <2>1 DEF DonePlaces, Ids, BTyped
  <2>2. CASE ~kept
    BY <1>1, <1>2, <1>4, <2>2, RunAdds
  <2> QED
    BY <2>1, <2>2
<1>6. BTyped'
  <2>1. builtinSeen' \subseteq Id /\ IsFiniteSet(builtinSeen') /\ calls' = Cardinality(builtinSeen')
    BY <1>1, <1>2, FS_AddElement DEF BTyped
  <2>2. prepared' \in [Id -> Places \union {None}]
    BY <1>1, <1>2 DEF BTyped
  <2>3. by \in Places
    BY <1>2 DEF by, kept, BTyped
  <2>4. answered' \subseteq [call : Places, by : Places]
    BY <1>1, <1>2, <2>3 DEF BTyped
  <2> QED
    BY <1>1, <1>2, <1>3, <1>5, <2>1, <2>2, <2>4 DEF BTyped
<1>7. BPlaced'
  <2>1. \A p \in DonePlaces' : p.round <= round
    BY <1>2, <1>5 DEF BPlaced, Here
  <2>2. Builtin!Exhausted(round)' = Builtin!Exhausted(round)
    BY <1>1 DEF Builtin!Exhausted
  <2> QED
    BY <1>1, <1>2, <1>3, <2>1, <2>2 DEF BPlaced
<1>8. ASSUME ~broken
      PROVE  /\ kept => /\ \A j \in Left : Here(j) \in DonePlaces
                        /\ Len(builtinExecuted) = calls + Len(response) + 1 - next
                        /\ calls + Len(response) + 1 - next <= Limit
             /\ ~kept => Behind
  <2>1. Unbroken
    BY <1>8 DEF BInv
  <2>2. CASE kept
    <3>1. PICK j \in Left : Here(j) \in DonePlaces
      BY <1>2, <2>1, <2>2 DEF Unbroken, kept
    <3>2. Ahead
      BY <2>1, <3>1 DEF Unbroken, Behind
    <3>3. Cardinality(running) = 0 /\ Len(builtinExecuted) \in Nat
      BY <1>1, <1>2, FS_EmptySet DEF BTyped
    <3> QED
      BY <1>1, <2>2, <3>2, <3>3 DEF Ahead
  <2>3. CASE ~kept
    <3>1. Here(next) \notin DonePlaces
      BY <1>1, <1>3, <1>4, <2>1, <2>3 DEF Unbroken, kept
    <3> QED
      BY <1>1, <1>3, <2>1, <2>3, <3>1 DEF Unbroken, Ahead
  <2> QED
    BY <2>2, <2>3
<1>9. ASSUME ~broken PROVE Unbroken'
  <2>1. Unbroken
    BY <1>9 DEF BInv
  <2>2. calls \in Nat /\ Len(builtinExecuted) \in Nat /\ Limit \in Nat
    BY <1>2, FS_CardinalityType DEF BTyped, BuiltinAssumptions, Builtin!LimitAssumption
  <2>3. Ahead' \/ Behind'
    <3>1. CASE kept
      <4>1. \A j \in Left' : Here(j)' \in DonePlaces'
        BY <1>3, <1>5, <1>8, <1>9, <3>1
      <4>2. Cardinality(running') = 0
        BY <1>1, FS_EmptySet
      <4>3. calls' + Len(response') + 1 - next' = calls + Len(response) + 1 - next
        <5>1. Len(response') \in Nat /\ Len(response) \in Nat /\ next \in Nat /\ next' \in Nat
          BY <1>2, <1>3
        <5>2. Len(response') + 1 - next' = Len(response) - next /\ calls' = calls + 1
          BY <1>1, <1>3
        <5> QED
          BY ONLY <2>2, <5>1, <5>2, SameSum
      <4>4. Len(builtinExecuted') + Cardinality(running') = calls' + Len(response') + 1 - next'
        BY <1>5, <1>8, <1>9, <2>2, <3>1, <4>2, <4>3
      <4> QED
        BY <1>8, <1>9, <3>1, <4>1, <4>3, <4>4 DEF Ahead
    <3>2. CASE ~kept
      <4>1. Behind
        BY <1>8, <1>9, <3>2
      <4>2. \A j \in Left' : Here(j)' \notin DonePlaces'
        BY <1>3, <1>5, <3>2, <4>1, HereIsOne DEF Behind
      <4>3. Len(builtinExecuted') = calls' /\ calls' <= Limit
        BY <1>1, <1>5, <3>2, <4>1 DEF Behind
      <4> QED
        BY <1>1, <4>2, <4>3 DEF Behind
    <3> QED
      BY <3>1, <3>2
  <2>4. ASSUME NEW other \in Id, prepared'[other] # None
        PROVE  \E j \in Left' : Here(j)' \in DonePlaces' /\ response'[j] = other /\ prepared'[other] = Here(j)'
    <3>1. CASE kept
      <4>1. other # id /\ prepared'[other] = prepared[other]
        BY <1>1, <1>2, <2>4, <3>1 DEF BTyped
      <4>2. PICK j \in Left : Here(j) \in DonePlaces /\ response[j] = other /\ prepared[other] = Here(j)
        BY <2>1, <2>4, <4>1 DEF Unbroken
      <4>3. j \in Left'
        BY <1>3, <1>4, <4>1, <4>2
      <4> QED
        BY <1>3, <1>5, <3>1, <4>1, <4>2, <4>3
    <3>2. CASE ~kept
      <4>1. prepared[other] # None
        BY <1>1, <2>4, <3>2
      <4>2. PICK j \in Left : Here(j) \in DonePlaces
        BY <2>1, <4>1 DEF Unbroken
      <4> QED
        BY <1>8, <1>9, <3>2, <4>2 DEF Behind
    <3> QED
      BY <3>1, <3>2
  <2>5. ASSUME NEW j \in Left', Here(j)' \in DonePlaces'
        PROVE  response'[j] \in builtinSeen' \/ prepared'[response'[j]] # None
    <3>1. j \in Left /\ j # next /\ response'[j] = response[j] /\ response[j] \in Id
      BY <1>3, <1>4, <2>5
    <3>2. Here(j) \in DonePlaces /\ kept
      <4>1. Here(j) \in DonePlaces
        BY <1>3, <1>5, <2>5, <3>1, HereIsOne
      <4> QED
        BY <1>8, <1>9, <3>1, <4>1 DEF Behind
    <3>3. response[j] \in builtinSeen \/ prepared[response[j]] # None
      BY <2>1, <3>1, <3>2 DEF Unbroken
    <3>4. CASE response[j] = id
      BY <1>1, <3>1, <3>4
    <3>5. CASE response[j] # id
      BY <1>1, <1>2, <3>1, <3>2, <3>3, <3>5 DEF BTyped
    <3> QED
      BY <3>4, <3>5
  <2>6. {a.call : a \in answered'} = DonePlaces' \ {Here(j)' : j \in Left'}
    <3>1. {a.call : a \in answered} = DonePlaces \ {Here(j) : j \in Left}
      BY <2>1 DEF Unbroken
    <3>2. {a.call : a \in answered'} = {a.call : a \in answered} \union {Here(next)}
      BY <1>1, CallsOf
    <3>3. {Here(j)' : j \in Left'} = {Here(j) : j \in Left} \ {Here(next)}
      BY <1>3, HereIsOne
    <3>4. Here(next) \in {Here(j) : j \in Left} /\ Here(next) \in DonePlaces'
      <4>1. Here(next) \in DonePlaces'
        BY <1>3, <1>5, <1>8, <1>9
      <4> QED
        BY <1>3, <4>1
    <3>5. DonePlaces' \ {Here(next)} = DonePlaces \ {Here(next)}
      BY <1>5
    <3> HIDE DEF Here
    <3> QED
      BY <3>1, <3>2, <3>3, <3>4, <3>5
  <2> QED
    BY <2>3, <2>4, <2>5, <2>6 DEF Unbroken
<1>10. ASSUME ~Doomed' PROVE Sound'
  <2>1. ~Doomed /\ Sound
    <3>1. ~broken
      BY <1>1, <1>10 DEF Doomed
    <3>2. \A j \in Left : response[j] \notin builtinSeen
      BY <1>1, <1>3, <1>4, <1>10 DEF Doomed
    <3>3. \A i, j \in Left : i # j => response[i] # response[j]
      BY <1>1, <1>3, <1>4, <1>10 DEF Doomed
    <3> QED
      BY <3>1, <3>2, <3>3 DEF Doomed, BInv
  <2>2. Unbroken /\ ~broken
    BY <2>1 DEF BInv, Doomed
  <2>3. \A a \in answered' : a.call = a.by
    <3>1. by = Here(next)
      <4>1. CASE kept
        <5>1. PICK j \in Left : response[j] = id /\ prepared[id] = Here(j)
          BY <1>2, <2>2, <4>1 DEF Unbroken, kept
        <5>2. j = next
          BY <1>3, <1>4, <2>1, <5>1 DEF Doomed
        <5> QED
          BY <4>1, <5>1, <5>2 DEF by
      <4>2. CASE ~kept
        BY <4>2 DEF by
      <4> QED
        BY <4>1, <4>2
    <3> QED
      BY <1>1, <2>1, <3>1 DEF Sound
  <2>4. CASE kept
    <3>1. builtinExecuted' = builtinExecuted
      BY <1>1, <2>4
    <3>2. ASSUME NEW n \in DOMAIN builtinExecuted
          PROVE  \/ builtinExecuted[n].id \in builtinSeen'
                 \/ \E j \in Left' : builtinExecuted[n].id = response'[j] /\ builtinExecuted[n].place = Here(j)'
      <4>1. CASE builtinExecuted[n].id \in builtinSeen
        BY <1>1, <4>1
      <4>2. CASE builtinExecuted[n].id \notin builtinSeen
        <5>1. PICK j \in Left : builtinExecuted[n].id = response[j] /\ builtinExecuted[n].place = Here(j)
          BY <2>1, <4>2 DEF Sound
        <5> QED
          BY <1>1, <1>3, <1>4, <5>1
      <4> QED
        BY <4>1, <4>2
    <3>3. \A m, n \in DOMAIN builtinExecuted : builtinExecuted[m].id = builtinExecuted[n].id => m = n
      BY <2>1 DEF Sound
    <3> QED
      BY <2>3, <3>1, <3>2, <3>3 DEF Sound
  <2>5. CASE ~kept
    <3> DEFINE N == Len(builtinExecuted) + 1
    <3>1. /\ DOMAIN builtinExecuted' = 1..N /\ N = Len(builtinExecuted) + 1
          /\ DOMAIN builtinExecuted = 1..Len(builtinExecuted) /\ Len(builtinExecuted) \in Nat
          /\ \A n \in DOMAIN builtinExecuted : builtinExecuted'[n] = builtinExecuted[n]
          /\ builtinExecuted'[N] = [id |-> id, place |-> Here(next)]
      BY <1>1, <1>2, <1>4, <2>5, RunAdds
    <3> HIDE DEF N
    <3>2. /\ N \in Nat /\ DOMAIN builtinExecuted = 1..(N - 1)
          /\ \A n \in 1..N : n = N \/ n \in 1..(N - 1)
      BY <3>1
    <3>3. builtinExecuted'[N].id = id
      BY <3>1
    <3>4. \A n \in 1..(N - 1) : builtinExecuted'[n] = builtinExecuted[n]
      BY <3>1, <3>2
    <3>5. \A n \in 1..(N - 1) : builtinExecuted[n].id \in builtinSeen
      <4> SUFFICES ASSUME NEW n \in 1..(N - 1), builtinExecuted[n].id \notin builtinSeen PROVE FALSE
        OBVIOUS
      <4>1. PICK j \in Left : builtinExecuted[n].place = Here(j)
        BY <2>1, <3>2 DEF Sound
      <4>2. builtinExecuted[n].place \in DonePlaces
        BY <3>2 DEF DonePlaces
      <4> QED
        BY <1>8, <2>2, <2>5, <4>1, <4>2 DEF Behind
    <3>6. \A m, n \in 1..N : builtinExecuted'[m].id = builtinExecuted'[n].id => m = n
      BY <1>1, <2>1, <3>2, <3>3, <3>4, <3>5 DEF Sound
    <3>7. \A n \in 1..N : builtinExecuted'[n].id \in builtinSeen'
      BY <1>1, <3>2, <3>3, <3>4, <3>5
    <3> QED
      BY <2>3, <3>1, <3>6, <3>7 DEF Sound
  <2> QED
    BY <2>4, <2>5
<1> QED
  BY <1>1, <1>6, <1>7, <1>9, <1>10 DEF BInv

LEMMA BuiltinNext ==
    ASSUME BuiltinAssumptions, BInv, [Builtin!Next]_(Builtin!vars)
    PROVE  BInv'
<1>1. CASE Builtin!CallTools
  BY <1>1, BuiltinCalls
<1>2. CASE Builtin!Finish \/ Builtin!Abort
  BY <1>2, BuiltinEnds
<1>3. ASSUME NEW i \in running, Builtin!Prefetch(i) PROVE BInv'
  BY <1>3, BuiltinPrefetches
<1>4. CASE Builtin!Refuse
  BY <1>4, BuiltinRefuses
<1>5. CASE Builtin!Answer
  BY <1>5, BuiltinAnswers
<1>6. CASE Builtin!FollowThrough
  BY <1>6, BuiltinFollows
<1>7. CASE UNCHANGED Builtin!vars
  <2>1. UNCHANGED <<builtinPc, pass, round, response, next, running, prepared, builtinSeen, calls,
                    broken, closed, builtinExecuted, answered>>
    BY <1>7 DEF Builtin!vars
  <2>2. Left' = Left /\ DonePlaces' = DonePlaces /\ Ids' = Ids /\ \A i : Here(i)' = Here(i)
    BY <2>1 DEF Left, DonePlaces, Ids, Here
  <2>3. BTyped' = BTyped
    BY <2>1, <2>2, Zenon DEF BTyped
  <2>4. BPlaced => BPlaced'
    <3>1. Builtin!Exhausted(round)' = Builtin!Exhausted(round)
      BY <2>1 DEF Builtin!Exhausted
    <3> QED
      BY <2>1, <2>2, <3>1 DEF BPlaced
  <2>5. Unbroken => Unbroken'
    <3>1. Ahead => Ahead'
      BY <2>1, <2>2 DEF Ahead
    <3>2. Behind => Behind'
      BY <2>1, <2>2 DEF Behind
    <3> QED
      BY <2>1, <2>2, <3>1, <3>2 DEF Unbroken
  <2>6. Sound => Sound'
    BY <2>1, <2>2 DEF Sound
  <2>7. Doomed => Doomed'
    BY <2>1, <2>2 DEF Doomed
  <2> QED
    BY <2>1, <2>3, <2>4, <2>5, <2>6, <2>7 DEF BInv
<1> QED
  BY <1>1, <1>2, <1>3, <1>4, <1>5, <1>6, <1>7 DEF Builtin!Next

LEMMA BuiltinAlways == BuiltinAssumptions => (Builtin!Spec => []BInv)
<1>1. BuiltinAssumptions /\ Builtin!Init => BInv
  BY BuiltinInit
<1>2. BuiltinAssumptions /\ BInv /\ [Builtin!Next]_(Builtin!vars) => BInv'
  BY BuiltinNext
<1> SUFFICES ASSUME BuiltinAssumptions PROVE Builtin!Spec => []BInv
  OBVIOUS
<1>3. Builtin!Init => BInv
  BY <1>1
<1>4. BInv /\ [Builtin!Next]_(Builtin!vars) => BInv'
  BY <1>2
<1> QED
  BY <1>3, <1>4, PTL DEF Builtin!Spec

LEMMA WithinLimit == BInv => Builtin!CallsWithinLimit
<1> SUFFICES ASSUME BInv, ~broken PROVE Len(builtinExecuted) <= Limit
  BY DEF Builtin!CallsWithinLimit
<1>1. Unbroken /\ Len(builtinExecuted) \in Nat
  BY DEF BInv, BTyped
<1>2. Cardinality(running) \in Nat
  <2>1. IsFiniteSet(1..Len(response)) /\ running \subseteq 1..Len(response)
    BY FS_Interval DEF BInv, BTyped
  <2> QED
    BY <2>1, FS_Subset, FS_CardinalityType
<1>3. calls \in Nat /\ Len(response) \in Nat /\ next \in Nat /\ Limit \in Nat
  BY FS_CardinalityType, LimitAssumption DEF BInv, BTyped
<1>4. CASE Ahead
  BY <1>1, <1>2, <1>3, <1>4 DEF Ahead
<1>5. CASE Behind
  BY <1>1, <1>3, <1>5 DEF Behind
<1> QED
  BY <1>1, <1>4, <1>5 DEF Unbroken

\* However the goroutines of a response are scheduled, a run that no fault was found
\* in has executed at most as many calls as the limit, the ones it executed before
\* they were counted included (builtin.go:257).
THEOREM CallsAreLimited == BuiltinAssumptions => (Builtin!Spec => []Builtin!CallsWithinLimit)
  BY WithinLimit, BuiltinAlways, PTL

\* A run of the built-in runtime that succeeds executed every call once and answered
\* each with its own result, whatever ids the model gave them (builtin.go:261).
THEOREM AnswersBelong == BuiltinAssumptions => (Builtin!Spec => []Builtin!AnswersAreOwn)
<1>1. ASSUME BInv, builtinPc = "done"
      PROVE  /\ \A a \in answered : a.call = a.by
             /\ {a.call : a \in answered} = {builtinExecuted[n].place : n \in DOMAIN builtinExecuted}
             /\ \A m, n \in DOMAIN builtinExecuted :
                   builtinExecuted[m].id = builtinExecuted[n].id => m = n
  <2>1. ~broken
    BY <1>1 DEF BInv, BPlaced
  <2> QED
    BY <1>1, <2>1, NothingLeft DEF Sound, DonePlaces
<1>2. BInv => Builtin!AnswersAreOwn
  BY <1>1 DEF Builtin!AnswersAreOwn
<1> QED
  BY <1>2, BuiltinAlways, PTL

\* Only the dispatch of a response in a round of the allowance executes calls, and a
\* closed tool surface is offered no more.
LEMMA ToolsEndHere ==
    ASSUME BInv, [Builtin!Next]_(Builtin!vars)
    PROVE  Builtin!ToolsEndStep \/ UNCHANGED Builtin!vars
<1> USE DEF Builtin!ToolsEndStep
<1>1. CASE Builtin!CallTools
  BY <1>1 DEF Builtin!CallTools, Builtin!Offered
<1>2. CASE Builtin!Finish \/ Builtin!Abort
  <2>1. builtinPc = "asking" /\ builtinExecuted' = builtinExecuted /\ response' = response
    BY <1>2 DEF Builtin!Finish, Builtin!Abort
  <2> QED
    BY <2>1, NothingLeft
<1>3. ASSUME NEW i \in 1..Len(response), Builtin!Run(i), builtinPc = "dispatching", round' = round
      PROVE  Builtin!ToolsEndStep
  <2>1. BTyped /\ round \in Nat /\ ~(MaxRounds > 0 /\ round > MaxRounds) /\ MaxRounds \in Nat
    BY <1>3, LimitAssumption DEF BInv, BTyped, BPlaced, Builtin!Exhausted
  <2>2. /\ DOMAIN builtinExecuted' = 1..(Len(builtinExecuted) + 1)
        /\ DOMAIN builtinExecuted = 1..Len(builtinExecuted) /\ Len(builtinExecuted) \in Nat
        /\ builtinExecuted'[Len(builtinExecuted) + 1] = [id |-> response[i], place |-> Here(i)]
    BY <1>3, <2>1, RunAdds
  <2>3. DOMAIN builtinExecuted' \ DOMAIN builtinExecuted = {Len(builtinExecuted) + 1}
    BY <2>2
  <2>4. builtinExecuted'[Len(builtinExecuted) + 1].place.round = round
    BY <2>2 DEF Here
  <2> QED
    BY <1>3, <2>1, <2>3, <2>4
<1>4. ASSUME NEW i \in running, Builtin!Prefetch(i) PROVE Builtin!ToolsEndStep
  <2>1. i \in 1..Len(response)
    BY DEF BInv, BTyped
  <2> QED
    BY <1>3, <1>4, <2>1 DEF Builtin!Prefetch
<1>5. CASE Builtin!Refuse
  BY <1>5 DEF Builtin!Refuse, BInv, BTyped
<1>6. CASE Builtin!Answer
  <2>1. builtinPc = "dispatching" /\ round' = round /\ next \in 1..Len(response)
        /\ (builtinExecuted' = builtinExecuted \/ Builtin!Run(next))
    BY <1>6 DEF Builtin!Answer, BInv, BPlaced
  <2>2. CASE builtinExecuted' = builtinExecuted
    BY <2>1, <2>2 DEF BInv, BTyped
  <2> QED
    BY <1>3, <2>1, <2>2
<1>7. CASE Builtin!FollowThrough
  <2>1. builtinExecuted' = <<>> /\ response' = <<>>
    BY <1>7 DEF Builtin!FollowThrough, Builtin!Start
  <2> QED
    BY <2>1
<1> QED
  BY <1>1, <1>2, <1>4, <1>5, <1>6, <1>7 DEF Builtin!Next

\* No tool runs in a round beyond the allowance or for a response asked for after a
\* tool closed the surface (builtin.go:188).
THEOREM ToolsAreOver == BuiltinAssumptions => (Builtin!Spec => Builtin!ToolsEnd)
<1>1. BInv /\ [Builtin!Next]_(Builtin!vars) => [Builtin!ToolsEndStep]_(Builtin!vars)
  BY ToolsEndHere
<1> QED
  BY <1>1, BuiltinAlways, PTL DEF Builtin!Spec, Builtin!ToolsEnd

-----------------------------------------------------------------------------
(* The promise, when every call has an id of its own and a turn is one run. *)

OneRunOfOwnIds == ~Repeats /\ ~Follows

\* Then only the limits can break a run.
OwnIds == ~broken => ~Doomed

OwnState ==
    IF builtinPc = "done" THEN "succeeded"
    ELSE IF builtinPc = "failed" THEN "failed"
    ELSE IF broken THEN "broken" ELSE "running"

LEMMA OwnIdsInit == Builtin!Init => OwnIds
  BY DEF Builtin!Init, OwnIds, Doomed, Left

LEMMA OwnIdsNext ==
    ASSUME BuiltinAssumptions, ~Repeats, BInv, BInv', OwnIds, [Builtin!Next]_(Builtin!vars)
    PROVE  OwnIds'
<1>1. CASE Builtin!CallTools
  <2>1. PICK batch \in Builtin!Responses : Builtin!Fresh(batch) /\ response' = batch
    BY <1>1 DEF Builtin!CallTools
  <2>2. DOMAIN batch = 1..Len(batch) /\ next' = 1 /\ builtinSeen' = builtinSeen /\ broken' = broken
    BY <1>1, <2>1 DEF Builtin!CallTools, BInv, BTyped
  <2>3. Left' = DOMAIN batch
    BY <2>1, <2>2 DEF Left
  <2> QED
    BY <2>1, <2>2, <2>3 DEF Builtin!Fresh, OwnIds, Doomed
<1>2. ASSUME builtinPc' # "dispatching" PROVE OwnIds'
  <2>1. response' = <<>> /\ next' = 1
    BY <1>2 DEF BInv, BPlaced
  <2>2. Left' = {}
    BY <2>1 DEF Left
  <2> QED
    BY <2>2 DEF OwnIds, Doomed
<1>3. ASSUME UNCHANGED <<response, next, builtinSeen, broken>> PROVE OwnIds'
  BY <1>3 DEF OwnIds, Doomed, Left
<1>4. CASE Builtin!Answer
  <2>1. /\ builtinPc = "dispatching" /\ Builtin!Advance /\ round' = round /\ broken' = broken
        /\ builtinSeen' = builtinSeen \union {response[next]}
    BY <1>4 DEF Builtin!Answer
  <2>2. next \in Left /\ Left' = Left \ {next} /\ \A i \in Left' : response'[i] = response[i]
    BY <2>1, AdvanceLeaves DEF BInv
  <2> QED
    BY <2>1, <2>2 DEF OwnIds, Doomed
<1>5. CASE Builtin!Refuse
  BY <1>5 DEF Builtin!Refuse, OwnIds
<1>6. CASE UNCHANGED Builtin!vars
  BY <1>3, <1>6 DEF Builtin!vars
<1>7. CASE Builtin!Finish \/ Builtin!Abort \/ Builtin!FollowThrough
  BY <1>2, <1>7 DEF Builtin!Finish, Builtin!Abort, Builtin!FollowThrough
<1>8. ASSUME NEW i \in running, Builtin!Prefetch(i) PROVE OwnIds'
  BY <1>3, <1>8 DEF Builtin!Prefetch
<1> QED
  BY <1>1, <1>4, <1>5, <1>6, <1>7, <1>8 DEF Builtin!Next

LEMMA LoopCardinality == \A S : Builtin!Loop!Cardinality(S) = Cardinality(S)
  BY DEF Builtin!Loop!Cardinality, Cardinality

\* Executing a call of a run without faults is executing a new id, within the limit.
LEMMA RunIsExecute ==
    ASSUME BInv, BInv', OwnIds', OwnState = "running", OwnState' = "running", ~broken',
           NEW i \in 1..Len(response), Builtin!Run(i)
    PROVE  Builtin!Loop!Next
<1> DEFINE id == response[i]
           N == Len(builtinExecuted) + 1
<1>1. /\ DOMAIN builtinExecuted' = 1..N /\ N = Len(builtinExecuted) + 1
      /\ DOMAIN builtinExecuted = 1..Len(builtinExecuted) /\ Len(builtinExecuted) \in Nat
      /\ Len(builtinExecuted') = N
      /\ \A n \in DOMAIN builtinExecuted : builtinExecuted'[n] = builtinExecuted[n]
      /\ builtinExecuted'[N] = [id |-> id, place |-> Here(i)]
      /\ Ids' = Ids \union {id}
  BY RunAdds DEF BInv
<1>2. id \in Id
  BY ElementOfSeq DEF BInv, BTyped
<1> HIDE DEF id, N
<1>3. N \in Nat /\ N \in 1..N /\ \A n \in DOMAIN builtinExecuted : n \in 1..N /\ n # N
  BY <1>1
<1>4. builtinExecuted'[N].id = id
  BY <1>1
<1>5. \A m, n \in 1..N : builtinExecuted'[m].id = builtinExecuted'[n].id => m = n
  BY <1>1 DEF BInv, OwnIds, Sound
<1>6. id \notin Ids
  <2> SUFFICES ASSUME NEW n \in DOMAIN builtinExecuted, builtinExecuted[n].id = id PROVE FALSE
    BY DEF Ids
  <2> QED
    BY <1>1, <1>3, <1>4, <1>5
<1>7. N <= Limit
  <2>1. BInv' => Builtin!CallsWithinLimit'
    BY WithinLimit, PTL
  <2> QED
    BY <1>1, <2>1 DEF Builtin!CallsWithinLimit
<1>8. Cardinality(Ids) < Limit
  <2>1. Cardinality(Ids) <= Len(builtinExecuted) /\ Cardinality(Ids) \in Nat /\ Limit \in Nat
    BY FS_CardinalityType, LimitAssumption DEF BInv, BTyped
  <2> QED
    BY <1>1, <1>7, <2>1
<1>9. PICK c \in Id : c = id
  BY <1>2
<1>10. Builtin!Loop!Execute(c)
  BY <1>1, <1>6, <1>8, <1>9, LoopCardinality DEF Builtin!Loop!Execute, Ids, OwnState
<1> QED
  BY <1>10 DEF Builtin!Loop!Next

LEMMA OwnStep ==
    ASSUME BuiltinAssumptions, OneRunOfOwnIds, BInv, BInv', OwnIds', [Builtin!Next]_(Builtin!vars)
    PROVE  Builtin!Loop!Next \/ UNCHANGED <<Ids, OwnState>>
<1>1. CASE Builtin!CallTools
  BY <1>1 DEF Builtin!CallTools, Ids, OwnState
<1>2. CASE Builtin!Finish
  BY <1>2 DEF Builtin!Finish, Builtin!Loop!Next, Builtin!Loop!Succeed, Builtin!Loop!Fail, Ids, OwnState
<1>3. CASE Builtin!Abort
  BY <1>3 DEF Builtin!Abort, Builtin!Loop!Next, Builtin!Loop!Fail, Ids, OwnState
<1>4. ASSUME OwnState = "broken", OwnState' = "broken"
      PROVE  Builtin!Loop!Next
  BY <1>4 DEF Builtin!Loop!Next, Builtin!Loop!Wreck, OwnState
<1>5. ASSUME builtinPc = "dispatching", builtinPc' \in {"asking", "dispatching"},
             broken' = broken,
             \/ builtinExecuted' = builtinExecuted
             \/ \E i \in 1..Len(response) : Builtin!Run(i)
      PROVE  Builtin!Loop!Next \/ UNCHANGED <<Ids, OwnState>>
  <2>1. OwnState' = OwnState /\ OwnState = IF broken THEN "broken" ELSE "running"
    BY <1>5 DEF OwnState
  <2>2. CASE broken
    BY <1>4, <2>1, <2>2
  <2>3. CASE ~broken /\ builtinExecuted' = builtinExecuted
    BY <2>1, <2>3 DEF Ids
  <2>4. CASE ~broken /\ \E i \in 1..Len(response) : Builtin!Run(i)
    <3>1. OwnState = "running" /\ OwnState' = "running" /\ ~broken'
      BY <1>5, <2>1, <2>4
    <3>2. PICK i \in 1..Len(response) : Builtin!Run(i)
      BY <2>4
    <3> QED
      BY <3>1, <3>2, RunIsExecute
  <2> QED
    BY <1>5, <2>2, <2>3, <2>4
<1>6. ASSUME NEW i \in running, Builtin!Prefetch(i)
      PROVE  Builtin!Loop!Next \/ UNCHANGED <<Ids, OwnState>>
  <2>1. i \in 1..Len(response)
    BY DEF BInv, BTyped
  <2> QED
    BY <1>5, <1>6, <2>1 DEF Builtin!Prefetch
<1>7. CASE Builtin!Refuse
  <2>1. /\ builtinPc = "dispatching" /\ broken' = TRUE /\ builtinExecuted' = builtinExecuted
        /\ builtinPc' \in {"asking", "dispatching"}
    BY <1>7, AdvanceLeaves DEF Builtin!Refuse, BInv
  <2>2. OwnState \in {"running", "broken"} /\ OwnState' = "broken"
    BY <2>1 DEF OwnState
  <2>3. CASE OwnState = "running"
    BY <2>2, <2>3 DEF Builtin!Loop!Next, Builtin!Loop!Break, OwnState
  <2> QED
    BY <1>4, <2>2, <2>3
<1>8. CASE Builtin!Answer
  <2>1. /\ builtinPc = "dispatching" /\ broken' = broken /\ next \in 1..Len(response)
        /\ builtinPc' \in {"asking", "dispatching"}
        /\ (builtinExecuted' = builtinExecuted \/ Builtin!Run(next))
    BY <1>8, AdvanceLeaves DEF Builtin!Answer, BInv, BPlaced
  <2> QED
    BY <1>5, <2>1
<1>9. CASE Builtin!FollowThrough
  BY <1>9 DEF Builtin!FollowThrough, OneRunOfOwnIds
<1>10. CASE UNCHANGED Builtin!vars
  BY <1>10 DEF Builtin!vars, Ids, OwnState
<1> QED
  BY <1>1, <1>2, <1>3, <1>6, <1>7, <1>8, <1>9, <1>10 DEF Builtin!Next

\* With an id of its own for every call, a run of the built-in runtime executes each
\* call once, at most Limit of them, and ends once: it implements the abstract loop
\* (builtin.go:244).
THEOREM BuiltinPromise ==
    BuiltinAssumptions /\ OneRunOfOwnIds => (Builtin!Spec => Builtin!KeepsPromise)
<1>1. Builtin!Init => Builtin!Loop!Init
  BY DEF Builtin!Init, Builtin!Loop!Init
<1> SUFFICES ASSUME BuiltinAssumptions, OneRunOfOwnIds PROVE Builtin!Spec => Builtin!KeepsPromise
  OBVIOUS
<1>2. Builtin!Spec => []BInv
  BY BuiltinAlways
<1>3. BInv /\ BInv' /\ OwnIds /\ [Builtin!Next]_(Builtin!vars) => OwnIds'
  BY OwnIdsNext DEF OneRunOfOwnIds
<1>4. BInv /\ BInv' /\ OwnIds' /\ [Builtin!Next]_(Builtin!vars)
        => [Builtin!Loop!Next]_(Builtin!Loop!vars)
  BY OwnStep DEF Builtin!Loop!vars, Ids, OwnState
<1> QED
  BY <1>1, <1>2, <1>3, <1>4, OwnIdsInit, PTL
     DEF Builtin!Spec, Builtin!KeepsPromise, Builtin!Loop!Spec

-----------------------------------------------------------------------------
(* Types.                                                                   *)

\* The bounds of the exploration, which the types of the model mention.
Bounded ==
    /\ round <= RoundBound + 1
    /\ builtinPc \in {"asking", "dispatching"} => round <= RoundBound
    /\ response \in {<<>>} \union Builtin!Responses

LEMMA BoundedNext ==
    ASSUME BuiltinAssumptions, BInv, Bounded, [Builtin!Next]_(Builtin!vars)
    PROVE  Bounded'
<1>1. round \in Nat /\ RoundBound \in Nat /\ Builtin!Responses' = Builtin!Responses
  BY DEF BInv, BTyped, BuiltinAssumptions, Builtin!LimitAssumption, Builtin!Responses
<1> HIDE DEF Builtin!Responses
<1>2. CASE Builtin!CallTools
  BY <1>1, <1>2 DEF Builtin!CallTools, Bounded
<1>3. CASE Builtin!Finish \/ Builtin!Abort
  BY <1>1, <1>3 DEF Builtin!Finish, Builtin!Abort, Bounded
<1>4. ASSUME NEW i \in running, Builtin!Prefetch(i) PROVE Bounded'
  BY <1>1, <1>4 DEF Builtin!Prefetch, Bounded
<1>5. CASE Builtin!Refuse \/ Builtin!Answer
  <2>1. builtinPc = "dispatching" /\ round' = round /\ Builtin!Advance
    BY <1>5 DEF Builtin!Refuse, Builtin!Answer
  <2>2. response' = response \/ response' = <<>>
    BY <2>1 DEF Builtin!Advance
  <2> QED
    BY <1>1, <2>1, <2>2 DEF Bounded
<1>6. CASE Builtin!FollowThrough
  BY <1>1, <1>6 DEF Builtin!FollowThrough, Builtin!Start, Bounded
<1>7. CASE UNCHANGED Builtin!vars
  BY <1>1, <1>7 DEF Builtin!vars, Bounded
<1> QED
  BY <1>2, <1>3, <1>4, <1>5, <1>6, <1>7 DEF Builtin!Next

\* The run's counter counts the ids it has dispatched, in each run of the turn.
THEOREM BuiltinTypeCorrect == BuiltinAssumptions => (Builtin!Spec => []Builtin!TypeOK)
<1> SUFFICES ASSUME BuiltinAssumptions PROVE Builtin!Spec => []Builtin!TypeOK
  OBVIOUS
<1>1. RoundBound \in Nat
  BY DEF BuiltinAssumptions, Builtin!LimitAssumption
<1>2. Builtin!Init => Bounded
  BY <1>1 DEF Builtin!Init, Bounded
<1>3. BInv /\ Bounded /\ [Builtin!Next]_(Builtin!vars) => Bounded'
  BY BoundedNext
<1>4. BInv /\ Bounded => Builtin!TypeOK
  <2> SUFFICES ASSUME BInv, Bounded PROVE Builtin!TypeOK
    OBVIOUS
  <2>1. DOMAIN response = 1..Len(response) /\ round \in 0..(RoundBound + 1)
    BY <1>1 DEF BInv, BTyped, Bounded
  <2> QED
    BY <2>1, SameCardinality DEF BInv, BTyped, Bounded, Builtin!TypeOK, Builtin!Over
<1> QED
  BY <1>2, <1>3, <1>4, BuiltinAlways, PTL DEF Builtin!Spec

-----------------------------------------------------------------------------
(* The tools of a turn (agenthost/host.go).                                 *)

CONSTANTS Slot, Entity, Level, Query, Change, Earlier, Tool,
          MaxSeen, MaxListed, MaxReports, MaxCards
VARIABLES call, provenance, reports, inFlight, cards, change, mutationMu, known,
          reads, taken, told

Tools == INSTANCE TurnTools

ToolAssumptions ==
    /\ Tools!ToolAssumption /\ Tools!EntityAssumption
    /\ Tools!ChangeAssumption /\ Tools!LimitAssumption

Points == {"idle", "asked", "remembering", "fetching", "fetched", "refused", "locked",
           "telling", "showing"}
Arguments == Entity \union Query \union Change \union {None}
Calls == [tool : Tool \union {"none"}, of : Arguments, at : Points, found : SUBSET Entity]
Critical == {"locked", "telling", "showing"}

\* A call has an argument of its tool and is where its tool goes; what it names of the
\* session's changes the model was told of when the round began.
Suited(c) ==
    /\ c.tool = "none" <=> c.at = "idle"
    /\ c.at = "remembering" => c.tool = "list"
    /\ c.at \in {"fetching", "fetched", "refused"} => c.tool = "report"
    /\ c.at \in Critical => c.tool \in {"stage", "discard"}
    /\ c.at = "showing" => c.tool = "stage"
    /\ c.tool \in {"get", "present_entity"} => c.of \in Entity
    /\ c.tool \in {"report", "present_report"} => c.of \in Query
    /\ c.tool \in {"discard", "present_change"} => c.of \in known
    /\ c.tool = "stage" /\ c.at \in {"telling", "showing"} => c.of \in Change

CallsFit ==
    /\ call \in [Slot -> Calls]
    /\ \A s \in Slot : Suited(call[s])
    /\ change \in [Change -> {"absent", "staged", "discarded"}]
    /\ known \subseteq {c \in Change : change[c] # "absent"}

\* What is remembered was read, and of what was read last nothing is forgotten.
ReadsFit ==
    /\ reads \in Seq(Entity)
    /\ \A i, j \in 1..Len(reads) : reads[i] = reads[j] => i = j
    /\ \A e \in provenance : \E i \in 1..Len(reads) : reads[i] = e
    /\ IsFiniteSet(provenance) /\ Cardinality(provenance) <= MaxSeen
    /\ \A i \in 1..Len(reads) : i > Len(reads) - (MaxSeen - 1) => reads[i] \in provenance

\* Every place that is counted belongs to a call, and there are no more than allowed.
ReportsFit ==
    /\ reports \in Seq(Query)
    /\ IsFiniteSet(Tools!Reserved) /\ inFlight = Cardinality(Tools!Reserved)
    /\ Len(reports) + Cardinality(Tools!Pending) <= MaxReports

\* One call at a time changes something; the client has been told of everything but what
\* that call has just done; and nobody knows of a change that is being staged.
Entry(c) == [did |-> IF c.tool = "stage" THEN "staged" ELSE "discarded", to |-> c.of]
Events == [did : {"staged", "discarded"}, to : Change]
ChangesFit ==
    /\ mutationMu \in Slot \union {None}
    /\ \A s \in Slot : call[s].at \in Critical <=> mutationMu = s
    /\ told \in Seq(Events)
    /\ \A s \in Slot : call[s].at = "telling" => taken = Append(told, Entry(call[s]))
    /\ (\A s \in Slot : call[s].at # "telling") => taken = told
    /\ \A s \in Slot : call[s].tool = "stage" /\ call[s].at \in {"telling", "showing"} =>
          change[call[s].of] # "absent" /\ call[s].of \notin known

\* A card shows what the host holds, a change only once, and one that is being staged
\* has none yet.
CardTypes == [kind : {"entity", "report", "change"}, of : Entity \union Query \union Change]
InCards(c) == \E i \in 1..Len(cards) : cards[i] = [kind |-> "change", of |-> c]
InTold(c) == \E i \in 1..Len(told) : told[i] = [did |-> "staged", to |-> c]
CardsFit ==
    /\ cards \in Seq(CardTypes) /\ Len(cards) <= MaxCards
    /\ \A i \in 1..Len(cards) :
          /\ cards[i].kind = "entity" => \E j \in 1..Len(reads) : reads[j] = cards[i].of
          /\ cards[i].kind = "report" => \E j \in 1..Len(reports) : reports[j] = cards[i].of
          /\ cards[i].kind = "change" => cards[i].of \in Change /\ change[cards[i].of] # "absent"
    /\ \A i, j \in 1..Len(cards) : cards[i].kind = "change" /\ cards[i] = cards[j] => i = j
    /\ \A s \in Slot : call[s].tool = "stage" /\ call[s].at \in {"telling", "showing"} =>
          ~InCards(call[s].of)
    /\ \A c \in Change :
          InTold(c) /\ ~(\E s \in Slot : call[s].tool = "stage" /\ call[s].at = "showing" /\ call[s].of = c)
             => InCards(c) \/ Len(cards) = MaxCards

ToolsInv == CallsFit /\ ReadsFit /\ ReportsFit /\ ChangesFit /\ CardsFit

-----------------------------------------------------------------------------

LEMMA ToolsCardinality == \A S : Tools!Cardinality(S) = Cardinality(S)
  BY DEF Tools!Cardinality, Cardinality

LEMMA ToolsInit == ASSUME ToolAssumptions, Tools!Init PROVE ToolsInv
<1> USE DEF ToolAssumptions, Tools!Init, Tools!LimitAssumption
<1>1. CallsFit
  <2>1. Tools!Idle \in Calls /\ Suited(Tools!Idle)
    BY DEF Calls, Arguments, Points, Suited, Critical, Tools!Idle
  <2>2. call = [s \in Slot |-> Tools!Idle]
    OBVIOUS
  <2>3. call \in [Slot -> Calls] /\ \A s \in Slot : Suited(call[s])
    BY <2>1, <2>2
  <2>4. /\ change \in [Change -> {"absent", "staged", "discarded"}]
        /\ known \subseteq {c \in Change : change[c] # "absent"}
    <3>1. change = [c \in Change |-> IF c \in Earlier THEN "staged" ELSE "absent"]
      OBVIOUS
    <3>2. known = Earlier /\ Earlier \subseteq Change
      BY DEF Tools!ChangeAssumption
    <3> QED
      BY <3>1, <3>2
  <2> QED
    BY <2>3, <2>4 DEF CallsFit
<1>2. reads = <<>> /\ reports = <<>> /\ cards = <<>> /\ taken = <<>> /\ told = <<>>
  OBVIOUS
<1>3. \A S : <<>> \in Seq(S) /\ Len(<<>>) = 0
  OBVIOUS
<1>4. IsFiniteSet({}) /\ Cardinality({}) = 0
  BY FS_EmptySet
<1>5. ReadsFit
  BY <1>2, <1>3, <1>4 DEF ReadsFit
<1>6. Tools!Reserved = {} /\ Tools!Pending = {}
  BY DEF Tools!Reserved, Tools!Pending, Tools!At, Tools!Idle
<1>7. ReportsFit
  BY <1>2, <1>3, <1>4, <1>6 DEF ReportsFit
<1>8. \A s \in Slot : call[s] = Tools!Idle
  OBVIOUS
<1>9. ChangesFit
  BY <1>2, <1>3, <1>8 DEF ChangesFit, Critical, Tools!Idle, Tools!EntityAssumption
<1>10. CardsFit
  BY <1>2, <1>3, <1>8 DEF CardsFit, InTold, Tools!Idle
<1> QED
  BY <1>1, <1>5, <1>7, <1>9, <1>10 DEF ToolsInv

-----------------------------------------------------------------------------
(* What a step of a call does to the calls.                                 *)

Step(s) ==
    \/ Tools!Begin(s) \/ Tools!Reject(s) \/ Tools!Lookup(s) \/ Tools!Get(s) \/ Tools!List(s)
    \/ Tools!RememberNext(s) \/ Tools!ReserveReport(s) \/ Tools!RefuseReport(s)
    \/ Tools!FetchReport(s) \/ Tools!ReleaseReport(s) \/ Tools!Lock(s) \/ Tools!Stage(s)
    \/ Tools!Discard(s) \/ Tools!Tell(s) \/ Tools!Show(s) \/ Tools!Present(s)

Moved(s, c) == call' = [call EXCEPT ![s] = c]

LEMMA IdleFits == Tools!Idle \in Calls /\ Suited(Tools!Idle)
  BY DEF Calls, Arguments, Points, Suited, Critical, Tools!Idle

LEMMA AnswerMoves ==
    ASSUME NEW s \in Slot, Tools!Answer(s)
    PROVE  \E c \in Calls : Suited(c) /\ Moved(s, c)
<1>1. PICK c \in Calls : c = Tools!Idle /\ Suited(c)
  BY IdleFits
<1> QED
  BY <1>1 DEF Tools!Answer, Moved

LEMMA GotoMoves ==
    ASSUME CallsFit, NEW s \in Slot, NEW p \in Points, Tools!Goto(s, p),
           p \notin {"idle", "remembering"},
           p \in {"fetching", "fetched", "refused"} => call[s].tool = "report",
           p \in Critical => call[s].tool \in {"stage", "discard"},
           p = "showing" => call[s].tool = "stage",
           call[s].at # "idle",
           call[s].tool = "stage" /\ p \in {"telling", "showing"} => call[s].of \in Change
    PROVE  \E c \in Calls : Suited(c) /\ Moved(s, c)
<1>1. call[s] \in Calls /\ Suited(call[s])
  BY DEF CallsFit
<1>2. PICK c \in Calls : c = [call[s] EXCEPT !.at = p]
  BY <1>1 DEF Calls
<1>3. c.tool = call[s].tool /\ c.of = call[s].of /\ c.at = p
  BY <1>1, <1>2 DEF Calls
<1>4. Suited(c)
  BY <1>1, <1>3 DEF Suited, Critical
<1>5. Moved(s, c)
  BY <1>2 DEF Tools!Goto, Moved
<1> QED
  BY <1>4, <1>5

LEMMA Moves ==
    ASSUME ToolAssumptions, CallsFit, NEW s \in Slot, Step(s)
    PROVE  \E c \in Calls : Suited(c) /\ Moved(s, c)
<1>1. call[s] \in Calls /\ Suited(call[s]) /\ call \in [Slot -> Calls]
  BY DEF CallsFit
<1>2. CASE Tools!Begin(s)
  <2>0. PICK tool \in Tool : \E x \in Tools!Argument(tool) :
           call' = [call EXCEPT ![s] = [tool |-> tool, of |-> x, at |-> "asked", found |-> {}]]
    BY <1>2 DEF Tools!Begin
  <2>1. PICK x \in Tools!Argument(tool) :
           call' = [call EXCEPT ![s] = [tool |-> tool, of |-> x, at |-> "asked", found |-> {}]]
    BY <2>0
  <2>2. /\ tool # "none"
        /\ tool \in {"get", "present_entity"} => x \in Entity
        /\ tool \in {"list", "stage"} => x \in Entity \union {None}
        /\ tool \in {"report", "present_report"} => x \in Query
        /\ tool \in {"discard", "present_change"} => x \in known
        /\ tool = "lookup" => x = None
    <3>1. tool \in {"get", "list", "lookup", "present_entity", "present_report",
                    "present_change", "stage", "discard", "report"}
      BY DEF ToolAssumptions, Tools!ToolAssumption, Tools!Reading, Tools!Presenting, Tools!Mutating
    <3>2. x \in Tools!Argument(tool)
      BY <2>1
    <3> QED
      BY <3>1, <3>2 DEF Tools!Argument
  <2>3. x \in Arguments
    <3>1. known \subseteq Change
      BY DEF CallsFit
    <3>2. tool \in {"get", "list", "lookup", "present_entity", "present_report",
                    "present_change", "stage", "discard", "report"}
      BY DEF ToolAssumptions, Tools!ToolAssumption, Tools!Reading, Tools!Presenting, Tools!Mutating
    <3> QED
      BY <2>2, <3>1, <3>2 DEF Arguments
  <2>4. PICK c \in Calls : c = [tool |-> tool, of |-> x, at |-> "asked", found |-> {}]
    BY <2>3 DEF Calls, Points
  <2>5. Suited(c)
    BY <2>2, <2>4 DEF Suited, Critical
  <2> QED
    BY <2>1, <2>4, <2>5 DEF Moved
<1>3. CASE Tools!Reject(s) \/ Tools!Lookup(s) \/ Tools!Get(s) \/ Tools!RefuseReport(s)
           \/ Tools!ReleaseReport(s) \/ Tools!Show(s) \/ Tools!Present(s)
  <2>1. Tools!Answer(s)
    BY <1>3 DEF Tools!Reject, Tools!Lookup, Tools!Get, Tools!RefuseReport, Tools!ReleaseReport,
                Tools!Show, Tools!Present
  <2> QED
    BY <2>1, AnswerMoves
<1>4. CASE Tools!List(s)
  <2>1. CASE Tools!Answer(s)
    BY <2>1, AnswerMoves
  <2>2. ASSUME ~Tools!Answer(s) PROVE \E c \in Calls : Suited(c) /\ Moved(s, c)
    <3>1. call[s].tool = "list" /\ call[s].at = "asked"
      BY <1>4 DEF Tools!List, Tools!At
    <3>2. PICK found \in UNION {SUBSET all : all \in Tools!Listable(call[s].of)} :
             call' = [call EXCEPT ![s].at = "remembering", ![s].found = found]
      BY <1>4, <2>2 DEF Tools!List
    <3>3. found \subseteq Entity
      BY <3>2 DEF Tools!Listable
    <3>4. PICK c \in Calls : c = [call[s] EXCEPT !.at = "remembering", !.found = found]
      BY <1>1, <3>3 DEF Calls, Points
    <3>5. c.tool = call[s].tool /\ c.of = call[s].of /\ c.at = "remembering"
      BY <1>1, <3>4 DEF Calls
    <3>6. Suited(c)
      BY <1>1, <3>1, <3>5 DEF Suited, Critical
    <3>7. Moved(s, c)
      BY <3>2, <3>4 DEF Moved
    <3> QED
      BY <3>6, <3>7
  <2> QED
    BY <2>1, <2>2
<1>5. CASE Tools!RememberNext(s)
  <2>1. PICK e \in call[s].found : IF call[s].found = {e} THEN Tools!Answer(s)
                                  ELSE call' = [call EXCEPT ![s].found = @ \ {e}]
    BY <1>5 DEF Tools!RememberNext
  <2>2. CASE call[s].found = {e}
    BY <2>1, <2>2, AnswerMoves
  <2>3. CASE call[s].found # {e}
    <3>1. PICK c \in Calls : c = [call[s] EXCEPT !.found = @ \ {e}]
      BY <1>1 DEF Calls
    <3>2. c.tool = call[s].tool /\ c.of = call[s].of /\ c.at = call[s].at
      BY <1>1, <3>1 DEF Calls
    <3>3. Suited(c)
      BY <1>1, <3>2 DEF Suited
    <3>4. Moved(s, c)
      BY <2>1, <2>3, <3>1 DEF Moved
    <3> QED
      BY <3>3, <3>4
  <2> QED
    BY <2>2, <2>3
<1>6. CASE Tools!ReserveReport(s)
  <2>1. call[s].tool = "report" /\ call[s].at = "asked"
    BY <1>6 DEF Tools!ReserveReport, Tools!At
  <2>2. Tools!Answer(s) \/ Tools!Goto(s, "refused") \/ Tools!Goto(s, "fetching")
    BY <1>6 DEF Tools!ReserveReport
  <2> QED
    BY <2>1, <2>2, AnswerMoves, GotoMoves DEF Critical, Points
<1>7. CASE Tools!FetchReport(s)
  <2>1. call[s].tool = "report" /\ call[s].at = "fetching" /\ Tools!Goto(s, "fetched")
    BY <1>7 DEF Tools!FetchReport, Tools!At
  <2> QED
    BY <2>1, GotoMoves DEF Critical, Points
<1>8. CASE Tools!Lock(s)
  <2>1. call[s].tool \in {"stage", "discard"} /\ call[s].at = "asked" /\ Tools!Goto(s, "locked")
    BY <1>8 DEF Tools!Lock, Tools!Mutating
  <2> QED
    BY <2>1, GotoMoves DEF Critical, Points
<1>9. CASE Tools!Stage(s)
  <2>1. call[s].tool = "stage" /\ call[s].at = "locked"
    BY <1>9 DEF Tools!Stage, Tools!At
  <2>2. CASE Tools!Fail(s)
    BY <2>2, AnswerMoves DEF Tools!Fail
  <2>3. CASE ~Tools!Fail(s)
    <3>1. PICK x \in Change : call' = [call EXCEPT ![s].at = "telling", ![s].of = x]
      BY <1>9, <2>3 DEF Tools!Stage
    <3>2. PICK c \in Calls : c = [call[s] EXCEPT !.at = "telling", !.of = x]
      BY <1>1 DEF Calls, Points, Arguments
    <3>3. c.tool = "stage" /\ c.of = x /\ c.at = "telling"
      BY <1>1, <2>1, <3>2 DEF Calls
    <3>4. Suited(c)
      BY <3>3 DEF Suited, Critical
    <3>5. Moved(s, c)
      BY <3>1, <3>2 DEF Moved
    <3> QED
      BY <3>4, <3>5
  <2> QED
    BY <2>2, <2>3
<1>10. CASE Tools!Discard(s)
  <2>1. call[s].tool = "discard" /\ call[s].at = "locked"
    BY <1>10 DEF Tools!Discard, Tools!At
  <2>2. Tools!Answer(s) \/ Tools!Goto(s, "telling")
    BY <1>10 DEF Tools!Discard, Tools!Fail
  <2> QED
    BY <2>1, <2>2, AnswerMoves, GotoMoves DEF Critical, Points
<1>11. CASE Tools!Tell(s)
  <2>1. call[s].at = "telling" /\ call[s].tool \in {"stage", "discard"}
    BY <1>11 DEF Tools!Tell, Tools!Mutating
  <2>2. IF call[s].tool = "stage" THEN Tools!Goto(s, "showing") ELSE Tools!Answer(s)
    BY <1>11 DEF Tools!Tell
  <2>3. call[s].tool = "stage" => call[s].of \in Change
    BY <1>1, <2>1 DEF Suited
  <2> QED
    BY <2>1, <2>2, <2>3, AnswerMoves, GotoMoves DEF Critical, Points
<1> QED
  BY <1>2, <1>3, <1>4, <1>5, <1>6, <1>7, <1>8, <1>9, <1>10, <1>11 DEF Step

\* The other calls stay as they are.
LEMMA CallsMove ==
    ASSUME ToolAssumptions, CallsFit, NEW s \in Slot, Step(s)
    PROVE  /\ call' \in [Slot -> Calls] /\ \A o \in Slot \ {s} : call'[o] = call[o]
           /\ call'[s] \in Calls /\ Suited(call'[s])
<1>1. PICK c \in Calls : Suited(c) /\ Moved(s, c)
  BY Moves
<1> QED
  BY <1>1 DEF Moved, CallsFit

LEMMA KnownStays == ASSUME NEW s \in Slot, Step(s) PROVE known' = known
  BY DEF Step, Tools!Begin, Tools!Reject, Tools!Lookup, Tools!Get, Tools!List,
         Tools!RememberNext, Tools!ReserveReport, Tools!RefuseReport, Tools!FetchReport,
         Tools!ReleaseReport, Tools!Lock, Tools!Stage, Tools!Discard, Tools!Tell, Tools!Show,
         Tools!Present, Tools!Fail

LEMMA ChangeMoves ==
    ASSUME NEW s \in Slot, Step(s)
    PROVE  \/ change' = change
           \/ Tools!Stage(s) /\ ~Tools!Fail(s)
           \/ Tools!Discard(s) /\ ~Tools!Fail(s)
  BY DEF Step, Tools!Begin, Tools!Reject, Tools!Lookup, Tools!Get, Tools!List,
         Tools!RememberNext, Tools!ReserveReport, Tools!RefuseReport, Tools!FetchReport,
         Tools!ReleaseReport, Tools!Lock, Tools!Stage, Tools!Discard, Tools!Tell, Tools!Show,
         Tools!Present, Tools!Fail

LEMMA ChangesLast ==
    ASSUME CallsFit, NEW s \in Slot, Step(s)
    PROVE  /\ change' \in [Change -> {"absent", "staged", "discarded"}]
           /\ \A c \in Change : change[c] # "absent" => change'[c] # "absent"
<1>1. change \in [Change -> {"absent", "staged", "discarded"}]
  BY DEF CallsFit
<1>2. CASE change' = change
  BY <1>1, <1>2
<1>3. CASE Tools!Stage(s) /\ ~Tools!Fail(s)
  <2>1. PICK c \in Change : change[c] = "absent" /\ change' = [change EXCEPT ![c] = "staged"]
    BY <1>3 DEF Tools!Stage
  <2> QED
    BY <1>1, <2>1
<1>4. CASE Tools!Discard(s) /\ ~Tools!Fail(s)
  <2>1. change' = [change EXCEPT ![call[s].of] = "discarded"]
    BY <1>4 DEF Tools!Discard
  <2> QED
    BY <1>1, <2>1
<1> QED
  BY <1>2, <1>3, <1>4, ChangeMoves

LEMMA CallsKeep ==
    ASSUME ToolAssumptions, CallsFit, NEW s \in Slot, Step(s)
    PROVE  CallsFit'
<1>1. known' = known
  BY KnownStays
<1>2. \A o \in Slot : Suited(call[o])
  BY DEF CallsFit
<1>3. (\A o \in Slot : Suited(call[o]))'
  BY <1>1, <1>2, CallsMove DEF Suited
<1>4. (known \subseteq {c \in Change : change[c] # "absent"})'
  BY <1>1, ChangesLast DEF CallsFit
<1> QED
  BY <1>3, <1>4, CallsMove, ChangesLast DEF CallsFit

-----------------------------------------------------------------------------
(* What the session has read.                                               *)

\* Some number is the least of a set of numbers.
LEMMA Least ==
    ASSUME NEW S, S \subseteq Nat, S # {}
    PROVE  Tools!Min(S) \in S /\ \A n \in S : Tools!Min(S) <= n
<1> DEFINE R == {p \in Nat \X Nat : p[1] < p[2]}
<1>1. IsWellFoundedOn(R, Nat)
  BY NatLessThanWellFounded DEF OpToRel
<1>2. \A n, m \in Nat : n < m => <<n, m>> \in R
  OBVIOUS
<1> HIDE DEF R
<1>3. PICK m \in S : \A n \in S : <<n, m>> \notin R
  BY <1>1, WFMin
<1>4. ASSUME NEW n \in S PROVE m <= n
  <2>1. n \in Nat /\ m \in Nat
    OBVIOUS
  <2>2. ~(n < m)
    BY <1>2, <1>3, <2>1
  <2> QED
    BY ONLY <2>1, <2>2
<1> QED
  BY <1>4 DEF Tools!Min

\* Records that come after a place are no more than the places after it.
LEMMA AfterIsFew ==
    ASSUME NEW S, NEW n \in Nat, NEW m \in 1..n, NEW f \in [S -> (m + 1)..n],
           \A x, y \in S : f[x] = f[y] => x = y
    PROVE  IsFiniteSet(S) /\ Cardinality(S) <= n - m
<1>1. f \in Injection(S, (m + 1)..n)
  <2>1. DOMAIN f = S
    OBVIOUS
  <2>2. IsInjective(f)
    BY <2>1 DEF IsInjective
  <2> QED
    BY <2>2 DEF Injection
<1>2. IsFiniteSet((m + 1)..n) /\ Cardinality((m + 1)..n) = IF m + 1 > n THEN 0 ELSE n - (m + 1) + 1
  <2>1. m + 1 \in Int /\ n \in Int
    OBVIOUS
  <2> QED
    BY ONLY <2>1, FS_Interval
<1>3. IsFiniteSet(S) /\ Cardinality(S) <= Cardinality((m + 1)..n)
  BY <1>1, <1>2, FS_Injection
<1>4. Cardinality((m + 1)..n) = n - m
  BY <1>2
<1> QED
  BY <1>3, <1>4

LEMMA TakenOut ==
    ASSUME NEW S, NEW s \in Seq(S), NEW i \in 1..Len(s)
    PROVE  /\ Tools!RemoveAt(s, i) \in Seq(S) /\ Len(Tools!RemoveAt(s, i)) = Len(s) - 1
           /\ \A j \in 1..(Len(s) - 1) :
                 Tools!RemoveAt(s, i)[j] = IF j < i THEN s[j] ELSE s[j + 1]
<1> DEFINE left == SubSeq(s, 1, i - 1)
           right == SubSeq(s, i + 1, Len(s))
<1>1. Len(s) \in Nat /\ i \in Nat /\ i >= 1 /\ i <= Len(s) /\ \A j \in 1..Len(s) : s[j] \in S
  BY ElementOfSeq
<1>2. left \in Seq(S) /\ Len(left) = i - 1 /\ \A j \in 1..(i - 1) : left[j] = s[j]
  <2>1. \A j \in 1..(i - 1) : s[j] \in S
    BY <1>1
  <2>2. /\ left \in Seq(S) /\ Len(left) = IF 1 <= i - 1 THEN (i - 1) - 1 + 1 ELSE 0
        /\ \A j \in 1..((i - 1) - 1 + 1) : left[j] = s[1 + j - 1]
    BY <1>1, <2>1, SubSeqProperties
  <2> HIDE DEF left
  <2> QED
    BY <1>1, <2>2
<1>3. right \in Seq(S) /\ Len(right) = Len(s) - i
      /\ \A j \in 1..(Len(s) - i) : right[j] = s[i + j]
  <2>1. \A j \in (i + 1)..Len(s) : s[j] \in S
    BY <1>1
  <2>2. /\ right \in Seq(S)
        /\ Len(right) = IF i + 1 <= Len(s) THEN Len(s) - (i + 1) + 1 ELSE 0
        /\ \A j \in 1..(Len(s) - (i + 1) + 1) : right[j] = s[(i + 1) + j - 1]
    BY <1>1, <2>1, SubSeqProperties
  <2> HIDE DEF right
  <2> QED
    BY <1>1, <2>2
<1>4. Tools!RemoveAt(s, i) = left \o right
  BY DEF Tools!RemoveAt
<1> HIDE DEF left, right
<1>5. /\ left \o right \in Seq(S) /\ Len(left \o right) = Len(left) + Len(right)
      /\ \A j \in 1..(Len(left) + Len(right)) :
            (left \o right)[j] = IF j <= Len(left) THEN left[j] ELSE right[j - Len(left)]
  BY <1>2, <1>3, ConcatProperties
<1> DEFINE all == left \o right
<1> HIDE DEF all
<1>6. Len(left) + Len(right) = Len(s) - 1
  BY <1>1, <1>2, <1>3
<1>7. ASSUME NEW j \in 1..(Len(s) - 1) PROVE all[j] = IF j < i THEN s[j] ELSE s[j + 1]
  <2>1. j \in Nat /\ all[j] = IF j <= i - 1 THEN left[j] ELSE right[j - (i - 1)]
    BY <1>1, <1>2, <1>5, <1>6 DEF all
  <2>2. CASE j < i
    <3>1. j <= i - 1 /\ j \in 1..(i - 1)
      BY <1>1, <2>1, <2>2
    <3> QED
      BY <1>2, <2>1, <2>2, <3>1
  <2>3. CASE ~(j < i)
    <3>1. ~(j <= i - 1) /\ j - (i - 1) \in 1..(Len(s) - i) /\ i + (j - (i - 1)) = j + 1
      BY <1>1, <2>1, <2>3
    <3> QED
      BY <1>3, <2>1, <2>3, <3>1
  <2> QED
    BY <2>2, <2>3
<1> QED
  BY <1>4, <1>5, <1>6, <1>7 DEF all

\* A record that is read again moves to the end, and the others are no further from it
\* than they were, or one place.
AtTheEnd(S, s, e, t) ==
    /\ t \in Seq(S) /\ Len(t) \in Nat /\ Len(s) \in Nat /\ Len(t) >= 1 /\ t[Len(t)] = e
    /\ \A i \in 1..(Len(t) - 1) : t[i] # e
    /\ \A i, j \in 1..Len(t) : t[i] = t[j] => i = j
    /\ \A j \in 1..Len(s) : \E i \in 1..Len(t) : t[i] = s[j]
    /\ \A i \in 1..(Len(t) - 1) : \E j \in 1..Len(s) : s[j] = t[i] /\ Len(s) - j <= Len(t) - i

LEMMA MovedToEnd ==
    ASSUME NEW S, NEW s \in Seq(S), NEW e \in S, NEW t, t = Append(Tools!RemoveFirst(s, e), e),
           \A i, j \in 1..Len(s) : s[i] = s[j] => i = j
    PROVE  AtTheEnd(S, s, e, t)
<1>1. Len(s) \in Nat /\ \A j \in 1..Len(s) : s[j] \in S
  BY ElementOfSeq
<1>2. CASE ~\E i \in 1..Len(s) : s[i] = e
  <2>1. t = Append(s, e)
    BY <1>2 DEF Tools!RemoveFirst
  <2>2. /\ t \in Seq(S) /\ Len(t) = Len(s) + 1 /\ t[Len(s) + 1] = e
        /\ \A i \in 1..Len(s) : t[i] = s[i]
    BY <2>1, AppendProperties
  <2>3. \A i \in 1..(Len(t) - 1) :
                 \E j \in 1..Len(s) : s[j] = t[i] /\ Len(s) - j <= Len(t) - i
    <3> SUFFICES ASSUME NEW i \in 1..Len(s)
                 PROVE  s[i] = t[i] /\ Len(s) - i <= Len(t) - i
      BY <1>1, <2>2
    <3> QED
      BY <1>1, <2>2
  <2>4. \A i, j \in 1..Len(t) : t[i] = t[j] => i = j
    BY <1>1, <1>2, <2>2
  <2>5. \A j \in 1..Len(s) : \E i \in 1..Len(t) : t[i] = s[j]
    BY <1>1, <2>2
  <2>6. /\ Len(t) \in Nat /\ Len(t) >= 1 /\ t[Len(t)] = e
        /\ \A i \in 1..(Len(t) - 1) : t[i] # e
    BY <1>1, <1>2, <2>2
  <2> QED
    BY <1>1, <2>2, <2>3, <2>4, <2>5, <2>6 DEF AtTheEnd
<1>3. CASE \E i \in 1..Len(s) : s[i] = e
  <2>1. PICK p \in 1..Len(s) : s[p] = e
    BY <1>3
  <2> DEFINE I == {i \in 1..Len(s) : s[i] = e}
             u == Tools!RemoveAt(s, p)
  <2>2. I = {p}
    BY <2>1
  <2>3. Tools!SelectInSeq(s, LAMBDA v : v = e) = IF I # {} THEN Tools!Min(I) ELSE 0
    BY DEF Tools!SelectInSeq
  <2>4. Tools!Min({p}) = p
    <3>1. {p} \subseteq Nat /\ {p} # {}
      BY <1>1
    <3> QED
      BY <3>1, Least
  <2>5. t = Append(u, e)
    BY <1>3, <2>2, <2>3, <2>4 DEF Tools!RemoveFirst
  <2>6. /\ u \in Seq(S) /\ Len(u) = Len(s) - 1
        /\ \A j \in 1..(Len(s) - 1) : u[j] = IF j < p THEN s[j] ELSE s[j + 1]
    BY TakenOut
  <2> HIDE DEF I, u
  <2>7. /\ t \in Seq(S) /\ Len(t) = Len(u) + 1 /\ t[Len(u) + 1] = e
        /\ \A i \in 1..Len(u) : t[i] = u[i]
    BY <2>5, <2>6, AppendProperties
  <2>8. /\ Len(t) = Len(s) /\ t[Len(s)] = e
        /\ \A j \in 1..(Len(s) - 1) : t[j] = IF j < p THEN s[j] ELSE s[j + 1]
    BY <1>1, <2>6, <2>7
  <2>9. \A i \in 1..(Len(t) - 1) : t[i] # e
    BY <1>1, <2>1, <2>8
  <2>10. \A i, j \in 1..Len(t) : t[i] = t[j] => i = j
    <3>1. ASSUME NEW i \in 1..(Len(s) - 1), NEW j \in 1..(Len(s) - 1), t[i] = t[j] PROVE i = j
      BY <1>1, <2>1, <2>8, <3>1
    <3>2. \A i \in 1..Len(s) : i = Len(s) \/ i \in 1..(Len(s) - 1)
      BY <1>1
    <3> QED
      BY <1>1, <2>8, <2>9, <3>1, <3>2
  <2>11. ASSUME NEW j \in 1..Len(s) PROVE \E i \in 1..Len(t) : t[i] = s[j]
    <3>1. CASE j = p
      BY <1>1, <2>1, <2>8, <3>1
    <3>2. CASE j < p
      BY <1>1, <2>1, <2>8, <3>2
    <3>3. CASE j > p
      <4>1. j - 1 \in 1..(Len(s) - 1) /\ ~(j - 1 < p) /\ (j - 1) + 1 = j
        BY <1>1, <3>3
      <4>2. t[j - 1] = s[j]
        BY <2>8, <4>1
      <4> QED
        BY SMTT(60), <1>1, <2>8, <4>1, <4>2
    <3> QED
      BY <1>1, <3>1, <3>2, <3>3
  <2>12. ASSUME NEW i \in 1..(Len(t) - 1)
         PROVE  \E j \in 1..Len(s) : s[j] = t[i] /\ Len(s) - j <= Len(t) - i
    <3>1. CASE i < p
      <4>1. i \in 1..Len(s) /\ s[i] = t[i] /\ Len(s) - i <= Len(t) - i
        BY <1>1, <2>8, <3>1
      <4> QED
        BY <4>1
    <3>2. CASE ~(i < p)
      <4>1. i + 1 \in 1..Len(s) /\ s[i + 1] = t[i] /\ Len(s) - (i + 1) <= Len(t) - i
        BY <1>1, <2>8, <3>2
      <4> QED
        BY <4>1
    <3> QED
      BY <3>1, <3>2
  <2>13. Len(t) \in Nat /\ Len(t) >= 1 /\ t[Len(t)] = e
    BY <1>1, <2>8
  <2> QED
    BY <1>1, <2>7, <2>9, <2>10, <2>11, <2>12, <2>13 DEF AtTheEnd
<1> QED
  BY <1>2, <1>3

\* What is forgotten was not read lately: at least as many were read after it as the
\* session keeps besides.
LEMMA OldestIsOld ==
    ASSUME ToolAssumptions, ReadsFit, Cardinality(provenance) >= MaxSeen
    PROVE  /\ Tools!Oldest \in provenance
           /\ \E p \in 1..Len(reads) : reads[p] = Tools!Oldest /\ p <= Len(reads) - (MaxSeen - 1)
<1> DEFINE I == {i \in DOMAIN reads : reads[i] \in provenance}
           p == Tools!Min(I)
<1>1. /\ reads \in Seq(Entity) /\ Len(reads) \in Nat /\ DOMAIN reads = 1..Len(reads)
      /\ IsFiniteSet(provenance) /\ MaxSeen \in Nat \ {0}
  BY DEF ReadsFit, ToolAssumptions, Tools!LimitAssumption
<1>2. provenance # {}
  BY <1>1, FS_EmptySet
<1>3. \A e \in provenance : \E i \in 1..Len(reads) : reads[i] = e
  BY DEF ReadsFit
<1>4. I # {} /\ I \subseteq Nat
  BY <1>1, <1>2, <1>3
<1>5. p \in I /\ \A n \in I : p <= n
  BY <1>4, Least
<1>6. Tools!Oldest = reads[p]
  BY DEF Tools!Oldest
<1>7. p \in 1..Len(reads) /\ reads[p] \in provenance
      /\ \A i \in 1..Len(reads) : reads[i] \in provenance => p <= i
  BY <1>1, <1>5
<1> HIDE DEF p, I
<1>8. PICK m \in 1..Len(reads) : m = p
  BY <1>7
<1> DEFINE S == provenance \ {reads[m]}
           f == [e \in S |-> CHOOSE i \in 1..Len(reads) : reads[i] = e]
<1>9. ASSUME NEW e \in S PROVE f[e] \in (m + 1)..Len(reads) /\ reads[f[e]] = e
  <2>1. f[e] \in 1..Len(reads) /\ reads[f[e]] = e
    BY <1>3
  <2> HIDE DEF f
  <2>2. f[e] # m /\ m <= f[e]
    BY <1>7, <1>8, <2>1
  <2> QED
    BY <1>1, <2>1, <2>2
<1>10. f \in [S -> (m + 1)..Len(reads)]
  BY <1>9
<1>11. \A x, y \in S : f[x] = f[y] => x = y
  <2> HIDE DEF f
  <2> QED
    BY <1>9
<1>12. Cardinality(S) <= Len(reads) - m
  <2> HIDE DEF f, S
  <2> QED
    BY <1>1, <1>8, <1>10, <1>11, AfterIsFew
<1>13. Cardinality(S) = Cardinality(provenance) - 1 /\ Cardinality(provenance) \in Nat
  BY <1>1, <1>7, <1>8, FS_RemoveElement, FS_CardinalityType
<1>14. m <= Len(reads) - (MaxSeen - 1)
  <2> HIDE DEF S
  <2> QED
    BY <1>1, <1>8, <1>12, <1>13
<1> QED
  BY <1>6, <1>7, <1>8, <1>14

LEMMA RememberKeeps ==
    ASSUME ToolAssumptions, ReadsFit, NEW e \in Entity, Tools!Remember(e)
    PROVE  ReadsFit' /\ \A i \in 1..Len(reads) : \E j \in 1..Len(reads') : reads'[j] = reads[i]
<1>1. /\ reads \in Seq(Entity) /\ IsFiniteSet(provenance) /\ Cardinality(provenance) <= MaxSeen
      /\ \A i, j \in 1..Len(reads) : reads[i] = reads[j] => i = j
      /\ \A r \in provenance : \E i \in 1..Len(reads) : reads[i] = r
      /\ \A i \in 1..Len(reads) : i > Len(reads) - (MaxSeen - 1) => reads[i] \in provenance
      /\ MaxSeen \in Nat \ {0}
  BY DEF ReadsFit, ToolAssumptions, Tools!LimitAssumption
<1> DEFINE t == Append(Tools!RemoveFirst(reads, e), e)
<1>2. /\ t \in Seq(Entity) /\ Len(t) \in Nat /\ Len(reads) \in Nat /\ Len(t) >= 1 /\ t[Len(t)] = e
      /\ \A i \in 1..(Len(t) - 1) : t[i] # e
      /\ \A i, j \in 1..Len(t) : t[i] = t[j] => i = j
      /\ \A j \in 1..Len(reads) : \E i \in 1..Len(t) : t[i] = reads[j]
      /\ \A i \in 1..(Len(t) - 1) :
            \E j \in 1..Len(reads) : reads[j] = t[i] /\ Len(reads) - j <= Len(t) - i
  <2> HIDE DEF t
  <2>1. t = Append(Tools!RemoveFirst(reads, e), e)
    BY DEF t
  <2>2. reads \in Seq(Entity) /\ \A i, j \in 1..Len(reads) : reads[i] = reads[j] => i = j
    BY <1>1
  <2>3. AtTheEnd(Entity, reads, e, t)
    BY ONLY <2>1, <2>2, e \in Entity, MovedToEnd
  <2> QED
    BY <2>3 DEF AtTheEnd
<1>3. reads' = t /\ provenance' = Tools!Kept \union {e}
  BY DEF Tools!Remember
<1> HIDE DEF t
<1>4. /\ Tools!Kept \subseteq provenance /\ IsFiniteSet(Tools!Kept)
      /\ Cardinality(Tools!Kept) <= MaxSeen - 1
      /\ \A i \in 1..Len(reads) :
            i > Len(reads) - (MaxSeen - 1) => reads[i] \in Tools!Kept
  <2>1. CASE Cardinality(provenance) >= MaxSeen
    <3>1. /\ Tools!Oldest \in provenance
          /\ \E p \in 1..Len(reads) : reads[p] = Tools!Oldest /\ p <= Len(reads) - (MaxSeen - 1)
      BY <2>1, OldestIsOld
    <3>2. PICK p \in 1..Len(reads) : reads[p] = Tools!Oldest /\ p <= Len(reads) - (MaxSeen - 1)
      BY <3>1
    <3>3. Tools!Kept = provenance \ {Tools!Oldest}
      BY <2>1, ToolsCardinality DEF Tools!Kept
    <3>4. IsFiniteSet(Tools!Kept) /\ Cardinality(Tools!Kept) = Cardinality(provenance) - 1
      BY <1>1, <3>1, <3>3, FS_RemoveElement
    <3>5. Cardinality(provenance) \in Nat
      BY <1>1, FS_CardinalityType
    <3>6. ASSUME NEW i \in 1..Len(reads), i > Len(reads) - (MaxSeen - 1) PROVE reads[i] \in Tools!Kept
      <4>1. i # p
        BY <1>1, <1>2, <3>2, <3>6
      <4>2. reads[i] # reads[p]
        BY <1>1, <4>1
      <4> QED
        BY <1>1, <3>2, <3>3, <3>6, <4>2
    <3> QED
      BY <1>1, <3>3, <3>4, <3>5, <3>6
  <2>2. CASE ~(Cardinality(provenance) >= MaxSeen)
    <3>1. Tools!Kept = provenance
      BY <2>2, ToolsCardinality DEF Tools!Kept
    <3>2. Cardinality(provenance) \in Nat
      BY <1>1, FS_CardinalityType
    <3> QED
      BY <1>1, <2>2, <3>1, <3>2
  <2> QED
    BY <2>1, <2>2
<1>5. IsFiniteSet(provenance') /\ Cardinality(provenance') <= MaxSeen
  <2>1. /\ IsFiniteSet(Tools!Kept \union {e})
        /\ Cardinality(Tools!Kept \union {e}) =
              IF e \in Tools!Kept THEN Cardinality(Tools!Kept) ELSE Cardinality(Tools!Kept) + 1
    BY <1>4, FS_AddElement
  <2>2. Cardinality(Tools!Kept) \in Nat
    BY <1>4, FS_CardinalityType
  <2> QED
    BY <1>1, <1>3, <1>4, <2>1, <2>2
<1>6. \A r \in provenance' : \E i \in 1..Len(t) : t[i] = r
  <2> SUFFICES ASSUME NEW r \in provenance' PROVE \E i \in 1..Len(t) : t[i] = r
    OBVIOUS
  <2>1. CASE r = e
    BY <1>2, <2>1
  <2>2. CASE r \in provenance
    BY <1>1, <1>2, <2>2
  <2> QED
    BY <1>3, <1>4, <2>1, <2>2
<1>7. ASSUME NEW i \in 1..Len(t), i > Len(t) - (MaxSeen - 1) PROVE t[i] \in provenance'
  <2>1. CASE i = Len(t)
    BY <1>2, <1>3, <2>1
  <2>2. CASE i # Len(t)
    <3>1. i \in 1..(Len(t) - 1)
      BY <1>2, <2>2
    <3>2. PICK j \in 1..Len(reads) : reads[j] = t[i] /\ Len(reads) - j <= Len(t) - i
      BY <1>2, <3>1
    <3>3. j > Len(reads) - (MaxSeen - 1)
      BY <1>1, <1>2, <1>7, <3>1, <3>2
    <3>4. reads[j] \in Tools!Kept
      BY <1>4, <3>3
    <3> QED
      BY <1>3, <3>2, <3>4
  <2> QED
    BY <2>1, <2>2
<1>8. ReadsFit'
  BY <1>2, <1>3, <1>5, <1>6, <1>7 DEF ReadsFit
<1>9. \A i \in 1..Len(reads) : \E j \in 1..Len(reads') : reads'[j] = reads[i]
  BY <1>2, <1>3
<1> QED
  BY <1>8, <1>9

LEMMA ReadsMove ==
    ASSUME CallsFit, NEW s \in Slot, Step(s)
    PROVE  UNCHANGED <<provenance, reads>> \/ \E e \in Entity : Tools!Remember(e)
<1>1. CASE Tools!Get(s)
  <2>1. call[s].of \in Entity
    BY <1>1 DEF CallsFit, Suited, Tools!Get, Tools!At
  <2> QED
    BY <1>1, <2>1 DEF Tools!Get
<1>2. CASE Tools!RememberNext(s)
  <2>1. call[s].found \subseteq Entity
    BY DEF CallsFit, Calls
  <2> QED
    BY <1>2, <2>1 DEF Tools!RememberNext
<1>3. CASE ~Tools!Get(s) /\ ~Tools!RememberNext(s)
  BY <1>3 DEF Step, Tools!Begin, Tools!Reject, Tools!Lookup, Tools!List,
         Tools!ReserveReport, Tools!RefuseReport, Tools!FetchReport,
         Tools!ReleaseReport, Tools!Lock, Tools!Stage, Tools!Discard, Tools!Tell, Tools!Show,
         Tools!Present, Tools!Fail
<1> QED
  BY <1>1, <1>2, <1>3

\* What was read stays read, and what was remembered lately stays remembered.
LEMMA ReadsKeep ==
    ASSUME ToolAssumptions, CallsFit, ReadsFit, NEW s \in Slot, Step(s)
    PROVE  ReadsFit' /\ \A i \in 1..Len(reads) : \E j \in 1..Len(reads') : reads'[j] = reads[i]
<1>1. CASE UNCHANGED <<provenance, reads>>
  BY <1>1 DEF ReadsFit
<1>2. CASE \E e \in Entity : Tools!Remember(e)
  BY <1>2, RememberKeeps
<1> QED
  BY <1>1, <1>2, ReadsMove

-----------------------------------------------------------------------------
(* Reports.                                                                 *)

Reporting(s) == Tools!ReserveReport(s) \/ Tools!FetchReport(s) \/ Tools!ReleaseReport(s)

LEMMA GotoGoes ==
    ASSUME CallsFit, NEW s \in Slot, NEW p \in Points, Tools!Goto(s, p)
    PROVE  /\ call'[s] = [call[s] EXCEPT !.at = p]
           /\ call'[s].tool = call[s].tool /\ call'[s].of = call[s].of /\ call'[s].at = p
<1>1. call \in [Slot -> Calls] /\ call[s] \in Calls
  BY DEF CallsFit
<1>2. call'[s] = [call[s] EXCEPT !.at = p]
  BY <1>1 DEF Tools!Goto
<1> QED
  BY <1>1, <1>2 DEF Calls

LEMMA AnswerIdles ==
    ASSUME CallsFit, NEW s \in Slot, Tools!Answer(s)
    PROVE  call'[s] = Tools!Idle /\ call'[s].tool = "none" /\ call'[s].at = "idle"
  BY DEF CallsFit, Tools!Answer, Tools!Idle

Changing(s) ==
    Tools!Lock(s) \/ Tools!Stage(s) \/ Tools!Discard(s) \/ Tools!Tell(s) \/ Tools!Show(s)

\* Where the three kinds of steps go.
LEMMA PlainGoes ==
    ASSUME ToolAssumptions, CallsFit, NEW s \in Slot, Step(s), ~Reporting(s), ~Changing(s)
    PROVE  /\ UNCHANGED <<reports, inFlight, mutationMu, change, taken, told>>
           /\ call[s].at \in {"idle", "asked", "remembering", "refused"}
           /\ call'[s].at \in {"idle", "asked", "remembering"}
<1>1. UNCHANGED <<reports, inFlight, mutationMu, change, taken, told>>
  BY DEF Step, Reporting, Changing, Tools!Begin, Tools!Reject, Tools!Lookup, Tools!Get,
         Tools!List, Tools!RememberNext, Tools!RefuseReport, Tools!Present
<1>2. call[s].at \in {"idle", "asked", "remembering", "refused"}
  BY DEF Step, Reporting, Changing, Tools!At, Tools!Begin, Tools!Reject, Tools!Lookup,
         Tools!Get, Tools!List, Tools!RememberNext, Tools!RefuseReport, Tools!Present
<1>3. call \in [Slot -> Calls] /\ call[s] \in Calls
  BY DEF CallsFit
<1>4. call'[s].at \in {"idle", "asked", "remembering"}
  <2>1. CASE Tools!Answer(s)
    BY <2>1, AnswerIdles
  <2>2. CASE Tools!Begin(s)
    BY <1>3, <2>2 DEF Tools!Begin
  <2>3. CASE Tools!List(s) /\ ~Tools!Answer(s)
    <3>1. PICK found \in UNION {SUBSET all : all \in Tools!Listable(call[s].of)} :
             call' = [call EXCEPT ![s].at = "remembering", ![s].found = found]
      BY <2>3 DEF Tools!List
    <3> QED
      BY <1>3, <3>1 DEF Calls
  <2>4. CASE Tools!RememberNext(s) /\ ~Tools!Answer(s)
    <3>1. PICK e \in call[s].found : call' = [call EXCEPT ![s].found = @ \ {e}]
      BY <2>4 DEF Tools!RememberNext
    <3>2. call[s].at = "remembering"
      BY <2>4 DEF Tools!RememberNext, Tools!At
    <3> QED
      BY <1>3, <3>1, <3>2 DEF Calls
  <2> QED
    BY <2>1, <2>2, <2>3, <2>4
       DEF Step, Reporting, Changing, Tools!Reject, Tools!Lookup, Tools!Get, Tools!RefuseReport,
           Tools!Present
<1> QED
  BY <1>1, <1>2, <1>4

LEMMA ChangingGoes ==
    ASSUME ToolAssumptions, CallsFit, NEW s \in Slot, Changing(s)
    PROVE  /\ UNCHANGED <<reports, inFlight>>
           /\ call[s].at \in {"asked"} \union Critical
           /\ call'[s].at \in {"idle"} \union Critical
<1>1. UNCHANGED <<reports, inFlight>>
  BY DEF Changing, Tools!Lock, Tools!Stage, Tools!Discard, Tools!Tell, Tools!Show, Tools!Fail
<1>2. call[s].at \in {"asked"} \union Critical
  BY DEF Changing, Critical, Tools!At, Tools!Lock, Tools!Stage, Tools!Discard, Tools!Tell, Tools!Show
<1>3. call \in [Slot -> Calls] /\ call[s] \in Calls
  BY DEF CallsFit
<1>4. call'[s].at \in {"idle"} \union Critical
  <2>1. CASE Tools!Answer(s)
    BY <2>1, AnswerIdles
  <2>2. CASE \E p \in Critical : Tools!Goto(s, p)
    BY <2>2, GotoGoes DEF Critical, Points
  <2>3. CASE Tools!Stage(s) /\ ~Tools!Answer(s)
    <3>1. PICK x \in Change : call' = [call EXCEPT ![s].at = "telling", ![s].of = x]
      BY <2>3 DEF Tools!Stage, Tools!Fail
    <3> QED
      BY <1>3, <3>1 DEF Calls, Critical
  <2>4. "locked" \in Critical /\ "telling" \in Critical /\ "showing" \in Critical
    BY DEF Critical
  <2>5. CASE ~Tools!Stage(s)
    <3>1. \/ Tools!Answer(s) \/ Tools!Goto(s, "locked") \/ Tools!Goto(s, "telling")
          \/ Tools!Goto(s, "showing")
      BY <2>5 DEF Changing, Tools!Lock, Tools!Discard, Tools!Tell, Tools!Show, Tools!Fail
    <3> QED
      BY <2>1, <2>2, <2>4, <3>1
  <2> QED
    BY <2>1, <2>3, <2>5
<1> QED
  BY <1>1, <1>2, <1>4

LEMMA ReportingGoes ==
    ASSUME ToolAssumptions, CallsFit, NEW s \in Slot, Reporting(s)
    PROVE  /\ UNCHANGED <<mutationMu, change, taken, told>>
           /\ call[s].tool = "report" /\ call[s].at \in {"asked", "fetching", "fetched"}
           /\ call'[s].at \in {"idle", "fetching", "fetched", "refused"}
<1>1. UNCHANGED <<mutationMu, change, taken, told>>
  BY DEF Reporting, Tools!ReserveReport, Tools!FetchReport, Tools!ReleaseReport
<1>2. call[s].tool = "report" /\ call[s].at \in {"asked", "fetching", "fetched"}
  BY DEF Reporting, Tools!At, Tools!ReserveReport, Tools!FetchReport, Tools!ReleaseReport
<1>3. \/ Tools!Answer(s) \/ Tools!Goto(s, "fetching") \/ Tools!Goto(s, "fetched")
      \/ Tools!Goto(s, "refused")
  BY DEF Reporting, Tools!ReserveReport, Tools!FetchReport, Tools!ReleaseReport
<1>4. call'[s].at \in {"idle", "fetching", "fetched", "refused"}
  BY <1>3, AnswerIdles, GotoGoes DEF Points
<1> QED
  BY <1>1, <1>2, <1>4

LEMMA ReportsKeep ==
    ASSUME ToolAssumptions, CallsFit, ReportsFit, NEW s \in Slot, Step(s)
    PROVE  ReportsFit' /\ \A i \in 1..Len(reports) : \E j \in 1..Len(reports') : reports'[j] = reports[i]
<1>1. /\ call \in [Slot -> Calls] /\ call[s] \in Calls /\ Suited(call[s])
      /\ \A o \in Slot \ {s} : call'[o] = call[o]
  BY CallsMove DEF CallsFit
<1>2. /\ reports \in Seq(Query) /\ Len(reports) \in Nat /\ IsFiniteSet(Tools!Reserved)
      /\ inFlight = Cardinality(Tools!Reserved)
      /\ Len(reports) + Cardinality(Tools!Pending) <= MaxReports
      /\ MaxReports \in Nat
  BY DEF ReportsFit, ToolAssumptions, Tools!LimitAssumption
<1>3. IsFiniteSet(Tools!Pending) /\ Cardinality(Tools!Pending) <= Cardinality(Tools!Reserved)
  <2>1. Tools!Pending \subseteq Tools!Reserved
    BY DEF Tools!Pending, Tools!Reserved, Tools!At
  <2> QED
    BY <1>2, <2>1, FS_Subset
<1>4. Cardinality(Tools!Reserved) \in Nat /\ Cardinality(Tools!Pending) \in Nat
  BY <1>2, <1>3, FS_CardinalityType
<1> DEFINE Same == \A i \in 1..Len(reports) : \E j \in 1..Len(reports') : reports'[j] = reports[i]
<1>5. UNCHANGED reports => Same
  OBVIOUS
<1>6. ASSUME UNCHANGED <<reports, inFlight>>, Tools!Reserved' = Tools!Reserved, Tools!Pending' = Tools!Pending
      PROVE  ReportsFit' /\ Same
  BY <1>2, <1>5, <1>6 DEF ReportsFit
<1>7. CASE ~Reporting(s)
  <2>1. /\ UNCHANGED <<reports, inFlight>>
        /\ call[s].at \notin {"fetching", "fetched"} /\ call'[s].at \notin {"fetching", "fetched"}
    BY <1>7, PlainGoes, ChangingGoes DEF Critical
  <2>2. Tools!Reserved' = Tools!Reserved /\ Tools!Pending' = Tools!Pending
    BY <1>1, <2>1 DEF Tools!Reserved, Tools!Pending, Tools!At
  <2> QED
    BY <1>6, <2>1, <2>2
<1>8. CASE Tools!ReserveReport(s)
  <2>1. call[s].tool = "report" /\ call[s].at = "asked" /\ UNCHANGED reports
    BY <1>8 DEF Tools!ReserveReport, Tools!At
  <2>2. CASE ~Tools!Goto(s, "fetching")
    <3>1. UNCHANGED inFlight /\ (Tools!Answer(s) \/ Tools!Goto(s, "refused"))
      BY <1>8, <2>2 DEF Tools!ReserveReport
    <3>2. call'[s].at \in {"idle", "refused"}
      BY <3>1, AnswerIdles, GotoGoes DEF Points
    <3>3. Tools!Reserved' = Tools!Reserved /\ Tools!Pending' = Tools!Pending
      BY <1>1, <2>1, <3>2 DEF Tools!Reserved, Tools!Pending, Tools!At
    <3> QED
      BY <1>6, <2>1, <3>1, <3>3
  <2>3. CASE Tools!Goto(s, "fetching")
    <3>1. call'[s].tool = "report" /\ call'[s].at = "fetching"
      BY <2>1, <2>3, GotoGoes DEF Points
    <3>2. ~Tools!Full /\ inFlight' = inFlight + 1
      <4>1. ~Tools!Answer(s) /\ ~Tools!Goto(s, "refused")
        BY <3>1, AnswerIdles, GotoGoes DEF Points
      <4> QED
        BY <1>8, <4>1 DEF Tools!ReserveReport
    <3>3. Tools!Reserved' = Tools!Reserved \union {s} /\ Tools!Pending' = Tools!Pending \union {s}
      BY <1>1, <3>1 DEF Tools!Reserved, Tools!Pending, Tools!At
    <3>4. s \notin Tools!Reserved /\ s \notin Tools!Pending
      BY <2>1 DEF Tools!Reserved, Tools!Pending, Tools!At
    <3>5. /\ IsFiniteSet(Tools!Reserved') /\ Cardinality(Tools!Reserved') = Cardinality(Tools!Reserved) + 1
          /\ Cardinality(Tools!Pending') = Cardinality(Tools!Pending) + 1
      BY <1>2, <1>3, <3>3, <3>4, FS_AddElement
    <3>6. Len(reports) + Cardinality(Tools!Pending') <= MaxReports
      BY <1>2, <1>3, <1>4, <3>2, <3>5 DEF Tools!Full, Tools!Held
    <3> QED
      BY <1>2, <1>5, <2>1, <3>2, <3>5, <3>6 DEF ReportsFit
  <2> QED
    BY <2>2, <2>3
<1>9. CASE Tools!FetchReport(s)
  <2>1. call[s].tool = "report" /\ call[s].at = "fetching" /\ UNCHANGED inFlight
        /\ call[s].of \in Query /\ reports' \in {Append(reports, call[s].of), reports}
    BY <1>1, <1>9 DEF Tools!FetchReport, Tools!At, Suited
  <2>2. call'[s].tool = "report" /\ call'[s].at = "fetched"
    BY <1>9, <2>1, GotoGoes DEF Tools!FetchReport, Points
  <2>3. Tools!Reserved' = Tools!Reserved /\ Tools!Pending' = Tools!Pending \ {s} /\ s \in Tools!Pending
    BY <1>1, <2>1, <2>2 DEF Tools!Reserved, Tools!Pending, Tools!At
  <2>4. Cardinality(Tools!Pending') = Cardinality(Tools!Pending) - 1
    BY <1>3, <2>3, FS_RemoveElement
  <2>5. /\ reports' \in Seq(Query) /\ Len(reports') \in {Len(reports), Len(reports) + 1}
        /\ \A i \in 1..Len(reports) : reports'[i] = reports[i]
    BY SMTT(60), <1>2, <2>1, AppendProperties
  <2>6. Len(reports') + Cardinality(Tools!Pending') <= MaxReports
    BY <1>2, <1>4, <2>4, <2>5
  <2>7. Same
    BY <1>2, <2>5
  <2>8. ReportsFit'
    BY <1>2, <2>1, <2>3, <2>5, <2>6 DEF ReportsFit
  <2> QED
    BY <2>7, <2>8
<1>10. CASE Tools!ReleaseReport(s)
  <2>1. call[s].tool = "report" /\ call[s].at = "fetched" /\ UNCHANGED reports
        /\ inFlight' = inFlight - 1 /\ Tools!Answer(s)
    BY <1>10 DEF Tools!ReleaseReport, Tools!At
  <2>2. call'[s].tool = "none"
    BY <2>1, AnswerIdles
  <2>3. Tools!Reserved' = Tools!Reserved \ {s} /\ Tools!Pending' = Tools!Pending /\ s \in Tools!Reserved
    BY <1>1, <2>1, <2>2 DEF Tools!Reserved, Tools!Pending, Tools!At
  <2>4. IsFiniteSet(Tools!Reserved') /\ Cardinality(Tools!Reserved') = Cardinality(Tools!Reserved) - 1
    BY <1>2, <2>3, FS_RemoveElement
  <2> QED
    BY <1>2, <1>5, <2>1, <2>3, <2>4 DEF ReportsFit
<1> QED
  BY <1>7, <1>8, <1>9, <1>10 DEF Reporting

-----------------------------------------------------------------------------
(* Changes.                                                                 *)

LEMMA StageGoes ==
    ASSUME CallsFit, NEW s \in Slot, Tools!Stage(s), ~Tools!Fail(s)
    PROVE  /\ UNCHANGED <<cards, mutationMu, known, told>>
           /\ call'[s].tool = "stage" /\ call'[s].at = "telling" /\ call'[s].of \in Change
           /\ change[call'[s].of] = "absent"
           /\ change' = [change EXCEPT ![call'[s].of] = "staged"]
           /\ taken' = Append(taken, [did |-> "staged", to |-> call'[s].of])
<1>1. PICK c \in Change :
         /\ change[c] = "absent" /\ change' = [change EXCEPT ![c] = "staged"]
         /\ taken' = Append(taken, [did |-> "staged", to |-> c])
         /\ call' = [call EXCEPT ![s].at = "telling", ![s].of = c]
  BY DEF Tools!Stage
<1>2. call[s].tool = "stage" /\ UNCHANGED <<cards, mutationMu, known, told>>
  BY DEF Tools!Stage, Tools!At
<1>3. call'[s].tool = "stage" /\ call'[s].at = "telling" /\ call'[s].of = c
  BY <1>1, <1>2 DEF CallsFit, Calls
<1> QED
  BY <1>1, <1>2, <1>3

LEMMA FailGoes ==
    ASSUME CallsFit, NEW s \in Slot, Tools!Fail(s)
    PROVE  /\ mutationMu' = None /\ call'[s].tool = "none" /\ call'[s].at = "idle"
           /\ UNCHANGED <<cards, change, known, taken, told>>
  BY AnswerIdles DEF Tools!Fail

LEMMA ChangesKeep ==
    ASSUME ToolAssumptions, CallsFit, ChangesFit, NEW s \in Slot, Step(s)
    PROVE  ChangesFit'
<1>1. /\ call[s] \in Calls /\ Suited(call[s]) /\ known' = known
      /\ call'[s] \in Calls /\ \A o \in Slot \ {s} : call'[o] = call[o]
      /\ None \notin Slot
  BY CallsMove, KnownStays DEF CallsFit, ToolAssumptions, Tools!EntityAssumption
<1>2. /\ mutationMu \in Slot \union {None}
      /\ \A o \in Slot : call[o].at \in Critical <=> mutationMu = o
      /\ told \in Seq(Events)
      /\ \A o \in Slot : call[o].at = "telling" => taken = Append(told, Entry(call[o]))
      /\ (\A o \in Slot : call[o].at # "telling") => taken = told
      /\ \A o \in Slot : call[o].tool = "stage" /\ call[o].at \in {"telling", "showing"} =>
            change[call[o].of] # "absent" /\ call[o].of \notin known
  BY DEF ChangesFit
<1>3. \A o \in Slot \ {s} : Entry(call'[o]) = Entry(call[o])
  BY <1>1
<1>4. CASE ~Changing(s)
  <2>1. /\ UNCHANGED <<mutationMu, change, taken, told>>
        /\ call[s].at \notin Critical /\ call'[s].at \notin Critical
    BY <1>4, PlainGoes, ReportingGoes DEF Critical
  <2>2. call[s].at \notin {"telling", "showing"} /\ call'[s].at \notin {"telling", "showing"}
    BY <2>1 DEF Critical
  <2>3. \A o \in Slot : call'[o].at \in {"telling", "showing"} => o # s /\ call'[o] = call[o]
    BY <1>1, <2>2
  <2>4. \A o \in Slot : call[o].at = "telling" => call'[o].at = "telling"
    BY <1>1, <2>2
  <2>5. (\A o \in Slot : call[o].at \in Critical <=> mutationMu = o)'
    BY <1>1, <1>2, <2>1
  <2>6. (\A o \in Slot : call[o].at = "telling" => taken = Append(told, Entry(call[o])))'
    BY <1>2, <1>3, <2>1, <2>3
  <2>7. ((\A o \in Slot : call[o].at # "telling") => taken = told)'
    BY <1>2, <2>1, <2>4
  <2>8. (\A o \in Slot : call[o].tool = "stage" /\ call[o].at \in {"telling", "showing"} =>
            change[call[o].of] # "absent" /\ call[o].of \notin known)'
    BY <1>1, <1>2, <2>1, <2>3
  <2> QED
    BY <1>2, <2>1, <2>5, <2>6, <2>7, <2>8 DEF ChangesFit
<1>5. CASE Tools!Lock(s)
  <2>1. mutationMu = None /\ mutationMu' = s /\ UNCHANGED <<change, taken, told>>
        /\ call'[s].at = "locked"
    BY <1>5, GotoGoes DEF Tools!Lock, Points
  <2>2. \A o \in Slot : call[o].at \notin Critical
    BY <1>1, <1>2, <2>1
  <2>3. \A o \in Slot : call'[o].at \notin {"telling", "showing"}
    BY <1>1, <2>1, <2>2 DEF Critical
  <2>4. taken = told
    BY <1>2, <2>2 DEF Critical
  <2>5. \A o \in Slot : call'[o].at \in Critical <=> s = o
    BY <1>1, <2>1, <2>2 DEF Critical
  <2> QED
    BY <1>2, <2>1, <2>3, <2>4, <2>5 DEF ChangesFit
\* The other steps are taken with the mutex.
<1>6. ASSUME call[s].at \in Critical
      PROVE  mutationMu = s /\ \A o \in Slot \ {s} : call'[o] = call[o] /\ call[o].at \notin Critical
  BY <1>1, <1>2, <1>6
<1>7. ASSUME call[s].at \in Critical, call'[s].at = "idle", mutationMu' = None,
             UNCHANGED <<change, told, taken>>, taken = told
      PROVE  ChangesFit'
  <2>1. \A o \in Slot : call'[o].at \notin Critical
    BY <1>6, <1>7 DEF Critical
  <2>2. \A o \in Slot : call'[o].at \notin {"telling", "showing"} /\ mutationMu' # o
    BY <1>1, <1>7, <2>1 DEF Critical
  <2> QED
    BY <1>2, <1>7, <2>1, <2>2 DEF ChangesFit
<1>8. ASSUME call[s].at \in {"locked", "showing"} PROVE taken = told
  <2>1. \A o \in Slot : call[o].at # "telling"
    BY <1>6, <1>8 DEF Critical
  <2> QED
    BY <1>2, <2>1
<1>9. ASSUME call[s].at = "locked", call'[s].at = "telling", mutationMu' = mutationMu, told' = told,
             taken' = Append(taken, Entry(call'[s])),
             call'[s].tool = "stage" => change'[call'[s].of] # "absent" /\ call'[s].of \notin known
      PROVE  ChangesFit'
  <2>1. taken = told
    BY <1>8, <1>9
  <2>2. mutationMu = s /\ \A o \in Slot \ {s} : call'[o].at \notin Critical
    BY <1>6, <1>9 DEF Critical
  <2>3. \A o \in Slot : call'[o].at \in Critical <=> s = o
    BY <1>9, <2>2 DEF Critical
  <2>4. \A o \in Slot : call'[o].at \in {"telling", "showing"} => o = s
    BY <2>3 DEF Critical
  <2> QED
    BY <1>1, <1>2, <1>9, <2>1, <2>2, <2>3, <2>4 DEF ChangesFit
<1>10. CASE Tools!Stage(s)
  <2>1. call[s].at = "locked"
    BY <1>10 DEF Tools!Stage, Tools!At
  <2>2. CASE Tools!Fail(s)
    BY <1>7, <1>8, <2>1, <2>2, FailGoes DEF Critical
  <2>3. CASE ~Tools!Fail(s)
    <3>1. /\ UNCHANGED <<mutationMu, told>>
          /\ call'[s].tool = "stage" /\ call'[s].at = "telling" /\ call'[s].of \in Change
          /\ change[call'[s].of] = "absent"
          /\ change' = [change EXCEPT ![call'[s].of] = "staged"]
          /\ taken' = Append(taken, [did |-> "staged", to |-> call'[s].of])
      BY <1>10, <2>3, StageGoes
    <3>2. change'[call'[s].of] # "absent" /\ call'[s].of \notin known
      BY <3>1 DEF CallsFit
    <3>3. Entry(call'[s]) = [did |-> "staged", to |-> call'[s].of]
      BY <3>1 DEF Entry
    <3> QED
      BY <1>9, <2>1, <3>1, <3>2, <3>3
  <2> QED
    BY <2>2, <2>3
<1>11. CASE Tools!Discard(s)
  <2>1. call[s].at = "locked" /\ call[s].tool = "discard"
    BY <1>11 DEF Tools!Discard, Tools!At
  <2>2. CASE Tools!Fail(s)
    BY <1>7, <1>8, <2>1, <2>2, FailGoes DEF Critical
  <2>3. CASE ~Tools!Fail(s)
    <3>1. /\ UNCHANGED <<mutationMu, told>> /\ Tools!Goto(s, "telling")
          /\ taken' = Append(taken, [did |-> "discarded", to |-> call[s].of])
      BY <1>11, <2>3 DEF Tools!Discard
    <3>2. call'[s].tool = "discard" /\ call'[s].at = "telling" /\ call'[s].of = call[s].of
      BY <2>1, <3>1, GotoGoes DEF Points
    <3>3. Entry(call'[s]) = [did |-> "discarded", to |-> call[s].of]
      BY <3>2 DEF Entry
    <3> QED
      BY <1>9, <2>1, <3>1, <3>2, <3>3
  <2> QED
    BY <2>2, <2>3
<1>12. CASE Tools!Tell(s)
  <2>1. /\ call[s].at = "telling" /\ call[s].tool \in {"stage", "discard"}
        /\ told' = Append(told, Entry(call[s])) /\ UNCHANGED <<change, taken>>
    BY <1>12 DEF Tools!Tell, Tools!Mutating, Entry
  <2>2. taken = told'
    BY <1>2, <2>1
  <2>3. told' \in Seq(Events)
    <3>1. call[s].of \in Change
      BY <1>1, <2>1 DEF Suited, CallsFit
    <3>2. Entry(call[s]) \in Events
      BY <3>1 DEF Entry, Events
    <3> QED
      BY <1>2, <2>1, <3>2, AppendProperties
  <2>4. mutationMu = s /\ \A o \in Slot \ {s} : call'[o].at \notin Critical
    BY <1>6, <2>1 DEF Critical
  <2>5. CASE call[s].tool = "stage"
    <3>1. UNCHANGED mutationMu /\ call'[s].tool = "stage" /\ call'[s].at = "showing" /\ call'[s].of = call[s].of
      BY <1>12, <2>5, GotoGoes DEF Tools!Tell, Points
    <3>2. \A o \in Slot : call'[o].at \in Critical <=> s = o
      BY <2>4, <3>1 DEF Critical
    <3>3. \A o \in Slot : call'[o].at \in {"telling", "showing"} => o = s
      BY <3>2 DEF Critical
    <3>4. change[call[s].of] # "absent" /\ call[s].of \notin known
      BY <1>2, <2>1, <2>5
    <3>5. \A o \in Slot : call'[o].at # "telling"
      BY <3>1, <3>3
    <3> QED
      BY <1>1, <1>2, <2>1, <2>2, <2>3, <2>4, <3>1, <3>2, <3>3, <3>4, <3>5 DEF ChangesFit
  <2>6. CASE call[s].tool # "stage"
    <3>1. mutationMu' = None /\ call'[s].at = "idle"
      BY <1>12, <2>6, AnswerIdles DEF Tools!Tell
    <3>2. \A o \in Slot : call'[o].at \notin Critical
      BY <2>4, <3>1 DEF Critical
    <3>3. \A o \in Slot : call'[o].at \notin {"telling", "showing"} /\ mutationMu' # o
      BY <1>1, <3>1, <3>2 DEF Critical
    <3> QED
      BY <2>1, <2>2, <2>3, <3>1, <3>2, <3>3 DEF ChangesFit
  <2> QED
    BY <2>5, <2>6
<1>13. CASE Tools!Show(s)
  <2>1. call[s].at = "showing" /\ mutationMu' = None /\ UNCHANGED <<change, told, taken>>
        /\ call'[s].at = "idle"
    BY <1>13, AnswerIdles DEF Tools!Show, Tools!At
  <2> QED
    BY <1>7, <1>8, <2>1 DEF Critical
<1> QED
  BY <1>4, <1>5, <1>10, <1>11, <1>12, <1>13 DEF Changing

-----------------------------------------------------------------------------
(* Cards.                                                                   *)

Showing(c) == \E s \in Slot : call[s].tool = "stage" /\ call[s].at = "showing" /\ call[s].of = c
Staging(s) == call[s].tool = "stage" /\ call[s].at \in {"telling", "showing"}

\* Records stay: what a card showed it still shows.
LEMMA CardsStayGrounded ==
    ASSUME ToolAssumptions, CallsFit, ReadsFit, ReportsFit, CardsFit, NEW s \in Slot, Step(s)
    PROVE  \A i \in 1..Len(cards) :
              /\ cards[i].kind = "entity" => \E j \in 1..Len(reads') : reads'[j] = cards[i].of
              /\ cards[i].kind = "report" => \E j \in 1..Len(reports') : reports'[j] = cards[i].of
              /\ cards[i].kind = "change" => cards[i].of \in Change /\ change'[cards[i].of] # "absent"
<1> SUFFICES ASSUME NEW i \in 1..Len(cards)
             PROVE  /\ cards[i].kind = "entity" => \E j \in 1..Len(reads') : reads'[j] = cards[i].of
                    /\ cards[i].kind = "report" => \E j \in 1..Len(reports') : reports'[j] = cards[i].of
                    /\ cards[i].kind = "change" => cards[i].of \in Change /\ change'[cards[i].of] # "absent"
  OBVIOUS
<1>1. /\ cards[i].kind = "entity" => \E j \in 1..Len(reads) : reads[j] = cards[i].of
      /\ cards[i].kind = "report" => \E j \in 1..Len(reports) : reports[j] = cards[i].of
      /\ cards[i].kind = "change" => cards[i].of \in Change /\ change[cards[i].of] # "absent"
  BY DEF CardsFit
<1>2. \A j \in 1..Len(reads) : \E k \in 1..Len(reads') : reads'[k] = reads[j]
  BY ReadsKeep
<1>3. \A j \in 1..Len(reports) : \E k \in 1..Len(reports') : reports'[k] = reports[j]
  BY ReportsKeep
<1>4. cards[i].kind = "change" => change'[cards[i].of] # "absent"
  BY <1>1, ChangesLast
<1> QED
  BY <1>1, <1>2, <1>3, <1>4

\* A change that begins to be staged has no card, and the client hears of none twice.
LEMMA StagingStays ==
    ASSUME ToolAssumptions, CallsFit, ChangesFit, CardsFit, NEW s \in Slot, Step(s)
    PROVE  /\ \A o \in Slot : Staging(o)' => ~InCards(call'[o].of)
           /\ \A c \in Change : Showing(c) /\ ~Tools!Show(s) => Showing(c)'
           /\ \A c \in Change : InTold(c)' => InTold(c) \/ Showing(c)'
<1>1. /\ call[s] \in Calls /\ \A o \in Slot \ {s} : call'[o] = call[o]
      /\ \A o \in Slot : Staging(o) => ~InCards(call[o].of)
      /\ \A i \in 1..Len(cards) : cards[i].kind = "change" => change[cards[i].of] # "absent"
  BY CallsMove DEF CallsFit, CardsFit, Staging
<1>2. Staging(s)' => \/ call[s].tool = "stage" /\ call[s].at \in {"telling", "showing"} /\ call'[s].of = call[s].of
                     \/ change[call'[s].of] = "absent"
  <2>1. CASE ~Changing(s)
    <3>1. call'[s].at \notin {"telling", "showing"}
      BY <2>1, PlainGoes, ReportingGoes DEF Critical
    <3> QED
      BY <3>1 DEF Staging
  <2>2. CASE Tools!Lock(s)
    BY <2>2, GotoGoes DEF Tools!Lock, Points, Staging
  <2>3. CASE Tools!Stage(s)
    BY <2>3, StageGoes, FailGoes DEF Staging
  <2>4. CASE Tools!Discard(s)
    <3>1. call[s].tool = "discard" /\ (Tools!Fail(s) \/ Tools!Goto(s, "telling"))
      BY <2>4 DEF Tools!Discard, Tools!At
    <3>2. call'[s].tool \in {"none", "discard"}
      BY <3>1, FailGoes, GotoGoes DEF Points
    <3> QED
      BY <3>2 DEF Staging
  <2>5. CASE Tools!Tell(s)
    <3>1. CASE call[s].tool = "stage"
      BY <2>5, <3>1, GotoGoes DEF Tools!Tell, Points, Staging
    <3>2. CASE call[s].tool # "stage"
      BY <2>5, <3>2, AnswerIdles DEF Tools!Tell, Staging
    <3> QED
      BY <3>1, <3>2
  <2>6. CASE Tools!Show(s)
    BY <2>6, AnswerIdles DEF Tools!Show, Staging
  <2> QED
    BY <2>1, <2>2, <2>3, <2>4, <2>5, <2>6 DEF Changing
<1>3. ASSUME NEW c, change[c] = "absent" PROVE ~InCards(c)
  BY <1>1, <1>3 DEF InCards
<1>4. \A o \in Slot : Staging(o)' => ~InCards(call'[o].of)
  <2> SUFFICES ASSUME NEW o \in Slot, Staging(o)' PROVE ~InCards(call'[o].of)
    OBVIOUS
  <2>1. CASE o = s
    BY <1>1, <1>2, <1>3, <2>1 DEF Staging
  <2>2. CASE o # s
    BY <1>1, <2>2 DEF Staging
  <2> QED
    BY <2>1, <2>2
<1>5. ASSUME ~Tools!Show(s), call[s].at = "showing" PROVE FALSE
  BY <1>5 DEF Step, Tools!At, Tools!Begin, Tools!Reject, Tools!Lookup, Tools!Get, Tools!List,
         Tools!RememberNext, Tools!ReserveReport, Tools!RefuseReport, Tools!FetchReport,
         Tools!ReleaseReport, Tools!Lock, Tools!Stage, Tools!Discard, Tools!Tell, Tools!Present
<1>6. \A c \in Change : Showing(c) /\ ~Tools!Show(s) => Showing(c)'
  BY <1>1, <1>5 DEF Showing
<1>7. \A c \in Change : InTold(c)' => InTold(c) \/ Showing(c)'
  <2>1. CASE ~Tools!Tell(s)
    <3>1. told' = told
      BY <2>1 DEF Step, Tools!Begin, Tools!Reject, Tools!Lookup, Tools!Get, Tools!List,
         Tools!RememberNext, Tools!ReserveReport, Tools!RefuseReport, Tools!FetchReport,
         Tools!ReleaseReport, Tools!Lock, Tools!Stage, Tools!Discard, Tools!Show, Tools!Present,
         Tools!Fail
    <3> QED
      BY <3>1 DEF InTold
  <2>2. CASE Tools!Tell(s)
    <3>1. told \in Seq(Events) /\ told' = Append(told, Entry(call[s]))
      BY <2>2 DEF Tools!Tell, ChangesFit, Entry
    <3>2. /\ Len(told) \in Nat /\ Len(told') = Len(told) + 1 /\ told'[Len(told) + 1] = Entry(call[s])
          /\ \A i \in 1..Len(told) : told'[i] = told[i]
      BY <3>1, AppendProperties
    <3> SUFFICES ASSUME NEW c \in Change, InTold(c)' PROVE InTold(c) \/ Showing(c)'
      OBVIOUS
    <3>3. PICK i \in 1..Len(told') : told'[i] = [did |-> "staged", to |-> c]
      BY DEF InTold
    <3>4. CASE i \in 1..Len(told)
      BY <3>2, <3>3, <3>4 DEF InTold
    <3>5. CASE i = Len(told) + 1
      <4>1. Entry(call[s]) = [did |-> "staged", to |-> c]
        BY <3>2, <3>3, <3>5
      <4>2. call[s].tool = "stage" /\ call[s].of = c
        BY <4>1 DEF Entry
      <4>3. call'[s].tool = "stage" /\ call'[s].at = "showing" /\ call'[s].of = c
        BY <2>2, <4>2, GotoGoes DEF Tools!Tell, Points
      <4> QED
        BY <4>3 DEF Showing
    <3> QED
      BY <3>2, <3>3, <3>4, <3>5
  <2> QED
    BY <2>1, <2>2
<1> QED
  BY <1>4, <1>6, <1>7

LEMMA CardAdded ==
    ASSUME NEW S, NEW t \in Seq(S), NEW k \in S, NEW u, u = Append(t, k)
    PROVE  /\ u \in Seq(S) /\ Len(t) \in Nat /\ Len(u) = Len(t) + 1 /\ u[Len(t) + 1] = k
           /\ \A i \in 1..Len(t) : u[i] = t[i]
           /\ \A i \in 1..Len(u) : i = Len(t) + 1 \/ i \in 1..Len(t)
<1>1. /\ u \in Seq(S) /\ Len(t) \in Nat /\ Len(u) = Len(t) + 1 /\ u[Len(t) + 1] = k
      /\ \A i \in 1..Len(t) : u[i] = t[i]
  BY AppendProperties
<1>2. \A i \in 1..Len(u) : i = Len(t) + 1 \/ i \in 1..Len(t)
  BY <1>1
<1> QED
  BY <1>1, <1>2

\* A new card shows a record, and no change that has a card or is being staged.
LEMMA CardsGrow ==
    ASSUME ToolAssumptions, CallsFit, ReadsFit, ReportsFit, ChangesFit, CardsFit,
           NEW s \in Slot, Step(s), NEW k \in CardTypes, cards' = Append(cards, k),
           Len(cards) < MaxCards,
           k.kind = "entity" => \E j \in 1..Len(reads') : reads'[j] = k.of,
           k.kind = "report" => \E j \in 1..Len(reports') : reports'[j] = k.of,
           k.kind = "change" => k.of \in Change /\ change'[k.of] # "absent" /\ ~InCards(k.of),
           k.kind = "change" => \A o \in Slot : Staging(o)' => call'[o].of # k.of,
           \A c \in Change : Showing(c) => Showing(c)' \/ k = [kind |-> "change", of |-> c]
    PROVE  CardsFit'
<1>1. /\ cards \in Seq(CardTypes) /\ Len(cards) <= MaxCards /\ MaxCards \in Nat
      /\ \A i, j \in 1..Len(cards) : cards[i].kind = "change" /\ cards[i] = cards[j] => i = j
      /\ \A c \in Change : InTold(c) /\ ~Showing(c) => InCards(c) \/ Len(cards) = MaxCards
  BY DEF CardsFit, Showing, ToolAssumptions, Tools!LimitAssumption
<1>2. /\ cards' \in Seq(CardTypes) /\ Len(cards) \in Nat /\ Len(cards') = Len(cards) + 1
      /\ cards'[Len(cards) + 1] = k
      /\ \A i \in 1..Len(cards) : cards'[i] = cards[i]
      /\ \A i \in 1..Len(cards') : i = Len(cards) + 1 \/ i \in 1..Len(cards)
  BY <1>1, CardAdded
<1>3. Len(cards') <= MaxCards
  BY <1>1, <1>2
<1>4. (\A i \in 1..Len(cards) :
          /\ cards[i].kind = "entity" => \E j \in 1..Len(reads) : reads[j] = cards[i].of
          /\ cards[i].kind = "report" => \E j \in 1..Len(reports) : reports[j] = cards[i].of
          /\ cards[i].kind = "change" => cards[i].of \in Change /\ change[cards[i].of] # "absent")'
  <2>1. \A i \in 1..Len(cards) :
              /\ cards[i].kind = "entity" => \E j \in 1..Len(reads') : reads'[j] = cards[i].of
              /\ cards[i].kind = "report" => \E j \in 1..Len(reports') : reports'[j] = cards[i].of
              /\ cards[i].kind = "change" => cards[i].of \in Change /\ change'[cards[i].of] # "absent"
    BY CardsStayGrounded
  <2> SUFFICES ASSUME NEW i \in 1..Len(cards')
               PROVE
          /\ cards'[i].kind = "entity" => \E j \in 1..Len(reads') : reads'[j] = cards'[i].of
          /\ cards'[i].kind = "report" => \E j \in 1..Len(reports') : reports'[j] = cards'[i].of
          /\ cards'[i].kind = "change" => cards'[i].of \in Change /\ change'[cards'[i].of] # "absent"
    OBVIOUS
  <2>2. CASE i \in 1..Len(cards)
    BY <1>2, <2>1, <2>2
  <2>3. CASE i = Len(cards) + 1
    BY <1>2, <2>3
  <2> QED
    BY <1>2, <2>2, <2>3
<1>5. k.kind = "change" => k = [kind |-> "change", of |-> k.of]
  BY DEF CardTypes
<1>6. \A i \in 1..Len(cards) : k.kind = "change" => cards[i] # k
  BY <1>5 DEF InCards
<1>7. (\A i, j \in 1..Len(cards) : cards[i].kind = "change" /\ cards[i] = cards[j] => i = j)'
  <2> SUFFICES ASSUME NEW i \in 1..Len(cards'), NEW j \in 1..Len(cards'),
                      cards'[i].kind = "change", cards'[i] = cards'[j]
               PROVE  i = j
    OBVIOUS
  <2>1. CASE i \in 1..Len(cards) /\ j \in 1..Len(cards)
    BY <1>1, <1>2, <2>1
  <2>2. CASE i = Len(cards) + 1 /\ j \in 1..Len(cards)
    BY <1>2, <1>6, <2>2
  <2>3. CASE j = Len(cards) + 1 /\ i \in 1..Len(cards)
    BY <1>2, <1>6, <2>3
  <2> QED
    BY <1>2, <2>1, <2>2, <2>3
<1>8. \A c : InCards(c)' <=> InCards(c) \/ k = [kind |-> "change", of |-> c]
  <2> SUFFICES ASSUME NEW c PROVE InCards(c)' <=> InCards(c) \/ k = [kind |-> "change", of |-> c]
    OBVIOUS
  <2>1. Len(cards) + 1 \in 1..Len(cards') /\ \A i \in 1..Len(cards) : i \in 1..Len(cards')
    BY <1>2
  <2> QED
    BY <1>2, <2>1 DEF InCards
<1>9. (\A o \in Slot : call[o].tool = "stage" /\ call[o].at \in {"telling", "showing"} =>
          ~InCards(call[o].of))'
  <2> SUFFICES ASSUME NEW o \in Slot, Staging(o)' PROVE ~InCards(call[o].of)'
    BY DEF Staging
  <2>1. ~InCards(call'[o].of)
    BY StagingStays
  <2>2. k # [kind |-> "change", of |-> call'[o].of]
    OBVIOUS
  <2>3. PICK c : c = call'[o].of
    OBVIOUS
  <2>4. ~InCards(c)'
    BY <1>8, <2>1, <2>2, <2>3
  <2> QED
    BY <2>3, <2>4 DEF InCards
<1>10. (\A c \in Change : InTold(c) /\ ~Showing(c) => InCards(c) \/ Len(cards) = MaxCards)'
  <2> SUFFICES ASSUME NEW c \in Change, InTold(c)', ~Showing(c)' PROVE InCards(c)'
    OBVIOUS
  <2>1. InTold(c)
    BY StagingStays
  <2>2. CASE Showing(c)
    BY <1>8, <2>2
  <2>3. CASE ~Showing(c)
    BY <1>1, <1>2, <1>8, <2>1, <2>3
  <2> QED
    BY <2>2, <2>3
<1> QED
  BY <1>2, <1>3, <1>4, <1>7, <1>9, <1>10 DEF CardsFit, Showing

LEMMA CardsSame ==
    ASSUME ToolAssumptions, CallsFit, ReadsFit, ReportsFit, ChangesFit, CardsFit,
           NEW s \in Slot, Step(s), cards' = cards, Tools!Show(s) => Len(cards) >= MaxCards
    PROVE  CardsFit'
<1>1. /\ cards \in Seq(CardTypes) /\ Len(cards) <= MaxCards /\ MaxCards \in Nat
      /\ \A i, j \in 1..Len(cards) : cards[i].kind = "change" /\ cards[i] = cards[j] => i = j
      /\ \A c \in Change : InTold(c) /\ ~Showing(c) => InCards(c) \/ Len(cards) = MaxCards
  BY DEF CardsFit, Showing, ToolAssumptions, Tools!LimitAssumption
<1>2. \A c : InCards(c)' <=> InCards(c)
  BY DEF InCards
<1>3. (\A i \in 1..Len(cards) :
          /\ cards[i].kind = "entity" => \E j \in 1..Len(reads) : reads[j] = cards[i].of
          /\ cards[i].kind = "report" => \E j \in 1..Len(reports) : reports[j] = cards[i].of
          /\ cards[i].kind = "change" => cards[i].of \in Change /\ change[cards[i].of] # "absent")'
  BY CardsStayGrounded
<1>4. (\A o \in Slot : call[o].tool = "stage" /\ call[o].at \in {"telling", "showing"} =>
          ~InCards(call[o].of))'
  <2>1. \A o \in Slot : Staging(o)' => ~InCards(call'[o].of)
    BY StagingStays
  <2> QED
    BY <2>1 DEF Staging, InCards
<1>5. Tools!Show(s) => Len(cards) = MaxCards
  <2>1. Len(cards) \in Nat
    BY <1>1
  <2> QED
    BY <1>1, <2>1
<1>6. (\A c \in Change : InTold(c) /\ ~Showing(c) => InCards(c) \/ Len(cards) = MaxCards)'
  BY <1>1, <1>2, <1>5, StagingStays
<1> QED
  BY <1>1, <1>3, <1>4, <1>6 DEF CardsFit, Showing

LEMMA CardsKeep ==
    ASSUME ToolAssumptions, CallsFit, ReadsFit, ReportsFit, ChangesFit, CardsFit,
           NEW s \in Slot, Step(s)
    PROVE  CardsFit'
<1>1. CASE cards' = cards /\ ~Tools!Show(s)
  BY <1>1, CardsSame
<1>2. CASE Tools!Show(s)
  <2>1. /\ call[s].tool = "stage" /\ call[s].at = "showing" /\ UNCHANGED change /\ Tools!Answer(s)
        /\ IF Len(cards) < MaxCards THEN cards' = Append(cards, [kind |-> "change", of |-> call[s].of])
           ELSE UNCHANGED cards
    BY <1>2 DEF Tools!Show, Tools!At, Tools!Room, Tools!CardOf
  <2>2. call[s].of \in Change /\ ~InCards(call[s].of) /\ change[call[s].of] # "absent"
    BY <2>1 DEF CallsFit, Suited, CardsFit, ChangesFit
  <2>3. PICK k \in CardTypes : k = [kind |-> "change", of |-> call[s].of]
    BY <2>2 DEF CardTypes
  <2>4. k.kind = "change" /\ k.of = call[s].of
    BY <2>3
  <2>5. CASE Len(cards) < MaxCards
    <3>1. mutationMu = s /\ \A o \in Slot \ {s} : call[o].at \notin Critical /\ call'[o] = call[o]
      BY <2>1, CallsMove DEF ChangesFit, Critical
    <3>2. \A o \in Slot : ~Staging(o)'
      <4>1. call'[s].tool = "none"
        BY <2>1, AnswerIdles
      <4> QED
        BY <3>1, <4>1 DEF Staging, Critical
    <3>3. \A c \in Change : Showing(c) => k = [kind |-> "change", of |-> c]
      BY <2>3, <3>1 DEF Showing, Critical
    <3>4. cards' = Append(cards, k) /\ change'[k.of] # "absent" /\ ~InCards(k.of) /\ k.of \in Change
      BY <2>1, <2>2, <2>3, <2>4, <2>5
    <3> QED
      BY <2>4, <2>5, <3>2, <3>3, <3>4, CardsGrow
  <2>6. CASE ~(Len(cards) < MaxCards)
    <3>1. Len(cards) \in Nat /\ MaxCards \in Nat
      BY DEF CardsFit, ToolAssumptions, Tools!LimitAssumption
    <3> QED
      BY <2>1, <2>6, <3>1, CardsSame
  <2> QED
    BY <2>5, <2>6
<1>3. CASE Tools!Present(s) /\ cards' # cards
  <2> DEFINE kind == Tools!KindOf(call[s].tool)
             x == call[s].of
  <2>1. /\ ~(kind = "change" /\ Tools!Shown(x)) /\ Tools!Room /\ Tools!Grounded(kind, x)
        /\ cards' = Append(cards, Tools!CardOf(kind, x)) /\ Tools!Answer(s)
        /\ call[s].tool \in {"present_entity", "present_report", "present_change"}
        /\ UNCHANGED <<reads, reports, change, provenance>>
    BY <1>3 DEF Tools!Present, Tools!Presenting
  <2>2. /\ call[s].tool = "present_entity" => kind = "entity" /\ x \in Entity
        /\ call[s].tool = "present_report" => kind = "report" /\ x \in Query
        /\ call[s].tool = "present_change" => kind = "change" /\ x \in known /\ x \in Change
    BY <2>1 DEF Tools!KindOf, CallsFit, Suited
  <2> HIDE DEF kind
  <2>3. PICK k \in CardTypes : k = [kind |-> kind, of |-> x]
    BY <2>1, <2>2 DEF CardTypes
  <2>4. k.kind = kind /\ k.of = x
    BY <2>3
  <2>5. cards' = Append(cards, k) /\ Len(cards) < MaxCards
    BY <2>1, <2>3 DEF Tools!CardOf, Tools!Room
  <2>6. DOMAIN reads = 1..Len(reads) /\ DOMAIN reports = 1..Len(reports) /\ DOMAIN cards = 1..Len(cards)
    BY DEF ReadsFit, ReportsFit, CardsFit
  <2>7. kind = "entity" => \E j \in 1..Len(reads') : reads'[j] = x
    BY <2>1 DEF Tools!Grounded, ReadsFit
  <2>8. kind = "report" => \E j \in 1..Len(reports') : reports'[j] = x
    BY <2>1, <2>6 DEF Tools!Grounded, Tools!ToSet
  <2>9. kind = "change" => x \in Change /\ x \in known /\ change'[x] # "absent" /\ ~InCards(x)
    <3>1. kind = "change" => x \in known /\ x \in Change
      BY <2>1, <2>2
    <3>2. kind = "change" => ~InCards(x)
      BY <2>1, <2>6 DEF Tools!Shown, Tools!CardOf, Tools!ToSet, InCards
    <3> QED
      BY <2>1, <3>1, <3>2 DEF CallsFit
  <2>10. \A o \in Slot : Staging(o)' => call'[o].of \notin known
    <3>1. call'[s].tool = "none" /\ \A o \in Slot \ {s} : call'[o] = call[o]
      BY <2>1, AnswerIdles, CallsMove
    <3> QED
      BY <3>1 DEF Staging, ChangesFit
  <2>11. \A c \in Change : Showing(c) => Showing(c)'
    <3>1. ~Tools!Show(s)
      BY <1>3 DEF Tools!Present, Tools!Presenting, Tools!Show, Tools!At
    <3> QED
      BY <3>1, StagingStays
  <2> QED
    BY <2>4, <2>5, <2>7, <2>8, <2>9, <2>10, <2>11, CardsGrow
<1>4. ~Tools!Show(s) /\ ~Tools!Present(s) => cards' = cards
  BY DEF Step, Tools!Begin, Tools!Reject, Tools!Lookup, Tools!Get, Tools!List,
         Tools!RememberNext, Tools!ReserveReport, Tools!RefuseReport, Tools!FetchReport,
         Tools!ReleaseReport, Tools!Lock, Tools!Stage, Tools!Discard, Tools!Tell, Tools!Fail
<1>5. Tools!Present(s) => ~Tools!Show(s)
  BY DEF Tools!Present, Tools!Presenting, Tools!Show, Tools!At
<1> QED
  BY <1>1, <1>2, <1>3, <1>4, <1>5

-----------------------------------------------------------------------------

LEMMA RoundKeeps == ASSUME ToolAssumptions, ToolsInv, Tools!NextRound PROVE ToolsInv'
<1>1. /\ \A s \in Slot : call[s].at = "idle"
      /\ known' = {c \in Change : change[c] # "absent"}
      /\ UNCHANGED <<call, provenance, reports, inFlight, cards, change, mutationMu, reads, taken, told>>
  BY DEF Tools!NextRound
<1>2. \A s \in Slot : Suited(call[s])
  BY DEF ToolsInv, CallsFit
<1>3. (\A s \in Slot : Suited(call[s]))'
  BY <1>1, <1>2 DEF Suited, Critical
<1>4. CallsFit'
  BY <1>1, <1>3 DEF ToolsInv, CallsFit
<1>5. ReadsFit'
  BY <1>1 DEF ToolsInv, ReadsFit
<1>6. ReportsFit'
  BY <1>1 DEF ToolsInv, ReportsFit, Tools!Reserved, Tools!Pending, Tools!At
<1>7. ChangesFit'
  BY <1>1 DEF ToolsInv, ChangesFit, Entry
<1>8. CardsFit'
  BY <1>1 DEF ToolsInv, CardsFit, InCards, InTold
<1> QED
  BY <1>4, <1>5, <1>6, <1>7, <1>8 DEF ToolsInv

LEMMA ToolsStay == ASSUME ToolsInv, UNCHANGED Tools!vars PROVE ToolsInv'
<1> USE DEF ToolsInv, Tools!vars
<1>1. CallsFit'
  BY DEF CallsFit, Suited
<1>2. ReadsFit'
  BY DEF ReadsFit
<1>3. ReportsFit'
  BY DEF ReportsFit, Tools!Reserved, Tools!Pending, Tools!At
<1>4. ChangesFit'
  BY DEF ChangesFit, Entry
<1>5. CardsFit'
  BY DEF CardsFit, InCards, InTold
<1> QED
  BY <1>1, <1>2, <1>3, <1>4, <1>5

LEMMA ToolsNext == ASSUME ToolAssumptions, ToolsInv, [Tools!Next]_(Tools!vars) PROVE ToolsInv'
<1>1. CASE \E s \in Slot : Step(s)
  <2>1. PICK s \in Slot : Step(s)
    BY <1>1
  <2> QED
    BY <2>1, CallsKeep, ReadsKeep, ReportsKeep, ChangesKeep, CardsKeep DEF ToolsInv
<1>2. CASE Tools!NextRound
  BY <1>2, RoundKeeps
<1>3. CASE UNCHANGED Tools!vars
  BY <1>3, ToolsStay
<1> QED
  BY <1>1, <1>2, <1>3 DEF Tools!Next, Step

LEMMA ToolsAlways == ASSUME ToolAssumptions PROVE Tools!Spec => []ToolsInv
<1>1. Tools!Init => ToolsInv
  BY ToolsInit
<1>2. ToolsInv /\ [Tools!Next]_(Tools!vars) => ToolsInv'
  BY ToolsNext
<1> QED
  BY <1>1, <1>2, PTL DEF Tools!Spec

\* What the tools of a turn share has the shape the code gives it: the entities remembered
\* are at most MaxSeen and were read, and only a mutating tool holds the mutex
\* (agenthost/host.go:152).
THEOREM ToolsTypeCorrect == ASSUME ToolAssumptions PROVE Tools!Spec => []Tools!TypeOK
<1>1. ASSUME ToolsInv PROVE Tools!TypeOK
  <2>1. call \in [Slot -> [tool : Tool \union {"none"},
                          of : Entity \union Query \union Change \union {None},
                          at : {"idle", "asked", "remembering", "fetching", "fetched",
                                "refused", "locked", "telling", "showing"},
                          found : SUBSET Entity]]
    BY <1>1 DEF ToolsInv, CallsFit, Calls, Arguments, Points
  <2>2. reads \in Seq(Entity) /\ DOMAIN reads = 1..Len(reads)
        /\ reports \in Seq(Query) /\ DOMAIN reports = 1..Len(reports)
    BY <1>1 DEF ToolsInv, ReadsFit, ReportsFit
  <2>3. (\A i \in DOMAIN reads : reads[i] \in Entity) /\ \A i \in DOMAIN reports : reports[i] \in Query
    BY <2>2, ElementOfSeq
  <2>4. Tools!IsInjective(reads) /\ Tools!ToSet(reads) \subseteq Entity /\ Tools!ToSet(reports) \subseteq Query
    BY <1>1, <2>2, <2>3 DEF ToolsInv, ReadsFit, Tools!IsInjective, Tools!ToSet
  <2>5. provenance \subseteq Tools!ToSet(reads) /\ Tools!Cardinality(provenance) <= MaxSeen
    BY <1>1, <2>2, ToolsCardinality DEF ToolsInv, ReadsFit, Tools!ToSet
  <2>6. inFlight \in Nat
    BY <1>1, FS_CardinalityType DEF ToolsInv, ReportsFit
  <2>7. mutationMu # None => call[mutationMu].tool \in Tools!Mutating
    <3> SUFFICES ASSUME mutationMu # None PROVE call[mutationMu].tool \in Tools!Mutating
      OBVIOUS
    <3>1. mutationMu \in Slot /\ call[mutationMu].at \in Critical
      BY <1>1 DEF ToolsInv, ChangesFit
    <3> QED
      BY <1>1, <3>1 DEF ToolsInv, CallsFit, Suited, Tools!Mutating
  <2>8. change \in [Change -> {"absent", "staged", "discarded"}] /\ known \subseteq Change
    BY <1>1 DEF ToolsInv, CallsFit
  <2> QED
    BY <2>1, <2>4, <2>5, <2>6, <2>7, <2>8 DEF Tools!TypeOK
<1> QED
  BY <1>1, ToolsAlways, PTL

\* However many calls overlap, for every limit: the reports held and asked for stay within
\* the budget, every place counted belongs to a call that runs, and forgetting the oldest
\* reading never costs one of the latest (agenthost/host.go:438, 789).
THEOREM ToolsStayBounded ==
    ASSUME ToolAssumptions
    PROVE  Tools!Spec => [](Tools!ReportsWithinBudget /\ Tools!RecentReadsKept)
<1>1. ToolsInv => Tools!ReportsWithinBudget
  BY ToolsCardinality DEF ToolsInv, ReportsFit, Tools!ReportsWithinBudget, Tools!Held
<1>2. ToolsInv => Tools!RecentReadsKept
  BY DEF ToolsInv, ReadsFit, Tools!RecentReadsKept
<1> QED
  BY <1>1, <1>2, ToolsAlways, PTL

\* However calls that read, stage, discard and show overlap: every card shows a record the
\* host holds, a change has one card, what was staged has its card while there is room,
\* and the client hears of changes in the order they were made (agenthost/host.go:1141).
THEOREM CardsHold ==
    ASSUME ToolAssumptions
    PROVE  Tools!Spec => [](/\ Tools!CardsAreGrounded /\ Tools!OneCardPerChange
                            /\ Tools!StagedIsShownOrFull /\ Tools!EventsFollowStore)
<1>1. ASSUME ToolsInv
      PROVE  /\ Tools!CardsAreGrounded /\ Tools!OneCardPerChange
             /\ Tools!StagedIsShownOrFull /\ Tools!EventsFollowStore
  <2>1. /\ DOMAIN cards = 1..Len(cards) /\ DOMAIN reads = 1..Len(reads) /\ Len(cards) \in Nat
        /\ DOMAIN reports = 1..Len(reports) /\ DOMAIN told = 1..Len(told)
        /\ told \in Seq(Events) /\ Len(told) \in Nat
    BY <1>1 DEF ToolsInv, CardsFit, ReadsFit, ReportsFit, ChangesFit
  <2>2. Tools!CardsAreGrounded
    <3> SUFFICES ASSUME NEW i \in 1..Len(cards)
                 PROVE  CASE cards[i].kind = "entity" -> cards[i].of \in Tools!ToSet(reads)
                          [] cards[i].kind = "report" -> cards[i].of \in Tools!ToSet(reports)
                          [] cards[i].kind = "change" -> change[cards[i].of] # "absent"
      BY <2>1 DEF Tools!CardsAreGrounded
    <3>1. /\ cards[i].kind = "entity" => cards[i].of \in Tools!ToSet(reads)
          /\ cards[i].kind = "report" => cards[i].of \in Tools!ToSet(reports)
          /\ cards[i].kind = "change" => change[cards[i].of] # "absent"
      BY <1>1, <2>1 DEF ToolsInv, CardsFit, Tools!ToSet
    <3>2. cards[i].kind \in {"entity", "report", "change"}
      <4>1. cards \in Seq(CardTypes)
        BY <1>1 DEF ToolsInv, CardsFit
      <4>2. cards[i] \in CardTypes
        BY <4>1, ElementOfSeq
      <4> QED
        BY <4>2 DEF CardTypes
    <3> QED
      BY <3>1, <3>2
  <2>3. Tools!OneCardPerChange
    BY <1>1, <2>1 DEF ToolsInv, CardsFit, Tools!OneCardPerChange
  <2>4. Tools!StagedIsShownOrFull
    <3> SUFFICES ASSUME NEW c \in Change, Tools!Told(c), ~Tools!Showing(c), Tools!Room
                 PROVE  Tools!Shown(c)
      BY DEF Tools!StagedIsShownOrFull
    <3>1. InTold(c)
      BY <2>1 DEF InTold, Tools!Told, Tools!ToSet
    <3>2. ~\E s \in Slot : call[s].tool = "stage" /\ call[s].at = "showing" /\ call[s].of = c
      BY DEF Tools!Showing, Tools!At
    <3>3. Len(cards) # MaxCards
      BY <2>1 DEF Tools!Room, ToolAssumptions, Tools!LimitAssumption
    <3>4. InCards(c)
      BY <1>1, <3>1, <3>2, <3>3 DEF ToolsInv, CardsFit
    <3> QED
      BY <2>1, <3>4 DEF InCards, Tools!Shown, Tools!CardOf, Tools!ToSet
  <2>5. Tools!EventsFollowStore
    <3>1. CASE taken = told
      BY <2>1, <3>1 DEF Tools!EventsFollowStore, Tools!IsPrefix
    <3>2. CASE \E s \in Slot : taken = Append(told, Entry(call[s]))
      <4>1. PICK x : taken = Append(told, x)
        BY <3>2
      <4>2. Len(taken) = Len(told) + 1 /\ \A i \in 1..Len(told) : taken[i] = told[i]
        BY <2>1, <4>1
      <4>3. SubSeq(told, 1, Len(told)) = SubSeq(taken, 1, Len(told))
        BY <2>1, <4>1, <4>2
      <4> QED
        BY <2>1, <4>2, <4>3 DEF Tools!EventsFollowStore, Tools!IsPrefix
    <3> QED
      BY <1>1, <3>1, <3>2 DEF ToolsInv, ChangesFit
  <2> QED
    BY <2>2, <2>3, <2>4, <2>5
<1> QED
  BY <1>1, ToolsAlways, PTL

-----------------------------------------------------------------------------
(* Analysis delegates (agenthost/analysis.go).                              *)

CONSTANTS Delegate, Worker, Evidence, MaxDelegates, MaxCalculations, MaxDatasets, MaxProgress
VARIABLES delegates, child, worker, records, crashed

Analysis == INSTANCE AnalysisDelegate

Children == [pc : {"unasked", "refused", "running", "failed", "done"},
             evidence : SUBSET Evidence, datasets : Nat, progress : Nat,
             submitted : SUBSET Evidence, accepted : BOOLEAN, expired : BOOLEAN]
Workings == [tool : Analysis!ChildTool \union {"none"}, at : {"idle", "acting"}]
Started == {d \in Delegate : child[d].pc \in {"running", "done", "failed"}}

\* What a child submitted names what it has calculated, and one that is done has
\* submitted.
ChildFits(d) ==
    /\ child[d].submitted \subseteq child[d].evidence
    /\ child[d].pc = "done" => child[d].accepted

DelegateInv ==
    /\ child \in [Delegate -> Children]
    /\ worker \in [Delegate -> [Worker -> Workings]]
    /\ records \in SUBSET Evidence /\ crashed \in BOOLEAN
    /\ delegates \in 0..MaxDelegates
    /\ IsFiniteSet(Started) /\ Cardinality(Started) = delegates
    /\ \A d \in Delegate : ChildFits(d)
    /\ Analysis!RecordsFromAccepted

\* With one goroutine what a tool has checked is still so when it acts.
OneTool == \A v, w \in Worker : v = w
WithinLimits(d) ==
    /\ IsFiniteSet(child[d].evidence)
    /\ Cardinality(child[d].evidence) <= MaxCalculations
    /\ child[d].datasets <= MaxDatasets /\ child[d].progress <= MaxProgress
    /\ \A w \in Worker :
          worker[d][w].at = "acting" =>
             /\ child[d].pc = "running" /\ ~child[d].accepted
             /\ Analysis!LimitAllows(d, worker[d][w].tool)

LEMMA AnalysisCardinality == \A S : Analysis!Cardinality(S) = Cardinality(S)
  BY DEF Analysis!Cardinality, Cardinality

LEMMA DelegateInit == ASSUME Analysis!LimitAssumption, Analysis!Init PROVE DelegateInv
<1>1. Started = {}
  BY DEF Analysis!Init, Analysis!Unstarted, Started
<1>2. child \in [Delegate -> Children] /\ worker \in [Delegate -> [Worker -> Workings]]
  BY DEF Analysis!Init, Analysis!Unstarted, Analysis!Resting, Children, Workings
<1>3. IsFiniteSet({}) /\ Cardinality({}) = 0
  BY FS_EmptySet
<1>4. \A d \in Delegate : ChildFits(d) /\ child[d].pc # "done"
  BY DEF Analysis!Init, Analysis!Unstarted, ChildFits
<1>5. Analysis!RecordsFromAccepted
  BY <1>4 DEF Analysis!Init, Analysis!RecordsFromAccepted
<1>6. 0 \in 0..MaxDelegates
  BY DEF Analysis!LimitAssumption
<1> QED
  BY <1>1, <1>2, <1>3, <1>4, <1>5, <1>6 DEF Analysis!Init, DelegateInv

\* A step of one child that neither starts nor ends it.
Goes(d) ==
    /\ \E c \in Children : /\ child' = [child EXCEPT ![d] = c]
                           /\ c.pc = child[d].pc
                           /\ c.submitted \subseteq c.evidence
                           /\ child[d].pc # "running" => c = child[d]
    /\ \E u \in [Worker -> Workings] : worker' = [worker EXCEPT ![d] = u]
    /\ UNCHANGED <<delegates, records>> /\ crashed' \in BOOLEAN

LEMMA GoingKeeps ==
  ASSUME DelegateInv, NEW d \in Delegate, Goes(d) PROVE DelegateInv'
<1>1. PICK c \in Children : /\ child' = [child EXCEPT ![d] = c]
                            /\ c.pc = child[d].pc
                            /\ c.submitted \subseteq c.evidence
                            /\ child[d].pc # "running" => c = child[d]
  BY DEF Goes
<1>2. child' \in [Delegate -> Children] /\ worker' \in [Delegate -> [Worker -> Workings]]
  BY <1>1 DEF Goes, DelegateInv
<1>3. \A x \in Delegate : child'[x] = IF x = d THEN c ELSE child[x]
  BY <1>1 DEF DelegateInv
<1>4. Started' = Started
  BY <1>1, <1>3 DEF Started
<1>5. \A x \in Delegate : ChildFits(x)'
  BY <1>1, <1>3 DEF ChildFits, DelegateInv
<1>6. Analysis!RecordsFromAccepted'
  <2>1. {x \in Delegate : child[x].pc = "done"} = {x \in Delegate : child'[x].pc = "done"}
    BY <1>1, <1>3
  <2>2. \A x \in {y \in Delegate : child[y].pc = "done"} : child'[x] = child[x]
    BY <1>1, <1>3
  <2>3. records' = records
    BY DEF Goes
  <2> QED
    BY <2>1, <2>2, <2>3 DEF DelegateInv, Analysis!RecordsFromAccepted
<1> QED
  BY <1>2, <1>4, <1>5, <1>6 DEF DelegateInv, Goes

LEMMA ChildrenGo ==
  ASSUME DelegateInv, NEW d \in Delegate,
         \/ \E w \in Worker : \/ \E tool \in Analysis!ChildTool : Analysis!Check(d, w, tool)
                              \/ Analysis!Calculate(d, w) \/ Analysis!Slice(d, w)
                              \/ Analysis!Progress(d, w) \/ Analysis!Submit(d, w)
                              \/ Analysis!Decline(d, w)
         \/ Analysis!Race(d) \/ Analysis!Expire(d)
  PROVE  Goes(d)
<1> DEFINE Old == child[d]
<1>1. /\ Old \in Children /\ worker[d] \in [Worker -> Workings]
      /\ Old.submitted \subseteq Old.evidence
      /\ crashed \in BOOLEAN /\ child = [child EXCEPT ![d] = Old]
      /\ worker = [worker EXCEPT ![d] = worker[d]]
  BY DEF DelegateInv, ChildFits
<1>2. Analysis!Resting \in Workings
  BY DEF Analysis!Resting, Workings
<1>3. ASSUME NEW w \in Worker, NEW u \in Workings, worker' = [worker EXCEPT ![d][w] = u]
      PROVE  \E v \in [Worker -> Workings] : worker' = [worker EXCEPT ![d] = v]
  <2>1. [worker[d] EXCEPT ![w] = u] \in [Worker -> Workings]
    BY <1>1, <1>3
  <2> QED
    BY <1>3, <2>1
<1>4. ASSUME UNCHANGED worker
      PROVE  \E v \in [Worker -> Workings] : worker' = [worker EXCEPT ![d] = v]
  BY <1>1, <1>4
<1>5. ASSUME UNCHANGED child
      PROVE  \E c \in Children : /\ child' = [child EXCEPT ![d] = c]
                                 /\ c.pc = Old.pc /\ c.submitted \subseteq c.evidence
                                 /\ Old.pc # "running" => c = Old
  BY <1>1, <1>5
<1>6. ASSUME NEW c \in Children, child' = [child EXCEPT ![d] = c], c.pc = Old.pc,
             c.submitted \subseteq c.evidence, Analysis!Running(d)
      PROVE  \E b \in Children : /\ child' = [child EXCEPT ![d] = b]
                                 /\ b.pc = Old.pc /\ b.submitted \subseteq b.evidence
                                 /\ Old.pc # "running" => b = Old
  BY <1>6 DEF Analysis!Running
<1>7. ASSUME NEW w \in Worker, NEW tool \in Analysis!ChildTool, Analysis!Check(d, w, tool)
      PROVE  Goes(d)
  <2>1. [tool |-> tool, at |-> "acting"] \in Workings
    BY DEF Workings
  <2> QED
    BY <1>7, <1>3, <1>5, <1>1, <2>1 DEF Analysis!Check, Goes
<1>8. ASSUME NEW w \in Worker, Analysis!Calculate(d, w) PROVE Goes(d)
  <2>1. PICK e \in Analysis!Unused : child' = [child EXCEPT ![d].evidence = @ \union {e}]
    BY <1>8 DEF Analysis!Calculate
  <2>2. e \in Evidence
    BY <2>1 DEF Analysis!Unused
  <2> DEFINE c == [Old EXCEPT !.evidence = @ \union {e}]
  <2>3. c \in Children /\ child' = [child EXCEPT ![d] = c]
    BY <1>1, <2>1, <2>2 DEF Children
  <2>4. c.pc = Old.pc /\ c.submitted \subseteq c.evidence
    BY <1>1 DEF Children
  <2> HIDE DEF c
  <2> QED
    BY <1>8, <1>1, <1>2, <1>3, <1>6, <2>3, <2>4
       DEF Analysis!Calculate, Analysis!Acting, Analysis!Rest, Goes
<1>9. ASSUME NEW w \in Worker, Analysis!Slice(d, w) PROVE Goes(d)
  <2> DEFINE c == [Old EXCEPT !.datasets = @ + 1]
  <2>3. c \in Children /\ child' = [child EXCEPT ![d] = c]
    BY <1>1, <1>9 DEF Children, Analysis!Slice
  <2>4. c.pc = Old.pc /\ c.submitted \subseteq c.evidence
    BY <1>1 DEF Children
  <2> HIDE DEF c
  <2> QED
    BY <1>9, <1>1, <1>2, <1>3, <1>6, <2>3, <2>4
       DEF Analysis!Slice, Analysis!Acting, Analysis!Rest, Goes
<1>10. ASSUME NEW w \in Worker, Analysis!Progress(d, w) PROVE Goes(d)
  <2> DEFINE c == [Old EXCEPT !.progress = @ + 1]
  <2>3. c \in Children /\ child' = [child EXCEPT ![d] = c]
    BY <1>1, <1>10 DEF Children, Analysis!Progress
  <2>4. c.pc = Old.pc /\ c.submitted \subseteq c.evidence
    BY <1>1 DEF Children
  <2> HIDE DEF c
  <2> QED
    BY <1>10, <1>1, <1>2, <1>3, <1>6, <2>3, <2>4
       DEF Analysis!Progress, Analysis!Acting, Analysis!Rest, Goes
<1>11. ASSUME NEW w \in Worker, Analysis!Submit(d, w) PROVE Goes(d)
  <2>1. PICK cited \in SUBSET Old.evidence :
           child' = [child EXCEPT ![d].submitted = cited, ![d].accepted = TRUE]
    BY <1>11 DEF Analysis!Submit, Analysis!Citable
  <2> DEFINE c == [Old EXCEPT !.submitted = cited, !.accepted = TRUE]
  <2>2. Old.evidence \subseteq Evidence
    BY <1>1 DEF Children
  <2>3. c \in Children
    BY <1>1, <2>1, <2>2 DEF Children
  <2>4. child' = [child EXCEPT ![d] = c]
    BY <1>1, <2>1 DEF DelegateInv
  <2>5. c.pc = Old.pc /\ c.submitted \subseteq c.evidence
    BY <1>1, <2>1 DEF Children
  <2> HIDE DEF c
  <2> QED
    BY <1>11, <1>1, <1>2, <1>3, <1>6, <2>3, <2>4, <2>5
       DEF Analysis!Submit, Analysis!Acting, Analysis!Rest, Goes
<1>12. ASSUME NEW w \in Worker, Analysis!Decline(d, w) PROVE Goes(d)
  BY <1>12, <1>1, <1>2, <1>3, <1>5 DEF Analysis!Decline, Analysis!Rest, Goes
<1>13. ASSUME Analysis!Race(d) PROVE Goes(d)
  BY <1>13, <1>4, <1>5 DEF Analysis!Race, Goes
<1>14. ASSUME Analysis!Expire(d) PROVE Goes(d)
  <2> DEFINE c == [Old EXCEPT !.expired = TRUE]
  <2>3. c \in Children /\ child' = [child EXCEPT ![d] = c]
    BY <1>1, <1>14 DEF Children, Analysis!Expire
  <2>4. c.pc = Old.pc /\ c.submitted \subseteq c.evidence
    BY <1>1 DEF Children
  <2> HIDE DEF c
  <2> QED
    BY <1>14, <1>1, <1>4, <1>6, <2>3, <2>4 DEF Analysis!Expire, Goes
<1> QED
  BY <1>7, <1>8, <1>9, <1>10, <1>11, <1>12, <1>13, <1>14

LEMMA BeginHolds ==
  ASSUME Analysis!LimitAssumption, DelegateInv, NEW d \in Delegate, 
         NEW granted \in 1..MaxDatasets, Analysis!Begin(d, granted)
  PROVE  DelegateInv'
<1> DEFINE c == [child[d] EXCEPT !.pc = "running", !.datasets = granted]
<1>a. child[d] \in Children /\ granted \in Nat
  BY DEF DelegateInv, Analysis!LimitAssumption
<1>b. c \in Children /\ c.pc = "running"
  BY <1>a DEF Children
<1>1. c \in Children /\ child' = [child EXCEPT ![d] = c] /\ c.pc = "running"
  BY <1>b DEF DelegateInv, Analysis!Begin
<1>2. c.evidence = child[d].evidence /\ c.submitted = child[d].submitted
  BY DEF DelegateInv, Children
<1> HIDE DEF c
<1>3. \A x \in Delegate : child'[x] = IF x = d THEN c ELSE child[x]
  BY <1>1 DEF DelegateInv
<1>4. Started' = Started \union {d} /\ d \notin Started /\ child[d].pc = "unasked"
  BY <1>1, <1>3 DEF Started, Analysis!Begin
<1>5. IsFiniteSet(Started') /\ Cardinality(Started') = delegates + 1
  BY <1>4, FS_AddElement DEF DelegateInv
<1>6. \A x \in Delegate : ChildFits(x)'
  BY <1>1, <1>2, <1>3 DEF ChildFits, DelegateInv
<1>7. Analysis!RecordsFromAccepted'
  <2>1. {x \in Delegate : child[x].pc = "done"} = {x \in Delegate : child'[x].pc = "done"}
    BY <1>1, <1>3, <1>4
  <2>2. \A x \in {y \in Delegate : child[y].pc = "done"} : child'[x] = child[x]
    BY <1>3, <1>4
  <2> QED
    BY <2>1, <2>2 DEF DelegateInv, Analysis!RecordsFromAccepted, Analysis!Begin
<1>8. delegates' \in 0..MaxDelegates
  BY DEF DelegateInv, Analysis!Begin, Analysis!MayStart, Analysis!LimitAssumption
<1>9. child' \in [Delegate -> Children]
  BY <1>1 DEF DelegateInv
<1> QED
  BY <1>5, <1>6, <1>7, <1>8, <1>9 DEF DelegateInv, Analysis!Begin

LEMMA RefuseHolds ==
  ASSUME DelegateInv, NEW d \in Delegate, Analysis!Refuse(d) PROVE DelegateInv'
<1> DEFINE c == [child[d] EXCEPT !.pc = "refused"]
<1>1. c \in Children /\ child' = [child EXCEPT ![d] = c] /\ c.pc = "refused"
  BY DEF DelegateInv, Children, Analysis!Refuse
<1>2. c.evidence = child[d].evidence /\ c.submitted = child[d].submitted
  BY DEF DelegateInv, Children
<1> HIDE DEF c
<1>3. \A x \in Delegate : child'[x] = IF x = d THEN c ELSE child[x]
  BY <1>1 DEF DelegateInv
<1>4. Started' = Started /\ child[d].pc = "unasked"
  BY <1>1, <1>3 DEF Started, Analysis!Refuse
<1>6. \A x \in Delegate : ChildFits(x)'
  BY <1>1, <1>2, <1>3 DEF ChildFits, DelegateInv
<1>7. Analysis!RecordsFromAccepted'
  <2>1. {x \in Delegate : child[x].pc = "done"} = {x \in Delegate : child'[x].pc = "done"}
    BY <1>1, <1>3, <1>4
  <2>2. \A x \in {y \in Delegate : child[y].pc = "done"} : child'[x] = child[x]
    BY <1>3, <1>4
  <2> QED
    BY <2>1, <2>2 DEF DelegateInv, Analysis!RecordsFromAccepted, Analysis!Refuse
<1>9. child' \in [Delegate -> Children]
  BY <1>1 DEF DelegateInv
<1> QED
  BY <1>4, <1>6, <1>7, <1>9 DEF DelegateInv, Analysis!Refuse

LEMMA FinishHolds ==
  ASSUME DelegateInv, NEW d \in Delegate, Analysis!Finish(d) PROVE DelegateInv'
<1>1. PICK ended \in {"stop", "budget", "error"} :
         /\ Analysis!TakeOver(d, ended)
         /\ child' = [child EXCEPT ![d].pc = IF Analysis!Fails(d, ended) THEN "failed" ELSE "done"]
  BY DEF Analysis!Finish
<1> DEFINE Fail == Analysis!Fails(d, ended)
           c == [child[d] EXCEPT !.pc = IF Fail THEN "failed" ELSE "done"]
<1>2. c \in Children /\ child' = [child EXCEPT ![d] = c]
  BY <1>1 DEF DelegateInv, Children
<1>3. /\ c.pc = IF Fail THEN "failed" ELSE "done"
      /\ c.evidence = child[d].evidence /\ c.submitted = child[d].submitted
      /\ c.accepted = child[d].accepted
  BY DEF DelegateInv, Children
<1>4. ~Fail => child[d].accepted
  BY DEF Analysis!Fails
<1> HIDE DEF c, Fail
<1>5. \A x \in Delegate : child'[x] = IF x = d THEN c ELSE child[x]
  BY <1>2 DEF DelegateInv
<1>6. child[d].pc = "running"
  BY DEF Analysis!Finish, Analysis!Running
<1>7. Started' = Started
  BY <1>3, <1>5, <1>6 DEF Started
<1>8. \A x \in Delegate : ChildFits(x)'
  BY <1>3, <1>4, <1>5 DEF ChildFits, DelegateInv
<1>9. records' = IF Fail THEN records ELSE records \union child[d].evidence
  BY <1>1 DEF Analysis!TakeOver, Fail
<1>10. Analysis!RecordsFromAccepted'
  <2> DEFINE Ended == {x \in Delegate : child[x].pc = "done"}
             DoneNow == {x \in Delegate : child'[x].pc = "done"}
  <2>1. DoneNow = IF Fail THEN Ended ELSE Ended \union {d}
    BY <1>3, <1>5, <1>6
  <2>2. \A x \in DoneNow : child'[x].evidence = child[x].evidence
    BY <1>3, <1>5
  <2>3. UNION {child'[x].evidence : x \in DoneNow} = UNION {child[x].evidence : x \in DoneNow}
    BY <2>2
  <2>4. UNION {child[x].evidence : x \in Ended \union {d}}
           = (UNION {child[x].evidence : x \in Ended}) \union child[d].evidence
    OBVIOUS
  <2>5. records = UNION {child[x].evidence : x \in Ended}
    BY DEF DelegateInv, Analysis!RecordsFromAccepted
  <2>6. records' = UNION {child'[x].evidence : x \in DoneNow}
    <3> HIDE DEF Ended, DoneNow
    <3> QED BY <1>9, <2>1, <2>3, <2>4, <2>5
  <2> QED
    BY <2>6 DEF Analysis!RecordsFromAccepted
<1>11. child' \in [Delegate -> Children] /\ records' \in SUBSET Evidence
  BY <1>2, <1>9 DEF DelegateInv, Children
<1> QED
  BY <1>7, <1>8, <1>10, <1>11 DEF DelegateInv, Analysis!Finish

LEMMA DelegateNext ==
  ASSUME Analysis!LimitAssumption, DelegateInv, [Analysis!Next]_(Analysis!vars)
  PROVE  DelegateInv'
<1>1. CASE Analysis!Next
  BY <1>1, BeginHolds, RefuseHolds, FinishHolds, ChildrenGo, GoingKeeps DEF Analysis!Next
<1>2. CASE UNCHANGED Analysis!vars
  BY <1>2 DEF Analysis!vars, DelegateInv, Started, ChildFits, Analysis!RecordsFromAccepted
<1> QED
  BY <1>1, <1>2

LEMMA DelegateAlways ==
  ASSUME Analysis!LimitAssumption PROVE Analysis!Spec => []DelegateInv
<1>1. Analysis!Init => DelegateInv
  BY DelegateInit
<1>2. DelegateInv /\ [Analysis!Next]_(Analysis!vars) => DelegateInv'
  BY DelegateNext
<1> QED
  BY <1>1, <1>2, PTL DEF Analysis!Spec

\* Every run_analysis call that starts a child is counted.
THEOREM DelegatesTypeCorrect ==
  ASSUME Analysis!LimitAssumption PROVE Analysis!Spec => []Analysis!TypeOK
<1>1. DelegateInv => Analysis!TypeOK
  BY AnalysisCardinality DEF DelegateInv, Children, Started, Analysis!TypeOK
<1> QED
  BY <1>1, DelegateAlways, PTL

\* The records of a turn are those of the children that ended well, and every finding of
\* one names evidence that the turn can present, however many tools ran at a time.
THEOREM FindingsRestOnRecords ==
  ASSUME Analysis!LimitAssumption
  PROVE  Analysis!Spec => [](Analysis!RecordsFromAccepted /\ Analysis!FindingsArePresentable)
<1>1. DelegateInv => Analysis!RecordsFromAccepted /\ Analysis!FindingsArePresentable
  <2> SUFFICES ASSUME DelegateInv, NEW d \in Delegate, child[d].pc = "done"
               PROVE  /\ Analysis!RecordsFromAccepted
                      /\ child[d].accepted
                      /\ child[d].submitted \subseteq child[d].evidence \intersect records
    BY DEF Analysis!FindingsArePresentable, DelegateInv
  <2>1. child[d].evidence \subseteq records
    BY DEF DelegateInv, Analysis!RecordsFromAccepted
  <2> QED
    BY <2>1 DEF DelegateInv, ChildFits
<1> QED
  BY <1>1, DelegateAlways, PTL

-----------------------------------------------------------------------------
(* One tool at a time.                                                      *)

LEMMA AddedFits ==
  ASSUME NEW S, NEW e, NEW n \in Nat, IsFiniteSet(S), Cardinality(S) < n
  PROVE  IsFiniteSet(S \union {e}) /\ Cardinality(S \union {e}) <= n
<1>1. /\ IsFiniteSet(S \union {e})
      /\ \/ Cardinality(S \union {e}) = Cardinality(S)
         \/ Cardinality(S \union {e}) = Cardinality(S) + 1
  BY FS_AddElement
<1>2. Cardinality(S) \in Nat
  BY FS_CardinalityType
<1> QED
  BY <1>1, <1>2

LEMMA AllowedInit ==
  ASSUME Analysis!LimitAssumption, Analysis!Init, NEW d \in Delegate PROVE WithinLimits(d)
<1>1. child[d] = Analysis!Unstarted /\ \A w \in Worker : worker[d][w] = Analysis!Resting
  BY DEF Analysis!Init
<1>2. IsFiniteSet({}) /\ Cardinality({}) = 0
  BY FS_EmptySet
<1>3. {MaxCalculations, MaxDatasets, MaxProgress} \subseteq Nat
  BY DEF Analysis!LimitAssumption
<1> QED
  BY <1>1, <1>2, <1>3 DEF WithinLimits, Analysis!Unstarted, Analysis!Resting

LEMMA AllowedNext ==
  ASSUME Analysis!LimitAssumption, OneTool, DelegateInv, \A d \in Delegate : WithinLimits(d),
         [Analysis!Next]_(Analysis!vars)
  PROVE  (\A d \in Delegate : WithinLimits(d)') /\ Analysis!SubmissionKept
<1> SUFFICES ASSUME NEW d \in Delegate
             PROVE  /\ WithinLimits(d)'
                    /\ child[d].accepted => /\ child'[d].submitted = child[d].submitted
                                            /\ child'[d].evidence = child[d].evidence
  BY DEF Analysis!SubmissionKept
<1> DEFINE Kept == /\ WithinLimits(d)'
                   /\ child[d].accepted => /\ child'[d].submitted = child[d].submitted
                                           /\ child'[d].evidence = child[d].evidence
<1>0. /\ {MaxCalculations, MaxDatasets, MaxProgress} \subseteq Nat
      /\ child \in [Delegate -> Children] /\ child[d] \in Children
      /\ worker \in [Delegate -> [Worker -> Workings]] /\ WithinLimits(d)
  BY DEF Analysis!LimitAssumption, DelegateInv
<1>1. ASSUME child'[d] = child[d], worker'[d] = worker[d] PROVE Kept
  BY <1>1, <1>0 DEF WithinLimits, Analysis!LimitAllows
<1>2. ASSUME NEW granted \in 1..MaxDatasets, Analysis!Begin(d, granted) PROVE Kept
  <2>1. /\ child'[d] = [child[d] EXCEPT !.pc = "running", !.datasets = granted]
        /\ worker' = worker
        /\ child[d].pc = "unasked"
    BY <1>0, <1>2 DEF Analysis!Begin
  <2>2. /\ child'[d].evidence = child[d].evidence /\ child'[d].submitted = child[d].submitted
        /\ child'[d].progress = child[d].progress /\ child'[d].datasets <= MaxDatasets
    BY <2>1, <1>0 DEF Children
  <2>3. \A w \in Worker : worker'[d][w].at # "acting"
    BY <2>1, <1>0 DEF WithinLimits
  <2> QED
    BY <2>2, <2>3, <1>0 DEF WithinLimits
<1>3. ASSUME UNCHANGED worker, 
             /\ child'[d].evidence = child[d].evidence
             /\ child'[d].submitted = child[d].submitted
             /\ child'[d].accepted = child[d].accepted
             /\ child'[d].datasets = child[d].datasets
             /\ child'[d].progress = child[d].progress
             /\ child'[d].pc = child[d].pc \/ \A w \in Worker : worker[d][w].at # "acting"
      PROVE  Kept
  BY <1>3, <1>0 DEF WithinLimits, Analysis!LimitAllows
<1>4. ASSUME Analysis!Refuse(d) \/ Analysis!Expire(d) \/ Analysis!Finish(d) PROVE Kept
  <2>1. CASE Analysis!Refuse(d)
    BY <1>0, <1>3, <2>1 DEF Analysis!Refuse, Children, WithinLimits
  <2>2. CASE Analysis!Expire(d)
    BY <1>0, <1>3, <2>2 DEF Analysis!Expire, Children
  <2>3. CASE Analysis!Finish(d)
    BY <1>0, <1>3, <2>3 DEF Analysis!Finish, Children
  <2> QED
    BY <1>4, <2>1, <2>2, <2>3
<1>5. ASSUME Analysis!Race(d) PROVE Kept
  BY <1>5, <1>1 DEF Analysis!Race
<1>6. ASSUME NEW w \in Worker, NEW tool \in Analysis!ChildTool, Analysis!Check(d, w, tool)
      PROVE  Kept
  <2>1. /\ child' = child /\ child[d].pc = "running" /\ ~child[d].accepted
        /\ Analysis!LimitAllows(d, tool) /\ worker'[d][w] = [tool |-> tool, at |-> "acting"]
    BY <1>0, <1>6 DEF Analysis!Check, Analysis!Open, Analysis!Running
  <2>2. \A v \in Worker : v = w
    BY DEF OneTool
  <2> QED
    BY <1>0, <2>1, <2>2 DEF WithinLimits, Analysis!LimitAllows
<1>7. ASSUME NEW w \in Worker, worker[d][w].at = "acting", Analysis!Rest(d, w),
             /\ IsFiniteSet(child'[d].evidence)
             /\ Cardinality(child'[d].evidence) <= MaxCalculations
             /\ child'[d].datasets <= MaxDatasets /\ child'[d].progress <= MaxProgress
      PROVE  Kept
  <2>1. \A v \in Worker : v = w /\ worker'[d][v] = Analysis!Resting
    BY <1>0, <1>7 DEF OneTool, Analysis!Rest
  <2>2. ~child[d].accepted
    BY <1>0, <1>7 DEF WithinLimits
  <2> QED
    BY <1>7, <2>1, <2>2 DEF WithinLimits, Analysis!Resting
<1>8. ASSUME NEW w \in Worker, Analysis!Decline(d, w) PROVE Kept
  <2>1. child' = child /\ worker[d][w].at = "acting" /\ Analysis!Rest(d, w)
    BY <1>8 DEF Analysis!Decline
  <2>2. /\ IsFiniteSet(child'[d].evidence)
        /\ Cardinality(child'[d].evidence) <= MaxCalculations
        /\ child'[d].datasets <= MaxDatasets /\ child'[d].progress <= MaxProgress
    BY <1>0, <2>1 DEF WithinLimits
  <2> QED
    BY <1>7, <2>1, <2>2
<1>9. ASSUME NEW w \in Worker, Analysis!Calculate(d, w) PROVE Kept
  <2>0. PICK e \in Analysis!Unused : child' = [child EXCEPT ![d].evidence = @ \union {e}]
    BY <1>9 DEF Analysis!Calculate
  <2>1. child'[d].evidence = child[d].evidence \union {e}
    BY <1>0, <2>0 DEF Children
  <2>2. /\ child'[d].datasets = child[d].datasets /\ child'[d].progress = child[d].progress
        /\ worker[d][w].at = "acting" /\ worker[d][w].tool = "calculate"
        /\ Analysis!Rest(d, w)
    BY <1>0, <2>0, <1>9 DEF Analysis!Calculate, Analysis!Acting, Children
  <2>3. Cardinality(child[d].evidence) < MaxCalculations
    BY <1>0, <2>2, AnalysisCardinality DEF WithinLimits, Analysis!LimitAllows
  <2>4. IsFiniteSet(child[d].evidence) /\ MaxCalculations \in Nat
    BY <1>0 DEF WithinLimits
  <2>5. /\ IsFiniteSet(child[d].evidence \union {e})
        /\ Cardinality(child[d].evidence \union {e}) <= MaxCalculations
    BY <2>3, <2>4, AddedFits
  <2> QED
    BY <1>0, <1>7, <2>1, <2>2, <2>5 DEF WithinLimits
<1>10. ASSUME NEW w \in Worker, Analysis!Slice(d, w) PROVE Kept
  <2>1. /\ child'[d].datasets = child[d].datasets + 1 /\ child'[d].progress = child[d].progress
        /\ child'[d].evidence = child[d].evidence
        /\ worker[d][w].at = "acting" /\ worker[d][w].tool = "slice"
        /\ Analysis!Rest(d, w)
    BY <1>0, <1>10 DEF Analysis!Slice, Analysis!Acting, Children
  <2>2. child[d].datasets < MaxDatasets /\ child[d].datasets \in Nat
    BY <1>0, <2>1 DEF WithinLimits, Analysis!LimitAllows, Children
  <2> QED
    BY <1>0, <1>7, <2>1, <2>2 DEF WithinLimits
<1>11. ASSUME NEW w \in Worker, Analysis!Progress(d, w) PROVE Kept
  <2>1. /\ child'[d].progress = child[d].progress + 1 /\ child'[d].datasets = child[d].datasets
        /\ child'[d].evidence = child[d].evidence
        /\ worker[d][w].at = "acting" /\ worker[d][w].tool = "progress"
        /\ Analysis!Rest(d, w)
    BY <1>0, <1>11 DEF Analysis!Progress, Analysis!Acting, Children
  <2>2. child[d].progress < MaxProgress /\ child[d].progress \in Nat
    BY <1>0, <2>1 DEF WithinLimits, Analysis!LimitAllows, Children
  <2> QED
    BY <1>0, <1>7, <2>1, <2>2 DEF WithinLimits
<1>12. ASSUME NEW w \in Worker, Analysis!Submit(d, w) PROVE Kept
  <2>1. /\ child'[d].progress = child[d].progress /\ child'[d].datasets = child[d].datasets
        /\ child'[d].evidence = child[d].evidence
        /\ worker[d][w].at = "acting" /\ Analysis!Rest(d, w)
    BY <1>0, <1>12 DEF Analysis!Submit, Analysis!Acting, Children
  <2> QED
    BY <1>0, <1>7, <2>1 DEF WithinLimits
<1>13. ASSUME NEW x \in Delegate, x # d,
              \/ \E granted \in 1..MaxDatasets : Analysis!Begin(x, granted)
              \/ Analysis!Refuse(x) \/ Analysis!Race(x) \/ Analysis!Expire(x)
              \/ Analysis!Finish(x)
              \/ \E w \in Worker :
                   \/ \E tool \in Analysis!ChildTool : Analysis!Check(x, w, tool)
                   \/ Analysis!Calculate(x, w) \/ Analysis!Slice(x, w)
                   \/ Analysis!Progress(x, w) \/ Analysis!Submit(x, w)
                   \/ Analysis!Decline(x, w)
       PROVE  Kept
  <2>1. child'[d] = child[d] /\ worker'[d] = worker[d]
    BY <1>0, <1>13
       DEF Analysis!Begin, Analysis!Refuse, Analysis!Race, Analysis!Expire, Analysis!Finish,
           Analysis!Check, Analysis!Calculate, Analysis!Slice, Analysis!Progress,
           Analysis!Submit, Analysis!Decline, Analysis!Rest
  <2> QED
    BY <1>1, <2>1
<1>14. CASE UNCHANGED Analysis!vars
  BY <1>1, <1>14 DEF Analysis!vars
<1>15. ASSUME Analysis!Next PROVE Kept
  <2> DEFINE Acting(x) ==
               \E w \in Worker :
                  \/ \E tool \in Analysis!ChildTool : Analysis!Check(x, w, tool)
                  \/ Analysis!Calculate(x, w) \/ Analysis!Slice(x, w)
                  \/ Analysis!Progress(x, w) \/ Analysis!Submit(x, w)
                  \/ Analysis!Decline(x, w)
             Others(x) ==
               \/ \E granted \in 1..MaxDatasets : Analysis!Begin(x, granted)
               \/ Analysis!Refuse(x) \/ Analysis!Race(x) \/ Analysis!Expire(x)
               \/ Analysis!Finish(x)
  <2>1. PICK x \in Delegate : Others(x) \/ Acting(x)
    BY <1>15 DEF Analysis!Next
  <2>2. ASSUME Others(d) PROVE Kept
    <3> HIDE DEF Kept
    <3> QED BY <2>2, <1>2, <1>4, <1>5
  <2>3. ASSUME Acting(d) PROVE Kept
    <3> HIDE DEF Kept
    <3> QED BY <2>3, <1>6, <1>8, <1>9, <1>10, <1>11, <1>12
  <2>4. ASSUME x # d PROVE Kept
    <3> HIDE DEF Kept
    <3> QED BY <2>1, <2>4, <1>13
  <2> HIDE DEF Acting, Others, Kept
  <2> QED
    BY <2>1, <2>2, <2>3, <2>4
<1> QED
  BY <1>14, <1>15

\* With a runtime that calls one tool at a time a child stays within its limits, and what
\* it submitted is what the turn gets.
THEOREM DelegatesStayBounded ==
  ASSUME Analysis!LimitAssumption, OneTool
  PROVE  Analysis!Spec => []Analysis!DelegatesBounded /\ Analysis!SubmissionIsFinal
<1> DEFINE AllAllowed == \A d \in Delegate : WithinLimits(d)
<1>1. Analysis!Init => AllAllowed
  BY AllowedInit
<1>2. DelegateInv /\ AllAllowed /\ [Analysis!Next]_(Analysis!vars)
         => AllAllowed' /\ Analysis!SubmissionKept
  BY AllowedNext
<1>3. AllAllowed => Analysis!DelegatesBounded
  BY AnalysisCardinality DEF WithinLimits, Analysis!DelegatesBounded
<1> HIDE DEF AllAllowed
<1>4. Analysis!Spec => []AllAllowed
  BY <1>1, <1>2, DelegateAlways, PTL DEF Analysis!Spec
<1>5. Analysis!Spec => [][Analysis!SubmissionKept]_(Analysis!vars)
  BY <1>2, <1>4, DelegateAlways, PTL DEF Analysis!Spec
<1> QED
  BY <1>3, <1>4, <1>5, PTL DEF Analysis!SubmissionIsFinal

-----------------------------------------------------------------------------
(* The Manager host (internal/manager).                                     *)

CONSTANTS Account, MaxStaged, MaxEdits, MaxTurns, MaxFaults
VARIABLES
    world, readings, saved, drafts, managerPc, turn, alive, managerCall, staged, shown,
    lost, status, announced, faults, managerTold, managerReads, effects

Manager == INSTANCE ManagerTurn WITH
    seen <- readings, pc <- managerPc, call <- managerCall, told <- managerTold,
    reads <- managerReads

ManagerAssumptions ==
    Manager!NoneAssumption /\ Manager!LimitAssumption /\ Manager!CardAssumption

ManagerPoints == {"idle", "got", "copied", "read", "stored", "counted"}
ManagerCalls == [at : ManagerPoints, account : Account \union {None},
                 before : Nat \union {None}, seen : Nat \union {None}]
Readings == [Account -> Nat \union {None}]
ManagerDrafts == [account : Account, basis : Nat, turn : Nat,
                  state : {"staged", "applied", "expired"}]
Final == Manager!Final

ManagerTyped ==
    /\ world \in [Account -> Nat]
    /\ readings \in Readings
    /\ saved \in [seen : Readings, status : Final \union {None, "running"}]
    /\ drafts \in Seq(ManagerDrafts)
    /\ managerPc \in {"idle", "open", "running", "saving", "announcing"}
    /\ turn \in 0..MaxTurns /\ alive \in BOOLEAN
    /\ managerCall \in [Slot -> ManagerCalls]
    /\ staged \in Nat /\ lost \in BOOLEAN
    /\ status \in Final \union {None} /\ announced \in BOOLEAN /\ faults \in Nat

\* What a session knows of an object it has read, and so has the session's row.
WasRead(a, v) == v # None => [account |-> a, state |-> v] \in managerReads
ReadingsFit == \A a \in Account : WasRead(a, readings[a]) /\ WasRead(a, saved.seen[a])

\* A call has its account and its state of the object, or the draft it has stored; one
\* to stage has what the session knew.  No call is under way outside the turn's run.
CallFits(c) ==
    /\ c.at # "idle" => managerPc = "running" /\ c.account \in Account
    /\ c.at = "got" => c.before \in Nat
    /\ c.at \in {"copied", "read"} => WasRead(c.account, c.seen)
    /\ c.at \in {"stored", "counted"} => c.before \in DOMAIN drafts

\* Cards are of drafts; approvals went by the draft's account and its basis.
PreviewsFit == shown \subseteq DOMAIN drafts /\ IsFiniteSet(shown) /\ Cardinality(shown) <= MaxCards
AppliedFit ==
    \A e \in effects :
       /\ e.draft \in DOMAIN drafts
       /\ e.account = drafts[e.draft].account
       /\ e.from = drafts[e.draft].basis

ManagerInv ==
    /\ ManagerTyped
    /\ ReadingsFit
    /\ \A s \in Slot : CallFits(managerCall[s])
    /\ PreviewsFit
    /\ AppliedFit
    /\ Manager!DraftsWereRead

LEMMA ManagerCardinality == \A S : Manager!Cardinality(S) = Cardinality(S)
  BY DEF Manager!Cardinality, Cardinality

LEMMA ManagerInit == ASSUME ManagerAssumptions, Manager!Init PROVE ManagerInv
<1>1. ManagerTyped
  <2>1. {MaxStaged, MaxCards, MaxEdits, MaxTurns, MaxFaults} \subseteq Nat
    BY DEF ManagerAssumptions, Manager!LimitAssumption
  <2>2. Manager!Idle \in ManagerCalls /\ Manager!Unread \in Readings
    BY DEF Manager!Idle, Manager!Unread, ManagerCalls, ManagerPoints, Readings
  <2>3. <<>> \in Seq(ManagerDrafts)
    OBVIOUS
  <2>4. 0 \in 0..MaxTurns
    BY <2>1
  <2> QED
    BY <2>2, <2>3, <2>4 DEF Manager!Init, ManagerTyped
<1>2. ReadingsFit
  BY DEF Manager!Init, Manager!Unread, ReadingsFit, WasRead
<1>3. \A s \in Slot : CallFits(managerCall[s])
  BY DEF Manager!Init, Manager!Idle, CallFits
<1>4. PreviewsFit
  <2>1. MaxCards \in Nat /\ IsFiniteSet({}) /\ Cardinality({}) = 0
    BY FS_EmptySet DEF ManagerAssumptions, Manager!LimitAssumption
  <2> QED
    BY <2>1 DEF Manager!Init, PreviewsFit
<1>5. AppliedFit /\ Manager!DraftsWereRead
  BY DEF Manager!Init, AppliedFit, Manager!DraftsWereRead
<1> QED
  BY <1>1, <1>2, <1>3, <1>4, <1>5 DEF ManagerInv

\* A draft stays as it was stored, save for its state.
DraftsStay ==
    \A d \in DOMAIN drafts :
       /\ d \in DOMAIN drafts'
       /\ drafts'[d].account = drafts[d].account /\ drafts'[d].basis = drafts[d].basis
       /\ drafts'[d].turn = drafts[d].turn

\* What a step that adds no card, no reading and no effect must show.
LEMMA ManagerStep ==
  ASSUME ManagerInv, ManagerTyped', ReadingsFit', DraftsStay,
         \A s \in Slot : CallFits(managerCall[s])', UNCHANGED <<shown, effects>>,
         managerReads \subseteq managerReads',
         \A d \in DOMAIN drafts' :
            d \in DOMAIN drafts
            \/ [account |-> drafts'[d].account, state |-> drafts'[d].basis] \in managerReads'
  PROVE  ManagerInv'
<1>1. PreviewsFit'
  BY DEF ManagerInv, PreviewsFit, DraftsStay
<1>2. AppliedFit'
  BY DEF ManagerInv, AppliedFit, DraftsStay
<1>3. Manager!DraftsWereRead'
  BY DEF ManagerInv, Manager!DraftsWereRead, DraftsStay
<1> QED
  BY <1>1, <1>2, <1>3 DEF ManagerInv

LEMMA ManagerEvent ==
  ASSUME ManagerInv, NEW stored \in BOOLEAN, Manager!Event(stored)
  PROVE  lost' \in BOOLEAN /\ faults' \in Nat
<1>1. lost \in BOOLEAN /\ faults \in Nat
  BY DEF ManagerInv, ManagerTyped
<1>2. CASE stored
  <2>1. lost' = lost /\ faults' = faults
    BY <1>2 DEF Manager!Event
  <2> QED
    BY ONLY <1>1, <2>1
<1>3. CASE ~stored
  <2>1. lost' = TRUE
    BY <1>3 DEF Manager!Event
  <2>2. faults' = faults \/ faults' = faults + 1
    BY <1>3 DEF Manager!Event, Manager!Fault
  <2> QED
    BY ONLY <1>1, <2>1, <2>2
<1> QED
  BY <1>2, <1>3

\* Steps of the turn itself: no tool moves.
LEMMA TurnSteps ==
  ASSUME ManagerAssumptions, ManagerInv,
         \/ Manager!Start \/ Manager!Abandon \/ Manager!Cancel \/ Manager!Finish
         \/ Manager!Save \/ Manager!Announce
         \/ \E a \in Account : Manager!Edit(a)
  PROVE  ManagerInv'
<1>1. UNCHANGED <<drafts, managerCall, staged, shown, managerReads, effects, readings, turn>>
  BY DEF Manager!Start, Manager!Abandon, Manager!Cancel, Manager!Finish, Manager!Save,
         Manager!Announce, Manager!Edit, Manager!session, Manager!tools, Manager!ending,
         Manager!history
<1>2. \A stored \in BOOLEAN : Manager!Event(stored) => lost' \in BOOLEAN /\ faults' \in Nat
  BY ManagerEvent
<1>3. ManagerTyped' /\ ReadingsFit'
  <2>1. CASE Manager!Start
    BY <2>1, <1>2 DEF Manager!Start, Manager!session, Manager!tools, Manager!ending,
       Manager!history, ManagerInv, ManagerTyped, ReadingsFit, WasRead
  <2>2. CASE Manager!Abandon \/ Manager!Cancel
    BY <2>2 DEF Manager!Abandon, Manager!Cancel, Manager!session, Manager!tools,
       Manager!ending, Manager!history, ManagerInv, ManagerTyped, ReadingsFit, WasRead
  <2>3. CASE Manager!Finish
    <3>1. status' \in Final
      BY <2>3 DEF Manager!Finish, Manager!Verdict, Manager!Final, Final
    <3> QED
      BY <2>3, <3>1 DEF Manager!Finish, Manager!session, Manager!tools, Manager!history,
         ManagerInv, ManagerTyped, ReadingsFit, WasRead
  <2>4. CASE Manager!Save
    <3>1. faults' \in Nat /\ status' \in Final \union {None}
          /\ (saved' = saved \/ saved' = [seen |-> readings, status |-> status])
      <4>1. faults \in Nat /\ status \in Final \union {None} /\ "failed" \in Final
        BY DEF ManagerInv, ManagerTyped, Manager!Final, Final
      <4>2. CASE saved' = [seen |-> readings, status |-> status] /\ UNCHANGED <<faults, status>>
        BY <4>1, <4>2
      <4>3. CASE Manager!Fault /\ UNCHANGED saved /\ status' = "failed"
        BY <4>1, <4>3 DEF Manager!Fault
      <4> QED
        BY <2>4, <4>2, <4>3 DEF Manager!Save
    <3>2. saved' \in [seen : Readings, status : Final \union {None, "running"}]
      BY <3>1 DEF ManagerInv, ManagerTyped
    <3>3. ReadingsFit'
      <4>1. saved'.seen = saved.seen \/ saved'.seen = readings
        BY <3>1
      <4>2. \A a \in Account : WasRead(a, readings[a]) /\ WasRead(a, saved.seen[a])
        BY DEF ManagerInv, ReadingsFit
      <4> QED
        BY <1>1, <4>1, <4>2 DEF ReadingsFit, WasRead
    <3> QED
      BY <1>1, <2>4, <3>1, <3>2, <3>3 DEF Manager!Save, Manager!tools, ManagerInv, ManagerTyped
  <2>5. CASE Manager!Announce
    <3>1. lost' \in BOOLEAN /\ faults' \in Nat /\ announced' \in BOOLEAN
      BY <2>5, <1>2 DEF Manager!Announce
    <3> QED
      BY <2>5, <3>1 DEF Manager!Announce, Manager!session, Manager!tools, Manager!ending,
         Manager!history, ManagerInv, ManagerTyped, ReadingsFit, WasRead
  <2>6. CASE \E a \in Account : Manager!Edit(a)
    BY <2>6 DEF Manager!Edit, Manager!session, Manager!tools, Manager!ending,
       Manager!history, ManagerInv, ManagerTyped, ReadingsFit, WasRead
  <2> QED
    BY <2>1, <2>2, <2>3, <2>4, <2>5, <2>6
<1>4. (\A s \in Slot : managerCall[s].at = "idle") \/ managerPc' = managerPc
  BY DEF ManagerInv, CallFits, Manager!Start, Manager!Abandon, Manager!Cancel,
         Manager!Finish, Manager!Quiet, Manager!Save, Manager!Announce, Manager!Edit
<1>5. \A s \in Slot : CallFits(managerCall[s])'
  BY <1>1, <1>4 DEF ManagerInv, CallFits, WasRead
<1>6. DraftsStay
  BY <1>1 DEF DraftsStay
<1> QED
  BY <1>1, <1>3, <1>5, <1>6, ManagerStep

LEMMA OpenHolds == ASSUME ManagerAssumptions, ManagerInv, Manager!Open PROVE ManagerInv'
<1>1. UNCHANGED <<world, drafts, managerCall, managerReads, effects, faults>>
  BY DEF Manager!Open, Manager!history
<1>2. ManagerTyped'
  <2>1. turn' \in 0..MaxTurns
    BY DEF Manager!Open, ManagerInv, ManagerTyped, ManagerAssumptions, Manager!LimitAssumption
  <2>2. saved' \in [seen : Readings, status : Final \union {None, "running"}]
        /\ readings' \in Readings
    BY DEF Manager!Open, ManagerInv, ManagerTyped
  <2> QED
    BY <1>1, <2>1, <2>2 DEF Manager!Open, ManagerInv, ManagerTyped
<1>3. ReadingsFit'
  BY <1>1 DEF Manager!Open, ManagerInv, ManagerTyped, ReadingsFit, WasRead
<1>4. \A s \in Slot : CallFits(managerCall[s])'
  BY <1>1 DEF Manager!Open, ManagerInv, CallFits
<1>5. PreviewsFit'
  <2>1. MaxCards \in Nat /\ IsFiniteSet({}) /\ Cardinality({}) = 0
    BY FS_EmptySet DEF ManagerAssumptions, Manager!LimitAssumption
  <2> QED
    BY <2>1 DEF Manager!Open, PreviewsFit
<1>6. AppliedFit' /\ Manager!DraftsWereRead'
  BY <1>1 DEF ManagerInv, AppliedFit, Manager!DraftsWereRead
<1> QED
  BY <1>2, <1>3, <1>4, <1>5, <1>6 DEF ManagerInv

-----------------------------------------------------------------------------
(* Tools.                                                                   *)

LEMMA ManagerIdle == Manager!Idle \in ManagerCalls /\ CallFits(Manager!Idle)
  BY DEF Manager!Idle, ManagerCalls, ManagerPoints, CallFits

\* A tool that moves one call and leaves the drafts alone.
LEMMA ToolKeeps ==
  ASSUME ManagerInv, NEW s \in Slot, NEW c \in ManagerCalls,
         managerCall' = [managerCall EXCEPT ![s] = c], CallFits(c),
         UNCHANGED <<world, readings, saved, drafts, managerPc, turn, alive, shown, status, 
                     announced, managerReads, effects>>,
         staged' \in Nat, lost' \in BOOLEAN, faults' \in Nat
  PROVE  ManagerInv'
<1>1. ManagerTyped'
  BY DEF ManagerInv, ManagerTyped
<1>2. ReadingsFit' /\ DraftsStay
  BY DEF ManagerInv, ReadingsFit, WasRead, DraftsStay
<1>3. \A t \in Slot : CallFits(managerCall[t])'
  BY DEF ManagerInv, ManagerTyped, CallFits, WasRead
<1> QED
  BY <1>1, <1>2, <1>3, ManagerStep

LEMMA PlainTools ==
  ASSUME ManagerInv, NEW s \in Slot,
         \/ Manager!Refuse(s) \/ Manager!ReadTarget(s) \/ Manager!Count(s)
         \/ \E a \in Account : Manager!Get(s, a) \/ Manager!Stage(s, a)
  PROVE  ManagerInv'
<1>1. managerCall[s] \in ManagerCalls /\ CallFits(managerCall[s])
  BY DEF ManagerInv, ManagerTyped
<1>2. staged \in Nat /\ lost \in BOOLEAN /\ faults \in Nat
  BY DEF ManagerInv, ManagerTyped
<1>3. CASE Manager!Refuse(s)
  BY <1>2, <1>3, ManagerIdle, ToolKeeps
     DEF Manager!Refuse, Manager!Answer, Manager!session, Manager!ending, Manager!history
<1>4. ASSUME NEW a \in Account, Manager!Get(s, a) PROVE ManagerInv'
  <2> DEFINE c == [Manager!Idle EXCEPT !.at = "got", !.account = a, !.before = world[a]]
  <2>1. c \in ManagerCalls /\ CallFits(c)
    BY <1>4 DEF Manager!Get, Manager!At, Manager!Idle, ManagerCalls, ManagerPoints, CallFits,
                ManagerInv, ManagerTyped
  <2>2. managerCall' = [managerCall EXCEPT ![s] = c]
    BY <1>4 DEF Manager!Get
  <2> HIDE DEF c
  <2> QED
    BY <1>2, <1>4, <2>1, <2>2, ToolKeeps
       DEF Manager!Get, Manager!session, Manager!ending, Manager!history
<1>5. ASSUME NEW a \in Account, Manager!Stage(s, a) PROVE ManagerInv'
  <2> DEFINE c == [at |-> "copied", account |-> a, before |-> None, seen |-> readings[a]]
  <2>1. c \in ManagerCalls /\ CallFits(c)
    BY <1>5 DEF Manager!Stage, Manager!At, ManagerCalls, ManagerPoints, CallFits, Readings,
                ManagerInv, ManagerTyped, ReadingsFit
  <2>2. managerCall' = [managerCall EXCEPT ![s] = c]
    BY <1>5 DEF Manager!Stage
  <2> HIDE DEF c
  <2> QED
    BY <1>2, <1>5, <2>1, <2>2, ToolKeeps
       DEF Manager!Stage, Manager!session, Manager!ending, Manager!history
<1>6. CASE Manager!Count(s)
  <2> DEFINE c == [managerCall[s] EXCEPT !.at = "counted"]
  <2>1. c \in ManagerCalls /\ CallFits(c)
    BY <1>1, <1>6 DEF Manager!Count, Manager!At, ManagerCalls, ManagerPoints, CallFits
  <2>2. managerCall' = [managerCall EXCEPT ![s] = c]
    BY <1>6 DEF Manager!Count
  <2>3. staged' \in Nat /\ lost' \in BOOLEAN /\ faults' \in Nat
    BY <1>2, <1>6, ManagerEvent DEF Manager!Count
  <2> HIDE DEF c
  <2> QED
    BY <1>6, <2>1, <2>2, <2>3, ToolKeeps
       DEF Manager!Count, Manager!session, Manager!ending, Manager!history
<1>7. CASE Manager!ReadTarget(s)
  <2>1. PICK was \in {world[managerCall[s].account], managerCall[s].seen} :
           managerCall' = [managerCall EXCEPT ![s].at = "read", ![s].before = was]
    BY <1>7 DEF Manager!ReadTarget
  <2> DEFINE c == [managerCall[s] EXCEPT !.at = "read", !.before = was]
  <2>2. c \in ManagerCalls /\ CallFits(c)
    BY <1>1, <1>7, <2>1 DEF Manager!ReadTarget, Manager!At, ManagerCalls, ManagerPoints, CallFits,
       ManagerInv, ManagerTyped
  <2>3. managerCall' = [managerCall EXCEPT ![s] = c]
    BY <2>1 DEF ManagerInv, ManagerTyped
  <2> HIDE DEF c
  <2> QED
    BY <1>2, <1>7, <2>2, <2>3, ToolKeeps
       DEF Manager!ReadTarget, Manager!session, Manager!ending, Manager!history
<1> QED
  BY <1>3, <1>4, <1>5, <1>6, <1>7

LEMMA RememberHolds ==
  ASSUME ManagerInv, NEW s \in Slot, Manager!Remember(s) PROVE ManagerInv'
<1> DEFINE c == managerCall[s]
<1>1. c \in ManagerCalls /\ c.account \in Account /\ c.before \in Nat
  BY DEF ManagerInv, ManagerTyped, CallFits, Manager!Remember, Manager!At
<1>2. /\ readings' = [a \in Account |-> IF a = c.account THEN c.before ELSE readings[a]]
      /\ managerReads' = managerReads \union {[account |-> c.account, state |-> c.before]}
      /\ managerCall' = [managerCall EXCEPT ![s] = Manager!Idle]
      /\ UNCHANGED <<world, saved, drafts, managerPc, turn, alive, staged, shown, lost,
                     status, announced, faults, effects>>
  BY DEF Manager!Remember, Manager!Key, Manager!Answer, Manager!ending
<1> HIDE DEF c
<1>3. ManagerTyped'
  BY <1>1, <1>2, ManagerIdle DEF ManagerInv, ManagerTyped, Readings
<1>5. ReadingsFit'
  <2> SUFFICES ASSUME NEW a \in Account
               PROVE  WasRead(a, readings[a])' /\ WasRead(a, saved.seen[a])'
    BY DEF ReadingsFit
  <2>1. WasRead(a, readings[a]) /\ WasRead(a, saved.seen[a])
    BY DEF ManagerInv, ReadingsFit
  <2>2. CASE a = c.account
    BY <1>2, <2>1, <2>2 DEF WasRead
  <2>3. CASE a # c.account
    BY <1>2, <2>1, <2>3 DEF WasRead
  <2> QED
    BY <2>2, <2>3
<1>6. \A t \in Slot : CallFits(managerCall[t])'
  BY <1>2, ManagerIdle DEF ManagerInv, ManagerTyped, CallFits, WasRead, Manager!Idle
<1>7. DraftsStay
  BY <1>2 DEF DraftsStay
<1> QED
  BY <1>2, <1>3, <1>5, <1>6, <1>7, ManagerStep

LEMMA StoreHolds ==
  ASSUME ManagerInv, NEW s \in Slot, Manager!Store(s) PROVE ManagerInv' /\ DraftsStay
<1> SUFFICES ASSUME NEW c, c = managerCall[s], NEW k, k = Len(drafts) + 1
             PROVE  ManagerInv' /\ DraftsStay
  OBVIOUS
<1> DEFINE new == [account |-> c.account, basis |-> c.before, turn |-> turn, state |-> "staged"]
           n == [c EXCEPT !.at = "stored", !.before = k]
<1>1. c \in ManagerCalls /\ c.account \in Account /\ CallFits(c)
      /\ c.at = "read" /\ managerPc = "running"
  BY DEF ManagerInv, ManagerTyped, CallFits, Manager!Store, Manager!At
<1>2. c.seen # None /\ c.seen = c.before
  BY DEF Manager!Store, Manager!UnchangedSince
<1>3. [account |-> c.account, state |-> c.before] \in managerReads /\ c.before \in Nat
  BY <1>1, <1>2 DEF CallFits, WasRead, ManagerCalls
<1>4. new \in ManagerDrafts
  <2>1. turn \in Nat
    BY DEF ManagerInv, ManagerTyped
  <2> QED
    BY <1>1, <1>3, <2>1 DEF ManagerDrafts
<1>5. drafts' = Append(drafts, new) /\ drafts \in Seq(ManagerDrafts)
  BY DEF Manager!Store, ManagerInv, ManagerTyped
<1>6. /\ drafts' \in Seq(ManagerDrafts) /\ DOMAIN drafts' = DOMAIN drafts \union {k}
      /\ drafts'[k] = new
      /\ \A d \in DOMAIN drafts : drafts'[d] = drafts[d]
      /\ k \in Nat
  <2> HIDE DEF new
  <2> QED BY <1>4, <1>5
<1>7. managerCall' = [managerCall EXCEPT ![s] = n]
  BY DEF Manager!Store, ManagerInv, ManagerTyped
<1>8. /\ n.at = "stored" /\ n.before = k /\ n.account = c.account /\ n \in ManagerCalls
  BY <1>1, <1>6 DEF ManagerCalls, ManagerPoints
<1>9. UNCHANGED <<world, readings, saved, managerPc, turn, alive, staged, shown, lost, status,
                  announced, faults, managerReads, effects>>
  BY DEF Manager!Store, Manager!session, Manager!ending, Manager!history
<1> HIDE DEF n
<1>10. ManagerTyped'
  BY <1>6, <1>7, <1>8, <1>9 DEF ManagerInv, ManagerTyped
<1>11. ReadingsFit'
  BY <1>9 DEF ManagerInv, ReadingsFit, WasRead
<1>12. DraftsStay
  BY <1>6 DEF DraftsStay
<1>13. \A t \in Slot : CallFits(managerCall[t])'
  <2> SUFFICES ASSUME NEW t \in Slot PROVE CallFits(managerCall[t])'
    OBVIOUS
  <2>1. CASE t # s
    <3>1. managerCall'[t] = managerCall[t]
      BY <1>7, <2>1 DEF ManagerInv, ManagerTyped
    <3> QED
      BY <1>6, <1>9, <3>1 DEF ManagerInv, CallFits, WasRead
  <2>2. CASE t = s
    <3>1. managerCall'[t] = n
      BY <1>7, <2>2 DEF ManagerInv, ManagerTyped
    <3> QED
      BY <1>1, <1>6, <1>8, <1>9, <3>1 DEF CallFits
  <2> QED
    BY <2>1, <2>2
<1>14. \A d \in DOMAIN drafts' :
          d \in DOMAIN drafts
          \/ [account |-> drafts'[d].account, state |-> drafts'[d].basis] \in managerReads'
  BY <1>3, <1>6, <1>9
<1> QED
  BY <1>9, <1>10, <1>11, <1>12, <1>13, <1>14, ManagerStep

\* The card of a draft.
LEMMA ShowHolds ==
  ASSUME ManagerAssumptions, ManagerInv, NEW s \in Slot, Manager!Show(s) PROVE ManagerInv'
<1> DEFINE c == managerCall[s]
<1>1. c.before \in DOMAIN drafts
  BY DEF ManagerInv, CallFits, Manager!Show, Manager!At
<1>2. /\ managerCall' = [managerCall EXCEPT ![s] = Manager!Idle]
      /\ UNCHANGED <<world, readings, saved, drafts, managerPc, turn, alive, staged, status,
                     announced, managerReads, effects>>
  BY DEF Manager!Show, Manager!Answer, Manager!session, Manager!ending
<1>3. lost' \in BOOLEAN /\ faults' \in Nat
  <2>1. lost \in BOOLEAN /\ faults \in Nat
    BY DEF ManagerInv, ManagerTyped
  <2>2. \/ UNCHANGED <<lost, faults>>
        \/ \E stored \in BOOLEAN : Manager!Event(stored)
    BY DEF Manager!Show
  <2> QED
    BY <2>1, <2>2, ManagerEvent
<1>4. \/ shown' = shown
      \/ Cardinality(shown) < MaxCards /\ shown' = shown \union {c.before}
  <2>1. Cardinality(shown) \in Nat /\ MaxCards \in Nat
    BY FS_CardinalityType DEF ManagerInv, PreviewsFit, ManagerAssumptions, Manager!LimitAssumption
  <2> QED
    BY <2>1, ManagerCardinality DEF Manager!Show
<1> HIDE DEF c
<1>5. PreviewsFit'
  <2>1. MaxCards \in Nat /\ IsFiniteSet(shown)
    BY DEF ManagerInv, PreviewsFit, ManagerAssumptions, Manager!LimitAssumption
  <2>2. CASE shown' = shown
    BY <1>2, <2>2 DEF ManagerInv, PreviewsFit
  <2>3. CASE Cardinality(shown) < MaxCards /\ shown' = shown \union {c.before}
    <3>1. IsFiniteSet(shown') /\ Cardinality(shown') <= MaxCards
      BY <2>1, <2>3, AddedFits
    <3> QED
      BY <1>1, <1>2, <2>3, <3>1 DEF ManagerInv, PreviewsFit
  <2> QED
    BY <1>4, <2>2, <2>3
<1>6. ManagerTyped'
  BY <1>2, <1>3, ManagerIdle DEF ManagerInv, ManagerTyped
<1>7. ReadingsFit' /\ AppliedFit' /\ Manager!DraftsWereRead'
  BY <1>2 DEF ManagerInv, ReadingsFit, WasRead, AppliedFit, Manager!DraftsWereRead
<1>8. \A t \in Slot : CallFits(managerCall[t])'
  BY <1>2, ManagerIdle DEF ManagerInv, ManagerTyped, CallFits, WasRead, Manager!Idle
<1> QED
  BY <1>5, <1>6, <1>7, <1>8 DEF ManagerInv

\* An approval: of its own account, from its basis.
LEMMA ApplyHolds ==
  ASSUME ManagerInv, NEW d \in DOMAIN drafts, Manager!Apply(d) PROVE ManagerInv' /\ DraftsStay
<1> DEFINE a == drafts[d].account
<1>1. drafts[d] \in ManagerDrafts /\ d \in 1..Len(drafts) /\ drafts \in Seq(ManagerDrafts)
  BY DEF ManagerInv, ManagerTyped
<1>2. PICK to \in {"applied", "expired"} : drafts' = [drafts EXCEPT ![d].state = to]
  BY DEF Manager!Apply
<1>3. [drafts[d] EXCEPT !.state = to] \in ManagerDrafts
  BY <1>1 DEF ManagerDrafts
<1>4. /\ drafts' \in Seq(ManagerDrafts) /\ DOMAIN drafts' = DOMAIN drafts
      /\ \A x \in DOMAIN drafts : drafts'[x] = IF x = d THEN [drafts[d] EXCEPT !.state = to]
                                               ELSE drafts[x]
  BY <1>1, <1>2, <1>3
<1>5. DraftsStay
  BY ZenonT(60), <1>1, <1>4 DEF DraftsStay, ManagerDrafts
<1>6. /\ UNCHANGED <<readings, saved, managerPc, turn, alive, managerCall, staged, shown, lost,
                     status, announced, faults, managerReads>>
      /\ \/ UNCHANGED <<world, effects>>
         \/ /\ world[a] = drafts[d].basis
            /\ world' = [world EXCEPT ![a] = @ + 1]
            /\ effects' = effects \union {[draft |-> d, account |-> a, from |-> world[a]]}
  BY DEF Manager!Apply, Manager!Route, Manager!session, Manager!tools, Manager!ending
<1>7. a \in Account
  BY <1>1 DEF ManagerDrafts
<1> HIDE DEF a
<1>8. world' \in [Account -> Nat]
  BY SMTT(60), <1>6, <1>7 DEF ManagerInv, ManagerTyped
<1>9. ManagerTyped'
  BY <1>4, <1>6, <1>8 DEF ManagerInv, ManagerTyped
<1>10. ReadingsFit' /\ \A s \in Slot : CallFits(managerCall[s])'
  BY <1>4, <1>6 DEF ManagerInv, ReadingsFit, CallFits, WasRead
<1>11. PreviewsFit'
  BY <1>4, <1>6 DEF ManagerInv, PreviewsFit
<1>12. Manager!DraftsWereRead'
  BY <1>4, <1>5, <1>6 DEF ManagerInv, Manager!DraftsWereRead, DraftsStay
<1>13. AppliedFit'
  <2> SUFFICES ASSUME NEW e \in effects'
               PROVE  /\ e.draft \in DOMAIN drafts'
                      /\ e.account = drafts'[e.draft].account
                      /\ e.from = drafts'[e.draft].basis
    BY DEF AppliedFit
  <2>1. CASE e \in effects
    BY <1>5, <2>1 DEF ManagerInv, AppliedFit, DraftsStay
  <2>2. CASE e \notin effects
    <3>1. e.draft = d /\ e.account = drafts[d].account /\ e.from = drafts[d].basis
      BY <1>6, <2>2 DEF a
    <3> QED
      BY <1>5, <3>1 DEF DraftsStay
  <2> QED
    BY <2>1, <2>2
<1> QED
  BY <1>5, <1>9, <1>10, <1>11, <1>12, <1>13 DEF ManagerInv

LEMMA ManagerNext ==
  ASSUME ManagerAssumptions, ManagerInv, [Manager!Next]_(Manager!vars) PROVE ManagerInv'
<1>1. CASE Manager!Next
  BY <1>1, TurnSteps, OpenHolds, PlainTools, RememberHolds, StoreHolds, ShowHolds, ApplyHolds
     DEF Manager!Next, Manager!Tool
<1>2. CASE UNCHANGED Manager!vars
  BY <1>2 DEF Manager!vars, Manager!session, Manager!tools, Manager!ending, Manager!history,
     ManagerInv, ManagerTyped, ReadingsFit, WasRead, CallFits, PreviewsFit, AppliedFit,
     Manager!DraftsWereRead
<1> QED
  BY <1>1, <1>2

LEMMA ManagerAlways == ASSUME ManagerAssumptions PROVE Manager!Spec => []ManagerInv
<1>1. Manager!Init => ManagerInv
  BY ManagerInit
<1>2. ManagerInv /\ [Manager!Next]_(Manager!vars) => ManagerInv'
  BY ManagerNext
<1> QED
  BY <1>1, <1>2, PTL DEF Manager!Spec

\* The types; a call is under way only while the runtime runs.
THEOREM ManagerTypeCorrect ==
  ASSUME ManagerAssumptions PROVE Manager!Spec => []Manager!TypeOK
<1>1. ManagerInv => Manager!TypeOK
  <2> SUFFICES ASSUME ManagerInv PROVE Manager!TypeOK
    OBVIOUS
  <2>1. \A a \in Account : world[a] \in Nat /\ readings[a] \in Nat \union {None}
    BY DEF ManagerInv, ManagerTyped, Readings
  <2>2. \A d \in DOMAIN drafts : drafts[d].state \in {"staged", "applied", "expired"}
    <3>1. \A d \in DOMAIN drafts : drafts[d] \in ManagerDrafts
      BY DEF ManagerInv, ManagerTyped
    <3> QED
      BY <3>1 DEF ManagerDrafts
  <2>3. \A s \in Slot : managerCall[s].at # "idle" => managerPc = "running"
    BY DEF ManagerInv, CallFits
  <2>4. shown \subseteq DOMAIN drafts /\ Manager!Cardinality(shown) <= MaxCards
    BY ManagerCardinality DEF ManagerInv, PreviewsFit
  <2>5. saved.status \in Final \union {None, "running"}
    BY DEF ManagerInv, ManagerTyped
  <2> QED
    BY <2>1, <2>2, <2>3, <2>4, <2>5 DEF ManagerInv, ManagerTyped, Manager!TypeOK, Final
<1> QED
  BY <1>1, ManagerAlways, PTL

\* Whatever is read, staged and edited in other accounts, and however many calls run at a
\* time, a draft rests on a reading of its own account, and its approval changes that
\* account, from the state that was reviewed.
THEOREM DraftsStayInPlace ==
  ASSUME ManagerAssumptions
  PROVE  Manager!Spec => [](Manager!DraftsWereRead /\ Manager!AppliedInPlace)
<1>1. ManagerInv => Manager!DraftsWereRead /\ Manager!AppliedInPlace
  BY DEF ManagerInv, AppliedFit, Manager!AppliedInPlace
<1> QED
  BY <1>1, ManagerAlways, PTL

-----------------------------------------------------------------------------
(* With one call at a time every draft is offered.                          *)

OneCall == \A s, t \in Slot : s = t

\* A draft of this turn is on its way to the client, unless an event was lost; the cards
\* are at most as many as the drafts counted, and these as many as the turn may stage.
OnItsWay(d) ==
    \/ lost \/ d \in managerTold
    \/ \E s \in Slot : managerCall[s].at \in {"stored", "counted"} /\ managerCall[s].before = d
AllOffered == \A d \in DOMAIN drafts : drafts[d].turn = turn => d \in managerTold
CardsLeft ==
    /\ Cardinality(shown) <= staged /\ staged <= MaxStaged
    /\ \A s \in Slot :
          /\ managerCall[s].at = "counted" => Cardinality(shown) < staged
          /\ managerCall[s].at \in {"copied", "read", "stored"} => staged < MaxStaged
OfferInv ==
    /\ \A d \in DOMAIN drafts : drafts[d].turn <= turn
    /\ managerPc \in {"open", "running", "saving"} => saved.status # "completed"
    /\ managerPc = "open" =>
          /\ staged = 0 /\ shown = {}
          /\ \A d \in DOMAIN drafts : drafts[d].turn # turn
    /\ managerPc = "running" =>
          CardsLeft /\ \A d \in DOMAIN drafts : drafts[d].turn = turn => OnItsWay(d)
    /\ managerPc = "saving" /\ status = "completed" => AllOffered
    /\ saved.status = "completed" => AllOffered

LEMMA OfferInit == ASSUME ManagerAssumptions, Manager!Init PROVE OfferInv
  BY DEF Manager!Init, OfferInv, AllOffered

LEMMA OpenOffers == ASSUME ManagerInv, OfferInv, Manager!Open PROVE OfferInv'
<1>1. /\ turn \in Nat /\ turn' = turn + 1 /\ drafts' = drafts
      /\ managerPc' = "open" /\ staged' = 0 /\ shown' = {} /\ saved'.status = "running"
  BY DEF Manager!Open, ManagerInv, ManagerTyped
<1>2. \A d \in DOMAIN drafts : drafts[d].turn \in Nat /\ drafts[d].turn <= turn
  <2>1. \A d \in DOMAIN drafts : drafts[d] \in ManagerDrafts
    BY DEF ManagerInv, ManagerTyped
  <2> QED
    BY <2>1 DEF OfferInv, ManagerDrafts
<1> QED
  BY <1>1, <1>2 DEF OfferInv

LEMMA StartOffers ==
  ASSUME ManagerAssumptions, ManagerInv, OfferInv, Manager!Start PROVE OfferInv'
<1>1. /\ managerPc = "open" /\ managerPc' = "running"
      /\ UNCHANGED <<drafts, turn, saved, managerCall, staged, shown>>
  BY DEF Manager!Start, Manager!session, Manager!tools
<1>2. \A s \in Slot : managerCall[s].at = "idle"
  BY <1>1 DEF ManagerInv, CallFits
<1>3. staged = 0 /\ Cardinality(shown) = 0 /\ MaxStaged \in Nat
  BY <1>1, FS_EmptySet DEF OfferInv, ManagerAssumptions, Manager!LimitAssumption
<1>4. CardsLeft'
  BY <1>1, <1>2, <1>3 DEF CardsLeft
<1> QED
  BY <1>1, <1>4 DEF OfferInv

LEMMA EndOffers ==
  ASSUME ManagerInv, OfferInv,
         \/ Manager!Abandon \/ Manager!Cancel \/ Manager!Finish \/ Manager!Save
         \/ Manager!Announce \/ \E a \in Account : Manager!Edit(a)
  PROVE  OfferInv'
<1>1. UNCHANGED <<drafts, turn, managerCall, staged, shown, managerTold>>
  BY DEF Manager!Abandon, Manager!Cancel, Manager!Finish, Manager!Save,
         Manager!Announce, Manager!Edit, Manager!tools, Manager!history
<1>2. AllOffered' = AllOffered
  BY <1>1 DEF AllOffered
<1>3. CASE Manager!Abandon
  BY <1>1, <1>2, <1>3 DEF Manager!Abandon, Manager!session, OfferInv
<1>4. CASE Manager!Cancel \/ \E a \in Account : Manager!Edit(a)
  <2>1. UNCHANGED <<managerPc, saved, status, lost>>
    BY <1>4 DEF Manager!Cancel, Manager!Edit, Manager!session, Manager!ending
  <2>2. CardsLeft' = CardsLeft /\ \A d : OnItsWay(d)' = OnItsWay(d)
    BY <1>1, <2>1 DEF CardsLeft, OnItsWay
  <2> QED
    BY <1>1, <1>2, <2>1, <2>2 DEF OfferInv
<1>5. CASE Manager!Finish
  <2>1. /\ managerPc = "running" /\ managerPc' = "saving" /\ UNCHANGED saved
        /\ \A s \in Slot : managerCall[s].at = "idle"
    BY <1>5 DEF Manager!Finish, Manager!Quiet, Manager!session
  <2>2. status' = "completed" => ~lost
    BY <1>5 DEF Manager!Finish, Manager!Verdict
  <2>3. \A d \in DOMAIN drafts : drafts[d].turn = turn => OnItsWay(d)
    BY <2>1 DEF OfferInv
  <2>4. status' = "completed" => AllOffered
    BY <2>1, <2>2, <2>3 DEF OnItsWay, AllOffered
  <2> QED
    BY <1>1, <1>2, <2>1, <2>4 DEF OfferInv
<1>6. CASE Manager!Save
  <2>1. managerPc = "saving" /\ managerPc' = "announcing"
        /\ (saved' = saved \/ saved'.status = status)
    BY <1>6 DEF Manager!Save
  <2> QED
    BY <1>1, <1>2, <2>1 DEF OfferInv
<1>7. CASE Manager!Announce
  BY <1>1, <1>2, <1>7 DEF Manager!Announce, Manager!session, OfferInv
<1> QED
  BY <1>3, <1>4, <1>5, <1>6, <1>7

LEMMA ApplyOffers ==
  ASSUME ManagerInv, OfferInv, NEW d \in DOMAIN drafts, Manager!Apply(d) PROVE OfferInv'
<1>1. UNCHANGED <<turn, saved, managerPc, managerCall, staged, shown, lost, status, managerTold>>
  BY DEF Manager!Apply, Manager!session, Manager!tools, Manager!ending
<1>2. DOMAIN drafts' = DOMAIN drafts
  BY DEF Manager!Apply
<1>3. \A x \in DOMAIN drafts : drafts'[x].turn = drafts[x].turn
  BY ApplyHolds DEF DraftsStay
<1>4. AllOffered => AllOffered'
  BY <1>1, <1>2, <1>3 DEF AllOffered
<1>5. CardsLeft' = CardsLeft /\ \A x : OnItsWay(x)' = OnItsWay(x)
  BY <1>1 DEF CardsLeft, OnItsWay
<1> QED
  BY <1>1, <1>2, <1>3, <1>4, <1>5 DEF OfferInv

\* What a tool's step must show: the turn goes on.
LEMMA OfferStep ==
  ASSUME OneCall, ManagerInv, OfferInv, NEW s \in Slot, managerPc = "running",
         UNCHANGED <<managerPc, turn, saved>>,
         Cardinality(shown') <= staged', staged' <= MaxStaged,
         managerCall'[s].at = "counted" => Cardinality(shown') < staged',
         managerCall'[s].at \in {"copied", "read", "stored"} => staged' < MaxStaged,
         \A d \in DOMAIN drafts' : d \in DOMAIN drafts \/ drafts'[d].turn = turn,
         \A d \in DOMAIN drafts' : d \in DOMAIN drafts => drafts'[d].turn = drafts[d].turn,
         \A d \in DOMAIN drafts' :
            d \notin DOMAIN drafts \/ (drafts[d].turn = turn /\ OnItsWay(d)) => OnItsWay(d)'
  PROVE  OfferInv'
<1>1. \A t \in Slot : t = s
  BY DEF OneCall
<1>2. CardsLeft'
  BY <1>1 DEF CardsLeft
<1>3. \A d \in DOMAIN drafts' : drafts'[d].turn = turn' => OnItsWay(d)'
  BY DEF OfferInv
<1>4. \A d \in DOMAIN drafts' : drafts'[d].turn <= turn'
  <2>1. turn \in Nat
    BY DEF ManagerInv, ManagerTyped
  <2> QED
    BY <2>1 DEF OfferInv
<1> QED
  BY <1>2, <1>3, <1>4 DEF OfferInv

\* Calls that hold no draft.
LEMMA ReadingOffers ==
  ASSUME OneCall, ManagerInv, OfferInv, NEW s \in Slot,
         \/ Manager!Refuse(s) \/ Manager!Remember(s) \/ Manager!ReadTarget(s)
         \/ \E a \in Account : Manager!Get(s, a) \/ Manager!Stage(s, a)
  PROVE  OfferInv'
<1>1. UNCHANGED <<managerPc, turn, drafts, staged, shown, lost, managerTold>>
      /\ saved' = saved /\ managerPc = "running"
  BY DEF Manager!Refuse, Manager!Remember, Manager!ReadTarget, Manager!Get, Manager!Stage,
         Manager!At, Manager!session, Manager!history
<1>2. managerCall[s].at \notin {"stored", "counted"}
  BY DEF Manager!Refuse, Manager!Remember, Manager!ReadTarget, Manager!Get, Manager!Stage,
         Manager!At
<1>3. managerCall'[s].at \in {"idle", "got"} \/ (managerCall'[s].at \in {"copied", "read"}
                                                /\ staged < MaxStaged)
  <2>1. s \in DOMAIN managerCall /\ managerCall[s] \in ManagerCalls
    BY DEF ManagerInv, ManagerTyped
  <2>2. CardsLeft
    BY <1>1 DEF OfferInv
  <2>3. CASE Manager!Refuse(s) \/ Manager!Remember(s)
    BY <2>1, <2>3 DEF Manager!Refuse, Manager!Remember, Manager!Answer, Manager!Idle
  <2>4. CASE Manager!ReadTarget(s)
    <3>1. PICK was \in {world[managerCall[s].account], managerCall[s].seen} :
             managerCall' = [managerCall EXCEPT ![s].at = "read", ![s].before = was]
      BY <2>4 DEF Manager!ReadTarget
    <3>2. managerCall'[s].at = "read"
      BY <2>1, <3>1 DEF ManagerCalls, ManagerInv, ManagerTyped
    <3>3. managerCall[s].at = "copied"
      BY <2>4 DEF Manager!ReadTarget, Manager!At
    <3> QED
      BY <2>2, <3>2, <3>3 DEF CardsLeft
  <2>5. ASSUME NEW a \in Account, Manager!Get(s, a) PROVE managerCall'[s].at = "got"
    BY <2>1, <2>5 DEF Manager!Get, Manager!Idle
  <2>6. ASSUME NEW a \in Account, Manager!Stage(s, a)
        PROVE  managerCall'[s].at = "copied" /\ staged < MaxStaged
    BY <2>1, <2>6 DEF Manager!Stage
  <2> QED
    BY <2>3, <2>4, <2>5, <2>6
<1>4. CardsLeft
  BY <1>1 DEF OfferInv
<1>5. \A t \in Slot : t = s
  BY DEF OneCall
<1>6. \A d : OnItsWay(d) => OnItsWay(d)'
  BY <1>1, <1>2, <1>5 DEF OnItsWay
<1> QED
  BY <1>1, <1>3, <1>4, <1>6, OfferStep DEF CardsLeft

LEMMA StoreOffers ==
  ASSUME OneCall, ManagerInv, OfferInv, NEW s \in Slot, Manager!Store(s) PROVE OfferInv'
<1> SUFFICES ASSUME NEW k, k = Len(drafts) + 1 PROVE OfferInv'
  OBVIOUS
<1>1. /\ UNCHANGED <<managerPc, turn, staged, shown, lost, managerTold>>
      /\ saved' = saved /\ managerPc = "running" /\ managerCall[s].at = "read"
  BY DEF Manager!Store, Manager!At, Manager!session, Manager!history
<1>2. CardsLeft
  BY <1>1 DEF OfferInv
<1>3. managerCall'[s].at = "stored" /\ managerCall'[s].before = k
  BY DEF Manager!Store, ManagerInv, ManagerTyped, ManagerCalls
<1>4. DraftsStay
  BY StoreHolds
<1>5. /\ DOMAIN drafts' = DOMAIN drafts \union {k}
      /\ k \notin DOMAIN drafts
      /\ drafts'[k].turn = turn
  BY DEF Manager!Store, ManagerInv, ManagerTyped
<1>6. \A t \in Slot : t = s
  BY DEF OneCall
<1>7. \A d : OnItsWay(d) => OnItsWay(d)'
  BY <1>1, <1>6 DEF OnItsWay
<1>8. OnItsWay(k)'
  BY <1>3 DEF OnItsWay
<1> QED
  BY <1>1, <1>2, <1>3, <1>4, <1>5, <1>7, <1>8, OfferStep DEF CardsLeft, DraftsStay

LEMMA CountOffers ==
  ASSUME ManagerAssumptions, OneCall, ManagerInv, OfferInv, NEW s \in Slot, Manager!Count(s)
  PROVE  OfferInv'
<1>1. /\ UNCHANGED <<managerPc, turn, drafts, shown, managerTold>>
      /\ saved' = saved /\ managerPc = "running" /\ managerCall[s].at = "stored"
      /\ staged' = staged + 1
  BY DEF Manager!Count, Manager!At, Manager!session, Manager!history
<1>2. CardsLeft /\ staged < MaxStaged /\ Cardinality(shown) <= staged
  BY <1>1 DEF OfferInv, CardsLeft
<1>3. managerCall'[s].at = "counted" /\ managerCall'[s].before = managerCall[s].before
  BY DEF Manager!Count, ManagerInv, ManagerTyped, ManagerCalls
<1>4. Cardinality(shown) \in Nat /\ staged \in Nat /\ MaxStaged \in Nat
  BY FS_CardinalityType DEF ManagerInv, ManagerTyped, PreviewsFit, ManagerAssumptions,
     Manager!LimitAssumption
<1>5. Cardinality(shown') < staged' /\ staged' <= MaxStaged
  BY <1>1, <1>2, <1>4
<1>6. \A t \in Slot : t = s
  BY DEF OneCall
<1>7. lost => lost'
  BY DEF Manager!Count, Manager!Event
<1>8. \A d : OnItsWay(d) => OnItsWay(d)'
  BY <1>1, <1>3, <1>6, <1>7 DEF OnItsWay
<1> QED
  BY <1>1, <1>3, <1>4, <1>5, <1>8, OfferStep

LEMMA ShowOffers ==
  ASSUME ManagerAssumptions, OneCall, ManagerInv, OfferInv, NEW s \in Slot, Manager!Show(s)
  PROVE  OfferInv'
<1> SUFFICES ASSUME NEW k, k = managerCall[s].before PROVE OfferInv'
  OBVIOUS
<1>1. /\ UNCHANGED <<managerPc, turn, drafts, staged>>
      /\ saved' = saved /\ managerPc = "running" /\ managerCall[s].at = "counted"
      /\ managerCall' = [managerCall EXCEPT ![s] = Manager!Idle]
  BY DEF Manager!Show, Manager!At, Manager!Answer, Manager!session
<1>2. CardsLeft /\ Cardinality(shown) < staged /\ staged <= MaxStaged
  BY <1>1 DEF OfferInv, CardsLeft
<1>3. /\ IsFiniteSet(shown) /\ Cardinality(shown) \in Nat /\ staged \in Nat
      /\ MaxStaged \in Nat /\ MaxCards \in Nat /\ MaxStaged <= MaxCards
  BY FS_CardinalityType DEF ManagerInv, ManagerTyped, PreviewsFit, ManagerAssumptions,
     Manager!LimitAssumption, Manager!CardAssumption
<1>4. ~(Manager!Cardinality(shown) >= MaxCards)
  BY <1>2, <1>3, ManagerCardinality
<1>5. /\ shown' = shown \union {k}
      /\ \E stored \in BOOLEAN :
            /\ Manager!Event(stored)
            /\ managerTold' = IF stored THEN managerTold \union {k} ELSE managerTold
  BY <1>4 DEF Manager!Show
<1>6. Cardinality(shown') <= staged'
  BY <1>1, <1>2, <1>3, <1>5, AddedFits
<1>7. managerCall'[s].at = "idle"
  BY <1>1 DEF Manager!Idle, ManagerInv, ManagerTyped
<1>8. \A t \in Slot : t = s
  BY DEF OneCall
<1>9. lost' \/ (~lost /\ k \in managerTold' /\ managerTold \subseteq managerTold')
  BY <1>5 DEF Manager!Event
<1>10. \A d : OnItsWay(d) => OnItsWay(d)'
  <2>1. CASE lost'
    BY <2>1 DEF OnItsWay
  <2>2. CASE ~lost /\ k \in managerTold' /\ managerTold \subseteq managerTold'
    BY <1>8, <2>2 DEF OnItsWay
  <2> QED
    BY <1>9, <2>1, <2>2
<1> QED
  BY <1>1, <1>2, <1>6, <1>7, <1>10, OfferStep

LEMMA OfferNext ==
  ASSUME ManagerAssumptions, OneCall, ManagerInv, OfferInv, [Manager!Next]_(Manager!vars)
  PROVE  OfferInv'
<1>1. CASE Manager!Next
  BY <1>1, OpenOffers, StartOffers, EndOffers, ApplyOffers, ReadingOffers, StoreOffers,
     CountOffers, ShowOffers DEF Manager!Next, Manager!Tool
<1>2. CASE UNCHANGED Manager!vars
  BY <1>2 DEF Manager!vars, Manager!session, Manager!tools, Manager!ending, Manager!history,
     OfferInv, CardsLeft, OnItsWay, AllOffered
<1> QED
  BY <1>1, <1>2

\* With a runtime that calls one tool at a time, a turn that is recorded as completed has
\* shown every draft it stored.
THEOREM DraftsAreOffered ==
  ASSUME ManagerAssumptions, OneCall PROVE Manager!Spec => []Manager!CompletedShowedDrafts
<1>1. Manager!Init => OfferInv
  BY OfferInit
<1>2. ManagerInv /\ OfferInv /\ [Manager!Next]_(Manager!vars) => OfferInv'
  BY OfferNext
<1>3. OfferInv => Manager!CompletedShowedDrafts
  BY DEF OfferInv, AllOffered, Manager!CompletedShowedDrafts
<1> QED
  BY <1>1, <1>2, <1>3, ManagerAlways, PTL DEF Manager!Spec
=============================================================================
