-------------------------- MODULE LocalDataProofs ---------------------------
(***************************************************************************)
(* What is kept on disk: the durable memories and the persistent Sandbox,  *)
(* for every set of calls, processes, turns, rules and units; what is read *)
(* of them: pages of a conversation and reports; and what the Sandbox      *)
(* delivers.  In the first two a call reads in several statements and      *)
(* writes later, and the argument is about what its copy is a copy of.     *)
(* The parts share no state.                                               *)
(***************************************************************************)
EXTENDS MemoryStore, Integers, Sequences, FiniteSetTheorems, FunctionTheorems,
        WellFoundedInduction, TLAPS

(***************************************************************************)
(* Memories: a key has one fact, and the store holds exactly the texts of  *)
(* the calls that succeeded.  Whoever holds the write lock and was current *)
(* when it took it is still current, so what it found is what is in the    *)
(* store, and its commit makes every other transaction stale.              *)
(***************************************************************************)

Typed ==
    /\ store \subseteq Memory
    /\ version \in Nat /\ writer \in Calls \union {None}
    /\ pc \in [Calls -> {"idle", "started", "begun", "read", "written"} \union Ended]
    /\ snapshot \in [Calls -> Nat] /\ found \in [Calls -> SUBSET Memory]

\* The transaction that wrote has the lock, and nothing was committed since it read.
Locked == \A c \in Calls : pc[c] = "written" => writer = c /\ Current(c)

Past == \A c \in Calls : snapshot[c] <= version

\* What a transaction found is what the store holds, until the next commit.
Found(c) ==
    /\ Op[c] = "upsert" => found[c] = {m \in store : m.key = Key[c]}
    /\ Op[c] = "delete" => found[c] \subseteq store

Known == \A c \in Calls : pc[c] \in {"read", "written"} /\ snapshot[c] = version => Found(c)

\* A memory was inserted and last written by calls that are done, and has the key of the latter.
Inserted ==
    \A m \in store :
        /\ pc[m.id] = "done" /\ pc[m.by] = "done"
        /\ Op[m.by] = "upsert" => m.key = Key[m.by]
        /\ Op[m.by] # "upsert" => m.key = None

Distinct == \A m, n \in store : m.by = n.by \/ m.id = n.id => m = n

Inv == Typed /\ Locked /\ Past /\ Known /\ Inserted /\ Distinct /\ OneFactPerKey /\ SuccessIsStored

-----------------------------------------------------------------------------

LEMMA InitInv == Init => Inv
BY CallAssumption DEF Init, Inv, Typed, Locked, Past, Known, Inserted, Distinct, OneFactPerKey,
    SuccessIsStored, Ended

\* A step that commits nothing keeps the invariant: the store is the same.
LEMMA NoCommit ==
    ASSUME Inv, NEW c \in Calls, UNCHANGED <<store, version, promised>>, Typed',
           \A d \in Calls \ {c} : pc'[d] = pc[d] /\ snapshot'[d] = snapshot[d] /\ found'[d] = found[d],
           \A d \in Calls \ {c} : writer = d => writer' = d,
           pc[c] # "done",
           pc'[c] = "written" => writer' = c /\ Current(c)',
           snapshot'[c] <= version,
           pc'[c] \in {"read", "written"} /\ snapshot'[c] = version => Found(c)'
    PROVE  Inv'
<1>1. Locked'
  BY DEF Inv, Locked, Current
<1>2. Past'
  BY DEF Inv, Past
<1>3. Known'
  BY DEF Inv, Known, Found
<1>4. Inserted'
  <2> SUFFICES ASSUME NEW m \in store
               PROVE  pc'[m.id] = "done" /\ pc'[m.by] = "done"
    BY DEF Inv, Inserted
  <2>1. m.id \in Calls /\ m.by \in Calls
    BY DEF Inv, Typed, Memory
  <2> QED
    BY <2>1 DEF Inv, Inserted
<1>5. Distinct' /\ OneFactPerKey' /\ SuccessIsStored'
  BY DEF Inv, Distinct, OneFactPerKey, SuccessIsStored
<1> QED
  BY <1>1, <1>2, <1>3, <1>4, <1>5 DEF Inv

LEMMA FailInv ==
    ASSUME Inv, NEW c \in Calls, Fail(c), UNCHANGED <<snapshot, found>>, pc[c] \notin Ended
    PROVE  Inv'
<1>1. Typed'
  BY DEF Inv, Typed, Fail, Release, Ended
<1>2. /\ \A d \in Calls \ {c} : pc'[d] = pc[d]
      /\ \A d \in Calls \ {c} : writer = d => writer' = d
      /\ pc'[c] = "failed"
  BY CallAssumption DEF Inv, Typed, Fail, Release
<1>3. snapshot'[c] <= version
  BY DEF Inv, Past
<1> QED
  BY <1>1, <1>2, <1>3, NoCommit DEF Fail, Ended

LEMMA StartInv ==
    ASSUME Inv, NEW c \in Calls, Start(c),
           UNCHANGED <<store, version, writer, conn, count, snapshot, found, promised>>
    PROVE  Inv'
<1>1. pc'[c] \in {"started", "failed"} /\ \A d \in Calls \ {c} : pc'[d] = pc[d]
  BY DEF Inv, Typed, Start
<1>2. Typed'
  BY DEF Inv, Typed, Start, Ended
<1>3. pc[c] # "done"
  BY DEF Start
<1>4. snapshot'[c] <= version
  BY DEF Inv, Past
<1> QED
  BY <1>1, <1>2, <1>3, <1>4, NoCommit

LEMMA BeginInv ==
    ASSUME Inv, NEW c \in Calls, Begin(c),
           UNCHANGED <<store, version, writer, mu, count, snapshot, found, promised>>
    PROVE  Inv'
<1>1. pc'[c] = "begun" /\ \A d \in Calls \ {c} : pc'[d] = pc[d]
  BY DEF Inv, Typed, Begin
<1>2. Typed'
  BY DEF Inv, Typed, Begin, Ended
<1>3. pc[c] # "done"
  BY DEF Begin
<1>4. snapshot'[c] <= version
  BY DEF Inv, Past
<1> QED
  BY <1>1, <1>2, <1>3, <1>4, NoCommit

LEMMA FindInv ==
    ASSUME Inv, NEW c \in Calls, FindKey(c) \/ FindId(c) \/ FindNothing(c)
    PROVE  Inv'
<1>1. /\ pc'[c] = "read" /\ snapshot'[c] = version
      /\ \A d \in Calls \ {c} : pc'[d] = pc[d] /\ snapshot'[d] = snapshot[d]
      /\ UNCHANGED <<store, version, writer, promised>>
      /\ pc[c] = "begun"
  BY DEF Inv, Typed, FindKey, FindId, FindNothing, Reads
<1>2. /\ found' \in [Calls -> SUBSET Memory]
      /\ \A d \in Calls \ {c} : found'[d] = found[d]
      /\ Found(c)'
  <2>1. CASE FindKey(c)
    <3>1. {m \in store : m.key = Key[c]} \in SUBSET Memory
      BY DEF Inv, Typed
    <3> QED
      BY <2>1, <3>1, <1>1 DEF Inv, Typed, FindKey, Found
  <2>2. CASE FindId(c)
    BY <2>2, <1>1 DEF Inv, Typed, FindId, Found
  <2>3. CASE FindNothing(c)
    BY <2>3, <1>1 DEF Inv, Typed, FindNothing, Found
  <2> QED
    BY <2>1, <2>2, <2>3
<1>3. Typed'
  BY <1>1, <1>2 DEF Inv, Typed, FindKey, FindId, FindNothing, Reads
<1>4. snapshot'[c] <= version
  BY <1>1 DEF Inv, Typed
<1> QED
  BY <1>1, <1>2, <1>3, <1>4, NoCommit

LEMMA WriteInv ==
    ASSUME Inv, NEW c \in Calls, Write(c)
    PROVE  Inv'
<1>1. CASE Fail(c)
  BY <1>1, FailInv DEF Write, Ended
<1>2. CASE /\ writer = None /\ Current(c)
           /\ writer' = c /\ pc' = [pc EXCEPT ![c] = "written"]
           /\ UNCHANGED <<store, version, conn, mu, count, promised>>
  <2>1. pc'[c] = "written" /\ pc[c] = "read" /\ UNCHANGED <<snapshot, found>>
    BY <1>2 DEF Inv, Typed, Write
  <2>2. Typed' /\ \A d \in Calls \ {c} : pc'[d] = pc[d]
    BY <1>2, <2>1 DEF Inv, Typed
  <2>3. snapshot'[c] <= version /\ (snapshot[c] = version => Found(c))
    BY <2>1 DEF Inv, Past, Known
  <2>4. Current(c)' /\ (snapshot'[c] = version => Found(c)')
    BY <1>2, <2>1, <2>3 DEF Current, Found
  <2>5. \A d \in Calls \ {c} : writer = d => writer' = d
    BY <1>2, CallAssumption
  <2> QED
    BY <1>2, <2>1, <2>2, <2>3, <2>4, <2>5, NoCommit
<1> QED
  BY <1>1, <1>2 DEF Write

-----------------------------------------------------------------------------

\* A commit makes every other transaction stale and gives the lock up.
LEMMA CommitInv ==
    ASSUME Inv, NEW c \in Calls, Commit(c)
    PROVE  Inv'
<1>1. /\ pc[c] = "written" /\ writer = c /\ Current(c)
      /\ pc'[c] = "done" /\ \A d \in Calls \ {c} : pc'[d] = pc[d]
      /\ version' = version + 1 /\ version \in Nat
      /\ UNCHANGED <<snapshot, found>>
      /\ store' = Stored(c) /\ promised' = Promise(c)
  BY DEF Inv, Typed, Locked, Commit
<1>2. Op[c] # "save" => Found(c)
  BY <1>1 DEF Inv, Known, Current
<1>3. \A m \in store : m \in Memory /\ m.by # c /\ m.id # c /\ m.by \in Calls /\ m.id \in Calls
  BY <1>1 DEF Inv, Typed, Inserted, Memory
<1> DEFINE new == [id |-> c, key |-> IF Op[c] = "upsert" THEN Key[c] ELSE None, by |-> c]
<1>4. new \in Memory /\ new.id = c /\ new.by = c /\ new.key = IF Op[c] = "upsert" THEN Key[c] ELSE None
  BY DEF Memory
<1> HIDE DEF new
<1>5. Past' /\ Known' /\ Locked'
  <2>1. \A d \in Calls : snapshot'[d] <= version /\ snapshot'[d] \in Nat
    BY <1>1 DEF Inv, Past, Typed
  <2>2. \A d \in Calls : pc'[d] # "written"
    BY <1>1 DEF Inv, Locked
  <2> QED
    BY <1>1, <2>1, <2>2 DEF Past, Known, Locked
<1>6. ASSUME store' \subseteq Memory PROVE Typed'
  <2>1. writer' \in Calls \union {None}
    BY DEF Inv, Typed, Commit, Release
  <2> QED
    BY <1>1, <1>6, <2>1 DEF Inv, Typed, Commit, Ended
<1>7. CASE store' = store \union {new} /\ Op[c] \in {"save", "upsert"}
           /\ (Op[c] = "upsert" => \A m \in store : m.key # Key[c])
  <2>1. store' \subseteq Memory
    BY <1>7, <1>4 DEF Inv, Typed
  <2>2. Inserted'
    <3>1. \A m \in store : pc'[m.id] = "done" /\ pc'[m.by] = "done"
      BY <1>1, <1>3 DEF Inv, Inserted
    <3> QED
      BY <1>7, <1>1, <1>4, <3>1 DEF Inv, Inserted
  <2>3. Distinct'
    BY <1>7, <1>3, <1>4 DEF Inv, Distinct
  <2>4. OneFactPerKey'
    BY <1>7, <1>4, CallAssumption DEF Inv, OneFactPerKey
  <2>5. promised' = promised \union {c}
    <3>1. CASE Op[c] = "save"
      BY <3>1, <1>1 DEF Promise
    <3>2. CASE Op[c] = "upsert"
      <4>1. \A b \in promised : Op[b] # "upsert" \/ Key[b] # Key[c]
        <5> SUFFICES ASSUME NEW m \in store, Op[m.by] = "upsert"
                     PROVE  Key[m.by] # Key[c]
          BY DEF Inv, SuccessIsStored
        <5> QED
          BY <1>7, <3>2 DEF Inv, Inserted
      <4> QED
        BY <4>1, <3>2, <1>1 DEF Promise
    <3> QED
      BY <1>7, <3>1, <3>2
  <2>6. SuccessIsStored'
    BY <1>7, <2>5, <1>4 DEF Inv, SuccessIsStored
  <2> QED
    BY <1>5, <1>6, <2>1, <2>2, <2>3, <2>4, <2>6 DEF Inv
<1>8. CASE Op[c] = "upsert" /\ found[c] # {}
  <2> DEFINE New(m) == [m EXCEPT !.by = c]
  <2>1. PICK f \in store : f.key = Key[c] /\ found[c] = {f}
    <3>1. PICK f \in found[c] : TRUE
      BY <1>8
    <3>2. f \in store /\ f.key = Key[c] /\ \A g \in found[c] : g = f
      BY <1>2, <1>8, <3>1, CallAssumption DEF Found, Inv, OneFactPerKey
    <3> QED
      BY <3>1, <3>2
  <2>2. New(f) \in Memory /\ New(f).id = f.id /\ New(f).key = f.key /\ New(f).by = c
    <3>1. f \in Memory
      BY <2>1, <1>3
    <3> QED
      BY <3>1 DEF Memory
  <2> HIDE DEF New
  <2>3. store' = (store \ {f}) \union {New(f)}
    <3>1. store' = {IF \E g \in found[c] : g.id = m.id THEN New(m) ELSE m : m \in store}
      BY <1>1, <1>8 DEF Stored, New
    <3>2. \A m \in store : (\E g \in found[c] : g.id = m.id) <=> m = f
      BY <2>1 DEF Inv, Distinct
    <3> QED
      BY <3>1, <3>2, <2>1
  <2>4. store' \subseteq Memory
    BY <2>2, <2>3 DEF Inv, Typed
  <2>5. Inserted'
    <3>1. \A m \in store : pc'[m.id] = "done" /\ pc'[m.by] = "done"
      BY <1>1, <1>3 DEF Inv, Inserted
    <3>2. \A m \in store \ {f} :
              /\ pc'[m.id] = "done" /\ pc'[m.by] = "done"
              /\ Op[m.by] = "upsert" => m.key = Key[m.by]
              /\ Op[m.by] # "upsert" => m.key = None
      BY <3>1 DEF Inv, Inserted
    <3>3. pc'[New(f).id] = "done" /\ pc'[New(f).by] = "done" /\ New(f).key = Key[New(f).by]
      BY <3>1, <2>1, <2>2, <1>1
    <3> QED
      BY <3>2, <3>3, <2>2, <2>3, <1>8 DEF Inserted
  <2>6. Distinct'
    BY <2>1, <2>2, <2>3, <1>3 DEF Inv, Distinct
  <2>7. OneFactPerKey'
    BY <2>1, <2>2, <2>3 DEF Inv, OneFactPerKey
  <2>8. SuccessIsStored'
    <3>1. promised' = {b \in promised : Op[b] # "upsert" \/ Key[b] # Key[c]} \union {c}
      BY <1>1, <1>8 DEF Promise
    <3>2. \A m \in store : (Op[m.by] # "upsert" \/ Key[m.by] # Key[c]) <=> m # f
      BY <2>1, <1>8, CallAssumption, <1>3 DEF Inv, Inserted, OneFactPerKey
    <3> QED
      BY <3>1, <3>2, <2>1, <2>2, <2>3 DEF Inv, SuccessIsStored
  <2> QED
    BY <1>5, <1>6, <2>4, <2>5, <2>6, <2>7, <2>8 DEF Inv
<1>9. CASE Op[c] = "delete"
  <2>1. store' = {m \in store : \A f \in found[c] : m.id # f.id}
    BY <1>1, <1>9 DEF Stored
  <2>2. promised' = promised \ {f.by : f \in found[c]}
    BY <1>1, <1>9 DEF Promise
  <2>3. found[c] \subseteq store
    BY <1>2, <1>9 DEF Found
  <2>4. store' = store \ found[c]
    BY <2>1, <2>3 DEF Inv, Distinct
  <2>5. Inserted'
    <3>1. \A m \in store : pc'[m.id] = "done" /\ pc'[m.by] = "done"
      BY <1>1, <1>3 DEF Inv, Inserted
    <3> QED
      BY <2>4, <3>1 DEF Inv, Inserted
  <2>6. Distinct' /\ OneFactPerKey' /\ Typed'
    BY <2>4, <1>6 DEF Inv, Typed, Distinct, OneFactPerKey
  <2>7. SuccessIsStored'
    BY <2>2, <2>3, <2>4 DEF Inv, SuccessIsStored, Distinct
  <2> QED
    BY <1>5, <2>5, <2>6, <2>7 DEF Inv
<1>10. CASE Op[c] = "save" \/ (Op[c] = "upsert" /\ found[c] = {})
  <2>1. store' = store \union {new}
    BY <1>10, <1>1 DEF Stored, new
  <2>2. Op[c] = "upsert" => \A m \in store : m.key # Key[c]
    BY <1>10, <1>2 DEF Found
  <2> QED
    BY <1>7, <1>10, <2>1, <2>2
<1> QED
  BY <1>8, <1>9, <1>10, CallAssumption

-----------------------------------------------------------------------------

LEMMA InvNext ==
    ASSUME Inv, [Next]_vars
    PROVE  Inv'
<1>1. CASE UNCHANGED vars
  BY <1>1 DEF vars, Inv, Typed, Locked, Past, Known, Found, Current, Inserted, Distinct,
      OneFactPerKey, SuccessIsStored
<1>2. ASSUME NEW c \in Calls, Step(c) \/ Abort(c)
      PROVE  Inv'
  <2>1. CASE Abort(c)
    BY <2>1, FailInv DEF Abort, Ended
  <2>2. CASE NotFound(c)
    BY <2>2, FailInv DEF NotFound, Ended
  <2> QED
    BY <1>2, <2>1, <2>2, StartInv, BeginInv, FindInv, WriteInv, CommitInv DEF Step
<1> QED
  BY <1>1, <1>2 DEF Next

LEMMA Invariant == Spec => []Inv
<1> QED
  BY InitInv, InvNext, PTL DEF Spec

\* A key has one fact: no two transactions, of whatever processes, both insert it (store/memory.go:121).
THEOREM OneFact == Spec => []OneFactPerKey
<1>1. Inv => OneFactPerKey
  BY DEF Inv
<1> QED
  BY <1>1, Invariant, PTL

\* The store holds the texts of the calls that succeeded and were not replaced or deleted
\* since, and no other (store/memory.go:123).
THEOREM Success == Spec => []SuccessIsStored
<1>1. Inv => SuccessIsStored
  BY DEF Inv
<1> QED
  BY <1>1, Invariant, PTL

\* Both together, as the run checks them (store/memory.go:121, 123).
THEOREM MemoriesSafe == Spec => []MemoriesHold
<1>1. OneFactPerKey /\ SuccessIsStored => MemoriesHold
  BY DEF MemoriesHold
<1> QED
  BY <1>1, OneFact, Success, PTL

-----------------------------------------------------------------------------
(* The facts of a turn.  The mutex makes the check of the number and the    *)
(* commit one step as far as the other extractions of the turn can tell.    *)

Facts(t) == {c \in Calls : Op[c] = "upsert" /\ Turn[c] = t /\ pc[c] = "done"}

\* An upsert under way has its turn's mutex and room for its fact.
HasRoom(c) ==
    Op[c] = "upsert" /\ pc[c] \in {"started", "begun", "read", "written"} =>
        mu[Turn[c]] = c /\ count[Turn[c]] < MaxFacts

Counted ==
    /\ count \in [Turns -> 0..MaxFacts] /\ mu \in [Turns -> Calls \union {None}]
    /\ \A c \in Calls : HasRoom(c)
    /\ \A t \in Turns : IsFiniteSet(Facts(t)) /\ Cardinality(Facts(t)) = count[t]

\* A step in which no call commits keeps the count.
LEMMA NoneCounted ==
    ASSUME Counted, NEW c \in Calls, UNCHANGED count,
           \A d \in Calls \ {c} : pc'[d] = pc[d],
           pc[c] # "done", pc'[c] # "done",
           mu' \in [Turns -> Calls \union {None}],
           \A d \in Calls \ {c} : \A t \in Turns : mu[t] = d => mu'[t] = d,
           HasRoom(c)'
    PROVE  Counted'
<1>1. \A t \in Turns : Facts(t)' = Facts(t)
  BY DEF Facts
<1>2. \A d \in Calls : HasRoom(d)'
  BY DEF Counted, HasRoom, Turns
<1> QED
  BY <1>1, <1>2 DEF Counted

LEMMA FailCounted ==
    ASSUME Inv, Counted, NEW c \in Calls, Fail(c), pc[c] # "done"
    PROVE  Counted'
<1>1. /\ pc'[c] = "failed" /\ \A d \in Calls \ {c} : pc'[d] = pc[d]
      /\ mu' \in [Turns -> Calls \union {None}]
      /\ \A d \in Calls \ {c} : \A t \in Turns : mu[t] = d => mu'[t] = d
      /\ UNCHANGED count
  BY CallAssumption DEF Inv, Typed, Fail, Release, Counted
<1>2. HasRoom(c)'
  BY <1>1 DEF HasRoom
<1> QED
  BY <1>1, <1>2, NoneCounted

LEMMA CommitCounted ==
    ASSUME Inv, Counted, NEW c \in Calls, Commit(c)
    PROVE  Counted'
<1>1. /\ pc[c] = "written" /\ pc'[c] = "done" /\ \A d \in Calls \ {c} : pc'[d] = pc[d]
      /\ mu' \in [Turns -> Calls \union {None}]
      /\ \A d \in Calls \ {c} : \A t \in Turns : mu[t] = d => mu'[t] = d
  BY CallAssumption DEF Inv, Typed, Commit, Release, Counted
<1>2. Turn[c] \in Turns /\ count[Turn[c]] \in 0..MaxFacts
  BY DEF Turns, Counted
<1>3. CASE Op[c] # "upsert"
  <2>1. UNCHANGED count /\ \A t \in Turns : Facts(t)' = Facts(t)
    BY <1>1, <1>3 DEF Commit, Facts
  <2>2. \A d \in Calls : HasRoom(d)'
    BY <1>1, <1>3, <2>1 DEF Counted, HasRoom, Turns
  <2> QED
    BY <1>1, <2>1, <2>2 DEF Counted
<1>4. CASE Op[c] = "upsert"
  <2>1. mu[Turn[c]] = c /\ count[Turn[c]] < MaxFacts
    BY <1>1, <1>4 DEF Counted, HasRoom
  <2>2. count' = [count EXCEPT ![Turn[c]] = count[Turn[c]] + 1]
    BY <1>4 DEF Commit
  <2>3. count' \in [Turns -> 0..MaxFacts]
    BY <1>2, <2>1, <2>2, MaxFactsAssumption DEF Counted
  <2>4. ASSUME NEW d \in Calls PROVE HasRoom(d)'
    <3>1. CASE d = c
      BY <3>1, <1>1 DEF HasRoom
    <3>2. CASE d # c /\ Turn[d] = Turn[c]
      BY <3>2, <1>1, <2>1 DEF HasRoom, Counted
    <3>3. CASE d # c /\ Turn[d] # Turn[c]
      <4>1. Turn[d] \in Turns
        BY DEF Turns
      <4>2. count'[Turn[d]] = count[Turn[d]]
        BY <4>1, <3>3, <1>2, <2>2 DEF Counted
      <4> QED
        BY <4>1, <4>2, <3>3, <1>1 DEF HasRoom, Counted
    <3> QED
      BY <3>1, <3>2, <3>3
  <2>5. ASSUME NEW t \in Turns
        PROVE  IsFiniteSet(Facts(t)') /\ Cardinality(Facts(t)') = count'[t]
    <3>1. IsFiniteSet(Facts(t)) /\ Cardinality(Facts(t)) = count[t]
      BY DEF Counted
    <3>2. CASE t = Turn[c]
      <4>1. Facts(t)' = Facts(t) \union {c} /\ c \notin Facts(t)
        BY <3>2, <1>1, <1>4 DEF Facts
      <4> QED
        BY <4>1, <3>1, <3>2, <2>2, FS_AddElement DEF Counted
    <3>3. CASE t # Turn[c]
      <4>1. Facts(t)' = Facts(t)
        BY <3>3, <1>1 DEF Facts
      <4> QED
        BY <4>1, <3>1, <3>3, <2>2 DEF Counted
    <3> QED
      BY <3>2, <3>3
  <2> QED
    BY <1>1, <2>3, <2>4, <2>5 DEF Counted
<1> QED
  BY <1>3, <1>4

LEMMA CountedNext ==
    ASSUME Inv, Counted, [Next]_vars
    PROVE  Counted'
<1>1. CASE UNCHANGED vars
  BY <1>1 DEF vars, Counted, HasRoom, Facts
<1>2. ASSUME NEW c \in Calls, Start(c), UNCHANGED count
      PROVE  Counted'
  <2>1. /\ pc[c] = "idle" /\ pc'[c] \in {"started", "failed"}
        /\ \A d \in Calls \ {c} : pc'[d] = pc[d]
    BY <1>2 DEF Start, Inv, Typed
  <2>2. Turn[c] \in Turns
    BY DEF Turns
  <2>3. /\ mu' \in [Turns -> Calls \union {None}]
        /\ \A d \in Calls \ {c} : \A t \in Turns : mu[t] = d => mu'[t] = d
    BY <1>2, <2>2, CallAssumption DEF Start, Counted
  <2>4. HasRoom(c)'
    BY <1>2, <2>1, <2>2, MaxFactsAssumption DEF Start, Counted, HasRoom, Inv, Typed
  <2> QED
    BY <1>2, <2>1, <2>3, <2>4, NoneCounted
<1>3. ASSUME NEW c \in Calls,
             pc[c] \in {"started", "begun", "read"}, pc'[c] \in {"begun", "read", "written"},
             \A d \in Calls \ {c} : pc'[d] = pc[d], UNCHANGED <<mu, count>>
      PROVE  Counted'
  <2>1. HasRoom(c)'
    BY <1>3 DEF Counted, HasRoom
  <2>2. mu' \in [Turns -> Calls \union {None}]
    BY <1>3 DEF Counted
  <2> QED
    BY <1>3, <2>1, <2>2, NoneCounted
<1>4. ASSUME NEW c \in Calls, Begin(c), UNCHANGED <<mu, count>>
      PROVE  Counted'
  BY <1>3, <1>4 DEF Begin, Inv, Typed
<1>5. ASSUME NEW c \in Calls, Reads(c)
      PROVE  Counted'
  BY <1>3, <1>5 DEF Reads, Inv, Typed
<1>6. ASSUME NEW c \in Calls, Write(c)
      PROVE  Counted'
  <2>1. CASE Fail(c)
    BY <1>6, <2>1, FailCounted DEF Write
  <2>2. CASE pc' = [pc EXCEPT ![c] = "written"] /\ UNCHANGED <<mu, count>>
    BY <1>3, <1>6, <2>2 DEF Write, Inv, Typed
  <2> QED
    BY <1>6, <2>1, <2>2 DEF Write
<1>7. ASSUME NEW c \in Calls, NotFound(c) \/ Abort(c)
      PROVE  Counted'
  BY <1>7, FailCounted DEF NotFound, Abort
<1> QED
  BY <1>1, <1>2, <1>4, <1>5, <1>6, <1>7, CommitCounted
  DEF Next, Step, FindKey, FindId, FindNothing

\* A turn records at most MaxFacts facts, however many its runtime proposes at once
\* (agenthost/memory.go:84).
THEOREM FactsAreFew == Spec => []FewFactsPerTurn
<1>1. Init => Counted
  <2> SUFFICES ASSUME Init PROVE Counted
    OBVIOUS
  <2>1. \A t \in Turns : Facts(t) = {}
    BY DEF Init, Facts
  <2> QED
    BY <2>1, FS_EmptySet, MaxFactsAssumption DEF Init, Counted, HasRoom
<1>2. Counted => FewFactsPerTurn
  BY MaxFactsAssumption DEF Counted, FewFactsPerTurn, Facts
<1> QED
  BY <1>1, <1>2, CountedNext, Invariant, PTL DEF Spec

-----------------------------------------------------------------------------
(***************************************************************************)
(* The Sandbox: whatever the speed of the machine, a load that is accepted *)
(* has clock and facts of one moment, and the clock's compare-and-swap     *)
(* makes a commit an extension of that moment.  While a lease outlasts its *)
(* call, the whole copy is the environment as it is, or what so many hours *)
(* make of it, so that each commit is one step of SandboxHistory.  What    *)
(* holds of the loops over hours and rules is shown of a least counter-    *)
(* example among their turns.                                              *)
(***************************************************************************)

CONSTANTS Handler, Jobs, Lifetime, Slow, MaxCrashes, Unit, RuleOrder, RuleSpec, DayLength,
          Budgets, Policies, Seeded, StartBudget, StartPolicy, MaxAdvanceHours,
          MaxGeneratedHours
VARIABLES db, lease, proc, crashes

Box == INSTANCE SandboxStore WITH Process <- Handler

LEMMA LeastOf ==
    ASSUME NEW S, S \subseteq Nat, S # {}
    PROVE  \E m \in S : \A n \in S : m <= n
<1> DEFINE R == {p \in Nat \X Nat : p[1] < p[2]}
<1>1. IsWellFoundedOn(R, Nat)
  BY NatLessThanWellFounded DEF OpToRel
<1>2. \A n, m \in Nat : n < m => <<n, m>> \in R
  OBVIOUS
<1> HIDE DEF R
<1>3. PICK m \in S : \A n \in S : <<n, m>> \notin R
  BY <1>1, WFMin
<1>4. ASSUME NEW n \in S PROVE m <= n
  <2>1. n \in Nat /\ m \in Nat
    OBVIOUS
  <2>2. ~(n < m)
    BY <1>2, <1>3, <2>1
  <2> QED
    BY ONLY <2>1, <2>2
<1> QED
  BY <1>4

\* One turn of a loop of the Sandbox: an hour of an advance, or the k-th rule at t.
LoopTurn(loop, t, env, k) ==
    IF loop = "hours" THEN Box!HourStep(env) ELSE Box!EvaluateRule(env, RuleOrder[k], t)

\* f is what the loop has made of env after each of its n turns.
Runs(f, loop, t, env, n) ==
    f = [k \in 0..n |-> IF k = 0 THEN env ELSE LoopTurn(loop, t, f[k - 1], k)]

LEMMA RunsExist ==
    ASSUME NEW loop, NEW t, NEW env, NEW n \in Nat
    PROVE  \E f : Runs(f, loop, t, env, n)
<1> DEFINE S == {m \in Nat : ~\E f : Runs(f, loop, t, env, m)}
<1>1. SUFFICES S = {}
  OBVIOUS
<1>2. SUFFICES ASSUME S # {} PROVE FALSE
  OBVIOUS
<1>3. PICK m \in S : \A x \in S : m <= x
  BY <1>2, LeastOf
<1>4. CASE m = 0
  <2>1. Runs([k \in 0..0 |-> env], loop, t, env, 0)
    BY DEF Runs
  <2> QED
    BY <1>4, <2>1
<1>5. CASE m # 0
  <2>1. m - 1 \in Nat /\ ~(m <= m - 1)
    BY <1>5
  <2>2. PICK f : Runs(f, loop, t, env, m - 1)
    BY <1>3, <2>1
  <2> DEFINE g == [k \in 0..m |-> IF k = m THEN LoopTurn(loop, t, f[m - 1], m) ELSE f[k]]
  <2>3. \A k \in 0..(m - 1) : f[k] = IF k = 0 THEN env ELSE LoopTurn(loop, t, f[k - 1], k)
    BY <2>2 DEF Runs
  <2>4. ASSUME NEW k \in 0..m PROVE g[k] = IF k = 0 THEN env ELSE LoopTurn(loop, t, g[k - 1], k)
    <3>1. CASE k = m
      BY <3>1, <1>5
    <3>2. CASE k # m
      BY <3>2, <2>3
    <3> QED
      BY <3>1, <3>2
  <2>5. g = [k \in 0..m |-> IF k = 0 THEN env ELSE LoopTurn(loop, t, g[k - 1], k)]
    BY <2>4
  <2>6. Runs(g, loop, t, env, m)
    BY <2>5 DEF Runs
  <2> QED
    BY <2>6
<1> QED
  BY <1>4, <1>5

LEMMA RunsAgree ==
    ASSUME NEW loop, NEW t, NEW env, NEW n \in Nat, NEW m \in Nat, NEW f, NEW g,
           Runs(f, loop, t, env, n), Runs(g, loop, t, env, m)
    PROVE  \A k \in (0..n) \cap (0..m) : f[k] = g[k]
<1> DEFINE S == {k \in (0..n) \cap (0..m) : f[k] # g[k]}
<1>1. SUFFICES ASSUME S # {} PROVE FALSE
  OBVIOUS
<1>2. S \subseteq Nat
  OBVIOUS
<1>3. PICK k \in S : \A x \in S : k <= x
  BY <1>1, <1>2, LeastOf
<1>4. f[k] = (IF k = 0 THEN env ELSE LoopTurn(loop, t, f[k - 1], k))
  BY DEF Runs
<1>5. g[k] = (IF k = 0 THEN env ELSE LoopTurn(loop, t, g[k - 1], k))
  BY DEF Runs
<1>6. k # 0
  BY <1>4, <1>5
<1>7. k - 1 \notin S /\ k - 1 \in (0..n) \cap (0..m)
  BY <1>3, <1>6
<1>8. f[k - 1] = g[k - 1]
  BY <1>7
<1> QED
  BY <1>4, <1>5, <1>8

\* Advance, hour after hour.
LEMMA HourAfterHour ==
    ASSUME NEW env, NEW n \in Nat
    PROVE  /\ Box!Simulated(env, 0) = env
           /\ Box!Simulated(env, n + 1) = Box!HourStep(Box!Simulated(env, n))
<1> DEFINE F(m) == CHOOSE f : f = [k \in 0..m |-> IF k = 0 THEN env ELSE Box!HourStep(f[k - 1])]
<1>1. \A m \in Nat : Box!Simulated(env, m) = F(m)[m]
  BY DEF Box!Simulated
<1>2. ASSUME NEW m \in Nat PROVE Runs(F(m), "hours", 0, env, m)
  <2>1. PICK f : Runs(f, "hours", 0, env, m)
    BY RunsExist
  <2>2. f = [k \in 0..m |-> IF k = 0 THEN env ELSE Box!HourStep(f[k - 1])]
    BY <2>1 DEF Runs, LoopTurn
  <2>3. F(m) = [k \in 0..m |-> IF k = 0 THEN env ELSE Box!HourStep(F(m)[k - 1])]
    BY <2>2
  <2> HIDE DEF F
  <2> QED
    BY <2>3 DEF Runs, LoopTurn
<1> HIDE DEF F
<1>3. F(0)[0] = env
  BY <1>2 DEF Runs
<1>4. F(n + 1)[n + 1] = Box!HourStep(F(n + 1)[n])
  <2>1. Runs(F(n + 1), "hours", 0, env, n + 1)
    BY <1>2
  <2>2. F(n + 1)[n + 1] = LoopTurn("hours", 0, F(n + 1)[(n + 1) - 1], n + 1)
    BY <2>1 DEF Runs
  <2> QED
    BY <2>2 DEF LoopTurn
<1>5. F(n + 1)[n] = F(n)[n]
  BY <1>2, RunsAgree
<1> QED
  BY <1>1, <1>3, <1>4, <1>5

-----------------------------------------------------------------------------
(* What a rule's turn, an evaluation, an hour and an advance leave as it is. *)

\* An environment, and its units as a function on entities.
HasFields(env) ==
    env = [policy |-> env.policy, units |-> env.units, clock |-> env.clock,
           facts |-> env.facts, ops |-> env.ops]
IsEnv(env) ==
    /\ HasFields(env)
    /\ env.units = [u \in DOMAIN env.units |-> env.units[u]]
    /\ \A u \in DOMAIN env.units :
          env.units[u] = [on |-> env.units[u].on, budget |-> env.units[u].budget]

\* The same units, with no budget changed to one that the policy does not allow.
SameUnits(env, now) ==
    /\ IsEnv(now) /\ now.policy = env.policy
    /\ DOMAIN now.units = DOMAIN env.units
    /\ \A u \in DOMAIN env.units :
          now.units[u].budget # env.units[u].budget =>
             Box!WithinLimits(env.policy, now.units[u].budget)

\* Rules change units and their own state, not the clock or the facts.
Ruled(env, now) == SameUnits(env, now) /\ now.clock = env.clock /\ now.facts = env.facts

LEMMA SameUnitsTwice ==
    ASSUME NEW env, NEW mid, NEW now, SameUnits(env, mid), SameUnits(mid, now)
    PROVE  SameUnits(env, now)
  BY DEF SameUnits

LEMMA RuleTurn ==
    ASSUME NEW env, IsEnv(env), NEW r, NEW t
    PROVE  Ruled(env, Box!EvaluateRule(env, r, t))
<1> DEFINE rule == RuleSpec[r]
           known == rule.targets \cap DOMAIN env.units
           hit == {u \in known : Box!Matched(env, rule, u, t) /\ ~Box!Satisfied(rule, env.units[u])}
           refused == {u \in hit : Box!Refused(env, rule, env.units[u])}
           affected == hit \ refused
           status == IF refused # {} \/ known # rule.targets THEN "REJECTED"
                     ELSE IF affected # {} THEN "SUCCEEDED" ELSE "NO_ACTION"
           units == [u \in DOMAIN env.units |->
                        IF u \in affected THEN Box!Changed(rule, env.units[u]) ELSE env.units[u]]
           next == Box!EvaluateRule(env, r, t)
<1>1. next = env \/ next = [policy |-> env.policy, units |-> units, clock |-> env.clock,
                           facts |-> env.facts, ops |-> next.ops]
  <2>1. next = IF r \notin DOMAIN env.ops.evaluated \/ t <= env.ops.evaluated[r]
               THEN env
               ELSE [env EXCEPT
                       !.units = [u \in DOMAIN @ |->
                                    IF u \in affected THEN Box!Changed(rule, @[u]) ELSE @[u]],
                       !.ops.evaluated[r] = t,
                       !.ops.results = Append(@, [rule |-> r, at |-> t, status |-> status])]
    BY DEF Box!EvaluateRule
  <2>2. env = [policy |-> env.policy, units |-> env.units, clock |-> env.clock,
               facts |-> env.facts, ops |-> env.ops]
    BY DEF IsEnv, HasFields
  <2> HIDE DEF affected, status, rule, next
  <2> QED
    BY ONLY <2>1, <2>2
<1>2. CASE next = env
  BY <1>2 DEF Ruled, SameUnits
<1>3. CASE next = [policy |-> env.policy, units |-> units, clock |-> env.clock,
                   facts |-> env.facts, ops |-> next.ops]
  <2> SUFFICES Ruled(env, next)
    OBVIOUS
  <2>1. ASSUME NEW u \in DOMAIN env.units
        PROVE  /\ units[u] = [on |-> units[u].on, budget |-> units[u].budget]
               /\ units[u].budget # env.units[u].budget =>
                     Box!WithinLimits(env.policy, units[u].budget)
    <3>1. env.units[u] = [on |-> env.units[u].on, budget |-> env.units[u].budget]
      BY DEF IsEnv, HasFields
    <3>2. u \in affected => ~Box!Refused(env, rule, env.units[u])
      OBVIOUS
    <3>3. units[u] = IF u \in affected THEN Box!Changed(rule, env.units[u]) ELSE env.units[u]
      OBVIOUS
    <3>4. CASE u \notin affected
      <4> HIDE DEF affected, rule, units
      <4> QED BY <3>1, <3>3, <3>4
    <3>5. CASE u \in affected /\ rule.action = "PAUSE"
      <4> HIDE DEF affected, rule, units
      <4> QED BY <3>1, <3>3, <3>5 DEF Box!Changed
    <3>6. CASE u \in affected /\ rule.action = "CHANGE_BUDGET"
      <4> HIDE DEF affected, rule, units
      <4>1. units[u] = [env.units[u] EXCEPT !.budget = rule.amount]
        BY <3>3, <3>6 DEF Box!Changed
      <4>2. Box!WithinLimits(env.policy, rule.amount)
        BY <3>2, <3>6 DEF Box!Refused, Box!BudgetAllows
      <4> QED BY <3>1, <4>1, <4>2
    <3>7. CASE u \in affected /\ rule.action \notin {"PAUSE", "CHANGE_BUDGET"}
      <4> HIDE DEF affected, rule, units
      <4> QED BY <3>1, <3>3, <3>7 DEF Box!Changed
    <3> QED BY <3>4, <3>5, <3>6, <3>7
  <2>2. units = [u \in DOMAIN units |-> units[u]] /\ DOMAIN units = DOMAIN env.units
    OBVIOUS
  <2> HIDE DEF units, next
  <2> QED
    BY <1>3, <2>1, <2>2 DEF Ruled, SameUnits, IsEnv, HasFields
<1> QED
  BY <1>1, <1>2, <1>3

\* An evaluation, rule after rule.
LEMMA RuleAfterRule ==
    ASSUME NEW env, NEW t, Len(RuleOrder) \in Nat
    PROVE  \E f : /\ Box!EvaluateRules(env, t) = f[Len(RuleOrder)] /\ f[0] = env
                  /\ \A k \in 1..Len(RuleOrder) :
                        f[k] = Box!EvaluateRule(f[k - 1], RuleOrder[k], t)
<1> DEFINE n == Len(RuleOrder)
           f == CHOOSE g : g = [i \in 0..n |-> IF i = 0 THEN env
                                               ELSE Box!EvaluateRule(g[i - 1], RuleOrder[i], t)]
<1>1. Box!EvaluateRules(env, t) = f[n]
  BY DEF Box!EvaluateRules
<1>2. f = [i \in 0..n |-> IF i = 0 THEN env ELSE Box!EvaluateRule(f[i - 1], RuleOrder[i], t)]
  <2>1. PICK g : Runs(g, "rules", t, env, n)
    BY RunsExist
  <2>2. g = [i \in 0..n |-> IF i = 0 THEN env ELSE Box!EvaluateRule(g[i - 1], RuleOrder[i], t)]
    BY <2>1 DEF Runs, LoopTurn
  <2> QED
    BY <2>2
<1> HIDE DEF f
<1>3. f[0] = env /\ \A k \in 1..n : f[k] = Box!EvaluateRule(f[k - 1], RuleOrder[k], t)
  BY <1>2
<1> QED
  BY <1>1, <1>3

LEMMA RulesTurns ==
    ASSUME NEW env, IsEnv(env), NEW t, NEW n \in Nat, NEW f, f[0] = env,
           \A k \in 1..n : f[k] = Box!EvaluateRule(f[k - 1], RuleOrder[k], t)
    PROVE  \A k \in 0..n : Ruled(env, f[k])
<1> DEFINE S == {k \in 0..n : ~Ruled(env, f[k])}
<1>1. SUFFICES ASSUME S # {} PROVE FALSE
  OBVIOUS
<1>2. S \subseteq Nat
  OBVIOUS
<1>3. PICK k \in S : \A x \in S : k <= x
  BY <1>1, <1>2, LeastOf
<1>4. k # 0
  BY DEF Ruled, SameUnits
<1>5. k - 1 \in 0..n /\ k - 1 \notin S /\ k \in 1..n
  BY <1>3, <1>4
<1>6. Ruled(env, f[k - 1])
  BY <1>5
<1>7. Ruled(f[k - 1], f[k])
  BY <1>5, <1>6, RuleTurn DEF Ruled, SameUnits
<1>8. Ruled(env, f[k])
  BY <1>6, <1>7, SameUnitsTwice DEF Ruled
<1> QED
  BY <1>8

LEMMA RulesTurn ==
    ASSUME NEW env, IsEnv(env), NEW t, Len(RuleOrder) \in Nat
    PROVE  Ruled(env, Box!EvaluateRules(env, t))
<1>1. PICK f : /\ Box!EvaluateRules(env, t) = f[Len(RuleOrder)] /\ f[0] = env
               /\ \A k \in 1..Len(RuleOrder) :
                     f[k] = Box!EvaluateRule(f[k - 1], RuleOrder[k], t)
  BY RuleAfterRule
<1>2. \A k \in 0..Len(RuleOrder) : Ruled(env, f[k])
  BY <1>1, RulesTurns
<1> QED
  BY <1>1, <1>2

\* An hour: the clock, and a fact of the hour for each unit.
LEMMA HourTurn ==
    ASSUME NEW env, IsEnv(env), Len(RuleOrder) \in Nat
    PROVE  \E early :
              LET next == Box!HourStep(env)
              IN  /\ SameUnits(env, next) /\ SameUnits(env, early)
                  /\ next.clock = env.clock + 2
                  /\ next.facts = env.facts \union Box!HourFacts(early.units, env.clock + 2)
<1> DEFINE hour == env.clock + 2
           early == Box!EvaluateRules(env, hour - 1)
           new == Box!HourFacts(early.units, hour)
           delivered == [early EXCEPT !.facts = @ \union new, !.clock = hour,
                                      !.ops = Box!SettleSpend(@, hour, new)]
           next == Box!EvaluateRules(delivered, hour)
<1>1. Box!HourStep(env) = next
  BY DEF Box!HourStep
<1>2. Ruled(env, early)
  BY RulesTurn
<1> HIDE DEF early, hour, new
<1>3. delivered = [policy |-> early.policy, units |-> early.units, clock |-> hour,
                   facts |-> early.facts \union new, ops |-> delivered.ops]
  <2>1. early = [policy |-> early.policy, units |-> early.units, clock |-> early.clock,
                 facts |-> early.facts, ops |-> early.ops]
    BY <1>2 DEF Ruled, SameUnits, IsEnv, HasFields
  <2>2. delivered = [early EXCEPT !.facts = @ \union new, !.clock = hour,
                                  !.ops = Box!SettleSpend(@, hour, new)]
    OBVIOUS
  <2> HIDE DEF delivered
  <2> QED
    BY ONLY <2>1, <2>2
<1> HIDE DEF delivered
<1>4. SameUnits(early, delivered)
  <2>1. /\ delivered.policy = early.policy /\ delivered.units = early.units
        /\ delivered.clock = hour /\ delivered.facts = early.facts \union new
    BY ONLY <1>3
  <2>2. IsEnv(early)
    BY <1>2 DEF Ruled, SameUnits
  <2> QED
    BY <1>3, <2>1, <2>2 DEF SameUnits, IsEnv, HasFields
<1>5. Ruled(delivered, next)
  BY <1>4, RulesTurn DEF SameUnits
<1> HIDE DEF next
<1>6. SameUnits(env, next)
  BY <1>2, <1>4, <1>5, SameUnitsTwice DEF Ruled
<1>7. next.clock = hour /\ next.facts = env.facts \union new
  BY <1>2, <1>3, <1>5 DEF Ruled
<1> QED
  BY <1>1, <1>2, <1>6, <1>7 DEF hour, new, Ruled

\* An advance, whatever its length.
LEMMA AdvanceTurn ==
    ASSUME NEW env, IsEnv(env), Len(RuleOrder) \in Nat, NEW n \in Nat
    PROVE  SameUnits(env, Box!Simulated(env, n))
<1> DEFINE S == {m \in Nat : ~SameUnits(env, Box!Simulated(env, m))}
<1>1. SUFFICES ASSUME S # {} PROVE FALSE
  OBVIOUS
<1>2. PICK m \in S : \A x \in S : m <= x
  BY <1>1, LeastOf
<1>3. m # 0
  BY HourAfterHour DEF SameUnits
<1>4. m - 1 \in Nat /\ m - 1 \notin S
  BY <1>2, <1>3
<1>5. SameUnits(env, Box!Simulated(env, m - 1))
  BY <1>4
<1>6. Box!Simulated(env, (m - 1) + 1) = Box!HourStep(Box!Simulated(env, m - 1))
  BY <1>4, HourAfterHour
<1>7. (m - 1) + 1 = m
  OBVIOUS
<1>8. SameUnits(Box!Simulated(env, m - 1), Box!Simulated(env, m))
  BY <1>5, <1>6, <1>7, HourTurn DEF SameUnits
<1> QED
  BY <1>5, <1>8, SameUnitsTwice

-----------------------------------------------------------------------------
(* The timeline, on any machine: a copy is of one moment, and its hours     *)
(* continue that moment's.                                                  *)

\* Whole hours, one fact for each unit and hour, and no gap after a unit's first.
Whole(facts, clock) ==
    /\ \A f \in facts : f.at \in Nat /\ f.at <= clock
    /\ \A f, g \in facts : f.unit = g.unit /\ f.at = g.at => f = g
    /\ \A f \in facts : f.at < clock => \E g \in facts : g.unit = f.unit /\ g.at = f.at + 2

EnvFits(env) ==
    /\ IsEnv(env) /\ env.policy \in Policies
    /\ env.clock \in Nat /\ env.clock % 2 = 0
    /\ Whole(env.facts, env.clock)

\* What an advance has simulated on a copy: the hours after base, for all its units.
Continues(x) ==
    /\ x.view.clock \in Nat /\ x.view.clock % 2 = 0 /\ x.base <= x.view.clock
    /\ Whole(x.new, x.view.clock)
    /\ \A f \in x.new : x.base + 2 <= f.at /\ f.unit \in DOMAIN x.view.units
    /\ x.base < x.view.clock =>
          \A u \in DOMAIN x.view.units : \E f \in x.new : f.unit = u /\ f.at = x.base + 2

\* A copy is the environment at base, and what was simulated on it.
Copies(x, env) ==
    /\ x.view.facts = {f \in env.facts : f.at <= x.base} \union x.new
    /\ \A f \in env.facts : f.at <= x.base => f.unit \in DOMAIN x.view.units
    /\ x.pc # "simulating" => x.view.clock = x.base
    /\ Continues(x)

Loading == {"policy", "units", "clock", "facts", "operations"}
InOrder(x) ==
    \/ x.pc \in {"idle", "releasing"} /\ x.job = None
    \/ x.pc \in Loading \union {"loaded"} /\ x.job \in {"read", "advance", "write", "operation"}
    \/ x.pc = "loaded" /\ x.job = "settings"
    \/ x.pc = "simulating" /\ x.job = "advance"

Fits(x, env) ==
    /\ x = [pc |-> x.pc, job |-> x.job, view |-> x.view, base |-> x.base, new |-> x.new,
            left |-> x.left]
    /\ HasFields(x.view)
    /\ x.base \in Nat /\ x.base % 2 = 0 /\ x.base <= env.clock
    /\ x.left \in Nat
    /\ InOrder(x)
    /\ x.pc # "simulating" => x.new = {}
    /\ x.pc \in {"clock", "facts", "operations", "loaded", "simulating"} /\ x.job # "settings" =>
          IsEnv(x.view)
    /\ x.pc = "facts" => x.view.clock = x.base
    /\ x.pc \in Box!Restored /\ x.job # "settings" => Copies(x, env)

\* No hour is taken back, and none is added up to the present one.
Onward(env, now) ==
    /\ env.facts \subseteq now.facts /\ env.clock <= now.clock
    /\ \A f \in now.facts \ env.facts : env.clock < f.at

LEMMA OthersFit ==
    ASSUME NEW x, NEW env, NEW now, EnvFits(env), EnvFits(now), Onward(env, now), Fits(x, env)
    PROVE  Fits(x, now)
<1>1. x.base <= now.clock
  BY DEF Fits, EnvFits, Onward
<1>2. {f \in env.facts : f.at <= x.base} = {f \in now.facts : f.at <= x.base}
  BY DEF Fits, EnvFits, Onward, Whole
<1>3. Copies(x, env) => Copies(x, now)
  BY <1>2 DEF Copies
<1> QED
  BY <1>1, <1>3 DEF Fits

Gone(x) == x = Box!Idle \/ x = [Box!Idle EXCEPT !.pc = "releasing"]

LEMMA GoneFits == ASSUME NEW x, NEW env, EnvFits(env), Gone(x) PROVE Fits(x, env)
<1>1. /\ x = [pc |-> x.pc, job |-> None, view |-> x.view, base |-> 0, new |-> {}, left |-> 0]
      /\ x.view = [policy |-> None, units |-> None, clock |-> 0, facts |-> {}, ops |-> None]
      /\ x.pc \in {"idle", "releasing"}
  BY DEF Gone, Box!Idle, Box!Blank
<1>2. /\ x.job = None /\ x.base = 0 /\ x.new = {} /\ x.left = 0
      /\ HasFields(x.view)
  BY <1>1 DEF HasFields
<1> QED
  BY <1>1, <1>2 DEF Fits, InOrder, EnvFits, Box!Restored

LEMMA BegunFits ==
    ASSUME NEW x, NEW env, Fits(x, env), x.pc = "idle", NEW y, NEW job, NEW entry,
           y = [x EXCEPT !.pc = entry, !.job = job],
           \/ entry = "policy" /\ job \in {"read", "advance", "write", "operation"}
           \/ entry = "loaded" /\ job = "settings"
    PROVE  Fits(y, env)
<1>1. /\ y = [pc |-> entry, job |-> job, view |-> x.view, base |-> x.base, new |-> x.new,
              left |-> x.left]
  BY DEF Fits
<1>2. /\ y.pc = entry /\ y.job = job /\ y.view = x.view /\ y.base = x.base /\ y.new = x.new
      /\ y.left = x.left
  BY <1>1
<1> QED
  BY <1>1, <1>2 DEF Fits, InOrder, Loading, Box!Restored

\* What a statement of a load puts into the copy.
LEMMA LoadFits ==
    ASSUME NEW x, NEW env, EnvFits(env), Fits(x, env), NEW y,
           \/ x.pc = "policy" /\ y = [x EXCEPT !.pc = "units", !.view.policy = env.policy]
           \/ x.pc = "units" /\ y = [x EXCEPT !.pc = "clock", !.view.units = env.units]
           \/ x.pc = "operations" /\ y = [x EXCEPT !.pc = "loaded", !.view.ops = env.ops]
    PROVE  Fits(y, env)
<1>1. /\ x = [pc |-> x.pc, job |-> x.job, view |-> x.view, base |-> x.base, new |-> x.new,
              left |-> x.left]
      /\ x.view = [policy |-> x.view.policy, units |-> x.view.units, clock |-> x.view.clock,
                   facts |-> x.view.facts, ops |-> x.view.ops]
  BY DEF Fits, HasFields
<1>2. /\ y = [pc |-> y.pc, job |-> x.job, view |-> y.view, base |-> x.base, new |-> x.new,
              left |-> x.left]
      /\ y.view = [policy |-> y.view.policy, units |-> y.view.units, clock |-> x.view.clock,
                   facts |-> x.view.facts, ops |-> y.view.ops]
  <2>1. CASE y = [x EXCEPT !.pc = "units", !.view.policy = env.policy]
    BY ONLY <1>1, <2>1
  <2>2. CASE y = [x EXCEPT !.pc = "clock", !.view.units = env.units]
    BY ONLY <1>1, <2>2
  <2>3. CASE y = [x EXCEPT !.pc = "loaded", !.view.ops = env.ops]
    BY ONLY <1>1, <2>3
  <2> QED
    BY <2>1, <2>2, <2>3
<1>3. /\ y.job = x.job /\ y.base = x.base /\ y.new = x.new /\ y.left = x.left
      /\ y.view.clock = x.view.clock /\ y.view.facts = x.view.facts
      /\ HasFields(y.view)
  BY <1>2 DEF HasFields
<1>4. CASE x.pc = "policy"
  <2>1. y.pc = "units"
    BY <1>1, <1>4
  <2> QED
    BY <1>2, <1>3, <1>4, <2>1 DEF Fits, InOrder, Loading, Box!Restored
<1>5. CASE x.pc = "units"
  <2>1. y.pc = "clock" /\ y.view.units = env.units
    BY <1>1, <1>5
  <2>2. IsEnv(y.view)
    BY <1>3, <2>1 DEF IsEnv, EnvFits
  <2> QED
    BY <1>2, <1>3, <1>5, <2>1, <2>2 DEF Fits, InOrder, Loading, Box!Restored
<1>6. CASE x.pc = "operations"
  <2>1. y.pc = "loaded" /\ y.view.units = x.view.units
    BY ZenonT(60), <1>1, <1>6
  <2>2. x.job \in {"read", "advance", "write", "operation"}
    BY <1>6 DEF Fits, InOrder
  <2>3. IsEnv(y.view)
    BY <1>3, <1>6, <2>1, <2>2 DEF IsEnv, Fits
  <2>4. Copies(x, env)
    BY <1>6, <2>2 DEF Fits, Box!Restored
  <2>5. Copies(y, env)
    BY <1>3, <1>6, <2>1, <2>4 DEF Copies, Continues
  <2> QED
    BY <1>2, <1>3, <1>6, <2>1, <2>2, <2>3, <2>5 DEF Fits, InOrder, Loading
<1> QED
  BY <1>4, <1>5, <1>6

LEMMA ClockFits ==
    ASSUME NEW x, NEW env, EnvFits(env), Fits(x, env), NEW y,
           x.pc = "clock", y = [x EXCEPT !.pc = "facts", !.view.clock = env.clock, !.base = env.clock]
    PROVE  Fits(y, env)
<1>1. /\ x = [pc |-> x.pc, job |-> x.job, view |-> x.view, base |-> x.base, new |-> x.new,
              left |-> x.left]
      /\ x.view = [policy |-> x.view.policy, units |-> x.view.units, clock |-> x.view.clock,
                   facts |-> x.view.facts, ops |-> x.view.ops]
  BY DEF Fits, HasFields
<1>2. /\ y = [pc |-> "facts", job |-> x.job, view |-> y.view, base |-> env.clock, new |-> x.new,
              left |-> x.left]
      /\ y.view = [policy |-> x.view.policy, units |-> x.view.units, clock |-> env.clock,
                   facts |-> x.view.facts, ops |-> x.view.ops]
  BY <1>1
<1>3. /\ y.pc = "facts" /\ y.job = x.job /\ y.base = env.clock /\ y.new = x.new /\ y.left = x.left
      /\ y.view.clock = env.clock /\ y.view.facts = x.view.facts /\ y.view.units = x.view.units
      /\ HasFields(y.view)
  BY <1>2 DEF HasFields
<1>4. x.job \in {"read", "advance", "write", "operation"}
  BY DEF Fits, InOrder
<1>5. IsEnv(y.view)
  BY <1>3, <1>4 DEF IsEnv, Fits
<1> QED
  BY <1>2, <1>3, <1>4, <1>5 DEF Fits, InOrder, Loading, Box!Restored, EnvFits

LEMMA FactsFit ==
    ASSUME NEW x, NEW env, EnvFits(env), Fits(x, env), NEW y, x.pc = "facts",
           Box!ValidFacts(x.view, env.facts),
           y = [x EXCEPT !.pc = "operations", !.view.facts = env.facts]
    PROVE  Fits(y, env)
<1>1. /\ x = [pc |-> x.pc, job |-> x.job, view |-> x.view, base |-> x.base, new |-> x.new,
              left |-> x.left]
      /\ x.view = [policy |-> x.view.policy, units |-> x.view.units, clock |-> x.view.clock,
                   facts |-> x.view.facts, ops |-> x.view.ops]
  BY DEF Fits, HasFields
<1>2. /\ y = [pc |-> "operations", job |-> x.job, view |-> y.view, base |-> x.base, new |-> x.new,
              left |-> x.left]
      /\ y.view = [policy |-> x.view.policy, units |-> x.view.units, clock |-> x.view.clock,
                   facts |-> env.facts, ops |-> x.view.ops]
  BY <1>1
<1>3. /\ y.pc = "operations" /\ y.job = x.job /\ y.base = x.base /\ y.new = x.new
      /\ y.left = x.left
      /\ y.view.clock = x.view.clock /\ y.view.facts = env.facts /\ y.view.units = x.view.units
      /\ HasFields(y.view)
  BY <1>2 DEF HasFields
<1>4. x.job \in {"read", "advance", "write", "operation"}
  BY DEF Fits, InOrder
<1>5. IsEnv(y.view)
  BY <1>3, <1>4 DEF IsEnv, Fits
<1>6. x.view.clock = x.base /\ x.new = {}
  BY DEF Fits
<1>7. \A f \in env.facts : f.unit \in DOMAIN x.view.units /\ f.at <= x.base
  BY <1>6 DEF Box!ValidFacts
<1>8. Copies(y, env)
  <2>1. Continues(y)
    BY <1>3, <1>6 DEF Continues, Whole, Fits
  <2> QED
    BY <1>3, <1>6, <1>7, <2>1 DEF Copies
<1> QED
  BY <1>2, <1>3, <1>4, <1>5, <1>8 DEF Fits, InOrder, Loading

LEMMA StartFits ==
    ASSUME NEW x, NEW env, Fits(x, env), NEW y, NEW hours \in Nat, x.pc = "loaded", x.job = "advance",
           y = [x EXCEPT !.pc = "simulating", !.left = hours]
    PROVE  Fits(y, env)
<1>1. /\ y = [pc |-> "simulating", job |-> x.job, view |-> x.view, base |-> x.base, new |-> x.new,
              left |-> hours]
  BY DEF Fits
<1>2. /\ y.pc = "simulating" /\ y.job = x.job /\ y.view = x.view /\ y.base = x.base
      /\ y.new = x.new /\ y.left = hours
  BY <1>1
<1>3. Copies(x, env) => Copies(y, env)
  BY <1>2 DEF Copies, Continues
<1> QED
  BY <1>1, <1>2, <1>3 DEF Fits, InOrder, Loading, Box!Restored

LEMMA HourFits ==
    ASSUME NEW x, NEW env, EnvFits(env), Fits(x, env), NEW y, x.pc = "simulating", x.left > 0,
           Len(RuleOrder) \in Nat, NEW next, next = Box!HourStep(x.view),
           y = [x EXCEPT !.view = next, !.left = @ - 1,
                         !.new = @ \union {f \in next.facts : f.at > x.view.clock}]
    PROVE  Fits(y, env)
<1> DEFINE more == {f \in next.facts : f.at > x.view.clock}
           hour == x.view.clock + 2
<1>1. /\ y = [pc |-> "simulating", job |-> x.job, view |-> next, base |-> x.base,
              new |-> x.new \union more, left |-> x.left - 1]
  BY DEF Fits
<1>2. /\ y.pc = "simulating" /\ y.job = x.job /\ y.view = next /\ y.base = x.base
      /\ y.new = x.new \union more /\ y.left = x.left - 1
  BY <1>1
<1>3. Copies(x, env) /\ IsEnv(x.view)
  BY DEF Fits, InOrder, Box!Restored
<1>4. PICK early : /\ SameUnits(x.view, next) /\ SameUnits(x.view, early)
                   /\ next.clock = hour
                   /\ next.facts = x.view.facts \union Box!HourFacts(early.units, hour)
  BY <1>3, HourTurn
<1> DEFINE facts == Box!HourFacts(early.units, hour)
<1>5. /\ \A f \in facts : f.at = hour /\ f.unit \in DOMAIN x.view.units
      /\ \A u \in DOMAIN x.view.units : \E f \in facts : f.unit = u
      /\ \A f, g \in facts : f.unit = g.unit => f = g
  <2> DEFINE fact(u) == [unit |-> u, at |-> hour,
                         spend |-> IF early.units[u].on THEN early.units[u].budget ELSE 0]
  <2>1. facts = {fact(u) : u \in DOMAIN x.view.units}
    BY <1>4 DEF SameUnits, Box!HourFacts
  <2>2. \A u : fact(u).unit = u /\ fact(u).at = hour
    OBVIOUS
  <2> HIDE DEF fact, facts, hour
  <2>3. \A f \in facts : f.at = hour /\ f.unit \in DOMAIN x.view.units /\ f = fact(f.unit)
    BY <2>1, <2>2
  <2>4. ASSUME NEW u \in DOMAIN x.view.units PROVE \E f \in facts : f.unit = u
    <3>1. fact(u) \in facts
      BY <2>1
    <3> QED
      BY <3>1, <2>2
  <2>5. \A f, g \in facts : f.unit = g.unit => f = g
    BY <2>3
  <2> QED
    BY <2>3, <2>4, <2>5
<1> HIDE DEF facts
<1>6. x.view.clock \in Nat /\ x.view.clock % 2 = 0 /\ x.base \in Nat /\ x.base <= x.view.clock
  BY <1>3 DEF Copies, Continues, Fits
<1>7. \A f \in x.view.facts : f.at \in Nat /\ f.at <= x.view.clock
  BY <1>3, <1>6 DEF Copies, Continues, Whole, EnvFits, Fits
<1>8. more = facts
  BY <1>4, <1>5, <1>6, <1>7 DEF facts
<1> HIDE DEF more
<1>9. next.clock \in Nat /\ next.clock % 2 = 0 /\ x.base < next.clock
  BY <1>4, <1>6
<1>10. DOMAIN next.units = DOMAIN x.view.units
  BY <1>4 DEF SameUnits
<1>11. Whole(x.new \union more, next.clock)
  <2> DEFINE all == x.new \union more
  <2>1. \A f \in x.new : f.at \in Nat /\ f.at <= x.view.clock /\ f.unit \in DOMAIN x.view.units
    BY <1>3 DEF Copies, Continues, Whole
  <2>2. \A f \in all : f.at \in Nat /\ f.at <= next.clock
    BY <2>1, <1>4, <1>5, <1>6, <1>8
  <2>3. \A f, g \in all : f.unit = g.unit /\ f.at = g.at => f = g
    BY <2>1, <1>3, <1>5, <1>6, <1>8 DEF Copies, Continues, Whole
  <2>4. ASSUME NEW f \in all, f.at < next.clock
        PROVE  \E g \in all : g.unit = f.unit /\ g.at = f.at + 2
    <3>0. next.clock = hour /\ hour \in Nat /\ \A g \in more : g.at = hour
      BY <1>4, <1>5, <1>6, <1>8
    <3>1. f \in x.new
      <4> HIDE DEF hour
      <4> QED BY ONLY <2>4, <3>0
    <3>2. CASE f.at < x.view.clock
      BY <3>1, <3>2, <1>3 DEF Copies, Continues, Whole
    <3>3. CASE f.at = x.view.clock
      BY <3>1, <3>3, <2>1, <1>5, <1>8
    <3> QED
      BY <2>1, <3>1, <3>2, <3>3, <1>6
  <2> QED
    BY <2>2, <2>3, <2>4 DEF Whole
<1>12. \A f \in x.new \union more : x.base + 2 <= f.at /\ f.unit \in DOMAIN x.view.units
  BY <1>3, <1>5, <1>6, <1>8 DEF Copies, Continues
<1>13. ASSUME NEW u \in DOMAIN x.view.units
       PROVE  \E f \in x.new \union more : f.unit = u /\ f.at = x.base + 2
  <2>1. CASE x.base < x.view.clock
    BY <2>1, <1>3 DEF Copies, Continues
  <2>2. CASE x.base = x.view.clock
    BY <2>2, <1>5, <1>8
  <2> QED
    BY <2>1, <2>2, <1>6
<1>14. Continues(y)
  <2>1. y.view.clock = next.clock /\ DOMAIN y.view.units = DOMAIN x.view.units
    BY <1>2, <1>10
  <2>2. x.base <= next.clock
    BY <1>6, <1>9
  <2> HIDE DEF hour
  <2> QED
    <3> DEFINE all == x.new \union more
    <3> HIDE DEF all
    <3>1. y.new = all /\ y.base = x.base
      BY <1>2 DEF all
    <3>2. Whole(all, y.view.clock)
      BY <1>11, <2>1 DEF all
    <3>3. \A f \in all : y.base + 2 <= f.at /\ f.unit \in DOMAIN y.view.units
      BY <1>12, <2>1, <3>1 DEF all
    <3>4. \A u \in DOMAIN y.view.units : \E f \in all : f.unit = u /\ f.at = y.base + 2
      BY <1>13, <2>1, <3>1 DEF all
    <3> QED
      BY <1>9, <2>1, <2>2, <3>1, <3>2, <3>3, <3>4 DEF Continues
<1>15. Copies(y, env)
  <2>1. next.facts = {f \in env.facts : f.at <= x.base} \union (x.new \union more)
    BY <1>3, <1>4, <1>8 DEF Copies, facts
  <2> QED
    BY <2>1, <1>2, <1>3, <1>10, <1>14 DEF Copies
<1>16. IsEnv(next) /\ HasFields(next)
  BY <1>4 DEF SameUnits, IsEnv
<1>17. y.left \in Nat
  BY <1>2 DEF Fits
<1> QED
  BY <1>1, <1>2, <1>15, <1>16, <1>17 DEF Fits, InOrder

\* What the steps of the database do to an environment.
LEMMA SeedFits == Box!HistoryAssumption => EnvFits(Box!Seed)
<1> SUFFICES ASSUME Box!HistoryAssumption PROVE EnvFits(Box!Seed)
  OBVIOUS
<1> DEFINE units == [u \in Seeded |-> [on |-> TRUE, budget |-> StartBudget]]
           ops == [evaluated |-> <<>>, results |-> <<>>, cash |-> 0, billed |-> <<>>]
           env == Box!Seed
<1>1. env = [policy |-> StartPolicy, clock |-> 0, facts |-> {}, units |-> units, ops |-> ops]
  BY DEF Box!Seed
<1>2. \A u \in DOMAIN units : units[u] = [on |-> units[u].on, budget |-> units[u].budget]
  OBVIOUS
<1>3. units = [u \in DOMAIN units |-> units[u]]
  OBVIOUS
<1> HIDE DEF units, ops, env
<1>4. /\ env.policy = StartPolicy /\ env.clock = 0 /\ env.facts = {} /\ env.units = units
      /\ HasFields(env)
  BY <1>1 DEF HasFields
<1>5. EnvFits(env)
  BY <1>2, <1>3, <1>4 DEF EnvFits, IsEnv, Whole, Box!HistoryAssumption
<1> QED
  BY <1>5 DEF env

UnitsFit(units) ==
    /\ units = [u \in DOMAIN units |-> units[u]]
    /\ \A u \in DOMAIN units : units[u] = [on |-> units[u].on, budget |-> units[u].budget]

LEMMA UpsertFits ==
    ASSUME NEW rows, NEW table, UnitsFit(rows), UnitsFit(table)
    PROVE  UnitsFit(Box!Upsert(rows, table))
<1> DEFINE units == Box!Upsert(rows, table)
<1>1. /\ units = [u \in DOMAIN units |-> units[u]]
      /\ DOMAIN units = DOMAIN rows \union DOMAIN table
      /\ \A u \in DOMAIN units : units[u] = IF u \in DOMAIN rows THEN rows[u] ELSE table[u]
  BY DEF Box!Upsert
<1> HIDE DEF units
<1>2. UnitsFit(units)
  BY <1>1 DEF UnitsFit
<1> QED
  BY <1>2 DEF units

LEMMA UnitsSaved ==
    ASSUME NEW env, NEW now, EnvFits(env), HasFields(now), UnitsFit(now.units),
           now.policy \in Policies, now.clock = env.clock, now.facts = env.facts
    PROVE  EnvFits(now) /\ Onward(env, now)
  BY DEF EnvFits, IsEnv, UnitsFit, Onward

LEMMA AdvanceSaved ==
    ASSUME NEW x, NEW env, EnvFits(env), Fits(x, env), x.pc = "simulating", env.clock = x.base,
           NEW now, now = [env EXCEPT !.clock = x.view.clock, !.facts = @ \union x.new,
                                      !.units = Box!Upsert(x.view.units, @), !.ops = x.view.ops]
    PROVE  EnvFits(now) /\ Onward(env, now)
<1>1. env = [policy |-> env.policy, units |-> env.units, clock |-> env.clock,
             facts |-> env.facts, ops |-> env.ops]
  BY DEF EnvFits, IsEnv, HasFields
<1>2. now = [policy |-> env.policy, units |-> Box!Upsert(x.view.units, env.units),
             clock |-> x.view.clock, facts |-> env.facts \union x.new, ops |-> x.view.ops]
  BY ONLY <1>1, now = [env EXCEPT !.clock = x.view.clock, !.facts = @ \union x.new,
                                  !.units = Box!Upsert(x.view.units, @), !.ops = x.view.ops]
<1>3. /\ now.policy = env.policy /\ now.units = Box!Upsert(x.view.units, env.units)
      /\ now.clock = x.view.clock /\ now.facts = env.facts \union x.new /\ HasFields(now)
  BY <1>2 DEF HasFields
<1>4. IsEnv(x.view) /\ Copies(x, env) /\ x.base \in Nat
  BY DEF Fits, InOrder, Box!Restored
<1>5. UnitsFit(now.units)
  <2>1. UnitsFit(x.view.units) /\ UnitsFit(env.units)
    BY <1>4 DEF UnitsFit, IsEnv, EnvFits
  <2> QED
    BY <1>3, <2>1, UpsertFits
<1>6. /\ x.view.clock \in Nat /\ x.view.clock % 2 = 0 /\ env.clock <= x.view.clock
      /\ env.clock \in Nat
  BY <1>4 DEF Copies, Continues, EnvFits
<1>7. \A f \in env.facts : f.at \in Nat /\ f.at <= env.clock /\ f.unit \in DOMAIN x.view.units
  BY <1>4 DEF Copies, EnvFits, Whole
<1>8. \A f \in x.new : f.at \in Nat /\ env.clock + 2 <= f.at /\ f.at <= x.view.clock
  BY <1>4 DEF Copies, Continues, Whole
<1>9. Whole(now.facts, now.clock)
  <2> DEFINE all == env.facts \union x.new
  <2>1. \A f \in all : f.at \in Nat /\ f.at <= x.view.clock
    BY <1>6, <1>7, <1>8
  <2>2. \A f, g \in all : f.unit = g.unit /\ f.at = g.at => f = g
    BY <1>4, <1>6, <1>7, <1>8 DEF Copies, Continues, Whole, EnvFits
  <2>3. ASSUME NEW f \in all, f.at < x.view.clock
        PROVE  \E g \in all : g.unit = f.unit /\ g.at = f.at + 2
    <3>1. CASE f \in x.new
      BY <2>3, <3>1, <1>4 DEF Copies, Continues, Whole
    <3>2. CASE f \in env.facts /\ f.at < env.clock
      BY <3>2 DEF EnvFits, Whole
    <3>3. CASE f \in env.facts /\ f.at = env.clock
      <4>1. x.base < x.view.clock /\ f.unit \in DOMAIN x.view.units
        BY <2>3, <3>3, <1>7
      <4>2. \E g \in x.new : g.unit = f.unit /\ g.at = x.base + 2
        BY <4>1, <1>4 DEF Copies, Continues
      <4> QED
        BY <4>2, <3>3
    <3> QED
      BY <3>1, <3>2, <3>3, <1>6, <1>7
  <2> HIDE DEF all
  <2>4. Whole(all, x.view.clock)
    BY <2>1, <2>2, <2>3 DEF Whole
  <2> QED
    BY <2>4, <1>3 DEF all
<1>10. EnvFits(now)
  BY <1>3, <1>5, <1>6, <1>9 DEF EnvFits, IsEnv, UnitsFit
<1>11. Onward(env, now)
  BY <1>3, <1>6, <1>8 DEF Onward
<1> QED
  BY <1>10, <1>11

Fitting ==
    /\ EnvFits(db)
    /\ proc = [p \in Handler |-> proc[p]] /\ \A p \in Handler : Fits(proc[p], db)
    /\ lease \in Handler \union {None} /\ crashes \in 0..MaxCrashes

LEMMA FittingInit == Box!StoreAssumption => (Box!Init => Fitting)
<1> SUFFICES ASSUME Box!StoreAssumption, Box!Init PROVE Fitting
  OBVIOUS
<1>1. EnvFits(db)
  BY SeedFits DEF Box!StoreAssumption, Box!Init, Box!HistoryInit
<1>2. \A p \in Handler : Fits(proc[p], db)
  BY <1>1, GoneFits DEF Box!Init, Gone
<1> QED
  BY <1>1, <1>2 DEF Fitting, Box!Init, Box!StoreAssumption

\* The handlers but p are where they were.
LEMMA OneMoves ==
    ASSUME Fitting, NEW p \in Handler, NEW x, proc' = [proc EXCEPT ![p] = x],
           EnvFits(db'), Onward(db, db'), Fits(x, db'),
           lease' \in Handler \union {None}, crashes' \in 0..MaxCrashes
    PROVE  Fitting'
<1>1. proc' = [q \in Handler |-> proc'[q]]
  BY DEF Fitting
<1>2. ASSUME NEW q \in Handler PROVE Fits(proc'[q], db')
  <2>1. CASE q = p
    BY <2>1 DEF Fitting
  <2>2. CASE q # p
    <3>1. proc'[q] = proc[q]
      BY <2>2 DEF Fitting
    <3> QED
      BY <3>1, OthersFit DEF Fitting
  <2> QED
    BY <2>1, <2>2
<1>3. \A q \in Handler : Fits(proc[q], db)'
  BY <1>2
<1> QED
  BY <1>1, <1>3 DEF Fitting

LEMMA OneReads ==
    ASSUME Fitting, NEW p \in Handler, NEW x, proc' = [proc EXCEPT ![p] = x], Fits(x, db),
           db' = db, lease' \in Handler \union {None}, crashes' \in 0..MaxCrashes
    PROVE  Fitting'
<1>1. EnvFits(db') /\ Onward(db, db') /\ Fits(x, db')
  BY DEF Fitting, EnvFits, Onward
<1> QED
  BY <1>1, OneMoves

LEMMA OneLeaves ==
    ASSUME Fitting, NEW p \in Handler, Box!Leave(p), EnvFits(db'), Onward(db, db'),
           UNCHANGED <<lease, crashes>>
    PROVE  Fitting'
<1>1. PICK x : Gone(x) /\ proc' = [proc EXCEPT ![p] = x]
  BY DEF Box!Leave, Gone
<1> QED
  BY <1>1, GoneFits, OneMoves DEF Fitting

Same == db' = db
LEMMA Stays == ASSUME Fitting, Same PROVE EnvFits(db') /\ Onward(db, db')
  BY DEF Fitting, EnvFits, Onward, Same

\* What a step that writes the database writes.
LEMMA CommitHolds ==
    ASSUME Fitting, NEW p \in Handler, Box!CommitAdvance(p)
    PROVE  Fitting' /\ Onward(db, db')
<1> DEFINE me == proc[p]
<1>1. EnvFits(db') /\ Onward(db, db')
  <2>1. CASE UNCHANGED db
    BY <2>1, Stays DEF Same
  <2>2. CASE ~UNCHANGED db
    <3>1. /\ me.pc = "simulating" /\ db.clock = me.base
          /\ db' = [db EXCEPT !.clock = me.view.clock, !.facts = @ \union me.new,
                              !.units = Box!Upsert(me.view.units, @), !.ops = me.view.ops]
      BY <2>2 DEF Box!CommitAdvance
    <3>2. Fits(me, db) /\ EnvFits(db)
      BY DEF Fitting
    <3> HIDE DEF me
    <3> QED
      BY <3>1, <3>2, AdvanceSaved
  <2> QED
    BY <2>1, <2>2
<1> QED
  BY <1>1, OneLeaves DEF Box!CommitAdvance

LEMMA SaveHolds ==
    ASSUME Fitting, NEW p \in Handler,
           \/ \E u \in Unit : Box!SaveUnit(p, u)
           \/ Box!SaveOperation(p)
           \/ \E q \in Policies : Box!SavePolicy(p, q)
    PROVE  Fitting' /\ Onward(db, db')
<1> DEFINE view == proc[p].view
<1>0. /\ db = [policy |-> db.policy, units |-> db.units, clock |-> db.clock,
               facts |-> db.facts, ops |-> db.ops]
      /\ UnitsFit(db.units) /\ EnvFits(db)
  BY DEF Fitting, EnvFits, IsEnv, HasFields, UnitsFit
<1>1. Box!Leave(p) /\ UNCHANGED <<lease, crashes>>
  BY DEF Box!SaveUnit, Box!SaveOperation, Box!SavePolicy
<1>2. ASSUME NEW units, UnitsFit(units), NEW ops,
             db' = [db EXCEPT !.units = Box!Upsert(units, @), !.ops = ops]
      PROVE  EnvFits(db') /\ Onward(db, db')
  <2>1. db' = [policy |-> db.policy, units |-> Box!Upsert(units, db.units), clock |-> db.clock,
               facts |-> db.facts, ops |-> ops]
    BY <1>0, <1>2
  <2>2. /\ db'.policy = db.policy /\ db'.units = Box!Upsert(units, db.units)
        /\ db'.clock = db.clock /\ db'.facts = db.facts /\ HasFields(db')
    BY <2>1 DEF HasFields
  <2>3. UnitsFit(db'.units)
    BY <1>0, <1>2, <2>2, UpsertFits
  <2>4. db'.policy \in Policies
    BY <2>2 DEF Fitting, EnvFits
  <2> QED
    BY <1>0, <2>2, <2>3, <2>4, UnitsSaved
<1>3. proc[p].pc = "loaded" /\ proc[p].job \in {"write", "operation"} => UnitsFit(view.units)
  BY DEF Fitting, Fits, IsEnv, UnitsFit
<1>4. ASSUME NEW u \in Unit, Box!SaveUnit(p, u) PROVE EnvFits(db') /\ Onward(db, db')
  <2>1. UnitsFit(view.units) /\ u \in DOMAIN view.units
    BY <1>3, <1>4 DEF Box!SaveUnit
  <2>2. PICK e \in Box!Rewrites(view.units[u]) :
           db' = [db EXCEPT !.units = Box!Upsert([v \in {u} |-> e], @)]
    BY <1>4 DEF Box!SaveUnit
  <2>3. e = [on |-> e.on, budget |-> e.budget]
    <3> DEFINE old == view.units[u]
    <3>1. old = [on |-> old.on, budget |-> old.budget]
      BY <2>1 DEF UnitsFit
    <3>2. e = [old EXCEPT !.on = ~@] \/ \E b : e = [old EXCEPT !.budget = b]
      BY <2>2 DEF Box!Rewrites
    <3> HIDE DEF old
    <3> QED
      BY ONLY <3>1, <3>2
  <2>4. UnitsFit([v \in {u} |-> e])
    <3>1. \A v \in {u} : [w \in {u} |-> e][v] = e
      OBVIOUS
    <3> QED
      BY <2>3, <3>1 DEF UnitsFit
  <2>5. db' = [db EXCEPT !.units = Box!Upsert([v \in {u} |-> e], @), !.ops = db.ops]
    <3> DEFINE rows == [v \in {u} |-> e]
               after == Box!Upsert(rows, db.units)
    <3>1. db' = [db EXCEPT !.units = after]
      BY <2>2
    <3> HIDE DEF rows, after
    <3>2. db' = [policy |-> db.policy, units |-> after, clock |-> db.clock,
                 facts |-> db.facts, ops |-> db.ops]
      BY ONLY <1>0, <3>1
    <3>3. [db EXCEPT !.units = after, !.ops = db.ops]
             = [policy |-> db.policy, units |-> after, clock |-> db.clock,
                facts |-> db.facts, ops |-> db.ops]
      <4> DEFINE z == [db EXCEPT !.units = after, !.ops = db.ops]
      <4>1. z = [db EXCEPT !.units = after, !.ops = db.ops]
        OBVIOUS
      <4> HIDE DEF z
      <4>2. z = [policy |-> db.policy, units |-> after, clock |-> db.clock,
                 facts |-> db.facts, ops |-> db.ops]
        BY ONLY <1>0, <4>1
      <4> QED
        BY <4>2 DEF z
    <3> QED
      BY <3>2, <3>3 DEF after, rows
  <2> QED
    BY <1>2, <2>4, <2>5
<1>5. ASSUME Box!SaveOperation(p) PROVE EnvFits(db') /\ Onward(db, db')
  <2>1. IsEnv(view)
    BY <1>5 DEF Box!SaveOperation, Fitting, Fits
  <2>2. PICK env : /\ db' = [db EXCEPT !.units = Box!Upsert(env.units, @), !.ops = env.ops]
                   /\ \/ \E u \in Unit \ DOMAIN view.units : env = Box!AddUnit(view, u)
                      \/ \E r : env = Box!AddRule(view, r)
    BY <1>5 DEF Box!SaveOperation
  <2>3. UnitsFit(env.units)
    <3>1. ASSUME NEW u \in Unit, env = Box!AddUnit(view, u) PROVE UnitsFit(env.units)
      <4> DEFINE units == [v \in DOMAIN view.units \union {u} |->
                              IF v = u THEN Box!Created ELSE view.units[v]]
      <4>1. env = [view EXCEPT !.units = units]
        BY <3>1 DEF Box!AddUnit
      <4>2. UnitsFit(units)
        <5>1. \A v \in DOMAIN units : units[v] = [on |-> units[v].on, budget |-> units[v].budget]
          BY <2>1 DEF IsEnv, Box!Created
        <5> QED
          BY <5>1 DEF UnitsFit
      <4> HIDE DEF units
      <4>3. env.units = units
        BY <2>1, <4>1 DEF IsEnv, HasFields
      <4> QED
        BY <4>2, <4>3
    <3>2. ASSUME NEW r, env = Box!AddRule(view, r) PROVE UnitsFit(env.units)
      <4>1. env.units = view.units
        BY <2>1, <3>2 DEF Box!AddRule, IsEnv, HasFields
      <4> QED
        BY <2>1, <4>1 DEF IsEnv, UnitsFit
    <3> QED
      BY <2>2, <3>1, <3>2
  <2> QED
    BY <1>2, <2>2, <2>3
<1>6. ASSUME NEW q \in Policies, Box!SavePolicy(p, q) PROVE EnvFits(db') /\ Onward(db, db')
  <2>1. db' = [db EXCEPT !.policy = q]
    BY <1>6 DEF Box!SavePolicy
  <2>2. db' = [policy |-> q, units |-> db.units, clock |-> db.clock, facts |-> db.facts,
               ops |-> db.ops]
    BY <1>0, <2>1
  <2>3. /\ db'.policy = q /\ db'.units = db.units /\ db'.clock = db.clock
        /\ db'.facts = db.facts /\ HasFields(db')
    BY <2>2 DEF HasFields
  <2> QED
    BY <1>0, <2>3, UnitsSaved
<1>7. EnvFits(db') /\ Onward(db, db')
  BY <1>4, <1>5, <1>6
<1> QED
  BY <1>1, <1>7, OneLeaves

\* The statements of a load, and what is done on a copy.
Copying(p) ==
    \/ Box!LoadPolicy(p) \/ Box!LoadUnits(p) \/ Box!LoadClock(p) \/ Box!LoadFacts(p)
    \/ Box!LoadOperations(p) \/ Box!SimulateHour(p)
    \/ \E n \in 1..MaxAdvanceHours : Box!Start(p, n)

LEMMA CopyingHolds ==
    ASSUME Fitting, Box!StoreAssumption, NEW p \in Handler, Copying(p)
    PROVE  Fitting'
<1> DEFINE me == proc[p]
<1>1. EnvFits(db) /\ Fits(me, db) /\ p \in DOMAIN proc
  BY DEF Fitting
<1>2. db' = db /\ lease' = lease /\ crashes' = crashes
  BY DEF Copying, Box!LoadPolicy, Box!LoadUnits, Box!LoadClock, Box!LoadFacts,
         Box!LoadOperations, Box!SimulateHour, Box!Start
<1>3. lease' \in Handler \union {None} /\ crashes' \in 0..MaxCrashes
  BY <1>2 DEF Fitting
<1>4. ASSUME NEW x, proc' = [proc EXCEPT ![p] = x], Fits(x, db) PROVE Fitting'
  BY <1>2, <1>3, <1>4, OneReads
<1>5. CASE Box!LoadPolicy(p)
  <2>1. me.pc = "policy" /\ proc' = [proc EXCEPT ![p] = [me EXCEPT !.pc = "units",
                                                                   !.view.policy = db.policy]]
    BY <1>1, <1>5 DEF Box!LoadPolicy
  <2> HIDE DEF me
  <2> QED BY <1>1, <1>4, <2>1, LoadFits
<1>6. CASE Box!LoadUnits(p)
  <2>1. me.pc = "units" /\ proc' = [proc EXCEPT ![p] = [me EXCEPT !.pc = "clock",
                                                                  !.view.units = db.units]]
    BY <1>1, <1>6 DEF Box!LoadUnits
  <2> HIDE DEF me
  <2> QED BY <1>1, <1>4, <2>1, LoadFits
<1>7. CASE Box!LoadOperations(p)
  <2>1. me.pc = "operations" /\ proc' = [proc EXCEPT ![p] = [me EXCEPT !.pc = "loaded",
                                                                       !.view.ops = db.ops]]
    BY <1>1, <1>7 DEF Box!LoadOperations
  <2> HIDE DEF me
  <2> QED BY <1>1, <1>4, <2>1, LoadFits
<1>8. CASE Box!LoadClock(p)
  <2>1. me.pc = "clock" /\ proc' = [proc EXCEPT ![p] =
            [me EXCEPT !.pc = "facts", !.view.clock = db.clock, !.base = db.clock]]
    BY <1>1, <1>8 DEF Box!LoadClock
  <2> HIDE DEF me
  <2> QED BY <1>1, <1>4, <2>1, ClockFits
<1>9. CASE Box!LoadFacts(p)
  <2>1. CASE Box!ValidFacts(me.view, db.facts)
    <3>1. me.pc = "facts" /\ proc' = [proc EXCEPT ![p] = [me EXCEPT !.pc = "operations",
                                                                    !.view.facts = db.facts]]
      BY <1>1, <1>9, <2>1 DEF Box!LoadFacts
    <3> HIDE DEF me
    <3> QED BY <1>1, <1>4, <2>1, <3>1, FactsFit
  <2>2. CASE ~Box!ValidFacts(me.view, db.facts)
    <3>1. Box!Leave(p)
      BY <1>9, <2>2 DEF Box!LoadFacts
    <3> QED
      BY <1>2, <3>1, OneLeaves, Stays DEF Same
  <2> QED
    BY <2>1, <2>2
<1>10. CASE Box!SimulateHour(p)
  <2> DEFINE next == Box!HourStep(me.view)
  <2>1. /\ me.pc = "simulating" /\ me.left > 0
        /\ proc' = [proc EXCEPT ![p] =
               [me EXCEPT !.view = next, !.left = @ - 1,
                          !.new = @ \union {f \in next.facts : f.at > me.view.clock}]]
    BY <1>1, <1>10 DEF Box!SimulateHour
  <2>2. Len(RuleOrder) \in Nat
    BY DEF Box!StoreAssumption, Box!HistoryAssumption
  <2>3. next = Box!HourStep(me.view)
    OBVIOUS
  <2> HIDE DEF me, next
  <2> QED BY <1>1, <1>4, <2>1, <2>2, <2>3, HourFits
<1>11. ASSUME NEW n \in 1..MaxAdvanceHours, Box!Start(p, n) PROVE Fitting'
  <2>1. /\ me.pc = "loaded" /\ me.job = "advance"
        /\ proc' = [proc EXCEPT ![p] = [me EXCEPT !.pc = "simulating", !.left = n]]
    BY <1>1, <1>11 DEF Box!Start
  <2>2. n \in Nat
    BY DEF Box!StoreAssumption, Box!HistoryAssumption
  <2> HIDE DEF me
  <2> QED BY <1>1, <1>4, <2>1, <2>2, StartFits
<1> QED
  BY <1>5, <1>6, <1>7, <1>8, <1>9, <1>10, <1>11 DEF Copying

\* Beginnings and ends of calls.
Coming(p) ==
    \/ Box!Read(p) \/ \E job \in Box!Writers : Box!Lease(p, job)
    \/ Box!Answer(p) \/ Box!Refuse(p) \/ Box!Release(p) \/ Box!Crash(p)

LEMMA ComingHolds ==
    ASSUME Fitting, Box!StoreAssumption, NEW p \in Handler, Coming(p)
    PROVE  Fitting' /\ db' = db
<1> DEFINE me == proc[p]
<1>1. EnvFits(db) /\ Fits(me, db) /\ p \in DOMAIN proc
  BY DEF Fitting
<1>2. db' = db
  BY DEF Coming, Box!Read, Box!Lease, Box!Answer, Box!Refuse, Box!Release, Box!Crash
<1>3. lease' \in Handler \union {None} /\ crashes' \in 0..MaxCrashes
  <2>1. lease \in Handler \union {None} /\ crashes \in 0..MaxCrashes /\ MaxCrashes \in Nat
    BY DEF Fitting, Box!StoreAssumption
  <2>2. lease' \in {lease, p, None}
    BY DEF Coming, Box!Read, Box!Lease, Box!Answer, Box!Refuse, Box!Release, Box!Crash
  <2>3. crashes' = crashes \/ (crashes < MaxCrashes /\ crashes' = crashes + 1)
    BY DEF Coming, Box!Read, Box!Lease, Box!Answer, Box!Refuse, Box!Release, Box!Crash
  <2>4. crashes' \in 0..MaxCrashes
    BY ONLY <2>1, <2>3
  <2>5. lease' \in Handler \union {None}
    BY ONLY <2>1, <2>2
  <2> QED
    BY <2>4, <2>5
<1>4. ASSUME NEW x, proc' = [proc EXCEPT ![p] = x], Fits(x, db) PROVE Fitting'
  BY <1>2, <1>3, <1>4, OneReads
<1>5. CASE Box!Read(p)
  <2>1. me.pc = "idle" /\ proc' = [proc EXCEPT ![p] = [me EXCEPT !.pc = "policy", !.job = "read"]]
    BY <1>1, <1>5 DEF Box!Read
  <2> HIDE DEF me
  <2> QED BY <1>1, <1>2, <1>4, <2>1, BegunFits
<1>6. ASSUME NEW job \in Box!Writers, Box!Lease(p, job) PROVE Fitting'
  <2> DEFINE entry == IF job = "settings" THEN "loaded" ELSE "policy"
  <2>1. me.pc = "idle" /\ proc' = [proc EXCEPT ![p] = [me EXCEPT !.pc = entry, !.job = job]]
    BY <1>1, <1>6 DEF Box!Lease
  <2>2. \/ entry = "policy" /\ job \in {"read", "advance", "write", "operation"}
        \/ entry = "loaded" /\ job = "settings"
    BY DEF Box!Writers
  <2> HIDE DEF me, entry
  <2> QED BY <1>1, <1>4, <2>1, <2>2, BegunFits
<1>7. CASE Box!Answer(p) \/ Box!Refuse(p)
  BY <1>2, <1>7, OneLeaves, Stays DEF Box!Answer, Box!Refuse, Same
<1>8. CASE Box!Release(p) \/ Box!Crash(p)
  <2>1. proc' = [proc EXCEPT ![p] = Box!Idle]
    BY <1>8 DEF Box!Release, Box!Crash
  <2>2. Fits(Box!Idle, db)
    BY <1>1, GoneFits DEF Gone
  <2> QED BY <1>2, <1>4, <2>1, <2>2
<1> QED
  BY <1>2, <1>5, <1>6, <1>7, <1>8 DEF Coming

LEMMA FittingNext ==
    ASSUME Fitting, Box!StoreAssumption, [Box!Next]_(Box!vars)
    PROVE  Fitting' /\ Onward(db, db')
<1>1. ASSUME NEW p \in Handler, Copying(p) PROVE Fitting' /\ Onward(db, db')
  <2>1. db' = db
    BY <1>1 DEF Copying, Box!LoadPolicy, Box!LoadUnits, Box!LoadClock, Box!LoadFacts,
                Box!LoadOperations, Box!SimulateHour, Box!Start
  <2> QED
    BY <1>1, <2>1, CopyingHolds, Stays DEF Same
<1>2. ASSUME NEW p \in Handler, Coming(p) PROVE Fitting' /\ Onward(db, db')
  BY <1>2, ComingHolds, Stays DEF Same
<1>3. CASE Box!Lapse
  <2>1. db' = db /\ proc' = proc /\ crashes' = crashes /\ lease' = None
    BY <1>3 DEF Box!Lapse
  <2> QED
    BY <2>1, Stays DEF Fitting, Same
<1>4. CASE UNCHANGED Box!vars
  BY <1>4, Stays DEF Box!vars, Fitting, Same
<1> QED
  BY <1>1, <1>2, <1>3, <1>4, CommitHolds, SaveHolds DEF Box!Next, Copying, Coming

LEMMA FittingAlways == Box!StoreAssumption => (Box!Spec => []Fitting)
<1> SUFFICES ASSUME Box!StoreAssumption PROVE Box!Spec => []Fitting
  OBVIOUS
<1>1. Fitting /\ [Box!Next]_(Box!vars) => Fitting'
  BY FittingNext
<1>2. Box!Init => Fitting
  BY FittingInit
<1> QED
  BY <1>1, <1>2, PTL DEF Box!Spec

LEMMA SandboxTypes == Fitting => Box!TypeOK
  BY DEF Fitting, EnvFits, Fits, InOrder, Loading, Box!TypeOK

\* The state of the Sandbox has its types.
THEOREM SandboxTypeCorrect == Box!StoreAssumption => (Box!Spec => []Box!TypeOK)
  BY FittingAlways, SandboxTypes, PTL

LEMMA TimelineFollows == Fitting => Box!TimelineWhole /\ Box!LoadsAgree
<1>1. Fitting => Box!TimelineWhole
  BY DEF Fitting, EnvFits, Whole, Box!TimelineWhole
<1>2. ASSUME Fitting PROVE Box!LoadsAgree
  <2>1. SUFFICES ASSUME NEW p \in Handler, proc[p].pc \in Box!Restored, proc[p].job # "settings"
                 PROVE  proc[p].view.facts \ proc[p].new = {f \in db.facts : f.at <= proc[p].base}
    BY DEF Box!LoadsAgree
  <2>2. Copies(proc[p], db) /\ proc[p].base \in Nat
    BY <1>2, <2>1 DEF Fitting, Fits
  <2>3. \A f \in proc[p].new : f.at \in Nat /\ ~(f.at <= proc[p].base)
    BY <2>2 DEF Copies, Continues, Whole
  <2> QED
    BY <2>2, <2>3 DEF Copies
<1> QED
  BY <1>1, <1>2

\* Also when leases run out under advances that still work: the facts are whole hours up to
\* the clock, one for each ad and hour, without gaps, and a load that is accepted has read
\* clock and facts of one moment (store/store.go:413, sandbox/simulation.go:83).
THEOREM TimelineHolds ==
    Box!StoreAssumption => (Box!Spec => [](Box!TimelineWhole /\ Box!LoadsAgree))
  BY TimelineFollows, FittingAlways, PTL

LEMMA GrowsOnly ==
    ASSUME Box!StoreAssumption PROVE Fitting /\ [Box!Next]_(Box!vars) => [Box!Grows]_db
  BY FittingNext DEF Onward, Box!Grows

\* No commit, however late, takes an hour or the clock back (store/store.go:426).
THEOREM HistoryOnlyGrows == Box!StoreAssumption => (Box!Spec => Box!HistoryGrows)
<1> SUFFICES ASSUME Box!StoreAssumption PROVE Box!Spec => Box!HistoryGrows
  OBVIOUS
<1> QED
  BY GrowsOnly, FittingAlways, PTL DEF Box!Spec, Box!HistoryGrows

-----------------------------------------------------------------------------
(* The refinement, when a lease outlasts the call that took it: nothing    *)
(* that a writer has read of the environment changes until it commits.     *)

Holds(x, p, holder) == x.job \in Box!Writers \/ x.pc = "releasing" => holder = p

\* A writer's copy is the environment as it is, or what so many hours make of it.
Fresh(x, env) ==
    x.job \in {"advance", "write", "operation"} =>
       /\ x.pc \in {"units", "clock", "facts", "operations", "loaded"} =>
             x.view.policy = env.policy
       /\ x.pc \in {"clock", "facts", "operations", "loaded"} => x.view.units = env.units
       /\ x.pc \in {"facts", "operations", "loaded", "simulating"} => x.base = env.clock
       /\ x.pc \in {"facts", "operations", "loaded"} => x.view.clock = env.clock
       /\ x.pc \in {"operations", "loaded"} => x.view.facts = env.facts
       /\ x.pc = "loaded" => x.view = env
       /\ x.pc = "simulating" =>
             \E n \in 1..MaxAdvanceHours :
                /\ x.left <= n /\ Box!GeneratedHours(env.facts) + n <= MaxGeneratedHours
                /\ x.view = Box!Simulated(env, n - x.left)

Leased ==
    /\ Fitting
    /\ \A p \in Handler : Holds(proc[p], p, lease) /\ Fresh(proc[p], db)

LEMMA GoneIsFresh == ASSUME NEW x, NEW env, Gone(x), Box!StoreAssumption PROVE Fresh(x, env)
<1>1. x.job = None
  BY DEF Gone, Box!Idle
<1>2. None \notin {"advance", "write", "operation"}
  BY DEF Box!StoreAssumption, Box!Writers
<1> QED
  BY <1>1, <1>2 DEF Fresh

\* A load under the lease, and hours on its copy.
LEMMA LoadIsFresh ==
    ASSUME NEW x, NEW env, EnvFits(env), Fits(x, env), Fresh(x, env), NEW y,
           \/ x.pc = "policy" /\ y = [x EXCEPT !.pc = "units", !.view.policy = env.policy]
           \/ x.pc = "units" /\ y = [x EXCEPT !.pc = "clock", !.view.units = env.units]
           \/ x.pc = "clock" /\ y = [x EXCEPT !.pc = "facts", !.view.clock = env.clock,
                                             !.base = env.clock]
           \/ x.pc = "facts" /\ y = [x EXCEPT !.pc = "operations", !.view.facts = env.facts]
           \/ x.pc = "operations" /\ y = [x EXCEPT !.pc = "loaded", !.view.ops = env.ops]
    PROVE  Fresh(y, env)
<1>1. /\ x = [pc |-> x.pc, job |-> x.job, view |-> x.view, base |-> x.base, new |-> x.new,
              left |-> x.left]
      /\ x.view = [policy |-> x.view.policy, units |-> x.view.units, clock |-> x.view.clock,
                   facts |-> x.view.facts, ops |-> x.view.ops]
  BY DEF Fits, HasFields
<1>2. CASE x.pc = "policy" /\ y = [x EXCEPT !.pc = "units", !.view.policy = env.policy]
  <2>1. y.pc = "units" /\ y.job = x.job /\ y.view.policy = env.policy
    BY ONLY <1>1, <1>2
  <2> QED
    BY <2>1 DEF Fresh
<1>3. CASE x.pc = "units" /\ y = [x EXCEPT !.pc = "clock", !.view.units = env.units]
  <2>1. /\ y.pc = "clock" /\ y.job = x.job /\ y.view.policy = x.view.policy
        /\ y.view.units = env.units
    BY ONLY <1>1, <1>3
  <2> QED
    BY <1>3, <2>1 DEF Fresh
<1>4. CASE x.pc = "clock" /\ y = [x EXCEPT !.pc = "facts", !.view.clock = env.clock,
                                           !.base = env.clock]
  <2>1. /\ y.pc = "facts" /\ y.job = x.job /\ y.view.policy = x.view.policy
        /\ y.view.units = x.view.units /\ y.view.clock = env.clock /\ y.base = env.clock
    BY ONLY <1>1, <1>4
  <2> QED
    BY <1>4, <2>1 DEF Fresh
<1>5. CASE x.pc = "facts" /\ y = [x EXCEPT !.pc = "operations", !.view.facts = env.facts]
  <2>1. /\ y.pc = "operations" /\ y.job = x.job /\ y.view.policy = x.view.policy
        /\ y.view.units = x.view.units /\ y.view.clock = x.view.clock /\ y.base = x.base
        /\ y.view.facts = env.facts
    BY ONLY <1>1, <1>5
  <2> QED
    BY <1>5, <2>1 DEF Fresh
<1>6. CASE x.pc = "operations" /\ y = [x EXCEPT !.pc = "loaded", !.view.ops = env.ops]
  <2>1. /\ y.pc = "loaded" /\ y.job = x.job /\ y.base = x.base
        /\ y.view = [policy |-> x.view.policy, units |-> x.view.units, clock |-> x.view.clock,
                     facts |-> x.view.facts, ops |-> env.ops]
    BY ONLY <1>1, <1>6
  <2>2. /\ y.view.policy = x.view.policy /\ y.view.units = x.view.units
        /\ y.view.clock = x.view.clock /\ y.view.facts = x.view.facts
    BY ONLY <2>1
  <2>3. ASSUME x.job \in {"advance", "write", "operation"} PROVE y.view = env
    <3>1. /\ x.view.policy = env.policy /\ x.view.units = env.units
          /\ x.view.clock = env.clock /\ x.view.facts = env.facts
      BY <1>6, <2>3 DEF Fresh
    <3> QED
      BY <2>1, <3>1 DEF EnvFits, IsEnv, HasFields
  <2> QED
    BY <1>6, <2>1, <2>2, <2>3 DEF Fresh
<1> QED
  BY <1>2, <1>3, <1>4, <1>5, <1>6

LEMMA StartIsFresh ==
    ASSUME NEW x, NEW env, Fits(x, env), Fresh(x, env), NEW y, NEW n \in 1..MaxAdvanceHours,
           MaxAdvanceHours \in Nat, x.pc = "loaded", x.job = "advance",
           Box!GeneratedHours(x.view.facts) + n <= MaxGeneratedHours,
           y = [x EXCEPT !.pc = "simulating", !.left = n]
    PROVE  Fresh(y, env)
<1>1. /\ y = [pc |-> "simulating", job |-> x.job, view |-> x.view, base |-> x.base, new |-> x.new,
              left |-> n]
  BY DEF Fits
<1>2. y.pc = "simulating" /\ y.job = x.job /\ y.view = x.view /\ y.base = x.base /\ y.left = n
  BY ONLY <1>1
<1>3. x.view = env /\ x.base = env.clock
  BY DEF Fresh
<1>4. Box!Simulated(env, 0) = env
  BY HourAfterHour
<1>5. y.left <= n /\ n - y.left = 0
  BY <1>2
<1>6. Box!GeneratedHours(env.facts) + n <= MaxGeneratedHours
  BY <1>3
<1> QED
  BY <1>2, <1>3, <1>4, <1>5, <1>6 DEF Fresh

LEMMA HourIsFresh ==
    ASSUME NEW x, NEW env, Fits(x, env), Fresh(x, env), NEW y, NEW new, x.pc = "simulating",
           MaxAdvanceHours \in Nat, x.left > 0,
           y = [x EXCEPT !.view = Box!HourStep(x.view), !.left = @ - 1, !.new = new]
    PROVE  Fresh(y, env)
<1> DEFINE next == Box!HourStep(x.view)
<1>1. y = [pc |-> "simulating", job |-> x.job, view |-> next, base |-> x.base, new |-> new,
           left |-> x.left - 1]
  BY DEF Fits
<1> HIDE DEF next
<1>2. /\ y.pc = "simulating" /\ y.job = x.job /\ y.view = next /\ y.base = x.base
      /\ y.left = x.left - 1
  BY ONLY <1>1
<1>3. x.job = "advance" /\ x.left \in Nat
  BY DEF Fits, InOrder, Loading
<1>4. /\ x.base = env.clock
      /\ \E n \in 1..MaxAdvanceHours :
            /\ x.left <= n /\ Box!GeneratedHours(env.facts) + n <= MaxGeneratedHours
            /\ x.view = Box!Simulated(env, n - x.left)
  BY <1>3 DEF Fresh
<1>5. PICK n \in 1..MaxAdvanceHours :
            /\ x.left <= n /\ Box!GeneratedHours(env.facts) + n <= MaxGeneratedHours
            /\ x.view = Box!Simulated(env, n - x.left)
  BY <1>4
<1>6. n - x.left \in Nat /\ (n - x.left) + 1 = n - y.left /\ y.left <= n
  BY <1>2, <1>3, <1>5
<1>7. Box!Simulated(env, (n - x.left) + 1) = Box!HourStep(Box!Simulated(env, n - x.left))
  BY <1>6, HourAfterHour
<1>8. y.view = Box!Simulated(env, n - y.left)
  BY <1>2, <1>5, <1>6, <1>7 DEF next
<1> QED
  BY <1>2, <1>3, <1>4, <1>5, <1>6, <1>8 DEF Fresh

LEMMA LeasedInit == Box!StoreAssumption => (Box!Init => Leased)
<1> SUFFICES ASSUME Box!StoreAssumption, Box!Init PROVE Leased
  OBVIOUS
<1>1. ASSUME NEW p \in Handler PROVE proc[p] = Box!Idle
  BY DEF Box!Init
<1>2. Box!Idle.job = None /\ Box!Idle.pc = "idle" /\ None \notin Box!Writers /\ Gone(Box!Idle)
  BY DEF Box!Idle, Box!StoreAssumption, Gone
<1> QED
  BY <1>1, <1>2, GoneIsFresh, FittingInit DEF Leased, Holds

\* A step of p keeps the others' leases and, unless p writes under its own, their copies fresh.
LEMMA OneActs ==
    ASSUME Box!StoreAssumption, Leased, Fitting', NEW p \in Handler, NEW x,
           proc' = [proc EXCEPT ![p] = x],
           Fresh(x, db'), Holds(x, p, lease'),
           lease' = lease \/ lease = None \/ lease = p,
           db' = db \/ proc[p].job \in Box!Writers
    PROVE  Leased'
<1>1. proc'[p] = x /\ \A q \in Handler : q # p => proc'[q] = proc[q]
  BY DEF Leased, Fitting
<1>2. ASSUME NEW q \in Handler, q # p PROVE Holds(proc[q], q, lease') /\ Fresh(proc[q], db')
  <2>1. CASE proc[q].job \in Box!Writers \/ proc[q].pc = "releasing"
    <3>1. lease = q
      BY <2>1 DEF Leased, Holds
    <3>3. proc[p].job \notin Box!Writers
      BY <1>2, <3>1 DEF Leased, Holds
    <3>4. db' = db
      BY <3>3
    <3>5. lease' = q
      BY <3>1, <1>2 DEF Box!StoreAssumption
    <3> QED
      BY <3>4, <3>5 DEF Leased, Holds
  <2>2. CASE ~(proc[q].job \in Box!Writers \/ proc[q].pc = "releasing")
    BY <2>2 DEF Holds, Fresh, Box!Writers
  <2> QED
    BY <2>1, <2>2
<1>3. \A q \in Handler : (Holds(proc[q], q, lease) /\ Fresh(proc[q], db))'
  BY <1>1, <1>2
<1> QED
  BY <1>3 DEF Leased

\* A call that returns keeps its lease until it releases it.
LEMMA LeavesLeased ==
    ASSUME Box!StoreAssumption, Leased, Fitting', NEW p \in Handler, Box!Leave(p),
           proc[p].pc \notin {"idle", "releasing"}, lease' = lease,
           db' = db \/ proc[p].job \in Box!Writers
    PROVE  Leased'
<1>1. PICK x : /\ Gone(x) /\ proc' = [proc EXCEPT ![p] = x]
               /\ proc[p].job = "read" => x = Box!Idle
  BY DEF Box!Leave, Gone
<1>2. proc[p].job \in {"read"} \union Box!Writers
  BY DEF Leased, Fitting, Fits, InOrder, Box!Writers
<1>3. Fresh(x, db')
  BY <1>1, GoneIsFresh
<1>4. Holds(x, p, lease')
  <2>1. CASE proc[p].job = "read"
    BY <1>1, <2>1 DEF Holds, Box!Idle, Box!StoreAssumption
  <2>2. CASE proc[p].job \in Box!Writers
    BY <2>2 DEF Leased, Holds
  <2> QED
    BY <1>2, <2>1, <2>2
<1> QED
  BY <1>1, <1>3, <1>4, OneActs

LEMMA CopyingLeased ==
    ASSUME Box!StoreAssumption, Leased, Fitting', NEW p \in Handler, Copying(p)
    PROVE  Leased' /\ db' = db
<1> DEFINE me == proc[p]
<1>1. /\ EnvFits(db) /\ Fits(me, db) /\ p \in DOMAIN proc /\ Fresh(me, db) /\ Holds(me, p, lease)
      /\ MaxAdvanceHours \in Nat
  BY DEF Leased, Fitting, Box!StoreAssumption, Box!HistoryAssumption
<1>2. db' = db /\ lease' = lease
  BY DEF Copying, Box!LoadPolicy, Box!LoadUnits, Box!LoadClock, Box!LoadFacts,
         Box!LoadOperations, Box!SimulateHour, Box!Start
<1>3. ASSUME NEW x, proc' = [proc EXCEPT ![p] = x], Fresh(x, db), x.job = me.job,
             x.pc # "releasing"
      PROVE  Leased'
  <2>1. Holds(x, p, lease')
    BY <1>1, <1>2, <1>3 DEF Holds
  <2> QED
    BY <1>2, <1>3, <2>1, OneActs
<1>4. me = [pc |-> me.pc, job |-> me.job, view |-> me.view, base |-> me.base, new |-> me.new,
            left |-> me.left]
  BY <1>1 DEF Fits
<1>5. CASE Box!LoadPolicy(p)
  <2> DEFINE y == [me EXCEPT !.pc = "units", !.view.policy = db.policy]
  <2>1. me.pc = "policy" /\ proc' = [proc EXCEPT ![p] = y]
    BY <1>1, <1>5 DEF Box!LoadPolicy
  <2>2. y.job = me.job /\ y.pc = "units"
    BY <1>4
  <2> HIDE DEF me
  <2>3. Fresh(y, db)
    BY <1>1, <2>1, LoadIsFresh
  <2> HIDE DEF y
  <2> QED BY <1>2, <1>3, <2>1, <2>2, <2>3
<1>6. CASE Box!LoadUnits(p)
  <2> DEFINE y == [me EXCEPT !.pc = "clock", !.view.units = db.units]
  <2>1. me.pc = "units" /\ proc' = [proc EXCEPT ![p] = y]
    BY <1>1, <1>6 DEF Box!LoadUnits
  <2>2. y.job = me.job /\ y.pc = "clock"
    BY <1>4
  <2> HIDE DEF me
  <2>3. Fresh(y, db)
    BY <1>1, <2>1, LoadIsFresh
  <2> HIDE DEF y
  <2> QED BY <1>2, <1>3, <2>1, <2>2, <2>3
<1>7. CASE Box!LoadClock(p)
  <2> DEFINE y == [me EXCEPT !.pc = "facts", !.view.clock = db.clock, !.base = db.clock]
  <2>1. me.pc = "clock" /\ proc' = [proc EXCEPT ![p] = y]
    BY <1>1, <1>7 DEF Box!LoadClock
  <2>2. y.job = me.job /\ y.pc = "facts"
    BY <1>4
  <2> HIDE DEF me
  <2>3. Fresh(y, db)
    BY <1>1, <2>1, LoadIsFresh
  <2> HIDE DEF y
  <2> QED BY <1>2, <1>3, <2>1, <2>2, <2>3
<1>8. CASE Box!LoadFacts(p)
  <2>1. CASE Box!ValidFacts(me.view, db.facts)
    <3> DEFINE y == [me EXCEPT !.pc = "operations", !.view.facts = db.facts]
    <3>1. me.pc = "facts" /\ proc' = [proc EXCEPT ![p] = y]
      BY <1>1, <1>8, <2>1 DEF Box!LoadFacts
    <3>2. y.job = me.job /\ y.pc = "operations"
      BY <1>4
    <3> HIDE DEF me
    <3>3. Fresh(y, db)
      BY <1>1, <3>1, LoadIsFresh
    <3> HIDE DEF y
    <3> QED BY <1>2, <1>3, <3>1, <3>2, <3>3
  <2>2. CASE ~Box!ValidFacts(me.view, db.facts)
    <3>1. Box!Leave(p) /\ proc[p].pc = "facts"
      BY <1>8, <2>2 DEF Box!LoadFacts
    <3> QED
      BY <1>2, <3>1, LeavesLeased
  <2> QED
    BY <2>1, <2>2
<1>9. CASE Box!LoadOperations(p)
  <2> DEFINE y == [me EXCEPT !.pc = "loaded", !.view.ops = db.ops]
  <2>1. me.pc = "operations" /\ proc' = [proc EXCEPT ![p] = y]
    BY <1>1, <1>9 DEF Box!LoadOperations
  <2>2. y.job = me.job /\ y.pc = "loaded"
    BY <1>4
  <2> HIDE DEF me
  <2>3. Fresh(y, db)
    BY <1>1, <2>1, LoadIsFresh
  <2> HIDE DEF y
  <2> QED BY <1>2, <1>3, <2>1, <2>2, <2>3
<1>10. ASSUME NEW n \in 1..MaxAdvanceHours, Box!Start(p, n) PROVE Leased'
  <2> DEFINE y == [me EXCEPT !.pc = "simulating", !.left = n]
  <2>1. /\ me.pc = "loaded" /\ me.job = "advance" /\ proc' = [proc EXCEPT ![p] = y]
        /\ Box!GeneratedHours(me.view.facts) + n <= MaxGeneratedHours
    BY <1>1, <1>10 DEF Box!Start
  <2>2. y.job = me.job /\ y.pc = "simulating"
    BY <1>4
  <2> HIDE DEF me
  <2>3. Fresh(y, db)
    BY <1>1, <2>1, StartIsFresh
  <2> HIDE DEF y
  <2> QED BY <1>2, <1>3, <2>1, <2>2, <2>3
<1>11. CASE Box!SimulateHour(p)
  <2> DEFINE new == me.new \union {f \in Box!HourStep(me.view).facts : f.at > me.view.clock}
             y == [me EXCEPT !.view = Box!HourStep(me.view), !.left = @ - 1, !.new = new]
  <2>1. me.pc = "simulating" /\ me.left > 0 /\ proc' = [proc EXCEPT ![p] = y]
    BY <1>1, <1>11 DEF Box!SimulateHour
  <2>2. y.job = me.job /\ y.pc = "simulating"
    BY <1>4, <2>1
  <2> HIDE DEF me, new
  <2>3. Fresh(y, db)
    BY <1>1, <2>1, HourIsFresh
  <2> HIDE DEF y
  <2> QED BY <1>2, <1>3, <2>1, <2>2, <2>3
<1>12. Leased'
  BY <1>5, <1>6, <1>7, <1>8, <1>9, <1>10, <1>11 DEF Copying
<1> QED
  BY <1>2, <1>12

LEMMA ComingLeased ==
    ASSUME Box!StoreAssumption, Leased, Fitting', NEW p \in Handler, Coming(p)
    PROVE  Leased'
<1> DEFINE me == proc[p]
<1>1. /\ EnvFits(db) /\ Fits(me, db) /\ p \in DOMAIN proc /\ Fresh(me, db) /\ Holds(me, p, lease)
  BY DEF Leased, Fitting
<1>2. db' = db
  BY DEF Coming, Box!Read, Box!Lease, Box!Answer, Box!Refuse, Box!Release, Box!Crash
<1>3. ASSUME NEW x, proc' = [proc EXCEPT ![p] = x], Fresh(x, db), Holds(x, p, lease'),
             lease' = lease \/ lease = None \/ lease = p
      PROVE  Leased'
  BY <1>2, <1>3, OneActs
<1>4. me = [pc |-> me.pc, job |-> me.job, view |-> me.view, base |-> me.base, new |-> me.new,
            left |-> me.left]
  BY <1>1 DEF Fits
<1>5. CASE Box!Read(p)
  <2> DEFINE y == [me EXCEPT !.pc = "policy", !.job = "read"]
  <2>1. proc' = [proc EXCEPT ![p] = y] /\ lease' = lease
    BY <1>1, <1>5 DEF Box!Read
  <2>2. y.pc = "policy" /\ y.job = "read"
    BY <1>4
  <2> HIDE DEF y
  <2>3. Fresh(y, db) /\ Holds(y, p, lease')
    BY <2>2 DEF Fresh, Holds, Box!Writers
  <2> QED BY <1>3, <2>1, <2>3
<1>6. ASSUME NEW job \in Box!Writers, Box!Lease(p, job) PROVE Leased'
  <2> DEFINE entry == IF job = "settings" THEN "loaded" ELSE "policy"
             y == [me EXCEPT !.pc = entry, !.job = job]
  <2>1. proc' = [proc EXCEPT ![p] = y] /\ lease' = p /\ lease = None
    BY <1>1, <1>6 DEF Box!Lease
  <2>2. y.pc = entry /\ y.job = job
    BY <1>4
  <2> HIDE DEF y
  <2>3. Fresh(y, db) /\ Holds(y, p, lease')
    BY <2>1, <2>2 DEF Fresh, Holds
  <2> QED BY <1>3, <2>1, <2>3
<1>7. CASE Box!Answer(p) \/ Box!Refuse(p)
  <2>1. Box!Leave(p) /\ lease' = lease /\ proc[p].pc \notin {"idle", "releasing"}
    BY <1>7 DEF Box!Answer, Box!Refuse
  <2> QED
    BY <1>2, <2>1, LeavesLeased
<1>8. CASE Box!Release(p) \/ Box!Crash(p)
  <2>1. proc' = [proc EXCEPT ![p] = Box!Idle] /\ (lease' = lease \/ lease = p)
    BY <1>8 DEF Box!Release, Box!Crash
  <2>2. Fresh(Box!Idle, db)
    BY GoneIsFresh DEF Gone
  <2>3. Holds(Box!Idle, p, lease')
    BY DEF Holds, Box!Idle, Box!StoreAssumption
  <2> QED BY <1>3, <2>1, <2>2, <2>3
<1> QED
  BY <1>5, <1>6, <1>7, <1>8 DEF Coming

-----------------------------------------------------------------------------
(* Commits are the steps of SandboxHistory. *)

LEMMA UpsertSame ==
    ASSUME NEW rows, NEW table, UnitsFit(rows), DOMAIN table \subseteq DOMAIN rows
    PROVE  Box!Upsert(rows, table) = rows
<1>1. Box!Upsert(rows, table) = [u \in DOMAIN rows |-> rows[u]]
  BY DEF Box!Upsert
<1> QED
  BY <1>1 DEF UnitsFit

\* Two environments with the same fields.
LEMMA EnvsEqual ==
    ASSUME NEW env, NEW now, HasFields(env), HasFields(now), now.policy = env.policy,
           now.units = env.units, now.clock = env.clock, now.facts = env.facts, now.ops = env.ops
    PROVE  now = env
  BY DEF HasFields

\* What a writer commits of a copy that is fresh: an advance is so many hours on the
\* environment.
LEMMA CommitIsAdvance ==
    ASSUME Box!StoreAssumption, Leased, NEW p \in Handler, Box!CommitAdvance(p), db' # db
    PROVE  \E n \in 1..MaxAdvanceHours : Box!Advance(n)
<1> DEFINE me == proc[p]
<1>1. /\ EnvFits(db) /\ IsEnv(db) /\ HasFields(db) /\ Fits(me, db) /\ Fresh(me, db)
      /\ Len(RuleOrder) \in Nat /\ MaxAdvanceHours \in Nat
  BY DEF Leased, Fitting, EnvFits, IsEnv, Box!StoreAssumption, Box!HistoryAssumption
<1>2. /\ me.pc = "simulating" /\ me.left = 0
      /\ db' = [db EXCEPT !.clock = me.view.clock, !.facts = @ \union me.new,
                          !.units = Box!Upsert(me.view.units, @), !.ops = me.view.ops]
  BY DEF Box!CommitAdvance
<1> HIDE DEF me
<1>3. me.job = "advance"
  BY <1>1, <1>2 DEF Fits, InOrder, Loading
<1>4. me.base = db.clock
  BY <1>1, <1>2, <1>3 DEF Fresh
<1>5. PICK n \in 1..MaxAdvanceHours :
         /\ me.left <= n /\ Box!GeneratedHours(db.facts) + n <= MaxGeneratedHours
         /\ me.view = Box!Simulated(db, n - me.left)
  BY <1>1, <1>2, <1>3 DEF Fresh
<1>6. me.view = Box!Simulated(db, n) /\ n \in Nat
  <2>1. n \in Nat /\ n - me.left = n
    BY <1>1, <1>2
  <2> QED
    BY <1>5, <2>1
<1>7. SameUnits(db, me.view)
  BY <1>1, <1>6, AdvanceTurn
<1> DEFINE after == Box!Upsert(me.view.units, db.units)
<1>8. after = me.view.units
  BY <1>7, UpsertSame DEF SameUnits, IsEnv, UnitsFit
<1> HIDE DEF after
<1>9. me.view.facts = db.facts \union me.new
  <2>1. Copies(me, db)
    BY <1>1, <1>2, <1>3 DEF Fits, Box!Restored
  <2>2. {f \in db.facts : f.at <= me.base} = db.facts
    BY <1>1, <1>4 DEF EnvFits, Whole
  <2> QED
    BY <2>1, <2>2 DEF Copies
<1>10. db' = [policy |-> db.policy, units |-> after, clock |-> me.view.clock,
              facts |-> db.facts \union me.new, ops |-> me.view.ops]
  <2>1. db' = [db EXCEPT !.clock = me.view.clock, !.facts = @ \union me.new,
                         !.units = after, !.ops = me.view.ops]
    BY <1>2 DEF after
  <2>2. db = [policy |-> db.policy, units |-> db.units, clock |-> db.clock,
              facts |-> db.facts, ops |-> db.ops]
    BY <1>1 DEF HasFields
  <2> QED
    BY ONLY <2>1, <2>2
<1>11. db' = me.view
  <2>1. /\ db'.policy = db.policy /\ db'.units = after /\ db'.clock = me.view.clock
        /\ db'.facts = db.facts \union me.new /\ db'.ops = me.view.ops
        /\ HasFields(db')
    BY <1>10 DEF HasFields
  <2>2. me.view.policy = db.policy /\ HasFields(me.view)
    BY <1>7 DEF SameUnits, IsEnv
  <2> QED
    BY <1>8, <1>9, <2>1, <2>2, EnvsEqual
<1>12. Box!Advance(n)
  BY <1>5, <1>6, <1>11 DEF Box!Advance
<1> QED
  BY <1>12

LEMMA SaveIsWrite ==
    ASSUME Leased, NEW p \in Handler, NEW u \in Unit, Box!SaveUnit(p, u)
    PROVE  Box!WriteUnit(u)
<1>1. IsEnv(db) /\ HasFields(db) /\ proc[p].view = db
  BY DEF Leased, Fitting, EnvFits, IsEnv, Fresh, Box!SaveUnit
<1>2. u \in DOMAIN db.units
  BY <1>1 DEF Box!SaveUnit
<1>3. PICK e \in Box!Rewrites(db.units[u]) :
         db' = [db EXCEPT !.units = Box!Upsert([v \in {u} |-> e], @)]
  BY <1>1 DEF Box!SaveUnit
<1>4. Box!Upsert([v \in {u} |-> e], db.units) = [db.units EXCEPT ![u] = e]
  <2>1. DOMAIN [v \in {u} |-> e] = {u} /\ [v \in {u} |-> e][u] = e
    OBVIOUS
  <2>2. Box!Upsert([v \in {u} |-> e], db.units)
           = [v \in DOMAIN db.units |-> IF v = u THEN e ELSE db.units[v]]
    BY <1>2, <2>1 DEF Box!Upsert
  <2>3. [db.units EXCEPT ![u] = e]
           = [v \in DOMAIN db.units |-> IF v = u THEN e ELSE db.units[v]]
    BY <1>1, <1>2 DEF IsEnv
  <2> QED
    BY <2>2, <2>3
<1>5. db' = [db EXCEPT !.units[u] = e]
  BY <1>3, <1>4
<1> QED
  BY <1>2, <1>3, <1>5 DEF Box!WriteUnit

LEMMA SaveIsCreate ==
    ASSUME Leased, NEW p \in Handler, Box!SaveOperation(p)
    PROVE  (\E u \in Unit : Box!CreateUnit(u)) \/ (\E r \in Box!Rule : Box!CreateRule(r))
<1>1. IsEnv(db) /\ HasFields(db) /\ UnitsFit(db.units) /\ proc[p].view = db
  BY DEF Leased, Fitting, EnvFits, IsEnv, UnitsFit, Fresh, Box!SaveOperation
<1>2. ASSUME NEW env, db' = [db EXCEPT !.units = Box!Upsert(env.units, @), !.ops = env.ops],
             HasFields(env), UnitsFit(env.units), DOMAIN db.units \subseteq DOMAIN env.units,
             env.policy = db.policy, env.clock = db.clock, env.facts = db.facts
      PROVE  db' = env
  <2> DEFINE after == Box!Upsert(env.units, db.units)
  <2>1. after = env.units
    BY <1>2, UpsertSame
  <2>2. db' = [db EXCEPT !.units = after, !.ops = env.ops]
    BY <1>2
  <2> HIDE DEF after
  <2>3. db = [policy |-> db.policy, units |-> db.units, clock |-> db.clock,
              facts |-> db.facts, ops |-> db.ops]
    BY <1>1 DEF HasFields
  <2>4. db' = [policy |-> db.policy, units |-> after, clock |-> db.clock,
               facts |-> db.facts, ops |-> env.ops]
    BY ONLY <2>2, <2>3
  <2>5. /\ db'.policy = db.policy /\ db'.units = after /\ db'.clock = db.clock
        /\ db'.facts = db.facts /\ db'.ops = env.ops /\ HasFields(db')
    BY <2>4 DEF HasFields
  <2> QED
    BY <1>2, <2>1, <2>5, EnvsEqual
<1>3. ASSUME NEW u \in Unit, u \notin DOMAIN db.units, NEW env, env = Box!AddUnit(db, u),
             db' = [db EXCEPT !.units = Box!Upsert(env.units, @), !.ops = env.ops]
      PROVE  Box!CreateUnit(u)
  <2> DEFINE units == [v \in DOMAIN db.units \union {u} |->
                          IF v = u THEN Box!Created ELSE db.units[v]]
  <2>1. env = [db EXCEPT !.units = units]
    BY <1>3 DEF Box!AddUnit
  <2>2. UnitsFit(units) /\ DOMAIN db.units \subseteq DOMAIN units
    <3>1. \A v \in DOMAIN units : units[v] = [on |-> units[v].on, budget |-> units[v].budget]
      BY <1>1 DEF UnitsFit, Box!Created
    <3> QED
      BY <3>1 DEF UnitsFit
  <2> HIDE DEF units
  <2>3. /\ env.units = units /\ env.policy = db.policy /\ env.clock = db.clock
        /\ env.facts = db.facts /\ HasFields(env)
    BY <1>1, <2>1 DEF HasFields
  <2>4. db' = env
    BY <1>2, <1>3, <2>2, <2>3
  <2> QED
    BY <1>3, <2>4 DEF Box!CreateUnit
<1>4. ASSUME NEW r \in Box!Rule, r \notin DOMAIN db.ops.evaluated,
             RuleSpec[r].targets \subseteq DOMAIN db.units, NEW env, env = Box!AddRule(db, r),
             db' = [db EXCEPT !.units = Box!Upsert(env.units, @), !.ops = env.ops]
      PROVE  Box!CreateRule(r)
  <2>1. /\ env.units = db.units /\ env.policy = db.policy /\ env.clock = db.clock
        /\ env.facts = db.facts /\ HasFields(env)
    BY <1>1, <1>4 DEF Box!AddRule, HasFields
  <2>2. db' = env
    BY <1>1, <1>2, <1>4, <2>1
  <2> QED
    BY <1>4, <2>2 DEF Box!CreateRule
<1> QED
  BY <1>1, <1>3, <1>4 DEF Box!SaveOperation

LEMMA LeasedNext ==
    ASSUME Box!StoreAssumption, ~Slow, Leased, [Box!Next]_(Box!vars)
    PROVE  Leased' /\ [Box!HistoryNext]_db
<1>1. Fitting'
  BY FittingNext DEF Leased
<1>2. ASSUME NEW p \in Handler, Copying(p) PROVE Leased' /\ [Box!HistoryNext]_db
  BY <1>1, <1>2, CopyingLeased
<1>3. ASSUME NEW p \in Handler, Coming(p) PROVE Leased' /\ [Box!HistoryNext]_db
  <2>1. db' = db
    BY <1>3, ComingHolds DEF Leased
  <2> QED
    BY <1>1, <1>3, <2>1, ComingLeased
<1>4. ASSUME NEW p \in Handler, Box!CommitAdvance(p) PROVE Leased' /\ [Box!HistoryNext]_db
  <2>1. /\ Box!Leave(p) /\ lease' = lease /\ proc[p].pc = "simulating"
    BY <1>4 DEF Box!CommitAdvance
  <2>2. proc[p].job \in Box!Writers
    BY <2>1 DEF Leased, Fitting, Fits, InOrder, Loading, Box!Writers
  <2>3. Leased'
    BY <1>1, <2>1, <2>2, LeavesLeased
  <2>4. [Box!HistoryNext]_db
    BY <1>4, CommitIsAdvance DEF Box!HistoryNext
  <2> QED
    BY <2>3, <2>4
<1>5. ASSUME NEW p \in Handler,
             \/ \E u \in Unit : Box!SaveUnit(p, u)
             \/ Box!SaveOperation(p)
             \/ \E q \in Policies : Box!SavePolicy(p, q)
      PROVE  Leased' /\ [Box!HistoryNext]_db
  <2>1. /\ Box!Leave(p) /\ lease' = lease /\ proc[p].pc = "loaded"
        /\ proc[p].job \in Box!Writers
    BY <1>5 DEF Box!SaveUnit, Box!SaveOperation, Box!SavePolicy, Box!Writers
  <2>2. Leased'
    BY <1>1, <2>1, LeavesLeased
  <2>3. Box!HistoryNext
    BY <1>5, SaveIsWrite, SaveIsCreate DEF Box!HistoryNext, Box!SavePolicy, Box!SetPolicy
  <2> QED
    BY <2>2, <2>3
<1>6. CASE Box!Lapse
  <2>1. /\ db' = db /\ proc' = proc /\ lease' = None /\ lease \in Handler
        /\ proc[lease].pc = "idle" \/ proc[lease].job = "read"
    BY <1>6 DEF Box!Lapse, Leased, Fitting
  <2>2. Fits(proc[lease], db)
    BY <2>1 DEF Leased, Fitting
  <2>3. proc[lease].job \notin Box!Writers /\ proc[lease].pc # "releasing"
    BY <2>1, <2>2 DEF Fits, InOrder, Loading, Box!Writers, Box!StoreAssumption
  <2>4. \A q \in Handler : ~(proc[q].job \in Box!Writers \/ proc[q].pc = "releasing")
    BY <2>3 DEF Leased, Holds
  <2> QED
    BY <1>1, <2>1, <2>4 DEF Leased, Holds
<1>7. CASE UNCHANGED Box!vars
  BY <1>1, <1>7 DEF Box!vars, Leased
<1> QED
  BY <1>2, <1>3, <1>4, <1>5, <1>6, <1>7 DEF Box!Next, Copying, Coming

\* Every committed change is one atomic step of the whole environment, although a call reads
\* it in five statements and writes it minutes later: while a lease outlasts the call that
\* took it, whatever the number of processes that share the database (app/app.go:434).
THEOREM SandboxImplementsHistory ==
    Box!StoreAssumption /\ ~Slow => (Box!Spec => Box!ImplementsHistory)
<1> SUFFICES ASSUME Box!StoreAssumption, ~Slow PROVE Box!Spec => Box!ImplementsHistory
  OBVIOUS
<1>1. Box!Init => Leased /\ Box!HistoryInit
  BY LeasedInit DEF Box!Init
<1>2. Leased /\ [Box!Next]_(Box!vars) => Leased' /\ [Box!HistoryNext]_db
  BY LeasedNext
<1> QED
  BY <1>1, <1>2, PTL DEF Box!Spec, Box!ImplementsHistory, Box!HistorySpec

LEMMA PolicyKept ==
    ASSUME Box!StoreAssumption, ~Slow, Leased, [Box!Next]_(Box!vars)
    PROVE  [Box!AdvanceKeepsPolicy]_db
<1>1. SUFFICES ASSUME db'.clock # db.clock, db' # db, NEW u \in DOMAIN db.units,
                      db'.units[u].budget # db.units[u].budget
               PROVE  Box!WithinLimits(db.policy, db'.units[u].budget)
  BY DEF Box!AdvanceKeepsPolicy
<1>2. Box!HistoryNext
  BY <1>1, LeasedNext
<1>3. IsEnv(db) /\ HasFields(db) /\ Len(RuleOrder) \in Nat
  BY DEF Leased, Fitting, EnvFits, IsEnv, Box!StoreAssumption, Box!HistoryAssumption
<1>4. CASE \E n \in 1..MaxAdvanceHours : Box!Advance(n)
  <2>1. PICK n \in Nat : db' = Box!Simulated(db, n)
    BY <1>4 DEF Box!Advance
  <2> QED
    BY <1>1, <1>3, <2>1, AdvanceTurn DEF SameUnits
<1>5. CASE ~\E n \in 1..MaxAdvanceHours : Box!Advance(n)
  <2>1. db'.clock = db.clock
    BY <1>2, <1>3, <1>5 DEF Box!HistoryNext, Box!CreateUnit, Box!WriteUnit, Box!CreateRule,
                            Box!SetPolicy, Box!AddUnit, Box!AddRule, HasFields
  <2> QED
    BY <1>1, <2>1
<1> QED
  BY <1>4, <1>5

\* No rule leaves a budget that the policy in force would not allow, however many hours an
\* advance takes and however many rules run in them (sandbox/rules.go).
THEOREM RulesKeepPolicy ==
    Box!StoreAssumption /\ ~Slow => (Box!Spec => Box!RuleBudgetsWithinPolicy)
<1> SUFFICES ASSUME Box!StoreAssumption, ~Slow PROVE Box!Spec => Box!RuleBudgetsWithinPolicy
  OBVIOUS
<1> QED
  BY PolicyKept, LeasedInit, LeasedNext, PTL DEF Box!Spec, Box!RuleBudgetsWithinPolicy

-----------------------------------------------------------------------------
(* Rules run at every half-hour. *)

Results == [rule : Box!Rule, at : Nat, status : {"REJECTED", "SUCCEEDED", "NO_ACTION"}]

\* Each rule has run at every half-hour up to its last evaluation, once and in order.
InTime(ops) ==
    /\ ops = [evaluated |-> ops.evaluated, results |-> ops.results, cash |-> ops.cash,
              billed |-> ops.billed]
    /\ ops.evaluated \in [DOMAIN ops.evaluated -> Nat] /\ DOMAIN ops.evaluated \subseteq Box!Rule
    /\ ops.results \in Seq(Results)
    /\ \A i \in DOMAIN ops.results :
          /\ ops.results[i].rule \in DOMAIN ops.evaluated
          /\ ops.results[i].at <= ops.evaluated[ops.results[i].rule]
          /\ ops.results[i].at < ops.evaluated[ops.results[i].rule] =>
                \E j \in DOMAIN ops.results : /\ i < j
                                              /\ ops.results[j].rule = ops.results[i].rule
                                              /\ ops.results[j].at = ops.results[i].at + 1
    /\ \A i, j \in DOMAIN ops.results :
          i < j /\ ops.results[i].rule = ops.results[j].rule =>
             ops.results[i].at < ops.results[j].at

\* The operation state after a rule has run.
Ran(ops, r, t, status) ==
    [evaluated |-> [ops.evaluated EXCEPT ![r] = t],
     results |-> Append(ops.results, [rule |-> r, at |-> t, status |-> status]),
     cash |-> ops.cash, billed |-> ops.billed]

LEMMA RunInTime ==
    ASSUME NEW ops, InTime(ops), NEW r, r \in DOMAIN ops.evaluated, NEW t, t \in Nat,
           ops.evaluated[r] = t - 1,
           NEW status, status \in {"REJECTED", "SUCCEEDED", "NO_ACTION"}
    PROVE  /\ InTime(Ran(ops, r, t, status))
           /\ Ran(ops, r, t, status).evaluated = [ops.evaluated EXCEPT ![r] = t]
<1> SUFFICES ASSUME NEW now,
                    now = [evaluated |-> [ops.evaluated EXCEPT ![r] = t],
                           results |-> Append(ops.results, [rule |-> r, at |-> t, status |-> status]),
                           cash |-> ops.cash, billed |-> ops.billed]
             PROVE  InTime(now) /\ now.evaluated = [ops.evaluated EXCEPT ![r] = t]
  BY DEF Ran
<1> DEFINE run == [rule |-> r, at |-> t, status |-> status]
           old == ops.results
           n == Len(old)
           done == [ops.evaluated EXCEPT ![r] = t]
<1>1. /\ now.evaluated = done /\ now.results = Append(old, run)
      /\ now = [evaluated |-> now.evaluated, results |-> now.results, cash |-> now.cash,
                billed |-> now.billed]
  OBVIOUS
<1>2. /\ done \in [DOMAIN ops.evaluated -> Nat] /\ done[r] = t
      /\ \A q \in DOMAIN ops.evaluated : q # r => done[q] = ops.evaluated[q]
      /\ DOMAIN done = DOMAIN ops.evaluated
  BY DEF InTime
<1>3. run \in Results /\ run.rule = r /\ run.at = t /\ r \in Box!Rule
  BY DEF InTime, Results
<1>4. old \in Seq(Results) /\ n \in Nat /\ DOMAIN old = 1..n
  BY DEF InTime
<1>5. Append(old, run) \in Seq(Results)
  BY <1>3, <1>4
<1> DEFINE all == Append(old, run)
<1>6. /\ DOMAIN all = 1..(n + 1) /\ all[n + 1] = run
      /\ \A i \in 1..n : all[i] = old[i]
  BY <1>3, <1>4
<1>7. \A i \in 1..n : /\ old[i].rule \in DOMAIN ops.evaluated /\ old[i].at \in Nat
                      /\ old[i].at <= ops.evaluated[old[i].rule]
                      /\ old[i].rule = r => old[i].at <= t - 1
  <2> SUFFICES ASSUME NEW i \in 1..n
               PROVE  /\ old[i].rule \in DOMAIN ops.evaluated /\ old[i].at \in Nat
                      /\ old[i].at <= ops.evaluated[old[i].rule]
                      /\ old[i].rule = r => old[i].at <= t - 1
    OBVIOUS
  <2>1. old[i] \in Results
    BY <1>4
  <2>2. old[i].rule \in DOMAIN ops.evaluated /\ old[i].at <= ops.evaluated[old[i].rule]
    BY <1>4 DEF InTime
  <2> QED
    BY <2>1, <2>2 DEF Results
<1> HIDE DEF run, done, all, old, n
<1>8. ASSUME NEW i \in 1..(n + 1)
      PROVE  /\ all[i].rule \in DOMAIN done
             /\ all[i].at <= done[all[i].rule]
             /\ all[i].at < done[all[i].rule] =>
                   \E j \in 1..(n + 1) : /\ i < j /\ all[j].rule = all[i].rule
                                         /\ all[j].at = all[i].at + 1
  <2>1. CASE i = n + 1
    BY <2>1, <1>2, <1>3, <1>6
  <2>2. CASE i \in 1..n
    <3>1. all[i] = old[i] /\ old[i].rule \in DOMAIN done /\ old[i].at \in Nat
      BY <2>2, <1>2, <1>6, <1>7
    <3>2. old[i].at < ops.evaluated[old[i].rule] =>
             \E j \in 1..n : /\ i < j /\ old[j].rule = old[i].rule
                             /\ old[j].at = old[i].at + 1
      BY <2>2, <1>4 DEF InTime, old
    <3>3. CASE old[i].rule # r
      <4>1. done[old[i].rule] = ops.evaluated[old[i].rule]
        BY <3>3, <2>2, <1>2, <1>7
      <4>2. old[i].at <= done[old[i].rule]
        BY <4>1, <2>2, <1>7
      <4>3. ASSUME old[i].at < done[old[i].rule]
            PROVE  \E j \in 1..(n + 1) : /\ i < j /\ all[j].rule = all[i].rule
                                         /\ all[j].at = all[i].at + 1
        <5>1. PICK j \in 1..n : /\ i < j /\ old[j].rule = old[i].rule
                                /\ old[j].at = old[i].at + 1
          BY <4>1, <4>3, <3>2
        <5>2. j \in 1..(n + 1) /\ all[j] = old[j]
          BY <1>4, <1>6
        <5> QED
          BY <5>1, <5>2, <3>1
      <4> QED
        BY <3>1, <4>2, <4>3
    <3>4. CASE old[i].rule = r
      <4>1. old[i].at <= t - 1
        BY <3>4, <2>2, <1>7
      <4>2. \E j \in 1..(n + 1) : /\ i < j /\ all[j].rule = all[i].rule
                                  /\ all[j].at = all[i].at + 1
        <5>1. CASE old[i].at < t - 1
          <6>1. PICK j \in 1..n : /\ i < j /\ old[j].rule = old[i].rule
                                  /\ old[j].at = old[i].at + 1
            BY <5>1, <3>2, <3>4
          <6>2. j \in 1..(n + 1) /\ all[j] = old[j]
            BY <1>4, <1>6
          <6> QED
            BY <6>1, <6>2, <3>1
        <5>2. CASE old[i].at = t - 1
          <6>1. /\ n + 1 \in 1..(n + 1) /\ i < n + 1 /\ all[n + 1].rule = r
                /\ all[n + 1].at = all[i].at + 1
            BY <5>2, <2>2, <3>1, <1>3, <1>4, <1>6
          <6> QED
            BY <6>1, <3>1, <3>4
        <5> QED
          BY <4>1, <5>1, <5>2, <3>1
      <4>3. done[r] = t /\ old[i].at <= t
        BY <4>1, <3>1, <1>2
      <4> QED
        BY <3>1, <3>4, <4>2, <4>3
    <3> QED
      BY <3>3, <3>4
  <2>3. i \in 1..(n + 1) /\ n \in Nat
    BY <1>4
  <2>4. i \in 1..n \/ i = n + 1
    BY ONLY <2>3
  <2> QED
    BY ONLY <2>1, <2>2, <2>4
<1>9. ASSUME NEW i \in 1..(n + 1), NEW j \in 1..(n + 1), i < j, all[i].rule = all[j].rule
      PROVE  all[i].at < all[j].at
  <2>1. i \in 1..n
    <3>1. i \in 1..(n + 1) /\ j \in 1..(n + 1) /\ n \in Nat
      BY <1>4
    <3> QED
      BY ONLY <1>9, <3>1
  <2>2. CASE j \in 1..n
    <3>1. \A x, y \in 1..n : x < y /\ old[x].rule = old[y].rule => old[x].at < old[y].at
      BY <1>4 DEF InTime, old
    <3> QED
      BY ONLY <2>1, <2>2, <3>1, <1>6, <1>9
  <2>3. CASE j = n + 1
    <3>1. all[i] = old[i] /\ all[j] = run
      BY ONLY <2>1, <2>3, <1>6
    <3>2. old[i].rule = r /\ old[i].at \in Nat /\ old[i].at <= t - 1
      BY ONLY <2>1, <3>1, <1>3, <1>7, <1>9
    <3>3. t \in Nat
      OBVIOUS
    <3> QED
      BY ONLY <3>1, <3>2, <3>3, <1>3
  <2>4. j \in 1..(n + 1) /\ n \in Nat
    BY <1>4
  <2>5. j \in 1..n \/ j = n + 1
    BY ONLY <2>4
  <2> QED
    BY ONLY <2>2, <2>3, <2>5
<1>10. now.results = all /\ now.evaluated = done
  BY <1>1 DEF all, run, old
<1>11. all \in Seq(Results)
  BY <1>5 DEF all
<1>12. DOMAIN done \subseteq Box!Rule
  BY <1>2 DEF InTime
<1>13. InTime(now)
  <2>1. DOMAIN all = 1..(n + 1)
    BY <1>6
  <2>2. /\ now.evaluated \in [DOMAIN now.evaluated -> Nat]
        /\ DOMAIN now.evaluated \subseteq Box!Rule /\ now.results \in Seq(Results)
    BY <1>2, <1>10, <1>11, <1>12
  <2>3. \A i \in DOMAIN now.results :
          /\ now.results[i].rule \in DOMAIN now.evaluated
          /\ now.results[i].at <= now.evaluated[now.results[i].rule]
          /\ now.results[i].at < now.evaluated[now.results[i].rule] =>
                \E j \in DOMAIN now.results : /\ i < j
                                              /\ now.results[j].rule = now.results[i].rule
                                              /\ now.results[j].at = now.results[i].at + 1
    <3>1. \A i \in DOMAIN all :
             /\ all[i].rule \in DOMAIN done
             /\ all[i].at <= done[all[i].rule]
             /\ all[i].at < done[all[i].rule] =>
                   \E j \in DOMAIN all : /\ i < j /\ all[j].rule = all[i].rule
                                         /\ all[j].at = all[i].at + 1
      BY ONLY <2>1, <1>8
    <3> QED
      BY ONLY <3>1, <1>10
  <2>4. \A i, j \in DOMAIN now.results :
          i < j /\ now.results[i].rule = now.results[j].rule =>
             now.results[i].at < now.results[j].at
    BY ONLY <2>1, <1>9, <1>10
  <2>5. now = [evaluated |-> now.evaluated, results |-> now.results, cash |-> now.cash,
               billed |-> now.billed]
    BY <1>1
  <2> QED
    BY ONLY <2>2, <2>3, <2>4, <2>5 DEF InTime
<1> QED
  BY <1>10, <1>13 DEF done

\* The rules in done have run at t, the others at the half-hour before.
RanAt(ops, t, done) ==
    /\ InTime(ops)
    /\ \A q \in DOMAIN ops.evaluated : ops.evaluated[q] \in {t - 1, t}
    /\ \A q \in done : q \in DOMAIN ops.evaluated => ops.evaluated[q] = t

LEMMA TurnInTime ==
    ASSUME NEW env, IsEnv(env), NEW r, NEW t \in Nat, NEW done, RanAt(env.ops, t, done)
    PROVE  RanAt(Box!EvaluateRule(env, r, t).ops, t, done \union {r})
<1> DEFINE rule == RuleSpec[r]
           known == rule.targets \cap DOMAIN env.units
           hit == {u \in known : Box!Matched(env, rule, u, t) /\ ~Box!Satisfied(rule, env.units[u])}
           refused == {u \in hit : Box!Refused(env, rule, env.units[u])}
           affected == hit \ refused
           status == IF refused # {} \/ known # rule.targets THEN "REJECTED"
                     ELSE IF affected # {} THEN "SUCCEEDED" ELSE "NO_ACTION"
           units == [u \in DOMAIN env.units |->
                        IF u \in affected THEN Box!Changed(rule, env.units[u]) ELSE env.units[u]]
           next == Box!EvaluateRule(env, r, t)
           ops == env.ops
<1>1. next = IF r \notin DOMAIN ops.evaluated \/ t <= ops.evaluated[r]
             THEN env
             ELSE [env EXCEPT
                     !.units = units,
                     !.ops.evaluated[r] = t,
                     !.ops.results = Append(@, [rule |-> r, at |-> t, status |-> status])]
  BY DEF Box!EvaluateRule
<1>2. status \in {"REJECTED", "SUCCEEDED", "NO_ACTION"}
  OBVIOUS
<1>3. /\ env = [policy |-> env.policy, units |-> env.units, clock |-> env.clock,
                facts |-> env.facts, ops |-> env.ops]
      /\ ops = [evaluated |-> ops.evaluated, results |-> ops.results, cash |-> ops.cash,
                billed |-> ops.billed]
  BY DEF IsEnv, HasFields, RanAt, InTime
<1>4. InTime(ops) /\ \A q \in DOMAIN ops.evaluated : ops.evaluated[q] \in {t - 1, t}
  BY DEF RanAt
<1> SUFFICES RanAt(next.ops, t, done \union {r})
  OBVIOUS
<1>5. CASE r \notin DOMAIN ops.evaluated \/ t <= ops.evaluated[r]
  <2>1. next = env
    BY <1>1, <1>5
  <2>2. r \in DOMAIN ops.evaluated => ops.evaluated[r] = t
    BY <1>4, <1>5
  <2> HIDE DEF next
  <2> QED
    BY <2>1, <2>2 DEF RanAt
<1>6. CASE ~(r \notin DOMAIN ops.evaluated \/ t <= ops.evaluated[r])
  <2>1. r \in DOMAIN ops.evaluated /\ ops.evaluated[r] = t - 1
    BY <1>4, <1>6
  <2> HIDE DEF status, units, next
  <2>2. next = [env EXCEPT
                  !.units = units,
                  !.ops.evaluated[r] = t,
                  !.ops.results = Append(@, [rule |-> r, at |-> t, status |-> status])]
    BY <1>1, <1>6
  <2>3. next.ops = [evaluated |-> [ops.evaluated EXCEPT ![r] = t],
                    results |-> Append(ops.results, [rule |-> r, at |-> t, status |-> status]),
                    cash |-> ops.cash, billed |-> ops.billed]
    BY ONLY <1>3, <2>2
  <2> DEFINE now == next.ops
  <2>4. InTime(now) /\ now.evaluated = [ops.evaluated EXCEPT ![r] = t]
    <3>1. now = Ran(ops, r, t, status)
      BY <2>3 DEF Ran
    <3>2. status \in {"REJECTED", "SUCCEEDED", "NO_ACTION"}
      BY <1>2 DEF status
    <3>3. InTime(ops) /\ r \in DOMAIN ops.evaluated /\ ops.evaluated[r] = t - 1 /\ t \in Nat
      BY <1>4, <2>1
    <3> HIDE DEF now, ops
    <3>4. /\ InTime(Ran(ops, r, t, status))
          /\ Ran(ops, r, t, status).evaluated = [ops.evaluated EXCEPT ![r] = t]
      BY ONLY <3>2, <3>3, RunInTime
    <3> QED
      BY ONLY <3>1, <3>4
  <2> HIDE DEF now, ops
  <2>5. /\ DOMAIN now.evaluated = DOMAIN ops.evaluated /\ now.evaluated[r] = t
        /\ \A q \in DOMAIN ops.evaluated : q # r => now.evaluated[q] = ops.evaluated[q]
    BY <1>4, <2>1, <2>4 DEF InTime
  <2>6. \A q \in done : q \in DOMAIN ops.evaluated => ops.evaluated[q] = t
    BY DEF RanAt, ops
  <2>7. RanAt(now, t, done \union {r})
    BY <1>4, <2>4, <2>5, <2>6 DEF RanAt
  <2> QED
    BY <2>7 DEF now
<1> QED
  BY <1>5, <1>6

\* An evaluation of every rule, half an hour after the last.
LEMMA RulesInTime ==
    ASSUME Box!HistoryAssumption, NEW env, IsEnv(env), NEW t \in Nat, InTime(env.ops),
           \A q \in DOMAIN env.ops.evaluated : env.ops.evaluated[q] = t - 1
    PROVE  LET ops == Box!EvaluateRules(env, t).ops
           IN  InTime(ops) /\ \A q \in DOMAIN ops.evaluated : ops.evaluated[q] = t
<1> DEFINE n == Len(RuleOrder)
           Turned(k) == {RuleOrder[i] : i \in 1..k}
<1>0. Len(RuleOrder) \in Nat
  BY DEF Box!HistoryAssumption
<1>1. n \in Nat /\ Box!Rule = Turned(n)
  BY DEF Box!HistoryAssumption, Box!Rule
<1>2. PICK f : /\ Box!EvaluateRules(env, t) = f[n] /\ f[0] = env
               /\ \A k \in 1..n : f[k] = Box!EvaluateRule(f[k - 1], RuleOrder[k], t)
  BY <1>0, RuleAfterRule
<1>3. \A k \in 0..n : Ruled(env, f[k])
  BY <1>1, <1>2, RulesTurns
<1> HIDE DEF n
<1> DEFINE S == {k \in 0..n : ~RanAt(f[k].ops, t, Turned(k))}
<1>4. S = {}
  <2> SUFFICES ASSUME S # {} PROVE FALSE
    OBVIOUS
  <2>1. S \subseteq Nat
    OBVIOUS
  <2>2. PICK k \in S : \A x \in S : k <= x
    BY <2>1, LeastOf
  <2>3. k # 0
    <3>1. Turned(0) = {}
      OBVIOUS
    <3>2. RanAt(env.ops, t, {})
      BY DEF RanAt
    <3> HIDE DEF Turned
    <3>3. RanAt(f[0].ops, t, Turned(0))
      BY <1>2, <3>1, <3>2
    <3> QED
      BY <3>3
  <2> HIDE DEF Turned
  <2>4. k - 1 \in 0..n /\ k - 1 \notin S /\ k \in 1..n
    <3>1. k \in 0..n /\ k # 0 /\ n \in Nat
      BY <1>1, <2>3
    <3>2. k - 1 \in 0..n /\ k \in 1..n /\ ~(k <= k - 1)
      BY ONLY <3>1
    <3> HIDE DEF S
    <3> QED
      BY <2>2, <3>2
  <2>5. RanAt(f[k - 1].ops, t, Turned(k - 1)) /\ IsEnv(f[k - 1])
    BY <1>3, <2>4 DEF Ruled, SameUnits
  <2>6. Turned(k) = Turned(k - 1) \union {RuleOrder[k]}
    <3> USE DEF Turned
    <3>1. 1..k = (1..(k - 1)) \union {k}
      BY <2>4, <1>1
    <3> QED
      BY <3>1
  <2> HIDE DEF Turned
  <2>7. RanAt(f[k].ops, t, Turned(k))
    BY <1>2, <2>4, <2>5, <2>6, TurnInTime
  <2> QED
    BY <2>7
<1>5. RanAt(f[n].ops, t, Turned(n))
  <2>1. n \in 0..n
    BY <1>1
  <2>2. n \notin S
    <3> HIDE DEF S
    <3> QED BY <1>4
  <2> HIDE DEF Turned
  <2> QED
    BY <2>1, <2>2
<1> HIDE DEF Turned, S
<1>6. RanAt(Box!EvaluateRules(env, t).ops, t, Box!Rule)
  BY ZenonT(60), <1>1, <1>2, <1>5
<1> HIDE DEF n
<1> QED
  BY ZenonT(60), <1>6 DEF RanAt, InTime

\* Every rule has run at every half-hour up to the clock.
UpToDate(env) ==
    InTime(env.ops) /\ \A r \in DOMAIN env.ops.evaluated : env.ops.evaluated[r] = env.clock

LEMMA HourInTime ==
    ASSUME Box!HistoryAssumption, NEW env, IsEnv(env), env.clock \in Nat, UpToDate(env)
    PROVE  UpToDate(Box!HourStep(env)) /\ Box!HourStep(env).clock \in Nat
<1> DEFINE hour == env.clock + 2
           early == Box!EvaluateRules(env, hour - 1)
           new == Box!HourFacts(early.units, hour)
           settled == Box!SettleSpend(early.ops, hour, new)
           delivered == [early EXCEPT !.facts = @ \union new, !.clock = hour, !.ops = settled]
           next == Box!EvaluateRules(delivered, hour)
<1>0. Len(RuleOrder) \in Nat /\ hour \in Nat /\ hour - 1 \in Nat /\ (hour - 1) - 1 = env.clock
  BY DEF Box!HistoryAssumption
<1>1. Box!HourStep(env) = next
  BY DEF Box!HourStep
<1>2. Ruled(env, early)
  BY <1>0, RulesTurn
<1>3. InTime(early.ops) /\ \A q \in DOMAIN early.ops.evaluated : early.ops.evaluated[q] = hour - 1
  BY <1>0, RulesInTime DEF UpToDate
<1>4. InTime(settled) /\ settled.evaluated = early.ops.evaluated
  <2> DEFINE ops == early.ops
  <2>1. PICK cash, billed : settled = ops \/ settled = [ops EXCEPT !.cash = cash, !.billed = billed]
    BY DEF Box!SettleSpend
  <2> HIDE DEF ops, settled
  <2>2. ops = [evaluated |-> ops.evaluated, results |-> ops.results, cash |-> ops.cash,
               billed |-> ops.billed]
    BY <1>3 DEF InTime, ops
  <2>3. settled = [evaluated |-> ops.evaluated, results |-> ops.results, cash |-> settled.cash,
                   billed |-> settled.billed]
    BY ONLY <2>1, <2>2
  <2>4. settled.evaluated = ops.evaluated /\ settled.results = ops.results
    BY ONLY <2>3
  <2>5. InTime(ops)
    BY <1>3 DEF ops
  <2> QED
    BY ZenonT(60), <2>3, <2>4, <2>5 DEF InTime, ops
<1> HIDE DEF early, new, settled
<1>5. delivered = [policy |-> early.policy, units |-> early.units, clock |-> hour,
                   facts |-> early.facts \union new, ops |-> settled]
  <2>1. early = [policy |-> early.policy, units |-> early.units, clock |-> early.clock,
                 facts |-> early.facts, ops |-> early.ops]
    BY <1>2 DEF Ruled, SameUnits, IsEnv, HasFields
  <2>2. delivered = [early EXCEPT !.facts = @ \union new, !.clock = hour, !.ops = settled]
    OBVIOUS
  <2> HIDE DEF delivered
  <2> QED
    BY ONLY <2>1, <2>2
<1> HIDE DEF delivered
<1>6. IsEnv(delivered) /\ delivered.clock = hour /\ delivered.ops = settled
  <2>1. /\ delivered.policy = early.policy /\ delivered.units = early.units
        /\ delivered.clock = hour /\ delivered.facts = early.facts \union new
        /\ delivered.ops = settled
    BY ONLY <1>5
  <2>2. IsEnv(early)
    BY <1>2 DEF Ruled, SameUnits
  <2> QED
    BY <1>5, <2>1, <2>2 DEF IsEnv, HasFields
<1>7. \A q \in DOMAIN delivered.ops.evaluated : delivered.ops.evaluated[q] = hour - 1
  BY <1>3, <1>4, <1>6
<1>8. InTime(next.ops) /\ \A q \in DOMAIN next.ops.evaluated : next.ops.evaluated[q] = hour
  BY <1>0, <1>4, <1>6, <1>7, RulesInTime
<1>9. next.clock = hour
  BY <1>0, <1>6, RulesTurn DEF Ruled
<1> QED
  BY <1>0, <1>1, <1>8, <1>9 DEF UpToDate

LEMMA AdvanceInTime ==
    ASSUME Box!HistoryAssumption, NEW env, IsEnv(env), env.clock \in Nat, UpToDate(env),
           NEW n \in Nat
    PROVE  UpToDate(Box!Simulated(env, n)) /\ Box!Simulated(env, n).clock \in Nat
<1> DEFINE Good(x) == UpToDate(x) /\ x.clock \in Nat
           S == {m \in Nat : ~Good(Box!Simulated(env, m))}
<1>1. SUFFICES ASSUME S # {} PROVE FALSE
  OBVIOUS
<1>2. PICK m \in S : \A x \in S : m <= x
  BY <1>1, LeastOf
<1>3. m # 0
  BY HourAfterHour
<1>4. m - 1 \in Nat /\ m - 1 \notin S
  BY <1>2, <1>3
<1>5. Good(Box!Simulated(env, m - 1)) /\ IsEnv(Box!Simulated(env, m - 1))
  BY <1>4, AdvanceTurn DEF SameUnits, Box!HistoryAssumption
<1>6. Box!Simulated(env, (m - 1) + 1) = Box!HourStep(Box!Simulated(env, m - 1))
  BY <1>4, HourAfterHour
<1>7. (m - 1) + 1 = m
  OBVIOUS
<1>8. Good(Box!Simulated(env, m))
  BY <1>5, <1>6, <1>7, HourInTime
<1> QED
  BY <1>8

\* A rule that is created now has run at no half-hour yet.
LEMMA RuleAddedInTime ==
    ASSUME NEW env, IsEnv(env), env.clock \in Nat, UpToDate(env), NEW r \in Box!Rule,
           r \notin DOMAIN env.ops.evaluated
    PROVE  UpToDate(Box!AddRule(env, r)) /\ Box!AddRule(env, r).clock = env.clock
<1> DEFINE done == [q \in DOMAIN env.ops.evaluated \union {r} |->
                       IF q = r THEN env.clock ELSE env.ops.evaluated[q]]
           next == Box!AddRule(env, r)
           ops == env.ops
<1>1. next = [env EXCEPT !.ops.evaluated = done]
  BY DEF Box!AddRule
<1>2. /\ env = [policy |-> env.policy, units |-> env.units, clock |-> env.clock,
                facts |-> env.facts, ops |-> env.ops]
      /\ ops = [evaluated |-> ops.evaluated, results |-> ops.results, cash |-> ops.cash,
                billed |-> ops.billed]
  BY DEF IsEnv, HasFields, UpToDate, InTime
<1>3. /\ done \in [DOMAIN done -> Nat] /\ DOMAIN done \subseteq Box!Rule
      /\ \A q \in DOMAIN done : done[q] = env.clock
      /\ \A q \in DOMAIN ops.evaluated : q \in DOMAIN done /\ done[q] = ops.evaluated[q]
  BY DEF UpToDate, InTime
<1>4. InTime(ops)
  BY DEF UpToDate
<1> HIDE DEF done, next, ops
<1>5. next = [env EXCEPT !.ops.evaluated = done]
  BY <1>1
<1>6. next.ops = [evaluated |-> done, results |-> ops.results, cash |-> ops.cash,
                  billed |-> ops.billed] /\ next.clock = env.clock
  BY ONLY <1>2, <1>5 DEF ops
<1> DEFINE now == next.ops
<1>7. /\ now.evaluated = done /\ now.results = ops.results
      /\ now = [evaluated |-> now.evaluated, results |-> now.results, cash |-> now.cash,
                billed |-> now.billed]
  BY <1>6
<1> HIDE DEF now
<1>8. \A i \in DOMAIN ops.results : ops.results[i].rule \in DOMAIN ops.evaluated
  BY <1>4 DEF InTime
<1>9. InTime(now)
  BY <1>3, <1>4, <1>7, <1>8 DEF InTime
<1> QED
  BY <1>3, <1>6, <1>7, <1>9 DEF UpToDate, now, next

LEMMA SeedUpToDate == UpToDate(Box!Seed) /\ Box!Seed.clock = 0
<1> DEFINE ops == [evaluated |-> <<>>, results |-> <<>>, cash |-> 0, billed |-> <<>>]
<1>1. Box!Seed.ops = ops /\ Box!Seed.clock = 0
  BY DEF Box!Seed
<1>2. /\ DOMAIN <<>> = {} /\ <<>> \in Seq(Results) /\ <<>> \in [DOMAIN <<>> -> Nat]
  OBVIOUS
<1>3. InTime(ops)
  BY <1>2 DEF InTime
<1> QED
  BY <1>1, <1>2, <1>3 DEF UpToDate

LEMMA HistoryInTime ==
    ASSUME Box!StoreAssumption, IsEnv(db), db.clock \in Nat, UpToDate(db), Box!HistoryNext
    PROVE  UpToDate(db')
<1>1. ASSUME NEW n \in 1..MaxAdvanceHours, Box!Advance(n) PROVE UpToDate(db')
  BY <1>1, AdvanceInTime DEF Box!Advance, Box!StoreAssumption, Box!HistoryAssumption
<1>2. ASSUME NEW r \in Box!Rule, Box!CreateRule(r) PROVE UpToDate(db')
  BY <1>2, RuleAddedInTime DEF Box!CreateRule
<1>3. ASSUME \/ \E u \in Unit : Box!CreateUnit(u) \/ Box!WriteUnit(u)
             \/ \E p \in Policies : Box!SetPolicy(p)
      PROVE  UpToDate(db')
  <2>1. db'.ops = db.ops /\ db'.clock = db.clock
    BY <1>3 DEF IsEnv, HasFields, Box!CreateUnit, Box!AddUnit, Box!WriteUnit, Box!SetPolicy
  <2> QED
    BY <2>1 DEF UpToDate
<1> QED
  BY <1>1, <1>2, <1>3 DEF Box!HistoryNext

\* The environment as a writer leaves it, with every rule up to date.
Timed == Leased /\ UpToDate(db)

LEMMA TimedBegins == ASSUME Box!StoreAssumption, Box!Init PROVE Timed
  BY LeasedInit, SeedUpToDate DEF Box!Init, Box!HistoryInit, Timed

LEMMA TimedNext ==
    ASSUME Box!StoreAssumption, ~Slow, Timed, [Box!Next]_(Box!vars) PROVE Timed'
<1> USE DEF Timed
<1>0. IsEnv(db) /\ db.clock \in Nat
  BY DEF Leased, Fitting, EnvFits, IsEnv
<1>1. Leased' /\ [Box!HistoryNext]_db
  BY LeasedNext
<1>2. CASE db' = db
  BY <1>1, <1>2
<1>3. CASE Box!HistoryNext
  BY <1>0, <1>1, <1>3, HistoryInTime
<1> QED
  BY <1>1, <1>2, <1>3

LEMMA TimedShows == ASSUME Timed PROVE Box!RulesRunOnce
  BY DEF Timed, UpToDate, InTime, Box!RulesRunOnce

\* Every rule has run at every half-hour since it was created, exactly once and in order,
\* across the advances of any number of processes and across crashes in the middle of one
\* (sandbox/rules.go evaluateRules, app/app.go Advance).
THEOREM RulesKeepTime ==
    Box!StoreAssumption /\ ~Slow => (Box!Spec => []Box!RulesRunOnce)
<1> SUFFICES ASSUME Box!StoreAssumption, ~Slow PROVE Box!Spec => []Box!RulesRunOnce
  OBVIOUS
<1> QED
  BY TimedBegins, TimedNext, TimedShows, PTL DEF Box!Spec

(***************************************************************************)
(* Pages of a conversation, for every size of texts, every limit of a page *)
(* and turns recorded at any time between pages.  The sum over a page and  *)
(* the halving of a text are recursive functions: what they are at every   *)
(* number is shown by taking the least at which they are not.              *)
(***************************************************************************)

CONSTANTS Texts, Rests, Limit, Frame, PageTurns, MaxTurns
VARIABLES turns, before, joined, shown, done

Pages == INSTANCE ConversationPage

PageAssumption == Pages!SizeAssumption /\ Pages!RoomAssumption /\ Pages!NoneAssumption

\* f halves each number up to m until it is at most half.
Halves(f, half, m) == f = [n \in 0..m |-> IF n > half THEN f[n \div 2] ELSE n]

LEMMA HalfIsLess == ASSUME NEW n \in Nat, n > 1 PROVE n \div 2 \in 1..(n - 1)
  OBVIOUS

LEMMA HalvesExist ==
    ASSUME NEW half \in Nat, half >= 1, NEW m \in Nat
    PROVE  \E f : Halves(f, half, m)
<1> DEFINE S == {k \in Nat : ~\E f : Halves(f, half, k)}
<1>1. SUFFICES ASSUME S # {} PROVE FALSE
  OBVIOUS
<1>2. PICK k \in S : \A x \in S : k <= x
  BY <1>1, LeastOf
<1>3. CASE k = 0
  <2>1. ~(0 > half)
    OBVIOUS
  <2>2. Halves([n \in 0..0 |-> 0], half, 0)
    BY <2>1 DEF Halves
  <2> QED
    BY <1>3, <2>2
<1>4. CASE k # 0
  <2>1. k - 1 \in Nat /\ ~(k <= k - 1)
    BY <1>4
  <2>2. PICK f : Halves(f, half, k - 1)
    BY <1>2, <2>1
  <2>3. \A n \in 0..(k - 1) : f[n] = IF n > half THEN f[n \div 2] ELSE n
    BY <2>2 DEF Halves
  <2> DEFINE g == [n \in 0..k |-> IF n = k THEN (IF k > half THEN f[k \div 2] ELSE k) ELSE f[n]]
  <2>4. ASSUME NEW n \in 0..k
        PROVE  g[n] = IF n > half THEN g[n \div 2] ELSE n
    <3>1. n > half => n \div 2 \in 1..(n - 1) /\ n \div 2 \in 0..k /\ n \div 2 # k
      <4>1. n > half => n > 1 /\ n \in Nat
        OBVIOUS
      <4>2. n > half => n \div 2 \in 1..(n - 1)
        BY <4>1, HalfIsLess
      <4> QED
        BY <4>2
    <3>2. n > half => g[n \div 2] = f[n \div 2]
      BY <3>1
    <3>3. CASE n = k
      BY <3>2, <3>3
    <3>4. CASE n # k
      <4>1. n \in 0..(k - 1)
        BY <3>4
      <4>2. g[n] = f[n]
        BY <3>4
      <4> HIDE DEF g
      <4> QED
        BY <2>3, <3>2, <4>1, <4>2
    <3> QED
      BY <3>3, <3>4
  <2>5. Halves(g, half, k)
    BY <2>4 DEF Halves
  <2> QED
    BY <2>5
<1> QED
  BY <1>3, <1>4

LEMMA HalvesFit ==
    ASSUME NEW half \in Nat, half >= 1, NEW m \in Nat, NEW f, Halves(f, half, m)
    PROVE  \A n \in 1..m : f[n] \in 1..half
<1> DEFINE S == {n \in 1..m : f[n] \notin 1..half}
<1>1. SUFFICES ASSUME S # {} PROVE FALSE
  OBVIOUS
<1>2. PICK k \in S : \A x \in S : k <= x
  <2>1. S \subseteq Nat
    OBVIOUS
  <2> QED
    BY <1>1, <2>1, LeastOf
<1>3. f[k] = IF k > half THEN f[k \div 2] ELSE k
  BY DEF Halves
<1>4. k > half
  BY <1>3
<1>5. k > 1 /\ k \in Nat
  BY <1>4
<1>6. k \div 2 \in 1..(k - 1)
  BY <1>5, HalfIsLess
<1>7. k \div 2 \in 1..m /\ ~(k <= k \div 2)
  BY <1>6
<1>8. f[k \div 2] \in 1..half
  BY <1>2, <1>7
<1> QED
  BY <1>3, <1>4, <1>8

\* A turn that is cut down still says something and takes at most half a page.
LEMMA CutFits ==
    ASSUME PageAssumption, NEW turn \in Pages!Written
    PROVE  /\ Pages!Cut(turn).text \in Nat /\ Pages!Cut(turn).text > 0
           /\ Pages!Cut(turn).rest \in Nat
           /\ Pages!Size(Pages!Cut(turn)) \in Nat /\ Pages!Size(Pages!Cut(turn)) <= Pages!Half
<1> DEFINE half == Pages!Half
           m == turn.text
           halved == CHOOSE f : Halves(f, half, m)
<1>1. half \in Nat /\ half >= 1
  BY DEF PageAssumption, Pages!SizeAssumption, Pages!RoomAssumption, Pages!Half
<1>2. m \in Nat /\ m >= 1 /\ turn.rest \in Nat
  <2>1. turn.text \in Texts /\ turn.rest \in Rests
    BY DEF Pages!Written
  <2>2. Texts \subseteq Nat \ {0} /\ Rests \subseteq Nat
    BY DEF PageAssumption, Pages!SizeAssumption
  <2>3. m \in Nat \ {0} /\ turn.rest \in Nat
    BY <2>1, <2>2
  <2> HIDE DEF m
  <2> QED
    BY <2>3
<1>3. Pages!Cut(turn) = IF Pages!Size(turn) > half
                        THEN [text |-> halved[m], rest |-> 0, truncated |-> TRUE]
                        ELSE [text |-> m, rest |-> turn.rest, truncated |-> FALSE]
  BY DEF Pages!Cut, Halves
<1> HIDE DEF half, m
<1>4. Halves(halved, half, m)
  BY <1>1, <1>2, HalvesExist
<1> HIDE DEF halved
<1>5. halved[m] \in 1..half
  <2>1. m \in 1..m
    BY <1>2
  <2> QED
    BY <1>1, <1>2, <1>4, <2>1, HalvesFit
<1>6. CASE Pages!Size(turn) > half
  BY <1>1, <1>3, <1>5, <1>6 DEF Pages!Size, half
<1>7. CASE ~(Pages!Size(turn) > half)
  BY <1>1, <1>2, <1>3, <1>7 DEF Pages!Size, half, m
<1> QED
  BY <1>6, <1>7

\* f sums up what s has from the first number on.
Sums(f, s, first, last) == f = [n \in 0..last |-> IF n < first THEN 0 ELSE f[n - 1] + s[n]]

LEMMA SumsExist ==
    ASSUME NEW s, NEW first \in Nat, first >= 1, NEW last \in Nat
    PROVE  \E f : Sums(f, s, first, last)
<1> DEFINE S == {k \in Nat : ~\E f : Sums(f, s, first, k)}
<1>1. SUFFICES ASSUME S # {} PROVE FALSE
  OBVIOUS
<1>2. PICK k \in S : \A x \in S : k <= x
  BY <1>1, LeastOf
<1>3. CASE k = 0
  <2>1. 0 < first
    OBVIOUS
  <2>2. Sums([n \in 0..0 |-> 0], s, first, 0)
    BY <2>1 DEF Sums
  <2> QED
    BY <1>3, <2>2
<1>4. CASE k # 0
  <2>1. k - 1 \in Nat /\ ~(k <= k - 1)
    BY <1>4
  <2>2. PICK f : Sums(f, s, first, k - 1)
    BY <1>2, <2>1
  <2>3. \A n \in 0..(k - 1) : f[n] = IF n < first THEN 0 ELSE f[n - 1] + s[n]
    BY <2>2 DEF Sums
  <2> DEFINE g == [n \in 0..k |-> IF n = k THEN (IF k < first THEN 0 ELSE f[k - 1] + s[k]) ELSE f[n]]
  <2>4. ASSUME NEW n \in 0..k
        PROVE  g[n] = IF n < first THEN 0 ELSE g[n - 1] + s[n]
    <3>1. ~(n < first) => n - 1 \in 0..k /\ n - 1 # k
      OBVIOUS
    <3>2. ~(n < first) => g[n - 1] = f[n - 1]
      BY <3>1
    <3>3. CASE n = k
      BY <3>2, <3>3
    <3>4. CASE n # k
      <4>1. n \in 0..(k - 1)
        BY <3>4
      <4>2. g[n] = f[n]
        BY <3>4
      <4> HIDE DEF g
      <4> QED
        BY <2>3, <3>2, <4>1, <4>2
    <3> QED
      BY <3>3, <3>4
  <2>5. Sums(g, s, first, k)
    BY <2>4 DEF Sums
  <2> QED
    BY <2>5
<1> QED
  BY <1>3, <1>4

SizeOf(n) == Pages!Size(Pages!Cut(turns[n]))

\* f holds the sizes of the turns from first to each.
Weighs(f, first, last) ==
    \A n \in 0..last : f[n] = IF n < first THEN 0 ELSE f[n - 1] + SizeOf(n)

LEMMA PageWeighs ==
    ASSUME NEW first \in Nat, first >= 1, NEW last \in Nat
    PROVE  \E f : Pages!PageSize(first, last) = Frame + f[last] /\ Weighs(f, first, last)
<1> DEFINE F == CHOOSE f : f = [n \in 0..last |-> IF n < first THEN 0 ELSE f[n - 1] + SizeOf(n)]
           s == [n \in 0..last |-> SizeOf(n)]
<1>1. Pages!PageSize(first, last) = Frame + F[last]
  BY DEF Pages!PageSize, SizeOf
<1>2. PICK f : Sums(f, s, first, last)
  <2> HIDE DEF s
  <2> QED
    BY SumsExist
<1>3. f = [n \in 0..last |-> IF n < first THEN 0 ELSE f[n - 1] + SizeOf(n)]
  <2>1. \A n \in 0..last : s[n] = SizeOf(n)
    OBVIOUS
  <2> HIDE DEF s
  <2> QED
    BY <1>2, <2>1 DEF Sums
<1>4. F = [n \in 0..last |-> IF n < first THEN 0 ELSE F[n - 1] + SizeOf(n)]
  BY <1>3
<1> HIDE DEF F
<1>5. Weighs(F, first, last)
  BY <1>4 DEF Weighs
<1> QED
  BY <1>1, <1>5

LEMMA SizesFit ==
    ASSUME PageAssumption, turns \in Seq(Pages!Written), NEW n \in 1..Len(turns)
    PROVE  SizeOf(n) \in Nat /\ SizeOf(n) <= Pages!Half
<1>1. turns[n] \in Pages!Written
  OBVIOUS
<1> QED
  BY <1>1, CutFits DEF SizeOf

\* A turn fits on a page of its own.
LEMMA OneFits ==
    ASSUME PageAssumption, turns \in Seq(Pages!Written), NEW last \in 1..Len(turns)
    PROVE  Pages!Fits(last, last)
<1>1. last \in Nat /\ last >= 1 /\ Len(turns) \in Nat
  OBVIOUS
<1>2. PICK f : Pages!PageSize(last, last) = Frame + f[last] /\ Weighs(f, last, last)
  BY <1>1, PageWeighs
<1>3. f[last] = f[last - 1] + SizeOf(last) /\ f[last - 1] = 0
  BY <1>1, <1>2 DEF Weighs
<1>4. /\ SizeOf(last) \in Nat /\ SizeOf(last) <= Pages!Half
      /\ Frame \in Nat /\ Limit \in Nat /\ PageTurns \in Nat /\ PageTurns > 0
      /\ Pages!Half \in Nat /\ Frame + Pages!Half <= Limit
  BY SizesFit DEF PageAssumption, Pages!SizeAssumption, Pages!RoomAssumption, Pages!Half
<1>5. Pages!PageSize(last, last) <= Limit
  BY ONLY <1>2, <1>3, <1>4
<1>6. last - last + 1 <= PageTurns
  BY <1>1, <1>4
<1> QED
  BY <1>5, <1>6 DEF Pages!Fits

\* A page begins as far back as fits, and is empty only if there are no turns.
LEMMA FirstFits ==
    ASSUME PageAssumption, turns \in Seq(Pages!Written), NEW last \in 0..Len(turns)
    PROVE  /\ Pages!First(last) \in 1..(last + 1)
           /\ \A n \in Pages!First(last)..last : Pages!Fits(n, last)
           /\ last # 0 => Pages!First(last) <= last
<1> DEFINE G == {m \in 1..(last + 1) : \A n \in m..last : Pages!Fits(n, last)}
           Right(first) == /\ \A n \in first..last : Pages!Fits(n, last)
                           /\ first = 1 \/ ~Pages!Fits(first - 1, last)
<1>1. last \in Nat /\ Len(turns) \in Nat
  OBVIOUS
<1>2. last + 1 \in G
  BY <1>1
<1>3. PICK m \in G : \A x \in G : m <= x
  <2>1. G \subseteq Nat
    OBVIOUS
  <2> HIDE DEF G
  <2> QED
    BY <1>2, <2>1, LeastOf
<1>4. m \in 1..(last + 1) /\ \A n \in m..last : Pages!Fits(n, last)
  OBVIOUS
<1>5. m = 1 \/ ~Pages!Fits(m - 1, last)
  <2> SUFFICES ASSUME m # 1, Pages!Fits(m - 1, last) PROVE FALSE
    OBVIOUS
  <2>1. m - 1 \in 1..(last + 1) /\ ~(m <= m - 1)
    BY <1>1, <1>4
  <2>2. \A n \in (m - 1)..last : Pages!Fits(n, last)
    <3> SUFFICES ASSUME NEW n \in (m - 1)..last PROVE Pages!Fits(n, last)
      OBVIOUS
    <3>1. n = m - 1 \/ n \in m..last
      BY <1>1, <1>4
    <3> QED
      BY <1>4, <3>1
  <2> QED
    BY <1>3, <2>1, <2>2
<1>6. Right(m)
  BY <1>4, <1>5
<1>7. Pages!First(last) = CHOOSE first \in 1..(last + 1) : Right(first)
  BY DEF Pages!First
<1> HIDE DEF G, Right
<1>8. Pages!First(last) \in 1..(last + 1) /\ Right(Pages!First(last))
  BY <1>4, <1>6, <1>7
<1>9. ASSUME last # 0 PROVE Pages!First(last) <= last
  <2> DEFINE first == Pages!First(last)
  <2> SUFFICES ASSUME ~(first <= last) PROVE FALSE
    OBVIOUS
  <2> HIDE DEF first
  <2>1. first \in 1..(last + 1) /\ Right(first)
    BY <1>8 DEF first
  <2>2. first = last + 1 /\ first - 1 = last /\ first # 1
    BY <1>1, <1>9, <2>1
  <2>3. last \in 1..Len(turns)
    BY <1>1, <1>9
  <2>4. Pages!Fits(last, last)
    BY <2>3, OneFits
  <2> QED
    BY <2>1, <2>2, <2>4 DEF Right
<1> QED
  BY <1>8, <1>9 DEF Right

\* The page shown is a page: what it weighs is what it was measured to be.
LEMMA ShownFits ==
    ASSUME PageAssumption, turns \in Seq(Pages!Written), NEW last \in 0..Len(turns),
           Pages!First(last) <= last,
           shown' = [i \in 1..(last - Pages!First(last) + 1) |->
                        Pages!Cut(turns[Pages!First(last) + i - 1])]
    PROVE  Pages!PageFits'
<1> DEFINE first == Pages!First(last)
           k == last - first + 1
           page == shown'
           total == CHOOSE f : f = [n \in 0..Len(page) |->
                       IF n = 0 THEN Frame ELSE f[n - 1] + page[n].text + page[n].rest]
<1>1. first \in 1..(last + 1) /\ \A n \in first..last : Pages!Fits(n, last)
  BY FirstFits
<1>2. page = [i \in 1..k |-> Pages!Cut(turns[first + i - 1])]
  OBVIOUS
<1>3. first <= last
  OBVIOUS
<1>4. Pages!PageFits' = (/\ page # <<>> => total[Len(page)] <= Limit
                         /\ \A i \in DOMAIN page : page[i].text > 0)
  BY DEF Pages!PageFits
<1> HIDE DEF first, page
<1>5. last \in Nat /\ Len(turns) \in Nat /\ first \in Nat /\ first >= 1 /\ last <= Len(turns)
  BY <1>1
<1>6. k \in Nat /\ k >= 1 /\ first - 1 + k = last
  BY <1>3, <1>5
<1>7. Len(page) = k /\ DOMAIN page = 1..k
  <2> HIDE DEF k
  <2> QED
    BY <1>2, <1>6
<1>8. ASSUME NEW i \in 1..k
      PROVE  /\ first + i - 1 \in 1..Len(turns) /\ page[i].text \in Nat /\ page[i].text > 0
             /\ page[i].rest \in Nat /\ page[i].text + page[i].rest = SizeOf(first + i - 1)
  <2> DEFINE n == first + i - 1
  <2>1. n \in 1..Len(turns)
    BY <1>5, <1>6
  <2>2. page[i] = Pages!Cut(turns[n])
    BY <1>2
  <2> HIDE DEF n
  <2>3. turns[n] \in Pages!Written
    BY <2>1
  <2>4. /\ page[i].text \in Nat /\ page[i].text > 0 /\ page[i].rest \in Nat
        /\ page[i].text + page[i].rest = SizeOf(n)
    BY <2>2, <2>3, CutFits DEF SizeOf, Pages!Size
  <2> QED
    BY <2>1, <2>4 DEF n
<1>9. PICK f : Pages!PageSize(first, last) = Frame + f[last] /\ Weighs(f, first, last)
  BY <1>5, PageWeighs
<1>10. Frame \in Nat /\ Limit \in Nat
  BY DEF PageAssumption, Pages!SizeAssumption
<1> DEFINE at(i) == f[first - 1 + i]
<1>11. at(0) = 0 /\ (\A i \in 1..k : at(i) = at(i - 1) + page[i].text + page[i].rest)
       /\ \A i \in 0..k : at(i) \in Nat
  <2>1. at(0) = 0
    <3>1. first - 1 + 0 = first - 1 /\ first - 1 \in 0..last /\ first - 1 < first
      BY <1>3, <1>5
    <3> QED
      BY <1>9, <3>1 DEF Weighs
  <2>2. ASSUME NEW i \in 1..k PROVE at(i) = at(i - 1) + SizeOf(first + i - 1)
    <3>1. /\ first - 1 + i \in 0..last /\ ~(first - 1 + i < first)
          /\ (first - 1 + i) - 1 = first - 1 + (i - 1) /\ first - 1 + i = first + i - 1
      BY <1>3, <1>5
    <3> QED
      BY <1>9, <3>1 DEF Weighs
  <2>3. ASSUME NEW i \in 1..k PROVE SizeOf(first + i - 1) \in Nat
    BY <1>8, SizesFit
  <2> DEFINE S == {i \in 0..k : at(i) \notin Nat}
  <2> HIDE DEF at, k
  <2>4. S = {}
    <3> SUFFICES ASSUME S # {} PROVE FALSE
      OBVIOUS
    <3>1. PICK m \in S : \A x \in S : m <= x
      <4>1. S \subseteq Nat
        BY <1>6
      <4> QED
        BY <4>1, LeastOf
    <3>2. m # 0 /\ m \in 0..k
      BY <2>1
    <3>3. m \in 1..k /\ m - 1 \in 0..k /\ ~(m <= m - 1)
      BY <1>6, <3>2
    <3>4. at(m - 1) \in Nat
      BY <3>1, <3>3
    <3>5. at(m) \in Nat
      BY <2>2, <2>3, <3>3, <3>4
    <3> QED
      BY <3>5
  <2>5. \A i \in 0..k : at(i) \in Nat
    BY <2>4
  <2>6. ASSUME NEW i \in 1..k PROVE at(i) = at(i - 1) + page[i].text + page[i].rest
    <3>1. i - 1 \in 0..k
      BY <1>6
    <3>2. at(i - 1) \in Nat
      BY <2>5, <3>1
    <3>3. /\ page[i].text \in Nat /\ page[i].rest \in Nat
          /\ page[i].text + page[i].rest = SizeOf(first + i - 1)
      BY <1>8
    <3>4. at(i) = at(i - 1) + SizeOf(first + i - 1)
      BY <2>2
    <3> QED
      BY ONLY <3>2, <3>3, <3>4
  <2> QED
    BY <2>1, <2>5, <2>6
<1> HIDE DEF at
<1>12. total = [n \in 0..k |-> IF n = 0 THEN Frame ELSE total[n - 1] + page[n].text + page[n].rest]
  <2> DEFINE g == [n \in 0..k |-> Frame + at(n)]
  <2> HIDE DEF k
  <2>1. ASSUME NEW n \in 0..k
        PROVE  g[n] = IF n = 0 THEN Frame ELSE g[n - 1] + page[n].text + page[n].rest
    <3>1. CASE n = 0
      BY <1>10, <1>11, <3>1
    <3>2. CASE n # 0
      <4>1. n \in 1..k /\ n - 1 \in 0..k
        BY <1>6, <3>2
      <4>2. /\ at(n - 1) \in Nat /\ at(n) = at(n - 1) + page[n].text + page[n].rest
            /\ page[n].text \in Nat /\ page[n].rest \in Nat
        BY <1>8, <1>11, <4>1
      <4>3. g[n] = Frame + at(n) /\ g[n - 1] = Frame + at(n - 1)
        BY <4>1
      <4> HIDE DEF g
      <4>4. g[n] = g[n - 1] + page[n].text + page[n].rest
        BY ONLY <1>10, <4>2, <4>3
      <4> QED
        BY <3>2, <4>4
    <3> QED
      BY <3>1, <3>2
  <2>2. g = [n \in 0..k |-> IF n = 0 THEN Frame ELSE g[n - 1] + page[n].text + page[n].rest]
    BY <2>1
  <2> HIDE DEF g
  <2> QED
    BY <1>7, <2>2
<1> HIDE DEF total
<1>13. total[k] = Frame + at(k)
  <2> DEFINE S == {n \in 0..k : total[n] # Frame + at(n)}
  <2> HIDE DEF k
  <2>1. S = {}
    <3> SUFFICES ASSUME S # {} PROVE FALSE
      OBVIOUS
    <3>1. PICK m \in S : \A x \in S : m <= x
      <4>1. S \subseteq Nat
        BY <1>6
      <4> QED
        BY <4>1, LeastOf
    <3>2. m # 0 /\ m \in 0..k
      BY <1>6, <1>10, <1>11, <1>12
    <3>3. m \in 1..k /\ m - 1 \in 0..k /\ ~(m <= m - 1)
      BY <1>6, <3>2
    <3>4. total[m - 1] = Frame + at(m - 1)
      BY <3>1, <3>3
    <3>5. total[m] = total[m - 1] + page[m].text + page[m].rest
      BY <1>12, <3>2
    <3>6. /\ at(m - 1) \in Nat /\ at(m) = at(m - 1) + page[m].text + page[m].rest
          /\ page[m].text \in Nat /\ page[m].rest \in Nat
      BY <1>8, <1>11, <3>3
    <3>7. total[m] = Frame + at(m)
      BY ONLY <1>10, <3>4, <3>5, <3>6
    <3> QED
      BY <3>7
  <2>2. k \in 0..k
    BY <1>6
  <2> QED
    BY <2>1, <2>2
<1>14. total[k] <= Limit
  <2>1. first \in first..last
    BY <1>3, <1>5
  <2>2. Pages!PageSize(first, last) <= Limit
    BY <1>1, <2>1 DEF Pages!Fits
  <2>3. at(k) = f[last]
    BY <1>6 DEF at
  <2> QED
    BY <1>9, <1>13, <2>2, <2>3
<1> QED
  BY <1>4, <1>7, <1>8, <1>14

\* What is read joins what was read before; the cursor is its oldest turn.
Walking ==
    /\ turns \in Seq(Pages!Written) /\ Len(turns) <= MaxTurns
    /\ done \in BOOLEAN /\ joined \in 0..(MaxTurns + 1)
    /\ before # None => before \in 2..Len(turns) /\ joined = before
    /\ done => joined = 1
    /\ Pages!PageFits

LEMMA WalkBegins == ASSUME PageAssumption, Pages!Init PROVE Walking
<1>0. MaxTurns \in Nat
  BY DEF PageAssumption, Pages!SizeAssumption
<1>1. PICK n \in 0..MaxTurns : turns \in [1..n -> Pages!Written]
  BY DEF Pages!Init
<1>2. turns \in Seq(Pages!Written) /\ Len(turns) = n
  BY <1>1
<1>3. /\ before = None /\ done = FALSE /\ joined = n + 1 /\ shown = <<>>
  BY <1>2 DEF Pages!Init
<1>4. Pages!PageFits
  BY <1>3 DEF Pages!PageFits
<1>5. joined \in 0..(MaxTurns + 1) /\ Len(turns) <= MaxTurns
  BY <1>0, <1>2, <1>3
<1> QED
  BY <1>2, <1>3, <1>4, <1>5 DEF Walking

LEMMA WalkGoesOn == ASSUME PageAssumption, Walking, [Pages!Next]_(Pages!vars) PROVE Walking'
<1>0. MaxTurns \in Nat /\ None \notin 1..MaxTurns /\ Frame \in Nat
  BY DEF PageAssumption, Pages!SizeAssumption, Pages!NoneAssumption
<1>1. CASE Pages!ReadPage
  <2> DEFINE last == Pages!Last(before)
             first == Pages!First(last)
             next == IF before = None THEN Len(turns) + 1 ELSE joined
             cursor == IF last < first THEN None ELSE Pages!Cursor(first)
  <2>1. /\ joined' = IF last + 1 = next THEN first ELSE 0
        /\ shown' = [i \in 1..(last - first + 1) |-> Pages!Cut(turns[first + i - 1])]
        /\ before' = cursor /\ done' = (cursor = None) /\ turns' = turns
    BY <1>1 DEF Pages!ReadPage
  <2>2. turns \in Seq(Pages!Written) /\ Len(turns) <= MaxTurns /\ Len(turns) \in Nat
    BY DEF Walking
  <2>3. last \in 0..Len(turns) /\ last + 1 = next
    BY <2>2 DEF Walking, Pages!Last
  <2>4. first \in 1..(last + 1) /\ (last # 0 => first <= last)
    BY <2>2, <2>3, FirstFits
  <2>5. joined' = first
    BY <2>1, <2>3
  <2>6. Pages!PageFits'
    <3>1. CASE first <= last
      <4> HIDE DEF last
      <4> QED
        BY <2>1, <2>2, <2>3, <3>1, ShownFits
    <3>2. CASE ~(first <= last)
      <4>1. last - first + 1 = 0
        BY <2>2, <2>3, <2>4, <3>2
      <4> HIDE DEF last, first
      <4>2. shown' = <<>>
        BY <2>1, <4>1
      <4> QED
        BY <4>2 DEF Pages!PageFits
    <3> QED
      BY <3>1, <3>2
  <2> HIDE DEF last, first
  <2>7. before' # None => before' \in 2..Len(turns) /\ before' = first
    BY <2>1, <2>2, <2>3, <2>4 DEF Pages!Cursor
  <2>8. done' => first = 1
    <3>1. CASE last = 0
      BY <2>4, <3>1
    <3>2. CASE last # 0
      <4>1. first <= last /\ first \in 1..Len(turns) /\ first \in 1..MaxTurns
        BY <1>0, <2>2, <2>3, <2>4, <3>2
      <4>2. ~(last < first) /\ first # None
        BY <1>0, <2>2, <2>3, <4>1
      <4>3. cursor = IF first > 1 THEN first ELSE None
        BY <4>2 DEF Pages!Cursor
      <4>4. done' => cursor = None
        BY <2>1
      <4> HIDE DEF cursor
      <4> QED
        BY <4>1, <4>2, <4>3, <4>4
    <3> QED
      BY <3>1, <3>2
  <2>9. done' \in BOOLEAN /\ joined' \in 0..(MaxTurns + 1)
    BY <1>0, <2>1, <2>2, <2>3, <2>4, <2>5
  <2> QED
    BY <2>1, <2>2, <2>5, <2>6, <2>7, <2>8, <2>9 DEF Walking
<1>2. ASSUME NEW turn \in Pages!Written, Pages!Record(turn) PROVE Walking'
  <2>1. /\ Len(turns) < MaxTurns /\ turns' = Append(turns, turn)
        /\ UNCHANGED <<before, joined, shown, done>>
    BY <1>2 DEF Pages!Record
  <2>2. turns \in Seq(Pages!Written) /\ Len(turns) \in Nat
    BY DEF Walking
  <2>3. turns' \in Seq(Pages!Written) /\ Len(turns') = Len(turns) + 1
    BY <2>1, <2>2
  <2>4. Len(turns') <= MaxTurns
    BY <1>0, <2>1, <2>2, <2>3
  <2>5. before # None => before \in 2..Len(turns')
    BY <2>2, <2>3 DEF Walking
  <2>6. Pages!PageFits'
    BY <2>1 DEF Walking, Pages!PageFits
  <2> QED
    BY <2>1, <2>3, <2>4, <2>5, <2>6 DEF Walking
<1>3. CASE UNCHANGED Pages!vars
  BY <1>3 DEF Pages!vars, Walking, Pages!PageFits
<1> QED
  BY <1>1, <1>2, <1>3 DEF Pages!Next

LEMMA WalkShows ==
    ASSUME PageAssumption, Walking PROVE Pages!TypeOK /\ Pages!WalkIsWhole /\ Pages!PageFits
<1>1. MaxTurns \in Nat /\ Len(turns) \in Nat
  BY DEF Walking, PageAssumption, Pages!SizeAssumption
<1>2. before \in (1..MaxTurns) \union {None}
  BY <1>1 DEF Walking
<1> QED
  BY <1>2 DEF Walking, Pages!TypeOK, Pages!WalkIsWhole

\* Whatever sizes turns have, however big a page may be, and whatever is recorded on the way: a
\* reader that follows the cursors to the end was shown every turn once and in order, and each
\* page fits where it goes, with turns that still say something (store/conversation.go).
THEOREM WalksAreWhole ==
    PageAssumption => (Pages!Spec => [](Pages!TypeOK /\ Pages!WalkIsWhole /\ Pages!PageFits))
<1> SUFFICES ASSUME PageAssumption
             PROVE  Pages!Spec => [](Pages!TypeOK /\ Pages!WalkIsWhole /\ Pages!PageFits)
  OBVIOUS
<1>1. Pages!Init => Walking
  BY WalkBegins
<1>2. Walking /\ [Pages!Next]_(Pages!vars) => Walking'
  BY WalkGoesOn
<1>3. Walking => Pages!TypeOK /\ Pages!WalkIsWhole /\ Pages!PageFits
  BY WalkShows
<1> QED
  BY <1>1, <1>2, <1>3, PTL DEF Pages!Spec

(***************************************************************************)
(* Sums over finite sets, which are folds: a sum is the same in whatever   *)
(* order it is taken, and what holds of the sum over no element and is     *)
(* kept by one more is shown by taking the smallest set of which it does   *)
(* not hold.                                                               *)
(***************************************************************************)

One(s) == CHOOSE x \in s : TRUE

\* f gives the sum of w over each of the sets in level.
Adds(f, w, level) == f = [s \in level |-> IF s = {} THEN 0 ELSE w[One(s)] + f[s \ {One(s)}]]

LEMMA OneOf == ASSUME NEW s, s # {} PROVE One(s) \in s
  BY DEF One

LEMMA OneLess ==
    ASSUME NEW s, IsFiniteSet(s), NEW x \in s
    PROVE  /\ IsFiniteSet(s \ {x}) /\ Cardinality(s) \in Nat /\ Cardinality(s) # 0
           /\ Cardinality(s \ {x}) = Cardinality(s) - 1
<1>1. Cardinality(s) \in Nat /\ Cardinality(s \ {x}) \in Nat /\ IsFiniteSet(s \ {x})
      /\ Cardinality(s \ {x}) = Cardinality(s) - 1
  BY FS_RemoveElement, FS_CardinalityType
<1> QED
  BY <1>1

\* The subsets with at most k elements.
Level(S, k) == {s \in SUBSET S : Cardinality(s) <= k}

LEMMA LevelAdds ==
    ASSUME NEW S, IsFiniteSet(S), NEW w, NEW k \in Nat
    PROVE  \E f : Adds(f, w, Level(S, k))
<1>0. \A s \in SUBSET S : IsFiniteSet(s) /\ Cardinality(s) \in Nat
  BY FS_Subset, FS_CardinalityType
<1> DEFINE Bad == {n \in Nat : ~\E f : Adds(f, w, Level(S, n))}
<1>1. SUFFICES ASSUME Bad # {} PROVE FALSE
  OBVIOUS
<1>2. PICK m \in Bad : \A n \in Bad : m <= n
  BY <1>1, LeastOf
<1>3. \E f : /\ DOMAIN f = {s \in Level(S, m) : Cardinality(s) < m}
             /\ \A s \in Level(S, m) : Cardinality(s) < m =>
                   f[s] = IF s = {} THEN 0 ELSE w[One(s)] + f[s \ {One(s)}]
  <2>1. CASE m = 0
    <3>1. \A s \in Level(S, m) : ~(Cardinality(s) < m)
      BY <1>0, <2>1 DEF Level
    <3> DEFINE f == [s \in {} |-> 0]
    <3>2. DOMAIN f = {s \in Level(S, m) : Cardinality(s) < m}
      BY <3>1
    <3> QED
      BY <3>1, <3>2
  <2>2. CASE m # 0
    <3>1. m - 1 \in Nat /\ ~(m <= m - 1)
      BY <2>2
    <3>2. PICK f : Adds(f, w, Level(S, m - 1))
      BY <1>2, <3>1
    <3>3. Level(S, m - 1) = {s \in Level(S, m) : Cardinality(s) < m}
      <4>1. \A s \in SUBSET S :
               Cardinality(s) <= m - 1 <=> Cardinality(s) <= m /\ Cardinality(s) < m
        BY <1>0
      <4> QED
        BY <4>1 DEF Level
    <3>4. DOMAIN f = Level(S, m - 1)
          /\ \A s \in Level(S, m - 1) : f[s] = IF s = {} THEN 0 ELSE w[One(s)] + f[s \ {One(s)}]
      BY <3>2 DEF Adds
    <3> QED
      BY <3>3, <3>4
  <2> QED
    BY <2>1, <2>2
<1>4. PICK f : /\ DOMAIN f = {s \in Level(S, m) : Cardinality(s) < m}
               /\ \A s \in Level(S, m) : Cardinality(s) < m =>
                     f[s] = IF s = {} THEN 0 ELSE w[One(s)] + f[s \ {One(s)}]
  BY <1>3
<1> DEFINE g == [s \in Level(S, m) |->
                   IF Cardinality(s) < m THEN f[s]
                   ELSE IF s = {} THEN 0 ELSE w[One(s)] + f[s \ {One(s)}]]
<1>5. ASSUME NEW s \in Level(S, m)
      PROVE  g[s] = IF s = {} THEN 0 ELSE w[One(s)] + g[s \ {One(s)}]
  <2>1. g[s] = IF s = {} THEN 0 ELSE w[One(s)] + f[s \ {One(s)}]
    BY <1>4
  <2>2. ASSUME s # {} PROVE g[s \ {One(s)}] = f[s \ {One(s)}]
    <3> DEFINE r == s \ {One(s)}
    <3>1. One(s) \in s /\ IsFiniteSet(s) /\ Cardinality(s) \in Nat /\ Cardinality(s) <= m
      BY <1>0, <2>2, OneOf DEF Level
    <3>2. Cardinality(r) = Cardinality(s) - 1
      BY <3>1, OneLess
    <3>3. r \in SUBSET S
      BY DEF Level
    <3>4. r \in Level(S, m) /\ Cardinality(r) < m
      BY <3>1, <3>2, <3>3 DEF Level
    <3> HIDE DEF r
    <3>5. g[r] = f[r]
      BY <3>4
    <3> QED
      BY <3>5 DEF r
  <2> HIDE DEF g
  <2> QED
    BY <2>1, <2>2
<1>6. Adds(g, w, Level(S, m))
  BY <1>5 DEF Adds
<1> QED
  BY <1>2, <1>6

LEMMA AddsExist ==
    ASSUME NEW S, IsFiniteSet(S), NEW w
    PROVE  \E f : Adds(f, w, SUBSET S)
<1>1. Cardinality(S) \in Nat
  BY FS_CardinalityType
<1>2. \A s \in SUBSET S : Cardinality(s) <= Cardinality(S)
  BY FS_Subset
<1>3. Level(S, Cardinality(S)) = SUBSET S
  BY <1>2 DEF Level
<1>4. \E f : Adds(f, w, Level(S, Cardinality(S)))
  BY <1>1, LevelAdds
<1> QED
  BY <1>3, <1>4

\* A sum does not depend on the order: any element may be taken first.
\* f gives the sum of w over each subset of S, whichever element comes last.
Totals(f, w, S) ==
    /\ f[{}] = 0
    /\ \A s \in SUBSET S : f[s] \in Int /\ \A x \in s : f[s] = w[x] + f[s \ {x}]

LEMMA AddsAny ==
    ASSUME NEW S, IsFiniteSet(S), NEW w, \A x \in S : w[x] \in Int,
           NEW f, Adds(f, w, SUBSET S)
    PROVE  Totals(f, w, S)
<1>0. \A s \in SUBSET S : IsFiniteSet(s) /\ Cardinality(s) \in Nat
  BY FS_Subset, FS_CardinalityType
<1>1. \A s \in SUBSET S : f[s] = IF s = {} THEN 0 ELSE w[One(s)] + f[s \ {One(s)}]
  BY DEF Adds
<1> DEFINE Right(s) == f[s] \in Int /\ \A x \in s : f[s] = w[x] + f[s \ {x}]
           Bad == {n \in Nat : \E s \in SUBSET S : Cardinality(s) = n /\ ~Right(s)}
<1>2. Bad = {}
  <2> SUFFICES ASSUME Bad # {} PROVE FALSE
    OBVIOUS
  <2>1. PICK m \in Bad : \A n \in Bad : m <= n
    <3>1. Bad \subseteq Nat
      OBVIOUS
    <3> HIDE DEF Bad
    <3> QED
      BY <3>1, LeastOf
  <2>2. PICK s \in SUBSET S : Cardinality(s) = m /\ ~Right(s)
    OBVIOUS
  <2>3. ASSUME NEW r \in SUBSET S, NEW x \in s, r = s \ {x} PROVE Right(r)
    <3>1. Cardinality(r) = m - 1 /\ m \in Nat /\ Cardinality(r) \in Nat
      BY <1>0, <2>2, <2>3, OneLess
    <3>2. ~(m <= Cardinality(r)) /\ Cardinality(r) \in Nat
      BY <3>1
    <3>3. Cardinality(r) \notin Bad
      BY <2>1, <3>2
    <3> HIDE DEF Right
    <3> QED
      BY <3>2, <3>3
  <2>4. CASE s = {}
    <3>1. f[s] = 0
      BY <1>1, <2>4
    <3>2. f[s] \in Int /\ \A x \in s : f[s] = w[x] + f[s \ {x}]
      BY <2>4, <3>1
    <3> QED
      BY <2>2, <3>2
  <2>5. CASE s # {}
    <3> DEFINE c == One(s)
               r == s \ {c}
    <3>1. c \in s /\ c \in S /\ r \in SUBSET S
      BY <2>5, OneOf
    <3>2. f[s] = w[c] + f[r]
      BY <1>1, <2>5
    <3> HIDE DEF c
    <3>3. Right(r)
      BY <2>3, <3>1
    <3>4. f[s] \in Int /\ f[r] \in Int /\ w[c] \in Int
      BY <3>1, <3>2, <3>3
    <3>5. ASSUME NEW x \in s PROVE f[s] = w[x] + f[s \ {x}]
      <4>1. CASE x = c
        BY <3>2, <4>1
      <4>2. CASE x # c
        <5> DEFINE q == s \ {x}
                   b == q \ {c}
        <5>1. q \in SUBSET S /\ c \in q /\ x \in r /\ r \ {x} = b /\ x \in S /\ b \in SUBSET S
          BY <3>1, <4>2
        <5>2. Right(q)
          BY <2>3, <5>1
        <5>3. f[q] = w[c] + f[b] /\ f[r] = w[x] + f[b] /\ f[q] \in Int
          BY <3>3, <5>1, <5>2
        <5>4. f[b] \in Int
          <6>1. \E y \in q : b = q \ {y}
            BY <5>1
          <6>2. Cardinality(b) = Cardinality(q) - 1 /\ Cardinality(q) = m - 1 /\ m \in Nat
                /\ Cardinality(b) \in Nat
            BY <1>0, <2>2, <5>1, OneLess
          <6>3. ~(m <= Cardinality(b)) /\ Cardinality(b) \in Nat
            BY <6>2
          <6>4. Cardinality(b) \notin Bad
            BY <2>1, <6>3
          <6> HIDE DEF b
          <6>5. Right(b)
            <7> HIDE DEF Right
            <7> QED
              BY <5>1, <6>3, <6>4
          <6> QED
            BY <6>5
        <5>5. w[x] \in Int /\ w[c] \in Int
          BY <3>4, <5>1
        <5> HIDE DEF q, b, r
        <5>6. f[s] = w[x] + f[q]
          BY ONLY <3>2, <5>3, <5>4, <5>5
        <5> QED
          BY <5>6 DEF q
      <4> QED
        BY <4>1, <4>2
    <3> QED
      BY <2>2, <3>4, <3>5
  <2> QED
    BY <2>4, <2>5
<1>3. ASSUME NEW s \in SUBSET S PROVE Right(s)
  <2>1. Cardinality(s) \in Nat /\ Cardinality(s) \notin Bad
    <3> HIDE DEF Bad
    <3> QED
      BY <1>0, <1>2
  <2> HIDE DEF Right
  <2> QED
    BY <2>1
<1> QED
  BY <1>1, <1>3 DEF Totals

(***************************************************************************)
(* Reports, for every number of ads, days and conversions and every delay. *)
(* A day that is over gets no more hours; a complete report is of days     *)
(* that are over; an hour from which nothing was hidden looks no different *)
(* when it is older.                                                       *)
(***************************************************************************)

CONSTANTS Later, FullDay, HoursOf, Delay, Conversions, SeedConversions
VARIABLES clock, ads, facts, asked

Reports == INSTANCE ReportEvidence

Hour == [ad : Seeded \union Later, day : Nat, hour : Nat, age : Nat, conversions : Nat]
Aged(f) == [f EXCEPT !.age = @ + 1]
HoursAt(ad, day) == {f \in facts : f.ad = ad /\ f.day = day}
SeedOf(ad, day) == IF ad \in Seeded /\ day = 0 THEN 1 ELSE 0

LEMMA AgeChanged ==
    ASSUME NEW f, f = [ad |-> f.ad, day |-> f.day, hour |-> f.hour, age |-> f.age,
                       conversions |-> f.conversions],
           NEW n, NEW g, g = [f EXCEPT !.age = n]
    PROVE  g = [ad |-> f.ad, day |-> f.day, hour |-> f.hour, age |-> n,
                conversions |-> f.conversions]
  OBVIOUS

LEMMA HourAged ==
    ASSUME NEW f \in Hour
    PROVE  /\ Aged(f) \in Hour /\ Aged(f).ad = f.ad /\ Aged(f).day = f.day
           /\ Aged(f).hour = f.hour /\ Aged(f).age = f.age + 1
           /\ Aged(f).conversions = f.conversions
           /\ f.day \in Nat /\ f.hour \in Nat /\ f.age \in Nat /\ f.conversions \in Nat
<1> DEFINE g == Aged(f)
           n == f.age + 1
<1>1. /\ f = [ad |-> f.ad, day |-> f.day, hour |-> f.hour, age |-> f.age,
              conversions |-> f.conversions]
      /\ f.ad \in Seeded \union Later /\ f.day \in Nat /\ f.hour \in Nat /\ f.age \in Nat
      /\ f.conversions \in Nat
  BY DEF Hour
<1>2. g = [f EXCEPT !.age = n]
  BY DEF Aged
<1>3. n \in Nat
  BY <1>1
<1> HIDE DEF g, n
<1>4. g = [ad |-> f.ad, day |-> f.day, hour |-> f.hour, age |-> n, conversions |-> f.conversions]
  BY ONLY <1>1, <1>2, AgeChanged
<1>5. g \in Hour
  BY ONLY <1>1, <1>3, <1>4 DEF Hour
<1> QED
  BY <1>1, <1>4, <1>5 DEF g, n

LEMMA AgedApart ==
    ASSUME NEW f \in Hour, NEW g \in Hour, Aged(f) = Aged(g)
    PROVE  f = g
<1>1. /\ f.ad = g.ad /\ f.day = g.day /\ f.hour = g.hour /\ f.conversions = g.conversions
      /\ f.age + 1 = g.age + 1 /\ f.age \in Nat /\ g.age \in Nat
  <2>1. Aged(f).ad = Aged(g).ad /\ Aged(f).day = Aged(g).day /\ Aged(f).hour = Aged(g).hour
        /\ Aged(f).conversions = Aged(g).conversions /\ Aged(f).age = Aged(g).age
    OBVIOUS
  <2> QED
    BY ONLY <2>1, HourAged, f \in Hour, g \in Hour
<1>2. f.age = g.age
  BY ONLY <1>1
<1>3. /\ f = [ad |-> f.ad, day |-> f.day, hour |-> f.hour, age |-> f.age,
              conversions |-> f.conversions]
      /\ g = [ad |-> g.ad, day |-> g.day, hour |-> g.hour, age |-> g.age,
              conversions |-> g.conversions]
  BY DEF Hour
<1> QED
  BY ONLY <1>1, <1>2, <1>3

\* Ageing keeps how many there are.
LEMMA AgedAreAsMany ==
    ASSUME NEW S, S \subseteq Hour, IsFiniteSet(S)
    PROVE  IsFiniteSet({Aged(f) : f \in S}) /\ Cardinality({Aged(f) : f \in S}) = Cardinality(S)
<1> DEFINE T == {Aged(f) : f \in S}
           b == [f \in S |-> Aged(f)]
<1>1. b \in [S -> T] /\ \A t \in T : \E f \in S : b[f] = t
  OBVIOUS
<1>2. \A f, g \in S : b[f] = b[g] => f = g
  BY AgedApart
<1> HIDE DEF T, b
<1>3. b \in Bijection(S, T)
  BY <1>1, <1>2, Fun_IsBij
<1>4. ExistsBijection(S, T)
  BY <1>3 DEF ExistsBijection
<1> QED
  BY <1>4, FS_Bijection DEF T

\* What is seen of a set of hours.
Seen(S) == Reports!MapThenSumSet(Reports!Visible, S)

LEMMA SeenAdds ==
    ASSUME NEW S, IsFiniteSet(S), NEW w, \A f \in S : w[f] = Reports!Visible(f)
    PROVE  \E it : Adds(it, w, SUBSET S) /\ Seen(S) = it[S]
<1> DEFINE F == CHOOSE it : it = [s \in SUBSET S |->
                   IF s = {} THEN 0 ELSE Reports!Visible(One(s)) + it[s \ {One(s)}]]
<1>1. Seen(S) = F[S]
  BY DEF Seen, Reports!MapThenSumSet, Reports!MapThenFoldSet, One
<1>2. PICK it : Adds(it, w, SUBSET S)
  BY AddsExist
<1>3. \A s \in SUBSET S : s # {} => w[One(s)] = Reports!Visible(One(s))
  BY OneOf
<1>4. it = [s \in SUBSET S |-> IF s = {} THEN 0 ELSE w[One(s)] + it[s \ {One(s)}]]
  BY <1>2 DEF Adds
<1>5. it = [s \in SUBSET S |-> IF s = {} THEN 0 ELSE Reports!Visible(One(s)) + it[s \ {One(s)}]]
  BY <1>3, <1>4
<1>6. F = [s \in SUBSET S |-> IF s = {} THEN 0 ELSE Reports!Visible(One(s)) + F[s \ {One(s)}]]
  BY <1>5
<1> HIDE DEF F
<1>7. F = [s \in SUBSET S |-> IF s = {} THEN 0 ELSE w[One(s)] + F[s \ {One(s)}]]
  BY <1>3, <1>6
<1>8. Adds(F, w, SUBSET S)
  BY <1>7 DEF Adds
<1> QED
  BY <1>1, <1>8

\* Where no conversion is hidden, growing older shows none that was not seen.
LEMMA AgedSeenAlike ==
    ASSUME Delay \in Nat, NEW S, S \subseteq Hour, IsFiniteSet(S),
           \A f \in S : ~Reports!Hidden(f)
    PROVE  Seen({Aged(f) : f \in S}) = Seen(S)
<1> DEFINE T == {Aged(f) : f \in S}
           w == [f \in S |-> Reports!Visible(f)]
           v == [g \in T |-> Reports!Visible(g)]
           A(s) == {Aged(f) : f \in s}
<1>1. \A f \in S : /\ w[f] = Reports!Visible(f) /\ w[f] \in Int
                   /\ Aged(f) \in T /\ v[Aged(f)] = w[f] /\ f \in Hour
  <2> SUFFICES ASSUME NEW f \in S
               PROVE  Reports!Visible(f) \in Int /\ Reports!Visible(Aged(f)) = Reports!Visible(f)
    OBVIOUS
  <2>1. f \in Hour
    OBVIOUS
  <2>2. /\ Aged(f).age = f.age + 1 /\ Aged(f).conversions = f.conversions
        /\ f.age \in Nat /\ f.conversions \in Nat
    BY <2>1, HourAged
  <2> QED
    BY <2>2 DEF Reports!Hidden, Reports!Visible
<1>2. \A g \in T : v[g] = Reports!Visible(g) /\ v[g] \in Int
  BY <1>1
<1>3. IsFiniteSet(T)
  BY AgedAreAsMany
<1>4. T = A(S) /\ A({}) = {} /\ \A s \in SUBSET S : A(s) \in SUBSET T
  OBVIOUS
<1>5. ASSUME NEW s \in SUBSET S, NEW f \in s PROVE A(s) \ {Aged(f)} = A(s \ {f})
  <2>1. \A g \in s : Aged(g) = Aged(f) => g = f
    BY AgedApart
  <2> QED
    BY <2>1
<1>6. \A s \in SUBSET S : \A f \in s : Aged(f) \in A(s)
  OBVIOUS
<1> HIDE DEF T, w, v, A
<1>7. PICK it : Adds(it, w, SUBSET S) /\ Seen(S) = it[S]
  BY <1>1, SeenAdds
<1>8. PICK at : Adds(at, v, SUBSET T) /\ Seen(T) = at[T]
  BY <1>2, <1>3, SeenAdds
<1>9. Totals(it, w, S)
  <2>1. IsFiniteSet(S) /\ \A f \in S : w[f] \in Int
    BY <1>1
  <2> QED
    BY <1>7, <2>1, AddsAny
<1>10. Totals(at, v, T)
  <2>1. \A g \in T : v[g] \in Int
    BY <1>2
  <2> QED
    BY <1>3, <1>8, <2>1, AddsAny
<1>11. \A s \in SUBSET S : IsFiniteSet(s) /\ Cardinality(s) \in Nat
  BY FS_Subset, FS_CardinalityType
<1> DEFINE Bad == {n \in Nat : \E s \in SUBSET S : Cardinality(s) = n /\ at[A(s)] # it[s]}
<1>12. Bad = {}
  <2> SUFFICES ASSUME Bad # {} PROVE FALSE
    OBVIOUS
  <2>1. PICK m \in Bad : \A n \in Bad : m <= n
    <3>1. Bad \subseteq Nat
      OBVIOUS
    <3> HIDE DEF Bad
    <3> QED
      BY <3>1, LeastOf
  <2>2. PICK s \in SUBSET S : Cardinality(s) = m /\ at[A(s)] # it[s]
    OBVIOUS
  <2>3. s # {}
    BY <1>4, <1>9, <1>10, <2>2 DEF Totals
  <2>4. PICK f \in s : TRUE
    BY <2>3
  <2> DEFINE r == s \ {f}
  <2>5. r \in SUBSET S /\ f \in S
    OBVIOUS
  <2>6. Cardinality(r) = m - 1 /\ Cardinality(r) \in Nat /\ m \in Nat
    BY <1>11, <2>2, <2>5, OneLess
  <2> HIDE DEF r
  <2>7. at[A(r)] = it[r]
    <3>1. Cardinality(r) \notin Bad
      <4>1. ~(m <= Cardinality(r))
        BY <2>6
      <4> QED
        BY <2>1, <4>1
    <3> QED
      BY <2>5, <2>6, <3>1
  <2>8. it[s] = w[f] + it[r]
    BY <1>9 DEF r, Totals
  <2>9. at[A(s)] = v[Aged(f)] + at[A(r)]
    <3>1. A(s) \in SUBSET T /\ Aged(f) \in A(s) /\ A(s) \ {Aged(f)} = A(r)
      BY <1>4, <1>5, <1>6 DEF r
    <3>2. at[A(s)] = v[Aged(f)] + at[A(s) \ {Aged(f)}]
      BY <1>10, <3>1 DEF Totals
    <3> QED
      BY <3>1, <3>2
  <2>10. v[Aged(f)] = w[f]
    BY <1>1, <2>5
  <2> QED
    BY <2>2, <2>7, <2>8, <2>9, <2>10
<1>13. at[A(S)] = it[S]
  <2>1. Cardinality(S) \in Nat /\ S \in SUBSET S
    BY FS_CardinalityType
  <2> QED
    BY <1>12, <2>1
<1> QED
  BY <1>4, <1>7, <1>8, <1>13 DEF T

Ready ==
    /\ clock = [day |-> clock.day, hour |-> clock.hour]
    /\ clock.day \in 0..Len(HoursOf) /\ clock.hour \in Nat
    /\ clock.day # 0 => clock.hour \in 1..HoursOf[clock.day]
    /\ Seeded \subseteq ads /\ ads \subseteq Seeded \union Later
    /\ facts \subseteq Hour /\ IsFiniteSet(facts)

\* Each hour of an ad was delivered once, up to the clock.
Delivered ==
    /\ \A f \in facts : /\ f.ad \in ads /\ f.day \in 1..clock.day /\ f.hour >= 1
                        /\ f.day = clock.day => f.hour <= clock.hour
    /\ \A f, g \in facts : f.ad = g.ad /\ f.day = g.day /\ f.hour = g.hour => f = g

Sealed(q) == q.to < clock.day \/ (q.to = clock.day /\ Reports!Tomorrow)

\* What someone has in hand is what would be reported now, as far as it was promised.
Stands(q) ==
    /\ Sealed(q)
    /\ DOMAIN Reports!Rows(q) = DOMAIN asked.rows
    /\ \A k \in DOMAIN asked.rows : Reports!Rows(q)[k].spend = asked.rows[k].spend
    /\ ~asked.pending => ~Reports!BackfillPending(q) /\ Reports!Rows(q) = asked.rows

StillTrue ==
    asked # None =>
        /\ asked.query \in Reports!Query
        /\ asked.complete => \A q \in Reports!Query : q = asked.query => Stands(q)

ReportInvariant == Ready /\ Delivered /\ StillTrue

Keys(q) == {k \in ads \X (q.from..q.to) : SeedOf(k[1], k[2]) = 1 \/ HoursAt(k[1], k[2]) # {}}

LEMMA SameCount == \A S : Reports!Cardinality(S) = Cardinality(S)
<1> TAKE S
<1>1. Reports!IsFiniteSet(S) <=> IsFiniteSet(S)
  BY DEF Reports!IsFiniteSet, IsFiniteSet
<1> QED
  BY <1>1 DEF Reports!Cardinality, Cardinality

LEMMA RowsAre ==
    ASSUME NEW q
    PROVE  Reports!Rows(q) = [k \in Keys(q) |->
              [spend |-> Cardinality(HoursAt(k[1], k[2])) + SeedOf(k[1], k[2]),
               conversions |-> Seen(HoursAt(k[1], k[2])) + SeedOf(k[1], k[2]) * SeedConversions]]
  BY SameCount DEF Reports!Rows, Keys, HoursAt, SeedOf, Seen

LEMMA RowsAreThen ==
    ASSUME NEW q
    PROVE  Reports!Rows(q)' = [k \in Keys(q)' |->
              [spend |-> Cardinality(HoursAt(k[1], k[2])') + SeedOf(k[1], k[2]),
               conversions |-> Seen(HoursAt(k[1], k[2])') + SeedOf(k[1], k[2]) * SeedConversions]]
  BY SameCount DEF Reports!Rows, Keys, HoursAt, SeedOf, Seen

\* One and the same listing, of hours that have grown older.
LEMMA RowsAged ==
    ASSUME Delay \in Nat, facts \subseteq Hour, IsFiniteSet(facts), NEW q, Keys(q)' = Keys(q),
           \A k \in Keys(q) : \/ HoursAt(k[1], k[2])' = {Aged(f) : f \in HoursAt(k[1], k[2])}
                              \/ HoursAt(k[1], k[2])' = HoursAt(k[1], k[2])
    PROVE  /\ DOMAIN Reports!Rows(q)' = DOMAIN Reports!Rows(q)
           /\ \A k \in DOMAIN Reports!Rows(q) : Reports!Rows(q)'[k].spend = Reports!Rows(q)[k].spend
           /\ (\A k \in Keys(q) : \A f \in HoursAt(k[1], k[2]) : ~Reports!Hidden(f))
                 => Reports!Rows(q)' = Reports!Rows(q)
<1> DEFINE now(k) == HoursAt(k[1], k[2])
           then(k) == HoursAt(k[1], k[2])'
           seed(k) == SeedOf(k[1], k[2])
           past == Reports!Rows(q)
           after == Reports!Rows(q)'
           keys == Keys(q)
<1>1. past = [k \in keys |-> [spend |-> Cardinality(now(k)) + seed(k),
                                conversions |-> Seen(now(k)) + seed(k) * SeedConversions]]
  BY RowsAre
<1>2. after = [k \in keys |-> [spend |-> Cardinality(then(k)) + seed(k),
                               conversions |-> Seen(then(k)) + seed(k) * SeedConversions]]
  BY RowsAreThen
<1>3. ASSUME NEW k \in keys PROVE now(k) \subseteq Hour /\ IsFiniteSet(now(k))
  BY FS_Subset DEF HoursAt
<1>4. ASSUME NEW k \in keys PROVE Cardinality(then(k)) = Cardinality(now(k))
  <2>1. then(k) = {Aged(f) : f \in now(k)} \/ then(k) = now(k)
    OBVIOUS
  <2>2. now(k) \subseteq Hour /\ IsFiniteSet(now(k))
    BY <1>3
  <2> HIDE DEF now, then
  <2> QED
    BY <2>1, <2>2, AgedAreAsMany
<1>5. ASSUME \A k \in keys : \A f \in now(k) : ~Reports!Hidden(f), NEW k \in keys
      PROVE  Seen(then(k)) = Seen(now(k))
  <2>1. then(k) = {Aged(f) : f \in now(k)} \/ then(k) = now(k)
    OBVIOUS
  <2>2. now(k) \subseteq Hour /\ IsFiniteSet(now(k)) /\ \A f \in now(k) : ~Reports!Hidden(f)
    BY <1>3, <1>5
  <2> HIDE DEF now, then
  <2> QED
    BY <2>1, <2>2, AgedSeenAlike
<1> HIDE DEF now, then, seed, past, after, keys
<1>6. DOMAIN after = DOMAIN past /\ DOMAIN past = keys
  BY <1>1, <1>2
<1>7. \A k \in keys : after[k].spend = past[k].spend
  BY <1>1, <1>2, <1>4
<1>8. ASSUME \A k \in keys : \A f \in now(k) : ~Reports!Hidden(f) PROVE after = past
  <2>1. \A k \in keys : Seen(then(k)) = Seen(now(k))
    BY <1>5, <1>8
  <2> QED
    BY <1>1, <1>2, <1>4, <2>1
<1> QED
  BY <1>6, <1>7, <1>8 DEF now, past, after, keys

LEMMA Calendar ==
    ASSUME Reports!ReportAssumption
    PROVE  /\ Delay \in Nat /\ FullDay \in Nat /\ FullDay > 0 /\ SeedConversions \in Nat
           /\ Conversions \subseteq Nat /\ Seeded # {} /\ IsFiniteSet(Seeded \union Later)
           /\ Len(HoursOf) \in Nat
           /\ \A d \in 1..Len(HoursOf) : HoursOf[d] \in Nat /\ HoursOf[d] >= 1
           /\ \A q \in Reports!Query : q.from \in Nat /\ q.to \in Nat /\ q.from <= q.to
<1>1. Reports!IsFiniteSet(Seeded \union Later) <=> IsFiniteSet(Seeded \union Later)
  BY DEF Reports!IsFiniteSet, IsFiniteSet
<1>2. HoursOf \in Seq(Nat \ {0}) /\ Len(HoursOf) \in Nat
  BY DEF Reports!ReportAssumption
<1>3. \A d \in 1..Len(HoursOf) : HoursOf[d] \in Nat /\ HoursOf[d] >= 1
  BY <1>2
<1>4. ASSUME NEW q \in Reports!Query PROVE q.from \in Nat /\ q.to \in Nat /\ q.from <= q.to
  BY <1>2 DEF Reports!Query, Reports!Days
<1> QED
  BY <1>1, <1>2, <1>3, <1>4 DEF Reports!ReportAssumption

\* The next hour, of the same day or the first of the next.
LEMMA HourPasses ==
    ASSUME Reports!ReportAssumption, Ready, NEW converted, Reports!Hour(converted)
    PROVE  /\ clock' = [day |-> clock'.day, hour |-> clock'.hour]
           /\ clock'.day \in 1..Len(HoursOf) /\ clock'.hour \in 1..HoursOf[clock'.day]
           /\ \/ Reports!Tomorrow /\ clock'.day = clock.day + 1
              \/ ~Reports!Tomorrow /\ clock'.day = clock.day /\ clock'.hour = clock.hour + 1
<1>0. /\ clock = [day |-> clock.day, hour |-> clock.hour]
      /\ clock.day \in 0..Len(HoursOf) /\ clock.hour \in Nat
      /\ clock.day # 0 => clock.hour \in 1..HoursOf[clock.day]
      /\ Len(HoursOf) \in Nat /\ \A d \in 1..Len(HoursOf) : HoursOf[d] \in Nat /\ HoursOf[d] >= 1
  BY Calendar DEF Ready
<1>1. CASE Reports!Tomorrow
  <2>1. clock' = [day |-> clock.day + 1, hour |-> 1] /\ clock.day < Len(HoursOf)
    BY <1>1 DEF Reports!Hour
  <2>2. clock'.day = clock.day + 1 /\ clock'.hour = 1
    BY <2>1
  <2>3. clock.day + 1 \in 1..Len(HoursOf)
    BY <1>0, <2>1
  <2>4. 1 \in 1..HoursOf[clock.day + 1]
    BY <1>0, <2>3
  <2> QED
    BY <1>1, <2>1, <2>2, <2>3, <2>4
<1>2. CASE ~Reports!Tomorrow
  <2>1. clock' = [clock EXCEPT !.hour = @ + 1]
    BY <1>2 DEF Reports!Hour
  <2>2. clock' = [day |-> clock.day, hour |-> clock.hour + 1]
    BY ONLY <1>0, <2>1
  <2>3. clock'.day = clock.day /\ clock'.hour = clock.hour + 1
    BY <2>2
  <2>4. clock.day # 0 /\ clock.hour # HoursOf[clock.day]
    BY <1>2 DEF Reports!Tomorrow
  <2>5. clock.day \in 1..Len(HoursOf) /\ clock.hour + 1 \in 1..HoursOf[clock.day]
    BY <1>0, <2>4
  <2> QED
    BY <1>2, <2>2, <2>3, <2>5
<1> QED
  BY <1>1, <1>2

New(day, hour, converted) ==
    {[ad |-> ad, day |-> day, hour |-> hour, age |-> 0, conversions |-> converted[ad]] : ad \in ads}

\* The hour that is delivered, of each ad.
LEMMA NewHours ==
    ASSUME Reports!ReportAssumption, Ready, NEW converted \in [ads -> Conversions],
           NEW day \in Nat, NEW hour \in Nat
    PROVE  /\ New(day, hour, converted) \subseteq Hour /\ IsFiniteSet(New(day, hour, converted))
           /\ \A f \in New(day, hour, converted) :
                /\ f.ad \in ads /\ f.day = day /\ f.hour = hour
                /\ \A g \in New(day, hour, converted) : f.ad = g.ad => f = g
<1> DEFINE N == New(day, hour, converted)
<1>1. N \subseteq Hour
  <2>1. 0 \in Nat /\ ads \subseteq Seeded \union Later /\ Conversions \subseteq Nat
    BY Calendar DEF Ready
  <2>2. ASSUME NEW ad \in ads
        PROVE  [ad |-> ad, day |-> day, hour |-> hour, age |-> 0,
                conversions |-> converted[ad]] \in Hour
    <3>1. ad \in Seeded \union Later /\ converted[ad] \in Nat
      BY <2>1
    <3> QED
      BY ONLY <2>1, <3>1, day \in Nat, hour \in Nat DEF Hour
  <2> QED
    BY ONLY <2>2 DEF New, N
<1>2. ASSUME NEW f \in N
      PROVE  /\ f.ad \in ads /\ f.day = day /\ f.hour = hour
             /\ f = [ad |-> f.ad, day |-> day, hour |-> hour, age |-> 0,
                     conversions |-> converted[f.ad]]
  BY DEF New
<1>3. \A f, g \in N : f.ad = g.ad => f = g
  BY <1>2
<1>4. IsFiniteSet(N)
  <2> DEFINE i == [f \in N |-> f.ad]
  <2>1. i \in [N -> ads] /\ \A f, g \in N : i[f] = i[g] => f = g
    BY <1>2, <1>3
  <2> HIDE DEF i, N
  <2>2. i \in Injection(N, ads)
    BY <2>1, Fun_IsInj
  <2>3. IsFiniteSet(ads)
    BY Calendar, FS_Subset DEF Ready
  <2> QED
    BY <2>2, <2>3, FS_Injection
<1> QED
  BY <1>1, <1>2, <1>3, <1>4

LEMMA HourDelivers ==
    ASSUME Reports!ReportAssumption, Ready, Delivered, NEW converted \in [ads -> Conversions],
           Reports!Hour(converted)
    PROVE  /\ Ready' /\ Delivered'
           /\ facts' = {Aged(f) : f \in facts} \union New(clock'.day, clock'.hour, converted)
<1> DEFINE A == {Aged(f) : f \in facts}
           N == New(clock'.day, clock'.hour, converted)
<1>1. /\ clock' = [day |-> clock'.day, hour |-> clock'.hour]
      /\ clock'.day \in 1..Len(HoursOf) /\ clock'.hour \in 1..HoursOf[clock'.day]
      /\ \/ Reports!Tomorrow /\ clock'.day = clock.day + 1
         \/ ~Reports!Tomorrow /\ clock'.day = clock.day /\ clock'.hour = clock.hour + 1
  BY HourPasses
<1>2. facts' = A \union N /\ ads' = ads
  <2> DEFINE now == IF Reports!Tomorrow THEN [day |-> clock.day + 1, hour |-> 1]
                    ELSE [clock EXCEPT !.hour = @ + 1]
  <2>1. clock' = now /\ ads' = ads
        /\ facts' = {[f EXCEPT !.age = @ + 1] : f \in facts} \cup
                {[ad |-> ad, day |-> now.day, hour |-> now.hour, age |-> 0,
                  conversions |-> converted[ad]] : ad \in ads}
    BY DEF Reports!Hour
  <2> HIDE DEF now
  <2> QED
    BY <2>1 DEF New, Aged
<1>3. /\ Len(HoursOf) \in Nat /\ clock.day \in Nat /\ clock.hour \in Nat
      /\ clock'.day \in Nat /\ clock'.hour \in Nat /\ clock'.day >= 1 /\ clock'.hour >= 1
      /\ clock'.day \in 0..Len(HoursOf) /\ HoursOf[clock'.day] \in Nat
      /\ facts \subseteq Hour /\ IsFiniteSet(facts)
      /\ Seeded \subseteq ads /\ ads \subseteq Seeded \union Later
  BY <1>1, Calendar DEF Ready
<1>4. /\ N \subseteq Hour /\ IsFiniteSet(N)
      /\ \A f \in N : /\ f.ad \in ads /\ f.day = clock'.day /\ f.hour = clock'.hour
                      /\ \A g \in N : f.ad = g.ad => f = g
  BY <1>3, NewHours
<1>5. /\ A \subseteq Hour /\ IsFiniteSet(A)
      /\ \A g \in A : \E f \in facts : g = Aged(f) /\ g.ad = f.ad /\ g.day = f.day /\ g.hour = f.hour
  <2>1. A \subseteq Hour /\ \A f \in facts : /\ Aged(f).ad = f.ad /\ Aged(f).day = f.day
                                             /\ Aged(f).hour = f.hour
    BY <1>3, HourAged
  <2> QED
    BY <1>3, <2>1, AgedAreAsMany
<1>6. ASSUME NEW f \in facts
      PROVE  /\ f.ad \in ads /\ f.day \in 1..clock'.day /\ f.hour >= 1 /\ f.hour \in Nat
             /\ f.day = clock'.day => f.hour < clock'.hour
  <2>1. /\ f.ad \in ads /\ f.day \in 1..clock.day /\ f.hour >= 1 /\ f.hour \in Nat
        /\ f.day = clock.day => f.hour <= clock.hour
    BY <1>3, HourAged DEF Delivered
  <2> QED
    BY ONLY <1>1, <1>3, <2>1
<1> HIDE DEF A, N
<1>7. Ready'
  <2>1. IsFiniteSet(facts') /\ facts' \subseteq Hour
    BY <1>2, <1>4, <1>5, FS_Union
  <2>2. clock'.day # 0 => clock'.hour \in 1..HoursOf[clock'.day]
    BY <1>1
  <2> QED
    BY <1>1, <1>2, <1>3, <2>1, <2>2 DEF Ready
<1>8. Delivered'
  <2>1. ASSUME NEW g \in facts'
        PROVE  /\ g.ad \in ads' /\ g.day \in 1..clock'.day /\ g.hour >= 1
               /\ g.day = clock'.day => g.hour <= clock'.hour
    <3>1. CASE g \in N
      BY <1>2, <1>3, <1>4, <3>1
    <3>2. CASE g \in A
      <4>1. PICK f \in facts : g.ad = f.ad /\ g.day = f.day /\ g.hour = f.hour
        BY <1>5, <3>2
      <4> QED
        BY <1>2, <1>3, <1>6, <4>1
    <3> QED
      BY <1>2, <3>1, <3>2
  <2>2. ASSUME NEW g \in A, NEW h \in N PROVE ~(g.day = h.day /\ g.hour = h.hour)
    <3>1. PICK f \in facts : g.ad = f.ad /\ g.day = f.day /\ g.hour = f.hour
      BY <1>5
    <3>2. f.day = clock'.day => f.hour < clock'.hour /\ f.hour \in Nat
      BY <1>6
    <3> QED
      BY <1>3, <1>4, <3>1, <3>2
  <2>3. ASSUME NEW g \in facts', NEW h \in facts', g.ad = h.ad, g.day = h.day, g.hour = h.hour
        PROVE  g = h
    <3>1. CASE g \in A /\ h \in A
      <4>1. PICK f \in facts : g = Aged(f) /\ g.ad = f.ad /\ g.day = f.day /\ g.hour = f.hour
        BY <1>5, <3>1
      <4>2. PICK e \in facts : h = Aged(e) /\ h.ad = e.ad /\ h.day = e.day /\ h.hour = e.hour
        BY <1>5, <3>1
      <4>3. f = e
        BY <2>3, <4>1, <4>2 DEF Delivered
      <4> QED
        BY <4>1, <4>2, <4>3
    <3>2. CASE g \in N /\ h \in N
      BY <1>4, <2>3, <3>2
    <3> QED
      BY <1>2, <2>2, <2>3, <3>1, <3>2
  <2> QED
    BY <2>1, <2>3 DEF Delivered
<1> QED
  BY <1>2, <1>7, <1>8 DEF A, N

LEMMA Lists ==
    ASSUME NEW q, NEW k \in Keys(q)
    PROVE  k = <<k[1], k[2]>> /\ k[1] \in ads /\ k[2] \in q.from..q.to
  BY DEF Keys

\* An hour adds nothing to a day that is over.
LEMMA HourKeeps ==
    ASSUME Reports!ReportAssumption, Ready, Delivered, StillTrue,
           NEW converted \in [ads -> Conversions], Reports!Hour(converted)
    PROVE  StillTrue'
<1>1. /\ ads' = ads /\ asked' = asked
      /\ facts' = {Aged(f) : f \in facts} \union New(clock'.day, clock'.hour, converted)
      /\ facts \subseteq Hour /\ IsFiniteSet(facts) /\ Delay \in Nat
      /\ clock.day \in Nat /\ clock'.day \in Nat /\ clock'.hour \in Nat
  <2>1. facts' = {Aged(f) : f \in facts} \union New(clock'.day, clock'.hour, converted)
    BY HourDelivers
  <2>2. ads' = ads /\ asked' = asked
    BY DEF Reports!Hour
  <2>3. clock'.day \in 1..Len(HoursOf) /\ clock'.hour \in 1..HoursOf[clock'.day]
    BY HourPasses
  <2>4. /\ facts \subseteq Hour /\ IsFiniteSet(facts) /\ Delay \in Nat
        /\ clock.day \in Nat /\ Len(HoursOf) \in Nat
        /\ \A d \in 1..Len(HoursOf) : HoursOf[d] \in Nat
    BY Calendar DEF Ready
  <2>5. clock'.day \in Nat /\ clock'.hour \in Nat
    BY <2>3, <2>4
  <2> QED
    BY <2>1, <2>2, <2>4, <2>5
<1> SUFFICES ASSUME asked # None, NEW q \in Reports!Query, asked.complete, q = asked.query
             PROVE  Stands(q)'
  <2>1. asked # None => asked.query \in Reports!Query
    BY DEF StillTrue
  <2> QED
    BY <1>1, <2>1 DEF StillTrue
<1>2. Stands(q)
  BY DEF StillTrue
<1>3. q.from \in Nat /\ q.to \in Nat /\ q.to < clock'.day
  <2>1. \/ Reports!Tomorrow /\ clock'.day = clock.day + 1
        \/ ~Reports!Tomorrow /\ clock'.day = clock.day
    BY HourPasses
  <2>2. q.to < clock.day \/ (q.to = clock.day /\ Reports!Tomorrow)
    BY <1>2 DEF Stands, Sealed
  <2>3. q.from \in Nat /\ q.to \in Nat
    BY Calendar
  <2> QED
    BY <1>1, <2>1, <2>2, <2>3
<1>4. /\ \A f \in New(clock'.day, clock'.hour, converted) : f.day = clock'.day
      /\ \A f \in facts : /\ Aged(f).ad = f.ad /\ Aged(f).day = f.day /\ Aged(f).age = f.age + 1
                          /\ Aged(f).conversions = f.conversions /\ f.age \in Nat
                          /\ f.conversions \in Nat
  BY <1>1, NewHours, HourAged
<1>5. ASSUME NEW ad, NEW day \in Nat, day <= q.to
      PROVE  HoursAt(ad, day)' = {Aged(f) : f \in HoursAt(ad, day)}
  <2>1. day # clock'.day
    BY <1>1, <1>3, <1>5
  <2>2. HoursAt(ad, day)' = {f \in {Aged(g) : g \in facts} : f.ad = ad /\ f.day = day}
    BY <1>1, <1>4, <2>1 DEF HoursAt
  <2> QED
    BY <1>4, <2>2 DEF HoursAt
<1>6. ASSUME NEW k, k[2] \in q.from..q.to
      PROVE  HoursAt(k[1], k[2])' = {Aged(f) : f \in HoursAt(k[1], k[2])}
  <2>1. k[2] \in Nat /\ k[2] <= q.to
    BY <1>3, <1>6
  <2> QED
    BY <1>5, <2>1
<1>7. Keys(q)' = Keys(q)
  <2>1. ASSUME NEW k \in ads \X (q.from..q.to)
        PROVE  HoursAt(k[1], k[2])' = {} <=> HoursAt(k[1], k[2]) = {}
    <3>1. k[2] \in q.from..q.to
      OBVIOUS
    <3>2. HoursAt(k[1], k[2])' = {Aged(f) : f \in HoursAt(k[1], k[2])}
      BY <1>6, <3>1
    <3> HIDE DEF HoursAt
    <3> QED
      BY <3>2
  <2> QED
    BY <1>1, <2>1 DEF Keys
<1>8. /\ DOMAIN Reports!Rows(q)' = DOMAIN Reports!Rows(q)
      /\ \A k \in DOMAIN Reports!Rows(q) : Reports!Rows(q)'[k].spend = Reports!Rows(q)[k].spend
      /\ (\A k \in Keys(q) : \A f \in HoursAt(k[1], k[2]) : ~Reports!Hidden(f))
            => Reports!Rows(q)' = Reports!Rows(q)
  <2>1. \A k \in Keys(q) : \/ HoursAt(k[1], k[2])' = {Aged(f) : f \in HoursAt(k[1], k[2])}
                           \/ HoursAt(k[1], k[2])' = HoursAt(k[1], k[2])
    BY <1>6, Lists
  <2> QED
    BY <1>1, <1>7, <2>1, RowsAged
<1>9. ASSUME ~asked.pending
      PROVE  /\ ~Reports!BackfillPending(q)'
             /\ \A k \in Keys(q) : \A f \in HoursAt(k[1], k[2]) : ~Reports!Hidden(f)
  <2>1. \A f \in facts : q.from <= f.day /\ f.day <= q.to => ~Reports!Hidden(f)
    BY <1>2, <1>9 DEF Stands, Reports!BackfillPending, Reports!In
  <2>2. ASSUME NEW k \in Keys(q), NEW f \in HoursAt(k[1], k[2]) PROVE ~Reports!Hidden(f)
    <3>1. k[2] \in q.from..q.to /\ f \in facts /\ f.day = k[2]
      BY Lists DEF HoursAt
    <3> QED
      BY <1>3, <2>1, <3>1
  <2>3. ASSUME NEW g \in facts', q.from <= g.day, g.day <= q.to PROVE ~Reports!Hidden(g)
    <3>1. g \notin New(clock'.day, clock'.hour, converted)
      BY <1>1, <1>3, <1>4, <2>3
    <3>2. PICK f \in facts : g = Aged(f)
      BY <1>1, <3>1
    <3>3. ~Reports!Hidden(f)
      BY <1>4, <2>1, <2>3, <3>2
    <3>4. /\ g.age = f.age + 1 /\ g.conversions = f.conversions /\ f.age \in Nat
          /\ f.conversions \in Nat
      BY <1>4, <3>2
    <3> QED
      BY <1>1, <3>3, <3>4 DEF Reports!Hidden
  <2>4. ~Reports!BackfillPending(q)'
    BY <2>3 DEF Reports!BackfillPending, Reports!In, Reports!Hidden
  <2> QED
    BY <2>2, <2>4
<1>10. Sealed(q)'
  BY <1>3 DEF Sealed
<1> DEFINE old == Reports!Rows(q)
           now == Reports!Rows(q)'
<1>11. DOMAIN now = DOMAIN asked'.rows
  BY <1>1, <1>2, <1>8 DEF Stands
<1>12. \A k \in DOMAIN asked'.rows : now[k].spend = asked'.rows[k].spend
  BY <1>1, <1>2, <1>8 DEF Stands
<1>13. ~asked'.pending => ~Reports!BackfillPending(q)' /\ now = asked'.rows
  BY <1>1, <1>2, <1>8, <1>9 DEF Stands
<1> QED
  BY <1>10, <1>11, <1>12, <1>13 DEF Stands

\* An ad that is created has no hours yet.
LEMMA CreateAdKeeps ==
    ASSUME Reports!ReportAssumption, Ready, Delivered, StillTrue,
           NEW ad \in Later, Reports!CreateAd(ad)
    PROVE  Ready' /\ Delivered' /\ StillTrue'
<1>1. /\ ads' = ads \union {ad} /\ clock' = clock /\ facts' = facts /\ asked' = asked
      /\ ad \notin ads /\ Seeded \subseteq ads
      /\ facts \subseteq Hour /\ IsFiniteSet(facts) /\ Delay \in Nat
  BY Calendar DEF Ready, Reports!CreateAd
<1>2. Ready'
  BY <1>1 DEF Ready
<1>3. Delivered'
  BY <1>1 DEF Delivered
<1>4. StillTrue'
  <2> SUFFICES ASSUME asked # None, NEW q \in Reports!Query, asked.complete, q = asked.query
               PROVE  Stands(q)'
    <3>1. asked # None => asked.query \in Reports!Query
      BY DEF StillTrue
    <3> QED
      BY <1>1, <3>1 DEF StillTrue
  <2>1. Stands(q)
    BY DEF StillTrue
  <2>2. \A x, day : HoursAt(x, day)' = HoursAt(x, day)
    BY <1>1 DEF HoursAt
  <2>3. \A day : HoursAt(ad, day) = {} /\ SeedOf(ad, day) = 0
    BY <1>1 DEF HoursAt, SeedOf, Delivered
  <2>4. Keys(q)' = Keys(q)
    <3>1. Keys(q)' = {k \in (ads \union {ad}) \X (q.from..q.to) :
                        SeedOf(k[1], k[2]) = 1 \/ HoursAt(k[1], k[2]) # {}}
      BY <1>1, <2>2 DEF Keys
    <3> QED
      BY <2>3, <3>1 DEF Keys
  <2>5. Reports!Rows(q)' = Reports!Rows(q)
    BY <2>2, <2>4, RowsAre, RowsAreThen
  <2>6. Sealed(q)' /\ (Reports!BackfillPending(q)' <=> Reports!BackfillPending(q))
    BY <1>1, <2>1 DEF Stands, Sealed, Reports!Tomorrow, Reports!BackfillPending
  <2> QED
    BY <1>1, <2>1, <2>5, <2>6 DEF Stands
<1> QED
  BY <1>2, <1>3, <1>4

\* Where no day is longer than coverage counts, a day that is covered is over.
LEMMA CoveredIsOver ==
    ASSUME Reports!ReportAssumption, Reports!OrdinaryDays, Ready, Delivered,
           NEW q \in Reports!Query, Reports!Complete(q)
    PROVE  Sealed(q)
<1>0. /\ q.from \in Nat /\ q.to \in Nat /\ q.from <= q.to /\ FullDay \in Nat
      /\ clock.day \in 0..Len(HoursOf) /\ clock.hour \in Nat /\ Len(HoursOf) \in Nat
      /\ clock.day # 0 => clock.hour \in 1..HoursOf[clock.day]
      /\ facts \subseteq Hour /\ IsFiniteSet(facts) /\ Seeded # {} /\ Seeded \subseteq ads
      /\ \A d \in 1..Len(HoursOf) : HoursOf[d] \in Nat
  BY Calendar DEF Ready
<1>1. q.to <= clock.day /\ \A ad \in ads, day \in q.from..q.to : Reports!Covered(ad, day)
  BY DEF Reports!Complete
<1>2. SUFFICES ASSUME q.to = clock.day, clock.day # 0, clock.hour # HoursOf[clock.day]
               PROVE  FALSE
  BY <1>0, <1>1 DEF Sealed, Reports!Tomorrow
<1>3. PICK ad \in ads : TRUE
  BY <1>0
<1> DEFINE H == HoursAt(ad, q.to)
           i == [f \in H |-> f.hour]
<1>4. Cardinality(H) >= FullDay
  <2>1. q.to \in q.from..q.to
    BY <1>0
  <2>2. Reports!Covered(ad, q.to)
    BY <1>1, <2>1
  <2> QED
    BY <1>2, <2>2, SameCount DEF Reports!Covered, HoursAt
<1>5. \A f \in H : f \in facts /\ f.ad = ad /\ f.day = clock.day /\ f.hour \in 1..clock.hour
  <2>1. \A f \in facts : f.hour \in Nat
    BY <1>0, HourAged
  <2> QED
    BY <1>0, <1>2, <2>1 DEF HoursAt, Delivered
<1>6. i \in [H -> 1..clock.hour] /\ \A f, g \in H : i[f] = i[g] => f = g
  BY <1>5 DEF Delivered
<1> HIDE DEF H, i
<1>7. i \in Injection(H, 1..clock.hour)
  BY <1>6, Fun_IsInj
<1>8. IsFiniteSet(1..clock.hour) /\ Cardinality(1..clock.hour) = clock.hour
  <2>1. 1 \in Int /\ clock.hour \in Int /\ (1 > clock.hour <=> clock.hour = 0)
        /\ clock.hour - 1 + 1 = clock.hour
    BY <1>0
  <2> QED
    BY <2>1, FS_Interval
<1>9. IsFiniteSet(H) /\ Cardinality(H) <= clock.hour
  BY <1>7, <1>8, FS_Injection
<1>10. clock.day \in 1..Len(HoursOf) /\ HoursOf[clock.day] \in Nat
       /\ clock.hour < HoursOf[clock.day]
  BY <1>0, <1>2
<1>11. HoursOf[clock.day] <= FullDay
  <2>1. clock.day \in DOMAIN HoursOf
    BY <1>10 DEF Reports!ReportAssumption
  <2> QED
    BY <2>1 DEF Reports!OrdinaryDays
<1>12. Cardinality(H) \in Nat
  BY <1>9, FS_CardinalityType
<1> QED
  BY ONLY <1>0, <1>4, <1>9, <1>10, <1>11, <1>12

LEMMA AskKeeps ==
    ASSUME Reports!ReportAssumption, Reports!OrdinaryDays, Ready, Delivered,
           NEW p \in Reports!Query, Reports!Ask(p)
    PROVE  Ready' /\ Delivered' /\ StillTrue'
<1>1. /\ ads' = ads /\ clock' = clock /\ facts' = facts
      /\ asked'.query = p /\ asked'.complete = Reports!Complete(p)
      /\ asked'.pending = Reports!BackfillPending(p) /\ asked'.rows = Reports!Rows(p)
  BY DEF Reports!Ask, Reports!Report
<1>2. Ready' /\ Delivered'
  BY <1>1 DEF Ready, Delivered
<1>3. Reports!Rows(p)' = Reports!Rows(p)
  <2>1. \A x, day : HoursAt(x, day)' = HoursAt(x, day)
    BY <1>1 DEF HoursAt
  <2>2. Keys(p)' = Keys(p)
    BY <1>1, <2>1 DEF Keys
  <2> QED
    BY <2>1, <2>2, RowsAre, RowsAreThen
<1>4. Reports!BackfillPending(p)' <=> Reports!BackfillPending(p)
  BY <1>1 DEF Reports!BackfillPending
<1>5. ASSUME Reports!Complete(p) PROVE Stands(p)'
  <2>1. Sealed(p)
    BY <1>5, CoveredIsOver
  <2>2. Sealed(p)'
    BY <1>1, <2>1 DEF Sealed, Reports!Tomorrow
  <2> QED
    BY <1>1, <1>3, <1>4, <2>2 DEF Stands
<1>6. StillTrue'
  BY <1>1, <1>5 DEF StillTrue
<1> QED
  BY <1>2, <1>6

LEMMA ReportsBegin ==
    ASSUME Reports!ReportAssumption, Reports!Init
    PROVE  ReportInvariant
<1>1. clock = [day |-> 0, hour |-> FullDay] /\ ads = Seeded /\ facts = {} /\ asked = None
  BY DEF Reports!Init
<1>2. clock.day = 0 /\ clock.hour = FullDay
  BY <1>1
<1>3. Ready
  BY <1>1, <1>2, Calendar, FS_EmptySet DEF Ready
<1> QED
  BY <1>1, <1>3 DEF ReportInvariant, Delivered, StillTrue

LEMMA ReportsGoOn ==
    ASSUME Reports!ReportAssumption, Reports!OrdinaryDays, ReportInvariant,
           [Reports!Next]_(Reports!vars)
    PROVE  ReportInvariant'
<1>0. Ready /\ Delivered /\ StillTrue
  BY DEF ReportInvariant
<1>1. ASSUME NEW converted \in [ads -> Conversions], Reports!Hour(converted)
      PROVE  ReportInvariant'
  BY <1>0, <1>1, HourDelivers, HourKeeps DEF ReportInvariant
<1>2. ASSUME NEW ad \in Later, Reports!CreateAd(ad) PROVE ReportInvariant'
  BY <1>0, <1>2, CreateAdKeeps DEF ReportInvariant
<1>3. ASSUME NEW q \in Reports!Query, Reports!Ask(q) PROVE ReportInvariant'
  BY <1>0, <1>3, AskKeeps DEF ReportInvariant
<1>4. CASE UNCHANGED Reports!vars
  <2>1. clock' = clock /\ ads' = ads /\ facts' = facts /\ asked' = asked
    BY <1>4 DEF Reports!vars
  <2>2. Ready' /\ Delivered'
    BY <1>0, <2>1 DEF Ready, Delivered
  <2>3. ASSUME NEW q \in Reports!Query, Stands(q) PROVE Stands(q)'
    <3>1. \A x, day : HoursAt(x, day)' = HoursAt(x, day)
      BY <2>1 DEF HoursAt
    <3>2. Keys(q)' = Keys(q)
      BY <2>1, <3>1 DEF Keys
    <3>3. Reports!Rows(q)' = Reports!Rows(q)
      BY <3>1, <3>2, RowsAre, RowsAreThen
    <3>4. Sealed(q)' /\ (Reports!BackfillPending(q)' <=> Reports!BackfillPending(q))
      BY <2>1, <2>3 DEF Stands, Sealed, Reports!Tomorrow, Reports!BackfillPending
    <3> QED
      BY <2>1, <2>3, <3>3, <3>4 DEF Stands
  <2>4. StillTrue'
    BY <1>0, <2>1, <2>3 DEF StillTrue
  <2> QED
    BY <2>2, <2>4 DEF ReportInvariant
<1> QED
  BY <1>1, <1>2, <1>3, <1>4 DEF Reports!Next

LEMMA ReportsShow ==
    ASSUME ReportInvariant PROVE Reports!CompleteReportIsFinal /\ Reports!CompleteSpendIsFinal
<1> SUFFICES ASSUME asked # None, asked.complete
             PROVE  LET q == asked.query IN
                    /\ ~asked.pending => Reports!Rows(q) = asked.rows
                    /\ DOMAIN Reports!Rows(q) = DOMAIN asked.rows
                    /\ \A k \in DOMAIN asked.rows : Reports!Rows(q)[k].spend = asked.rows[k].spend
  BY DEF Reports!CompleteReportIsFinal, Reports!CompleteSpendIsFinal
<1>1. asked.query \in Reports!Query /\ Stands(asked.query)
  BY DEF ReportInvariant, StillTrue
<1> QED
  BY <1>1 DEF Stands

\* A complete report shows the spend it would show at any later time, and one from which no
\* conversion was missing everything it would show, whenever ads are created and hours pass
\* (sandbox/backend.go:304); a day longer than coverage counts is the exception.
THEOREM ReportsAreFinal ==
    Reports!ReportAssumption /\ Reports!OrdinaryDays
        => (Reports!Spec => [](Reports!CompleteReportIsFinal /\ Reports!CompleteSpendIsFinal))
<1> SUFFICES ASSUME Reports!ReportAssumption, Reports!OrdinaryDays
             PROVE  Reports!Spec => [](Reports!CompleteReportIsFinal /\ Reports!CompleteSpendIsFinal)
  OBVIOUS
<1>1. Reports!Init => ReportInvariant
  BY ReportsBegin
<1>2. ReportInvariant /\ [Reports!Next]_(Reports!vars) => ReportInvariant'
  BY ReportsGoOn
<1>3. ReportInvariant => Reports!CompleteReportIsFinal /\ Reports!CompleteSpendIsFinal
  BY ReportsShow
<1> QED
  BY <1>1, <1>2, <1>3, PTL DEF Reports!Spec

-----------------------------------------------------------------------------
(* Contributions: sums of sums.                                            *)

\* What holds of no element and of one more holds of every finite set.
LEMMA SetsGrowWhole ==
    ASSUME NEW S, IsFiniteSet(S), NEW P, {} \in P,
           \A s \in SUBSET S : s # {} /\ (\A x \in s : s \ {x} \in P) => s \in P
    PROVE  SUBSET S \subseteq P
<1>0. \A s \in SUBSET S : IsFiniteSet(s) /\ Cardinality(s) \in Nat
  BY FS_Subset, FS_CardinalityType
<1> DEFINE Bad == {n \in Nat : \E s \in SUBSET S : Cardinality(s) = n /\ s \notin P}
<1>1. SUFFICES ASSUME Bad # {} PROVE FALSE
  BY <1>0
<1>2. PICK m \in Bad : \A n \in Bad : m <= n
  <2>1. Bad \subseteq Nat
    OBVIOUS
  <2> HIDE DEF Bad
  <2> QED
    BY <1>1, <2>1, LeastOf
<1>3. PICK s \in SUBSET S : Cardinality(s) = m /\ s \notin P
  BY <1>2
<1>4. PICK x \in s : s \ {x} \notin P
  BY <1>3
<1>5. /\ Cardinality(s \ {x}) = m - 1 /\ m \in Nat /\ Cardinality(s \ {x}) \in Nat
      /\ s \ {x} \in SUBSET S
  BY <1>0, <1>3, OneLess
<1>6. ~(m <= Cardinality(s \ {x}))
  BY <1>5
<1>7. Cardinality(s \ {x}) \in Bad
  BY <1>4, <1>5
<1> QED
  BY <1>2, <1>6, <1>7

LEMMA SetsGrow ==
    ASSUME NEW S, IsFiniteSet(S), NEW P, {} \in P,
           \A s \in SUBSET S : \A x \in s : s \ {x} \in P => s \in P
    PROVE  SUBSET S \subseteq P
<1>1. \A s \in SUBSET S : s # {} /\ (\A x \in s : s \ {x} \in P) => s \in P
  OBVIOUS
<1> QED
  BY <1>1, SetsGrowWhole

LEMMA SumsAgree ==
    ASSUME NEW S, IsFiniteSet(S), NEW R, S \subseteq R, NEW w, NEW f, Totals(f, w, S),
           NEW g, Totals(g, w, R)
    PROVE  f[S] = g[S]
<1> DEFINE P == {s \in SUBSET S : f[s] = g[s]}
<1>1. {} \in P
  BY DEF Totals
<1>2. \A s \in SUBSET S : \A x \in s : s \ {x} \in P => s \in P
  <2> SUFFICES ASSUME NEW s \in SUBSET S, NEW x \in s, s \ {x} \in P PROVE f[s] = g[s]
    OBVIOUS
  <2>1. f[s] = w[x] + f[s \ {x}] /\ g[s] = w[x] + g[s \ {x}]
    BY DEF Totals
  <2> QED
    BY <2>1
<1> HIDE DEF P
<1>3. S \in P
  BY <1>1, <1>2, SetsGrow
<1> QED
  BY <1>3 DEF P

LEMMA SumsJoin ==
    ASSUME NEW K, IsFiniteSet(K), NEW w, \A k \in K : w[k] \in Int, NEW f, Totals(f, w, K),
           NEW s \in SUBSET K, NEW t \in SUBSET K, s \intersect t = {}
    PROVE  f[s \union t] = f[s] + f[t]
<1> DEFINE P == {r \in SUBSET t : f[s \union r] = f[s] + f[r]}
<1>0. f[s] \in Int /\ f[{}] = 0
  BY DEF Totals
<1>1. {} \in P
  <2>1. s \union {} = s
    OBVIOUS
  <2> QED
    BY <1>0, <2>1
<1>2. \A r \in SUBSET t : \A x \in r : r \ {x} \in P => r \in P
  <2> SUFFICES ASSUME NEW r \in SUBSET t, NEW x \in r, r \ {x} \in P
               PROVE  f[s \union r] = f[s] + f[r]
    OBVIOUS
  <2>1. /\ s \union r \in SUBSET K /\ r \in SUBSET K /\ r \ {x} \in SUBSET K
        /\ (s \union r) \ {x} = s \union (r \ {x}) /\ x \in s \union r /\ x \in K
    OBVIOUS
  <2>2. /\ f[s \union r] = w[x] + f[(s \union r) \ {x}] /\ f[r] = w[x] + f[r \ {x}]
        /\ f[r \ {x}] \in Int /\ w[x] \in Int
    BY <2>1 DEF Totals
  <2>3. f[s \union (r \ {x})] = f[s] + f[r \ {x}]
    OBVIOUS
  <2> HIDE DEF P
  <2>4. f[s \union r] = w[x] + f[s \union (r \ {x})]
    BY <2>1, <2>2
  <2> QED
    BY ONLY <1>0, <2>2, <2>3, <2>4
<1> HIDE DEF P
<1>3. IsFiniteSet(t)
  BY FS_Subset
<1>4. t \in P
  BY <1>1, <1>2, <1>3, SetsGrow
<1> QED
  BY <1>4 DEF P

Keyed(K, a) == {k \in K : k[1] = a}

\* The sum over all keys is the sum over groups of the sums in each.
LEMMA SumsByGroup ==
    ASSUME NEW K, IsFiniteSet(K), NEW A, IsFiniteSet(A), \A k \in K : k[1] \in A,
           NEW w, \A k \in K : w[k] \in Int, NEW f, Totals(f, w, K),
           NEW e, \A a \in A : e[a] = f[Keyed(K, a)], NEW g, Totals(g, e, A)
    PROVE  g[A] = f[K]
<1> DEFINE Of(B) == {k \in K : k[1] \in B}
           P == {B \in SUBSET A : g[B] = f[Of(B)]}
<1>1. {} \in P
  <2>1. Of({}) = {}
    OBVIOUS
  <2> QED
    BY <2>1 DEF Totals
<1>2. \A B \in SUBSET A : \A a \in B : B \ {a} \in P => B \in P
  <2> SUFFICES ASSUME NEW B \in SUBSET A, NEW a \in B, B \ {a} \in P PROVE g[B] = f[Of(B)]
    OBVIOUS
  <2> DEFINE s == Of(B \ {a})
             t == Keyed(K, a)
  <2>1. s \in SUBSET K /\ t \in SUBSET K /\ s \intersect t = {} /\ Of(B) = s \union t
    BY DEF Keyed
  <2>2. g[B] = e[a] + g[B \ {a}] /\ e[a] = f[t]
    BY DEF Totals
  <2>3. g[B \ {a}] = f[s]
    OBVIOUS
  <2> HIDE DEF s, t, Of, P
  <2>4. f[s \union t] = f[s] + f[t] /\ f[s] \in Int /\ f[t] \in Int
    <3>1. f[s] \in Int /\ f[t] \in Int
      BY <2>1 DEF Totals
    <3> QED
      BY <2>1, <3>1, SumsJoin
  <2> QED
    BY <2>1, <2>2, <2>3, <2>4
<1>3. Of(A) = K
  OBVIOUS
<1> HIDE DEF P, Of
<1>4. A \in P
  BY <1>1, <1>2, SetsGrow
<1> QED
  BY <1>3, <1>4 DEF P

LEMMA Distributed ==
    ASSUME NEW b \in Int, NEW c \in Int, NEW x \in Int, NEW y \in Int, NEW u \in Int, NEW v \in Int
    PROVE  (x * b - y * c) + (u * b - v * c) = (x + u) * b - (y + v) * c
  OBVIOUS

Scaled(w, d, b, e, c, A) == \A a \in A : w[a] = d[a] * b - e[a] * c
Integral(d, A) == \A a \in A : d[a] \in Int

\* A sum of differences of multiples is the difference of the multiples of the sums.
LEMMA SumsScale ==
    ASSUME NEW A, IsFiniteSet(A), NEW b \in Int, NEW c \in Int,
           NEW d, Integral(d, A), NEW g, Totals(g, d, A),
           NEW e, Integral(e, A), NEW h, Totals(h, e, A),
           NEW w, Scaled(w, d, b, e, c, A), NEW f, Totals(f, w, A)
    PROVE  f[A] = g[A] * b - h[A] * c
<1> DEFINE P == {s \in SUBSET A : f[s] = g[s] * b - h[s] * c}
<1>1. {} \in P
  <2>1. f[{}] = 0 /\ g[{}] = 0 /\ h[{}] = 0
    BY DEF Totals
  <2>2. 0 * b - 0 * c = 0
    OBVIOUS
  <2> QED
    BY <2>1, <2>2
<1>2. \A s \in SUBSET A : \A x \in s : s \ {x} \in P => s \in P
  <2> SUFFICES ASSUME NEW s \in SUBSET A, NEW x \in s, s \ {x} \in P
               PROVE  f[s] = g[s] * b - h[s] * c
    OBVIOUS
  <2> DEFINE r == s \ {x}
  <2>1. /\ f[s] = w[x] + f[r] /\ g[s] = d[x] + g[r] /\ h[s] = e[x] + h[r]
        /\ g[r] \in Int /\ h[r] \in Int /\ d[x] \in Int /\ e[x] \in Int
        /\ w[x] = d[x] * b - e[x] * c
    BY DEF Totals, Scaled, Integral
  <2>2. f[r] = g[r] * b - h[r] * c
    OBVIOUS
  <2> HIDE DEF r
  <2>3. (d[x] * b - e[x] * c) + (g[r] * b - h[r] * c) = (d[x] + g[r]) * b - (e[x] + h[r]) * c
    BY <2>1, Distributed
  <2> QED
    BY <2>1, <2>2, <2>3
<1> HIDE DEF P
<1>3. A \in P
  BY <1>1, <1>2, SetsGrow
<1> QED
  BY <1>3 DEF P

LEMMA SumAdds ==
    ASSUME NEW rows, IsFiniteSet(DOMAIN rows), NEW metric,
           NEW w, \A k \in DOMAIN rows : w[k] = rows[k][metric] /\ w[k] \in Int
    PROVE  \E it : Totals(it, w, DOMAIN rows) /\ Reports!Sum(rows, metric) = it[DOMAIN rows]
<1> DEFINE S == DOMAIN rows
           F == CHOOSE it : it = [s \in SUBSET S |->
                   IF s = {} THEN 0 ELSE rows[One(s)][metric] + it[s \ {One(s)}]]
<1>1. Reports!Sum(rows, metric) = F[S]
  BY DEF Reports!Sum, Reports!MapThenSumSet, Reports!MapThenFoldSet, One
<1> HIDE DEF S
<1>2. PICK it : Adds(it, w, SUBSET S)
  BY AddsExist DEF S
<1>3. \A s \in SUBSET S : s # {} => w[One(s)] = rows[One(s)][metric]
  BY OneOf DEF S
<1>4. it = [s \in SUBSET S |-> IF s = {} THEN 0 ELSE w[One(s)] + it[s \ {One(s)}]]
  BY <1>2 DEF Adds
<1>5. it = [s \in SUBSET S |-> IF s = {} THEN 0 ELSE rows[One(s)][metric] + it[s \ {One(s)}]]
  BY <1>3, <1>4
<1>6. F = [s \in SUBSET S |-> IF s = {} THEN 0 ELSE rows[One(s)][metric] + F[s \ {One(s)}]]
  BY <1>5
<1> HIDE DEF F
<1>7. F = [s \in SUBSET S |-> IF s = {} THEN 0 ELSE w[One(s)] + F[s \ {One(s)}]]
  BY <1>3, <1>6
<1>8. Adds(F, w, SUBSET S)
  BY <1>7 DEF Adds
<1>9. Totals(F, w, S)
  BY <1>8, AddsAny DEF S
<1> QED
  BY <1>1, <1>9 DEF S

LEMMA EntitySumAdds ==
    ASSUME NEW rows, IsFiniteSet(DOMAIN rows), NEW ad, NEW metric,
           NEW w, \A k \in DOMAIN rows : w[k] = rows[k][metric] /\ w[k] \in Int
    PROVE  \E it : /\ Totals(it, w, Keyed(DOMAIN rows, ad))
                   /\ Reports!EntitySum(rows, ad, metric) = it[Keyed(DOMAIN rows, ad)]
<1> DEFINE S == Keyed(DOMAIN rows, ad)
           F == CHOOSE it : it = [s \in SUBSET S |->
                   IF s = {} THEN 0 ELSE rows[One(s)][metric] + it[s \ {One(s)}]]
<1>1. Reports!EntitySum(rows, ad, metric) = F[S]
  BY DEF Keyed, Reports!EntitySum, Reports!MapThenSumSet, Reports!MapThenFoldSet, One
<1>0. IsFiniteSet(S) /\ \A k \in S : w[k] = rows[k][metric] /\ w[k] \in Int
  BY FS_Subset DEF Keyed
<1> HIDE DEF S
<1>2. PICK it : Adds(it, w, SUBSET S)
  BY <1>0, AddsExist
<1>3. \A s \in SUBSET S : s # {} => w[One(s)] = rows[One(s)][metric]
  BY <1>0, OneOf
<1>4. it = [s \in SUBSET S |-> IF s = {} THEN 0 ELSE w[One(s)] + it[s \ {One(s)}]]
  BY <1>2 DEF Adds
<1>5. it = [s \in SUBSET S |-> IF s = {} THEN 0 ELSE rows[One(s)][metric] + it[s \ {One(s)}]]
  BY <1>3, <1>4
<1>6. F = [s \in SUBSET S |-> IF s = {} THEN 0 ELSE rows[One(s)][metric] + F[s \ {One(s)}]]
  BY <1>5
<1> HIDE DEF F
<1>7. F = [s \in SUBSET S |-> IF s = {} THEN 0 ELSE w[One(s)] + F[s \ {One(s)}]]
  BY <1>3, <1>6
<1>8. Adds(F, w, SUBSET S)
  BY <1>7 DEF Adds
<1>9. Totals(F, w, S)
  BY <1>0, <1>8, AddsAny
<1> QED
  BY <1>1, <1>9 DEF S

\* The entities' sums of a metric.
EntitySums(rows, metric, A) == [a \in A |-> Reports!EntitySum(rows, a, metric)]

\* The sum of the entities' sums of a metric is the report's sum.
LEMMA EntitiesSum ==
    ASSUME NEW rows, IsFiniteSet(DOMAIN rows), NEW metric,
           \A k \in DOMAIN rows : rows[k][metric] \in Int,
           NEW A, IsFiniteSet(A), \A k \in DOMAIN rows : k[1] \in A
    PROVE  /\ Reports!Sum(rows, metric) \in Int
           /\ \A a \in A : EntitySums(rows, metric, A)[a] \in Int
           /\ \E g : Totals(g, EntitySums(rows, metric, A), A) /\ g[A] = Reports!Sum(rows, metric)
<1> DEFINE K == DOMAIN rows
           w == [k \in K |-> rows[k][metric]]
           e == EntitySums(rows, metric, A)
<1>0. IsFiniteSet(K) /\ IsFiniteSet(A) /\ \A k \in K : k[1] \in A
  OBVIOUS
<1>1. \A k \in K : w[k] = rows[k][metric] /\ w[k] \in Int
  OBVIOUS
<1>2. PICK f : Totals(f, w, K) /\ Reports!Sum(rows, metric) = f[K]
  <2> HIDE DEF w
  <2> QED
    BY <1>0, <1>1, SumAdds
<1>3. ASSUME NEW a \in A PROVE e[a] = f[Keyed(K, a)]
  <2>1. PICK it : Totals(it, w, Keyed(K, a)) /\ Reports!EntitySum(rows, a, metric) = it[Keyed(K, a)]
    <3> HIDE DEF w
    <3> QED
      BY <1>0, <1>1, EntitySumAdds
  <2>2. IsFiniteSet(Keyed(K, a)) /\ Keyed(K, a) \subseteq K
    BY <1>0, FS_Subset DEF Keyed
  <2>3. e[a] = Reports!EntitySum(rows, a, metric)
    BY DEF EntitySums
  <2> HIDE DEF w, e, K
  <2>4. it[Keyed(K, a)] = f[Keyed(K, a)]
    BY <1>2, <2>1, <2>2, SumsAgree
  <2> QED
    BY <2>1, <2>3, <2>4
<1>4. \A a \in A : e[a] \in Int
  <2>1. \A a \in A : Keyed(K, a) \in SUBSET K
    BY DEF Keyed
  <2> HIDE DEF e, w, K
  <2> QED
    BY <1>2, <1>3, <2>1 DEF Totals
<1>5. f[K] \in Int
  <2> HIDE DEF w, K
  <2> QED
    BY <1>2 DEF Totals
<1>6. PICK g : Totals(g, e, A)
  <2> HIDE DEF e
  <2>1. PICK g : Adds(g, e, SUBSET A)
    BY <1>0, AddsExist
  <2> QED
    BY <1>0, <1>4, <2>1, AddsAny
<1>7. g[A] = f[K]
  <2>1. \A a \in A : e[a] = f[Keyed(K, a)]
    BY <1>3
  <2> HIDE DEF e, w, K
  <2> QED
    BY <1>0, <1>1, <1>2, <1>6, <2>1, SumsByGroup
<1> QED
  BY <1>2, <1>4, <1>5, <1>6, <1>7

Summable(rows) ==
    /\ IsFiniteSet(DOMAIN rows)
    /\ \A k \in DOMAIN rows : rows[k]["spend"] \in Int /\ rows[k]["conversions"] \in Int

DeltaExplained(p, c) ==
    Reports!MapThenSumSet(LAMBDA ad : Reports!Contribution(p, c, ad), Reports!Contributors(p, c))
        = Reports!Delta(p, c)

LEMMA FirstsAreFinite ==
    ASSUME NEW S, IsFiniteSet(S)
    PROVE  IsFiniteSet({k[1] : k \in S})
<1> DEFINE T == {k[1] : k \in S}
           f == [k \in S |-> k[1]]
<1>1. f \in [S -> T] /\ \A t \in T : \E k \in S : f[k] = t
  OBVIOUS
<1> HIDE DEF f, T
<1>2. f \in Surjection(S, T)
  BY <1>1, Fun_IsSurj
<1>3. IsFiniteSet(T)
  BY <1>2, FS_Surjection
<1> QED
  BY <1>3 DEF T

\* Whatever two reports are: their entities' contributions sum to the change of the rate.
LEMMA ContributionsSum ==
    ASSUME NEW p, NEW c, Summable(p.rows), Summable(c.rows)
    PROVE  DeltaExplained(p, c)
<1> DEFINE A == Reports!Contributors(p, c)
           M == "conversions"
           b == Reports!Sum(p.rows, "spend")
           d == Reports!Sum(c.rows, "spend")
           now == [a \in A |-> Reports!EntitySum(c.rows, a, "conversions")]
           old == [a \in A |-> Reports!EntitySum(p.rows, a, "conversions")]
           w == [a \in A |-> Reports!Contribution(p, c, a)]
           F == CHOOSE it : it = [s \in SUBSET A |->
                   IF s = {} THEN 0 ELSE Reports!Contribution(p, c, One(s)) + it[s \ {One(s)}]]
<1>1. IsFiniteSet(A) /\ (\A k \in DOMAIN p.rows : k[1] \in A) /\ \A k \in DOMAIN c.rows : k[1] \in A
  <2>1. IsFiniteSet({k[1] : k \in DOMAIN p.rows}) /\ IsFiniteSet({k[1] : k \in DOMAIN c.rows})
    BY FirstsAreFinite DEF Summable
  <2>2. A = {k[1] : k \in DOMAIN p.rows} \union {k[1] : k \in DOMAIN c.rows}
    BY DEF Reports!Contributors
  <2> HIDE DEF A
  <2> QED
    BY <2>1, <2>2, FS_Union
<1>2. b \in Int /\ d \in Int
  <2> HIDE DEF A
  <2> QED
    BY <1>1, EntitiesSum DEF Summable, EntitySums
<1>3. /\ Reports!Sum(c.rows, "conversions") \in Int /\ \A a \in A : now[a] \in Int
      /\ \E g : Totals(g, now, A) /\ g[A] = Reports!Sum(c.rows, "conversions")
  <2> HIDE DEF A
  <2> QED
    BY <1>1, EntitiesSum DEF Summable, EntitySums
<1>4. /\ Reports!Sum(p.rows, "conversions") \in Int /\ \A a \in A : old[a] \in Int
      /\ \E h : Totals(h, old, A) /\ h[A] = Reports!Sum(p.rows, "conversions")
  <2> HIDE DEF A
  <2> QED
    BY <1>1, EntitiesSum DEF Summable, EntitySums
<1>5. \A a \in A : w[a] = Reports!Contribution(p, c, a) /\ w[a] = now[a] * b - old[a] * d
  <2> SUFFICES ASSUME NEW a \in A PROVE w[a] = now[a] * b - old[a] * d
    OBVIOUS
  <2>1. w[a] = Reports!Contribution(p, c, a)
    OBVIOUS
  <2>2. /\ now[a] = Reports!EntitySum(c.rows, a, "conversions")
        /\ old[a] = Reports!EntitySum(p.rows, a, "conversions")
    OBVIOUS
  <2> HIDE DEF w, now, old, A
  <2> QED
    BY <2>1, <2>2 DEF Reports!Contribution
<1>6. Reports!MapThenSumSet(LAMBDA ad : Reports!Contribution(p, c, ad), A) = F[A]
  BY DEF Reports!MapThenSumSet, Reports!MapThenFoldSet, One
<1> HIDE DEF A, b, d, now, old, w
<1>7. \A a \in A : w[a] \in Int
  <2> SUFFICES ASSUME NEW a \in A PROVE w[a] \in Int
    OBVIOUS
  <2>1. now[a] * b \in Int /\ old[a] * d \in Int
    BY <1>2, <1>3, <1>4
  <2> QED
    BY <1>5, <2>1
<1>8. Totals(F, w, A)
  <2>1. PICK it : Adds(it, w, SUBSET A)
    BY <1>1, AddsExist
  <2>2. \A s \in SUBSET A : s # {} => w[One(s)] = Reports!Contribution(p, c, One(s))
    BY <1>5, OneOf
  <2>3. it = [s \in SUBSET A |-> IF s = {} THEN 0 ELSE w[One(s)] + it[s \ {One(s)}]]
    BY <2>1 DEF Adds
  <2>4. it = [s \in SUBSET A |->
                IF s = {} THEN 0 ELSE Reports!Contribution(p, c, One(s)) + it[s \ {One(s)}]]
    BY <2>2, <2>3
  <2>5. F = [s \in SUBSET A |->
                IF s = {} THEN 0 ELSE Reports!Contribution(p, c, One(s)) + F[s \ {One(s)}]]
    BY <2>4
  <2> HIDE DEF F
  <2>6. F = [s \in SUBSET A |-> IF s = {} THEN 0 ELSE w[One(s)] + F[s \ {One(s)}]]
    BY <2>2, <2>5
  <2>7. Adds(F, w, SUBSET A)
    BY <2>6 DEF Adds
  <2> QED
    BY <1>1, <1>7, <2>7, AddsAny
<1> HIDE DEF F
<1>9. F[A] = Reports!Sum(c.rows, "conversions") * b - Reports!Sum(p.rows, "conversions") * d
  <2>1. PICK g : Totals(g, now, A) /\ g[A] = Reports!Sum(c.rows, "conversions")
    BY <1>3
  <2>2. PICK h : Totals(h, old, A) /\ h[A] = Reports!Sum(p.rows, "conversions")
    BY <1>4
  <2>3. F[A] = g[A] * b - h[A] * d
    <3>1. Scaled(w, now, b, old, d, A)
      BY <1>5 DEF Scaled
    <3>2. Integral(now, A) /\ Integral(old, A)
      BY <1>3, <1>4 DEF Integral
    <3> QED
      BY <1>1, <1>2, <1>8, <2>1, <2>2, <3>1, <3>2, SumsScale
  <2> QED
    BY <2>1, <2>2, <2>3
<1> QED
  BY <1>6, <1>9 DEF A, b, d, DeltaExplained, Reports!Delta

LEMMA RowsSum ==
    ASSUME Reports!ReportAssumption, Ready, NEW q \in Reports!Query
    PROVE  Summable(Reports!Rows(q))
<1> DEFINE number(k) == Cardinality(HoursAt(k[1], k[2]))
           seen(k) == Seen(HoursAt(k[1], k[2]))
           seed(k) == SeedOf(k[1], k[2])
           rows == Reports!Rows(q)
<1>0. /\ q.from \in Int /\ q.to \in Int /\ SeedConversions \in Nat /\ IsFiniteSet(ads)
      /\ facts \subseteq Hour /\ IsFiniteSet(facts) /\ Delay \in Nat
  BY Calendar, FS_Subset DEF Ready
<1>1. rows = [k \in Keys(q) |-> [spend |-> number(k) + seed(k),
                                conversions |-> seen(k) + seed(k) * SeedConversions]]
  BY RowsAre
<1>2. IsFiniteSet(Keys(q))
  <2>1. IsFiniteSet(ads \X (q.from..q.to))
    BY <1>0, FS_Interval, FS_Product
  <2>2. Keys(q) \in SUBSET (ads \X (q.from..q.to))
    BY DEF Keys
  <2> QED
    BY ONLY <2>1, <2>2, FS_Subset
<1>3. ASSUME NEW k \in Keys(q)
      PROVE  number(k) \in Int /\ seen(k) \in Int /\ seed(k) \in {0, 1}
  <2> DEFINE H == HoursAt(k[1], k[2])
             w == [f \in H |-> Reports!Visible(f)]
  <2>1. IsFiniteSet(H) /\ H \subseteq Hour
    BY <1>0, FS_Subset DEF HoursAt
  <2>2. \A f \in H : w[f] = Reports!Visible(f) /\ w[f] \in Int
    <3>1. \A f \in H : f.conversions \in Nat
      BY <2>1, HourAged
    <3> QED
      BY <3>1 DEF Reports!Visible
  <2>3. seed(k) \in {0, 1}
    BY DEF SeedOf
  <2> HIDE DEF H, w
  <2>4. PICK it : Adds(it, w, SUBSET H) /\ Seen(H) = it[H]
    BY <2>1, <2>2, SeenAdds
  <2>5. Totals(it, w, H)
    BY <2>1, <2>2, <2>4, AddsAny
  <2>6. Seen(H) \in Int /\ Cardinality(H) \in Int
    BY <2>1, <2>4, <2>5, FS_CardinalityType DEF Totals
  <2> QED
    BY <2>3, <2>6 DEF H
<1> HIDE DEF number, seen, seed, rows
<1>4. DOMAIN rows = Keys(q)
  BY <1>1
<1>5. ASSUME NEW k \in Keys(q) PROVE rows[k]["spend"] \in Int /\ rows[k]["conversions"] \in Int
  <2>1. rows[k]["spend"] = number(k) + seed(k)
    BY <1>1
  <2>2. rows[k]["conversions"] = seen(k) + seed(k) * SeedConversions
    BY <1>1
  <2>3. seed(k) * SeedConversions \in Int
    BY <1>0, <1>3
  <2> QED
    BY <1>3, <2>1, <2>2, <2>3
<1> QED
  BY <1>2, <1>4, <1>5 DEF Summable, rows

Kept == Ready /\ Delivered /\ (asked # None => Summable(asked.rows))

LEMMA KeptNext ==
    ASSUME Reports!ReportAssumption, Kept, [Reports!Next]_(Reports!vars) PROVE Kept'
<1>0. Ready /\ Delivered
  BY DEF Kept
<1>1. ASSUME NEW converted \in [ads -> Conversions], Reports!Hour(converted) PROVE Kept'
  <2>1. Ready' /\ Delivered'
    BY <1>0, <1>1, HourDelivers
  <2>2. asked' = asked
    BY <1>1 DEF Reports!Hour
  <2> QED
    BY <2>1, <2>2 DEF Kept
<1>2. ASSUME NEW ad \in Later, Reports!CreateAd(ad) PROVE Kept'
  <2>1. /\ ads' = ads \union {ad} /\ clock' = clock /\ facts' = facts /\ asked' = asked
    BY <1>2 DEF Reports!CreateAd
  <2>2. Ready'
    BY <1>0, <2>1 DEF Ready
  <2>3. Delivered'
    BY <1>0, <2>1 DEF Delivered
  <2> QED
    BY <2>1, <2>2, <2>3 DEF Kept
<1>3. ASSUME NEW q \in Reports!Query, Reports!Ask(q) PROVE Kept'
  <2>1. /\ ads' = ads /\ clock' = clock /\ facts' = facts /\ asked'.rows = Reports!Rows(q)
    BY <1>3 DEF Reports!Ask, Reports!Report
  <2>2. Ready' /\ Delivered'
    BY <1>0, <2>1 DEF Ready, Delivered
  <2>3. Summable(asked'.rows)
    BY <1>0, <2>1, RowsSum
  <2> QED
    BY <2>2, <2>3 DEF Kept, Summable
<1>4. CASE UNCHANGED Reports!vars
  <2>1. clock' = clock /\ ads' = ads /\ facts' = facts /\ asked' = asked
    BY <1>4 DEF Reports!vars
  <2> QED
    BY <2>1 DEF Kept, Ready, Delivered
<1> QED
  BY <1>1, <1>2, <1>3, <1>4 DEF Reports!Next

LEMMA KeptBegins == ASSUME Reports!ReportAssumption, Reports!Init PROVE Kept
  BY ReportsBegin DEF ReportInvariant, Kept, Reports!Init

LEMMA KeptShows ==
    ASSUME Reports!ReportAssumption, Kept PROVE Reports!ContributionsExplainDelta
<1> SUFFICES ASSUME asked # None, NEW q \in Reports!Query
             PROVE  DeltaExplained(asked, Reports!Report(q))
  BY DEF Reports!ContributionsExplainDelta, DeltaExplained
<1>1. Summable(asked.rows) /\ Summable(Reports!Rows(q))
  BY RowsSum DEF Kept
<1>2. Reports!Report(q).rows = Reports!Rows(q)
  BY DEF Reports!Report
<1>3. Summable(Reports!Report(q).rows)
  BY <1>1, <1>2
<1> QED
  BY <1>1, <1>3, ContributionsSum

\* The contributions of a comparison sum to its total change, also when the reports were
\* read at different times and an ad was created in between (ads/comparison.go:78).
THEOREM ContributionsExplain ==
    Reports!ReportAssumption => (Reports!Spec => []Reports!ContributionsExplainDelta)
<1> SUFFICES ASSUME Reports!ReportAssumption
             PROVE  Reports!Spec => []Reports!ContributionsExplainDelta
  OBVIOUS
<1>1. Reports!Init => Kept
  BY KeptBegins
<1>2. Kept /\ [Reports!Next]_(Reports!vars) => Kept'
  BY KeptNext
<1>3. Kept => Reports!ContributionsExplainDelta
  BY KeptShows
<1> QED
  BY <1>1, <1>2, <1>3, PTL DEF Reports!Spec

(***************************************************************************)
(* The books of the Sandbox: a rule leaves them alone, an hour enters what *)
(* its facts say, which are of one day and not among the earlier ones.     *)
(***************************************************************************)

Spent(S) == Box!MapThenSumSet(LAMBDA f : f.spend, S)
Priced(S) == IsFiniteSet(S) /\ \A f \in S : f.spend \in Int

LEMMA SpentAdds ==
    ASSUME NEW S, Priced(S), NEW R, S \subseteq R, NEW w, \A f \in R : w[f] = f.spend,
           NEW it, Totals(it, w, R)
    PROVE  Spent(S) = it[S]
<1> DEFINE F == CHOOSE g : g = [s \in SUBSET S |->
                   IF s = {} THEN 0 ELSE One(s).spend + g[s \ {One(s)}]]
<1>0. IsFiniteSet(S) /\ \A f \in S : w[f] = f.spend /\ w[f] \in Int
  BY DEF Priced
<1>1. Spent(S) = F[S]
  BY DEF Spent, Box!MapThenSumSet, Box!MapThenFoldSet, One
<1>2. PICK g : Adds(g, w, SUBSET S)
  BY <1>0, AddsExist
<1>3. \A s \in SUBSET S : s # {} => w[One(s)] = One(s).spend
  BY <1>0, OneOf
<1>4. g = [s \in SUBSET S |-> IF s = {} THEN 0 ELSE w[One(s)] + g[s \ {One(s)}]]
  BY <1>2 DEF Adds
<1>5. g = [s \in SUBSET S |-> IF s = {} THEN 0 ELSE One(s).spend + g[s \ {One(s)}]]
  BY <1>3, <1>4
<1>6. F = [s \in SUBSET S |-> IF s = {} THEN 0 ELSE One(s).spend + F[s \ {One(s)}]]
  BY <1>5
<1> HIDE DEF F
<1>7. F = [s \in SUBSET S |-> IF s = {} THEN 0 ELSE w[One(s)] + F[s \ {One(s)}]]
  BY <1>3, <1>6
<1>8. Adds(F, w, SUBSET S)
  BY <1>7 DEF Adds
<1>9. Totals(F, w, S)
  BY <1>0, <1>8, AddsAny
<1>10. F[S] = it[S]
  BY <1>0, <1>9, SumsAgree
<1> QED
  BY <1>1, <1>10

LEMMA SpentJoins ==
    ASSUME NEW S, Priced(S), NEW T, Priced(T), S \intersect T = {}
    PROVE  /\ Spent(S \union T) = Spent(S) + Spent(T)
           /\ Spent(S) \in Int /\ Spent(T) \in Int /\ Priced(S \union T)
<1> DEFINE R == S \union T
           w == [f \in R |-> f.spend]
<1>1. Priced(R) /\ IsFiniteSet(R)
  BY FS_Union DEF Priced
<1>2. (\A f \in R : w[f] = f.spend) /\ \A f \in R : w[f] \in Int
  BY DEF Priced
<1> HIDE DEF w
<1>3. S \in SUBSET R /\ T \in SUBSET R /\ R \in SUBSET R
  OBVIOUS
<1> HIDE DEF R
<1>4. PICK it : Adds(it, w, SUBSET R)
  BY <1>1, AddsExist
<1>5. Totals(it, w, R)
  BY <1>1, <1>2, <1>4, AddsAny
<1>6. Spent(S) = it[S] /\ Spent(T) = it[T] /\ Spent(R) = it[R]
  BY <1>1, <1>2, <1>3, <1>5, SpentAdds
<1>7. it[S] \in Int /\ it[T] \in Int
  BY <1>3, <1>5 DEF Totals
<1>8. it[S \union T] = it[S] + it[T]
  BY <1>1, <1>2, <1>3, <1>5, SumsJoin
<1> QED
  BY <1>1, <1>6, <1>7, <1>8 DEF R

LEMMA NothingSpent == Spent({}) = 0 /\ Priced({})
<1>1. Priced({})
  BY FS_EmptySet DEF Priced
<1>2. {} \union {} = {} /\ {} \intersect {} = {}
  OBVIOUS
<1>3. Spent({} \union {}) = Spent({}) + Spent({}) /\ Spent({}) \in Int
  BY <1>1, <1>2, SpentJoins
<1> DEFINE none == Spent({})
<1>4. none = none + none /\ none \in Int
  BY <1>2, <1>3
<1> HIDE DEF none
<1>5. none = 0
  BY <1>4
<1> QED
  BY <1>1, <1>5 DEF none

LEMMA PricedPart == ASSUME NEW S, Priced(S), NEW T, T \subseteq S PROVE Priced(T)
  BY FS_Subset DEF Priced

\* What the account has and was billed each day, of the facts there are.
OfDay(booked, d) == {f \in booked : Box!Day(f.at) = d}
Booked(ops, booked) ==
    /\ ops = [evaluated |-> ops.evaluated, results |-> ops.results, cash |-> ops.cash,
              billed |-> ops.billed]
    /\ Priced(booked)
    /\ ops.cash = -Spent(booked)
    /\ \A d \in DOMAIN ops.billed : ops.billed[d] = -Spent(OfDay(booked, d))
    /\ \A d : d \notin DOMAIN ops.billed => Spent(OfDay(booked, d)) = 0

\* The facts of one more hour, entered.
LEMMA Settled ==
    ASSUME NEW ops, NEW booked, Booked(ops, booked), NEW hour, NEW new, Priced(new),
           \A f \in new : f.at = hour, booked \intersect new = {}
    PROVE  Booked(Box!SettleSpend(ops, hour, new), booked \union new)
<1> DEFINE spend == Spent(new)
           day == Box!Day(hour)
           past == IF day \in DOMAIN ops.billed THEN ops.billed[day] ELSE 0
           next == Box!SettleSpend(ops, hour, new)
           all == booked \union new
           billed == [d \in DOMAIN ops.billed \union {day} |->
                         IF d = day THEN past - spend ELSE ops.billed[d]]
<1>1. next = IF spend = 0 THEN ops
             ELSE [ops EXCEPT !.cash = @ - spend,
                              !.billed = [d \in DOMAIN @ \union {day} |->
                                             IF d = day THEN past - spend ELSE @[d]]]
  BY DEF Box!SettleSpend, Spent
<1>2. /\ ops = [evaluated |-> ops.evaluated, results |-> ops.results, cash |-> ops.cash,
                billed |-> ops.billed]
      /\ ops.cash = -Spent(booked)
  BY DEF Booked
<1>3. /\ Spent(all) = Spent(booked) + spend /\ Spent(booked) \in Int /\ spend \in Int
      /\ Priced(all)
  BY SpentJoins DEF Booked
<1>4. ASSUME NEW d
      PROVE  /\ Spent(OfDay(booked, d)) \in Int
             /\ Spent(OfDay(all, d)) = Spent(OfDay(booked, d)) + (IF d = day THEN spend ELSE 0)
  <2>1. Priced(OfDay(booked, d))
    BY PricedPart DEF Booked, OfDay
  <2>2. CASE d = day
    <3>1. OfDay(all, d) = OfDay(booked, d) \union new /\ OfDay(booked, d) \intersect new = {}
      BY <2>2 DEF OfDay
    <3> HIDE DEF all, spend, day
    <3> QED
      BY <2>1, <2>2, <3>1, SpentJoins DEF spend
  <2>3. CASE d # day
    <3>1. OfDay(all, d) = OfDay(booked, d) /\ OfDay(booked, d) \union {} = OfDay(booked, d)
      BY <2>3 DEF OfDay
    <3>2. Spent(OfDay(booked, d)) \in Int
      BY <2>1, NothingSpent, SpentJoins
    <3> HIDE DEF all, spend, day
    <3> QED
      BY <2>3, <3>1, <3>2
  <2> QED
    BY <2>2, <2>3
<1> HIDE DEF next, all, spend, day
<1>5. CASE spend = 0
  <2>1. next = ops
    BY <1>1, <1>5
  <2>2. ASSUME NEW d PROVE Spent(OfDay(all, d)) = Spent(OfDay(booked, d))
    BY <1>4, <1>5
  <2>3. Spent(all) = Spent(booked)
    BY <1>3, <1>5
  <2>4. Booked(ops, all)
    BY <1>3, <2>2, <2>3 DEF Booked
  <2> QED
    BY <2>1, <2>4 DEF next, all
<1>6. CASE spend # 0
  <2> HIDE DEF past
  <2>1. next = [evaluated |-> ops.evaluated, results |-> ops.results, cash |-> ops.cash - spend,
                billed |-> billed]
    <3>1. next = [ops EXCEPT !.cash = ops.cash - spend, !.billed = billed]
      BY <1>1, <1>6
    <3> HIDE DEF billed
    <3> QED
      BY ONLY <1>2, <3>1
  <2>2. next.cash = ops.cash - spend /\ next.billed = billed
        /\ next = [evaluated |-> next.evaluated, results |-> next.results, cash |-> next.cash,
                   billed |-> next.billed]
    BY ONLY <2>1
  <2>3. next.cash = -Spent(all)
    BY <1>2, <1>3, <2>2
  <2>4. past = -Spent(OfDay(booked, day))
    BY <1>4 DEF past, Booked
  <2>5. DOMAIN billed = DOMAIN ops.billed \union {day}
    OBVIOUS
  <2>6. ASSUME NEW d \in DOMAIN billed PROVE billed[d] = -Spent(OfDay(all, d))
    <3>1. CASE d = day
      <4>1. billed[d] = past - spend
        BY <3>1
      <4> HIDE DEF billed
      <4> QED
        BY <1>3, <1>4, <2>4, <3>1, <4>1
    <3>2. CASE d # day
      <4>1. billed[d] = ops.billed[d] /\ d \in DOMAIN ops.billed
        BY <3>2
      <4>2. ops.billed[d] = -Spent(OfDay(booked, d))
        BY <4>1 DEF Booked
      <4> HIDE DEF billed
      <4> QED
        BY <1>4, <3>2, <4>1, <4>2
    <3> QED
      BY <3>1, <3>2
  <2>7. ASSUME NEW d, d \notin DOMAIN billed PROVE Spent(OfDay(all, d)) = 0
    <3>1. d # day /\ d \notin DOMAIN ops.billed
      BY <2>5, <2>7
    <3>2. Spent(OfDay(booked, d)) = 0
      BY <3>1 DEF Booked
    <3> QED
      BY <1>4, <3>1, <3>2
  <2> HIDE DEF billed
  <2>8. Booked(next, all)
    BY <1>3, <2>2, <2>3, <2>6, <2>7 DEF Booked
  <2> QED
    BY <2>8 DEF next, all
<1> QED
  BY <1>5, <1>6

Budgeted(env) ==
    IsFiniteSet(DOMAIN env.units) /\ \A u \in DOMAIN env.units : env.units[u].budget \in Int

OpsForm(ops) ==
    ops = [evaluated |-> ops.evaluated, results |-> ops.results, cash |-> ops.cash,
           billed |-> ops.billed]

\* Rules set budgets, but enter nothing in the books.
SameBooks(env, now) ==
    /\ OpsForm(now.ops) /\ Budgeted(now)
    /\ now.ops.cash = env.ops.cash /\ now.ops.billed = env.ops.billed

LEMMA RuleKeepsBooks ==
    ASSUME NEW env, IsEnv(env), OpsForm(env.ops), Budgeted(env), NEW r, NEW t,
           RuleSpec[r].amount \in Int
    PROVE  SameBooks(env, Box!EvaluateRule(env, r, t))
<1> DEFINE rule == RuleSpec[r]
           known == rule.targets \cap DOMAIN env.units
           hit == {u \in known : Box!Matched(env, rule, u, t) /\ ~Box!Satisfied(rule, env.units[u])}
           refused == {u \in hit : Box!Refused(env, rule, env.units[u])}
           affected == hit \ refused
           status == IF refused # {} \/ known # rule.targets THEN "REJECTED"
                     ELSE IF affected # {} THEN "SUCCEEDED" ELSE "NO_ACTION"
           units == [u \in DOMAIN env.units |->
                        IF u \in affected THEN Box!Changed(rule, env.units[u]) ELSE env.units[u]]
           next == Box!EvaluateRule(env, r, t)
           ops == env.ops
<1>1. next = IF r \notin DOMAIN ops.evaluated \/ t <= ops.evaluated[r]
             THEN env
             ELSE [env EXCEPT
                     !.units = units,
                     !.ops.evaluated[r] = t,
                     !.ops.results = Append(@, [rule |-> r, at |-> t, status |-> status])]
  BY DEF Box!EvaluateRule
<1>2. /\ env = [policy |-> env.policy, units |-> env.units, clock |-> env.clock,
                facts |-> env.facts, ops |-> env.ops]
      /\ ops = [evaluated |-> ops.evaluated, results |-> ops.results, cash |-> ops.cash,
                billed |-> ops.billed]
  BY DEF IsEnv, HasFields, OpsForm
<1>3. ASSUME NEW u \in DOMAIN env.units PROVE units[u].budget \in Int
  <2>1. env.units[u] = [on |-> env.units[u].on, budget |-> env.units[u].budget]
        /\ env.units[u].budget \in Int
    BY DEF IsEnv, Budgeted
  <2>2. units[u] = IF u \in affected THEN Box!Changed(rule, env.units[u]) ELSE env.units[u]
    OBVIOUS
  <2> DEFINE e == env.units[u]
             amount == rule.amount
  <2>3. Box!Changed(rule, e) \in {e, [e EXCEPT !.on = FALSE], [e EXCEPT !.budget = amount]}
    BY DEF Box!Changed
  <2>4. amount \in Int
    OBVIOUS
  <2> HIDE DEF affected, rule, units, e, amount
  <2>5. units[u] \in {e, [e EXCEPT !.on = FALSE], [e EXCEPT !.budget = amount]}
    BY <2>2, <2>3 DEF e
  <2>6. e = [on |-> e.on, budget |-> e.budget] /\ e.budget \in Int
    BY <2>1 DEF e
  <2> QED
    BY ONLY <2>4, <2>5, <2>6
<1>4. DOMAIN units = DOMAIN env.units
  OBVIOUS
<1> HIDE DEF units, status, next
<1>5. CASE next = env
  BY <1>2, <1>5 DEF SameBooks, OpsForm, next
<1>6. CASE next = [env EXCEPT
                     !.units = units,
                     !.ops.evaluated[r] = t,
                     !.ops.results = Append(@, [rule |-> r, at |-> t, status |-> status])]
  <2>1. /\ next.ops = [evaluated |-> [ops.evaluated EXCEPT ![r] = t],
                       results |-> Append(ops.results, [rule |-> r, at |-> t, status |-> status]),
                       cash |-> ops.cash, billed |-> ops.billed]
        /\ next.units = units
    BY ONLY <1>2, <1>6
  <2> DEFINE now == next.ops
  <2>2. /\ now.cash = ops.cash /\ now.billed = ops.billed
        /\ now = [evaluated |-> now.evaluated, results |-> now.results, cash |-> now.cash,
                  billed |-> now.billed]
    BY <2>1
  <2>3. OpsForm(next.ops)
    BY <2>2 DEF OpsForm
  <2>4. Budgeted(next)
    BY <1>3, <1>4, <2>1 DEF Budgeted
  <2> QED
    BY <2>2, <2>3, <2>4 DEF SameBooks, next
<1> QED
  BY <1>1, <1>5, <1>6

LEMMA RulesKeepBooks ==
    ASSUME Box!HistoryAssumption, Box!AmountAssumption, NEW env, IsEnv(env), OpsForm(env.ops),
           Budgeted(env), NEW t
    PROVE  SameBooks(env, Box!EvaluateRules(env, t))
<1> DEFINE n == Len(RuleOrder)
<1>0. n \in Nat /\ \A k \in 1..n : RuleSpec[RuleOrder[k]].amount \in Int
  <2>1. RuleOrder \in Seq(Box!Rule) /\ \A r \in Box!Rule : RuleSpec[r].amount \in Int
    BY DEF Box!HistoryAssumption, Box!AmountAssumption
  <2>2. Len(RuleOrder) \in Nat /\ \A k \in 1..Len(RuleOrder) : RuleOrder[k] \in Box!Rule
    BY ONLY <2>1
  <2> QED
    BY ONLY <2>1, <2>2
<1>1. PICK f : /\ Box!EvaluateRules(env, t) = f[n] /\ f[0] = env
               /\ \A k \in 1..n : f[k] = Box!EvaluateRule(f[k - 1], RuleOrder[k], t)
  BY <1>0, RuleAfterRule
<1>2. \A k \in 0..n : IsEnv(f[k])
  <2>1. \A k \in 0..n : Ruled(env, f[k])
    <3>1. n \in Nat
      BY <1>0
    <3> HIDE DEF n
    <3> QED
      BY <1>1, <3>1, RulesTurns
  <2> QED
    BY <2>1 DEF Ruled, SameUnits
<1> HIDE DEF n
<1> DEFINE S == {k \in 0..n : ~SameBooks(env, f[k])}
<1>3. S = {}
  <2> SUFFICES ASSUME S # {} PROVE FALSE
    OBVIOUS
  <2>1. S \subseteq Nat
    OBVIOUS
  <2>2. PICK k \in S : \A x \in S : k <= x
    BY <2>1, LeastOf
  <2>3. k # 0
    BY <1>1 DEF SameBooks
  <2>4. k - 1 \in 0..n /\ k - 1 \notin S /\ k \in 1..n
    <3>1. k \in 0..n /\ k # 0 /\ n \in Nat
      BY <1>0, <2>3
    <3>2. k - 1 \in 0..n /\ k \in 1..n /\ ~(k <= k - 1)
      BY ONLY <3>1
    <3> HIDE DEF S
    <3> QED
      BY <2>2, <3>2
  <2>5. SameBooks(env, f[k - 1]) /\ IsEnv(f[k - 1])
    BY <1>2, <2>4
  <2>6. SameBooks(f[k - 1], f[k])
    BY <1>0, <1>1, <2>4, <2>5, RuleKeepsBooks DEF SameBooks
  <2>7. SameBooks(env, f[k])
    BY <2>5, <2>6 DEF SameBooks
  <2> QED
    BY <2>7
<1>4. n \in 0..n
  BY <1>0
<1>5. SameBooks(env, f[n])
  BY <1>3, <1>4
<1> QED
  BY <1>1, <1>5

\* What has happened is in the books, and lies in the past.
Balanced(env) ==
    /\ Booked(env.ops, env.facts) /\ Budgeted(env)
    /\ env.clock \in Int /\ \A f \in env.facts : f.at \in Int /\ f.at <= env.clock

LEMMA HourPriced ==
    ASSUME NEW units, IsFiniteSet(DOMAIN units), \A u \in DOMAIN units : units[u].budget \in Int,
           NEW hour
    PROVE  /\ Priced(Box!HourFacts(units, hour))
           /\ \A f \in Box!HourFacts(units, hour) : f.at = hour
<1> DEFINE N == Box!HourFacts(units, hour)
           i == [f \in N |-> f.unit]
           spend(u) == IF units[u].on THEN units[u].budget ELSE 0
<1>1. N = {[unit |-> u, at |-> hour, spend |-> spend(u)] : u \in DOMAIN units}
  BY DEF Box!HourFacts
<1>2. \A u \in DOMAIN units : spend(u) \in Int
  OBVIOUS
<1> HIDE DEF spend, N
<1>3. \A f \in N : /\ f.unit \in DOMAIN units /\ f.at = hour /\ f.spend \in Int
                   /\ f = [unit |-> f.unit, at |-> hour, spend |-> spend(f.unit)]
  BY <1>1, <1>2
<1>4. i \in [N -> DOMAIN units] /\ \A f, g \in N : i[f] = i[g] => f = g
  BY <1>3
<1> HIDE DEF i
<1>5. i \in Injection(N, DOMAIN units)
  BY <1>4, Fun_IsInj
<1>6. IsFiniteSet(N)
  BY <1>5, FS_Injection
<1> QED
  BY <1>3, <1>6 DEF Priced, N

LEMMA HourBalances ==
    ASSUME Box!HistoryAssumption, Box!AmountAssumption, NEW env, IsEnv(env), Balanced(env)
    PROVE  Balanced(Box!HourStep(env))
<1> DEFINE hour == env.clock + 2
           early == Box!EvaluateRules(env, hour - 1)
           new == Box!HourFacts(early.units, hour)
           settled == Box!SettleSpend(early.ops, hour, new)
           delivered == [early EXCEPT !.facts = @ \union new, !.clock = hour, !.ops = settled]
           next == Box!EvaluateRules(delivered, hour)
<1>0. Len(RuleOrder) \in Nat /\ OpsForm(env.ops) /\ Budgeted(env) /\ env.clock \in Int
  BY DEF Box!HistoryAssumption, Balanced, Booked, OpsForm
<1>1. Box!HourStep(env) = next
  BY DEF Box!HourStep
<1>2. Ruled(env, early) /\ SameBooks(env, early)
  BY <1>0, RulesTurn, RulesKeepBooks
<1>3. Priced(new) /\ \A f \in new : f.at = hour
  BY <1>2, HourPriced DEF SameBooks, Budgeted
<1> HIDE DEF early, new
<1>4. early.facts = env.facts /\ Booked(early.ops, early.facts)
  <2>1. Booked(env.ops, env.facts)
    BY DEF Balanced
  <2>2. early.facts = env.facts
    BY <1>2 DEF Ruled
  <2> QED
    BY <1>2, <2>1, <2>2 DEF SameBooks, OpsForm, Booked
<1>5. early.facts \intersect new = {}
  <2>1. \A f \in early.facts : f.at \in Int /\ f.at <= env.clock
    BY <1>4 DEF Balanced
  <2> QED
    BY <1>0, <1>3, <2>1
<1>6. Booked(settled, early.facts \union new)
  BY <1>3, <1>4, <1>5, Settled
<1> HIDE DEF settled
<1>7. delivered = [policy |-> early.policy, units |-> early.units, clock |-> hour,
                   facts |-> early.facts \union new, ops |-> settled]
  <2>1. early = [policy |-> early.policy, units |-> early.units, clock |-> early.clock,
                 facts |-> early.facts, ops |-> early.ops]
    BY <1>2 DEF Ruled, SameUnits, IsEnv, HasFields
  <2>2. delivered = [early EXCEPT !.facts = @ \union new, !.clock = hour, !.ops = settled]
    OBVIOUS
  <2> HIDE DEF delivered
  <2> QED
    BY ONLY <2>1, <2>2
<1> HIDE DEF delivered
<1>8. /\ delivered.policy = early.policy /\ delivered.units = early.units
      /\ delivered.clock = hour /\ delivered.facts = early.facts \union new
      /\ delivered.ops = settled
  BY ONLY <1>7
<1>9. IsEnv(delivered) /\ OpsForm(delivered.ops) /\ Budgeted(delivered)
  <2>1. IsEnv(early) /\ Budgeted(early)
    BY <1>2 DEF Ruled, SameUnits, SameBooks
  <2>2. OpsForm(settled)
    BY <1>6 DEF Booked, OpsForm
  <2> QED
    BY <1>7, <1>8, <2>1, <2>2 DEF IsEnv, HasFields, Budgeted
<1>10. Ruled(delivered, next) /\ SameBooks(delivered, next)
  BY <1>0, <1>9, RulesTurn, RulesKeepBooks
<1> HIDE DEF next
<1>11. next.clock = hour /\ next.facts = early.facts \union new
  BY <1>8, <1>10 DEF Ruled
<1>12. Booked(next.ops, next.facts)
  BY <1>6, <1>8, <1>10, <1>11 DEF SameBooks, OpsForm, Booked
<1>13. \A f \in next.facts : f.at \in Int /\ f.at <= hour
  <2>1. \A f \in env.facts : f.at \in Int /\ f.at <= env.clock
    BY DEF Balanced
  <2> QED
    BY <1>0, <1>3, <1>4, <1>11, <2>1
<1>14. hour \in Int
  BY <1>0
<1> QED
  BY <1>1, <1>10, <1>11, <1>12, <1>13, <1>14 DEF Balanced, SameBooks

LEMMA AdvanceBalances ==
    ASSUME Box!HistoryAssumption, Box!AmountAssumption, NEW env, IsEnv(env), Balanced(env),
           NEW n \in Nat
    PROVE  Balanced(Box!Simulated(env, n))
<1> DEFINE S == {m \in Nat : ~Balanced(Box!Simulated(env, m))}
<1>1. SUFFICES ASSUME S # {} PROVE FALSE
  OBVIOUS
<1>2. PICK m \in S : \A x \in S : m <= x
  BY <1>1, LeastOf
<1>3. m # 0
  BY HourAfterHour
<1>4. m - 1 \in Nat /\ m - 1 \notin S
  BY <1>2, <1>3
<1>5. Balanced(Box!Simulated(env, m - 1)) /\ IsEnv(Box!Simulated(env, m - 1))
  BY <1>4, AdvanceTurn DEF SameUnits, Box!HistoryAssumption
<1>6. Box!Simulated(env, (m - 1) + 1) = Box!HourStep(Box!Simulated(env, m - 1))
  BY <1>4, HourAfterHour
<1>7. (m - 1) + 1 = m
  OBVIOUS
<1>8. Balanced(Box!Simulated(env, m))
  BY <1>5, <1>6, <1>7, HourBalances
<1> QED
  BY <1>8

LEMMA HistoryBalances ==
    ASSUME Box!StoreAssumption, Box!AmountAssumption, IsEnv(db), Balanced(db), Box!HistoryNext
    PROVE  Balanced(db')
<1>0. HasFields(db) /\ OpsForm(db.ops)
  BY DEF IsEnv, Balanced, Booked, OpsForm
<1>1. ASSUME NEW n \in 1..MaxAdvanceHours, Box!Advance(n) PROVE Balanced(db')
  BY <1>1, AdvanceBalances DEF Box!Advance, Box!StoreAssumption, Box!HistoryAssumption
<1>2. ASSUME NEW now, now.ops.cash = db.ops.cash, now.ops.billed = db.ops.billed,
             OpsForm(now.ops), now.facts = db.facts, now.clock = db.clock, Budgeted(now)
      PROVE  Balanced(now)
  BY <1>2 DEF Balanced, Booked, OpsForm
<1>3. ASSUME NEW u \in Unit, Box!CreateUnit(u) PROVE Balanced(db')
  <2> DEFINE units == [v \in DOMAIN db.units \union {u} |->
                          IF v = u THEN Box!Created ELSE db.units[v]]
  <2>1. db' = [db EXCEPT !.units = units]
    BY <1>3 DEF Box!CreateUnit, Box!AddUnit
  <2>2. IsFiniteSet(DOMAIN units)
    BY FS_AddElement DEF Balanced, Budgeted
  <2>3. \A v \in DOMAIN units : units[v].budget \in Int
    BY DEF Box!Created, Balanced, Budgeted, Box!AmountAssumption
  <2> HIDE DEF units
  <2>4. /\ db'.units = units /\ db'.facts = db.facts /\ db'.clock = db.clock
        /\ db'.ops = db.ops
    BY ONLY <1>0, <2>1 DEF HasFields
  <2> QED
    BY <1>0, <1>2, <2>2, <2>3, <2>4 DEF Budgeted
<1>4. ASSUME NEW u \in Unit, Box!WriteUnit(u) PROVE Balanced(db')
  <2>1. PICK e \in Box!Rewrites(db.units[u]) : db' = [db EXCEPT !.units[u] = e]
    BY <1>4 DEF Box!WriteUnit
  <2>2. u \in DOMAIN db.units
    BY <1>4 DEF Box!WriteUnit
  <2> DEFINE units == [db.units EXCEPT ![u] = e]
             old == db.units[u]
  <2>3. old = [on |-> old.on, budget |-> old.budget] /\ old.budget \in Int
    BY <2>2 DEF IsEnv, Balanced, Budgeted
  <2>4. e = [old EXCEPT !.on = ~old.on] \/ \E b \in Budgets : e = [old EXCEPT !.budget = b]
    BY DEF Box!Rewrites
  <2>5. Budgets \subseteq Int
    BY DEF Box!AmountAssumption
  <2> HIDE DEF old
  <2>6. e.budget \in Int
    BY ONLY <2>3, <2>4, <2>5
  <2>7. DOMAIN units = DOMAIN db.units /\ \A v \in DOMAIN units : units[v].budget \in Int
    BY <2>2, <2>6 DEF Balanced, Budgeted, IsEnv
  <2> HIDE DEF units
  <2>8. db' = [db EXCEPT !.units = units]
    BY <2>1 DEF units
  <2>9. /\ db'.units = units /\ db'.facts = db.facts /\ db'.clock = db.clock
        /\ db'.ops = db.ops
    BY ONLY <1>0, <2>8 DEF HasFields
  <2> QED
    BY <1>0, <1>2, <2>7, <2>9 DEF Balanced, Budgeted
<1>5. ASSUME NEW r \in Box!Rule, Box!CreateRule(r) PROVE Balanced(db')
  <2> DEFINE since == [s \in DOMAIN db.ops.evaluated \union {r} |->
                         IF s = r THEN db.clock ELSE db.ops.evaluated[s]]
             ops == db.ops
  <2>1. db' = [db EXCEPT !.ops.evaluated = since]
    BY <1>5 DEF Box!CreateRule, Box!AddRule
  <2>2. /\ db = [policy |-> db.policy, units |-> db.units, clock |-> db.clock,
                 facts |-> db.facts, ops |-> db.ops]
        /\ ops = [evaluated |-> ops.evaluated, results |-> ops.results, cash |-> ops.cash,
                  billed |-> ops.billed]
    BY <1>0 DEF HasFields, OpsForm
  <2> HIDE DEF since, ops
  <2>3. /\ db'.units = db.units /\ db'.facts = db.facts /\ db'.clock = db.clock
        /\ db'.ops = [evaluated |-> since, results |-> ops.results, cash |-> ops.cash,
                      billed |-> ops.billed]
    BY ONLY <2>1, <2>2 DEF ops
  <2>4. OpsForm(db'.ops) /\ db'.ops.cash = db.ops.cash /\ db'.ops.billed = db.ops.billed
    BY <2>3 DEF OpsForm, ops
  <2> QED
    BY <1>2, <2>3, <2>4 DEF Balanced, Budgeted
<1>6. ASSUME NEW q \in Policies, Box!SetPolicy(q) PROVE Balanced(db')
  <2>1. db' = [db EXCEPT !.policy = q]
    BY <1>6 DEF Box!SetPolicy
  <2>2. /\ db'.units = db.units /\ db'.facts = db.facts /\ db'.clock = db.clock
        /\ db'.ops = db.ops
    BY ONLY <1>0, <2>1 DEF HasFields
  <2> QED
    BY <1>0, <1>2, <2>2 DEF Balanced, Budgeted
<1> QED
  BY <1>1, <1>3, <1>4, <1>5, <1>6 DEF Box!HistoryNext

LEMMA SeedBalances == ASSUME Box!AmountAssumption PROVE Balanced(Box!Seed)
<1> DEFINE ops == [evaluated |-> <<>>, results |-> <<>>, cash |-> 0, billed |-> <<>>]
           units == [u \in Seeded |-> [on |-> TRUE, budget |-> StartBudget]]
<1>1. /\ Box!Seed.ops = ops /\ Box!Seed.clock = 0 /\ Box!Seed.facts = {}
      /\ Box!Seed.units = units
  BY DEF Box!Seed
<1>2. \A d : OfDay({}, d) = {}
  BY DEF OfDay
<1>3. DOMAIN ops.billed = {}
  OBVIOUS
<1>4. Booked(ops, {})
  <2>1. -Spent({}) = 0
    BY NothingSpent
  <2> QED
    BY <1>2, <1>3, <2>1, NothingSpent DEF Booked
<1>5. IsFiniteSet(DOMAIN units) /\ \A u \in DOMAIN units : units[u].budget \in Int
  <2>1. Box!IsFiniteSet(Seeded) => IsFiniteSet(Seeded)
    BY DEF Box!IsFiniteSet, IsFiniteSet
  <2> QED
    BY <2>1 DEF Box!AmountAssumption
<1> QED
  BY <1>1, <1>4, <1>5 DEF Balanced, Budgeted

\* The environment as a writer leaves it, with its books in order.
Even == Leased /\ Balanced(db)

LEMMA EvenBegins == ASSUME Box!StoreAssumption, Box!AmountAssumption, Box!Init PROVE Even
  BY LeasedInit, SeedBalances DEF Box!Init, Box!HistoryInit, Even

LEMMA EvenNext ==
    ASSUME Box!StoreAssumption, Box!AmountAssumption, ~Slow, Even, [Box!Next]_(Box!vars)
    PROVE  Even'
<1> USE DEF Even
<1>0. IsEnv(db)
  BY DEF Leased, Fitting, EnvFits
<1>1. Leased' /\ [Box!HistoryNext]_db
  BY LeasedNext
<1>2. CASE db' = db
  BY <1>1, <1>2
<1>3. CASE Box!HistoryNext
  BY <1>0, <1>1, <1>3, HistoryBalances
<1> QED
  BY <1>1, <1>2, <1>3

LEMMA EvenShows == ASSUME Even PROVE Box!BooksBalance
<1>1. /\ db.ops.cash = -Spent(db.facts)
      /\ \A d \in DOMAIN db.ops.billed :
            db.ops.billed[d] = -Spent({f \in db.facts : Box!Day(f.at) = d})
  BY DEF Even, Balanced, Booked, OfDay
<1> QED
  BY <1>1 DEF Box!BooksBalance, Spent

\* What the account spent is what its facts say, in all and day by day, whatever writers,
\* crashes and readers do between (sandbox/simulation.go settleSpend, app/app.go Advance).
THEOREM BooksAreBalanced ==
    Box!StoreAssumption /\ Box!AmountAssumption /\ ~Slow => (Box!Spec => []Box!BooksBalance)
<1> SUFFICES ASSUME Box!StoreAssumption, Box!AmountAssumption, ~Slow
             PROVE  Box!Spec => []Box!BooksBalance
  OBVIOUS
<1> QED
  BY EvenBegins, EvenNext, EvenShows, PTL DEF Box!Spec

-----------------------------------------------------------------------------
(***************************************************************************)
(* Allocation and deliveries: the shares of the largest-remainder method   *)
(* are fair, and what the Sandbox delivers is within budgets, balance and  *)
(* inventory, for any hierarchy and settings.  Allotted is the method with *)
(* its floors, remainders and ranks apart; GroupScaled and CampaignScaled  *)
(* say what is left of wishes that are cut to a budget.  The invariant is  *)
(* Trading.                                                                *)
(***************************************************************************)

(***************************************************************************)
(* The sum of w over a finite set, and what keeps it.                      *)
(***************************************************************************)

Sum(w, S) == (CHOOSE f : Adds(f, w, SUBSET S))[S]
Addable(w, S) == IsFiniteSet(S) /\ Integral(w, S)

LEMMA SumTotals ==
    ASSUME NEW w, NEW R, Addable(w, R)
    PROVE  \E f : Totals(f, w, R) /\ \A S \in SUBSET R : f[S] = Sum(w, S)
<1>0. IsFiniteSet(R) /\ \A x \in R : w[x] \in Int
  BY DEF Addable, Integral
<1>1. PICK f : Adds(f, w, SUBSET R)
  BY <1>0, AddsExist
<1>2. Totals(f, w, R)
  BY <1>0, <1>1, AddsAny
<1>3. ASSUME NEW S \in SUBSET R PROVE f[S] = Sum(w, S)
  <2> DEFINE g == CHOOSE h : Adds(h, w, SUBSET S)
  <2>1. IsFiniteSet(S) /\ S \subseteq R /\ \A x \in S : w[x] \in Int
    BY <1>0, FS_Subset
  <2>2. \E h : Adds(h, w, SUBSET S)
    BY <2>1, AddsExist
  <2>3. Adds(g, w, SUBSET S)
    BY <2>2
  <2>4. Sum(w, S) = g[S]
    BY DEF Sum
  <2> HIDE DEF g
  <2>5. Totals(g, w, S)
    BY <2>1, <2>3, AddsAny
  <2> QED
    BY <1>2, <2>1, <2>4, <2>5, SumsAgree
<1> QED
  BY <1>2, <1>3

LEMMA SumType ==
    ASSUME NEW w, NEW S, Addable(w, S)
    PROVE  Sum(w, S) \in Int
<1>1. PICK f : Totals(f, w, S) /\ \A s \in SUBSET S : f[s] = Sum(w, s)
  BY SumTotals
<1>2. S \in SUBSET S
  OBVIOUS
<1> QED
  BY <1>1, <1>2 DEF Totals

LEMMA SumEmpty == ASSUME NEW w PROVE Sum(w, {}) = 0
<1>1. Addable(w, {})
  BY FS_EmptySet DEF Addable, Integral
<1>2. PICK f : Totals(f, w, {}) /\ \A s \in SUBSET {} : f[s] = Sum(w, s)
  BY <1>1, SumTotals
<1> QED
  BY <1>2 DEF Totals

LEMMA SumPart ==
    ASSUME NEW w, NEW S, Addable(w, S), NEW T, T \subseteq S
    PROVE  Addable(w, T)
  BY FS_Subset DEF Addable, Integral

LEMMA SumMore ==
    ASSUME NEW w, NEW S, Addable(w, S), NEW x \in S
    PROVE  /\ Sum(w, S) = w[x] + Sum(w, S \ {x})
           /\ w[x] \in Int /\ Sum(w, S \ {x}) \in Int
<1>1. PICK f : Totals(f, w, S) /\ \A s \in SUBSET S : f[s] = Sum(w, s)
  BY SumTotals
<1>2. S \in SUBSET S /\ S \ {x} \in SUBSET S
  OBVIOUS
<1>3. w[x] \in Int
  BY DEF Addable, Integral
<1>4. Sum(w, S) = f[S] /\ Sum(w, S \ {x}) = f[S \ {x}]
  BY <1>1, <1>2
<1>5. f[S] = w[x] + f[S \ {x}] /\ f[S \ {x}] \in Int
  BY <1>1, <1>2 DEF Totals
<1> QED
  BY <1>3, <1>4, <1>5

LEMMA SumJoin ==
    ASSUME NEW w, NEW S, Addable(w, S), NEW T, Addable(w, T), S \intersect T = {}
    PROVE  /\ Sum(w, S \union T) = Sum(w, S) + Sum(w, T)
           /\ Addable(w, S \union T)
<1> DEFINE R == S \union T
<1>1. Addable(w, R)
  BY FS_Union DEF Addable, Integral
<1>2. S \in SUBSET R /\ T \in SUBSET R /\ R \in SUBSET R
  OBVIOUS
<1> HIDE DEF R
<1>3. PICK f : Totals(f, w, R) /\ \A s \in SUBSET R : f[s] = Sum(w, s)
  BY <1>1, SumTotals
<1>4. f[S \union T] = f[S] + f[T]
  <2>1. IsFiniteSet(R) /\ \A x \in R : w[x] \in Int
    BY <1>1 DEF Addable, Integral
  <2>2. Totals(f, w, R)
    BY <1>3
  <2> QED
    BY <1>2, <2>1, <2>2, SumsJoin
<1>5. S \union T = R
  BY DEF R
<1> QED
  BY <1>1, <1>2, <1>3, <1>4, <1>5

\* Amounts of the same set, one by one in some relation, sum up in that relation.
LEMMA SumAlike ==
    ASSUME NEW w, NEW v, NEW S, Addable(w, S), \A x \in S : v[x] = w[x]
    PROVE  Addable(v, S) /\ Sum(v, S) = Sum(w, S)
<1>0. Addable(v, S)
  BY DEF Addable, Integral
<1> DEFINE P == {s \in SUBSET S : Sum(v, s) = Sum(w, s)}
<1>1. {} \in P
  BY SumEmpty
<1>2. \A s \in SUBSET S : \A x \in s : s \ {x} \in P => s \in P
  <2> SUFFICES ASSUME NEW s \in SUBSET S, NEW x \in s, s \ {x} \in P
               PROVE  Sum(v, s) = Sum(w, s)
    OBVIOUS
  <2>1. Addable(v, s) /\ Addable(w, s)
    BY <1>0, SumPart
  <2>2. Sum(v, s) = v[x] + Sum(v, s \ {x}) /\ Sum(w, s) = w[x] + Sum(w, s \ {x})
    BY <2>1, SumMore
  <2> QED
    BY <2>2
<1> HIDE DEF P
<1>3. S \in P
  BY <1>1, <1>2, SetsGrow DEF Addable
<1> QED
  BY <1>0, <1>3 DEF P

LEMMA SumAtMost ==
    ASSUME NEW w, NEW v, NEW S, Addable(w, S), Addable(v, S), \A x \in S : v[x] <= w[x]
    PROVE  Sum(v, S) <= Sum(w, S)
<1> DEFINE P == {s \in SUBSET S : Sum(v, s) <= Sum(w, s)}
<1>1. {} \in P
  BY SumEmpty
<1>2. \A s \in SUBSET S : \A x \in s : s \ {x} \in P => s \in P
  <2> SUFFICES ASSUME NEW s \in SUBSET S, NEW x \in s, s \ {x} \in P
               PROVE  Sum(v, s) <= Sum(w, s)
    OBVIOUS
  <2>1. Addable(v, s) /\ Addable(w, s)
    BY SumPart
  <2>2. /\ Sum(v, s) = v[x] + Sum(v, s \ {x}) /\ Sum(w, s) = w[x] + Sum(w, s \ {x})
        /\ v[x] \in Int /\ w[x] \in Int /\ Sum(v, s \ {x}) \in Int /\ Sum(w, s \ {x}) \in Int
    BY <2>1, SumMore
  <2>3. v[x] <= w[x] /\ Sum(v, s \ {x}) <= Sum(w, s \ {x})
    OBVIOUS
  <2> QED
    BY ONLY <2>2, <2>3
<1> HIDE DEF P
<1>3. S \in P
  BY <1>1, <1>2, SetsGrow DEF Addable
<1> QED
  BY <1>3 DEF P

LEMMA SumPlus ==
    ASSUME NEW w, NEW v, NEW u, NEW S, Addable(w, S), Addable(v, S),
           \A x \in S : u[x] = v[x] + w[x]
    PROVE  Addable(u, S) /\ Sum(u, S) = Sum(v, S) + Sum(w, S)
<1>0. Addable(u, S)
  BY DEF Addable, Integral
<1> DEFINE P == {s \in SUBSET S : Sum(u, s) = Sum(v, s) + Sum(w, s)}
<1>1. {} \in P
  BY SumEmpty
<1>2. \A s \in SUBSET S : \A x \in s : s \ {x} \in P => s \in P
  <2> SUFFICES ASSUME NEW s \in SUBSET S, NEW x \in s, s \ {x} \in P
               PROVE  Sum(u, s) = Sum(v, s) + Sum(w, s)
    OBVIOUS
  <2>1. Addable(v, s) /\ Addable(w, s) /\ Addable(u, s)
    BY <1>0, SumPart
  <2>2. /\ Sum(v, s) = v[x] + Sum(v, s \ {x}) /\ Sum(w, s) = w[x] + Sum(w, s \ {x})
        /\ Sum(u, s) = u[x] + Sum(u, s \ {x})
        /\ v[x] \in Int /\ w[x] \in Int /\ Sum(v, s \ {x}) \in Int /\ Sum(w, s \ {x}) \in Int
    BY <2>1, SumMore
  <2>3. u[x] = v[x] + w[x] /\ Sum(u, s \ {x}) = Sum(v, s \ {x}) + Sum(w, s \ {x})
    OBVIOUS
  <2> QED
    BY ONLY <2>2, <2>3
<1> HIDE DEF P
<1>3. S \in P
  BY <1>1, <1>2, SetsGrow DEF Addable
<1> QED
  BY <1>0, <1>3 DEF P

LEMMA TimesAdds ==
    ASSUME NEW c \in Int, NEW x \in Int, NEW y \in Int PROVE c * (x + y) = c * x + c * y
  OBVIOUS

LEMMA SumTimes ==
    ASSUME NEW w, NEW v, NEW S, Addable(w, S), NEW c \in Int, \A x \in S : v[x] = c * w[x]
    PROVE  Addable(v, S) /\ Sum(v, S) = c * Sum(w, S)
<1>0. Addable(v, S)
  BY DEF Addable, Integral
<1> DEFINE P == {s \in SUBSET S : Sum(v, s) = c * Sum(w, s)}
<1>1. {} \in P
  BY SumEmpty
<1>2. \A s \in SUBSET S : \A x \in s : s \ {x} \in P => s \in P
  <2> SUFFICES ASSUME NEW s \in SUBSET S, NEW x \in s, s \ {x} \in P
               PROVE  Sum(v, s) = c * Sum(w, s)
    OBVIOUS
  <2>1. Addable(v, s) /\ Addable(w, s)
    BY <1>0, SumPart
  <2>2. /\ Sum(v, s) = v[x] + Sum(v, s \ {x}) /\ Sum(w, s) = w[x] + Sum(w, s \ {x})
        /\ w[x] \in Int /\ Sum(w, s \ {x}) \in Int
    BY <2>1, SumMore
  <2>3. v[x] = c * w[x] /\ Sum(v, s \ {x}) = c * Sum(w, s \ {x})
    OBVIOUS
  <2>4. c * (w[x] + Sum(w, s \ {x})) = c * w[x] + c * Sum(w, s \ {x})
    BY <2>2, TimesAdds
  <2> QED
    BY <2>2, <2>3, <2>4
<1> HIDE DEF P
<1>3. S \in P
  BY <1>1, <1>2, SetsGrow DEF Addable
<1> QED
  BY <1>0, <1>3 DEF P

\* What is not negative sums up to no less than any part of it.
LEMMA SumOfNaturals ==
    ASSUME NEW w, NEW S, IsFiniteSet(S), \A x \in S : w[x] \in Nat
    PROVE  Addable(w, S) /\ Sum(w, S) \in Nat
<1>0. Addable(w, S)
  BY DEF Addable, Integral
<1> DEFINE v == [x \in S |-> 0 * w[x]]
<1>1. Addable(v, S) /\ Sum(v, S) = 0 * Sum(w, S)
  BY <1>0, SumTimes
<1>2. \A x \in S : v[x] <= w[x]
  OBVIOUS
<1>3. Sum(w, S) \in Int
  BY <1>0, SumType
<1> HIDE DEF v
<1>4. Sum(v, S) <= Sum(w, S)
  BY <1>0, <1>1, <1>2, SumAtMost
<1>5. 0 * Sum(w, S) = 0
  BY <1>3
<1> QED
  BY <1>0, <1>1, <1>3, <1>4, <1>5

LEMMA SumOfPart ==
    ASSUME NEW w, NEW S, IsFiniteSet(S), \A x \in S : w[x] \in Nat, NEW T, T \subseteq S
    PROVE  Sum(w, T) <= Sum(w, S) /\ Sum(w, T) \in Nat /\ Sum(w, S) \in Nat /\ Addable(w, S)
<1>1. IsFiniteSet(T) /\ IsFiniteSet(S \ T) /\ T \union (S \ T) = S /\ T \intersect (S \ T) = {}
  BY FS_Subset
<1>2. /\ Addable(w, T) /\ Sum(w, T) \in Nat
      /\ Addable(w, S \ T) /\ Sum(w, S \ T) \in Nat
      /\ Addable(w, S) /\ Sum(w, S) \in Nat
  BY <1>1, SumOfNaturals
<1>3. Sum(w, T \union (S \ T)) = Sum(w, T) + Sum(w, S \ T)
  BY <1>1, <1>2, SumJoin
<1> QED
  BY <1>1, <1>2, <1>3

LEMMA SumOfOne ==
    ASSUME NEW w, NEW x, w[x] \in Int
    PROVE  Sum(w, {x}) = w[x]
<1>1. Addable(w, {x}) /\ x \in {x} /\ {x} \ {x} = {}
  BY FS_Singleton DEF Addable, Integral
<1>2. Sum(w, {x}) = w[x] + Sum(w, {})
  BY <1>1, SumMore
<1> QED
  BY <1>2, SumEmpty

\* A sum by other names, and in groups.
LEMMA SumRenamed ==
    ASSUME NEW w, NEW v, NEW b, NEW S, Addable(v, S),
           \A x \in S : v[x] = w[b[x]], \A x, y \in S : b[x] = b[y] => x = y
    PROVE  /\ Addable(w, {b[x] : x \in S})
           /\ Sum(w, {b[x] : x \in S}) = Sum(v, S)
<1> DEFINE T(s) == {b[x] : x \in s}
           P == {s \in SUBSET S : Addable(w, T(s)) /\ Sum(w, T(s)) = Sum(v, s)}
<1>1. {} \in P
  <2>1. T({}) = {}
    OBVIOUS
  <2>2. Addable(w, {})
    BY FS_EmptySet DEF Addable, Integral
  <2> QED
    BY <2>1, <2>2, SumEmpty
<1>2. \A s \in SUBSET S : \A x \in s : s \ {x} \in P => s \in P
  <2> SUFFICES ASSUME NEW s \in SUBSET S, NEW x \in s, s \ {x} \in P
               PROVE  Addable(w, T(s)) /\ Sum(w, T(s)) = Sum(v, s)
    OBVIOUS
  <2> DEFINE r == s \ {x}
  <2>1. T(s) = T(r) \union {b[x]} /\ b[x] \notin T(r)
    OBVIOUS
  <2>2. Addable(w, T(r)) /\ Sum(w, T(r)) = Sum(v, r)
    OBVIOUS
  <2>3. Addable(v, s)
    BY SumPart
  <2>4. Sum(v, s) = v[x] + Sum(v, r) /\ v[x] \in Int /\ Sum(v, r) \in Int
    BY <2>3, SumMore
  <2>5. v[x] = w[b[x]]
    OBVIOUS
  <2> HIDE DEF r, T
  <2>6. Addable(w, {b[x]}) /\ Sum(w, {b[x]}) = w[b[x]]
    BY <2>4, <2>5, SumOfOne, FS_Singleton DEF Addable, Integral
  <2>7. T(r) \intersect {b[x]} = {}
    BY <2>1
  <2>8. /\ Sum(w, T(r) \union {b[x]}) = Sum(w, T(r)) + Sum(w, {b[x]})
        /\ Addable(w, T(r) \union {b[x]})
    BY <2>2, <2>6, <2>7, SumJoin
  <2> QED
    BY <2>1, <2>2, <2>4, <2>5, <2>6, <2>8
<1> HIDE DEF P
<1>3. S \in P
  BY <1>1, <1>2, SetsGrow DEF Addable
<1> QED
  BY <1>3 DEF P

LEMMA SumInGroups ==
    ASSUME NEW w, NEW S, Addable(w, S), NEW A, IsFiniteSet(A), NEW k, \A x \in S : k[x] \in A,
           NEW e, \A a \in A : e[a] = Sum(w, {x \in S : k[x] = a})
    PROVE  Addable(e, A) /\ Sum(e, A) = Sum(w, S)
<1> DEFINE Of(B) == {x \in S : k[x] \in B}
           Only(a) == {x \in S : k[x] = a}
           P == {B \in SUBSET A : Sum(e, B) = Sum(w, Of(B))}
<1>0. \A B : Addable(w, Of(B)) /\ Addable(w, Only(B))
  <2>1. \A B : Of(B) \subseteq S /\ Only(B) \subseteq S
    OBVIOUS
  <2> HIDE DEF Of, Only
  <2> QED
    BY <2>1, SumPart
<1>1. Addable(e, A)
  <2>1. \A a \in A : e[a] = Sum(w, Only(a))
    OBVIOUS
  <2>2. ASSUME NEW a \in A PROVE e[a] \in Int
    <3>1. Addable(w, Only(a)) /\ e[a] = Sum(w, Only(a))
      BY <1>0, <2>1
    <3> HIDE DEF Only
    <3> QED
      BY <3>1, SumType
  <2> QED
    BY <2>2 DEF Addable, Integral
<1>2. {} \in P
  <2>1. Of({}) = {}
    OBVIOUS
  <2> QED
    BY <2>1, SumEmpty
<1>3. \A B \in SUBSET A : \A a \in B : B \ {a} \in P => B \in P
  <2> SUFFICES ASSUME NEW B \in SUBSET A, NEW a \in B, B \ {a} \in P
               PROVE  Sum(e, B) = Sum(w, Of(B))
    OBVIOUS
  <2>1. Of(B \ {a}) \intersect Only(a) = {} /\ Of(B) = Of(B \ {a}) \union Only(a)
    OBVIOUS
  <2>2. e[a] = Sum(w, Only(a)) /\ Sum(e, B \ {a}) = Sum(w, Of(B \ {a}))
    OBVIOUS
  <2> HIDE DEF Of, Only, P
  <2>3. Sum(w, Of(B \ {a}) \union Only(a)) = Sum(w, Of(B \ {a})) + Sum(w, Only(a))
    BY <1>0, <2>1, SumJoin
  <2>4. Addable(e, B)
    BY <1>1, SumPart
  <2>5. Sum(e, B) = e[a] + Sum(e, B \ {a}) /\ e[a] \in Int /\ Sum(e, B \ {a}) \in Int
    BY <2>4, SumMore
  <2> QED
    BY <2>1, <2>2, <2>3, <2>5
<1>4. Of(A) = S
  OBVIOUS
<1> HIDE DEF P, Of
<1>5. A \in P
  BY <1>2, <1>3, SetsGrow
<1> QED
  BY <1>1, <1>4, <1>5 DEF P

LEMMA SumCounts ==
    ASSUME NEW S, IsFiniteSet(S), NEW T, T \subseteq S, NEW w,
           \A x \in S : w[x] = IF x \in T THEN 1 ELSE 0
    PROVE  Addable(w, S) /\ Sum(w, S) = Cardinality(T)
<1>0. Addable(w, S)
  BY DEF Addable, Integral
<1> DEFINE P == {s \in SUBSET S : Sum(w, s) = Cardinality(s \intersect T)}
<1>1. {} \in P
  <2>1. {} \intersect T = {}
    OBVIOUS
  <2> QED
    BY <2>1, SumEmpty, FS_EmptySet
<1>2. \A s \in SUBSET S : \A x \in s : s \ {x} \in P => s \in P
  <2> SUFFICES ASSUME NEW s \in SUBSET S, NEW x \in s, s \ {x} \in P
               PROVE  Sum(w, s) = Cardinality(s \intersect T)
    OBVIOUS
  <2> DEFINE t == s \intersect T
             r == (s \ {x}) \intersect T
  <2>1. Sum(w, s \ {x}) = Cardinality(r)
    OBVIOUS
  <2>2. Sum(w, s) = w[x] + Sum(w, s \ {x})
    BY <1>0, SumPart, SumMore
  <2>3. IsFiniteSet(t) /\ IsFiniteSet(r) /\ Cardinality(t) \in Nat /\ Cardinality(r) \in Nat
    <3>1. t \subseteq S /\ r \subseteq S
      OBVIOUS
    <3> QED
      BY <3>1, FS_Subset, FS_CardinalityType
  <2>4. CASE x \in T
    <3>1. r = t \ {x} /\ x \in t /\ w[x] = 1
      BY <2>4
    <3> HIDE DEF r, t
    <3>2. Cardinality(r) = Cardinality(t) - 1
      BY <2>3, <3>1, OneLess
    <3> QED
      BY <2>1, <2>2, <2>3, <3>1, <3>2 DEF t
  <2>5. CASE x \notin T
    <3>1. r = t /\ w[x] = 0
      BY <2>5
    <3> HIDE DEF r, t
    <3> QED
      BY <2>1, <2>2, <2>3, <3>1 DEF t
  <2> QED
    BY <2>4, <2>5
<1> HIDE DEF P
<1>3. S \in P
  BY <1>1, <1>2, SetsGrow
<1>4. S \intersect T = T
  OBVIOUS
<1> QED
  BY <1>0, <1>3, <1>4 DEF P

(***************************************************************************)
(* The sum of a sequence, which is a fold from its end.                    *)
(***************************************************************************)

CONSTANTS MaxTotal, MaxCount, Parties
VARIABLES total, counts

Split == INSTANCE SandboxAllocation

Greatest(s) == CHOOSE x \in s : \A y \in s : x >= y
Folded(f, w, D) ==
    f = [s \in SUBSET D |-> IF s = {} THEN 0 ELSE f[s \ {Greatest(s)}] + w[Greatest(s)]]

LEMMA GreatestOf ==
    ASSUME NEW n \in Nat, NEW s \in SUBSET (1..n), s # {}
    PROVE  Greatest(s) \in s /\ \A y \in s : Greatest(s) >= y
<1> DEFINE S == {n - k : k \in s}
<1>1. S \subseteq Nat /\ S # {}
  <2>1. \A k \in s : n - k \in Nat
    OBVIOUS
  <2> QED
    BY <2>1
<1>2. PICK m \in S : \A k \in S : m <= k
  BY <1>1, LeastOf
<1>3. PICK x \in s : m = n - x
  BY <1>2
<1>4. ASSUME NEW y \in s PROVE x >= y
  <2>1. m <= n - y
    BY <1>2
  <2>2. x \in 1..n /\ y \in 1..n
    OBVIOUS
  <2> QED
    BY <1>3, <2>1, <2>2
<1> QED
  BY <1>4 DEF Greatest

LEMMA FoldSums ==
    ASSUME NEW n \in Nat, NEW w, Addable(w, 1..n)
    PROVE  LET f == CHOOSE f : Folded(f, w, 1..n) IN f[1..n] = Sum(w, 1..n)
<1> DEFINE D == 1..n
           g == [s \in SUBSET D |-> Sum(w, s)]
           f == CHOOSE f : Folded(f, w, D)
<1>0. IsFiniteSet(D)
  BY DEF Addable
<1>1. ASSUME NEW s \in SUBSET D, s # {}
      PROVE  Sum(w, s) = Sum(w, s \ {Greatest(s)}) + w[Greatest(s)] /\ Greatest(s) \in s
  <2>1. Greatest(s) \in s /\ Addable(w, s)
    BY <1>1, GreatestOf, SumPart
  <2> QED
    BY <2>1, SumMore
<1>2. Folded(g, w, D)
  <2>1. ASSUME NEW s \in SUBSET D
        PROVE  g[s] = IF s = {} THEN 0 ELSE g[s \ {Greatest(s)}] + w[Greatest(s)]
    <3>1. g[s] = Sum(w, s) /\ g[s \ {Greatest(s)}] = Sum(w, s \ {Greatest(s)})
      OBVIOUS
    <3> HIDE DEF g
    <3> QED
      BY <1>1, <3>1, SumEmpty
  <2>2. g = [s \in SUBSET D |-> g[s]]
    OBVIOUS
  <2> HIDE DEF g
  <2> QED
    BY <2>1, <2>2 DEF Folded
<1>3. Folded(f, w, D)
  BY <1>2
<1> HIDE DEF f, g
<1> DEFINE P == {s \in SUBSET D : f[s] = Sum(w, s)}
<1>4. {} \in P
  BY <1>3, SumEmpty DEF Folded
<1>5. \A s \in SUBSET D : s # {} /\ (\A x \in s : s \ {x} \in P) => s \in P
  <2> SUFFICES ASSUME NEW s \in SUBSET D, s # {}, \A x \in s : s \ {x} \in P
               PROVE  f[s] = Sum(w, s)
    OBVIOUS
  <2>1. f[s] = f[s \ {Greatest(s)}] + w[Greatest(s)]
    BY <1>3 DEF Folded
  <2>2. f[s \ {Greatest(s)}] = Sum(w, s \ {Greatest(s)})
    BY <1>1
  <2> QED
    BY <1>1, <2>1, <2>2
<1> HIDE DEF P
<1>6. SUBSET D \subseteq P
  BY <1>0, <1>4, <1>5, SetsGrowWhole
<1>7. D \in P
  BY <1>6
<1> QED
  BY <1>7 DEF P, f

LEMMA SplitSums ==
    ASSUME NEW s, s \in Seq(Int)
    PROVE  Addable(s, 1..Len(s)) /\ Split!SumOf(s) = Sum(s, 1..Len(s))
<1> DEFINE n == Len(s)
           f == CHOOSE f : Folded(f, s, 1..n)
           F == CHOOSE g : g = [t \in SUBSET DOMAIN s |->
                   IF t = {} THEN 0 ELSE g[t \ {Greatest(t)}] + s[Greatest(t)]]
<1>1. n \in Nat /\ DOMAIN s = 1..n /\ \A k \in 1..n : s[k] \in Int
  OBVIOUS
<1> HIDE DEF n
<1>2. Addable(s, 1..n)
  BY <1>1, FS_Interval DEF Addable, Integral
<1>3. Split!SumOf(s) = F[DOMAIN s]
  BY DEF Split!SumOf, Split!FoldLeft, Split!MapThenFoldSet, Split!Max, Greatest
<1>4. F[1..n] = f[1..n]
  BY <1>1 DEF Folded
<1>5. f[1..n] = Sum(s, 1..n)
  BY <1>1, <1>2, FoldSums
<1> QED
  BY <1>1, <1>2, <1>3, <1>4, <1>5 DEF n

(***************************************************************************)
(* Largest remainders.                                                     *)
(***************************************************************************)

\* The parties whose remainder comes before that of i.
Ahead(rest, n, i) == {j \in 1..n : rest[j] > rest[i] \/ (rest[j] = rest[i] /\ j < i)}
Rank(rest, n) == [i \in 1..n |-> Cardinality(Ahead(rest, n, i))]
Ints(w, n) == \A i \in 1..n : w[i] \in Int

LEMMA AheadIsFinite ==
    ASSUME NEW n \in Nat, NEW rest, NEW i
    PROVE  IsFiniteSet(Ahead(rest, n, i)) /\ Cardinality(Ahead(rest, n, i)) \in Nat
<1>1. IsFiniteSet(1..n)
  BY FS_Interval
<1>2. Ahead(rest, n, i) \subseteq 1..n
  BY DEF Ahead
<1> QED
  BY <1>1, <1>2, FS_Subset, FS_CardinalityType

LEMMA RankSmaller ==
    ASSUME NEW n \in Nat, NEW rest, Ints(rest, n), NEW i \in 1..n, NEW j \in Ahead(rest, n, i)
    PROVE  Rank(rest, n)[j] < Rank(rest, n)[i]
<1> DEFINE a == Ahead(rest, n, i)
           b == Ahead(rest, n, j)
<1>1. j \in 1..n /\ rest[i] \in Int /\ rest[j] \in Int
  BY DEF Ahead, Ints
<1>2. b \subseteq a \ {j}
  <2> SUFFICES ASSUME NEW k \in b PROVE k \in a /\ k # j
    OBVIOUS
  <2>1. /\ k \in 1..n /\ (rest[k] > rest[j] \/ (rest[k] = rest[j] /\ k < j))
        /\ (rest[j] > rest[i] \/ (rest[j] = rest[i] /\ j < i)) /\ rest[k] \in Int
    BY DEF Ahead, Ints
  <2>2. (rest[k] > rest[i] \/ (rest[k] = rest[i] /\ k < i)) /\ k # j
    BY <1>1, <2>1
  <2> QED
    BY <2>1, <2>2 DEF Ahead
<1>3. /\ IsFiniteSet(a) /\ IsFiniteSet(b) /\ Cardinality(a) \in Nat /\ Cardinality(b) \in Nat
  BY AheadIsFinite
<1> HIDE DEF a, b
<1>4. Cardinality(a \ {j}) = Cardinality(a) - 1 /\ IsFiniteSet(a \ {j})
  BY <1>3, OneLess DEF a
<1>5. Cardinality(b) <= Cardinality(a \ {j})
  BY <1>2, <1>4, FS_Subset
<1>6. Rank(rest, n)[i] = Cardinality(a) /\ Rank(rest, n)[j] = Cardinality(b)
  BY <1>1 DEF Rank, a, b
<1> QED
  BY <1>3, <1>4, <1>5, <1>6

LEMMA Ranks ==
    ASSUME NEW n \in Nat, NEW rest, Ints(rest, n)
    PROVE  /\ Rank(rest, n) \in [1..n -> 0..(n - 1)]
           /\ \A i, j \in 1..n : Rank(rest, n)[i] = Rank(rest, n)[j] => i = j
<1> DEFINE r == Rank(rest, n)
<1>1. ASSUME NEW i \in 1..n PROVE r[i] \in 0..(n - 1)
  <2> DEFINE a == Ahead(rest, n, i)
  <2>1. IsFiniteSet(1..n) /\ Cardinality(1..n) = n
    BY FS_Interval
  <2>2. i \notin a /\ a \subseteq 1..n
    BY DEF Ahead, Ints
  <2>3. Cardinality(a) \in Nat
    BY AheadIsFinite
  <2> HIDE DEF a
  <2>4. Cardinality((1..n) \ {i}) = Cardinality(1..n) - 1 /\ IsFiniteSet((1..n) \ {i})
    BY <2>1, OneLess
  <2>5. a \subseteq (1..n) \ {i}
    BY <2>2
  <2>6. Cardinality(a) <= Cardinality((1..n) \ {i})
    BY <2>4, <2>5, FS_Subset
  <2>7. r[i] = Cardinality(a)
    BY DEF Rank, a
  <2> HIDE DEF r
  <2> QED
    BY <2>1, <2>3, <2>4, <2>6, <2>7
<1>2. ASSUME NEW i \in 1..n, NEW j \in 1..n, i # j PROVE r[i] # r[j]
  <2>1. r[i] \in Int /\ r[j] \in Int
    BY <1>1
  <2>2. j \in Ahead(rest, n, i) \/ i \in Ahead(rest, n, j)
    BY <1>2 DEF Ahead, Ints
  <2>3. r[j] < r[i] \/ r[i] < r[j]
    BY <2>2, RankSmaller
  <2> HIDE DEF r
  <2> QED
    BY <2>1, <2>3
<1>3. r = [i \in 1..n |-> r[i]]
  BY DEF Rank
<1> HIDE DEF r
<1> QED
  BY <1>1, <1>2, <1>3 DEF r

\* As many ranks are below e as e says.
LEMMA RanksBelow ==
    ASSUME NEW n \in Nat, NEW rest, Ints(rest, n), NEW e \in 0..n
    PROVE  Cardinality({i \in 1..n : Rank(rest, n)[i] < e}) = e
<1> DEFINE r == Rank(rest, n)
           T == {i \in 1..n : r[i] < e}
           b == [i \in T |-> r[i]]
<1>1. r \in [1..n -> 0..(n - 1)] /\ \A i, j \in 1..n : r[i] = r[j] => i = j
  BY Ranks
<1> HIDE DEF r
<1>2. IsFiniteSet(1..n) /\ Cardinality(1..n) = n
      /\ IsFiniteSet(0..(n - 1)) /\ Cardinality(0..(n - 1)) = n
  <2>1. 1 \in Int /\ n \in Int /\ 0 \in Int /\ n - 1 \in Int
    OBVIOUS
  <2>2. (IF 1 > n THEN 0 ELSE n - 1 + 1) = n /\ (IF 0 > n - 1 THEN 0 ELSE n - 1 - 0 + 1) = n
    OBVIOUS
  <2> QED
    BY <2>1, <2>2, FS_Interval
<1>3. r \in Injection(1..n, 0..(n - 1))
  BY <1>1, Fun_IsInj
<1>4. r \in Surjection(1..n, 0..(n - 1))
  BY <1>2, <1>3, FS_Injection
<1>5. \A k \in 0..(n - 1) : \E i \in 1..n : r[i] = k
  BY <1>4 DEF Surjection
<1>6. b \in [T -> 0..(e - 1)] /\ \A k \in 0..(e - 1) : \E i \in T : b[i] = k
  <2>1. \A i \in T : r[i] \in 0..(e - 1)
    BY <1>1
  <2>2. \A k \in 0..(e - 1) : k \in 0..(n - 1) /\ k < e
    OBVIOUS
  <2>3. \A k \in 0..(e - 1) : \E i \in T : r[i] = k
    BY <1>5, <2>2
  <2> HIDE DEF T
  <2> QED
    BY <2>1, <2>3
<1>7. \A i, j \in T : b[i] = b[j] => i = j
  BY <1>1
<1>8. IsFiniteSet(T)
  BY <1>2, FS_Subset
<1> HIDE DEF b, T
<1>9. b \in Bijection(T, 0..(e - 1))
  BY <1>6, <1>7, Fun_IsBij
<1>10. ExistsBijection(T, 0..(e - 1))
  BY <1>9 DEF ExistsBijection
<1>11. Cardinality(T) = Cardinality(0..(e - 1))
  BY <1>8, <1>10, FS_Bijection
<1>12. Cardinality(0..(e - 1)) = e
  <2>1. e - 1 \in Int /\ 0 \in Int /\ (IF 0 > e - 1 THEN 0 ELSE e - 1 - 0 + 1) = e
    OBVIOUS
  <2> QED
    BY <2>1, FS_Interval
<1> QED
  BY <1>11, <1>12 DEF T, r

LEMMA Divided ==
    ASSUME NEW a \in Nat, NEW d \in Nat \ {0}
    PROVE  /\ a \div d \in Nat /\ a % d \in Nat /\ a % d < d
           /\ a = d * (a \div d) + (a % d)
<1>1. a \in Int /\ d \in Int /\ d > 0 /\ a >= 0
  OBVIOUS
<1>2. a \div d \in Int /\ a \div d >= 0
  BY <1>1
<1>3. a % d \in Int /\ a % d >= 0 /\ a % d < d
  BY <1>1
<1>4. a = d * (a \div d) + (a % d)
  BY <1>1
<1> QED
  BY <1>2, <1>3, <1>4

LEMMA TimesKeepsOrder ==
    ASSUME NEW n \in Int, n > 0, NEW p \in Int, NEW q \in Int
    PROVE  n * p \in Int /\ n * q \in Int /\ (p <= q <=> n * p <= n * q)
<1>1. p <= q => n * p <= n * q
  OBVIOUS
<1>2. n * p <= n * q => p <= q
  OBVIOUS
<1> QED
  BY <1>1, <1>2

\* What lies between two multiples has the smaller one as its quotient.
LEMMA QuotientIs ==
    ASSUME NEW a \in Nat, NEW d \in Nat \ {0}, NEW q \in Nat, d * q <= a, a < d * (q + 1)
    PROVE  a \div d = q
<1> DEFINE p == a \div d
<1>1. p \in Nat /\ a % d \in Nat /\ a % d < d /\ a = d * p + (a % d)
  BY Divided
<1> DEFINE r == a % d
           m == d * p
<1>2. d * p <= a /\ a < d * p + d /\ d * p \in Int
  <2>1. m \in Int
    BY <1>1
  <2>2. r \in Nat /\ r < d /\ a = m + r
    BY <1>1
  <2> HIDE DEF m, r
  <2>3. m <= a /\ a < m + d
    BY <2>1, <2>2
  <2> QED
    BY <2>1, <2>3 DEF m
<1> HIDE DEF p
<1>3. d * (p + 1) = d * p + d
  BY <1>1
<1>4. d \in Int /\ d > 0 /\ q \in Int /\ q + 1 \in Int /\ p \in Int /\ p + 1 \in Int
      /\ a \in Int
  BY <1>1
<1>5. /\ d * (q + 1) \in Int /\ (q + 1 <= p => d * (q + 1) <= d * p)
      /\ d * q \in Int /\ (p + 1 <= q => d * (p + 1) <= d * q)
  BY ONLY <1>4, TimesKeepsOrder
<1>6. ~(q + 1 <= p) /\ ~(p + 1 <= q)
  <2> DEFINE x == d * (q + 1)
             y == d * p
             z == d * q
             u == d * (p + 1)
  <2>1. x \in Int /\ y \in Int /\ z \in Int /\ u = y + d /\ y <= a /\ a < y + d /\ z <= a /\ a < x
    BY <1>2, <1>3, <1>5
  <2>2. (q + 1 <= p => x <= y) /\ (p + 1 <= q => u <= z)
    BY <1>5
  <2> HIDE DEF x, y, z, u
  <2> QED
    BY <1>4, <2>1, <2>2
<1> QED
  BY <1>4, <1>6 DEF p

\* One for those who come before e, none for the others.
LEMMA Bonus ==
    ASSUME NEW n \in Nat, NEW e \in 0..(n - 1), NEW k \in 0..(n - 1)
    PROVE  (e + n - 1 - k) \div n = IF k < e THEN 1 ELSE 0
<1> DEFINE a == e + n - 1 - k
<1>1. a \in Nat /\ n \in Nat \ {0}
  OBVIOUS
<1>2. n * 0 = 0 /\ n * (0 + 1) = n /\ n * 1 = n /\ n * (1 + 1) = n + n
  OBVIOUS
<1>3. CASE k < e
  <2>1. n <= a /\ a < n + n
    BY <1>3
  <2> HIDE DEF a
  <2>2. a \div n = 1
    BY <1>1, <1>2, <2>1, QuotientIs
  <2> QED
    BY <1>3, <2>2 DEF a
<1>4. CASE ~(k < e)
  <2>1. a < n /\ 0 <= a
    BY <1>1, <1>4
  <2> HIDE DEF a
  <2>2. a \div n = 0
    BY <1>1, <1>2, <2>1, QuotientIs
  <2> QED
    BY <1>4, <2>2 DEF a
<1> QED
  BY <1>3, <1>4

Quotients(T, w, n, d) == [i \in 1..n |-> (T * w[i]) \div d]
Remainders(T, w, n, d) == [i \in 1..n |-> (T * w[i]) % d]
Left(T, w, n, d) == T - Sum(Quotients(T, w, n, d), 1..n)
Before(T, w, n, d) == Rank(Remainders(T, w, n, d), n)
Allotted(T, w, n, d) ==
    [i \in 1..n |-> Quotients(T, w, n, d)[i]
                       + (Left(T, w, n, d) + n - 1 - Before(T, w, n, d)[i]) \div n]

\* T is shared out in proportion to the weights of n parties, which sum up to d.
Sharing(T, w, n, d) ==
    /\ T \in Nat /\ n \in Nat \ {0} /\ d \in Nat \ {0}
    /\ (\A i \in 1..n : w[i] \in Nat) /\ Sum(w, 1..n) = d

LEMMA ShareDivides ==
    ASSUME NEW T, NEW w, NEW n, NEW d, Sharing(T, w, n, d), NEW i \in 1..n
    PROVE  /\ T * w[i] \in Nat /\ w[i] \in Nat
           /\ Quotients(T, w, n, d)[i] \in Nat
           /\ Remainders(T, w, n, d)[i] \in 0..(d - 1)
           /\ T * w[i] = d * Quotients(T, w, n, d)[i] + Remainders(T, w, n, d)[i]
<1> DEFINE a == T * w[i]
<1>1. a \in Nat /\ w[i] \in Nat /\ d \in Nat \ {0}
  BY DEF Sharing
<1>2. Quotients(T, w, n, d)[i] = a \div d /\ Remainders(T, w, n, d)[i] = a % d
  BY DEF Quotients, Remainders
<1> HIDE DEF a
<1>3. /\ a \div d \in Nat /\ a % d \in Nat /\ a % d < d
      /\ a = d * (a \div d) + (a % d)
  BY <1>1, Divided
<1> DEFINE q == a \div d
           r == a % d
<1>4. r \in 0..(d - 1)
  <2>1. r \in Nat /\ r < d /\ d \in Nat
    BY <1>1, <1>3
  <2> HIDE DEF r
  <2> QED
    BY <2>1
<1> HIDE DEF q, r
<1>5. Quotients(T, w, n, d)[i] = q /\ Remainders(T, w, n, d)[i] = r
  BY <1>2 DEF q, r
<1>6. q \in Nat /\ a = d * q + r
  BY <1>3 DEF q, r
<1> QED
  BY <1>1, <1>4, <1>5, <1>6 DEF a

LEMMA RemaindersSum ==
    ASSUME NEW T, NEW w, NEW n, NEW d, Sharing(T, w, n, d)
    PROVE  /\ Left(T, w, n, d) \in Int
           /\ Sum(Remainders(T, w, n, d), 1..n) = d * Left(T, w, n, d)
           /\ Addable(Quotients(T, w, n, d), 1..n) /\ Addable(Remainders(T, w, n, d), 1..n)
<1> DEFINE D == 1..n
           Q == Quotients(T, w, n, d)
           R == Remainders(T, w, n, d)
           p == [i \in D |-> T * w[i]]
           m == [i \in D |-> d * Q[i]]
<1>0. T \in Int /\ d \in Int /\ IsFiniteSet(D) /\ Sum(w, D) = d
  BY FS_Interval DEF Sharing
<1>1. ASSUME NEW i \in D
      PROVE  /\ w[i] \in Int /\ Q[i] \in Int /\ R[i] \in Int /\ p[i] = T * w[i]
             /\ m[i] = d * Q[i] /\ p[i] = m[i] + R[i]
  <2>1. Q[i] \in Nat /\ R[i] \in 0..(d - 1) /\ w[i] \in Nat /\ T * w[i] = d * Q[i] + R[i]
    BY ShareDivides
  <2> HIDE DEF Q, R
  <2> QED
    BY <2>1
<1> HIDE DEF D, Q, R, p, m
<1>2. Addable(w, D) /\ Addable(Q, D) /\ Addable(R, D)
  BY <1>0, <1>1 DEF Addable, Integral
<1>3. Addable(p, D) /\ Sum(p, D) = T * Sum(w, D)
  <2>1. T \in Int /\ Addable(w, D) /\ \A i \in D : p[i] = T * w[i]
    BY <1>0, <1>1, <1>2
  <2> QED
    BY ONLY <2>1, SumTimes
<1>4. Addable(m, D) /\ Sum(m, D) = d * Sum(Q, D)
  <2>1. d \in Int /\ Addable(Q, D) /\ \A i \in D : m[i] = d * Q[i]
    BY <1>0, <1>1, <1>2
  <2> QED
    BY ONLY <2>1, SumTimes
<1>5. Sum(p, D) = Sum(m, D) + Sum(R, D)
  <2>1. /\ Addable(m, D) /\ Addable(R, D)
        /\ \A i \in D : p[i] = m[i] + R[i]
    BY <1>1, <1>2, <1>4
  <2> QED
    BY ONLY <2>1, SumPlus
<1>6. Left(T, w, n, d) = T - Sum(Q, D)
  BY DEF Left, Q, D
<1> DEFINE q == Sum(Q, D)
           r == Sum(R, D)
<1>7. q \in Int /\ r \in Int
  BY <1>2, SumType
<1>8. T * d = d * q + r
  BY <1>0, <1>3, <1>4, <1>5
<1> HIDE DEF q, r
<1>9. r = d * (T - q) /\ T - q \in Int
  <2>1. d * (T - q) = d * T - d * q /\ d * T = T * d /\ T - q \in Int
    BY <1>0, <1>7
  <2>2. d * q \in Int /\ T * d \in Int
    BY <1>0, <1>7
  <2> QED
    BY <1>7, <1>8, <2>1, <2>2
<1>10. Left(T, w, n, d) = T - q
  BY <1>6 DEF q
<1>11. Left(T, w, n, d) \in Int /\ Sum(R, D) = d * Left(T, w, n, d)
  BY <1>9, <1>10 DEF r
<1> QED
  BY <1>2, <1>11 DEF Q, R, D

LEMMA LessByOne ==
    ASSUME NEW l \in Int, NEW d \in Nat \ {0}, NEW c \in Nat, 0 <= d * l, d * l <= (d - 1) * c
    PROVE  /\ l \in Nat /\ (l < c \/ (l = 0 /\ c = 0))
<1>1. d \in Int /\ d > 0 /\ c \in Int /\ 0 \in Int
  OBVIOUS
<1>2. d * 0 = 0 /\ (d - 1) * c = d * c - c
  BY <1>1
<1>3. 0 <= l
  BY <1>1, <1>2, TimesKeepsOrder
<1>4. d * l <= d * c - c /\ d * c \in Int /\ d * l \in Int
  BY <1>1, <1>2
<1>5. c <= l => d * c <= d * l
  BY <1>1, TimesKeepsOrder
<1> DEFINE x == d * l
           y == d * c
<1>6. c <= l => c = 0 /\ x = y
  <2>1. x \in Int /\ y \in Int /\ x <= y - c /\ (c <= l => y <= x)
    BY <1>4, <1>5
  <2> HIDE DEF x, y
  <2> QED
    BY <2>1
<1>7. c <= l => l = 0
  <2> SUFFICES ASSUME c <= l PROVE l <= 0
    BY <1>3
  <2>1. d * l <= d * 0
    BY <1>1, <1>2, <1>6
  <2> QED
    BY <1>1, <2>1, TimesKeepsOrder
<1> QED
  BY <1>3, <1>6, <1>7

\* What the floors leave over is less than there are parties with a remainder.
LEMMA LeftFits ==
    ASSUME NEW T, NEW w, NEW n, NEW d, Sharing(T, w, n, d)
    PROVE  /\ Left(T, w, n, d) \in 0..(n - 1)
           /\ \A i \in 1..n : Remainders(T, w, n, d)[i] = 0 => Left(T, w, n, d) <= Before(T, w, n, d)[i]
<1> DEFINE D == 1..n
           R == Remainders(T, w, n, d)
           l == Left(T, w, n, d)
           Some == {i \in D : R[i] > 0}
           c == Cardinality(Some)
           one == [i \in D |-> IF i \in Some THEN 1 ELSE 0]
           most == [i \in D |-> (d - 1) * one[i]]
<1>0. n \in Nat \ {0} /\ d \in Nat \ {0} /\ IsFiniteSet(D) /\ Cardinality(D) = n
  <2>1. n \in Nat \ {0} /\ d \in Nat \ {0} /\ 1 \in Int /\ n \in Int
    BY DEF Sharing
  <2> QED
    BY <2>1, FS_Interval
<1>1. \A i \in D : R[i] \in 0..(d - 1)
  BY ShareDivides
<1>2. l \in Int /\ Sum(R, D) = d * l /\ Addable(R, D)
  BY RemaindersSum
<1> HIDE DEF D, R, l
<1>3. Some \subseteq D /\ IsFiniteSet(Some) /\ c \in Nat /\ c <= n
  <2>1. Some \subseteq D
    OBVIOUS
  <2> QED
    BY <1>0, <2>1, FS_Subset, FS_CardinalityType
<1>4. Addable(one, D) /\ Sum(one, D) = c
  <2>1. \A i \in D : one[i] = IF i \in Some THEN 1 ELSE 0
    OBVIOUS
  <2> HIDE DEF one, Some
  <2> QED
    BY <1>0, <1>3, <2>1, SumCounts
<1>5. \A i \in D : most[i] = (d - 1) * one[i] /\ R[i] <= most[i]
  <2> SUFFICES ASSUME NEW i \in D PROVE R[i] <= (d - 1) * one[i]
    OBVIOUS
  <2>1. (d - 1) * 1 = d - 1 /\ (d - 1) * 0 = 0
    BY <1>0
  <2>2. CASE i \in Some
    BY <1>0, <1>1, <2>1, <2>2
  <2>3. CASE i \notin Some
    BY <1>0, <1>1, <2>1, <2>3
  <2> QED
    BY <2>2, <2>3
<1> HIDE DEF most, one
<1>6. Addable(most, D) /\ Sum(most, D) = (d - 1) * c
  <2>1. d - 1 \in Int
    BY <1>0
  <2> QED
    BY <1>4, <1>5, <2>1, SumTimes
<1>7. d * l <= (d - 1) * c
  BY <1>2, <1>5, <1>6, SumAtMost
<1>8. 0 <= d * l
  <2>1. \A i \in D : R[i] \in Nat
    BY <1>1
  <2> QED
    BY <1>0, <1>2, <2>1, SumOfNaturals
<1>9. l \in Nat /\ (l < c \/ (l = 0 /\ c = 0))
  <2> HIDE DEF c
  <2> QED
    BY <1>0, <1>2, <1>3, <1>7, <1>8, LessByOne
<1>10. l \in 0..(n - 1)
  BY <1>0, <1>3, <1>9
<1>11. ASSUME NEW i \in D, R[i] = 0 PROVE l <= Before(T, w, n, d)[i]
  <2> DEFINE a == Ahead(R, n, i)
  <2>1. Some \subseteq a
    BY <1>11 DEF Ahead, D
  <2>2. IsFiniteSet(a) /\ Cardinality(a) \in Nat
    BY <1>0, AheadIsFinite
  <2>3. Before(T, w, n, d)[i] = Cardinality(a)
    BY DEF Before, Rank, R, D
  <2> HIDE DEF a, Some
  <2>4. c <= Cardinality(a)
    BY <2>1, <2>2, FS_Subset
  <2> QED
    BY <1>3, <1>9, <2>2, <2>3, <2>4
<1> QED
  BY <1>10, <1>11 DEF l, R, D

\* A party gets its quotient, and one more if it comes before so many.
LEMMA AllottedIs ==
    ASSUME NEW T, NEW w, NEW n, NEW d, Sharing(T, w, n, d), NEW i \in 1..n
    PROVE  /\ Allotted(T, w, n, d)[i] = Quotients(T, w, n, d)[i]
                + (IF Before(T, w, n, d)[i] < Left(T, w, n, d) THEN 1 ELSE 0)
           /\ Before(T, w, n, d)[i] \in 0..(n - 1) /\ Left(T, w, n, d) \in 0..(n - 1)
           /\ (Remainders(T, w, n, d)[i] = 0 => ~(Before(T, w, n, d)[i] < Left(T, w, n, d)))
<1> DEFINE R == Remainders(T, w, n, d)
           l == Left(T, w, n, d)
           k == Before(T, w, n, d)[i]
<1>1. l \in 0..(n - 1) /\ (R[i] = 0 => l <= k) /\ n \in Nat
  BY LeftFits DEF Sharing
<1>2. Ints(R, n)
  <2>1. \A j \in 1..n : R[j] \in 0..(d - 1)
    BY ShareDivides
  <2> HIDE DEF R
  <2> QED
    BY <2>1 DEF Ints
<1>3. k \in 0..(n - 1)
  BY <1>1, <1>2, Ranks DEF Before
<1>4. Allotted(T, w, n, d)[i] = Quotients(T, w, n, d)[i] + (l + n - 1 - k) \div n
  BY DEF Allotted
<1> HIDE DEF l, k, R
<1>5. (l + n - 1 - k) \div n = IF k < l THEN 1 ELSE 0
  BY <1>1, <1>3, Bonus
<1>6. R[i] = 0 => ~(k < l)
  BY <1>1, <1>3
<1> QED
  BY <1>1, <1>3, <1>4, <1>5, <1>6 DEF l, k, R

\* Everything is given out.
LEMMA AllottedSum ==
    ASSUME NEW T, NEW w, NEW n, NEW d, Sharing(T, w, n, d)
    PROVE  /\ \A i \in 1..n : Allotted(T, w, n, d)[i] \in Nat
           /\ Sum(Allotted(T, w, n, d), 1..n) = T
<1> DEFINE D == 1..n
           A == Allotted(T, w, n, d)
           Q == Quotients(T, w, n, d)
           k == Before(T, w, n, d)
           l == Left(T, w, n, d)
           First == {i \in D : k[i] < l}
           one == [i \in D |-> IF i \in First THEN 1 ELSE 0]
<1>0. n \in Nat /\ IsFiniteSet(D) /\ l \in 0..(n - 1) /\ T \in Int
  <2>1. n \in Nat /\ T \in Int /\ 1 \in Int /\ n \in Int
    BY DEF Sharing
  <2>2. l \in 0..(n - 1)
    BY LeftFits
  <2> HIDE DEF l
  <2> QED
    BY <2>1, <2>2, FS_Interval
<1>1. \A i \in D : A[i] = Q[i] + one[i] /\ Q[i] \in Nat /\ one[i] \in {0, 1}
  <2>1. \A i \in D : /\ A[i] = Q[i] + (IF k[i] < l THEN 1 ELSE 0)
                     /\ Q[i] \in Nat
    BY AllottedIs, ShareDivides
  <2> HIDE DEF A, Q, k, l
  <2> QED
    BY <2>1
<1>2. Cardinality(First) = l
  <2>1. \A i \in D : Remainders(T, w, n, d)[i] \in 0..(d - 1)
    BY ShareDivides
  <2>2. Ints(Remainders(T, w, n, d), n)
    BY <2>1 DEF Ints
  <2>3. l \in 0..n
    BY <1>0
  <2> QED
    BY <1>0, <2>2, <2>3, RanksBelow DEF Before
<1>3. Addable(one, D) /\ Sum(one, D) = Cardinality(First)
  <2>1. First \subseteq D /\ \A i \in D : one[i] = IF i \in First THEN 1 ELSE 0
    OBVIOUS
  <2> HIDE DEF one, First
  <2> QED
    BY <1>0, <2>1, SumCounts
<1>4. Addable(Q, D)
  BY RemaindersSum
<1>5. l = T - Sum(Q, D)
  BY DEF Left
<1> HIDE DEF D, A, Q, k, l, First, one
<1>6. Sum(A, D) = Sum(Q, D) + Sum(one, D)
  BY <1>1, <1>3, <1>4, SumPlus
<1>7. Sum(Q, D) \in Int
  BY <1>4, SumType
<1>8. Sum(A, D) = T
  BY <1>0, <1>2, <1>3, <1>5, <1>6, <1>7
<1>9. \A i \in D : A[i] \in Nat
  BY <1>1
<1> QED
  BY <1>8, <1>9 DEF A, D

\* Nobody's share is off by one or more.
LEMMA AllottedNear ==
    ASSUME NEW T, NEW w, NEW n, NEW d, Sharing(T, w, n, d), NEW i \in 1..n
    PROVE  LET off == Allotted(T, w, n, d)[i] * d - T * w[i] IN off < d /\ -off < d
<1> DEFINE q == Quotients(T, w, n, d)[i]
           r == Remainders(T, w, n, d)[i]
           a == T * w[i]
           s == Allotted(T, w, n, d)[i]
           m == d * q
<1>1. q \in Nat /\ r \in 0..(d - 1) /\ a = m + r /\ d \in Nat \ {0}
  BY ZenonT(60), ShareDivides DEF Sharing
<1>2. s = q \/ (s = q + 1 /\ r # 0)
  <2>1. /\ s = q + (IF Before(T, w, n, d)[i] < Left(T, w, n, d) THEN 1 ELSE 0)
        /\ r = 0 => ~(Before(T, w, n, d)[i] < Left(T, w, n, d))
    BY AllottedIs
  <2> HIDE DEF q, r, s
  <2> QED
    BY <1>1, <2>1
<1> HIDE DEF q, r, a, s
<1>3. q * d = m /\ (q + 1) * d = m + d /\ m \in Int
  BY <1>1
<1> HIDE DEF m
<1>4. s * d - a < d /\ -(s * d - a) < d
  <2>1. CASE s = q
    <3>1. s * d = m
      BY <1>3, <2>1
    <3> QED
      BY <1>1, <1>3, <3>1
  <2>2. CASE s = q + 1 /\ r # 0
    <3>1. s * d = m + d
      BY <1>3, <2>2
    <3> QED
      BY <1>1, <1>3, <2>2, <3>1
  <2> QED
    BY <1>2, <2>1, <2>2
<1> QED
  BY <1>4 DEF s, a

\* A part of no more than there are gives nobody more than he has.
LEMMA AllottedWithin ==
    ASSUME NEW T, NEW w, NEW n, NEW d, Sharing(T, w, n, d), T <= d, NEW i \in 1..n
    PROVE  Allotted(T, w, n, d)[i] <= w[i]
<1> DEFINE s == Allotted(T, w, n, d)[i]
           u == w[i]
           x == s * d
           y == T * u
<1>1. x - y < d /\ s \in Nat /\ u \in Nat /\ T \in Nat /\ d \in Nat \ {0}
  BY AllottedNear, AllottedSum DEF Sharing
<1> HIDE DEF s, u
<1>2. y <= d * u /\ x \in Int /\ y \in Int /\ d * u \in Int
  <2>1. T \in Int /\ d \in Int /\ u \in Int /\ u >= 0
    BY <1>1
  <2>2. (d - T) * u >= 0 /\ (d - T) * u = d * u - T * u
    BY <2>1
  <2>3. T * u \in Int /\ d * u \in Int /\ s * d \in Int
    BY <1>1
  <2> QED
    BY <2>2, <2>3
<1>3. d * s = x /\ d * (u + 1) = d * u + d
  BY <1>1
<1>4. ~(u + 1 <= s)
  <2> SUFFICES ASSUME u + 1 <= s PROVE FALSE
    OBVIOUS
  <2>1. d * (u + 1) <= d * s
    <3>1. d \in Int /\ d > 0 /\ u + 1 \in Int /\ s \in Int
      BY <1>1
    <3> QED
      BY <3>1, TimesKeepsOrder
  <2> DEFINE z == d * u
  <2>2. z \in Int /\ z + d <= x /\ x - y < d /\ y <= z /\ x \in Int /\ y \in Int /\ d \in Int
    BY <1>1, <1>2, <1>3, <2>1
  <2> HIDE DEF x, y, z
  <2> QED
    BY <2>2
<1> QED
  BY <1>1, <1>4 DEF s, u

\* Who has more gets no less.
LEMMA AllottedMore ==
    ASSUME NEW T, NEW w, NEW n, NEW d, Sharing(T, w, n, d),
           NEW i \in 1..n, NEW j \in 1..n, w[i] > w[j], T > 0
    PROVE  Allotted(T, w, n, d)[i] >= Allotted(T, w, n, d)[j]
<1> DEFINE Q == Quotients(T, w, n, d)
           R == Remainders(T, w, n, d)
           k == Before(T, w, n, d)
           l == Left(T, w, n, d)
           A == Allotted(T, w, n, d)
<1>0. n \in Nat /\ d \in Int /\ d > 0 /\ T \in Int /\ w[i] \in Int /\ w[j] \in Int
  BY DEF Sharing
<1>1. \A x \in 1..n : Q[x] \in Nat /\ R[x] \in 0..(d - 1) /\ T * w[x] = d * Q[x] + R[x]
  BY ShareDivides
<1>2. /\ \A x \in 1..n : k[x] \in 0..(n - 1) /\ A[x] = Q[x] + (IF k[x] < l THEN 1 ELSE 0)
      /\ l \in 0..(n - 1)
  BY AllottedIs
<1>3. Ints(R, n) /\ k = Rank(R, n)
  BY <1>1 DEF Ints, Before
<1> HIDE DEF Q, R, k, l, A
<1>4. T * w[i] > T * w[j] /\ T * w[i] \in Int /\ T * w[j] \in Int
  <2>1. ~(w[i] <= w[j])
    BY <1>0
  <2> QED
    BY <1>0, <2>1, TimesKeepsOrder
<1> DEFINE x == d * Q[i]
           y == d * Q[j]
<1>5. x + R[i] > y + R[j] /\ x \in Int /\ y \in Int
  BY <1>0, <1>1, <1>4
<1>6. R[i] \in Int /\ R[j] \in Int /\ R[i] < d /\ R[i] >= 0 /\ R[j] >= 0 /\ Q[i] \in Int /\ Q[j] \in Int
  BY <1>0, <1>1
<1>7. Q[j] <= Q[i]
  <2> SUFFICES ASSUME Q[i] + 1 <= Q[j] PROVE FALSE
    BY <1>6
  <2>1. d * (Q[i] + 1) <= y /\ d * (Q[i] + 1) = x + d
    <3>1. Q[i] + 1 \in Int
      BY <1>6
    <3> QED
      BY <1>0, <1>6, <3>1, TimesKeepsOrder
  <2> HIDE DEF x, y
  <2> QED
    BY <1>0, <1>5, <1>6, <2>1
<1>10. /\ k[i] \in Int /\ k[j] \in Int /\ l \in Int
       /\ A[i] = Q[i] + (IF k[i] < l THEN 1 ELSE 0)
       /\ A[j] = Q[j] + (IF k[j] < l THEN 1 ELSE 0)
  BY <1>0, <1>2
<1>8. CASE Q[j] = Q[i]
  <2>1. x = y
    BY <1>8
  <2> HIDE DEF x, y
  <2>2. R[i] > R[j]
    BY <1>5, <1>6, <2>1
  <2>3. i \in Ahead(R, n, j)
    BY <2>2 DEF Ahead
  <2>4. k[i] < k[j]
    BY <1>0, <1>3, <2>3, RankSmaller
  <2> QED
    BY ONLY <1>6, <1>8, <1>10, <2>4 DEF A
<1>9. CASE Q[j] # Q[i]
  <2>1. Q[j] + 1 <= Q[i]
    BY <1>6, <1>7, <1>9
  <2> QED
    BY ONLY <1>6, <1>10, <2>1 DEF A
<1> QED
  BY <1>8, <1>9 DEF A

LEMMA SplitAllots ==
    ASSUME NEW T \in Nat \ {0}, NEW w, w \in Seq(Nat), NEW d \in Nat \ {0}
    PROVE  Split!ProportionalAllocation(T, w, d) = Allotted(T, w, Len(w), d)
<1> DEFINE n == Len(w)
           Q == Quotients(T, w, n, d)
           R == Remainders(T, w, n, d)
           share(i) == T * w[i]
           floor(i) == share(i) \div d
           rest(i) == share(i) % d
           rank(i) == Split!Cardinality({j \in DOMAIN w :
                          rest(j) > rest(i) \/ (rest(j) = rest(i) /\ j < i)})
           extras == T - Split!SumOf([i \in DOMAIN w |-> floor(i)])
<1>1. n \in Nat /\ DOMAIN w = 1..n /\ \A i \in 1..n : w[i] \in Nat
  OBVIOUS
<1>2. ~(T <= 0 \/ d <= 0)
  OBVIOUS
<1>3. Split!ProportionalAllocation(T, w, d) =
          [i \in DOMAIN w |-> floor(i) + (extras + n - 1 - rank(i)) \div n]
  BY <1>2 DEF Split!ProportionalAllocation
<1>4. \A i \in 1..n : Q[i] = floor(i) /\ R[i] = rest(i) /\ floor(i) \in Int
  <2> SUFFICES ASSUME NEW i \in 1..n PROVE floor(i) \in Int
    BY DEF Quotients, Remainders
  <2>1. share(i) \in Nat
    BY <1>1
  <2> HIDE DEF share
  <2> QED
    BY <2>1, Divided
<1>5. extras = Left(T, w, n, d)
  <2>1. Q = [i \in DOMAIN w |-> floor(i)]
    BY <1>1 DEF Quotients
  <2>2. \A i \in 1..n : Q[i] \in Int
    BY <1>4
  <2>3. Q = [i \in 1..n |-> Q[i]]
    BY DEF Quotients
  <2> HIDE DEF Q, n, floor
  <2>4. Q \in Seq(Int) /\ Len(Q) = n
    BY SMTT(60), <1>1, <2>2, <2>3
  <2>5. Split!SumOf(Q) = Sum(Q, 1..n)
    BY <2>4, SplitSums
  <2> QED
    BY <2>1, <2>5 DEF Left, Q
<1>6. ASSUME NEW i \in 1..n PROVE rank(i) = Before(T, w, n, d)[i]
  <2>1. \A S : Split!Cardinality(S) = Cardinality(S)
    BY DEF Split!Cardinality, Cardinality
  <2>2. {j \in DOMAIN w : rest(j) > rest(i) \/ (rest(j) = rest(i) /\ j < i)} = Ahead(R, n, i)
    <3>1. \A j \in 1..n : R[j] = rest(j)
      BY <1>4
    <3> HIDE DEF R, rest, n
    <3> QED
      BY <1>1, <3>1 DEF Ahead
  <2>3. Before(T, w, n, d)[i] = Cardinality(Ahead(R, n, i))
    BY DEF Before, Rank
  <2> HIDE DEF R, rest, n
  <2> QED
    BY <2>1, <2>2, <2>3
<1>7. \A i \in 1..n : floor(i) + (extras + n - 1 - rank(i)) \div n = Allotted(T, w, n, d)[i]
  <2> SUFFICES ASSUME NEW i \in 1..n
               PROVE  floor(i) + (extras + n - 1 - rank(i)) \div n = Allotted(T, w, n, d)[i]
    OBVIOUS
  <2>1. floor(i) = Q[i] /\ rank(i) = Before(T, w, n, d)[i]
    BY <1>4, <1>6
  <2>2. Allotted(T, w, n, d)[i] =
            Q[i] + (Left(T, w, n, d) + n - 1 - Before(T, w, n, d)[i]) \div n
    BY DEF Allotted
  <2> HIDE DEF floor, rank, extras, Q, n
  <2> QED
    BY <1>5, <2>1, <2>2
<1>8. Allotted(T, w, n, d) = [i \in 1..n |-> Allotted(T, w, n, d)[i]]
  BY DEF Allotted
<1> HIDE DEF floor, rank, extras, n
<1> QED
  BY <1>1, <1>3, <1>7, <1>8 DEF n

\* Wins are counted.
Wins == total \in Nat /\ counts \in [1..Parties -> Nat]

LEMMA WinsShared ==
    ASSUME Split!PartiesAssumption, Wins
    PROVE  /\ DOMAIN counts = 1..Parties /\ Split!Won \in Nat
           /\ Split!Won = 0 => \A i \in 1..Parties : counts[i] = 0
           /\ total = 0 \/ Split!Won = 0 => Split!Shares = [i \in 1..Parties |-> 0]
           /\ total # 0 /\ Split!Won # 0 =>
                 /\ Sharing(total, counts, Parties, Split!Won)
                 /\ Split!Shares = Allotted(total, counts, Parties, Split!Won)
<1> DEFINE n == Parties
           won == Split!Won
<1>0. n \in Nat /\ total \in Nat /\ counts \in [1..n -> Nat]
  BY DEF Split!PartiesAssumption, Wins
<1>1. counts \in Seq(Nat) /\ counts \in Seq(Int) /\ Len(counts) = n /\ DOMAIN counts = 1..n
  BY <1>0
<1>2. won = Sum(counts, 1..n)
  BY <1>1, SplitSums DEF Split!Won
<1>3. IsFiniteSet(1..n) /\ \A i \in 1..n : counts[i] \in Nat
  <2>1. 1 \in Int /\ n \in Int /\ \A i \in 1..n : counts[i] \in Nat
    BY <1>0
  <2> HIDE DEF n
  <2> QED
    BY <2>1, FS_Interval
<1>4. won \in Nat /\ \A i \in 1..n : counts[i] <= won
  <2>1. Sum(counts, 1..n) \in Nat
    BY <1>3, SumOfNaturals
  <2>2. ASSUME NEW i \in 1..n PROVE counts[i] <= Sum(counts, 1..n)
    <3>1. {i} \subseteq 1..n /\ counts[i] \in Int
      BY <1>3
    <3>2. Sum(counts, {i}) <= Sum(counts, 1..n)
      BY <1>3, <3>1, SumOfPart
    <3> QED
      BY <3>1, <3>2, SumOfOne
  <2> QED
    BY <1>2, <2>1, <2>2
<1>5. Split!Shares = Split!ProportionalAllocation(total, counts, won)
  BY DEF Split!Shares
<1> HIDE DEF won, n
<1>6. won = 0 => \A i \in 1..n : counts[i] = 0
  BY <1>3, <1>4
<1>7. ASSUME total = 0 \/ won = 0 PROVE Split!Shares = [i \in 1..n |-> 0]
  <2>1. total <= 0 \/ won <= 0
    BY <1>7
  <2> QED
    BY <1>1, <1>5, <2>1 DEF Split!ProportionalAllocation
<1>8. ASSUME total # 0, won # 0
      PROVE  Sharing(total, counts, n, won) /\ Split!Shares = Allotted(total, counts, n, won)
  <2>1. n # 0
    <3> SUFFICES ASSUME n = 0 PROVE FALSE
      OBVIOUS
    <3>1. 1..n = {}
      OBVIOUS
    <3> QED
      BY <1>2, <1>8, <3>1, SumEmpty
  <2>2. total \in Nat \ {0} /\ won \in Nat \ {0} /\ n \in Nat \ {0}
    BY <1>0, <1>4, <1>8, <2>1
  <2> QED
    BY <1>1, <1>2, <1>3, <1>5, <2>2, SplitAllots DEF Sharing
<1> QED
  BY <1>1, <1>4, <1>6, <1>7, <1>8 DEF n, won

LEMMA WinsBegin == Split!Init => Wins
  BY DEF Split!Init, Wins

LEMMA WinsNext == ASSUME Wins, [Split!Next]_<<total, counts>> PROVE Wins'
<1>1. CASE Split!AddTotal
  BY <1>1 DEF Split!AddTotal, Wins
<1>2. ASSUME NEW i \in 1..Parties, Split!AddWin(i) PROVE Wins'
  BY <1>2 DEF Split!AddWin, Wins
<1>3. CASE UNCHANGED <<total, counts>>
  BY <1>3 DEF Wins
<1> QED
  BY <1>1, <1>2, <1>3 DEF Split!Next

LEMMA WinsShow ==
    ASSUME Split!PartiesAssumption, Wins
    PROVE  /\ Split!NothingLostOrInvented
           /\ Split!PartsWithinParts
           /\ Split!MoreWinsMore
<1> DEFINE n == Parties
           won == Split!Won
           out == Split!Shares
<1>0. /\ n \in Nat /\ total \in Nat /\ won \in Nat
      /\ DOMAIN counts = 1..n /\ \A i \in 1..n : counts[i] \in Nat
  BY WinsShared DEF Wins, Split!PartiesAssumption
<1>1. CASE total = 0 \/ won = 0
  <2>1. out = [i \in 1..n |-> 0] /\ (won = 0 => \A i \in 1..n : counts[i] = 0)
    BY <1>1, WinsShared
  <2>2. out \in Seq(Int) /\ Len(out) = n /\ \A i \in 1..n : out[i] = 0
    BY <1>0, <2>1
  <2> HIDE DEF out, n, won
  <2>3. Split!SumOf(out) = Sum(out, 1..n) /\ IsFiniteSet(1..n)
    BY <1>0, <2>2, SplitSums, FS_Interval
  <2>4. Sum(out, 1..n) = 0
    <3> DEFINE T == {}
    <3>1. T \subseteq 1..n /\ \A i \in 1..n : out[i] = IF i \in T THEN 1 ELSE 0
      BY <2>2
    <3>2. Sum(out, 1..n) = Cardinality(T)
      BY <2>3, <3>1, SumCounts
    <3> QED
      BY <3>2, FS_EmptySet
  <2>5. ASSUME won > 0
        PROVE  /\ Split!SumOf(out) = total
               /\ \A i \in 1..n : out[i] * won - total * counts[i] < won
                                  /\ -(out[i] * won - total * counts[i]) < won
    <3>1. total = 0
      BY <1>0, <1>1, <2>5
    <3>2. \A i \in 1..n : 0 * won = 0 /\ 0 * counts[i] = 0
      BY <1>0
    <3> QED
      BY <1>0, <2>2, <2>3, <2>4, <2>5, <3>1, <3>2
  <2>6. Split!NothingLostOrInvented
    BY <1>0, <2>5 DEF Split!NothingLostOrInvented, out, won
  <2>7. Split!PartsWithinParts /\ Split!MoreWinsMore
    BY <1>0, <2>2 DEF Split!PartsWithinParts, Split!MoreWinsMore, out
  <2> QED
    BY <2>6, <2>7
<1>2. CASE total # 0 /\ won # 0
  <2>1. Sharing(total, counts, n, won) /\ out = Allotted(total, counts, n, won)
    BY <1>2, WinsShared
  <2>2. \A i \in 1..n : out[i] \in Nat
    BY <2>1, AllottedSum
  <2>3. out = [i \in 1..n |-> out[i]]
    BY <2>1 DEF Allotted
  <2> HIDE DEF out, won, n
  <2>4. out \in Seq(Int) /\ Len(out) = n
    BY <1>0, <2>2, <2>3
  <2>5. Split!SumOf(out) = total
    BY <2>1, <2>4, AllottedSum, SplitSums
  <2>6. \A i \in 1..n : out[i] * won - total * counts[i] < won
                        /\ -(out[i] * won - total * counts[i]) < won
    BY <2>1, AllottedNear
  <2>7. Split!NothingLostOrInvented
    BY <1>0, <2>5, <2>6 DEF Split!NothingLostOrInvented, out, won
  <2>8. Split!PartsWithinParts
    BY <1>0, <2>1, AllottedWithin DEF Split!PartsWithinParts, out, won
  <2>9. Split!MoreWinsMore
    <3>1. total > 0
      BY <1>0, <1>2
    <3> QED
      BY <1>0, <2>1, <3>1, AllottedMore DEF Split!MoreWinsMore, out
  <2> QED
    BY <2>7, <2>8, <2>9
<1> QED
  BY <1>1, <1>2

\* However many parties and opportunities and whoever won, every opportunity goes to exactly
\* one party, nobody's share is off by one or more, a part is within what it is a part of,
\* and who won more gets no less (sandbox/joint_delivery.go proportionalIntegerAllocation).
THEOREM AllocationIsFair ==
    Split!PartiesAssumption =>
        (Split!Spec => [](/\ Split!NothingLostOrInvented
                          /\ Split!PartsWithinParts
                          /\ Split!MoreWinsMore))
<1> SUFFICES ASSUME Split!PartiesAssumption
             PROVE  Split!Spec => [](/\ Split!NothingLostOrInvented
                                     /\ Split!PartsWithinParts
                                     /\ Split!MoreWinsMore)
  OBVIOUS
<1>1. Split!Init => Wins
  BY WinsBegin
<1>2. Wins /\ [Split!Next]_<<total, counts>> => Wins'
  BY WinsNext
<1>3. Wins => /\ Split!NothingLostOrInvented
              /\ Split!PartsWithinParts
              /\ Split!MoreWinsMore
  BY WinsShow
<1> QED
  BY <1>1, <1>2, <1>3, PTL DEF Split!Spec

-----------------------------------------------------------------------------
(***************************************************************************)
(* An hour of delivery: nobody gets more of a cohort than there is of it.  *)
(***************************************************************************)

CONSTANTS
    Campaign, Group, Ad, Cohort, GroupOf, CampaignOf, AdOrder, Mode, Targeting, Window,
    Opportunities, Samples, Reachable, NewUsers(_, _), Costs, Floor, Amounts, StartAmount, StartBalance,
    LearningThreshold, DayHours, MaxHour, MaxEdits, Unlimited
VARIABLES hour, settings, ledger, cohorts, learning, balance, last, edits

Market == INSTANCE SandboxDelivery WITH Budgets <- Amounts, StartBudget <- StartAmount

LEMMA SameSums == ASSUME NEW s PROVE Market!Shares!SumOf(s) = Split!SumOf(s)
  BY DEF Market!Shares!SumOf, Market!Shares!FoldLeft, Market!Shares!MapThenFoldSet,
         Market!Shares!Max, Split!SumOf, Split!FoldLeft, Split!MapThenFoldSet, Split!Max

LEMMA SameShares ==
    ASSUME NEW T, NEW w, NEW d
    PROVE  Market!Shares!ProportionalAllocation(T, w, d) = Split!ProportionalAllocation(T, w, d)
<1>1. \A s : Market!Shares!SumOf(s) = Split!SumOf(s)
  BY SameSums
<1>2. \A S : Market!Shares!Cardinality(S) = Split!Cardinality(S)
  BY DEF Market!Shares!Cardinality, Split!Cardinality
<1> QED
  BY <1>1, <1>2 DEF Market!Shares!ProportionalAllocation, Split!ProportionalAllocation

LEMMA TotalIsSum == ASSUME NEW f, NEW S PROVE Market!Total(f, S) = Sum(f, S)
  BY DEF Market!Total, Market!MapThenSumSet, Market!MapThenFoldSet, Sum, Adds, One

LEMMA MinOf ==
    ASSUME NEW a \in Int, NEW b \in Int
    PROVE  /\ Market!Min({a, b}) \in {a, b} /\ Market!Min({a, b}) <= a /\ Market!Min({a, b}) <= b
           /\ Market!Max({a, b}) \in {a, b} /\ Market!Max({a, b}) >= a /\ Market!Max({a, b}) >= b
<1>1. \E x \in {a, b} : \A y \in {a, b} : x <= y
  OBVIOUS
<1>2. \E x \in {a, b} : \A y \in {a, b} : x >= y
  OBVIOUS
<1> QED
  BY <1>1, <1>2 DEF Market!Min, Market!Max

\* A weight more at the end of a sequence.
LEMMA SumAppend ==
    ASSUME NEW v, v \in Seq(Nat), NEW a \in Nat
    PROVE  /\ Append(v, a) \in Seq(Nat) /\ Len(Append(v, a)) = Len(v) + 1
           /\ Sum(Append(v, a), 1..(Len(v) + 1)) = Sum(v, 1..Len(v)) + a
           /\ \A i \in 1..Len(v) : Append(v, a)[i] = v[i]
<1> DEFINE n == Len(v)
           u == Append(v, a)
<1>1. /\ n \in Nat /\ \A i \in 1..n : v[i] \in Nat /\ u[i] = v[i]
      /\ u[n + 1] = a /\ u \in Seq(Nat) /\ Len(u) = n + 1
  OBVIOUS
<1>2. v \in Seq(Int) /\ u \in Seq(Int)
  OBVIOUS
<1>3. Addable(v, 1..n) /\ Addable(u, 1..(n + 1))
  BY <1>1, <1>2, SplitSums
<1> HIDE DEF n, u
<1>4. Sum(u, 1..n) = Sum(v, 1..n)
  BY <1>1, <1>3, SumAlike
<1>5. n + 1 \in 1..(n + 1) /\ (1..(n + 1)) \ {n + 1} = 1..n
  BY <1>1
<1>6. Sum(u, 1..(n + 1)) = u[n + 1] + Sum(u, 1..n) /\ Sum(u, 1..n) \in Int
  <2>1. Sum(u, 1..(n + 1)) = u[n + 1] + Sum(u, (1..(n + 1)) \ {n + 1})
    BY <1>3, <1>5, SumMore
  <2>2. Sum(u, (1..(n + 1)) \ {n + 1}) \in Int
    BY <1>3, <1>5, SumMore
  <2> QED
    BY <1>5, <2>1, <2>2
<1>7. Sum(u, 1..(n + 1)) = Sum(v, 1..n) + a
  BY <1>1, <1>4, <1>6
<1> QED
  BY <1>1, <1>7 DEF n, u

-----------------------------------------------------------------------------

Place(ad) == CHOOSE i \in DOMAIN AdOrder : AdOrder[i] = ad

LEMMA PlaceOf ==
    ASSUME Market!DeliveryAssumption, NEW ad \in Ad
    PROVE  /\ Place(ad) \in 1..Len(AdOrder) /\ AdOrder[Place(ad)] = ad
           /\ \A i \in 1..Len(AdOrder) : AdOrder[i] = ad => i = Place(ad)
<1>1. AdOrder \in Seq(Ad) /\ DOMAIN AdOrder = 1..Len(AdOrder)
  BY DEF Market!DeliveryAssumption
<1>2. PICK i \in DOMAIN AdOrder : AdOrder[i] = ad /\ \A j \in DOMAIN AdOrder : AdOrder[j] = ad => j = i
  BY DEF Market!DeliveryAssumption
<1>3. Place(ad) \in DOMAIN AdOrder /\ AdOrder[Place(ad)] = ad
  BY <1>2 DEF Place
<1> QED
  BY <1>1, <1>2, <1>3

\* The samples that the candidates of a cohort win, by their ads' places.
WinsOf(won, c) ==
    [i \in DOMAIN AdOrder |-> IF <<AdOrder[i], c>> \in DOMAIN won THEN won[<<AdOrder[i], c>>] ELSE 0]
OfCohort(S, c) == {x \in S : x[2] = c}

\* Shares by place are shares of the candidates.
LEMMA SumByPlace ==
    ASSUME Market!DeliveryAssumption, NEW S, S \subseteq Ad \X Cohort, NEW c \in Cohort,
           NEW f, NEW g, \A x \in OfCohort(S, c) : f[x] = g[Place(x[1])],
           \A i \in 1..Len(AdOrder) : g[i] \in Nat
    PROVE  /\ Addable(f, OfCohort(S, c)) /\ Addable(g, 1..Len(AdOrder))
           /\ Sum(f, OfCohort(S, c)) <= Sum(g, 1..Len(AdOrder))
           /\ (\A i \in 1..Len(AdOrder) : <<AdOrder[i], c>> \notin S => g[i] = 0) =>
                 Sum(f, OfCohort(S, c)) = Sum(g, 1..Len(AdOrder))
<1> DEFINE D == 1..Len(AdOrder)
           C == OfCohort(S, c)
           b == [x \in C |-> Place(x[1])]
           P == {b[x] : x \in C}
<1>0. Len(AdOrder) \in Nat /\ IsFiniteSet(Ad) /\ IsFiniteSet(Cohort)
  <2>1. \A T : Market!IsFiniteSet(T) <=> IsFiniteSet(T)
    BY DEF Market!IsFiniteSet, IsFiniteSet
  <2>2. Market!IsFiniteSet(Ad) /\ Market!IsFiniteSet(Cohort) /\ AdOrder \in Seq(Ad)
    BY DEF Market!DeliveryAssumption
  <2> QED
    BY <2>1, <2>2
<1>1. IsFiniteSet(D)
  BY SMTT(60), <1>0, FS_Interval
<1>2. \A x \in C : x \in Ad \X Cohort /\ x[1] \in Ad /\ x[2] = c /\ x = <<x[1], c>>
  BY DEF OfCohort
<1>3. \A x \in C : b[x] \in D /\ AdOrder[b[x]] = x[1]
  BY <1>2, PlaceOf
<1>4. \A x, y \in C : b[x] = b[y] => x = y
  BY <1>2, <1>3
<1>5. P \subseteq D
  BY <1>3
<1>6. IsFiniteSet(C)
  <2>1. IsFiniteSet(Ad \X Cohort)
    BY <1>0, FS_Product
  <2>2. C \subseteq Ad \X Cohort
    BY <1>2
  <2> QED
    BY <2>1, <2>2, FS_Subset
<1>7. \A x \in C : f[x] = g[b[x]] /\ f[x] \in Nat
  BY <1>3
<1>8. Addable(f, C)
  BY <1>6, <1>7, SumOfNaturals
<1> HIDE DEF b
<1>9. Addable(g, P) /\ Sum(g, P) = Sum(f, C)
  BY <1>4, <1>7, <1>8, SumRenamed
<1>10. \A i \in D : g[i] \in Nat
  OBVIOUS
<1> HIDE DEF D, C, P
<1>11. Addable(g, D) /\ Sum(g, P) <= Sum(g, D)
  BY <1>1, <1>5, <1>10, SumOfPart
<1>12. ASSUME \A i \in D : <<AdOrder[i], c>> \notin S => g[i] = 0
       PROVE  Sum(g, P) = Sum(g, D)
  <2>1. \A i \in D \ P : g[i] = 0 * g[i]
    <3> SUFFICES ASSUME NEW i \in D \ P PROVE g[i] = 0
      BY <1>10
    <3> SUFFICES ASSUME <<AdOrder[i], c>> \in S PROVE FALSE
      BY <1>12
    <3> DEFINE x == <<AdOrder[i], c>>
    <3>1. x \in C /\ x[1] = AdOrder[i]
      BY DEF C, OfCohort
    <3>2. AdOrder[i] \in Ad
      BY <1>2, <3>1
    <3>3. i = Place(AdOrder[i])
      BY <3>2, PlaceOf DEF D
    <3>4. b[x] = i
      BY <3>1, <3>3 DEF b
    <3> QED
      BY <3>1, <3>4 DEF P
  <2>2. Addable(g, D \ P)
    BY <1>11, SumPart
  <2>3. Sum(g, D \ P) = 0 * Sum(g, D \ P)
    BY <2>1, <2>2, SumTimes
  <2>4. Sum(g, D \ P) \in Int /\ Sum(g, P) \in Int
    BY <1>9, <2>2, SumType
  <2>5. 0 * Sum(g, D \ P) = 0
    <3> DEFINE z == Sum(g, D \ P)
    <3>1. z \in Int
      BY <2>4
    <3> HIDE DEF z
    <3>2. 0 * z = 0
      BY <3>1
    <3> QED
      BY <3>2 DEF z
  <2>6. P \cap (D \ P) = {} /\ P \cup (D \ P) = D
    BY <1>5
  <2>7. Sum(g, P \cup (D \ P)) = Sum(g, P) + Sum(g, D \ P)
    BY <1>9, <2>2, <2>6, SumJoin
  <2>8. Sum(g, D) = Sum(g, P) + Sum(g, D \ P)
    BY <2>6, <2>7
  <2>9. Sum(g, D \ P) = 0
    BY <2>3, <2>5
  <2> QED
    BY <2>4, <2>8, <2>9
<1> QED
  BY <1>8, <1>9, <1>11, <1>12 DEF D, C

LEMMA DeliveryFacts ==
    ASSUME Market!DeliveryAssumption
    PROVE  /\ IsFiniteSet(Ad) /\ IsFiniteSet(Group) /\ IsFiniteSet(Campaign) /\ IsFiniteSet(Cohort)
           /\ GroupOf \in [Ad -> Group] /\ CampaignOf \in [Group -> Campaign]
           /\ Campaign \cap Group = {} /\ Mode \in [Campaign \cup Group -> {"DAY", "TOTAL", "NONE"}]
           /\ AdOrder \in Seq(Ad)
           /\ Opportunities \in Nat /\ Reachable \in Nat /\ LearningThreshold \in Nat /\ MaxHour \in Nat
           /\ Floor \in Nat /\ StartBalance \in Nat /\ StartAmount \in Nat /\ Unlimited \in Nat
           /\ Amounts \subseteq Nat /\ Samples \in Nat \ {0} /\ DayHours \in Nat \ {0}
           /\ Costs \subseteq Nat \ {0}
           /\ \A b \in Amounts \cup {StartAmount} : Unlimited > StartBalance + b
           /\ \A n, r \in 0..(Opportunities + Reachable) : NewUsers(n, r) \in 0..Market!Min({n, r})
<1>1. \A T : Market!IsFiniteSet(T) <=> IsFiniteSet(T)
  BY DEF Market!IsFiniteSet, IsFiniteSet
<1>2. /\ Market!IsFiniteSet(Ad) /\ Market!IsFiniteSet(Group)
      /\ Market!IsFiniteSet(Campaign) /\ Market!IsFiniteSet(Cohort)
  BY DEF Market!DeliveryAssumption
<1>3. /\ GroupOf \in [Ad -> Group] /\ CampaignOf \in [Group -> Campaign]
      /\ Campaign \cap Group = {} /\ Mode \in [Campaign \cup Group -> {"DAY", "TOTAL", "NONE"}]
      /\ AdOrder \in Seq(Ad)
  BY DEF Market!DeliveryAssumption
<1>4. /\ {Opportunities, Reachable, LearningThreshold, MaxHour} \subseteq Nat
      /\ {Floor, StartBalance, StartAmount, Unlimited} \cup Amounts \subseteq Nat
      /\ {Samples, DayHours} \cup Costs \subseteq Nat \ {0}
  BY DEF Market!DeliveryAssumption
<1>5. /\ \A b \in Amounts \cup {StartAmount} : Unlimited > StartBalance + b
      /\ \A n, r \in 0..(Opportunities + Reachable) : NewUsers(n, r) \in 0..Market!Min({n, r})
  BY DEF Market!DeliveryAssumption
<1> QED
  BY <1>1, <1>2, <1>3, <1>4, <1>5

LEMMA CandidatesAreAds ==
    ASSUME Market!DeliveryAssumption, NEW h
    PROVE  /\ Market!Candidates(h) \subseteq Ad \X Cohort /\ IsFiniteSet(Market!Candidates(h))
           /\ \A x \in Market!Candidates(h) :
                 x[1] \in Ad /\ x[2] \in Cohort /\ GroupOf[x[1]] \in Group
                 /\ CampaignOf[GroupOf[x[1]]] \in Campaign /\ x = <<x[1], x[2]>>
<1>1. Market!Candidates(h) \subseteq Ad \X Cohort
  BY DEF Market!Candidates
<1>2. IsFiniteSet(Ad \X Cohort)
  BY DeliveryFacts, FS_Product
<1>3. IsFiniteSet(Market!Candidates(h))
  BY <1>1, <1>2, FS_Subset
<1>4. GroupOf \in [Ad -> Group] /\ CampaignOf \in [Group -> Campaign]
  BY DeliveryFacts
<1>5. \A x \in Ad \X Cohort : x[1] \in Ad /\ x[2] \in Cohort /\ x = <<x[1], x[2]>>
  OBVIOUS
<1> QED
  BY <1>1, <1>3, <1>4, <1>5

\* What the candidates of a cohort win is what the auctions that are not won by others are.
LEMMA WinsFit ==
    ASSUME Market!DeliveryAssumption, NEW h, NEW won \in Market!AuctionOutcomes(h), NEW c \in Cohort
    PROVE  /\ DOMAIN won = Market!Candidates(h)
           /\ WinsOf(won, c) \in Seq(Nat) /\ Len(WinsOf(won, c)) = Len(AdOrder)
           /\ Sum(WinsOf(won, c), 1..Len(AdOrder)) \in Nat
           /\ Sum(WinsOf(won, c), 1..Len(AdOrder)) <= Samples
<1> DEFINE S == Market!Candidates(h)
           n == Len(AdOrder)
           v == WinsOf(won, c)
<1>1. won \in [S -> 0..Samples] /\ Market!Total(won, {x \in S : x[2] = c}) <= Samples
  BY DEF Market!AuctionOutcomes
<1>2. DOMAIN won = S /\ \A x \in S : won[x] \in Nat
  <2>1. Samples \in Nat
    BY DeliveryFacts
  <2> HIDE DEF S
  <2> QED
    BY <1>1, <2>1
<1>3. Sum(won, OfCohort(S, c)) <= Samples
  BY <1>1, TotalIsSum DEF OfCohort
<1> HIDE DEF S
<1>4. n \in Nat /\ DOMAIN AdOrder = 1..n
  BY DeliveryFacts
<1>5. \A i \in 1..n : v[i] = IF <<AdOrder[i], c>> \in S THEN won[<<AdOrder[i], c>>] ELSE 0
  BY <1>2, <1>4 DEF WinsOf
<1>6. v = [i \in 1..n |-> v[i]]
  BY <1>4 DEF WinsOf
<1> HIDE DEF n, v
<1>7. ASSUME NEW i \in 1..n PROVE v[i] \in Nat
  <2> DEFINE t == <<AdOrder[i], c>>
  <2>1. v[i] = IF t \in S THEN won[t] ELSE 0
    BY <1>5
  <2> HIDE DEF t
  <2> QED
    BY <1>2, <2>1
<1>8. v \in Seq(Nat) /\ Len(v) = n
  BY <1>4, <1>6, <1>7
<1>9. \A x \in OfCohort(S, c) : won[x] = v[Place(x[1])]
  <2> SUFFICES ASSUME NEW x \in OfCohort(S, c) PROVE won[x] = v[Place(x[1])]
    OBVIOUS
  <2>1. x \in S /\ x[1] \in Ad /\ x = <<x[1], c>>
    BY CandidatesAreAds DEF OfCohort, S
  <2>2. Place(x[1]) \in 1..n /\ AdOrder[Place(x[1])] = x[1]
    BY <2>1, PlaceOf DEF n
  <2>3. v[Place(x[1])] = IF <<AdOrder[Place(x[1])], c>> \in S
                         THEN won[<<AdOrder[Place(x[1])], c>>] ELSE 0
    BY <1>5, <2>2
  <2>4. <<AdOrder[Place(x[1])], c>> = x
    BY <2>1, <2>2
  <2> QED
    BY <2>1, <2>3, <2>4
<1>10. \A i \in 1..n : <<AdOrder[i], c>> \notin S => v[i] = 0
  BY <1>5
<1>11. S \subseteq Ad \X Cohort
  BY CandidatesAreAds DEF S
<1>12. Sum(won, OfCohort(S, c)) = Sum(v, 1..n)
  BY <1>7, <1>9, <1>10, <1>11, SumByPlace DEF n
<1>13. Sum(v, 1..n) \in Nat
  <2>1. IsFiniteSet(1..n)
    BY <1>4, FS_Interval
  <2> QED
    BY <1>7, <2>1, SumOfNaturals
<1> QED
  BY <1>2, <1>3, <1>8, <1>12, <1>13 DEF S, n, v

\* Nobody gets more of a cohort than there is of it.
LEMMA DesiredFits ==
    ASSUME Market!DeliveryAssumption, NEW h, NEW won \in Market!AuctionOutcomes(h)
    PROVE  /\ DOMAIN Market!Desired(won) = Market!Candidates(h)
           /\ \A x \in Market!Candidates(h) : Market!Desired(won)[x] \in Nat
           /\ \A c \in Cohort :
                 Sum(Market!Desired(won), OfCohort(Market!Candidates(h), c)) <= Opportunities
<1> DEFINE S == Market!Candidates(h)
           n == Len(AdOrder)
           weights(c) == Append(WinsOf(won, c), Samples - Split!SumOf(WinsOf(won, c)))
           share(c) == Split!ProportionalAllocation(Opportunities, weights(c), Samples)
           D == Market!Desired(won)
<1>1. DOMAIN won = S /\ n \in Nat /\ Opportunities \in Nat /\ Samples \in Nat \ {0}
  <2>1. won \in [S -> 0..Samples]
    BY DEF Market!AuctionOutcomes
  <2> QED
    BY <2>1, DeliveryFacts
<1>2. D = [x \in S |-> [c \in Cohort |-> share(c)][x[2]][Place(x[1])]]
  <2> DEFINE W == [c \in Cohort |-> WinsOf(won, c)]
             V == [c \in Cohort |->
                      Market!Shares!ProportionalAllocation(Opportunities,
                          Append(W[c], Samples - Market!Shares!SumOf(W[c])), Samples)]
  <2>1. D = [x \in DOMAIN won |-> V[x[2]][Place(x[1])]]
    BY DEF Market!Desired, WinsOf, Place
  <2>2. ASSUME NEW c \in Cohort PROVE V[c] = share(c)
    <3>1. W[c] = WinsOf(won, c)
      OBVIOUS
    <3>2. V[c] = Market!Shares!ProportionalAllocation(Opportunities,
                     Append(W[c], Samples - Market!Shares!SumOf(W[c])), Samples)
      OBVIOUS
    <3> HIDE DEF W, V
    <3> QED
      BY <3>1, <3>2, SameSums, SameShares
  <2>3. V = [c \in Cohort |-> share(c)]
    BY <2>2
  <2> HIDE DEF V, W, D, S, share
  <2> QED
    BY <1>1, <2>1, <2>3
<1>3. \A x \in S : x[1] \in Ad /\ x[2] \in Cohort
  BY CandidatesAreAds
<1>4. ASSUME NEW c \in Cohort
      PROVE  /\ \A i \in 1..n : share(c)[i] \in Nat
             /\ Sum(share(c), 1..n) <= Opportunities
  <2> DEFINE v == WinsOf(won, c)
             u == weights(c)
  <2>1. v \in Seq(Nat) /\ Len(v) = n /\ Sum(v, 1..n) \in Nat /\ Sum(v, 1..n) <= Samples
    BY WinsFit
  <2>2. v \in Seq(Int)
    <3> HIDE DEF v
    <3> QED
      BY <2>1
  <2>3. Split!SumOf(v) = Sum(v, 1..n)
    BY <2>1, <2>2, SplitSums
  <2>4. Samples - Split!SumOf(v) \in Nat /\ u = Append(v, Samples - Split!SumOf(v))
    <3>1. Samples \in Nat
      BY <1>1
    <3>2. Split!SumOf(v) \in Nat /\ Split!SumOf(v) <= Samples
      BY <2>1, <2>3
    <3> HIDE DEF v
    <3>3. Samples - Split!SumOf(v) \in Nat
      BY <3>1, <3>2
    <3> QED
      BY <3>3 DEF v
  <2> HIDE DEF v, u
  <2>5. /\ u \in Seq(Nat) /\ Len(u) = n + 1
        /\ Sum(u, 1..(n + 1)) = Sum(v, 1..n) + (Samples - Split!SumOf(v))
    BY <2>1, <2>4, SumAppend
  <2>6. Sum(u, 1..(n + 1)) = Samples
    BY <1>1, <2>1, <2>3, <2>5
  <2>7. \A i \in 1..(n + 1) : u[i] \in Nat
    BY <2>5
  <2>8. IsFiniteSet(1..(n + 1)) /\ 1..n \subseteq 1..(n + 1)
    BY <1>1, FS_Interval
  <2>9. share(c) = Split!ProportionalAllocation(Opportunities, u, Samples)
    BY DEF u
  <2> DEFINE s == share(c)
  <2> HIDE DEF share, s
  <2>10. (\A i \in 1..(n + 1) : s[i] \in Nat) /\ Sum(s, 1..(n + 1)) <= Opportunities
    <3>1. CASE Opportunities = 0
      <4>1. DOMAIN u = 1..(n + 1) /\ Opportunities <= 0
        BY <2>5, <3>1
      <4>2. s = [i \in 1..(n + 1) |-> 0]
        BY <2>9, <4>1 DEF s, Split!ProportionalAllocation
      <4>3. \A i \in 1..(n + 1) : s[i] \in Nat /\ s[i] = 0 * s[i]
        BY <4>2
      <4>4. Addable(s, 1..(n + 1)) /\ Sum(s, 1..(n + 1)) \in Nat
        BY <2>8, <4>3, SumOfNaturals
      <4>5. Sum(s, 1..(n + 1)) = 0 * Sum(s, 1..(n + 1))
        BY <4>3, <4>4, SumTimes
      <4> DEFINE z == Sum(s, 1..(n + 1))
      <4> HIDE DEF z
      <4>6. 0 * z = 0
        BY <4>4 DEF z
      <4> QED
        BY <3>1, <4>3, <4>5, <4>6 DEF z
    <3>2. CASE Opportunities # 0
      <4>1. Opportunities \in Nat \ {0}
        BY <1>1, <3>2
      <4>2. s = Allotted(Opportunities, u, n + 1, Samples)
        BY <1>1, <2>5, <2>9, <4>1, SplitAllots DEF s
      <4>3. Sharing(Opportunities, u, n + 1, Samples)
        BY <1>1, <2>6, <2>7, <4>1 DEF Sharing
      <4>4. (\A i \in 1..(n + 1) : s[i] \in Nat) /\ Sum(s, 1..(n + 1)) = Opportunities
        BY <4>2, <4>3, AllottedSum
      <4> QED
        BY <1>1, <4>4
    <3> QED
      BY <3>1, <3>2
  <2>11. Sum(s, 1..n) <= Sum(s, 1..(n + 1)) /\ Sum(s, 1..n) \in Nat /\ Sum(s, 1..(n + 1)) \in Nat
    BY <2>8, <2>10, SumOfPart
  <2>12. Sum(s, 1..n) <= Opportunities
    BY <1>1, <2>10, <2>11
  <2> QED
    BY <2>8, <2>10, <2>12 DEF s
<1> HIDE DEF share
<1>5. \A x \in S : D[x] = share(x[2])[Place(x[1])]
  BY <1>2, <1>3
<1>6. \A x \in S : Place(x[1]) \in 1..n
  BY <1>3, PlaceOf
<1>7. DOMAIN D = S /\ \A x \in S : D[x] \in Nat
  BY <1>2, <1>3, <1>4, <1>5, <1>6
<1>8. ASSUME NEW c \in Cohort PROVE Sum(D, OfCohort(S, c)) <= Opportunities
  <2> DEFINE g == share(c)
  <2>1. \A x \in OfCohort(S, c) : D[x] = g[Place(x[1])]
    BY <1>5 DEF OfCohort
  <2>2. \A i \in 1..n : g[i] \in Nat
    BY <1>4
  <2>3. S \subseteq Ad \X Cohort
    BY CandidatesAreAds
  <2> HIDE DEF g, D, S
  <2>4. /\ Addable(D, OfCohort(S, c)) /\ Addable(g, 1..n)
        /\ Sum(D, OfCohort(S, c)) <= Sum(g, 1..n)
    BY <2>1, <2>2, <2>3, SumByPlace
  <2>5. Sum(g, 1..n) <= Opportunities
    BY <1>4 DEF g
  <2>6. Sum(D, OfCohort(S, c)) \in Int /\ Sum(g, 1..n) \in Int /\ Opportunities \in Int
    BY <1>1, <2>4, SumType
  <2> QED
    BY <2>4, <2>5, <2>6
<1> QED
  BY <1>7, <1>8

(***************************************************************************)
(* Scaling down to a budget.                                               *)
(***************************************************************************)

LEMMA TimesAtMost ==
    ASSUME NEW a \in Nat, NEW b \in Nat, NEW c \in Nat, a <= b
    PROVE  c * a \in Nat /\ c * b \in Nat /\ c * a <= c * b
<1>1. c * a \in Nat /\ c * b \in Nat
  OBVIOUS
<1>2. CASE c = 0
  BY <1>2
<1>3. CASE c > 0
  <2>1. a <= b <=> c * a <= c * b
    BY <1>3, TimesKeepsOrder
  <2> QED
    BY <1>1, <2>1
<1> QED
  BY <1>1, <1>2, <1>3

\* A fraction of a fraction of d: it is no more than d.
LEMMA Granted ==
    ASSUME NEW d \in Nat, NEW G \in Nat, NEW K \in Nat, NEW W \in Nat \ {0}, NEW C \in Nat \ {0},
           G <= W, K <= C
    PROVE  /\ (d * G * K) \div (W * C) \in Nat /\ (d * G * K) \div (W * C) <= d
           /\ (W * C) * ((d * G * K) \div (W * C)) <= d * (G * K)
<1> DEFINE a == d * G * K
           b == W * C
           m == G * K
           s == a \div b
<1>1. m \in Nat /\ a \in Nat /\ a = d * m
  OBVIOUS
<1>2. b \in Nat \ {0}
  <2>1. b \in Nat
    OBVIOUS
  <2>2. 1 * C <= W * C
    <3>1. C * 1 <= C * W
      BY TimesAtMost
    <3> QED
      BY <3>1
  <2> QED
    BY <2>1, <2>2
<1>3. m <= b
  <2>1. K * G <= K * W
    BY TimesAtMost
  <2>2. W * K <= W * C
    BY TimesAtMost
  <2>3. K * G = m /\ K * W = W * K /\ W * K \in Nat
    OBVIOUS
  <2> HIDE DEF m, b
  <2> DEFINE x == W * K
             y == K * G
             z == W * C
  <2>4. y <= x /\ x <= z /\ y = m /\ x \in Nat /\ z = b
    BY <2>1, <2>2, <2>3 DEF b
  <2> HIDE DEF x, y, z
  <2> QED
    BY <1>1, <1>2, <2>4
<1> HIDE DEF a, b, m
<1>4. d * m <= d * b /\ d * b \in Nat
  BY <1>1, <1>2, <1>3, TimesAtMost
<1>5. s \in Nat /\ a % b \in Nat /\ a = b * s + (a % b)
  BY <1>1, <1>2, Divided
<1> DEFINE r == (a % b)
           t == b * s
           u == b * d
<1>6. t \in Nat /\ u \in Nat /\ u = d * b
  <2> HIDE DEF s
  <2> QED
    BY <1>2, <1>5
<1> HIDE DEF r, t
<1>7. a = t + r /\ r \in Nat
  BY <1>5 DEF r, t
<1>8. t <= a
  BY <1>1, <1>6, <1>7
<1>9. t <= u
  <2> HIDE DEF u
  <2> DEFINE v == d * b
             w == d * m
  <2>1. u = v /\ w = a /\ w <= v /\ v \in Nat
    BY <1>1, <1>4, <1>6
  <2> HIDE DEF v, w
  <2> QED
    BY <1>1, <1>6, <1>8, <2>1
<1>10. s <= d
  <2> HIDE DEF s
  <2>1. b > 0 /\ b * s <= b * d
    BY <1>2, <1>9 DEF t
  <2> QED
    BY <1>2, <1>5, <2>1, TimesKeepsOrder
<1>11. a = d * m
  BY <1>1
<1> QED
  BY <1>5, <1>8, <1>10, <1>11 DEF a, b, m, t

\* What is common to both sides.
LEMMA Cancelled ==
    ASSUME NEW n \in Nat \ {0}, NEW p \in Nat, NEW C \in Nat, NEW t \in Nat, NEW m \in Nat,
           ((p * n) * C) * t <= m * n
    PROVE  (p * t) * C <= m
<1> DEFINE q == (p * t) * C
<1>1. q \in Nat
  OBVIOUS
<1>2. ((p * n) * C) * t = n * q
  OBVIOUS
<1>3. m * n = n * m
  OBVIOUS
<1>4. n * q <= n * m
  BY <1>2, <1>3
<1> HIDE DEF q
<1>5. q <= m
  BY <1>1, <1>4, TimesKeepsOrder
<1> QED
  BY <1>5 DEF q

\* Candidates of a group want p * Sum(d, I), the group gets G of that, and its campaign K of C.
LEMMA GroupScaled ==
    ASSUME NEW I, IsFiniteSet(I), NEW d, NEW s, \A x \in I : d[x] \in Nat,
           NEW p \in Nat \ {0}, NEW G \in Nat, NEW K \in Nat, NEW C \in Nat,
           NEW W, W = p * Sum(d, I), G <= W, K <= C,
           (\E x \in I : d[x] # 0) => C # 0,
           \A x \in I : s[x] = IF d[x] = 0 THEN 0 ELSE (d[x] * G * K) \div (W * C)
    PROVE  /\ \A x \in I : s[x] \in Nat /\ s[x] <= d[x]
           /\ Sum(s, I) \in Nat
           /\ (p * Sum(s, I)) * C <= G * K
           /\ p * Sum(s, I) <= G
<1> DEFINE n == Sum(d, I)
           t == Sum(s, I)
<1>1. n \in Nat /\ Addable(d, I)
  BY SumOfNaturals
<1>2. ASSUME NEW x \in I PROVE d[x] <= n
  <2>1. {x} \subseteq I /\ d[x] \in Int
    OBVIOUS
  <2>2. Sum(d, {x}) <= n
    BY <2>1, SumOfPart
  <2> QED
    BY <2>1, <2>2, SumOfOne
<1> HIDE DEF n
<1>3. CASE n = 0
  <2>1. \A x \in I : d[x] = 0
    BY <1>2, <1>3
  <2>2. \A x \in I : s[x] = 0
    BY <2>1
  <2>3. \A x \in I : s[x] \in Nat /\ s[x] <= d[x] /\ s[x] = d[x]
    BY <2>1, <2>2
  <2>4. t = n
    BY <1>1, <2>3, SumAlike DEF n
  <2>5. t = 0
    BY <1>3, <2>4
  <2> HIDE DEF t
  <2>6. p * t = 0
    BY <2>5
  <2>7. (p * t) * C = 0 /\ G * K \in Nat
    BY <2>6
  <2> QED
    BY <2>3, <2>5, <2>6, <2>7 DEF t
<1>4. CASE n # 0
  <2>1. \E x \in I : d[x] # 0
    <3> SUFFICES ASSUME \A x \in I : d[x] = 0 PROVE FALSE
      OBVIOUS
    <3>1. \A x \in I : d[x] = 0 * d[x]
      OBVIOUS
    <3>2. Addable(d, I) /\ 0 \in Int
      BY <1>1
    <3>3. Sum(d, I) = 0 * Sum(d, I)
      BY ONLY <3>1, <3>2, SumTimes
    <3>4. n = 0 * n
      BY <3>3 DEF n
    <3> QED
      BY ONLY <1>1, <1>4, <3>4
  <2>2. C \in Nat \ {0} /\ n \in Nat \ {0}
    BY <1>1, <1>4, <2>1
  <2>3. W \in Nat \ {0} /\ W = p * n
    <3>1. W = p * n
      BY DEF n
    <3>2. p * 1 <= p * n /\ p * n \in Nat
      BY <2>2, TimesAtMost
    <3> QED
      BY <3>1, <3>2
  <2>4. ASSUME NEW x \in I
        PROVE  s[x] \in Nat /\ s[x] <= d[x] /\ (W * C) * s[x] <= d[x] * (G * K)
    <3>1. CASE d[x] = 0
      <4>1. s[x] = 0
        BY <3>1
      <4>2. W * C \in Nat /\ G * K \in Nat
        BY <2>3
      <4> DEFINE b == W * C
                 m == G * K
      <4> HIDE DEF b, m
      <4>3. b * s[x] = 0 /\ d[x] * m = 0
        BY <3>1, <4>1, <4>2 DEF b, m
      <4> QED
        BY <3>1, <4>1, <4>3 DEF b, m
    <3>2. CASE d[x] # 0
      <4>1. s[x] = (d[x] * G * K) \div (W * C) /\ d[x] \in Nat
        BY <3>2
      <4>2. /\ d[x] \in Nat /\ G \in Nat /\ K \in Nat /\ W \in Nat \ {0} /\ C \in Nat \ {0}
            /\ G <= W /\ K <= C
        BY <2>2, <2>3, <4>1
      <4> DEFINE q == (d[x] * G * K) \div (W * C)
      <4>3. q \in Nat /\ q <= d[x] /\ (W * C) * q <= d[x] * (G * K)
        BY ONLY <4>2, Granted
      <4> HIDE DEF q
      <4>4. s[x] = q
        BY <4>1 DEF q
      <4> QED
        BY ONLY <4>3, <4>4
    <3> QED
      BY <3>1, <3>2
  <2>5. t \in Nat /\ Addable(s, I)
    BY <2>4, SumOfNaturals
  <2> DEFINE b == W * C
             m == G * K
             u == [x \in I |-> b * s[x]]
             v == [x \in I |-> m * d[x]]
  <2>6. b \in Nat /\ m \in Nat
    BY <2>3
  <2>7. \A x \in I : u[x] <= v[x]
    <3> SUFFICES ASSUME NEW x \in I PROVE b * s[x] <= m * d[x]
      OBVIOUS
    <3>1. d[x] * m = m * d[x]
      BY <2>6
    <3> QED
      BY <2>4, <3>1
  <2> HIDE DEF b, m
  <2>8. Addable(u, I) /\ Sum(u, I) = b * t
    <3>1. (\A x \in I : u[x] = b * s[x]) /\ b \in Int
      BY <2>6
    <3> HIDE DEF u
    <3> QED
      BY ZenonT(60), <2>5, <3>1, SumTimes
  <2>9. Addable(v, I) /\ Sum(v, I) = m * n
    <3>1. (\A x \in I : v[x] = m * d[x]) /\ m \in Int
      BY <2>6
    <3> HIDE DEF v
    <3> QED
      BY ZenonT(60), <1>1, <3>1, SumTimes DEF n
  <2>10. Sum(u, I) <= Sum(v, I)
    <3> HIDE DEF u, v
    <3> QED
      BY <2>7, <2>8, <2>9, SumAtMost
  <2> HIDE DEF t
  <2>11. ((p * n) * C) * t <= m * n
    BY <2>3, <2>8, <2>9, <2>10 DEF b
  <2>12. (p * t) * C <= m
    BY <2>2, <2>5, <2>6, <2>11, Cancelled
  <2>13. p * t <= G
    <3> DEFINE q == p * t
    <3>1. q \in Nat
      BY <2>5
    <3> HIDE DEF q
    <3>2. q * C <= m /\ q * C = C * q
      BY <2>12, <3>1 DEF q
    <3>3. G * K <= G * C
      BY TimesAtMost
    <3>4. G * C = C * G /\ C * G \in Nat /\ C * q \in Nat
      BY <3>1
    <3> DEFINE y == C * q
               z == C * G
    <3>5. y <= m /\ m <= z /\ y \in Nat /\ z \in Nat
      BY <3>2, <3>3, <3>4 DEF m
    <3> HIDE DEF y, z
    <3>6. y <= z
      BY <2>6, <3>5
    <3>7. C > 0 /\ C * q <= C * G
      BY <2>2, <3>6 DEF y, z
    <3>8. q <= G
      BY <3>1, <3>7, TimesKeepsOrder
    <3> QED
      BY <3>8 DEF q
  <2> QED
    BY <2>4, <2>5, <2>12, <2>13 DEF t, m
<1> QED
  BY <1>1, <1>3, <1>4

\* Groups get G of which their campaign gets K; each spends so much of it as is granted.
LEMMA CampaignScaled ==
    ASSUME NEW A, IsFiniteSet(A), NEW G, NEW t, \A g \in A : G[g] \in Nat /\ t[g] \in Nat,
           NEW C, C = Sum(G, A), NEW K \in Nat, K <= C,
           \A g \in A : t[g] * C <= G[g] * K /\ t[g] <= G[g]
    PROVE  Sum(t, A) \in Nat /\ Sum(t, A) <= K
<1>1. C \in Nat /\ Addable(G, A) /\ Sum(t, A) \in Nat /\ Addable(t, A)
  <2>1. (\A g \in A : G[g] \in Nat) /\ (\A g \in A : t[g] \in Nat)
    OBVIOUS
  <2> QED
    BY <2>1, SumOfNaturals
<1> DEFINE T == Sum(t, A)
<1>2. CASE C = 0
  <2>1. \A g \in A : t[g] <= G[g]
    OBVIOUS
  <2>2. T <= C
    BY <1>1, <2>1, SumAtMost
  <2> HIDE DEF T
  <2>3. T <= K
    BY <1>1, <1>2, <2>2 DEF T
  <2> QED
    BY <1>1, <2>3 DEF T
<1>3. CASE C # 0
  <2> DEFINE u == [g \in A |-> C * t[g]]
             v == [g \in A |-> K * G[g]]
  <2>1. \A g \in A : u[g] <= v[g]
    <3> SUFFICES ASSUME NEW g \in A PROVE C * t[g] <= K * G[g]
      OBVIOUS
    <3>1. t[g] * C = C * t[g] /\ G[g] * K = K * G[g]
      BY <1>1
    <3> QED
      BY <3>1
  <2>2. Addable(u, A) /\ Sum(u, A) = C * T
    <3>1. (\A g \in A : u[g] = C * t[g]) /\ C \in Int
      BY <1>1
    <3> HIDE DEF u
    <3> QED
      BY ZenonT(60), <1>1, <3>1, SumTimes
  <2>3. Addable(v, A) /\ Sum(v, A) = K * C
    <3>1. (\A g \in A : v[g] = K * G[g]) /\ K \in Int
      BY <1>1
    <3> HIDE DEF v
    <3> QED
      BY <1>1, <3>1, SumTimes
  <2>4. Sum(u, A) <= Sum(v, A)
    <3> HIDE DEF u, v
    <3> QED
      BY <2>1, <2>2, <2>3, SumAtMost
  <2> HIDE DEF T
  <2>5. C * T <= C * K /\ C > 0
    <3>1. K * C = C * K
      BY <1>1
    <3> QED
      BY <1>1, <1>3, <2>2, <2>3, <2>4, <3>1
  <2>6. T <= K
    BY <1>1, <2>5, TimesKeepsOrder DEF T
  <2> QED
    BY <1>1, <2>6 DEF T
<1> QED
  BY <1>1, <1>2, <1>3

-----------------------------------------------------------------------------
(***************************************************************************)
(* Candidates, their groups and campaigns, and what these may spend.       *)
(***************************************************************************)

OfGroup(S, g) == {x \in S : GroupOf[x[1]] = g}
OfCampaign(S, k) == {x \in S : CampaignOf[GroupOf[x[1]]] = k}
GroupsOf(k) == {g \in Group : CampaignOf[g] = k}

LEMMA SumOfGroups ==
    ASSUME Market!DeliveryAssumption, NEW h, NEW w,
           \A x \in Market!Candidates(h) : w[x] \in Nat, NEW k,
           NEW e, \A g \in GroupsOf(k) : e[g] = Sum(w, OfGroup(Market!Candidates(h), g))
    PROVE  /\ IsFiniteSet(GroupsOf(k)) /\ Addable(e, GroupsOf(k))
           /\ Sum(e, GroupsOf(k)) = Sum(w, OfCampaign(Market!Candidates(h), k))
<1> DEFINE S == Market!Candidates(h)
           T == OfCampaign(S, k)
           A == GroupsOf(k)
           key == [x \in S |-> GroupOf[x[1]]]
<1>1. IsFiniteSet(S) /\ \A x \in S : GroupOf[x[1]] \in Group
  BY CandidatesAreAds
<1>2. IsFiniteSet(T) /\ T \subseteq S
  <2>1. T \subseteq S
    BY DEF OfCampaign
  <2> QED
    BY <1>1, <2>1, FS_Subset
<1>3. IsFiniteSet(A)
  <2>1. A \subseteq Group /\ IsFiniteSet(Group)
    BY DeliveryFacts DEF GroupsOf
  <2> QED
    BY <2>1, FS_Subset
<1> HIDE DEF S
<1>4. \A x \in T : key[x] \in A /\ w[x] \in Nat
  <2>1. \A x \in T : w[x] \in Nat
    BY <1>2 DEF S
  <2>2. \A x \in T : key[x] = GroupOf[x[1]] /\ GroupOf[x[1]] \in Group
    BY <1>1, <1>2
  <2>3. \A x \in T : CampaignOf[GroupOf[x[1]]] = k
    BY DEF OfCampaign
  <2> QED
    BY <2>1, <2>2, <2>3 DEF GroupsOf
<1>5. Addable(w, T)
  BY <1>2, <1>4, SumOfNaturals
<1>6. \A g \in A : e[g] = Sum(w, {x \in T : key[x] = g})
  <2> SUFFICES ASSUME NEW g \in A PROVE OfGroup(S, g) = {x \in T : key[x] = g}
    BY DEF S
  <2>1. CampaignOf[g] = k
    BY DEF GroupsOf
  <2>2. \A x \in S : key[x] = GroupOf[x[1]]
    OBVIOUS
  <2> HIDE DEF key
  <2> QED
    BY <2>1, <2>2 DEF OfGroup, OfCampaign
<1> HIDE DEF T, A, key
<1>7. Addable(e, A) /\ Sum(e, A) = Sum(w, T)
  <2>1. \A x \in T : key[x] \in A
    BY <1>4
  <2> QED
    BY <1>3, <1>5, <1>6, <2>1, SumInGroups
<1> QED
  BY <1>3, <1>7 DEF A, T, S

LEMMA SumOfCampaigns ==
    ASSUME Market!DeliveryAssumption, NEW h, NEW w,
           \A x \in Market!Candidates(h) : w[x] \in Nat,
           NEW e, \A k \in Campaign : e[k] = Sum(w, OfCampaign(Market!Candidates(h), k))
    PROVE  Addable(e, Campaign) /\ Sum(e, Campaign) = Sum(w, Market!Candidates(h))
<1> DEFINE S == Market!Candidates(h)
           key == [x \in S |-> CampaignOf[GroupOf[x[1]]]]
<1>1. IsFiniteSet(S) /\ \A x \in S : CampaignOf[GroupOf[x[1]]] \in Campaign
  BY CandidatesAreAds
<1>2. IsFiniteSet(Campaign)
  BY DeliveryFacts
<1>3. Addable(w, S)
  BY <1>1, SumOfNaturals
<1> HIDE DEF S
<1>4. \A x \in S : key[x] \in Campaign
  BY <1>1
<1>5. \A k \in Campaign : e[k] = Sum(w, {x \in S : key[x] = k})
  <2> SUFFICES ASSUME NEW k \in Campaign PROVE OfCampaign(S, k) = {x \in S : key[x] = k}
    BY DEF S
  <2> QED
    BY DEF OfCampaign
<1> HIDE DEF key
<1>6. Addable(e, Campaign) /\ Sum(e, Campaign) = Sum(w, S)
  BY ONLY <1>2, <1>3, <1>4, <1>5, SumInGroups
<1> QED
  BY <1>6 DEF S

-----------------------------------------------------------------------------

\* Amounts, spend and the balance are natural numbers.
MarketTypes ==
    /\ hour \in Nat /\ balance \in Nat
    /\ settings \in [budget : [Campaign \cup Group -> Nat], on : SUBSET (Campaign \cup Group \cup Ad)]
    /\ ledger.lifetime \in [Campaign \cup Group -> Nat]
    /\ DOMAIN ledger.daily \subseteq Nat \X (Campaign \cup Group)
    /\ \A x \in DOMAIN ledger.daily : ledger.daily[x] \in Nat

\* What an entity may still spend is a natural number, and what spending it comes to.
LEMMA RemainingIs ==
    ASSUME Market!DeliveryAssumption, MarketTypes, NEW e \in Campaign \cup Group, NEW h
    PROVE  /\ Market!Remaining(e, h) \in Nat
           /\ Market!DailySpend(Market!Day(h), e) \in Nat
           /\ Mode[e] = "TOTAL" => \A a \in Nat : a <= Market!Remaining(e, h) /\ a # 0 =>
                 ledger.lifetime[e] + a <= settings.budget[e]
           /\ Mode[e] = "DAY" => \A a \in Nat : a <= Market!Remaining(e, h) /\ a # 0 =>
                 Market!DailySpend(Market!Day(h), e) + a <= settings.budget[e]
<1>1. settings.budget[e] \in Nat /\ ledger.lifetime[e] \in Nat
  BY DEF MarketTypes
<1>2. Market!DailySpend(Market!Day(h), e) \in Nat
  BY DEF MarketTypes, Market!DailySpend
<1> DEFINE b == settings.budget[e]
           l == ledger.lifetime[e]
           s == Market!DailySpend(Market!Day(h), e)
<1>3. Mode[e] \in {"DAY", "TOTAL", "NONE"} /\ Unlimited \in Nat
  BY DeliveryFacts
<1>4. Market!Remaining(e, h) = CASE Mode[e] = "TOTAL" -> Market!Max({0, b - l})
                                 [] Mode[e] = "DAY" -> Market!Max({0, b - s})
                                 [] OTHER -> Unlimited
  BY DEF Market!Remaining
<1> HIDE DEF b, l, s
<1>5. b \in Nat /\ l \in Nat /\ s \in Nat
  BY <1>1, <1>2 DEF b, l, s
<1>6. ASSUME NEW c \in Nat
      PROVE  /\ Market!Max({0, b - c}) \in Nat
             /\ \A a \in Nat : a <= Market!Max({0, b - c}) /\ a # 0 => c + a <= b
  <2> DEFINE m == Market!Max({0, b - c})
  <2>1. 0 \in Int /\ b - c \in Int
    BY <1>5
  <2>2. m \in {0, b - c} /\ m >= 0 /\ m >= b - c
    BY <2>1, MinOf
  <2> HIDE DEF m
  <2>3. m \in Nat /\ \A a \in Nat : a <= m /\ a # 0 => c + a <= b
    BY <1>5, <2>2
  <2> QED
    BY <2>3 DEF m
<1>7. CASE Mode[e] = "TOTAL"
  <2>1. Market!Remaining(e, h) = Market!Max({0, b - l})
    BY <1>4, <1>7
  <2> QED
    BY <1>5, <1>6, <1>7, <2>1 DEF b, l, s
<1>8. CASE Mode[e] = "DAY"
  <2>1. Market!Remaining(e, h) = Market!Max({0, b - s})
    BY <1>4, <1>8
  <2> QED
    BY <1>5, <1>6, <1>8, <2>1 DEF b, l, s
<1>9. CASE Mode[e] = "NONE"
  <2>1. Market!Remaining(e, h) = Unlimited
    BY <1>4, <1>9
  <2> QED
    BY <1>3, <1>5, <1>9, <2>1 DEF s
<1> QED
  BY <1>3, <1>7, <1>8, <1>9

\* Who competes has something left to spend.
LEMMA CandidatesHaveBudget ==
    ASSUME Market!DeliveryAssumption, MarketTypes, NEW h, NEW x \in Market!Candidates(h)
    PROVE  Market!Remaining(GroupOf[x[1]], h) > 0
<1> DEFINE g == GroupOf[x[1]]
           k == CampaignOf[g]
           r == Market!Remaining(g, h)
           q == Market!Remaining(k, h)
<1>1. g \in Group /\ k \in Campaign /\ Floor \in Nat
  BY CandidatesAreAds, DeliveryFacts
<1>2. r \in Nat /\ q \in Nat
  BY <1>1, RemainingIs
<1>3. Market!Min({r, q}) > Floor
  BY DEF Market!Candidates, Market!Eligible, Market!RemainingBudget
<1> HIDE DEF r, q
<1>4. r \in Int /\ q \in Int
  BY <1>2
<1>5. Market!Min({r, q}) <= r /\ Market!Min({r, q}) \in {r, q}
  BY <1>4, MinOf
<1> DEFINE m == Market!Min({r, q})
<1> HIDE DEF m
<1>6. m > Floor /\ m <= r /\ m \in {r, q}
  BY <1>3, <1>5 DEF m
<1>7. r > 0
  BY <1>1, <1>2, <1>6
<1> QED
  BY <1>7 DEF r

-----------------------------------------------------------------------------

LEMMA ScaledFits ==
    ASSUME Market!DeliveryAssumption, MarketTypes, NEW h, NEW p \in Costs, NEW d,
           DOMAIN d = Market!Candidates(h), \A x \in Market!Candidates(h) : d[x] \in Nat
    PROVE  LET S == Market!Candidates(h)
               s == Market!ScaledByBudgets(h, d, p)
           IN  /\ DOMAIN s = S /\ \A x \in S : s[x] \in Nat /\ s[x] <= d[x]
               /\ \A g \in Group : p * Sum(s, OfGroup(S, g)) <= Market!Remaining(g, h)
               /\ \A k \in Campaign : p * Sum(s, OfCampaign(S, k)) <= Market!Remaining(k, h)
<1> DEFINE S == Market!Candidates(h)
           s == Market!ScaledByBudgets(h, d, p)
           R(e) == Market!Remaining(e, h)
           W == [g \in Group |-> p * Sum(d, OfGroup(S, g))]
           G == [g \in Group |-> Market!Min({W[g], R(g)})]
           C == [k \in Campaign |-> Sum(G, GroupsOf(k))]
           K == [k \in Campaign |-> Market!Min({C[k], R(k)})]
           one(x) == IF d[x] = 0 THEN 0
                     ELSE (d[x] * G[GroupOf[x[1]]] * K[CampaignOf[GroupOf[x[1]]]])
                             \div (W[GroupOf[x[1]]] * C[CampaignOf[GroupOf[x[1]]]])
<1>1. s = [x \in S |-> one(x)]
  <2>1. W = [g \in Group |-> p * Market!Total(d, Market!InGroup(DOMAIN d, g))]
    BY TotalIsSum DEF Market!InGroup, OfGroup
  <2>2. C = [k \in Campaign |-> Market!Total(G, {g \in Group : CampaignOf[g] = k})]
    BY TotalIsSum DEF GroupsOf
  <2> DEFINE W1 == [g \in Group |-> p * Market!Total(d, Market!InGroup(DOMAIN d, g))]
             G1 == [g \in Group |-> Market!Min({W1[g], R(g)})]
             C1 == [k \in Campaign |-> Market!Total(G1, {g \in Group : CampaignOf[g] = k})]
             K1 == [k \in Campaign |-> Market!Min({C1[k], R(k)})]
  <2>3. s = [x \in DOMAIN d |->
                IF d[x] = 0 THEN 0
                ELSE (d[x] * G1[GroupOf[x[1]]] * K1[CampaignOf[GroupOf[x[1]]]])
                        \div (W1[GroupOf[x[1]]] * C1[CampaignOf[GroupOf[x[1]]]])]
    BY DEF Market!ScaledByBudgets
  <2>4. W1 = W
    BY <2>1
  <2> HIDE DEF W1
  <2>5. G1 = G
    BY <2>4
  <2> HIDE DEF G1
  <2>6. C1 = C
    BY <2>2, <2>5
  <2> HIDE DEF C1
  <2>7. K1 = K
    BY <2>6
  <2> HIDE DEF K1, s, S, W, G, C, K
  <2>8. DOMAIN d = S
    BY DEF S
  <2> QED
    BY <2>3, <2>4, <2>5, <2>6, <2>7, <2>8
<1>2. /\ p \in Nat \ {0} /\ CampaignOf \in [Group -> Campaign] /\ IsFiniteSet(S)
      /\ \A x \in S : d[x] \in Nat /\ GroupOf[x[1]] \in Group
  BY DeliveryFacts, CandidatesAreAds
<1>3. \A g \in Group : OfGroup(S, g) \subseteq S /\ IsFiniteSet(OfGroup(S, g))
  <2>1. \A g \in Group : OfGroup(S, g) \subseteq S
    BY DEF OfGroup
  <2> QED
    BY <1>2, <2>1, FS_Subset
<1> HIDE DEF S
<1>4. \A g \in Group : /\ W[g] \in Nat /\ R(g) \in Nat /\ G[g] \in Nat
                       /\ G[g] <= W[g] /\ G[g] <= R(g) /\ G[g] \in {W[g], R(g)}
  <2> SUFFICES ASSUME NEW g \in Group
               PROVE  /\ W[g] \in Nat /\ R(g) \in Nat /\ G[g] \in Nat
                      /\ G[g] <= W[g] /\ G[g] <= R(g) /\ G[g] \in {W[g], R(g)}
    OBVIOUS
  <2> DEFINE n == Sum(d, OfGroup(S, g))
  <2>1. \A x \in OfGroup(S, g) : d[x] \in Nat
    BY <1>2, <1>3
  <2>2. n \in Nat
    BY <1>3, <2>1, SumOfNaturals
  <2>3. R(g) \in Nat
    BY RemainingIs
  <2>4. W[g] = p * n /\ G[g] = Market!Min({W[g], R(g)})
    OBVIOUS
  <2> HIDE DEF n, R, W, G
  <2>5. W[g] \in Nat
    BY <1>2, <2>2, <2>4
  <2> DEFINE a == W[g]
             b == R(g)
  <2>6. a \in Int /\ b \in Int /\ a \in Nat /\ b \in Nat
    BY <2>3, <2>5
  <2>7. G[g] = Market!Min({a, b})
    BY <2>4
  <2> HIDE DEF a, b
  <2>8. G[g] \in {a, b} /\ G[g] <= a /\ G[g] <= b
    BY <2>6, <2>7, MinOf
  <2> QED
    BY <2>6, <2>8 DEF a, b
<1>5. \A k \in Campaign : IsFiniteSet(GroupsOf(k)) /\ GroupsOf(k) \subseteq Group
  <2>1. \A k \in Campaign : GroupsOf(k) \subseteq Group
    BY DEF GroupsOf
  <2> QED
    BY <2>1, DeliveryFacts, FS_Subset
<1>6. \A k \in Campaign : /\ C[k] \in Nat /\ R(k) \in Nat /\ K[k] \in Nat
                          /\ K[k] <= C[k] /\ K[k] <= R(k) /\ C[k] = Sum(G, GroupsOf(k))
  <2> SUFFICES ASSUME NEW k \in Campaign
               PROVE  /\ C[k] \in Nat /\ R(k) \in Nat /\ K[k] \in Nat
                      /\ K[k] <= C[k] /\ K[k] <= R(k) /\ C[k] = Sum(G, GroupsOf(k))
    OBVIOUS
  <2>1. C[k] = Sum(G, GroupsOf(k)) /\ K[k] = Market!Min({C[k], R(k)})
    OBVIOUS
  <2>2. R(k) \in Nat
    BY RemainingIs
  <2> HIDE DEF R, W, G, C, K
  <2>3. \A g \in GroupsOf(k) : G[g] \in Nat
    BY <1>4, <1>5
  <2>4. C[k] \in Nat
    BY <1>5, <2>1, <2>3, SumOfNaturals
  <2> DEFINE a == C[k]
             b == R(k)
  <2>5. a \in Int /\ b \in Int /\ a \in Nat /\ b \in Nat
    BY <2>2, <2>4
  <2>6. K[k] = Market!Min({a, b})
    BY <2>1
  <2> HIDE DEF a, b
  <2>7. K[k] \in {a, b} /\ K[k] <= a /\ K[k] <= b
    BY <2>5, <2>6, MinOf
  <2> QED
    BY <2>1, <2>5, <2>7 DEF a, b
<1>7. ASSUME NEW x \in S, d[x] # 0 PROVE C[CampaignOf[GroupOf[x[1]]]] # 0
  <2> DEFINE g == GroupOf[x[1]]
             k == CampaignOf[g]
             n == Sum(d, OfGroup(S, g))
  <2>1. g \in Group /\ k \in Campaign /\ W[g] = p * n
    BY <1>2
  <2>2. R(g) > 0
    BY CandidatesHaveBudget DEF S
  <2> HIDE DEF R, W, G, C, K
  <2>3. x \in OfGroup(S, g) /\ \A y \in OfGroup(S, g) : d[y] \in Nat
    BY <1>2, <1>3, <2>1 DEF OfGroup
  <2>4. d[x] <= n /\ n \in Nat /\ d[x] \in Nat
    <3>1. {x} \subseteq OfGroup(S, g) /\ d[x] \in Int
      BY <2>3
    <3>2. Sum(d, {x}) <= n /\ n \in Nat
      BY <1>3, <2>1, <2>3, <3>1, SumOfPart
    <3> QED
      BY <2>3, <3>1, <3>2, SumOfOne
  <2> HIDE DEF n
  <2>5. W[g] > 0
    <3>1. n \in Nat /\ n >= 1 /\ p \in Nat
      BY <1>2, <1>7, <2>4
    <3>2. p * 1 <= p * n /\ p * n \in Nat
      BY <3>1, TimesAtMost
    <3> QED
      BY <1>2, <2>1, <3>2
  <2> HIDE DEF g, k
  <2>6. G[g] > 0 /\ G[g] \in Nat
    BY <1>4, <2>1, <2>2, <2>5
  <2>7. g \in GroupsOf(k) /\ \A y \in GroupsOf(k) : G[y] \in Nat
    BY <1>4, <1>5, <2>1 DEF GroupsOf, k
  <2>8. G[g] <= C[k]
    <3>1. {g} \subseteq GroupsOf(k) /\ G[g] \in Int /\ IsFiniteSet(GroupsOf(k))
      BY <1>5, <2>1, <2>6, <2>7
    <3>2. Sum(G, {g}) <= Sum(G, GroupsOf(k))
      BY <2>7, <3>1, SumOfPart
    <3>3. Sum(G, {g}) = G[g]
      BY <3>1, SumOfOne
    <3> QED
      BY <1>6, <2>1, <3>2, <3>3
  <2>9. C[k] # 0
    BY <1>6, <2>1, <2>6, <2>8
  <2> QED
    BY <2>9 DEF g, k
<1>8. DOMAIN s = S /\ \A x \in S : s[x] = one(x)
  BY <1>1
<1> HIDE DEF s, W, G, C, K, R
<1>9. ASSUME NEW g \in Group
      PROVE  /\ \A x \in OfGroup(S, g) : s[x] \in Nat /\ s[x] <= d[x]
             /\ Sum(s, OfGroup(S, g)) \in Nat
             /\ (p * Sum(s, OfGroup(S, g))) * C[CampaignOf[g]] <= G[g] * K[CampaignOf[g]]
             /\ p * Sum(s, OfGroup(S, g)) <= G[g]
  <2> DEFINE I == OfGroup(S, g)
             k == CampaignOf[g]
  <2>1. k \in Campaign
    BY <1>2
  <2>2. \A x \in I : x \in S /\ GroupOf[x[1]] = g /\ d[x] \in Nat
    BY <1>2 DEF OfGroup
  <2>3. W[g] = p * Sum(d, I)
    BY DEF W
  <2>4. (\E x \in I : d[x] # 0) => C[k] # 0
    BY <1>7, <2>2
  <2>5. \A x \in I : s[x] = IF d[x] = 0 THEN 0 ELSE (d[x] * G[g] * K[k]) \div (W[g] * C[k])
    BY <1>8, <2>2
  <2>6. IsFiniteSet(I) /\ \A x \in I : d[x] \in Nat
    BY <1>3, <2>2
  <2>7. /\ p \in Nat \ {0} /\ G[g] \in Nat /\ K[k] \in Nat /\ C[k] \in Nat
        /\ G[g] <= W[g] /\ K[k] <= C[k]
    BY <1>2, <1>4, <1>6, <2>1
  <2> DEFINE a == G[g]
             b == W[g]
             c == C[k]
             q == K[k]
  <2>8. \A x \in I : s[x] = IF d[x] = 0 THEN 0 ELSE (d[x] * a * q) \div (b * c)
    BY <2>5
  <2>9. /\ p \in Nat \ {0} /\ a \in Nat /\ q \in Nat /\ c \in Nat /\ a <= b /\ q <= c
        /\ b = p * Sum(d, I) /\ ((\E x \in I : d[x] # 0) => c # 0)
    BY <2>3, <2>4, <2>7
  <2> HIDE DEF I, k, a, b, c, q
  <2>10. /\ \A x \in I : s[x] \in Nat /\ s[x] <= d[x]
         /\ Sum(s, I) \in Nat
         /\ (p * Sum(s, I)) * c <= a * q
         /\ p * Sum(s, I) <= a
    BY ONLY <2>6, <2>8, <2>9, GroupScaled
  <2> QED
    BY <2>10 DEF I, k, a, c, q
<1>10. ASSUME NEW x \in S PROVE s[x] \in Nat /\ s[x] <= d[x]
  <2> DEFINE g == GroupOf[x[1]]
  <2>1. g \in Group /\ x \in OfGroup(S, g)
    BY <1>2 DEF OfGroup
  <2> HIDE DEF g
  <2> QED
    BY <1>9, <2>1
<1>11. ASSUME NEW g \in Group PROVE p * Sum(s, OfGroup(S, g)) <= R(g)
  <2> DEFINE t == p * Sum(s, OfGroup(S, g))
  <2>1. t <= G[g] /\ t \in Nat
    BY <1>2, <1>9
  <2> HIDE DEF t
  <2>2. t <= R(g)
    BY <1>4, <2>1
  <2> QED
    BY <2>2 DEF t
<1>12. ASSUME NEW k \in Campaign PROVE p * Sum(s, OfCampaign(S, k)) <= R(k)
  <2> DEFINE e == [g \in Group |-> Sum(s, OfGroup(S, g))]
             t == [g \in Group |-> p * e[g]]
             A == GroupsOf(k)
  <2>1. IsFiniteSet(A) /\ Addable(e, A) /\ Sum(e, A) = Sum(s, OfCampaign(S, k))
    <3>1. \A g \in GroupsOf(k) : e[g] = Sum(s, OfGroup(S, g))
      BY <1>5
    <3>2. \A x \in S : s[x] \in Nat
      BY <1>10
    <3> HIDE DEF e
    <3> QED
      BY <3>1, <3>2, SumOfGroups DEF S
  <2>2. \A g \in A : g \in Group /\ CampaignOf[g] = k
    BY DEF GroupsOf
  <2>3. \A g \in A : /\ t[g] = p * e[g] /\ e[g] = Sum(s, OfGroup(S, g))
    BY <2>2
  <2>4. ASSUME NEW g \in A
        PROVE  /\ G[g] \in Nat /\ t[g] \in Nat
               /\ t[g] * C[k] <= G[g] * K[k] /\ t[g] <= G[g]
    <3>1. g \in Group /\ CampaignOf[g] = k /\ t[g] = p * Sum(s, OfGroup(S, g))
      BY <2>2, <2>3
    <3>2. Sum(s, OfGroup(S, g)) \in Nat
      BY <1>9, <3>1
    <3>3. t[g] \in Nat
      BY <1>2, <3>1, <3>2
    <3>4. (p * Sum(s, OfGroup(S, g))) * C[CampaignOf[g]] <= G[g] * K[CampaignOf[g]]
          /\ p * Sum(s, OfGroup(S, g)) <= G[g]
      BY <1>9, <3>1
    <3> HIDE DEF t, A
    <3> QED
      BY <1>4, <3>1, <3>3, <3>4
  <2>5. Sum(t, A) = p * Sum(e, A)
    <3>1. (\A g \in A : t[g] = p * e[g]) /\ p \in Int
      BY <1>2, <2>3
    <3> HIDE DEF t, e, A
    <3> QED
      BY <2>1, <3>1, SumTimes
  <2> HIDE DEF t, e, A
  <2>6. Sum(t, A) <= K[k]
    <3>1. K[k] \in Nat /\ K[k] <= C[k] /\ C[k] = Sum(G, A)
      BY <1>6 DEF A
    <3>2. \A g \in A : G[g] \in Nat /\ t[g] \in Nat
      BY <2>4
    <3>3. \A g \in A : t[g] * C[k] <= G[g] * K[k] /\ t[g] <= G[g]
      BY <2>4
    <3> QED
      BY ONLY <2>1, <3>1, <3>2, <3>3, CampaignScaled
  <2> DEFINE z == p * Sum(s, OfCampaign(S, k))
  <2>7. z = Sum(t, A)
    BY <2>1, <2>5
  <2>8. Sum(t, A) \in Nat
    <3>1. \A g \in A : t[g] \in Nat
      BY <2>4
    <3> QED
      BY <2>1, <3>1, SumOfNaturals
  <2> HIDE DEF z
  <2>9. z <= R(k)
    BY <1>6, <2>6, <2>7, <2>8
  <2> QED
    BY <2>9 DEF z
<1> QED
  BY <1>8, <1>10, <1>11, <1>12 DEF S, s, R

\* What is shown of what is wished for: a budget is a bound of those who share it.
LEMMA ShownWithin ==
    ASSUME Market!DeliveryAssumption, MarketTypes, NEW h, NEW p \in Costs, NEW d,
           DOMAIN d = Market!Candidates(h), \A x \in Market!Candidates(h) : d[x] \in Nat
    PROVE  LET S == Market!Candidates(h)
               v == Market!WithinBudgets(h, d, p)
           IN  /\ DOMAIN v = S /\ \A x \in S : v[x] \in Nat /\ v[x] <= d[x]
               /\ \A g \in Group : p * Sum(v, OfGroup(S, g)) <= Market!Remaining(g, h)
               /\ \A k \in Campaign : p * Sum(v, OfCampaign(S, k)) <= Market!Remaining(k, h)
               /\ p * Sum(v, S) <= balance
<1> DEFINE S == Market!Candidates(h)
           s == Market!ScaledByBudgets(h, d, p)
           v == Market!WithinBudgets(h, d, p)
           R(e) == Market!Remaining(e, h)
           bill == p * Sum(s, S)
<1>1. /\ DOMAIN s = S /\ \A x \in S : s[x] \in Nat /\ s[x] <= d[x]
      /\ \A g \in Group : p * Sum(s, OfGroup(S, g)) <= R(g)
      /\ \A k \in Campaign : p * Sum(s, OfCampaign(S, k)) <= R(k)
  BY ScaledFits
<1>2. v = IF bill <= balance THEN s ELSE [x \in S |-> (s[x] * balance) \div bill]
  BY <1>1, TotalIsSum DEF Market!WithinBudgets
<1>3. p \in Nat \ {0} /\ balance \in Nat /\ IsFiniteSet(S)
  BY DeliveryFacts, CandidatesAreAds DEF MarketTypes
<1>4. \A x \in S : d[x] \in Nat
  OBVIOUS
<1> HIDE DEF S, s, v
<1>5. Sum(s, S) \in Nat /\ bill \in Nat
  <2>1. Sum(s, S) \in Nat
    BY <1>1, <1>3, SumOfNaturals
  <2> QED
    BY <1>3, <2>1
<1>6. DOMAIN v = S /\ (\A x \in S : v[x] \in Nat /\ v[x] <= s[x]) /\ p * Sum(v, S) <= balance
  <2>1. CASE bill <= balance
    <3>1. v = s
      BY <1>2, <2>1
    <3> QED
      BY <1>1, <2>1, <3>1
  <2>2. CASE ~(bill <= balance)
    <3>1. v = [x \in S |-> (s[x] * balance) \div bill]
      BY <1>2, <2>2
    <3> DEFINE a == balance
               b == bill
    <3>2. b \in Nat /\ a \in Nat /\ a <= b /\ b = p * Sum(s, S)
      BY <1>3, <1>5, <2>2
    <3>3. DOMAIN v = S /\ \A x \in S : v[x] = (s[x] * a) \div b
      BY <3>1
    <3>4. b # 0
      BY <1>3, <1>5, <2>2
    <3> HIDE DEF a, b, bill
    <3>5. ASSUME NEW x \in S
          PROVE  v[x] = IF s[x] = 0 THEN 0 ELSE (s[x] * a * 1) \div (b * 1)
      <4>1. s[x] \in Nat /\ v[x] = (s[x] * a) \div b
        BY <1>1, <3>3
      <4> DEFINE c == s[x]
                 m == c * a
      <4> HIDE DEF c
      <4>2. m \in Nat /\ m * 1 = m /\ b * 1 = b
        BY <3>2, <4>1 DEF c
      <4>3. c = 0 => m = 0
        BY <3>2
      <4> HIDE DEF m
      <4>4. c = 0 => m \div b = 0
        BY <3>2, <3>4, <4>3
      <4>5. v[x] = m \div b /\ m * 1 = c * a * 1
        BY <4>1 DEF c, m
      <4> QED
        BY <4>2, <4>4, <4>5 DEF c
    <3>6. \A x \in S : s[x] \in Nat
      BY <1>1
    <3> DEFINE u == 1
    <3>7. \A x \in S : v[x] = IF s[x] = 0 THEN 0 ELSE (s[x] * a * u) \div (b * u)
      BY <3>5
    <3>8. /\ p \in Nat \ {0} /\ a \in Nat /\ u \in Nat /\ a <= b /\ u <= u /\ b = p * Sum(s, S)
          /\ IsFiniteSet(S) /\ ((\E x \in S : s[x] # 0) => u # 0)
      BY <1>3, <3>2
    <3> HIDE DEF u
    <3>9. /\ \A x \in S : v[x] \in Nat /\ v[x] <= s[x]
          /\ Sum(v, S) \in Nat
          /\ (p * Sum(v, S)) * u <= a * u
          /\ p * Sum(v, S) <= a
      BY ONLY <3>6, <3>7, <3>8, GroupScaled
    <3> QED
      BY <3>3, <3>9 DEF a
  <2> QED
    BY <2>1, <2>2
<1>7. ASSUME NEW T, T \subseteq S, NEW r \in Nat, p * Sum(s, T) <= r PROVE p * Sum(v, T) <= r
  <2>1. IsFiniteSet(T) /\ (\A x \in T : v[x] \in Nat) /\ (\A x \in T : s[x] \in Nat)
    BY <1>1, <1>3, <1>6, <1>7, FS_Subset
  <2>2. Addable(v, T) /\ Sum(v, T) \in Nat
    BY <2>1, SumOfNaturals
  <2>3. Addable(s, T) /\ Sum(s, T) \in Nat
    BY <2>1, SumOfNaturals
  <2>4. \A x \in T : v[x] <= s[x]
    BY <1>6, <1>7
  <2>5. Sum(v, T) <= Sum(s, T)
    BY <2>2, <2>3, <2>4, SumAtMost
  <2> DEFINE a == Sum(v, T)
             b == Sum(s, T)
  <2>6. a \in Nat /\ b \in Nat /\ a <= b
    BY <2>2, <2>3, <2>5
  <2>7. p * b <= r
    BY <1>7
  <2> HIDE DEF a, b
  <2>8. p * a <= p * b /\ p * a \in Nat /\ p * b \in Nat
    BY <1>3, <2>6, TimesAtMost
  <2>9. p * a <= r
    BY <1>7, <2>7, <2>8
  <2> QED
    BY <2>9 DEF a
<1>8. ASSUME NEW x \in S PROVE v[x] \in Nat /\ v[x] <= d[x]
  BY <1>1, <1>4, <1>6
<1>9. ASSUME NEW g \in Group PROVE p * Sum(v, OfGroup(S, g)) <= R(g)
  <2>1. OfGroup(S, g) \subseteq S /\ R(g) \in Nat /\ p * Sum(s, OfGroup(S, g)) <= R(g)
    BY <1>1, RemainingIs DEF OfGroup
  <2> HIDE DEF R
  <2> QED
    BY <1>7, <2>1
<1>10. ASSUME NEW k \in Campaign PROVE p * Sum(v, OfCampaign(S, k)) <= R(k)
  <2>1. OfCampaign(S, k) \subseteq S /\ R(k) \in Nat /\ p * Sum(s, OfCampaign(S, k)) <= R(k)
    BY <1>1, RemainingIs DEF OfCampaign
  <2> HIDE DEF R
  <2> QED
    BY <1>7, <2>1
<1> QED
  BY <1>6, <1>8, <1>9, <1>10 DEF S, v

Shown(won, p) == Market!WithinBudgets(hour, Market!Desired(won), p)

\* What an hour shows: within every budget, within the balance, within the inventory.
LEMMA HourShows ==
    ASSUME Market!DeliveryAssumption, MarketTypes,
           NEW won \in Market!AuctionOutcomes(hour), NEW p \in Costs
    PROVE  LET S == Market!Candidates(hour)
               v == Shown(won, p)
           IN  /\ DOMAIN v = S /\ \A x \in S : v[x] \in Nat
               /\ \A g \in Group : p * Sum(v, OfGroup(S, g)) <= Market!Remaining(g, hour)
               /\ \A k \in Campaign : p * Sum(v, OfCampaign(S, k)) <= Market!Remaining(k, hour)
               /\ p * Sum(v, S) <= balance
               /\ \A c \in Cohort : /\ Sum(v, OfCohort(S, c)) \in Nat
                                    /\ Sum(v, OfCohort(S, c)) <= Opportunities
<1> DEFINE S == Market!Candidates(hour)
           d == Market!Desired(won)
           v == Shown(won, p)
<1>1. /\ DOMAIN d = S /\ \A x \in S : d[x] \in Nat
      /\ \A c \in Cohort : Sum(d, OfCohort(S, c)) <= Opportunities
  BY DesiredFits
<1>2. /\ DOMAIN v = S /\ \A x \in S : v[x] \in Nat /\ v[x] <= d[x]
      /\ \A g \in Group : p * Sum(v, OfGroup(S, g)) <= Market!Remaining(g, hour)
      /\ \A k \in Campaign : p * Sum(v, OfCampaign(S, k)) <= Market!Remaining(k, hour)
      /\ p * Sum(v, S) <= balance
  BY <1>1, ShownWithin DEF Shown
<1>3. IsFiniteSet(S) /\ Opportunities \in Nat
  BY CandidatesAreAds, DeliveryFacts
<1> HIDE DEF S, d, v
<1>4. ASSUME NEW c \in Cohort
      PROVE  Sum(v, OfCohort(S, c)) \in Nat /\ Sum(v, OfCohort(S, c)) <= Opportunities
  <2> DEFINE T == OfCohort(S, c)
  <2>1. T \subseteq S
    BY DEF OfCohort
  <2> HIDE DEF T
  <2>2. IsFiniteSet(T) /\ (\A x \in T : v[x] \in Nat) /\ (\A x \in T : d[x] \in Nat)
    BY <1>1, <1>2, <1>3, <2>1, FS_Subset
  <2>3. Addable(v, T) /\ Sum(v, T) \in Nat
    BY <2>2, SumOfNaturals
  <2>4. Addable(d, T) /\ Sum(d, T) \in Nat
    BY <2>2, SumOfNaturals
  <2>5. \A x \in T : v[x] <= d[x]
    BY <1>2, <2>1
  <2>6. Sum(v, T) <= Sum(d, T)
    BY <2>3, <2>4, <2>5, SumAtMost
  <2>7. Sum(d, T) <= Opportunities
    BY <1>1 DEF T
  <2> QED
    BY <1>3, <2>3, <2>4, <2>6, <2>7 DEF T
<1> QED
  BY <1>2, <1>4 DEF S, v

-----------------------------------------------------------------------------
(***************************************************************************)
(* What is shown, and the books.                                           *)
(***************************************************************************)

\* What an entity spends when v is shown at the price p.
SpentOf(v, p, e) ==
    Market!Total([x \in DOMAIN v |-> v[x] * p],
                 Market!InGroup(DOMAIN v, e) \cup Market!InCampaign(DOMAIN v, e))

LEMMA SpentIs ==
    ASSUME Market!DeliveryAssumption, NEW h, NEW p \in Nat, NEW v,
           DOMAIN v = Market!Candidates(h), \A x \in Market!Candidates(h) : v[x] \in Nat
    PROVE  LET S == Market!Candidates(h)
           IN  /\ \A g \in Group : SpentOf(v, p, g) = p * Sum(v, OfGroup(S, g))
               /\ \A k \in Campaign : SpentOf(v, p, k) = p * Sum(v, OfCampaign(S, k))
               /\ \A e \in Campaign \cup Group : SpentOf(v, p, e) \in Nat
               /\ Market!Total([x \in DOMAIN v |-> v[x] * p], DOMAIN v) = p * Sum(v, S)
               /\ p * Sum(v, S) \in Nat
<1> DEFINE S == Market!Candidates(h)
           w == [x \in DOMAIN v |-> v[x] * p]
<1>1. /\ IsFiniteSet(S) /\ \A x \in S : GroupOf[x[1]] \in Group /\ CampaignOf[GroupOf[x[1]]] \in Campaign
  BY CandidatesAreAds
<1>2. Campaign \cap Group = {} /\ DOMAIN v = S /\ \A x \in S : v[x] \in Nat
  BY DeliveryFacts
<1> HIDE DEF S
<1>3. \A x \in S : w[x] = p * v[x]
  <2> SUFFICES ASSUME NEW x \in S PROVE v[x] * p = p * v[x]
    BY <1>2
  <2> QED
    BY <1>2
<1> HIDE DEF w
<1>4. ASSUME NEW T, T \subseteq S
      PROVE  Market!Total(w, T) = p * Sum(v, T) /\ p * Sum(v, T) \in Nat
  <2>1. IsFiniteSet(T) /\ \A x \in T : v[x] \in Nat
    BY <1>1, <1>2, <1>4, FS_Subset
  <2>2. Addable(v, T) /\ Sum(v, T) \in Nat
    BY <2>1, SumOfNaturals
  <2>3. \A x \in T : w[x] = p * v[x]
    BY <1>3, <1>4
  <2>4. Sum(w, T) = p * Sum(v, T)
    <3>1. p \in Int
      OBVIOUS
    <3> QED
      BY ONLY <2>2, <2>3, <3>1, SumTimes
  <2>5. p * Sum(v, T) \in Nat
    BY <2>2
  <2> QED
    BY <2>4, <2>5, TotalIsSum
<1>5. ASSUME NEW g \in Group
      PROVE  SpentOf(v, p, g) = p * Sum(v, OfGroup(S, g)) /\ SpentOf(v, p, g) \in Nat
  <2>1. Market!InCampaign(DOMAIN v, g) = {} /\ Market!InGroup(DOMAIN v, g) = OfGroup(S, g)
    BY <1>1, <1>2 DEF Market!InCampaign, Market!InGroup, OfGroup
  <2>2. SpentOf(v, p, g) = Market!Total(w, OfGroup(S, g))
    BY <2>1 DEF SpentOf, w
  <2>3. OfGroup(S, g) \subseteq S
    BY DEF OfGroup
  <2> QED
    BY <1>4, <2>2, <2>3
<1>6. ASSUME NEW k \in Campaign
      PROVE  SpentOf(v, p, k) = p * Sum(v, OfCampaign(S, k)) /\ SpentOf(v, p, k) \in Nat
  <2>1. Market!InCampaign(DOMAIN v, k) = OfCampaign(S, k) /\ Market!InGroup(DOMAIN v, k) = {}
    BY <1>1, <1>2 DEF Market!InCampaign, Market!InGroup, OfCampaign
  <2>2. SpentOf(v, p, k) = Market!Total(w, OfCampaign(S, k))
    BY <2>1 DEF SpentOf, w
  <2>3. OfCampaign(S, k) \subseteq S
    BY DEF OfCampaign
  <2> QED
    BY <1>4, <2>2, <2>3
<1>7. Market!Total(w, DOMAIN v) = p * Sum(v, S) /\ p * Sum(v, S) \in Nat
  BY <1>2, <1>4
<1> QED
  BY <1>5, <1>6, <1>7 DEF S, w

LEMMA DayIs ==
    ASSUME Market!DeliveryAssumption, MarketTypes PROVE Market!Day(hour) \in Nat
<1>1. hour \in Nat /\ DayHours \in Nat \ {0}
  BY DeliveryFacts DEF MarketTypes
<1> QED
  BY <1>1, Divided DEF Market!Day

\* What the books say after an hour.
LEMMA BookIs ==
    ASSUME Market!DeliveryAssumption, MarketTypes, NEW p \in Nat, NEW v,
           \A e \in Campaign \cup Group : SpentOf(v, p, e) \in Nat
    PROVE  LET L == Market!Book(hour, [x \in DOMAIN v |-> v[x] * p])
           IN  /\ L.lifetime = [e \in Campaign \cup Group |-> ledger.lifetime[e] + SpentOf(v, p, e)]
               /\ L.lifetime \in [Campaign \cup Group -> Nat]
               /\ DOMAIN L.daily \subseteq Nat \X (Campaign \cup Group)
               /\ \A x \in DOMAIN L.daily : L.daily[x] \in Nat
               /\ \A e \in Campaign \cup Group :
                     L.daily[<<Market!Day(hour), e>>]
                         = Market!DailySpend(Market!Day(hour), e) + SpentOf(v, p, e)
<1> DEFINE L == Market!Book(hour, [x \in DOMAIN v |-> v[x] * p])
           E == Campaign \cup Group
           t == Market!Day(hour)
           of(e) == SpentOf(v, p, e)
           keys == {<<t, e>> : e \in E}
           kept == {x \in DOMAIN ledger.daily : x[1] >= t - 2}
           old(x) == IF x \in kept THEN ledger.daily[x] ELSE 0
           new(x) == IF x[1] = t THEN of(x[2]) ELSE 0
<1>1. t \in Nat
  BY DayIs
<1>2. /\ L.lifetime = [e \in E |-> ledger.lifetime[e] + of(e)]
      /\ L.daily = [x \in kept \cup keys |-> old(x) + new(x)]
  BY DEF Market!Book, Market!Entity, SpentOf
<1> HIDE DEF L
<1>3. /\ ledger.lifetime \in [E -> Nat] /\ DOMAIN ledger.daily \subseteq Nat \X E
      /\ \A x \in DOMAIN ledger.daily : ledger.daily[x] \in Nat
  BY DEF MarketTypes
<1>4. \A e \in E : of(e) \in Nat
  OBVIOUS
<1> HIDE DEF t, of
<1>5. L.lifetime \in [E -> Nat]
  BY <1>2, <1>3, <1>4
<1>6. kept \cup keys \subseteq Nat \X E
  BY <1>1, <1>3
<1>7. \A x \in kept \cup keys : old(x) \in Nat
  BY <1>3
<1>8. \A x \in kept \cup keys : new(x) \in Nat
  <2> SUFFICES ASSUME NEW x \in kept \cup keys PROVE new(x) \in Nat
    OBVIOUS
  <2>1. x[2] \in E
    BY <1>6
  <2> QED
    BY <1>4, <2>1
<1>9. ASSUME NEW e \in E PROVE L.daily[<<t, e>>] = Market!DailySpend(t, e) + of(e)
  <2> DEFINE x == <<t, e>>
  <2>1. x \in keys /\ x[1] = t /\ x[2] = e
    OBVIOUS
  <2>2. x \in kept <=> x \in DOMAIN ledger.daily
    <3>1. t >= t - 2
      BY <1>1
    <3> QED
      BY <2>1, <3>1
  <2>3. Market!DailySpend(t, e) = IF x \in DOMAIN ledger.daily THEN ledger.daily[x] ELSE 0
    BY DEF Market!DailySpend
  <2>4. old(x) = Market!DailySpend(t, e) /\ new(x) = of(e)
    BY <2>1, <2>2, <2>3
  <2> HIDE DEF keys, kept, old, new, x
  <2> QED
    BY <1>2, <2>1, <2>4 DEF x
<1> HIDE DEF keys, kept, old, new
<1>10. \A x \in DOMAIN L.daily : L.daily[x] \in Nat
  <2> SUFFICES ASSUME NEW x \in kept \cup keys PROVE old(x) + new(x) \in Nat
    BY <1>2
  <2> QED
    BY <1>7, <1>8
<1> QED
  BY <1>2, <1>5, <1>6, <1>9, <1>10 DEF t, of, L

-----------------------------------------------------------------------------

\* The spend of what is shown, and what a cohort sees of it.
Spending(v, p) == [x \in DOMAIN v |-> v[x] * p]
SeenOf(v, c) == Market!Total(v, OfCohort(DOMAIN v, c))

\* The hour that is delivered, as its callers see it.
LEMMA DeliverIs ==
    ASSUME NEW won, NEW p, Market!Deliver(won, p)
    PROVE  /\ hour' = hour + 1
           /\ ledger' = Market!Book(hour, Spending(Shown(won, p), p))
           /\ balance' = balance - Market!Total(Spending(Shown(won, p), p), DOMAIN Shown(won, p))
           /\ learning' = [g \in Group |->
                  [Market!Learned(g) EXCEPT
                      !.clicks = @ + Market!Total(Shown(won, p),
                                                  Market!InGroup(DOMAIN Shown(won, p), g))]]
           /\ cohorts' = [c \in Cohort |->
                 [impressions |-> cohorts[c].impressions + SeenOf(Shown(won, p), c),
                  reached |-> cohorts[c].reached
                                 + NewUsers(SeenOf(Shown(won, p), c),
                                            Reachable - cohorts[c].reached)]]
           /\ last' = [shown |-> Shown(won, p), settings |-> settings]
           /\ UNCHANGED <<settings, edits>>
  BY DEF Market!Deliver, Shown, OfCohort, Spending, SeenOf

\* The spend of an hour.
LEMMA HourSpends ==
    ASSUME Market!DeliveryAssumption, MarketTypes,
           NEW won \in Market!AuctionOutcomes(hour), NEW p \in Costs, Market!Deliver(won, p)
    PROVE  LET v == Shown(won, p)
               S == Market!Candidates(hour)
           IN  /\ ledger'.lifetime = [e \in Campaign \cup Group |-> ledger.lifetime[e] + SpentOf(v, p, e)]
               /\ ledger'.lifetime \in [Campaign \cup Group -> Nat]
               /\ DOMAIN ledger'.daily \subseteq Nat \X (Campaign \cup Group)
               /\ \A x \in DOMAIN ledger'.daily : ledger'.daily[x] \in Nat
               /\ \A e \in Campaign \cup Group :
                     /\ SpentOf(v, p, e) \in Nat /\ SpentOf(v, p, e) <= Market!Remaining(e, hour)
                     /\ ledger'.daily[<<Market!Day(hour), e>>]
                           = Market!DailySpend(Market!Day(hour), e) + SpentOf(v, p, e)
               /\ \A g \in Group : SpentOf(v, p, g) = p * Sum(v, OfGroup(S, g))
               /\ \A k \in Campaign : SpentOf(v, p, k) = p * Sum(v, OfCampaign(S, k))
               /\ balance' = balance - p * Sum(v, S) /\ p * Sum(v, S) \in Nat /\ p * Sum(v, S) <= balance
<1> DEFINE v == Shown(won, p)
           S == Market!Candidates(hour)
           spent == [x \in DOMAIN v |-> v[x] * p]
<1>1. /\ DOMAIN v = S /\ \A x \in S : v[x] \in Nat
      /\ \A g \in Group : p * Sum(v, OfGroup(S, g)) <= Market!Remaining(g, hour)
      /\ \A k \in Campaign : p * Sum(v, OfCampaign(S, k)) <= Market!Remaining(k, hour)
      /\ p * Sum(v, S) <= balance
  BY HourShows
<1>2. p \in Nat
  BY DeliveryFacts
<1>3. ledger' = Market!Book(hour, spent) /\ balance' = balance - Market!Total(spent, DOMAIN v)
  BY DeliverIs DEF Spending
<1> HIDE DEF v
<1>4. /\ \A g \in Group : SpentOf(v, p, g) = p * Sum(v, OfGroup(S, g))
      /\ \A k \in Campaign : SpentOf(v, p, k) = p * Sum(v, OfCampaign(S, k))
      /\ \A e \in Campaign \cup Group : SpentOf(v, p, e) \in Nat
      /\ Market!Total(spent, DOMAIN v) = p * Sum(v, S)
      /\ p * Sum(v, S) \in Nat
  BY <1>1, <1>2, SpentIs
<1> DEFINE L == Market!Book(hour, [x \in DOMAIN v |-> v[x] * p])
<1>5. ledger' = L
  BY <1>3
<1> HIDE DEF spent, S
<1>6. \A e \in Campaign \cup Group : SpentOf(v, p, e) \in Nat
  BY <1>4
<1>7. /\ L.lifetime = [e \in Campaign \cup Group |-> ledger.lifetime[e] + SpentOf(v, p, e)]
      /\ L.lifetime \in [Campaign \cup Group -> Nat]
      /\ DOMAIN L.daily \subseteq Nat \X (Campaign \cup Group)
      /\ \A x \in DOMAIN L.daily : L.daily[x] \in Nat
      /\ \A e \in Campaign \cup Group :
            L.daily[<<Market!Day(hour), e>>] = Market!DailySpend(Market!Day(hour), e) + SpentOf(v, p, e)
  BY <1>2, <1>6, BookIs
<1> HIDE DEF L
<1>8. \A e \in Campaign \cup Group : SpentOf(v, p, e) <= Market!Remaining(e, hour)
  BY <1>1, <1>4
<1>9. balance' = balance - p * Sum(v, S)
  BY <1>3, <1>4
<1> QED
  BY <1>1, <1>4, <1>5, <1>7, <1>8, <1>9 DEF v, S

\* A step is a delivered hour or an approved edit, which touches settings only.
LEMMA MarketSteps ==
    ASSUME Market!DeliveryAssumption, MarketTypes, [Market!Next]_Market!vars
    PROVE  \/ \E won \in Market!AuctionOutcomes(hour), p \in Costs : Market!Deliver(won, p)
           \/ /\ UNCHANGED <<hour, ledger, cohorts, learning, balance, last>>
              /\ settings' \in [budget : [Campaign \cup Group -> Nat],
                                on : SUBSET (Campaign \cup Group \cup Ad)]
<1>1. /\ settings \in [budget : [Campaign \cup Group -> Nat],
                       on : SUBSET (Campaign \cup Group \cup Ad)]
      /\ Amounts \subseteq Nat
  BY DeliveryFacts DEF MarketTypes
<1>2. CASE UNCHANGED Market!vars
  BY <1>1, <1>2 DEF Market!vars
<1>3. ASSUME NEW e \in Market!Entity, NEW b \in Amounts, Market!SetBudget(e, b)
      PROVE  /\ UNCHANGED <<hour, ledger, cohorts, learning, balance, last>>
             /\ settings' \in [budget : [Campaign \cup Group -> Nat],
                               on : SUBSET (Campaign \cup Group \cup Ad)]
  <2>1. /\ settings' = [settings EXCEPT !.budget[e] = b] /\ b \in Nat
        /\ UNCHANGED <<hour, ledger, cohorts, learning, balance, last>>
    BY <1>1, <1>3 DEF Market!SetBudget
  <2> QED
    BY <1>1, <2>1 DEF Market!Entity
<1>4. ASSUME NEW e \in Market!Entity \cup Ad, Market!SetStatus(e)
      PROVE  /\ UNCHANGED <<hour, ledger, cohorts, learning, balance, last>>
             /\ settings' \in [budget : [Campaign \cup Group -> Nat],
                               on : SUBSET (Campaign \cup Group \cup Ad)]
  <2>1. /\ settings' = [settings EXCEPT !.on = IF e \in @ THEN @ \ {e} ELSE @ \cup {e}]
        /\ UNCHANGED <<hour, ledger, cohorts, learning, balance, last>>
    BY <1>4 DEF Market!SetStatus
  <2>2. e \in Campaign \cup Group \cup Ad
    BY DEF Market!Entity
  <2> QED
    BY <1>1, <2>1, <2>2
<1> QED
  BY <1>2, <1>3, <1>4 DEF Market!Next

-----------------------------------------------------------------------------
(***************************************************************************)
(* The invariant, and the theorems.                                        *)
(***************************************************************************)

\* The balance is what was paid less what was spent, and a campaign's spend its groups'.
PaidFor ==
    /\ StartBalance - balance = Sum(ledger.lifetime, Campaign)
    /\ \A k \in Campaign : ledger.lifetime[k] = Sum(ledger.lifetime, GroupsOf(k))

\* The last hour sold what there was, and users that are reached were there to be.
Sold ==
    /\ \A c \in Cohort : Sum(last.shown, OfCohort(DOMAIN last.shown, c)) <= Opportunities
    /\ \A c \in Cohort : /\ cohorts[c].impressions \in Nat /\ cohorts[c].reached \in Nat
                         /\ cohorts[c].reached <= Reachable
                         /\ cohorts[c].reached <= cohorts[c].impressions

\* A group learned with its daily budget in force in the last hour.
LearnedWith ==
    \A g \in Group :
        /\ learning[g].clicks \in Nat
        /\ \/ learning[g].budget = 0
           \/ learning[g].budget = IF Mode[g] = "DAY" THEN last.settings.budget[g] ELSE Unlimited

Trading == MarketTypes /\ PaidFor /\ Sold /\ LearnedWith

LEMMA InitTrading ==
    ASSUME Market!DeliveryAssumption, Market!Init PROVE Trading
<1> DEFINE E == Campaign \cup Group
<1>1. /\ hour = 0 /\ balance = StartBalance
      /\ settings = [budget |-> [e \in E |-> StartAmount], on |-> Campaign \cup Group \cup Ad]
      /\ ledger = [daily |-> <<>>, lifetime |-> [e \in E |-> 0]]
      /\ cohorts = [c \in Cohort |-> [impressions |-> 0, reached |-> 0]]
      /\ learning = [g \in Group |-> [budget |-> 0, clicks |-> 0]]
      /\ last = [shown |-> <<>>, settings |-> settings]
  BY DEF Market!Init, Market!Entity
<1>2. /\ StartBalance \in Nat /\ StartAmount \in Nat /\ Reachable \in Nat /\ Opportunities \in Nat
      /\ IsFiniteSet(Campaign) /\ IsFiniteSet(Group)
  BY DeliveryFacts
<1>3. MarketTypes
  <2>1. ledger.lifetime = [e \in E |-> 0] /\ DOMAIN ledger.daily = {}
    BY <1>1
  <2>2. ledger.lifetime \in [E -> Nat]
    BY <2>1
  <2> QED
    BY <1>1, <1>2, <2>1, <2>2 DEF MarketTypes
<1>4. PaidFor
  <2> DEFINE l == ledger.lifetime
  <2>1. \A e \in E : l[e] = 0
    BY <1>1
  <2> HIDE DEF l
  <2>2. ASSUME NEW T, T \subseteq E, IsFiniteSet(T) PROVE Sum(l, T) = 0
    <3>1. Addable(l, T) /\ Sum(l, T) \in Nat
      BY <2>1, <2>2, SumOfNaturals
    <3>2. (\A x \in T : l[x] = 0 * l[x]) /\ 0 \in Int
      BY <2>1, <2>2
    <3>3. Sum(l, T) = 0 * Sum(l, T)
      BY ONLY <3>1, <3>2, SumTimes
    <3> DEFINE n == Sum(l, T)
    <3> HIDE DEF n
    <3>4. n \in Nat /\ n = 0 * n
      BY <3>1, <3>3 DEF n
    <3>5. n = 0
      BY <3>4
    <3> QED
      BY <3>5 DEF n
  <2>3. Sum(l, Campaign) = 0
    BY <1>2, <2>2
  <2>4. ASSUME NEW k \in Campaign PROVE Sum(l, GroupsOf(k)) = 0 /\ l[k] = 0
    <3>1. GroupsOf(k) \subseteq Group
      BY DEF GroupsOf
    <3>2. IsFiniteSet(GroupsOf(k))
      BY <1>2, <3>1, FS_Subset
    <3> QED
      BY <2>1, <2>2, <3>1, <3>2
  <2> QED
    BY <1>1, <1>2, <2>3, <2>4 DEF PaidFor, l
<1>5. Sold
  <2>1. ASSUME NEW c \in Cohort PROVE Sum(last.shown, OfCohort(DOMAIN last.shown, c)) <= Opportunities
    <3>1. OfCohort(DOMAIN last.shown, c) = {}
      BY <1>1 DEF OfCohort
    <3> QED
      BY <1>2, <3>1, SumEmpty
  <2> QED
    BY <1>1, <1>2, <2>1 DEF Sold
<1>6. LearnedWith
  BY <1>1 DEF LearnedWith
<1> QED
  BY <1>3, <1>4, <1>5, <1>6 DEF Trading

LEMMA DeliveryPays ==
    ASSUME Market!DeliveryAssumption, MarketTypes, PaidFor,
           NEW won \in Market!AuctionOutcomes(hour), NEW p \in Costs, Market!Deliver(won, p)
    PROVE  MarketTypes' /\ PaidFor'
<1> DEFINE E == Campaign \cup Group
           v == Shown(won, p)
           S == Market!Candidates(hour)
           of == [e \in E |-> SpentOf(v, p, e)]
           l == ledger.lifetime
           m == ledger'.lifetime
           a == p * Sum(v, S)
<1>1. /\ m = [e \in E |-> l[e] + SpentOf(v, p, e)]
      /\ m \in [E -> Nat] /\ DOMAIN ledger'.daily \subseteq Nat \X E
      /\ \A x \in DOMAIN ledger'.daily : ledger'.daily[x] \in Nat
      /\ \A e \in E : SpentOf(v, p, e) \in Nat
      /\ \A g \in Group : SpentOf(v, p, g) = p * Sum(v, OfGroup(S, g))
      /\ \A k \in Campaign : SpentOf(v, p, k) = p * Sum(v, OfCampaign(S, k))
      /\ balance' = balance - a /\ a \in Nat /\ a <= balance
  BY HourSpends
<1>2. DOMAIN v = S /\ \A x \in S : v[x] \in Nat
  BY HourShows
<1>3. /\ IsFiniteSet(Campaign) /\ StartBalance \in Nat /\ p \in Nat /\ p \in Int /\ IsFiniteSet(S)
      /\ \A x \in S : GroupOf[x[1]] \in Group
  BY DeliveryFacts, CandidatesAreAds
<1>4. hour' = hour + 1 /\ settings' = settings
  BY DeliverIs
<1>5. /\ l \in [E -> Nat] /\ balance \in Nat /\ hour \in Nat
      /\ settings \in [budget : [E -> Nat], on : SUBSET (E \cup Ad)]
  BY DEF MarketTypes
<1> HIDE DEF v, S, l, m, a
<1>6. MarketTypes'
  <2>1. hour' \in Nat /\ balance' \in Nat
    BY <1>1, <1>4, <1>5
  <2> QED
    BY <1>1, <1>4, <1>5, <2>1 DEF MarketTypes, m
<1>7. \A e \in E : m[e] = l[e] + of[e] /\ of[e] \in Nat /\ l[e] \in Nat /\ m[e] \in Nat
  BY <1>1, <1>5
<1>8. ASSUME NEW T, T \subseteq E, IsFiniteSet(T)
      PROVE  Sum(m, T) = Sum(l, T) + Sum(of, T) /\ Sum(l, T) \in Nat /\ Sum(of, T) \in Nat
  <2>1. (\A e \in T : l[e] \in Nat) /\ (\A e \in T : of[e] \in Nat)
    BY <1>7, <1>8
  <2>2. Addable(l, T) /\ Sum(l, T) \in Nat
    BY <1>8, <2>1, SumOfNaturals
  <2>3. Addable(of, T) /\ Sum(of, T) \in Nat
    BY <1>8, <2>1, SumOfNaturals
  <2>4. \A e \in T : m[e] = l[e] + of[e]
    BY <1>7, <1>8
  <2> HIDE DEF of
  <2>5. Sum(m, T) = Sum(l, T) + Sum(of, T)
    BY ONLY <2>2, <2>3, <2>4, SumPlus
  <2> QED
    BY <2>2, <2>3, <2>5
<1> DEFINE w == [x \in S |-> p * v[x]]
<1>9. \A x \in S : w[x] = p * v[x] /\ w[x] \in Nat
  BY <1>2, <1>3
<1>10. ASSUME NEW T, T \subseteq S PROVE Sum(w, T) = p * Sum(v, T)
  <2>1. IsFiniteSet(T) /\ \A x \in T : v[x] \in Nat
    BY <1>2, <1>3, <1>10, FS_Subset
  <2>2. Addable(v, T)
    BY <2>1, SumOfNaturals
  <2>3. \A x \in T : w[x] = p * v[x]
    BY <1>9, <1>10
  <2> HIDE DEF w
  <2> QED
    BY ONLY <1>3, <2>2, <2>3, SumTimes
<1>11. Sum(of, Campaign) = a
  <2>1. ASSUME NEW k \in Campaign PROVE of[k] = Sum(w, OfCampaign(S, k))
    <3>1. OfCampaign(S, k) \subseteq S
      BY DEF OfCampaign
    <3> QED
      BY <1>1, <1>10, <3>1
  <2>2. \A x \in S : w[x] \in Nat
    BY <1>9
  <2> HIDE DEF w, of
  <2>3. Sum(of, Campaign) = Sum(w, S)
    BY <2>1, <2>2, SumOfCampaigns DEF S
  <2>4. Sum(w, S) = p * Sum(v, S)
    BY <1>10
  <2> QED
    BY <2>3, <2>4 DEF a
<1>12. ASSUME NEW k \in Campaign PROVE Sum(of, GroupsOf(k)) = of[k] /\ IsFiniteSet(GroupsOf(k))
  <2>1. ASSUME NEW g \in GroupsOf(k) PROVE of[g] = Sum(w, OfGroup(S, g))
    <3>1. OfGroup(S, g) \subseteq S /\ g \in Group
      BY DEF OfGroup, GroupsOf
    <3> QED
      BY <1>1, <1>10, <3>1
  <2>2. \A x \in S : w[x] \in Nat
    BY <1>9
  <2>3. OfCampaign(S, k) \subseteq S
    BY DEF OfCampaign
  <2>4. of[k] = Sum(w, OfCampaign(S, k))
    BY <1>1, <1>10, <2>3
  <2> HIDE DEF w, of
  <2>5. IsFiniteSet(GroupsOf(k)) /\ Sum(of, GroupsOf(k)) = Sum(w, OfCampaign(S, k))
    BY <2>1, <2>2, SumOfGroups DEF S
  <2> QED
    BY <2>4, <2>5
<1> HIDE DEF of, w
<1>13. StartBalance - balance' = Sum(m, Campaign)
  <2>1. Sum(m, Campaign) = Sum(l, Campaign) + a /\ Sum(l, Campaign) \in Nat
    BY <1>3, <1>8, <1>11
  <2>2. StartBalance - balance = Sum(l, Campaign)
    BY DEF PaidFor, l
  <2> QED
    BY <1>1, <1>3, <1>5, <2>1, <2>2
<1>14. ASSUME NEW k \in Campaign PROVE m[k] = Sum(m, GroupsOf(k))
  <2>1. GroupsOf(k) \subseteq E
    BY DEF GroupsOf
  <2>2. Sum(m, GroupsOf(k)) = Sum(l, GroupsOf(k)) + of[k]
    BY <1>8, <1>12, <2>1
  <2>3. l[k] = Sum(l, GroupsOf(k))
    BY DEF PaidFor, l
  <2> QED
    BY <1>7, <2>2, <2>3
<1> QED
  BY <1>6, <1>13, <1>14 DEF PaidFor, m, GroupsOf

LEMMA DeliverySpendsWithin ==
    ASSUME Market!DeliveryAssumption, MarketTypes,
           NEW won \in Market!AuctionOutcomes(hour), NEW p \in Costs, Market!Deliver(won, p)
    PROVE  Market!SpendsWithin
<1> SUFFICES ASSUME NEW e \in Campaign \cup Group, ledger'.lifetime[e] # ledger.lifetime[e]
             PROVE  /\ Mode[e] = "TOTAL" => ledger'.lifetime[e] <= settings.budget[e]
                    /\ Mode[e] = "DAY" => ledger'.daily[<<Market!Day(hour), e>>] <= settings.budget[e]
  BY DEF Market!SpendsWithin, Market!Entity
<1> DEFINE a == SpentOf(Shown(won, p), p, e)
<1> DEFINE v == Shown(won, p)
           E == Campaign \cup Group
           m == ledger'.lifetime
<1>0. /\ m = [f \in E |-> ledger.lifetime[f] + SpentOf(v, p, f)]
      /\ \A f \in E :
            /\ SpentOf(v, p, f) \in Nat /\ SpentOf(v, p, f) <= Market!Remaining(f, hour)
            /\ ledger'.daily[<<Market!Day(hour), f>>]
                  = Market!DailySpend(Market!Day(hour), f) + SpentOf(v, p, f)
  BY HourSpends
<1> HIDE DEF m, v
<1>1. /\ m[e] = ledger.lifetime[e] + a
      /\ a \in Nat /\ a <= Market!Remaining(e, hour)
      /\ ledger'.daily[<<Market!Day(hour), e>>] = Market!DailySpend(Market!Day(hour), e) + a
  BY <1>0 DEF v
<1> HIDE DEF a
<1>2. ledger.lifetime[e] \in Nat
  BY DEF MarketTypes
<1>3. a # 0
  BY <1>1, <1>2 DEF m
<1>4. /\ Mode[e] = "TOTAL" => ledger.lifetime[e] + a <= settings.budget[e]
      /\ Mode[e] = "DAY" => Market!DailySpend(Market!Day(hour), e) + a <= settings.budget[e]
  BY <1>1, <1>3, RemainingIs
<1> QED
  BY <1>1, <1>4 DEF m

\* Of r users that are not reached yet n impressions reach at most n, and at most r.
LEMMA NewUsersFit ==
    ASSUME Market!DeliveryAssumption, NEW n \in Nat, NEW r \in Nat, n <= Opportunities, r <= Reachable
    PROVE  NewUsers(n, r) \in Nat /\ NewUsers(n, r) <= n /\ NewUsers(n, r) <= r
<1>1. /\ Opportunities \in Nat /\ Reachable \in Nat
      /\ \A i, j \in 0..(Opportunities + Reachable) : NewUsers(i, j) \in 0..Market!Min({i, j})
  BY DeliveryFacts
<1>2. n \in 0..(Opportunities + Reachable) /\ r \in 0..(Opportunities + Reachable)
  BY <1>1
<1>3. NewUsers(n, r) \in 0..Market!Min({n, r})
  BY <1>1, <1>2
<1> DEFINE m == Market!Min({n, r})
<1>4. n \in Int /\ r \in Int
  OBVIOUS
<1>5. m \in {n, r} /\ m <= n /\ m <= r
  BY <1>4, MinOf
<1> HIDE DEF m
<1>6. NewUsers(n, r) \in 0..m /\ m \in Nat
  BY <1>3, <1>5 DEF m
<1> QED
  BY <1>5, <1>6

LEMMA DeliverySells ==
    ASSUME Market!DeliveryAssumption, MarketTypes, Sold,
           NEW won \in Market!AuctionOutcomes(hour), NEW p \in Costs, Market!Deliver(won, p)
    PROVE  Sold'
<1> DEFINE v == Shown(won, p)
           S == Market!Candidates(hour)
           seen == [c \in Cohort |-> Market!Total(v, OfCohort(DOMAIN v, c))]
<1>1. /\ DOMAIN v = S
      /\ \A c \in Cohort : /\ Sum(v, OfCohort(S, c)) \in Nat
                           /\ Sum(v, OfCohort(S, c)) <= Opportunities
  BY HourShows
<1>2. /\ cohorts' = [c \in Cohort |->
                        [impressions |-> cohorts[c].impressions + seen[c],
                         reached |-> cohorts[c].reached
                                        + NewUsers(seen[c], Reachable - cohorts[c].reached)]]
      /\ last' = [shown |-> v, settings |-> settings]
  BY DEF Market!Deliver, Shown, OfCohort
<1> HIDE DEF v, S
<1>3. \A c \in Cohort : seen[c] = Sum(v, OfCohort(S, c))
  BY <1>1, TotalIsSum
<1>4. Reachable \in Nat
  BY DeliveryFacts
<1>5. ASSUME NEW c \in Cohort
      PROVE  /\ cohorts'[c].impressions \in Nat /\ cohorts'[c].reached \in Nat
             /\ cohorts'[c].reached <= Reachable /\ cohorts'[c].reached <= cohorts'[c].impressions
  <2> DEFINE n == seen[c]
             i == cohorts[c].impressions
             r == cohorts[c].reached
             u == NewUsers(n, Reachable - r)
  <2>1. n \in Nat /\ n <= Opportunities
    BY <1>1, <1>3
  <2>2. i \in Nat /\ r \in Nat /\ r <= Reachable /\ r <= i
    BY DEF Sold
  <2>3. cohorts'[c].impressions = i + n /\ cohorts'[c].reached = r + u
    BY <1>2
  <2> HIDE DEF seen, n, i, r
  <2> DEFINE q == Reachable - r
  <2>4. q \in Nat /\ q <= Reachable
    BY <1>4, <2>2
  <2> HIDE DEF q
  <2>5. NewUsers(n, q) \in Nat /\ NewUsers(n, q) <= n /\ NewUsers(n, q) <= q
    BY <2>1, <2>4, NewUsersFit
  <2>6. u \in Nat /\ u <= n /\ u <= Reachable - r
    BY <2>5 DEF q
  <2> HIDE DEF u
  <2> QED
    BY <1>4, <2>1, <2>2, <2>3, <2>6
<1>6. ASSUME NEW c \in Cohort PROVE Sum(last'.shown, OfCohort(DOMAIN last'.shown, c)) <= Opportunities
  <2>1. last'.shown = v
    BY <1>2
  <2> QED
    BY <1>1, <2>1
<1> QED
  BY <1>5, <1>6 DEF Sold, OfCohort

-----------------------------------------------------------------------------

\* The daily budget of a group in the hour before.
BudgetThen(g) == IF Mode[g] = "DAY" THEN last.settings.budget[g] ELSE Unlimited

\* What a group has learned before an hour begins.
LEMMA LearnedIs ==
    ASSUME Market!DeliveryAssumption, MarketTypes, LearnedWith, NEW g \in Group
    PROVE  \E c \in Nat : /\ Market!Learned(g) = [budget |-> Market!DailyBudget(g), clicks |-> c]
                          /\ Market!DailyBudget(g) = BudgetThen(g) => c = learning[g].clicks
<1> DEFINE was == learning[g]
           now == Market!DailyBudget(g)
           then == BudgetThen(g)
           less == Market!Min({(was.clicks * 35) \div 100, (LearningThreshold * 45) \div 100})
           loses == was.budget # 0 /\ Market!MajorChange(was.budget, now)
           c == IF loses THEN less ELSE was.clicks
<1>1. Market!Learned(g) = [budget |-> now, clicks |-> c]
  BY DEF Market!Learned
<1>2. was.clicks \in Nat /\ (was.budget = 0 \/ was.budget = then)
  BY DEF LearnedWith, BudgetThen
<1>3. now \in Nat
  <2>1. Unlimited \in Nat /\ settings.budget[g] \in Nat
    BY DeliveryFacts DEF MarketTypes
  <2> QED
    BY <2>1 DEF Market!DailyBudget
<1>4. less \in Nat
  <2> DEFINE i == was.clicks * 35
             j == LearningThreshold * 45
  <2>1. i \in Nat /\ j \in Nat
    <3>1. was.clicks \in Nat /\ LearningThreshold \in Nat
      BY <1>2, DeliveryFacts
    <3> HIDE DEF was
    <3> QED
      BY <3>1
  <2> HIDE DEF i, j
  <2> DEFINE a == i \div 100
             b == j \div 100
  <2>2. a \in Nat /\ b \in Nat
    BY <2>1, Divided
  <2>3. less = Market!Min({a, b})
    BY DEF i, j
  <2> HIDE DEF a, b, less
  <2>4. a \in Int /\ b \in Int
    BY <2>2
  <2>5. Market!Min({a, b}) \in {a, b}
    BY <2>4, MinOf
  <2> QED
    BY <2>2, <2>3, <2>5
<1> HIDE DEF less, was, then, now
<1>5. ASSUME now = then PROVE ~loses
  <2> SUFFICES ASSUME was.budget # 0, Market!MajorChange(was.budget, now) PROVE FALSE
    OBVIOUS
  <2>1. was.budget = now /\ now > 0
    BY <1>2, <1>3, <1>5
  <2>2. ~Market!MajorChange(now, now)
    <3>1. ~(now > now) /\ now - now = 0 /\ 5 * 0 = 0 /\ ~(0 >= now)
      BY <1>3, <2>1
    <3> QED
      BY <1>3, <3>1 DEF Market!MajorChange
  <2> QED
    BY <2>1, <2>2
<1> HIDE DEF loses
<1>6. c \in Nat /\ (now = then => c = was.clicks)
  BY <1>2, <1>4, <1>5
<1> QED
  BY <1>1, <1>6 DEF was, now, then

LEMMA DeliveryLearns ==
    ASSUME Market!DeliveryAssumption, MarketTypes, LearnedWith,
           NEW won \in Market!AuctionOutcomes(hour), NEW p \in Costs, Market!Deliver(won, p)
    PROVE  LearnedWith' /\ Market!LosesByChange
<1> DEFINE v == Shown(won, p)
           S == Market!Candidates(hour)
           n(g) == Market!Total(v, Market!InGroup(DOMAIN v, g))
<1>1. DOMAIN v = S /\ (\A x \in S : v[x] \in Nat) /\ IsFiniteSet(S)
  BY HourShows, CandidatesAreAds
<1>2. /\ learning' = [g \in Group |-> [Market!Learned(g) EXCEPT !.clicks = @ + n(g)]]
      /\ last' = [shown |-> v, settings |-> settings]
  BY DEF Market!Deliver, Shown
<1> HIDE DEF v, S
<1>3. ASSUME NEW g \in Group PROVE n(g) \in Nat
  <2> DEFINE T == Market!InGroup(S, g)
  <2>1. T \subseteq S
    BY DEF Market!InGroup
  <2>2. IsFiniteSet(T) /\ \A x \in T : v[x] \in Nat
    BY <1>1, <2>1, FS_Subset
  <2> HIDE DEF T
  <2>3. Sum(v, T) \in Nat
    BY <2>2, SumOfNaturals
  <2> QED
    BY <1>1, <2>3, TotalIsSum DEF T
<1>4. ASSUME NEW g \in Group
      PROVE  /\ learning'[g].clicks \in Nat
             /\ learning'[g].budget = IF Mode[g] = "DAY" THEN last'.settings.budget[g] ELSE Unlimited
             /\ learning'[g].clicks < learning[g].clicks =>
                   settings.budget[g] # last.settings.budget[g]
  <2> DEFINE then == IF Mode[g] = "DAY" THEN last.settings.budget[g] ELSE Unlimited
             now == Market!DailyBudget(g)
             m == n(g)
  <2>1. PICK c \in Nat : /\ Market!Learned(g) = [budget |-> now, clicks |-> c]
                         /\ now = then => c = learning[g].clicks
    BY LearnedIs DEF BudgetThen
  <2>2. learning'[g] = [Market!Learned(g) EXCEPT !.clicks = @ + m]
    BY <1>2
  <2>3. m \in Nat
    BY <1>3
  <2>4. now = IF Mode[g] = "DAY" THEN settings.budget[g] ELSE Unlimited
    BY DEF Market!DailyBudget
  <2> HIDE DEF n, m, now
  <2>5. learning'[g] = [budget |-> now, clicks |-> c + m]
    BY <2>1, <2>2
  <2>6. learning'[g].clicks = c + m /\ learning'[g].budget = now
    BY <2>5
  <2>7. last'.settings = settings
    BY <1>2
  <2>8. ASSUME settings.budget[g] = last.settings.budget[g]
        PROVE  ~(learning'[g].clicks < learning[g].clicks)
    <3>1. now = then
      BY <2>4, <2>8
    <3>2. learning[g].clicks = c
      BY <2>1, <3>1
    <3> QED
      BY <2>1, <2>3, <2>6, <3>2
  <2>9. c + m \in Nat
    BY <2>1, <2>3
  <2> QED
    BY <2>4, <2>6, <2>7, <2>8, <2>9
<1> QED
  BY <1>4 DEF LearnedWith, Market!LosesByChange

-----------------------------------------------------------------------------

LEMMA NextTrading ==
    ASSUME Market!DeliveryAssumption, Trading, [Market!Next]_Market!vars
    PROVE  Trading' /\ Market!SpendsWithin /\ Market!LosesByChange
<1>1. MarketTypes /\ PaidFor /\ Sold /\ LearnedWith
  BY DEF Trading
<1>2. ASSUME NEW won \in Market!AuctionOutcomes(hour), NEW p \in Costs, Market!Deliver(won, p)
      PROVE  Trading' /\ Market!SpendsWithin /\ Market!LosesByChange
  BY <1>1, <1>2, DeliveryPays, DeliverySells, DeliveryLearns, DeliverySpendsWithin DEF Trading
<1>3. ASSUME UNCHANGED <<hour, ledger, cohorts, learning, balance, last>>,
             settings' \in [budget : [Campaign \cup Group -> Nat],
                            on : SUBSET (Campaign \cup Group \cup Ad)]
      PROVE  Trading' /\ Market!SpendsWithin /\ Market!LosesByChange
  <2>1. MarketTypes'
    BY <1>1, <1>3 DEF MarketTypes
  <2>2. PaidFor' /\ Sold'
    BY <1>1, <1>3 DEF PaidFor, Sold, GroupsOf, OfCohort
  <2>3. LearnedWith'
    BY <1>1, <1>3 DEF LearnedWith
  <2>4. Market!SpendsWithin
    BY <1>3 DEF Market!SpendsWithin
  <2>5. Market!LosesByChange
    <3>1. \A g \in Group : learning'[g].clicks = learning[g].clicks /\ learning[g].clicks \in Nat
      BY <1>1, <1>3 DEF LearnedWith
    <3> QED
      BY <3>1 DEF Market!LosesByChange
  <2> QED
    BY <2>1, <2>2, <2>3, <2>4, <2>5 DEF Trading
<1> QED
  BY <1>1, <1>2, <1>3, MarketSteps

LEMMA TradingHolds == Market!DeliveryAssumption => (Market!Spec => []Trading)
<1> SUFFICES ASSUME Market!DeliveryAssumption PROVE Market!Spec => []Trading
  OBVIOUS
<1>1. Market!Init => Trading
  BY InitTrading
<1>2. Trading /\ [Market!Next]_Market!vars => Trading'
  BY NextTrading
<1> QED
  BY <1>1, <1>2, PTL DEF Market!Spec

LEMMA TradingShows ==
    ASSUME Market!DeliveryAssumption, Trading
    PROVE  Market!PrepaidOnly /\ Market!InventorySoldOnce
<1>1. MarketTypes /\ PaidFor /\ Sold
  BY DEF Trading
<1>2. Market!PrepaidOnly
  <2>1. balance >= 0
    BY <1>1 DEF MarketTypes
  <2> QED
    BY <1>1, <2>1, TotalIsSum DEF Market!PrepaidOnly, PaidFor, GroupsOf
<1>3. ASSUME NEW c \in Cohort
      PROVE  cohorts[c].reached <= Market!Min({Reachable, cohorts[c].impressions})
  <2> DEFINE a == Reachable
             b == cohorts[c].impressions
             r == cohorts[c].reached
  <2>1. a \in Int /\ b \in Int /\ r <= a /\ r <= b
    BY <1>1, DeliveryFacts DEF Sold
  <2> HIDE DEF a, b, r
  <2>2. Market!Min({a, b}) \in {a, b}
    BY <2>1, MinOf
  <2>3. r <= Market!Min({a, b})
    BY <2>1, <2>2
  <2> QED
    BY <2>3 DEF a, b, r
<1>4. Market!InventorySoldOnce
  BY <1>1, <1>3, TotalIsSum DEF Market!InventorySoldOnce, Sold, OfCohort
<1> QED
  BY <1>2, <1>4

\* Whatever the hierarchy, the budgets and the auctions come to, an hour that spends on an
\* ad group or a campaign stays within the budget in force (sandbox/joint_delivery.go
\* applyJointBudgetAllocation, remainingEntityBudget).
THEOREM BudgetsBoundSpend ==
    Market!DeliveryAssumption => (Market!Spec => Market!SpendWithinBudget)
<1> SUFFICES ASSUME Market!DeliveryAssumption PROVE Market!Spec => Market!SpendWithinBudget
  OBVIOUS
<1>1. Market!Spec => []Trading
  BY TradingHolds
<1>2. Trading /\ [Market!Next]_Market!vars => [Market!SpendsWithin]_Market!vars
  BY NextTrading
<1> QED
  BY <1>1, <1>2, PTL DEF Market!Spec, Market!SpendWithinBudget

\* The balance pays for all that is delivered and is never overdrawn, a campaign's spend is
\* its groups', one opportunity is sold once, and no more users are reached than there are
\* (sandbox/causal_model.go recordSpend, sandbox/joint_delivery.go resolveCohortAuctions).
THEOREM DeliveryIsPaidAndReal ==
    Market!DeliveryAssumption =>
        (Market!Spec => [](Market!PrepaidOnly /\ Market!InventorySoldOnce))
<1> SUFFICES ASSUME Market!DeliveryAssumption
             PROVE  Market!Spec => [](Market!PrepaidOnly /\ Market!InventorySoldOnce)
  OBVIOUS
<1>1. Market!Spec => []Trading
  BY TradingHolds
<1>2. Trading => Market!PrepaidOnly /\ Market!InventorySoldOnce
  BY TradingShows
<1> QED
  BY <1>1, <1>2, PTL

\* An ad group loses what it has learned only when its budget was changed since the last hour,
\* never at midnight and never because a budget ran out (sandbox/causal_model.go learningFor).
THEOREM LearningIsKept ==
    Market!DeliveryAssumption => (Market!Spec => Market!LearningLostByChangeOnly)
<1> SUFFICES ASSUME Market!DeliveryAssumption PROVE Market!Spec => Market!LearningLostByChangeOnly
  OBVIOUS
<1>1. Market!Spec => []Trading
  BY TradingHolds
<1>2. Trading /\ [Market!Next]_Market!vars => [Market!LosesByChange]_Market!vars
  BY NextTrading
<1> QED
  BY <1>1, <1>2, PTL DEF Market!Spec, Market!LearningLostByChangeOnly
=============================================================================
