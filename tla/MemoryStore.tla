----------------------------- MODULE MemoryStore -----------------------------
(***************************************************************************)
(* The durable facts of one account (internal/store/memory.go) and the     *)
(* extraction that records them after a turn (internal/agenthost/          *)
(* memory.go).  Several processes share the database; each has one         *)
(* connection (store.go:107), so a transaction of a process waits for the  *)
(* one before it, and transactions of two processes overlap.  No index     *)
(* keeps a key unique: an upsert looks the key up and then inserts or      *)
(* updates.  A memory is known by the call that inserted it and its text   *)
(* by the call that wrote it.                                              *)
(***************************************************************************)
EXTENDS Naturals, FiniteSets

CONSTANTS
    Calls,    \* the calls made
    Op,       \* [Calls -> {"upsert", "save", "delete"}]
    Key,      \* [Calls -> keys]; the key of an upsert
    Process,  \* [Calls -> processes]
    Turn,     \* [Calls -> turns]; the turn whose extraction makes an upsert
    MaxFacts, \* facts recorded by one turn (3)
    None

ASSUME MaxFactsAssumption == MaxFacts \in Nat
\* An upsert without a key is refused.
ASSUME CallAssumption ==
    /\ None \notin Calls
    /\ \A c \in Calls : Op[c] \in {"upsert", "save", "delete"}
    /\ \A c \in Calls : Op[c] = "upsert" => Key[c] # None

VARIABLES
    store,    \* the committed memories: [id, key, by]
    version,  \* number of commits
    writer,   \* the transaction that holds the database's write lock
    conn,     \* the call that has a process's connection
    mu,       \* the call that holds the mutex of a turn's extraction
    count,    \* facts recorded in a turn
    pc,       \* where a call stands
    snapshot, \* the version a call's transaction reads
    found,    \* the memories a call found
    promised  \* history: the calls whose text is to be found in the store

vars == <<store, version, writer, conn, mu, count, pc, snapshot, found, promised>>

Processes == {Process[c] : c \in Calls}
Turns == {Turn[c] : c \in Calls}
Memory == [id : Calls, key : {Key[c] : c \in Calls} \union {None}, by : Calls]
Ended == {"done", "failed"}

Init ==
    /\ store = {} /\ version = 0 /\ writer = None
    /\ conn = [p \in Processes |-> None]
    /\ mu = [t \in Turns |-> None] /\ count = [t \in Turns |-> 0]
    /\ pc = [c \in Calls |-> "idle"]
    /\ snapshot = [c \in Calls |-> 0] /\ found = [c \in Calls |-> {}]
    /\ promised = {}

-----------------------------------------------------------------------------
(* extractMemory *)

\* A mutant: the number of facts is checked before the mutex is taken.
StartUnlocked(c) ==
    /\ pc[c] = "idle"
    /\ pc' = [pc EXCEPT ![c] = IF Op[c] = "upsert" /\ count[Turn[c]] >= MaxFacts THEN "failed" ELSE "started"]
    /\ UNCHANGED mu

\* The upserts of a turn take its mutex, one after the other, and the turn may record
\* no more than MaxFacts; the memory tools go straight to the store.
Start(c) ==
    /\ pc[c] = "idle"
    /\ IF Op[c] # "upsert" THEN pc' = [pc EXCEPT ![c] = "started"] /\ UNCHANGED mu
       ELSE /\ mu[Turn[c]] = None
            /\ IF count[Turn[c]] >= MaxFacts
               THEN pc' = [pc EXCEPT ![c] = "failed"] /\ UNCHANGED mu
               ELSE pc' = [pc EXCEPT ![c] = "started"] /\ mu' = [mu EXCEPT ![Turn[c]] = c]

\* The end of a call: its transaction, its connection and the mutex are given up.
Release(c) ==
    /\ writer' = IF writer = c THEN None ELSE writer
    /\ conn' = [p \in Processes |-> IF conn[p] = c THEN None ELSE conn[p]]
    /\ mu' = [t \in Turns |-> IF mu[t] = c THEN None ELSE mu[t]]

-----------------------------------------------------------------------------
(* Transactions *)

\* BeginTx, or the wait of a single statement, for the process's connection.
Begin(c) ==
    /\ pc[c] = "started" /\ conn[Process[c]] = None
    /\ conn' = [conn EXCEPT ![Process[c]] = c]
    /\ pc' = [pc EXCEPT ![c] = "begun"]

Fail(c) ==
    /\ pc' = [pc EXCEPT ![c] = "failed"]
    /\ Release(c)
    /\ UNCHANGED <<store, version, count, promised>>

Reads(c) ==
    /\ pc[c] = "begun"
    /\ snapshot' = [snapshot EXCEPT ![c] = version]
    /\ pc' = [pc EXCEPT ![c] = "read"]
    /\ UNCHANGED <<store, version, writer, conn, mu, count, promised>>

\* The first statement fixes what a transaction reads: UpsertMemory looks for its key.
FindKey(c) ==
    /\ Op[c] = "upsert" /\ Reads(c)
    /\ found' = [found EXCEPT ![c] = {m \in store : m.key = Key[c]}]

\* DeleteMemory looks for the memory of an id that it was given.
FindId(c) ==
    /\ Op[c] = "delete" /\ Reads(c)
    /\ \E m \in store : found' = [found EXCEPT ![c] = {m}]

\* The memory of the id is gone.
NotFound(c) == Op[c] = "delete" /\ pc[c] = "begun" /\ Fail(c) /\ UNCHANGED <<snapshot, found>>

\* SaveMemory is a single insert.
FindNothing(c) == Op[c] = "save" /\ Reads(c) /\ UNCHANGED found

\* A mutant: the transaction writes whatever was committed since it read.
CurrentAlways(c) == TRUE

\* A transaction may write only on the version it read; the single insert of a save
\* reads nothing before it writes.
Current(c) == Op[c] = "save" \/ snapshot[c] = version

\* The write statement takes the write lock, waiting for it up to five seconds; a
\* transaction whose snapshot is no longer the newest version fails.
Write(c) ==
    /\ pc[c] = "read"
    /\ UNCHANGED <<snapshot, found>>
    /\ \/ /\ writer = None /\ Current(c)
          /\ writer' = c /\ pc' = [pc EXCEPT ![c] = "written"]
          /\ UNCHANGED <<store, version, conn, mu, count, promised>>
       \/ /\ writer # None \/ ~Current(c)
          /\ Fail(c)

\* The store once the statement of a call is committed: an update of a row that is
\* gone changes nothing and is no error.
Stored(c) ==
    CASE Op[c] = "save" -> store \union {[id |-> c, key |-> None, by |-> c]}
      [] Op[c] = "delete" -> {m \in store : \A f \in found[c] : m.id # f.id}
      [] Op[c] = "upsert" /\ found[c] = {} -> store \union {[id |-> c, key |-> Key[c], by |-> c]}
      [] OTHER -> {IF \E f \in found[c] : f.id = m.id THEN [m EXCEPT !.by = c] ELSE m : m \in store}

\* What the store is to hold once the call has said that it succeeded.
Promise(c) ==
    CASE Op[c] = "save" -> promised \union {c}
      [] Op[c] = "delete" -> promised \ {f.by : f \in found[c]}
      [] Op[c] = "upsert" -> {b \in promised : Op[b] # "upsert" \/ Key[b] # Key[c]} \union {c}

Commit(c) ==
    /\ pc[c] = "written"
    /\ store' = Stored(c) /\ promised' = Promise(c)
    /\ version' = version + 1
    /\ pc' = [pc EXCEPT ![c] = "done"]
    /\ count' = IF Op[c] = "upsert" THEN [count EXCEPT ![Turn[c]] = @ + 1] ELSE count
    /\ Release(c)
    /\ UNCHANGED <<snapshot, found>>

\* The context of a call ends, or a statement or the commit fails.
Abort(c) ==
    /\ pc[c] \in {"started", "begun", "read", "written"}
    /\ Fail(c)
    /\ UNCHANGED <<snapshot, found>>

-----------------------------------------------------------------------------

Step(c) ==
    \/ Start(c) /\ UNCHANGED <<store, version, writer, conn, count, snapshot, found, promised>>
    \/ Begin(c) /\ UNCHANGED <<store, version, writer, mu, count, snapshot, found, promised>>
    \/ FindKey(c) \/ FindId(c) \/ NotFound(c) \/ FindNothing(c)
    \/ Write(c) \/ Commit(c)

Next == \E c \in Calls : Step(c) \/ Abort(c)

Spec == Init /\ [][Next]_vars

\* Every call made goes on.
FairSpec == Spec /\ \A c \in Calls : WF_vars(Step(c))

-----------------------------------------------------------------------------

TypeOK ==
    /\ store \subseteq Memory
    /\ version \in 0..Cardinality(Calls) /\ writer \in Calls \union {None}
    /\ conn \in [Processes -> Calls \union {None}] /\ mu \in [Turns -> Calls \union {None}]
    /\ count \in [Turns -> 0..MaxFacts]
    /\ pc \in [Calls -> {"idle", "started", "begun", "read", "written"} \union Ended]
    /\ snapshot \in [Calls -> 0..Cardinality(Calls)] /\ found \in [Calls -> SUBSET Memory]
    /\ promised \subseteq Calls

\* An updated standing rule leaves no stale copy: two extractions that look the same new
\* key up at once do not both insert it (memory.go:71, 121).
OneFactPerKey == \A m, n \in store : m.key = n.key /\ m.key # None => m = n

\* The store holds exactly the texts of the calls that succeeded and were not replaced
\* or deleted since; in particular no call succeeds by updating a memory that another
\* process has just deleted (memory.go:123).
SuccessIsStored == {m.by : m \in store} = promised

\* What holds of the store through every interleaving of its callers.
MemoriesHold == OneFactPerKey /\ SuccessIsStored

\* A turn records no more facts than allowed, also when the runtime proposes them at
\* the same time (agenthost/memory.go:84).
FewFactsPerTurn ==
    \A t \in Turns : Cardinality({c \in Calls : Op[c] = "upsert" /\ Turn[c] = t /\ pc[c] = "done"}) <= MaxFacts

\* No call is left waiting, for the connection, the mutex or the write lock, whichever
\* calls fail (memory.go:87, 169).
CallsEnd == \A c \in Calls : pc[c] # "idle" ~> pc[c] \in Ended
=============================================================================
