----------------------------- MODULE OperatorKey -----------------------------
(***************************************************************************)
(* The operator key of a state directory                                   *)
(* (internal/httpapi/server.go, loadOrCreateOperatorKey): a server that    *)
(* finds no key file creates one, others read it.  Servers may start on    *)
(* one directory at the same time, on different ports, and again after a   *)
(* crash.  A file is named by the start that created it; its bytes stay    *)
(* readable through a handle after its path is gone.  A write of the key   *)
(* is one call and arrives whole, unless it fails.                         *)
(***************************************************************************)
EXTENDS Naturals, FiniteSets

CONSTANTS
    Start,      \* starts of a server
    MaxFaults,  \* writes that fail (bounds the model)
    MaxCrashes, \* starts that die on the way (bounds the model)
    None

FaultAssumption == {MaxFaults, MaxCrashes} \subseteq Nat /\ None \notin Start

VARIABLES
    path,    \* whose file is at the path, or None
    bytes,   \* for each start, what its file holds: "none", "empty", "part", "whole"
    pc,      \* "off", "look", "create", "write", "sync", "close", "remove", "open",
             \* "read", "serving", "failed" or "dead"
    attempt, \* attempts of each start
    handle,  \* the file each start has opened
    key,     \* the key each server accepts: [file, whole]
    faults, crashes

vars == <<path, bytes, pc, attempt, handle, key, faults, crashes>>

NoKey == [file |-> None, whole |-> FALSE]

Init ==
    /\ path = None
    /\ bytes = [p \in Start |-> "none"]
    /\ pc = [p \in Start |-> "off"]
    /\ attempt = [p \in Start |-> 1]
    /\ handle = [p \in Start |-> None]
    /\ key = [p \in Start |-> NoKey]
    /\ faults = 0 /\ crashes = 0

Go(p, to) == pc' = [pc EXCEPT ![p] = to]
Fault == faults < MaxFaults /\ faults' = faults + 1

Begin(p) ==
    /\ pc[p] = "off" /\ Go(p, "look")
    /\ UNCHANGED <<path, bytes, attempt, handle, key, faults, crashes>>

\* Lstat.
Look(p) ==
    /\ pc[p] = "look"
    /\ Go(p, IF path = None THEN "create" ELSE "open")
    /\ UNCHANGED <<path, bytes, attempt, handle, key, faults, crashes>>

\* A mutant: a file that came in between is replaced.
CreateOver(p) ==
    /\ pc[p] = "create"
    /\ path' = p /\ bytes' = [bytes EXCEPT ![p] = "empty"] /\ Go(p, "write")
    /\ UNCHANGED <<attempt, handle, key, faults, crashes>>

\* O_CREATE|O_EXCL: if another start was faster, look again, once.
Create(p) ==
    /\ pc[p] = "create"
    /\ \/ /\ path = None
          /\ path' = p /\ bytes' = [bytes EXCEPT ![p] = "empty"] /\ Go(p, "write")
          /\ UNCHANGED attempt
       \/ /\ path # None
          /\ attempt' = [attempt EXCEPT ![p] = @ + 1]
          /\ Go(p, IF attempt[p] = 2 THEN "failed" ELSE "look")
          /\ UNCHANGED <<path, bytes>>
    /\ UNCHANGED <<handle, key, faults, crashes>>

\* The key is written, or only a part of it and an error.
Write(p) ==
    /\ pc[p] = "write"
    /\ \/ bytes' = [bytes EXCEPT ![p] = "whole"] /\ Go(p, "sync") /\ UNCHANGED faults
       \/ Fault /\ bytes' \in {bytes, [bytes EXCEPT ![p] = "part"]} /\ Go(p, "remove")
    /\ UNCHANGED <<path, attempt, handle, key, crashes>>

\* It is on disk, or not for sure.
Sync(p) ==
    /\ pc[p] = "sync"
    /\ \/ Go(p, "close") /\ UNCHANGED faults
       \/ Fault /\ Go(p, "remove")
    /\ UNCHANGED <<path, bytes, attempt, handle, key, crashes>>

Close(p) ==
    /\ pc[p] = "close"
    /\ \/ Go(p, "serving") /\ key' = [key EXCEPT ![p] = [file |-> p, whole |-> TRUE]] /\ UNCHANGED faults
       \/ Fault /\ Go(p, "failed") /\ UNCHANGED key
    /\ UNCHANGED <<path, bytes, attempt, handle, crashes>>

\* A key that could not be written is removed.
RemoveKey(p) ==
    /\ pc[p] = "remove"
    /\ path' = None /\ Go(p, "failed")
    /\ UNCHANGED <<bytes, attempt, handle, key, faults, crashes>>

Open(p) ==
    /\ pc[p] = "open"
    /\ IF path = None THEN Go(p, "failed") /\ UNCHANGED handle
       ELSE Go(p, "read") /\ handle' = [handle EXCEPT ![p] = path]
    /\ UNCHANGED <<path, bytes, attempt, key, faults, crashes>>

\* At least 32 bytes: an empty file is refused, and a part of a key may be.
Acceptable(content) == content \in {"part", "whole"}

Read(p) ==
    /\ pc[p] = "read"
    /\ LET content == bytes[handle[p]]
       IN  \/ /\ Acceptable(content)
              /\ Go(p, "serving")
              /\ key' = [key EXCEPT ![p] = [file |-> handle[p], whole |-> content = "whole"]]
           \/ content # "whole" /\ Go(p, "failed") /\ UNCHANGED key
    /\ UNCHANGED <<path, bytes, attempt, handle, faults, crashes>>

\* A process that is starting dies; what it left stays.
Crash(p) ==
    /\ pc[p] \notin {"off", "serving", "failed", "dead"} /\ crashes < MaxCrashes
    /\ crashes' = crashes + 1 /\ Go(p, "dead")
    /\ UNCHANGED <<path, bytes, attempt, handle, key, faults>>

\* A server is stopped.
Stop(p) ==
    /\ pc[p] = "serving" /\ Go(p, "dead")
    /\ UNCHANGED <<path, bytes, attempt, handle, key, faults, crashes>>

Step(p) ==
    \/ Look(p) \/ Create(p) \/ Write(p) \/ Sync(p) \/ Close(p) \/ RemoveKey(p)
    \/ Open(p) \/ Read(p)

Next == \E p \in Start : Begin(p) \/ Step(p) \/ Crash(p) \/ Stop(p)

Spec == Init /\ [][Next]_vars

\* A process that runs goes on.
FairSpec == Spec /\ \A p \in Start : WF_vars(Step(p))

-----------------------------------------------------------------------------

TypeOK ==
    /\ path \in Start \union {None}
    /\ \A p \in Start :
          /\ bytes[p] \in {"none", "empty", "part", "whole"}
          /\ pc[p] \in {"off", "look", "create", "write", "sync", "close", "remove",
                        "open", "read", "serving", "failed", "dead"}
          /\ attempt[p] \in 1..3
          /\ handle[p] \in Start \union {None}
    /\ faults \in 0..MaxFaults /\ crashes \in 0..MaxCrashes

\* However many servers start at once on a directory, each accepts exactly the key
\* that is in its operator-key file (docs/local-development.md:11).
SignInPossible ==
    \A p \in Start : pc[p] = "serving" =>
        key[p].whole /\ path = key[p].file /\ bytes[path] = "whole"

\* A failed write removes its own file only: a server that made the key keeps it,
\* whatever other starts run into (server.go:125).
MakerKeepsKey ==
    \A p \in Start : pc[p] = "serving" /\ key[p].file = p => path = p /\ bytes[p] = "whole"

\* A start on a directory that has a key comes to serve with it, also beside
\* others that start and stop.
RestartServes ==
    \A p \in Start :
        pc[p] = "look" /\ path # None /\ bytes[path] = "whole" ~> pc[p] \in {"serving", "dead"}
=============================================================================
