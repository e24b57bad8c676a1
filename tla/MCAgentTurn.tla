----------------------------- MODULE MCAgentTurn -----------------------------
(***************************************************************************)
(* Small instances of AgentTurn.  TLC follows three kinds of behaviours    *)
(* out of one instance, each with as much of everything as the others can  *)
(* do without: one turn with its tools, two turns of two processes, and a  *)
(* conversation of three turns of one process.                             *)
(***************************************************************************)
EXTENDS AgentTurnInvariant, FiniteSets, TLC

Begun == {t \in Turn : turn[t].pc # "unsent"}
Called == {c \in Call : \E t \in Turn : call[t][c] # "idle"}
Bindings == ({turn[t].bind : t \in Turn} \union {session.binding}) \ {None}
Hosts == {turn[t].host : t \in Turn} \ {None}
InTime == \A t \in Begun : turn[t].pc \in Active => turn[t].spare = Slack

\* Concurrent tool calls, two of which mutate.
OneTurn == Cardinality(Begun) <= 1 /\ Cardinality(Bindings) <= 1 /\ InTime

\* Each process is at most a tick late.
TwoHosts ==
    /\ Cardinality(Begun) <= 2 /\ Cardinality(Bindings) <= 1
    /\ Called = {} /\ faults <= 1

\* Bindings change between turns, and the store fails twice.
ThreeTurns ==
    /\ Cardinality(Hosts) <= 1 /\ Called = {} /\ faults <= 1
    /\ \A t \in Begun : turn[t].pc \in Active => turn[t].left > 0

Corners == OneTurn \/ TwoHosts \/ ThreeTurns

Interchangeable ==
    Permutations(Turn) \union Permutations(Host) \union Permutations(Binding)
=============================================================================
