-------------------------- MODULE MCChangeService --------------------------
(***************************************************************************)
(* Small instances of ChangeService.  One tick is about 30 seconds, with   *)
(* every duration rounded so that the order of the source's durations is   *)
(* kept: a refresh and an execution are shorter than a lease, an execution *)
(* and a save are shorter than the grace period.                           *)
(***************************************************************************)
EXTENDS ChangeService, TLC

CONSTANTS c1, c2, c3, c4, c5

\* One change of any kind, or a creation and an update of one account side by side while
\* the settings and the clock stand still.
OneOrTwo ==
    \/ Cardinality(Drafted) <= 1
    \/ /\ Drafted \subseteq {c3, c4}
       /\ \A e \in Executor : exec[e].pc \notin {"configuring", "advancing", "simulating"}

CreateAndUpdate == (c1 :> "create") @@ (c2 :> "update")
EveryKind == (c1 :> "budget") @@ (c2 :> "status") @@ (c3 :> "create")
                 @@ (c4 :> "update") @@ (c5 :> "bundle")

\* From 10 the loose policy allows 12 and the tight one only 11.
Loose == [min |-> 1, max |-> 20, delta |-> 20]
Tight == [min |-> 1, max |-> 11, delta |-> 20]
TwoPolicies == {Loose, Tight}
OnePolicy == {Loose}

ASSUME GuardrailsAssumption == \A p \in Policies : ValidGuardrails(p)

Executors == Permutations(Executor)
=============================================================================
