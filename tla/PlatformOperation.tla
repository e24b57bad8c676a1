-------------------------- MODULE PlatformOperation --------------------------
(***************************************************************************)
(* One approved operation on TikTok (internal/tiktokmapi: operations.go,   *)
(* writer.go, client.go and the two read-back files): its conditions are   *)
(* read again, its requests are posted one after the other, their answers  *)
(* are classified, and what was acknowledged is read back.                 *)
(*                                                                         *)
(* The platform is external.  It takes a request it was sent once, at any  *)
(* time, also after the client gave up waiting; it makes what was asked,   *)
(* makes something else (a field normalised away), or refuses and makes    *)
(* nothing; its reads may be behind.  Others edit what the operation was   *)
(* reviewed against and what it made.  The Change Service, which calls     *)
(* this once per approval, is a module of its own.                         *)
(***************************************************************************)
EXTENDS Naturals, FiniteSets

CONSTANTS
    Kinds,    \* kinds of operation: "bundle", "create", "update", "moderate", "write"
    Actions,  \* what a moderation may ask: "hide", "delete", "reply"
    Window,   \* comments a listing returns (100)
    MaxEdits, \* edits of the conditions by others (bounds the model)
    None

KindAssumption ==
    /\ Kinds \subseteq {"bundle", "create", "update", "moderate", "write"}
    /\ Actions \subseteq {"hide", "delete", "reply"}
BoundAssumption == Window \in Nat \ {0} /\ MaxEdits \in Nat
NoneAssumption ==
    None \notin {"hide", "delete", "reply", "made", "refused",
                 "not_sent", "rejected", "unknown", "partial", "acknowledged"}

VARIABLES
    kind,     \* the kind of the operation
    action,   \* what a moderation asks, else None
    pc,       \* "revalidating", "posting", "waiting", "done" or "reading"
    step,     \* the request or record at hand
    attempt,  \* attempts of the call at hand
    known,    \* steps whose resource the client knows
    outcome,  \* the state of the outcome, None while there is none
    confirmed,\* the operation was read back as submitted
    edits,    \* edits of the reviewed conditions by others
    held,     \* for each step, what the platform holds: "none", "old", "exact", "other"
    past,     \* history: for each step, what the platform has held
    flight,   \* requests sent and not yet taken
    answer,   \* the platform's answer to the request at hand
    posts,    \* history: for each step, how often it was posted
    newer,    \* comments newer than the one moderated
    replied   \* someone else has replied to that comment

client == <<kind, action, pc, step, attempt, known, outcome, confirmed>>
platform == <<edits, held, past, newer, replied>>
wire == <<flight, answer, posts>>
vars == <<client, platform, wire>>

AllSteps == 1..3
Steps == IF kind = "bundle" THEN AllSteps ELSE {1}
Creates == kind \in {"bundle", "create"}

Init ==
    /\ kind \in Kinds
    /\ action \in IF kind = "moderate" THEN Actions ELSE {None}
    /\ pc = IF kind = "write" THEN "posting" ELSE "revalidating"
    /\ step = 1 /\ attempt = 1 /\ known = {}
    /\ outcome = None /\ confirmed = FALSE
    /\ edits = 0
    /\ held = [s \in AllSteps |-> IF Creates THEN "none" ELSE "old"]
    /\ past = [s \in AllSteps |-> {held[s]}]
    /\ newer \in IF kind = "moderate" THEN 0..(Window - 1) ELSE {0}
    /\ replied \in IF kind = "moderate" THEN BOOLEAN ELSE {FALSE}
    /\ flight = {} /\ answer = None /\ posts = [s \in AllSteps |-> 0]

-----------------------------------------------------------------------------
(* What a call may do *)

\* A read is attempted three times, a write once.
Attempts(call) == IF call = "read" THEN 3 ELSE 1

\* The transport fails, or a read is told to come again: one attempt is spent.
Again(call) ==
    /\ attempt < Attempts(call)
    /\ attempt' = attempt + 1

\* A mutant: a refusal is taken for a request that never arrived, and so is a
\* failure of the transport.
ClassifyHopeful(error) ==
    IF error \in {"credential", "transport"} THEN "not_sent"
    ELSE IF error = "business" THEN "rejected" ELSE "unknown"

\* What is known of a request whose call failed.
Classify(error) ==
    CASE error = "credential" -> "not_sent"
      [] error = "business" -> "rejected"
      [] OTHER -> "unknown"

\* After the first request of a bundle something was made.
FailureState(error) == IF step = 1 THEN Classify(error) ELSE "partial"

Finish(state) == outcome' = state /\ pc' = "done"

-----------------------------------------------------------------------------
(* ApplyOperation *)

\* What was reviewed is unchanged, and a comment is still listed.
AsReviewed == edits = 0 /\ newer < Window

\* The conditions are read again: they may be unreadable, edited or as reviewed.
Revalidate ==
    /\ pc = "revalidating"
    /\ \/ Again("read") /\ UNCHANGED <<pc, outcome>>
       \/ Finish("not_sent") /\ attempt' = 1
       \/ AsReviewed /\ pc' = "posting" /\ attempt' = 1 /\ UNCHANGED outcome
    /\ UNCHANGED <<kind, action, step, known, confirmed, platform, wire>>

\* The token cannot be resolved: the request is not sent.
NoCredential ==
    /\ pc = "posting"
    /\ Finish(FailureState("credential"))
    /\ UNCHANGED <<kind, action, step, attempt, known, confirmed, platform, wire>>

Post ==
    /\ pc = "posting"
    /\ pc' = "waiting"
    /\ posts' = [posts EXCEPT ![step] = @ + 1]
    /\ flight' = flight \union {step}
    /\ answer' = None
    /\ UNCHANGED <<kind, action, step, attempt, known, outcome, confirmed, platform>>

\* The response of a create must name what was made.
Identified(given) == given \/ ~Creates

\* The request succeeded: go on with the next one, or end.  A response that
\* does not name its resources leaves them unknown.
Accepted ==
    /\ pc = "waiting" /\ answer = "made"
    /\ \E given \in BOOLEAN :
          IF ~Identified(given)
          THEN Finish(FailureState("omitted")) /\ UNCHANGED <<step, known>>
          ELSE /\ known' = known \union {step}
               /\ IF step + 1 \in Steps
                  THEN step' = step + 1 /\ pc' = "posting" /\ UNCHANGED outcome
                  ELSE step' = 1 /\ Finish("acknowledged")
    /\ attempt' = 1 /\ answer' = None
    /\ UNCHANGED <<kind, action, confirmed, platform, flight, posts>>

Refused ==
    /\ pc = "waiting" /\ answer = "refused"
    /\ Finish(FailureState("business"))
    /\ answer' = None
    /\ UNCHANGED <<kind, action, step, attempt, known, confirmed, platform, flight, posts>>

\* No answer that can be used: the transport fails, the caller is cancelled, the
\* body is cut off, too large or no envelope, or the status is not 2xx.
Unanswered ==
    /\ pc = "waiting"
    /\ \/ Again("write") /\ pc' = "posting" /\ UNCHANGED <<outcome>>
       \/ Finish(FailureState("transport")) /\ UNCHANGED attempt
    /\ answer' = None
    /\ UNCHANGED <<kind, action, step, known, confirmed, platform, flight, posts>>

-----------------------------------------------------------------------------
(* ReconcileOperation *)

Reconcilable == outcome = "acknowledged" /\ known # {} /\ kind # "write"

Reconcile ==
    /\ pc = "done" /\ ~confirmed /\ Reconcilable
    /\ pc' = "reading" /\ step' = 1 /\ attempt' = 1
    /\ UNCHANGED <<kind, action, known, outcome, confirmed, platform, wire>>

\* commentMatches: of the comments listed, the one moderated.
CommentMatches(seen) ==
    CASE action = "hide" -> newer < Window /\ seen = "exact"
      [] action = "delete" -> newer >= Window \/ seen = "exact"
      [] action = "reply" -> newer < Window /\ (replied \/ seen = "exact")

\* A record matches when every submitted field is there and equal.
Matches(seen) == IF kind = "moderate" THEN CommentMatches(seen) ELSE seen = "exact"

\* One record is read, perhaps as it was a while ago.
ReadBack ==
    /\ pc = "reading"
    /\ \E seen \in past[step] :
          IF ~Matches(seen)
          THEN pc' = "done" /\ UNCHANGED <<step, confirmed>>
          ELSE IF step + 1 \in Steps
          THEN step' = step + 1 /\ UNCHANGED <<pc, confirmed>>
          ELSE pc' = "done" /\ confirmed' = TRUE /\ UNCHANGED step
    /\ attempt' = 1
    /\ UNCHANGED <<kind, action, known, outcome, platform, wire>>

ReadFails ==
    /\ pc = "reading"
    /\ \/ Again("read") /\ UNCHANGED pc
       \/ pc' = "done" /\ attempt' = 1
    /\ UNCHANGED <<kind, action, step, known, outcome, confirmed, platform, wire>>

-----------------------------------------------------------------------------
(* The platform and everybody else *)

Hold(s, value) ==
    /\ held' = [held EXCEPT ![s] = value]
    /\ past' = [past EXCEPT ![s] = @ \union {value}]

\* A request is taken; its answer counts only while the client waits for it.
Take(s) ==
    /\ s \in flight
    /\ flight' = flight \ {s}
    /\ \E value \in {"exact", "other", "refused"} :
          /\ IF value = "refused" THEN UNCHANGED <<held, past>> ELSE Hold(s, value)
          /\ answer' = IF pc = "waiting" /\ step = s
                       THEN (IF value = "refused" THEN "refused" ELSE "made") ELSE answer
    /\ UNCHANGED <<client, edits, newer, replied, posts>>

\* What arrives is sometimes lost.
Lose(s) ==
    /\ s \in flight
    /\ flight' = flight \ {s}
    /\ UNCHANGED <<client, platform, answer, posts>>

EditConditions ==
    /\ pc = "revalidating" /\ edits < MaxEdits
    /\ edits' = edits + 1
    /\ UNCHANGED <<client, wire, held, past, newer, replied>>

\* Someone edits a record that the operation made or changed.
EditRecord(s) ==
    /\ held[s] = "exact"
    /\ Hold(s, "other")
    /\ UNCHANGED <<client, wire, edits, newer, replied>>

\* Someone comments.
Comment ==
    /\ kind = "moderate" /\ newer < Window
    /\ newer' = newer + 1
    /\ UNCHANGED <<client, wire, edits, held, past, replied>>

Client ==
    \/ Revalidate \/ NoCredential \/ Post \/ Accepted \/ Refused \/ Unanswered
    \/ ReadBack \/ ReadFails

Next ==
    \/ Client \/ Reconcile
    \/ EditConditions \/ Comment
    \/ \E s \in Steps : Take(s) \/ Lose(s) \/ EditRecord(s)

Spec == Init /\ [][Next]_vars

\* Attempts are bounded and the HTTP client gives up after twenty seconds.
FairSpec == Spec /\ WF_vars(Client)

-----------------------------------------------------------------------------

TypeOK ==
    /\ kind \in Kinds /\ action \in Actions \union {None}
    /\ pc \in {"revalidating", "posting", "waiting", "done", "reading"}
    /\ step \in Steps /\ attempt \in 1..3 /\ known \subseteq Steps
    /\ outcome \in {None, "not_sent", "rejected", "unknown", "partial", "acknowledged"}
    /\ confirmed \in BOOLEAN /\ replied \in BOOLEAN
    /\ edits \in 0..MaxEdits /\ newer \in 0..Window
    /\ \A s \in AllSteps :
          held[s] \in past[s] /\ past[s] \subseteq {"none", "old", "exact", "other"}
    /\ flight \subseteq Steps /\ answer \in {None, "made", "refused"}
    /\ \A s \in AllSteps : posts[s] \in Nat

\* The platform has made something for step s, or may still make it.
HasMade(s) == past[s] \intersect {"exact", "other"} # {}
MayHaveMade(s) == s \in flight \/ HasMade(s)

\* No request is ever sent twice, whatever becomes of its answer (client.go:143,
\* docs/architecture.md:190).
SentOnce == \A s \in AllSteps : posts[s] <= 1

\* The outcome tells what the platform may have done, also later: not sent and
\* rejected mean nothing; what is acknowledged was made; and besides the
\* resources it names at most one more request may have had an effect, which the
\* outcome admits (operations.go:228, 684, 698).
OutcomeIsTrue ==
    outcome # None =>
      /\ outcome \in {"not_sent", "rejected"} => \A s \in Steps : ~MayHaveMade(s)
      /\ outcome = "acknowledged" => known = Steps
      /\ \A s \in known : HasMade(s)
      /\ \A s \in Steps \ known : MayHaveMade(s) =>
            outcome \in {"unknown", "partial"} /\ s = Cardinality(known) + 1

\* An operation is confirmed only if the platform has held, for every record of
\* it, exactly what was submitted: neither an acknowledgement nor a returned id
\* is enough (operations.go:411, creation_readback.go:14).
ConfirmedWasHeld == confirmed => \A s \in Steps : "exact" \in past[s]

\* A listing of comments tells neither whose reply it shows nor whether a comment
\* that is missing was deleted.
Readable == action \notin {"delete", "reply"}

\* No request is sent twice; the outcome tells what the platform may have done, also
\* later; and what can be read back is confirmed only if the platform held exactly
\* what was submitted (client.go:164).
OperationsAreTrue == SentOnce /\ OutcomeIsTrue /\ (Readable => ConfirmedWasHeld)

-----------------------------------------------------------------------------
(* What the Change Service gets of it.                                       *)

\* Outcomes that mean that nothing happened (changes.go:205, 253).
Answer == IF outcome \in {"not_sent", "rejected"} THEN "refused" ELSE outcome

Made == {s \in Steps : HasMade(s)}

\* What the platform did of the operation, and may still do.
Effect ==
    CASE outcome = None -> "none"
      [] outcome # None /\ Made = Steps -> "full"
      [] outcome # None /\ Made = {} -> IF flight = {} THEN "none" ELSE "inflight"
      [] OTHER -> IF Made \union flight = Steps THEN "trailing" ELSE "partial"

Write == INSTANCE PlatformWrite
    WITH bundle <- kind = "bundle", answer <- Answer, effect <- Effect

\* An operation is answered once, with what the Change Service reckons with; only what
\* was under way then may still happen; and only what was acknowledged is confirmed
\* (agenthost/changes.go:250).
ImplementsWrite == Write!Spec

\* An operation that was started comes to an outcome (client.go:164).
Answered == <>(outcome # None)
=============================================================================
