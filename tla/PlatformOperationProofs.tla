----------------------- MODULE PlatformOperationProofs -----------------------
(***************************************************************************)
(* An operation on TikTok is sent once, and what is said of it afterwards  *)
(* is true, for every number of comments and edits by others and however   *)
(* late the platform takes a request.  And a read of several pages that    *)
(* others change meanwhile keeps what was there.                           *)
(***************************************************************************)
EXTENDS PlatformOperation, FiniteSetTheorems, SequenceTheorems, TLAPS

Values == {"none", "old", "exact", "other"}

\* The types, with the functions' domains.
Typed ==
    /\ kind \in Kinds /\ action \in Actions \union {None}
    /\ kind = "moderate" => action \in Actions
    /\ pc \in {"revalidating", "posting", "waiting", "done", "reading"}
    /\ step \in Steps /\ attempt \in 1..3 /\ known \subseteq Steps
    /\ outcome \in {None, "not_sent", "rejected", "unknown", "partial", "acknowledged"}
    /\ confirmed \in BOOLEAN /\ replied \in BOOLEAN
    /\ edits \in 0..MaxEdits /\ newer \in 0..Window
    /\ held \in [AllSteps -> Values]
    /\ past \in [AllSteps -> SUBSET Values]
    /\ flight \subseteq Steps /\ answer \in {None, "made", "refused"}
    /\ posts \in [AllSteps -> Nat]

\* Only what was sent has an effect, and none while it is under way.
EffectsWereSent ==
    /\ \A s \in AllSteps : held[s] \in past[s]
    /\ \A s \in AllSteps : MayHaveMade(s) => posts[s] = 1
    /\ \A s \in flight : ~HasMade(s)

(* Until there is an outcome, the steps before the one at hand are known   *)
(* and were sent, and those after it were not.                             *)
Underway == pc \in {"revalidating", "posting", "waiting"}
Proceeding ==
    Underway =>
        /\ outcome = None /\ ~confirmed
        /\ known = 1..(step - 1)
        /\ \A s \in AllSteps :
              posts[s] = IF s < step \/ (s = step /\ pc = "waiting") THEN 1 ELSE 0
        /\ pc = "revalidating" => step = 1

\* An answer that counts is what the platform did.
AnswerIsTrue ==
    pc = "waiting" =>
        /\ answer = "made" => HasMade(step) /\ step \notin flight
        /\ answer = "refused" => ~MayHaveMade(step)

\* What has been read back so far was held.
ReadSoFar ==
    pc = "reading" =>
        /\ outcome = "acknowledged"
        /\ Readable => \A s \in 1..(step - 1) : "exact" \in past[s]

IInv ==
    /\ Typed
    /\ EffectsWereSent
    /\ SentOnce
    /\ Proceeding
    /\ AnswerIsTrue
    /\ ~Underway => outcome # None
    /\ \A s \in known : HasMade(s)
    /\ OutcomeIsTrue
    /\ ReadSoFar
    /\ Readable => ConfirmedWasHeld

-----------------------------------------------------------------------------
\* The values the constants may have; every run checks them.
Assumptions == KindAssumption /\ BoundAssumption /\ NoneAssumption

LEMMA InitHolds ==
    ASSUME Assumptions, Init
    PROVE  IInv
<1>1. kind \in Kinds /\ (kind = "moderate" => action \in Actions) /\ action \in Actions \union {None}
  BY DEF Init
<1>2. held \in [AllSteps -> Values] /\ past \in [AllSteps -> SUBSET Values]
  BY DEF Init, Values
<1>3. \A s \in AllSteps : ~MayHaveMade(s) /\ held[s] \in past[s] /\ posts[s] = 0
  BY DEF Init, MayHaveMade, HasMade, AllSteps
<1>4. newer \in 0..Window /\ edits \in 0..MaxEdits /\ replied \in BOOLEAN
  <2>1. CASE kind = "moderate"
    BY <2>1 DEF Init, Assumptions, BoundAssumption
  <2>2. CASE kind # "moderate"
    BY <2>2 DEF Init, Assumptions, BoundAssumption
  <2> QED
    BY <2>1, <2>2
<1>5. Typed
  <2>1. pc \in {"posting", "revalidating"} /\ step \in Steps /\ known \subseteq Steps
    BY DEF Init, Steps, AllSteps
  <2>2. flight \subseteq Steps /\ posts \in [AllSteps -> Nat]
    BY DEF Init
  <2>3. attempt \in 1..3 /\ outcome = None /\ answer = None
    BY DEF Init
  <2>4. confirmed \in BOOLEAN
    BY Zenon DEF Init
  <2> QED
    BY <1>1, <1>2, <1>4, <2>1, <2>2, <2>3, <2>4 DEF Typed
<1>6. \A s \in AllSteps : s < 1 => FALSE
  BY DEF AllSteps
<1>7. Proceeding
  BY <1>3, <1>6 DEF Proceeding, Init
<1> QED
  BY <1>3, <1>5, <1>7
     DEF IInv, Init, EffectsWereSent, SentOnce, AnswerIsTrue, OutcomeIsTrue, Underway, ReadSoFar,
         ConfirmedWasHeld

-----------------------------------------------------------------------------
(* The platform and everybody else.  What was made or read stays so, and   *)
(* nothing is made of what was not sent.                                   *)
LEMMA PlatformKeeps ==
    ASSUME IInv, Typed', UNCHANGED <<client, posts>>,
           \A s \in AllSteps : past[s] \subseteq past'[s] /\ held'[s] \in past'[s],
           \A s \in AllSteps : MayHaveMade(s)' => MayHaveMade(s),
           flight' \subseteq flight, \A s \in flight' : past'[s] = past[s],
           AnswerIsTrue'
    PROVE  IInv'
<1>1. \A s \in AllSteps : HasMade(s) => HasMade(s)'
  BY DEF HasMade
<1>2. EffectsWereSent' /\ SentOnce'
  BY DEF IInv, EffectsWereSent, SentOnce, HasMade
<1>3. Proceeding' /\ (~Underway => outcome # None)'
  BY DEF IInv, Proceeding, Underway, client
<1>4. known \subseteq AllSteps /\ Steps \subseteq AllSteps /\ Steps' = Steps
  BY DEF IInv, Typed, Steps, AllSteps, client
<1>5. (\A s \in known : HasMade(s))'
  BY <1>1, <1>4 DEF IInv, client
<1>6. OutcomeIsTrue'
  BY <1>4, <1>5 DEF IInv, OutcomeIsTrue, client
<1>7. pc = "reading" => \A s \in 1..(step - 1) : s \in AllSteps
  BY <1>4 DEF IInv, Typed, AllSteps
<1>8. ReadSoFar' /\ (Readable => ConfirmedWasHeld)'
  BY <1>4, <1>7 DEF IInv, ReadSoFar, ConfirmedWasHeld, Readable, client
<1> QED
  BY <1>2, <1>3, <1>5, <1>6, <1>8 DEF IInv

LEMMA HoldKeeps ==
    ASSUME Typed, EffectsWereSent, NEW s \in AllSteps, NEW value \in {"exact", "other"}, Hold(s, value)
    PROVE  /\ held' \in [AllSteps -> Values] /\ past' \in [AllSteps -> SUBSET Values]
           /\ \A t \in AllSteps : past[t] \subseteq past'[t] /\ held'[t] \in past'[t]
           /\ \A t \in AllSteps \ {s} : past'[t] = past[t]
           /\ HasMade(s)'
<1>1. \A t \in AllSteps : /\ held'[t] = IF t = s THEN value ELSE held[t]
                          /\ past'[t] = IF t = s THEN past[t] \union {value} ELSE past[t]
  BY DEF Hold, Typed
<1>2. held' \in [AllSteps -> Values] /\ past' \in [AllSteps -> SUBSET Values]
  BY DEF Hold, Typed, Values
<1> QED
  BY <1>1, <1>2 DEF HasMade, EffectsWereSent

LEMMA TakeHolds ==
    ASSUME IInv, NEW s \in Steps, Take(s)
    PROVE  IInv'
<1>1. s \in AllSteps /\ s \in flight /\ flight' = flight \ {s}
  BY DEF Take, Steps, AllSteps
<1>2. UNCHANGED <<client, edits, newer, replied, posts>> /\ Steps' = Steps
  BY DEF Take, client, Steps
<1>3. PICK value \in {"exact", "other", "refused"} :
          /\ IF value = "refused" THEN UNCHANGED <<held, past>> ELSE Hold(s, value)
          /\ answer' = IF pc = "waiting" /\ step = s
                       THEN (IF value = "refused" THEN "refused" ELSE "made") ELSE answer
  BY DEF Take
<1>4. /\ held' \in [AllSteps -> Values] /\ past' \in [AllSteps -> SUBSET Values]
      /\ \A t \in AllSteps : past[t] \subseteq past'[t] /\ held'[t] \in past'[t]
      /\ \A t \in AllSteps \ {s} : past'[t] = past[t]
      /\ value = "refused" => past' = past
      /\ value # "refused" => HasMade(s)'
  <2>1. CASE value = "refused"
    BY <1>3, <2>1 DEF IInv, Typed, EffectsWereSent
  <2>2. CASE value \in {"exact", "other"}
    BY <1>1, <1>3, <2>2, HoldKeeps DEF IInv
  <2> QED
    BY <2>1, <2>2
<1>5. Typed'
  BY <1>1, <1>2, <1>3, <1>4 DEF IInv, Typed, client
<1>6. \A t \in AllSteps : MayHaveMade(t)' => MayHaveMade(t)
  BY <1>1, <1>4 DEF MayHaveMade, HasMade
<1>7. AnswerIsTrue'
  <2>1. CASE pc = "waiting" /\ step = s
    <3>1. step' = s /\ s \notin flight'
      BY <1>1, <1>2, <2>1 DEF client
    <3>2. ~HasMade(s)
      BY <1>1 DEF IInv, EffectsWereSent
    <3>3. value = "refused" => ~HasMade(s)'
      BY <1>4, <3>2 DEF HasMade
    <3> QED
      BY <1>3, <1>4, <2>1, <3>1, <3>3 DEF AnswerIsTrue, MayHaveMade, HasMade
  <2>2. CASE pc = "waiting" /\ step # s
    <3>1. step \in AllSteps /\ step' = step
      BY <1>2 DEF IInv, Typed, Steps, AllSteps, client
    <3> QED
      BY <1>1, <1>3, <1>4, <2>2, <3>1 DEF IInv, AnswerIsTrue, MayHaveMade, HasMade
  <2> QED
    BY <1>2, <2>1, <2>2 DEF AnswerIsTrue, client
<1>8. flight \subseteq AllSteps
  BY DEF IInv, Typed, Steps, AllSteps
<1> QED
  BY <1>1, <1>2, <1>4, <1>5, <1>6, <1>7, <1>8, PlatformKeeps DEF IInv

LEMMA EditRecordHolds ==
    ASSUME IInv, NEW s \in Steps, EditRecord(s)
    PROVE  IInv'
<1>1. s \in AllSteps /\ held[s] = "exact" /\ Hold(s, "other")
  BY DEF EditRecord, Steps, AllSteps
<1>2. UNCHANGED <<client, wire, edits, newer, replied>> /\ Steps' = Steps
  BY DEF EditRecord, client, Steps
<1>3. /\ held' \in [AllSteps -> Values] /\ past' \in [AllSteps -> SUBSET Values]
      /\ \A t \in AllSteps : past[t] \subseteq past'[t] /\ held'[t] \in past'[t]
      /\ \A t \in AllSteps \ {s} : past'[t] = past[t]
  BY <1>1, HoldKeeps DEF IInv
<1>4. HasMade(s) /\ s \notin flight
  BY <1>1 DEF HasMade, IInv, EffectsWereSent
<1>5. Typed'
  BY <1>2, <1>3 DEF IInv, Typed, client, wire
<1>6. \A t \in AllSteps : MayHaveMade(t)' => MayHaveMade(t)
  BY <1>2, <1>3, <1>4 DEF MayHaveMade, HasMade, wire
<1>7. step \in AllSteps /\ flight \subseteq AllSteps
  BY DEF IInv, Typed, Steps, AllSteps
<1>8. AnswerIsTrue'
  BY <1>2, <1>3, <1>6, <1>7 DEF IInv, AnswerIsTrue, HasMade, client, wire
<1> QED
  BY <1>2, <1>3, <1>4, <1>5, <1>6, <1>7, <1>8, PlatformKeeps DEF wire

LEMMA OthersHold ==
    ASSUME Assumptions, IInv, EditConditions \/ Comment \/ \E s \in Steps : Lose(s)
    PROVE  IInv'
<1>1. UNCHANGED <<client, held, past, posts, answer>> /\ flight' \subseteq flight /\ Steps' = Steps
  BY DEF EditConditions, Comment, Lose, wire, platform, client, Steps
<1>2. newer' \in 0..Window /\ edits' \in 0..MaxEdits /\ replied' = replied
  BY DEF EditConditions, Comment, Lose, platform, IInv, Typed, Assumptions, BoundAssumption
<1>3. Typed'
  BY <1>1, <1>2 DEF IInv, Typed, client
<1>4. \A t \in AllSteps : (MayHaveMade(t)' => MayHaveMade(t)) /\ HasMade(t)' = HasMade(t)
  BY <1>1 DEF MayHaveMade, HasMade
<1>5. step \in AllSteps /\ step' = step
  BY <1>1 DEF IInv, Typed, Steps, AllSteps, client
<1>6. AnswerIsTrue'
  BY <1>1, <1>4, <1>5 DEF IInv, AnswerIsTrue, HasMade, MayHaveMade, client
<1> QED
  BY <1>1, <1>3, <1>4, <1>6, PlatformKeeps DEF IInv, EffectsWereSent

-----------------------------------------------------------------------------
(* The client.  It sees the platform only through answers, so that what    *)
(* was made and what is under way are as they were.                        *)
Unseen == UNCHANGED <<kind, action, platform, flight, posts>>

LEMMA UnseenKeeps ==
    ASSUME IInv, Unseen
    PROVE  /\ EffectsWereSent' /\ SentOnce' /\ Steps' = Steps
           /\ \A s : HasMade(s)' = HasMade(s) /\ MayHaveMade(s)' = MayHaveMade(s)
  BY DEF IInv, Unseen, platform, EffectsWereSent, SentOnce, HasMade, MayHaveMade, Steps

\* A client that ends with the answer it has says what is true.
LEMMA EndsTruly ==
    ASSUME Assumptions, IInv, Typed', Unseen, UNCHANGED <<known, confirmed>>,
           Underway, pc' = "done",
           NEW error \in {"credential", "business", "omitted", "transport"},
           outcome' = FailureState(error),
           error \in {"credential", "business"} => ~MayHaveMade(step)
    PROVE  IInv'
<1>1. /\ EffectsWereSent' /\ SentOnce' /\ Steps' = Steps
      /\ \A s : HasMade(s)' = HasMade(s) /\ MayHaveMade(s)' = MayHaveMade(s)
  BY UnseenKeeps
<1>2. /\ step \in AllSteps /\ Steps \subseteq AllSteps /\ known = 1..(step - 1) /\ ~confirmed
      /\ \A s \in AllSteps : s > step => ~MayHaveMade(s)
  <2>1. step \in AllSteps /\ Steps \subseteq AllSteps
    BY DEF IInv, Typed, Steps, AllSteps
  <2>2. \A s \in AllSteps : s > step => posts[s] = 0
    BY <2>1 DEF IInv, Proceeding, AllSteps
  <2> QED
    BY <2>1, <2>2 DEF IInv, Proceeding, EffectsWereSent
<1>3. Cardinality(known) = step - 1
  <2>1. step \in Int /\ step >= 1
    BY <1>2 DEF AllSteps
  <2>2. Cardinality(1..(step - 1)) = IF 1 > step - 1 THEN 0 ELSE step - 1 - 1 + 1
    BY <2>1, FS_Interval
  <2> QED
    BY <1>2, <2>1, <2>2
<1>4. /\ outcome' \in {"not_sent", "rejected", "unknown", "partial"}
      /\ outcome' \in {"not_sent", "rejected"} => step = 1 /\ ~MayHaveMade(step)
      /\ outcome' # None
  BY DEF FailureState, Classify, Assumptions, NoneAssumption
<1>5. (\A s \in known : HasMade(s))'
  BY <1>1 DEF IInv
<1>6. \A s \in Steps \ known : MayHaveMade(s) => s = step
  BY <1>2 DEF AllSteps
<1>7. \A s \in Steps : outcome' \in {"not_sent", "rejected"} => ~MayHaveMade(s)
  BY <1>2, <1>4, <1>6 DEF AllSteps
<1>8. (\A s \in Steps \ known : MayHaveMade(s) =>
            outcome \in {"unknown", "partial"} /\ s = Cardinality(known) + 1)'
  BY <1>1, <1>2, <1>3, <1>4, <1>6, <1>7 DEF AllSteps
<1>9. OutcomeIsTrue'
  BY <1>1, <1>4, <1>5, <1>7, <1>8 DEF OutcomeIsTrue
<1> QED
  BY <1>1, <1>2, <1>4, <1>5, <1>9
     DEF IInv, Proceeding, AnswerIsTrue, Underway, ReadSoFar, ConfirmedWasHeld

\* The request at hand has not been sent.
LEMMA NotSentYet ==
    ASSUME IInv, pc \in {"revalidating", "posting"}
    PROVE  step \in AllSteps /\ posts[step] = 0 /\ ~MayHaveMade(step)
<1>1. step \in AllSteps
  BY DEF IInv, Typed, Steps, AllSteps
<1>2. posts[step] = 0
  BY <1>1 DEF IInv, Proceeding, Underway, AllSteps
<1> QED
  BY <1>1, <1>2 DEF IInv, EffectsWereSent

LEMMA RevalidateHolds ==
    ASSUME Assumptions, IInv, Revalidate
    PROVE  IInv'
<1>1. /\ Unseen /\ UNCHANGED <<step, known, confirmed, answer>> /\ pc = "revalidating" /\ Underway
  BY DEF Revalidate, Unseen, wire, Underway
<1>2. /\ EffectsWereSent' /\ SentOnce' /\ Steps' = Steps
      /\ \A s : HasMade(s)' = HasMade(s) /\ MayHaveMade(s)' = MayHaveMade(s)
  BY <1>1, UnseenKeeps
<1>3. CASE Finish("not_sent") /\ attempt' = 1
  <2>1. FailureState("credential") = "not_sent"
    BY <1>1 DEF FailureState, Classify, IInv, Proceeding
  <2>2. Typed'
    BY <1>1, <1>2, <1>3 DEF IInv, Typed, Finish, Unseen, platform
  <2> QED
    BY <1>1, <1>3, <2>1, <2>2, NotSentYet, EndsTruly DEF Finish
<1>4. CASE /\ pc' \in {"revalidating", "posting"} /\ UNCHANGED outcome /\ attempt' \in 1..3
  <2>1. Typed'
    BY <1>1, <1>2, <1>4 DEF IInv, Typed, Unseen, platform
  <2>2. Proceeding'
    BY <1>1, <1>4 DEF IInv, Proceeding, Underway, Unseen
  <2>3. OutcomeIsTrue' /\ (\A s \in known : HasMade(s))'
    BY <1>1, <1>2, <1>4 DEF IInv, OutcomeIsTrue
  <2> QED
    BY <1>1, <1>2, <1>4, <2>1, <2>2, <2>3
       DEF IInv, AnswerIsTrue, Underway, ReadSoFar, ConfirmedWasHeld, Proceeding
<1>5. \/ Again("read") /\ UNCHANGED <<pc, outcome>>
      \/ Finish("not_sent") /\ attempt' = 1
      \/ AsReviewed /\ pc' = "posting" /\ attempt' = 1 /\ UNCHANGED outcome
  BY DEF Revalidate
<1>6. Again("read") => attempt' \in 1..3
  BY DEF Again, Attempts, IInv, Typed
<1> QED
  BY <1>1, <1>3, <1>4, <1>5, <1>6

LEMMA NoCredentialHolds ==
    ASSUME Assumptions, IInv, NoCredential
    PROVE  IInv'
<1>1. /\ Unseen /\ UNCHANGED <<step, known, confirmed, answer, attempt>> /\ pc = "posting" /\ Underway
  BY DEF NoCredential, Unseen, wire, Underway
<1>2. outcome' \in {"not_sent", "rejected", "unknown", "partial"} /\ Steps' = Steps
  BY <1>1 DEF NoCredential, Finish, FailureState, Classify, Unseen, Steps
<1>3. Typed'
  BY <1>1, <1>2 DEF NoCredential, Finish, IInv, Typed, Unseen, platform
<1> QED
  BY <1>1, <1>3, NotSentYet, EndsTruly DEF NoCredential, Finish

LEMMA PostHolds ==
    ASSUME Assumptions, IInv, Post
    PROVE  IInv'
<1>1. step \in AllSteps /\ posts[step] = 0 /\ ~MayHaveMade(step)
  BY NotSentYet DEF Post
<1>2. /\ pc = "posting" /\ pc' = "waiting" /\ flight' = flight \union {step} /\ answer' = None
      /\ UNCHANGED <<kind, action, step, attempt, known, outcome, confirmed, platform>>
      /\ Steps' = Steps
  BY DEF Post, Steps
<1>3. posts' \in [AllSteps -> Nat] /\ \A s \in AllSteps : posts'[s] = IF s = step THEN 1 ELSE posts[s]
  BY <1>1 DEF Post, IInv, Typed
<1>4. Typed'
  BY <1>2, <1>3 DEF IInv, Typed, platform
<1>5. \A s : HasMade(s)' = HasMade(s) /\ (MayHaveMade(s)' => MayHaveMade(s) \/ s = step)
  BY <1>2 DEF HasMade, MayHaveMade, platform
<1>6. EffectsWereSent' /\ SentOnce'
  BY <1>1, <1>2, <1>3, <1>5 DEF IInv, EffectsWereSent, SentOnce, MayHaveMade, platform
<1>7. Proceeding'
  <2>1. \A s \in AllSteps : posts'[s] = IF s < step \/ s = step THEN 1 ELSE 0
    BY <1>1, <1>2, <1>3 DEF IInv, Proceeding, Underway, AllSteps
  <2> QED
    BY <1>2, <2>1 DEF IInv, Proceeding, Underway
<1>8. AnswerIsTrue'
  BY <1>2 DEF AnswerIsTrue, Assumptions, NoneAssumption
<1>9. outcome = None /\ ~confirmed
  BY <1>2 DEF IInv, Proceeding, Underway
<1>10. (\A s \in known : HasMade(s))'
  BY <1>2, <1>5 DEF IInv
<1> QED
  BY <1>2, <1>4, <1>6, <1>7, <1>8, <1>9, <1>10
     DEF IInv, OutcomeIsTrue, ReadSoFar, ConfirmedWasHeld, Underway

LEMMA AcceptedHolds ==
    ASSUME Assumptions, IInv, Accepted
    PROVE  IInv'
<1>1. /\ Unseen /\ UNCHANGED confirmed /\ pc = "waiting" /\ Underway /\ answer = "made"
      /\ attempt' = 1 /\ answer' = None
  BY DEF Accepted, Unseen, Underway
<1>2. /\ EffectsWereSent' /\ SentOnce' /\ Steps' = Steps
      /\ \A s : HasMade(s)' = HasMade(s) /\ MayHaveMade(s)' = MayHaveMade(s)
  BY <1>1, UnseenKeeps
<1>3. /\ step \in Steps /\ step \in AllSteps /\ known = 1..(step - 1) /\ outcome = None /\ ~confirmed
      /\ HasMade(step)
  BY <1>1 DEF IInv, Typed, Proceeding, AnswerIsTrue, Steps, AllSteps
<1>4. CASE Finish(FailureState("omitted")) /\ UNCHANGED <<step, known>>
  <2>1. outcome' \in {"unknown", "partial"} /\ pc' = "done"
    BY <1>4 DEF Finish, FailureState, Classify
  <2>2. Typed'
    BY <1>1, <1>2, <1>4, <2>1 DEF IInv, Typed, Unseen, platform
  <2> QED
    BY <1>1, <1>4, <2>2, EndsTruly DEF Finish
<1> DEFINE grown == known \union {step}
<1>5. grown = 1..step /\ grown \subseteq Steps /\ \A s \in grown : HasMade(s)
  BY <1>3 DEF IInv, Typed, AllSteps
<1>6. CASE known' = grown /\ step + 1 \in Steps /\ step' = step + 1 /\ pc' = "posting" /\ UNCHANGED outcome
  <2>1. Typed'
    BY <1>1, <1>2, <1>5, <1>6 DEF IInv, Typed, Unseen, platform
  <2>2. known' = 1..(step' - 1)
    BY <1>3, <1>5, <1>6 DEF AllSteps
  <2>3. \A s \in AllSteps : posts[s] = IF s < step' THEN 1 ELSE 0
    BY <1>1, <1>3, <1>6 DEF IInv, Proceeding, AllSteps
  <2>4. Proceeding'
    BY <1>1, <1>3, <1>6, <2>2, <2>3 DEF Proceeding, Unseen
  <2>5. (\A s \in known : HasMade(s))'
    BY <1>2, <1>5, <1>6
  <2> QED
    BY <1>1, <1>2, <1>3, <1>6, <2>1, <2>4, <2>5
       DEF IInv, AnswerIsTrue, Underway, OutcomeIsTrue, ReadSoFar, ConfirmedWasHeld
<1>7. CASE known' = grown /\ step + 1 \notin Steps /\ step' = 1 /\ Finish("acknowledged")
  <2>1. grown = Steps
    BY <1>3, <1>5, <1>7 DEF Steps, AllSteps
  <2>2. 1 \in Steps
    BY DEF Steps, AllSteps
  <2>3. Typed'
    BY <1>1, <1>2, <1>5, <1>7, <2>2 DEF IInv, Typed, Finish, Unseen, platform
  <2>4. (\A s \in known : HasMade(s))'
    BY <1>2, <1>5, <1>7
  <2>5. OutcomeIsTrue'
    BY <1>2, <1>7, <2>1, <2>4 DEF OutcomeIsTrue, Finish
  <2> QED
    BY <1>1, <1>2, <1>3, <1>7, <2>3, <2>4, <2>5
       DEF IInv, Finish, Assumptions, NoneAssumption, Proceeding, AnswerIsTrue, Underway, ReadSoFar,
           ConfirmedWasHeld
<1> QED
  BY <1>4, <1>6, <1>7 DEF Accepted

LEMMA RefusedHolds ==
    ASSUME Assumptions, IInv, Refused
    PROVE  IInv'
<1>1. /\ Unseen /\ UNCHANGED <<step, attempt, known, confirmed>> /\ pc = "waiting" /\ Underway
      /\ answer = "refused" /\ answer' = None
  BY DEF Refused, Unseen, Underway
<1>2. outcome' \in {"not_sent", "rejected", "unknown", "partial"} /\ Steps' = Steps
  BY <1>1 DEF Refused, Finish, FailureState, Classify, Unseen, Steps
<1>3. Typed'
  BY <1>1, <1>2 DEF Refused, Finish, IInv, Typed, Unseen, platform
<1>4. ~MayHaveMade(step)
  BY <1>1 DEF IInv, AnswerIsTrue
<1> QED
  BY <1>1, <1>3, <1>4, EndsTruly DEF Refused, Finish

\* A write is not attempted again.
LEMMA UnansweredHolds ==
    ASSUME Assumptions, IInv, Unanswered
    PROVE  IInv'
<1>1. /\ Unseen /\ UNCHANGED <<step, known, confirmed>> /\ pc = "waiting" /\ Underway
      /\ answer' = None
  BY DEF Unanswered, Unseen, Underway
<1>2. Finish(FailureState("transport")) /\ UNCHANGED attempt
  BY DEF Unanswered, Again, Attempts, IInv, Typed
<1>3. outcome' \in {"unknown", "partial"} /\ Steps' = Steps
  BY <1>1, <1>2 DEF Finish, FailureState, Classify, Unseen, Steps
<1>4. Typed'
  BY <1>1, <1>2, <1>3 DEF Finish, IInv, Typed, Unseen, platform
<1> QED
  BY <1>1, <1>2, <1>4, EndsTruly DEF Finish

(* Reading back changes nothing that was said of the outcome.              *)
LEMMA ReadingKeeps ==
    ASSUME Assumptions, IInv, Typed', Unseen, UNCHANGED <<known, outcome, answer>>,
           ~Underway, pc' \in {"done", "reading"},
           ReadSoFar', (Readable => ConfirmedWasHeld)'
    PROVE  IInv'
<1>1. /\ EffectsWereSent' /\ SentOnce' /\ Steps' = Steps
      /\ \A s : HasMade(s)' = HasMade(s) /\ MayHaveMade(s)' = MayHaveMade(s)
  BY UnseenKeeps
<1>2. (\A s \in known : HasMade(s))' /\ OutcomeIsTrue'
  BY <1>1 DEF IInv, OutcomeIsTrue
<1> QED
  BY <1>1, <1>2 DEF IInv, Proceeding, AnswerIsTrue, Underway

LEMMA ReconcileHolds ==
    ASSUME Assumptions, IInv, Reconcile
    PROVE  IInv'
<1>1. /\ Unseen /\ UNCHANGED <<known, outcome, confirmed, answer>> /\ ~Underway
      /\ pc' = "reading" /\ step' = 1 /\ attempt' = 1 /\ outcome = "acknowledged" /\ ~confirmed
      /\ Steps' = Steps
  BY DEF Reconcile, Reconcilable, Unseen, wire, Underway, Steps
<1>2. Typed'
  BY <1>1 DEF IInv, Typed, Unseen, platform, Steps, AllSteps
<1>3. ReadSoFar' /\ (Readable => ConfirmedWasHeld)'
  BY <1>1 DEF ReadSoFar, ConfirmedWasHeld
<1> QED
  BY <1>1, <1>2, <1>3, ReadingKeeps

\* What can be read back matches only when it is what was submitted.
LEMMA MatchIsExact ==
    ASSUME Assumptions, IInv, Readable, NEW seen, Matches(seen)
    PROVE  seen = "exact"
<1>1. CASE kind = "moderate"
  <2>1. action = "hide"
    BY <1>1 DEF IInv, Typed, Readable, Assumptions, KindAssumption
  <2> QED
    BY <1>1, <2>1 DEF Matches, CommentMatches
<1>2. CASE kind # "moderate"
  BY <1>2 DEF Matches
<1> QED
  BY <1>1, <1>2

LEMMA ReadBackHolds ==
    ASSUME Assumptions, IInv, ReadBack
    PROVE  IInv'
<1>1. /\ Unseen /\ UNCHANGED <<known, outcome, answer>> /\ ~Underway /\ pc = "reading"
      /\ outcome = "acknowledged" /\ attempt' = 1 /\ Steps' = Steps
  BY DEF ReadBack, IInv, ReadSoFar, Unseen, wire, Underway, Steps
<1>2. step \in Steps /\ step \in AllSteps /\ Steps \subseteq AllSteps
  BY DEF IInv, Typed, Steps, AllSteps
<1>3. PICK seen \in past[step] :
          IF ~Matches(seen)
          THEN pc' = "done" /\ UNCHANGED <<step, confirmed>>
          ELSE IF step + 1 \in Steps
          THEN step' = step + 1 /\ UNCHANGED <<pc, confirmed>>
          ELSE pc' = "done" /\ confirmed' = TRUE /\ UNCHANGED step
  BY DEF ReadBack
<1>4. Readable /\ Matches(seen) => "exact" \in past[step]
  BY <1>3, MatchIsExact
<1>5. Readable => \A s \in 1..(step - 1) : "exact" \in past[s]
  BY <1>1 DEF IInv, ReadSoFar
<1>6. past' = past /\ Readable' = Readable
  BY <1>1 DEF Unseen, platform, Readable
<1>7. CASE ~Matches(seen)
  <2>1. pc' = "done" /\ UNCHANGED <<step, confirmed>>
    BY <1>3, <1>7
  <2>2. Typed'
    BY <1>1, <2>1 DEF IInv, Typed, Unseen, platform
  <2>3. ReadSoFar' /\ (Readable => ConfirmedWasHeld)'
    BY <1>1, <1>6, <2>1 DEF IInv, ReadSoFar, ConfirmedWasHeld
  <2> QED
    BY <1>1, <2>1, <2>2, <2>3, ReadingKeeps
<1>8. CASE Matches(seen) /\ step + 1 \in Steps
  <2>1. step' = step + 1 /\ UNCHANGED <<pc, confirmed>>
    BY <1>3, <1>8
  <2>2. Typed'
    BY <1>1, <1>8, <2>1 DEF IInv, Typed, Unseen, platform
  <2>3. Readable => \A s \in 1..step : "exact" \in past[s]
    BY <1>2, <1>4, <1>5, <1>8 DEF AllSteps
  <2>4. step' - 1 = step
    BY <1>2, <2>1 DEF AllSteps
  <2>5. ReadSoFar'
    BY <1>1, <1>6, <2>3, <2>4 DEF ReadSoFar
  <2>6. (Readable => ConfirmedWasHeld)'
    BY <1>1, <1>6, <2>1 DEF IInv, ConfirmedWasHeld
  <2> QED
    BY <1>1, <2>1, <2>2, <2>5, <2>6, ReadingKeeps
<1>9. CASE Matches(seen) /\ step + 1 \notin Steps
  <2>1. pc' = "done" /\ confirmed' = TRUE /\ UNCHANGED step
    BY <1>3, <1>9
  <2>2. Typed'
    <3>1. confirmed' \in BOOLEAN
      BY <2>1, Zenon
    <3> QED
      BY <1>1, <2>1, <3>1 DEF IInv, Typed, Unseen, platform
  <2>3. Steps = 1..step
    <3>1. CASE kind = "bundle"
      BY <1>2, <1>9, <3>1 DEF Steps, AllSteps
    <3>2. CASE kind # "bundle"
      BY <1>2, <3>2 DEF Steps
    <3> QED
      BY <3>1, <3>2
  <2>4. Readable => \A s \in Steps : "exact" \in past[s]
    BY <1>2, <1>4, <1>5, <1>9, <2>3 DEF AllSteps
  <2>5. ReadSoFar' /\ (Readable => ConfirmedWasHeld)'
    BY <1>1, <1>6, <2>1, <2>4 DEF ReadSoFar, ConfirmedWasHeld
  <2> QED
    BY <1>1, <2>1, <2>2, <2>5, ReadingKeeps
<1> QED
  BY <1>7, <1>8, <1>9

LEMMA ReadFailsHolds ==
    ASSUME Assumptions, IInv, ReadFails
    PROVE  IInv'
<1>1. /\ Unseen /\ UNCHANGED <<step, known, outcome, confirmed, answer>> /\ ~Underway /\ pc = "reading"
      /\ pc' \in {"reading", "done"} /\ attempt' \in 1..3 /\ Steps' = Steps
  BY DEF ReadFails, Again, Attempts, Unseen, wire, Underway, Steps, IInv, Typed
<1>2. Typed'
  BY <1>1 DEF IInv, Typed, Unseen, platform
<1>3. ReadSoFar' /\ (Readable => ConfirmedWasHeld)'
  BY <1>1 DEF IInv, ReadSoFar, ConfirmedWasHeld, Readable, Unseen, platform
<1> QED
  BY <1>1, <1>2, <1>3, ReadingKeeps

-----------------------------------------------------------------------------
LEMMA NextHolds ==
    ASSUME Assumptions, IInv, [Next]_vars
    PROVE  IInv'
<1>1. CASE UNCHANGED vars
  BY <1>1 DEF vars, client, platform, wire, IInv, Typed, Steps, EffectsWereSent, HasMade, MayHaveMade,
              SentOnce, Proceeding, Underway, AnswerIsTrue, OutcomeIsTrue, ReadSoFar, Readable,
              ConfirmedWasHeld
<1> QED
  BY <1>1, RevalidateHolds, NoCredentialHolds, PostHolds, AcceptedHolds, RefusedHolds,
     UnansweredHolds, ReconcileHolds, ReadBackHolds, ReadFailsHolds, OthersHold, TakeHolds,
     EditRecordHolds
  DEF Next, Client

\* What the conclusions below rest on, for every operation.
THEOREM Invariance == ASSUME Assumptions PROVE Spec => []IInv
<1>1. Init => IInv
  BY InitHolds
<1>2. IInv /\ [Next]_vars => IInv'
  BY NextHolds
<1> QED
  BY <1>1, <1>2, PTL DEF Spec

LEMMA TypesFollow == ASSUME IInv PROVE TypeOK
  BY DEF IInv, Typed, TypeOK, EffectsWereSent, Values, AllSteps

LEMMA OperationFollows == ASSUME IInv PROVE OperationsAreTrue
  BY DEF IInv, OperationsAreTrue

\* The client, its requests and the platform hold what their types say.
THEOREM TypeCorrect == ASSUME Assumptions PROVE Spec => []TypeOK
<1>1. IInv => TypeOK
  BY TypesFollow
<1> QED
  BY <1>1, Invariance, PTL

\* An operation is posted once; its outcome is true of what the platform has done and
\* may still do; what can be read back is confirmed only as submitted
\* (tiktokmapi/client.go:164, operations.go:228).
THEOREM OperationsSafe == ASSUME Assumptions PROVE Spec => []OperationsAreTrue
<1>1. IInv => OperationsAreTrue
  BY OperationFollows
<1> QED
  BY <1>1, Invariance, PTL

-----------------------------------------------------------------------------
(* What the Change Service is promised (PlatformWrite).                     *)

\* An unsure outcome is that of the first request; after it, a bundle is partial.
EndedWhere ==
    /\ outcome = "unknown" => known = {}
    /\ outcome = "partial" => kind = "bundle" /\ known \in {{1}, {1, 2}}

LEMMA FailureTells ==
    ASSUME Assumptions, IInv, Underway,
           NEW error \in {"credential", "business", "omitted", "transport"},
           outcome' = FailureState(error), UNCHANGED <<kind, known>>
    PROVE  EndedWhere'
<1>1. /\ step \in Steps /\ known = 1..(step - 1)
      /\ outcome' = IF step = 1 THEN Classify(error) ELSE "partial"
      /\ Classify(error) # "partial"
  BY DEF IInv, Typed, Proceeding, FailureState, Classify
<1>2. CASE step = 1
  BY <1>1, <1>2 DEF EndedWhere
<1>3. CASE step # 1
  <2>1. kind = "bundle" /\ step \in {2, 3}
    BY <1>1, <1>3 DEF Steps, AllSteps
  <2>2. known \in {{1}, {1, 2}}
    BY <1>1, <2>1
  <2> QED
    BY <1>1, <1>3, <2>1, <2>2 DEF EndedWhere
<1> QED
  BY <1>2, <1>3

LEMMA EndedWhereHolds ==
    ASSUME Assumptions, IInv, EndedWhere, [Next]_vars
    PROVE  EndedWhere'
<1>1. CASE UNCHANGED <<outcome, kind, known>>
  BY <1>1 DEF EndedWhere
<1>2. CASE Revalidate
  <2>1. CASE Finish("not_sent")
    BY <2>1 DEF Finish, EndedWhere
  <2> QED
    BY <1>1, <1>2, <2>1 DEF Revalidate
<1>3. CASE NoCredential
  BY <1>3, FailureTells DEF NoCredential, Finish, Underway
<1>4. CASE Accepted
  <2>1. outcome = None /\ Underway
    BY <1>4 DEF Accepted, IInv, Proceeding, Underway
  <2>2. CASE Finish(FailureState("omitted")) /\ UNCHANGED <<step, known>>
    BY <1>4, <2>1, <2>2, FailureTells DEF Accepted, Finish
  <2>3. CASE UNCHANGED outcome \/ Finish("acknowledged")
    BY <2>1, <2>3 DEF EndedWhere, Finish, Assumptions, NoneAssumption
  <2> QED
    BY <1>4, <2>2, <2>3 DEF Accepted
<1>5. CASE Refused
  BY <1>5, FailureTells DEF Refused, Finish, Underway
<1>6. CASE Unanswered
  BY <1>6, FailureTells DEF Unanswered, Again, Attempts, Finish, Underway, IInv, Typed
<1>7. Next => \/ Revalidate \/ NoCredential \/ Accepted \/ Refused \/ Unanswered
              \/ UNCHANGED <<outcome, kind, known>>
  BY DEF Next, Client, Post, ReadBack, ReadFails, Reconcile, EditConditions, Comment, Take, Lose,
         EditRecord, client
<1> QED
  BY <1>1, <1>2, <1>3, <1>4, <1>5, <1>6, <1>7 DEF vars, client

(* What there can be of an operation that ended: at most one request is    *)
(* still under way, the one after those that are known.                    *)
LEMMA WhatIsLeft ==
    ASSUME Assumptions, IInv, EndedWhere, outcome # None
    PROVE  /\ Steps = IF kind = "bundle" THEN {1, 2, 3} ELSE {1}
           /\ outcome \in {"not_sent", "rejected"} => Made = {} /\ flight = {}
           /\ outcome = "acknowledged" => Made = Steps /\ flight = {}
           /\ outcome = "unknown" => Made \subseteq {1} /\ flight \subseteq {1} \ Made
           /\ outcome = "partial" =>
                 /\ kind = "bundle"
                 /\ \/ {1} \subseteq Made /\ Made \subseteq {1, 2} /\ flight \subseteq {2} \ Made
                    \/ {1, 2} \subseteq Made /\ Made \subseteq {1, 2, 3} /\ flight \subseteq {3} \ Made
<1>1. Steps = IF kind = "bundle" THEN {1, 2, 3} ELSE {1}
  BY DEF Steps, AllSteps
<1>2. /\ flight \subseteq Steps /\ known \subseteq Made /\ Made \subseteq Steps
      /\ flight \intersect Made = {} /\ Steps \subseteq AllSteps
  BY <1>1 DEF IInv, Typed, EffectsWereSent, Made, AllSteps
<1>3. \A s \in Steps \ known : s \in Made \union flight => s = Cardinality(known) + 1
  BY DEF IInv, OutcomeIsTrue, Made, MayHaveMade
<1>4. outcome \in {"not_sent", "rejected"} => Made = {} /\ flight = {}
  BY <1>2 DEF IInv, OutcomeIsTrue, Made, MayHaveMade
<1>5. outcome = "acknowledged" => Made = Steps /\ flight = {}
  BY <1>2 DEF IInv, OutcomeIsTrue
<1>6. outcome = "unknown" => Made \subseteq {1} /\ flight \subseteq {1} \ Made
  <2>1. Cardinality({}) + 1 = 1
    BY FS_EmptySet
  <2> QED
    BY <1>2, <1>3, <2>1 DEF EndedWhere
<1>7. outcome = "partial" =>
         /\ kind = "bundle"
         /\ \/ {1} \subseteq Made /\ Made \subseteq {1, 2} /\ flight \subseteq {2} \ Made
            \/ {1, 2} \subseteq Made /\ Made \subseteq {1, 2, 3} /\ flight \subseteq {3} \ Made
  <2>1. SUFFICES ASSUME outcome = "partial"
                 PROVE  /\ kind = "bundle"
                        /\ \/ {1} \subseteq Made /\ Made \subseteq {1, 2} /\ flight \subseteq {2} \ Made
                           \/ /\ {1, 2} \subseteq Made /\ Made \subseteq {1, 2, 3}
                              /\ flight \subseteq {3} \ Made
    OBVIOUS
  <2>2. kind = "bundle" /\ known \in {{1}, {1, 2}}
    BY <2>1 DEF EndedWhere
  <2>3. Cardinality({1}) = 1 /\ Cardinality({1, 2}) = 2
    <3>1. Cardinality({1}) = 1
      BY FS_Singleton
    <3>2. {1, 2} = {1} \union {2} /\ IsFiniteSet({1})
      BY FS_Singleton
    <3>3. Cardinality({1} \union {2}) = 2
      BY <3>1, <3>2, FS_AddElement
    <3> QED
      BY <3>1, <3>2, <3>3
  <2>4. CASE known = {1}
    BY <1>2, <1>3, <2>2, <2>3, <2>4
  <2>5. CASE known = {1, 2}
    BY <1>1, <1>2, <1>3, <2>2, <2>3, <2>5
  <2> QED
    BY <2>2, <2>4, <2>5
<1> QED
  BY <1>1, <1>4, <1>5, <1>6, <1>7

\* The answer and its effect are a pair that the Change Service reckons with.
Reckoned == outcome # None => <<Answer, Effect>> \in Write!Answers

LEMMA ReckonedWith ==
    ASSUME Assumptions, IInv, EndedWhere, outcome # None
    PROVE  <<Answer, Effect>> \in Write!Answers
<1>1. outcome \in {"not_sent", "rejected", "unknown", "partial", "acknowledged"}
  BY DEF IInv, Typed
<1>2. CASE outcome \in {"not_sent", "rejected"}
  <2>1. Answer = "refused" /\ Effect = "none"
    BY <1>2, WhatIsLeft DEF Answer, Effect
  <2> QED
    BY <2>1 DEF Write!Answers, Write!BundleAnswers, Write!RequestAnswers
<1>3. CASE outcome = "acknowledged"
  <2>1. Answer = "acknowledged" /\ Effect = "full"
    BY <1>3, WhatIsLeft DEF Answer, Effect
  <2> QED
    BY <2>1 DEF Write!Answers, Write!BundleAnswers, Write!RequestAnswers
<1>4. CASE outcome = "unknown"
  <2>1. Answer = "unknown"
    BY <1>4 DEF Answer
  <2>2. Made \in {{}, {1}} /\ Steps = IF kind = "bundle" THEN {1, 2, 3} ELSE {1}
    BY <1>4, WhatIsLeft
  <2>3. flight \in {{}, {1}}
    BY <1>4, WhatIsLeft
  <2>4. Effect \in {"none", "inflight"} \union (IF kind = "bundle" THEN {"partial"} ELSE {"full"})
    BY <2>2, <2>3 DEF Effect
  <2> QED
    BY <2>1, <2>4 DEF Write!Answers, Write!BundleAnswers, Write!RequestAnswers
<1>5. CASE outcome = "partial"
  <2>1. Answer = "partial" /\ kind = "bundle" /\ 1 \in Made
    BY <1>5, WhatIsLeft DEF Answer
  <2>2. Effect \in {"partial", "trailing", "full"}
    BY <2>1 DEF Effect
  <2> QED
    BY <2>1, <2>2 DEF Write!Answers, Write!BundleAnswers
<1> QED
  BY <1>1, <1>2, <1>3, <1>4, <1>5

LEMMA SameWrite ==
    ASSUME UNCHANGED <<kind, outcome, confirmed>>,
           outcome = None \/ (Made' = Made /\ flight' = flight)
    PROVE  UNCHANGED Write!vars
<1>1. Steps' = Steps
  BY DEF Steps
<1>2. Answer' = Answer /\ Effect' = Effect
  BY <1>1 DEF Answer, Effect
<1> QED
  BY <1>2 DEF Write!vars

\* What the client does by itself: it ends, or confirms.
LEMMA ClientWrites ==
    ASSUME Assumptions, IInv, Reckoned', Client \/ Reconcile
    PROVE  [Write!Next]_(Write!vars)
<1>1. CASE Post
  BY <1>1, SameWrite DEF Post, IInv, Proceeding, Underway
<1>2. CASE ReadBack \/ ReadFails \/ Reconcile
  <2>1. Made' = Made /\ UNCHANGED <<flight, kind, outcome>>
    BY <1>2 DEF ReadBack, ReadFails, Reconcile, Made, HasMade, Steps, platform, wire
  <2>2. CASE UNCHANGED confirmed
    BY <2>1, <2>2, SameWrite
  <2>3. CASE confirmed' # confirmed
    <3>1. ReadBack /\ confirmed' = TRUE
      BY <1>2, <2>3 DEF ReadBack, ReadFails, Reconcile
    <3>2. outcome = "acknowledged"
      BY <3>1 DEF ReadBack, IInv, ReadSoFar
    <3>3. Answer = "acknowledged" /\ Answer' = Answer /\ Effect' = Effect /\ kind' = kind
      BY <2>1, <3>2 DEF Answer, Effect, Steps
    <3> QED
      BY <3>1, <3>3 DEF Write!Next, Write!Confirm
  <2> QED
    BY <2>2, <2>3
<1>3. CASE Revalidate \/ NoCredential \/ Accepted \/ Refused \/ Unanswered
  <2>1. outcome = None /\ UNCHANGED <<kind, confirmed>>
    BY <1>3 DEF Revalidate, NoCredential, Accepted, Refused, Unanswered, IInv, Proceeding, Underway
  <2>2. CASE outcome' = None
    BY <2>1, <2>2, SameWrite
  <2>3. CASE outcome' # None
    <3>1. <<Answer', Effect'>> \in (Write!Answers)'
      BY <2>3 DEF Reckoned
    <3>2. Answer = None
      BY <2>1 DEF Answer, Assumptions, NoneAssumption
    <3> QED
      BY <2>1, <3>1, <3>2 DEF Write!Next, Write!Answer, Write!Answers
  <2> QED
    BY <2>2, <2>3
<1> QED
  BY <1>1, <1>2, <1>3 DEF Client

\* The platform takes the request that is left, or never will.
LEMMA RestIsSettled ==
    ASSUME Assumptions, IInv, EndedWhere, UNCHANGED client, outcome # None,
           NEW s \in flight, flight' = flight \ {s}, Made' \in {Made, Made \union {s}}
    PROVE  [Write!Next]_(Write!vars)
<1>1. UNCHANGED <<kind, outcome, confirmed>> /\ Steps' = Steps /\ Answer' = Answer
  BY DEF client, Steps, Answer
<1>2. outcome \in {"unknown", "partial"}
  BY WhatIsLeft DEF IInv, Typed
<1>3. CASE outcome = "unknown"
  <2>1. /\ s = 1 /\ flight = {1} /\ Made = {} /\ flight' = {} /\ Made' \in {{}, {1}}
        /\ Steps = IF kind = "bundle" THEN {1, 2, 3} ELSE {1}
    BY <1>3, WhatIsLeft
  <2>2. Effect = "inflight"
    BY <1>3, <2>1 DEF Effect
  <2>3. CASE Made' = {}
    <3>1. Effect' = "none"
      BY <1>1, <1>3, <2>1, <2>3 DEF Effect
    <3> QED
      BY <1>1, <2>2, <3>1 DEF Write!Next, Write!Vanish
  <2>4. CASE Made' = {1}
    <3>1. Effect' = IF kind = "bundle" THEN "partial" ELSE "full"
      BY <1>1, <1>3, <2>1, <2>4 DEF Effect
    <3> QED
      BY <1>1, <2>2, <3>1 DEF Write!Next, Write!Arrive, Write!Arrived
  <2> QED
    BY <2>1, <2>3, <2>4
<1>4. CASE outcome = "partial"
  <2>1. /\ Steps = {1, 2, 3}
        /\ \/ Made = {1} /\ s = 2 /\ flight = {2}
           \/ Made = {1, 2} /\ s = 3 /\ flight = {3}
    BY <1>4, WhatIsLeft
  <2>2. CASE s = 2
    <3>1. Made = {1} /\ flight = {2} /\ flight' = {} /\ Made' \in {{1}, {1, 2}}
      BY <2>1, <2>2
    <3>2. Effect = "partial" /\ Effect' = "partial"
      BY <1>1, <1>4, <2>1, <3>1 DEF Effect
    <3> QED
      BY <1>1, <3>2 DEF Write!vars
  <2>3. CASE s = 3
    <3>1. Made = {1, 2} /\ flight = {3} /\ flight' = {} /\ Made' \in {{1, 2}, {1, 2, 3}}
      BY <2>1, <2>3
    <3>2. Effect = "trailing" /\ Effect' = IF Made' = {1, 2} THEN "partial" ELSE "full"
      BY <1>1, <1>4, <2>1, <3>1 DEF Effect
    <3> QED
      BY <1>1, <3>2 DEF Write!Next, Write!Arrive, Write!Arrived, Write!Vanish
  <2> QED
    BY <2>1, <2>2, <2>3
<1> QED
  BY <1>2, <1>3, <1>4

LEMMA OthersWrite ==
    ASSUME Assumptions, IInv, EndedWhere,
           EditConditions \/ Comment \/ \E s \in Steps : Take(s) \/ Lose(s) \/ EditRecord(s)
    PROVE  [Write!Next]_(Write!vars)
<1>1. UNCHANGED client /\ Steps' = Steps
  BY DEF EditConditions, Comment, Take, Lose, EditRecord, client, Steps
<1>2. CASE outcome = None
  BY <1>1, <1>2, SameWrite DEF client
<1>3. CASE outcome # None
  <2>1. CASE EditConditions \/ Comment
    <3>1. Made' = Made /\ flight' = flight
      BY <1>1, <2>1 DEF EditConditions, Comment, wire, Made, HasMade
    <3> QED
      BY <1>1, <3>1, SameWrite DEF client
  <2>2. ASSUME NEW s \in Steps, EditRecord(s)
        PROVE  [Write!Next]_(Write!vars)
    <3>1. Made' = Made
      <4>1. s \in AllSteps /\ Steps \subseteq AllSteps
        BY DEF Steps, AllSteps
      <4>2. HasMade(s) /\ HasMade(s)' /\ \A t \in AllSteps \ {s} : past'[t] = past[t]
        BY <2>2, <4>1, HoldKeeps DEF EditRecord, IInv, EffectsWereSent, HasMade
      <4> QED
        BY <1>1, <4>1, <4>2 DEF Made, HasMade
    <3> QED
      BY <1>1, <2>2, <3>1, SameWrite DEF EditRecord, client, wire
  <2>3. ASSUME NEW s \in Steps, Lose(s)
        PROVE  [Write!Next]_(Write!vars)
    <3>1. s \in flight /\ flight' = flight \ {s} /\ Made' = Made
      BY <1>1, <2>3 DEF Lose, platform, Made, HasMade
    <3> QED
      BY <1>1, <1>3, <3>1, RestIsSettled
  <2>4. ASSUME NEW s \in Steps, Take(s)
        PROVE  [Write!Next]_(Write!vars)
    <3>1. s \in flight /\ flight' = flight \ {s} /\ s \in AllSteps /\ Steps \subseteq AllSteps
      BY <2>4 DEF Take, Steps, AllSteps
    <3>2. CASE UNCHANGED past
      <4>1. Made' = Made
        BY <1>1, <3>2 DEF Made, HasMade
      <4> QED
        BY <1>1, <1>3, <3>1, <4>1, RestIsSettled
    <3>3. ASSUME NEW value \in {"exact", "other"}, Hold(s, value)
          PROVE  [Write!Next]_(Write!vars)
      <4>1. HasMade(s)' /\ \A t \in AllSteps \ {s} : past'[t] = past[t]
        BY <3>1, <3>3, HoldKeeps DEF IInv
      <4>2. Made' = Made \union {s}
        BY <1>1, <3>1, <4>1 DEF Made, HasMade
      <4> QED
        BY <1>1, <1>3, <3>1, <4>2, RestIsSettled
    <3>4. \/ UNCHANGED past
          \/ \E value \in {"exact", "other"} : Hold(s, value)
      BY <2>4 DEF Take
    <3> QED
      BY <3>2, <3>3, <3>4
  <2> QED
    BY <2>1, <2>2, <2>3, <2>4
<1> QED
  BY <1>2, <1>3

LEMMA WriteBegins == ASSUME Assumptions, Init PROVE Write!Init /\ EndedWhere
  BY DEF Init, Write!Init, Answer, Effect, EndedWhere, Assumptions, NoneAssumption

LEMMA ReckonedFollows == ASSUME Assumptions, IInv, EndedWhere PROVE Reckoned
  BY ReckonedWith DEF Reckoned

LEMMA WriteStep ==
    ASSUME Assumptions, IInv, EndedWhere, Reckoned', [Next]_vars
    PROVE  [Write!Next]_(Write!vars)
<1>1. CASE UNCHANGED vars
  BY <1>1, SameWrite DEF vars, client, platform, wire, Made, HasMade, Steps
<1> QED
  BY <1>1, ClientWrites, OthersWrite DEF Next

\* Whatever becomes of its requests and of their answers, an operation gives the Change
\* Service one answer of those it reckons with, true of what TikTok did and may still do,
\* and confirms only what was acknowledged (agenthost/changes.go:250,
\* tiktokmapi/operations.go:228).
THEOREM OperationsImplementWrite == ASSUME Assumptions PROVE Spec => ImplementsWrite
<1>1. Init => Write!Init /\ EndedWhere
  BY WriteBegins
<1>2. IInv /\ EndedWhere /\ [Next]_vars => EndedWhere'
  BY EndedWhereHolds
<1>3. IInv /\ EndedWhere => Reckoned
  BY ReckonedFollows
<1>4. IInv /\ EndedWhere /\ Reckoned' /\ [Next]_vars => [Write!Next]_(Write!vars)
  BY WriteStep
<1> QED
  BY <1>1, <1>2, <1>3, <1>4, Invariance, PTL DEF Spec, ImplementsWrite, Write!Spec

-----------------------------------------------------------------------------
(* Reads of several pages.  They share nothing with the operations.         *)

CONSTANTS Item, Foreign, Reads, Totals, Size, MaxPages, Tries, MaxChanges
VARIABLES read, says, there, page, pageAttempt, got, end, start, changes, removed

Paged == INSTANCE PagedRead WITH
    MaxEdits <- MaxChanges, attempt <- pageAttempt, outcome <- end, edits <- changes

PagedAssumptions == Paged!ReadAssumption /\ Paged!PageAssumption /\ Paged!NoneAssumption

\* The records of the pages before the one at hand.
Passed == (page - 1) * Size

PagedTyped ==
    /\ read \in Reads /\ says \in Totals
    /\ there \in Seq(Item) /\ start \in Seq(Item) /\ got \in [Item -> Nat]
    /\ page \in 1..MaxPages /\ pageAttempt \in 1..Tries
    /\ end \in {None, "done", "failed"}
    /\ changes \in 0..MaxChanges /\ removed \in BOOLEAN
    /\ \A i, j \in 1..Len(start) : start[i] = start[j] => i = j

\* While records are only added, the read has kept those that were there at first and
\* are passed.
Hidden(r) == r \notin Foreign /\ (\E i \in 1..Len(start) : start[i] = r) /\ got[r] = 0
KeptOnTheWay ==
    ~removed =>
        /\ end = None => Passed <= Len(there)
        /\ \A i \in 1..Len(start) : \E j \in 1..Len(there) : there[j] = start[i]
        /\ end = None => \A i \in 1..Len(there) : i <= Passed => ~Hidden(there[i])
        /\ end = "done" => \A r \in Item : ~Hidden(r)

\* While nothing changes, it has kept each of those once and nothing else.
OnceOnTheWay ==
    changes = 0 =>
        /\ there = start /\ ~removed
        /\ end = None =>
              \A r \in Item : got[r] =
                 IF r \notin Foreign /\ \E i \in 1..Len(there) : i <= Passed /\ there[i] = r
                 THEN 1 ELSE 0
        /\ end = "done" =>
              \A r \in Item : got[r] =
                 IF r \notin Foreign /\ \E i \in 1..Len(there) : there[i] = r THEN 1 ELSE 0

PagedInv ==
    /\ PagedTyped
    /\ \A r \in Foreign : got[r] = 0
    /\ KeptOnTheWay
    /\ OnceOnTheWay

-----------------------------------------------------------------------------
(* Pages.                                                                   *)

LEMMA Monotonic == ASSUME NEW a \in Nat, NEW b \in Nat, NEW s \in Nat, a <= b PROVE a * s <= b * s
<1>1. PICK d \in Nat : b = a + d
  <2>1. b - a \in Nat /\ b = a + (b - a)
    OBVIOUS
  <2> QED
    BY <2>1
<1>2. b * s = a * s + d * s /\ d * s \in Nat /\ a * s \in Nat
  BY <1>1
<1> QED
  BY <1>2

\* The number of pages is enough and no more.
LEMMA PagesSuffice ==
    ASSUME NEW l \in Nat, NEW s \in Nat \ {0}, NEW n \in Nat
    PROVE  n < (l + s - 1) \div s <=> n * s < l
<1> DEFINE q == (l + s - 1) \div s
<1>1. q \in Nat /\ q * s <= l + s - 1 /\ l + s - 1 < (q + 1) * s
  OBVIOUS
<1> HIDE DEF q
<1>2. CASE n < q
  <2>1. (n + 1) * s <= q * s
    BY <1>1, <1>2, Monotonic
  <2>2. (n + 1) * s = n * s + s /\ n * s \in Nat /\ q * s \in Nat
    BY <1>1
  <2> QED
    BY <1>1, <1>2, <2>1, <2>2
<1>3. CASE ~(n < q)
  <2>1. q * s <= n * s
    BY <1>1, <1>3, Monotonic
  <2>2. (q + 1) * s = q * s + s /\ n * s \in Nat /\ q * s \in Nat
    BY <1>1
  <2> QED
    BY <1>1, <1>3, <2>1, <2>2
<1> QED
  BY <1>2, <1>3 DEF q

\* The facts about the constants that the arithmetic needs, and what a page holds.
LEMMA PageFacts ==
    ASSUME PagedAssumptions, PagedTyped
    PROVE  /\ Size \in Nat \ {0} /\ MaxPages \in Nat /\ page \in Nat \ {0} /\ Len(there) \in Nat
           /\ Passed \in Nat /\ page * Size \in Nat /\ page * Size = Passed + Size
           /\ (page + 1 - 1) * Size = page * Size
           /\ \A i \in 1..Len(there) : there[i] \in Item
           /\ \A i \in 1..Len(start) : start[i] \in Item
<1>1. Size \in Nat \ {0} /\ MaxPages \in Nat /\ page \in Nat \ {0}
  BY DEF PagedAssumptions, Paged!PageAssumption, PagedTyped
<1>2. Len(there) \in Nat /\ (\A i \in 1..Len(there) : there[i] \in Item)
      /\ \A i \in 1..Len(start) : start[i] \in Item
  BY ElementOfSeq DEF PagedTyped
<1>3. Passed \in Nat /\ page * Size \in Nat /\ page * Size = Passed + Size
  <2>1. PICK n \in Nat : page = n + 1
    <3>1. page - 1 \in Nat /\ page = (page - 1) + 1
      BY <1>1
    <3> QED
      BY <3>1
  <2>2. Passed = n * Size /\ page * Size = n * Size + Size /\ n * Size \in Nat
    BY <1>1, <2>1 DEF Passed
  <2> QED
    BY <1>1, <2>2
<1>4. page + 1 - 1 = page
  BY <1>1
<1> QED
  BY <1>1, <1>2, <1>3, <1>4

LEMMA PageHolds ==
    ASSUME PagedAssumptions, PagedTyped, Passed <= Len(there)
    PROVE  /\ Len(Paged!PageOf(page)) =
                 (IF page * Size < Len(there) THEN page * Size ELSE Len(there)) - Passed
           /\ \A r : r \in Paged!ToSet(Paged!PageOf(page)) <=>
                 \E i \in 1..Len(there) : Passed < i /\ i <= page * Size /\ there[i] = r
<1> DEFINE l == Len(there)
           n == IF page * Size < l THEN page * Size ELSE l
           records == SubSeq(there, Passed + 1, n)
<1>1. Passed \in Nat /\ n \in Nat /\ l \in Nat /\ page * Size \in Nat /\ Passed <= n /\ n <= l
      /\ n <= page * Size /\ (\A i \in 1..l : i <= page * Size => i <= n)
      /\ \A i \in 1..l : there[i] \in Item
  BY PageFacts
<1>2. Paged!PageOf(page) = records
  BY DEF Paged!PageOf, Passed
<1> HIDE DEF n, l
<1>3. \A i \in (Passed + 1)..n : there[i] \in Item /\ i \in 1..l
  BY <1>1
<1>4. /\ records \in Seq(Item)
      /\ Len(records) = IF Passed + 1 <= n THEN n - (Passed + 1) + 1 ELSE 0
      /\ \A i \in 1..(n - (Passed + 1) + 1) : records[i] = there[(Passed + 1) + i - 1]
  <2>1. Passed + 1 \in Int /\ n \in Int
    BY <1>1
  <2> QED
    BY <1>3, <2>1, SubSeqProperties
<1> HIDE DEF records
<1>5. Len(records) = n - Passed
  BY <1>1, <1>4
<1>6. DOMAIN records = 1..(n - Passed) /\ \A i \in 1..(n - Passed) : records[i] = there[Passed + i]
  BY <1>1, <1>4, <1>5
<1>7. ASSUME NEW r
      PROVE  r \in Paged!ToSet(records) <=>
                 \E i \in 1..l : Passed < i /\ i <= page * Size /\ there[i] = r
  <2>1. ASSUME r \in Paged!ToSet(records)
        PROVE  \E i \in 1..l : Passed < i /\ i <= page * Size /\ there[i] = r
    <3>1. PICK k \in 1..(n - Passed) : records[k] = r
      BY <1>6, <2>1 DEF Paged!ToSet
    <3>2. Passed + k \in 1..l /\ Passed < Passed + k /\ Passed + k <= page * Size
      BY <1>1
    <3> QED
      BY <1>6, <3>1, <3>2
  <2>2. ASSUME NEW i \in 1..l, Passed < i, i <= page * Size, there[i] = r
        PROVE  r \in Paged!ToSet(records)
    <3>1. i - Passed \in 1..(n - Passed) /\ Passed + (i - Passed) = i
      BY <1>1, <2>2
    <3>2. records[i - Passed] = r
      BY <1>6, <2>2, <3>1
    <3> QED
      BY <1>6, <3>1, <3>2 DEF Paged!ToSet
  <2> QED
    BY <2>1, <2>2
<1> QED
  BY <1>2, <1>5, <1>7 DEF n, l

\* Whichever way the platform tells the total: the last page is the last.
LEMMA LastIsLast ==
    ASSUME PagedAssumptions, PagedTyped, Passed <= Len(there)
    PROVE  IF Paged!MorePages(page, Len(Paged!PageOf(page)))
           THEN page * Size <= Len(there)
           ELSE Len(there) <= page * Size
<1> DEFINE l == Len(there)
           count == Len(Paged!PageOf(page))
<1>1. /\ Size \in Nat \ {0} /\ page \in Nat /\ l \in Nat /\ Passed \in Nat
      /\ page * Size \in Nat /\ page * Size = Passed + Size
  BY PageFacts
<1>2. count = (IF page * Size < l THEN page * Size ELSE l) - Passed
  BY PageHolds
<1>3. page < Paged!PagesOf(l) <=> page * Size < l
  BY <1>1, PagesSuffice DEF Paged!PagesOf
<1>4. count = Size <=> page * Size <= l
  BY <1>1, <1>2
<1>5. Paged!MorePages(page, count) <=>
        IF Paged!TotalPage > 0 THEN page < Paged!TotalPage
        ELSE IF Paged!TotalNumber > 0 THEN page * Size < Paged!TotalNumber
        ELSE count = Size
  BY DEF Paged!MorePages
<1>6. Paged!TotalPage \in {0, Paged!PagesOf(l)} /\ Paged!TotalNumber \in {0, l}
  BY DEF Paged!TotalPage, Paged!TotalNumber
<1> HIDE DEF l, count
<1>7. IF Paged!MorePages(page, count) THEN page * Size <= l ELSE l <= page * Size
  <2>1. CASE Paged!TotalPage > 0
    <3>1. Paged!TotalPage = Paged!PagesOf(l)
      BY <1>6, <2>1
    <3> QED
      BY <1>1, <1>3, <1>5, <2>1, <3>1
  <2>2. CASE ~(Paged!TotalPage > 0) /\ Paged!TotalNumber > 0
    <3>1. Paged!TotalNumber = l
      BY <1>6, <2>2
    <3> QED
      BY <1>1, <1>5, <2>2, <3>1
  <2>3. CASE ~(Paged!TotalPage > 0) /\ ~(Paged!TotalNumber > 0)
    BY <1>1, <1>4, <1>5, <2>3
  <2> QED
    BY <2>1, <2>2, <2>3
<1> QED
  BY <1>7 DEF l, count

-----------------------------------------------------------------------------
(* Steps.                                                                   *)

LEMMA PagedInit == ASSUME PagedAssumptions, Paged!Init PROVE PagedInv
<1>1. /\ read \in Reads /\ says \in Totals /\ page = 1 /\ pageAttempt = 1
      /\ got = [r \in Item |-> 0] /\ end = None /\ start = there /\ changes = 0 /\ removed = FALSE
  BY DEF Paged!Init
<1>2. PICK items \in SUBSET Item : there = Paged!SetToSeq(items)
  BY DEF Paged!Init
<1>3. Size \in Nat \ {0} /\ MaxPages \in Nat \ {0} /\ Tries \in Nat \ {0} /\ MaxChanges \in Nat
      /\ None \notin {"done", "failed"} /\ Foreign \subseteq Item
  BY DEF PagedAssumptions, Paged!PageAssumption, Paged!ReadAssumption, Paged!NoneAssumption
<1>4. there \in Seq(Item) /\ \A i, j \in 1..Len(there) : there[i] = there[j] => i = j
  <2> DEFINE n == Cardinality(items)
             Listings == {f \in [1..n -> items] : \A a, b \in DOMAIN f : f[a] = f[b] => a = b}
  <2>1. IsFiniteSet(items)
    <3>1. IsFiniteSet(Item)
      BY DEF PagedAssumptions, Paged!ReadAssumption, Paged!IsFiniteSet, IsFiniteSet
    <3> QED
      BY <3>1, FS_Subset
  <2>2. n \in Nat /\ ExistsBijection(1..n, items)
    BY <2>1, FS_CardinalityType
  <2>3. \E f \in [1..n -> items] : Paged!IsInjective(f)
    BY <2>2 DEF ExistsBijection, Bijection, Injection, Surjection, IsInjective, Paged!IsInjective
  <2>4. Paged!Cardinality(items) = n
    BY DEF Paged!Cardinality, Cardinality
  <2>5. there \in [1..n -> items] /\ Paged!IsInjective(there)
    BY <1>2, <2>3, <2>4 DEF Paged!SetToSeq
  <2>6. DOMAIN there = 1..n /\ there \in Seq(Item) /\ Len(there) = n
    BY <2>2, <2>5
  <2> QED
    BY <2>5, <2>6 DEF Paged!IsInjective
<1>5. Passed = 0
  BY <1>1, <1>3 DEF Passed
<1>6. PagedTyped
  <2>1. start \in Seq(Item) /\ \A i, j \in 1..Len(start) : start[i] = start[j] => i = j
    BY <1>1, <1>4
  <2>2. page \in 1..MaxPages /\ pageAttempt \in 1..Tries /\ changes \in 0..MaxChanges
        /\ got \in [Item -> Nat]
    BY <1>1, <1>3
  <2> QED
    BY <1>1, <1>4, <2>1, <2>2 DEF PagedTyped
<1>7. Len(there) \in Nat
  BY <1>4
<1>8. KeptOnTheWay
  BY <1>1, <1>3, <1>5, <1>7 DEF KeptOnTheWay
<1>9. OnceOnTheWay
  BY <1>1, <1>3, <1>5, <1>7 DEF OnceOnTheWay
<1> QED
  BY <1>1, <1>3, <1>6, <1>8, <1>9 DEF PagedInv

\* A step that keeps nothing and leaves the listing alone.
LEMMA PagedSame ==
    ASSUME PagedAssumptions, PagedInv, pageAttempt' \in 1..Tries, end' \in {end, "failed"},
           UNCHANGED <<read, says, there, page, got, start, changes, removed>>
    PROVE  PagedInv'
<1>1. None # "failed" /\ "failed" # "done" /\ Passed' = Passed
  BY DEF PagedAssumptions, Paged!NoneAssumption, Passed
<1>2. PagedTyped'
  BY DEF PagedInv, PagedTyped
<1>3. KeptOnTheWay'
  BY <1>1 DEF PagedInv, KeptOnTheWay, Hidden
<1>4. OnceOnTheWay'
  BY <1>1 DEF PagedInv, OnceOnTheWay
<1> QED
  BY <1>2, <1>3, <1>4 DEF PagedInv

LEMMA PageHeld ==
    ASSUME PagedAssumptions, PagedInv, Paged!Page
    PROVE  PagedInv'
<1> DEFINE records == Paged!PageOf(page)
           inside == Paged!ToSet(records)
<1>1. /\ end = None /\ pageAttempt' = 1
      /\ UNCHANGED <<read, says, there, start, changes, removed>>
      /\ Paged!Refuses(records) => end' = "failed" /\ UNCHANGED <<page, got>>
      /\ ~Paged!Refuses(records) =>
            /\ got' = [r \in Item |-> IF r \in inside /\ Paged!Keep(r) THEN got[r] + 1 ELSE got[r]]
            /\ \/ ~Paged!MorePages(page, Len(records)) /\ end' = "done" /\ UNCHANGED page
               \/ end' = "failed" /\ UNCHANGED page
               \/ /\ Paged!MorePages(page, Len(records))
                  /\ page # MaxPages /\ page' = page + 1 /\ UNCHANGED end
  BY DEF Paged!Page, Paged!End
<1> HIDE DEF records, inside
<1>2. Tries \in Nat \ {0} /\ Foreign \subseteq Item /\ None \notin {"done", "failed"}
  BY DEF PagedAssumptions, Paged!PageAssumption, Paged!ReadAssumption, Paged!NoneAssumption
<1>3. /\ page \in Nat \ {0} /\ MaxPages \in Nat /\ Len(there) \in Nat /\ Passed \in Nat
      /\ page * Size \in Nat /\ page * Size = Passed + Size /\ Size \in Nat \ {0}
      /\ (page + 1 - 1) * Size = page * Size
      /\ \A i \in 1..Len(there) : there[i] \in Item
      /\ \A i \in 1..Len(start) : start[i] \in Item
  BY PageFacts DEF PagedInv
<1>4. CASE Paged!Refuses(records)
  BY <1>1, <1>2, <1>4, PagedSame
<1>5. CASE ~Paged!Refuses(records)
  <2>1. \A r \in Foreign : ~(r \in inside /\ Paged!Keep(r))
    BY <1>5 DEF Paged!Refuses, Paged!Keep, inside
  <2>2. \A r \in Item : r \notin Foreign => Paged!Keep(r)
    BY DEF Paged!Keep
  <2>3. got \in [Item -> Nat] /\ got' \in [Item -> Nat]
    BY <1>1, <1>5 DEF PagedInv, PagedTyped
  <2>4. \A r \in Item : got'[r] = got[r] + IF r \in inside /\ r \notin Foreign THEN 1 ELSE 0
    BY <1>1, <1>5, <2>1, <2>2, <2>3
  <2>5. PagedTyped'
    <3>1. page' \in 1..MaxPages /\ pageAttempt' \in 1..Tries /\ end' \in {None, "done", "failed"}
      BY <1>1, <1>2, <1>3, <1>5 DEF PagedInv, PagedTyped
    <3> QED
      BY <1>1, <2>3, <3>1 DEF PagedInv, PagedTyped
  <2>6. \A r \in Foreign : got'[r] = 0
    BY <1>2, <2>3, <2>4 DEF PagedInv
  <2>7. Passed' \in {Passed, page * Size} /\ (page' = page + 1 => Passed' = page * Size)
    BY <1>1, <1>3, <1>5 DEF Passed
  <2>8. ASSUME ~removed
        PROVE  /\ Passed <= Len(there)
               /\ \A r : r \in inside <=>
                     \E i \in 1..Len(there) : Passed < i /\ i <= page * Size /\ there[i] = r
               /\ end' = "done" => Len(there) <= page * Size
               /\ end' = None => page' = page + 1 /\ Passed' = page * Size /\ page * Size <= Len(there)
    <3>1. Passed <= Len(there)
      BY <1>1, <2>8 DEF PagedInv, KeptOnTheWay
    <3>2. IF Paged!MorePages(page, Len(records)) THEN page * Size <= Len(there)
          ELSE Len(there) <= page * Size
      BY <3>1, LastIsLast DEF PagedInv, records
    <3> QED
      BY <1>1, <1>2, <1>5, <2>7, <3>1, <3>2, PageHolds DEF PagedInv, records, inside
  <2>9. KeptOnTheWay'
    <3> SUFFICES ASSUME ~removed PROVE KeptOnTheWay'
      BY <1>1 DEF KeptOnTheWay
    <3>1. \A i \in 1..Len(there) : i <= page * Size => there[i] \in Foreign \/ got'[there[i]] > 0
                                        \/ ~\E j \in 1..Len(start) : start[j] = there[i]
      <4> SUFFICES ASSUME NEW i \in 1..Len(there), i <= page * Size, there[i] \notin Foreign,
                          \E j \in 1..Len(start) : start[j] = there[i]
                   PROVE  got'[there[i]] > 0
        OBVIOUS
      <4>1. there[i] \in Item /\ got[there[i]] \in Nat
        BY <1>3, <2>3
      <4>2. CASE i <= Passed
        <5>1. got[there[i]] # 0
          BY <1>1, <4>2 DEF PagedInv, KeptOnTheWay, Hidden
        <5> QED
          BY <2>4, <4>1, <5>1
      <4>3. CASE ~(i <= Passed)
        <5>1. there[i] \in inside
          <6>1. Passed < i
            BY <1>3, <4>3
          <6> QED
            BY <2>8, <6>1
        <5> QED
          BY <2>4, <4>1, <5>1
      <4> QED
        BY <4>2, <4>3
    <3>2. \A i \in 1..Len(there) : i <= page * Size => ~Hidden(there[i])'
      BY <1>1, <3>1 DEF Hidden
    <3>3. \A i \in 1..Len(start) : \E j \in 1..Len(there) : there[j] = start[i]
      BY DEF PagedInv, KeptOnTheWay
    <3>4. end' = "done" => \A r \in Item : ~Hidden(r)'
      <4> SUFFICES ASSUME end' = "done", NEW r \in Item, NEW i \in 1..Len(start), start[i] = r
                   PROVE  ~Hidden(r)'
        BY <1>1 DEF Hidden
      <4>1. PICK j \in 1..Len(there) : there[j] = r
        BY <3>3
      <4>2. j <= page * Size
        BY <1>3, <2>8, <4>1
      <4> QED
        BY <1>1, <3>2, <4>1, <4>2
    <3> QED
      BY <1>1, <2>8, <3>2, <3>3, <3>4 DEF KeptOnTheWay
  <2>10. OnceOnTheWay'
    <3> SUFFICES ASSUME changes = 0 PROVE OnceOnTheWay'
      BY <1>1 DEF OnceOnTheWay
    <3>1. /\ there = start /\ ~removed
          /\ \A r \in Item : got[r] =
                 IF r \notin Foreign /\ \E i \in 1..Len(there) : i <= Passed /\ there[i] = r
                 THEN 1 ELSE 0
      BY <1>1 DEF PagedInv, OnceOnTheWay
    <3>2. \A i, j \in 1..Len(there) : there[i] = there[j] => i = j
      BY <3>1 DEF PagedInv, PagedTyped
    <3>3. ASSUME NEW r \in Item
          PROVE  got'[r] = IF r \notin Foreign /\ \E i \in 1..Len(there) : i <= page * Size /\ there[i] = r
                           THEN 1 ELSE 0
      <4>1. CASE r \in Foreign
        BY <2>6, <4>1
      <4>2. CASE r \notin Foreign /\ r \in inside
        <5>1. PICK i \in 1..Len(there) : Passed < i /\ i <= page * Size /\ there[i] = r
          BY <2>8, <3>1, <4>2
        <5>2. ~\E j \in 1..Len(there) : j <= Passed /\ there[j] = r
          BY <1>3, <3>2, <5>1
        <5> QED
          BY <2>4, <3>1, <4>2, <5>1, <5>2
      <4>3. CASE r \notin Foreign /\ r \notin inside
        <5>1. (\E i \in 1..Len(there) : i <= page * Size /\ there[i] = r)
                <=> \E i \in 1..Len(there) : i <= Passed /\ there[i] = r
          BY <1>3, <2>8, <3>1, <4>3
        <5> QED
          BY <2>3, <2>4, <3>1, <4>3, <5>1
      <4> QED
        BY <4>1, <4>2, <4>3
    <3>4. end' = "done" => \A i \in 1..Len(there) : i <= page * Size
      BY <1>3, <2>8, <3>1
    <3>5. ASSUME end' = "done", NEW r \in Item
          PROVE  got'[r] = IF r \notin Foreign /\ \E i \in 1..Len(there) : there[i] = r THEN 1 ELSE 0
      BY <3>3, <3>4, <3>5
    <3>6. ASSUME end' = None, NEW r \in Item
          PROVE  got'[r] = IF r \notin Foreign /\ \E i \in 1..Len(there) : i <= Passed' /\ there[i] = r
                           THEN 1 ELSE 0
      BY <2>8, <3>1, <3>3, <3>6
    <3> QED
      BY <1>1, <3>1, <3>5, <3>6 DEF OnceOnTheWay
  <2> QED
    BY <2>5, <2>6, <2>9, <2>10 DEF PagedInv
<1> QED
  BY <1>4, <1>5

\* Inserting moves records on, and removing leaves records of the account.
LEMMA Inserted ==
    ASSUME NEW S, NEW s \in Seq(S), NEW e \in S, NEW i \in 1..(Len(s) + 1)
    PROVE  /\ Paged!InsertAt(s, i, e) \in Seq(S) /\ Len(Paged!InsertAt(s, i, e)) = Len(s) + 1
           /\ \A j \in 1..(Len(s) + 1) :
                 Paged!InsertAt(s, i, e)[j] =
                    IF j < i THEN s[j] ELSE IF j = i THEN e ELSE s[j - 1]
<1> DEFINE left == SubSeq(s, 1, i - 1)
           right == SubSeq(s, i, Len(s))
           one == <<e>>
<1>1. Len(s) \in Nat /\ i \in Nat /\ i >= 1 /\ i <= Len(s) + 1 /\ \A j \in 1..Len(s) : s[j] \in S
  BY ElementOfSeq
<1>2. left \in Seq(S) /\ Len(left) = i - 1 /\ \A j \in 1..(i - 1) : left[j] = s[j]
  <2>1. \A j \in 1..(i - 1) : s[j] \in S
    BY <1>1
  <2>2. /\ left \in Seq(S) /\ Len(left) = IF 1 <= i - 1 THEN (i - 1) - 1 + 1 ELSE 0
        /\ \A j \in 1..((i - 1) - 1 + 1) : left[j] = s[1 + j - 1]
    BY <1>1, <2>1, SubSeqProperties
  <2> HIDE DEF left
  <2> QED
    BY <1>1, <2>2
<1>3. right \in Seq(S) /\ Len(right) = Len(s) + 1 - i
      /\ \A j \in 1..(Len(s) + 1 - i) : right[j] = s[i + j - 1]
  <2>1. \A j \in i..Len(s) : s[j] \in S
    BY <1>1
  <2>2. /\ right \in Seq(S) /\ Len(right) = IF i <= Len(s) THEN Len(s) - i + 1 ELSE 0
        /\ \A j \in 1..(Len(s) - i + 1) : right[j] = s[i + j - 1]
    BY <1>1, <2>1, SubSeqProperties
  <2> HIDE DEF right
  <2> QED
    BY <1>1, <2>2
<1>4. one \in Seq(S) /\ Len(one) = 1 /\ one[1] = e
  OBVIOUS
<1>5. Paged!InsertAt(s, i, e) = (left \o one) \o right
  BY DEF Paged!InsertAt
<1> HIDE DEF left, right, one
<1> DEFINE first == left \o one
<1>6. /\ first \in Seq(S) /\ Len(first) = i
      /\ \A j \in 1..i : first[j] = IF j <= i - 1 THEN left[j] ELSE one[j - (i - 1)]
  <2>1. /\ first \in Seq(S) /\ Len(first) = Len(left) + Len(one)
        /\ \A j \in 1..(Len(left) + Len(one)) :
              first[j] = IF j <= Len(left) THEN left[j] ELSE one[j - Len(left)]
    BY <1>2, <1>4, ConcatProperties
  <2>2. Len(left) + Len(one) = i
    BY <1>1, <1>2, <1>4
  <2> HIDE DEF first
  <2> QED
    BY <1>2, <2>1, <2>2
<1> HIDE DEF first
<1>7. /\ first \o right \in Seq(S) /\ Len(first \o right) = Len(s) + 1
      /\ \A j \in 1..(Len(s) + 1) : (first \o right)[j] = IF j <= i THEN first[j] ELSE right[j - i]
  <2>1. /\ first \o right \in Seq(S) /\ Len(first \o right) = Len(first) + Len(right)
        /\ \A j \in 1..(Len(first) + Len(right)) :
              (first \o right)[j] = IF j <= Len(first) THEN first[j] ELSE right[j - Len(first)]
    BY <1>3, <1>6, ConcatProperties
  <2>2. Len(first) + Len(right) = Len(s) + 1 /\ Len(first) = i
    BY <1>1, <1>3, <1>6
  <2> DEFINE all == first \o right
  <2> HIDE DEF all
  <2>3. all \in Seq(S) /\ Len(all) = Len(s) + 1
        /\ \A j \in 1..(Len(s) + 1) : all[j] = IF j <= i THEN first[j] ELSE right[j - i]
    BY <2>1, <2>2 DEF all
  <2> QED
    BY <2>3 DEF all
<1> DEFINE all == first \o right
<1> HIDE DEF all
<1>8. ASSUME NEW j \in 1..(Len(s) + 1)
      PROVE  all[j] = IF j < i THEN s[j] ELSE IF j = i THEN e ELSE s[j - 1]
  <2>1. j \in Nat /\ all[j] = IF j <= i THEN first[j] ELSE right[j - i]
    BY <1>1, <1>7 DEF all
  <2>2. CASE j < i
    <3>1. j \in 1..i /\ j \in 1..(i - 1) /\ j <= i /\ j <= i - 1
      BY <1>1, <2>1, <2>2
    <3> QED
      BY <1>2, <1>6, <2>1, <2>2, <3>1
  <2>3. CASE j = i
    <3>1. j \in 1..i /\ ~(j <= i - 1) /\ j <= i /\ j - (i - 1) = 1 /\ ~(j < i)
      BY <1>1, <2>3
    <3>2. all[j] = first[j] /\ first[j] = one[1]
      BY <1>6, <2>1, <3>1
    <3> QED
      BY <1>4, <2>3, <3>1, <3>2
  <2>4. CASE j > i
    <3>1. /\ j - i \in 1..(Len(s) + 1 - i) /\ i + (j - i) - 1 = j - 1
          /\ ~(j <= i) /\ ~(j < i) /\ j # i
      BY <1>1, <2>1, <2>4
    <3>2. all[j] = right[j - i] /\ right[j - i] = s[i + (j - i) - 1]
      BY <1>3, <2>1, <3>1
    <3> QED
      BY <3>1, <3>2
  <2> QED
    BY <1>1, <2>1, <2>2, <2>3, <2>4
<1> QED
  BY <1>5, <1>7, <1>8 DEF first, all

LEMMA Removed ==
    ASSUME NEW S, NEW s \in Seq(S), NEW i \in 1..Len(s)
    PROVE  Paged!RemoveAt(s, i) \in Seq(S)
<1>1. Len(s) \in Nat /\ i \in Nat /\ \A j \in 1..Len(s) : s[j] \in S
  BY ElementOfSeq
<1>2. (\A j \in 1..(i - 1) : s[j] \in S) /\ \A j \in (i + 1)..Len(s) : s[j] \in S
  BY <1>1
<1>3. SubSeq(s, 1, i - 1) \in Seq(S) /\ SubSeq(s, i + 1, Len(s)) \in Seq(S)
  BY <1>1, <1>2, SubSeqProperties
<1> QED
  BY <1>3, ConcatProperties DEF Paged!RemoveAt

\* Others change the listing while pages are read.
LEMMA Edited ==
    ASSUME PagedAssumptions, PagedInv,
           \/ \E r \in Item, i \in 1..(Len(there) + 1) : Paged!AddRecord(r, i)
           \/ \E i \in 1..Len(there) : Paged!RemoveRecord(i)
    PROVE  PagedInv'
<1>1. /\ end = None /\ changes < MaxChanges /\ changes' = changes + 1
      /\ UNCHANGED <<read, says, page, pageAttempt, got, end, start>>
  BY DEF Paged!AddRecord, Paged!RemoveRecord, Paged!Change
<1>2. /\ PagedTyped /\ MaxChanges \in Nat /\ None \notin {"done", "failed"}
      /\ Len(there) \in Nat /\ Passed \in Nat /\ Passed' = Passed
  BY <1>1, PageFacts DEF PagedInv, PagedAssumptions, Paged!PageAssumption, Paged!NoneAssumption, Passed
<1>3. changes' \in 0..MaxChanges /\ changes' # 0
  BY <1>1, <1>2 DEF PagedTyped
<1>4. OnceOnTheWay'
  BY <1>3 DEF OnceOnTheWay
<1>5. ASSUME NEW i \in 1..Len(there), Paged!RemoveRecord(i) PROVE PagedInv'
  <2>1. there' = Paged!RemoveAt(there, i) /\ removed' = TRUE
    BY <1>5 DEF Paged!RemoveRecord
  <2>2. there' \in Seq(Item)
    BY <1>2, <2>1, Removed DEF PagedTyped
  <2>3. PagedTyped'
    BY <1>1, <1>2, <1>3, <2>1, <2>2 DEF PagedTyped
  <2>4. KeptOnTheWay'
    BY <2>1 DEF KeptOnTheWay
  <2> QED
    BY <1>1, <1>4, <2>3, <2>4 DEF PagedInv
<1>6. ASSUME NEW r \in Item, NEW i \in 1..(Len(there) + 1), Paged!AddRecord(r, i) PROVE PagedInv'
  <2>1. /\ there' = Paged!InsertAt(there, i, r) /\ removed' = removed
        /\ \A j \in 1..Len(start) : start[j] # r
    <3>1. r \notin Paged!ToSet(start) /\ there' = Paged!InsertAt(there, i, r) /\ removed' = removed
      BY <1>6 DEF Paged!AddRecord
    <3>2. DOMAIN start = 1..Len(start)
      BY <1>2 DEF PagedTyped
    <3> QED
      BY <3>1, <3>2 DEF Paged!ToSet
  <2>2. /\ there' \in Seq(Item) /\ Len(there') = Len(there) + 1
        /\ \A j \in 1..(Len(there) + 1) :
              there'[j] = IF j < i THEN there[j] ELSE IF j = i THEN r ELSE there[j - 1]
    <3>1. there \in Seq(Item)
      BY <1>2 DEF PagedTyped
    <3>2. /\ Paged!InsertAt(there, i, r) \in Seq(Item)
          /\ Len(Paged!InsertAt(there, i, r)) = Len(there) + 1
          /\ \A j \in 1..(Len(there) + 1) :
                Paged!InsertAt(there, i, r)[j] =
                   IF j < i THEN there[j] ELSE IF j = i THEN r ELSE there[j - 1]
      BY ONLY <3>1, r \in Item, i \in 1..(Len(there) + 1), Inserted
    <3> DEFINE more == Paged!InsertAt(there, i, r)
    <3>3. there' = more
      BY <2>1
    <3>4. /\ more \in Seq(Item) /\ Len(more) = Len(there) + 1
          /\ \A j \in 1..(Len(there) + 1) :
                more[j] = IF j < i THEN there[j] ELSE IF j = i THEN r ELSE there[j - 1]
      BY <3>2
    <3> HIDE DEF more
    <3> QED
      BY <3>3, <3>4
  <2>3. PagedTyped'
    BY <1>1, <1>2, <1>3, <2>1, <2>2 DEF PagedTyped
  <2>4. ASSUME ~removed
        PROVE  /\ Passed <= Len(there)
               /\ \A k \in 1..Len(start) : \E j \in 1..Len(there) : there[j] = start[k]
               /\ \A j \in 1..Len(there) : j <= Passed => ~Hidden(there[j])
    BY <1>1, <2>4 DEF PagedInv, KeptOnTheWay
  <2>5. ASSUME ~removed, NEW k \in 1..Len(start)
        PROVE  \E j \in 1..Len(there') : there'[j] = start[k]
    <3>1. PICK j \in 1..Len(there) : there[j] = start[k]
      BY <2>4, <2>5
    <3>2. CASE j < i
      <4>1. j \in 1..(Len(there) + 1)
        BY <1>2
      <4> QED
        BY <2>2, <3>1, <3>2, <4>1
    <3>3. CASE ~(j < i)
      <4>1. j + 1 \in 1..(Len(there) + 1) /\ ~(j + 1 < i) /\ j + 1 # i /\ (j + 1) - 1 = j
        BY <1>2, <3>3
      <4> QED
        BY <2>2, <3>1, <4>1
    <3> QED
      BY <3>2, <3>3
  <2>6. ASSUME ~removed, NEW j \in 1..Len(there'), j <= Passed
        PROVE  ~Hidden(there'[j])
    <3>1. j \in 1..(Len(there) + 1) /\ Passed <= Len(there) /\ j \in 1..Len(there)
      BY <1>2, <2>2, <2>4, <2>6
    <3>2. CASE j < i
      BY <2>2, <2>4, <2>6, <3>1, <3>2
    <3>3. CASE j = i
      BY <2>1, <2>2, <3>1, <3>3 DEF Hidden
    <3>4. CASE j > i
      <4>1. j - 1 \in 1..Len(there) /\ j - 1 <= Passed /\ ~(j < i) /\ j # i
        BY <1>2, <2>6, <3>1, <3>4
      <4> QED
        BY <2>2, <2>4, <2>6, <3>1, <4>1
    <3> QED
      BY <3>1, <3>2, <3>3, <3>4
  <2>7. KeptOnTheWay'
    <3> SUFFICES ASSUME ~removed PROVE KeptOnTheWay'
      BY <2>1 DEF KeptOnTheWay
    <3>1. Passed' <= Len(there')
      BY <1>2, <2>2, <2>4
    <3>2. \A x : Hidden(x)' <=> Hidden(x)
      BY <1>1 DEF Hidden
    <3>3. \A j \in 1..Len(there') : j <= Passed' => ~Hidden(there'[j])
      BY <1>2, <2>6
    <3> QED
      BY <1>1, <1>2, <2>5, <3>1, <3>3 DEF KeptOnTheWay, Hidden
  <2> QED
    BY <1>1, <1>4, <2>3, <2>7 DEF PagedInv
<1> QED
  BY <1>5, <1>6

LEMMA PagedNext ==
    ASSUME PagedAssumptions, PagedInv, [Paged!Next]_(Paged!vars)
    PROVE  PagedInv'
<1>1. CASE UNCHANGED Paged!vars
  BY <1>1, PagedSame DEF Paged!vars, PagedInv, PagedTyped
<1>2. CASE Paged!Again
  <2>1. pageAttempt' \in 1..Tries
    BY <1>2 DEF Paged!Again, PagedInv, PagedTyped, PagedAssumptions, Paged!PageAssumption
  <2> QED
    BY <1>2, <2>1, PagedSame DEF Paged!Again
<1>3. CASE Paged!Fail
  BY <1>3, PagedSame DEF Paged!Fail, Paged!End, PagedInv, PagedTyped
<1>4. CASE Paged!Page
  BY <1>4, PageHeld
<1> QED
  BY <1>1, <1>2, <1>3, <1>4, Edited DEF Paged!Next

LEMMA PagedAlways == ASSUME PagedAssumptions PROVE Paged!Spec => []PagedInv
<1>1. Paged!Init => PagedInv
  BY PagedInit
<1>2. PagedInv /\ [Paged!Next]_(Paged!vars) => PagedInv'
  BY PagedNext
<1> QED
  BY <1>1, <1>2, PTL DEF Paged!Spec

LEMMA PagedTypes == ASSUME PagedInv PROVE Paged!TypeOK
  BY DEF PagedInv, PagedTyped, Paged!TypeOK

LEMMA ReadsFollow ==
    ASSUME PagedAssumptions, PagedInv
    PROVE  Paged!WholeWhenStill /\ Paged!AddedHideNothing /\ Paged!NothingForeign
<1>1. Paged!NothingForeign
  BY DEF PagedInv, Paged!NothingForeign
<1>2. Paged!AddedHideNothing
  <2> SUFFICES ASSUME end = "done", ~removed, NEW r \in Paged!Mine(start) PROVE got[r] > 0
    BY DEF Paged!AddedHideNothing
  <2>1. DOMAIN start = 1..Len(start) /\ got \in [Item -> Nat]
    BY DEF PagedInv, PagedTyped
  <2>2. PICK i \in 1..Len(start) : start[i] = r /\ r \notin Foreign
    BY <2>1 DEF Paged!Mine, Paged!ToSet
  <2>3. r \in Item
    BY <2>2, ElementOfSeq DEF PagedInv, PagedTyped
  <2>4. got[r] # 0
    BY <2>2, <2>3 DEF PagedInv, KeptOnTheWay, Hidden
  <2> QED
    BY <2>1, <2>3, <2>4
<1>3. Paged!WholeWhenStill
  <2> SUFFICES ASSUME end = "done", changes = 0
               PROVE  got = [r \in Item |-> IF r \in Paged!Mine(there) THEN 1 ELSE 0]
    BY DEF Paged!WholeWhenStill
  <2>1. DOMAIN there = 1..Len(there) /\ got \in [Item -> Nat]
    BY DEF PagedInv, PagedTyped
  <2>2. \A r \in Item : got[r] = IF r \notin Foreign /\ \E i \in 1..Len(there) : there[i] = r THEN 1 ELSE 0
    BY DEF PagedInv, OnceOnTheWay
  <2>3. \A r : r \in Paged!Mine(there) <=> r \notin Foreign /\ \E i \in 1..Len(there) : there[i] = r
    BY <2>1 DEF Paged!Mine, Paged!ToSet
  <2> QED
    BY <2>1, <2>2, <2>3
<1> QED
  BY <1>1, <1>2, <1>3

\* Whichever way the platform tells the total, for every page size, number of pages and
\* listing: a read of a listing that stays as it is returns it whole and once; records
\* that are added meanwhile hide none that was there; and nothing of another parent,
\* account or entity gets through (tiktokmapi/backend.go:253).
THEOREM ReadsHold ==
    ASSUME PagedAssumptions
    PROVE  Paged!Spec => [](Paged!WholeWhenStill /\ Paged!AddedHideNothing /\ Paged!NothingForeign)
<1>1. PagedInv => Paged!WholeWhenStill /\ Paged!AddedHideNothing /\ Paged!NothingForeign
  BY ReadsFollow
<1> QED
  BY <1>1, PagedAlways, PTL
=============================================================================
