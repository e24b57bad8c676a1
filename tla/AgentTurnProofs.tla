-------------------------- MODULE AgentTurnProofs --------------------------
(***************************************************************************)
(* Proofs about AgentTurn under its timing assumption: two turns of the    *)
(* session are never under way together, a runtime resumes nothing but the *)
(* whole conversation, no recorded turn is lost, and the event log has no  *)
(* gap.                                                                    *)
(*                                                                         *)
(* OthersKeep proves once that a step of one turn keeps the invariant of   *)
(* all the others: it changes nothing they rely on, or the lease says that *)
(* none of them is under way.                                              *)
(***************************************************************************)
EXTENDS AgentTurnInvariant, TLAPS

-----------------------------------------------------------------------------
(* Types.                                                                   *)

LEMMA TimersAreNat ==
  /\ LeaseTTL \in Nat /\ TurnTimeout \in Nat /\ MemoryTimeout \in Nat
  /\ SaveTimeout \in Nat /\ Slack \in Nat /\ MaxFaults \in Nat
  BY TimerAssumption

LEMMA BlankType == Blank \in Locals /\ NoCheckpoint \in Checkpoint
  BY DEF Blank, NoCheckpoint, Locals, Checkpoint, Points, Statuses, Message

\* The turns of a sequence of messages.
LEMMA TurnsType ==
  ASSUME NEW messages \in Seq(Message)
  PROVE  /\ TurnsOf(messages) \in Seq(Turn)
         /\ Len(TurnsOf(messages)) = Len(messages)
         /\ \A i \in 1..Len(messages) : TurnsOf(messages)[i] = messages[i].turn
  <1>1. ASSUME NEW i \in 1..Len(messages)
        PROVE  messages[i].turn \in Turn
    <2>1. messages[i] \in Message OBVIOUS
    <2> QED BY <2>1 DEF Message
  <1>2. TurnsOf(messages) \in [1..Len(messages) -> Turn] BY <1>1 DEF TurnsOf
  <1>3. Len(messages) \in Nat OBVIOUS
  <1>4. TurnsOf(messages) \in Seq(Turn) BY <1>2, <1>3
  <1>5. DOMAIN TurnsOf(messages) = 1..Len(messages) BY <1>2
  <1>6. Len(TurnsOf(messages)) = Len(messages) BY <1>3, <1>4, <1>5
  <1>7. \A i \in 1..Len(messages) : TurnsOf(messages)[i] = messages[i].turn
    BY DEF TurnsOf
  <1> QED BY <1>4, <1>6, <1>7

LEMMA TurnsOfAppend ==
  ASSUME NEW messages \in Seq(Message), NEW m \in Message
  PROVE  TurnsOf(Append(messages, m)) = Append(TurnsOf(messages), m.turn)
  <1> DEFINE longer == Append(messages, m)
  <1>1. longer \in Seq(Message) /\ Len(longer) = Len(messages) + 1
        /\ Len(messages) \in Nat
    OBVIOUS
  <1>2. m.turn \in Turn BY DEF Message
  <1>3. \A i \in 1..Len(longer) :
           longer[i].turn = IF i = Len(messages) + 1 THEN m.turn ELSE messages[i].turn
    BY <1>1
  <1>4. /\ TurnsOf(messages) \in Seq(Turn)
        /\ Len(TurnsOf(messages)) = Len(messages)
        /\ \A i \in 1..Len(messages) : TurnsOf(messages)[i] = messages[i].turn
    BY TurnsType
  <1>5. /\ TurnsOf(longer) \in Seq(Turn)
        /\ Len(TurnsOf(longer)) = Len(longer)
        /\ \A i \in 1..Len(longer) : TurnsOf(longer)[i] = longer[i].turn
    <2> HIDE DEF longer
    <2> QED BY <1>1, TurnsType
  <1> HIDE DEF longer
  <1>6. Append(TurnsOf(messages), m.turn) \in Seq(Turn)
        /\ Len(Append(TurnsOf(messages), m.turn)) = Len(messages) + 1
    BY <1>2, <1>4
  <1>7. ASSUME NEW i \in 1..(Len(messages) + 1)
        PROVE  TurnsOf(longer)[i] = Append(TurnsOf(messages), m.turn)[i]
    <2>1. CASE i = Len(messages) + 1 BY <1>1, <1>2, <1>3, <1>4, <1>5, <2>1
    <2>2. CASE i \in 1..Len(messages) BY <1>1, <1>2, <1>3, <1>4, <1>5, <2>2
    <2>3. i = Len(messages) + 1 \/ i \in 1..Len(messages)
      <3> DEFINE n == Len(messages)
      <3>1. n \in Nat /\ i \in 1..(n + 1) BY <1>1
      <3> HIDE DEF n
      <3>2. i = n + 1 \/ i \in 1..n BY <3>1
      <3> QED BY <3>2 DEF n
    <2> QED BY <2>1, <2>2, <2>3
  <1>8. TurnsOf(longer) = Append(TurnsOf(messages), m.turn)
    BY <1>1, <1>5, <1>6, <1>7
  <1> QED BY <1>8 DEF longer

LEMMA EventType ==
  ASSUME TypeOK, NEW t \in Turn, NEW kind \in EventKinds,
         NEW of \in Call \union Statuses \union {None}, Event(t, kind, of)
  PROVE  /\ feed' \in [Turn -> [seq : Nat, lost : BOOLEAN]]
         /\ log' \in [Turn -> Seq(Row)]
         /\ faults' \in 0..MaxFaults
  <1> DEFINE n == feed[t].seq + 1
             row == [seq |-> n, kind |-> kind, of |-> of]
             stored == Append(log[t], row)
  <1>1. feed \in [Turn -> [seq : Nat, lost : BOOLEAN]] /\ log \in [Turn -> Seq(Row)]
        /\ faults \in 0..MaxFaults /\ MaxFaults \in Nat
    BY TimersAreNat DEF TypeOK
  <1>2. n \in Nat BY <1>1
  <1>3. row \in Row BY <1>2 DEF Row
  <1>4. stored \in Seq(Row) BY <1>1, <1>3
  <1>5. \/ UNCHANGED log
        \/ log' = [log EXCEPT ![t] = stored]
        \/ log' = [log EXCEPT ![t] = log[t]]
    BY DEF Event
  <1>6. log' \in [Turn -> Seq(Row)] BY <1>1, <1>4, <1>5
  <1>7. UNCHANGED faults \/ Fault BY DEF Event
  <1>8. faults' \in 0..MaxFaults BY <1>1, <1>7 DEF Fault
  <1>9. UNCHANGED feed \/ feed' = [feed EXCEPT ![t].seq = n]
        \/ feed' = [feed EXCEPT ![t] = [seq |-> n, lost |-> TRUE]]
    BY DEF Event
  <1>10. [feed[t] EXCEPT !.seq = n] \in [seq : Nat, lost : BOOLEAN]
         /\ [seq |-> n, lost |-> TRUE] \in [seq : Nat, lost : BOOLEAN]
    BY <1>1, <1>2
  <1>11. feed' \in [Turn -> [seq : Nat, lost : BOOLEAN]]
    <2> HIDE DEF n
    <2> QED BY <1>1, <1>9, <1>10
  <1> QED BY <1>6, <1>8, <1>11

LEMMA SaveType ==
  ASSUME TypeOK, NEW t \in Turn, NEW status \in Statuses, turn[t].bind \in Binding,
         SaveSession(t, status) \/ SaveFails(t, status)
  PROVE  /\ session' \in [messages : Seq(Message), checkpoint : Checkpoint,
                          binding : Binding]
         /\ faults' \in 0..MaxFaults
  <1>1. turn[t] \in Locals /\ faults \in 0..MaxFaults /\ MaxFaults \in Nat
    BY TimersAreNat DEF TypeOK
  <1>2. [turn |-> t, status |-> status] \in Message BY DEF Message
  <1>3. Saved(t, status) \in [messages : Seq(Message), checkpoint : Checkpoint,
                              binding : Binding]
    BY <1>1, <1>2 DEF Saved, Locals
  <1>4. session' \in {session, Saved(t, status)} /\ (UNCHANGED faults \/ Fault)
    BY DEF SaveSession, SaveFails
  <1> QED BY <1>1, <1>3, <1>4 DEF TypeOK, Fault

\* Only turn t moves, to locals of the right type.
Moves(t) == \E r \in Locals : turn' = [turn EXCEPT ![t] = r]

LEMMA MoveType ==
  ASSUME TypeOK, NEW t \in Turn, Moves(t)
  PROVE  /\ turn' \in [Turn -> Locals]
         /\ \A u \in Turn : u # t => turn'[u] = turn[u]
  BY DEF TypeOK, Moves

LEMMA GotoMoves ==
  ASSUME TypeOK, NEW t \in Turn, NEW point \in Points, Goto(t, point)
  PROVE  Moves(t) /\ turn'[t] = [turn[t] EXCEPT !.pc = point]
  <1>1. turn[t] \in Locals BY DEF TypeOK
  <1>2. [turn[t] EXCEPT !.pc = point] \in Locals BY <1>1 DEF Locals
  <1> QED BY <1>2 DEF Goto, Moves, TypeOK

LEMMA ReturnMoves ==
  ASSUME TypeOK, NEW t \in Turn, NEW result \in {"ok", "error"}, Return(t, result)
  PROVE  Moves(t) /\ turn'[t].pc = "releasing"
  <1> DEFINE r == [Blank EXCEPT !.pc = "releasing", !.host = turn[t].host,
                                !.result = result]
  <1>1. turn[t].host \in Host \union {None} BY DEF TypeOK, Locals
  <1>2. r \in Locals BY <1>1, BlankType DEF Locals, Points
  <1>3. r.pc = "releasing" BY DEF Blank
  <1> QED BY <1>2, <1>3 DEF Return, Moves, TypeOK

\* A step of one turn that moves it, with or without an event or a save.
LEMMA StepType ==
  ASSUME TypeOK, NEW t \in Turn, Moves(t),
         UNCHANGED call \/ (\E c \in Call, s \in Stages : call' = [call EXCEPT ![t][c] = s]),
         UNCHANGED lease \/ lease' \in [owner : Turn \union {None}, left : Nat],
         session' \in [messages : Seq(Message), checkpoint : Checkpoint,
                        binding : Binding],
         feed' \in [Turn -> [seq : Nat, lost : BOOLEAN]],
         log' \in [Turn -> Seq(Row)],
         faults' \in 0..MaxFaults
  PROVE  TypeOK'
  <1>1. call' \in [Turn -> [Call -> Stages]]
    <2>1. CASE UNCHANGED call BY <2>1 DEF TypeOK
    <2>2. ASSUME NEW c \in Call, NEW s \in Stages, call' = [call EXCEPT ![t][c] = s]
          PROVE  call' \in [Turn -> [Call -> Stages]]
      <3>1. [call[t] EXCEPT ![c] = s] \in [Call -> Stages] BY DEF TypeOK
      <3> QED BY <2>2, <3>1 DEF TypeOK
    <2> QED BY <2>1, <2>2
  <1>2. lease' \in [owner : Turn \union {None}, left : Nat] BY DEF TypeOK
  <1>3. turn' \in [Turn -> Locals] BY MoveType
  <1> QED BY <1>1, <1>2, <1>3 DEF TypeOK

\* What a turn may become, by the fields an action assigns.
LEMMA BeginMoves ==
  ASSUME TypeOK, NEW t \in Turn, NEW h \in Host, Begin(t, h)
  PROVE  /\ Moves(t)
         /\ turn'[t].pc = "leased" /\ turn'[t].left = TurnTimeout
         /\ turn'[t].spare = Slack
  <1> DEFINE r == [turn[t] EXCEPT !.pc = "leased", !.host = h,
                                  !.left = TurnTimeout, !.spare = Slack]
  <1>1. turn[t] \in Locals BY DEF TypeOK
  <1>2. r \in Locals BY <1>1, TimersAreNat DEF Locals, Points, Active, Asking
  <1>3. turn' = [turn EXCEPT ![t] = r] BY DEF Begin
  <1>4. r.pc = "leased" /\ r.left = TurnTimeout /\ r.spare = Slack
    BY <1>1 DEF Locals
  <1> HIDE DEF r
  <1> QED BY <1>2, <1>3, <1>4 DEF Moves, TypeOK

LEMMA LoadMoves ==
  ASSUME TypeOK, NEW t \in Turn, NEW b \in Binding, Load(t, b)
  PROVE  /\ Moves(t)
         /\ turn'[t] = [turn[t] EXCEPT !.pc = "loaded", !.bind = b,
                !.prior = session.messages,
                !.checkpoint = IF KeepsCheckpoint(b) THEN session.checkpoint
                                                     ELSE NoCheckpoint]
  <1> DEFINE kept == IF KeepsCheckpoint(b) THEN session.checkpoint ELSE NoCheckpoint
             r == [turn[t] EXCEPT !.pc = "loaded", !.bind = b,
                       !.prior = session.messages, !.checkpoint = kept]
  <1>1. turn[t] \in Locals /\ session.messages \in Seq(Message)
        /\ kept \in Checkpoint
    BY BlankType DEF TypeOK
  <1>2. r \in Locals
    <2> HIDE DEF kept
    <2> QED BY <1>1 DEF Locals, Points, Active, Asking
  <1>3. turn' = [turn EXCEPT ![t] = r] BY DEF Load
  <1> HIDE DEF r
  <1>4. turn'[t] = r BY <1>3 DEF TypeOK
  <1>5. Moves(t) BY <1>2, <1>3 DEF Moves
  <1> QED BY <1>4, <1>5 DEF r

LEMMA ToSaveType ==
  ASSUME NEW r \in Locals
  PROVE  /\ ToSave(r) \in Locals /\ ToExtract(r) \in Locals
         /\ ToSave(r).pc = "saving" /\ ToExtract(r).pc = "extracting"
         /\ ToSave(r).left = SaveTimeout /\ ToExtract(r).left = MemoryTimeout
         /\ \A q \in {ToSave(r), ToExtract(r)} :
               /\ q.spare = r.spare /\ q.prior = r.prior /\ q.bind = r.bind
               /\ q.checkpoint = r.checkpoint /\ q.status = r.status
  BY TimersAreNat DEF ToSave, ToExtract, Locals, Points, Active, Asking

LEMMA ContextType ==
  ASSUME TypeOK, NEW t \in Turn
  PROVE  Context(t) \in Seq(Turn)
  <1>1. turn[t].prior \in Seq(Message) /\ turn[t].checkpoint \in Checkpoint
    BY DEF TypeOK, Locals
  <1> QED BY <1>1, TurnsType DEF Context, Checkpoint

\* A verdict is final; a completed turn has a checkpoint of its own.
LEMMA JudgeMoves ==
  ASSUME TypeOK, NEW t \in Turn, Judge(t), turn[t].bind \in Binding
  PROVE  /\ Moves(t)
         /\ \/ turn'[t].pc = "extracting" /\ turn'[t].left = MemoryTimeout
            \/ turn'[t].pc = "saving" /\ turn'[t].left = SaveTimeout
         /\ turn'[t].spare = turn[t].spare /\ turn'[t].prior = turn[t].prior
         /\ turn'[t].bind = turn[t].bind /\ turn'[t].status \in Final
         /\ turn'[t].checkpoint = IF turn'[t].status = "completed"
                THEN [by |-> turn[t].bind, turns |-> Append(Context(t), t)]
                ELSE NoCheckpoint
  <1>1. turn[t] \in Locals /\ Context(t) \in Seq(Turn) BY ContextType DEF TypeOK
  <1>2. PICK answer \in LastAnswers(t) :
           LET status == Verdict(t, answer)
               broken == answer.broken \/ feed[t].lost
               judged == [turn[t] EXCEPT
                   !.status = status, !.broken = broken,
                   !.checkpoint = IF status = "completed"
                                  THEN [by |-> turn[t].bind,
                                        turns |-> Append(Context(t), t)]
                                  ELSE NoCheckpoint]
           IN turn' = [turn EXCEPT ![t] =
                  IF Captures /\ ~broken THEN ToExtract(judged) ELSE ToSave(judged)]
    BY DEF Judge
  <1> DEFINE status == Verdict(t, answer)
             broken == answer.broken \/ feed[t].lost
             own == IF status = "completed"
                    THEN [by |-> turn[t].bind, turns |-> Append(Context(t), t)]
                    ELSE NoCheckpoint
             judged == [turn[t] EXCEPT !.status = status, !.broken = broken,
                                       !.checkpoint = own]
             r == IF Captures /\ ~broken THEN ToExtract(judged) ELSE ToSave(judged)
  <1>3. turn' = [turn EXCEPT ![t] = r] BY <1>2
  <1>4. status \in Final /\ status \in Statuses
    BY DEF Verdict, Final, Ledger!Final, Statuses
  <1>5. own \in Checkpoint
    <2> HIDE DEF status
    <2>1. Append(Context(t), t) \in Seq(Turn) BY <1>1
    <2> QED BY <2>1, BlankType DEF Checkpoint
  <1>6. broken \in BOOLEAN OBVIOUS
  <1>7. /\ judged \in Locals /\ judged.status = status /\ judged.checkpoint = own
        /\ judged.spare = turn[t].spare /\ judged.prior = turn[t].prior
        /\ judged.bind = turn[t].bind
    <2> HIDE DEF status, broken, own
    <2> QED BY <1>1, <1>4, <1>5, <1>6 DEF Locals
  <1>8. /\ r \in Locals
        /\ \/ r.pc = "extracting" /\ r.left = MemoryTimeout
           \/ r.pc = "saving" /\ r.left = SaveTimeout
        /\ r.spare = turn[t].spare /\ r.prior = turn[t].prior
        /\ r.bind = turn[t].bind /\ r.status = status /\ r.checkpoint = own
    <2> HIDE DEF status, broken, own, judged
    <2> QED BY <1>7, ToSaveType
  <1>9. turn'[t] = r
    <2> HIDE DEF r
    <2> QED BY <1>3 DEF TypeOK
  <1>10. Moves(t)
    <2> HIDE DEF r
    <2> QED BY <1>3, <1>8 DEF Moves
  <1> HIDE DEF r, status
  <1> QED BY <1>4, <1>8, <1>9, <1>10

-----------------------------------------------------------------------------
(* What the other turns keep.                                               *)

\* Nobody else is under way while a turn is, or when the lease is free.
LEMMA Alone ==
  ASSUME IInv, NEW t \in Turn, NEW u \in Turn, u # t,
         turn[t].pc \in Protected \/ lease.left = 0
  PROVE  turn[u].pc \notin Protected
  <1>1. /\ turn[u].left \in Nat /\ turn[u].spare \in Nat /\ lease.left \in Nat
    BY DEF IInv, TypeOK, Locals
  <1>2. Remaining(u) \in Nat BY TimersAreNat DEF Remaining
  <1>3. /\ turn[u].pc \in Protected =>
              lease.owner = u /\ turn[u].left + turn[u].spare + Remaining(u) < lease.left
        /\ turn[t].pc \in Protected => lease.owner = t
    BY DEF IInv, LeaseLasts
  <1> QED BY <1>1, <1>2, <1>3

\* The stored turns are those of before, and t.
Adds(t) ==
    \A i \in 1..Len(session'.messages) :
        \/ session'.messages[i].turn = t
        \/ \E j \in 1..Len(session.messages) :
               session.messages[j].turn = session'.messages[i].turn

LEMMA OthersKeep ==
  ASSUME IInv, NEW t \in Turn, NEW u \in Turn, u # t, turn'[u] = turn[u],
         UNCHANGED session \/ (turn[u].pc \notin Protected /\ Adds(t)),
         UNCHANGED lease \/ turn[u].pc \notin Protected
  PROVE  LeaseLasts(u)' /\ LocalFits(u)'
  <1>1. LeaseLasts(u) /\ LocalFits(u) BY DEF IInv
  <1>2. LeaseLasts(u)' BY <1>1 DEF LeaseLasts, Remaining
  <1>3. LocalFits(u)'
    <2>1. CASE UNCHANGED session BY <1>1, <2>1 DEF LocalFits
    <2>2. CASE turn[u].pc \notin Protected /\ Adds(t)
      <3>1. turn[u].pc \in Protected
               \/ turn[u].pc \notin Opened \union Judged \union {"leased", "loaded"}
        BY DEF Protected, Active, Asking, Opened, Judged
      <3>2. turn[u].pc \in Fresh =>
               \A i \in 1..Len(session'.messages) : session'.messages[i].turn # u
        BY <1>1, <2>2 DEF LocalFits, Adds
      <3> QED BY <2>2, <3>1, <3>2 DEF LocalFits, Fresh
    <2> QED BY <2>1, <2>2
  <1> QED BY <1>2, <1>3

\* A turn that leaves the session and the lease alone.
LEMMA LocalStep ==
  ASSUME IInv, TypeOK', NEW t \in Turn, Moves(t), UNCHANGED <<session, lease>>,
         LeaseLasts(t)', LocalFits(t)'
  PROVE  IInv'
  <1>1. \A u \in Turn : u # t => turn'[u] = turn[u] BY MoveType DEF IInv
  <1>2. \A u \in Turn : LeaseLasts(u)' /\ LocalFits(u)' BY <1>1, OthersKeep
  <1>3. SessionFits' BY DEF IInv, SessionFits
  <1> QED BY <1>2, <1>3 DEF IInv

\* A turn that is not under way relies on nothing.
Idle(t) == turn[t].pc \notin Fresh \union Protected

LEMMA IdleFits ==
  ASSUME NEW t \in Turn, Idle(t)'
  PROVE  LeaseLasts(t)' /\ LocalFits(t)'
  BY DEF Idle, LeaseLasts, LocalFits, Fresh, Protected, Active, Asking, Opened, Judged

\* A step that only concerns tools and events.
LEMMA StillStep ==
  ASSUME IInv, TypeOK', UNCHANGED <<session, lease, turn>>
  PROVE  IInv'
  BY DEF IInv, SessionFits, LeaseLasts, LocalFits, Remaining

-----------------------------------------------------------------------------
(* The steps of a turn.                                                     *)

LEMMA BeginStep ==
  ASSUME IInv, NEW t \in Turn, NEW h \in Host, Begin(t, h)
  PROVE  IInv'
  <1>1. TypeOK BY DEF IInv
  <1>2. /\ Moves(t) /\ turn'[t].pc = "leased" /\ turn'[t].left = TurnTimeout
        /\ turn'[t].spare = Slack
    BY <1>1, BeginMoves
  <1>3. /\ turn[t].pc = "unsent" /\ lease.left = 0
        /\ lease' = [owner |-> t, left |-> LeaseTTL]
        /\ UNCHANGED <<session, call, feed, log, faults>>
    BY DEF Begin, At
  <1>4. TypeOK' BY <1>1, <1>2, <1>3, StepType, TimersAreNat DEF TypeOK
  <1>5. LeaseLasts(t)' /\ LocalFits(t)'
    <2>1. Remaining(t)' = MemoryTimeout + SaveTimeout
      BY <1>2 DEF Remaining, Asking
    <2>2. LeaseLasts(t)' BY <1>2, <1>3, <2>1, TimersAreNat, TimingAssumption DEF LeaseLasts
    <2>3. LocalFits(t) BY DEF IInv
    <2> QED BY <1>2, <1>3, <2>2, <2>3 DEF LocalFits, Fresh, Opened, Judged
  <1>6. ASSUME NEW u \in Turn, u # t PROVE LeaseLasts(u)' /\ LocalFits(u)'
    <2>1. turn[u].pc \notin Protected BY <1>3, <1>6, Alone
    <2>2. turn'[u] = turn[u] BY <1>1, <1>2, <1>6, MoveType
    <2> QED BY <1>3, <1>6, <2>1, <2>2, OthersKeep
  <1>7. SessionFits' BY <1>3 DEF IInv, SessionFits
  <1> QED BY <1>4, <1>5, <1>6, <1>7 DEF IInv

LEMMA LeaseFailsStep ==
  ASSUME IInv, NEW t \in Turn, NEW h \in Host, LeaseFails(t, h)
  PROVE  IInv'
  <1> DEFINE r == [Blank EXCEPT !.pc = "over", !.result = "error"]
  <1>1. /\ TypeOK /\ turn[t].pc = "unsent" /\ lease.left = 0
        /\ lease' = [owner |-> t, left |-> LeaseTTL]
        /\ turn' = [turn EXCEPT ![t] = r]
        /\ UNCHANGED <<session, call, feed, log>> /\ Fault
    BY DEF LeaseFails, At, IInv
  <1>2. r \in Locals /\ r.pc = "over"
    BY BlankType DEF Locals, Points, Blank
  <1> HIDE DEF r
  <1>3. Moves(t) /\ turn'[t].pc = "over" BY <1>1, <1>2 DEF Moves, TypeOK
  <1>4. faults' \in 0..MaxFaults BY <1>1, TimersAreNat DEF Fault, TypeOK
  <1>5. TypeOK' BY <1>1, <1>3, <1>4, StepType, TimersAreNat DEF TypeOK
  <1>6. LeaseLasts(t)' /\ LocalFits(t)'
    BY <1>3, IdleFits DEF Idle, Fresh, Protected, Active, Asking
  <1>7. ASSUME NEW u \in Turn, u # t PROVE LeaseLasts(u)' /\ LocalFits(u)'
    <2>1. turn[u].pc \notin Protected BY <1>1, <1>7, Alone
    <2>2. turn'[u] = turn[u] BY <1>1, <1>3, <1>7, MoveType
    <2> QED BY <1>1, <1>7, <2>1, <2>2, OthersKeep
  <1>8. SessionFits' BY <1>1 DEF IInv, SessionFits
  <1> QED BY <1>5, <1>6, <1>7, <1>8 DEF IInv

LEMMA LoadStep ==
  ASSUME IInv, NEW t \in Turn, NEW b \in Binding, Load(t, b)
  PROVE  IInv'
  <1> DEFINE kept == IF KeepsCheckpoint(b) THEN session.checkpoint ELSE NoCheckpoint
  <1>1. TypeOK BY DEF IInv
  <1>2. /\ Moves(t)
        /\ turn'[t] = [turn[t] EXCEPT !.pc = "loaded", !.bind = b,
                          !.prior = session.messages, !.checkpoint = kept]
    BY <1>1, LoadMoves
  <1>3. turn[t].pc = "leased" /\ UNCHANGED <<session, lease, call, feed, log, faults>>
    BY DEF Load, At
  <1>4. TypeOK' BY <1>1, <1>2, <1>3, StepType DEF TypeOK
  <1>5. /\ turn'[t].pc = "loaded" /\ turn'[t].bind = b
        /\ turn'[t].prior = session.messages /\ turn'[t].checkpoint = kept
        /\ turn'[t].left = turn[t].left /\ turn'[t].spare = turn[t].spare
    <2> HIDE DEF kept
    <2>1. turn[t] \in Locals BY <1>1 DEF TypeOK
    <2> QED BY <1>2, <2>1 DEF Locals
  <1>6. Fits(kept, b, TurnsOf(session.messages))
    BY DEF IInv, SessionFits, Fits, KeepsCheckpoint
  <1>7. LeaseLasts(t)'
    BY <1>3, <1>5 DEF IInv, LeaseLasts, Remaining, Protected, Active, Asking
  <1>8. LocalFits(t)'
    <2> HIDE DEF kept
    <2>1. LocalFits(t) BY DEF IInv
    <2> QED BY <1>3, <1>5, <1>6, <2>1 DEF LocalFits, Fresh, Opened, Judged
  <1> QED BY <1>2, <1>3, <1>4, <1>7, <1>8, LocalStep

\* What a save may leave in the session's row.
LEMMA SavedFits ==
  ASSUME IInv, NEW t \in Turn, NEW status \in Statuses,
         \/ turn[t].pc = "loaded" /\ status = "running"
         \/ turn[t].pc \in Judged /\ status = turn[t].status,
         SaveSession(t, status) \/ SaveFails(t, status)
  PROVE  SessionFits' /\ Adds(t)
  <1> DEFINE m == [turn |-> t, status |-> status]
             prior == turn[t].prior
  <1>1. /\ prior \in Seq(Message) /\ m \in Message
        /\ session.messages \in Seq(Message)
    BY DEF IInv, TypeOK, Locals, Message
  <1>2. LocalFits(t) /\ SessionFits BY DEF IInv
  <1>3. session' \in {session, Saved(t, status)} BY DEF SaveSession, SaveFails
  <1>4. CASE session' = session BY <1>2, <1>4 DEF SessionFits, Adds
  <1>5. CASE session' = Saved(t, status)
    <2>1. /\ session'.messages = Append(prior, m)
          /\ session'.checkpoint = turn[t].checkpoint
          /\ session'.binding = turn[t].bind
      BY <1>5 DEF Saved
    <2>2. /\ Len(session'.messages) = Len(prior) + 1 /\ Len(prior) \in Nat
          /\ session'.messages[Len(prior) + 1] = m
          /\ \A i \in 1..Len(prior) : session'.messages[i] = prior[i]
      BY <1>1, <2>1
    <2>3. \/ session.messages = prior
          \/ session.messages = Append(prior, [turn |-> t, status |-> "running"])
      BY <1>2 DEF LocalFits, Judged
    <2>4. \A i \in 1..Len(prior) :
             i \in 1..Len(session.messages) /\ session.messages[i] = prior[i]
      BY <1>1, <2>2, <2>3
    <2>5. Adds(t)
      <3> SUFFICES ASSUME NEW i \in 1..Len(session'.messages), session'.messages[i].turn # t
                   PROVE  \E j \in 1..Len(session.messages) :
                              session.messages[j].turn = session'.messages[i].turn
        BY DEF Adds
      <3>1. i # Len(prior) + 1 BY <2>2
      <3>2. i \in 1..Len(prior) BY <2>2, <3>1
      <3> QED BY <2>2, <2>4, <3>2
    <2>6. turn[t].checkpoint.by \in {turn[t].bind, None}
      BY <1>2 DEF LocalFits, Fits, NoCheckpoint, Opened, Judged
    <2>7. ASSUME status = "completed"
          PROVE  Fits(turn[t].checkpoint, turn[t].bind, TurnsOf(Append(prior, m)))
      BY <1>1, <1>2, <2>7, TurnsOfAppend DEF LocalFits
    <2>8. ASSUME status # "completed"
          PROVE  ~(Len(session'.messages) > 0 =>
                      session'.messages[Len(session'.messages)].status = "completed")
      BY <2>2, <2>8
    <2> QED BY <2>1, <2>2, <2>5, <2>6, <2>7, <2>8 DEF SessionFits
  <1> QED BY <1>3, <1>4, <1>5

\* A turn that is under way and saves.
LEMMA SaveStep ==
  ASSUME IInv, NEW t \in Turn, NEW status \in Statuses, Moves(t),
         \/ turn[t].pc = "loaded" /\ status = "running"
         \/ turn[t].pc \in Judged /\ status = turn[t].status,
         SaveSession(t, status) \/ SaveFails(t, status),
         UNCHANGED <<lease, call, feed, log>>,
         LeaseLasts(t)', LocalFits(t)'
  PROVE  IInv'
  <1>1. TypeOK /\ turn[t].bind \in Binding BY DEF IInv, LocalFits
  <1>2. TypeOK'
    <2>1. /\ session' \in [messages : Seq(Message), checkpoint : Checkpoint,
                            binding : Binding]
          /\ faults' \in 0..MaxFaults
      BY <1>1, SaveType
    <2> QED BY <1>1, <2>1, StepType DEF TypeOK
  <1>3. SessionFits' /\ Adds(t) BY SavedFits
  <1>4. ASSUME NEW u \in Turn, u # t PROVE LeaseLasts(u)' /\ LocalFits(u)'
    <2>1. turn[t].pc \in Protected BY DEF Protected, Active, Asking, Judged
    <2>2. turn[u].pc \notin Protected BY <1>4, <2>1, Alone
    <2>3. turn'[u] = turn[u] BY <1>1, <1>4, MoveType
    <2> QED BY <1>3, <1>4, <2>2, <2>3, OthersKeep
  <1> QED BY <1>2, <1>3, <1>4 DEF IInv

LEMMA OpenTurnStep ==
  ASSUME IInv, NEW t \in Turn, OpenTurn(t)
  PROVE  IInv'
  <1>1. /\ turn[t].pc = "loaded" /\ UNCHANGED <<lease, call, feed, log>>
        /\ TypeOK /\ LocalFits(t) /\ LeaseLasts(t) /\ turn[t] \in Locals
    BY DEF OpenTurn, At, IInv, TypeOK
  <1>2. "running" \in Statuses BY DEF Statuses
  <1>3. CASE SaveSession(t, "running") /\ Goto(t, "opened")
    <2>1. Moves(t) /\ turn'[t] = [turn[t] EXCEPT !.pc = "opened"]
      BY <1>1, <1>3, GotoMoves DEF Points, Active, Asking
    <2>2. /\ turn'[t].pc = "opened" /\ turn'[t].prior = turn[t].prior
          /\ turn'[t].bind = turn[t].bind /\ turn'[t].checkpoint = turn[t].checkpoint
          /\ turn'[t].left = turn[t].left /\ turn'[t].spare = turn[t].spare
      BY <1>1, <2>1 DEF Locals
    <2>3. session'.messages = Append(turn[t].prior, [turn |-> t, status |-> "running"])
      BY <1>3 DEF SaveSession, Saved
    <2>4. LeaseLasts(t)'
      BY <1>1, <2>2 DEF LeaseLasts, Remaining, Protected, Active, Asking
    <2>5. LocalFits(t)'
      BY <1>1, <2>2, <2>3 DEF LocalFits, Fresh, Opened, Judged
    <2> QED BY <1>1, <1>2, <1>3, <2>1, <2>4, <2>5, SaveStep
  <1>4. CASE SaveFails(t, "running") /\ Return(t, "error")
    <2>1. Moves(t) /\ turn'[t].pc = "releasing" BY <1>1, <1>4, ReturnMoves
    <2>2. LeaseLasts(t)' /\ LocalFits(t)'
      BY <2>1, IdleFits DEF Idle, Fresh, Protected, Active, Asking
    <2> QED BY <1>1, <1>2, <1>4, <2>1, <2>2, SaveStep
  <1> QED BY <1>3, <1>4 DEF OpenTurn

LEMMA SettleStep ==
  ASSUME IInv, NEW t \in Turn, Settle(t)
  PROVE  IInv'
  <1> DEFINE status == turn[t].status
  <1>1. /\ turn[t].pc = "saving" /\ UNCHANGED <<lease, call, feed, log>>
        /\ TypeOK /\ turn[t] \in Locals
    BY DEF Settle, At, IInv, TypeOK
  <1>2. status \in Statuses /\ turn[t].pc \in Judged BY <1>1 DEF Locals, Judged
  <1>3. /\ SaveSession(t, status) \/ SaveFails(t, status)
        /\ Moves(t) /\ turn'[t].pc \in {"completing", "releasing"}
    <2>1. CASE SaveSession(t, status) /\ Goto(t, "completing")
      <3>1. Moves(t) /\ turn'[t] = [turn[t] EXCEPT !.pc = "completing"]
        BY <1>1, <2>1, GotoMoves DEF Points, Active
      <3> QED BY <1>1, <2>1, <3>1 DEF Locals
    <2>2. CASE SaveFails(t, status) /\ Return(t, "error")
      BY <1>1, <2>2, ReturnMoves
    <2> QED BY <2>1, <2>2 DEF Settle
  <1>4. LeaseLasts(t)' /\ LocalFits(t)'
    BY <1>3, IdleFits DEF Idle, Fresh, Protected, Active, Asking
  <1> QED BY <1>1, <1>2, <1>3, <1>4, SaveStep

\* Steps that leave a turn where it is, or bring it on before the verdict.
LEMMA OpenedStep ==
  ASSUME IInv, NEW t \in Turn, Started(t) \/ StartRuntime(t) \/ FollowThrough(t)
  PROVE  IInv'
  <1>1. TypeOK /\ LocalFits(t) /\ LeaseLasts(t) /\ turn[t] \in Locals
    BY DEF IInv, TypeOK
  <1>2. /\ turn[t].pc \in Opened /\ UNCHANGED <<session, lease, call>>
        /\ Moves(t) /\ turn'[t].pc \in Opened
        /\ turn'[t].prior = turn[t].prior
        /\ turn'[t].bind = turn[t].bind /\ turn'[t].checkpoint = turn[t].checkpoint
        /\ turn'[t].left = turn[t].left /\ turn'[t].spare = turn[t].spare
    <2>1. ASSUME NEW point \in Opened, Goto(t, point)
          PROVE  /\ Moves(t) /\ turn'[t].pc \in Opened
                 /\ turn'[t].prior = turn[t].prior
                 /\ turn'[t].bind = turn[t].bind
                 /\ turn'[t].checkpoint = turn[t].checkpoint
                 /\ turn'[t].left = turn[t].left /\ turn'[t].spare = turn[t].spare
      <3>1. point \in Points BY DEF Opened, Points, Active, Asking
      <3>2. Moves(t) /\ turn'[t] = [turn[t] EXCEPT !.pc = point]
        BY <1>1, <2>1, <3>1, GotoMoves
      <3> QED BY <1>1, <3>2 DEF Locals
    <2>2. CASE Started(t) BY <2>1, <2>2 DEF Started, At, Opened
    <2>3. CASE StartRuntime(t) BY <2>1, <2>3 DEF StartRuntime, At, Opened
    <2>4. CASE FollowThrough(t)
      <3> DEFINE r == [turn[t] EXCEPT !.pass = 2]
      <3>1. turn' = [turn EXCEPT ![t] = r] BY <2>4 DEF FollowThrough
      <3>2. /\ r \in Locals /\ r.pc = turn[t].pc /\ r.prior = turn[t].prior
            /\ r.bind = turn[t].bind /\ r.checkpoint = turn[t].checkpoint
            /\ r.left = turn[t].left /\ r.spare = turn[t].spare
        BY <1>1 DEF Locals
      <3>3. turn[t].pc \in Opened /\ UNCHANGED <<session, lease, call>>
        BY <2>4 DEF FollowThrough, At, Opened
      <3> HIDE DEF r
      <3> QED BY <1>1, <3>1, <3>2, <3>3 DEF Moves, TypeOK
    <2> QED BY <2>2, <2>3, <2>4
  <1>3. /\ feed' \in [Turn -> [seq : Nat, lost : BOOLEAN]]
        /\ log' \in [Turn -> Seq(Row)] /\ faults' \in 0..MaxFaults
    <2>1. CASE Started(t)
      <3>1. Event(t, "turn.started", None) BY <2>1 DEF Started
      <3>2. "turn.started" \in EventKinds BY DEF EventKinds
      <3> QED BY <1>1, <3>1, <3>2, EventType
    <2>2. CASE StartRuntime(t) \/ FollowThrough(t)
      BY <1>1, <2>2 DEF StartRuntime, FollowThrough, TypeOK
    <2> QED BY <2>1, <2>2
  <1>4. TypeOK' BY <1>1, <1>2, <1>3, StepType DEF TypeOK
  <1>5. LeaseLasts(t)'
    BY <1>1, <1>2 DEF LeaseLasts, Remaining, Opened, Protected, Active, Asking
  <1>6. LocalFits(t)' BY <1>1, <1>2 DEF LocalFits, Fresh, Opened, Judged
  <1> QED BY <1>2, <1>4, <1>5, <1>6, LocalStep

LEMMA JudgeStep ==
  ASSUME IInv, NEW t \in Turn, Judge(t)
  PROVE  IInv'
  <1>1. /\ TypeOK /\ LocalFits(t) /\ LeaseLasts(t) /\ turn[t] \in Locals
        /\ turn[t].pc = "thinking" /\ UNCHANGED <<session, lease, call, feed, log, faults>>
    BY DEF IInv, TypeOK, Judge, At
  <1>2. turn[t].bind \in Binding BY <1>1 DEF LocalFits, Opened
  <1>3. /\ Moves(t)
        /\ \/ turn'[t].pc = "extracting" /\ turn'[t].left = MemoryTimeout
           \/ turn'[t].pc = "saving" /\ turn'[t].left = SaveTimeout
        /\ turn'[t].spare = turn[t].spare /\ turn'[t].prior = turn[t].prior
        /\ turn'[t].bind = turn[t].bind /\ turn'[t].status \in Final
        /\ turn'[t].checkpoint = IF turn'[t].status = "completed"
               THEN [by |-> turn[t].bind, turns |-> Append(Context(t), t)]
               ELSE NoCheckpoint
    BY <1>1, <1>2, JudgeMoves
  <1>4. TypeOK' BY <1>1, <1>3, StepType DEF TypeOK
  <1>5. Context(t) = TurnsOf(turn[t].prior)
    BY <1>1 DEF LocalFits, Opened, Fits, Context
  <1>6. LeaseLasts(t)'
    <2>1. turn[t].left \in Nat /\ turn[t].spare \in Nat /\ lease.left \in Nat
      BY <1>1 DEF Locals, TypeOK
    <2>2. /\ lease.owner = t
          /\ turn[t].left + turn[t].spare + (MemoryTimeout + SaveTimeout) < lease.left
      BY <1>1 DEF LeaseLasts, Remaining, Protected, Active, Asking
    <2>3. \/ turn'[t].pc = "extracting" /\ Remaining(t)' = SaveTimeout
          \/ turn'[t].pc = "saving" /\ Remaining(t)' = 0
      BY <1>3 DEF Remaining, Asking
    <2>4. \/ turn'[t].left = MemoryTimeout /\ Remaining(t)' = SaveTimeout
          \/ turn'[t].left = SaveTimeout /\ Remaining(t)' = 0
      BY <1>3, <2>3
    <2>5. turn'[t].spare = turn[t].spare BY <1>3
    <2>6. turn'[t].left + turn'[t].spare + Remaining(t)' < lease.left
      <3>1. CASE turn'[t].left = MemoryTimeout /\ Remaining(t)' = SaveTimeout
        BY <2>1, <2>2, <2>5, <3>1, TimersAreNat
      <3>2. CASE turn'[t].left = SaveTimeout /\ Remaining(t)' = 0
        BY <2>1, <2>2, <2>5, <3>2, TimersAreNat
      <3> QED BY <2>4, <3>1, <3>2
    <2>7. UNCHANGED lease BY <1>1
    <2> QED BY <2>2, <2>6, <2>7 DEF LeaseLasts
  <1>7. LocalFits(t)'
    <2>1. Fits(turn'[t].checkpoint, turn'[t].bind, Append(TurnsOf(turn'[t].prior), t))
      BY <1>3, <1>5 DEF Fits
    <2>2. turn'[t].pc \in Judged /\ turn'[t].pc \notin Fresh \union Opened
      BY <1>3 DEF Judged, Fresh, Opened
    <2>3. session.messages = Append(turn[t].prior, [turn |-> t, status |-> "running"])
      BY <1>1 DEF LocalFits, Opened
    <2> QED BY <1>1, <1>2, <1>3, <2>1, <2>2, <2>3 DEF LocalFits, Fresh
  <1> QED BY <1>1, <1>3, <1>4, <1>6, <1>7, LocalStep

LEMMA ExtractedStep ==
  ASSUME IInv, NEW t \in Turn, Extracted(t)
  PROVE  IInv'
  <1>1. /\ TypeOK /\ LocalFits(t) /\ LeaseLasts(t) /\ turn[t] \in Locals
        /\ turn[t].pc = "extracting"
        /\ UNCHANGED <<session, lease, call, feed, log, faults>>
    BY DEF IInv, TypeOK, Extracted, At
  <1>2. turn' = [turn EXCEPT ![t] = ToSave(turn[t])] BY DEF Extracted
  <1>3. Moves(t) /\ turn'[t] = ToSave(turn[t])
    BY <1>1, <1>2, ToSaveType DEF Moves, TypeOK
  <1>4. TypeOK' BY <1>1, <1>3, StepType DEF TypeOK
  <1>5. /\ turn'[t].pc = "saving" /\ turn'[t].left = SaveTimeout
        /\ turn'[t].spare = turn[t].spare /\ turn'[t].prior = turn[t].prior
        /\ turn'[t].bind = turn[t].bind /\ turn'[t].status = turn[t].status
        /\ turn'[t].checkpoint = turn[t].checkpoint
    BY <1>1, <1>3, ToSaveType
  <1>6. LeaseLasts(t)'
    <2>1. turn[t].left \in Nat /\ turn[t].spare \in Nat /\ lease.left \in Nat
      BY <1>1 DEF Locals, TypeOK
    <2>2. /\ lease.owner = t
          /\ turn[t].left + turn[t].spare + SaveTimeout < lease.left
      BY <1>1 DEF LeaseLasts, Remaining, Protected, Active, Asking
    <2>3. Remaining(t)' = 0 BY <1>5 DEF Remaining, Asking
    <2> QED BY <1>1, <1>5, <2>1, <2>2, <2>3, TimersAreNat DEF LeaseLasts
  <1>7. LocalFits(t)' BY <1>1, <1>5 DEF LocalFits, Fresh, Opened, Judged
  <1> QED BY <1>1, <1>3, <1>4, <1>6, <1>7, LocalStep

LEMMA ToolSteps ==
  ASSUME IInv, NEW t \in Turn, NEW c \in Call, CallTool(t, c) \/ ToolStep(t, c)
  PROVE  IInv'
  <1>1. TypeOK /\ turn[t] \in Locals BY DEF IInv, TypeOK
  <1>2. UNCHANGED <<session, lease, turn>>
    BY DEF CallTool, ToolStep, EnterTool, StartTool, FinishTool
  <1>3. Moves(t)
    <2>1. turn = [turn EXCEPT ![t] = turn[t]] BY <1>1 DEF TypeOK
    <2> QED BY <1>1, <1>2, <2>1 DEF Moves
  <1>4. \E s \in Stages : call' = [call EXCEPT ![t][c] = s]
    <2>1. CASE CallTool(t, c) BY <2>1 DEF CallTool, Stages
    <2>2. CASE EnterTool(t, c)
      <3>1. call' = [call EXCEPT ![t][c] = "entered"]
               \/ call' = [call EXCEPT ![t][c] = "refused"]
        BY <2>2 DEF EnterTool
      <3> QED BY <3>1 DEF Stages
    <2>3. CASE StartTool(t, c) BY <2>3 DEF StartTool, Stages
    <2>4. CASE FinishTool(t, c) BY <2>4 DEF FinishTool, Stages
    <2> QED BY <2>1, <2>2, <2>3, <2>4 DEF ToolStep
  <1>5. /\ feed' \in [Turn -> [seq : Nat, lost : BOOLEAN]]
        /\ log' \in [Turn -> Seq(Row)] /\ faults' \in 0..MaxFaults
    <2>1. CASE CallTool(t, c) \/ EnterTool(t, c)
      BY <1>1, <2>1 DEF CallTool, EnterTool, TypeOK
    <2>2. ASSUME NEW kind \in {"tool.started", "tool.finished"}, Event(t, kind, c)
          PROVE  <1>5
      <3>1. kind \in EventKinds BY DEF EventKinds
      <3> QED BY <1>1, <2>2, <3>1, EventType
    <2>3. CASE StartTool(t, c) BY <2>2, <2>3 DEF StartTool
    <2>4. CASE FinishTool(t, c) BY <2>2, <2>4 DEF FinishTool
    <2> QED BY <2>1, <2>3, <2>4 DEF ToolStep
  <1>6. TypeOK' BY <1>1, <1>2, <1>3, <1>4, <1>5, StepType DEF TypeOK
  <1> QED BY <1>2, <1>6, StillStep

LEMMA RememberStep ==
  ASSUME IInv, NEW t \in Turn, Remember(t)
  PROVE  IInv'
  <1>1. TypeOK /\ UNCHANGED <<session, lease, turn, call>>
        /\ Event(t, "memory.updated", None)
    BY DEF IInv, Remember
  <1>2. /\ feed' \in [Turn -> [seq : Nat, lost : BOOLEAN]]
        /\ log' \in [Turn -> Seq(Row)] /\ faults' \in 0..MaxFaults
    <2>1. "memory.updated" \in EventKinds BY DEF EventKinds
    <2> QED BY <1>1, <2>1, EventType
  <1>3. TypeOK' BY <1>1, <1>2 DEF TypeOK
  <1> QED BY <1>1, <1>3, StillStep

\* Steps that leave a turn with nothing to rely on.
LEMMA EndingSteps ==
  ASSUME IInv, NEW t \in Turn, Refuse(t) \/ Complete(t) \/ Crash(t)
  PROVE  IInv'
  <1>1. TypeOK /\ turn[t] \in Locals /\ UNCHANGED <<session, lease, call>>
    BY DEF IInv, TypeOK, Refuse, Complete, Crash
  <1>2. Moves(t) /\ turn'[t].pc \in {"releasing", "dead"}
    <2>1. CASE Refuse(t)
      <3>1. Return(t, "error") BY <2>1 DEF Refuse
      <3> QED BY <1>1, <3>1, ReturnMoves
    <2>2. CASE Complete(t)
      <3>1. \E result \in {"ok", "error"} : Return(t, result)
        BY <2>2 DEF Complete
      <3> QED BY <1>1, <3>1, ReturnMoves
    <2>3. CASE Crash(t)
      <3> DEFINE r == [Blank EXCEPT !.pc = "dead"]
      <3>1. turn' = [turn EXCEPT ![t] = r] BY <2>3 DEF Crash
      <3>2. r \in Locals BY BlankType DEF Locals, Points
      <3>3. r.pc = "dead" BY DEF Blank
      <3> HIDE DEF r
      <3> QED BY <1>1, <3>1, <3>2, <3>3 DEF Moves, TypeOK
    <2> QED BY <2>1, <2>2, <2>3
  <1>3. /\ feed' \in [Turn -> [seq : Nat, lost : BOOLEAN]]
        /\ log' \in [Turn -> Seq(Row)] /\ faults' \in 0..MaxFaults
    <2>1. CASE Complete(t)
      <3>1. turn[t].status \in Call \union Statuses \union {None} BY <1>1 DEF Locals
      <3>2. Event(t, "turn.completed", turn[t].status) BY <2>1 DEF Complete
      <3>3. "turn.completed" \in EventKinds BY DEF EventKinds
      <3> QED BY <1>1, <3>1, <3>2, <3>3, EventType
    <2>2. CASE Refuse(t) \/ Crash(t)
      BY SMTT(60), <1>1, <2>2, TimersAreNat DEF Refuse, Crash, Fault, TypeOK
    <2> QED BY <2>1, <2>2
  <1>4. TypeOK' BY <1>1, <1>2, <1>3, StepType DEF TypeOK
  <1>5. LeaseLasts(t)' /\ LocalFits(t)'
    BY <1>2, IdleFits DEF Idle, Fresh, Protected, Active, Asking
  <1> QED BY <1>1, <1>2, <1>4, <1>5, LocalStep

\* Giving the lease back takes it from nobody else.
LEMMA ReleaseStep ==
  ASSUME IInv, NEW t \in Turn, Release(t)
  PROVE  IInv'
  <1>1. /\ TypeOK /\ turn[t] \in Locals /\ turn[t].pc = "releasing"
        /\ UNCHANGED <<session, call, feed, log>>
        /\ Goto(t, "over")
        /\ lease' = lease \/ (lease.owner = t /\ lease' = Free)
        /\ UNCHANGED faults \/ Fault
    BY DEF IInv, TypeOK, Release, At
  <1>2. Moves(t) /\ turn'[t] = [turn[t] EXCEPT !.pc = "over"]
    BY <1>1, GotoMoves DEF Points
  <1>3. turn'[t].pc = "over" BY <1>1, <1>2 DEF Locals
  <1>4. TypeOK'
    <2>1. lease' \in [owner : Turn \union {None}, left : Nat] BY <1>1 DEF TypeOK, Free
    <2>2. faults' \in 0..MaxFaults BY <1>1, TimersAreNat DEF TypeOK, Fault
    <2> QED BY <1>1, <1>2, <2>1, <2>2, StepType DEF TypeOK
  <1>5. LeaseLasts(t)' /\ LocalFits(t)'
    BY <1>3, IdleFits DEF Idle, Fresh, Protected, Active, Asking
  <1>6. ASSUME NEW u \in Turn, u # t PROVE LeaseLasts(u)' /\ LocalFits(u)'
    <2>1. turn'[u] = turn[u] BY <1>1, <1>2, <1>6, MoveType
    <2>2. lease' = lease \/ turn[u].pc \notin Protected
      BY <1>1, <1>6 DEF IInv, LeaseLasts
    <2> QED BY <1>1, <1>6, <2>1, <2>2, OthersKeep
  <1>7. SessionFits' BY <1>1 DEF IInv, SessionFits
  <1> QED BY <1>4, <1>5, <1>6, <1>7 DEF IInv

LEMMA CancelStep ==
  ASSUME IInv, NEW t \in Turn, Cancel(t)
  PROVE  IInv'
  <1> DEFINE r == [turn[t] EXCEPT !.alive = FALSE]
  <1>1. /\ TypeOK /\ turn[t] \in Locals /\ LocalFits(t) /\ LeaseLasts(t)
        /\ turn' = [turn EXCEPT ![t] = r]
        /\ UNCHANGED <<session, lease, call, feed, log, faults>>
    BY DEF IInv, TypeOK, Cancel
  <1>2. /\ r \in Locals /\ r.pc = turn[t].pc /\ r.prior = turn[t].prior
        /\ r.bind = turn[t].bind /\ r.checkpoint = turn[t].checkpoint
        /\ r.left = turn[t].left /\ r.spare = turn[t].spare
        /\ r.status = turn[t].status
    BY <1>1 DEF Locals
  <1> HIDE DEF r
  <1>3. Moves(t) /\ turn'[t] = r BY <1>1, <1>2 DEF Moves, TypeOK
  <1>4. TypeOK' BY <1>1, <1>3, StepType DEF TypeOK
  <1>5. LeaseLasts(t)' BY <1>1, <1>2, <1>3 DEF LeaseLasts, Remaining
  <1>6. LocalFits(t)' BY <1>1, <1>2, <1>3 DEF LocalFits
  <1> QED BY <1>1, <1>3, <1>4, <1>5, <1>6, LocalStep

\* A turn under way loses a tick together with its lease.
LEMMA TickStep ==
  ASSUME IInv, Tick
  PROVE  IInv'
  <1>1. /\ TypeOK /\ UNCHANGED <<session, call, feed, log, faults>>
        /\ turn' = [t \in Turn |-> IF turn[t].pc \in Active THEN Elapse(turn[t])
                                                            ELSE turn[t]]
        /\ lease' = [lease EXCEPT !.left = IF @ = 0 THEN 0 ELSE @ - 1]
        /\ lease \in [owner : Turn \union {None}, left : Nat]
    BY DEF IInv, TypeOK, Tick, ElapseLease
  <1>2. /\ lease' \in [owner : Turn \union {None}, left : Nat]
        /\ lease'.owner = lease.owner
        /\ lease'.left = IF lease.left = 0 THEN 0 ELSE lease.left - 1
    BY <1>1
  <1>3. ASSUME NEW t \in Turn
        PROVE  /\ turn'[t] \in Locals /\ turn'[t].pc = turn[t].pc
               /\ turn'[t].prior = turn[t].prior /\ turn'[t].bind = turn[t].bind
               /\ turn'[t].checkpoint = turn[t].checkpoint
               /\ turn'[t].status = turn[t].status
               /\ turn[t].pc \in Active =>
                     turn'[t].left + turn'[t].spare = (turn[t].left + turn[t].spare) - 1
    <2>1. turn[t] \in Locals BY <1>1 DEF TypeOK
    <2>2. CASE turn[t].pc \notin Active BY <1>1, <2>1, <2>2
    <2>3. CASE turn[t].pc \in Active /\ turn[t].left = 0
      <3>1. turn[t].left + turn[t].spare > 0 BY <2>3 DEF Tick
      <3>2. turn[t].spare \in Nat /\ turn[t].spare - 1 \in Nat
        BY <2>1, <2>3, <3>1 DEF Locals
      <3>3. turn'[t] = [turn[t] EXCEPT !.spare = turn[t].spare - 1]
        BY <1>1, <2>3 DEF Elapse
      <3>4. turn'[t].left = 0 /\ turn'[t].spare = turn[t].spare - 1
        BY <2>1, <2>3, <3>3 DEF Locals
      <3>5. turn'[t].left + turn'[t].spare = (turn[t].left + turn[t].spare) - 1
        BY <2>3, <3>2, <3>4
      <3> QED BY <2>1, <3>2, <3>3, <3>5 DEF Locals
    <2>4. CASE turn[t].pc \in Active /\ turn[t].left # 0
      <3> DEFINE alive == turn[t].alive /\ (turn[t].left > 1 \/ turn[t].pc = "extracting")
      <3>1. turn[t].left \in Nat /\ turn[t].left - 1 \in Nat /\ turn[t].spare \in Nat
        BY <2>1, <2>4 DEF Locals
      <3>2. turn'[t] = [turn[t] EXCEPT !.left = turn[t].left - 1, !.alive = alive]
        BY <1>1, <2>4 DEF Elapse
      <3>3. alive \in BOOLEAN BY <2>1 DEF Locals
      <3> HIDE DEF alive
      <3>4. /\ turn'[t].left = turn[t].left - 1 /\ turn'[t].spare = turn[t].spare
            /\ turn'[t] \in Locals /\ turn'[t].pc = turn[t].pc
            /\ turn'[t].prior = turn[t].prior /\ turn'[t].bind = turn[t].bind
            /\ turn'[t].checkpoint = turn[t].checkpoint
            /\ turn'[t].status = turn[t].status
        BY ZenonT(60), <2>1, <3>1, <3>2, <3>3 DEF Locals
      <3>5. turn'[t].left + turn'[t].spare = (turn[t].left + turn[t].spare) - 1
        BY <3>1, <3>4
      <3> QED BY <3>4, <3>5
    <2> QED BY <2>2, <2>3, <2>4
  <1>4. TypeOK'
    <2>1. turn' \in [Turn -> Locals] BY <1>1, <1>3
    <2> QED BY <1>1, <1>2, <2>1 DEF TypeOK
  <1>5. ASSUME NEW t \in Turn PROVE LeaseLasts(t)'
    <2> DEFINE rest == turn[t].left + turn[t].spare
    <2>1. SUFFICES ASSUME turn[t].pc \in Protected PROVE LeaseLasts(t)'
      BY <1>3 DEF LeaseLasts
    <2>2. /\ lease.owner = t /\ rest + Remaining(t) < lease.left
          /\ rest \in Nat /\ lease.left \in Nat
      BY <1>1, <2>1 DEF IInv, LeaseLasts, TypeOK, Locals
    <2>3. Remaining(t) \in Nat /\ Remaining(t)' = Remaining(t)
      BY <1>3, TimersAreNat DEF Remaining
    <2>0. turn[t].pc \in Active BY <2>1 DEF Protected
    <2>4. turn'[t].left + turn'[t].spare = rest - 1
      <3>1. turn[t].pc \in Active =>
               turn'[t].left + turn'[t].spare = (turn[t].left + turn[t].spare) - 1
        BY <1>3, ZenonT(30)
      <3> QED BY <2>0, <3>1, Zenon
    <2> HIDE DEF rest
    <2>5. turn'[t].left + turn'[t].spare + Remaining(t)' < lease'.left
      BY <1>2, <2>2, <2>3, <2>4
    <2> QED BY <1>2, <2>2, <2>5 DEF LeaseLasts
  <1>6. ASSUME NEW t \in Turn PROVE LocalFits(t)'
    <2>1. LocalFits(t) BY DEF IInv
    <2> QED BY <1>1, <1>3, <2>1 DEF LocalFits
  <1>7. SessionFits' BY <1>1 DEF IInv, SessionFits
  <1> QED BY <1>4, <1>5, <1>6, <1>7 DEF IInv

-----------------------------------------------------------------------------
(* Theorems.                                                                *)

LEMMA InitInv == Init => IInv
  <1> SUFFICES ASSUME Init PROVE IInv OBVIOUS
  <1>1. TypeOK
    <2>1. \A b \in Binding : [messages |-> <<>>, checkpoint |-> NoCheckpoint, binding |-> b]
             \in [messages : Seq(Message), checkpoint : Checkpoint, binding : Binding]
      BY BlankType
    <2>2. session \in [messages : Seq(Message), checkpoint : Checkpoint, binding : Binding]
      BY <2>1 DEF Init
    <2> QED BY <2>2, BlankType, TimersAreNat DEF Init, TypeOK, Free, Stages
  <1>2. session.messages = <<>> /\ session.checkpoint = NoCheckpoint BY DEF Init
  <1>3. SessionFits BY <1>2 DEF SessionFits, Fits, NoCheckpoint
  <1>4. \A t \in Turn : turn[t].pc = "unsent" BY DEF Init, Blank
  <1>5. \A t \in Turn : LeaseLasts(t) BY <1>4 DEF LeaseLasts, Protected, Active, Asking
  <1>6. ASSUME NEW t \in Turn PROVE LocalFits(t)
    <2>1. \A i \in 1..Len(session.messages) : session.messages[i].turn # t
      BY <1>2
    <2>2. turn[t].pc \notin Opened \union Judged \union {"loaded"}
      BY <1>4 DEF Opened, Judged
    <2> QED BY <2>1, <2>2 DEF LocalFits
  <1> QED BY <1>1, <1>3, <1>5, <1>6 DEF IInv

LEMMA NextInv == IInv /\ [Next]_vars => IInv'
  <1> SUFFICES ASSUME IInv, [Next]_vars PROVE IInv' OBVIOUS
  <1>1. ASSUME NEW t \in Turn, NEW h \in Host, Begin(t, h) \/ LeaseFails(t, h)
        PROVE  IInv'
    BY <1>1, BeginStep, LeaseFailsStep
  <1>2. ASSUME NEW t \in Turn, HostStep(t) PROVE IInv'
    <2>1. ASSUME NEW b \in Binding, Load(t, b) PROVE IInv' BY <2>1, LoadStep
    <2>2. CASE OpenTurn(t) BY <2>2, OpenTurnStep
    <2>3. CASE Started(t) \/ StartRuntime(t) BY <2>3, OpenedStep
    <2>4. CASE Extracted(t) BY <2>4, ExtractedStep
    <2>5. CASE Settle(t) BY <2>5, SettleStep
    <2>6. CASE Complete(t) BY <2>6, EndingSteps
    <2>7. CASE Release(t) BY <2>7, ReleaseStep
    <2> QED BY <1>2, <2>1, <2>2, <2>3, <2>4, <2>5, <2>6, <2>7 DEF HostStep
  <1>3. ASSUME NEW t \in Turn, Refuse(t) \/ Crash(t) PROVE IInv'
    BY <1>3, EndingSteps
  <1>4. ASSUME NEW t \in Turn, FollowThrough(t) PROVE IInv' BY <1>4, OpenedStep
  <1>5. ASSUME NEW t \in Turn, Judge(t) PROVE IInv' BY <1>5, JudgeStep
  <1>6. ASSUME NEW t \in Turn, Remember(t) PROVE IInv' BY <1>6, RememberStep
  <1>7. ASSUME NEW t \in Turn, Cancel(t) PROVE IInv' BY <1>7, CancelStep
  <1>8. ASSUME NEW t \in Turn, NEW c \in Call, CallTool(t, c) \/ ToolStep(t, c)
        PROVE  IInv'
    BY <1>8, ToolSteps
  <1>9. CASE Tick BY <1>9, TickStep
  <1>10. CASE UNCHANGED vars
    <2>1. TypeOK' BY <1>10 DEF IInv, TypeOK, vars
    <2> QED BY <1>10, <2>1, StillStep DEF vars
  <1> QED BY <1>1, <1>2, <1>3, <1>4, <1>5, <1>6, <1>7, <1>8, <1>9, <1>10 DEF Next

\* The invariant: what a turn loaded is still stored, and its lease lasts.
THEOREM TurnInvariance == Spec => []IInv
  BY InitInv, NextInv, PTL DEF Spec

\* Every variable keeps its type.
THEOREM TypeInvariance == Spec => []TypeOK
  <1>1. IInv => TypeOK BY DEF IInv
  <1> QED BY <1>1, TurnInvariance, PTL

\* However many hosts, turns and failures, two turns of a session are never
\* under way together (Store.Lease under host.go:221).
THEOREM TurnsAreExclusive == Spec => []OneTurnAtATime
  <1>1. IInv => OneTurnAtATime BY Alone DEF OneTurnAtATime
  <1> QED BY <1>1, TurnInvariance, PTL

\* However turns end, a runtime resumes the whole conversation or none of it
\* (SelectExecution and host.go:366-371).
THEOREM ContinuityIsWhole == Spec => []ResumesWhole
  <1>1. ASSUME IInv, NEW t \in Turn, turn[t].pc \in {"grounding", "thinking"}
        PROVE  /\ TurnsOf(session.messages) = Append(Context(t), t)
               /\ turn[t].checkpoint.by \in {turn[t].bind, None}
    <2> DEFINE m == [turn |-> t, status |-> "running"]
               prior == turn[t].prior
    <2>1. prior \in Seq(Message) /\ m \in Message
      BY <1>1 DEF IInv, TypeOK, Locals, Message, Statuses
    <2>2. /\ session.messages = Append(prior, m)
          /\ Fits(turn[t].checkpoint, turn[t].bind, TurnsOf(prior))
      BY <1>1 DEF IInv, LocalFits, Opened
    <2>3. Context(t) = TurnsOf(prior) BY <2>2 DEF Context, Fits
    <2>4. turn[t].checkpoint.by \in {turn[t].bind, None}
      BY <2>2 DEF Fits, NoCheckpoint
    <2>5. TurnsOf(Append(prior, m)) = Append(TurnsOf(prior), t)
      BY <2>1, TurnsOfAppend
    <2> QED BY <2>2, <2>3, <2>4, <2>5
  <1>2. IInv => ResumesWhole BY <1>1 DEF ResumesWhole
  <1> QED BY <1>2, TurnInvariance, PTL

-----------------------------------------------------------------------------
(* AgentTurn implements Conversation.                                       *)

\* A save of a turn that is loaded opens it, one of a turn that was judged
\* settles it, and nothing else touches the conversation.
LEMMA SaveLedger ==
  ASSUME IInv, NEW t \in Turn, NEW status \in Statuses,
         \/ turn[t].pc = "loaded" /\ status = "running"
         \/ turn[t].pc = "saving" /\ status = turn[t].status,
         SaveSession(t, status) \/ SaveFails(t, status)
  PROVE  Ledger!Next \/ UNCHANGED session.messages
  <1> DEFINE prior == turn[t].prior
             m == [turn |-> t, status |-> status]
             opened == [turn |-> t, status |-> "running"]
  <1>1. /\ prior \in Seq(Message) /\ m \in Message /\ opened \in Message
        /\ LocalFits(t)
    BY DEF IInv, TypeOK, Locals, Message, Statuses
  <1>2. session' \in {session, Saved(t, status)} BY DEF SaveSession, SaveFails
  <1>3. CASE session' = session BY <1>3
  <1>4. CASE session' = Saved(t, status)
    <2>1. session'.messages = Append(prior, m) BY <1>4 DEF Saved
    <2>2. CASE turn[t].pc = "loaded" /\ status = "running"
      <3>1. /\ session.messages = prior
            /\ \A i \in 1..Len(session.messages) : session.messages[i].turn # t
        BY <1>1, <2>2 DEF LocalFits, Fresh
      <3>2. Ledger!Open(t) BY <2>1, <2>2, <3>1 DEF Ledger!Open
      <3> QED BY <3>2 DEF Ledger!Next
    <2>3. CASE turn[t].pc = "saving" /\ status = turn[t].status
      <3>1. session.messages = Append(prior, opened) /\ status \in Final
        BY <1>1, <2>3 DEF LocalFits, Judged
      <3> DEFINE n == Len(prior) + 1
                 before == session.messages
                 after == [before EXCEPT ![n].status = status]
      <3>2. before \in Seq(Message) /\ Len(before) = n /\ n > 0 /\ before[n] = opened
            /\ Len(prior) \in Nat
        BY <1>1, <3>1
      <3>3. after = Append(prior, m)
        <4>1. after = [before EXCEPT ![n] = m] BY <3>2
        <4>2. /\ after \in Seq(Message) /\ Len(after) = n
              /\ \A i \in 1..n : after[i] = IF i = n THEN m ELSE before[i]
          BY <1>1, <3>2, <4>1
        <4>3. /\ Append(prior, m) \in Seq(Message) /\ Len(Append(prior, m)) = n
              /\ \A i \in 1..n : Append(prior, m)[i] = IF i = n THEN m ELSE before[i]
          BY <1>1, <3>1, <3>2
        <4> HIDE DEF after, before, n, m
        <4> QED BY <4>2, <4>3
      <3>4. Ledger!Settle(t, status)
        BY <2>1, <3>2, <3>3 DEF Ledger!Settle
      <3> QED BY <3>1, <3>4 DEF Ledger!Next, Final
    <2> QED BY <2>2, <2>3
  <1> QED BY <1>2, <1>3, <1>4

LEMMA NextLedger == IInv /\ [Next]_vars => [Ledger!Next]_(session.messages)
  <1> SUFFICES ASSUME IInv, [Next]_vars
               PROVE  Ledger!Next \/ UNCHANGED session.messages
    OBVIOUS
  <1>1. ASSUME NEW t \in Turn, OpenTurn(t) PROVE Ledger!Next \/ UNCHANGED session.messages
    <2>1. /\ turn[t].pc = "loaded"
          /\ SaveSession(t, "running") \/ SaveFails(t, "running")
      BY <1>1 DEF OpenTurn, At
    <2>2. "running" \in Statuses BY DEF Statuses
    <2> QED BY <2>1, <2>2, SaveLedger
  <1>2. ASSUME NEW t \in Turn, Settle(t) PROVE Ledger!Next \/ UNCHANGED session.messages
    <2>1. /\ turn[t].pc = "saving"
          /\ SaveSession(t, turn[t].status) \/ SaveFails(t, turn[t].status)
      BY <1>2 DEF Settle, At
    <2>2. turn[t].status \in Statuses BY DEF IInv, TypeOK, Locals
    <2> QED BY <2>1, <2>2, SaveLedger
  <1>3. ASSUME NEW t \in Turn, HostStep(t) PROVE Ledger!Next \/ UNCHANGED session.messages
    BY <1>1, <1>2, <1>3
    DEF HostStep, Load, Started, StartRuntime, Extracted, Complete, Release
  <1>4. ASSUME NEW t \in Turn,
               \/ \E h \in Host : Begin(t, h) \/ LeaseFails(t, h)
               \/ Refuse(t) \/ FollowThrough(t) \/ Judge(t)
               \/ Remember(t) \/ Cancel(t) \/ Crash(t)
        PROVE  UNCHANGED session
    BY <1>4 DEF Begin, LeaseFails, Refuse, FollowThrough, Judge, Remember, Cancel, Crash
  <1>5. ASSUME NEW t \in Turn, NEW c \in Call, CallTool(t, c) \/ ToolStep(t, c)
        PROVE  UNCHANGED session
    BY <1>5 DEF CallTool, ToolStep, EnterTool, StartTool, FinishTool
  <1>6. CASE Tick BY <1>6 DEF Tick
  <1>7. CASE UNCHANGED vars BY <1>7 DEF vars
  <1> QED BY <1>3, <1>4, <1>5, <1>6, <1>7 DEF Next

\* No recorded turn is lost, reordered or settled twice (SaveSession under the
\* lease, host.go:255 and 393).
THEOREM TurnsAreKept == Spec => ImplementsConversation
  <1>1. Init => Ledger!Init BY DEF Init, Ledger!Init
  <1> QED BY <1>1, NextLedger, TurnInvariance, PTL
          DEF Spec, ImplementsConversation, Ledger!Spec

-----------------------------------------------------------------------------
(* The event log.                                                           *)

LEMMA EventFits ==
  ASSUME TypeOK, NEW t \in Turn, NEW kind \in EventKinds,
         NEW of \in Call \union Statuses \union {None}, Event(t, kind, of),
         NEW u \in Turn, FeedFits(u)
  PROVE  FeedFits(u)'
  <1> DEFINE n == feed[t].seq + 1
             row == [seq |-> n, kind |-> kind, of |-> of]
             stored == Append(log[t], row)
  <1>1. /\ feed \in [Turn -> [seq : Nat, lost : BOOLEAN]]
        /\ log \in [Turn -> Seq(Row)]
    BY DEF TypeOK
  <1>2. row \in Row /\ log[t] \in Seq(Row)
    <2>1. n \in Nat /\ feed[t].lost \in BOOLEAN BY <1>1
    <2> HIDE DEF n
    <2>2. row \in Row BY <2>1 DEF Row
    <2> QED BY <1>1, <2>2
  <1>3. CASE u # t \/ (UNCHANGED <<feed, log>>)
    <2>1. feed'[u] = feed[u] /\ log'[u] = log[u] BY <1>1, <1>3 DEF Event
    <2> QED BY <2>1 DEF FeedFits
  <1>4. CASE u = t /\ ~feed[t].lost
    <2>1. feed[t].seq = Len(log[t]) /\ \A i \in 1..Len(log[t]) : log[t][i].seq = i
      BY <1>4 DEF FeedFits
    <2>2. /\ Len(stored) = n /\ n = Len(log[t]) + 1
          /\ \A i \in 1..Len(stored) : stored[i].seq = i
      <3>1. Len(stored) = Len(log[t]) + 1 /\ Len(log[t]) \in Nat BY <1>2
      <3>2. stored[Len(log[t]) + 1] = row
            /\ \A i \in 1..Len(log[t]) : stored[i] = log[t][i]
        BY <1>2
      <3>3. row.seq = Len(log[t]) + 1 BY <2>1
      <3> HIDE DEF stored, row
      <3> QED BY <2>1, <3>1, <3>2, <3>3
    <2>3. log'[t] \in {log[t], stored} BY <1>1, <1>4 DEF Event
    <2>4. \A i \in 1..Len(log'[t]) : log'[t][i].seq = i
      <3> HIDE DEF stored
      <3> QED BY <2>1, <2>2, <2>3
    <2>5. ~feed'[t].lost => feed'[t].seq = n /\ log'[t] = stored
      BY <1>1, <1>4 DEF Event
    <2> QED BY <1>4, <2>2, <2>4, <2>5 DEF FeedFits
  <1>5. UNCHANGED <<feed, log>> \/ ~feed[t].lost BY DEF Event
  <1> QED BY <1>3, <1>4, <1>5

LEMMA NextFeed ==
  IInv /\ (\A u \in Turn : FeedFits(u)) /\ [Next]_vars => (\A u \in Turn : FeedFits(u))'
  <1> SUFFICES ASSUME IInv, NEW u \in Turn, FeedFits(u), [Next]_vars PROVE FeedFits(u)'
    OBVIOUS
  <1>1. TypeOK /\ {"turn.started", "tool.started", "tool.finished", "memory.updated",
                   "turn.completed"} = EventKinds
    BY DEF IInv, EventKinds
  <1>2. UNCHANGED <<feed, log>> => FeedFits(u)' BY DEF FeedFits
  <1>3. ASSUME NEW t \in Turn, Started(t) PROVE FeedFits(u)'
    <2>1. Event(t, "turn.started", None) BY <1>3 DEF Started
    <2> QED BY <1>1, <2>1, EventFits
  <1>4. ASSUME NEW t \in Turn, Complete(t) PROVE FeedFits(u)'
    <2>1. Event(t, "turn.completed", turn[t].status) BY <1>4 DEF Complete
    <2>2. turn[t].status \in Statuses BY <1>1 DEF TypeOK, Locals
    <2> QED BY <1>1, <2>1, <2>2, EventFits
  <1>5. ASSUME NEW t \in Turn, Remember(t) PROVE FeedFits(u)'
    <2>1. Event(t, "memory.updated", None) BY <1>5 DEF Remember
    <2> QED BY <1>1, <2>1, EventFits
  <1>6. ASSUME NEW t \in Turn, NEW c \in Call, StartTool(t, c) \/ FinishTool(t, c)
        PROVE  FeedFits(u)'
    <2>1. \E kind \in {"tool.started", "tool.finished"} : Event(t, kind, c)
      BY <1>6 DEF StartTool, FinishTool
    <2> QED BY <1>1, <2>1, EventFits
  <1>7. ASSUME NEW t \in Turn, HostStep(t) PROVE FeedFits(u)'
    BY <1>2, <1>3, <1>4, <1>7
    DEF HostStep, Load, OpenTurn, StartRuntime, Extracted, Settle, Release
  <1>8. ASSUME NEW t \in Turn,
               \/ \E h \in Host : Begin(t, h) \/ LeaseFails(t, h)
               \/ Refuse(t) \/ FollowThrough(t) \/ Judge(t) \/ Cancel(t) \/ Crash(t)
        PROVE  UNCHANGED <<feed, log>>
    BY <1>8 DEF Begin, LeaseFails, Refuse, FollowThrough, Judge, Cancel, Crash
  <1>9. ASSUME NEW t \in Turn, NEW c \in Call, CallTool(t, c) \/ ToolStep(t, c)
        PROVE  FeedFits(u)'
    BY <1>2, <1>6, <1>9 DEF CallTool, ToolStep, EnterTool
  <1>10. CASE Tick BY <1>2, <1>10 DEF Tick
  <1>11. CASE UNCHANGED vars BY <1>2, <1>11 DEF vars
  <1> QED BY <1>2, <1>5, <1>7, <1>8, <1>9, <1>10, <1>11 DEF Next

\* Whatever the store does, a turn's stored events are numbered from one with
\* no gap (turn.event, host.go:165-185).
THEOREM EventsAreGapless == Spec => []LogIsGapless
  <1>1. Init => \A u \in Turn : FeedFits(u) BY DEF Init, FeedFits
  <1>2. (\A u \in Turn : FeedFits(u)) => LogIsGapless BY DEF FeedFits, LogIsGapless
  <1> QED BY <1>1, <1>2, NextFeed, TurnInvariance, PTL DEF Spec

-----------------------------------------------------------------------------
(* What is recorded of a turn, what is announced of it and what is saved.   *)

\* An event adds at most its own row, and does add it unless it is lost.
LEMMA EventRows ==
  ASSUME TypeOK, NEW t \in Turn, NEW kind \in EventKinds,
         NEW of \in Call \union Statuses \union {None}, Event(t, kind, of)
  PROVE  /\ \A u \in Turn : \A k, o : Logged(u, k, o) => Logged(u, k, o)'
         /\ \A u \in Turn : \A k, o : Logged(u, k, o)' =>
               Logged(u, k, o) \/ (u = t /\ k = kind /\ o = of)
         /\ \A u \in Turn : ~feed'[u].lost => ~feed[u].lost
         /\ ~feed[t].lost /\ ~feed'[t].lost => Logged(t, kind, of)'
  <1> DEFINE n == feed[t].seq + 1
             row == [seq |-> n, kind |-> kind, of |-> of]
             stored == Append(log[t], row)
  <1>1. /\ feed \in [Turn -> [seq : Nat, lost : BOOLEAN]]
        /\ log \in [Turn -> Seq(Row)]
    BY DEF TypeOK
  <1>2. row \in Row
    <2>1. n \in Nat BY <1>1
    <2> HIDE DEF n
    <2> QED BY <2>1 DEF Row
  <1>3. /\ Len(stored) = Len(log[t]) + 1 /\ Len(log[t]) \in Nat
        /\ stored[Len(log[t]) + 1] = row
        /\ \A i \in 1..Len(log[t]) : stored[i] = log[t][i]
    BY <1>1, <1>2
  <1>4. row.kind = kind /\ row.of = of OBVIOUS
  <1>5. /\ \A u \in Turn : u # t => log'[u] = log[u] /\ feed'[u] = feed[u]
        /\ log'[t] \in {log[t], stored}
        /\ ~feed'[t].lost => ~feed[t].lost
        /\ ~feed[t].lost /\ ~feed'[t].lost => log'[t] = stored
    BY <1>1 DEF Event
  <1> HIDE DEF row, stored
  <1>6. ASSUME log'[t] = stored, NEW k, NEW o
        PROVE  Logged(t, k, o)' <=> Logged(t, k, o) \/ (k = kind /\ o = of)
    <2>1. Logged(t, k, o)' => Logged(t, k, o) \/ (k = kind /\ o = of)
      <3>1. \A i \in 1..(Len(log[t]) + 1) : i = Len(log[t]) + 1 \/ i \in 1..Len(log[t])
        BY <1>3
      <3> QED BY <1>3, <1>4, <1>6, <3>1 DEF Logged
    <2>2. \A i \in 1..Len(log[t]) : i \in 1..Len(stored) BY <1>3
    <2>3. Len(log[t]) + 1 \in 1..Len(stored) BY <1>3
    <2>4. Logged(t, k, o) => Logged(t, k, o)' BY <1>3, <1>6, <2>2 DEF Logged
    <2>5. k = kind /\ o = of => Logged(t, k, o)' BY <1>3, <1>4, <1>6, <2>3 DEF Logged
    <2> QED BY <2>1, <2>4, <2>5
  <1>7. ASSUME NEW u \in Turn, log'[u] = log[u], NEW k, NEW o
        PROVE  Logged(u, k, o)' <=> Logged(u, k, o)
    BY <1>7 DEF Logged
  <1>8. \A u \in Turn : \A k, o : Logged(u, k, o) => Logged(u, k, o)' BY <1>5, <1>6, <1>7
  <1>9. \A u \in Turn : \A k, o : Logged(u, k, o)' =>
            Logged(u, k, o) \/ (u = t /\ k = kind /\ o = of)
    BY <1>5, <1>6, <1>7
  <1> QED BY <1>5, <1>6, <1>8, <1>9

\* The actions that store an event.
EventStep(t) ==
    \/ Started(t) \/ Remember(t) \/ Complete(t)
    \/ \E c \in Call : StartTool(t, c) \/ FinishTool(t, c)

LEMMA OtherRows ==
  ASSUME [Next]_vars
  PROVE  (\E t \in Turn : EventStep(t)) \/ UNCHANGED <<feed, log>>
  <1>1. ASSUME NEW t \in Turn, HostStep(t) PROVE EventStep(t) \/ UNCHANGED <<feed, log>>
    BY <1>1 DEF HostStep, EventStep, Load, OpenTurn, StartRuntime, Extracted, Settle, Release
  <1>2. ASSUME NEW t \in Turn,
               \/ \E h \in Host : Begin(t, h) \/ LeaseFails(t, h)
               \/ Refuse(t) \/ FollowThrough(t) \/ Judge(t) \/ Cancel(t) \/ Crash(t)
        PROVE  UNCHANGED <<feed, log>>
    BY <1>2 DEF Begin, LeaseFails, Refuse, FollowThrough, Judge, Cancel, Crash
  <1>3. ASSUME NEW t \in Turn, NEW c \in Call, CallTool(t, c) \/ ToolStep(t, c)
        PROVE  EventStep(t) \/ UNCHANGED <<feed, log>>
    BY <1>3 DEF CallTool, ToolStep, EnterTool, EventStep
  <1>4. CASE Tick BY <1>4 DEF Tick
  <1>5. CASE UNCHANGED vars BY <1>5 DEF vars
  <1>6. \A t \in Turn : Remember(t) => EventStep(t) BY DEF EventStep
  <1> QED BY <1>1, <1>2, <1>3, <1>4, <1>5, <1>6 DEF Next

\* Stored rows stay; only Complete adds a turn.completed, of the turn's own status.
Follows(u) ==
    /\ \A k, o : Logged(u, k, o) => Logged(u, k, o)'
    /\ ~feed'[u].lost => ~feed[u].lost
    /\ \A o : Logged(u, "turn.completed", o)' =>
          \/ Logged(u, "turn.completed", o)
          \/ Complete(u) /\ o = turn[u].status

LEMMA RowsStay ==
  ASSUME TypeOK, [Next]_vars, NEW u \in Turn
  PROVE  Follows(u)
  <1>1. CASE UNCHANGED <<feed, log>> BY <1>1 DEF Follows, Logged
  <1>2. ASSUME NEW t \in Turn, EventStep(t)
        PROVE  Follows(u)
    <2>1. {"turn.started", "tool.started", "tool.finished", "memory.updated",
           "turn.completed"} = EventKinds
      BY DEF EventKinds
    <2>2. turn[t].status \in Statuses BY DEF TypeOK, Locals
    <2>3. CASE Complete(t)
      <3>1. Event(t, "turn.completed", turn[t].status) BY <2>3 DEF Complete
      <3>2. "turn.completed" \in EventKinds BY <2>1
      <3> QED BY <2>2, <2>3, <3>1, <3>2, EventRows DEF Follows
    <2>4. ASSUME NEW kind \in EventKinds \ {"turn.completed"},
                 NEW of \in Call \union Statuses \union {None}, Event(t, kind, of)
          PROVE  Follows(u)
      BY <2>4, EventRows DEF Follows
    <2>5. CASE Started(t) \/ Remember(t)
      <3>1. Event(t, "turn.started", None) \/ Event(t, "memory.updated", None)
        BY <2>5 DEF Started, Remember
      <3> QED BY <2>1, <2>4, <3>1
    <2>6. ASSUME NEW c \in Call, StartTool(t, c) \/ FinishTool(t, c) PROVE Follows(u)
      <3>1. Event(t, "tool.started", c) \/ Event(t, "tool.finished", c)
        BY <2>6 DEF StartTool, FinishTool
      <3> QED BY <2>1, <2>4, <3>1
    <2> QED BY <1>2, <2>3, <2>5, <2>6 DEF EventStep
  <1> QED BY <1>1, <1>2, OtherRows

\* Calls change by tool steps only, which happen before the verdict.
LEMMA CallsStay ==
  ASSUME TypeOK, [Next]_vars, NEW u \in Turn
  PROVE  \/ call'[u] = call[u]
         \/ \E c \in Call : CallTool(u, c) \/ ToolStep(u, c)
  <1>1. ASSUME NEW t \in Turn,
               \/ \E h \in Host : Begin(t, h) \/ LeaseFails(t, h)
               \/ HostStep(t) \/ Refuse(t) \/ FollowThrough(t) \/ Judge(t)
               \/ Remember(t) \/ Cancel(t) \/ Crash(t)
        PROVE  UNCHANGED call
    BY <1>1 DEF Begin, LeaseFails, HostStep, Load, OpenTurn, Started, StartRuntime,
                Extracted, Settle, Complete, Release, Refuse, FollowThrough, Judge,
                Remember, Cancel, Crash
  <1>2. ASSUME NEW t \in Turn, NEW c \in Call, CallTool(t, c) \/ ToolStep(t, c)
        PROVE  u = t \/ call'[u] = call[u]
    BY <1>2 DEF TypeOK, CallTool, ToolStep, EnterTool, StartTool, FinishTool
  <1>3. CASE Tick BY <1>3 DEF Tick
  <1>4. CASE UNCHANGED vars BY <1>4 DEF vars
  <1> QED BY <1>1, <1>2, <1>3, <1>4 DEF Next

LEMMA RecordedStays ==
  ASSUME TypeOK, [Next]_vars, NEW u \in Turn, Recorded(u),
         turn[u].pc \notin {"grounding", "thinking"}
  PROVE  Recorded(u)'
  <1>1. call'[u] = call[u]
    BY CallsStay DEF CallTool, ToolStep, EnterTool, StartTool, FinishTool, At
  <1>2. \A k, o : Logged(u, k, o) => Logged(u, k, o)' BY RowsStay DEF Follows
  <1> QED BY <1>1, <1>2 DEF Recorded

LEMMA ToolsKeep ==
  ASSUME TypeOK, [Next]_vars, NEW u \in Turn, ToolsFit(u)
  PROVE  ToolsFit(u)'
  <1>1. /\ \A k, o : Logged(u, k, o) => Logged(u, k, o)'
        /\ ~feed'[u].lost => ~feed[u].lost
    BY RowsStay DEF Follows
  <1>2. CASE call'[u] = call[u] BY <1>1, <1>2 DEF ToolsFit
  <1>3. ASSUME NEW c \in Call, CallTool(u, c) \/ ToolStep(u, c)
        PROVE  ToolsFit(u)'
    <2>1. call[u] \in [Call -> Stages] /\ call \in [Turn -> [Call -> Stages]] BY DEF TypeOK
    <2>2. ASSUME NEW s \in Stages, call' = [call EXCEPT ![u][c] = s],
                 s \in {"running", "done"} /\ ~feed'[u].lost => Logged(u, "tool.started", c)',
                 s = "done" /\ ~feed'[u].lost => Logged(u, "tool.finished", c)'
          PROVE  ToolsFit(u)'
      <3>1. \A d \in Call : call'[u][d] = IF d = c THEN s ELSE call[u][d] BY <2>1, <2>2
      <3> QED BY <1>1, <2>2, <3>1 DEF ToolsFit
    <2>3. CASE CallTool(u, c) BY <2>2, <2>3 DEF CallTool, Stages
    <2>4. CASE EnterTool(u, c)
      <3>1. \/ call' = [call EXCEPT ![u][c] = "entered"]
            \/ call' = [call EXCEPT ![u][c] = "refused"]
        BY <2>4 DEF EnterTool
      <3> QED BY <2>2, <3>1 DEF Stages
    <2>5. CASE StartTool(u, c)
      <3>1. Event(u, "tool.started", c) /\ call' = [call EXCEPT ![u][c] = "running"]
        BY <2>5 DEF StartTool
      <3>2. ~feed'[u].lost => Logged(u, "tool.started", c)'
        BY <1>1, <3>1, EventRows DEF EventKinds
      <3> QED BY <2>2, <3>1, <3>2 DEF Stages
    <2>6. CASE FinishTool(u, c)
      <3>1. /\ Event(u, "tool.finished", c) /\ call' = [call EXCEPT ![u][c] = "done"]
            /\ call[u][c] = "running"
        BY <2>6 DEF FinishTool
      <3>2. ~feed'[u].lost => Logged(u, "tool.finished", c)'
        BY <1>1, <3>1, EventRows DEF EventKinds
      <3>3. ~feed'[u].lost => Logged(u, "tool.started", c)'
        BY <1>1, <3>1 DEF ToolsFit
      <3> QED BY <2>2, <3>1, <3>2, <3>3 DEF Stages
    <2> QED BY <1>3, <2>3, <2>4, <2>5, <2>6 DEF ToolStep
  <1> QED BY <1>2, <1>3, CallsStay

\* How turn u moves, as far as its outcome is concerned.
Stays(u) ==
    /\ turn'[u].pc = turn[u].pc \/ (turn[u].pc = "extracting" /\ turn'[u].pc = "saving")
    /\ turn'[u].status = turn[u].status /\ turn'[u].result = turn[u].result
GoesOn(u) ==
    /\ turn[u].pc \in Fresh \union Opened /\ turn'[u].pc \in Fresh \union Opened
    /\ turn'[u].result = turn[u].result
IsJudged(u) == Judge(u) /\ turn'[u].pc \in Judged /\ turn'[u].result = turn[u].result
IsSettled(u) ==
    /\ Settle(u) /\ turn'[u].pc = "completing"
    /\ session'.messages = Append(turn[u].prior, [turn |-> u, status |-> turn[u].status])
    /\ turn'[u].status = turn[u].status /\ turn'[u].result = turn[u].result
IsCompleted(u) ==
    /\ Complete(u) /\ turn'[u].pc = "releasing"
    /\ turn'[u].result = "ok" => ~feed'[u].lost
Leaves(u) ==
    /\ turn'[u].pc \in {"releasing", "over", "dead"}
    /\ turn'[u].result \in {"none", "error", turn[u].result}

MovesOn(u) ==
    Stays(u) \/ GoesOn(u) \/ IsJudged(u) \/ IsSettled(u) \/ IsCompleted(u) \/ Leaves(u)

LEMMA OpeningMoves ==
  ASSUME IInv, NEW t \in Turn,
         \/ \E h \in Host : Begin(t, h) \/ LeaseFails(t, h)
         \/ \E b \in Binding : Load(t, b)
         \/ OpenTurn(t) \/ Started(t) \/ StartRuntime(t) \/ Refuse(t)
  PROVE  (\A u \in Turn : u # t => turn'[u] = turn[u]) /\ (GoesOn(t) \/ Leaves(t))
  <1> USE DEF Fresh, Opened, GoesOn, Leaves
  <1>1. turn[t] \in Locals /\ turn \in [Turn -> Locals] BY DEF IInv, TypeOK
  <1>2. ASSUME NEW h \in Host, Begin(t, h)
        PROVE  (\A u \in Turn : u # t => turn'[u] = turn[u]) /\ GoesOn(t)
    BY <1>1, <1>2 DEF Begin, At, Locals
  <1>3. ASSUME NEW h \in Host, LeaseFails(t, h)
        PROVE  (\A u \in Turn : u # t => turn'[u] = turn[u]) /\ Leaves(t)
    BY <1>1, <1>3 DEF LeaseFails, Blank
  <1>4. ASSUME NEW b \in Binding, Load(t, b)
        PROVE  (\A u \in Turn : u # t => turn'[u] = turn[u]) /\ GoesOn(t)
    <2> DEFINE kept == IF KeepsCheckpoint(b) THEN session.checkpoint ELSE NoCheckpoint
    <2>1. turn' = [turn EXCEPT ![t] = [@ EXCEPT !.pc = "loaded", !.bind = b,
                        !.prior = session.messages, !.checkpoint = kept]]
      BY <1>4 DEF Load
    <2>2. turn[t].pc = "leased" BY <1>4 DEF Load, At
    <2> HIDE DEF kept
    <2> QED BY <1>1, <2>1, <2>2 DEF Locals
  <1>5. ASSUME Return(t, "error")
        PROVE  (\A u \in Turn : u # t => turn'[u] = turn[u]) /\ Leaves(t)
    BY <1>1, <1>5 DEF Return, Blank
  <1>6. CASE OpenTurn(t) \/ Started(t) \/ StartRuntime(t)
    <2>1. /\ turn[t].pc \in {"loaded", "opened", "grounding"}
          /\ Return(t, "error") \/ \E point \in Opened : Goto(t, point)
      BY <1>6 DEF OpenTurn, Started, StartRuntime, At
    <2>2. ASSUME NEW point \in Opened, Goto(t, point)
          PROVE  (\A u \in Turn : u # t => turn'[u] = turn[u]) /\ GoesOn(t)
      BY <1>1, <2>1, <2>2 DEF Goto, Locals
    <2> QED BY <1>5, <2>1, <2>2
  <1>7. CASE Refuse(t) BY <1>5, <1>7 DEF Refuse
  <1> QED BY <1>2, <1>3, <1>4, <1>6, <1>7

LEMMA JudgedMoves ==
  ASSUME IInv, NEW t \in Turn, Judge(t)
  PROVE  /\ \A u \in Turn : u # t => turn'[u] = turn[u]
         /\ IsJudged(t)
         /\ turn'[t].status = "completed" => ~feed[t].lost
  <1>1. turn[t] \in Locals /\ turn \in [Turn -> Locals] BY DEF IInv, TypeOK
  <1>2. PICK answer \in LastAnswers(t) :
           LET status == Verdict(t, answer)
               broken == answer.broken \/ feed[t].lost
               judged == [turn[t] EXCEPT
                   !.status = status, !.broken = broken,
                   !.checkpoint = IF status = "completed"
                                  THEN [by |-> turn[t].bind,
                                        turns |-> Append(Context(t), t)]
                                  ELSE NoCheckpoint]
           IN turn' = [turn EXCEPT ![t] =
                  IF Captures /\ ~broken THEN ToExtract(judged) ELSE ToSave(judged)]
    BY DEF Judge
  <1> DEFINE status == Verdict(t, answer)
             broken == answer.broken \/ feed[t].lost
             own == IF status = "completed"
                    THEN [by |-> turn[t].bind, turns |-> Append(Context(t), t)]
                    ELSE NoCheckpoint
             judged == [turn[t] EXCEPT !.status = status, !.broken = broken,
                                       !.checkpoint = own]
             r == IF Captures /\ ~broken THEN ToExtract(judged) ELSE ToSave(judged)
  <1>3. turn' = [turn EXCEPT ![t] = r] BY <1>2
  <1>4. status = "completed" => ~feed[t].lost BY DEF Verdict
  <1>5. judged.status = status /\ judged.result = turn[t].result
    <2> HIDE DEF status, broken, own
    <2> QED BY <1>1 DEF Locals
  <1>6. /\ r.pc \in {"extracting", "saving"}
        /\ r.status = judged.status /\ r.result = judged.result
    <2>1. DOMAIN judged = DOMAIN turn[t] OBVIOUS
    <2> HIDE DEF judged, broken
    <2> QED BY <1>1, <2>1 DEF ToExtract, ToSave, Locals
  <1> HIDE DEF r, judged, status
  <1>7. turn'[t] = r /\ \A u \in Turn : u # t => turn'[u] = turn[u] BY <1>1, <1>3
  <1> QED BY <1>4, <1>5, <1>6, <1>7 DEF IsJudged, Judged

LEMMA ClosingMoves ==
  ASSUME IInv, NEW t \in Turn,
         \/ FollowThrough(t) \/ Extracted(t) \/ Settle(t) \/ Complete(t) \/ Release(t)
         \/ Cancel(t) \/ Crash(t)
  PROVE  (\A u \in Turn : u # t => turn'[u] = turn[u])
         /\ (Stays(t) \/ IsSettled(t) \/ IsCompleted(t) \/ Leaves(t))
  <1> USE DEF Stays, IsSettled, IsCompleted, Leaves
  <1>1. turn[t] \in Locals /\ turn \in [Turn -> Locals] BY DEF IInv, TypeOK
  <1>2. CASE FollowThrough(t) \/ Cancel(t)
    BY <1>1, <1>2 DEF FollowThrough, Cancel, Locals
  <1>3. CASE Extracted(t)
    <2>1. turn' = [turn EXCEPT ![t] = ToSave(turn[t])] /\ turn[t].pc = "extracting"
      BY <1>3 DEF Extracted, At
    <2> QED BY <1>1, <2>1 DEF ToSave, Locals
  <1>4. ASSUME Return(t, "error")
        PROVE  (\A u \in Turn : u # t => turn'[u] = turn[u]) /\ Leaves(t)
    BY <1>1, <1>4 DEF Return, Blank
  <1>5. CASE Settle(t)
    <2>1. CASE SaveSession(t, turn[t].status) /\ Goto(t, "completing")
      <3>1. session'.messages = Append(turn[t].prior, [turn |-> t, status |-> turn[t].status])
        BY <2>1 DEF SaveSession, Saved
      <3>2. turn' = [turn EXCEPT ![t].pc = "completing"] BY <2>1 DEF Goto
      <3> QED BY <1>1, <1>5, <3>1, <3>2 DEF Locals
    <2> QED BY <1>4, <1>5, <2>1 DEF Settle
  <1>6. CASE Complete(t)
    <2>1. Return(t, IF turn[t].broken \/ feed'[t].lost THEN "error" ELSE "ok")
      BY <1>6 DEF Complete
    <2> QED BY <1>1, <1>6, <2>1 DEF Return, Blank
  <1>7. CASE Release(t)
    <2>1. turn' = [turn EXCEPT ![t].pc = "over"] BY <1>7 DEF Release, Goto
    <2> QED BY <1>1, <2>1 DEF Locals
  <1>8. CASE Crash(t) BY <1>1, <1>8 DEF Crash, Blank
  <1> QED BY <1>2, <1>3, <1>5, <1>6, <1>7, <1>8

LEMMA TurnMoves ==
  ASSUME IInv, [Next]_vars, NEW u \in Turn
  PROVE  MovesOn(u)
  <1>1. turn'[u] = turn[u] => Stays(u) BY DEF Stays
  <1>2. ASSUME NEW t \in Turn, HostStep(t) \/ Refuse(t) \/ FollowThrough(t)
                               \/ Cancel(t) \/ Crash(t)
                               \/ \E h \in Host : Begin(t, h) \/ LeaseFails(t, h)
        PROVE  MovesOn(u)
    BY <1>1, <1>2, OpeningMoves, ClosingMoves DEF HostStep, MovesOn
  <1>3. ASSUME NEW t \in Turn, Judge(t) PROVE MovesOn(u)
    BY <1>1, <1>3, JudgedMoves DEF MovesOn
  <1>4. ASSUME NEW t \in Turn, Remember(t) PROVE MovesOn(u)
    BY <1>1, <1>4 DEF Remember, MovesOn
  <1>5. ASSUME NEW t \in Turn, NEW c \in Call, CallTool(t, c) \/ ToolStep(t, c)
        PROVE  MovesOn(u)
    BY <1>1, <1>5 DEF CallTool, ToolStep, EnterTool, StartTool, FinishTool, MovesOn
  <1>6. CASE Tick
    <2>1. turn[u] \in Locals BY DEF IInv, TypeOK
    <2>2. /\ Elapse(turn[u]).pc = turn[u].pc
          /\ Elapse(turn[u]).status = turn[u].status
          /\ Elapse(turn[u]).result = turn[u].result
      BY <2>1 DEF Elapse, Locals
    <2>3. turn'[u] \in {turn[u], Elapse(turn[u])} BY <1>6 DEF Tick
    <2> QED BY <2>2, <2>3 DEF Stays, MovesOn
  <1>7. CASE UNCHANGED vars BY <1>1, <1>7 DEF vars, MovesOn
  <1> QED BY <1>2, <1>3, <1>4, <1>5, <1>6, <1>7 DEF Next

\* A turn that is settled in the session stays so.
LEMMA StoredStays ==
  ASSUME IInv, [Next]_vars, NEW u \in Turn, NEW status \in Final, Stored(u, status)
  PROVE  Stored(u, status)'
  <1> DEFINE m == session.messages
             row == [turn |-> u, status |-> status]
  <1>1. m \in Seq(Message) BY DEF IInv, TypeOK
  <1>2. status # "running" BY DEF Final, Ledger!Final
  <1>3. PICK i \in 1..Len(m) : m[i] = row BY DEF Stored
  <1>4. CASE UNCHANGED session.messages BY <1>4 DEF Stored
  <1>5. ASSUME NEW t \in Turn, Ledger!Open(t) PROVE Stored(u, status)'
    <2> DEFINE new == [turn |-> t, status |-> "running"]
    <2>1. m' = Append(m, new) BY <1>5 DEF Ledger!Open
    <2>2. new \in Message BY DEF Message, Statuses
    <2> HIDE DEF m, new
    <2>3. i \in 1..Len(m') /\ m'[i] = m[i] BY <1>1, <2>1, <2>2
    <2> QED BY <1>3, <2>3 DEF Stored, m
  <1>6. ASSUME NEW t \in Turn, NEW new \in Ledger!Final, Ledger!Settle(t, new)
        PROVE  Stored(u, status)'
    <2> DEFINE last == Len(m)
    <2>1. m[last].status = "running" /\ m' = [m EXCEPT ![last].status = new]
      BY <1>6 DEF Ledger!Settle
    <2>2. i # last BY <1>2, <1>3, <2>1
    <2> HIDE DEF m
    <2>3. Len(m') = Len(m) /\ m'[i] = m[i] BY <1>1, <2>1, <2>2
    <2> QED BY <1>3, <2>3 DEF Stored, m
  <1> QED BY <1>4, <1>5, <1>6, NextLedger DEF Ledger!Next

\* A turn becomes completed in the session only by its own last save.
LEMMA NewlyStored ==
  ASSUME IInv, [Next]_vars, NEW u \in Turn, Stored(u, "completed")', ~Stored(u, "completed")
  PROVE  Settle(u) /\ turn[u].status = "completed"
  <1>1. ASSUME NEW t \in Turn, NEW status \in Statuses, session' = Saved(t, status),
               turn[t].pc \in {"loaded", "saving"}
        PROVE  u = t /\ status = "completed"
    <2> DEFINE prior == turn[t].prior
               m == session.messages
               row == [turn |-> t, status |-> status]
               opened == [turn |-> t, status |-> "running"]
    <2>1. prior \in Seq(Message) /\ row \in Message /\ opened \in Message /\ LocalFits(t)
      BY DEF IInv, TypeOK, Locals, Message, Statuses
    <2>2. m' = Append(prior, row) BY <1>1 DEF Saved
    <2>3. m = prior \/ m = Append(prior, opened) BY <1>1, <2>1 DEF LocalFits, Judged
    <2>4. PICK i \in 1..Len(m') : m'[i] = [turn |-> u, status |-> "completed"]
      BY DEF Stored
    <2>5. \A j \in 1..Len(prior) : m[j] # [turn |-> u, status |-> "completed"]
      <3> HIDE DEF opened, prior, m
      <3>1. \A j \in 1..Len(prior) : j \in 1..Len(m) /\ m[j] \in {m[j]} BY <2>1, <2>3
      <3> QED BY <3>1 DEF Stored, m
    <2>6. \A j \in 1..Len(prior) : m'[j] = prior[j] /\ m[j] = prior[j]
      <3> HIDE DEF opened, prior, m, row
      <3> QED BY <2>1, <2>2, <2>3
    <2>7. i = Len(prior) + 1 /\ m'[i] = row
      <3> HIDE DEF opened, prior, m, row
      <3> QED BY <2>1, <2>2, <2>4, <2>5, <2>6
    <2> QED BY <2>4, <2>7
  <1>2. ~UNCHANGED session BY DEF Stored
  <1>3. ASSUME NEW t \in Turn, OpenTurn(t) PROVE FALSE
    <2>1. session' = Saved(t, "running") /\ turn[t].pc = "loaded"
      BY <1>2, <1>3 DEF OpenTurn, At, SaveSession, SaveFails
    <2> QED BY <1>1, <2>1 DEF Statuses
  <1>4. ASSUME NEW t \in Turn, Settle(t) PROVE Settle(u) /\ turn[u].status = "completed"
    <2>1. session' = Saved(t, turn[t].status) /\ turn[t].pc = "saving"
      BY <1>2, <1>4 DEF Settle, At, SaveSession, SaveFails
    <2>2. turn[t].status \in Statuses BY DEF IInv, TypeOK, Locals
    <2> QED BY <1>1, <1>4, <2>1, <2>2
  <1>5. \E t \in Turn : OpenTurn(t) \/ Settle(t)
    <2>1. ASSUME NEW t \in Turn, HostStep(t) PROVE OpenTurn(t) \/ Settle(t)
      BY <1>2, <2>1 DEF HostStep, Load, Started, StartRuntime, Extracted, Complete, Release
    <2>2. ASSUME NEW t \in Turn,
                 \/ \E h \in Host : Begin(t, h) \/ LeaseFails(t, h)
                 \/ Refuse(t) \/ FollowThrough(t) \/ Judge(t)
                 \/ Remember(t) \/ Cancel(t) \/ Crash(t)
          PROVE  FALSE
      BY <1>2, <2>2 DEF Begin, LeaseFails, Refuse, FollowThrough, Judge, Remember, Cancel, Crash
    <2>3. ASSUME NEW t \in Turn, NEW c \in Call, CallTool(t, c) \/ ToolStep(t, c)
          PROVE  FALSE
      BY <1>2, <2>3 DEF CallTool, ToolStep, EnterTool, StartTool, FinishTool
    <2>4. ~Tick BY <1>2 DEF Tick
    <2> QED BY <1>2, <2>1, <2>2, <2>3, <2>4 DEF Next, vars
  <1> QED BY <1>3, <1>4, <1>5

LEMMA OutcomeKeeps ==
  ASSUME IInv, [Next]_vars, NEW u \in Turn, OutcomeFits(u)
  PROVE  OutcomeFits(u)'
  <1>1. /\ TypeOK /\ LocalFits(u) /\ MovesOn(u) /\ Follows(u)
        /\ ToolsFit(u) /\ VerdictFits(u) /\ AnnouncingFits(u) /\ ClosedFits(u)
        /\ Announced(u) /\ Ended(u)
    BY TurnMoves, RowsStay DEF IInv, OutcomeFits
  <1>2. ToolsFit(u)' BY <1>1, ToolsKeep
  <1>3. VerdictFits(u)'
    <2>1. CASE Stays(u)
      BY <1>1, <2>1, RecordedStays DEF Stays, VerdictFits, Judged
    <2>2. CASE IsJudged(u)
      <3>1. /\ turn[u].pc = "thinking" /\ Quiet(u) /\ UNCHANGED <<call, log>>
            /\ turn'[u].status = "completed" => ~feed[u].lost
        BY <2>2, JudgedMoves DEF IsJudged, Judge, At
      <3>2. ~feed[u].lost => Recorded(u) BY <1>1, <3>1 DEF ToolsFit, Recorded, Quiet
      <3>3. Recorded(u) => Recorded(u)' BY <3>1 DEF Recorded, Logged
      <3> QED BY <3>1, <3>2, <3>3 DEF VerdictFits
    <2>3. CASE GoesOn(u) \/ IsSettled(u) \/ IsCompleted(u) \/ Leaves(u)
      BY <2>3 DEF GoesOn, IsSettled, IsCompleted, Leaves, VerdictFits, Judged, Fresh, Opened
    <2> QED BY <1>1, <2>1, <2>2, <2>3 DEF MovesOn
  <1>4. AnnouncingFits(u)'
    <2>1. CASE Stays(u) BY <1>1, <2>1, StoredStays DEF Stays, AnnouncingFits
    <2>2. CASE IsSettled(u)
      <3> DEFINE prior == turn[u].prior
                 row == [turn |-> u, status |-> turn[u].status]
      <3>1. /\ prior \in Seq(Message) /\ row \in Message
            /\ session'.messages = Append(prior, row)
        BY <1>1, <2>2 DEF IsSettled, TypeOK, Locals, Message
      <3>2. turn'[u].status = turn[u].status /\ turn[u].status \in Final
        BY <1>1, <2>2 DEF IsSettled, Settle, At, LocalFits, Judged
      <3> HIDE DEF prior, row
      <3>3. /\ Len(prior) + 1 \in 1..Len(session'.messages)
            /\ session'.messages[Len(prior) + 1] = row
        BY <3>1
      <3> QED BY <3>2, <3>3 DEF AnnouncingFits, Stored, row
    <2>3. CASE GoesOn(u) \/ IsJudged(u) \/ IsCompleted(u) \/ Leaves(u)
      BY <2>3 DEF GoesOn, IsJudged, IsCompleted, Leaves, AnnouncingFits, Judged, Fresh, Opened
    <2> QED BY <1>1, <2>1, <2>2, <2>3 DEF MovesOn
  <1>5. ClosedFits(u)'
    <2>1. CASE Stored(u, "completed")
      <3>1. turn[u].pc \notin Fresh \union Opened /\ Recorded(u) BY <1>1, <2>1 DEF ClosedFits
      <3>2. Recorded(u)' BY <1>1, <3>1, RecordedStays DEF Opened
      <3>3. turn'[u].pc \notin Fresh \union Opened
        BY <1>1, <3>1 DEF MovesOn, Stays, GoesOn, IsJudged, IsSettled, IsCompleted, Leaves,
                          Judged, Fresh, Opened
      <3> QED BY <3>2, <3>3 DEF ClosedFits
    <2>2. CASE Stored(u, "completed")' /\ ~Stored(u, "completed")
      <3>1. turn[u].pc = "saving" /\ turn[u].status = "completed"
        BY <2>2, NewlyStored DEF Settle, At
      <3>2. Recorded(u)' BY <1>1, <3>1, RecordedStays DEF VerdictFits, Judged
      <3>3. turn'[u].pc \notin Fresh \union Opened
        BY <1>1, <3>1 DEF MovesOn, Stays, GoesOn, IsJudged, IsSettled, IsCompleted, Leaves,
                          Judged, Fresh, Opened
      <3> QED BY <3>2, <3>3 DEF ClosedFits
    <2> QED BY <2>1, <2>2 DEF ClosedFits
  <1>6. Announced(u)'
    <2> SUFFICES ASSUME NEW status \in Final, Logged(u, "turn.completed", status)'
                 PROVE  Stored(u, status)'
      BY DEF Announced
    <2>1. CASE Logged(u, "turn.completed", status)
      BY <1>1, <2>1, StoredStays DEF Announced
    <2>2. CASE Complete(u) /\ status = turn[u].status
      <3>1. Stored(u, status) BY <1>1, <2>2 DEF AnnouncingFits, Complete, At
      <3> QED BY <3>1, StoredStays
    <2> QED BY <1>1, <2>1, <2>2 DEF Follows
  <1>7. Ended(u)'
    <2>1. CASE turn'[u].result \in {"none", "error", turn[u].result}
      BY <1>1, <2>1 DEF Ended, Follows
    <2>2. CASE IsCompleted(u) /\ turn'[u].result = "ok"
      <3>1. PICK status : status = turn[u].status OBVIOUS
      <3>2. status \in Final
        BY <1>1, <2>2, <3>1 DEF IsCompleted, Complete, At, AnnouncingFits
      <3>3. Event(u, "turn.completed", status) /\ ~feed'[u].lost /\ ~feed[u].lost
        BY <1>1, <2>2, <3>1 DEF IsCompleted, Complete, Follows
      <3>4. Logged(u, "turn.completed", status)'
        BY <1>1, <3>2, <3>3, EventRows DEF EventKinds, Statuses
      <3> QED BY <3>2, <3>4 DEF Ended
    <2>3. CASE IsCompleted(u) /\ turn'[u].result # "ok" BY <2>3 DEF Ended
    <2> QED BY <1>1, <2>1, <2>2, <2>3
            DEF MovesOn, Stays, GoesOn, IsJudged, IsSettled, Leaves
  <1> QED BY <1>2, <1>3, <1>4, <1>5, <1>6, <1>7 DEF OutcomeFits

\* What a turn recorded, judged, stored and announced fits its place in execute
\* through every interleaving and crash (agenthost/host.go:352-403).
THEOREM OutcomeInvariance == Spec => [](\A u \in Turn : OutcomeFits(u))
  <1>1. Init => \A u \in Turn : OutcomeFits(u)
    <2> SUFFICES ASSUME Init, NEW u \in Turn PROVE OutcomeFits(u) OBVIOUS
    <2>1. /\ turn[u].pc = "unsent" /\ turn[u].result = "none"
          /\ call[u] = [c \in Call |-> "idle"] /\ log[u] = <<>> /\ session.messages = <<>>
      BY DEF Init, Blank
    <2>2. \A k, o : ~Logged(u, k, o) BY <2>1 DEF Logged
    <2>3. \A status : ~Stored(u, status) BY <2>1 DEF Stored
    <2> QED BY <2>1, <2>2, <2>3
            DEF OutcomeFits, ToolsFit, VerdictFits, AnnouncingFits, ClosedFits, Announced,
                Ended, Judged
  <1>2. IInv /\ (\A u \in Turn : OutcomeFits(u)) /\ [Next]_vars
           => (\A u \in Turn : OutcomeFits(u))'
    BY OutcomeKeeps
  <1> QED BY <1>1, <1>2, TurnInvariance, PTL DEF Spec

\* A turn saved as completed has the start and the end of every tool it ran in its log,
\* whichever events were lost and whichever calls ran at once (execute, host.go:500-515).
THEOREM CompletedTurnsAreRecorded == Spec => []CompletedIsRecorded
  <1>1. TypeOK /\ (\A u \in Turn : OutcomeFits(u)) => CompletedIsRecorded
    <2> SUFFICES ASSUME TypeOK, \A u \in Turn : OutcomeFits(u),
                        NEW i \in 1..Len(session.messages),
                        session.messages[i].status = "completed"
                 PROVE  Recorded(session.messages[i].turn)
      BY DEF CompletedIsRecorded, Recorded
    <2>1. session.messages[i] \in Message BY DEF TypeOK
    <2>2. session.messages[i].turn \in Turn
          /\ session.messages[i] = [turn |-> session.messages[i].turn, status |-> "completed"]
      BY <2>1 DEF Message
    <2> QED BY <2>2 DEF OutcomeFits, ClosedFits, Stored
  <1> QED BY <1>1, TypeInvariance, OutcomeInvariance, PTL

\* What turn.completed says of a turn is in the session, and stays there (host.go:393-396).
THEOREM AnnouncementsAreTrue == Spec => []AnnouncedIsSaved
  <1>1. (\A u \in Turn : OutcomeFits(u)) => AnnouncedIsSaved
    BY DEF OutcomeFits, Announced, Stored, AnnouncedIsSaved
  <1> QED BY <1>1, OutcomeInvariance, PTL

\* A turn whose caller sees no error has its turn.completed in the log (host.go:397-400).
THEOREM SuccessesAreAnnounced == Spec => []SuccessIsAnnounced
  <1>1. (\A u \in Turn : OutcomeFits(u)) => SuccessIsAnnounced
    BY DEF OutcomeFits, Ended, SuccessIsAnnounced
  <1> QED BY <1>1, OutcomeInvariance, PTL
=============================================================================
