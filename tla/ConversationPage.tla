--------------------------- MODULE ConversationPage ---------------------------
(***************************************************************************)
(* Paging back through a conversation (internal/store/conversation.go,     *)
(* Store.Conversation, and the tool read_conversation of both hosts): a    *)
(* page holds the newest turns before a cursor that fit, each cut down     *)
(* until it is at most half a page, and names the cursor of the next page. *)
(* New turns are recorded while a reader pages back.  Sizes are units of   *)
(* encoded text; a turn is what it shows of its messages and of the rest   *)
(* (context, cards, tools).                                                *)
(***************************************************************************)
EXTENDS Naturals, Sequences

CONSTANTS
    Texts,     \* sizes a turn's text may have
    Rests,     \* sizes the rest of a turn may have
    Limit,     \* of a page (24 000 bytes)
    Frame,     \* what a page takes besides its turns
    PageTurns, \* turns on a page (6)
    MaxTurns,  \* bound on the length of the conversation
    None

SizeAssumption == Texts \subseteq Nat \ {0} /\ Rests \subseteq Nat
              /\ {Limit, Frame, PageTurns, MaxTurns} \subseteq Nat
\* One turn fits on a page.
RoomAssumption == PageTurns > 0 /\ Frame + (Limit \div 2) <= Limit /\ Limit >= 2
NoneAssumption == None \notin 1..MaxTurns

VARIABLES
    turns,  \* the conversation: for each turn [text, rest]
    before, \* the reader's cursor: a turn's number, None before the first page
    joined, \* history: the turns from this one on were read once and in order;
            \* 0 if two pages did not join
    shown,  \* history: what the last page showed of each of its turns
    done    \* there is no further page

vars == <<turns, before, joined, shown, done>>

Written == [text : Texts, rest : Rests]
Half == Limit \div 2

-----------------------------------------------------------------------------
(* Store.Conversation *)

Size(turn) == turn.text + turn.rest

\* A turn that is too big loses its rest, and then half of its text until it fits.
Cut(turn) ==
    LET halved[n \in 0..turn.text] == IF n > Half THEN halved[n \div 2] ELSE n
    IN  IF Size(turn) > Half
        THEN [text |-> halved[turn.text], rest |-> 0, truncated |-> TRUE]
        ELSE [text |-> turn.text, rest |-> turn.rest, truncated |-> FALSE]

\* The size of a page of turns first to last.
PageSize(first, last) ==
    LET sum[n \in 0..last] == IF n < first THEN 0 ELSE sum[n - 1] + Size(Cut(turns[n]))
    IN  Frame + sum[last]

Fits(first, last) == PageSize(first, last) <= Limit /\ last - first + 1 <= PageTurns

\* The newest turn of a page is the one before the cursor.
Last(cursor) == IF cursor = None THEN Len(turns) ELSE cursor - 1

\* Turns are added, from the newest back, up to the first that does not fit.
First(last) ==
    CHOOSE first \in 1..(last + 1) :
        /\ \A n \in first..last : Fits(n, last)
        /\ first = 1 \/ ~Fits(first - 1, last)

\* A mutant: the oldest turn has no page of its own.
CursorShort(first) == IF first > 2 THEN first ELSE None

\* The cursor of the next page, if there are older turns.
Cursor(first) == IF first > 1 THEN first ELSE None

-----------------------------------------------------------------------------
(* A reader and a conversation that goes on *)

Init ==
    /\ turns \in UNION {[1..n -> Written] : n \in 0..MaxTurns}
    /\ before = None /\ joined = Len(turns) + 1 /\ shown = <<>> /\ done = FALSE

\* A page without turns ends the walk.
ReadPage ==
    /\ ~done
    /\ LET last == Last(before)
           first == First(last)
           next == IF before = None THEN Len(turns) + 1 ELSE joined
           cursor == IF last < first THEN None ELSE Cursor(first)
       IN  /\ joined' = IF last + 1 = next THEN first ELSE 0
           /\ shown' = [i \in 1..(last - first + 1) |-> Cut(turns[first + i - 1])]
           /\ before' = cursor
           /\ done' = (cursor = None)
    /\ UNCHANGED turns

\* A turn is recorded.
Record(turn) ==
    /\ ~done /\ Len(turns) < MaxTurns
    /\ turns' = Append(turns, turn)
    /\ UNCHANGED <<before, joined, shown, done>>

Next == ReadPage \/ \E turn \in Written : Record(turn)

Spec == Init /\ [][Next]_vars

\* The reader follows the cursor.
FairSpec == Spec /\ WF_vars(ReadPage)

-----------------------------------------------------------------------------

TypeOK ==
    /\ turns \in Seq(Written) /\ Len(turns) <= MaxTurns
    /\ before \in (1..MaxTurns) \union {None}
    /\ joined \in 0..(MaxTurns + 1) /\ done \in BOOLEAN

\* Following the cursors shows every turn that was there when the walk began, once
\* and in order, whatever is recorded on the way and however big the turns are
\* (conversation.go:163).
WalkIsWhole == done => joined = 1

\* A page is never larger than the block of the prompt it goes into, which would
\* leave it out whole (prompting/compiler.go:160, agenthost/host.go:281), and each of its turns
\* still says something.
PageFits ==
    LET total[n \in 0..Len(shown)] == IF n = 0 THEN Frame ELSE total[n - 1] + shown[n].text + shown[n].rest
    IN  /\ shown # <<>> => total[Len(shown)] <= Limit
        /\ \A i \in DOMAIN shown : shown[i].text > 0

\* The walk comes to an end while turns are being recorded.
WalkEnds == <>done
=============================================================================
