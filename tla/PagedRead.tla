------------------------------ MODULE PagedRead ------------------------------
(***************************************************************************)
(* Lists and reports of TikTok that take several pages                     *)
(* (internal/tiktokmapi/backend.go, resources.go, client.go): one page     *)
(* after the other, each attempted up to three times, until a page says    *)
(* that it is the last one or the configured number of pages is reached.   *)
(* The platform is external: its listing may change between two pages,     *)
(* and it says in one of three ways how much there is.                     *)
(***************************************************************************)
EXTENDS Naturals, Sequences, FiniteSets, SequencesExt

CONSTANTS
    Item,     \* records a listing may hold
    Foreign,  \* those outside the requested parent, account or entity
    Reads,    \* kinds of reads: "list", "report", "objects"
    Totals,   \* what a page may say: "pages", "number", "nothing"
    Size,     \* records on a page (1000; 100 for objects)
    MaxPages, \* pages a read may take (20 unless configured)
    Tries,    \* attempts of a page (3)
    MaxEdits, \* changes of the listing while it is read (bounds the model)
    None

ReadAssumption ==
    /\ IsFiniteSet(Item) /\ Foreign \subseteq Item
    /\ Reads \subseteq {"list", "report", "objects"}
    /\ Totals \subseteq {"pages", "number", "nothing"}
PageAssumption == {Size, MaxPages, Tries} \subseteq Nat \ {0} /\ MaxEdits \in Nat
NoneAssumption == None \notin {"done", "failed"}

VARIABLES
    read,    \* the kind of the read
    says,    \* how the platform tells the total
    there,   \* the listing
    page,    \* the page asked for
    attempt, \* attempts of that page
    got,     \* how often each record was kept; the result is sorted in the end
    outcome, \* None, "done" or "failed"
    start,   \* history: the listing when the read began
    edits,   \* changes of the listing since
    removed  \* history: a record was removed since

vars == <<read, says, there, page, attempt, got, outcome, start, edits, removed>>

Init ==
    /\ read \in Reads /\ says \in Totals
    /\ \E items \in SUBSET Item : there = SetToSeq(items)
    /\ page = 1 /\ attempt = 1 /\ got = [r \in Item |-> 0] /\ outcome = None
    /\ start = there /\ edits = 0 /\ removed = FALSE

-----------------------------------------------------------------------------
(* What the platform answers *)

PageOf(n) == SubSeq(there, (n - 1) * Size + 1, IF n * Size < Len(there) THEN n * Size ELSE Len(there))

\* What a page says of the total; zero is the same as nothing.
PagesOf(length) == (length + Size - 1) \div Size

\* A mutant: the total of the first page counts.
TotalPageOfStart == IF says = "pages" THEN PagesOf(Len(start)) ELSE 0
TotalPage == IF says = "pages" THEN PagesOf(Len(there)) ELSE 0
TotalNumber == IF says = "number" THEN Len(there) ELSE 0

\* morePages: by the total, or by whether the page is full.
MorePages(current, count) ==
    IF TotalPage > 0 THEN current < TotalPage
    ELSE IF TotalNumber > 0 THEN current * Size < TotalNumber
    ELSE count = Size

-----------------------------------------------------------------------------
(* The read *)

End(how) == outcome' = how

\* The transport fails, or a busy or failing platform asks to come again.
Again ==
    /\ outcome = None /\ attempt < Tries
    /\ attempt' = attempt + 1
    /\ UNCHANGED <<read, says, there, page, got, outcome, start, edits, removed>>

\* The last attempt fails, or the answer is a refusal or cannot be decoded, or
\* the caller is cancelled: nothing of the other pages is returned.
Fail == outcome = None /\ End("failed") /\ UNCHANGED <<read, says, there, page, attempt, got, start, edits, removed>>

\* A report keeps the rows of its entity, other reads every record.
Keep(r) == read = "report" => r \notin Foreign

\* A list, and objects of another account, refuse the whole read.
Refuses(records) == read # "report" /\ ToSet(records) \intersect Foreign # {}

\* One page arrives.
Page ==
    /\ outcome = None
    /\ LET records == PageOf(page)
       IN  IF Refuses(records)
           THEN End("failed") /\ UNCHANGED <<page, got>>
           ELSE /\ got' = [r \in Item |->
                          IF r \in ToSet(records) /\ Keep(r) THEN got[r] + 1 ELSE got[r]]
                /\ IF ~MorePages(page, Len(records)) THEN End("done") /\ UNCHANGED page
                   ELSE IF page = MaxPages THEN End("failed") /\ UNCHANGED page
                   ELSE page' = page + 1 /\ UNCHANGED outcome
    /\ attempt' = 1
    /\ UNCHANGED <<read, says, there, start, edits, removed>>

-----------------------------------------------------------------------------
(* Others change the listing *)

Change ==
    /\ outcome = None /\ edits < MaxEdits
    /\ edits' = edits + 1
    /\ UNCHANGED <<read, says, page, attempt, got, outcome, start>>

AddRecord(r, i) ==
    /\ Change
    /\ r \notin ToSet(there) \union ToSet(start)
    /\ there' = InsertAt(there, i, r)
    /\ UNCHANGED removed

RemoveRecord(i) ==
    /\ Change
    /\ there' = RemoveAt(there, i)
    /\ removed' = TRUE

Next ==
    \/ Again \/ Fail \/ Page
    \/ \E r \in Item, i \in 1..(Len(there) + 1) : AddRecord(r, i)
    \/ \E i \in 1..Len(there) : RemoveRecord(i)

Spec == Init /\ [][Next]_vars

\* A page is asked for again at most Tries times, and the HTTP client gives up
\* after twenty seconds.
FairSpec == Spec /\ WF_vars(Again \/ Fail \/ Page)

-----------------------------------------------------------------------------

TypeOK ==
    /\ read \in Reads /\ says \in Totals
    /\ there \in Seq(Item) /\ start \in Seq(Item) /\ got \in [Item -> Nat]
    /\ page \in 1..MaxPages /\ attempt \in 1..Tries
    /\ outcome \in {None, "done", "failed"}
    /\ edits \in 0..MaxEdits /\ removed \in BOOLEAN

Mine(records) == ToSet(records) \ Foreign

\* A read of a listing that stays as it is returns it whole and once, whichever
\* way the platform tells the total and however full the last page is; a failed
\* page, or one too many, never leaves a shorter list
\* (docs/ad-backend-contract.md:111).
WholeWhenStill ==
    outcome = "done" /\ edits = 0 =>
        got = [r \in Item |-> IF r \in Mine(there) THEN 1 ELSE 0]

\* Records that are added while the pages are read displace others, which may
\* come twice, but none that was there is missed (backend.go:67, 253).
AddedHideNothing ==
    outcome = "done" /\ ~removed => \A r \in Mine(start) : got[r] > 0

\* Nothing of another parent, account or entity gets through.
NothingForeign == outcome = "done" => \A r \in Foreign : got[r] = 0

\* A read comes to an end, though every page may add to the listing.
Ends == <>(outcome # None)
=============================================================================
