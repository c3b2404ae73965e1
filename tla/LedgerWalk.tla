------------------------------ MODULE LedgerWalk ------------------------------
(***************************************************************************)
(* The listings of db/repositories.py, read page by page while rows are    *)
(* added and obligations closed: list_open_obligations, the inbox (list,   *)
(* list_filtered) and TaskRepository.list.  A client follows the cursors   *)
(* until it is given none.                                                 *)
(*                                                                         *)
(* A row becomes visible at the commit of its transaction, with the        *)
(* created_at that its process put in before: rows are numbered here by    *)
(* their commits, their stamps are in no particular order, and two rows    *)
(* may have the same.                                                      *)
(***************************************************************************)
EXTENDS Naturals, Sequences, FiniteSets, SequencesExt

CONSTANTS
    MaxRows,          \* receipts of one principal, or tasks of one tenant
    MaxStamp,
    Limit,
    CandidateFactor,  \* candidates read per obligation asked for: 3
    CandidateCap      \* and at most so many: 1000

ASSUME LedgerWalkAssumption ==
    {MaxRows, MaxStamp, Limit, CandidateFactor, CandidateCap}
        \subseteq Nat \ {0}

VARIABLES
    stamp,       \* created_at of the rows, in the order of their commits
    closed,      \* obligations with a terminator
    listing,     \* which listing the client reads
    at,          \* how far it is
    cursor,      \* where the next page starts
    candidates,  \* rows of the page whose terminators are not looked up yet
    more,        \* more_candidates
    got,         \* what the client has been given
    before,      \* what was there when it began
    cursors      \* every cursor it has used

rows   == <<stamp, closed>>
reader == <<listing, at, cursor, candidates, more, got, before, cursors>>
vars   == <<rows, reader>>

Items == DOMAIN stamp
None  == 0

Listings == {"open", "inbox", "tasks"}

CandidateLimit ==
    LET n == Limit * CandidateFactor IN IF n < CandidateCap THEN n ELSE CandidateCap

TypeOK ==
    /\ stamp \in Seq(1..MaxStamp) /\ Len(stamp) <= MaxRows
    /\ closed \subseteq Items
    /\ listing \in Listings
    /\ at \in {"idle", "paging", "filtering", "done"}
    /\ cursor \in Items \cup {None}
    /\ candidates \in Seq(Items) /\ Len(candidates) <= CandidateLimit
    /\ more \in BOOLEAN
    /\ UNION {got, before, cursors} \subseteq Items

Init ==
    /\ stamp = <<>>
    /\ closed = {}
    /\ listing \in Listings
    /\ at = "idle"
    /\ cursor = None
    /\ candidates = <<>>
    /\ more = FALSE
    /\ got = {}
    /\ before = {}
    /\ cursors = {}

----------------------------------------------------------------------------
(* Writers *)

\* ReceiptRepository.create, TaskRepository.create, as their transaction commits.
CommitRow ==
    /\ Len(stamp) < MaxRows
    /\ \E now \in 1..MaxStamp : stamp' = Append(stamp, now)
    /\ UNCHANGED <<closed, reader>>

\* A terminator is committed.
Close(r) ==
    /\ r \notin closed
    /\ closed' = closed \cup {r}
    /\ UNCHANGED <<stamp, reader>>

----------------------------------------------------------------------------
(* One query *)

BeyondOrAt(r) ==    \* mutant: >= in place of >
    cursor = None \/ IF listing = "tasks" THEN stamp[r] <= stamp[cursor]
                                           ELSE stamp[r] >= stamp[cursor]

\* Tasks are listed newest first, receipts oldest first.
Beyond(r) ==
    cursor = None \/ IF listing = "tasks" THEN stamp[r] < stamp[cursor]
                                           ELSE stamp[r] > stamp[cursor]

Precedes(r, s) == IF listing = "tasks" THEN stamp[r] > stamp[s] ELSE stamp[r] < stamp[s]

FirstOf(s, n) == SubSeq(s, 1, IF Len(s) < n THEN Len(s) ELSE n)

\* ORDER BY created_at LIMIT n: rows with equal stamps come in any order.
Query(n) ==
    {FirstOf(s, n) : s \in
        {p \in SetToSeqs({r \in Items : Beyond(r)}) :
            \A i, j \in DOMAIN p : Precedes(p[i], p[j]) => i < j}}

Give(page) == got' = got \cup page

GoOnAt(r) ==
    /\ cursor' = r
    /\ cursors' = cursors \cup {r}
    /\ at' = "paging"

Finish ==
    /\ at' = "done"
    /\ UNCHANGED <<cursor, cursors>>

----------------------------------------------------------------------------
(* The client and the handlers *)

Start ==
    /\ at = "idle"
    /\ at' = "paging"
    /\ before' = Items
    /\ UNCHANGED <<rows, listing, cursor, candidates, more, got, cursors>>

\* list, list_filtered, TaskRepository.list.
List ==
    /\ at = "paging"
    /\ listing # "open"
    /\ \E found \in Query(Limit + 1) :
          LET page == FirstOf(found, Limit) IN
          /\ Give(ToSet(page))
          /\ IF Len(found) > Limit THEN GoOnAt(Last(page)) ELSE Finish
    /\ UNCHANGED <<rows, listing, candidates, more, before>>

\* list_open_obligations, its first query.
FetchCandidatesAll ==    \* mutant: the extra row is not cut off
    /\ at = "paging"
    /\ listing = "open"
    /\ \E found \in Query(CandidateLimit + 1) :
          /\ candidates' = found
          /\ more' = (Len(found) > CandidateLimit)
          /\ at' = "filtering"
    /\ UNCHANGED <<rows, listing, cursor, got, before, cursors>>

FetchCandidates ==
    /\ at = "paging"
    /\ listing = "open"
    /\ \E found \in Query(CandidateLimit + 1) :
          /\ candidates' = FirstOf(found, CandidateLimit)
          /\ more' = (Len(found) > CandidateLimit)
          /\ at' = "filtering"
    /\ UNCHANGED <<rows, listing, cursor, got, before, cursors>>

\* The first Limit open obligations among the candidates, by their places.
OpenPlaces == {i \in DOMAIN candidates : candidates[i] \notin closed}
PagePlaces == {i \in OpenPlaces : Cardinality({j \in OpenPlaces : j < i}) < Limit}

FilterOpenToEnd ==    \* mutant: the cursor is the last candidate
    /\ at = "filtering"
    /\ Give({candidates[i] : i \in PagePlaces})
    /\ IF more THEN GoOnAt(Last(candidates)) ELSE Finish
    /\ candidates' = <<>>
    /\ more' = FALSE
    /\ UNCHANGED <<rows, listing, before>>

\* Its second query, which sees what was committed since the first.
FilterOpen ==
    /\ at = "filtering"
    /\ Give({candidates[i] : i \in PagePlaces})
    /\ IF Cardinality(PagePlaces) = Limit THEN GoOnAt(candidates[Max(PagePlaces)])
       ELSE IF more THEN GoOnAt(Last(candidates))
       ELSE Finish
    /\ candidates' = <<>>
    /\ more' = FALSE
    /\ UNCHANGED <<rows, listing, before>>

Page  == List \/ FetchCandidates \/ FilterOpen
Write == CommitRow \/ \E r \in Items : Close(r)
Next  == Write \/ Start \/ Page

\* The client asks for the next page.
Spec == Init /\ [][Next]_vars /\ WF_vars(Page)

----------------------------------------------------------------------------
(* Properties *)

\* A walk that has ended has returned every row that was there when it began, of
\* obligations those that are still open, whatever was added and closed meanwhile;
\* only a row with the very created_at of a cursor may be missing.
OnlyTiesAreSkipped ==
    at = "done" =>
        \A r \in before \ got :
            \/ listing = "open" /\ r \in closed
            \/ \E c \in cursors : stamp[c] = stamp[r]

\* Following the cursors comes to an end.
WalkEnds == at = "paging" ~> at = "done"
=============================================================================
