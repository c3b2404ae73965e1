--------------------------- MODULE LedgerWalk_proofs ---------------------------
(***************************************************************************)
(* What TLAPS proves of LedgerWalk, for any page size and any number of    *)
(* rows.                                                                   *)
(***************************************************************************)
EXTENDS LedgerWalk, Numbers, SequenceTheorems, FunctionTheorems, FiniteSetTheorems, TLAPS

LEMMA Sizes ==
    /\ MaxRows \in Nat /\ MaxStamp \in Nat
    /\ Limit \in Nat /\ Limit >= 1
    /\ CandidateLimit \in Nat /\ CandidateLimit >= 1
<1>1. /\ MaxRows \in Nat /\ MaxStamp \in Nat
      /\ Limit \in Nat /\ Limit >= 1
      /\ CandidateFactor \in Nat /\ CandidateFactor >= 1
      /\ CandidateCap \in Nat /\ CandidateCap >= 1
  BY LedgerWalkAssumption
<1>2. Limit * CandidateFactor \in Nat /\ Limit * CandidateFactor >= 1
  BY <1>1
<1>. QED  BY <1>1, <1>2 DEF CandidateLimit

----------------------------------------------------------------------------
(* One query *)

LEMMA FirstOfIs ==
    ASSUME NEW S, NEW s \in Seq(S), NEW n \in Nat
    PROVE  /\ FirstOf(s, n) \in Seq(S)
           /\ Len(FirstOf(s, n)) = IF Len(s) < n THEN Len(s) ELSE n
           /\ \A i \in 1..Len(FirstOf(s, n)) : FirstOf(s, n)[i] = s[i]
<1> DEFINE m == IF Len(s) < n THEN Len(s) ELSE n
<1>1. m \in Nat /\ m <= Len(s) /\ Len(s) \in Nat
  OBVIOUS
<1>2. \A i \in 1..m : s[i] \in S
  BY <1>1, ElementOfSeq
<1>3. FirstOf(s, n) = SubSeq(s, 1, m)
  BY DEF FirstOf
<1> HIDE DEF m
<1>4. /\ SubSeq(s, 1, m) \in Seq(S)
      /\ Len(SubSeq(s, 1, m)) = IF 1 <= m THEN m - 1 + 1 ELSE 0
      /\ \A i \in 1..m - 1 + 1 : SubSeq(s, 1, m)[i] = s[1 + i - 1]
  BY <1>1, <1>2, SubSeqProperties
<1>5. /\ (IF 1 <= m THEN m - 1 + 1 ELSE 0) = m
      /\ m - 1 + 1 = m
      /\ \A i \in 1..m : 1 + i - 1 = i
  BY <1>1
<1>. QED  BY <1>3, <1>4, <1>5 DEF m

Matching == {r \in Items : Beyond(r)}

Sorted(s) == \A i, j \in DOMAIN s : Precedes(s[i], s[j]) => i < j

\* What a query leaves out: a row after all those it has found, and then it has found as
\* many as it was to find.
LEMMA QueryFinds ==
    ASSUME TypeOK, NEW n \in Nat, NEW found \in Query(n)
    PROVE  /\ found \in Seq(Matching) /\ Len(found) <= n
           /\ Sorted(found)
           /\ \A r \in Matching :
                 \/ \E i \in DOMAIN found : found[i] = r
                 \/ Len(found) = n /\ \A i \in DOMAIN found : ~Precedes(r, found[i])
<1>1. PICK p \in SetToSeqs(Matching) :
         found = FirstOf(p, n) /\ \A i, j \in DOMAIN p : Precedes(p[i], p[j]) => i < j
  BY DEF Query, Matching
<1>2. IsFiniteSet(Matching)
  <2>1. Len(stamp) \in Nat /\ Items = 1..Len(stamp)
    BY DEF TypeOK, Items
  <2>2. IsFiniteSet(Items)
    BY <2>1, FS_Interval
  <2>. QED  BY <2>2, FS_Subset DEF Matching
<1> DEFINE all == Cardinality(Matching)
<1>3. all \in Nat /\ IsFiniteSet(1..all) /\ Cardinality(1..all) = all
  BY <1>2, FS_CardinalityType, FS_Interval
<1>4. p \in [1..all -> Matching] /\ \A i, j \in 1..all : i # j => p[i] # p[j]
  BY DEF SetToSeqs
<1> HIDE DEF all
<1>5. p \in Surjection(1..all, Matching)
  <2>1. p \in Injection(1..all, Matching)
    BY <1>4, Fun_IsInj
  <2>. QED  BY <1>2, <1>3, <2>1, FS_Injection DEF all
<1>6. p \in Seq(Matching) /\ Len(p) = all
  BY <1>3, <1>4
<1>7. /\ found \in Seq(Matching)
      /\ Len(found) = IF all < n THEN all ELSE n
      /\ \A i \in 1..Len(found) : found[i] = p[i]
  BY <1>1, <1>6, FirstOfIs
<1>8. Len(found) \in Nat /\ Len(found) <= n /\ Len(found) <= all /\ DOMAIN found = 1..Len(found)
  BY <1>3, <1>7
<1>9. \A i \in DOMAIN found : i \in 1..all /\ found[i] = p[i]
  BY <1>3, <1>7, <1>8
<1>10. ASSUME NEW r \in Matching, \A i \in DOMAIN found : found[i] # r
       PROVE  Len(found) = n /\ \A i \in DOMAIN found : ~Precedes(r, found[i])
  <2>1. PICK k \in 1..all : p[k] = r
    <3>1. \A q \in Matching : \E k \in 1..all : p[k] = q
      BY <1>5 DEF Surjection
    <3>. QED  BY <3>1
  <2>2. k > Len(found)
    BY <1>3, <1>8, <1>9, <1>10, <2>1
  <2>3. Len(found) = n
    BY <1>3, <1>7, <2>1, <2>2
  <2>4. ASSUME NEW i \in DOMAIN found, Precedes(r, found[i])
        PROVE  FALSE
    <3>1. i \in 1..all /\ Precedes(p[k], p[i])
      BY <1>9, <2>1, <2>4
    <3>2. k < i
      BY <1>1, <1>4, <3>1
    <3>. QED  BY <1>8, <2>2, <3>2
  <2>. QED  BY <2>3, <2>4
<1>11. Sorted(found)
  BY <1>1, <1>4, <1>9 DEF Sorted
<1>. QED  BY <1>7, <1>8, <1>10, <1>11

----------------------------------------------------------------------------
(* Lists *)

LEMMA Grown ==
    ASSUME TypeOK, NEW now \in 1..MaxStamp, Len(stamp) < MaxRows, stamp' = Append(stamp, now)
    PROVE  /\ stamp' \in Seq(1..MaxStamp) /\ Len(stamp') <= MaxRows
           /\ Items \subseteq Items'
           /\ \A r \in Items : stamp'[r] = stamp[r]
<1>1. stamp \in Seq(1..MaxStamp) /\ Len(stamp) \in Nat /\ DOMAIN stamp = 1..Len(stamp)
  BY DEF TypeOK
<1>2. /\ stamp' \in Seq(1..MaxStamp) /\ Len(stamp') = Len(stamp) + 1
      /\ \A i \in 1..Len(stamp) : stamp'[i] = stamp[i]
  BY <1>1, AppendProperties
<1>3. DOMAIN stamp' = 1..Len(stamp) + 1
  BY <1>1, <1>2
<1>. QED  BY <1>1, <1>2, <1>3, Sizes DEF Items

LEMMA LastOf ==
    ASSUME NEW S, NEW s \in Seq(S), Len(s) >= 1
    PROVE  Last(s) = s[Len(s)] /\ Last(s) \in S /\ Len(s) \in DOMAIN s
<1>1. Len(s) \in 1..Len(s) /\ DOMAIN s = 1..Len(s)
  OBVIOUS
<1>. QED  BY <1>1, ElementOfSeq DEF Last

\* A query for one row more than the page tells whether there is one: the page has every
\* row that matches, or it is full and what is not on it does not come before it.
LEMMA PageCut ==
    ASSUME TypeOK, NEW n \in Nat, n >= 1, NEW found \in Query(n + 1)
    PROVE  LET page == FirstOf(found, n) IN
           /\ page \in Seq(Items) /\ Len(page) <= n /\ DOMAIN page = 1..Len(page)
           /\ \A i \in DOMAIN page : page[i] \in Matching
           /\ Sorted(page)
           /\ Len(found) > n =>
                 /\ Len(page) = n
                 /\ \A r \in Matching :
                       \/ \E i \in DOMAIN page : page[i] = r
                       \/ \A i \in DOMAIN page : ~Precedes(r, page[i])
           /\ ~(Len(found) > n) => \A r \in Matching : \E i \in DOMAIN page : page[i] = r
<1> DEFINE page == FirstOf(found, n)
<1>1. /\ found \in Seq(Matching) /\ Sorted(found)
      /\ \A r \in Matching :
            \/ \E i \in DOMAIN found : found[i] = r
            \/ Len(found) = n + 1 /\ \A i \in DOMAIN found : ~Precedes(r, found[i])
  BY QueryFinds
<1>2. /\ page \in Seq(Matching)
      /\ Len(page) = IF Len(found) < n THEN Len(found) ELSE n
      /\ \A i \in 1..Len(page) : page[i] = found[i]
  BY <1>1, FirstOfIs
<1>3. /\ DOMAIN page = 1..Len(page) /\ Len(page) \in Nat
      /\ DOMAIN found = 1..Len(found) /\ Len(found) \in Nat
  BY <1>1, <1>2
<1> HIDE DEF page
<1>4. /\ Len(page) <= n
      /\ \A i \in DOMAIN page : i \in DOMAIN found /\ page[i] = found[i]
      /\ Len(found) > n => Len(page) = n
      /\ ~(Len(found) > n) => Len(page) = Len(found) /\ Len(found) # n + 1
  <2>1. Len(page) = IF Len(found) < n THEN Len(found) ELSE n
    BY <1>2
  <2>2. Len(page) <= n /\ Len(page) <= Len(found)
    BY <1>3, <2>1
  <2> DEFINE k == Len(found)
  <2>3. k \in Nat /\ n \in Nat /\ Len(page) = IF k < n THEN k ELSE n
    BY <1>3, <2>1
  <2> HIDE DEF k
  <2>4. k > n => Len(page) = n
    BY <2>3
  <2>5. ~(k > n) => Len(page) = k /\ k # n + 1
    BY <2>3
  <2>6. \A i \in DOMAIN page : i \in DOMAIN found /\ page[i] = found[i]
    BY <1>2, <1>3, <2>2
  <2>7. /\ Len(found) > n => Len(page) = n
        /\ ~(Len(found) > n) => Len(page) = Len(found) /\ Len(found) # n + 1
    BY <2>4, <2>5, Zenon DEF k
  <2>. QED  BY <2>2, <2>6, <2>7, Zenon
<1>5. Sorted(page)
  BY <1>1, <1>4 DEF Sorted
<1>6. page \in Seq(Items)
  <2>1. Matching \subseteq Items
    BY DEF Matching
  <2>. QED  BY <1>2, <2>1, SeqMonotonic
<1>7. \A i \in DOMAIN page : page[i] \in Matching
  BY <1>2, <1>3, ElementOfSeq
<1>8. ASSUME Len(found) > n, NEW r \in Matching
      PROVE  /\ Len(page) = n
             /\ \/ \E i \in DOMAIN page : page[i] = r
                \/ \A i \in DOMAIN page : ~Precedes(r, page[i])
  <2>1. Len(page) = n
    BY <1>4, <1>8
  <2>2. CASE \E k \in DOMAIN found : found[k] = r
    <3>1. PICK k \in DOMAIN found : found[k] = r
      BY <2>2
    <3>2. CASE k \in DOMAIN page
      BY <1>4, <2>1, <3>1, <3>2
    <3>3. CASE k \notin DOMAIN page
      <4>1. \A i \in DOMAIN page : i < k /\ i \in Nat /\ k \in Nat
        BY <1>3, <3>3
      <4>2. \A i \in DOMAIN page : Precedes(r, page[i]) => k < i
        BY <1>1, <1>4, <3>1 DEF Sorted
      <4>. QED  BY <2>1, <4>1, <4>2
    <3>. QED  BY <2>1, <3>2, <3>3
  <2>3. CASE \A i \in DOMAIN found : ~Precedes(r, found[i])
    BY <1>4, <2>1, <2>3
  <2>. QED  BY <1>1, <2>2, <2>3
<1>9. ASSUME ~(Len(found) > n), NEW r \in Matching
      PROVE  \E i \in DOMAIN page : page[i] = r
  <2>1. Len(found) # n + 1 /\ Len(page) = Len(found)
    BY <1>4, <1>9
  <2>2. PICK i \in DOMAIN found : found[i] = r
    BY <1>1, <2>1
  <2>. QED  BY <1>3, <1>4, <2>1, <2>2
<1>. QED  BY <1>3, <1>4, <1>5, <1>6, <1>7, <1>8, <1>9 DEF page

----------------------------------------------------------------------------
(* Types *)

LEMMA Sets == TypeOK => got \subseteq Items /\ before \subseteq Items /\ cursors \subseteq Items
BY DEF TypeOK

LEMMA SetsTyped ==
    ASSUME NEW S, NEW A, NEW B, NEW C, A \subseteq S, B \subseteq S, C \subseteq S
    PROVE  UNION {A, B, C} \subseteq S
OBVIOUS

LEMMA TypeInit == Init => TypeOK
<1> SUFFICES ASSUME Init PROVE TypeOK
  OBVIOUS
<1>1. stamp \in Seq(1..MaxStamp) /\ Len(stamp) <= MaxRows
  BY Sizes DEF Init
<1>2. candidates \in Seq(Items) /\ Len(candidates) <= CandidateLimit
  BY Sizes DEF Init
<1>3. UNION {got, before, cursors} \subseteq Items
  BY DEF Init
<1>. QED  BY <1>1, <1>2, <1>3 DEF Init, TypeOK

\* The first open obligations of the candidates.
LEMMA PageOfOpen ==
    ASSUME TypeOK
    PROVE  /\ PagePlaces \subseteq OpenPlaces /\ OpenPlaces \subseteq DOMAIN candidates
           /\ DOMAIN candidates = 1..Len(candidates) /\ Len(candidates) \in Nat
           /\ \A i \in DOMAIN candidates : candidates[i] \in Items
           /\ Cardinality(PagePlaces) = Limit =>
                 /\ Max(PagePlaces) \in PagePlaces
                 /\ \A i \in OpenPlaces : i <= Max(PagePlaces) => i \in PagePlaces
           /\ Cardinality(PagePlaces) # Limit => PagePlaces = OpenPlaces
<1>1. /\ DOMAIN candidates = 1..Len(candidates) /\ Len(candidates) \in Nat
      /\ \A i \in DOMAIN candidates : candidates[i] \in Items
  BY DEF TypeOK
<1>2. PagePlaces \subseteq OpenPlaces /\ OpenPlaces \subseteq DOMAIN candidates
  BY DEF PagePlaces, OpenPlaces
<1>3. PagePlaces = FirstNumbers(OpenPlaces, Limit)
  BY DEF PagePlaces, FirstNumbers
<1>4. OpenPlaces \in SUBSET (1..Len(candidates)) /\ Limit \in Nat /\ Limit >= 1
  BY <1>1, <1>2, Sizes
<1>. QED  BY <1>1, <1>2, <1>3, <1>4, FirstNumbersCut

----------------------------------------------------------------------------
(* The walk *)

\* Rows that were there at the beginning and have no excuse yet for not being given.
Missing == {r \in before \ got :
              /\ ~(listing = "open" /\ r \in closed)
              /\ \A c \in cursors : stamp[c] # stamp[r]}

\* They are beyond the cursor; while a page of obligations is made they are among its
\* candidates, or come after them all and there is more.
PagingInv == at = "paging" => \A r \in Missing : Beyond(r)

FilteringInv ==
    at = "filtering" =>
        /\ listing = "open"
        /\ Sorted(candidates)
        /\ more => Len(candidates) = CandidateLimit
        /\ \A r \in Missing :
              \/ \E i \in DOMAIN candidates : candidates[i] = r
              \/ more /\ \A i \in DOMAIN candidates : ~Precedes(r, candidates[i])

WalkInv ==
    /\ TypeOK
    /\ at = "idle" => cursor = None
    /\ PagingInv
    /\ FilteringInv
    /\ at = "done" => Missing = {}

LEMMA WalkInit == Init => WalkInv
<1> SUFFICES ASSUME Init PROVE WalkInv
  OBVIOUS
<1>. QED  BY TypeInit DEF Init, WalkInv, PagingInv, FilteringInv

LEMMA MissingTyped == TypeOK => Missing \subseteq Items
BY Sets DEF Missing

\* A new row has no part in the walk.
LEMMA CommitStep == WalkInv /\ CommitRow => WalkInv'
<1> SUFFICES ASSUME WalkInv, CommitRow PROVE WalkInv'
  OBVIOUS
<1>. USE DEF WalkInv
<1>1. /\ stamp' \in Seq(1..MaxStamp) /\ Len(stamp') <= MaxRows /\ Items \subseteq Items'
      /\ \A r \in Items : stamp'[r] = stamp[r]
  BY Grown DEF CommitRow
<1>2. UNCHANGED <<closed, listing, at, cursor, candidates, more, got, before, cursors>>
  BY DEF CommitRow, reader
<1>3. TypeOK'
  <2>1. candidates' \in Seq(Items')
    BY <1>1, <1>2, SeqMonotonic DEF TypeOK
  <2>2. UNION {got', before', cursors'} \subseteq Items'
    BY <1>1, <1>2, Sets
  <2>. QED  BY <1>1, <1>2, <2>1, <2>2 DEF TypeOK
<1>4. Missing' = Missing
  <2>1. before \subseteq Items /\ cursors \subseteq Items
    BY Sets
  <2>. QED  BY <1>1, <1>2, <2>1 DEF Missing
<1>5. \A r \in Items : Beyond(r)' = Beyond(r)
  <2>1. cursor = None \/ cursor \in Items
    BY DEF TypeOK
  <2>. QED  BY <1>1, <1>2, <2>1 DEF Beyond
<1>6. \A r, s \in Items : Precedes(r, s)' = Precedes(r, s)
  BY <1>1, <1>2 DEF Precedes
<1>7. Missing \subseteq Items /\ \A i \in DOMAIN candidates : candidates[i] \in Items
  BY MissingTyped DEF TypeOK
<1>8. PagingInv'
  BY <1>2, <1>4, <1>5, <1>7 DEF PagingInv
<1>9. FilteringInv'
  <2>1. Sorted(candidates)' = Sorted(candidates)
    BY <1>2, <1>6, <1>7 DEF Sorted
  <2>2. \A r \in Missing, i \in DOMAIN candidates :
           Precedes(r, candidates[i])' = Precedes(r, candidates[i])
    BY <1>2, <1>6, <1>7
  <2>. QED  BY <1>2, <1>4, <2>1, <2>2 DEF FilteringInv
<1>. QED  BY <1>2, <1>3, <1>4, <1>8, <1>9

\* A closed obligation need not be given any more.
LEMMA CloseStep == ASSUME NEW r \in Items, WalkInv, Close(r) PROVE WalkInv'
<1>. USE DEF WalkInv
<1>1. /\ UNCHANGED <<stamp, listing, at, cursor, candidates, more, got, before, cursors>>
      /\ closed' = closed \cup {r}
  BY DEF Close, reader
<1>2. TypeOK'
  BY <1>1 DEF TypeOK, Items
<1>3. Missing' \subseteq Missing
  BY <1>1 DEF Missing
<1>4. PagingInv'
  BY <1>1, <1>3 DEF PagingInv, Beyond
<1>5. FilteringInv'
  BY <1>1, <1>3 DEF FilteringInv, Sorted, Precedes
<1>. QED  BY <1>1, <1>2, <1>3, <1>4, <1>5

LEMMA StartStep == WalkInv /\ Start => WalkInv'
<1> SUFFICES ASSUME WalkInv, Start PROVE WalkInv'
  OBVIOUS
<1>. USE DEF WalkInv
<1>1. /\ UNCHANGED <<stamp, closed, listing, cursor, candidates, more, got, cursors>>
      /\ at = "idle" /\ at' = "paging" /\ before' = Items
  BY DEF Start, rows
<1>2. TypeOK'
  <2>1. UNION {got, Items, cursors} \subseteq Items
    BY Sets
  <2>. QED  BY <1>1, <2>1 DEF TypeOK, Items
<1>3. PagingInv'
  BY <1>1 DEF PagingInv, Beyond
<1>. QED  BY <1>1, <1>2, <1>3 DEF FilteringInv

\* What the next cursor leaves behind has been given or has its stamp: a row that does not
\* come before the cursor is beyond it or tied with it.
LEMMA AfterCursor ==
    ASSUME TypeOK, NEW r \in Items, NEW c \in Items,
           ~Precedes(r, c), stamp[c] # stamp[r],
           cursor' = c, UNCHANGED <<stamp, listing>>
    PROVE  Beyond(r)'
<1>1. stamp[r] \in 1..MaxStamp /\ stamp[c] \in 1..MaxStamp
  <2>1. stamp \in Seq(1..MaxStamp) /\ Items = 1..Len(stamp)
    BY DEF TypeOK, Items
  <2>. QED  BY <2>1, ElementOfSeq
<1>. QED  BY <1>1 DEF Beyond, Precedes

LEMMA ListStep == WalkInv /\ List => WalkInv'
<1> SUFFICES ASSUME WalkInv, List PROVE WalkInv'
  OBVIOUS
<1>. USE DEF WalkInv
<1>1. PICK found \in Query(Limit + 1) :
         LET page == FirstOf(found, Limit) IN
         /\ Give(ToSet(page))
         /\ IF Len(found) > Limit THEN GoOnAt(Last(page)) ELSE Finish
  BY DEF List
<1> DEFINE page == FirstOf(found, Limit)
<1>2. /\ page \in Seq(Items) /\ DOMAIN page = 1..Len(page)
      /\ \A i \in DOMAIN page : page[i] \in Matching
      /\ Sorted(page)
      /\ Len(found) > Limit =>
            /\ Len(page) = Limit
            /\ \A r \in Matching :
                  \/ \E i \in DOMAIN page : page[i] = r
                  \/ \A i \in DOMAIN page : ~Precedes(r, page[i])
      /\ ~(Len(found) > Limit) => \A r \in Matching : \E i \in DOMAIN page : page[i] = r
  BY Sizes, PageCut
<1>3. Give(ToSet(page)) /\ IF Len(found) > Limit THEN GoOnAt(Last(page)) ELSE Finish
  BY <1>1
<1> HIDE DEF page
<1>4. /\ UNCHANGED <<stamp, closed, listing, candidates, more, before>>
      /\ at = "paging" /\ listing # "open"
      /\ got' = got \cup ToSet(page)
  BY <1>3 DEF List, rows, Give
<1>5. ToSet(page) \subseteq Items
  BY <1>2 DEF ToSet
<1>6. ASSUME NEW r \in Missing
      PROVE  r \in Matching
  BY <1>4, MissingTyped DEF PagingInv, Matching
<1>7. ASSUME NEW i \in DOMAIN page
      PROVE  page[i] \in got'
  BY <1>4 DEF ToSet
<1>8. CASE Len(found) > Limit
  <2>1. /\ Last(page) = page[Len(page)] /\ Last(page) \in Items /\ Len(page) \in DOMAIN page
    BY <1>2, <1>8, LastOf, Sizes
  <2>2. cursor' = Last(page) /\ cursors' = cursors \cup {Last(page)} /\ at' = "paging"
    BY <1>3, <1>8 DEF GoOnAt
  <2>3. TypeOK'
    <3>1. UNION {got', before', cursors'} \subseteq Items
      BY <1>4, <1>5, <2>1, <2>2, Sets
    <3>. QED  BY <1>4, <2>1, <2>2, <3>1 DEF TypeOK, Items
  <2>4. ASSUME NEW r \in Missing'
        PROVE  Beyond(r)'
    <3>1. r \in Missing /\ r \notin got' /\ stamp[Last(page)] # stamp[r]
      BY <1>4, <2>2 DEF Missing
    <3>2. \A i \in DOMAIN page : page[i] # r
      BY <1>7, <3>1
    <3>3. r \in Matching /\ r \in Items
      BY <1>6, <3>1, MissingTyped
    <3>4. ~Precedes(r, Last(page))
      BY <1>2, <1>8, <2>1, <3>2, <3>3
    <3>. QED  BY <1>4, <2>1, <2>2, <3>1, <3>3, <3>4, AfterCursor
  <2>. QED  BY <2>2, <2>3, <2>4 DEF PagingInv, FilteringInv
<1>9. CASE ~(Len(found) > Limit)
  <2>1. UNCHANGED <<cursor, cursors>> /\ at' = "done"
    BY <1>3, <1>9 DEF Finish
  <2>2. TypeOK'
    <3>1. UNION {got', before', cursors'} \subseteq Items
      BY <1>4, <1>5, <2>1, Sets
    <3>. QED  BY <1>4, <2>1, <3>1 DEF TypeOK, Items
  <2>3. ASSUME NEW r \in Missing'
        PROVE  FALSE
    <3>1. r \in Missing /\ r \notin got'
      BY <1>4, <2>1 DEF Missing
    <3>. QED  BY <1>2, <1>6, <1>7, <1>9, <3>1
  <2>. QED  BY <2>1, <2>2, <2>3 DEF PagingInv, FilteringInv
<1>. QED  BY <1>8, <1>9

LEMMA FetchStep == WalkInv /\ FetchCandidates => WalkInv'
<1> SUFFICES ASSUME WalkInv, FetchCandidates PROVE WalkInv'
  OBVIOUS
<1>. USE DEF WalkInv
<1>1. PICK found \in Query(CandidateLimit + 1) :
         candidates' = FirstOf(found, CandidateLimit) /\ more' = (Len(found) > CandidateLimit)
  BY DEF FetchCandidates
<1>2. /\ candidates' \in Seq(Items) /\ Len(candidates') <= CandidateLimit
      /\ Sorted(candidates')
      /\ Len(found) > CandidateLimit =>
            /\ Len(candidates') = CandidateLimit
            /\ \A r \in Matching :
                  \/ \E i \in DOMAIN candidates' : candidates'[i] = r
                  \/ \A i \in DOMAIN candidates' : ~Precedes(r, candidates'[i])
      /\ ~(Len(found) > CandidateLimit) =>
            \A r \in Matching : \E i \in DOMAIN candidates' : candidates'[i] = r
  BY <1>1, Sizes, PageCut
<1>3. /\ UNCHANGED <<stamp, closed, listing, cursor, got, before, cursors>>
      /\ at = "paging" /\ listing = "open" /\ at' = "filtering" /\ more' \in BOOLEAN
  BY <1>1 DEF FetchCandidates, rows
<1>4. TypeOK'
  BY <1>2, <1>3 DEF TypeOK, Items
<1>5. Missing' = Missing /\ Missing \subseteq Matching
  BY <1>3, MissingTyped DEF Missing, PagingInv, Matching
<1>6. FilteringInv'
  <2>1. Sorted(candidates)'
    BY <1>2, <1>3 DEF Sorted, Precedes
  <2>2. \A r \in Missing' :
           \/ \E i \in DOMAIN candidates' : candidates'[i] = r
           \/ more' /\ \A i \in DOMAIN candidates' : ~Precedes(r, candidates'[i])
    BY <1>1, <1>2, <1>5
  <2>3. more' => Len(candidates') = CandidateLimit
    BY <1>1, <1>2
  <2>. QED  BY <1>3, <2>1, <2>2, <2>3 DEF FilteringInv, Precedes
<1>. QED  BY <1>3, <1>4, <1>6 DEF PagingInv

LEMMA FilterStep == WalkInv /\ FilterOpen => WalkInv'
<1> SUFFICES ASSUME WalkInv, FilterOpen PROVE WalkInv'
  OBVIOUS
<1>. USE DEF WalkInv
<1> DEFINE page == {candidates[i] : i \in PagePlaces}
           full == Cardinality(PagePlaces) = Limit
           last == candidates[Max(PagePlaces)]
<1>1. /\ UNCHANGED <<stamp, closed, listing, before>>
      /\ candidates' = <<>> /\ more' = FALSE
      /\ got' = got \cup page
      /\ at = "filtering"
      /\ IF full THEN GoOnAt(last) ELSE IF more THEN GoOnAt(Last(candidates)) ELSE Finish
  BY DEF FilterOpen, rows, Give
<1>2. /\ PagePlaces \subseteq OpenPlaces /\ OpenPlaces \subseteq DOMAIN candidates
      /\ DOMAIN candidates = 1..Len(candidates) /\ Len(candidates) \in Nat
      /\ \A i \in DOMAIN candidates : candidates[i] \in Items
      /\ full => /\ Max(PagePlaces) \in PagePlaces
                 /\ \A i \in OpenPlaces : i <= Max(PagePlaces) => i \in PagePlaces
      /\ ~full => PagePlaces = OpenPlaces
  BY PageOfOpen
<1>3. page \subseteq Items /\ \A i \in PagePlaces : candidates[i] \in got'
  BY <1>1, <1>2
<1>4. /\ listing = "open" /\ Sorted(candidates)
      /\ more => Len(candidates) = CandidateLimit
      /\ \A r \in Missing :
            \/ \E i \in DOMAIN candidates : candidates[i] = r
            \/ more /\ \A i \in DOMAIN candidates : ~Precedes(r, candidates[i])
  BY <1>1 DEF FilteringInv
<1> HIDE DEF page, full
<1>5. ASSUME NEW r \in Missing', cursors \subseteq cursors'
      PROVE  /\ r \in Missing /\ r \in Items
             /\ \A i \in DOMAIN candidates : candidates[i] = r => i \in OpenPlaces \ PagePlaces
  <2>1. r \in Missing /\ r \notin got' /\ r \notin closed
    BY <1>1, <1>4, <1>5 DEF Missing
  <2>. QED  BY <1>3, <2>1, MissingTyped DEF OpenPlaces
<1>6. ASSUME NEW c \in Items, GoOnAt(c),
             \A r \in Missing' : r \in Items => ~Precedes(r, c)
      PROVE  WalkInv'
  <2>1. cursor' = c /\ cursors' = cursors \cup {c} /\ at' = "paging"
    BY <1>6 DEF GoOnAt
  <2>2. TypeOK'
    <3>1. UNION {got', before', cursors'} \subseteq Items
      BY <1>1, <1>3, <2>1, Sets
    <3>2. candidates' \in Seq(Items) /\ Len(candidates') <= CandidateLimit
      BY <1>1, Sizes
    <3>. QED  BY <1>1, <2>1, <3>1, <3>2 DEF TypeOK, Items
  <2>3. ASSUME NEW r \in Missing'
        PROVE  Beyond(r)'
    <3>1. stamp[c] # stamp[r]
      BY <1>1, <2>1 DEF Missing
    <3>2. r \in Items
      BY <1>5, <2>1
    <3>. QED  BY <1>1, <1>6, <2>1, <3>1, <3>2, AfterCursor
  <2>. QED  BY <2>1, <2>2, <2>3 DEF PagingInv, FilteringInv
<1>7. CASE full
  <2>1. GoOnAt(last) /\ last \in Items /\ cursors \subseteq cursors'
    BY <1>1, <1>2, <1>7 DEF GoOnAt
  <2>2. ASSUME NEW r \in Missing', Precedes(r, last)
        PROVE  FALSE
    <3>1. Max(PagePlaces) \in DOMAIN candidates
      BY <1>2, <1>7
    <3>2. PICK i \in DOMAIN candidates : candidates[i] = r
      BY <1>4, <1>5, <2>1, <2>2, <3>1
    <3>3. i < Max(PagePlaces)
      BY <1>4, <2>2, <3>1, <3>2 DEF Sorted
    <3>4. i <= Max(PagePlaces)
      BY <1>2, <3>1, <3>3
    <3>. QED  BY <1>2, <1>5, <1>7, <2>1, <3>2, <3>4
  <2>. QED  BY <1>6, <2>1, <2>2
<1>8. CASE ~full /\ more
  <2>1. /\ Last(candidates) = candidates[Len(candidates)] /\ Last(candidates) \in Items
        /\ Len(candidates) \in DOMAIN candidates
    BY <1>4, <1>8, LastOf, Sizes DEF TypeOK
  <2>2. GoOnAt(Last(candidates)) /\ cursors \subseteq cursors'
    BY <1>1, <1>8 DEF GoOnAt
  <2>3. ASSUME NEW r \in Missing'
        PROVE  ~Precedes(r, Last(candidates))
    <3>1. \A i \in DOMAIN candidates : candidates[i] # r
      BY <1>2, <1>5, <1>8, <2>2
    <3>. QED  BY <1>4, <1>5, <2>1, <2>2, <3>1
  <2>. QED  BY <1>6, <2>1, <2>2, <2>3
<1>9. CASE ~full /\ ~more
  <2>1. UNCHANGED <<cursor, cursors>> /\ at' = "done"
    BY <1>1, <1>9 DEF Finish
  <2>2. TypeOK'
    <3>1. UNION {got', before', cursors'} \subseteq Items
      BY <1>1, <1>3, <2>1, Sets
    <3>2. candidates' \in Seq(Items) /\ Len(candidates') <= CandidateLimit
      BY <1>1, Sizes
    <3>. QED  BY <1>1, <2>1, <3>1, <3>2 DEF TypeOK, Items
  <2>3. ASSUME NEW r \in Missing'
        PROVE  FALSE
    <3>1. r \in Missing /\ \A i \in DOMAIN candidates : candidates[i] # r
      BY <1>2, <1>5, <1>9, <2>1
    <3>. QED  BY <1>4, <1>9, <3>1
  <2>. QED  BY <2>1, <2>2, <2>3 DEF PagingInv, FilteringInv
<1>. QED  BY <1>7, <1>8, <1>9

LEMMA WalkNext == WalkInv /\ [Next]_vars => WalkInv'
<1> SUFFICES ASSUME WalkInv, [Next]_vars PROVE WalkInv'
  OBVIOUS
<1>1. CASE UNCHANGED vars
  <2>1. UNCHANGED <<stamp, closed, listing, at, cursor, candidates, more, got, before, cursors>>
    BY <1>1 DEF vars, rows, reader
  <2>2. TypeOK'
    BY <2>1 DEF WalkInv, TypeOK, Items
  <2>3. Missing' = Missing
    BY <2>1 DEF Missing
  <2>. QED  BY <2>1, <2>2, <2>3
            DEF WalkInv, PagingInv, FilteringInv, Beyond, Sorted, Precedes
<1>. QED  BY <1>1, CommitStep, CloseStep, StartStep, ListStep, FetchStep, FilterStep
          DEF Next, Write, Page

LEMMA WalkAlways == Spec => []WalkInv
BY WalkInit, WalkNext, PTL DEF Spec

\* What list_open_obligations, list_filtered and TaskRepository.list hold is what it should
\* be: a cursor is a row that exists, and a page is cut at its limit.
THEOREM TypeCorrect == Spec => []TypeOK
<1>1. WalkInv => TypeOK
  BY DEF WalkInv
<1>. QED  BY <1>1, WalkAlways, PTL

\* A client that follows the cursors of list_open_obligations, list_filtered or
\* TaskRepository.list to the end has been given every row that was there when it began
\* (every obligation still open), however many rows come and obligations close meanwhile,
\* except rows with the very created_at of a cursor.
THEOREM SkippedCorrect == Spec => []OnlyTiesAreSkipped
<1>1. WalkInv => OnlyTiesAreSkipped
  BY DEF WalkInv, OnlyTiesAreSkipped, Missing
<1>. QED  BY <1>1, WalkAlways, PTL
=============================================================================
