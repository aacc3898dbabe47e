---------------------------- MODULE ReadersProofs ----------------------------
(***************************************************************************)
(* Proofs about the two ways to read a table.  DiffFeed, for any number of *)
(* rows, writers and statuses and any page size: types, that what the      *)
(* reader has passed it has seen, and that full pages take it on.  ListWalk*)
(* for lists and answers of any length: types, that a walk that is over was*)
(* given every row that stayed selected, and that every answer but the last*)
(* takes it further.                                                       *)
(***************************************************************************)
EXTENDS DiffFeed, ListWalk, FiniteSetTheorems, WellFoundedInduction, TLAPS

---------------------------------------------------------------------------
(* A set of numbers up to a bound that is not empty has a greatest one.    *)
LEMMA GreatestExists ==
  ASSUME NEW N \in Nat, NEW T \in SUBSET (0 .. N), T # {}
  PROVE  \E x \in T : \A y \in T : y <= x
<1> DEFINE R == {p \in Nat \X Nat : p[1] < p[2]}
           U == {n \in 0 .. N : N - n \in T}
<1>1. IsWellFoundedOn(R, Nat)
  BY NatLessThanWellFounded, Zenon DEF OpToRel
<1>2. U \subseteq Nat /\ U # {}
  <2>1. PICK x \in T : TRUE
    OBVIOUS
  <2>2. N - x \in 0 .. N /\ N - (N - x) = x
    OBVIOUS
  <2>3. N - x \in U
    BY <2>1, <2>2
  <2>4. U \subseteq Nat
    OBVIOUS
  <2> HIDE DEF U
  <2> QED BY <2>3, <2>4
<1>3. PICK n \in U : \A m \in U : ~(<<m, n>> \in R)
  <2> HIDE DEF R, U
  <2> QED BY <1>1, <1>2, WFMin
<1>4. ASSUME NEW y \in T PROVE y <= N - n
  <2>1. N - y \in U /\ y \in Nat /\ N - y \in Nat
    <3>1. N - y \in 0 .. N /\ N - (N - y) = y /\ y \in Nat
      OBVIOUS
    <3> QED BY <3>1
  <2>2. <<N - y, n>> \in Nat \X Nat /\ ~(<<N - y, n>> \in R)
    BY <1>2, <1>3, <2>1
  <2>3. ~(N - y < n)
    BY <2>2
  <2> QED BY <1>2, <2>1, <2>3
<1> QED BY <1>3, <1>4

---------------------------------------------------------------------------
(* A page leaves no row out: what precedes a row of it is in it.           *)
LEMMA FeedPageHasNoGap ==
  ASSUME TypeOK, NEW last \in Page, NEW i \in Matching, Precedes(i, last)
  PROVE  i \in Page
<1> DEFINE before(k) == {j \in Matching : Precedes(j, k)}
<1>1. last \in Matching /\ Matching \subseteq Ids /\ Cardinality(before(last)) < Limit
  BY DEF Page, Matching
<1>2. \A j \in Ids : row[j].at \in Nat /\ j \in Nat
  BY RowsAssumption, ClockAssumption DEF TypeOK, Row, Ids
<1>3. before(i) \subseteq before(last)
  BY <1>1, <1>2 DEF Precedes
<1>4. IsFiniteSet(Ids)
  BY RowsAssumption, FS_Interval DEF Ids
<1>5. IsFiniteSet(before(last)) /\ IsFiniteSet(before(i))
  <2>1. before(last) \subseteq Ids /\ before(i) \subseteq Ids
    BY <1>1
  <2> QED BY <2>1, <1>4, FS_Subset
<1>6. Cardinality(before(i)) <= Cardinality(before(last))
  BY <1>3, <1>5, FS_Subset
<1>7. Cardinality(before(i)) \in Nat /\ Cardinality(before(last)) \in Nat
  BY <1>5, FS_CardinalityType
<1>8. Cardinality(before(i)) < Limit
  BY <1>1, <1>6, <1>7, LimitAssumption
<1> QED BY <1>8 DEF Page

(* The order of a page is total on it: what is not empty has a last row.   *)
LEMMA LastExists ==
  ASSUME TypeOK, NEW S \in SUBSET Ids, S # {}
  PROVE  \E last \in S : \A i \in S : i = last \/ Precedes(i, last)
<1>0. \A i \in S : row[i].at \in 0 .. MaxClock /\ i \in 0 .. Rows
  BY RowsAssumption DEF TypeOK, Row, Ids
<1>1. MaxClock \in Nat /\ Rows \in Nat
  BY RowsAssumption, ClockAssumption
<1> DEFINE T == {row[i].at : i \in S}
<1>2. PICK top \in T : \A y \in T : y <= top
  <2>1. T \in SUBSET (0 .. MaxClock) /\ T # {}
    BY <1>0
  <2> HIDE DEF T
  <2> QED BY <1>1, <2>1, GreatestExists
<1> DEFINE latest == {i \in S : row[i].at = top}
<1>3. PICK last \in latest : \A i \in latest : i <= last
  <2>1. latest \in SUBSET (0 .. Rows) /\ latest # {}
    BY <1>0, <1>2
  <2> HIDE DEF latest
  <2> QED BY <1>1, <2>1, GreatestExists
<1>4. ASSUME NEW i \in S, i # last PROVE Precedes(i, last)
  <2>1. row[i].at <= row[last].at /\ row[i].at \in Nat /\ row[last].at \in Nat
    BY <1>0, <1>1, <1>2, <1>3
  <2>2. CASE row[i].at = row[last].at
    <3>1. i <= last /\ i \in Nat /\ last \in Nat
      BY <1>0, <1>1, <1>3, <2>2
    <3> QED BY <1>4, <2>2, <3>1 DEF Precedes
  <2> QED BY <2>1, <2>2 DEF Precedes
<1> QED BY <1>3, <1>4

(* What a transaction makes of a row is a row.                             *)
LEMMA StampedRow ==
  ASSUME NEW r \in Row, NEW u \in Write
  PROVE  Stamped(r, u) \in Row
  BY ClockAssumption DEF Stamped, Row, Write

LEMMA WriterType ==
  ASSUME TypeOK, NEW w \in Writers, writer[w] # NoWrite
  PROVE  writer[w] \in Write /\ writer[w].id \in Ids
  BY DEF TypeOK, Write

---------------------------------------------------------------------------
FeedInv == TypeOK /\ PassedIsCopied

LEMMA FeedInit == Init => FeedInv
<1> SUFFICES ASSUME Init PROVE FeedInv
  OBVIOUS
<1>1. NoRow \in Row /\ NoRow.status = "absent"
  BY ClockAssumption DEF NoRow, Row
<1>2. TypeOK
  BY <1>1, RowsAssumption, ClockAssumption DEF Init, TypeOK, Cursor
<1>3. \A i \in Ids : row[i].status \notin Shown
  BY <1>1, RowsAssumption DEF Init
<1> QED BY <1>2, <1>3 DEF FeedInv, PassedIsCopied

LEMMA FetchStep == FeedInv /\ Fetch => FeedInv'
<1> SUFFICES ASSUME FeedInv, Fetch PROVE FeedInv'
  OBVIOUS
<1>0. TypeOK /\ PassedIsCopied
  BY DEF FeedInv
<1> USE <1>0
<1>1. PICK last \in Page :
        /\ \A i \in Page : i = last \/ Precedes(i, last)
        /\ cursor' = [at |-> row[last].at, id |-> last]
        /\ copy' = [i \in Ids |-> IF i \in Page THEN row[i].status ELSE copy[i]]
        /\ late' = late \ Page
        /\ UNCHANGED <<clock, row, writer>>
  BY DEF Fetch
<1>2. Page \subseteq Matching /\ Matching \subseteq Ids
  BY DEF Page, Matching
<1>3. \A j \in Ids : row[j] \in Row
  BY DEF TypeOK
<1>4. TypeOK'
  <2>1. cursor' \in Cursor
    <3>1. last \in Ids
      BY <1>1, <1>2
    <3>2. row[last].at \in 0 .. MaxClock /\ last \in 0 .. Rows
      BY <1>3, <3>1, RowsAssumption DEF Row, Ids
    <3> QED BY <1>1, <3>2 DEF Cursor
  <2>2. copy' \in [Ids -> Statuses \cup {"absent"}]
    BY <1>1, <1>3 DEF TypeOK, Row
  <2> QED BY <1>1, <2>1, <2>2 DEF TypeOK
<1>5. ASSUME NEW i \in Ids,
             row'[i].status \in Shown, ~Follows(row[i], i)', i \notin late'
      PROVE  copy'[i] = row'[i].status
  <2>1. CASE i \in Page
    BY <1>1, <2>1
  <2>2. CASE i \notin Page
    <3>1. copy'[i] = copy[i] /\ row'[i] = row[i] /\ i \notin late
      BY <1>1, <1>5, <2>2
    <3>2. CASE ~Follows(row[i], i)
      BY <1>5, <3>1, <3>2 DEF PassedIsCopied
    <3>3. CASE Follows(row[i], i)
      <4>1. i \in Matching
        BY <1>5, <3>1, <3>3 DEF Matching
      <4>2. ~(row[i].at > row[last].at \/ (row[i].at = row[last].at /\ i >= last))
        BY <1>1, <1>5 DEF Follows
      <4>3. row[i].at \in Nat /\ row[last].at \in Nat /\ i \in Nat /\ last \in Nat
        <5>1. last \in Ids /\ row[i] \in Row /\ row[last] \in Row
          BY <1>2, <1>3
        <5> QED BY <5>1, RowsAssumption, ClockAssumption DEF Row, Ids
      <4>4. Precedes(i, last)
        BY <4>2, <4>3 DEF Precedes
      <4> QED BY <4>1, <4>4, <2>2, FeedPageHasNoGap
    <3> QED BY <3>2, <3>3
  <2> QED BY <2>1, <2>2
<1> QED BY <1>4, <1>5 DEF FeedInv, PassedIsCopied

LEMMA CommitStep ==
  ASSUME FeedInv, NEW w \in Writers, Commit(w)
  PROVE  FeedInv'
<1> DEFINE u == writer[w]
           r == Stamped(row[u.id], u)
<1>0. TypeOK /\ PassedIsCopied
  BY DEF FeedInv
<1> USE <1>0
<1>1. u # NoWrite
  BY DEF Commit
<1>2. u \in Write /\ u.id \in Ids
  BY <1>1, WriterType
<1>3. row[u.id] \in Row
  BY <1>2 DEF TypeOK
<1>4. r \in Row
  BY <1>2, <1>3, StampedRow
<1>5. /\ row' = [row EXCEPT ![u.id] = r]
      /\ writer' = [writer EXCEPT ![w] = NoWrite]
      /\ late' = IF r = row[u.id] THEN late
                 ELSE IF Follows(r, u.id) THEN late \ {u.id} ELSE late \cup {u.id}
      /\ clock' = clock /\ cursor' = cursor /\ copy' = copy
  BY DEF Commit
<1> HIDE DEF u, r
<1>6. row' \in [Ids -> Row] /\ \A i \in Ids : row'[i] = IF i = u.id THEN r ELSE row[i]
  BY <1>2, <1>4, <1>5 DEF TypeOK
<1>7. TypeOK'
  BY <1>2, <1>5, <1>6 DEF TypeOK
<1>8. ASSUME NEW i \in Ids,
             row'[i].status \in Shown, ~Follows(row[i], i)', i \notin late'
      PROVE  copy'[i] = row'[i].status
  <2>1. ~Follows(row'[i], i)
    BY <1>5, <1>8 DEF Follows
  <2>2. row'[i] = row[i] /\ i \notin late
    <3>1. CASE i # u.id
      BY <3>1, <1>5, <1>6, <1>8
    <3>2. CASE i = u.id
      BY <3>2, <2>1, <1>5, <1>6, <1>8
    <3> QED BY <3>1, <3>2
  <2> QED BY <1>5, <1>8, <2>1, <2>2 DEF PassedIsCopied
<1> QED BY <1>7, <1>8 DEF FeedInv, PassedIsCopied

LEMMA FeedStep == FeedInv /\ [Next]_vars => FeedInv'
<1> SUFFICES ASSUME FeedInv, [Next]_vars PROVE FeedInv'
  OBVIOUS
<1>0. TypeOK /\ PassedIsCopied
  BY DEF FeedInv
<1>1. ASSUME UNCHANGED <<row, cursor, copy, late>> PROVE PassedIsCopied'
  BY <1>0, <1>1 DEF PassedIsCopied, Follows
<1>2. CASE Fetch
  BY <1>2, FetchStep
<1>3. CASE Tick
  <2>1. clock' \in 1 .. MaxClock
    BY <1>0, <1>3, ClockAssumption DEF Tick, TypeOK
  <2> QED BY <1>0, <1>1, <1>3, <2>1 DEF Tick, TypeOK, FeedInv
<1>4. ASSUME NEW w \in Writers, Commit(w) PROVE FeedInv'
  BY <1>4, CommitStep
<1>5. ASSUME NEW w \in Writers, Rollback(w) PROVE FeedInv'
  <2>1. writer' \in [Writers -> {NoWrite} \cup Write]
    BY <1>0, <1>5 DEF Rollback, TypeOK
  <2> QED BY <1>0, <1>1, <1>5, <2>1 DEF Rollback, TypeOK, FeedInv
<1>6. ASSUME NEW w \in Writers, NEW i \in Ids, Begin(w, i) PROVE FeedInv'
  <2>1. PICK s \in Statuses, own \in 0 .. clock :
          writer' = [writer EXCEPT ![w] = [id |-> i, status |-> s, at |-> clock, own |-> own]]
    BY <1>6 DEF Begin
  <2>2. clock \in 1 .. MaxClock /\ own \in 0 .. MaxClock
    BY <1>0, <2>1, ClockAssumption DEF TypeOK
  <2>3. [id |-> i, status |-> s, at |-> clock, own |-> own] \in Write
    BY <2>2 DEF Write
  <2>4. writer' \in [Writers -> {NoWrite} \cup Write]
    BY <1>0, <2>1, <2>3 DEF TypeOK
  <2> QED BY <1>0, <1>1, <1>6, <2>4 DEF Begin, TypeOK, FeedInv
<1>7. CASE UNCHANGED vars
  BY <1>0, <1>1, <1>7 DEF vars, TypeOK, FeedInv
<1> QED BY <1>2, <1>3, <1>4, <1>5, <1>6, <1>7 DEF Next

---------------------------------------------------------------------------
(* Together with TypeOK this is inductive; both are properties of the runs.*)
LEMMA FeedInvariant == Spec => []FeedInv
  BY FeedInit, FeedStep, PTL DEF Spec

(* The table, its transactions and the reader always have their types.     *)
THEOREM TypeCorrect == Spec => []TypeOK
<1>1. FeedInv => TypeOK
  BY DEF FeedInv
<1> QED BY <1>1, FeedInvariant, PTL

(* Whatever the number of rows that change in one tick and the size of the *)
(* pages, the reader has seen the status of every row it has passed, except*)
(* of those whose last change only appeared behind it.                     *)
THEOREM PassedRowsAreCopied == Spec => []PassedIsCopied
<1>1. FeedInv => PassedIsCopied
  BY DEF FeedInv
<1> QED BY <1>1, FeedInvariant, PTL

(* FullPagesMoveOn: for any page size above one and however many rows have *)
(* the same time, a full page has a last row and its place is behind the   *)
(* cursor, so the next request of the reader begins further on.            *)
THEOREM FeedMovesOn == Spec => []FullPagesMoveOn
<1>1. TypeOK => FullPagesMoveOn
  <2> SUFFICES ASSUME TypeOK, Limit > 1, Cardinality(Page) = Limit
               PROVE  \E last \in Page :
                         /\ \A i \in Page : i = last \/ Precedes(i, last)
                         /\ row[last].at > cursor.at \/ (row[last].at = cursor.at /\ last > cursor.id)
    BY DEF FullPagesMoveOn
  <2>1. Page \in SUBSET Ids /\ \A i \in Page : Follows(row[i], i)
    BY DEF Page, Matching
  <2>2. Page # {}
    BY FS_EmptySet, LimitAssumption
  <2>3. PICK last \in Page : \A i \in Page : i = last \/ Precedes(i, last)
    BY <2>1, <2>2, LastExists
  <2>4. PICK i \in Page : i # last
    <3>1. Page # {last}
      BY FS_Singleton, LimitAssumption
    <3> QED BY <2>2, <3>1
  <2>5. Precedes(i, last) /\ Follows(row[i], i)
    BY <2>1, <2>3, <2>4
  <2>6. /\ row[i].at \in Int /\ row[last].at \in Int /\ i \in Int /\ last \in Int
        /\ cursor.at \in Int /\ cursor.id \in Int
    BY <2>1, <2>3, <2>4, RowsAssumption, ClockAssumption DEF TypeOK, Row, Cursor, Ids
  <2>7. row[last].at > cursor.at \/ (row[last].at = cursor.at /\ last > cursor.id)
    BY <2>5, <2>6 DEF Precedes, Follows
  <2> QED BY <2>3, <2>7
<1> QED BY <1>1, TypeCorrect, PTL

---------------------------------------------------------------------------
(* Finite sets of row numbers.                                             *)

LEMMA IdsAreFinite ==
  ASSUME NEW S \in SUBSET ListIds
  PROVE  IsFiniteSet(S) /\ Cardinality(S) \in Nat
<1>1. IsFiniteSet(ListIds)
  BY ListRowsAssumption, FS_Interval DEF ListIds
<1> QED BY <1>1, FS_Subset, FS_CardinalityType

(* The rows that are newer than a row, and those newer than an older one.  *)
LEMMA NewerRows ==
  ASSUME NEW S \in SUBSET ListIds, NEW i \in ListIds, NEW k \in ListIds, i > k
  PROVE  /\ {j \in S : j > i} \subseteq {j \in S : j > k}
         /\ {j \in S : j > k} \in SUBSET ListIds
         /\ ~(i > i)
<1>1. i \in Int /\ k \in Int /\ \A j \in S : j \in Int
  BY ListRowsAssumption DEF ListIds
<1>2. ASSUME NEW j \in S, j > i PROVE j > k
  BY <1>1, <1>2
<1>3. ~(i > i)
  BY <1>1
<1>4. {j \in S : j > i} \subseteq {j \in S : j > k}
  BY <1>2, Zenon
<1> QED BY <1>3, <1>4

(* A set of rows that is not empty has a newest one.                       *)
LEMMA NewestExists ==
  ASSUME NEW S \in SUBSET ListIds, S # {}
  PROVE  \E i \in S : \A j \in S : j <= i
<1>1. ListRows \in Nat /\ S \in SUBSET (0 .. ListRows)
  BY ListRowsAssumption DEF ListIds
<1> QED BY <1>1, GreatestExists

---------------------------------------------------------------------------
(* What orderBy and take make of the rows that are selected.               *)

(* What is newer than a row of the page is on the page.                    *)
LEMMA PageHasNoGap ==
  ASSUME NEW C \in SUBSET ListIds, NEW n \in Nat,
         NEW last \in FirstOf(C, n), NEW i \in C, i > last
  PROVE  i \in FirstOf(C, n)
<1> DEFINE newer(k) == {j \in C : j > k}
<1>1. last \in ListIds /\ Cardinality(newer(last)) < n
  BY DEF FirstOf
<1>2. newer(i) \subseteq newer(last) /\ newer(last) \in SUBSET ListIds
  BY <1>1, NewerRows
<1> HIDE DEF newer
<1>3. /\ Cardinality(newer(i)) <= Cardinality(newer(last))
      /\ Cardinality(newer(i)) \in Nat /\ Cardinality(newer(last)) \in Nat
  BY <1>2, IdsAreFinite, FS_Subset
<1>4. Cardinality(newer(i)) < n
  BY <1>1, <1>3
<1> QED BY <1>4 DEF FirstOf, newer

(* A short page is all there is.                                           *)
LEMMA ShortPageIsAll ==
  ASSUME NEW C \in SUBSET ListIds, NEW n \in Nat, ~(Cardinality(FirstOf(C, n)) >= n)
  PROVE  FirstOf(C, n) = C
<1> DEFINE page == FirstOf(C, n)
           newer(k) == {j \in C : j > k}
<1>1. page \in SUBSET C
  BY DEF FirstOf
<1>2. SUFFICES ASSUME C \ page # {} PROVE FALSE
  BY <1>1
<1>3. PICK i \in C \ page : \A j \in C \ page : j <= i
  BY <1>2, NewestExists
<1>4. newer(i) \subseteq page
  <2>1. \A j \in C : j \in Int
    BY ListRowsAssumption DEF ListIds
  <2>2. \A j \in newer(i) : ~(j <= i)
    BY <1>3, <2>1
  <2> QED BY <1>3, <2>2
<1>5. ~(Cardinality(newer(i)) < n)
  BY <1>3 DEF FirstOf
<1> HIDE DEF newer, page
<1>6. page \in SUBSET ListIds /\ newer(i) \in SUBSET ListIds
  BY <1>1, <1>4
<1>7. /\ Cardinality(newer(i)) <= Cardinality(page)
      /\ Cardinality(newer(i)) \in Nat /\ Cardinality(page) \in Nat
  BY <1>4, <1>6, IdsAreFinite, FS_Subset
<1>8. ~(Cardinality(page) >= n)
  BY DEF page
<1> QED BY <1>5, <1>7, <1>8

(* What was found and is newer than a row of the answer is in the answer.  *)
LEMMA AnswerHasNoGap ==
  ASSUME WalkTypeOK, NEW last \in Answer, NEW i \in request.found, i > last
  PROVE  i \in Answer
<1> DEFINE newer(S, k) == {j \in S : j > k}
           found == request.found
           twice == request.twice
<1>1. found \in SUBSET ListIds /\ twice \in SUBSET ListIds
  BY DEF WalkTypeOK, Request
<1>2. last \in ListIds /\ i \in ListIds
  BY <1>1 DEF Answer
<1>3. Cardinality(newer(found, last)) + Cardinality(newer(twice, last)) < AnswerLimit
  BY DEF Answer
<1>4. ASSUME NEW S \in SUBSET ListIds
      PROVE  /\ Cardinality(newer(S, i)) <= Cardinality(newer(S, last))
             /\ Cardinality(newer(S, i)) \in Nat /\ Cardinality(newer(S, last)) \in Nat
  <2>1. newer(S, i) \subseteq newer(S, last) /\ newer(S, last) \in SUBSET ListIds
    BY <1>2, NewerRows
  <2> HIDE DEF newer
  <2> QED BY <2>1, IdsAreFinite, FS_Subset
<1> HIDE DEF newer
<1>5. Cardinality(newer(found, i)) + Cardinality(newer(twice, i)) < AnswerLimit
  BY <1>1, <1>3, <1>4, AnswerLimitAssumption
<1> QED BY <1>5 DEF Answer, newer

(* A short answer is all that was found.                                   *)
LEMMA ShortAnswerIsAll ==
  ASSUME WalkTypeOK, Length(request) < AnswerLimit
  PROVE  Answer = request.found
<1> DEFINE newer(S, k) == {j \in S : j > k}
<1>1. request.found \in SUBSET ListIds /\ request.twice \in SUBSET ListIds
  BY DEF WalkTypeOK, Request
<1>2. ASSUME NEW S \in SUBSET ListIds, NEW i \in ListIds
      PROVE  /\ Cardinality(newer(S, i)) <= Cardinality(S)
             /\ Cardinality(newer(S, i)) \in Nat /\ Cardinality(S) \in Nat
  <2>1. newer(S, i) \subseteq S
    OBVIOUS
  <2> HIDE DEF newer
  <2> QED BY <2>1, IdsAreFinite, FS_Subset
<1> HIDE DEF newer
<1>3. ASSUME NEW i \in request.found
      PROVE  Cardinality(newer(request.found, i)) + Cardinality(newer(request.twice, i))
                 < AnswerLimit
  BY <1>1, <1>2, AnswerLimitAssumption DEF Length
<1> QED BY <1>3 DEF Answer, newer

---------------------------------------------------------------------------
(* The inductive invariant.                                                *)

(* What the walk has passed it was given.                                  *)
PassedIsGiven == \A i \in steady : i > from => i \in given

(* The request found what lies between its two cursors; only from the     *)
(* second page on can a row be found again, and never the one it began     *)
(* with.  The inbox list has no second page.                               *)
ReadIsFound ==
    at \in {"reading", "answering"} =>
        /\ request.cursor <= from
        /\ \A i \in request.found : request.cursor <= i /\ i <= from
        /\ \A i \in steady : request.cursor < i /\ i <= from => i \in request.found
        /\ from \notin request.twice
        /\ at = "reading" /\ request.cursor = from => request.found = {}
        /\ at = "reading" /\ list = "inbox" => request.cursor = from

(* An answer that will be short has all there is, up to a cursor whose row *)
(* is gone.                                                                *)
ShortIsAll ==
    at = "answering" /\ Length(request) < AnswerLimit =>
        \A i \in steady : i <= from =>
            \/ i \in request.found
            \/ request.cursor \in gone /\ i < request.cursor

WalkInv ==
    WalkTypeOK /\ WalkIsComplete /\ PassedIsGiven /\ ReadIsFound /\ ShortIsAll

LEMMA NoFindingsType ==
  ASSUME NEW c \in Cursors
  PROVE  NoFindings(c) \in Request
  BY DEF NoFindings, Request

LEMMA WalkBegins == WalkInit => WalkInv
<1> SUFFICES ASSUME WalkInit PROVE WalkInv
  OBVIOUS
<1>1. ListRows + 1 \in Cursors
  BY ListRowsAssumption DEF Cursors
<1>2. WalkTypeOK
  <2>1. request \in Request /\ request.twice = {}
    BY <1>1, NoFindingsType DEF WalkInit, NoFindings
  <2> QED BY <1>1, <2>1 DEF WalkInit, WalkTypeOK
<1>3. PassedIsGiven
  BY ListRowsAssumption DEF WalkInit, PassedIsGiven, ListIds
<1> QED BY <1>2, <1>3 DEF WalkInit, WalkInv, WalkIsComplete, ReadIsFound, ShortIsAll

LEMMA RowChangesStep ==
  ASSUME WalkInv, NEW i \in ListIds, RowChanges(i)
  PROVE  WalkInv'
<1>1. /\ steady' \subseteq steady
      /\ UNCHANGED <<list, gone, given, from, at, request>>
  BY DEF RowChanges
<1> QED
  BY <1>1 DEF WalkInv, WalkTypeOK, WalkIsComplete, PassedIsGiven, ReadIsFound, ShortIsAll, Length

LEMMA SourceDeletedStep ==
  ASSUME WalkInv, NEW rows \in SourceRows, SourceDeleted(rows)
  PROVE  WalkInv'
<1>1. /\ steady' \subseteq steady /\ gone \subseteq gone' /\ steady' \cap rows = {}
      /\ gone' = gone \cup rows
      /\ UNCHANGED <<list, given, from, at, request>>
  BY DEF SourceDeleted
<1>2. rows \subseteq ListIds
  BY ListRowsAssumption DEF ListIds
<1>3. WalkTypeOK'
  BY <1>1, <1>2 DEF WalkInv, WalkTypeOK
<1> QED
  BY <1>1, <1>3 DEF WalkInv, WalkIsComplete, PassedIsGiven, ReadIsFound, ShortIsAll, Length

LEMMA AskStep == WalkInv /\ Ask => WalkInv'
<1> SUFFICES ASSUME WalkInv, Ask PROVE WalkInv'
  OBVIOUS
<1>1. /\ from \in Cursors /\ at' = "reading" /\ request' = NoFindings(from)
      /\ UNCHANGED <<list, steady, gone, given, from>>
  BY DEF Ask, WalkInv, WalkTypeOK
<1>2. request' \in Request /\ request'.twice = {} /\ request'.found = {} /\ request'.cursor = from
  BY <1>1, NoFindingsType DEF NoFindings
<1>3. from \in Int
  BY <1>1, ListRowsAssumption DEF Cursors
<1>4. WalkTypeOK'
  BY <1>1, <1>2 DEF WalkInv, WalkTypeOK
<1>5. ReadIsFound'
  <2>1. \A i \in steady : ~(from < i /\ i <= from)
    BY <1>3, ListRowsAssumption DEF WalkInv, WalkTypeOK, ListIds
  <2> QED BY <1>1, <1>2, <1>3, <2>1 DEF ReadIsFound
<1> QED BY <1>1, <1>4, <1>5 DEF WalkInv, WalkIsComplete, PassedIsGiven, ShortIsAll

LEMMA WalkAgainStep == WalkInv /\ WalkAgain => WalkInv'
<1> SUFFICES ASSUME WalkInv, WalkAgain PROVE WalkInv'
  OBVIOUS
<1>1. ListRows + 1 \in Cursors
  BY ListRowsAssumption DEF Cursors
<1>2. WalkTypeOK'
  BY <1>1 DEF WalkAgain, WalkInv, WalkTypeOK
<1>3. PassedIsGiven'
  BY ListRowsAssumption DEF WalkAgain, PassedIsGiven, ListIds
<1> QED BY <1>2, <1>3 DEF WalkAgain, WalkInv, WalkIsComplete, ReadIsFound, ShortIsAll

LEMMA RequestFailsStep == WalkInv /\ RequestFails => WalkInv'
  BY DEF RequestFails, WalkInv, WalkTypeOK, WalkIsComplete, PassedIsGiven, ReadIsFound, ShortIsAll

---------------------------------------------------------------------------
(* A page is read.                                                         *)

LEMMA ReadPageStep ==
  WalkInv /\ ReadPage => WalkInv' /\ (at' = "reading" => request'.cursor < request.cursor)
<1> SUFFICES ASSUME WalkInv, ReadPage
             PROVE  WalkInv' /\ (at' = "reading" => request'.cursor < request.cursor)
  OBVIOUS
<1>0. /\ WalkTypeOK /\ PassedIsGiven /\ ReadIsFound /\ at = "reading"
      /\ UNCHANGED <<list, gone, given, from>>
  BY DEF WalkInv, ReadPage
<1> DEFINE c == request.cursor
<1>1. PICK others \in SUBSET (ListIds \ (steady \cup gone)) :
        LET page == PageFrom(c, steady \cup others)
        IN
        \E failed \in SUBSET page, last \in page \cup {c} :
           LET r == FoundIn(page, page \ failed, last) IN
           /\ list = "inbox" => failed = {}
           /\ \A i \in page : last <= i
           /\ request' = r
           /\ at' = IF ReadsOn(page, r) THEN "reading" ELSE "answering"
           /\ steady' = steady \ failed
  BY DEF ReadPage
<1> DEFINE S == {i \in steady \cup others : i <= c}
           page == PageFrom(c, steady \cup others)
<1>2. PICK failed \in SUBSET page, last \in page \cup {c} :
        LET r == FoundIn(page, page \ failed, last) IN
        /\ list = "inbox" => failed = {}
        /\ \A i \in page : last <= i
        /\ request' = r
        /\ at' = IF ReadsOn(page, r) THEN "reading" ELSE "answering"
        /\ steady' = steady \ failed
  BY <1>1
<1> DEFINE kept == page \ failed
           r == FoundIn(page, kept, last)
<1>3. /\ request' = r /\ steady' = steady \ failed
      /\ at' = IF ReadsOn(page, r) THEN "reading" ELSE "answering"
      /\ list = "inbox" => failed = {}
      /\ \A i \in page : last <= i
  BY <1>2
<1>4. /\ r.cursor = last /\ r.found = request.found \cup kept
      /\ r.twice = request.twice \cup (request.found \cap kept)
  BY DEF FoundIn
<1>5. /\ c \in Cursors /\ from \in Cursors /\ request \in Request
      /\ request.found \in SUBSET ListIds /\ request.twice \in SUBSET request.found
      /\ steady \in SUBSET ListIds /\ steady \cap gone = {}
  BY <1>0 DEF WalkTypeOK, Request
<1>6. /\ S \in SUBSET ListIds /\ page \in SUBSET S /\ PageRows \in Nat
      /\ \A i \in S : i <= c
      /\ \A i \in steady : i <= c => i \in S
      /\ c \in gone => page = {}
      /\ c \notin gone => page = FirstOf(S, PageRows)
  BY <1>5, AnswerLimitAssumption DEF PageFrom, FirstOf, PageRows
<1> HIDE DEF S, page
<1>7. page \in SUBSET ListIds /\ \A i \in page : i <= c
  BY <1>6
<1>8. /\ c \in Int /\ from \in Int /\ ListIds \subseteq Int /\ ListIds \subseteq Cursors
      /\ last \in Cursors /\ last \in Int /\ last <= c /\ kept \in SUBSET ListIds
  <2>1. c \in Int /\ from \in Int /\ ListIds \subseteq Int /\ ListIds \subseteq Cursors
        /\ Cursors \subseteq Int
    BY <1>5, ListRowsAssumption DEF ListIds, Cursors
  <2>2. last \in Cursors /\ last <= c
    BY <1>5, <1>7, <2>1
  <2> QED BY <1>7, <2>1, <2>2
<1>9. r \in Request
  BY <1>4, <1>5, <1>8 DEF FoundIn, Request
<1> HIDE DEF r, kept
<1>10. kept = page \ failed
  BY DEF kept
<1>11. WalkTypeOK'
  BY <1>0, <1>3, <1>4, <1>5, <1>9 DEF WalkTypeOK
<1>12. /\ c <= from
       /\ \A i \in request.found : c <= i /\ i <= from
       /\ \A i \in steady : c < i /\ i <= from => i \in request.found
       /\ from \notin request.twice
       /\ c = from => request.found = {}
       /\ list = "inbox" => c = from
  BY <1>0 DEF ReadIsFound
<1>13. \A i \in r.found : last <= i /\ i <= from
  <2>1. ASSUME NEW i \in request.found PROVE last <= i /\ i <= from
    <3>1. i \in ListIds /\ c <= i /\ i <= from
      BY <1>5, <1>12, <2>1
    <3>2. i \in Int
      BY <1>8, <3>1
    <3> QED BY <1>8, <3>1, <3>2
  <2>2. ASSUME NEW i \in kept PROVE last <= i /\ i <= from
    <3>1. i \in page /\ i \in Int
      BY <1>7, <1>8, <1>10, <2>2
    <3>2. last <= i /\ i <= c
      BY <1>3, <1>7, <3>1
    <3> QED BY <1>8, <1>12, <3>1, <3>2
  <2> QED BY <1>4, <2>1, <2>2
<1>14. ASSUME NEW i \in steady', last < i, i <= from PROVE i \in r.found
  <2>1. i \in steady /\ i \notin failed /\ i \in ListIds /\ i \in Int
    BY <1>3, <1>5, <1>8, <1>14
  <2>2. CASE c < i
    BY <1>4, <1>12, <1>14, <2>1, <2>2
  <2>3. CASE i <= c
    <3>1. i \in S /\ last # c
      BY <1>6, <1>8, <1>14, <2>1, <2>3
    <3>2. last \in page
      BY <3>1
    <3>3. i \in page
      <4>1. i > last
        BY <1>8, <1>14, <2>1
      <4>2. page = FirstOf(S, PageRows)
        BY <1>6, <3>2
      <4> QED BY <1>6, <3>1, <3>2, <4>1, <4>2, PageHasNoGap
    <3> QED BY <1>4, <1>10, <2>1, <3>3
  <2> QED BY <1>8, <2>1, <2>2, <2>3
<1>15. from \notin r.twice
  <2>1. ASSUME from \in request.found, from \in kept PROVE FALSE
    <3>1. from <= c
      BY <1>7, <1>10, <2>1
    <3> QED BY <1>8, <1>12, <2>1, <3>1
  <2> QED BY <1>4, <1>12, <2>1
<1>16. ASSUME ReadsOn(page, r) PROVE last < c /\ list # "inbox"
  <2>1. Cardinality(page) >= 2 * AnswerLimit /\ list = "entries"
    BY <1>16 DEF ReadsOn, PageRows
  <2>2. ASSUME last = c PROVE FALSE
    <3>1. page \in SUBSET {c}
      BY <1>3, <1>7, <1>8, <2>2
    <3>2. Cardinality(page) <= 1 /\ Cardinality(page) \in Nat
      <4>1. IsFiniteSet({c}) /\ Cardinality({c}) = 1
        BY FS_Singleton
      <4>2. Cardinality(page) <= Cardinality({c})
        BY <3>1, <4>1, FS_Subset
      <4> QED BY <1>7, <4>1, <4>2, IdsAreFinite
    <3> QED BY <2>1, <3>2, AnswerLimitAssumption
  <2> QED BY <1>8, <2>1, <2>2
<1>17. ReadIsFound'
  <2>1. last <= from
    BY <1>8, <1>12
  <2>2. ASSUME at' = "reading" PROVE last # from /\ list # "inbox"
    <3>1. last < c /\ list # "inbox"
      BY <1>3, <1>16, <2>2
    <3> QED BY <1>8, <1>12, <3>1
  <2> QED BY <1>0, <1>3, <1>4, <1>13, <1>14, <1>15, <2>1, <2>2 DEF ReadIsFound
<1>18. ShortIsAll'
  <2>1. SUFFICES ASSUME at' = "answering", Length(r) < AnswerLimit,
                        NEW i \in steady', i <= from
                 PROVE  i \in r.found \/ (r.cursor \in gone /\ i < r.cursor)
    BY <1>0, <1>3 DEF ShortIsAll, Length
  <2>2. i \in steady /\ i \notin failed /\ i \in Int
    BY <1>3, <1>5, <1>8, <2>1
  <2>3. ~ReadsOn(page, r)
    BY <1>3, <2>1
  <2>4. CASE c < i
    BY <1>4, <1>12, <2>1, <2>2, <2>4
  <2>5. CASE i <= c /\ c \in gone
    <3>1. last = c /\ i # c
      BY <1>5, <1>6, <2>2, <2>5
    <3> QED BY <1>4, <1>8, <2>2, <2>5, <3>1
  <2>6. CASE i <= c /\ c \notin gone
    <3>1. i \in S /\ page = FirstOf(S, PageRows)
      BY <1>6, <2>2, <2>6
    <3>2. CASE list = "entries"
      <4>1. ~(Cardinality(page) >= PageRows)
        BY <2>1, <2>3, <3>2 DEF ReadsOn
      <4>2. page = S
        BY <1>6, <3>1, <4>1, ShortPageIsAll
      <4> QED BY <1>4, <1>10, <2>2, <3>1, <4>2
    <3>3. CASE list = "inbox"
      <4>1. kept \subseteq r.found /\ kept = page /\ r.found \in SUBSET ListIds
            /\ r.twice \in SUBSET ListIds
        BY <1>3, <1>4, <1>5, <1>8, <1>10, <3>3
      <4>2. /\ Cardinality(page) <= Cardinality(r.found) /\ Cardinality(page) \in Nat
            /\ Cardinality(r.found) \in Nat /\ Cardinality(r.twice) \in Nat
        BY <1>7, <4>1, IdsAreFinite, FS_Subset
      <4>3. Cardinality(page) < AnswerLimit
        BY <2>1, <4>2, AnswerLimitAssumption DEF Length
      <4>4. ~(Cardinality(page) >= PageRows)
        BY <3>3, <4>2, <4>3, AnswerLimitAssumption DEF PageRows
      <4>5. page = S
        BY <1>6, <3>1, <4>4, ShortPageIsAll
      <4> QED BY <3>1, <4>1, <4>5
    <3> QED BY <1>0, <3>2, <3>3 DEF WalkTypeOK
  <2> QED BY <1>8, <2>2, <2>4, <2>5, <2>6
<1>19. WalkIsComplete'
  BY <1>3 DEF WalkIsComplete
<1>20. PassedIsGiven'
  BY <1>0, <1>3 DEF PassedIsGiven
<1>21. at' = "reading" => request'.cursor < request.cursor
  BY <1>3, <1>4, <1>16
<1> QED BY <1>11, <1>17, <1>18, <1>19, <1>20, <1>21 DEF WalkInv

---------------------------------------------------------------------------
(* An answer is given.                                                     *)

LEMMA RespondStep == WalkInv /\ Respond => WalkInv'
<1> SUFFICES ASSUME WalkInv, Respond PROVE WalkInv'
  OBVIOUS
<1>0. /\ WalkTypeOK /\ PassedIsGiven /\ ReadIsFound /\ ShortIsAll /\ at = "answering"
      /\ given' = given \cup Answer /\ UNCHANGED <<list, steady, gone, request>>
  BY DEF WalkInv, Respond
<1>1. /\ request.found \in SUBSET ListIds /\ Answer \in SUBSET request.found
      /\ steady \in SUBSET ListIds
  BY <1>0 DEF WalkTypeOK, Request, Answer
<1>2. ListIds \subseteq Cursors /\ Cursors \subseteq Int /\ from \in Cursors
  BY <1>0, ListRowsAssumption DEF ListIds, Cursors, WalkTypeOK
<1>3. CASE Length(request) < AnswerLimit /\ at' = "arrived" /\ UNCHANGED from
  <2>1. \A i \in steady : i \in given' \/ (request.cursor \in gone /\ i < request.cursor)
    <3>1. ASSUME NEW i \in steady, i > from PROVE i \in given'
      BY <1>0, <3>1 DEF PassedIsGiven
    <3>2. ASSUME NEW i \in steady, i <= from
          PROVE  i \in given' \/ (request.cursor \in gone /\ i < request.cursor)
      BY <1>0, <1>3, <3>2, ShortAnswerIsAll DEF ShortIsAll
    <3> QED BY <1>1, <1>2, <3>1, <3>2
  <2>3. PassedIsGiven'
    BY <1>0, <1>3 DEF PassedIsGiven
  <2>2. WalkTypeOK'
    BY <1>0, <1>1, <1>3 DEF WalkTypeOK
  <2> QED
    BY <1>0, <1>3, <2>1, <2>2, <2>3 DEF WalkInv, WalkIsComplete, ReadIsFound, ShortIsAll
<1>4. CASE /\ Length(request) >= AnswerLimit /\ at' = "walking"
           /\ from' \in Answer /\ \A i \in Answer : from' <= i
  <2>1. from' \in Cursors /\ from' \in Int /\ from' \in request.found /\ from' \in Answer
    BY <1>1, <1>2, <1>4
  <2>2. ASSUME NEW i \in steady, i > from' PROVE i \in given'
    <3>1. i \in Int
      BY <1>1, <1>2
    <3>2. CASE i > from
      BY <1>0, <3>2 DEF PassedIsGiven
    <3>3. CASE i <= from
      <4>1. request.cursor <= from' /\ request.cursor \in Int
        BY <1>0, <1>2, <2>1 DEF ReadIsFound, WalkTypeOK, Request
      <4>2. i \in request.found
        BY <1>0, <2>1, <2>2, <3>1, <3>3, <4>1 DEF ReadIsFound
      <4>3. i \in Answer
        BY <1>0, <2>1, <2>2, <4>2, AnswerHasNoGap
      <4> QED BY <1>0, <4>3
    <3> QED BY <1>2, <3>1, <3>2, <3>3
  <2>3. WalkTypeOK'
    BY <1>0, <1>1, <1>4, <2>1 DEF WalkTypeOK
  <2> QED
    BY <1>0, <1>4, <2>2, <2>3 DEF WalkInv, WalkIsComplete, PassedIsGiven, ReadIsFound, ShortIsAll
<1> QED BY <1>3, <1>4 DEF Respond

(* A full answer has a second row, as the row it began with is found once. *)
LEMMA FullAnswerMovesOn ==
  ASSUME WalkInv, Respond, at' = "walking"
  PROVE  from' < from
<1>0. /\ WalkTypeOK /\ ReadIsFound /\ at = "answering"
      /\ Length(request) >= AnswerLimit
      /\ from' \in Answer /\ \A i \in Answer : from' <= i
  BY DEF WalkInv, Respond
<1> DEFINE found == request.found
           twice == request.twice
           rest  == found \ {from}
<1>1. /\ found \in SUBSET ListIds /\ Answer \in SUBSET found /\ twice \in SUBSET found
      /\ from \notin twice
      /\ \A i \in found : i <= from
  BY <1>0 DEF WalkTypeOK, Request, Answer, ReadIsFound
<1>2. ListIds \subseteq Int /\ from \in Int
  BY <1>0, ListRowsAssumption DEF ListIds, Cursors, WalkTypeOK
<1>3. SUFFICES ASSUME from' = from PROVE FALSE
  <2>1. from' \in found
    BY <1>0, <1>1
  <2>2. from' <= from /\ from' \in Int
    BY <1>1, <1>2, <2>1
  <2> QED BY <1>2, <2>2
<1>4. rest # {}
  <2>1. SUFFICES ASSUME found = {from} PROVE FALSE
    BY <1>0, <1>1, <1>3
  <2>2. twice = {}
    BY <1>1, <2>1
  <2>3. Cardinality(found) = 1 /\ Cardinality(twice) = 0
    BY <2>1, <2>2, FS_Singleton, FS_EmptySet
  <2> QED BY <1>0, <2>3, AnswerLimitAssumption DEF Length
<1>5. PICK i \in rest : \A j \in rest : j <= i
  BY <1>1, <1>4, NewestExists
<1>6. i \in found /\ i < from
  <2>1. i \in found /\ i # from
    BY <1>5
  <2>2. i <= from /\ i \in Int
    BY <1>1, <1>2, <2>1
  <2> QED BY <1>2, <2>1, <2>2
<1> DEFINE newer(T) == {j \in T : j > i}
<1>7. newer(found) \subseteq {from}
  <2>1. ASSUME NEW j \in found, j > i, j # from PROVE FALSE
    <3>1. j \in rest
      BY <2>1
    <3>2. j <= i /\ j \in Int /\ i \in Int
      BY <1>1, <1>2, <1>5, <1>6, <3>1
    <3> QED BY <2>1, <3>2
  <2> QED BY <2>1
<1>8. newer(twice) = {}
  BY <1>1, <1>7
<1> HIDE DEF newer
<1>9. Cardinality(newer(found)) <= 1 /\ Cardinality(newer(found)) \in Nat
  <2>1. newer(found) \in SUBSET ListIds
    BY <1>1 DEF newer
  <2>2. IsFiniteSet({from}) /\ Cardinality({from}) = 1
    BY FS_Singleton
  <2>3. Cardinality(newer(found)) <= Cardinality({from})
    BY <1>7, <2>2, FS_Subset
  <2> QED BY <2>1, <2>2, <2>3, IdsAreFinite
<1>10. Cardinality(newer(twice)) = 0
  BY <1>8, FS_EmptySet
<1>11. i \in Answer
  BY <1>6, <1>9, <1>10, AnswerLimitAssumption DEF Answer, newer
<1>12. from' <= i /\ i \in Int
  BY <1>0, <1>1, <1>2, <1>6, <1>11
<1> QED BY <1>2, <1>3, <1>6, <1>12

---------------------------------------------------------------------------
LEMMA WalkStep == WalkInv /\ [WalkNext]_walkVars => WalkInv'
<1> SUFFICES ASSUME WalkInv, [WalkNext]_walkVars PROVE WalkInv'
  OBVIOUS
<1>1. CASE UNCHANGED walkVars
  BY <1>1 DEF walkVars, WalkInv, WalkTypeOK, WalkIsComplete, PassedIsGiven, ReadIsFound,
     ShortIsAll, Length
<1>2. CASE WalkNext
  BY <1>2, RowChangesStep, SourceDeletedStep, AskStep, WalkAgainStep, ReadPageStep, RespondStep, RequestFailsStep
     DEF WalkNext, WalkMoves
<1> QED BY <1>1, <1>2

LEMMA WalkInvariant == WalkSpec => []WalkInv
  BY WalkBegins, WalkStep, PTL DEF WalkSpec

(* Every state of the walk is well typed.                                  *)
THEOREM WalkTypeCorrect == WalkSpec => []WalkTypeOK
<1>1. WalkInv => WalkTypeOK
  BY DEF WalkInv
<1> QED BY <1>1, WalkInvariant, PTL

(* A walk that is over was given every row that was selected throughout,   *)
(* however many rows there are, change, or fail to be updated: the cursor  *)
(* of getHealthCheckedRegistryEntries and the slice of its result agree.   *)
(* Only a cursor whose row is deleted with its source ends a walk early.   *)
THEOREM WalksAreComplete == WalkSpec => []WalkIsComplete
<1>1. WalkInv => WalkIsComplete
  BY DEF WalkInv
<1> QED BY <1>1, WalkInvariant, PTL

(* An answer that is not the last takes the walk further, and a page that  *)
(* is not a request's last the request, when answers may have two rows at  *)
(* least.                                                                  *)
THEOREM EveryAnswerMovesOn == WalkSpec => AnswersMoveOn
<1>1. WalkInv => [/\ Respond /\ at' = "walking" => from' < from
                  /\ ReadPage /\ at' = "reading" => request'.cursor < request.cursor]_walkVars
  BY FullAnswerMovesOn, ReadPageStep
<1> QED BY <1>1, WalkInvariant, PTL DEF AnswersMoveOn
=============================================================================
