------------------------------ MODULE DiffFeed ------------------------------
(***************************************************************************)
(* A diff feed: the rows of a table in the order in which their status     *)
(* changed, a page at a time, and a reader that keeps a copy of the table  *)
(* by asking for the page that begins at the last row of the page before.  *)
(* Registry entries and inbox registrations each have one; only the feed of*)
(* the latter can be asked for some statuses only, and only the health pass*)
(* over the latter sets statusUpdatedAt itself.                            *)
(*                                                                         *)
(* row is the database, writer its open transactions, cursor and copy are  *)
(* the reader's; late is a history variable.  A tick of the clock is the   *)
(* resolution of the column, a millisecond, in which many rows can change. *)
(***************************************************************************)
EXTENDS Integers, FiniteSets

CONSTANTS
    Rows,       \* how many rows the table may hold; row i has the i-th id
    Statuses,   \* what a row may have
    Shown,      \* the statuses the reader asks for
    Writers,    \* the transactions that are open at the same time
    Limit,      \* rows per page
    Restamps,   \* whether checks set statusUpdatedAt themselves
    MaxClock    \* where the clock stops (a bound, not in the code)

ASSUME RowsAssumption   == Rows \in Nat /\ Shown \subseteq Statuses /\ "absent" \notin Statuses
ASSUME LimitAssumption  == Limit \in Nat \ {0}
ASSUME ClockAssumption  == MaxClock \in Nat \ {0} /\ Restamps \in BOOLEAN

VARIABLES
    clock,      \* the time
    row,        \* row[i]: status and statusUpdatedAt of row i
    writer,     \* writer[w]: the update that w has begun
    cursor,     \* statusUpdatedAfter and cursorId of the next request
    copy,       \* copy[i]: the status of row i that the reader saw last
    late        \* the rows whose last change appeared behind the cursor

vars == <<clock, row, writer, cursor, copy, late>>

Ids == 1 .. Rows

(* Times begin at 1; cursorId 0: none was given.                           *)
Row    == [status : Statuses \cup {"absent"}, at : 0 .. MaxClock]
Write  == [id : Ids, status : Statuses, at : 1 .. MaxClock, own : 0 .. MaxClock]
Cursor == [at : 0 .. MaxClock, id : 0 .. Rows]

NoRow   == [status |-> "absent", at |-> 0]
NoWrite == [id |-> 0, status |-> "absent", at |-> 0, own |-> 0]

TypeOK ==
    /\ clock \in 1 .. MaxClock
    /\ row \in [Ids -> Row]
    /\ writer \in [Writers -> {NoWrite} \cup Write]
    /\ cursor \in Cursor
    /\ copy \in [Ids -> Statuses \cup {"absent"}]
    /\ late \subseteq Ids

Init ==
    /\ clock = 1
    /\ row = [i \in Ids |-> NoRow]
    /\ writer = [w \in Writers |-> NoWrite]
    /\ cursor = [at |-> 0, id |-> 0]
    /\ copy = [i \in Ids |-> "absent"]
    /\ late = {}

---------------------------------------------------------------------------
(* The query.                                                              *)

(* Mutant: rows that share the cursor's time are left out.                 *)
FollowsLaterOnly(r, i) == r.at > cursor.at

(* Mutant: the cursor's id is not compared.                                *)
FollowsSameTime(r, i) == r.at >= cursor.at

Follows(r, i) == r.at > cursor.at \/ (r.at = cursor.at /\ i >= cursor.id)

Matching == {i \in Ids : row[i].status \in Shown /\ Follows(row[i], i)}

(* Mutant: newest first within a time.                                     *)
PrecedesByIdDown(i, j) == row[i].at < row[j].at \/ (row[i].at = row[j].at /\ i > j)

Precedes(i, j) == row[i].at < row[j].at \/ (row[i].at = row[j].at /\ i < j)

Page == {i \in Matching : Cardinality({j \in Matching : Precedes(j, i)}) < Limit}

(* One request of the reader: the page, in one statement, and the cursor of*)
(* the next request from the last row of it.                               *)
Fetch ==
    \E last \in Page :
        /\ \A i \in Page : i = last \/ Precedes(i, last)
        /\ cursor' = [at |-> row[last].at, id |-> last]
        /\ copy' = [i \in Ids |-> IF i \in Page THEN row[i].status ELSE copy[i]]
        /\ late' = late \ Page
        /\ UNCHANGED <<clock, row, writer>>

---------------------------------------------------------------------------
(* Transactions that change a row: syncs, health passes and queries.       *)

Tick ==
    /\ clock < MaxClock
    /\ clock' = clock + 1
    /\ UNCHANGED <<row, writer, cursor, copy, late>>

(* NOW() is the time at which the transaction begins.  The check of a      *)
(* registration whose status it thinks it changes sends a time, own, which *)
(* it took when it began.                                                  *)
Begin(w, i) ==
    /\ writer[w] = NoWrite
    /\ \E s \in Statuses, own \in 0 .. clock :
          /\ own # 0 => Restamps /\ row[i].status # "absent"
          /\ writer' = [writer EXCEPT ![w] = [id |-> i, status |-> s, at |-> clock, own |-> own]]
    /\ UNCHANGED <<clock, row, cursor, copy, late>>

(* Mutant: times are rounded up.                                           *)
StampedRoundedUp(r, u) ==
    [status |-> u.status,
     at     |-> IF u.status # r.status THEN u.at + 1 ELSE IF u.own # 0 THEN u.own ELSE r.at]

(* The trigger set_status_updated_at.                                      *)
Stamped(r, u) ==
    [status |-> u.status,
     at     |-> IF u.status # r.status THEN u.at ELSE IF u.own # 0 THEN u.own ELSE r.at]

Commit(w) ==
    LET u == writer[w]
        r == Stamped(row[u.id], u)
    IN
    /\ u # NoWrite
    /\ row' = [row EXCEPT ![u.id] = r]
    /\ writer' = [writer EXCEPT ![w] = NoWrite]
    /\ late' = IF r = row[u.id] THEN late
               ELSE IF Follows(r, u.id) THEN late \ {u.id} ELSE late \cup {u.id}
    /\ UNCHANGED <<clock, cursor, copy>>

Rollback(w) ==
    /\ writer[w] # NoWrite
    /\ writer' = [writer EXCEPT ![w] = NoWrite]
    /\ UNCHANGED <<clock, row, cursor, copy, late>>

---------------------------------------------------------------------------
Next ==
    \/ Fetch
    \/ Tick
    \/ \E w \in Writers : Commit(w) \/ Rollback(w) \/ \E i \in Ids : Begin(w, i)

Spec == Init /\ [][Next]_vars

(* The reader goes on asking.                                              *)
FairSpec == Spec /\ WF_vars(Fetch)

---------------------------------------------------------------------------
(* Properties.                                                             *)

(* What the reader has passed it has seen, unless the change only appeared *)
(* behind it: a transaction that began before the page was read and        *)
(* committed after, or a time its writer set itself.                       *)
PassedIsCopied ==
    \A i \in Ids :
        row[i].status \in Shown /\ ~Follows(row[i], i) /\ i \notin late
            => copy[i] = row[i].status

(* A page that is full has a last row, and that takes the reader on,       *)
(* however many rows changed in one tick and whatever changed since the    *)
(* page before: of what it had already, a page has one row at most.  With a*)
(* limit of 1 that row is all it has.                                      *)
FullPagesMoveOn ==
    Limit > 1 /\ Cardinality(Page) = Limit =>
        \E last \in Page :
            /\ \A i \in Page : i = last \/ Precedes(i, last)
            /\ row[last].at > cursor.at \/ (row[last].at = cursor.at /\ last > cursor.id)

(* The reader learns of every change that does not appear behind it: a     *)
(* status that lasts is in the copy in the end.                            *)
EveryStatusArrives ==
    \A i \in Ids, s \in Shown :
        <>[](row[i].status = s /\ i \notin late) => <>[](copy[i] = s)
=============================================================================
