------------------------------ MODULE ListWalk ------------------------------
(***************************************************************************)
(* A client that walks through a list, newest rows first: each request    *)
(* names the last row of the answer before, which is answered again, and   *)
(* the walk is over when an answer is short.  There are two lists.  The    *)
(* inbox list is answered from one page of the database.  The list of      *)
(* registry entries checks what it loads and leaves out the rows whose     *)
(* update failed; so it loads pages twice as long as the answer, and more  *)
(* of them while too little was found.  Both lists, and the searches in    *)
(* them, differ in what they select, which rows change any time; and rows  *)
(* go away with the source they belong to, after which a page that should  *)
(* begin at one of them is empty.                                          *)
(*                                                                         *)
(* list, steady and given are about the walk: which list it is of, which   *)
(* rows were selected ever since it began and were not left out, and which *)
(* rows it was given.  Of the other rows each read finds any of them.      *)
(***************************************************************************)
EXTENDS Naturals, FiniteSets

CONSTANTS
    ListRows,       \* how many rows there are; row i has the i-th id
    SourceRows,     \* the rows of each source that may be deleted
    AnswerLimit     \* rows per answer

ASSUME ListRowsAssumption == ListRows \in Nat /\ SourceRows \subseteq SUBSET (1 .. ListRows)

(* With a limit of 1, which the code allows, an answer is the row it       *)
(* started at, and the walk stays there.                                   *)
ASSUME AnswerLimitAssumption == AnswerLimit \in Nat \ {0, 1}

VARIABLES
    list,       \* the list that is walked
    steady,     \* the rows that were selected since the walk began
    gone,       \* the rows that were deleted with their source
    given,      \* the rows the walk was given
    from,       \* cursorId of the next request; above all ids when it has none
    at,         \* what the client and its request are doing
    request     \* the request: the cursor of its next page, and its findings

walkVars == <<list, steady, gone, given, from, at, request>>

ListIds == 1 .. ListRows
Cursors == 1 .. ListRows + 1

(* found: the rows found; twice: those of them found a second time.        *)
Request == [cursor : Cursors, found : SUBSET ListIds, twice : SUBSET ListIds]

NoFindings(c) == [cursor |-> c, found |-> {}, twice |-> {}]

Length(r) == Cardinality(r.found) + Cardinality(r.twice)

WalkTypeOK ==
    /\ list \in {"entries", "inbox"}
    /\ steady \subseteq ListIds /\ gone \subseteq ListIds /\ steady \cap gone = {}
    /\ given \subseteq ListIds
    /\ from \in Cursors
    /\ at \in {"walking", "reading", "answering", "arrived"}
    /\ request \in Request
    /\ request.twice \subseteq request.found

WalkInit ==
    /\ list \in {"entries", "inbox"}
    /\ steady \in SUBSET ListIds
    /\ gone = {} /\ given = {}
    /\ from = ListRows + 1
    /\ at = "walking"
    /\ request = NoFindings(ListRows + 1)

---------------------------------------------------------------------------
(* The table: a row is burned, becomes invalid or offline, is renamed.     *)
RowChanges(i) ==
    /\ steady' = steady \ {i}
    /\ UNCHANGED <<list, gone, given, from, at, request>>

(* onDelete: Cascade.                                                      *)
SourceDeleted(rows) ==
    /\ gone' = gone \cup rows
    /\ steady' = steady \ rows
    /\ UNCHANGED <<list, given, from, at, request>>

---------------------------------------------------------------------------
(* The client.                                                             *)

Ask ==
    /\ at = "walking"
    /\ at' = "reading"
    /\ request' = NoFindings(from)
    /\ UNCHANGED <<list, steady, gone, given, from>>

WalkAgain ==
    /\ at = "arrived"
    /\ at' = "walking"
    /\ from' = ListRows + 1
    /\ given' = {}
    /\ steady' \in SUBSET (ListIds \ gone)
    /\ UNCHANGED <<list, gone, request>>

---------------------------------------------------------------------------
(* The request.                                                            *)

PageRows == IF list = "entries" THEN 2 * AnswerLimit ELSE AnswerLimit

(* orderBy id desc, take n.                                                *)
FirstOf(S, n) == {i \in S : Cardinality({j \in S : j > i}) < n}

(* Mutant: one page is all that is read.                                   *)
ReadsOnNever(page, r) == FALSE

ReadsOn(page, r) ==
    /\ list = "entries"
    /\ Cardinality(page) >= PageRows
    /\ Length(r) < AnswerLimit

(* Mutant: the next page is the same page.                                 *)
FoundInSamePage(page, kept, last) ==
    [cursor |-> request.cursor,
     found  |-> request.found \cup kept,
     twice  |-> request.twice \cup (request.found \cap kept)]

FoundIn(page, kept, last) ==
    [cursor |-> last,
     found  |-> request.found \cup kept,
     twice  |-> request.twice \cup (request.found \cap kept)]

(* The page from a cursor on, its row among them if it is selected; none   *)
(* when there is no such row any more, as the rows are compared with it.   *)
PageFrom(c, selected) ==
    IF c \in gone THEN {} ELSE FirstOf({i \in selected : i <= c}, PageRows)

(* When a date was given each row of the page is checked, and kept if it   *)
(* could be updated.  The last row of a page begins the next one.          *)
ReadPage ==
    /\ at = "reading"
    /\ \E others \in SUBSET (ListIds \ (steady \cup gone)) :
       LET page == PageFrom(request.cursor, steady \cup others)
       IN
       \E failed \in SUBSET page, last \in page \cup {request.cursor} :
          LET r == FoundIn(page, page \ failed, last) IN
          /\ list = "inbox" => failed = {}
          /\ \A i \in page : last <= i
          /\ request' = r
          /\ at' = IF ReadsOn(page, r) THEN "reading" ELSE "answering"
          /\ steady' = steady \ failed
    /\ UNCHANGED <<list, gone, given, from>>

(* The first rows found, a row found twice counting twice.                 *)
Answer ==
    {i \in request.found :
        Cardinality({j \in request.found : j > i})
            + Cardinality({j \in request.twice : j > i}) < AnswerLimit}

Respond ==
    /\ at = "answering"
    /\ given' = given \cup Answer
    /\ \/ Length(request) < AnswerLimit /\ at' = "arrived" /\ UNCHANGED from
       \/ /\ Length(request) >= AnswerLimit /\ at' = "walking"
          /\ from' \in Answer /\ \A i \in Answer : from' <= i
    /\ UNCHANGED <<list, steady, gone, request>>

(* It throws, or its answer is lost.                                       *)
RequestFails ==
    /\ at \in {"reading", "answering"}
    /\ at' = "walking"
    /\ UNCHANGED <<list, steady, gone, given, from, request>>

---------------------------------------------------------------------------
WalkMoves == Ask \/ WalkAgain \/ ReadPage \/ Respond

WalkNext ==
    \/ WalkMoves \/ RequestFails
    \/ \E i \in ListIds : RowChanges(i)
    \/ \E rows \in SourceRows : SourceDeleted(rows)

WalkSpec == WalkInit /\ [][WalkNext]_walkVars

(* The client goes on, and what a request awaits is answered or fails.     *)
FairWalk == WalkSpec /\ WF_walkVars(WalkMoves)

---------------------------------------------------------------------------
(* Properties.                                                             *)

(* A walk that is over was given every row that was selected throughout,   *)
(* whatever rows changed and whatever updates failed meanwhile, over       *)
(* however many pages its requests went; but for the rows behind one that  *)
(* was deleted when a page should begin at it, where the walk stops short. *)
WalkIsComplete ==
    at = "arrived" =>
        \A i \in steady \ given : request.cursor \in gone /\ i < request.cursor

(* An answer that is not the last takes the walk further, although it      *)
(* starts with the row before, and rows that begin a page may be in it     *)
(* twice; and so does a page after which a request reads on.               *)
AnswersMoveOn ==
    [][/\ Respond /\ at' = "walking" => from' < from
       /\ ReadPage /\ at' = "reading" => request'.cursor < request.cursor]_walkVars

(* A walk ends, and each of its requests reads to the end at worst, unless *)
(* requests keep failing.                                                  *)
WalkEnds == <>[][~RequestFails \/ Respond]_walkVars => []<>(at = "arrived")
=============================================================================
