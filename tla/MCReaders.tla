------------------------------ MODULE MCReaders ------------------------------
(***************************************************************************)
(* Instances of DiffFeed and of ListWalk for TLC: the two ways to read a   *)
(* table.  A behaviour is one of the one or one of the other: subject says *)
(* of which, and what belongs to the other stays as it is.                 *)
(***************************************************************************)
EXTENDS DiffFeed, ListWalk

VARIABLE subject

MCVars == <<vars, walkVars, subject>>

(* Two sources, of which the one that may be deleted has two rows.         *)
OneSource == {{3, 4}}

NotWalking ==
    /\ list = "inbox" /\ steady = {} /\ gone = {} /\ given = {} /\ from = 1
    /\ at = "arrived" /\ request = NoFindings(1)

MCInit ==
    /\ Init
    /\ \/ subject = "feed" /\ NotWalking
       \/ subject = "list" /\ WalkInit

MCNext ==
    \/ subject = "feed" /\ Next     /\ UNCHANGED <<walkVars, subject>>
    \/ subject = "list" /\ WalkNext /\ UNCHANGED <<vars, subject>>

MCSpec ==
    /\ MCInit /\ [][MCNext]_MCVars
    /\ WF_vars(subject = "feed" /\ Fetch)
    /\ WF_walkVars(subject = "list" /\ WalkMoves)
=============================================================================
