---------------------------- MODULE InboxHistory ----------------------------
(***************************************************************************)
(* InboxVerification with a history: which agents' endpoints ever named    *)
(* which assets.  Nothing in the service reads it; it is there to say that *)
(* what is verified was published.                                         *)
(***************************************************************************)
EXTENDS InboxVerification

VARIABLE published  \* the pairs of a content and an asset its endpoint has named

historyVars == <<vars, published>>

(* What the endpoints name now.                                            *)
Naming ==
    {p \in Contents \X Assets :
        serves[p[1]].outcome = "resolved" /\ p[2] \in serves[p[1]].ids}

HistoryInit == Init /\ published = {}

HistoryNext == Next /\ published' = published \cup Naming'

HistorySpec == HistoryInit /\ [][HistoryNext]_historyVars /\ Fairness

---------------------------------------------------------------------------
(* Whatever is read, asked and written in between, by sync and pass at     *)
(* once: the verification data of a registration was published for it by   *)
(* the endpoint of the very content it is attributed to, be it one that the*)
(* registration no longer has; and none is listed as verified that no      *)
(* endpoint ever named, however often a status is written back as it was   *)
(* read.                                                                   *)
OnlyPublishedVerified ==
    \A a \in Assets :
        /\ row[a].keys # None => <<row[a].keys, a>> \in published
        /\ row[a].status = "Verified" => \E c \in Contents : <<c, a>> \in published
=============================================================================
