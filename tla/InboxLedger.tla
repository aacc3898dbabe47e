---------------------------- MODULE InboxLedger ----------------------------
(***************************************************************************)
(* What keeping inbox agent registrations promises when nothing overlaps:  *)
(* every mint, burn and endpoint answer is applied to the registration as  *)
(* it is at that moment, in one step.                                      *)
(***************************************************************************)
EXTENDS InboxRules

VARIABLE row    \* row[a]: the registration of asset a

Init == row = [a \in Assets |-> NoRow]

Register(a, c) == row' = [row EXCEPT ![a] = Upserted(@, @, c)]

Deregister(a) == row' = [row EXCEPT ![a] = Deregistered(@)]

Check(a, ans) ==
    /\ row[a].status \in Checked
    /\ row' = [row EXCEPT ![a] = Verified(@, @, ans, a)]

Next ==
    \E a \in Assets :
        \/ \E c \in Contents : Register(a, c)
        \/ Deregister(a)
        \/ \E ans \in Answer : Check(a, ans)

Spec == Init /\ [][Next]_row
=============================================================================
