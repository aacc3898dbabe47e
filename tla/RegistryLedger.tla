-------------------------- MODULE RegistryLedger --------------------------
(***************************************************************************)
(* What following the chain promises, without pages, cursors in pages,     *)
(* passes, locks or failures: every registry is at all times the chain's   *)
(* state after some transaction, except that the entries of the very next  *)
(* mint or burn may already be written; and that transaction only ever     *)
(* advances to the next mint or burn once its entries are all in.  So no   *)
(* mint or burn is skipped and none is applied out of order.  Removing a   *)
(* source forgets everything about it; nothing is written until it is      *)
(* added again, and then from the start.                                   *)
(***************************************************************************)
EXTENDS RegistryChain

CONSTANT Sources

VARIABLES
    chain,      \* chain[s]: the redeemers of the policy of source s
    source,     \* source[s]: whether s is followed
    applied,    \* applied[s]: the transaction up to which s has been followed
    registry    \* registry[s][a]: the entry of asset a

vars == <<chain, source, applied, registry>>

Init ==
    /\ chain = [s \in Sources |-> <<>>]
    /\ source = [s \in Sources |-> FALSE]
    /\ applied = [s \in Sources |-> 0]
    /\ registry = [s \in Sources |-> [a \in Assets |-> "absent"]]

(* Later transactions appear on the chain of s.                            *)
Grow(s) ==
    /\ \A r \in Sources \ {s} : chain'[r] = chain[r]
    /\ Extended(chain[s], chain'[s])
    /\ UNCHANGED <<source, applied, registry>>

Add(s) ==
    /\ ~source[s]
    /\ source' = [source EXCEPT ![s] = TRUE]
    /\ UNCHANGED <<chain, applied, registry>>

Remove(s) ==
    /\ source[s]
    /\ source' = [source EXCEPT ![s] = FALSE]
    /\ applied' = [applied EXCEPT ![s] = 0]
    /\ registry' = [registry EXCEPT ![s] = [a \in Assets |-> "absent"]]
    /\ UNCHANGED chain

(* One entry is brought to the state the chain gives it at the applied     *)
(* transaction (a transaction is applied again) or at the next one.        *)
Write(s, a) ==
    /\ source[s]
    /\ \E t \in {applied[s]} \cup
                {chain[s][i].tx : i \in {j \in Mints(chain[s]) :
                                            IsNext(chain[s], applied[s], j)}} :
          registry' = [registry EXCEPT ![s][a] = OnChain(chain[s], t, a)]
    /\ UNCHANGED <<chain, source, applied>>

Commit(s) ==
    /\ source[s]
    /\ \E i \in Mints(chain[s]) :
          /\ IsNext(chain[s], applied[s], i)
          /\ \A a \in Assets :
                registry[s][a] = OnChain(chain[s], chain[s][i].tx, a)
          /\ applied' = [applied EXCEPT ![s] = chain[s][i].tx]
    /\ UNCHANGED <<chain, source, registry>>

Next ==
    \E s \in Sources :
        \/ Grow(s) \/ Add(s) \/ Remove(s)
        \/ \E a \in Assets : Write(s, a)
        \/ Commit(s)

Spec == Init /\ [][Next]_vars
=============================================================================
