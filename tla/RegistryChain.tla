--------------------------- MODULE RegistryChain ---------------------------
(***************************************************************************)
(* What the registry service follows: the list of script redeemers of one  *)
(* registry policy, in chain order, as the Blockfrost endpoint             *)
(* /scripts/{policyId}/redeemers?order=asc serves it, and what a registry  *)
(* that has followed it up to some transaction should hold.                *)
(*                                                                         *)
(* A transaction contributes one redeemer with purpose "mint" when it mints*)
(* or burns assets of the policy and may contribute others, with purpose   *)
(* "spend", before or after it.  Transactions are numbered in chain order; *)
(* the code holds a hash and compares it for equality only.                *)
(***************************************************************************)
EXTENDS Integers, Sequences

CONSTANTS
    Assets,     \* the asset identifiers under the policies that are followed
    Parsable    \* those whose on-chain metadata passes the schemas

ASSUME ParsableAssumption == Parsable \subseteq Assets

Redeemer == [tx : Nat \ {0}, purpose : {"mint", "spend"},
             minted : SUBSET Assets, burned : SUBSET Assets]

EntryStates == {"absent", "listed", "deregistered"}

Mints(ch) == {i \in DOMAIN ch : ch[i].purpose = "mint"}

LastTx(ch) == IF ch = <<>> THEN 0 ELSE ch[Len(ch)].tx

(* The redeemers a transaction of number t adds to the end of the chain.   *)
Spend(t)      == [tx |-> t, purpose |-> "spend", minted |-> {}, burned |-> {}]
Mint(t, m, b) == [tx |-> t, purpose |-> "mint", minted |-> m, burned |-> b]

Transactions(t, m, b) ==
    { <<Mint(t, m, b)>>,
      <<Spend(t), Mint(t, m, b)>>,
      <<Mint(t, m, b), Spend(t)>> }

(* The chain has grown from old to new: later transactions were appended.  *)
Extended(old, new) ==
    /\ Len(old) <= Len(new)
    /\ \A i \in DOMAIN old : new[i] = old[i]
    /\ \A i \in DOMAIN new : Len(old) < i => LastTx(old) < new[i].tx

---------------------------------------------------------------------------
(* The registry after transaction t, defined from the chain alone: an asset*)
(* is absent until it is minted with metadata the service understands, and *)
(* then listed while its last mint has not been burned.                    *)

EverListed(ch, t, a) ==
    /\ a \in Parsable
    /\ \E i \in DOMAIN ch : ch[i].tx <= t /\ a \in ch[i].minted

Live(ch, t, a) ==
    \E i \in DOMAIN ch :
        /\ ch[i].tx <= t
        /\ a \in ch[i].minted
        /\ \A j \in DOMAIN ch :
              i < j /\ ch[j].tx <= t => a \notin ch[j].burned

OnChain(ch, t, a) ==
    IF ~EverListed(ch, t, a) THEN "absent"
    ELSE IF Live(ch, t, a) THEN "listed" ELSE "deregistered"

(* Redeemer i is the first mint or burn after transaction t.               *)
IsNext(ch, t, i) ==
    /\ i \in Mints(ch)
    /\ t < ch[i].tx
    /\ \A j \in Mints(ch) : t < ch[j].tx => ch[i].tx <= ch[j].tx

(* What holds of every chain: the list is in transaction order, a          *)
(* transaction has at most one mint redeemer of the policy, only that one  *)
(* moves supply, and what is burned was minted earlier.                    *)
ChainOK(ch) ==
    /\ \A i, j \in DOMAIN ch : i < j => ch[i].tx <= ch[j].tx
    /\ \A i, j \in Mints(ch) : i < j => ch[i].tx < ch[j].tx
    /\ \A i \in DOMAIN ch \ Mints(ch) : ch[i].minted = {} /\ ch[i].burned = {}
    /\ \A i \in DOMAIN ch : ch[i].minted \cap ch[i].burned = {}
    /\ \A i \in DOMAIN ch : \A a \in ch[i].burned :
          \E j \in DOMAIN ch : j < i /\ a \in ch[j].minted
=============================================================================
