----------------------------- MODULE MintDelta -----------------------------
(***************************************************************************)
(* How a pass tells from the inputs and the outputs of a transaction which *)
(* assets of the policy it minted and which it burned.  The chain serves   *)
(* no such list; the service goes through what the transaction consumes    *)
(* and then through what it produces, and keeps one number per asset.      *)
(* RegistryChain takes the outcome, minted and burned, as given.           *)
(*                                                                         *)
(* The inputs that are listed are those a transaction spends, but also its *)
(* reference inputs and its collateral, which it does not spend; and an    *)
(* output that is listed may be the collateral return, which is not made.  *)
(* The list says which is which; the service does not look.                *)
(*                                                                         *)
(* delta is the service's; the other functions and sets of assets are      *)
(* history variables: what the transaction really does, and who is on the  *)
(* list without it.  An asset without a number has 0.                      *)
(***************************************************************************)
EXTENDS Integers, FiniteSets

CONSTANTS
    Tokens,     \* assets of the policy
    Quantities, \* how much of an asset an input or output may carry
    MaxUtxos    \* inputs, and outputs, of a transaction (a bound, not in the code)

ASSUME QuantitiesAssumption == Quantities \subseteq Nat \ {0}
ASSUME MaxUtxosAssumption   == MaxUtxos \in Nat

VARIABLES
    part,       \* what is read: the inputs, the outputs; or the verdict is there
    utxos,      \* how many inputs or outputs were read
    delta,      \* mintedOrBurnedAssetsOfPolicy
    consumed,   \* consumed[a]: how much of a the transaction spends
    produced,   \* produced[a]: how much of a its outputs carry
    carriers,   \* carriers[a]: how many listed inputs carry a
    unspent,    \* the assets in listed inputs that are not spent
    unmade      \* the assets in listed outputs that are not made

deltaVars == <<part, utxos, delta, consumed, produced, carriers, unspent, unmade>>

Nothing == [a \in Tokens |-> 0]

DeltaTypeOK ==
    /\ part \in {"inputs", "outputs", "verdict"}
    /\ utxos \in 0 .. MaxUtxos
    /\ delta \in [Tokens -> Int]
    /\ consumed \in [Tokens -> Nat] /\ produced \in [Tokens -> Nat]
    /\ carriers \in [Tokens -> 0 .. MaxUtxos]
    /\ unspent \subseteq Tokens /\ unmade \subseteq Tokens

DeltaInit ==
    /\ part = "inputs" /\ utxos = 0
    /\ delta = Nothing /\ consumed = Nothing /\ produced = Nothing /\ carriers = Nothing
    /\ unspent = {} /\ unmade = {}

---------------------------------------------------------------------------
(* The amounts of an input or output: each asset once, if at all.          *)
Amounts == [Tokens -> Quantities \cup {0}]

Plus(f, g) == [a \in Tokens |-> f[a] + g[a]]

Carried(amounts) == {a \in Tokens : amounts[a] > 0}

(* Mutant: what an input carries is counted like what an output carries.   *)
AfterInputUnsigned(d, amounts) ==
    [a \in Tokens |-> IF amounts[a] > 0 THEN amounts[a] ELSE d[a]]

(* An input sets the number of what it carries.                            *)
AfterInput(d, amounts) ==
    [a \in Tokens |-> IF amounts[a] > 0 THEN -amounts[a] ELSE d[a]]

(* Mutant: an output sets it too.                                          *)
AfterOutputSet(d, amounts) ==
    [a \in Tokens |-> IF amounts[a] > 0 THEN amounts[a] ELSE d[a]]

(* Mutant: an output counts only for what no input carries.                *)
AfterOutputOfNew(d, amounts) ==
    [a \in Tokens |-> IF d[a] < 0 THEN d[a] ELSE d[a] + amounts[a]]

(* An output adds to it.                                                   *)
AfterOutput(d, amounts) == Plus(d, amounts)

ReadInput ==
    /\ part = "inputs" /\ utxos < MaxUtxos
    /\ \E amounts \in Amounts :
          /\ delta' = AfterInput(delta, amounts)
          /\ carriers' = [a \in Tokens |-> carriers[a] + IF amounts[a] > 0 THEN 1 ELSE 0]
          /\ \/ consumed' = Plus(consumed, amounts) /\ UNCHANGED unspent
             \/ unspent' = unspent \cup Carried(amounts) /\ UNCHANGED consumed
    /\ utxos' = utxos + 1
    /\ UNCHANGED <<part, produced, unmade>>

InputsEnd ==
    /\ part = "inputs"
    /\ part' = "outputs" /\ utxos' = 0
    /\ UNCHANGED <<delta, consumed, produced, carriers, unspent, unmade>>

ReadOutput ==
    /\ part = "outputs" /\ utxos < MaxUtxos
    /\ \E amounts \in Amounts :
          /\ delta' = AfterOutput(delta, amounts)
          /\ \/ produced' = Plus(produced, amounts) /\ UNCHANGED unmade
             \/ unmade' = unmade \cup Carried(amounts) /\ UNCHANGED produced
    /\ utxos' = utxos + 1
    /\ UNCHANGED <<part, consumed, carriers, unspent>>

OutputsEnd ==
    /\ part = "outputs"
    /\ part' = "verdict"
    /\ UNCHANGED <<utxos, delta, consumed, produced, carriers, unspent, unmade>>

(* The next transaction starts with an empty map.                          *)
NextTransaction ==
    /\ part = "verdict"
    /\ part' = "inputs" /\ utxos' = 0
    /\ delta' = Nothing /\ consumed' = Nothing /\ produced' = Nothing /\ carriers' = Nothing
    /\ unspent' = {} /\ unmade' = {}

DeltaNext == ReadInput \/ InputsEnd \/ ReadOutput \/ OutputsEnd \/ NextTransaction

DeltaSpec == DeltaInit /\ [][DeltaNext]_deltaVars

---------------------------------------------------------------------------
(* What the service takes for minted and for burned.                       *)
TakenForMinted == {a \in Tokens : part = "verdict" /\ delta[a] > 0}
TakenForBurned == {a \in Tokens : part = "verdict" /\ delta[a] < 0}

(* Properties.                                                             *)

(* Although only the last input that carries an asset counts, and outputs  *)
(* count that are not made, no mint is missed and nothing is taken for     *)
(* burned that was not, but for assets in an input that the transaction    *)
(* lists and does not spend: a reference input, or collateral.             *)
ErrsTowardsMints ==
    part = "verdict" =>
        \A a \in Tokens \ unspent :
            /\ produced[a] > consumed[a] => a \in TakenForMinted
            /\ a \in TakenForBurned => produced[a] < consumed[a]

(* Of assets that are in one input at most, as those of which there is one *)
(* are, exactly the minted and the burned ones are taken for that, when all*)
(* that carries them is spent or made.                                     *)
SingletonsAreExact ==
    part = "verdict" =>
        \A a \in Tokens \ (unspent \cup unmade) : carriers[a] <= 1 =>
            /\ a \in TakenForMinted <=> produced[a] > consumed[a]
            /\ a \in TakenForBurned <=> produced[a] < consumed[a]
=============================================================================
