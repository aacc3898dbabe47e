-------------------------- MODULE MintDeltaProofs --------------------------
(***************************************************************************)
(* Proofs about MintDelta, for any assets and quantities and transactions  *)
(* of any length: what is taken for minted or burned.                      *)
(***************************************************************************)
EXTENDS MintDelta, TLAPS

(* An asset's number is at least what it should be, unless an input carries*)
(* it that is not spent; and no other when one input at most carries it and*)
(* all that carries it is spent or made.                                   *)
DeltaBounds ==
    \A a \in Tokens \ unspent :
        /\ delta[a] >= produced[a] - consumed[a]
        /\ carriers[a] <= 1 /\ a \notin unmade => delta[a] = produced[a] - consumed[a]
        /\ part = "inputs" => produced[a] = 0 /\ unmade = {}
        /\ carriers[a] = 0 => consumed[a] = 0

CarriersWithin == part = "inputs" => \A a \in Tokens : carriers[a] <= utxos

DeltaInv == DeltaTypeOK /\ CarriersWithin /\ DeltaBounds

LEMMA NothingType ==
  /\ Nothing \in [Tokens -> Int] /\ Nothing \in [Tokens -> Nat]
  /\ Nothing \in [Tokens -> 0 .. MaxUtxos]
  BY MaxUtxosAssumption DEF Nothing

LEMMA DeltaBegins ==
  ASSUME part = "inputs", utxos = 0, delta = Nothing, consumed = Nothing,
         produced = Nothing, carriers = Nothing, unspent = {}, unmade = {}
  PROVE  DeltaInv
<1>1. DeltaTypeOK
  BY NothingType, MaxUtxosAssumption DEF DeltaTypeOK
<1>2. \A a \in Tokens : Nothing[a] = 0
  BY DEF Nothing
<1> QED BY <1>1, <1>2 DEF DeltaInv, CarriersWithin, DeltaBounds

LEMMA AmountsType ==
  ASSUME NEW amounts \in Amounts, NEW a \in Tokens
  PROVE  amounts[a] \in Nat
<1>1. amounts \in [Tokens -> Quantities \cup {0}]
  BY DEF Amounts
<1>2. Quantities \cup {0} \subseteq Nat
  BY QuantitiesAssumption
<1>3. amounts[a] \in Quantities \cup {0}
  BY <1>1
<1> QED BY <1>2, <1>3

LEMMA ReadInputStep == DeltaInv /\ ReadInput => DeltaInv'
<1> SUFFICES ASSUME DeltaInv, ReadInput PROVE DeltaInv'
  OBVIOUS
<1>1. PICK amounts \in Amounts :
        /\ delta' = AfterInput(delta, amounts)
        /\ carriers' = [a \in Tokens |-> carriers[a] + IF amounts[a] > 0 THEN 1 ELSE 0]
        /\ \/ consumed' = Plus(consumed, amounts) /\ UNCHANGED unspent
           \/ unspent' = unspent \cup Carried(amounts) /\ UNCHANGED consumed
  BY DEF ReadInput
<1>2. /\ part = "inputs" /\ part' = part /\ utxos' = utxos + 1 /\ utxos < MaxUtxos
      /\ produced' = produced /\ unmade' = unmade
      /\ DeltaTypeOK /\ CarriersWithin /\ DeltaBounds
  BY DEF ReadInput, DeltaInv
<1>3. \A a \in Tokens :
        /\ amounts[a] \in Nat /\ delta[a] \in Int /\ consumed[a] \in Nat
        /\ produced[a] \in Nat /\ carriers[a] \in Nat /\ carriers[a] <= utxos
  BY <1>2, AmountsType, MaxUtxosAssumption DEF DeltaTypeOK, CarriersWithin
<1>4. \A a \in Tokens :
        /\ delta'[a] = IF amounts[a] > 0 THEN -amounts[a] ELSE delta[a]
        /\ carriers'[a] = carriers[a] + IF amounts[a] > 0 THEN 1 ELSE 0
  BY <1>1 DEF AfterInput
<1>5. utxos \in Nat /\ utxos' \in 0 .. MaxUtxos
  BY <1>2, MaxUtxosAssumption DEF DeltaTypeOK
<1>a. \A a \in Tokens : consumed'[a] \in Nat /\ consumed'[a] <= consumed[a] + amounts[a]
  BY <1>1, <1>3 DEF Plus
<1>b. consumed' \in [Tokens -> Nat] /\ unspent' \subseteq Tokens
  <2>1. Plus(consumed, amounts) \in [Tokens -> Nat]
    BY <1>3 DEF Plus
  <2> QED BY <1>1, <1>2, <2>1 DEF DeltaTypeOK, Carried
<1>c. \A a \in Tokens \ unspent' :
         a \notin unspent /\ (amounts[a] > 0 => consumed'[a] = consumed[a] + amounts[a])
  BY <1>1, <1>3 DEF Carried, Plus
<1>6. DeltaTypeOK'
  <2>1. delta' \in [Tokens -> Int]
    <3>1. \A a \in Tokens : delta'[a] \in Int
      BY <1>3, <1>4
    <3> QED BY <1>1, <3>1 DEF AfterInput
  <2>2. carriers' \in [Tokens -> 0 .. MaxUtxos]
    <3>1. \A a \in Tokens : carriers'[a] \in 0 .. MaxUtxos
      BY <1>2, <1>3, <1>4, <1>5, MaxUtxosAssumption
    <3> QED BY <1>1, <3>1
  <2> QED BY <1>2, <1>5, <1>b, <2>1, <2>2 DEF DeltaTypeOK
<1>7. CarriersWithin'
  BY <1>2, <1>3, <1>4, <1>5 DEF CarriersWithin
<1>8. DeltaBounds'
  <2>1. SUFFICES ASSUME NEW a \in Tokens \ unspent'
                 PROVE  /\ delta'[a] >= produced'[a] - consumed'[a]
                        /\ carriers'[a] <= 1 => delta'[a] = produced'[a] - consumed'[a]
                        /\ produced'[a] = 0 /\ unmade' = {}
                        /\ carriers'[a] = 0 => consumed'[a] = 0
    BY <1>2 DEF DeltaBounds
  <2>2. /\ produced[a] = 0 /\ unmade = {}
        /\ delta[a] >= produced[a] - consumed[a]
        /\ carriers[a] <= 1 => delta[a] = produced[a] - consumed[a]
        /\ carriers[a] = 0 => consumed[a] = 0
    BY <1>2, <1>c DEF DeltaBounds
  <2>3. CASE amounts[a] > 0
    <3>1. consumed'[a] = consumed[a] + amounts[a]
      BY <1>c, <2>3
    <3> QED BY <1>2, <1>3, <1>4, <2>2, <2>3, <3>1
  <2>4. CASE ~(amounts[a] > 0)
    <3>1. consumed'[a] = consumed[a]
      BY <1>1, <1>3, <2>4 DEF Plus
    <3> QED BY <1>2, <1>3, <1>4, <2>2, <2>4, <3>1
  <2> QED BY <2>3, <2>4
<1> QED BY <1>6, <1>7, <1>8 DEF DeltaInv

LEMMA ReadOutputStep == DeltaInv /\ ReadOutput => DeltaInv'
<1> SUFFICES ASSUME DeltaInv, ReadOutput PROVE DeltaInv'
  OBVIOUS
<1>1. PICK amounts \in Amounts :
        /\ delta' = AfterOutput(delta, amounts)
        /\ \/ produced' = Plus(produced, amounts) /\ UNCHANGED unmade
           \/ unmade' = unmade \cup Carried(amounts) /\ UNCHANGED produced
  BY DEF ReadOutput
<1>2. /\ part = "outputs" /\ utxos' = utxos + 1 /\ utxos < MaxUtxos
      /\ UNCHANGED <<part, consumed, carriers, unspent>> /\ DeltaTypeOK /\ DeltaBounds
  BY DEF ReadOutput, DeltaInv
<1>3. \A a \in Tokens :
        /\ amounts[a] \in Nat /\ delta[a] \in Int /\ consumed[a] \in Nat
        /\ produced[a] \in Nat
  BY <1>2, AmountsType DEF DeltaTypeOK
<1>4. \A a \in Tokens :
        /\ delta'[a] = delta[a] + amounts[a]
        /\ produced'[a] \in Nat /\ produced'[a] <= produced[a] + amounts[a]
  BY <1>1, <1>3 DEF AfterOutput, Plus
<1>c. \A a \in Tokens \ unmade' :
         a \notin unmade /\ produced'[a] = produced[a] + amounts[a]
  BY <1>1, <1>3 DEF Carried, Plus
<1>5. DeltaTypeOK'
  <2>1. \A a \in Tokens : delta'[a] \in Int
    BY <1>3, <1>4
  <2>2. delta' \in [Tokens -> Int]
    BY <1>1, <2>1 DEF AfterOutput, Plus
  <2>3. utxos' \in 0 .. MaxUtxos
    BY <1>2, MaxUtxosAssumption DEF DeltaTypeOK
  <2>4. Plus(produced, amounts) \in [Tokens -> Nat]
    BY <1>3 DEF Plus
  <2>5. produced' \in [Tokens -> Nat] /\ unmade' \subseteq Tokens
    BY <1>1, <1>2, <2>4 DEF DeltaTypeOK, Carried
  <2> QED BY <1>2, <2>2, <2>3, <2>5 DEF DeltaTypeOK
<1>6. DeltaBounds'
  <2>1. SUFFICES ASSUME NEW a \in Tokens \ unspent
                 PROVE  /\ delta'[a] >= produced'[a] - consumed[a]
                        /\ carriers[a] <= 1 /\ a \notin unmade' =>
                              delta'[a] = produced'[a] - consumed[a]
                        /\ carriers[a] = 0 => consumed[a] = 0
    BY <1>2 DEF DeltaBounds
  <2>2. /\ delta[a] >= produced[a] - consumed[a]
        /\ carriers[a] <= 1 /\ a \notin unmade => delta[a] = produced[a] - consumed[a]
        /\ carriers[a] = 0 => consumed[a] = 0
    BY <1>2 DEF DeltaBounds
  <2> QED BY <1>3, <1>4, <1>c, <2>2
<1> QED BY <1>2, <1>5, <1>6 DEF DeltaInv, CarriersWithin

LEMMA DeltaStep == DeltaInv /\ [DeltaNext]_deltaVars => DeltaInv'
<1> SUFFICES ASSUME DeltaInv, [DeltaNext]_deltaVars PROVE DeltaInv'
  OBVIOUS
<1>1. CASE ReadInput
  BY <1>1, ReadInputStep
<1>2. CASE ReadOutput
  BY <1>2, ReadOutputStep
<1>3. CASE InputsEnd
  BY <1>3, MaxUtxosAssumption DEF InputsEnd, DeltaInv, DeltaTypeOK, CarriersWithin, DeltaBounds
<1>4. CASE OutputsEnd
  BY <1>4 DEF OutputsEnd, DeltaInv, DeltaTypeOK, CarriersWithin, DeltaBounds
<1>5. CASE NextTransaction
  <2>1. \A a \in Tokens : Nothing[a] = 0
    BY DEF Nothing
  <2>2. DeltaTypeOK'
    BY <1>5, NothingType, MaxUtxosAssumption DEF NextTransaction, DeltaTypeOK
  <2> QED BY <1>5, <2>1, <2>2 DEF NextTransaction, DeltaInv, CarriersWithin, DeltaBounds
<1>6. CASE UNCHANGED deltaVars
  BY <1>6 DEF deltaVars, DeltaInv, DeltaTypeOK, CarriersWithin, DeltaBounds
<1> QED BY <1>1, <1>2, <1>3, <1>4, <1>5, <1>6 DEF DeltaNext

LEMMA DeltaInvariant == DeltaSpec => []DeltaInv
<1>1. DeltaInit => DeltaInv
  BY DeltaBegins DEF DeltaInit
<1> QED BY <1>1, DeltaStep, PTL DEF DeltaSpec

LEMMA NumbersTellSigns ==
  ASSUME DeltaInv, NEW a \in Tokens \ unspent
  PROVE  /\ produced[a] > consumed[a] => delta[a] > 0
         /\ delta[a] < 0 => produced[a] < consumed[a]
         /\ carriers[a] <= 1 /\ a \notin unmade => delta[a] = produced[a] - consumed[a]
         /\ delta[a] \in Int /\ produced[a] \in Int /\ consumed[a] \in Int
<1>1. delta[a] \in Int /\ produced[a] \in Int /\ consumed[a] \in Int
  BY DEF DeltaInv, DeltaTypeOK
<1>2. /\ delta[a] >= produced[a] - consumed[a]
      /\ carriers[a] <= 1 /\ a \notin unmade => delta[a] = produced[a] - consumed[a]
  BY DEF DeltaInv, DeltaBounds
<1> QED BY <1>1, <1>2

(* The map of quantities is well typed, its counters within bounds.        *)
THEOREM DeltaTypeCorrect == DeltaSpec => []DeltaTypeOK
<1>1. DeltaInv => DeltaTypeOK
  BY DEF DeltaInv
<1> QED BY <1>1, DeltaInvariant, PTL

(* For every transaction, whatever it lists: no mint is missed and nothing *)
(* is taken for burned that was not, but for assets in an input that is    *)
(* listed and not spent.                                                   *)
THEOREM MintsAreNotMissed == DeltaSpec => []ErrsTowardsMints
<1>1. DeltaInv => ErrsTowardsMints
  BY NumbersTellSigns DEF ErrsTowardsMints, TakenForMinted, TakenForBurned
<1> QED BY <1>1, DeltaInvariant, PTL

(* For every transaction: the verdict on an asset that one input at most   *)
(* carries is right, if all that carries it is spent or made.              *)
THEOREM VerdictIsRight == DeltaSpec => []SingletonsAreExact
<1>1. ASSUME DeltaInv PROVE SingletonsAreExact
  <2>1. SUFFICES ASSUME part = "verdict", NEW a \in Tokens \ (unspent \cup unmade),
                        carriers[a] <= 1
                 PROVE  /\ a \in TakenForMinted <=> produced[a] > consumed[a]
                        /\ a \in TakenForBurned <=> produced[a] < consumed[a]
    BY DEF SingletonsAreExact
  <2>2. /\ delta[a] > 0 <=> produced[a] > consumed[a]
        /\ delta[a] < 0 <=> produced[a] < consumed[a]
    BY <1>1, <2>1, NumbersTellSigns
  <2> QED BY <2>1, <2>2 DEF TakenForMinted, TakenForBurned
<1> QED BY <1>1, DeltaInvariant, PTL
=============================================================================
