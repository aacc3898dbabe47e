---------------------- MODULE InboxVerificationProofs ----------------------
(***************************************************************************)
(* Proofs about InboxVerification: type correctness and, for every         *)
(* interleaving and every fault, that deregistered registrations have no   *)
(* verification data, what brings one back, and that what is verified was  *)
(* published; and, when a health pass and a sync do not overlap, that the  *)
(* registrations follow the ledger.                                        *)
(***************************************************************************)
EXTENDS InboxHistory, TLAPS

---------------------------------------------------------------------------
(* What the decisions return.                                              *)

LEMMA NoRowType == NoRow \in Row /\ NoAnswer \in Answer
  BY DEF NoRow, Row, Checked, NoAnswer, Answer

LEMMA UpsertedRow ==
  ASSUME NEW r \in Row, NEW seen \in Row, NEW c \in Contents
  PROVE  /\ Upserted(r, seen, c) \in Row
         /\ Upserted(r, seen, c).status \in Checked
  BY DEF Upserted, NextStatus, Row, Checked

LEMMA VerifiedRow ==
  ASSUME NEW r \in Row, NEW seen \in Row, NEW ans \in Answer, NEW a \in Assets,
         seen.status \in Checked
  PROVE  /\ Verified(r, seen, ans, a) \in Row
         /\ Verified(r, seen, ans, a).status \in Checked
  BY DEF Verified, Verdict, Row, Checked, Answer

LEMMA DeregisteredRow ==
  ASSUME NEW r \in Row
  PROVE  /\ Deregistered(r) \in Row
         /\ Deregistered(r).status \in {"absent", "Deregistered"}
         /\ Deregistered(r).status = "Deregistered" => Deregistered(r).keys = None
  BY DEF Deregistered, Row, Checked

LEMMA NoCheckType ==
  /\ NoCheck \in Verification
  /\ NoCheck.batch = {} /\ NoCheck.got = {} /\ NoCheck.at = "idle"
  BY NoRowType DEF NoCheck, Verification

LEMMA CheckingType ==
  ASSUME NEW batch \in SUBSET Assets, NEW rows \in [Assets -> Row]
  PROVE  /\ Checking(batch, rows) \in Verification
         /\ Checking(batch, rows).at = "checking"
         /\ Checking(batch, rows).batch = batch
         /\ Checking(batch, rows).got = {}
         /\ \A a \in batch : Checking(batch, rows).seen[a] = rows[a]
<1>1. [a \in Assets |-> IF a \in batch THEN rows[a] ELSE NoRow] \in [Assets -> Row]
  BY NoRowType
<1>2. [a \in Assets |-> NoAnswer] \in [Assets -> Answer]
  BY NoRowType
<1> QED BY <1>1, <1>2 DEF Checking, Verification

---------------------------------------------------------------------------
(* What the steps of a verification do to it.                              *)

LEMMA LookupCheck ==
  ASSUME TypeOK, NEW v \in Verifiers, NEW c \in Contents, Lookup(v, c)
  PROVE  /\ check' \in [Verifiers -> Verification]
         /\ \A w \in Verifiers : w # v => check'[w] = check[w]
         /\ check'[v].at = check[v].at
         /\ check'[v].batch = check[v].batch
         /\ check'[v].seen = check[v].seen
         /\ check'[v].got \subseteq check'[v].batch
         /\ \A a \in check'[v].got :
               \/ a \in check[v].got /\ check'[v].ans[a] = check[v].ans[a]
               \/ check[v].seen[a].content = c /\ check'[v].ans[a] = serves[c]
<1> DEFINE asked == {a \in check[v].batch \ check[v].got : check[v].seen[a].content = c}
           ans   == [a \in Assets |-> IF a \in asked THEN serves[c] ELSE check[v].ans[a]]
<1>1. check' = [check EXCEPT ![v] =
          [at |-> check[v].at, batch |-> check[v].batch,
           got |-> check[v].got \cup asked, seen |-> check[v].seen, ans |-> ans]]
  BY DEF Lookup
<1>2. check[v] \in Verification /\ check[v].got \subseteq check[v].batch
  BY DEF TypeOK
<1>3. /\ ans \in [Assets -> Answer]
      /\ \A a \in asked : ans[a] = serves[c] /\ check[v].seen[a].content = c
      /\ \A a \in check[v].got : ans[a] = check[v].ans[a]
  BY <1>2 DEF TypeOK, Verification
<1> HIDE DEF ans
<1>4. asked \subseteq check[v].batch
  OBVIOUS
<1> HIDE DEF asked
<1>6. check'[v] = [at |-> check[v].at, batch |-> check[v].batch,
                   got |-> check[v].got \cup asked, seen |-> check[v].seen, ans |-> ans]
  BY <1>1 DEF TypeOK
<1>7. check'[v] \in Verification
  BY <1>2, <1>3, <1>4, <1>6 DEF Verification
<1>8. \A w \in Verifiers : w # v => check'[w] = check[w]
  BY <1>1 DEF TypeOK
<1>9. check' \in [Verifiers -> Verification]
  BY <1>1, <1>7, <1>8 DEF TypeOK
<1> QED BY <1>2, <1>3, <1>4, <1>6, <1>8, <1>9

LEMMA DoneCheck ==
  ASSUME TypeOK, NEW v \in Verifiers, NEW a \in Assets, Done(v, a)
  PROVE  /\ check' \in [Verifiers -> Verification]
         /\ \A w \in Verifiers : w # v => check'[w] = check[w]
         /\ check'[v].at = check[v].at
         /\ check'[v].batch = check[v].batch \ {a}
         /\ check'[v].got \subseteq check'[v].batch
         /\ \A b \in check'[v].batch : check'[v].seen[b] = check[v].seen[b]
         /\ \A b \in check'[v].got :
               b \in check[v].got /\ check'[v].ans[b] = check[v].ans[b]
<1> DEFINE seen == [check[v].seen EXCEPT ![a] = NoRow]
           ans  == [check[v].ans EXCEPT ![a] = NoAnswer]
           rest == [at |-> check[v].at, batch |-> check[v].batch \ {a},
                    got |-> check[v].got \ {a}, seen |-> seen, ans |-> ans]
<1>1. check[v] \in Verification /\ check[v].got \subseteq check[v].batch
  BY DEF TypeOK
<1>2. /\ seen \in [Assets -> Row]
      /\ ans \in [Assets -> Answer]
      /\ \A b \in Assets : b # a => /\ seen[b] = check[v].seen[b]
                                   /\ ans[b] = check[v].ans[b]
  BY <1>1, NoRowType DEF Verification
<1>3. check' = [check EXCEPT ![v] = rest]
  BY DEF Done
<1> HIDE DEF seen, ans
<1>4. rest \in Verification
  BY <1>1, <1>2 DEF Verification
<1>5. check'[v] = rest
  BY <1>3 DEF TypeOK
<1>6. \A w \in Verifiers : w # v => check'[w] = check[w]
  BY <1>3 DEF TypeOK
<1>7. check' \in [Verifiers -> Verification]
  BY <1>3, <1>4 DEF TypeOK
<1>8. check[v].batch \subseteq Assets
  BY <1>1 DEF Verification
<1> QED BY <1>1, <1>2, <1>5, <1>6, <1>7, <1>8

LEMMA WrittenRow ==
  ASSUME TypeOK, NEW v \in Verifiers, NEW a \in check[v].batch,
         check[v].seen[a].status \in Checked
  PROVE  /\ a \in Assets
         /\ row[a] \in Row
         /\ check[v].seen[a] \in Row
         /\ check[v].ans[a] \in Answer
         /\ Verified(row[a], check[v].seen[a], check[v].ans[a], a) \in Row
         /\ Verified(row[a], check[v].seen[a], check[v].ans[a], a).status \in Checked
<1>1. a \in Assets /\ check[v].seen[a] \in Row /\ check[v].ans[a] \in Answer
  BY DEF TypeOK, Verification
<1>2. row[a] \in Row
  BY <1>1 DEF TypeOK
<1> QED BY <1>1, <1>2, VerifiedRow

---------------------------------------------------------------------------
(* Every interleaving: a verification decides only on rows that were not   *)
(* deregistered when they were loaded, so no write of it says so.          *)

LoadedAreChecked ==
    \A v \in Verifiers : \A a \in check[v].batch :
        check[v].seen[a].status \in Checked

BurnInv == TypeOK /\ LoadedAreChecked /\ DeregisteredHasNoKeys

LEMMA BurnInit == Init => BurnInv
<1> SUFFICES ASSUME Init PROVE BurnInv
  OBVIOUS
<1>1. \A v \in Verifiers : check[v] = NoCheck
  BY DEF Init
<1>2. TypeOK
  BY <1>1, NoRowType, NoCheckType DEF Init, TypeOK
<1>3. LoadedAreChecked
  BY <1>1, NoCheckType DEF LoadedAreChecked
<1>4. DeregisteredHasNoKeys
  BY DEF Init, DeregisteredHasNoKeys, NoRow
<1> QED BY <1>2, <1>3, <1>4 DEF BurnInv

LEMMA BurnStep == BurnInv /\ [Next]_vars => BurnInv'
<1> SUFFICES ASSUME BurnInv, [Next]_vars PROVE BurnInv'
  OBVIOUS
<1>0. TypeOK /\ LoadedAreChecked /\ DeregisteredHasNoKeys
  BY DEF BurnInv
<1> USE <1>0
<1>1. ASSUME NEW c \in Contents, Republish(c) PROVE BurnInv'
  <2>1. serves' \in [Contents -> Answer]
    BY <1>1 DEF Republish, TypeOK
  <2> QED BY <1>1, <2>1
        DEF Republish, BurnInv, TypeOK, LoadedAreChecked, DeregisteredHasNoKeys
<1>2. ASSUME NEW a \in Assets, Burn(a) PROVE BurnInv'
  <2>1. row[a] \in Row /\ row' = [row EXCEPT ![a] = Deregistered(row[a])]
    BY <1>2 DEF Burn, TypeOK
  <2>2. row' \in [Assets -> Row]
    BY <2>1, DeregisteredRow DEF TypeOK
  <2>3. touched' \in SUBSET Assets
    BY <1>2 DEF Burn, TypeOK
  <2>4. TypeOK'
    BY <1>2, <2>2, <2>3 DEF Burn, TypeOK
  <2>5. DeregisteredHasNoKeys'
    BY <2>1, DeregisteredRow DEF DeregisteredHasNoKeys, TypeOK
  <2> QED BY <1>2, <2>4, <2>5 DEF Burn, BurnInv, LoadedAreChecked
<1>3. ASSUME NEW a \in Assets, NEW c \in Contents, ReadExisting(a, c) PROVE BurnInv'
  <2>1. row[a] \in Row
    BY DEF TypeOK
  <2>2. sync' \in [at : {"upsert"}, asset : Assets, content : Contents, seen : Row]
    BY <1>3, <2>1 DEF ReadExisting
  <2> QED BY <1>3, <2>2
        DEF ReadExisting, BurnInv, TypeOK, LoadedAreChecked, DeregisteredHasNoKeys
<1>4. CASE Upsert
  <2> DEFINE a == sync.asset
             r == Upserted(row[a], sync.seen, sync.content)
  <2>1. sync \in [at : {"upsert"}, asset : Assets, content : Contents, seen : Row]
    BY <1>4 DEF Upsert, TypeOK, NoMint
  <2>2. a \in Assets /\ row[a] \in Row /\ sync.seen \in Row /\ sync.content \in Contents
    BY <2>1 DEF TypeOK
  <2>3. r \in Row /\ r.status \in Checked
    BY <2>2, UpsertedRow
  <2>4. row' = [row EXCEPT ![a] = r]
    BY <1>4 DEF Upsert
  <2>5. sync' = NoMint /\ touched' = touched \cup {a} /\ serves' = serves
    BY <1>4 DEF Upsert
  <2> HIDE DEF r
  <2>6. row' \in [Assets -> Row] /\ row'[a] = r
    BY <2>2, <2>3, <2>4 DEF TypeOK
  <2>7. PICK rows \in [Assets -> Row] : rows = row'
    BY <2>6
  <2> DEFINE k == Checking({a}, rows)
  <2>8. check' = check \/ check' = [check EXCEPT !["sync"] = k]
    BY <1>4, <2>7 DEF Upsert
  <2> HIDE DEF a
  <2>k. /\ k \in Verification /\ k.batch = {a} /\ k.got = {}
        /\ k.seen[a].status \in Checked
    <3>1. {a} \in SUBSET Assets /\ rows[a].status \in Checked
      BY <2>2, <2>3, <2>6, <2>7
    <3> QED BY <3>1, CheckingType
  <2> HIDE DEF k
  <2>9. /\ check' \in [Verifiers -> Verification]
        /\ \A v \in Verifiers : check'[v] = check[v] \/ check'[v] = k
    BY <2>8, <2>k DEF TypeOK
  <2>10. TypeOK'
    BY <2>2, <2>5, <2>6, <2>9, <2>k DEF TypeOK
  <2>11. LoadedAreChecked'
    BY <2>9, <2>k DEF LoadedAreChecked
  <2>12. DeregisteredHasNoKeys'
    BY <2>2, <2>3, <2>4 DEF DeregisteredHasNoKeys, TypeOK, Checked
  <2> QED BY <2>10, <2>11, <2>12 DEF BurnInv
<1>5. CASE SyncFails
  BY <1>5 DEF SyncFails, BurnInv, TypeOK, LoadedAreChecked, DeregisteredHasNoKeys
<1>6. CASE HealthBegin
  <2>1. check' = [check EXCEPT !["health"] = [check["health"] EXCEPT !.at = "begun"]]
    BY <1>6 DEF HealthBegin
  <2>2. "health" \in Verifiers /\ check["health"] \in Verification
    BY DEF TypeOK, Verifiers
  <2>3. [check["health"] EXCEPT !.at = "begun"] \in Verification
    BY <2>2 DEF Verification
  <2>4. /\ check' \in [Verifiers -> Verification]
        /\ \A v \in Verifiers : /\ check'[v].batch = check[v].batch
                                /\ check'[v].got = check[v].got
                                /\ check'[v].seen = check[v].seen
    BY <2>1, <2>2, <2>3 DEF TypeOK, Verification
  <2> QED BY <1>6, <2>4
        DEF HealthBegin, BurnInv, TypeOK, LoadedAreChecked, DeregisteredHasNoKeys
<1>7. CASE HealthLoad
  <2> DEFINE batch == {a \in Assets : row[a].status \in Checked} \ touched
  <2>1. check' = [check EXCEPT !["health"] = Checking(batch, row)]
    BY <1>7 DEF HealthLoad
  <2> DEFINE k == Checking(batch, row)
  <2>2. /\ batch \in SUBSET Assets
        /\ \A a \in batch : row[a].status \in Checked
        /\ row \in [Assets -> Row]
    BY DEF TypeOK
  <2> HIDE DEF batch
  <2>3. /\ k \in Verification /\ k.batch = batch /\ k.got = {}
        /\ \A a \in batch : k.seen[a].status \in Checked
    BY <2>2, CheckingType
  <2> HIDE DEF k
  <2>4. /\ check' \in [Verifiers -> Verification]
        /\ \A v \in Verifiers : check'[v] = check[v] \/ check'[v] = k
    BY <2>1, <2>3 DEF TypeOK, k
  <2>5. \A v \in Verifiers : check'[v].got \subseteq check'[v].batch
    BY <2>3, <2>4 DEF TypeOK
  <2>6. LoadedAreChecked'
    BY <2>3, <2>4 DEF LoadedAreChecked
  <2> QED BY <1>7, <2>4, <2>5, <2>6
        DEF HealthLoad, BurnInv, TypeOK, DeregisteredHasNoKeys
<1>8. CASE HealthFails \/ \E v \in Verifiers : End(v)
  <2>1. PICK v \in Verifiers : check' = [check EXCEPT ![v] = NoCheck]
    BY <1>8 DEF HealthFails, End, Verifiers
  <2>2. \A w \in Verifiers : check'[w] = check[w] \/ check'[w] = NoCheck
    BY <2>1 DEF TypeOK
  <2>3. check' \in [Verifiers -> Verification]
    BY <2>1, NoCheckType DEF TypeOK
  <2>4. \A w \in Verifiers : check'[w].got \subseteq check'[w].batch
    BY <2>2, NoCheckType DEF TypeOK
  <2>5. LoadedAreChecked'
    BY <2>2, NoCheckType DEF LoadedAreChecked
  <2>6. UNCHANGED <<serves, row, sync, touched>>
    BY <1>8 DEF HealthFails, End
  <2> QED BY <2>3, <2>4, <2>5, <2>6 DEF BurnInv, TypeOK, DeregisteredHasNoKeys
<1>9. ASSUME NEW v \in Verifiers, NEW c \in Contents, Lookup(v, c) PROVE BurnInv'
  <2>1. TypeOK'
    BY <1>9, LookupCheck DEF TypeOK, Lookup
  <2>2. LoadedAreChecked'
    BY <1>9, LookupCheck DEF LoadedAreChecked
  <2>3. DeregisteredHasNoKeys'
    BY <1>9 DEF Lookup, DeregisteredHasNoKeys
  <2> QED BY <2>1, <2>2, <2>3 DEF BurnInv
<1>10. ASSUME NEW v \in Verifiers, NEW a \in Assets, Write(v, a) PROVE BurnInv'
  <2> DEFINE r == Verified(row[a], check[v].seen[a], check[v].ans[a], a)
  <2>1. a \in check[v].batch /\ Done(v, a)
    BY <1>10 DEF Write
  <2>2. r \in Row /\ r.status \in Checked
    BY <2>1, WrittenRow DEF LoadedAreChecked
  <2>3. row' = [row EXCEPT ![a] = r]
    BY <1>10 DEF Write
  <2> HIDE DEF r
  <2>4. row' \in [Assets -> Row]
    BY <2>2, <2>3 DEF TypeOK
  <2>5. TypeOK'
    BY <1>10, <2>1, <2>4, DoneCheck DEF Write, TypeOK
  <2>6. LoadedAreChecked'
    BY <2>1, DoneCheck DEF LoadedAreChecked
  <2>7. DeregisteredHasNoKeys'
    BY <2>2, <2>3 DEF DeregisteredHasNoKeys, TypeOK, Checked
  <2> QED BY <2>5, <2>6, <2>7 DEF BurnInv
<1>11. ASSUME NEW v \in Verifiers, NEW a \in Assets, WriteFails(v, a) PROVE BurnInv'
  <2>1. Done(v, a)
    BY <1>11 DEF WriteFails
  <2>2. TypeOK'
    BY <1>11, <2>1, DoneCheck DEF WriteFails, TypeOK
  <2>3. LoadedAreChecked'
    BY <2>1, DoneCheck DEF LoadedAreChecked
  <2> QED BY <1>11, <2>2, <2>3 DEF WriteFails, BurnInv, DeregisteredHasNoKeys
<1>12. CASE Crash
  <2>1. \A v \in Verifiers : check'[v] = NoCheck
    BY <1>12 DEF Crash
  <2>2. TypeOK'
    BY <1>12, <2>1, NoCheckType DEF Crash, TypeOK
  <2>3. LoadedAreChecked'
    BY <2>1, NoCheckType DEF LoadedAreChecked
  <2> QED BY <1>12, <2>2, <2>3 DEF Crash, BurnInv, DeregisteredHasNoKeys
<1>13. CASE UNCHANGED vars
  BY <1>13 DEF vars, BurnInv, TypeOK, LoadedAreChecked, DeregisteredHasNoKeys
<1> QED
  BY <1>1, <1>2, <1>3, <1>4, <1>5, <1>6, <1>7, <1>8, <1>9, <1>10, <1>11, <1>12, <1>13
  DEF Next, VerifyStep

LEMMA BurnAlways == Spec => []BurnInv
  BY BurnInit, BurnStep, PTL DEF Spec

(* Rows, mints and verifications always have their types, under every      *)
(* interleaving of sync and pass and every fault.                          *)
THEOREM TypeCorrect == Spec => []TypeOK
<1>1. BurnInv => TypeOK
  BY DEF BurnInv
<1> QED BY <1>1, BurnAlways, PTL

(* Keys of a burned agent are never served, whatever stale write of a      *)
(* verification comes after the burn.                                      *)
THEOREM BurnedHasNoKeys == Spec => []DeregisteredHasNoKeys
<1>1. BurnInv => DeregisteredHasNoKeys
  BY DEF BurnInv
<1> QED BY <1>1, BurnAlways, PTL

---------------------------------------------------------------------------
(* Every interleaving: no burn comes between a mint and its verification,  *)
(* as the sync waits for it, so what the sync verifies is listed.          *)

MintedIsListed ==
    /\ check["sync"].at = "idle" => check["sync"].batch = {}
    /\ \A a \in check["sync"].batch : row[a].status \in Checked

LEMMA ListedInit == Init => MintedIsListed
  BY NoCheckType DEF Init, MintedIsListed, Verifiers

LEMMA ListedStep == BurnInv /\ MintedIsListed /\ [Next]_vars => MintedIsListed'
<1> SUFFICES ASSUME BurnInv, MintedIsListed, [Next]_vars PROVE MintedIsListed'
  OBVIOUS
<1>0. /\ TypeOK /\ LoadedAreChecked
      /\ row \in [Assets -> Row] /\ check \in [Verifiers -> Verification]
      /\ "sync" \in Verifiers /\ "health" \in Verifiers
      /\ check["sync"].batch \subseteq Assets
  BY DEF BurnInv, TypeOK, Verifiers, Verification
<1>1. ASSUME row' = row, check'["sync"].at = check["sync"].at,
             check'["sync"].batch \subseteq check["sync"].batch
      PROVE  MintedIsListed'
  BY <1>1 DEF MintedIsListed
<1>2. CASE Upsert
  <2> DEFINE a == sync.asset
  <2>1. /\ a \in Assets /\ sync.seen \in Row /\ sync.content \in Contents
        /\ row' = [row EXCEPT ![a] = Upserted(@, sync.seen, sync.content)]
    BY <1>0, <1>2 DEF Upsert, TypeOK, NoMint
  <2>2. /\ row' \in [Assets -> Row] /\ row'[a].status \in Checked
        /\ \A b \in Assets : b # a => row'[b] = row[b]
    BY <1>0, <2>1, UpsertedRow
  <2>3. CASE check' = [check EXCEPT !["sync"] = Checking({a}, row')]
    <3>1. Checking({a}, row').at = "checking" /\ Checking({a}, row').batch = {a}
      BY DEF Checking
    <3>2. check'["sync"].at = "checking" /\ check'["sync"].batch = {a}
      BY <1>0, <2>3, <3>1
    <3> QED BY <2>2, <3>2 DEF MintedIsListed
  <2>4. CASE check' = check
    BY <1>0, <2>2, <2>4 DEF MintedIsListed
  <2> QED BY <1>2, <2>3, <2>4 DEF Upsert
<1>3. ASSUME NEW a \in Assets, Burn(a) PROVE MintedIsListed'
  BY <1>3 DEF Burn, SyncMay, SyncIdle, MintedIsListed
<1>4. ASSUME HealthBegin \/ HealthLoad \/ HealthFails PROVE MintedIsListed'
  <2>1. row' = row /\ check'["sync"] = check["sync"]
    BY <1>0, <1>4 DEF HealthBegin, HealthLoad, HealthFails
  <2> QED BY <1>1, <2>1
<1>5. ASSUME NEW v \in Verifiers, NEW c \in Contents, Lookup(v, c) PROVE MintedIsListed'
  <2>1. /\ check'["sync"].at = check["sync"].at
        /\ check'["sync"].batch = check["sync"].batch
    BY <1>0, <1>5, LookupCheck
  <2> QED BY <1>1, <1>5, <2>1 DEF Lookup
<1>6. ASSUME NEW v \in Verifiers, NEW a \in Assets, Done(v, a)
      PROVE  /\ check'["sync"].at = check["sync"].at
             /\ check'["sync"].batch \subseteq check["sync"].batch
  BY <1>0, <1>6, DoneCheck
<1>7. ASSUME NEW v \in Verifiers, NEW a \in Assets, Write(v, a) PROVE MintedIsListed'
  <2>1. Done(v, a) /\ a \in check[v].batch /\ check[v].seen[a].status \in Checked
    BY <1>0, <1>7 DEF Write, LoadedAreChecked
  <2>2. Verified(row[a], check[v].seen[a], check[v].ans[a], a).status \in Checked
    BY <1>0, <2>1, WrittenRow
  <2>3. row'[a].status \in Checked /\ \A b \in Assets : b # a => row'[b] = row[b]
    BY <1>0, <1>7, <2>2 DEF Write
  <2> QED BY <1>0, <1>6, <2>1, <2>3 DEF MintedIsListed
<1>8. ASSUME NEW v \in Verifiers, NEW a \in Assets, WriteFails(v, a) PROVE MintedIsListed'
  BY <1>1, <1>6, <1>8 DEF WriteFails
<1>9. ASSUME NEW v \in Verifiers, End(v) PROVE MintedIsListed'
  <2>1. CASE v = "sync"
    <3>1. check'["sync"].batch = {}
      BY <1>0, <1>9, <2>1, NoCheckType DEF End
    <3> QED BY <3>1 DEF MintedIsListed
  <2>2. CASE v # "sync"
    <3>1. row' = row /\ check'["sync"] = check["sync"]
      BY <1>0, <1>9, <2>2 DEF End
    <3> QED BY <1>1, <3>1
  <2> QED BY <2>1, <2>2
<1>10. CASE Crash
  <2>1. check'["sync"].batch = {}
    BY <1>0, <1>10, NoCheckType DEF Crash
  <2> QED BY <2>1 DEF MintedIsListed
<1>11. ASSUME row' = row, check' = check PROVE MintedIsListed'
  BY <1>1, <1>11
<1> QED
  BY <1>2, <1>3, <1>4, <1>5, <1>7, <1>8, <1>9, <1>10, <1>11
  DEF Next, VerifyStep, Republish, ReadExisting, SyncFails, vars

LEMMA ListedAlways == Spec => [](BurnInv /\ MintedIsListed)
  BY BurnInit, BurnStep, ListedInit, ListedStep, PTL DEF Spec

(* For every interleaving: a burned registration comes back by a mint, or  *)
(* by a health pass that loaded it before the burn, and in no other way.   *)
THEOREM RevivedOnlyByLoaded == Spec => RevivedByMintOrPass
<1>1. ASSUME BurnInv, MintedIsListed, [Next]_vars
      PROVE  [\A a \in Assets :
                 row[a].status = "Deregistered" /\ row'[a].status # "Deregistered"
                     => \/ sync.asset = a
                        \/ /\ a \in check["health"].batch
                           /\ check["health"].seen[a].status \in Checked]_vars
  <2> SUFFICES ASSUME NEW a \in Assets,
                      row[a].status = "Deregistered", row'[a].status # "Deregistered",
                      sync.asset # a
               PROVE  /\ a \in check["health"].batch
                      /\ check["health"].seen[a].status \in Checked
    OBVIOUS
  <2>1. row \in [Assets -> Row]
    BY <1>1 DEF BurnInv, TypeOK
  <2>2. ASSUME Upsert PROVE FALSE
    BY <2>1, <2>2 DEF Upsert
  <2>3. ASSUME NEW b \in Assets, Burn(b) PROVE FALSE
    BY <2>1, <2>3 DEF Burn, Deregistered
  <2>4. ASSUME NEW v \in Verifiers, NEW b \in Assets, Write(v, b)
        PROVE  /\ a \in check["health"].batch
               /\ check["health"].seen[a].status \in Checked
    <3>1. b = a /\ a \in check[v].batch
      BY <2>1, <2>4 DEF Write
    <3>2. v # "sync"
      BY <1>1, <3>1 DEF MintedIsListed, Checked
    <3> QED BY <1>1, <3>1, <3>2 DEF BurnInv, LoadedAreChecked, Verifiers
  <2>5. ASSUME row' = row PROVE FALSE
    BY <2>5
  <2> QED
    BY <1>1, <2>2, <2>3, <2>4, <2>5
    DEF Next, VerifyStep, Republish, ReadExisting, SyncFails, HealthBegin, HealthLoad,
        HealthFails, Lookup, WriteFails, End, Crash, vars
<1> QED BY <1>1, ListedAlways, PTL DEF Spec, RevivedByMintOrPass

---------------------------------------------------------------------------
(* Every interleaving: what an endpoint names is published from then on,   *)
(* and nobody decides on anything else.                                    *)

Named(p, a) == \E c \in Contents : <<c, a>> \in p

Founded(p, r, a) ==
    /\ r.keys # None => <<r.keys, a>> \in p
    /\ r.status = "Verified" => Named(p, a)

Told(p, ans, c, a) ==
    ans.outcome = "resolved" /\ a \in ans.ids => <<c, a>> \in p

ServedIsPublished ==
    \A c \in Contents, a \in Assets : Told(published, serves[c], c, a)

RowsAreFounded == \A a \in Assets : Founded(published, row[a], a)

SeenIsFounded ==
    sync.at = "upsert" => (sync.seen.status = "Verified" => Named(published, sync.asset))

CheckIsFounded(p, k) ==
    /\ \A a \in k.batch : k.seen[a].status = "Verified" => Named(p, a)
    /\ \A a \in k.got : Told(p, k.ans[a], k.seen[a].content, a)

PublishedInv ==
    /\ published \subseteq Contents \X Assets
    /\ ServedIsPublished /\ RowsAreFounded /\ SeenIsFounded
    /\ \A v \in Verifiers : CheckIsFounded(published, check[v])

(* What was published stays so.                                            *)
LEMMA StaysPublished ==
  ASSUME NEW p, NEW q, p \subseteq q
  PROVE  /\ \A a : Named(p, a) => Named(q, a)
         /\ \A r, a : Founded(p, r, a) => Founded(q, r, a)
         /\ \A ans, c, a : Told(p, ans, c, a) => Told(q, ans, c, a)
         /\ \A k : CheckIsFounded(p, k) => CheckIsFounded(q, k)
  BY DEF Named, Founded, Told, CheckIsFounded

LEMMA UpsertedFounded ==
  ASSUME NEW p, NEW r \in Row, NEW seen \in Row, NEW c \in Contents, NEW a,
         Founded(p, r, a), seen.status = "Verified" => Named(p, a)
  PROVE  Founded(p, Upserted(r, seen, c), a)
  BY DEF Founded, Upserted, NextStatus, Row, Checked

LEMMA VerifiedFounded ==
  ASSUME NEW p \in SUBSET (Contents \X Assets), NEW r \in Row, NEW seen \in Row,
         NEW ans \in Answer, NEW a,
         Founded(p, r, a), seen.status = "Verified" => Named(p, a),
         Told(p, ans, seen.content, a)
  PROVE  Founded(p, Verified(r, seen, ans, a), a)
<1>1. ans.outcome \in {"unavailable", "pending", "resolved"}
  BY DEF Answer
<1>2. ASSUME ans.outcome = "resolved", a \in ans.ids
      PROVE  <<seen.content, a>> \in p /\ Named(p, a)
  BY <1>2 DEF Told, Named
<1> QED BY <1>1, <1>2 DEF Founded, Verified, Verdict

LEMMA PublishedInit == HistoryInit => PublishedInv
<1> SUFFICES ASSUME HistoryInit PROVE PublishedInv
  OBVIOUS
<1>1. \A v \in Verifiers : check[v] = NoCheck
  BY DEF HistoryInit, Init
<1>2. \A v \in Verifiers : CheckIsFounded(published, check[v])
  BY <1>1, NoCheckType DEF CheckIsFounded
<1>3. ServedIsPublished /\ RowsAreFounded /\ SeenIsFounded
  BY DEF HistoryInit, Init, ServedIsPublished, RowsAreFounded, SeenIsFounded, Told, Founded,
         NoAnswer, NoRow, NoMint
<1> QED BY <1>2, <1>3 DEF PublishedInv, HistoryInit

LEMMA PublishedStep ==
  BurnInv /\ PublishedInv /\ [HistoryNext]_historyVars => PublishedInv'
<1> SUFFICES ASSUME BurnInv, PublishedInv, [HistoryNext]_historyVars PROVE PublishedInv'
  OBVIOUS
<1>0. /\ TypeOK /\ LoadedAreChecked
      /\ row \in [Assets -> Row] /\ check \in [Verifiers -> Verification]
      /\ "sync" \in Verifiers /\ "health" \in Verifiers
      /\ RowsAreFounded /\ SeenIsFounded /\ ServedIsPublished
      /\ \A v \in Verifiers : CheckIsFounded(published, check[v])
  BY DEF BurnInv, TypeOK, Verifiers, PublishedInv
<1>1. /\ [Next]_vars /\ published \subseteq published'
      /\ published' \subseteq Contents \X Assets
  BY DEF HistoryNext, historyVars, Naming, PublishedInv
<1>2. ServedIsPublished'
  <2>1. CASE HistoryNext
    BY <2>1 DEF HistoryNext, Naming, ServedIsPublished, Told
  <2>2. CASE UNCHANGED historyVars
    BY <1>0, <2>2 DEF historyVars, vars, ServedIsPublished
  <2> QED BY <2>1, <2>2
<1>3. /\ \A a \in Assets : Founded(published', row[a], a)
      /\ \A v \in Verifiers : CheckIsFounded(published', check[v])
      /\ sync.at = "upsert" =>
            (sync.seen.status = "Verified" => Named(published', sync.asset))
      /\ \A c \in Contents, a \in Assets : Told(published', serves[c], c, a)
  BY <1>0, <1>1, StaysPublished
     DEF RowsAreFounded, SeenIsFounded, ServedIsPublished
<1> HIDE DEF RowsAreFounded
<1> SUFFICES /\ RowsAreFounded' /\ SeenIsFounded'
             /\ \A v \in Verifiers : CheckIsFounded(published', check'[v])
  BY <1>1, <1>2 DEF PublishedInv
<1>n. CheckIsFounded(published', NoCheck)
  BY NoCheckType DEF CheckIsFounded
<1>r. row' = row => RowsAreFounded'
  BY <1>3 DEF RowsAreFounded
<1>s. sync' = sync \/ sync' = NoMint => SeenIsFounded'
  BY <1>3 DEF SeenIsFounded, NoMint
<1>c. check' = check => \A v \in Verifiers : CheckIsFounded(published', check'[v])
  BY <1>3
<1>4. CASE Upsert
  <2> DEFINE a == sync.asset
             r == Upserted(row[a], sync.seen, sync.content)
  <2>1. /\ a \in Assets /\ row[a] \in Row /\ sync.seen \in Row /\ sync.content \in Contents
    BY <1>0, <1>4 DEF Upsert, TypeOK, NoMint
  <2>2. row' = [row EXCEPT ![a] = r] /\ sync' = NoMint
    BY <1>4 DEF Upsert
  <2>3. Founded(published', r, a) /\ r \in Row
    BY <1>3, <1>4, <2>1, UpsertedFounded, UpsertedRow DEF Upsert
  <2> HIDE DEF r
  <2>4. RowsAreFounded' /\ row' \in [Assets -> Row] /\ row'[a] = r
    BY <1>0, <1>3, <2>1, <2>2, <2>3 DEF RowsAreFounded
  <2>5. PICK rows \in [Assets -> Row] : rows = row'
    BY <2>4
  <2> DEFINE k == Checking({a}, rows)
  <2>6. check' = check \/ check' = [check EXCEPT !["sync"] = k]
    BY <1>4, <2>5 DEF Upsert
  <2> HIDE DEF a
  <2>7. k.batch = {a} /\ k.got = {} /\ k.seen[a] = r
    <3>1. {a} \in SUBSET Assets
      BY <2>1
    <3> QED BY <3>1, <2>4, <2>5, CheckingType
  <2> HIDE DEF k
  <2>8. CheckIsFounded(published', k)
    BY <2>3, <2>7 DEF CheckIsFounded, Founded
  <2>9. \A v \in Verifiers : CheckIsFounded(published', check'[v])
    BY <1>0, <1>3, <2>6, <2>8
  <2> QED BY <1>s, <2>2, <2>4, <2>9
<1>5. ASSUME NEW a \in Assets, Burn(a)
      PROVE  /\ RowsAreFounded' /\ SeenIsFounded'
             /\ \A v \in Verifiers : CheckIsFounded(published', check'[v])
  <2>1. row' = [row EXCEPT ![a] = Deregistered(row[a])]
    BY <1>5 DEF Burn
  <2>2. Founded(published', Deregistered(row[a]), a)
    BY <1>3 DEF Founded, Deregistered
  <2>3. RowsAreFounded'
    BY <1>0, <1>3, <2>1, <2>2 DEF RowsAreFounded
  <2> QED BY <1>5, <1>s, <1>c, <2>3 DEF Burn
<1>6. ASSUME NEW a \in Assets, NEW c \in Contents, ReadExisting(a, c)
      PROVE  /\ RowsAreFounded' /\ SeenIsFounded'
             /\ \A v \in Verifiers : CheckIsFounded(published', check'[v])
  <2>1. sync'.asset = a /\ sync'.seen = row[a]
    BY <1>6 DEF ReadExisting
  <2>2. SeenIsFounded'
    BY <1>3, <2>1 DEF SeenIsFounded, Founded
  <2> QED BY <1>6, <1>r, <1>c, <2>2 DEF ReadExisting
<1>7. CASE HealthBegin
  <2>1. \A v \in Verifiers : /\ check'[v].batch = check[v].batch
                             /\ check'[v].got = check[v].got
                             /\ check'[v].seen = check[v].seen
                             /\ check'[v].ans = check[v].ans
    BY <1>0, <1>7 DEF HealthBegin, Verification
  <2>2. \A v \in Verifiers : CheckIsFounded(published', check'[v])
    BY <1>3, <2>1 DEF CheckIsFounded
  <2> QED BY <1>7, <1>r, <1>s, <2>2 DEF HealthBegin
<1>8. CASE HealthLoad
  <2> DEFINE batch == {a \in Assets : row[a].status \in Checked} \ touched
             k == Checking(batch, row)
  <2>1. check' = [check EXCEPT !["health"] = k]
    BY <1>8 DEF HealthLoad
  <2>2. batch \in SUBSET Assets /\ row \in [Assets -> Row]
    BY <1>0
  <2> HIDE DEF batch
  <2>3. k.batch = batch /\ k.got = {} /\ \A a \in batch : k.seen[a] = row[a]
    BY <2>2, CheckingType
  <2> HIDE DEF k
  <2>4. CheckIsFounded(published', k)
    BY <1>3, <2>2, <2>3 DEF CheckIsFounded, Founded
  <2>5. \A v \in Verifiers : CheckIsFounded(published', check'[v])
    BY <1>0, <1>3, <2>1, <2>4
  <2> QED BY <1>8, <1>r, <1>s, <2>5 DEF HealthLoad
<1>9. ASSUME NEW v \in Verifiers, check' = [check EXCEPT ![v] = NoCheck]
      PROVE  \A w \in Verifiers : CheckIsFounded(published', check'[w])
  BY <1>0, <1>3, <1>9, <1>n
<1>10. ASSUME NEW v \in Verifiers, NEW c \in Contents, Lookup(v, c)
       PROVE  /\ RowsAreFounded' /\ SeenIsFounded'
              /\ \A w \in Verifiers : CheckIsFounded(published', check'[w])
  <2>1. /\ \A w \in Verifiers : w # v => check'[w] = check[w]
        /\ check'[v].batch = check[v].batch /\ check'[v].seen = check[v].seen
        /\ check'[v].got \subseteq Assets
        /\ \A a \in check'[v].got :
              \/ a \in check[v].got /\ check'[v].ans[a] = check[v].ans[a]
              \/ check[v].seen[a].content = c /\ check'[v].ans[a] = serves[c]
    BY <1>0, <1>10, LookupCheck DEF Verification
  <2>2. \A a \in check'[v].got : Told(published', check'[v].ans[a], check'[v].seen[a].content, a)
    BY <1>3, <2>1 DEF CheckIsFounded
  <2>3. CheckIsFounded(published', check'[v])
    BY <1>3, <2>1, <2>2 DEF CheckIsFounded
  <2> QED BY <1>10, <1>r, <1>s, <1>3, <2>1, <2>3 DEF Lookup
<1>11. ASSUME NEW v \in Verifiers, NEW a \in Assets, Done(v, a)
       PROVE  \A w \in Verifiers : CheckIsFounded(published', check'[w])
  <2>1. /\ \A w \in Verifiers : w # v => check'[w] = check[w]
        /\ check'[v].batch \subseteq check[v].batch
        /\ check'[v].got \subseteq check'[v].batch
        /\ \A b \in check'[v].batch : check'[v].seen[b] = check[v].seen[b]
        /\ \A b \in check'[v].got :
              b \in check[v].got /\ check'[v].ans[b] = check[v].ans[b]
    BY <1>0, <1>11, DoneCheck
  <2>2. CheckIsFounded(published', check'[v])
    BY <1>3, <2>1 DEF CheckIsFounded
  <2> QED BY <1>3, <2>1, <2>2
<1>12. ASSUME NEW v \in Verifiers, NEW a \in Assets, Write(v, a)
       PROVE  /\ RowsAreFounded' /\ SeenIsFounded'
              /\ \A w \in Verifiers : CheckIsFounded(published', check'[w])
  <2> DEFINE r == Verified(row[a], check[v].seen[a], check[v].ans[a], a)
  <2>1. /\ a \in check[v].batch /\ a \in check[v].got /\ Done(v, a)
        /\ row' = [row EXCEPT ![a] = r] /\ sync' = sync
    BY <1>12 DEF Write
  <2>2. /\ row[a] \in Row /\ check[v].seen[a] \in Row /\ check[v].ans[a] \in Answer
    BY <1>0, <2>1, WrittenRow DEF LoadedAreChecked
  <2>3. /\ check[v].seen[a].status = "Verified" => Named(published', a)
        /\ Told(published', check[v].ans[a], check[v].seen[a].content, a)
    BY <1>3, <2>1 DEF CheckIsFounded
  <2>4. Founded(published', r, a)
    <3>1. published' \in SUBSET (Contents \X Assets) /\ Founded(published', row[a], a)
      BY <1>1, <1>3
    <3> QED BY <2>2, <2>3, <3>1, VerifiedFounded
  <2> HIDE DEF r
  <2>5. RowsAreFounded'
    BY <1>0, <1>3, <2>1, <2>4 DEF RowsAreFounded
  <2> QED BY <1>s, <1>11, <2>1, <2>5
<1>13. ASSUME NEW v \in Verifiers, NEW a \in Assets, WriteFails(v, a)
       PROVE  /\ RowsAreFounded' /\ SeenIsFounded'
              /\ \A w \in Verifiers : CheckIsFounded(published', check'[w])
  BY <1>13, <1>r, <1>s, <1>11 DEF WriteFails
<1>14. ASSUME NEW v \in Verifiers, End(v)
       PROVE  /\ RowsAreFounded' /\ SeenIsFounded'
              /\ \A w \in Verifiers : CheckIsFounded(published', check'[w])
  BY <1>14, <1>9, <1>r, <1>s DEF End
<1>15. CASE HealthFails
  BY <1>0, <1>15, <1>9, <1>r, <1>s DEF HealthFails
<1>16. CASE Crash
  <2>1. \A v \in Verifiers : check'[v] = NoCheck
    BY <1>16 DEF Crash
  <2> QED BY <1>16, <1>n, <1>r, <1>s, <2>1 DEF Crash
<1>17. ASSUME row' = row, check' = check, sync' = sync \/ sync' = NoMint
       PROVE  /\ RowsAreFounded' /\ SeenIsFounded'
              /\ \A w \in Verifiers : CheckIsFounded(published', check'[w])
  BY <1>17, <1>r, <1>s, <1>c
<1> QED
  BY <1>1, <1>4, <1>5, <1>6, <1>7, <1>8, <1>10, <1>12, <1>13, <1>14, <1>15, <1>16, <1>17
  DEF Next, VerifyStep, Republish, SyncFails, vars

(* For every interleaving and every fault: verification data was published *)
(* for the registration by the endpoint it is attributed to, and nothing is*)
(* listed as verified that no endpoint ever named.                         *)
THEOREM VerifiedWasPublished == HistorySpec => []OnlyPublishedVerified
<1>1. HistoryInit => BurnInv /\ PublishedInv
  BY BurnInit, PublishedInit DEF HistoryInit
<1>2. BurnInv /\ PublishedInv /\ [HistoryNext]_historyVars => (BurnInv /\ PublishedInv)'
  BY BurnStep, PublishedStep DEF HistoryNext, historyVars
<1>3. PublishedInv => OnlyPublishedVerified
  BY DEF PublishedInv, RowsAreFounded, Founded, Named, OnlyPublishedVerified
<1> QED BY <1>1, <1>2, <1>3, PTL DEF HistorySpec

---------------------------------------------------------------------------
(* No overlap: while anyone verifies, no one else writes, so the row a     *)
(* decision was taken on is the row it is written over.                    *)

Apart == SyncIdle \/ check["health"].at = "idle"

(* The sync waits for the verification of the mint before it reads on.     *)
MintThenCheck ==
    sync.at = "upsert" => /\ check["sync"].at = "idle"
                          /\ sync.seen = row[sync.asset]

OnlyCheckingHasBatch ==
    \A v \in Verifiers : check[v].at # "checking" => check[v].batch = {}

LoadedIsPresent ==
    \A v \in Verifiers : \A a \in check[v].batch : check[v].seen[a] = row[a]

QuietInv ==
    /\ BurnInv
    /\ Apart
    /\ MintThenCheck
    /\ OnlyCheckingHasBatch
    /\ LoadedIsPresent
    /\ KeysFollowStatus

LEMMA QuietInit == Init => QuietInv
<1> SUFFICES ASSUME Init PROVE QuietInv
  OBVIOUS
<1>1. BurnInv
  BY BurnInit
<1>2. \A v \in Verifiers : check[v] = NoCheck
  BY DEF Init
<1>3. "health" \in Verifiers /\ "sync" \in Verifiers
  BY DEF Verifiers
<1>4. Apart /\ OnlyCheckingHasBatch /\ LoadedIsPresent
  BY <1>2, <1>3, NoCheckType DEF Apart, OnlyCheckingHasBatch, LoadedIsPresent
<1>5. MintThenCheck
  BY DEF Init, MintThenCheck, NoMint
<1>6. KeysFollowStatus
  BY DEF Init, KeysFollowStatus, NoRow
<1> QED BY <1>1, <1>4, <1>5, <1>6 DEF QuietInv

(* Whoever has rows to write is alone.                                     *)
LEMMA WriterAlone ==
  ASSUME QuietInv, NEW v \in Verifiers, NEW a \in check[v].batch
  PROVE  /\ check[v].at = "checking"
         /\ sync.at = "idle"
         /\ \A w \in Verifiers : w # v => check[w].batch = {}
         /\ check[v].seen[a] = row[a]
<1>1. check[v].at = "checking" /\ check[v].seen[a] = row[a]
  BY DEF QuietInv, OnlyCheckingHasBatch, LoadedIsPresent
<1>2. CASE v = "health"
  <2>1. sync.at = "idle" /\ check["sync"].at = "idle"
    BY <1>1, <1>2 DEF QuietInv, Apart, SyncIdle
  <2> QED BY <1>1, <1>2, <2>1 DEF QuietInv, OnlyCheckingHasBatch, Verifiers
<1>3. CASE v = "sync"
  <2>1. check["health"].at = "idle"
    BY <1>1, <1>3 DEF QuietInv, Apart, SyncIdle
  <2>2. sync.at # "upsert"
    BY <1>1, <1>3 DEF QuietInv, MintThenCheck
  <2>3. sync.at = "idle"
    BY <2>2 DEF QuietInv, BurnInv, TypeOK, NoMint
  <2> QED BY <1>1, <1>3, <2>1, <2>3 DEF QuietInv, OnlyCheckingHasBatch, Verifiers
<1> QED BY <1>2, <1>3 DEF Verifiers

(* The decisions keep the keys in step with the status.                    *)
InStep(r) == r.keys = IF r.status = "Verified" THEN r.content ELSE None

LEMMA UpsertedInStep ==
  ASSUME NEW r \in Row, NEW c \in Contents, InStep(r)
  PROVE  InStep(Upserted(r, r, c))
  BY DEF InStep, Upserted, NextStatus, Row, Checked

LEMMA VerifiedInStep ==
  ASSUME NEW r \in Row, NEW ans \in Answer, NEW a, InStep(r)
  PROVE  InStep(Verified(r, r, ans, a))
<1>1. ans.outcome \in {"unavailable", "pending", "resolved"}
  BY DEF Answer
<1>2. r = [status |-> r.status, content |-> r.content, keys |-> r.keys]
  BY DEF Row
<1>3. ans.outcome = "unavailable" => Verified(r, r, ans, a) = r
  BY <1>2 DEF Verified, Verdict
<1>4. ans.outcome # "unavailable" => InStep(Verified(r, r, ans, a))
  BY <1>1 DEF Verified, Verdict, InStep
<1> QED BY <1>3, <1>4

LEMMA DeregisteredInStep ==
  ASSUME NEW r \in Row, InStep(r)
  PROVE  InStep(Deregistered(r))
  BY DEF InStep, Deregistered

(* What a step does to the registrations when sync and pass are apart.     *)
LEMMA QuietRows ==
  ASSUME QuietInv, ~Overlap, [Next]_vars
  PROVE  \/ row' = row
         \/ /\ sync.at = "upsert"
            /\ sync.asset \in Assets /\ sync.content \in Contents
            /\ row' = [row EXCEPT ![sync.asset] =
                          Upserted(row[sync.asset], row[sync.asset], sync.content)]
         \/ \E a \in Assets : Burn(a)
         \/ \E v \in Verifiers, a \in Assets :
               /\ Write(v, a)
               /\ row[a].status \in Checked
               /\ check[v].ans[a] \in Answer
               /\ row' = [row EXCEPT ![a] =
                             Verified(row[a], row[a], check[v].ans[a], a)]
<1>0. BurnInv /\ TypeOK /\ LoadedAreChecked
  BY DEF QuietInv, BurnInv
<1>1. CASE Upsert
  <2>1. sync.at = "upsert" /\ sync.seen = row[sync.asset]
    BY <1>1 DEF Upsert, QuietInv, MintThenCheck
  <2>2. sync.asset \in Assets /\ sync.content \in Contents
    BY <1>0, <2>1 DEF TypeOK, NoMint
  <2> QED BY <1>1, <2>1, <2>2 DEF Upsert
<1>2. ASSUME NEW v \in Verifiers, NEW a \in Assets, Write(v, a)
      PROVE  /\ row[a].status \in Checked
             /\ check[v].ans[a] \in Answer
             /\ row' = [row EXCEPT ![a] =
                           Verified(row[a], row[a], check[v].ans[a], a)]
  <2>1. a \in check[v].batch
    BY <1>2 DEF Write
  <2>2. check[v].seen[a] = row[a]
    BY <2>1, WriterAlone
  <2> QED BY <1>0, <1>2, <2>1, <2>2, WrittenRow DEF Write, LoadedAreChecked
<1>3. CASE \E a \in Assets : Burn(a)
  BY <1>3
<1>4. \/ \E c \in Contents : Republish(c)
      \/ \E a \in Assets, c \in Contents : ReadExisting(a, c)
      \/ SyncFails \/ HealthBegin \/ HealthLoad \/ HealthFails \/ Crash
      \/ \E v \in Verifiers : \/ End(v)
                              \/ \E c \in Contents : Lookup(v, c)
                              \/ \E a \in Assets : WriteFails(v, a)
      \/ UNCHANGED vars
      => row' = row
  BY DEF Republish, ReadExisting, SyncFails, HealthBegin, HealthLoad, HealthFails,
         Crash, End, Lookup, WriteFails, vars
<1> QED BY <1>1, <1>2, <1>3, <1>4 DEF Next, VerifyStep

LEMMA QuietKeys == QuietInv /\ ~Overlap /\ [Next]_vars => KeysFollowStatus'
<1> SUFFICES ASSUME QuietInv, ~Overlap, [Next]_vars PROVE KeysFollowStatus'
  OBVIOUS
<1>1. /\ row \in [Assets -> Row]
      /\ \A a \in Assets : InStep(row[a])
  BY DEF QuietInv, BurnInv, TypeOK, KeysFollowStatus, InStep
<1>2. SUFFICES \A a \in Assets : InStep(row'[a])
  BY DEF KeysFollowStatus, InStep
<1>3. CASE row' = row
  BY <1>1, <1>3
<1>4. ASSUME NEW a \in Assets, NEW r, InStep(r), row' = [row EXCEPT ![a] = r]
      PROVE  \A b \in Assets : InStep(row'[b])
  BY <1>1, <1>4
<1>5. ASSUME NEW a \in Assets, Burn(a)
      PROVE  row' = [row EXCEPT ![a] = Deregistered(row[a])]
  BY <1>5 DEF Burn
<1> QED
  BY <1>1, <1>3, <1>4, <1>5, QuietRows, UpsertedInStep, VerifiedInStep, DeregisteredInStep

QuietShape == Apart /\ MintThenCheck /\ OnlyCheckingHasBatch /\ LoadedIsPresent

LEMMA QuietStep == QuietInv /\ ~Overlap /\ [Next]_vars => QuietInv'
<1> SUFFICES ASSUME QuietInv, ~Overlap, [Next]_vars PROVE QuietShape'
  BY BurnStep, QuietKeys DEF QuietShape, QuietInv
<1>0. /\ TypeOK /\ BurnInv
      /\ Apart /\ MintThenCheck /\ OnlyCheckingHasBatch /\ LoadedIsPresent
      /\ "sync" \in Verifiers /\ "health" \in Verifiers /\ "sync" # "health"
  BY DEF QuietInv, BurnInv, Verifiers
<1> USE <1>0
<1>k. /\ NoCheck.at = "idle" /\ NoCheck.batch = {} /\ NoMint.at = "idle"
      /\ \A v \in Verifiers : v = "sync" \/ v = "health"
  BY NoCheckType DEF NoMint, Verifiers
<1>1. CASE row' = row /\ sync' = sync /\ check' = check
  BY <1>1 DEF QuietShape, Apart, SyncIdle, MintThenCheck, OnlyCheckingHasBatch, LoadedIsPresent
<1>2. ASSUME NEW a \in Assets, Burn(a) PROVE QuietShape'
  <2>1. sync.at = "idle" /\ check["sync"].at = "idle" /\ check["health"].at = "idle"
    BY <1>2 DEF Burn, SyncMay, SyncIdle
  <2>2. \A v \in Verifiers : check[v].batch = {}
    BY <2>1, <1>k DEF OnlyCheckingHasBatch
  <2> QED BY <1>2, <2>1, <2>2
        DEF Burn, QuietShape, Apart, SyncIdle, MintThenCheck, OnlyCheckingHasBatch, LoadedIsPresent
<1>3. ASSUME NEW a \in Assets, NEW c \in Contents, ReadExisting(a, c) PROVE QuietShape'
  <2>1. check["sync"].at = "idle" /\ check["health"].at = "idle"
    BY <1>3 DEF ReadExisting, SyncMay, SyncIdle
  <2> QED BY <1>3, <2>1
        DEF ReadExisting, QuietShape, Apart, SyncIdle, MintThenCheck, OnlyCheckingHasBatch,
            LoadedIsPresent
<1>4. CASE Upsert
  <2>1. check["health"].at = "idle" /\ check["sync"].at = "idle"
    BY <1>4 DEF Upsert, Apart, SyncIdle, MintThenCheck
  <2>2. \A v \in Verifiers : check[v].batch = {}
    BY <2>1, <1>k DEF OnlyCheckingHasBatch
  <2>3. sync.asset \in Assets
    BY <1>4 DEF Upsert, TypeOK, NoMint
  <2>4. PICK rows \in [Assets -> Row] : rows = row'
    BY BurnStep DEF BurnInv, TypeOK
  <2> DEFINE k == Checking({sync.asset}, rows)
  <2>5. check' = check \/ check' = [check EXCEPT !["sync"] = k]
    BY <1>4, <2>4 DEF Upsert
  <2>6. /\ k.at = "checking" /\ k.batch = {sync.asset}
        /\ k.seen[sync.asset] = rows[sync.asset]
    <3>1. {sync.asset} \in SUBSET Assets
      BY <2>3
    <3> QED BY <3>1, <2>4, CheckingType
  <2>7. sync' = NoMint
    BY <1>4 DEF Upsert
  <2> HIDE DEF k
  <2>8. /\ check'["health"] = check["health"]
        /\ check'["sync"] = check["sync"] \/ check'["sync"] = k
    BY <2>5 DEF TypeOK
  <2> QED BY <1>k, <2>1, <2>2, <2>4, <2>6, <2>7, <2>8
        DEF QuietShape, Apart, MintThenCheck, OnlyCheckingHasBatch, LoadedIsPresent
<1>5. CASE SyncFails
  BY <1>5, <1>k
  DEF SyncFails, QuietShape, Apart, SyncIdle, MintThenCheck, OnlyCheckingHasBatch, LoadedIsPresent
<1>6. CASE HealthBegin
  <2>1. check["health"].at = "idle" /\ SyncIdle
    BY <1>6 DEF HealthBegin
  <2>2. /\ check'["sync"] = check["sync"]
        /\ check'["health"] = [check["health"] EXCEPT !.at = "begun"]
    BY <1>6 DEF HealthBegin, TypeOK
  <2>3. check'["health"].batch = {}
    BY <2>1, <2>2 DEF OnlyCheckingHasBatch, TypeOK, Verification
  <2> QED BY <1>6, <1>k, <2>1, <2>2, <2>3
        DEF HealthBegin, QuietShape, Apart, SyncIdle, MintThenCheck, OnlyCheckingHasBatch,
            LoadedIsPresent
<1>7. CASE HealthLoad
  <2> DEFINE batch == {a \in Assets : row[a].status \in Checked} \ touched
             k     == Checking(batch, row)
  <2>1. SyncIdle
    BY <1>7 DEF HealthLoad, Apart
  <2>2. batch \in SUBSET Assets /\ row \in [Assets -> Row]
    BY DEF TypeOK
  <2>3. check' = [check EXCEPT !["health"] = k]
    BY <1>7 DEF HealthLoad
  <2> HIDE DEF batch
  <2>k. k.at = "checking" /\ k.batch = batch /\ \A a \in batch : k.seen[a] = row[a]
    BY <2>2, CheckingType
  <2> HIDE DEF k
  <2>4. check'["health"] = k /\ check'["sync"] = check["sync"]
    BY <2>3 DEF TypeOK
  <2> QED BY <1>7, <1>k, <2>1, <2>4, <2>k
        DEF HealthLoad, QuietShape, Apart, SyncIdle, MintThenCheck, OnlyCheckingHasBatch,
            LoadedIsPresent
<1>8. CASE HealthFails \/ \E v \in Verifiers : End(v)
  <2>1. PICK v \in Verifiers : check' = [check EXCEPT ![v] = NoCheck]
    BY <1>8 DEF HealthFails, End
  <2>2. \A w \in Verifiers : check'[w] = check[w] \/ check'[w] = NoCheck
    BY <2>1 DEF TypeOK
  <2>3. row' = row /\ sync' = sync
    BY <1>8 DEF HealthFails, End
  <2> QED BY <1>k, <2>2, <2>3
        DEF QuietShape, Apart, SyncIdle, MintThenCheck, OnlyCheckingHasBatch, LoadedIsPresent
<1>9. ASSUME NEW v \in Verifiers, NEW c \in Contents, Lookup(v, c) PROVE QuietShape'
  <2>1. /\ \A w \in Verifiers : w # v => check'[w] = check[w]
        /\ check'[v].at = check[v].at /\ check'[v].batch = check[v].batch
        /\ check'[v].seen = check[v].seen
    BY <1>9, LookupCheck
  <2>2. \A w \in Verifiers : /\ check'[w].at = check[w].at
                             /\ check'[w].batch = check[w].batch
                             /\ check'[w].seen = check[w].seen
    BY <2>1
  <2> QED BY <1>9, <2>2
        DEF Lookup, QuietShape, Apart, SyncIdle, MintThenCheck, OnlyCheckingHasBatch,
            LoadedIsPresent
<1>10. ASSUME NEW v \in Verifiers, NEW a \in Assets, Write(v, a) \/ WriteFails(v, a)
       PROVE  QuietShape'
  <2>1. a \in check[v].batch /\ Done(v, a) /\ sync' = sync
    BY <1>10 DEF Write, WriteFails
  <2>2. /\ \A w \in Verifiers : w # v => check'[w] = check[w]
        /\ check'[v].at = check[v].at
        /\ check'[v].batch = check[v].batch \ {a}
        /\ \A b \in check'[v].batch : check'[v].seen[b] = check[v].seen[b]
    BY <2>1, DoneCheck
  <2>3. /\ check[v].at = "checking" /\ sync.at = "idle"
        /\ \A w \in Verifiers : w # v => check[w].batch = {}
    BY <2>1, WriterAlone
  <2>4. \A b \in Assets : b # a => row'[b] = row[b]
    BY <1>10 DEF Write, WriteFails, TypeOK
  <2>5. \A w \in Verifiers : check'[w].at = check[w].at
    BY <2>2
  <2>6. Apart' /\ MintThenCheck'
    BY <2>1, <2>3, <2>5 DEF Apart, SyncIdle, MintThenCheck
  <2>7. OnlyCheckingHasBatch'
    BY <2>2, <2>3, <2>5 DEF OnlyCheckingHasBatch
  <2>8. check[v].batch \subseteq Assets
    BY DEF TypeOK, Verification
  <2>9. LoadedIsPresent'
    BY <2>2, <2>3, <2>4, <2>8 DEF LoadedIsPresent
  <2> QED BY <2>6, <2>7, <2>9 DEF QuietShape
<1>11. CASE Crash
  BY <1>11, <1>k
  DEF Crash, QuietShape, Apart, SyncIdle, MintThenCheck, OnlyCheckingHasBatch, LoadedIsPresent
<1>12. ASSUME NEW c \in Contents, Republish(c) PROVE QuietShape'
  BY <1>12, <1>1 DEF Republish
<1>13. CASE UNCHANGED vars
  BY <1>13, <1>1 DEF vars
<1> QED
  BY <1>2, <1>3, <1>4, <1>5, <1>6, <1>7, <1>8, <1>9, <1>10, <1>11, <1>12, <1>13
  DEF Next, VerifyStep

LEMMA QuietAlways == ASSUME ~Overlap PROVE Spec => []QuietInv
<1>1. QuietInv /\ [Next]_vars => QuietInv'
  BY QuietStep
<1> QED BY <1>1, QuietInit, PTL DEF Spec

(* Without overlap, verification data is there exactly when it should be.  *)
THEOREM KeysMatchStatus == ASSUME ~Overlap PROVE Spec => []KeysFollowStatus
<1>1. QuietInv => KeysFollowStatus
  BY DEF QuietInv
<1> QED BY <1>1, QuietAlways, PTL

(* Without overlap, sync and pass implement the ledger: each mint, burn and*)
(* answer is applied to the registration as it is.                         *)
THEOREM ImplementsInboxLedger == ASSUME ~Overlap PROVE Spec => FollowsInboxLedger
<1>1. Init => InboxLedger!Init
  BY DEF Init, InboxLedger!Init, NoRow, InboxLedger!NoRow
<1>2. ASSUME QuietInv, [Next]_vars PROVE [InboxLedger!Next]_row
  <2>1. ASSUME NEW a \in Assets, Burn(a) PROVE InboxLedger!Next
    BY <2>1 DEF Burn, InboxLedger!Next, InboxLedger!Deregister,
          InboxLedger!Deregistered, Deregistered
  <2>2. ASSUME sync.asset \in Assets, sync.content \in Contents,
               row' = [row EXCEPT ![sync.asset] =
                          Upserted(row[sync.asset], row[sync.asset], sync.content)]
        PROVE  InboxLedger!Next
    BY <2>2 DEF InboxLedger!Next, InboxLedger!Register, InboxLedger!Upserted, Upserted,
          InboxLedger!NextStatus, NextStatus, InboxLedger!Checked, Checked
  <2>3. ASSUME NEW a \in Assets, NEW ans \in Answer, row[a].status \in Checked,
               row' = [row EXCEPT ![a] = Verified(row[a], row[a], ans, a)]
        PROVE  InboxLedger!Next
    BY <2>3 DEF InboxLedger!Next, InboxLedger!Check, InboxLedger!Verified, Verified,
          InboxLedger!Verdict, Verdict, InboxLedger!Answer, Answer, InboxLedger!Checked, Checked
  <2> QED BY <1>2, <2>1, <2>2, <2>3, QuietRows
<1> QED BY <1>1, <1>2, QuietAlways, PTL DEF Spec, FollowsInboxLedger, InboxLedger!Spec

=============================================================================
