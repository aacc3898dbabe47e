------------------------ MODULE RegistryHealthProofs ------------------------
(***************************************************************************)
(* Proofs about RegistryHealth, for any number of entries, endpoints and   *)
(* queries, every interleaving and every fault: types, that the uptime     *)
(* adds up, and what can bring a burned entry back.  And about             *)
(* HealthSchedule, for any number of entries and any lengths of page and   *)
(* batch: that the queues stay ordered and apart, who may overtake whom in *)
(* them, and that no pass loads what was given up.                         *)
(***************************************************************************)
EXTENDS RegistryHealth, HealthSchedule, FiniteSetTheorems, TLAPS

---------------------------------------------------------------------------
(* What checks make of rows, and verifications of themselves.              *)

LEMMA CountsOn ==
  ASSUME NEW n \in 0 .. CountTo
  PROVE  /\ Incremented(n) \in 0 .. CountTo /\ Incremented(n) > 0
         /\ Incremented(n) >= n
         /\ Incremented(n) < CountTo => Incremented(n) = n + 1
         /\ \A k \in 0 .. n : Incremented(k) <= Incremented(n)
  BY LimitAssumption, SMT DEF Incremented

LEMMA RecordedEntry ==
  ASSUME NEW e \in Entry, NEW u \in Urls \cup {None}, NEW st \in Checked
  PROVE  /\ Recorded(e, u, st) \in Entry
         /\ Recorded(e, u, st).status = st
         /\ Recorded(e, u, st).checks > 0
         /\ st = "Online" => Recorded(e, u, st).up > 0
         /\ e.up <= e.checks =>
               /\ Recorded(e, u, st).up <= Recorded(e, u, st).checks
               /\ st # "Online" /\ Recorded(e, u, st).checks < CountTo
                     => Recorded(e, u, st).up < Recorded(e, u, st).checks
<1> DEFINE r == Recorded(e, u, st)
<1>1. e.up \in 0 .. CountTo /\ e.checks \in 0 .. CountTo
  BY DEF Entry
<1>2. /\ r.status = st /\ r.url = u
      /\ r.up = IF st = "Online" THEN Incremented(e.up) ELSE e.up
      /\ r.checks = Incremented(e.checks)
      /\ r = [status |-> r.status, url |-> r.url, up |-> r.up, checks |-> r.checks]
  BY DEF Recorded
<1> HIDE DEF r
<1>3. r.up \in 0 .. CountTo /\ r.checks \in 0 .. CountTo
  BY <1>1, <1>2, CountsOn
<1>4. r \in Entry
  BY <1>2, <1>3 DEF Entry, Status
<1>5. r.checks > 0 /\ (st = "Online" => r.up > 0)
  BY <1>1, <1>2, CountsOn
<1>6. ASSUME e.up <= e.checks
      PROVE  /\ r.up <= r.checks
             /\ st # "Online" /\ r.checks < CountTo => r.up < r.checks
  <2>1. e.up \in 0 .. e.checks /\ CountTo \in Nat
    BY <1>1, <1>6, LimitAssumption
  <2>2. /\ Incremented(e.up) <= Incremented(e.checks)
        /\ Incremented(e.checks) >= e.checks
        /\ Incremented(e.checks) < CountTo => Incremented(e.checks) = e.checks + 1
        /\ Incremented(e.checks) \in 0 .. CountTo
    BY <1>1, <2>1, CountsOn
  <2>3. CASE st = "Online"
    BY <1>2, <2>2, <2>3
  <2>4. CASE st # "Online"
    BY <1>1, <1>2, <1>6, <2>1, <2>2, <2>4
  <2> QED BY <2>3, <2>4
<1> QED BY <1>2, <1>4, <1>5, <1>6 DEF r

LEMMA VerdictChecked ==
  ASSUME NEW ans \in Answers, NEW a
  PROVE  Verdict(ans, a) \in Checked
  BY AnswersAssumption DEF Verdict, Checked

LEMMA NoCheckType ==
  /\ NoCheck \in Verification
  /\ NoCheck.batch = {} /\ NoCheck.got = {}
<1>1. NoSight \in [burned : BOOLEAN, url : Urls \cup {None}]
  BY DEF NoSight
<1> QED BY <1>1, AnswersAssumption DEF NoCheck, Verification

LEMMA LoadCheck ==
  ASSUME TypeOK, NEW v \in Verifiers, NEW batch \in SUBSET Assets, Load(v, batch)
  PROVE  /\ check' \in [Verifiers -> Verification]
         /\ \A w \in Verifiers : w # v => check'[w] = check[w]
         /\ check'[v].batch = batch /\ check'[v].got = {}
         /\ \A a \in batch : check'[v].seen[a].burned <=> entry[a].status = "Deregistered"
<1> DEFINE seen == [a \in Assets |->
                       IF a \notin batch THEN NoSight
                       ELSE [burned |-> entry[a].status = "Deregistered", url |-> entry[a].url]]
           k == [busy |-> TRUE, batch |-> batch, got |-> {}, seen |-> seen,
                 ans |-> check[v].ans]
<1>1. check' = [check EXCEPT ![v] = k]
  BY DEF Load
<1>2. \A a \in Assets : entry[a].url \in Urls \cup {None}
  BY DEF TypeOK, Entry
<1>3. seen \in [Assets -> [burned : BOOLEAN, url : Urls \cup {None}]]
  BY <1>2 DEF NoSight
<1>4. \A a \in batch : seen[a].burned <=> entry[a].status = "Deregistered"
  OBVIOUS
<1> HIDE DEF seen
<1>5. k \in Verification
  BY <1>3 DEF TypeOK, Verification
<1>6. /\ check' \in [Verifiers -> Verification]
      /\ check'[v] = k
      /\ \A w \in Verifiers : w # v => check'[w] = check[w]
  BY <1>1, <1>5 DEF TypeOK
<1> QED BY <1>4, <1>6

LEMMA LookupCheck ==
  ASSUME TypeOK, NEW v \in Verifiers, NEW u \in Urls, Lookup(v, u)
  PROVE  /\ check' \in [Verifiers -> Verification]
         /\ \A w \in Verifiers : w # v => check'[w] = check[w]
         /\ check'[v].batch = check[v].batch
         /\ check'[v].seen = check[v].seen
         /\ check'[v].got \subseteq check'[v].batch
<1> DEFINE asked == {a \in check[v].batch \ check[v].got : check[v].seen[a].url = u}
           ans   == [a \in Assets |-> IF a \in asked THEN serves[u] ELSE check[v].ans[a]]
           k     == [busy |-> TRUE, batch |-> check[v].batch, got |-> check[v].got \cup asked,
                     seen |-> check[v].seen, ans |-> ans]
<1>1. check' = [check EXCEPT ![v] = k]
  BY DEF Lookup
<1>2. check[v] \in Verification /\ check[v].got \subseteq check[v].batch
  BY DEF TypeOK
<1>3. ans \in [Assets -> Answers]
  BY <1>2 DEF TypeOK, Verification
<1>4. asked \subseteq check[v].batch
  OBVIOUS
<1> HIDE DEF ans, asked
<1>5. k \in Verification
  BY <1>2, <1>3, <1>4 DEF Verification
<1>6. /\ check' \in [Verifiers -> Verification]
      /\ check'[v] = k
      /\ \A w \in Verifiers : w # v => check'[w] = check[w]
  BY <1>1, <1>5 DEF TypeOK
<1> QED BY <1>2, <1>4, <1>6

LEMMA DoneCheck ==
  ASSUME TypeOK, NEW v \in Verifiers, NEW a \in Assets, Done(v, a)
  PROVE  /\ check' \in [Verifiers -> Verification]
         /\ \A w \in Verifiers : w # v => check'[w] = check[w]
         /\ check'[v].batch = check[v].batch \ {a}
         /\ check'[v].got \subseteq check'[v].batch
         /\ \A b \in check'[v].batch : check'[v].seen[b] = check[v].seen[b]
<1> DEFINE seen == [check[v].seen EXCEPT ![a] = NoSight]
           ans  == [check[v].ans EXCEPT ![a] = NoAnswer]
           k    == [busy |-> TRUE, batch |-> check[v].batch \ {a},
                    got |-> check[v].got \ {a}, seen |-> seen, ans |-> ans]
<1>1. check[v] \in Verification /\ check[v].got \subseteq check[v].batch
  BY DEF TypeOK
<1>2. seen \in [Assets -> [burned : BOOLEAN, url : Urls \cup {None}]]
  BY <1>1 DEF Verification, NoSight
<1>3. ans \in [Assets -> Answers]
  BY <1>1, AnswersAssumption DEF Verification
<1>4. \A b \in Assets : b # a => seen[b] = check[v].seen[b]
  BY <1>1 DEF Verification
<1>5. check' = [check EXCEPT ![v] = k]
  BY DEF Done
<1> HIDE DEF seen, ans
<1>6. k \in Verification
  BY <1>1, <1>2, <1>3 DEF Verification
<1>7. /\ check' \in [Verifiers -> Verification]
      /\ check'[v] = k
      /\ \A w \in Verifiers : w # v => check'[w] = check[w]
  BY <1>5, <1>6 DEF TypeOK
<1>8. check[v].batch \subseteq Assets
  BY <1>1 DEF Verification
<1> QED BY <1>1, <1>4, <1>7, <1>8

---------------------------------------------------------------------------
(* The pass loads no burned entry, so what it writes revives one only when *)
(* the burn came after the load.                                           *)
LoadedAlive ==
    \A a \in check["health"].batch : ~check["health"].seen[a].burned

HealthInv == TypeOK /\ UptimeAddsUp /\ LoadedAlive

LEMMA HealthInit == Init => HealthInv
<1> SUFFICES ASSUME Init PROVE HealthInv
  OBVIOUS
<1>1. NoEntry \in Entry /\ NoEntry.status = "absent" /\ NoEntry.up = 0 /\ NoEntry.checks = 0
  BY LimitAssumption, SMT DEF NoEntry, Entry, Status
<1>2. \A v \in Verifiers : check[v] = NoCheck
  BY DEF Init
<1>3. TypeOK
  BY <1>1, <1>2, NoCheckType, AnswersAssumption DEF Init, TypeOK
<1>4. UptimeAddsUp
  <2>1. \A a \in Assets : entry[a] = NoEntry
    BY DEF Init
  <2>2. 0 <= 0 /\ "absent" \notin {"Online", "Offline", "Invalid"}
    OBVIOUS
  <2> QED BY <1>1, <2>1, <2>2 DEF UptimeAddsUp
<1>5. LoadedAlive
  BY <1>2, NoCheckType DEF LoadedAlive, Verifiers
<1> QED BY <1>3, <1>4, <1>5 DEF HealthInv

(* A row that a check recorded.                                            *)
LEMMA RecordedStep ==
  ASSUME TypeOK, UptimeAddsUp, NEW a \in Assets, NEW u \in Urls \cup {None},
         NEW ans \in Answers,
         entry' = [entry EXCEPT ![a] = Recorded(entry[a], u, Verdict(ans, a))]
  PROVE  entry' \in [Assets -> Entry] /\ UptimeAddsUp'
<1> DEFINE e == Recorded(entry[a], u, Verdict(ans, a))
<1>1. entry[a] \in Entry /\ entry[a].up <= entry[a].checks
  BY DEF TypeOK, UptimeAddsUp
<1>2. /\ e \in Entry /\ e.status \in Checked
      /\ e.checks > 0 /\ (e.status = "Online" => e.up > 0) /\ e.up <= e.checks
      /\ e.status \in {"Offline", "Invalid"} /\ e.checks < CountTo => e.up < e.checks
  BY <1>1, RecordedEntry, VerdictChecked
<1> HIDE DEF e
<1>3. entry' = [entry EXCEPT ![a] = e]
  BY DEF e
<1>4. entry' \in [Assets -> Entry]
  BY <1>2, <1>3 DEF TypeOK
<1>5. \A b \in Assets : entry'[b] = IF b = a THEN e ELSE entry[b]
  BY <1>3 DEF TypeOK
<1>6. UptimeAddsUp'
  BY <1>2, <1>5 DEF UptimeAddsUp, Checked
<1> QED BY <1>4, <1>6

LEMMA HealthStep == HealthInv /\ [Next]_vars => HealthInv'
<1> SUFFICES ASSUME HealthInv, [Next]_vars PROVE HealthInv'
  OBVIOUS
<1>0. TypeOK /\ UptimeAddsUp /\ LoadedAlive /\ "health" \in Verifiers
  BY DEF HealthInv, Verifiers
<1> USE <1>0
<1>1. ASSUME NEW u \in Urls, Reply(u) PROVE HealthInv'
  <2>1. serves' \in [Urls -> Answers]
    BY <1>1 DEF Reply, TypeOK
  <2> QED BY <1>1, <2>1 DEF Reply, HealthInv, TypeOK, UptimeAddsUp, LoadedAlive
<1>2. ASSUME NEW a \in Assets, NEW u \in Urls, SyncLookup(a, u) PROVE HealthInv'
  <2>1. sync' \in [asset : Assets, url : Urls, ans : Answers]
    BY <1>2 DEF SyncLookup, TypeOK
  <2> QED BY <1>2, <2>1 DEF SyncLookup, HealthInv, TypeOK, UptimeAddsUp, LoadedAlive
<1>3. CASE SyncUpsert
  <2>1. sync.asset \in Assets /\ sync.url \in Urls /\ sync.ans \in Answers
    BY <1>3 DEF SyncUpsert, TypeOK
  <2>2. entry' = [entry EXCEPT ![sync.asset] =
                     Recorded(entry[sync.asset], sync.url, Verdict(sync.ans, sync.asset))]
    BY <1>3 DEF SyncUpsert
  <2>3. entry' \in [Assets -> Entry] /\ UptimeAddsUp'
    BY <2>1, <2>2, RecordedStep
  <2> QED BY <1>3, <2>3 DEF SyncUpsert, HealthInv, TypeOK, LoadedAlive
<1>4. CASE SyncFails
  BY <1>4 DEF SyncFails, HealthInv, TypeOK, UptimeAddsUp, LoadedAlive
<1>5. ASSUME NEW a \in Assets, Burn(a) PROVE HealthInv'
  <2>1. entry[a] \in Entry
    BY DEF TypeOK
  <2>2. [entry[a] EXCEPT !.status = "Deregistered"] \in Entry
    BY <2>1 DEF Entry, Status
  <2>3. entry' = [entry EXCEPT ![a] = [entry[a] EXCEPT !.status = "Deregistered"]]
    BY <1>5 DEF Burn
  <2>4. entry' \in [Assets -> Entry]
    BY <2>2, <2>3 DEF TypeOK
  <2>5. /\ entry[a].status # "absent"
        /\ entry'[a].status = "Deregistered"
        /\ entry'[a].up = entry[a].up /\ entry'[a].checks = entry[a].checks
        /\ \A b \in Assets : b # a => entry'[b] = entry[b]
    BY <1>5, <2>1, <2>3 DEF Burn, TypeOK, Entry
  <2>6. UptimeAddsUp'
    BY <2>5 DEF UptimeAddsUp
  <2> QED BY <1>5, <2>4, <2>6 DEF Burn, HealthInv, TypeOK, LoadedAlive
<1>6. ASSUME NEW due \in SUBSET Assets, HealthLoad(due) PROVE HealthInv'
  <2> DEFINE batch == due \cap ({a \in Assets : entry[a].status \in {"Online", "Offline"}}
                                   \cup Retried)
  <2>1. batch \in SUBSET Assets /\ \A a \in batch : entry[a].status # "Deregistered"
    BY DEF Retried
  <2>2. Load("health", batch)
    BY <1>6 DEF HealthLoad
  <2> HIDE DEF batch
  <2>3. TypeOK'
    BY <2>1, <2>2, LoadCheck DEF Load, TypeOK
  <2>4. LoadedAlive'
    BY <2>1, <2>2, LoadCheck DEF LoadedAlive
  <2> QED BY <2>2, <2>3, <2>4 DEF Load, HealthInv, UptimeAddsUp
<1>7. ASSUME NEW q \in Queries, QueryLoad(q) PROVE HealthInv'
  <2>1. q \in Verifiers /\ q # "health"
    BY HealthAssumption DEF Verifiers
  <2>2. PICK page \in SUBSET Assets : Load(q, page)
    BY <1>7 DEF QueryLoad
  <2>3. TypeOK'
    BY <2>1, <2>2, LoadCheck DEF Load, TypeOK
  <2>4. LoadedAlive'
    BY <2>1, <2>2, LoadCheck DEF LoadedAlive
  <2> QED BY <2>2, <2>3, <2>4 DEF Load, HealthInv, UptimeAddsUp
<1>8. ASSUME NEW v \in Verifiers, NEW u \in Urls, Lookup(v, u) PROVE HealthInv'
  <2>1. TypeOK'
    BY <1>8, LookupCheck DEF TypeOK, Lookup
  <2>2. LoadedAlive'
    BY <1>8, LookupCheck DEF LoadedAlive
  <2> QED BY <1>8, <2>1, <2>2 DEF Lookup, HealthInv, UptimeAddsUp
<1>9. ASSUME NEW v \in Verifiers, NEW a \in Assets, Write(v, a) PROVE HealthInv'
  <2>1. entry[a].url \in Urls \cup {None} /\ check[v].ans[a] \in Answers
    BY DEF TypeOK, Entry, Verification
  <2>2. entry' = [entry EXCEPT ![a] =
                     Recorded(entry[a], entry[a].url, Verdict(check[v].ans[a], a))]
    BY <1>9 DEF Write
  <2>3. entry' \in [Assets -> Entry] /\ UptimeAddsUp'
    BY <2>1, <2>2, RecordedStep
  <2>4. Done(v, a)
    BY <1>9 DEF Write
  <2>5. TypeOK'
    BY <1>9, <2>3, <2>4, DoneCheck DEF Write, TypeOK
  <2>6. LoadedAlive'
    BY <2>4, DoneCheck DEF LoadedAlive
  <2> QED BY <2>3, <2>5, <2>6 DEF HealthInv
<1>10. ASSUME NEW v \in Verifiers, NEW a \in Assets, WriteFails(v, a) PROVE HealthInv'
  <2>1. Done(v, a)
    BY <1>10 DEF WriteFails
  <2>2. TypeOK'
    BY <1>10, <2>1, DoneCheck DEF WriteFails, TypeOK
  <2>3. LoadedAlive'
    BY <2>1, DoneCheck DEF LoadedAlive
  <2> QED BY <1>10, <2>2, <2>3 DEF WriteFails, HealthInv, UptimeAddsUp
<1>11. ASSUME NEW v \in Verifiers, End(v) PROVE HealthInv'
  <2>1. /\ check' \in [Verifiers -> Verification]
        /\ \A w \in Verifiers : check'[w] = IF w = v THEN NoCheck ELSE check[w]
    BY <1>11, NoCheckType DEF End, TypeOK
  <2>2. TypeOK'
    BY <1>11, <2>1, NoCheckType DEF End, TypeOK
  <2>3. LoadedAlive'
    BY <2>1, NoCheckType DEF LoadedAlive
  <2> QED BY <1>11, <2>2, <2>3 DEF End, HealthInv, UptimeAddsUp
<1>12. CASE Crash
  <2>1. \A v \in Verifiers : check'[v] = NoCheck
    BY <1>12 DEF Crash
  <2>2. TypeOK'
    BY <1>12, <2>1, NoCheckType DEF Crash, TypeOK
  <2>3. LoadedAlive'
    BY <2>1, NoCheckType DEF LoadedAlive
  <2> QED BY <1>12, <2>2, <2>3 DEF Crash, HealthInv, UptimeAddsUp
<1>13. CASE UNCHANGED vars
  BY <1>13 DEF vars, HealthInv, TypeOK, UptimeAddsUp, LoadedAlive
<1> QED
  BY <1>1, <1>2, <1>3, <1>4, <1>5, <1>6, <1>7, <1>8, <1>9, <1>10, <1>11, <1>12, <1>13
  DEF Next, VerifyStep

LEMMA HealthAlways == Spec => []HealthInv
  BY HealthInit, HealthStep, PTL DEF Spec

(* Rows, mints and verifications always have their types.                  *)
THEOREM TypeCorrect == Spec => []TypeOK
<1>1. HealthInv => TypeOK
  BY DEF HealthInv
<1> QED BY <1>1, HealthAlways, PTL

(* The uptime of an entry adds up, for any number of queries, passes and   *)
(* mints that update it at the same time.                                  *)
THEOREM UptimeIsConsistent == Spec => []UptimeAddsUp
<1>1. HealthInv => UptimeAddsUp
  BY DEF HealthInv
<1> QED BY <1>1, HealthAlways, PTL

(* A burned entry comes back only by a mint, by a health pass that loaded  *)
(* it before the burn, or by a query that loaded it.                       *)
THEOREM RevivedOnlyByLoad == Spec => RevivedByLoadOnly
<1>1. ASSUME HealthInv, [Next]_vars
      PROVE  [\A a \in Assets :
                 entry[a].status = "Deregistered" /\ entry'[a].status # "Deregistered"
                     => \/ sync.asset = a
                        \/ \E q \in Queries : a \in check[q].batch
                        \/ /\ a \in check["health"].batch
                           /\ ~check["health"].seen[a].burned]_vars
  <2> SUFFICES ASSUME NEW a \in Assets,
                      entry[a].status = "Deregistered", entry'[a].status # "Deregistered"
               PROVE  \/ sync.asset = a
                      \/ \E v \in Verifiers : a \in check[v].batch
    BY <1>1 DEF HealthInv, LoadedAlive, Verifiers
  <2>1. entry \in [Assets -> Entry]
    BY <1>1 DEF HealthInv, TypeOK
  <2>2. CASE SyncUpsert
    BY <2>1, <2>2 DEF SyncUpsert
  <2>3. ASSUME NEW v \in Verifiers, NEW b \in Assets, Write(v, b)
        PROVE  \E w \in Verifiers : a \in check[w].batch
    BY <2>1, <2>3 DEF Write
  <2>4. ASSUME NEW b \in Assets, Burn(b) PROVE FALSE
    BY <2>1, <2>4 DEF Burn, Entry
  <2>5. ASSUME entry' = entry PROVE FALSE
    BY <2>5
  <2> QED
    BY <1>1, <2>2, <2>3, <2>4, <2>5
    DEF Next, VerifyStep, Reply, SyncLookup, SyncFails, HealthLoad, QueryLoad, Load,
        Lookup, WriteFails, End, Crash, vars
<1> QED BY <1>1, HealthAlways, PTL DEF Spec, RevivedByLoadOnly
---------------------------------------------------------------------------
(* The queues of a pass.                                                   *)

(* An order of a queue is one of any part of it.                           *)
LEMMA PartIsOrdered ==
  ASSUME NEW q, IsOrdered(q), NEW p \in SUBSET q
  PROVE  IsOrdered(p)
  BY DEF IsOrdered

LEMMA AheadFinite ==
  ASSUME NEW q \in SUBSET Entries, NEW e
  PROVE  /\ IsFiniteSet(q) /\ Cardinality(q) \in Nat
         /\ IsFiniteSet(Ahead(q, e)) /\ Cardinality(Ahead(q, e)) \in Nat
         /\ Cardinality(Ahead(q, e)) <= Cardinality(q)
<1>1. Ahead(q, e) \in SUBSET q
  BY DEF Ahead
<1>2. IsFiniteSet(q)
  BY EntriesAssumption, FS_Subset
<1> QED BY <1>1, <1>2, FS_Subset, FS_CardinalityType

(* Of two entries of a queue the later one has more ahead of it.           *)
LEMMA LaterHasMore ==
  ASSUME NEW q \in SUBSET Entries, IsOrdered(q), NEW e \in q, NEW f \in q,
         <<e, f>> \in earlier
  PROVE  Cardinality(Ahead(q, e)) < Cardinality(Ahead(q, f))
<1>1. Ahead(q, e) \in SUBSET Ahead(q, f)
  BY DEF Ahead, IsOrdered
<1>2. e \in Ahead(q, f) /\ e \notin Ahead(q, e)
  BY DEF Ahead, IsOrdered
<1>3. Ahead(q, e) # Ahead(q, f)
  BY <1>2
<1>4. /\ IsFiniteSet(Ahead(q, f))
      /\ Cardinality(Ahead(q, e)) \in Nat /\ Cardinality(Ahead(q, f)) \in Nat
  BY AheadFinite
<1>5. /\ Cardinality(Ahead(q, e)) <= Cardinality(Ahead(q, f))
      /\ Cardinality(Ahead(q, e)) # Cardinality(Ahead(q, f))
  BY <1>1, <1>3, <1>4, FS_Subset
<1> QED BY <1>4, <1>5

(* Whoever is not among the first is behind all of them.                   *)
LEMMA FirstAreAhead ==
  ASSUME NEW q \in SUBSET Entries, IsOrdered(q), NEW n \in Nat,
         NEW e \in q, e \notin First(q, n)
  PROVE  First(q, n) \subseteq Ahead(q, e)
<1> SUFFICES ASSUME NEW f \in First(q, n) PROVE <<f, e>> \in earlier
  BY DEF First, Ahead
<1>1. /\ f \in q /\ f # e
      /\ Cardinality(Ahead(q, f)) < n /\ ~(Cardinality(Ahead(q, e)) < n)
  BY DEF First
<1>2. Cardinality(Ahead(q, f)) \in Nat /\ Cardinality(Ahead(q, e)) \in Nat
  BY AheadFinite
<1>3. ~(Cardinality(Ahead(q, e)) < Cardinality(Ahead(q, f)))
  BY <1>1, <1>2
<1>4. <<e, f>> \notin earlier
  BY <1>1, <1>3, LaterHasMore
<1> QED BY <1>1, <1>4 DEF IsOrdered

(* The places in a queue are the numbers up to its length, each once; so   *)
(* the first n are n, if there are that many.                              *)
LEMMA FirstAreAsMany ==
  ASSUME NEW q \in SUBSET Entries, IsOrdered(q), NEW n \in Nat, n <= Cardinality(q)
  PROVE  Cardinality(First(q, n)) = n
<1> DEFINE N == Cardinality(q)
           place == [e \in q |-> Cardinality(Ahead(q, e))]
           chosen == [e \in First(q, n) |-> place[e]]
<1>1. IsFiniteSet(q) /\ N \in Nat
  BY AheadFinite
<1>2. ASSUME NEW e \in q PROVE place[e] \in 0 .. N - 1
  <2>1. Ahead(q, e) \in SUBSET (q \ {e})
    BY DEF Ahead, IsOrdered
  <2>2. IsFiniteSet(q \ {e}) /\ Cardinality(q \ {e}) = N - 1
    BY <1>1, FS_RemoveElement
  <2>3. Cardinality(Ahead(q, e)) <= N - 1
    BY <2>1, <2>2, FS_Subset
  <2>4. Cardinality(Ahead(q, e)) \in Nat
    BY AheadFinite
  <2> QED BY <1>1, <2>3, <2>4
<1>3. ASSUME NEW e \in q, NEW f \in q, place[e] = place[f] PROVE e = f
  <2> SUFFICES ASSUME e # f PROVE FALSE
    OBVIOUS
  <2>1. <<e, f>> \in earlier \/ <<f, e>> \in earlier
    BY DEF IsOrdered
  <2>2. place[e] < place[f] \/ place[f] < place[e]
    BY <2>1, LaterHasMore
  <2> QED BY <1>1, <1>2, <1>3, <2>2
<1>4. place \in [q -> 0 .. N - 1]
  BY <1>2
<1>5. \A e \in q : e \in First(q, n) <=> place[e] < n
  BY DEF First
<1>6. IsFiniteSet(0 .. N - 1) /\ Cardinality(0 .. N - 1) = N
  <2> HIDE DEF N
  <2>1. 0 \in Int /\ N - 1 \in Int /\ (N - 1) - 0 + 1 = N /\ (0 > N - 1 => N = 0)
    BY <1>1
  <2> QED BY <2>1, FS_Interval
<1> HIDE DEF place
<1>7. place \in Injection(q, 0 .. N - 1)
  BY <1>3, <1>4 DEF Injection, IsInjective
<1>8. \A k \in 0 .. N - 1 : \E e \in q : place[e] = k
  <2>1. place \in Surjection(q, 0 .. N - 1)
    <3>1. N = Cardinality(q)
      OBVIOUS
    <3> HIDE DEF N
    <3> QED BY <1>6, <1>7, <3>1, FS_Injection
  <2> QED BY <2>1 DEF Surjection
<1>9. First(q, n) \in SUBSET q
  BY DEF First
<1>10. chosen \in [First(q, n) -> 0 .. n - 1]
  BY <1>1, <1>2, <1>5, <1>9
<1>11. \A e, f \in First(q, n) : chosen[e] = chosen[f] => e = f
  BY <1>3, <1>9
<1>12. \A k \in 0 .. n - 1 : \E e \in First(q, n) : chosen[e] = k
  <2> SUFFICES ASSUME NEW k \in 0 .. n - 1 PROVE \E e \in First(q, n) : chosen[e] = k
    OBVIOUS
  <2>1. k \in 0 .. N - 1 /\ k < n
    BY <1>1
  <2>2. PICK e \in q : place[e] = k
    BY <1>8, <2>1
  <2>3. e \in First(q, n)
    BY <1>5, <2>1, <2>2
  <2> QED BY <2>2, <2>3
<1>13. ExistsBijection(First(q, n), 0 .. n - 1)
  <2> HIDE DEF chosen
  <2>1. chosen \in Bijection(First(q, n), 0 .. n - 1)
    BY <1>10, <1>11, <1>12 DEF Bijection, Injection, IsInjective, Surjection
  <2> QED BY <2>1 DEF ExistsBijection
<1>14. IsFiniteSet(First(q, n))
  BY <1>1, <1>9, FS_Subset
<1>15. Cardinality(0 .. n - 1) = Cardinality(First(q, n))
  BY <1>13, <1>14, FS_Bijection
<1>16. Cardinality(0 .. n - 1) = n
  BY FS_Interval
<1> QED BY <1>15, <1>16

---------------------------------------------------------------------------
(* What an update makes of the order of two queues.                        *)

Orders(r, q) ==
    /\ \A e \in q : <<e, e>> \notin r
    /\ \A e, f \in q : e = f \/ <<e, f>> \in r \/ <<f, e>> \in r
    /\ \A e, f, g \in q : <<e, f>> \in r /\ <<f, g>> \in r => <<e, g>> \in r

Ended(r, q, e) == {p \in r : p[1] # e /\ p[2] # e} \cup {<<f, e>> : f \in q \ {e}}
Left(r, e)     == {p \in r : p[1] # e /\ p[2] # e}

(* Ahead of an entry other than e are in s only some of those that are in r,*)
(* and e is not among them.                                                *)
KeepPlaces(s, r, e) == \A f, g : g # e /\ <<f, g>> \in s => f # e /\ <<f, g>> \in r

LEMMA OrderedByEarlier == \A q : IsOrdered(q) <=> Orders(earlier, q)
  BY DEF IsOrdered, Orders

(* One entry goes to the end of a queue: the order of the others stays.    *)
LEMMA EndOrders ==
  ASSUME NEW q, NEW o, NEW e, NEW r, NEW s,
         q \cap o = {}, r \subseteq (q \X q) \cup (o \X o), Orders(r, q), Orders(r, o),
         s = Ended(r, q, e)
  PROVE  /\ s \subseteq ((q \cup {e}) \X (q \cup {e})) \cup ((o \ {e}) \X (o \ {e}))
         /\ Orders(s, q \cup {e}) /\ Orders(s, o \ {e})
         /\ KeepPlaces(s, r, e)
<1>1. \A f, g : <<f, g>> \in s <=> \/ f # e /\ g # e /\ <<f, g>> \in r
                                   \/ g = e /\ f \in q \ {e}
  <2> SUFFICES ASSUME NEW f, NEW g
               PROVE  <<f, g>> \in s <=> \/ f # e /\ g # e /\ <<f, g>> \in r
                                         \/ g = e /\ f \in q \ {e}
    OBVIOUS
  <2>1. <<f, g>> \in {p \in r : p[1] # e /\ p[2] # e} <=> f # e /\ g # e /\ <<f, g>> \in r
    OBVIOUS
  <2>2. <<f, g>> \in {<<h, e>> : h \in q \ {e}} <=> g = e /\ f \in q \ {e}
    OBVIOUS
  <2> QED BY <2>1, <2>2 DEF Ended
<1>2. s \subseteq ((q \cup {e}) \X (q \cup {e})) \cup ((o \ {e}) \X (o \ {e}))
  <2>1. {p \in r : p[1] # e /\ p[2] # e}
           \subseteq ((q \cup {e}) \X (q \cup {e})) \cup ((o \ {e}) \X (o \ {e}))
    OBVIOUS
  <2>2. {<<f, e>> : f \in q \ {e}} \subseteq (q \cup {e}) \X (q \cup {e})
    OBVIOUS
  <2> QED BY <2>1, <2>2 DEF Ended
<1>3. Orders(s, q \cup {e})
  BY <1>1 DEF Orders
<1>4. Orders(s, o \ {e})
  BY <1>1 DEF Orders
<1>5. KeepPlaces(s, r, e)
  BY <1>1 DEF KeepPlaces
<1> QED BY <1>2, <1>3, <1>4, <1>5

(* One entry leaves.                                                       *)
LEMMA WithoutOrders ==
  ASSUME NEW q, NEW o, NEW e, NEW r, NEW s,
         r \subseteq (q \X q) \cup (o \X o), Orders(r, q), Orders(r, o), s = Left(r, e)
  PROVE  /\ s \subseteq ((q \ {e}) \X (q \ {e})) \cup ((o \ {e}) \X (o \ {e}))
         /\ Orders(s, q \ {e}) /\ Orders(s, o \ {e})
         /\ s \subseteq r
<1>1. \A f, g : <<f, g>> \in s <=> f # e /\ g # e /\ <<f, g>> \in r
  BY DEF Left
<1>2. Orders(s, q \ {e}) /\ Orders(s, o \ {e})
  BY <1>1 DEF Orders
<1> QED BY <1>2 DEF Left

---------------------------------------------------------------------------
(* What a step makes of the queues.                                        *)

QueuesOK ==
    /\ live \subseteq Entries /\ invalid \subseteq Entries /\ live \cap invalid = {}
    /\ earlier \subseteq (live \X live) \cup (invalid \X invalid)
    /\ IsOrdered(live) /\ IsOrdered(invalid)

LEMMA ToEndOfLive ==
  ASSUME QueuesOK, NEW e \in Entries,
         live' = live \cup {e}, invalid' = invalid \ {e}, earlier' = ToEnd(live, e)
  PROVE  QueuesOK' /\ KeepPlaces(earlier', earlier, e)
<1>1. earlier' = Ended(earlier, live, e)
  BY DEF ToEnd, Without, Ended
<1>2. Orders(earlier, live) /\ Orders(earlier, invalid)
  BY OrderedByEarlier DEF QueuesOK
<1>3. /\ earlier' \subseteq (live' \X live') \cup (invalid' \X invalid')
      /\ Orders(earlier', live') /\ Orders(earlier', invalid')
      /\ KeepPlaces(earlier', earlier, e)
  <2>1. /\ live \cap invalid = {}
        /\ earlier \subseteq (live \X live) \cup (invalid \X invalid)
    BY DEF QueuesOK
  <2>2. /\ earlier' \subseteq ((live \cup {e}) \X (live \cup {e}))
                           \cup ((invalid \ {e}) \X (invalid \ {e}))
        /\ Orders(earlier', live \cup {e}) /\ Orders(earlier', invalid \ {e})
        /\ KeepPlaces(earlier', earlier, e)
    BY <1>1, <1>2, <2>1, EndOrders
  <2> QED BY <2>2
<1>4. IsOrdered(live)' /\ IsOrdered(invalid)'
  BY <1>3 DEF IsOrdered, Orders
<1> QED BY <1>3, <1>4 DEF QueuesOK

LEMMA ToEndOfInvalid ==
  ASSUME QueuesOK, NEW e \in Entries,
         live' = live \ {e}, invalid' = invalid \cup {e}, earlier' = ToEnd(invalid, e)
  PROVE  QueuesOK' /\ KeepPlaces(earlier', earlier, e)
<1>1. earlier' = Ended(earlier, invalid, e)
  BY DEF ToEnd, Without, Ended
<1>2. Orders(earlier, live) /\ Orders(earlier, invalid)
  BY OrderedByEarlier DEF QueuesOK
<1>3. /\ earlier' \subseteq (invalid' \X invalid') \cup (live' \X live')
      /\ Orders(earlier', live') /\ Orders(earlier', invalid')
      /\ KeepPlaces(earlier', earlier, e)
  <2>1. /\ invalid \cap live = {}
        /\ earlier \subseteq (invalid \X invalid) \cup (live \X live)
    BY DEF QueuesOK
  <2>2. /\ earlier' \subseteq ((invalid \cup {e}) \X (invalid \cup {e}))
                           \cup ((live \ {e}) \X (live \ {e}))
        /\ Orders(earlier', invalid \cup {e}) /\ Orders(earlier', live \ {e})
        /\ KeepPlaces(earlier', earlier, e)
    BY <1>1, <1>2, <2>1, EndOrders
  <2> QED BY <2>2
<1>4. IsOrdered(live)' /\ IsOrdered(invalid)'
  BY <1>3 DEF IsOrdered, Orders
<1> QED BY <1>3, <1>4 DEF QueuesOK

LEMMA Leaves ==
  ASSUME QueuesOK, NEW e \in Entries,
         live' = live \ {e}, invalid' = invalid \ {e}, earlier' = Without(e)
  PROVE  QueuesOK' /\ earlier' \subseteq earlier
<1>1. earlier' = Left(earlier, e)
  BY DEF Without, Left
<1>2. Orders(earlier, live) /\ Orders(earlier, invalid)
  BY OrderedByEarlier DEF QueuesOK
<1>3. /\ earlier' \subseteq (live' \X live') \cup (invalid' \X invalid')
      /\ Orders(earlier', live') /\ Orders(earlier', invalid')
      /\ earlier' \subseteq earlier
  BY <1>1, <1>2, WithoutOrders, Zenon DEF QueuesOK
<1>4. IsOrdered(live)' /\ IsOrdered(invalid)'
  BY <1>3 DEF IsOrdered, Orders
<1> QED BY <1>3, <1>4 DEF QueuesOK

(* A check that is written, wherever it was made.                          *)
LEMMA CheckQueues ==
  ASSUME ScheduleTypeOK, NEW e \in Entries, CheckWritten(e)
  PROVE  /\ QueuesOK' /\ KeepPlaces(earlier', earlier, e)
         /\ checks' \in [Entries -> 1 .. GiveUpAfter + 1]
         /\ \A f \in Entries : f # e => checks'[f] = checks[f]
         /\ waited' \subseteq invalid' /\ fresh' \subseteq Entries
         /\ live' \subseteq live \cup {e} /\ invalid \ {e} \subseteq invalid'
<1>1. QueuesOK
  BY DEF ScheduleTypeOK, QueuesOK
<1>2. QueuesOK' /\ KeepPlaces(earlier', earlier, e)
  <2>1. CASE /\ live' = live \cup {e} /\ invalid' = invalid \ {e}
             /\ earlier' = ToEnd(live, e)
    BY <1>1, <2>1, ToEndOfLive
  <2>2. CASE /\ live' = live \ {e} /\ invalid' = invalid \cup {e}
             /\ earlier' = ToEnd(invalid, e)
    BY <1>1, <2>2, ToEndOfInvalid
  <2> QED BY <2>1, <2>2 DEF CheckWritten
<1>3. /\ checks' \in [Entries -> 1 .. GiveUpAfter + 1]
      /\ \A f \in Entries : f # e => checks'[f] = checks[f]
  BY GiveUpAssumption DEF CheckWritten, ScheduleTypeOK, OneMore
<1>4. /\ waited' \subseteq invalid' /\ fresh' \subseteq Entries
      /\ live' \subseteq live \cup {e} /\ invalid \ {e} \subseteq invalid'
  BY DEF CheckWritten, ScheduleTypeOK
<1> QED BY <1>2, <1>3, <1>4

(* The time of an invalid entry is renewed, whatever it has become.        *)
LEMMA RenewQueues ==
  ASSUME ScheduleTypeOK, NEW e \in Entries, Renew(e)
  PROVE  /\ QueuesOK'
         /\ \A f, g : g # e /\ <<f, g>> \in earlier' => <<f, g>> \in earlier
<1>1. QueuesOK
  BY DEF ScheduleTypeOK, QueuesOK
<1>2. live' = live /\ invalid' = invalid
  BY DEF Renew
<1>3. CASE e \in invalid
  <2>1. /\ live' = live \ {e} /\ invalid' = invalid \cup {e}
        /\ earlier' = ToEnd(invalid, e)
    BY <1>2, <1>3 DEF Renew, ScheduleTypeOK
  <2>2. QueuesOK' /\ KeepPlaces(earlier', earlier, e)
    BY <1>1, <2>1, ToEndOfInvalid
  <2> QED BY <2>2 DEF KeepPlaces
<1>4. CASE e \notin invalid
  <2>1. earlier' = earlier
    BY <1>4 DEF Renew
  <2> QED BY <1>1, <1>2, <2>1 DEF QueuesOK, IsOrdered
<1> QED BY <1>3, <1>4

LEMMA ScheduleStart ==
  ASSUME ScheduleInit
  PROVE  ScheduleTypeOK
  BY GiveUpAssumption DEF ScheduleInit, ScheduleTypeOK, Idle

LEMMA FirstType ==
  ASSUME NEW q, NEW n
  PROVE  First(q, n) \subseteq q
  BY DEF First

LEMMA ScheduleStep ==
  ASSUME ScheduleTypeOK, [ScheduleNext]_scheduleVars
  PROVE  ScheduleTypeOK'
<1> DEFINE Passes == [at : {"idle", "begun", "loading", "checking"}, batch : SUBSET Entries,
                      renew : SUBSET Entries]
<1>1. QueuesOK /\ pass \in Passes
  BY DEF ScheduleTypeOK, QueuesOK
<1>2. ASSUME UNCHANGED <<live, invalid, earlier, checks>>, waited' \subseteq invalid,
             fresh' \subseteq Entries, pass' \in Passes
      PROVE  ScheduleTypeOK'
  BY <1>2 DEF ScheduleTypeOK, IsOrdered
<1>3. ASSUME NEW e \in Entries, CheckWritten(e), pass' \in Passes
      PROVE  ScheduleTypeOK'
  <2>1. /\ QueuesOK' /\ checks' \in [Entries -> 1 .. GiveUpAfter + 1]
        /\ waited' \subseteq invalid' /\ fresh' \subseteq Entries
    BY <1>3, CheckQueues
  <2> QED BY <1>3, <2>1 DEF ScheduleTypeOK, QueuesOK
<1>4. CASE LoadLive
  <2>1. First(live \ fresh, PageLength) \in SUBSET Entries
    BY <1>1, FirstType DEF QueuesOK
  <2>2. pass' \in Passes
    BY <1>1, <1>4, <2>1 DEF LoadLive
  <2> QED BY <1>2, <1>4, <2>2 DEF LoadLive, ScheduleTypeOK
<1>5. CASE LoadInvalid
  <2> DEFINE over == First({e \in invalid \ fresh : NotGivenUp(e)}, PageLength) \cap pass.renew
  <2>1. over \in SUBSET Entries /\ First(over, BatchLength) \in SUBSET over
    BY <1>1, FirstType DEF QueuesOK, ScheduleTypeOK
  <2>2. pass' = [at |-> "checking", batch |-> pass.batch \cup First(over, BatchLength),
                 renew |-> over]
    BY <1>5 DEF LoadInvalid
  <2> HIDE DEF over
  <2>3. pass' \in Passes
    BY <1>1, <2>1, <2>2
  <2> QED BY <1>2, <1>5, <2>3 DEF LoadInvalid, ScheduleTypeOK
<1>6. ASSUME PassEnds \/ PassStops PROVE ScheduleTypeOK'
  <2>1. pass' \in Passes
    BY <1>6 DEF PassEnds, PassStops, Idle
  <2> QED BY <1>2, <1>6, <2>1 DEF PassEnds, PassStops, ScheduleTypeOK
<1>7. ASSUME NEW e \in Entries, Renew(e) PROVE ScheduleTypeOK'
  <2>1. QueuesOK'
    BY <1>7, RenewQueues
  <2>2. pass' \in Passes
    BY <1>1, <1>7 DEF Renew
  <2> QED BY <1>7, <2>1, <2>2 DEF Renew, ScheduleTypeOK, QueuesOK
<1>8. ASSUME NEW e \in Entries, RenewFails(e) \/ CheckFails(e) PROVE ScheduleTypeOK'
  <2>1. pass' \in Passes
    BY <1>1, <1>8 DEF RenewFails, CheckFails
  <2> QED BY <1>2, <1>8, <2>1 DEF RenewFails, CheckFails, ScheduleTypeOK
<1>9. ASSUME NEW e \in Entries, Check(e) PROVE ScheduleTypeOK'
  <2>1. pass' \in Passes
    BY <1>1, <1>9 DEF Check
  <2> QED BY <1>3, <1>9, <2>1 DEF Check
<1>10. ASSUME NEW e \in Entries, WaitEnds(e) PROVE ScheduleTypeOK'
  BY <1>1, <1>2, <1>10 DEF WaitEnds, ScheduleTypeOK
<1>11. ASSUME NEW e \in Entries, CheckedElsewhere(e) PROVE ScheduleTypeOK'
  BY <1>1, <1>3, <1>11 DEF CheckedElsewhere
<1>12. ASSUME NEW e \in Entries, Deregistered(e) PROVE ScheduleTypeOK'
  <2>1. QueuesOK'
    BY <1>1, <1>12, Leaves DEF Deregistered
  <2> QED BY <1>12, <2>1 DEF Deregistered, ScheduleTypeOK, QueuesOK
<1>13. CASE PassBegins
  <2>1. pass' \in Passes
    BY <1>1, <1>13 DEF PassBegins, ScheduleTypeOK
  <2> QED BY <1>2, <1>13, <2>1 DEF PassBegins, ScheduleTypeOK
<1>14. CASE UNCHANGED scheduleVars
  BY <1>1, <1>2, <1>14 DEF scheduleVars, ScheduleTypeOK
<1> QED
  BY <1>4, <1>5, <1>6, <1>7, <1>8, <1>9, <1>10, <1>11, <1>12, <1>13, <1>14
  DEF ScheduleNext, PassMoves

(* The queues are ordered and apart, whatever writes them, for any number  *)
(* of entries and any lengths of page and batch.                           *)
THEOREM ScheduleTypeCorrect == ScheduleSpec => []ScheduleTypeOK
  BY ScheduleStart, ScheduleStep, PTL DEF ScheduleSpec

(* What was checked too often and found invalid is left alone by every     *)
(* pass that does not hold it already, until a query or a mint checks it.  *)
THEOREM GivenUpIsNotRetried == ScheduleSpec => GivenUpIsLeft
<1>1. ASSUME ScheduleTypeOK, [ScheduleNext]_scheduleVars
      PROVE  [\A e \in invalid \ pass.batch :
                 checks[e] > GiveUpAfter =>
                    \/ CheckedElsewhere(e) \/ Deregistered(e)
                    \/ e \in invalid' \ pass'.batch /\ checks'[e] > GiveUpAfter]_scheduleVars
  <2> SUFFICES ASSUME NEW e \in invalid, e \notin pass.batch, checks[e] > GiveUpAfter,
                      ~CheckedElsewhere(e), ~Deregistered(e)
               PROVE  e \in invalid' /\ e \notin pass'.batch /\ checks'[e] > GiveUpAfter
    OBVIOUS
  <2>1. e \in Entries /\ e \notin live
    BY <1>1 DEF ScheduleTypeOK
  <2>2. ASSUME NEW f \in Entries, f # e, CheckWritten(f), pass'.batch \subseteq pass.batch
        PROVE  e \in invalid' /\ e \notin pass'.batch /\ checks'[e] > GiveUpAfter
    BY <1>1, <2>1, <2>2, CheckQueues
  <2>3. ASSUME UNCHANGED <<live, invalid, checks>>, pass'.batch \subseteq pass.batch
        PROVE  e \in invalid' /\ e \notin pass'.batch /\ checks'[e] > GiveUpAfter
    BY <2>3
  <2>4. CASE LoadLive
    <3>1. First(live \ fresh, PageLength) \subseteq live
      BY FirstType
    <3>2. pass'.batch = First(live \ fresh, PageLength)
      BY <1>1, <2>4 DEF LoadLive, ScheduleTypeOK
    <3> QED BY <2>1, <2>4, <3>1, <3>2 DEF LoadLive
  <2>5. CASE LoadInvalid
    <3> DEFINE kept == {f \in invalid \ fresh : NotGivenUp(f)}
               over == First(kept, PageLength) \cap pass.renew
    <3>1. First(over, BatchLength) \subseteq kept
      BY FirstType
    <3>2. e \notin kept
      <4>1. GiveUpAfter \in Nat /\ checks[e] \in Nat
        BY <1>1, <2>1, GiveUpAssumption DEF ScheduleTypeOK
      <4> QED BY <4>1 DEF NotGivenUp
    <3>3. pass'.batch = pass.batch \cup First(over, BatchLength)
      BY <2>5 DEF LoadInvalid
    <3> QED BY <2>5, <3>1, <3>2, <3>3 DEF LoadInvalid
  <2>6. ASSUME PassBegins \/ PassEnds \/ PassStops
        PROVE  e \in invalid' /\ e \notin pass'.batch /\ checks'[e] > GiveUpAfter
    BY <2>6 DEF PassBegins, PassEnds, PassStops, Idle
  <2>7. ASSUME NEW f \in Entries, Renew(f) \/ RenewFails(f) \/ CheckFails(f) \/ WaitEnds(f)
        PROVE  e \in invalid' /\ e \notin pass'.batch /\ checks'[e] > GiveUpAfter
    <3>1. pass'.batch \subseteq pass.batch
      BY <1>1, <2>7 DEF Renew, RenewFails, CheckFails, WaitEnds, ScheduleTypeOK
    <3> QED BY <2>3, <2>7, <3>1 DEF Renew, RenewFails, CheckFails, WaitEnds
  <2>8. ASSUME NEW f \in Entries, Check(f)
        PROVE  e \in invalid' /\ e \notin pass'.batch /\ checks'[e] > GiveUpAfter
    <3>1. f # e /\ CheckWritten(f)
      BY <2>8 DEF Check
    <3>2. pass'.batch \subseteq pass.batch
      BY <1>1, <2>8 DEF Check, ScheduleTypeOK
    <3> QED BY <2>2, <3>1, <3>2
  <2>9. ASSUME NEW f \in Entries, CheckedElsewhere(f)
        PROVE  e \in invalid' /\ e \notin pass'.batch /\ checks'[e] > GiveUpAfter
    BY <2>2, <2>9 DEF CheckedElsewhere
  <2>10. ASSUME NEW f \in Entries, Deregistered(f)
         PROVE  e \in invalid' /\ e \notin pass'.batch /\ checks'[e] > GiveUpAfter
    BY <2>10 DEF Deregistered
  <2>11. CASE UNCHANGED scheduleVars
    BY <2>3, <2>11 DEF scheduleVars
  <2> QED
    BY <1>1, <2>4, <2>5, <2>6, <2>7, <2>8, <2>9, <2>10, <2>11 DEF ScheduleNext, PassMoves
<1> QED BY <1>1, ScheduleTypeCorrect, PTL DEF ScheduleSpec, GivenUpIsLeft

---------------------------------------------------------------------------
(* Places in the queues.                                                   *)

(* A step that puts nobody ahead of an entry adds nobody to those ahead.   *)
LEMMA StaysAhead ==
  ASSUME ScheduleTypeOK, NEW e, \A f : <<f, e>> \in earlier' => <<f, e>> \in earlier
  PROVE  /\ e \in live => {f \in live' : <<f, e>> \in earlier'} \subseteq Ahead(live, e)
         /\ e \in invalid => {f \in invalid' : <<f, e>> \in earlier'} \subseteq Ahead(invalid, e)
  BY DEF ScheduleTypeOK, Ahead

LEMMA NobodyOvertakes ==
  ASSUME ScheduleTypeOK, [ScheduleNext]_scheduleVars, NEW e \in Entries,
         ~Check(e), ~CheckedElsewhere(e), e \in live \/ ~Renew(e)
  PROVE  \A f : <<f, e>> \in earlier' => <<f, e>> \in earlier
<1>1. ASSUME NEW f \in Entries, f # e, CheckWritten(f)
      PROVE  \A g : <<g, e>> \in earlier' => <<g, e>> \in earlier
  BY <1>1, CheckQueues DEF KeepPlaces
<1>2. ASSUME NEW f \in Entries, Renew(f)
      PROVE  \A g : <<g, e>> \in earlier' => <<g, e>> \in earlier
  <2>1. CASE f # e
    BY <1>2, <2>1, RenewQueues
  <2>2. CASE f = e
    <3>1. earlier' = earlier
      BY <1>2, <2>2 DEF Renew, ScheduleTypeOK
    <3> QED BY <3>1
  <2> QED BY <2>1, <2>2
<1>3. ASSUME NEW f \in Entries, Deregistered(f)
      PROVE  \A g : <<g, e>> \in earlier' => <<g, e>> \in earlier
  BY <1>3 DEF Deregistered, Without
<1>4. ASSUME earlier' = earlier
      PROVE  \A g : <<g, e>> \in earlier' => <<g, e>> \in earlier
  BY <1>4
<1> QED
  BY <1>1, <1>2, <1>3, <1>4
  DEF ScheduleNext, PassMoves, PassBegins, LoadLive, LoadInvalid, PassEnds, PassStops, RenewFails, Check,
      CheckFails, WaitEnds, CheckedElsewhere, scheduleVars

(* Who is not among the first n has as many ahead of it.                   *)
LEMMA NotFirst ==
  ASSUME NEW q \in SUBSET Entries, IsOrdered(q), NEW n \in Nat,
         NEW e \in q, e \notin First(q, n)
  PROVE  /\ First(q, n) \subseteq Ahead(q, e)
         /\ Cardinality(First(q, n)) = n
         /\ Cardinality(Ahead(q, e)) >= n
<1>1. /\ Cardinality(Ahead(q, e)) \in Nat /\ Cardinality(q) \in Nat
      /\ Cardinality(Ahead(q, e)) <= Cardinality(q)
  BY AheadFinite
<1>2. ~(Cardinality(Ahead(q, e)) < n)
  BY DEF First
<1>3. n <= Cardinality(q) /\ Cardinality(Ahead(q, e)) >= n
  BY <1>1, <1>2
<1> QED BY <1>3, FirstAreAhead, FirstAreAsMany

LEMMA LiveAdvances ==
  ASSUME ScheduleTypeOK, [ScheduleNext]_scheduleVars, NEW e \in live, e \in live'
  PROVE  LiveMovesUp(e)
<1> SUFFICES ASSUME ~Check(e), ~CheckedElsewhere(e)
             PROVE  /\ {f \in live' : <<f, e>> \in earlier'} \subseteq Ahead(live, e)
                    /\ \A f \in Entries :
                          Check(f) => f \notin {g \in live' : <<g, e>> \in earlier'}
                    /\ LoadLive => \/ e \in pass'.batch \cup fresh
                                   \/ /\ pass'.batch \subseteq Ahead(live, e)
                                      /\ Cardinality(pass'.batch) = PageLength
  BY DEF LiveMovesUp, Ahead
<1>1. e \in Entries
  BY DEF ScheduleTypeOK
<1>2. {f \in live' : <<f, e>> \in earlier'} \subseteq Ahead(live, e)
  BY <1>1, NobodyOvertakes, StaysAhead
<1>3. ASSUME NEW f \in Entries, Check(f)
      PROVE  f \notin {g \in live' : <<g, e>> \in earlier'}
  <2>1. f # e /\ CheckWritten(f)
    BY <1>3 DEF Check
  <2>2. KeepPlaces(earlier', earlier, f)
    BY <2>1, CheckQueues
  <2> QED BY <2>1, <2>2 DEF KeepPlaces
<1>4. ASSUME LoadLive, e \notin pass'.batch \cup fresh
      PROVE  pass'.batch \subseteq Ahead(live, e) /\ Cardinality(pass'.batch) = PageLength
  <2> DEFINE due == live \ fresh
  <2>1. pass'.batch = First(due, PageLength)
    BY <1>4 DEF LoadLive, ScheduleTypeOK
  <2>2. /\ due \in SUBSET Entries /\ IsOrdered(due) /\ PageLength \in Nat
        /\ e \in due /\ Ahead(due, e) \subseteq Ahead(live, e)
    BY <1>4, PartIsOrdered, LengthAssumption DEF ScheduleTypeOK, Ahead
  <2> HIDE DEF due
  <2> QED BY <1>4, <2>1, <2>2, NotFirst
<1> QED BY <1>2, <1>3, <1>4

LEMMA InvalidAdvances ==
  ASSUME ScheduleTypeOK, [ScheduleNext]_scheduleVars, NEW e \in invalid, e \in invalid'
  PROVE  InvalidMovesUp(e)
<1> DEFINE kept == {f \in invalid \ fresh : NotGivenUp(f)}
           page == First(kept, PageLength)
           over == page \cap pass.renew
           next == First(over, BatchLength)
<1> SUFFICES ASSUME ~Check(e), ~CheckedElsewhere(e), ~Renew(e)
             PROVE  /\ {f \in invalid' : <<f, e>> \in earlier'} \subseteq Ahead(invalid, e)
                    /\ LoadInvalid /\ e \in pass.renew \ fresh /\ checks[e] <= GiveUpAfter =>
                          \/ e \in pass'.batch
                          \/ Cardinality({f \in Ahead(invalid, e) \ fresh : checks[f] <= GiveUpAfter})
                                >= PageLength
                          \/ Cardinality(Ahead(invalid, e) \cap pass'.batch) >= BatchLength
  BY DEF InvalidMovesUp, Ahead
<1>1. e \in Entries
  BY DEF ScheduleTypeOK
<1>2. {f \in invalid' : <<f, e>> \in earlier'} \subseteq Ahead(invalid, e)
  BY <1>1, NobodyOvertakes, StaysAhead
<1>3. /\ invalid \in SUBSET Entries /\ IsOrdered(invalid)
      /\ PageLength \in Nat /\ BatchLength \in Nat
  BY LengthAssumption DEF ScheduleTypeOK
<1>4. ASSUME LoadInvalid, e \in pass.renew \ fresh, checks[e] <= GiveUpAfter,
             e \notin pass'.batch,
             ~(Cardinality({f \in Ahead(invalid, e) \ fresh : checks[f] <= GiveUpAfter})
                  >= PageLength)
      PROVE  Cardinality(Ahead(invalid, e) \cap pass'.batch) >= BatchLength
  <2>1. pass'.batch = pass.batch \cup next
    BY <1>4 DEF LoadInvalid
  <2>2. kept \in SUBSET Entries /\ IsOrdered(kept) /\ e \in kept
    BY <1>3, <1>4, PartIsOrdered DEF NotGivenUp
  <2>3. Ahead(kept, e) = {f \in Ahead(invalid, e) \ fresh : checks[f] <= GiveUpAfter}
    BY DEF Ahead, NotGivenUp
  <2>4. e \in page
    <3> HIDE DEF kept
    <3> QED BY <1>3, <1>4, <2>2, <2>3, NotFirst
  <2>5. over \in SUBSET invalid /\ e \in over
    <3>1. page \subseteq kept
      BY FirstType
    <3> QED BY <1>4, <2>4, <3>1
  <2>6. over \in SUBSET Entries /\ IsOrdered(over)
    BY <1>3, <2>5, PartIsOrdered
  <2> HIDE DEF over
  <2>7. e \notin next
    BY <1>4, <2>1
  <2>8. next \subseteq Ahead(over, e) /\ Cardinality(next) = BatchLength
    BY <1>3, <2>5, <2>6, <2>7, NotFirst
  <2>9. next \in SUBSET (Ahead(invalid, e) \cap pass'.batch)
    BY <2>1, <2>5, <2>8 DEF Ahead
  <2>10. IsFiniteSet(Ahead(invalid, e) \cap pass'.batch)
    BY <1>3, AheadFinite, FS_Intersection
  <2>11. /\ Cardinality(next) <= Cardinality(Ahead(invalid, e) \cap pass'.batch)
         /\ Cardinality(Ahead(invalid, e) \cap pass'.batch) \in Nat
    BY <2>9, <2>10, FS_Subset, FS_CardinalityType
  <2> QED BY <1>3, <2>8, <2>11
<1> QED BY <1>2, <1>4

(* Whatever queries, mints, burns and failures do, an entry falls behind   *)
(* others of its queue only by its own check, or by a pass that checks as  *)
(* many others instead as it ever does: for any number of entries and any  *)
(* lengths of page and batch.                                              *)
THEOREM PlacesImprove == ScheduleSpec => QueuesMoveUp
<1>1. ASSUME ScheduleTypeOK, [ScheduleNext]_scheduleVars
      PROVE  [/\ \A e \in live \cap live' : LiveMovesUp(e)
              /\ \A e \in invalid \cap invalid' : InvalidMovesUp(e)]_scheduleVars
  BY <1>1, LiveAdvances, InvalidAdvances
<1> QED BY <1>1, ScheduleTypeCorrect, PTL DEF ScheduleSpec, QueuesMoveUp
=============================================================================
