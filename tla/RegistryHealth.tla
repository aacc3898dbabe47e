--------------------------- MODULE RegistryHealth ---------------------------
(***************************************************************************)
(* Registry entries (web3 agents) and everyone who checks whether they are *)
(* available: the chain sync when it writes a minted entry, the health     *)
(* pass, and every registry query that gives a minHealthCheckDate.  They   *)
(* share no lock; each reads rows, asks endpoints, and updates rows by key.*)
(*                                                                         *)
(* serves is the environment; entry is the database; the rest is lost when *)
(* the process restarts.  Both uptime counters stop at CountTo.            *)
(***************************************************************************)
EXTENDS Naturals

CONSTANTS
    Assets,     \* the asset identifiers under the policies
    AgentIds,   \* the agent identifiers an endpoint may return
    Answers,    \* what endpoints answer
    Urls,       \* api base URLs
    None,       \* no asset, no URL, no identifier
    Queries,    \* the queries that are served at the same time
    CheckLimit, \* invalid entries with more checks are given up (20)
    CountTo,    \* how far the counters are counted (a bound, not in the code)
    Faults      \* which faults happen

Checked == {"Online", "Offline", "Invalid"}
Status  == Checked \cup {"Deregistered", "absent"}

NoAnswer == [status |-> "Offline", id |-> None]

(* An agent that names an identifier is online.                            *)
ASSUME AnswersAssumption ==
    /\ NoAnswer \in Answers
    /\ Answers \subseteq [status : Checked, id : {None}] \cup [status : {"Online"}, id : AgentIds]
ASSUME IdAssumption     == Assets \subseteq AgentIds /\ None \notin AgentIds \cup Urls
ASSUME HealthAssumption == "health" \notin Queries
ASSUME LimitAssumption  == CheckLimit \in Nat /\ CountTo \in Nat /\ CountTo > CheckLimit
ASSUME FaultsAssumption == Faults \subseteq {"error", "crash"}

VARIABLES
    serves,     \* serves[u]: what the endpoint at u answers
    entry,      \* entry[a]: the row of asset a
    sync,       \* the mint the sync is working on
    check       \* check[v]: the verification v is working on

vars == <<serves, entry, sync, check>>

Verifiers == {"health"} \cup Queries

Entry == [status : Status, url : Urls \cup {None}, up : 0 .. CountTo, checks : 0 .. CountTo]

NoEntry == [status |-> "absent", url |-> None, up |-> 0, checks |-> 0]
NoMint  == [asset |-> None, url |-> None, ans |-> NoAnswer]
NoSight == [burned |-> FALSE, url |-> None]

(* batch: the rows still to be written; got: those of them whose endpoint  *)
(* has answered; seen: whether it was burned, and its URL, when the row was *)
(* loaded; ans: the answers.                                               *)
Verification == [busy : BOOLEAN, batch : SUBSET Assets, got : SUBSET Assets,
                 seen : [Assets -> [burned : BOOLEAN, url : Urls \cup {None}]],
                 ans : [Assets -> Answers]]

NoCheck == [busy |-> FALSE, batch |-> {}, got |-> {},
            seen |-> [a \in Assets |-> NoSight], ans |-> [a \in Assets |-> NoAnswer]]

TypeOK ==
    /\ serves \in [Urls -> Answers]
    /\ entry \in [Assets -> Entry]
    /\ sync \in {NoMint} \cup [asset : Assets, url : Urls, ans : Answers]
    /\ check \in [Verifiers -> Verification]
    /\ \A v \in Verifiers : check[v].got \subseteq check[v].batch

Init ==
    /\ serves = [u \in Urls |-> NoAnswer]
    /\ entry = [a \in Assets |-> NoEntry]
    /\ sync = NoMint
    /\ check = [v \in Verifiers |-> NoCheck]

---------------------------------------------------------------------------
(* What a check makes of a row.                                            *)

Verdict(ans, a) == IF ans.id \in {None, a} THEN ans.status ELSE "Invalid"

Incremented(n) == IF n < CountTo THEN n + 1 ELSE n

(* Mutant: a mint that changes the URL of a row counts its success and not *)
(* its check.                                                              *)
RecordedUnchecked(e, url, status) ==
    [status |-> status, url |-> url,
     up     |-> IF status = "Online" THEN Incremented(e.up) ELSE e.up,
     checks |-> IF e.url \in {None, url} THEN Incremented(e.checks) ELSE e.checks]

Recorded(e, url, status) ==
    [status |-> status, url |-> url,
     up     |-> IF status = "Online" THEN Incremented(e.up) ELSE e.up,
     checks |-> Incremented(e.checks)]

---------------------------------------------------------------------------
(* The agents (external) start, stop and change what they answer.          *)
Reply(u) ==
    /\ \E ans \in Answers : serves' = [serves EXCEPT ![u] = ans]
    /\ UNCHANGED <<entry, sync, check>>

---------------------------------------------------------------------------
(* The sync, one asset after the other: it asks the endpoint that the      *)
(* metadata names before it writes the row.                                *)

SyncLookup(a, u) ==
    /\ sync = NoMint
    /\ sync' = [asset |-> a, url |-> u, ans |-> serves[u]]
    /\ UNCHANGED <<serves, entry, check>>

SyncUpsert ==
    LET a == sync.asset IN
    /\ sync # NoMint
    /\ entry' = [entry EXCEPT ![a] = Recorded(@, sync.url, Verdict(sync.ans, a))]
    /\ sync' = NoMint
    /\ UNCHANGED <<serves, check>>

SyncFails ==
    /\ "error" \in Faults
    /\ sync # NoMint
    /\ sync' = NoMint
    /\ UNCHANGED <<serves, entry, check>>

Burn(a) ==
    /\ sync = NoMint
    /\ entry[a].status # "absent"
    /\ entry' = [entry EXCEPT ![a].status = "Deregistered"]
    /\ UNCHANGED <<serves, sync, check>>

---------------------------------------------------------------------------
(* What a verifier loads.                                                  *)

Load(v, batch) ==
    /\ ~check[v].busy
    /\ check' = [check EXCEPT ![v] =
          [busy |-> TRUE, batch |-> batch, got |-> {},
           seen |-> [a \in Assets |->
               IF a \notin batch THEN NoSight
               ELSE [burned |-> entry[a].status = "Deregistered", url |-> entry[a].url]],
           ans |-> @.ans]]
    /\ UNCHANGED <<serves, entry, sync>>

(* The pass, of which there is one (healthMutex).  Due are the entries that*)
(* were not checked since it began; an invalid one only when its waiting   *)
(* time, the longer the more checks it failed, is over.                    *)
Retried == {a \in Assets : entry[a].status = "Invalid" /\ entry[a].checks <= CheckLimit}

(* Mutants: entries of any status are loaded; entries that are offline are *)
(* left out.                                                               *)
HealthLoadAll(due) ==
    Load("health", due \cap {a \in Assets : entry[a].status # "absent"})

HealthLoadOnline(due) ==
    Load("health", due \cap ({a \in Assets : entry[a].status = "Online"} \cup Retried))

HealthLoad(due) ==
    Load("health",
         due \cap ({a \in Assets : entry[a].status \in {"Online", "Offline"}} \cup Retried))

(* A query that gives a date: the next page of the rows of the statuses it *)
(* asks for, which may be any.                                             *)
QueryLoad(q) ==
    \E page \in SUBSET {a \in Assets : entry[a].status # "absent"} :
        page # {} /\ Load(q, page)

---------------------------------------------------------------------------
(* checkVerifyAndUpdateRegistryEntries.                                    *)

(* One request per URL in the batch.                                       *)
Lookup(v, u) ==
    LET asked == {a \in check[v].batch \ check[v].got : check[v].seen[a].url = u}
    IN
    /\ asked # {}
    /\ check' = [check EXCEPT ![v] =
          [busy |-> TRUE, batch |-> @.batch, got |-> @.got \cup asked, seen |-> @.seen,
           ans |-> [a \in Assets |-> IF a \in asked THEN serves[u] ELSE @.ans[a]]]]
    /\ UNCHANGED <<serves, entry, sync>>

Done(v, a) ==
    check' = [check EXCEPT ![v] =
        [busy |-> TRUE, batch |-> @.batch \ {a}, got |-> @.got \ {a},
         seen |-> [@.seen EXCEPT ![a] = NoSight], ans |-> [@.ans EXCEPT ![a] = NoAnswer]]]

(* The rows are updated one after the other.                               *)
Write(v, a) ==
    /\ a \in check[v].batch
    /\ check[v].got = check[v].batch
    /\ entry' = [entry EXCEPT ![a] = Recorded(@, @.url, Verdict(check[v].ans[a], a))]
    /\ Done(v, a)
    /\ UNCHANGED <<serves, sync>>

(* An update that throws is logged; the others go on.                      *)
WriteFails(v, a) ==
    /\ "error" \in Faults
    /\ a \in check[v].batch
    /\ check[v].got = check[v].batch
    /\ Done(v, a)
    /\ UNCHANGED <<serves, entry, sync>>

End(v) ==
    /\ check[v].busy
    /\ check[v].batch = {}
    /\ check' = [check EXCEPT ![v] = NoCheck]
    /\ UNCHANGED <<serves, entry, sync>>

Crash ==
    /\ "crash" \in Faults
    /\ sync' = NoMint
    /\ check' = [v \in Verifiers |-> NoCheck]
    /\ UNCHANGED <<serves, entry>>

---------------------------------------------------------------------------
VerifyStep(v) ==
    \/ \E u \in Urls : Lookup(v, u)
    \/ \E a \in Assets : Write(v, a) \/ WriteFails(v, a)
    \/ End(v)

Next ==
    \/ \E u \in Urls : Reply(u)
    \/ \E a \in Assets : Burn(a) \/ \E u \in Urls : SyncLookup(a, u)
    \/ SyncUpsert \/ SyncFails
    \/ \E due \in SUBSET Assets : HealthLoad(due)
    \/ \E q \in Queries : QueryLoad(q)
    \/ \E v \in Verifiers : VerifyStep(v)
    \/ Crash

Spec == Init /\ [][Next]_vars

(* What is awaited is answered or fails; the interval timer starts passes, *)
(* and every entry is due in one of them, a waiting time being at most two *)
(* days.                                                                   *)
Fairness ==
    /\ WF_vars(SyncUpsert \/ SyncFails)
    /\ \A a \in Assets :
          SF_vars(\E due \in SUBSET Assets : a \in due /\ HealthLoad(due))
    /\ \A v \in Verifiers : WF_vars(VerifyStep(v))

FairSpec == Spec /\ Fairness

---------------------------------------------------------------------------
(* Properties.                                                             *)

(* However mints, checks and failures interleave, the uptime of an entry   *)
(* adds up: its successes are among its checks, it is not shown online     *)
(* without one, and every row was checked.  One that is offline or invalid *)
(* has failed a check, so the waiting time of an invalid one, which grows  *)
(* with the difference, is never the least there is.                       *)
UptimeAddsUp ==
    \A a \in Assets :
        /\ entry[a].up <= entry[a].checks
        /\ entry[a].status = "Online" => entry[a].up > 0
        /\ entry[a].status # "absent" => entry[a].checks > 0
        /\ entry[a].status \in {"Offline", "Invalid"} /\ entry[a].checks < CountTo
              => entry[a].up < entry[a].checks

(* What brings a burned entry back, if not a mint of it, is a health pass  *)
(* that loaded it before the burn, or a query that loaded it.              *)
RevivedByLoadOnly ==
    [][\A a \in Assets :
          entry[a].status = "Deregistered" /\ entry'[a].status # "Deregistered"
              => \/ sync.asset = a
                 \/ \E q \in Queries : a \in check[q].batch
                 \/ /\ a \in check["health"].batch
                    /\ ~check["health"].seen[a].burned]_vars

(* Whom the health pass does not check any more.                           *)
GivenUp(a) == entry[a].status = "Invalid" /\ entry[a].checks > CheckLimit

(* A crash, and a write of a's that fails; not their look-alikes.          *)
Disturbed(a) ==
    \/ Crash /\ ~\E v \in Verifiers : End(v)
    \/ WriteFails("health", a) /\ ~Write("health", a)

(* Once no mint or burn touches it and its endpoint answers the same, an   *)
(* entry ends up with the status that answer gives or is given up, whatever*)
(* stale write came before, provided that the process stops crashing and   *)
(* the updates stop failing.                                               *)
Converges ==
    \A a \in Assets, u \in Urls, ans \in Answers :
        /\ <>[](/\ entry[a].status \in Checked
                /\ entry[a].url = u
                /\ serves[u] = ans
                /\ sync.asset # a)
        /\ <>[][~Disturbed(a)]_vars
        => <>[](entry[a].status = Verdict(ans, a) \/ GivenUp(a))
=============================================================================
