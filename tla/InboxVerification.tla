------------------------- MODULE InboxVerification -------------------------
(***************************************************************************)
(* Inbox agent registrations, written by two activities that share no      *)
(* lock: the chain sync upserts one when its asset is minted, verifies it  *)
(* at once when it is new or has changed, and deregisters it when the asset*)
(* is burned; the health pass loads all that are not deregistered, asks    *)
(* their endpoints, and writes what it decided.  Each activity decides on  *)
(* the row it read and writes by key, whatever happened to the row since.  *)
(*                                                                         *)
(* serves is the environment; row is the database; the rest is lost when   *)
(* the process restarts.                                                   *)
(***************************************************************************)
EXTENDS InboxRules

CONSTANTS
    Overlap,    \* whether health passes and syncs of an asset overlap
    Faults      \* which faults happen

ASSUME OverlapAssumption == Overlap \in BOOLEAN
ASSUME FaultsAssumption  == Faults \subseteq {"error", "crash"}

VARIABLES
    serves,     \* serves[c]: what the endpoint of content c answers
    row,        \* row[a]: the registration of asset a
    sync,       \* the mint the sync is working on
    check,      \* check[v]: the verification that v is working on
    touched     \* the assets whose row was written since the pass began

vars == <<serves, row, sync, check, touched>>

Verifiers == {"sync", "health"}

NoMint == [at |-> "idle", asset |-> None, content |-> None, seen |-> NoRow]

(* batch: the rows still to be written; got: those of them whose endpoint  *)
(* has answered; seen and ans: the rows as loaded, and the answers.        *)
NoCheck == [at |-> "idle", batch |-> {}, got |-> {},
            seen |-> [a \in Assets |-> NoRow], ans |-> [a \in Assets |-> NoAnswer]]

Verification == [at : {"idle", "begun", "checking"},
                 batch : SUBSET Assets, got : SUBSET Assets,
                 seen : [Assets -> Row], ans : [Assets -> Answer]]

Checking(batch, rows) ==
    [at |-> "checking", batch |-> batch, got |-> {},
     seen |-> [a \in Assets |-> IF a \in batch THEN rows[a] ELSE NoRow],
     ans |-> [a \in Assets |-> NoAnswer]]

TypeOK ==
    /\ serves \in [Contents -> Answer]
    /\ row \in [Assets -> Row]
    /\ sync \in {NoMint} \cup [at : {"upsert"}, asset : Assets,
                               content : Contents, seen : Row]
    /\ check \in [Verifiers -> Verification]
    /\ \A v \in Verifiers : check[v].got \subseteq check[v].batch
    /\ touched \in SUBSET Assets

Init ==
    /\ serves = [c \in Contents |-> NoAnswer]
    /\ row = [a \in Assets |-> NoRow]
    /\ sync = NoMint
    /\ check = [v \in Verifiers |-> NoCheck]
    /\ touched = {}

---------------------------------------------------------------------------
(* The agents (external) publish, change and withdraw what they serve.     *)
Republish(c) ==
    /\ \E ans \in Answer :
          /\ ans.outcome # "resolved" => ans.ids = {}
          /\ serves' = [serves EXCEPT ![c] = ans]
    /\ UNCHANGED <<row, sync, check, touched>>

---------------------------------------------------------------------------
(* The sync, one asset after the other.                                    *)

SyncIdle == sync.at = "idle" /\ check["sync"].at = "idle"

SyncMay == SyncIdle /\ (Overlap \/ check["health"].at = "idle")

(* The metadata of a minted asset parses; the row is read.                 *)
ReadExisting(a, c) ==
    /\ SyncMay
    /\ sync' = [at |-> "upsert", asset |-> a, content |-> c, seen |-> row[a]]
    /\ UNCHANGED <<serves, row, check, touched>>

(* Mutant: the row is verified as it was before the upsert.                *)
UpsertVerifiesOldRow ==
    LET a == sync.asset IN
    /\ sync.at = "upsert"
    /\ row' = [row EXCEPT ![a] = Upserted(@, sync.seen, sync.content)]
    /\ check' = IF row[a].status \in Checked /\ VerifiesAtOnce(sync.seen, sync.content)
                THEN [check EXCEPT !["sync"] = Checking({a}, row)]
                ELSE check
    /\ sync' = NoMint
    /\ touched' = touched \cup {a}
    /\ UNCHANGED serves

Upsert ==
    LET a == sync.asset IN
    /\ sync.at = "upsert"
    /\ row' = [row EXCEPT ![a] = Upserted(@, sync.seen, sync.content)]
    /\ check' = IF VerifiesAtOnce(sync.seen, sync.content)
                THEN [check EXCEPT !["sync"] = Checking({a}, row')]
                ELSE check
    /\ sync' = NoMint
    /\ touched' = touched \cup {a}
    /\ UNCHANGED serves

(* The read or the upsert throws: the sync gives the source up.            *)
SyncFails ==
    /\ "error" \in Faults
    /\ sync.at = "upsert"
    /\ sync' = NoMint
    /\ UNCHANGED <<serves, row, check, touched>>

Burn(a) ==
    /\ SyncMay
    /\ row' = [row EXCEPT ![a] = Deregistered(@)]
    /\ touched' = IF row[a].status = "absent" THEN touched ELSE touched \cup {a}
    /\ UNCHANGED <<serves, sync, check>>

---------------------------------------------------------------------------
(* The health pass, of which there is one (healthMutex).                   *)

(* It notes the time; then it checks the web3 entries, which may take long.*)
HealthBegin ==
    /\ check["health"].at = "idle"
    /\ Overlap \/ SyncIdle
    /\ check' = [check EXCEPT !["health"].at = "begun"]
    /\ touched' = {}
    /\ UNCHANGED <<serves, row, sync>>

(* Mutants: deregistered rows are loaded too; verified rows are not.       *)
HealthLoadAll ==
    LET batch == {a \in Assets : row[a].status # "absent"} \ touched IN
    /\ check["health"].at = "begun"
    /\ check' = [check EXCEPT !["health"] = Checking(batch, row)]
    /\ UNCHANGED <<serves, row, sync, touched>>

HealthLoadUnverified ==
    LET batch == {a \in Assets : row[a].status = "Pending"} \ touched IN
    /\ check["health"].at = "begun"
    /\ check' = [check EXCEPT !["health"] = Checking(batch, row)]
    /\ UNCHANGED <<serves, row, sync, touched>>

(* The rows last updated by the time noted.                                *)
HealthLoad ==
    LET batch == {a \in Assets : row[a].status \in Checked} \ touched IN
    /\ check["health"].at = "begun"
    /\ check' = [check EXCEPT !["health"] = Checking(batch, row)]
    /\ UNCHANGED <<serves, row, sync, touched>>

HealthFails ==
    /\ "error" \in Faults
    /\ check["health"].at = "begun"
    /\ check' = [check EXCEPT !["health"] = NoCheck]
    /\ UNCHANGED <<serves, row, sync, touched>>

---------------------------------------------------------------------------
(* checkVerifyAndUpdateInboxAgentRegistrations, by the sync or the pass.   *)

(* One request per endpoint in the batch; it answers for all rows that were*)
(* loaded with it.                                                         *)
Lookup(v, c) ==
    LET asked == {a \in check[v].batch \ check[v].got : check[v].seen[a].content = c}
    IN
    /\ asked # {}
    /\ check' = [check EXCEPT ![v] =
          [at |-> @.at, batch |-> @.batch, got |-> @.got \cup asked, seen |-> @.seen,
           ans |-> [a \in Assets |-> IF a \in asked THEN serves[c] ELSE @.ans[a]]]]
    /\ UNCHANGED <<serves, row, sync, touched>>

Done(v, a) ==
    check' = [check EXCEPT ![v] =
        [at |-> @.at, batch |-> @.batch \ {a}, got |-> @.got \ {a},
         seen |-> [@.seen EXCEPT ![a] = NoRow], ans |-> [@.ans EXCEPT ![a] = NoAnswer]]]

(* All endpoints have answered: the rows are updated, each by its id.      *)
Write(v, a) ==
    /\ a \in check[v].batch
    /\ check[v].got = check[v].batch
    /\ row' = [row EXCEPT ![a] = Verified(@, check[v].seen[a], check[v].ans[a], a)]
    /\ Done(v, a)
    /\ touched' = touched \cup {a}
    /\ UNCHANGED <<serves, sync>>

(* An update that throws is logged; the others go on.                      *)
WriteFails(v, a) ==
    /\ "error" \in Faults
    /\ a \in check[v].batch
    /\ check[v].got = check[v].batch
    /\ Done(v, a)
    /\ UNCHANGED <<serves, row, sync, touched>>

End(v) ==
    /\ check[v].at = "checking"
    /\ check[v].batch = {}
    /\ check' = [check EXCEPT ![v] = NoCheck]
    /\ UNCHANGED <<serves, row, sync, touched>>

Crash ==
    /\ "crash" \in Faults
    /\ sync' = NoMint
    /\ check' = [v \in Verifiers |-> NoCheck]
    /\ touched' = {}
    /\ UNCHANGED <<serves, row>>

---------------------------------------------------------------------------
VerifyStep(v) ==
    \/ \E c \in Contents : Lookup(v, c)
    \/ \E a \in Assets : Write(v, a) \/ WriteFails(v, a)
    \/ End(v)

Next ==
    \/ \E c \in Contents : Republish(c)
    \/ \E a \in Assets : Burn(a) \/ \E c \in Contents : ReadExisting(a, c)
    \/ Upsert \/ SyncFails
    \/ HealthBegin \/ HealthLoad \/ HealthFails
    \/ \E v \in Verifiers : VerifyStep(v)
    \/ Crash

Spec == Init /\ [][Next]_vars

(* The interval timer starts passes; what is awaited is answered or fails. *)
Fairness ==
    /\ WF_vars(Upsert \/ SyncFails)
    /\ WF_vars(HealthBegin)
    /\ WF_vars(HealthLoad \/ HealthFails)
    /\ \A v \in Verifiers : WF_vars(VerifyStep(v))

---------------------------------------------------------------------------
(* Properties.                                                             *)

(* The API never serves keys of a burned agent: however stale the writes,  *)
(* a deregistered registration has no verification data.                   *)
DeregisteredHasNoKeys ==
    \A a \in Assets : row[a].status = "Deregistered" => row[a].keys = None

(* A registration has verification data exactly when it is verified, and   *)
(* it is what the endpoint of its present content published: a change of   *)
(* content, a burn or a withdrawn endpoint leaves none behind.             *)
KeysFollowStatus ==
    \A a \in Assets :
        row[a].keys = IF row[a].status = "Verified" THEN row[a].content ELSE None

(* Only a mint brings a deregistered registration back.                    *)
OnlyMintRevives ==
    [][\A a \in Assets :
          row[a].status = "Deregistered" /\ row'[a].status # "Deregistered"
              => sync.asset = a]_vars

(* When sync and pass overlap, a health pass may do so too, but only of a  *)
(* registration that it loaded before the burn; the verification of a mint *)
(* never does.                                                             *)
RevivedByMintOrPass ==
    [][\A a \in Assets :
          row[a].status = "Deregistered" /\ row'[a].status # "Deregistered"
              => \/ sync.asset = a
                 \/ /\ a \in check["health"].batch
                    /\ check["health"].seen[a].status \in Checked]_vars

(* Reading, asking and writing apart from each other amounts to applying   *)
(* each mint, burn and answer to the registration as it is.                *)
InboxLedger == INSTANCE InboxLedger
FollowsInboxLedger == InboxLedger!Spec

(* A crash, a pass that fails, a write of a's that fails; not their look-  *)
(* alikes, the end of a verification and a write of what is there already. *)
Disturbed(a) ==
    \/ Crash /\ ~\E v \in Verifiers : End(v)
    \/ HealthFails
    \/ WriteFails("health", a) /\ ~Write("health", a)

(* Whatever stale writes happened: once no mint or burn touches it and its *)
(* endpoint answers the same, a registration ends up with the verdict that *)
(* answer gives, and the keys that go with it, provided that the process   *)
(* stops crashing and the pass stops failing.                              *)
Converges ==
    \A a \in Assets, c \in Contents, ans \in Answer :
        /\ ans.outcome # "unavailable"
        /\ <>[](/\ row[a].status \in Checked
                /\ row[a].content = c
                /\ serves[c] = ans
                /\ sync.asset # a)
        /\ <>[][~Disturbed(a)]_vars
        => <>[](row[a] = Verified(row[a], row[a], ans, a))
=============================================================================
