------------------------------ MODULE ApiAccess ------------------------------
(***************************************************************************)
(* Who may call the API and what the calls are charged: the API keys, the  *)
(* administrators' changes of them, and the calls, which authenticate,     *)
(* check the limit of their key, and charge it in a transaction.  Inside   *)
(* the transaction the charge is an update of another connection, so a call*)
(* needs two connections of the pool at once.                              *)
(*                                                                         *)
(* key and spent are the database; req is what the process remembers of the*)
(* requests it serves; granted is a history variable.                      *)
(***************************************************************************)
EXTENDS Integers, FiniteSets

CONSTANTS
    Keys,           \* the tokens that are ever handed out
    Admins,         \* those of them with the permission Admin
    Requests,       \* the requests that are served at the same time
    Connections,    \* the size of the pool (DB_CONNECTION_POOL_LIMIT)
    Costs,          \* what routes charge
    MaxCredits,     \* the highest limit a key is given
    MaxSpent,       \* no calls of a key that spent more (a bound, not in the code)
    None            \* no key

ASSUME KeysAssumption    == Admins \subseteq Keys /\ None \notin Keys /\ IsFiniteSet(Requests)
ASSUME PoolAssumption    == Connections \in Nat \ {0}
ASSUME CreditsAssumption == Costs \subseteq Nat /\ MaxCredits \in Nat /\ MaxSpent \in Nat

VARIABLES
    key,        \* key[k]: the row of ApiKey
    spent,      \* spent[k]: the sum of its UsageEntry rows
    req,        \* req[r]: the request r serves
    granted     \* granted[k]: the highest limit key k ever had

vars == <<key, spent, req, granted>>

(* A limit of null counts as zero.                                         *)
Key == [status : {"unissued", "Active", "Revoked", "deleted"},
        limited : BOOLEAN, max : 0 .. MaxCredits, used : Nat]

(* step: idle; admin, may change keys; call, within the limit as far as the*)
(* key was read to authenticate; open, the transaction has read the key,   *)
(* and the limit, again; charged.  live: its transaction is open, and holds*)
(* a connection; read: the credits it read.                                *)
Request == [step : {"idle", "admin", "call", "open", "charged"},
            key : Keys \cup {None}, cost : Costs \cup {0}, read : Nat, live : BOOLEAN]

Unissued == [status |-> "unissued", limited |-> FALSE, max |-> 0, used |-> 0]
FirstKey == [status |-> "Active", limited |-> FALSE, max |-> 0, used |-> 0]
NoRequest == [step |-> "idle", key |-> None, cost |-> 0, read |-> 0, live |-> FALSE]

Free == Connections - Cardinality({r \in Requests : req[r].live})

Exists(k) == key[k].status \in {"Active", "Revoked"}

(* No limit at all is more than any.                                       *)
Grant(limited, max) == IF limited THEN max ELSE MaxCredits + 1

TypeOK ==
    /\ key \in [Keys -> Key]
    /\ spent \in [Keys -> Nat]
    /\ req \in [Requests -> Request]
    /\ granted \in [Keys -> 0 .. MaxCredits + 1]
    /\ \A r \in Requests : /\ req[r].step # "idle" => req[r].key # None
                           /\ req[r].live => req[r].step \in {"open", "charged"}

(* The seed issues the first key of an administrator.                      *)
Init ==
    /\ \E first \in Admins :
          key = [k \in Keys |-> IF k = first THEN FirstKey ELSE Unissued]
    /\ spent = [k \in Keys |-> 0]
    /\ req = [r \in Requests |-> NoRequest]
    /\ granted = [k \in Keys |-> IF key[k].status = "Active" THEN MaxCredits + 1 ELSE 0]

---------------------------------------------------------------------------
(* Authentication, which is one query.                                     *)

Authentic(k) == Free > 0 /\ key[k].status = "Active"

WithinLimit(k, cost) == key[k].limited => key[k].used + cost <= key[k].max

(* A route that charges: the limit is checked against the row that was     *)
(* read to authenticate.                                                   *)
Call(r, k, cost) ==
    /\ req[r].step = "idle"
    /\ Authentic(k)
    /\ WithinLimit(k, cost)
    /\ spent[k] < MaxSpent
    /\ req' = [req EXCEPT ![r] =
          [step |-> "call", key |-> k, cost |-> cost, read |-> 0, live |-> FALSE]]
    /\ UNCHANGED <<key, spent, granted>>

(* A route for administrators.                                             *)
Administer(r, k) ==
    /\ req[r].step = "idle"
    /\ Authentic(k)
    /\ k \in Admins
    /\ req' = [req EXCEPT ![r] =
          [step |-> "admin", key |-> k, cost |-> 0, read |-> 0, live |-> FALSE]]
    /\ UNCHANGED <<key, spent, granted>>

---------------------------------------------------------------------------
(* handleCreditUsage.                                                      *)

(* Mutant: the transaction stays open.                                     *)
ReplyUnclosed(r) == req' = [req EXCEPT ![r] = [NoRequest EXCEPT !.live = req[r].live]]

(* The request is over, and its transaction, if it has one.                *)
Reply(r) == req' = [req EXCEPT ![r] = NoRequest]

(* Mutant: the transaction relies on the check that was made before it.    *)
BeginUnchecked(r) ==
    /\ req[r].step = "call"
    /\ Free > 0
    /\ Exists(req[r].key)
    /\ req' = [req EXCEPT ![r] = [@ EXCEPT !.step = "open", !.live = TRUE,
                                           !.read = key[req[r].key].used]]
    /\ UNCHANGED <<key, spent, granted>>

(* The transaction takes a connection and reads the key.                   *)
Begin(r) ==
    /\ req[r].step = "call"
    /\ Free > 0
    /\ Exists(req[r].key) /\ WithinLimit(req[r].key, req[r].cost)
    /\ req' = [req EXCEPT ![r] = [@ EXCEPT !.step = "open", !.live = TRUE,
                                           !.read = key[req[r].key].used]]
    /\ UNCHANGED <<key, spent, granted>>

(* The key is gone or at its limit, or no connection came free in time.    *)
Refuse(r) ==
    /\ req[r].step = "call"
    /\ Free > 0 => ~(Exists(req[r].key) /\ WithinLimit(req[r].key, req[r].cost))
    /\ Reply(r)
    /\ UNCHANGED <<key, spent, granted>>

(* Mutant: the charge is not recorded.                                     *)
ChargeUnrecorded(r) ==
    LET k == req[r].key IN
    /\ req[r].step = "open"
    /\ Free > 0
    /\ Exists(k)
    /\ key' = [key EXCEPT ![k].used = req[r].read + req[r].cost]
    /\ req' = [req EXCEPT ![r].step = "charged"]
    /\ UNCHANGED <<spent, granted>>

(* The update, and the UsageEntry with it, on a second connection.         *)
Charge(r) ==
    LET k == req[r].key IN
    /\ req[r].step = "open"
    /\ Free > 0
    /\ Exists(k)
    /\ key' = [key EXCEPT ![k].used = req[r].read + req[r].cost]
    /\ spent' = [spent EXCEPT ![k] = @ + req[r].cost]
    /\ req' = [req EXCEPT ![r].step = "charged"]
    /\ UNCHANGED granted

(* The key is gone, or, after the transaction has ended, no second         *)
(* connection came free in time: pool_timeout is the longer.               *)
ChargeFails(r) ==
    /\ req[r].step = "open"
    /\ IF Free > 0 THEN ~Exists(req[r].key) ELSE ~req[r].live
    /\ Reply(r)
    /\ UNCHANGED <<key, spent, granted>>

(* Mutant: a transaction may stay open for ever.                           *)
ExpireNever(r) == FALSE /\ UNCHANGED vars

(* Prisma ends a transaction that is open too long, and its connection is  *)
(* free; the update it waits for goes on waiting.                          *)
Expire(r) ==
    /\ req[r].live
    /\ req' = [req EXCEPT ![r].live = FALSE]
    /\ UNCHANGED <<key, spent, granted>>

(* The transaction ends, the route does its work, or, if it had expired,   *)
(* fails.                                                                  *)
Finish(r) ==
    /\ req[r].step = "charged"
    /\ Reply(r)
    /\ UNCHANGED <<key, spent, granted>>

---------------------------------------------------------------------------
(* What administrators do, each in one statement.                          *)

Add(r, k, limited, max) ==
    /\ req[r].step = "admin"
    /\ Free > 0
    /\ key[k].status = "unissued"
    /\ key' = [key EXCEPT ![k] = [status |-> "Active", limited |-> limited, max |-> max, used |-> 0]]
    /\ granted' = [granted EXCEPT ![k] = Grant(limited, max)]
    /\ Reply(r)
    /\ UNCHANGED spent

(* What the request leaves out is set to a default: Active, no limit.      *)
Update(r, k, status, limited, max) ==
    /\ req[r].step = "admin"
    /\ Free > 0
    /\ Exists(k)
    /\ key' = [key EXCEPT ![k] = [status |-> status, limited |-> limited, max |-> max,
                                  used |-> @.used]]
    /\ granted' = [granted EXCEPT ![k] = IF @ < Grant(limited, max) THEN Grant(limited, max) ELSE @]
    /\ Reply(r)
    /\ UNCHANGED spent

Delete(r, k) ==
    /\ req[r].step = "admin"
    /\ Free > 0
    /\ Exists(k)
    /\ key' = [key EXCEPT ![k].status = "deleted"]
    /\ Reply(r)
    /\ UNCHANGED <<spent, granted>>

(* A query, or what the route does, fails: its transaction is rolled back, *)
(* but not the charge.                                                     *)
Fail(r) ==
    /\ req[r].step # "idle"
    /\ Reply(r)
    /\ UNCHANGED <<key, spent, granted>>

Change(r) ==
    \E k \in Keys :
        \/ Delete(r, k)
        \/ \E limited \in BOOLEAN, max \in 0 .. MaxCredits :
              \/ Add(r, k, limited, max)
              \/ \E status \in {"Active", "Revoked"} : Update(r, k, status, limited, max)

---------------------------------------------------------------------------
CallStep(r) == Begin(r) \/ Refuse(r) \/ Charge(r) \/ ChargeFails(r) \/ Expire(r) \/ Finish(r)

Next ==
    \E r \in Requests :
        \/ \E k \in Keys : Administer(r, k) \/ \E cost \in Costs : Call(r, k, cost)
        \/ Change(r) \/ Fail(r)
        \/ CallStep(r)

Spec == Init /\ [][Next]_vars

(* A call goes on: what it waits for comes or times out.  Nothing is       *)
(* assumed of administrators, nor that anything fails.                     *)
FairSpec == Spec /\ \A r \in Requests : WF_vars(CallStep(r))

---------------------------------------------------------------------------
(* Properties.                                                             *)

(* However the calls of a key overlap, and whatever administrators change  *)
(* meanwhile, its credits never exceed the highest limit it was given.     *)
WithinGranted ==
    \A k \in Keys : granted[k] <= MaxCredits => key[k].used <= granted[k]

(* Overlapping calls can lose each other's charge, but none invents one:   *)
(* the credits of a key are backed by the usage that is recorded for it.   *)
UsedIsBacked == \A k \in Keys : key[k].used <= spent[k]

(* A call is answered, even if every connection is held by a call that     *)
(* waits for another one.                                                  *)
EveryCallEnds ==
    \A r \in Requests : req[r].step = "call" ~> req[r].step = "idle"
=============================================================================
