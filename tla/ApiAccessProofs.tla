--------------------------- MODULE ApiAccessProofs ---------------------------
(***************************************************************************)
(* Proofs about ApiAccess, for any number of keys, requests and connections*)
(* and any costs: types, and what the credits of a key are bounded by.     *)
(***************************************************************************)
EXTENDS ApiAccess, TLAPS

(* A key's present limit was granted to it, and none before it was issued. *)
LimitGranted ==
    \A k \in Keys : /\ Exists(k) => Grant(key[k].limited, key[k].max) <= granted[k]
                    /\ key[k].status = "unissued" => granted[k] = 0

(* What a transaction has read will be within the limit, and is backed,    *)
(* when it is charged.                                                     *)
ReadBounded ==
    \A r \in Requests :
        req[r].step = "open" =>
            /\ req[r].read <= spent[req[r].key]
            /\ granted[req[r].key] <= MaxCredits =>
                   req[r].read + req[r].cost <= granted[req[r].key]

AccessInv == TypeOK /\ WithinGranted /\ UsedIsBacked /\ LimitGranted /\ ReadBounded

---------------------------------------------------------------------------
(* Types of the parts.                                                     *)

LEMMA GrantType ==
  ASSUME NEW limited \in BOOLEAN, NEW max \in 0 .. MaxCredits
  PROVE  /\ Grant(limited, max) \in 0 .. MaxCredits + 1
         /\ Grant(limited, max) <= MaxCredits => limited /\ Grant(limited, max) = max
  BY CreditsAssumption DEF Grant

LEMMA KeyType ==
  ASSUME TypeOK, NEW k \in Keys
  PROVE  /\ key[k].status \in {"unissued", "Active", "Revoked", "deleted"}
         /\ key[k].limited \in BOOLEAN /\ key[k].max \in 0 .. MaxCredits
         /\ key[k].used \in Nat /\ spent[k] \in Nat /\ granted[k] \in 0 .. MaxCredits + 1
  BY DEF TypeOK, Key

LEMMA RequestType ==
  ASSUME TypeOK, NEW r \in Requests
  PROVE  /\ req[r] \in Request
         /\ req[r].cost \in Nat /\ req[r].read \in Nat
         /\ req[r].step # "idle" => req[r].key \in Keys
<1>1. req[r] \in Request /\ (req[r].step # "idle" => req[r].key # None)
  BY DEF TypeOK
<1>2. Costs \cup {0} \subseteq Nat
  BY CreditsAssumption
<1> QED BY <1>1, <1>2 DEF Request

LEMMA NoRequestType == NoRequest \in Request /\ NoRequest.step = "idle" /\ ~NoRequest.live
  BY DEF NoRequest, Request

(* A request that becomes q, while the rows stay as they are.              *)
LEMMA RequestStep ==
  ASSUME AccessInv, NEW r \in Requests, NEW q \in Request,
         req' = [req EXCEPT ![r] = q],
         UNCHANGED <<key, spent, granted>>,
         q.step # "idle" => q.key # None,
         q.live => q.step \in {"open", "charged"},
         q.step = "open" => /\ q.read <= spent[q.key]
                            /\ granted[q.key] <= MaxCredits => q.read + q.cost <= granted[q.key]
  PROVE  AccessInv'
<1>1. req' \in [Requests -> Request] /\ \A s \in Requests : req'[s] = IF s = r THEN q ELSE req[s]
  BY DEF AccessInv, TypeOK
<1>2. TypeOK'
  BY <1>1 DEF AccessInv, TypeOK
<1>3. ReadBounded'
  BY <1>1 DEF AccessInv, ReadBounded
<1>4. WithinGranted' /\ UsedIsBacked' /\ LimitGranted'
  BY DEF AccessInv, WithinGranted, UsedIsBacked, LimitGranted, Exists
<1> QED BY <1>2, <1>3, <1>4 DEF AccessInv

(* A request that is over.                                                 *)
LEMMA ReplyStep ==
  ASSUME AccessInv, NEW r \in Requests, Reply(r), UNCHANGED <<key, spent, granted>>
  PROVE  AccessInv'
  BY NoRequestType, RequestStep DEF Reply

---------------------------------------------------------------------------
LEMMA AccessInit == Init => AccessInv
<1> SUFFICES ASSUME Init PROVE AccessInv
  OBVIOUS
<1>1. PICK first \in Admins :
        key = [k \in Keys |-> IF k = first THEN FirstKey ELSE Unissued]
  BY DEF Init
<1>2. \A k \in Keys : /\ key[k] \in Key
                      /\ key[k].used = 0 /\ key[k].limited = FALSE
                      /\ key[k].status \in {"unissued", "Active"}
  <2>1. /\ FirstKey \in Key /\ Unissued \in Key
        /\ FirstKey.used = 0 /\ FirstKey.limited = FALSE /\ FirstKey.status = "Active"
        /\ Unissued.used = 0 /\ Unissued.limited = FALSE /\ Unissued.status = "unissued"
    BY CreditsAssumption DEF FirstKey, Unissued, Key
  <2> QED BY <1>1, <2>1
<1>3. \A k \in Keys : /\ granted[k] \in 0 .. MaxCredits + 1 /\ spent[k] = 0
                      /\ granted[k] = IF key[k].status = "Active" THEN MaxCredits + 1 ELSE 0
  BY CreditsAssumption DEF Init
<1>4. key \in [Keys -> Key]
  BY <1>1, <1>2
<1>5. \A r \in Requests : req[r] = NoRequest
  BY DEF Init
<1>6. TypeOK
  BY <1>3, <1>4, <1>5, NoRequestType DEF Init, TypeOK
<1>7. WithinGranted /\ UsedIsBacked
  BY <1>2, <1>3 DEF WithinGranted, UsedIsBacked
<1>8. LimitGranted
  BY <1>2, <1>3, CreditsAssumption DEF LimitGranted, Exists, Grant
<1>9. ReadBounded
  BY <1>5, NoRequestType DEF ReadBounded
<1> QED BY <1>6, <1>7, <1>8, <1>9 DEF AccessInv

LEMMA BeginStep ==
  ASSUME AccessInv, NEW r \in Requests, Begin(r)
  PROVE  AccessInv'
<1> DEFINE k == req[r].key
           q == [req[r] EXCEPT !.step = "open", !.live = TRUE, !.read = key[k].used]
<1>0. TypeOK /\ WithinGranted /\ UsedIsBacked /\ LimitGranted
  BY DEF AccessInv
<1>1. k \in Keys /\ req[r] \in Request
  BY <1>0, RequestType DEF Begin
<1>2. key[k].used \in Nat /\ key[k].limited \in BOOLEAN /\ key[k].max \in 0 .. MaxCredits
  BY <1>0, <1>1, KeyType
<1>3. q \in Request /\ q.step = "open" /\ q.key = k /\ q.cost = req[r].cost /\ q.read = key[k].used
  BY <1>1, <1>2 DEF Request
<1>4. key[k].used <= spent[k]
  BY <1>0, <1>1 DEF UsedIsBacked
<1>5. granted[k] <= MaxCredits => key[k].used + req[r].cost <= granted[k]
  <2> SUFFICES ASSUME granted[k] <= MaxCredits PROVE key[k].used + req[r].cost <= granted[k]
    OBVIOUS
  <2>1. Grant(key[k].limited, key[k].max) <= granted[k]
    BY <1>0, <1>1 DEF LimitGranted, Begin
  <2>2. granted[k] \in Nat /\ req[r].cost \in Nat /\ MaxCredits \in Nat
    BY <1>0, <1>1, KeyType, RequestType, CreditsAssumption
  <2>3. key[k].limited /\ key[k].max <= granted[k]
    BY <1>2, <2>1, <2>2 DEF Grant
  <2>4. key[k].used + req[r].cost <= key[k].max
    BY <2>3 DEF Begin, WithinLimit
  <2> QED BY <1>2, <2>2, <2>3, <2>4
<1>6. req' = [req EXCEPT ![r] = q] /\ UNCHANGED <<key, spent, granted>>
  BY DEF Begin
<1>7. q.key # None
  BY <1>1, <1>3, KeysAssumption
<1> HIDE DEF q
<1> QED BY <1>3, <1>4, <1>5, <1>6, <1>7, RequestStep

LEMMA ChargeStep ==
  ASSUME AccessInv, NEW r \in Requests, Charge(r)
  PROVE  AccessInv'
<1> DEFINE k == req[r].key
           sum == req[r].read + req[r].cost
<1>0. TypeOK /\ WithinGranted /\ UsedIsBacked /\ LimitGranted /\ ReadBounded
  BY DEF AccessInv
<1>1. /\ k \in Keys /\ req[r] \in Request
      /\ req[r].read \in Nat /\ req[r].cost \in Nat
  BY <1>0, RequestType DEF Charge
<1>2. /\ req[r].read <= spent[k]
      /\ granted[k] <= MaxCredits => sum <= granted[k]
  BY <1>0 DEF ReadBounded, Charge
<1>3. /\ key' = [key EXCEPT ![k].used = sum]
      /\ spent' = [spent EXCEPT ![k] = @ + req[r].cost]
      /\ req' = [req EXCEPT ![r].step = "charged"]
      /\ granted' = granted
  BY DEF Charge
<1>4. sum \in Nat /\ spent[k] \in Nat /\ spent[k] + req[r].cost \in Nat
  BY <1>0, <1>1, KeyType
<1>5. sum <= spent[k] + req[r].cost
  BY <1>1, <1>2, <1>4
<1> HIDE DEF sum
<1>6. key' \in [Keys -> Key]
  BY <1>0, <1>1, <1>3, <1>4 DEF TypeOK, Key
<1>7. \A l \in Keys : /\ key'[l].used = IF l = k THEN sum ELSE key[l].used
                      /\ key'[l].status = key[l].status
                      /\ key'[l].limited = key[l].limited /\ key'[l].max = key[l].max
  BY <1>0, <1>1, <1>3 DEF TypeOK, Key
<1>8. /\ spent' \in [Keys -> Nat]
      /\ \A l \in Keys : spent'[l] = IF l = k THEN spent[k] + req[r].cost ELSE spent[l]
  BY <1>0, <1>1, <1>3, <1>4 DEF TypeOK
<1>9. /\ req' \in [Requests -> Request]
      /\ req'[r].step = "charged" /\ req'[r].key = k
      /\ \A s \in Requests : s # r => req'[s] = req[s]
  BY <1>0, <1>1, <1>3 DEF TypeOK, Request
<1>10. TypeOK'
  <2>1. \A s \in Requests : /\ req'[s].step # "idle" => req'[s].key # None
                            /\ req'[s].live => req'[s].step \in {"open", "charged"}
    BY <1>0, <1>1, <1>9, KeysAssumption DEF TypeOK
  <2> QED BY <1>0, <1>3, <1>6, <1>8, <1>9, <2>1 DEF TypeOK
<1>11. WithinGranted'
  BY <1>0, <1>2, <1>3, <1>7 DEF WithinGranted, sum
<1>12. UsedIsBacked'
  BY <1>0, <1>5, <1>7, <1>8 DEF UsedIsBacked
<1>13. LimitGranted'
  BY <1>0, <1>3, <1>7 DEF LimitGranted, Exists
<1>14. ReadBounded'
  <2> SUFFICES ASSUME NEW s \in Requests, req'[s].step = "open"
               PROVE  /\ req'[s].read <= spent'[req'[s].key]
                      /\ granted'[req'[s].key] <= MaxCredits =>
                             req'[s].read + req'[s].cost <= granted'[req'[s].key]
    BY DEF ReadBounded
  <2>1. s # r /\ req'[s] = req[s] /\ req[s].step = "open"
    BY <1>9
  <2>2. req[s].key \in Keys /\ req[s].read \in Nat /\ spent[req[s].key] \in Nat
    BY <1>0, <2>1, RequestType, KeyType
  <2>3. req[s].read <= spent[req[s].key]
    BY <1>0, <2>1 DEF ReadBounded
  <2>4. req[s].read <= spent'[req[s].key]
    BY <1>1, <1>8, <2>2, <2>3
  <2> QED BY <1>0, <1>3, <2>1, <2>4 DEF ReadBounded
<1> QED BY <1>10, <1>11, <1>12, <1>13, <1>14 DEF AccessInv

(* An administrator's change: key k becomes row, which keeps its credits or*)
(* begins with none, and its highest limit becomes top.                    *)
LEMMA ChangeStep ==
  ASSUME AccessInv, NEW r \in Requests, NEW k \in Keys, NEW row \in Key,
         NEW top \in 0 .. MaxCredits + 1,
         key' = [key EXCEPT ![k] = row],
         granted' = [granted EXCEPT ![k] = top],
         Reply(r), spent' = spent,
         row.used = key[k].used \/ row.used = 0,
         granted[k] <= top, row.status # "unissued",
         row.status \in {"Active", "Revoked"} => Grant(row.limited, row.max) <= top
  PROVE  AccessInv'
<1>0. TypeOK /\ WithinGranted /\ UsedIsBacked /\ LimitGranted /\ ReadBounded
  BY DEF AccessInv
<1>1. key' \in [Keys -> Key] /\ \A l \in Keys : key'[l] = IF l = k THEN row ELSE key[l]
  BY <1>0 DEF TypeOK
<1>2. /\ granted' \in [Keys -> 0 .. MaxCredits + 1]
      /\ \A l \in Keys : granted'[l] = IF l = k THEN top ELSE granted[l]
  BY <1>0 DEF TypeOK
<1>3. /\ req' \in [Requests -> Request]
      /\ \A s \in Requests : req'[s] = IF s = r THEN NoRequest ELSE req[s]
  BY <1>0, NoRequestType DEF TypeOK, Reply
<1>4. TypeOK'
  <2>1. \A s \in Requests : /\ req'[s].step # "idle" => req'[s].key # None
                            /\ req'[s].live => req'[s].step \in {"open", "charged"}
    BY <1>0, <1>3, NoRequestType DEF TypeOK
  <2> QED BY <1>0, <1>1, <1>2, <1>3, <2>1 DEF TypeOK
<1>5. \A l \in Keys : granted[l] \in Nat /\ granted'[l] \in Nat /\ granted[l] <= granted'[l]
                      /\ key[l].used \in Nat /\ spent[l] \in Nat
  BY <1>0, <1>2, KeyType, CreditsAssumption
<1>6. MaxCredits \in Nat
  BY CreditsAssumption
<1>7. WithinGranted'
  <2> SUFFICES ASSUME NEW l \in Keys, granted'[l] <= MaxCredits PROVE key'[l].used <= granted'[l]
    BY DEF WithinGranted
  <2>1. granted[l] <= MaxCredits
    BY <1>5, <1>6
  <2>2. key[l].used <= granted[l]
    BY <1>0, <2>1 DEF WithinGranted
  <2>3. key'[l].used = key[l].used \/ key'[l].used = 0
    BY <1>1
  <2> QED BY <1>5, <2>2, <2>3
<1>8. UsedIsBacked'
  <2> SUFFICES ASSUME NEW l \in Keys PROVE key'[l].used <= spent[l]
    BY DEF UsedIsBacked
  <2>1. key[l].used <= spent[l]
    BY <1>0 DEF UsedIsBacked
  <2>2. key'[l].used = key[l].used \/ key'[l].used = 0
    BY <1>1
  <2> QED BY <1>5, <2>1, <2>2
<1>9. LimitGranted'
  BY <1>0, <1>1, <1>2 DEF LimitGranted, Exists
<1>10. ReadBounded'
  <2> SUFFICES ASSUME NEW s \in Requests, req'[s].step = "open"
               PROVE  /\ req'[s].read <= spent'[req'[s].key]
                      /\ granted'[req'[s].key] <= MaxCredits =>
                             req'[s].read + req'[s].cost <= granted'[req'[s].key]
    BY DEF ReadBounded
  <2>1. req'[s] = req[s] /\ req[s].step = "open"
    BY <1>3, NoRequestType
  <2>2. req[s].key \in Keys /\ req[s].read \in Nat /\ req[s].cost \in Nat
    BY <1>0, <2>1, RequestType
  <2>3. req[s].read <= spent[req[s].key]
    BY <1>0, <2>1 DEF ReadBounded
  <2>4. ASSUME granted'[req[s].key] <= MaxCredits
        PROVE  req[s].read + req[s].cost <= granted'[req[s].key]
    <3>1. granted[req[s].key] <= MaxCredits
      BY <1>5, <1>6, <2>2, <2>4
    <3>2. req[s].read + req[s].cost <= granted[req[s].key]
      BY <1>0, <2>1, <3>1 DEF ReadBounded
    <3> QED BY <1>5, <2>2, <3>2
  <2> QED BY <2>1, <2>3, <2>4
<1> QED BY <1>4, <1>7, <1>8, <1>9, <1>10 DEF AccessInv

LEMMA AccessStep == AccessInv /\ [Next]_vars => AccessInv'
<1> SUFFICES ASSUME AccessInv, [Next]_vars PROVE AccessInv'
  OBVIOUS
<1>0. TypeOK /\ WithinGranted /\ UsedIsBacked /\ LimitGranted /\ ReadBounded
  BY DEF AccessInv
<1>1. ASSUME NEW r \in Requests, NEW k \in Keys, NEW cost \in Costs, Call(r, k, cost)
      PROVE  AccessInv'
  <2> DEFINE q == [step |-> "call", key |-> k, cost |-> cost, read |-> 0, live |-> FALSE]
  <2>1. q \in Request /\ q.step = "call" /\ ~q.live /\ q.key # None
    BY KeysAssumption DEF Request
  <2>2. req' = [req EXCEPT ![r] = q] /\ UNCHANGED <<key, spent, granted>>
    BY <1>1 DEF Call
  <2> HIDE DEF q
  <2> QED BY <2>1, <2>2, RequestStep
<1>2. ASSUME NEW r \in Requests, NEW k \in Keys, Administer(r, k)
      PROVE  AccessInv'
  <2> DEFINE q == [step |-> "admin", key |-> k, cost |-> 0, read |-> 0, live |-> FALSE]
  <2>1. q \in Request /\ q.step = "admin" /\ ~q.live /\ q.key # None
    BY KeysAssumption DEF Request
  <2>2. req' = [req EXCEPT ![r] = q] /\ UNCHANGED <<key, spent, granted>>
    BY <1>2 DEF Administer
  <2> HIDE DEF q
  <2> QED BY <2>1, <2>2, RequestStep
<1>3. ASSUME NEW r \in Requests, Change(r) PROVE AccessInv'
  <2>1. ASSUME NEW k \in Keys, Delete(r, k) PROVE AccessInv'
    <3> DEFINE row == [key[k] EXCEPT !.status = "deleted"]
    <3>1. row \in Key /\ row.used = key[k].used /\ row.status = "deleted"
      BY <1>0 DEF TypeOK, Key
    <3>2. granted[k] \in 0 .. MaxCredits + 1 /\ granted' = [granted EXCEPT ![k] = granted[k]]
      BY <1>0, <2>1 DEF TypeOK, Delete
    <3>3. key' = [key EXCEPT ![k] = row] /\ Reply(r) /\ spent' = spent
      BY <2>1 DEF Delete
    <3>4. granted[k] <= granted[k]
      BY <3>2, CreditsAssumption
    <3> HIDE DEF row
    <3> QED BY <3>1, <3>2, <3>3, <3>4, ChangeStep
  <2>2. ASSUME NEW k \in Keys, NEW limited \in BOOLEAN, NEW max \in 0 .. MaxCredits,
               Add(r, k, limited, max)
        PROVE  AccessInv'
    <3> DEFINE row == [status |-> "Active", limited |-> limited, max |-> max, used |-> 0]
    <3>1. row \in Key /\ row.used = 0 /\ row.limited = limited /\ row.max = max
      BY DEF Key
    <3>2. Grant(limited, max) \in 0 .. MaxCredits + 1
      BY GrantType
    <3>3. /\ key' = [key EXCEPT ![k] = row] /\ Reply(r) /\ spent' = spent
          /\ granted' = [granted EXCEPT ![k] = Grant(limited, max)]
      BY <2>2 DEF Add
    <3>4. granted[k] = 0 /\ 0 <= Grant(limited, max)
      BY <1>0, <2>2, <3>2, CreditsAssumption DEF LimitGranted, Add
    <3>5. row.status = "Active" /\ granted[k] <= Grant(limited, max)
                              /\ Grant(limited, max) <= Grant(limited, max)
      BY <3>2, <3>4, CreditsAssumption
    <3> HIDE DEF row
    <3> QED BY <3>1, <3>2, <3>3, <3>5, ChangeStep
  <2>3. ASSUME NEW k \in Keys, NEW limited \in BOOLEAN, NEW max \in 0 .. MaxCredits,
               NEW status \in {"Active", "Revoked"}, Update(r, k, status, limited, max)
        PROVE  AccessInv'
    <3> DEFINE row == [status |-> status, limited |-> limited, max |-> max, used |-> key[k].used]
               top == IF granted[k] < Grant(limited, max) THEN Grant(limited, max) ELSE granted[k]
    <3>1. /\ row \in Key /\ row.used = key[k].used /\ row.limited = limited /\ row.max = max
          /\ row.status # "unissued"
      BY <1>0, KeyType DEF Key
    <3>2. Grant(limited, max) \in 0 .. MaxCredits + 1 /\ granted[k] \in 0 .. MaxCredits + 1
      BY <1>0, GrantType, KeyType
    <3>3. top \in 0 .. MaxCredits + 1 /\ granted[k] <= top /\ Grant(limited, max) <= top
      BY <3>2, CreditsAssumption
    <3>4. /\ key' = [key EXCEPT ![k] = row] /\ Reply(r) /\ spent' = spent
          /\ granted' = [granted EXCEPT ![k] = top]
      BY <2>3 DEF Update
    <3> HIDE DEF row, top
    <3> QED BY <3>1, <3>3, <3>4, ChangeStep
  <2> QED BY <1>3, <2>1, <2>2, <2>3 DEF Change
<1>4. ASSUME NEW r \in Requests, Fail(r) \/ Refuse(r) \/ ChargeFails(r) \/ Finish(r)
      PROVE  AccessInv'
  <2>1. Reply(r) /\ UNCHANGED <<key, spent, granted>>
    BY <1>4 DEF Fail, Refuse, ChargeFails, Finish
  <2> QED BY <2>1, ReplyStep
<1>5. ASSUME NEW r \in Requests, Begin(r) PROVE AccessInv'
  BY <1>5, BeginStep
<1>6. ASSUME NEW r \in Requests, Charge(r) PROVE AccessInv'
  BY <1>6, ChargeStep
<1>7. ASSUME NEW r \in Requests, Expire(r) PROVE AccessInv'
  <2> DEFINE q == [req[r] EXCEPT !.live = FALSE]
  <2>1. /\ q \in Request /\ ~q.live /\ q.step = req[r].step /\ q.key = req[r].key
        /\ q.read = req[r].read /\ q.cost = req[r].cost
    BY <1>0 DEF TypeOK, Request
  <2>2. q.step # "idle" => q.key # None
    BY <1>0, <2>1 DEF TypeOK
  <2>3. q.step = "open" => /\ q.read <= spent[q.key]
                           /\ granted[q.key] <= MaxCredits => q.read + q.cost <= granted[q.key]
    BY <1>0, <2>1 DEF ReadBounded
  <2>4. req' = [req EXCEPT ![r] = q] /\ UNCHANGED <<key, spent, granted>>
    BY <1>7 DEF Expire
  <2> HIDE DEF q
  <2> QED BY <2>1, <2>2, <2>3, <2>4, RequestStep
<1>8. CASE UNCHANGED vars
  BY <1>0, <1>8 DEF vars, AccessInv, TypeOK, WithinGranted, UsedIsBacked, LimitGranted, ReadBounded,
                    Exists
<1> QED BY <1>1, <1>2, <1>3, <1>4, <1>5, <1>6, <1>7, <1>8 DEF Next, CallStep

---------------------------------------------------------------------------
LEMMA AccessInvariant == Spec => []AccessInv
  BY AccessInit, AccessStep, PTL DEF Spec

(* Keys, usage and requests always have their types.                       *)
THEOREM TypeCorrect == Spec => []TypeOK
<1>1. AccessInv => TypeOK
  BY DEF AccessInv
<1> QED BY <1>1, AccessInvariant, PTL

(* For any number of calls at once and whatever administrators change, the *)
(* credits of a key never exceed the highest limit it was given.           *)
THEOREM CreditsWithinGranted == Spec => []WithinGranted
<1>1. AccessInv => WithinGranted
  BY DEF AccessInv
<1> QED BY <1>1, AccessInvariant, PTL

(* The credits of a key never exceed the usage that is recorded for it.    *)
THEOREM CreditsAreBacked == Spec => []UsedIsBacked
<1>1. AccessInv => UsedIsBacked
  BY DEF AccessInv
<1> QED BY <1>1, AccessInvariant, PTL
=============================================================================
