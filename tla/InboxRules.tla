---------------------------- MODULE InboxRules ----------------------------
(***************************************************************************)
(* The decisions the service takes about one inbox agent registration: what*)
(* a mint makes of it and what an answer of the agent's public endpoint    *)
(* makes of it.  Everything the metadata says (name, description, slug and *)
(* provider URL) is one value, its content; the endpoint that is asked     *)
(* follows from it.                                                        *)
(***************************************************************************)
EXTENDS Naturals

CONSTANTS
    Assets,     \* the asset identifiers under the policy
    Contents,   \* what inbox metadata may say
    None        \* no content, no verification data

ASSUME NoneAssumption == None \notin Contents

(* The statuses a health pass looks at.                                    *)
Checked == {"Pending", "Verified", "Invalid"}

(* keys is the verification data (linked email, keys): the content whose   *)
(* endpoint published it, or None when the five columns are null.          *)
Row == [status : Checked \cup {"absent", "Deregistered"},
        content : Contents \cup {None}, keys : Contents \cup {None}]

NoRow == [status |-> "absent", content |-> None, keys |-> None]

(* What an endpoint answers: nothing usable; that the slug is not public   *)
(* (404, or no identifier in the body); or the assets it belongs to, of    *)
(* which those in ids are under this policy.                               *)
Answer == [outcome : {"unavailable", "pending", "resolved"}, ids : SUBSET Assets]

NoAnswer == [outcome |-> "unavailable", ids |-> {}]

---------------------------------------------------------------------------
NextStatus(status, changed) ==
    IF ~changed /\ status \in Checked THEN status ELSE "Pending"

(* Mutant: a change of content does not clear the verification data.       *)
UpsertedNoReset(r, seen, c) ==
    IF r.status = "absent"
    THEN [status |-> "Pending", content |-> c, keys |-> None]
    ELSE [r EXCEPT !.status = NextStatus(seen.status, seen.content # c), !.content = c]

(* A mint of metadata c, decided on the row that was seen and written over *)
(* the row that is there.                                                  *)
Upserted(r, seen, c) ==
    LET changed == seen.content # c
        status  == NextStatus(seen.status, changed)
    IN IF r.status = "absent"
       THEN [status |-> "Pending", content |-> c, keys |-> None]
       ELSE [status |-> status, content |-> c,
             keys |-> IF changed /\ status = "Pending" THEN None ELSE r.keys]

VerifiesAtOnce(seen, c) ==
    \/ seen.status = "absent"
    \/ /\ NextStatus(seen.status, seen.content # c) = "Pending"
       /\ seen.content # c \/ seen.status = "Deregistered"

(* An answer for asset a, decided on the row that was loaded and written   *)
(* over the row that is there.                                             *)
Verdict(ans, seen, a) ==
    IF ans.outcome = "unavailable" THEN seen.status
    ELSE IF ans.outcome = "pending" THEN "Pending"
    ELSE IF a \in ans.ids THEN "Verified" ELSE "Invalid"

(* Mutant: the keys are filed under the content the row has by now.        *)
VerifiedAsPresent(r, seen, ans, a) ==
    [status  |-> Verdict(ans, seen, a),
     content |-> r.content,
     keys    |-> IF ans.outcome = "unavailable" THEN r.keys
                 ELSE IF Verdict(ans, seen, a) = "Verified"
                      THEN r.content ELSE None]

Verified(r, seen, ans, a) ==
    [status  |-> Verdict(ans, seen, a),
     content |-> r.content,
     keys    |-> IF ans.outcome = "unavailable" THEN r.keys
                 ELSE IF Verdict(ans, seen, a) = "Verified"
                      THEN seen.content ELSE None]

(* Mutant: the burn leaves the verification data.                          *)
DeregisteredKeepsKeys(r) ==
    IF r.status = "absent" THEN r ELSE [r EXCEPT !.status = "Deregistered"]

Deregistered(r) ==
    IF r.status = "absent" THEN r
    ELSE [status |-> "Deregistered", content |-> r.content, keys |-> None]
=============================================================================
