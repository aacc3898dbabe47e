---------------------------- MODULE MCInboxQuiet ----------------------------
(***************************************************************************)
(* Instances of InboxVerification and of InboxSlug for TLC.  A behaviour is*)
(* one of the one or one of the other: subject says of which, and what     *)
(* belongs to the other stays as it is.                                    *)
(***************************************************************************)
EXTENDS MCInboxVerification, InboxSlug

VARIABLE subject

MCVars == <<vars, slugVars, subject>>

(* A name with a dot in it, as those in the list.                          *)
SomeReserved == {<<"a", "other", "b">>}

MCInit ==
    /\ Init
    /\ \/ subject = "registration" /\ stored = <<"a">> /\ asked = <<>>
       \/ subject = "slug" /\ SlugInit

MCNext ==
    \/ subject = "registration" /\ Next     /\ UNCHANGED <<slugVars, subject>>
    \/ subject = "slug"         /\ SlugNext /\ UNCHANGED <<vars, subject>>

MCSpec == MCInit /\ [][MCNext]_MCVars
=============================================================================
