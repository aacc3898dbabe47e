--------------------------- MODULE MCChainReading ---------------------------
(***************************************************************************)
(* Instances of ChainSync and of MintDelta for TLC.  A behaviour is one of *)
(* the one or one of the other: subject says of which, and what belongs to *)
(* the other stays as it is.                                               *)
(***************************************************************************)
EXTENDS MCChainSync, MintDelta

VARIABLE subject

MCVars == <<vars, deltaVars, subject>>

MCInit == Init /\ DeltaInit /\ subject \in {"pass", "transaction"}

MCNext ==
    \/ subject = "pass"        /\ Next      /\ UNCHANGED <<deltaVars, subject>>
    \/ subject = "transaction" /\ DeltaNext /\ UNCHANGED <<vars, subject>>

MCSpec == MCInit /\ [][MCNext]_MCVars
=============================================================================
