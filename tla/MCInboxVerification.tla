------------------------ MODULE MCInboxVerification ------------------------
(* Instances of InboxVerification for TLC.                                 *)
EXTENDS InboxVerification, TLC

SafetySymmetry == Permutations(Assets) \cup Permutations(Contents)
=============================================================================
