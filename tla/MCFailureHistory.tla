-------------------------- MODULE MCFailureHistory --------------------------
(* FailureHistory with the small sets of MCControlPlane. *)
EXTENDS MCControlPlane, FailureHistory
=============================================================================
