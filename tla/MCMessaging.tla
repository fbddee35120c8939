----------------------------- MODULE MCMessaging -----------------------------
(***************************************************************************)
(* Requests of the owner of a deployment and of another wallet, who may or *)
(* may not be a member of it.                                              *)
(***************************************************************************)
EXTENDS Messaging, TLC

MCOwner  == [d \in Deployments |-> "w1"]
Symmetry == Permutations(Calls) \cup Permutations(ContextTypes)
=============================================================================
