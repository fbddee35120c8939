--------------------------- MODULE SessionContract ---------------------------
(***************************************************************************)
(* What one invocation promises to the owner of the money: a verdict that  *)
(* is final and a wallet, opened once, that pays within its limit, never   *)
(* before the invocation runs, after it completed or once it is closed.    *)
(* A failed one may still pay until its wallet is closed.                  *)
(* CortexSession implements it with its parallel steps, its retries and    *)
(* its abandoned agent calls.                                              *)
(***************************************************************************)
EXTENDS Integers

CONSTANTS SpendingLimit, Prices

VARIABLES verdict, wallet, spent

contract == <<verdict, wallet, spent>>

Init == verdict = "none" /\ wallet = "none" /\ spent = 0

Submit ==
    /\ verdict = "none"
    /\ verdict' = "pending"
    /\ UNCHANGED <<wallet, spent>>

Fund ==
    /\ verdict = "pending" /\ wallet = "none"
    /\ wallet' = "live"
    /\ UNCHANGED <<verdict, spent>>

Begin ==
    /\ verdict = "pending" /\ wallet = "live"
    /\ verdict' = "running"
    /\ UNCHANGED <<wallet, spent>>

Pay ==
    /\ verdict \in {"running", "failed"} /\ wallet = "live"
    /\ \E amount \in Prices :
          /\ spent + amount <= SpendingLimit
          /\ spent' = spent + amount
    /\ UNCHANGED <<verdict, wallet>>

Succeed ==
    /\ verdict = "running" /\ wallet = "live"
    /\ verdict' = "completed"
    /\ UNCHANGED <<wallet, spent>>

Fail ==
    /\ verdict = "running" /\ wallet = "live"
    /\ verdict' = "failed"
    /\ UNCHANGED <<wallet, spent>>

(* After the verdict, or when it could not be written. *)
Close ==
    /\ verdict \in {"running", "completed", "failed"} /\ wallet = "live"
    /\ wallet' = "destroyed"
    /\ UNCHANGED <<verdict, spent>>

Next == Submit \/ Fund \/ Begin \/ Pay \/ Succeed \/ Fail \/ Close

Spec == Init /\ [][Next]_contract
=============================================================================
