----------------------------- MODULE PaidService -----------------------------
(***************************************************************************)
(* What an agent behind the payment gate promises: a call is delivered or  *)
(* refused, once; a delivery is on credit (the caller had nothing to pay   *)
(* with) or backed by the call's own payment, which, where the agent       *)
(* settles payments, has moved money and backs no other delivery.          *)
(* X402Payment implements it with its client, its verifier and the chain.  *)
(***************************************************************************)
CONSTANTS
    Calls,
    Payments,
    Settling    \* the calls whose agent settles payments before it delivers

VARIABLES
    verdict,    \* by call: "open", "delivered", "refused"
    claim,      \* by call: the payment it offers, a set of at most one
    settled     \* the payments that moved money

service == <<verdict, claim, settled>>

Init ==
    /\ verdict = [c \in Calls |-> "open"]
    /\ claim = [c \in Calls |-> {}]
    /\ settled = {}

Offer(c) ==
    /\ verdict[c] = "open" /\ claim[c] = {}
    /\ \E p \in Payments : claim' = [claim EXCEPT ![c] = {p}]
    /\ UNCHANGED <<verdict, settled>>

(* Only what somebody offered can move money, before or after its call is  *)
(* answered.                                                               *)
Settle ==
    /\ settled \subseteq settled'
    /\ settled' \ settled \subseteq UNION {claim[c] : c \in Calls}
    /\ UNCHANGED <<verdict, claim>>

Backed(c) ==
    /\ claim[c] \subseteq settled
    /\ \A d \in Settling \ {c} : verdict[d] = "delivered" => claim[c] \cap claim[d] = {}

Deliver(c) ==
    /\ verdict[c] = "open"
    /\ c \in Settling => Backed(c)
    /\ verdict' = [verdict EXCEPT ![c] = "delivered"]
    /\ UNCHANGED <<claim, settled>>

Refuse(c) ==
    /\ verdict[c] = "open"
    /\ verdict' = [verdict EXCEPT ![c] = "refused"]
    /\ UNCHANGED <<claim, settled>>

Next == Settle \/ \E c \in Calls : Offer(c) \/ Deliver(c) \/ Refuse(c)

Spec == Init /\ [][Next]_service
=============================================================================
