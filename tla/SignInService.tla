---------------------------- MODULE SignInService ----------------------------
(***************************************************************************)
(* What signing in promises to the routes behind it: a nonce is good for   *)
(* one proof, in time and until its wallet draws another; a proof opens at *)
(* most one session, of the nonce's wallet; a request is let in at an      *)
(* instant when its session is live, and one request closes a session, for *)
(* good.  Nonces, proofs without a session and requests may be lost.       *)
(* Accounts implements it with its races, failed queries and restarts.     *)
(***************************************************************************)
EXTENDS Integers, Sequences

CONSTANTS Wallets, Tokens, Requests, Nobody, NonceTtl, SessionTtl

VARIABLES
    now, issued,
    fresh,      \* the nonces that can still be used
    proof,      \* by token: the nonce it was proven with, 0 for none
    expires,    \* by token: set when it is proven
    sessions,   \* by token: "absent", "live", "revoked"
    owner,
    admitted,   \* by request: the token it was let in with, a set of at most one
    closer      \* by token: the request that closed it

signing == <<now, issued, fresh, proof, expires>>
using   == <<sessions, owner, admitted, closer>>
service == <<signing, using>>

Init ==
    /\ now = 0 /\ issued = <<>> /\ fresh = {}
    /\ proof = [t \in Tokens |-> 0] /\ expires = [t \in Tokens |-> 0]
    /\ sessions = [t \in Tokens |-> "absent"]
    /\ owner = [t \in Tokens |-> Nobody]
    /\ admitted = [c \in Requests |-> {}] /\ closer = [t \in Tokens |-> {}]

Draw(w) ==
    /\ issued' = Append(issued, [wallet |-> w, at |-> now])
    /\ fresh' = {n \in fresh : issued[n].wallet # w} \cup {Len(issued) + 1}
    /\ UNCHANGED <<now, proof, expires, using>>

Accept(t) ==
    /\ proof[t] = 0 /\ sessions[t] = "absent"
    /\ \E n \in fresh :
          /\ now <= issued[n].at + NonceTtl
          /\ proof' = [proof EXCEPT ![t] = n] /\ fresh' = fresh \ {n}
    /\ expires' = [expires EXCEPT ![t] = now + SessionTtl]
    /\ UNCHANGED <<now, issued, using>>

Open(t) ==
    /\ proof[t] # 0 /\ sessions[t] = "absent"
    /\ sessions' = [sessions EXCEPT ![t] = "live"]
    /\ owner' = [owner EXCEPT ![t] = issued[proof[t]].wallet]
    /\ UNCHANGED <<signing, admitted, closer>>

Admit(c) ==
    /\ admitted[c] = {}
    /\ \E t \in Tokens : /\ sessions[t] = "live" /\ now < expires[t]
                         /\ admitted' = [admitted EXCEPT ![c] = {t}]
    /\ UNCHANGED <<signing, sessions, owner, closer>>

(* A session is closed by a request that was let in with it. *)
Close(c) ==
    /\ \E t \in admitted[c] :
          /\ sessions[t] = "live"
          /\ sessions' = [sessions EXCEPT ![t] = "revoked"]
          /\ closer' = [closer EXCEPT ![t] = {c}]
    /\ UNCHANGED <<signing, owner, admitted>>

Lose ==
    /\ fresh' \subseteq fresh
    /\ \E T \in SUBSET {t \in Tokens : sessions[t] = "absent"} :
          proof' = [t \in Tokens |-> IF t \in T THEN 0 ELSE proof[t]]
    /\ \E R \in SUBSET Requests :
          admitted' = [c \in Requests |-> IF c \in R THEN {} ELSE admitted[c]]
    /\ UNCHANGED <<now, issued, expires, sessions, owner, closer>>

Pass == now' = now + 1 /\ UNCHANGED <<issued, fresh, proof, expires, using>>

Next ==
    \/ \E w \in Wallets : Draw(w)
    \/ \E t \in Tokens : Accept(t) \/ Open(t)
    \/ \E c \in Requests : Admit(c) \/ Close(c)
    \/ Lose \/ Pass

Spec == Init /\ [][Next]_service
=============================================================================
