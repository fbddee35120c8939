------------------------------ MODULE Accounts ------------------------------
(***************************************************************************)
(* Signing in and out: nonces in the memory of the process                 *)
(* (src/src/auth/nonce.js), signatures (siwe.js), sessions in the database *)
(* (session.js), the routes of src/src/api/v1/auth.js and requireAuth.     *)
(*                                                                         *)
(* Every request is a process: an action is the code between two awaits.   *)
(* A query takes effect when its promise settles, and not at all when that *)
(* rejects.  Addresses are their lower-case form throughout.               *)
(***************************************************************************)
EXTENDS Integers, Sequences

CONSTANTS
    Wallets,      \* addresses
    SignIns,      \* POST /verify requests; each one's token is named after it
    Calls,        \* requests that carry a token
    NonceTtl,     \* TTL_MS
    SessionTtl,   \* TTL_SECONDS
    MaxNonces,    \* bound on the nonces issued
    MaxTime,      \* bound on the clock
    MaxDbFaults,  \* bound on the number of queries that fail
    MaxRestarts   \* bound on the crashes that are not a failed logout's

ASSUME AccountsAssumption ==
    /\ NonceTtl \in Nat /\ SessionTtl \in Nat
    /\ MaxNonces \in Nat /\ MaxTime \in Nat
    /\ MaxDbFaults \in Nat /\ MaxRestarts \in Nat

VARIABLES
    now,       \* the clock, of the process and of the database
    issued,    \* the nonces drawn: for whom and when; a nonce is its position
    store,     \* the Map of nonce.js: one entry per wallet, nonce 0 is none
    signin,    \* where each sign-in is
    message,   \* the signed message it submitted
    expires,   \* the expiry create() gave to its session
    sessions,  \* the sessions table, by token: "absent", "live", "revoked"
    owner,     \* the wallet_address of the row
    call,      \* where each authenticated request is
    token,     \* the token it carries
    faults,    \* queries that failed so far
    restarts   \* crashes so far

signinVars == <<signin, message, expires>>
tableVars  == <<sessions, owner>>
callVars   == <<call, token>>
vars == <<now, issued, store, signinVars, tableVars, callVars, faults, restarts>>

Nobody    == "none"
NoEntry   == [nonce |-> 0, expires |-> 0]
NoMessage == [wallet |-> Nobody, nonce |-> 0]

SignInPhases == {"idle", "verifying", "inserting", "granted", "refused", "lost"}
CallPhases   == {"idle", "validating", "revoking", "served", "denied",
                 "logged_out", "not_found", "error", "lost"}

Rejected == faults < MaxDbFaults /\ faults' = faults + 1
Accepted == faults' = faults

Init ==
    /\ now = 0 /\ issued = <<>>
    /\ store = [w \in Wallets |-> NoEntry]
    /\ signin = [s \in SignIns |-> "idle"]
    /\ message = [s \in SignIns |-> NoMessage]
    /\ expires = [s \in SignIns |-> 0]
    /\ sessions = [s \in SignIns |-> "absent"]
    /\ owner = [s \in SignIns |-> Nobody]
    /\ call = [c \in Calls |-> "idle"]
    /\ token = [c \in Calls |-> Nobody]
    /\ faults = 0 /\ restarts = 0

-----------------------------------------------------------------------------
(* Nonces.                                                                 *)

(* GET /nonce: a new nonce takes the place of the wallet's previous one. *)
Generate(w) ==
    /\ Len(issued) < MaxNonces
    /\ issued' = Append(issued, [wallet |-> w, at |-> now])
    /\ store' = [store EXCEPT ![w] = [nonce |-> Len(issued) + 1, expires |-> now + NonceTtl]]
    /\ UNCHANGED <<now, signinVars, tableVars, callVars, faults, restarts>>

(* What consume tests of the entry, and a faulty variant without expiry. *)
ConsumableForEver(entry, nonce) == entry.nonce # 0 /\ entry.nonce = nonce
Consumable(entry, nonce) ==
    /\ entry.nonce # 0
    /\ now <= entry.expires
    /\ entry.nonce = nonce

(* The timer drops the expired entries. *)
Prune ==
    /\ store' = [w \in Wallets |-> IF now > store[w].expires THEN NoEntry ELSE store[w]]
    /\ UNCHANGED <<now, issued, signinVars, tableVars, callVars, faults, restarts>>

-----------------------------------------------------------------------------
(* POST /verify.                                                           *)

(* A message over any nonce seen so far, fresh, stale or somebody else's. *)
SubmitSignature(s) ==
    /\ signin[s] = "idle"
    /\ \E w \in Wallets, n \in DOMAIN issued :
          message' = [message EXCEPT ![s] = [wallet |-> w, nonce |-> n]]
    /\ signin' = [signin EXCEPT ![s] = "verifying"]
    /\ UNCHANGED <<now, issued, store, expires, tableVars, callVars, faults, restarts>>

RejectSignature(s) ==
    /\ signin[s] = "verifying"
    /\ signin' = [signin EXCEPT ![s] = "refused"]
    /\ UNCHANGED <<now, issued, store, message, expires, tableVars, callVars, faults, restarts>>

(* What is left of the sign-in's wallet entry, and a faulty variant that   *)
(* keeps the entry until the session is stored.                            *)
TestedEntry(w) == store[w]
ConsumedEntry(w) == NoEntry

(* The signature is good.  consume() deletes the wallet's entry whatever   *)
(* its nonce and age; when they are right, create() computes the expiry    *)
(* and sends the INSERT.                                                   *)
ConsumeNonce(s) ==
    LET w == message[s].wallet
    IN  /\ signin[s] = "verifying"
        /\ store' = [store EXCEPT ![w] = ConsumedEntry(w)]
        /\ IF Consumable(store[w], message[s].nonce)
           THEN /\ signin' = [signin EXCEPT ![s] = "inserting"]
                /\ expires' = [expires EXCEPT ![s] = now + SessionTtl]
           ELSE signin' = [signin EXCEPT ![s] = "refused"] /\ UNCHANGED expires
        /\ UNCHANGED <<now, issued, message, tableVars, callVars, faults, restarts>>

(* The wallet the row names, and a faulty variant that reads it off the    *)
(* wrong object.                                                           *)
OwnerUndefined(s) == "undefined"
OwnerOf(s) == message[s].wallet

(* The INSERT of create(): a failed one answers 401, the nonce is gone. *)
CreateSession(s) ==
    /\ signin[s] = "inserting"
    /\ \/ /\ Accepted
          /\ sessions' = [sessions EXCEPT ![s] = "live"]
          /\ owner' = [owner EXCEPT ![s] = OwnerOf(s)]
          /\ signin' = [signin EXCEPT ![s] = "granted"]
       \/ /\ Rejected
          /\ signin' = [signin EXCEPT ![s] = "refused"]
          /\ UNCHANGED tableVars
    /\ UNCHANGED <<now, issued, store, message, expires, callVars, restarts>>

-----------------------------------------------------------------------------
(* Requests with a token, logout among them.                               *)

Request(c) ==
    /\ call[c] = "idle"
    /\ \E s \in SignIns : signin[s] = "granted" /\ token' = [token EXCEPT ![c] = s]
    /\ call' = [call EXCEPT ![c] = "validating"]
    /\ UNCHANGED <<now, issued, store, signinVars, tableVars, faults, restarts>>

(* The WHERE of validate, and a faulty variant that forgets revoked_at. *)
ValidOrRevoked(s) == sessions[s] # "absent" /\ expires[s] > now
Valid(s) == sessions[s] = "live" /\ expires[s] > now

(* requireAuth: on to the handler of the route, 401, or 500. *)
Validate(c) ==
    /\ call[c] = "validating"
    /\ \/ /\ Accepted
          /\ \E outcome \in (IF Valid(token[c]) THEN {"served", "revoking"} ELSE {"denied"}) :
                call' = [call EXCEPT ![c] = outcome]
       \/ Rejected /\ call' = [call EXCEPT ![c] = "error"]
    /\ UNCHANGED <<now, issued, store, signinVars, tableVars, token, restarts>>

(* The process dies and is started again: nonces and requests are lost. *)
Lose(phase, states) == [x \in DOMAIN phase |-> IF phase[x] \in states THEN "lost" ELSE phase[x]]

Restarted ==
    /\ store' = [w \in Wallets |-> NoEntry]
    /\ signin' = Lose(signin, {"verifying", "inserting"})
    /\ call' = Lose(call, {"validating", "revoking"})
    /\ UNCHANGED <<now, issued, message, expires, tableVars, token>>

(* Faulty variant of Revoke: the row is updated, revoked or not. *)
RevokeAgain(c) ==
    /\ call[c] = "revoking"
    /\ Accepted
    /\ sessions' = [sessions EXCEPT ![token[c]] = "revoked"]
    /\ call' = [call EXCEPT ![c] = "logged_out"]
    /\ UNCHANGED <<now, issued, store, signinVars, owner, token, restarts>>

(* POST /logout: the UPDATE counts the rows that were not revoked yet.     *)
(* Nobody catches its failure: the process ends.                           *)
Revoke(c) ==
    /\ call[c] = "revoking"
    /\ \/ /\ Accepted
          /\ sessions' = [sessions EXCEPT ![token[c]] = "revoked"]
          /\ call' = [call EXCEPT ![c] = IF sessions[token[c]] = "live" THEN "logged_out"
                                                                        ELSE "not_found"]
          /\ UNCHANGED <<now, issued, store, signinVars, owner, token, restarts>>
       \/ Rejected /\ Restarted /\ UNCHANGED restarts

Crash ==
    /\ restarts < MaxRestarts
    /\ restarts' = restarts + 1
    /\ Restarted
    /\ UNCHANGED faults

Tick ==
    /\ now < MaxTime
    /\ now' = now + 1
    /\ UNCHANGED <<issued, store, signinVars, tableVars, callVars, faults, restarts>>

Next ==
    \/ \E w \in Wallets : Generate(w)
    \/ \E s \in SignIns : \/ SubmitSignature(s) \/ RejectSignature(s)
                          \/ ConsumeNonce(s) \/ CreateSession(s)
    \/ \E c \in Calls : Request(c) \/ Validate(c) \/ Revoke(c)
    \/ Prune \/ Crash \/ Tick

Spec == Init /\ [][Next]_vars

-----------------------------------------------------------------------------
ClockType ==
    /\ now \in Nat /\ issued \in Seq([wallet : Wallets, at : Nat])
    /\ faults \in 0 .. MaxDbFaults /\ restarts \in 0 .. MaxRestarts

StoreType == store \in [Wallets -> [nonce : Nat, expires : Nat]]

SignInType ==
    /\ signin \in [SignIns -> SignInPhases]
    /\ message \in [SignIns -> [wallet : Wallets \cup {Nobody}, nonce : Nat]]
    /\ expires \in [SignIns -> Nat]

TableType ==
    /\ sessions \in [SignIns -> {"absent", "live", "revoked"}]
    /\ owner \in [SignIns -> Wallets \cup {Nobody}]

CallType == call \in [Calls -> CallPhases] /\ token \in [Calls -> SignIns \cup {Nobody}]

TypeOK == ClockType /\ StoreType /\ SignInType /\ TableType /\ CallType

HasSession(s) == sessions[s] # "absent"

(* A signed message buys one session: however many copies of it are        *)
(* verified at the same time, and across restarts (nonce.js:21, "one-time  *)
(* use"; siwe.js:31, "replay protection").                                 *)
OneSessionPerNonce ==
    \A s, t \in SignIns :
        (HasSession(s) /\ HasSession(t) /\ s # t) => message[s].nonce # message[t].nonce

(* A session belongs to the wallet its nonce was drawn for, and the nonce  *)
(* was consumed in time and before that wallet drew a newer one.           *)
SessionIsProven ==
    \A s \in SignIns : HasSession(s) =>
        LET n == message[s].nonce
            consumedAt == expires[s] - SessionTtl
        IN  /\ n \in DOMAIN issued
            /\ issued[n].wallet = owner[s]
            /\ consumedAt \in issued[n].at .. issued[n].at + NonceTtl
            /\ \A m \in DOMAIN issued :
                  (m > n /\ issued[m].wallet = owner[s]) => consumedAt <= issued[m].at

(* Of the logouts of one session that race, one succeeds and the others    *)
(* are told 404.                                                           *)
OneLogoutSucceeds ==
    \A b, c \in Calls :
        (call[b] = "logged_out" /\ call[c] = "logged_out" /\ token[b] = token[c]) => b = c

(* Once a logout took effect, no request that starts later gets past *)
(* requireAuth with its token; one that was validated before it may.       *)
LogoutIsFinal ==
    \A s \in SignIns, c \in Calls :
        []((sessions[s] = "revoked" /\ call[c] = "idle")
              => [](token[c] = s => call[c] \notin {"served", "revoking", "logged_out"}))

-----------------------------------------------------------------------------
(* The abstract view: the nonces that can be used, the one each token was  *)
(* proven with, who was let in and who logged out.                         *)
Fresh    == {store[w].nonce : w \in Wallets} \ {0}
Proofs   == [s \in SignIns |->
               IF signin[s] \in {"inserting", "granted"} THEN message[s].nonce ELSE 0]
LetIn    == {"served", "revoking", "logged_out", "not_found"}
Admitted == [c \in Calls |-> IF call[c] \in LetIn THEN {token[c]} ELSE {}]
Closers  == [s \in SignIns |-> {c \in Calls : call[c] = "logged_out" /\ token[c] = s}]

SignIn == INSTANCE SignInService WITH
    Tokens <- SignIns, Requests <- Calls,
    fresh <- Fresh, proof <- Proofs, admitted <- Admitted, closer <- Closers

(* However sign-ins, requests and logouts race, fail and are lost, signing *)
(* in keeps the promise of SignInService: a nonce proves one token, its    *)
(* session admits while it is live, and one logout closes it for good.     *)
ImplementsSignIn == SignIn!Spec

-----------------------------------------------------------------------------
(* The inductive invariant: why the first three properties hold.           *)

(* The nonce of an entry is the last one drawn for its wallet. *)
EntryInv ==
    /\ \A n \in DOMAIN issued : issued[n].at <= now
    /\ \A w \in Wallets : store[w].nonce # 0 =>
          /\ store[w].nonce \in DOMAIN issued
          /\ issued[store[w].nonce].wallet = w
          /\ store[w].expires = issued[store[w].nonce].at + NonceTtl
          /\ \A m \in DOMAIN issued : m > store[w].nonce => issued[m].wallet # w

(* A sign-in whose nonce was accepted. *)
Consumed(s) == signin[s] \in {"inserting", "granted"}

(* Its nonce has left the store, and was fresh when it did. *)
Proven(s) ==
    LET w == message[s].wallet
        n == message[s].nonce
        consumedAt == expires[s] - SessionTtl
    IN  /\ n \in DOMAIN issued /\ issued[n].wallet = w /\ store[w].nonce # n
        /\ consumedAt \in issued[n].at .. issued[n].at + NonceTtl
        /\ consumedAt <= now
        /\ \A m \in DOMAIN issued :
              (m > n /\ issued[m].wallet = w) => consumedAt <= issued[m].at

(* No two sign-ins got in with one nonce, and the sessions are those of    *)
(* the granted ones.                                                       *)
ProofInv ==
    /\ \A s \in SignIns :
          /\ signin[s] # "idle" => message[s].wallet \in Wallets
          /\ HasSession(s) <=> signin[s] = "granted"
          /\ HasSession(s) => owner[s] = message[s].wallet
          /\ Consumed(s) => Proven(s)
    /\ \A s, t \in SignIns :
          (Consumed(s) /\ Consumed(t) /\ s # t) => message[s].nonce # message[t].nonce

(* A request carries a token that was granted; a logout revoked it alone. *)
CallInv ==
    /\ \A c \in Calls :
          /\ call[c] # "idle" => token[c] \in SignIns /\ HasSession(token[c])
          /\ call[c] = "logged_out" => sessions[token[c]] = "revoked"
    /\ OneLogoutSucceeds

IInv == TypeOK /\ EntryInv /\ ProofInv /\ CallInv
=============================================================================
