--------------------------- MODULE Accounts_proofs ---------------------------
(***************************************************************************)
(* Proofs about Accounts, for any number of wallets, requests, nonces and  *)
(* restarts and any lifetimes: IInv is inductive, and the properties       *)
(* follow from it.                                                         *)
(***************************************************************************)
EXTENDS Accounts, TLAPS

(* The initial state satisfies the inductive invariant. *)
LEMMA InitInv == Init => IInv
<1> SUFFICES ASSUME Init PROVE IInv
    OBVIOUS
<1> USE AccountsAssumption DEF Init, NoEntry, NoMessage
<1>1. TypeOK
    BY DEF TypeOK, ClockType, StoreType, SignInType, TableType, CallType, SignInPhases, CallPhases
<1>2. EntryInv
    BY DEF EntryInv
<1>3. ProofInv
    BY DEF ProofInv, HasSession, Consumed
<1>4. CallInv
    BY DEF CallInv, OneLogoutSucceeds, HasSession
<1> QED
    BY <1>1, <1>2, <1>3, <1>4 DEF IInv

(* What a crash leaves is typed: phases of requests stay phases. *)
LEMMA RestartedType ==
    TypeOK /\ Restarted =>
        StoreType' /\ SignInType' /\ TableType' /\ CallType' /\ UNCHANGED <<now, issued>>
<1> SUFFICES ASSUME TypeOK, Restarted
             PROVE  StoreType' /\ SignInType' /\ TableType' /\ CallType'
                    /\ UNCHANGED <<now, issued>>
    OBVIOUS
<1>1. StoreType'
    BY DEF Restarted, StoreType, NoEntry
<1>2. SignInType'
    BY DEF TypeOK, Restarted, SignInType, Lose, SignInPhases
<1>3. CallType'
    BY DEF TypeOK, Restarted, CallType, Lose, CallPhases
<1>4. TableType' /\ UNCHANGED <<now, issued>>
    BY DEF TypeOK, Restarted, TableType, tableVars
<1> QED
    BY <1>1, <1>2, <1>3, <1>4

(* Every step preserves the types. *)
LEMMA TypeStep == TypeOK /\ [Next]_vars => TypeOK'
<1> SUFFICES ASSUME TypeOK, [Next]_vars PROVE TypeOK'
    OBVIOUS
<1> USE AccountsAssumption DEF TypeOK
<1> DEFINE SameClock   == UNCHANGED <<now, issued, faults, restarts>>
           SameSignIns == UNCHANGED signinVars
           SameTable   == UNCHANGED tableVars
           SameCalls   == UNCHANGED callVars
<1>a. /\ SameClock => ClockType'
      /\ UNCHANGED store => StoreType'
      /\ SameSignIns => SignInType'
      /\ SameTable => TableType'
      /\ SameCalls => CallType'
    BY DEF ClockType, StoreType, SignInType, TableType, CallType, signinVars, tableVars, callVars
<1>b. Accepted \/ Rejected => faults' \in 0 .. MaxDbFaults
    BY DEF Accepted, Rejected, ClockType
<1>c. (faults' \in 0 .. MaxDbFaults /\ UNCHANGED <<now, issued, restarts>>) => ClockType'
    BY DEF ClockType
<1>1. ASSUME NEW w \in Wallets, Generate(w) PROVE TypeOK'
  <2>1. issued' \in Seq([wallet : Wallets, at : Nat]) /\ ClockType'
      BY <1>1 DEF Generate, ClockType
  <2>2. StoreType'
      BY <1>1 DEF Generate, StoreType, ClockType
  <2> QED
      BY <1>1, <1>a, <2>1, <2>2 DEF Generate
<1>2. ASSUME NEW s \in SignIns, SubmitSignature(s) PROVE TypeOK'
  <2>1. PICK w \in Wallets, n \in DOMAIN issued :
            message' = [message EXCEPT ![s] = [wallet |-> w, nonce |-> n]]
      BY <1>2 DEF SubmitSignature
  <2>2. n \in Nat
      BY DEF ClockType
  <2>3. message' \in [SignIns -> [wallet : Wallets \cup {Nobody}, nonce : Nat]]
      BY <2>1, <2>2 DEF SignInType
  <2>4. signin' \in [SignIns -> SignInPhases] /\ expires' \in [SignIns -> Nat]
      BY <1>2 DEF SubmitSignature, SignInType, SignInPhases
  <2> QED
      BY <1>2, <1>a, <2>3, <2>4 DEF SubmitSignature, SignInType
<1>3. ASSUME NEW s \in SignIns, RejectSignature(s) PROVE TypeOK'
  <2>1. SignInType'
      BY <1>3 DEF RejectSignature, SignInType, SignInPhases
  <2> QED
      BY <1>3, <1>a, <2>1 DEF RejectSignature
<1>4. ASSUME NEW s \in SignIns, ConsumeNonce(s) PROVE TypeOK'
  <2>1. StoreType'
      BY <1>4 DEF ConsumeNonce, ConsumedEntry, NoEntry, StoreType
  <2>2. expires' \in [SignIns -> Nat]
      BY <1>4 DEF ConsumeNonce, SignInType, ClockType
  <2>3. signin' \in [SignIns -> SignInPhases] /\ message' = message
      BY <1>4 DEF ConsumeNonce, SignInType, SignInPhases
  <2>4. SameClock /\ SameTable /\ SameCalls
      BY <1>4 DEF ConsumeNonce
  <2> QED
      BY <1>a, <2>1, <2>2, <2>3, <2>4 DEF SignInType
<1>5. ASSUME NEW s \in SignIns, CreateSession(s) PROVE TypeOK'
  <2>1. ClockType' /\ UNCHANGED store /\ SameCalls
      BY <1>5, <1>b, <1>c DEF CreateSession
  <2>2. SignInType'
    <3>1. signin' \in [SignIns -> SignInPhases]
        BY <1>5 DEF CreateSession, SignInType, SignInPhases
    <3> QED
        BY <1>5, <3>1 DEF CreateSession, SignInType
  <2>3. TableType'
    <3>1. message[s].wallet \in Wallets \cup {Nobody}
        BY DEF SignInType
    <3>2. CASE /\ sessions' = [sessions EXCEPT ![s] = "live"]
               /\ owner' = [owner EXCEPT ![s] = OwnerOf(s)]
        BY <3>1, <3>2 DEF TableType, OwnerOf
    <3> QED
        BY <1>5, <1>a, <3>2 DEF CreateSession
  <2> QED
      BY <1>a, <2>1, <2>2, <2>3
<1>6. ASSUME NEW c \in Calls, Request(c) PROVE TypeOK'
  <2>1. CallType'
      BY <1>6 DEF Request, CallType, CallPhases
  <2> QED
      BY <1>6, <1>a, <2>1 DEF Request
<1>7. ASSUME NEW c \in Calls, Validate(c) PROVE TypeOK'
  <2>1. CallType'
      BY <1>7 DEF Validate, CallType, CallPhases
  <2>2. ClockType'
      BY <1>7, <1>b, <1>c DEF Validate
  <2> QED
      BY <1>7, <1>a, <2>1, <2>2 DEF Validate
<1>8. ASSUME NEW c \in Calls, Revoke(c) PROVE TypeOK'
  <2>1. ClockType'
      BY <1>8, <1>b, <1>c DEF Revoke, Restarted
  <2>2. CASE Rejected /\ Restarted /\ UNCHANGED restarts
      BY <2>1, <2>2, RestartedType
  <2>3. CASE /\ sessions' = [sessions EXCEPT ![token[c]] = "revoked"]
             /\ call' = [call EXCEPT ![c] = IF sessions[token[c]] = "live" THEN "logged_out"
                                                                           ELSE "not_found"]
             /\ UNCHANGED <<now, issued, store, signinVars, owner, token, restarts>>
    <3>1. TableType'
        BY <2>3 DEF TableType
    <3>2. CallType'
        BY <2>3 DEF CallType, CallPhases
    <3> QED
        BY <1>a, <2>1, <2>3, <3>1, <3>2
  <2> QED
      BY <1>8, <2>2, <2>3 DEF Revoke
<1>9. CASE Prune
  <2>1. StoreType'
      BY <1>9 DEF Prune, StoreType, NoEntry
  <2> QED
      BY <1>9, <1>a, <2>1 DEF Prune
<1>10. CASE Crash
  <2>1. ClockType'
      BY <1>10 DEF Crash, ClockType, Restarted
  <2> QED
      BY <1>10, <2>1, RestartedType DEF Crash
<1>11. CASE Tick
  <2>1. ClockType'
      BY <1>11 DEF Tick, ClockType
  <2> QED
      BY <1>11, <1>a, <2>1 DEF Tick
<1>12. CASE UNCHANGED vars
    BY <1>12, <1>a DEF vars
<1> QED
    BY <1>1, <1>2, <1>3, <1>4, <1>5, <1>6, <1>7, <1>8, <1>9, <1>10, <1>11, <1>12 DEF Next

(* The nonces drawn, as numbers. *)
LEMMA IssuedFacts ==
    TypeOK => /\ Len(issued) \in Nat /\ DOMAIN issued = 1 .. Len(issued)
              /\ \A n \in DOMAIN issued : issued[n].at \in Nat
<1> SUFFICES ASSUME TypeOK
             PROVE  /\ Len(issued) \in Nat /\ DOMAIN issued = 1 .. Len(issued)
                    /\ \A n \in DOMAIN issued : issued[n].at \in Nat
    OBVIOUS
<1> DEFINE Drawn == [wallet : Wallets, at : Nat]
<1>1. issued \in Seq(Drawn)
    BY DEF TypeOK, ClockType
<1>2. \A e \in Drawn : e.at \in Nat
    OBVIOUS
<1> HIDE DEF Drawn
<1>3. Len(issued) \in Nat /\ DOMAIN issued = 1 .. Len(issued)
    BY <1>1
<1>4. \A n \in 1 .. Len(issued) : issued[n] \in Drawn
    BY <1>1
<1> QED
    BY <1>2, <1>3, <1>4

(* Drawing a nonce appends it and leaves the others alone. *)
LEMMA Generated ==
    ASSUME TypeOK, NEW w \in Wallets, Generate(w)
    PROVE  /\ DOMAIN issued' = 1 .. Len(issued) + 1
           /\ issued'[Len(issued) + 1] = [wallet |-> w, at |-> now]
           /\ \A m \in 1 .. Len(issued) : issued'[m] = issued[m]
           /\ store' = [store EXCEPT ![w] = [nonce |-> Len(issued) + 1, expires |-> now + NonceTtl]]
           /\ UNCHANGED <<now, signinVars, tableVars, callVars>>
<1>1. issued \in Seq([wallet : Wallets, at : Nat])
    BY DEF TypeOK, ClockType
<1>2. issued' = Append(issued, [wallet |-> w, at |-> now])
    BY DEF Generate
<1>3. Len(issued') = Len(issued) + 1 /\ DOMAIN issued' = 1 .. Len(issued')
    BY <1>1, <1>2
<1>4. issued'[Len(issued) + 1] = [wallet |-> w, at |-> now]
    BY <1>1, <1>2
<1>5. \A m \in 1 .. Len(issued) : issued'[m] = issued[m]
    BY <1>1, <1>2
<1> QED
    BY <1>3, <1>4, <1>5 DEF Generate

(* Every step preserves EntryInv: a new entry is the newest nonce, and the *)
(* other steps only remove entries.                                        *)
LEMMA EntryStep == TypeOK /\ EntryInv /\ [Next]_vars => EntryInv'
<1> SUFFICES ASSUME TypeOK, EntryInv, [Next]_vars PROVE EntryInv'
    OBVIOUS
<1>a. /\ Len(issued) \in Nat /\ DOMAIN issued = 1 .. Len(issued)
      /\ \A n \in DOMAIN issued : issued[n].at \in Nat
    BY IssuedFacts
<1>b. now \in Nat /\ store \in [Wallets -> [nonce : Nat, expires : Nat]]
    BY DEF TypeOK, ClockType, StoreType
<1>1. ASSUME NEW w \in Wallets, Generate(w) PROVE EntryInv'
  <2>a. /\ DOMAIN issued' = 1 .. Len(issued) + 1
        /\ issued'[Len(issued) + 1] = [wallet |-> w, at |-> now]
        /\ \A m \in 1 .. Len(issued) : issued'[m] = issued[m]
        /\ store' = [store EXCEPT ![w] = [nonce |-> Len(issued) + 1, expires |-> now + NonceTtl]]
        /\ now' = now
      BY <1>1, Generated
  <2>1. ASSUME NEW m \in DOMAIN issued' PROVE issued'[m].at <= now'
      BY <2>a, <1>a, <1>b DEF EntryInv
  <2>2. ASSUME NEW v \in Wallets, store'[v].nonce # 0
        PROVE /\ store'[v].nonce \in DOMAIN issued'
              /\ issued'[store'[v].nonce].wallet = v
              /\ store'[v].expires = issued'[store'[v].nonce].at + NonceTtl
              /\ \A m \in DOMAIN issued' : m > store'[v].nonce => issued'[m].wallet # v
    <3>1. CASE v = w
        BY <3>1, <2>a, <1>a, <1>b
    <3>2. CASE v # w
      <4>1. store'[v] = store[v]
          BY <3>2, <2>a, <1>b
      <4>2. store[v].nonce \in 1 .. Len(issued) /\ issued'[store[v].nonce] = issued[store[v].nonce]
          BY <4>1, <2>2, <2>a, <1>a DEF EntryInv
      <4>3. ASSUME NEW m \in DOMAIN issued', m > store[v].nonce PROVE issued'[m].wallet # v
          BY <4>1, <4>2, <4>3, <3>2, <2>2, <2>a, <1>a DEF EntryInv
      <4> QED
          BY <4>1, <4>2, <4>3, <2>2, <2>a, <1>a DEF EntryInv
    <3> QED
        BY <3>1, <3>2
  <2> QED
      BY <2>1, <2>2 DEF EntryInv
<1>2. CASE /\ \A v \in Wallets : store'[v] = store[v] \/ store'[v].nonce = 0
           /\ UNCHANGED <<now, issued>>
    BY <1>2 DEF EntryInv
<1>3. ASSUME NEW s \in SignIns, ConsumeNonce(s) PROVE EntryInv'
    BY <1>3, <1>b, <1>2 DEF ConsumeNonce, ConsumedEntry, NoEntry
<1>4. CASE Prune
    BY <1>4, <1>2 DEF Prune, NoEntry
<1>5. CASE Restarted
    BY <1>5, <1>2 DEF Restarted, NoEntry
<1>6. CASE Tick
    BY <1>6, <1>a, <1>b DEF Tick, EntryInv
<1>7. CASE UNCHANGED <<now, issued, store>>
    BY <1>7, <1>2
<1> QED
    BY <1>1, <1>3, <1>4, <1>5, <1>6, <1>7
    DEF Next, vars, SubmitSignature, RejectSignature, CreateSession, Request, Validate,
        Revoke, Crash

(* What an accepted nonce proves outlives every step that does not touch   *)
(* the sign-in: entries only go, nonces and time only grow.                *)
LEMMA ProvenKept ==
    ASSUME TypeOK, NEW s \in SignIns, Proven(s),
           message'[s] = message[s], expires'[s] = expires[s],
           message[s].wallet \in Wallets,
           \/ /\ \A v \in Wallets : store'[v] = store[v] \/ store'[v].nonce = 0
              /\ issued' = issued /\ (now' = now \/ now' = now + 1)
           \/ \E w \in Wallets : Generate(w)
    PROVE  Proven(s)'
<1> DEFINE w == message[s].wallet
           n == message[s].nonce
           at == expires[s] - SessionTtl
<1>a. /\ Len(issued) \in Nat /\ DOMAIN issued = 1 .. Len(issued)
      /\ \A m \in DOMAIN issued : issued[m].at \in Nat
    BY IssuedFacts
<1>b. now \in Nat /\ at \in Int
    BY AccountsAssumption DEF TypeOK, ClockType, SignInType
<1>c. /\ n \in DOMAIN issued /\ issued[n].wallet = w /\ store[w].nonce # n
      /\ at \in issued[n].at .. issued[n].at + NonceTtl /\ at <= now
      /\ \A m \in DOMAIN issued : (m > n /\ issued[m].wallet = w) => at <= issued[m].at
    BY DEF Proven
<1>d. message'[s].wallet = w /\ message'[s].nonce = n /\ (expires'[s] - SessionTtl) = at
    OBVIOUS
<1>1. CASE /\ \A v \in Wallets : store'[v] = store[v] \/ store'[v].nonce = 0
           /\ issued' = issued /\ (now' = now \/ now' = now + 1)
  <2>1. store'[w].nonce # n
      BY <1>1, <1>a, <1>c
  <2>2. at <= now'
      BY <1>1, <1>b, <1>c
  <2> QED
      BY <1>1, <1>c, <1>d, <2>1, <2>2 DEF Proven
<1>2. ASSUME NEW v \in Wallets, Generate(v) PROVE Proven(s)'
  <2>a. /\ DOMAIN issued' = 1 .. Len(issued) + 1
        /\ issued'[Len(issued) + 1] = [wallet |-> v, at |-> now]
        /\ \A m \in 1 .. Len(issued) : issued'[m] = issued[m]
        /\ store' = [store EXCEPT ![v] = [nonce |-> Len(issued) + 1, expires |-> now + NonceTtl]]
        /\ now' = now
      BY <1>2, Generated
  <2>1. n \in DOMAIN issued' /\ issued'[n] = issued[n]
      BY <2>a, <1>a, <1>c
  <2>2. store'[w].nonce # n
    <3>1. store \in [Wallets -> [nonce : Nat, expires : Nat]]
        BY DEF TypeOK, StoreType
    <3> QED
        BY <3>1, <2>a, <1>a, <1>c
  <2>3. ASSUME NEW m \in DOMAIN issued', m > n, issued'[m].wallet = w PROVE at <= issued'[m].at
    <3>1. CASE m = Len(issued) + 1
        BY <3>1, <2>a, <1>c
    <3>2. CASE m \in DOMAIN issued
        BY <3>2, <2>3, <2>a, <1>a, <1>c
    <3> QED
        BY <3>1, <3>2, <2>a, <1>a
  <2>4. now' = now
      BY <2>a
  <2> QED
      BY <1>c, <1>d, <2>1, <2>2, <2>3, <2>4 DEF Proven
<1> QED
    BY <1>1, <1>2

(* Every step preserves ProofInv: ConsumeNonce takes the nonce out of the  *)
(* store in the step that accepts it, so that no other sign-in finds it.   *)
LEMMA ProofStep == IInv /\ [Next]_vars => ProofInv'
<1> SUFFICES ASSUME IInv, [Next]_vars PROVE ProofInv'
    OBVIOUS
<1>a. TypeOK /\ EntryInv /\ ProofInv /\ CallInv
    BY DEF IInv
<1>b. now \in Nat /\ store \in [Wallets -> [nonce : Nat, expires : Nat]]
    BY <1>a DEF TypeOK, ClockType, StoreType
<1>c. /\ signin \in [SignIns -> SignInPhases] /\ expires \in [SignIns -> Nat]
      /\ message \in [SignIns -> [wallet : Wallets \cup {Nobody}, nonce : Nat]]
      /\ sessions \in [SignIns -> {"absent", "live", "revoked"}]
      /\ owner \in [SignIns -> Wallets \cup {Nobody}]
    BY <1>a DEF TypeOK, SignInType, TableType
<1>d. ASSUME NEW s \in SignIns
      PROVE  /\ signin[s] # "idle" => message[s].wallet \in Wallets
             /\ HasSession(s) <=> signin[s] = "granted"
             /\ HasSession(s) => owner[s] = message[s].wallet
             /\ Consumed(s) => Proven(s)
    BY <1>a DEF ProofInv
<1>e. \A s, t \in SignIns :
          (Consumed(s) /\ Consumed(t) /\ s # t) => message[s].nonce # message[t].nonce
    BY <1>a DEF ProofInv

\* Steps that accept no nonce: Proven is kept, and nobody joins Consumed.
<1>1. ASSUME \A s \in SignIns :
                  /\ Consumed(s)' => /\ Consumed(s) /\ message'[s] = message[s]
                                     /\ expires'[s] = expires[s]
                  /\ signin'[s] # "idle" => message'[s].wallet \in Wallets
                  /\ HasSession(s)' <=> signin'[s] = "granted"
                  /\ HasSession(s)' => owner'[s] = message'[s].wallet,
             \/ /\ \A v \in Wallets : store'[v] = store[v] \/ store'[v].nonce = 0
                /\ issued' = issued /\ (now' = now \/ now' = now + 1)
             \/ \E w \in Wallets : Generate(w)
      PROVE  ProofInv'
  <2>1. ASSUME NEW s \in SignIns, Consumed(s)' PROVE Proven(s)'
    <3>1. Consumed(s) /\ message'[s] = message[s] /\ expires'[s] = expires[s]
        BY <1>1, <2>1
    <3>2. Proven(s) /\ message[s].wallet \in Wallets
        BY <3>1, <1>d DEF Consumed
    <3> QED
        BY <3>1, <3>2, <1>1, <1>a, ProvenKept
  <2>2. ASSUME NEW s \in SignIns, NEW t \in SignIns, Consumed(s)', Consumed(t)', s # t
        PROVE  message'[s].nonce # message'[t].nonce
      BY <1>1, <2>2, <1>e
  <2> QED
      BY <1>1, <2>1, <2>2 DEF ProofInv

<1>2. ASSUME NEW w \in Wallets, Generate(w) PROVE ProofInv'
    BY <1>2, <1>1, <1>d DEF Generate, signinVars, tableVars, Consumed, HasSession
<1>3. ASSUME NEW s \in SignIns, SubmitSignature(s) PROVE ProofInv'
  <2>1. PICK w \in Wallets, n \in DOMAIN issued :
            message' = [message EXCEPT ![s] = [wallet |-> w, nonce |-> n]]
      BY <1>3 DEF SubmitSignature
  <2> QED
      BY <1>3, <2>1, <1>1, <1>c, <1>d DEF SubmitSignature, tableVars, Consumed, HasSession
<1>4. ASSUME NEW s \in SignIns, RejectSignature(s) PROVE ProofInv'
    BY <1>4, <1>1, <1>c, <1>d DEF RejectSignature, tableVars, Consumed, HasSession
<1>5. ASSUME NEW s \in SignIns, ConsumeNonce(s) PROVE ProofInv'
  <2> DEFINE w == message[s].wallet
             n == message[s].nonce
  <2>1. w \in Wallets /\ signin[s] = "verifying" /\ ~ Consumed(s) /\ ~ HasSession(s)
      BY <1>5, <1>d DEF ConsumeNonce, Consumed
  <2>2. /\ store'[w].nonce = 0
        /\ \A v \in Wallets : store'[v] = store[v] \/ store'[v].nonce = 0
        /\ UNCHANGED <<now, issued, message, sessions, owner>>
      BY <1>5, <1>b, <2>1 DEF ConsumeNonce, ConsumedEntry, NoEntry, tableVars
  <2>3. CASE ~ Consumable(store[w], n)
    <3>1. signin' = [signin EXCEPT ![s] = "refused"] /\ expires' = expires
        BY <1>5, <2>3 DEF ConsumeNonce
    <3> QED
        BY <3>1, <2>1, <2>2, <1>1, <1>c, <1>d DEF Consumed, HasSession
  <2>4. CASE Consumable(store[w], n)
    <3>1. /\ signin' = [signin EXCEPT ![s] = "inserting"]
          /\ expires' = [expires EXCEPT ![s] = now + SessionTtl]
        BY <1>5, <2>4 DEF ConsumeNonce
    <3>2. /\ n # 0 /\ n \in DOMAIN issued /\ issued[n].wallet = w
          /\ now \in issued[n].at .. issued[n].at + NonceTtl
          /\ \A m \in DOMAIN issued : m > n => issued[m].wallet # w
      <4>1. n = store[w].nonce /\ n # 0 /\ now <= store[w].expires
          BY <2>4 DEF Consumable
      <4>2. /\ n \in DOMAIN issued /\ issued[n].wallet = w
            /\ store[w].expires = issued[n].at + NonceTtl
            /\ \A m \in DOMAIN issued : m > n => issued[m].wallet # w
            /\ issued[n].at <= now
          BY <4>1, <2>1, <1>a DEF EntryInv
      <4>3. issued[n].at \in Nat
          BY <4>2, <1>a, IssuedFacts
      <4> QED
          BY <4>1, <4>2, <4>3, <1>b, AccountsAssumption
    <3>3. ASSUME NEW t \in SignIns, t # s, Consumed(t)
          PROVE  Proven(t)' /\ message'[t].nonce # n
      <4>1. Proven(t) /\ message[t].wallet \in Wallets
          BY <3>3, <1>d DEF Consumed
      <4>2. Proven(t)'
          BY <4>1, <3>1, <3>3, <2>2, <1>a, <1>c, ProvenKept
      <4>3. message[t].nonce # n
          BY <4>1, <3>2, <2>4 DEF Proven, Consumable
      <4> QED
          BY <4>2, <4>3, <2>2
    <3>4. Proven(s)'
      <4>1. expires'[s] - SessionTtl = now
          BY <3>1, <1>b, <1>c, AccountsAssumption
      <4> QED
          BY <4>1, <3>2, <2>2, <1>b DEF Proven
    <3>5. \A t \in SignIns : signin'[t] = IF t = s THEN "inserting" ELSE signin[t]
        BY <3>1, <1>c
    <3>6. ASSUME NEW t \in SignIns
          PROVE  /\ signin'[t] # "idle" => message'[t].wallet \in Wallets
                 /\ HasSession(t)' <=> signin'[t] = "granted"
                 /\ HasSession(t)' => owner'[t] = message'[t].wallet
                 /\ Consumed(t)' => Proven(t)'
      <4>1. CASE t = s
          BY <4>1, <3>4, <3>5, <2>1, <2>2 DEF HasSession
      <4>2. CASE t # s
          BY <4>2, <3>3, <3>5, <2>2, <1>d DEF HasSession, Consumed
      <4> QED
          BY <4>1, <4>2
    <3>7. ASSUME NEW t \in SignIns, NEW u \in SignIns, Consumed(t)', Consumed(u)', t # u
          PROVE  message'[t].nonce # message'[u].nonce
      <4>1. (t = s \/ Consumed(t)) /\ (u = s \/ Consumed(u))
          BY <3>5, <3>7 DEF Consumed
      <4>2. CASE t = s
          BY <4>1, <4>2, <3>3, <3>7, <2>2
      <4>3. CASE u = s
          BY <4>1, <4>3, <3>3, <3>7, <2>2
      <4>4. CASE t # s /\ u # s
          BY <4>1, <4>4, <3>7, <2>2, <1>e
      <4> QED
          BY <4>2, <4>3, <4>4
    <3> QED
        BY <3>6, <3>7 DEF ProofInv
  <2> QED
      BY <2>3, <2>4
<1>6. ASSUME NEW s \in SignIns, CreateSession(s) PROVE ProofInv'
  <2>1. /\ signin[s] = "inserting" /\ UNCHANGED <<now, issued, store, message, expires>>
        /\ \/ /\ sessions' = [sessions EXCEPT ![s] = "live"]
              /\ owner' = [owner EXCEPT ![s] = message[s].wallet]
              /\ signin' = [signin EXCEPT ![s] = "granted"]
           \/ UNCHANGED <<sessions, owner>> /\ signin' = [signin EXCEPT ![s] = "refused"]
      BY <1>6 DEF CreateSession, OwnerOf, tableVars
  <2> QED
      BY <2>1, <1>1, <1>c, <1>d DEF Consumed, HasSession
<1>7. CASE Restarted
  <2>1. \A s \in SignIns : signin'[s] = IF signin[s] \in {"verifying", "inserting"} THEN "lost"
                                        ELSE signin[s]
      BY <1>7, <1>c DEF Restarted, Lose
  <2>2. /\ \A v \in Wallets : store'[v].nonce = 0
        /\ UNCHANGED <<now, issued, message, expires, sessions, owner>>
      BY <1>7 DEF Restarted, NoEntry, tableVars
  <2> QED
      BY <2>1, <2>2, <1>1, <1>d DEF Consumed, HasSession
<1>8. ASSUME NEW c \in Calls, Revoke(c), ~ Restarted PROVE ProofInv'
  <2>1. /\ call[c] = "revoking" /\ sessions' = [sessions EXCEPT ![token[c]] = "revoked"]
        /\ UNCHANGED <<now, issued, store, signin, message, expires, owner>>
      BY <1>8 DEF Revoke, signinVars
  <2>2. token[c] \in SignIns /\ HasSession(token[c])
      BY <2>1, <1>a DEF CallInv
  <2>3. \A s \in SignIns : HasSession(s)' <=> HasSession(s)
      BY <2>1, <2>2, <1>c DEF HasSession
  <2> QED
      BY <2>1, <2>3, <1>1, <1>d DEF Consumed
<1>9. CASE Prune
    BY <1>9, <1>1, <1>d DEF Prune, NoEntry, signinVars, tableVars, Consumed, HasSession
<1>10. CASE Tick
    BY <1>10, <1>1, <1>d DEF Tick, signinVars, tableVars, Consumed, HasSession
<1>11. CASE UNCHANGED <<now, issued, store, signinVars, tableVars>>
    BY <1>11, <1>1, <1>d DEF signinVars, tableVars, Consumed, HasSession
<1> QED
    BY <1>2, <1>3, <1>4, <1>5, <1>6, <1>7, <1>8, <1>9, <1>10, <1>11
    DEF Next, vars, Request, Validate, Crash, signinVars, tableVars

(* Every step preserves CallInv: the UPDATE of Revoke finds the row live   *)
(* only once.                                                              *)
LEMMA CallStep == IInv /\ [Next]_vars => CallInv'
<1> SUFFICES ASSUME IInv, [Next]_vars PROVE CallInv'
    OBVIOUS
<1>a. TypeOK /\ ProofInv /\ CallInv
    BY DEF IInv
<1>b. /\ sessions \in [SignIns -> {"absent", "live", "revoked"}]
      /\ call \in [Calls -> CallPhases]
      /\ token \in [Calls -> SignIns \cup {Nobody}]
    BY <1>a DEF TypeOK, TableType, CallType
<1>c. \A c \in Calls : /\ call[c] # "idle" => token[c] \in SignIns /\ sessions[token[c]] # "absent"
                       /\ call[c] = "logged_out" => sessions[token[c]] = "revoked"
    BY <1>a DEF CallInv, HasSession
<1>d. \A b, c \in Calls : (call[b] = "logged_out" /\ call[c] = "logged_out" /\ token[b] = token[c])
                              => b = c
    BY <1>a DEF CallInv, OneLogoutSucceeds
<1> USE DEF CallInv, OneLogoutSucceeds, HasSession

\* Steps with which no logout succeeds.
<1>1. ASSUME \A s \in SignIns : /\ sessions[s] # "absent" => sessions'[s] # "absent"
                                /\ sessions[s] = "revoked" => sessions'[s] = "revoked",
             \A c \in Calls : /\ call'[c] = "idle" => call[c] = "idle"
                              /\ call[c] # "idle" => token'[c] = token[c]
                              /\ call'[c] = "logged_out" => call[c] = "logged_out"
                              /\ (call[c] = "idle" /\ call'[c] # "idle")
                                    => token'[c] \in SignIns /\ sessions[token'[c]] # "absent"
      PROVE  CallInv'
  <2>1. ASSUME NEW c \in Calls, call'[c] # "idle"
        PROVE  token'[c] \in SignIns /\ sessions'[token'[c]] # "absent"
      BY <1>1, <1>c, <2>1
  <2>2. ASSUME NEW c \in Calls, call'[c] = "logged_out"
        PROVE  /\ call[c] = "logged_out" /\ token'[c] = token[c]
               /\ sessions'[token'[c]] = "revoked"
      BY <1>1, <1>c, <2>2
  <2> QED
      BY <2>1, <2>2, <1>d
<1>2. ASSUME NEW s \in SignIns, CreateSession(s) PROVE CallInv'
  <2>1. sessions[s] = "absent"
      BY <1>2, <1>a DEF CreateSession, ProofInv
  <2> QED
      BY <1>2, <2>1, <1>1, <1>b DEF CreateSession, tableVars, callVars
<1>3. ASSUME NEW c \in Calls, Request(c) PROVE CallInv'
  <2>1. PICK s \in SignIns : signin[s] = "granted" /\ token' = [token EXCEPT ![c] = s]
      BY <1>3 DEF Request
  <2>2. sessions[s] # "absent"
      BY <2>1, <1>a DEF ProofInv
  <2> QED
      BY <1>3, <2>1, <2>2, <1>1, <1>b DEF Request, tableVars
<1>4. ASSUME NEW c \in Calls, Validate(c) PROVE CallInv'
  <2>1. /\ \E outcome \in {"served", "revoking", "denied", "error"} :
               call' = [call EXCEPT ![c] = outcome]
        /\ call[c] = "validating" /\ UNCHANGED <<sessions, token>>
      BY <1>4 DEF Validate, tableVars
  <2> QED
      BY <2>1, <1>1, <1>b
<1>5. CASE Restarted
    BY <1>5, <1>1, <1>b DEF Restarted, Lose, tableVars
<1>6. ASSUME NEW c \in Calls, Revoke(c), ~ Restarted PROVE CallInv'
  <2>1. /\ call[c] = "revoking" /\ sessions' = [sessions EXCEPT ![token[c]] = "revoked"]
        /\ call' = [call EXCEPT ![c] = IF sessions[token[c]] = "live" THEN "logged_out"
                                                                      ELSE "not_found"]
        /\ token' = token
      BY <1>6 DEF Revoke
  <2>2. token[c] \in SignIns /\ sessions[token[c]] # "absent"
      BY <2>1, <1>c
  <2>3. \A s \in SignIns : /\ sessions[s] # "absent" => sessions'[s] # "absent"
                           /\ sessions[s] = "revoked" => sessions'[s] = "revoked"
      BY <2>1, <2>2, <1>b
  <2>4. CASE sessions[token[c]] = "live"
    <3>1. call' = [call EXCEPT ![c] = "logged_out"] /\ sessions'[token[c]] = "revoked"
        BY <2>1, <2>2, <2>4, <1>b
    <3>2. \A b \in Calls : call[b] = "logged_out" => token[b] # token[c]
        BY <2>4, <1>c
    <3> QED
        BY <3>1, <3>2, <2>1, <2>2, <2>3, <1>b, <1>c, <1>d
  <2>5. CASE sessions[token[c]] # "live"
      BY <2>1, <2>3, <2>5, <1>1, <1>b
  <2> QED
      BY <2>4, <2>5
<1>7. CASE UNCHANGED <<tableVars, callVars>>
    BY <1>7, <1>1 DEF tableVars, callVars
<1> QED
    BY <1>2, <1>3, <1>4, <1>5, <1>6, <1>7
    DEF Next, vars, Generate, SubmitSignature, RejectSignature, ConsumeNonce, Prune, Crash, Tick

(* The invariant is inductive: every reachable state satisfies it. *)
THEOREM AccountsInvariant == Spec => []IInv
<1>1. IInv /\ [Next]_vars => IInv'
    BY TypeStep, EntryStep, ProofStep, CallStep DEF IInv
<1> QED
    BY InitInv, <1>1, PTL DEF Spec

(* However many copies of a signed message race, across restarts, one      *)
(* session is created for its nonce.                                       *)
THEOREM NonceUsedOnce == Spec => []OneSessionPerNonce
<1>1. IInv => OneSessionPerNonce
    BY DEF IInv, ProofInv, OneSessionPerNonce, Consumed
<1> QED
    BY <1>1, AccountsInvariant, PTL

(* A session belongs to the wallet its nonce was drawn for, and that nonce *)
(* was neither expired nor superseded when it was consumed.                *)
THEOREM SessionsProven == Spec => []SessionIsProven
<1>1. IInv => SessionIsProven
    BY DEF IInv, ProofInv, SessionIsProven, Proven, Consumed
<1> QED
    BY <1>1, AccountsInvariant, PTL

(* Of the logouts of a session, at most one succeeds. *)
THEOREM LogoutOnce == Spec => []OneLogoutSucceeds
<1>1. IInv => OneLogoutSucceeds
    BY DEF IInv, CallInv
<1> QED
    BY <1>1, AccountsInvariant, PTL

(* Every variable keeps its type: who is granted a session is a wallet. *)
THEOREM AccountsTypes == Spec => []TypeOK
<1>1. IInv => TypeOK
    BY DEF IInv
<1> QED
    BY <1>1, AccountsInvariant, PTL

(* The token of a revoked session is carried by no request that got past   *)
(* requireAuth, or will be.                                                *)
Shut(s, c) ==
    /\ sessions[s] = "revoked"
    /\ token[c] = s => call[c] \notin {"served", "revoking", "logged_out"}

LEMMA ShutStep ==
    ASSUME NEW s \in SignIns, NEW c \in Calls, IInv, Shut(s, c), [Next]_vars
    PROVE  Shut(s, c)'
<1>1. /\ sessions \in [SignIns -> {"absent", "live", "revoked"}]
      /\ call \in [Calls -> CallPhases] /\ token \in [Calls -> SignIns \cup {Nobody}]
    BY DEF IInv, TypeOK, TableType, CallType
<1>2. ASSUME NEW t \in SignIns, CreateSession(t) PROVE Shut(s, c)'
  <2>1. t # s
      BY <1>2 DEF CreateSession, IInv, ProofInv, HasSession, Shut
  <2> QED
      BY <1>1, <1>2, <2>1 DEF CreateSession, tableVars, callVars, Shut
<1>3. ASSUME NEW b \in Calls, Request(b) PROVE Shut(s, c)'
    BY <1>1, <1>3 DEF Request, tableVars, Shut
<1>4. ASSUME NEW b \in Calls, Validate(b) PROVE Shut(s, c)'
  <2>1. UNCHANGED <<sessions, token>>
      BY <1>4 DEF Validate, tableVars
  <2>2. CASE b = c /\ token[c] = s
    <3>1. ~ Valid(token[b])
        BY <2>2 DEF Valid, Shut
    <3>2. call' = [call EXCEPT ![b] = "denied"] \/ call' = [call EXCEPT ![b] = "error"]
        BY <1>4, <3>1 DEF Validate
    <3> QED
        BY <1>1, <2>1, <2>2, <3>2 DEF Shut
  <2>3. CASE token[c] # s
      BY <2>1, <2>3 DEF Shut
  <2>4. CASE b # c
    <3>1. call'[c] = call[c]
        BY <1>1, <1>4, <2>4 DEF Validate
    <3> QED
        BY <2>1, <3>1 DEF Shut
  <2> QED
      BY <2>2, <2>3, <2>4
<1>5. CASE Restarted
    BY <1>1, <1>5 DEF Restarted, Lose, tableVars, Shut
<1>6. ASSUME NEW b \in Calls, Revoke(b), ~ Restarted PROVE Shut(s, c)'
  <2>1. /\ call[b] = "revoking" /\ sessions' = [sessions EXCEPT ![token[b]] = "revoked"]
        /\ call' = [call EXCEPT ![b] = IF sessions[token[b]] = "live" THEN "logged_out"
                                                                      ELSE "not_found"]
        /\ token' = token
      BY <1>6 DEF Revoke
  <2>2. sessions'[s] = "revoked"
      BY <1>1, <2>1 DEF Shut
  <2>3. token[c] = s => b # c
      BY <2>1 DEF Shut
  <2> QED
      BY <1>1, <2>1, <2>2, <2>3 DEF Shut
<1>7. CASE UNCHANGED <<sessions, callVars>>
    BY <1>7 DEF callVars, Shut
<1> QED
    BY <1>2, <1>3, <1>4, <1>5, <1>6, <1>7
    DEF Next, vars, Generate, SubmitSignature, RejectSignature, ConsumeNonce, Prune, Crash, Tick,
        tableVars

(* Once a logout took effect, no request that starts later is served with  *)
(* its token (session.js:31), in this process or the next.                 *)
THEOREM LogoutKept == Spec => LogoutIsFinal
<1>1. ASSUME NEW s \in SignIns, NEW c \in Calls
      PROVE  Spec => []((sessions[s] = "revoked" /\ call[c] = "idle")
                  => [](token[c] = s => call[c] \notin {"served", "revoking", "logged_out"}))
  <2>1. IInv /\ Shut(s, c) /\ [Next]_vars => Shut(s, c)'
      BY ShutStep
  <2>2. sessions[s] = "revoked" /\ call[c] = "idle" => Shut(s, c)
      BY DEF Shut
  <2>3. Shut(s, c) => (token[c] = s => call[c] \notin {"served", "revoking", "logged_out"})
      BY DEF Shut
  <2> QED
      BY <2>1, <2>2, <2>3, AccountsInvariant, PTL DEF Spec
<1> QED
    BY <1>1 DEF LogoutIsFinal

-----------------------------------------------------------------------------
(* Accounts implements SignInService.                                      *)

(* What of a state the abstract view depends on. *)
LEMMA ViewSame ==
    /\ UNCHANGED store => UNCHANGED Fresh
    /\ UNCHANGED <<signin, message>> => UNCHANGED Proofs
    /\ UNCHANGED <<call, token>> => UNCHANGED <<Admitted, Closers>>
BY DEF Fresh, Proofs, Admitted, Closers

(* Entries that are gone make no nonce fresh. *)
LEMMA FreshLost ==
    ASSUME TypeOK, \A w \in Wallets : store'[w] = store[w] \/ store'[w].nonce = 0
    PROVE  Fresh' \subseteq Fresh
BY DEF Fresh

(* Sign-ins that are lost take their proofs along, requests their admission. *)
LEMMA SignInLost ==
    ASSUME IInv, NEW s \in SignIns, signin[s] # "granted",
           signin' = [signin EXCEPT ![s] = "refused"], UNCHANGED <<issued, now>>,
           Fresh' \subseteq Fresh, UNCHANGED <<message, expires, tableVars, callVars>>
    PROVE  SignIn!Lose
<1>1. sessions[s] = "absent"
    BY DEF IInv, ProofInv, HasSession
<1>2. Proofs' = [t \in SignIns |-> IF t \in {s} THEN 0 ELSE Proofs[t]]
    BY DEF IInv, TypeOK, SignInType, Proofs
<1>3. UNCHANGED <<Admitted, Closers>>
    BY ViewSame DEF callVars
<1>4. Admitted' = [c \in Calls |-> IF c \in {} THEN {} ELSE Admitted[c]]
    BY <1>3 DEF Admitted
<1>5. \E T \in SUBSET {t \in SignIns : sessions[t] = "absent"} :
          Proofs' = [t \in SignIns |-> IF t \in T THEN 0 ELSE Proofs[t]]
  <2>1. {s} \in SUBSET {t \in SignIns : sessions[t] = "absent"}
      BY <1>1
  <2> QED
      BY <1>2, <2>1
<1>6. \E R \in SUBSET Calls : Admitted' = [c \in Calls |-> IF c \in R THEN {} ELSE Admitted[c]]
  <2>1. {} \in SUBSET Calls
      OBVIOUS
  <2> QED
      BY <1>4, <2>1
<1> QED
    BY <1>3, <1>5, <1>6 DEF SignIn!Lose, tableVars

(* A restart loses the store, the sign-ins on their way and the logouts.   *)
LEMMA RestartLoses ==
    ASSUME IInv, Restarted
    PROVE  SignIn!Lose
<1> DEFINE T == {s \in SignIns : signin[s] = "inserting"}
           R == {c \in Calls : call[c] = "revoking"}
<1>1. Fresh' \subseteq Fresh
    BY DEF Fresh, Restarted, NoEntry
<1>2. T \in SUBSET {s \in SignIns : sessions[s] = "absent"}
    BY DEF IInv, ProofInv, HasSession
<1>3. Proofs' = [s \in SignIns |-> IF s \in T THEN 0 ELSE Proofs[s]]
  <2>1. /\ message' = message
        /\ \A s \in SignIns : signin'[s] = IF signin[s] \in {"verifying", "inserting"}
                                             THEN "lost" ELSE signin[s]
      BY DEF Restarted, Lose, IInv, TypeOK, SignInType
  <2> QED
      BY <2>1 DEF Proofs
<1>4. /\ token' = token
      /\ \A c \in Calls : call'[c] = IF call[c] \in {"validating", "revoking"}
                                        THEN "lost" ELSE call[c]
    BY DEF Restarted, Lose, IInv, TypeOK, CallType
<1>5. R \in SUBSET Calls /\ Admitted' = [c \in Calls |-> IF c \in R THEN {} ELSE Admitted[c]]
    BY <1>4 DEF Admitted, LetIn
<1>6. Closers' = Closers
    BY <1>4 DEF Closers
<1>7. UNCHANGED <<now, issued, expires, sessions, owner>>
    BY DEF Restarted, tableVars
<1> HIDE DEF T, R
<1> QED
    BY <1>1, <1>2, <1>3, <1>5, <1>6, <1>7 DEF SignIn!Lose

(* A nonce takes the place of its wallet's last. *)
LEMMA GenerateDraws ==
    ASSUME IInv, NEW w \in Wallets, Generate(w)
    PROVE  SignIn!Draw(w)
<1> DEFINE n == Len(issued) + 1
<1>1. /\ store' = [store EXCEPT ![w] = [nonce |-> n, expires |-> now + NonceTtl]]
      /\ issued' = Append(issued, [wallet |-> w, at |-> now])
      /\ UNCHANGED <<now, signinVars, tableVars, callVars>>
    BY DEF Generate
<1>2. n \in Nat \ {0}
    BY IssuedFacts DEF IInv
<1>3. /\ \A v \in Wallets \ {w} : store'[v] = store[v]
      /\ store'[w].nonce = n
    BY <1>1 DEF IInv, TypeOK, StoreType
<1>4. \A v \in Wallets : store[v].nonce # 0 => issued[store[v].nonce].wallet = v
    BY DEF IInv, EntryInv
<1> HIDE DEF n
<1>5. Fresh' = {m \in Fresh : issued[m].wallet # w} \cup {n}
  <2>1. ASSUME NEW m \in Fresh' PROVE m = n \/ (m \in Fresh /\ issued[m].wallet # w)
    <3>1. PICK v \in Wallets : m = store'[v].nonce /\ m # 0
        BY <2>1 DEF Fresh
    <3> QED
        BY <1>3, <1>4, <3>1 DEF Fresh
  <2>2. n \in Fresh'
      BY <1>2, <1>3 DEF Fresh
  <2>3. ASSUME NEW m \in Fresh, issued[m].wallet # w PROVE m \in Fresh'
    <3>1. PICK v \in Wallets : m = store[v].nonce /\ m # 0
        BY <2>3 DEF Fresh
    <3>2. v # w
        BY <1>4, <2>3, <3>1
    <3> QED
        BY <1>3, <3>1, <3>2 DEF Fresh
  <2> QED
      BY <2>1, <2>2, <2>3
<1>6. UNCHANGED <<Proofs, Admitted, Closers>>
    BY <1>1, ViewSame DEF signinVars, callVars
<1> QED
    BY <1>1, <1>5, <1>6 DEF SignIn!Draw, SignIn!using, signinVars, tableVars, n

(* A consumed nonce is a proof if it is the wallet's and in time, and is   *)
(* lost in any case.                                                       *)
LEMMA ConsumeAccepts ==
    ASSUME IInv, NEW s \in SignIns, ConsumeNonce(s)
    PROVE  SignIn!Next
<1> DEFINE w == message[s].wallet
           n == message[s].nonce
<1>1. signin[s] = "verifying" /\ w \in Wallets /\ sessions[s] = "absent"
    BY DEF ConsumeNonce, IInv, ProofInv, HasSession
<1>2. /\ store' = [store EXCEPT ![w] = NoEntry]
      /\ UNCHANGED <<now, issued, message, tableVars, callVars>>
    BY DEF ConsumeNonce, ConsumedEntry
<1>3. store \in [Wallets -> [nonce : Nat, expires : Nat]]
    BY DEF IInv, TypeOK, StoreType
<1>4. store'[w].nonce = 0 /\ \A v \in Wallets \ {w} : store'[v] = store[v]
    BY <1>1, <1>2, <1>3 DEF NoEntry
<1>5. CASE Consumable(store[w], n)
  <2>1. n = store[w].nonce /\ n # 0 /\ now <= store[w].expires
      BY <1>5 DEF Consumable
  <2>2. /\ signin' = [signin EXCEPT ![s] = "inserting"]
        /\ expires' = [expires EXCEPT ![s] = now + SessionTtl]
      BY <1>5 DEF ConsumeNonce
  <2>3. \A v \in Wallets : store[v].nonce # 0 => issued[store[v].nonce].wallet = v
      BY DEF IInv, EntryInv
  <2>4. n \in Fresh /\ now <= issued[n].at + NonceTtl
      BY <1>1, <2>1 DEF Fresh, IInv, EntryInv
  <2>5. Fresh' = Fresh \ {n}
    <3> HIDE DEF w, n
    <3>1. ASSUME NEW m \in Fresh' PROVE m \in Fresh /\ m # n
      <4>1. PICK v \in Wallets : m = store'[v].nonce /\ m # 0
          BY <3>1 DEF Fresh
      <4>2. v # w /\ m = store[v].nonce
          BY <1>4, <4>1
      <4> QED
          BY <1>1, <2>1, <2>3, <4>1, <4>2 DEF Fresh
    <3>2. ASSUME NEW m \in Fresh, m # n PROVE m \in Fresh'
      <4>1. PICK v \in Wallets : m = store[v].nonce /\ m # 0
          BY <3>2 DEF Fresh
      <4> QED
          BY <1>4, <2>1, <3>2, <4>1 DEF Fresh
    <3> QED
        BY <3>1, <3>2
  <2>6. Proofs' = [Proofs EXCEPT ![s] = n] /\ Proofs[s] = 0
      BY <1>1, <1>2, <2>2 DEF Proofs, IInv, TypeOK, SignInType
  <2>7. UNCHANGED <<Admitted, Closers>>
      BY <1>2, ViewSame DEF callVars
  <2>8. SignIn!Accept(s)
      BY <1>1, <1>2, <2>2, <2>4, <2>5, <2>6, <2>7 DEF SignIn!Accept, SignIn!using, tableVars
  <2> QED
      BY <2>8 DEF SignIn!Next
<1>6. CASE ~ Consumable(store[w], n)
  <2>1. signin' = [signin EXCEPT ![s] = "refused"] /\ expires' = expires
      BY <1>6 DEF ConsumeNonce
  <2>2. Fresh' \subseteq Fresh
    <3>1. \A v \in Wallets : store'[v] = store[v] \/ store'[v].nonce = 0
        BY <1>4
    <3> QED
        BY <3>1, FreshLost DEF IInv
  <2>3. SignIn!Lose
      BY <1>1, <1>2, <2>1, <2>2, SignInLost
  <2> QED
      BY <2>3 DEF SignIn!Next
<1> QED
    BY <1>5, <1>6

(* The row of the session is inserted, or the proof is lost. *)
LEMMA CreateOpens ==
    ASSUME IInv, NEW s \in SignIns, CreateSession(s)
    PROVE  SignIn!Next
<1>1. signin[s] = "inserting" /\ sessions[s] = "absent" /\ Proven(s)
    BY DEF CreateSession, IInv, ProofInv, HasSession, Consumed
<1>2. UNCHANGED <<now, issued, store, message, expires, callVars>>
    BY DEF CreateSession
<1>3. Fresh' = Fresh /\ UNCHANGED <<Admitted, Closers>>
    BY <1>2, ViewSame DEF callVars
<1>4. CASE /\ sessions' = [sessions EXCEPT ![s] = "live"]
           /\ owner' = [owner EXCEPT ![s] = OwnerOf(s)]
           /\ signin' = [signin EXCEPT ![s] = "granted"]
  <2>1. Proofs[s] = message[s].nonce /\ message[s].nonce \in DOMAIN issued
        /\ issued[message[s].nonce].wallet = message[s].wallet
      BY <1>1 DEF Proofs, Proven
  <2>2. Proofs[s] # 0
      BY <2>1, IssuedFacts DEF IInv
  <2>3. Proofs' = Proofs
      BY <1>1, <1>2, <1>4 DEF Proofs, IInv, TypeOK, SignInType
  <2>4. SignIn!Open(s)
      BY <1>1, <1>2, <1>3, <1>4, <2>1, <2>2, <2>3 DEF SignIn!Open, SignIn!signing, OwnerOf
  <2> QED
      BY <2>4 DEF SignIn!Next
<1>5. CASE signin' = [signin EXCEPT ![s] = "refused"] /\ UNCHANGED tableVars
  <2>1. SignIn!Lose
      BY <1>1, <1>2, <1>3, <1>5, SignInLost
  <2> QED
      BY <2>1 DEF SignIn!Next
<1> QED
    BY <1>4, <1>5 DEF CreateSession

(* requireAuth lets a request in while its session is live. *)
LEMMA ValidateAdmits ==
    ASSUME IInv, NEW c \in Calls, Validate(c)
    PROVE  SignIn!Next \/ UNCHANGED SignIn!service
<1>1. call[c] = "validating" /\ token[c] \in SignIns
    BY DEF Validate, IInv, CallInv
<1>2. UNCHANGED <<now, issued, store, signinVars, tableVars, token>>
    BY DEF Validate
<1>3. UNCHANGED <<Fresh, Proofs>>
    BY <1>2, ViewSame DEF signinVars
<1>4. PICK outcome \in {"served", "revoking", "denied", "error"} :
          /\ call' = [call EXCEPT ![c] = outcome]
          /\ outcome \in {"served", "revoking"} => Valid(token[c])
    BY DEF Validate
<1>5. Closers' = Closers
    BY <1>1, <1>2, <1>4 DEF Closers, IInv, TypeOK, CallType
<1>6. CASE outcome \in {"served", "revoking"}
  <2>1. Admitted' = [Admitted EXCEPT ![c] = {token[c]}] /\ Admitted[c] = {}
      BY <1>1, <1>2, <1>4, <1>6 DEF Admitted, LetIn, IInv, TypeOK, CallType
  <2>2. sessions[token[c]] = "live" /\ now < expires[token[c]]
      BY <1>1, <1>4, <1>6, AccountsAssumption DEF Valid, IInv, TypeOK, ClockType, SignInType
  <2>3. SignIn!Admit(c)
      BY <1>1, <1>2, <1>3, <1>5, <2>1, <2>2
         DEF SignIn!Admit, SignIn!signing, signinVars, tableVars
  <2> QED
      BY <2>3 DEF SignIn!Next
<1>7. CASE outcome \in {"denied", "error"}
  <2>1. Admitted' = Admitted
      BY <1>1, <1>2, <1>4, <1>7 DEF Admitted, LetIn, IInv, TypeOK, CallType
  <2> QED
      BY <1>2, <1>3, <1>5, <2>1
         DEF SignIn!service, SignIn!signing, SignIn!using, signinVars, tableVars
<1> QED
    BY <1>4, <1>6, <1>7

(* The first logout closes the session; a later one finds it closed. *)
LEMMA RevokeCloses ==
    ASSUME IInv, NEW c \in Calls, Revoke(c)
    PROVE  SignIn!Next \/ UNCHANGED SignIn!service
<1> DEFINE t == token[c]
<1>1. call[c] = "revoking" /\ t \in SignIns /\ sessions[t] \in {"live", "revoked"}
    BY DEF Revoke, IInv, CallInv, HasSession, TypeOK, TableType
<1>2. CASE Restarted
    BY <1>2, RestartLoses DEF SignIn!Next
<1>3. CASE /\ sessions' = [sessions EXCEPT ![t] = "revoked"]
           /\ call' = [call EXCEPT ![c] = IF sessions[t] = "live" THEN "logged_out"
                                                                  ELSE "not_found"]
           /\ UNCHANGED <<now, issued, store, signinVars, owner, token>>
  <2>1. UNCHANGED <<Fresh, Proofs>>
      BY <1>3, ViewSame DEF signinVars
  <2>2. Admitted' = Admitted /\ Admitted[c] = {t}
      BY <1>1, <1>3 DEF Admitted, LetIn, IInv, TypeOK, CallType
  <2>3. \A d \in Calls \ {c} : call'[d] = call[d] /\ token'[d] = token[d]
      BY <1>3 DEF IInv, TypeOK, CallType
  <2>4. CASE sessions[t] = "live"
    <3>1. call'[c] = "logged_out" /\ token'[c] = t
        BY <1>3, <2>4 DEF IInv, TypeOK, CallType
    <3>2. \A d \in Calls : call[d] = "logged_out" => token[d] # t
        BY <2>4 DEF IInv, CallInv
    <3>3. Closers'[t] = {c}
        BY <1>1, <2>3, <3>1, <3>2 DEF Closers
    <3>4. \A s \in SignIns \ {t} : Closers'[s] = Closers[s]
        BY <1>1, <2>3, <3>1 DEF Closers
    <3>5. Closers' = [Closers EXCEPT ![t] = {c}]
      <4>1. Closers = [s \in SignIns |-> Closers[s]] /\ Closers' = [s \in SignIns |-> Closers'[s]]
          BY DEF Closers
      <4> QED
          BY <3>3, <3>4, <4>1
    <3>6. SignIn!Close(c)
        BY <1>3, <2>1, <2>2, <2>4, <3>5 DEF SignIn!Close, SignIn!signing, signinVars
    <3> QED
        BY <3>6 DEF SignIn!Next
  <2>5. CASE sessions[t] = "revoked"
    <3>1. sessions' = sessions
        BY <1>1, <1>3, <2>5 DEF IInv, TypeOK, TableType
    <3>2. call'[c] = "not_found"
        BY <1>3, <2>5 DEF IInv, TypeOK, CallType
    <3>3. Closers' = Closers
        BY <1>1, <1>3, <2>3, <3>2 DEF Closers
    <3> QED
        BY <1>3, <2>1, <2>2, <3>1, <3>3
           DEF SignIn!service, SignIn!signing, SignIn!using, signinVars
  <2> QED
      BY <1>1, <2>4, <2>5
<1> QED
    BY <1>2, <1>3 DEF Revoke

(* Signing in, with its races, failed queries and restarts, implements     *)
(* SignInService: a nonce proves one token, in time; its session admits    *)
(* requests while it is live, and one of them closes it, for good          *)
(* (nonce.js:21, session.js:34-53).                                        *)
THEOREM Refinement == Spec => ImplementsSignIn
<1>1. Init => SignIn!Init
  <2> SUFFICES ASSUME Init PROVE SignIn!Init
      OBVIOUS
  <2>1. Fresh = {} /\ Proofs = [s \in SignIns |-> 0]
      BY DEF Init, Fresh, Proofs, NoEntry
  <2>2. Admitted = [c \in Calls |-> {}] /\ Closers = [s \in SignIns |-> {}]
      BY DEF Init, Admitted, Closers, LetIn
  <2> QED
      BY <2>1, <2>2 DEF Init, SignIn!Init
<1>2. IInv /\ [Next]_vars => [SignIn!Next]_(SignIn!service)
  <2> SUFFICES ASSUME IInv, [Next]_vars PROVE SignIn!Next \/ UNCHANGED SignIn!service
      OBVIOUS
  <2>1. ASSUME NEW w \in Wallets, Generate(w) PROVE SignIn!Next
      BY <2>1, GenerateDraws DEF SignIn!Next
  <2>2. ASSUME NEW s \in SignIns, SubmitSignature(s) \/ RejectSignature(s)
        PROVE  UNCHANGED SignIn!service
    <3>1. UNCHANGED <<now, issued, store, expires, tableVars, callVars>>
        BY <2>2 DEF SubmitSignature, RejectSignature
    <3>2. /\ \A t \in SignIns \ {s} : signin'[t] = signin[t] /\ message'[t] = message[t]
          /\ signin[s] \in {"idle", "verifying"} /\ signin'[s] \in {"verifying", "refused"}
        BY <2>2 DEF SubmitSignature, RejectSignature, IInv, TypeOK, SignInType
    <3>3. Proofs' = Proofs
        BY <3>2 DEF Proofs
    <3> QED
        BY <3>1, <3>3, ViewSame
           DEF SignIn!service, SignIn!signing, SignIn!using, tableVars, callVars
  <2>3. ASSUME NEW c \in Calls, Request(c) PROVE UNCHANGED SignIn!service
    <3>1. UNCHANGED <<now, issued, store, signinVars, tableVars>>
        BY <2>3 DEF Request
    <3>2. /\ \A d \in Calls \ {c} : call'[d] = call[d] /\ token'[d] = token[d]
          /\ call[c] = "idle" /\ call'[c] = "validating"
        BY <2>3 DEF Request, IInv, TypeOK, CallType
    <3>3. Admitted' = Admitted
        BY <3>2 DEF Admitted, LetIn
    <3>4. Closers' = Closers
        BY <3>2 DEF Closers
    <3> QED
        BY <3>1, <3>3, <3>4, ViewSame
           DEF SignIn!service, SignIn!signing, SignIn!using, signinVars, tableVars
  <2>4. ASSUME Prune PROVE SignIn!Next
    <3>1. /\ UNCHANGED <<now, issued, signinVars, tableVars, callVars>>
          /\ Fresh' \subseteq Fresh
        BY <2>4, FreshLost DEF Prune, NoEntry, IInv
    <3>2. UNCHANGED <<Proofs, Admitted, Closers>>
        BY <3>1, ViewSame DEF signinVars, callVars
    <3>3. /\ Proofs' = [s \in SignIns |-> IF s \in {} THEN 0 ELSE Proofs[s]]
          /\ Admitted' = [c \in Calls |-> IF c \in {} THEN {} ELSE Admitted[c]]
        BY <3>2 DEF Proofs, Admitted
    <3>4. {} \in SUBSET {s \in SignIns : sessions[s] = "absent"} /\ {} \in SUBSET Calls
        OBVIOUS
    <3>5. SignIn!Lose
        BY <3>1, <3>2, <3>3, <3>4 DEF SignIn!Lose, signinVars, tableVars
    <3> QED
        BY <3>5 DEF SignIn!Next
  <2>5. ASSUME Tick PROVE SignIn!Next
    <3>1. SignIn!Pass
        BY <2>5, ViewSame DEF Tick, SignIn!Pass, SignIn!using, signinVars, tableVars, callVars
    <3> QED
        BY <3>1 DEF SignIn!Next
  <2>6. ASSUME Crash PROVE SignIn!Next
      BY <2>6, RestartLoses DEF Crash, SignIn!Next
  <2>7. CASE UNCHANGED vars
      BY <2>7, ViewSame DEF vars, SignIn!service, SignIn!signing, SignIn!using, signinVars,
         tableVars, callVars
  <2> QED
      BY <2>1, <2>2, <2>3, <2>4, <2>5, <2>6, <2>7, ConsumeAccepts, CreateOpens, ValidateAdmits,
         RevokeCloses DEF Next
<1> QED
    BY <1>1, <1>2, AccountsInvariant, PTL DEF Spec, ImplementsSignIn, SignIn!Spec
=============================================================================
