------------------------- MODULE X402Payment_proofs -------------------------
(***************************************************************************)
(* Proofs about X402Payment, for any number of calls, wallets and agents,  *)
(* any prices, limits and validity window: IInv is inductive, the safety   *)
(* properties follow from it, and every step is a step of PaidService.     *)
(***************************************************************************)
EXTENDS X402Payment, TLAPS

(* The transaction a call would sign is a transaction. *)
LEMMA PaymentType ==
    ASSUME NEW c \in Calls, NEW r \in Nat
    PROVE  Payment(c, r) \in Transactions
BY PaymentAssumption DEF Payment, Transactions

(* The initial state satisfies the inductive invariant. *)
LEMMA InitInv == Init => IInv
<1> SUFFICES ASSUME Init PROVE IInv
    OBVIOUS
<1>1. TypeOK
  <2>1. txn \in [Calls -> Transactions]
      BY PaymentType DEF Init
  <2> QED
      BY <2>1, PaymentAssumption DEF Init, TypeOK, ClientPhases, AgentPhases
<1>2. PhaseInv
    BY DEF Init, PhaseInv, Signed
<1>3. ChainInv
    BY PaymentAssumption DEF Init, ChainInv, Banking, Signed
<1> QED
    BY <1>1, <1>2, <1>3 DEF IInv

(* The client's steps that neither sign nor charge move a call between its *)
(* phases, and may have it simulate a payment it does not yet offer.       *)
Moves(c) ==
    /\ \E p \in ClientPhases : client' = [client EXCEPT ![c] = p]
    /\ client'[c] \notin {"idle", "params"} \/ proof[c] = "none"
    /\ client'[c] = "asking" => proof[c] = "none"
    /\ \/ UNCHANGED proof
       \/ /\ proof[c] = "none" /\ proof' = [proof EXCEPT ![c] = "simulated"]
          /\ client'[c] = "paying"
    /\ UNCHANGED <<txn, agent, walletVars, chain>>

(* Which steps those are. *)
LEMMA ClientMoves ==
    ASSUME NEW c \in Calls, IInv,
           \/ Call(c) \/ RequirePayment(c) \/ FallBack(c)
           \/ RefusePayment(c) \/ ReceiveAnswer(c) \/ LoseConnection(c)
    PROVE  Moves(c)
<1> USE DEF IInv, TypeOK, PhaseInv, Moves, Simulate, ClientPhases
<1>1. CASE Call(c)
    BY <1>1 DEF Call
<1>2. CASE RequirePayment(c)
    BY <1>2 DEF RequirePayment
<1>3. CASE FallBack(c)
    BY <1>3 DEF FallBack
<1>4. CASE RefusePayment(c)
    BY <1>4 DEF RefusePayment, CanSign
<1>5. CASE ReceiveAnswer(c)
    BY <1>5 DEF ReceiveAnswer
<1>6. CASE LoseConnection(c)
    BY <1>6 DEF LoseConnection
<1> QED
    BY <1>1, <1>2, <1>3, <1>4, <1>5, <1>6

(* A move preserves the inductive invariant: nobody is signed for anew and *)
(* the gate does not stir.                                                 *)
LEMMA MovesInv ==
    ASSUME IInv, NEW c \in Calls, Moves(c)
    PROVE  IInv'
<1> USE DEF IInv, TypeOK, Moves, walletVars, chain
<1>1. \A d \in Calls : Signed(d)' <=> Signed(d)
    BY DEF Signed
<1>2. TypeOK'
    BY DEF ClientPhases
<1>3. PhaseInv'
    BY <1>1 DEF PhaseInv, Settles, Signed
<1>4. \A d \in Calls : Banking(d)' <=> Banking(d)
    BY <1>1 DEF Banking, Settles
<1>5. ChainInv'
  <2>1. {txn[d] : d \in {e \in Calls : Signed(e)}}' = {txn[d] : d \in {e \in Calls : Signed(e)}}
      BY <1>1
  <2> QED
      BY <1>4, <2>1 DEF ChainInv
<1> QED
    BY <1>2, <1>3, <1>5

(* Signing charges the wallet within its limit and adds one signed call,   *)
(* which its agent has not heard of.                                       *)
LEMMA SignInv ==
    ASSUME IInv, NEW c \in Calls, SignPayment(c)
    PROVE  IInv'
<1> USE PaymentAssumption DEF IInv, TypeOK, SignPayment, CanSign
<1>1. PICK r \in 0..round : txn' = [txn EXCEPT ![c] = Payment(c, r)]
    OBVIOUS
<1>2. Payment(c, r) \in Transactions
    BY <1>1, PaymentType
<1>3. proof[c] = "none" /\ agent[c] = "none"
    BY DEF PhaseInv
<1>4. \A w \in Wallets : spent'[w] \in Nat /\ spent'[w] <= SpendingLimit
  <2>1. Price[AgentOf[c]] \in Nat /\ WalletOf[c] \in Wallets
      OBVIOUS
  <2> QED
      BY <2>1 DEF Charged, Affordable, ChainInv
<1>5. TypeOK'
  <2>1. spent' \in [Wallets -> Nat]
      BY <1>4 DEF Charged
  <2>2. txn' \in [Calls -> Transactions]
      BY <1>1, <1>2
  <2> QED
      BY <2>1, <2>2 DEF chain, ClientPhases
<1>6. PhaseInv'
  <2>1. Signed(c)' /\ \A d \in Calls \ {c} : Signed(d)' <=> Signed(d)
      BY DEF Signed
  <2>2. txn'[c] = Payment(c, r)
      BY <1>1
  <2>3. \A d \in Calls \ {c} : /\ client'[d] = client[d] /\ proof'[d] = proof[d]
                               /\ txn'[d] = txn[d] /\ agent'[d] = agent[d]
      BY <1>1
  <2>4. client'[c] = "paying" /\ agent'[c] = "none"
      BY <1>3
  <2> QED
      BY <2>1, <2>2, <2>3, <2>4 DEF PhaseInv, Payment, Settles
<1>7. \A d \in Calls : Banking(d)' <=> Banking(d)
    BY <1>3 DEF Banking, Signed, Settles
<1>8. \A d \in Calls : Banking(d) => d # c /\ txn'[d] = txn[d]
    BY <1>1, <1>3 DEF Banking
<1>9. {txn[d] : d \in {e \in Calls : Signed(e)}} \subseteq {txn[d] : d \in {e \in Calls : Signed(e)}}'
    BY <1>1, <1>3 DEF Signed
<1>10. ChainInv'
    BY <1>4, <1>7, <1>8, <1>9 DEF ChainInv, chain, Settles
<1> QED
    BY <1>5, <1>6, <1>10

(* The gate's steps leave what was signed and how a call stands alone. *)
LEMMA GateInv ==
    ASSUME IInv, NEW c \in Calls, Gate(c)
    PROVE  IInv'
<1> USE DEF IInv, TypeOK
<1>1. /\ UNCHANGED <<clientVars, walletVars, round, ledger>>
      /\ pool' = pool \/ pool' = pool \cup {txn[c]}
      /\ \E how \in AgentPhases : agent' = [agent EXCEPT ![c] = how]
      /\ proof[c] # "none"
      /\ agent'[c] \in {"sending", "confirming"} => Signed(c) /\ Settles(c)
    BY DEF Gate, Verify, Submit, AwaitConfirmation, Answer, AgentPhases, chain, Signed, Settles,
           PhaseInv
<1>2. TypeOK'
    BY <1>1 DEF AgentPhases, clientVars, walletVars
<1>3. PhaseInv'
    BY <1>1 DEF PhaseInv, clientVars, Signed, Settles
<1>4. \A d \in Calls \ {c} : Banking(d)' <=> Banking(d)
    BY <1>1 DEF Banking, clientVars, Signed, Settles
<1>5. {txn[d] : d \in {e \in Calls : Signed(e)}}' = {txn[d] : d \in {e \in Calls : Signed(e)}}
    BY <1>1 DEF clientVars, Signed
<1>6. /\ pool' \cup ledger' \subseteq {txn[d] : d \in {e \in Calls : Signed(e)}}'
      /\ \A w \in Wallets : spent'[w] <= SpendingLimit
  <2>1. pool' = pool \/ Signed(c)
      BY <1>1 DEF Gate, Verify, Submit, AwaitConfirmation, chain, PhaseInv
  <2> QED
      BY <1>1, <1>5, <2>1 DEF ChainInv, walletVars
<1>7. CASE Verify(c)
  <2>1. ~ Banking(c) /\ ~ Banking(c)'
      BY <1>7 DEF Verify, Answer, Banking, Signed, Settles, clientVars
  <2> QED
      BY <1>1, <1>2, <1>3, <1>4, <1>6, <2>1 DEF ChainInv, clientVars, Banking
<1>8. CASE Submit(c)
  <2>1. ~ Banking(c)
      BY <1>8 DEF Submit, Banking
  <2>2. Banking(c)' => Admissible(txn[c]) /\ pool' = pool \cup {txn[c]} /\ agent'[c] = "confirming"
      BY <1>8 DEF Submit, Banking, Answer
  <2>3. \A d \in Calls : Banking(d) => txn[d] \in pool \cup ledger \/ round > txn[d].round + Window
      BY DEF ChainInv
  <2>4. \A d \in Calls : txn[d].round \in Nat /\ txn[d].round + Window \in Nat /\ round \in Nat
      BY PaymentAssumption DEF Transactions
  <2>5. \A d \in Calls : Banking(d) /\ Banking(c)' => txn[d] # txn[c]
      BY <2>2, <2>3, <2>4 DEF Admissible
  <2> QED
      BY <1>1, <1>2, <1>3, <1>4, <1>6, <2>1, <2>2, <2>5 DEF ChainInv, clientVars
<1>9. CASE AwaitConfirmation(c)
  <2>1. Banking(c)' => Banking(c) /\ txn[c] \in ledger /\ pool' = pool
      BY <1>9 DEF AwaitConfirmation, Answer, Banking, clientVars, chain, Signed, Settles
  <2> QED
      BY <1>1, <1>2, <1>3, <1>4, <1>6, <2>1 DEF ChainInv, clientVars
<1> QED
    BY <1>7, <1>8, <1>9 DEF Gate

(* A round only drops what can never be taken again. *)
LEMMA RoundInv ==
    ASSUME IInv, NewRound
    PROVE  IInv'
<1> USE PaymentAssumption DEF IInv, TypeOK, NewRound, clientVars, walletVars
<1>1. PICK confirmed \in SUBSET {t \in pool : round + 1 <= t.round + Window} :
            /\ ledger' = ledger \cup confirmed
            /\ pool' = {t \in pool \ confirmed : round + 1 <= t.round + Window}
    OBVIOUS
<1>2. TypeOK'
    BY <1>1
<1>3. PhaseInv'
    BY DEF PhaseInv, Signed, Settles
<1>4. \A d \in Calls : /\ (Banking(d)' <=> Banking(d)) /\ (Signed(d)' <=> Signed(d))
                       /\ txn'[d] = txn[d]
    BY DEF Banking, Signed, Settles
<1>5. ASSUME NEW d \in Calls, Banking(d)
      PROVE  txn[d] \in pool' \cup ledger' \/ round' > txn[d].round + Window
  <2>1. txn[d].round \in Nat
      BY DEF Transactions
  <2> QED
      BY <1>1, <1>5, <2>1 DEF ChainInv
<1>6. ChainInv'
    BY <1>1, <1>4, <1>5 DEF ChainInv
<1> QED
    BY <1>2, <1>3, <1>6

(* Every step preserves the inductive invariant. *)
LEMMA StepInv == IInv /\ [Next]_vars => IInv'
<1> SUFFICES ASSUME IInv, [Next]_vars PROVE IInv'
    OBVIOUS
<1>1. ASSUME NEW c \in Calls, Client(c) PROVE IInv'
    BY <1>1, ClientMoves, MovesInv, SignInv DEF Client
<1>2. ASSUME NEW c \in Calls, Gate(c) PROVE IInv'
    BY <1>2, GateInv
<1>3. ASSUME NEW w \in Wallets, DestroyWallet(w) PROVE IInv'
  <2>1. TypeOK'
      BY <1>3 DEF DestroyWallet, IInv, TypeOK, clientVars, chain
  <2>2. PhaseInv' /\ ChainInv'
      BY <1>3 DEF DestroyWallet, IInv, PhaseInv, ChainInv, Banking, Signed, Settles,
                  clientVars, chain
  <2> QED
      BY <2>1, <2>2 DEF IInv
<1>4. ASSUME NewRound PROVE IInv'
    BY <1>4, RoundInv
<1>5. CASE UNCHANGED vars
    BY <1>5 DEF vars, clientVars, walletVars, chain, IInv, TypeOK, PhaseInv, ChainInv,
                Banking, Signed, Settles
<1> QED
    BY <1>1, <1>2, <1>3, <1>4, <1>5 DEF Next

(* The inductive invariant holds of every behaviour: where client and gate *)
(* can be together (x402Client.js, x402Middleware.js), and that what an    *)
(* agent banks on is its own transaction, in the pool, confirmed or void.  *)
THEOREM PaymentInvariant == Spec => []IInv
<1> QED
    BY InitInv, StepInv, PTL DEF Spec

(* Every variable keeps its type, whatever the prices and the limit. *)
THEOREM PaymentTypes == Spec => []TypeOK
<1>1. IInv => TypeOK
    BY DEF IInv
<1> QED
    BY <1>1, PaymentInvariant, PTL

(* An agent works for a signed payment only if it was paid what it asks,   *)
(* and one that submits only once the chain has confirmed it               *)
(* (x402Verifier.js:60-73, 99-103).                                        *)
THEOREM DeliveriesPaid == Spec => []DeliveredIsPaid
<1>1. IInv => DeliveredIsPaid
  <2> SUFFICES ASSUME IInv, NEW c \in Calls, Delivered(c), Signed(c)
               PROVE  /\ txn[c].to = PayTo[AgentOf[c]] /\ txn[c].amount >= Price[AgentOf[c]]
                      /\ Settles(c) => txn[c] \in ledger
      BY DEF DeliveredIsPaid
  <2>1. txn[c].to = PayTo[AgentOf[c]] /\ txn[c].amount = Price[AgentOf[c]]
      BY DEF IInv, PhaseInv
  <2>2. Price[AgentOf[c]] \in Nat
      BY PaymentAssumption
  <2>3. Settles(c) => txn[c] \in ledger
      BY DEF IInv, ChainInv, Banking, Delivered
  <2> QED
      BY <2>1, <2>2, <2>3
<1> QED
    BY <1>1, PaymentInvariant, PTL

(* Agents that submit never work twice for one transaction, though two     *)
(* calls of a session may sign the same one (wallet.js:57-65).             *)
THEOREM TransfersServeOnce == Spec => []OneTransferOneService
<1>1. IInv => OneTransferOneService
    BY DEF IInv, ChainInv, Banking, OneTransferOneService, Delivered
<1> QED
    BY <1>1, PaymentInvariant, PTL

(* Fewer transactions fit within a longer stretch. *)
LEMMA FitFewer ==
    ASSUME NEW us, NEW ts \in SUBSET us, NEW n \in Nat, NEW m \in Nat, n <= m,
           us \subseteq Transactions, FitWithin(us, n)
    PROVE  FitWithin(ts, m)
<1>1. PICK start \in [us -> 0..n] : \A t \in us :
            /\ start[t] + t.amount <= n
            /\ \A u \in us \ {t} :
                  start[t] + t.amount <= start[u] \/ start[u] + u.amount <= start[t]
    BY DEF FitWithin
<1> DEFINE kept == [t \in ts |-> start[t]]
<1>2. kept \in [ts -> 0..m] /\ \A t \in ts : kept[t] = start[t]
    OBVIOUS
<1>3. \A t \in ts : t.amount \in Nat /\ start[t] \in Nat
    BY DEF Transactions
<1> HIDE DEF kept
<1>4. \A t \in ts : kept[t] + t.amount <= m
    BY <1>1, <1>2, <1>3
<1> QED
    BY <1>1, <1>2, <1>4 DEF FitWithin

(* One more transaction fits behind the others when the stretch grows by   *)
(* its amount; one of them again fits where it was.                        *)
LEMMA FitOneMore ==
    ASSUME NEW ts, ts \subseteq Transactions, NEW t \in Transactions, NEW n \in Nat,
           FitWithin(ts, n)
    PROVE  FitWithin(ts \cup {t}, n + t.amount)
<1>1. t.amount \in Nat /\ \A u \in ts : u.amount \in Nat
    BY DEF Transactions
<1>2. CASE t \in ts
  <2>1. ts \cup {t} = ts
      BY <1>2
  <2> QED
      BY <1>1, <2>1, FitFewer
<1>3. CASE t \notin ts
  <2>1. PICK start \in [ts -> 0..n] : \A u \in ts :
            /\ start[u] + u.amount <= n
            /\ \A v \in ts \ {u} :
                  start[u] + u.amount <= start[v] \/ start[v] + v.amount <= start[u]
      BY DEF FitWithin
  <2> DEFINE more == [u \in ts \cup {t} |-> IF u = t THEN n ELSE start[u]]
  <2>2. /\ more \in [ts \cup {t} -> 0..(n + t.amount)]
        /\ more[t] = n /\ \A u \in ts : more[u] = start[u] /\ start[u] \in Nat
      BY <1>1, <1>3
  <2> HIDE DEF more
  <2>3. ASSUME NEW u \in ts \cup {t}
        PROVE  /\ more[u] + u.amount <= n + t.amount
               /\ \A v \in (ts \cup {t}) \ {u} :
                     more[u] + u.amount <= more[v] \/ more[v] + v.amount <= more[u]
    <3>1. CASE u = t
        BY <1>1, <2>1, <2>2, <3>1
    <3>2. CASE u \in ts
        BY <1>1, <2>1, <2>2, <3>2
    <3> QED
        BY <3>1, <3>2
  <2> QED
      BY <2>2, <2>3 DEF FitWithin
<1> QED
    BY <1>2, <1>3

LEMMA SignedCountedInit == Init => SignedCounted
<1> SUFFICES ASSUME Init, NEW w \in Wallets PROVE FitWithin(SignedFor(w), spent[w])
    BY DEF SignedCounted
<1>1. SignedFor(w) = {} /\ spent[w] = 0
    BY DEF Init, SignedFor, Signed
<1>2. [t \in {} |-> 0] \in [{} -> 0..0]
    OBVIOUS
<1> QED
    BY <1>1, <1>2 DEF FitWithin

(* A new signature is counted as it is made; nothing else signs or counts. *)
LEMMA SignedCountedStep == IInv /\ SignedCounted /\ [Next]_vars => SignedCounted'
<1> SUFFICES ASSUME IInv, SignedCounted, [Next]_vars, NEW w \in Wallets
             PROVE  FitWithin(SignedFor(w)', spent'[w])
    BY DEF SignedCounted
<1>1. FitWithin(SignedFor(w), spent[w])
    BY DEF SignedCounted
<1>2. ASSUME \A d \in Calls : (Signed(d)' <=> Signed(d)) /\ txn'[d] = txn[d],
             spent'[w] = spent[w]
      PROVE  FitWithin(SignedFor(w)', spent'[w])
  <2>1. SignedFor(w)' = SignedFor(w)
      BY <1>2 DEF SignedFor
  <2> QED
      BY <1>1, <1>2, <2>1
<1>3. ASSUME NEW c \in Calls, SignPayment(c)
      PROVE  FitWithin(SignedFor(w)', spent'[w])
  <2>1. PICK r \in 0..round : txn' = [txn EXCEPT ![c] = Payment(c, r)]
      BY <1>3 DEF SignPayment
  <2>2. proof' = [proof EXCEPT ![c] = "signed"] /\ ~ Signed(c)
      BY <1>3 DEF SignPayment, CanSign, IInv, PhaseInv, Signed
  <2>3. /\ Signed(c)' /\ txn'[c] = Payment(c, r)
        /\ \A d \in Calls \ {c} : (Signed(d)' <=> Signed(d)) /\ txn'[d] = txn[d]
      BY <2>1, <2>2 DEF IInv, TypeOK, Signed
  <2>4. CASE WalletOf[c] = w
    <3>1. SignedFor(w)' = SignedFor(w) \cup {Payment(c, r)}
        BY <2>2, <2>3, <2>4 DEF SignedFor
    <3>2. Payment(c, r) \in Transactions /\ Payment(c, r).amount = Price[AgentOf[c]]
        BY PaymentType, PaymentAssumption DEF Payment, IInv, TypeOK
    <3>3. SignedFor(w) \subseteq Transactions /\ spent[w] \in Nat
        BY DEF SignedFor, IInv, TypeOK
    <3>4. spent'[w] = spent[w] + Price[AgentOf[c]]
        BY <1>3, <2>4 DEF SignPayment, Charged, IInv, TypeOK
    <3> HIDE DEF IInv
    <3> QED
        BY <1>1, <3>1, <3>2, <3>3, <3>4, FitOneMore
  <2>5. CASE WalletOf[c] # w
    <3>1. SignedFor(w)' = SignedFor(w)
        BY <2>3, <2>5 DEF SignedFor
    <3>2. spent'[w] = spent[w]
        BY <1>3, <2>5 DEF SignPayment, Charged, IInv, TypeOK
    <3> QED
        BY <1>1, <3>1, <3>2
  <2> QED
      BY <2>4, <2>5
<1>4. ASSUME NEW c \in Calls, Moves(c)
      PROVE  FitWithin(SignedFor(w)', spent'[w])
  <2>1. /\ \A d \in Calls : (Signed(d)' <=> Signed(d)) /\ txn'[d] = txn[d]
        /\ spent'[w] = spent[w]
      BY <1>4 DEF Moves, IInv, TypeOK, Signed, walletVars
  <2> QED
      BY <1>2, <2>1
<1>5. ASSUME UNCHANGED <<proof, txn, spent>> PROVE FitWithin(SignedFor(w)', spent'[w])
    BY <1>2, <1>5 DEF Signed
<1>6. ASSUME NEW c \in Calls, Client(c) PROVE FitWithin(SignedFor(w)', spent'[w])
    BY <1>3, <1>4, <1>6, ClientMoves DEF Client
<1>7. ASSUME NEW c \in Calls, Gate(c) PROVE UNCHANGED <<proof, txn, spent>>
    BY <1>7 DEF Gate, Verify, Submit, AwaitConfirmation, clientVars, walletVars
<1>8. CASE (\E v \in Wallets : DestroyWallet(v)) \/ NewRound \/ UNCHANGED vars
    BY <1>5, <1>8 DEF DestroyWallet, NewRound, vars, clientVars, walletVars
<1> QED
    BY <1>5, <1>6, <1>7, <1>8 DEF Next

(* What the chain takes from a wallet it has counted, within its limit     *)
(* (wallet.js:47, 65): of what was signed, the chain takes each            *)
(* transaction at most once, and all that was signed was counted.          *)
THEOREM TransfersCounted == Spec => []TransfersWithinSpent
<1>1. IInv /\ SignedCounted => TransfersWithinSpent
  <2> SUFFICES ASSUME IInv, SignedCounted, NEW w \in Wallets
               PROVE  FitWithin({t \in pool \cup ledger : t.from = w}, spent[w])
      BY DEF TransfersWithinSpent, IInv, ChainInv
  <2>1. FitWithin(SignedFor(w), spent[w])
      BY DEF SignedCounted
  <2>2. {t \in pool \cup ledger : t.from = w} \subseteq SignedFor(w)
      BY DEF IInv, PhaseInv, ChainInv, SignedFor
  <2>3. SignedFor(w) \subseteq Transactions /\ spent[w] \in Nat
      BY DEF SignedFor, IInv, TypeOK
  <2> QED
      BY <2>1, <2>2, <2>3, FitFewer
<1> QED
    BY <1>1, SignedCountedInit, SignedCountedStep, PaymentInvariant, PTL DEF Spec

(* Steps of the client that only move it are not seen by PaidService. *)
LEMMA MovesStutter ==
    ASSUME NEW c \in Calls, IInv, Moves(c)
    PROVE  UNCHANGED Service!service
<1>1. \A d \in Calls : Signed(d)' <=> Signed(d)
    BY DEF IInv, TypeOK, Moves, Signed
<1>2. UNCHANGED <<txn, agent, ledger>>
    BY DEF Moves, chain
<1>3. UNCHANGED Claims
    BY <1>1, <1>2 DEF Claims
<1>4. UNCHANGED Verdicts
    BY <1>2 DEF Verdicts, VerdictOf
<1> QED
    BY <1>2, <1>3, <1>4 DEF Service!service

(* Signing is the offer of a payment. *)
LEMMA SignOffers ==
    ASSUME NEW c \in Calls, IInv, SignPayment(c)
    PROVE  Service!Offer(c)
<1>1. proof[c] = "none" /\ agent[c] = "none"
    BY DEF IInv, PhaseInv, SignPayment, CanSign
<1>2. PICK r \in 0..round : txn' = [txn EXCEPT ![c] = Payment(c, r)]
    BY DEF SignPayment
<1>3. r \in 0..MaxRound /\ proof' = [proof EXCEPT ![c] = "signed"]
    BY PaymentAssumption DEF IInv, TypeOK, SignPayment
<1>4. Verdicts[c] = "open" /\ Claims[c] = {}
    BY <1>1 DEF Verdicts, Claims, VerdictOf, Signed
<1>5. Claims' = [Claims EXCEPT ![c] = {Payment(c, r)}]
  <2>1. Claims'[c] = {Payment(c, r)}
      BY <1>2, <1>3 DEF Claims, Signed, IInv, TypeOK
  <2>2. \A d \in Calls \ {c} : Claims'[d] = Claims[d]
      BY <1>2, <1>3 DEF Claims, Signed, IInv, TypeOK
  <2>3. Claims = [d \in Calls |-> Claims[d]] /\ Claims' = [d \in Calls |-> Claims'[d]]
      BY DEF Claims
  <2> QED
      BY <2>1, <2>2, <2>3
<1>6. UNCHANGED <<Verdicts, ledger>>
    BY DEF Verdicts, VerdictOf, SignPayment, chain
<1>7. Payment(c, r) \in Payments
    BY <1>3 DEF Payments
<1> QED
    BY <1>4, <1>5, <1>6, <1>7 DEF Service!Offer

(* The gate either works on, unseen, or answers: it delivers on credit or  *)
(* for a settled payment nobody else is served for, or it refuses.         *)
LEMMA GateAnswers ==
    ASSUME NEW c \in Calls, IInv, Gate(c)
    PROVE  Service!Deliver(c) \/ Service!Refuse(c) \/ UNCHANGED Service!service
<1>1. PICK how \in AgentPhases : agent' = [agent EXCEPT ![c] = how]
    BY DEF Gate, Verify, Submit, AwaitConfirmation, Answer, AgentPhases
<1>2. UNCHANGED <<proof, txn, ledger>>
    BY DEF Gate, Verify, Submit, AwaitConfirmation, clientVars, chain
<1>3. UNCHANGED Claims
    BY <1>2 DEF Claims, Signed
<1>4. Verdicts[c] = "open"
    BY DEF Gate, Verify, Submit, AwaitConfirmation, Verdicts, VerdictOf
<1>5. ASSUME NEW v, v = (IF how = "accepted" THEN "delivered"
                         ELSE IF how = "refused" THEN "refused" ELSE "open")
      PROVE  Verdicts' = [Verdicts EXCEPT ![c] = v]
  <2>1. Verdicts'[c] = v /\ \A d \in Calls \ {c} : Verdicts'[d] = Verdicts[d]
      BY <1>1, <1>5 DEF Verdicts, VerdictOf, IInv, TypeOK
  <2>2. Verdicts = [d \in Calls |-> Verdicts[d]] /\ Verdicts' = [d \in Calls |-> Verdicts'[d]]
      BY DEF Verdicts
  <2> QED
      BY <2>1, <2>2
<1>6. CASE how = "accepted"
  <2>1. Settles(c) /\ Signed(c) => Banking(c)' /\ txn[c] \in ledger
      BY <1>1, <1>2, <1>6 DEF Gate, Verify, Submit, AwaitConfirmation, Answer, Banking, Signed,
                             Settles, IInv, TypeOK, PhaseInv
  <2>2. ChainInv'
      BY GateInv DEF IInv
  <2>3. \A d \in Calls \ {c} : Verdicts[d] = "delivered" /\ Settles(d) /\ Signed(d) => Banking(d)'
      BY <1>1, <1>2 DEF Banking, Signed, Settles, Verdicts, VerdictOf, IInv, TypeOK
  <2>4. \A d \in Calls \ {c} :
            Settles(c) /\ Settles(d) /\ Verdicts[d] = "delivered" => Claims[c] \cap Claims[d] = {}
    <3> SUFFICES ASSUME NEW d \in Calls \ {c}, Settles(c), Settles(d), Verdicts[d] = "delivered",
                        Signed(c), Signed(d)
                 PROVE  txn[c] # txn[d]
        BY DEF Claims
    <3>1. Banking(c)' /\ Banking(d)'
        BY <2>1, <2>3
    <3>2. txn'[c] # txn'[d]
        BY <2>2, <3>1 DEF ChainInv
    <3> QED
        BY <1>2, <3>2
  <2>5. c \in {d \in Calls : AgentOf[d] \in Submitting} => Service!Backed(c)
      BY <2>1, <2>4 DEF Service!Backed, Settles, Claims
  <2>6. Verdicts' = [Verdicts EXCEPT ![c] = "delivered"]
      BY <1>5, <1>6
  <2> QED
      BY <1>2, <1>3, <1>4, <2>5, <2>6 DEF Service!Deliver
<1>7. CASE how = "refused"
  <2>1. Verdicts' = [Verdicts EXCEPT ![c] = "refused"]
      BY <1>5, <1>7
  <2> QED
      BY <1>2, <1>3, <1>4, <2>1 DEF Service!Refuse
<1>8. CASE how \notin {"accepted", "refused"}
  <2>1. UNCHANGED Verdicts
    <3>1. Verdicts' = [Verdicts EXCEPT ![c] = "open"]
        BY <1>5, <1>8
    <3>2. Verdicts = [d \in Calls |-> Verdicts[d]]
        BY DEF Verdicts
    <3> QED
        BY <1>4, <3>1, <3>2
  <2> QED
      BY <1>2, <1>3, <2>1 DEF Service!service
<1> QED
    BY <1>6, <1>7, <1>8

(* A payment's whole way through client, gate and chain implements         *)
(* PaidService: each call is answered at most once, and a settling agent   *)
(* delivers on credit or for its caller's own confirmed payment.           *)
THEOREM Refinement == Spec => ImplementsService
<1>1. Init => Service!Init
    BY DEF Init, Service!Init, Verdicts, Claims, VerdictOf, Signed
<1>2. IInv /\ [Next]_vars => [Service!Next]_(Service!service)
  <2> SUFFICES ASSUME IInv, [Next]_vars PROVE Service!Next \/ UNCHANGED Service!service
      BY DEF Service!Next
  <2>1. ASSUME NEW c \in Calls, Client(c) PROVE Service!Next \/ UNCHANGED Service!service
      BY <2>1, ClientMoves, MovesStutter, SignOffers DEF Client, Service!Next
  <2>2. ASSUME NEW c \in Calls, Gate(c) PROVE Service!Next \/ UNCHANGED Service!service
      BY <2>2, GateAnswers DEF Service!Next
  <2>3. ASSUME UNCHANGED <<proof, txn, agent>> PROVE UNCHANGED <<Verdicts, Claims>>
      BY <2>3 DEF Verdicts, Claims, VerdictOf, Signed
  <2>4. ASSUME NEW w \in Wallets, DestroyWallet(w) PROVE UNCHANGED Service!service
      BY <2>3, <2>4 DEF DestroyWallet, clientVars, chain, Service!service
  <2>5. ASSUME NewRound PROVE Service!Next
    <3>1. UNCHANGED <<proof, txn, agent>> /\ ledger \subseteq ledger' /\ ledger' \ ledger \subseteq pool
        BY <2>5 DEF NewRound, clientVars
    <3>2. pool \subseteq UNION {Claims[d] : d \in Calls}
        BY DEF IInv, ChainInv, Claims
    <3> QED
        BY <2>3, <3>1, <3>2 DEF Service!Settle, Service!Next
  <2>6. CASE UNCHANGED vars
      BY <2>3, <2>6 DEF vars, clientVars, chain, Service!service
  <2> QED
      BY <2>1, <2>2, <2>4, <2>5, <2>6 DEF Next
<1> QED
    BY <1>1, <1>2, PaymentInvariant, PTL DEF Spec, ImplementsService, Service!Spec
=============================================================================
