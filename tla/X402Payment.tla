----------------------------- MODULE X402Payment -----------------------------
(***************************************************************************)
(* Paying an agent over HTTP 402, both ends of it and the chain between:   *)
(* the client's pay-once loop (src/src/payments/x402Client.js) over the    *)
(* wallet of its session (wallet.js), the gate in front of the agent       *)
(* (x402Middleware.js) and its verifier (x402Verifier.js), which checks a  *)
(* payment or also submits it and waits for the chain.                     *)
(*                                                                         *)
(* An action is the code between two awaits, of the client or of the       *)
(* agent.  Connections break at any time and the agent notices nothing.    *)
(* The chain (external) takes a transaction at most once and confirms it   *)
(* late, or never.                                                         *)
(***************************************************************************)
EXTENDS Integers

CONSTANTS
    Calls,          \* calls of fetchWithPayment
    Wallets,        \* ephemeral wallets, one per session
    Agents,         \* gated endpoints
    Addresses,      \* Algorand addresses
    NoAddress,      \* payTo is the empty string
    WalletOf,       \* the wallet a call pays from
    AgentOf,        \* the agent it calls
    PayTo,          \* the payTo of an agent's requirement
    Price,          \* its amountMicroAlgo
    Submitting,     \* the agents whose X402_VERIFY_MODE is "submit"
    SpendingLimit,  \* spendingLimit of every wallet
    Window,         \* rounds a signed transaction stays valid
    MaxRound        \* bound on the rounds of the chain

ASSUME PaymentAssumption ==
    /\ WalletOf \in [Calls -> Wallets] /\ AgentOf \in [Calls -> Agents]
    /\ PayTo \in [Agents -> Addresses \cup {NoAddress}] /\ NoAddress \notin Addresses
    /\ Price \in [Agents -> Nat] /\ Submitting \subseteq Agents
    /\ SpendingLimit \in Nat /\ Window \in Nat /\ MaxRound \in Nat

VARIABLES
    client,   \* where each call is
    proof,    \* the X-Payment header it sends: "none", "simulated", "signed"
    txn,      \* the transaction it signed
    agent,    \* where the gate is with the paid request
    wallet,   \* "live", "destroyed"
    spent,    \* wallet.spent
    round,    \* the last round of the chain
    pool,     \* the transactions a node has taken and no round confirmed
    ledger    \* the confirmed ones

clientVars == <<client, proof, txn>>
walletVars == <<wallet, spent>>
chain      == <<round, pool, ledger>>
vars == <<clientVars, agent, walletVars, chain>>

(* Every field of a payment: two calls that agree on all of them, of one   *)
(* session in one round, sign the same transaction.                        *)
Transactions ==
    [from : Wallets, to : Addresses \cup {NoAddress}, amount : Nat, round : Nat]

ClientPhases == {"idle", "asking", "params", "paying", "served", "failed"}
AgentPhases  == {"none", "sending", "confirming", "accepted", "refused"}

(* The transaction of a call over the parameters of round r. *)
Payment(c, r) ==
    [from |-> WalletOf[c], to |-> PayTo[AgentOf[c]], amount |-> Price[AgentOf[c]], round |-> r]

Init ==
    /\ client = [c \in Calls |-> "idle"]
    /\ proof = [c \in Calls |-> "none"]
    /\ txn = [c \in Calls |-> Payment(c, 0)]
    /\ agent = [c \in Calls |-> "none"]
    /\ wallet = [w \in Wallets |-> "live"] /\ spent = [w \in Wallets |-> 0]
    /\ round = 0 /\ pool = {} /\ ledger = {}

-----------------------------------------------------------------------------
(* The client.                                                             *)

Call(c) ==
    /\ client[c] = "idle"
    /\ client' = [client EXCEPT ![c] = "asking"]
    /\ UNCHANGED <<proof, txn, agent, walletVars, chain>>

(* _simulatePayment, and the retry with its header. *)
Simulate(c) ==
    /\ proof' = [proof EXCEPT ![c] = "simulated"]
    /\ client' = [client EXCEPT ![c] = "paying"]

(* The gate answers 402 to a request without payment; without a usable     *)
(* wallet the client simulates one at once, else it asks for parameters.   *)
RequirePayment(c) ==
    /\ client[c] = "asking"
    /\ \/ /\ wallet[WalletOf[c]] = "live"
          /\ client' = [client EXCEPT ![c] = "params"] /\ UNCHANGED proof
       \/ wallet[WalletOf[c]] = "destroyed" /\ Simulate(c)
    /\ UNCHANGED <<txn, agent, walletVars, chain>>

(* Algorand is unreachable, there is no address to pay, or signing throws. *)
FallBack(c) ==
    /\ client[c] = "params"
    /\ Simulate(c)
    /\ UNCHANGED <<txn, agent, walletVars, chain>>

CanSign(c) ==
    /\ client[c] = "params"
    /\ PayTo[AgentOf[c]] # NoAddress
    /\ wallet[WalletOf[c]] = "live"

Affordable(c) == Price[AgentOf[c]] <= SpendingLimit - spent[WalletOf[c]]

(* The wallet after paying, and two faulty variants: it charges the fee of *)
(* one payment only, or adds the amount to what is left.                   *)
ChargedOnce(c) == [spent EXCEPT ![WalletOf[c]] = Price[AgentOf[c]]]
Refunded(c)    == [spent EXCEPT ![WalletOf[c]] = @ - Price[AgentOf[c]]]
Charged(c)     == [spent EXCEPT ![WalletOf[c]] = @ + Price[AgentOf[c]]]

(* signPayment tests the limit, signs and charges in one synchronous step, *)
(* over the parameters the node sent, this round or some rounds ago.       *)
SignPayment(c) ==
    /\ CanSign(c) /\ Affordable(c)
    /\ spent' = Charged(c)
    /\ \E r \in 0..round : txn' = [txn EXCEPT ![c] = Payment(c, r)]
    /\ proof' = [proof EXCEPT ![c] = "signed"]
    /\ client' = [client EXCEPT ![c] = "paying"]
    /\ UNCHANGED <<agent, wallet, chain>>

(* Over the limit: the call throws. *)
RefusePayment(c) ==
    /\ CanSign(c) /\ ~ Affordable(c)
    /\ client' = [client EXCEPT ![c] = "failed"]
    /\ UNCHANGED <<proof, txn, agent, walletVars, chain>>

(* The answer to the paid request: a result with its receipt, or a second  *)
(* 402, which the client does not pay.                                     *)
ReceiveAnswer(c) ==
    /\ client[c] = "paying"
    /\ \/ agent[c] = "accepted" /\ client' = [client EXCEPT ![c] = "served"]
       \/ agent[c] = "refused" /\ client' = [client EXCEPT ![c] = "failed"]
    /\ UNCHANGED <<proof, txn, agent, walletVars, chain>>

(* fetch rejects.  What was sent may arrive, or be worked on, all the same. *)
LoseConnection(c) ==
    /\ client[c] \in {"asking", "paying"}
    /\ client' = [client EXCEPT ![c] = "failed"]
    /\ UNCHANGED <<proof, txn, agent, walletVars, chain>>

(* The session ends: destroyWallet, whatever its calls are doing. *)
DestroyWallet(w) ==
    /\ wallet[w] = "live"
    /\ wallet' = [wallet EXCEPT ![w] = "destroyed"]
    /\ UNCHANGED <<clientVars, agent, spent, chain>>

-----------------------------------------------------------------------------
(* The agent's gate.                                                       *)

(* What verify() tests of a decoded transaction before it looks at the     *)
(* mode: an agent without an address takes any receiver.                   *)
Acceptable(c) ==
    /\ PayTo[AgentOf[c]] # NoAddress => txn[c].to = PayTo[AgentOf[c]]
    /\ txn[c].amount >= Price[AgentOf[c]]

Answer(c, how) == agent' = [agent EXCEPT ![c] = how]

(* verify() up to its first await.  A simulated payment passes in either   *)
(* mode; any exception refuses.                                            *)
Verify(c) ==
    /\ proof[c] # "none" /\ agent[c] = "none"
    /\ \/ proof[c] = "simulated" /\ Answer(c, "accepted")
       \/ /\ proof[c] = "signed" /\ Acceptable(c)
          /\ Answer(c, IF AgentOf[c] \in Submitting THEN "sending" ELSE "accepted")
       \/ proof[c] = "signed" /\ Answer(c, "refused")
    /\ UNCHANGED <<clientVars, walletVars, chain>>

(* The node takes a transaction once, while it is valid. *)
Admissible(t) == t \notin pool \cup ledger /\ round <= t.round + Window

(* sendRawTransaction resolves, or rejects; an error may also hide that    *)
(* the node took the transaction.  Faulty variant: an error is taken for   *)
(* "somebody has sent it already", and the verifier waits for it.          *)
SubmitTolerant(c) ==
    /\ agent[c] = "sending"
    /\ pool' = IF Admissible(txn[c]) THEN pool \cup {txn[c]} ELSE pool
    /\ Answer(c, "confirming")
    /\ UNCHANGED <<clientVars, walletVars, round, ledger>>

Submit(c) ==
    /\ agent[c] = "sending"
    /\ \/ Admissible(txn[c]) /\ pool' = pool \cup {txn[c]} /\ Answer(c, "confirming")
       \/ Admissible(txn[c]) /\ pool' = pool \cup {txn[c]} /\ Answer(c, "refused")
       \/ UNCHANGED pool /\ Answer(c, "refused")
    /\ UNCHANGED <<clientVars, walletVars, round, ledger>>

(* Faulty variant of AwaitConfirmation: submitted is as good as confirmed. *)
AwaitNothing(c) ==
    /\ agent[c] = "confirming" /\ Answer(c, "accepted")
    /\ UNCHANGED <<clientVars, walletVars, chain>>

(* waitForConfirmation: it resolves once the transaction is confirmed, and *)
(* rejects after four rounds, or when the node stops answering.            *)
AwaitConfirmation(c) ==
    /\ agent[c] = "confirming"
    /\ \/ txn[c] \in ledger /\ Answer(c, "accepted")
       \/ Answer(c, "refused")
    /\ UNCHANGED <<clientVars, walletVars, chain>>

-----------------------------------------------------------------------------
(* A new round confirms some of the pool and drops what is out of date. *)
NewRound ==
    /\ round < MaxRound
    /\ round' = round + 1
    /\ \E confirmed \in SUBSET {t \in pool : round + 1 <= t.round + Window} :
          /\ ledger' = ledger \cup confirmed
          /\ pool' = {t \in pool \ confirmed : round + 1 <= t.round + Window}
    /\ UNCHANGED <<clientVars, agent, walletVars>>

Client(c) == \/ Call(c) \/ RequirePayment(c) \/ FallBack(c) \/ SignPayment(c)
             \/ RefusePayment(c) \/ ReceiveAnswer(c) \/ LoseConnection(c)

Gate(c) == Verify(c) \/ Submit(c) \/ AwaitConfirmation(c)

Next == \/ \E c \in Calls : Client(c) \/ Gate(c)
        \/ \E w \in Wallets : DestroyWallet(w)
        \/ NewRound

Spec == Init /\ [][Next]_vars

-----------------------------------------------------------------------------
(* Types: the transactions a node holds and the chain confirmed are        *)
(* payments of the session's wallets.                                      *)
TypeOK ==
    /\ client \in [Calls -> ClientPhases]
    /\ proof \in [Calls -> {"none", "simulated", "signed"}]
    /\ txn \in [Calls -> Transactions]
    /\ agent \in [Calls -> AgentPhases]
    /\ wallet \in [Wallets -> {"live", "destroyed"}]
    /\ spent \in [Wallets -> Nat]
    /\ round \in 0..MaxRound
    /\ pool \subseteq Transactions /\ ledger \subseteq Transactions

Delivered(c) == agent[c] = "accepted"
Signed(c)    == proof[c] = "signed"
Settles(c)   == AgentOf[c] \in Submitting

(* Work is done for a signed payment only if it pays this agent what it    *)
(* asks, and an agent that submits works only once the chain has confirmed *)
(* it, whatever broke in between (x402Verifier.js:7-8).                    *)
DeliveredIsPaid ==
    \A c \in Calls : Delivered(c) /\ Signed(c) =>
        /\ txn[c].to = PayTo[AgentOf[c]] /\ txn[c].amount >= Price[AgentOf[c]]
        /\ Settles(c) => txn[c] \in ledger

(* Two calls of one session to one address in one round sign the same      *)
(* transaction: agents that submit do not both work for it.                *)
OneTransferOneService ==
    \A c, d \in Calls :
        /\ c # d /\ Delivered(c) /\ Delivered(d)
        /\ Signed(c) /\ Signed(d) /\ Settles(c) /\ Settles(d)
        => txn[c] # txn[d]

(* The transactions ts lie side by side, each as long as its amount, in a  *)
(* stretch of this length: together they move no more than it.             *)
FitWithin(ts, length) ==
    \E start \in [ts -> 0..length] : \A t \in ts :
        /\ start[t] + t.amount <= length
        /\ \A u \in ts \ {t} :
              start[t] + t.amount <= start[u] \/ start[u] + u.amount <= start[t]

(* However payments are repeated, dropped or confirmed late, what the      *)
(* chain takes from a wallet is covered by what the wallet counted, within *)
(* its limit (wallet.js:47, 65).                                           *)
TransfersWithinSpent ==
    \A w \in Wallets :
        /\ FitWithin({t \in pool \cup ledger : t.from = w}, spent[w])
        /\ spent[w] <= SpendingLimit

-----------------------------------------------------------------------------
(* The inductive invariant.                                                *)

(* Where the client and the gate can be together, and what was signed. *)
PhaseInv ==
    \A c \in Calls :
        /\ client[c] \in {"idle", "asking", "params"} => proof[c] = "none"
        /\ agent[c] # "none" => proof[c] # "none"
        /\ agent[c] \in {"sending", "confirming"} => Signed(c) /\ Settles(c)
        /\ Signed(c) => /\ PayTo[AgentOf[c]] # NoAddress
                        /\ txn[c].from = WalletOf[c] /\ txn[c].to = PayTo[AgentOf[c]]
                        /\ txn[c].amount = Price[AgentOf[c]]

(* The calls an agent works for, or will, once the chain confirms.         *)
Banking(c) == Settles(c) /\ Signed(c) /\ agent[c] \in {"confirming", "accepted"}

(* A transaction is banked on by the one call whose submission was taken.  *)
(* It may be dropped from the pool, but then it is out of date for good.   *)
ChainInv ==
    /\ \A c \in Calls : Banking(c) =>
          txn[c] \in pool \cup ledger \/ round > txn[c].round + Window
    /\ \A c, d \in Calls : c # d /\ Banking(c) /\ Banking(d) => txn[c] # txn[d]
    /\ \A c \in Calls : Banking(c) /\ agent[c] = "accepted" => txn[c] \in ledger
    /\ pool \cup ledger \subseteq {txn[c] : c \in {d \in Calls : Signed(d)}}
    /\ \A w \in Wallets : spent[w] <= SpendingLimit

IInv == TypeOK /\ PhaseInv /\ ChainInv

(* All that was signed is counted, whether or not the chain has seen it:   *)
(* what makes TransfersWithinSpent inductive.                              *)
SignedFor(w)  == {txn[c] : c \in {d \in Calls : Signed(d) /\ WalletOf[d] = w}}
SignedCounted == \A w \in Wallets : FitWithin(SignedFor(w), spent[w])

-----------------------------------------------------------------------------
(* The abstract view: each call's verdict, its payment, and what the chain *)
(* has moved.                                                              *)
VerdictOf(c) == IF agent[c] = "accepted" THEN "delivered"
                ELSE IF agent[c] = "refused" THEN "refused" ELSE "open"

Verdicts == [c \in Calls |-> VerdictOf(c)]
Claims   == [c \in Calls |-> IF Signed(c) THEN {txn[c]} ELSE {}]
Payments == {Payment(c, r) : c \in Calls, r \in 0..MaxRound}

Service == INSTANCE PaidService WITH
    Settling <- {c \in Calls : AgentOf[c] \in Submitting},
    verdict <- Verdicts, claim <- Claims, settled <- ledger

(* The client, the gate and the chain together keep the promise of         *)
(* PaidService: a call is answered once, a delivery is on credit or backed *)
(* by its own settled payment, and only offered payments move money.       *)
ImplementsService == Service!Spec
=============================================================================
