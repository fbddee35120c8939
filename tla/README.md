# DecentralThink Core: verification project

TLA+ models of the program under `src/src/`, TLC instances that check them, and
TLAPS proofs of their main results. Paths below are relative to the repository
root (`src/…` is its JavaScript, `scripts/…` its SQL); `PROJECT.json` prefixes them
with the checkout directory and maps every definition to the lines it stands for.

- [1. The system](#1-the-system)
- [2. Modules](#2-modules)
- [3. What each run checks](#3-what-each-run-checks)
- [4. Bounds](#4-bounds)
- [5. Fairness](#5-fairness)
- [6. What is proved](#6-what-is-proved)
- [7. What is only model-checked](#7-what-is-only-model-checked)
- [8. Where the code and its texts disagree](#8-where-the-code-and-its-texts-disagree)
- [9. Assumptions, and what is not modelled](#9-assumptions-and-what-is-not-modelled)
- [10. Plan](#10-plan)

## 1. The system

One Node.js process (Express 4) with a PostgreSQL database. A signed-in wallet
posts a task; the process decomposes it with a language model, runs the steps in
batches (locally, or at external agents that ask for payment over HTTP 402), and
records what happened. Everything shared between requests is either a database
row or one of two in-memory objects: the nonce `Map` and, per invocation, the
objects `Cortex.run` owns.

| Component | State | Operations | Interacts with | What is hard |
|---|---|---|---|---|
| **Cortex orchestrator** `cortex/index.js`, `executor.js` | the coroutine of `run()`, `resultsByStepId`, rows of `invocations` and `cortex_sessions` | `run`, `_executeStep`, the `_update…`/`_complete`/`_fail` queries | every component below | steps of a batch are concurrent; a failure or a timeout abandons its siblings without stopping them; every query may fail on its own |
| **Decomposer** `cortex/decomposer.js` | none | `decompose`, `buildExecutionBatches` | language model, classifier | plans with duplicate ids, dangling dependencies, cycles; cut answers |
| **Classifier, anonymizer** | none | keyword and pattern tests | decomposer, `_executeStep` | text |
| **TEE simulator** `tee/simulator.js` | one context: live or destroyed | `createContext`, `run` (a race with a timer), `destroyContext` | `run()`, steps | the timer rejects the promise, the function goes on |
| **Ephemeral wallet** `payments/wallet.js` | secret key, limit, `spent`, destroyed | create, fund (simulated), `signPayment`, destroy | x402 client, `run()` | one wallet, several parallel payers, a destruction that races them |
| **x402 client** `payments/x402Client.js` | one call: attempt, payment header | `fetchWithPayment` | wallet, Algorand, agents | pay once, then give up; an await between the test of the wallet and its use |
| **x402 server side** `payments/x402Middleware.js`, `x402Verifier.js` | none (the chain) | `requirePayment`, `verify`, submit and confirm | x402 client, Algorand | a confirmation that comes after the verifier gave up |
| **Decision record** `cortex/decisionRecord.js` | list of agent calls, totals, sealed count | `recordAgentCall`, `seal`, `fail` | database, audit logger | `seal` awaits inside a loop over a list that may still grow |
| **Audit logger, Algorand client** `blockchain/` | rows of `audit_log` | `logEvent` | database, Algorand | never throws: what it loses, it loses in silence |
| **Cost tracker** `payments/costTracker.js` | rows of `cost_ledger` | `record` | database | foreign key to a session row that may be missing |
| **Authentication** `auth/`, `api/v1/auth.js`, `middleware/auth.js` | nonce `Map`; rows of `sessions` | nonce, verify, validate, logout, prune | every authenticated route | memory and database do not survive a restart alike; verification awaits between test and use; expiry |
| **Marketplace** `marketplace/`, `api/v1/marketplace.js` | rows of `marketplace_agents`, `agent_subscriptions` | register, deactivate, subscribe, unsubscribe, `routeTask` | `_executeStep` routes through it | read-then-write handlers; routing with one query per keyword while rows change |
| **Builder API** `api/v1/builder.js` | rows of `builder_deployments` | create, update, archive, add agent | marketplace | two queries without a transaction |
| **Messaging** `api/v1/messaging.js` | rows of `deployment_members`, `secure_messages`, `context_shares` | join, remove, send, read, share | authentication, audit logger | membership is tested in one query and used in another |
| **Vault** `vault/`, `api/v1/vault.js` | rows of `vault_entries` | put, get, list, delete | authentication | cryptography; one query per request |
| Language model client, web search, demo agents | none | answer or fail | steps | silence |
| Read-only APIs, HTTP application, dashboard, re-exports, OPA policy file | none of their own | – | – | – |

What makes each of them correct:

- *Orchestrator*: an invocation gets one final verdict; a completed one left
  nothing running, has every result and every agent call on its record, and its
  rows tell the truth; however it ends, the wallet and the enclave are destroyed.
- *Decomposer*: the batches of any answer of the model are finitely many, respect
  the dependencies when that is possible, forget no identifier, and run, and pay,
  no step twice.
- *Wallet and x402 client*: never more than the limit, whatever the interleaving;
  at most one payment per step; a destroyed wallet is inert; `spent` is exactly
  what was signed.
- *Decision record, audit log*: the sealed count, the call rows and the list agree;
  the trail never contradicts the verdict.
- *Authentication*: one session per nonce, for the wallet the nonce was drawn for,
  in time, not superseded; a logout is final and succeeds once.
- *x402, both ends*: an agent that submits payments works only for a confirmed
  transfer, and once for each; what the chain takes is covered by what the wallet
  counted.
- *Marketplace, builder*: a step goes to an agent that was active and subscribed
  while it was routed, and falls back to the default agent only if no subscribed
  specialist was there throughout; an agent is listed once, and never without a
  subscription of the owner.
- *Messaging*: sender, recipient and reader of a message are members; the inbox
  misses nothing but what the page cuts; the audit trail names rows that exist;
  members are removed by themselves or by the owner.

## 2. Modules

| Module | Models | How |
|---|---|---|
| `Decomposer` | `decompose`, one round of `buildExecutionBatches` | operators on plans: `Decompose` cuts the answer, `Ready` and `NextBatch` choose a batch |
| `ExecutionBatches` | the loop of `buildExecutionBatches` | a state machine with one action per way an iteration can go, and a reference reading of the plan as a graph (`Parents`, `ChainInto`, `Level`) |
| `SessionContract` | nothing in the code: what an invocation promises | verdict, wallet and balance of an ideal invocation |
| `CortexSession` | `POST /invoke` and everything below it: orchestrator, TEE context, wallet, x402 client, decision record, audit and cost rows | `EXTENDS Decomposer`, implements `SessionContract` |
| `CortexSession_proofs` | – | the proofs about `CortexSession` |
| `SignInService` | nothing in the code: what signing in promises to the routes behind it | nonces that can still be used, proofs, sessions, who was let in with one and who closed it |
| `Accounts` | nonces, sign-in, session validation, logout, restarts | implements `SignInService` |
| `PaidService` | nothing in the code: what an agent behind the payment gate promises | verdicts, offered payments and what has moved money |
| `X402Payment` | `fetchWithPayment`, the wallet below it, `requirePayment`, `verify` in both modes, the chain | implements `PaidService`; the detailed view of the calls that `CortexSession` leaves to agents that may answer anything |
| `Marketplace` | registry, subscriptions, routing, deployments and their `agent_ids` | stand-alone; `CortexSession`'s `Route` is the end of its `Routing` |
| `Messaging` | members, messages, context shares, their audit events | stand-alone |
| `Accounts_proofs`, `ExecutionBatches_proofs`, `X402Payment_proofs`, `Marketplace_proofs`, `Messaging_proofs` | – | the proofs about the module they are named after |
| `MCExecutionBatches`, `MCCortexSession`, `MCAccounts`, `MCX402Payment`, `MCMarketplace`, `MCMessaging` | – | finite instances for TLC |

**Actions are the code between two awaits.** JavaScript runs to the next `await`
without interruption, so this is the exact grain of interleaving. `pc` in
`CortexSession` names the await at which `run()` is suspended:

| `pc` | the await (cortex/index.js unless said) | action that leaves it |
|---|---|---|
| `new`, `accepted` | the INSERT of `POST /invoke` (api/v1/invoke.js); the spawned `run()` | `Invoke`, `OpenWallet` |
| `create_row`, `link_row` | `_createCortexSession`, its two queries | `InsertSession`, `LinkSession` |
| `mark_running` | `_updateStatus('running')`, outside the `try` | `MarkRunning` |
| `audit_start`, `decompose` | `logEvent`, `decompose` | `AuditStart`, `DecomposeTask` |
| `batch` | `Promise.all` over one batch | `FinishBatch`, or `Rejects` of a step |
| `assemble`, `spent`, `cost`, `complete` | final synthesis, `_updateSpent`, `costTracker.record`, `_complete` | `Assemble` … `Complete` |
| `seal_…` | the queries and the anchoring of `seal()` (decisionRecord.js) | `SealRecord` … `SealTxid` |
| `audit_complete`, `terminate` | `logEvent`, `_terminateCortexSession`, then `finally` | `AuditOutcome`, `Terminate` |
| `f_audit`, `f_spent`, `f_fail`, `f_finally` | the catch block | `AuditOutcome`, `UpdateSpent`, `FailInvocation`, `CleanUp` |
| `ended`, `aborted`, `rejected`, `crashed` | `run()` returned; it threw before its `try`; the INSERT of the row failed; the process died | – |

A step is two processes: `st[i]` is `_executeStep` and `fn[i]` the function it gave
to `tee.run`. They are separate because the timer of `tee.run` settles the first
and leaves the second running (`TeeTimeout`): an abandoned call still pays
(`SignPayment`), is dropped when it answers (`FnReturns`), and meets a destroyed
wallet (`SimulatePayment`). `calls` is the list of the decision record, `rows` and
`sealed` what `seal()` did with it, and `status`, `session`, `record`, `ledger` and
`trail` are the database.

In `Accounts` a sign-in (`signin[s]`) waits for the signature check, then for the
INSERT; an authenticated request (`call[c]`) waits for `validate`, and a logout for
its UPDATE. `consume()` is synchronous and therefore part of `ConsumeNonce`. A failed
UPDATE of a logout is caught by nobody, so it restarts the process (`Restarted`):
nonces and requests are lost, the table is not.

`X402Payment` follows a call on both sides of the connection: `client[c]` is where
`fetchWithPayment` is suspended, `agent[c]` where the gate is with the paid request,
so that a connection can break (`LoseConnection`) while the agent works on.
A transaction is the record of its fields, which is what its identifier is a hash
of: two calls of one wallet to one address, of one amount, over the parameters of
one round, sign the *same* transaction. The chain (external) is a pool, a ledger
and a round counter; a transaction is taken once, while it is valid, and is confirmed
in some later round or dropped.

In `Marketplace` and `Messaging` an action is one query with the code up to the next
one. A marketplace call between two queries is a record in a set (`subscribing`,
`adding`, `linking`) that `DropCalls` may remove: the next query fails, or the process
dies. Routing keeps, per step, the keywords it is done with, and reads the rows of
one keyword at a time (`TryNext`, `RouteToSpecialist`), in the order of
`CAPABILITY_MAP`, and takes the first row by `reputation_score`, then `tee_certified`
(`First`). The score of a row is fixed by its first INSERT: `Init` holds any of the
agents `migrate_sprint9.sql:84` seeds with 85, a new row has 0, and the upsert keeps
what is there. `nulled` are the deployments whose `agent_ids` a PATCH has set to NULL.
In `Messaging` a request has a `phase`. One that is refused, whose query fails or
whose process dies stays where it is for ever, and its INSERT may have been committed
all the same (`lib/db.js:15` reports a broken connection as a failure). GET context
may ask for one `context_type` (`OfType`) or for any. Both modules carry history variables (`seen`, `steady`, `around`, `since`, `before`) that no
guard reads: they only state what was true during a call.

## 3. What each run checks

| Run | Question | Properties |
|---|---|---|
| `session` | is an invocation safe under every interleaving of `run()`, its steps, abandoned calls, two failing queries and a crash? | `WithinBudget`, `SpentIsPaid`, `PaysOnce`, `DestroyedWalletIsInert` (money); `CompletedIsQuiet`, `VerdictIsFinal`, `CompletedRowsExact`, `TrailMatchesStatus`, `SealCoversCalls` (outcome and records); `ImplementsContract` (refinement); `TypeOK` |
| `session_live` | does every session clean up and get a verdict when its agents may stay silent? | `SessionCleansUp`, `VerdictReached` |
| `accounts` | do racing sign-ins, logouts, expiry, failures and restarts keep sessions proven and logouts final? | `OneSessionPerNonce`, `SessionIsProven`, `LogoutIsFinal`; `ImplementsSignIn` (refinement); `TypeOK` |
| `x402` | with identical transactions, lost connections, late confirmations and dropped payments, does the agent work for money it has, and the wallet count what it gave? | `DeliveredIsPaid`, `OneTransferOneService`, `TransfersWithinSpent`; `ImplementsService` (refinement); `TypeOK` |
| `market` | does routing over changing rows reach the right agent, and do racing builders keep their lists straight? | `RouteIsCurrent`, `SteadySpecialistsWin`, `ListedOnce`, `ListedThenSubscribed`; `TypeOK` |
| `messaging` | what do membership tests made in an earlier query still guarantee when the row is written, read or deleted? | `MessagesAmongMembers`, `AnswersToMembers`, `AnswersComplete`, `TrailNamesRows`, `RemovedByOwnerOrSelf`; `TypeOK` |
| `batches` | what does the batching loop do on any answer of the model? | `BatchIsLevel`, `DepsInPriorBatches`, `EveryIdIsBatched`, `NoStepBatchedTwice`, `LoopTerminates`; `TypeOK` |
| `batches_zones`, `key_zeroed`, `wipe_confirmed`, `record_calls`, `record_row` | does the program keep what a comment says of it? It does not: section 8 | one property each |

Every property of a passing run has a mutant in `PROJECT.json`: a plausible bug in
one mapped definition (they stand beside it as "faulty variant") under which TLC
finds that property violated.

Some properties deserve a word.

- `CompletedIsQuiet` is what `Promise.all` is for: only a session that failed, or
  died, leaves calls behind that can still pay or be recorded.
- `ImplementsContract` says that from outside all of this is a wallet that is
  funded once, pays within its limit while the invocation runs or after it failed,
  never after it completed or the wallet is closed. A failed session *may* pay
  between its verdict and its `finally`: the row may say so while the answer of the
  database is on its way. The contract allows exactly that.
- `ImplementsSignIn` says that nonces, sign-ins, requests and logouts, with all their
  races, lost queries and restarts, look from outside like a service in which a
  nonce is good for one proof, in time and until its wallet draws another, a proof
  opens one session, and one request closes it, for good, while whoever was let in
  before may still be served. Of two racing logouts the second finds nothing to
  close (its mutant drops the `revoked_at` test of the UPDATE).
- `BatchIsLevel` compares the loop with the length of the longest chain of
  dependencies into a step, which mentions no loop. `Acyclic` says that every set of
  steps has one that depends on none of the set, a chain is a function into the plan.
- `SpentIsPaid` says that there are running totals over the plan that begin at zero,
  grow by what each step paid, and end at the balance: the sum, without a recursion.
- `TransfersWithinSpent` says that the transfers fit on a line as long as the balance
  without an overlap, each as long as its amount: their sum is covered by it.
- `AnswersComplete` allows a reading request to leave out a row that was there before it
  began only if the row is not for the caller, is not of the type asked for
  (messaging.test.js:282), has expired, was read, or a full page of newer rows, all of
  them asked for, was shown in its place.
- `CompletedRowsExact` allows the spent column to lag (an abandoned step may pay after
  the amount of the last UPDATE was read, index.js:249) and forbids it to run ahead.
- `DepsInPriorBatches` holds of the plans that `BatchIsLevel` excludes as well: with
  duplicated or unknown identifiers and cycles, only the batch of what is left runs
  steps whose dependencies are not in earlier batches.
- `OneTransferOneService` is about a coincidence the code does not exclude: two calls
  of a session may sign one transaction. The chain takes it once, so at most one of
  the agents that submit may deliver for it; the wallet is charged for both, which
  `TransfersWithinSpent` allows (it counts more than was taken, never less).
- `SteadySpecialistsWin` is what is left of "the best agent" when every keyword is a
  query of its own: a specialist that was eligible from the first query to the last
  is not passed over, for a later keyword or for the default agent, nor for one of its
  keyword with a lower reputation, nor, of the same reputation, certified for plain
  (its two mutants give up after a keyword, and exchange the keys of the ORDER BY).
  It does not say that certified agents come first: section 8. An agent that
  came or went in between may be missed, and `RouteIsCurrent` still says that the
  one chosen was eligible at some instant. Both end with the choice of the route:
  the code does not look at the subscription again before it pays.
- `MessagesAmongMembers`, `AnswersToMembers` and `RemovedByOwnerOrSelf` speak of "some
  instant of the call" for the same reason: the membership is read in one query and
  relied upon in the next. What they exclude is a row for somebody who was never a
  member during the call, and a removal by one who was neither owner nor the member
  himself. `RemovedByOwnerOrSelf` is stronger than the schema: init.sql:204 and
  messaging.test.js:111 know an admin, who may remove others too. No code makes one
  (`MessagingTypes` is a theorem), so `MayRemove` has the test and never uses it; a row
  that was made an admin by hand is outside the model.
- `StartsInOrder /\ WaitsInTurn`, proved and not listed with a run, is the order of the
  steps: who starts has the results it depends on, or is in the batch of all that is
  left; while `run()` waits for a batch, the batch is not empty and everybody who
  has started and is not in it has answered.
- `SessionIsProven` relates a session row to the nonce, the time it was drawn, the
  time it was consumed, and every later nonce of that wallet.

## 4. Bounds

| Bound | Value | Why it is enough |
|---|---|---|
| `MCPlans` | six plans of up to 3 steps (a fourth is cut) | the shapes that differ: nothing to do, one step, two paying agents in parallel feeding a local step, a duplicated id with a dependency, a cycle across zones, a dependency on a step that is cut |
| `SpendingLimit`, `MCPrices` | 3 (2 for liveness), {1, 2} | two parallel payments can fit exactly, fit partly and exceed the limit |
| `MaxDbFaults` | 2 (`session`), 1 or 0 elsewhere | one failure to enter the catch block and one inside it |
| `MayCrash` | only in `session` | a crash ends the session; for liveness it is excluded |
| `MCRawPlans` | every plan of up to 3 steps over 3 ids and one unknown id; 4-step answers of distinct ids cut to 3 | cycles of length 1, 2 and 3, duplicates, dangling and cut dependencies |
| `MaxNonces`, sign-ins, calls, wallets | 2 each | two copies of one message, a superseded nonce, somebody else's nonce, two logouts of one session |
| `NonceTtl`, `SessionTtl`, `MaxTime` | 1, 2, 2 | a nonce expires at time 2, a session drawn at 0 expires at 2: on time and late both occur |
| `MaxRestarts`, `MaxDbFaults` (`accounts`) | 1, 1 | a crash, and the crash a failed logout causes |
| `x402`: calls, agents | 4, 3 | two calls that can sign one transaction for an agent that submits, one for an agent that only verifies, one for an agent without an address |
| `SpendingLimit`, price, `Window`, `MaxRound` (`x402`) | 4, 2, 1, 2 | two payments exhaust the limit and a third is refused; a transaction is confirmed at once, late, or dropped |
| `market`: agents, wallets, deployments, steps, keywords | 2 (symmetric, each seeded or not), 2, 1, 1, 3 | rivals that differ in reputation, in certificate, in both or in neither; the owner and a stranger; a built-in keyword before two of the market |
| `MaxCalls`, `MaxTime`, `Ttls` (`market`) | 4, 1, {1} | with seeded agents, two subscriptions, a route and one interfering request; a subscription that expires on the way, while those of the builder have no end |
| `messaging`: calls, wallets, deployments | 3 (symmetric), 2, 1 | the initial states hold every membership of earlier runs, so that a remover, a sender and a reader can meet; deployments share no row |
| `ContextTypes` (`messaging`) | 2 (symmetric) | a share of the type asked for, one of another, and a request for any |
| `Page`, `Ttls`, `MaxTime` (`messaging`) | 1, {1}, 1 | the page cuts as soon as there are two messages; a share expires on the way |

`CHECK_DEADLOCK FALSE` is set in every configuration because the modelled program
stops: an invocation ends, the loop is left, requests are answered.

## 5. Fairness

`FairSpec` of `CortexSession` has weak fairness of `Run` and, per step, of `Route`,
`TeeTimeout` and `AuditStep`. `Run` and `Route` wait for queries and model calls only: pg settles
its promises, `lib/llm.js` aborts a model call after its time-out, and `logEvent`
bounds its wait for Algorand by the client's. `TeeTimeout` is a timer of the event
loop. Nothing is assumed of agents: no action of `Agent` is fair, so an agent that
never answers is among the behaviours, and `SessionCleansUp` holds because of the
timer (its mutant arms the timer for local steps only). `LoopTerminates` has weak
fairness of a loop that nothing interrupts. `X402Payment`, `Marketplace`, `Messaging` and
`Accounts` state no fairness: in them a request may stop anywhere, which is what a
crash or a lost connection does, and their properties are about safety.

## 6. What is proved

Every safety property the passing runs check, invariant, action property or
refinement, is a theorem. The six proof modules have no assumption but the named
ones on the constants: `PlansAssumption` (answers are sequences of steps over any set
of identifiers, at least one step is kept), `ConstantsAssumption` (at least one step,
plans are sequences of steps, naturals), `AccountsAssumption` (lifetimes and bounds are
naturals), `PaymentAssumption`, `MarketplaceAssumption` (different keywords have
different ranks, the score of seeded agents is a natural number) and
`MessagingAssumption` (a deployment has an owner, "any type" is no type). The theorems
hold for any number of steps, plans, prices, limits, wallets, agents, requests,
rounds, restarts and failing queries.

| Theorem | Statement |
|---|---|
| *`CortexSession_proofs`* | |
| `TypeCorrect`, `Invariant` | `Spec => []TypeOK`, `[]IInv` |
| `BudgetKept`, `BalanceAddsUp` | `Spec => []WithinBudget`, `[]SpentIsPaid` |
| `CompletedQuiet` | `Spec => []CompletedIsQuiet` |
| `StepsInOrder`, `RecordsOnce`, `EndsClean` | `Spec => [](StartsInOrder /\ WaitsInTurn)`, `[]RecordedOnce`, `[]OverIsClean` |
| `SessionAdvances` | `Spec => EveryStepAdvances` |
| `VerdictKept`, `DestroyedInert`, `NeverPaysTwice` | `Spec => VerdictIsFinal`, `DestroyedWalletIsInert`, `PaysOnce` |
| `SealComplete`, `TrailHonest`, `RowsHonest` | `Spec => []SealCoversCalls`, `[]TrailMatchesStatus`, `[]CompletedRowsExact` |
| `Refinement` | `Spec => ImplementsContract` |
| *`Accounts_proofs`* | |
| `AccountsTypes`, `AccountsInvariant` | `Spec => []TypeOK`, `[]IInv` |
| `NonceUsedOnce`, `SessionsProven`, `LogoutOnce` | `Spec => []OneSessionPerNonce`, `[]SessionIsProven`, `[]OneLogoutSucceeds` |
| `LogoutKept` | `Spec => LogoutIsFinal` |
| `Refinement` | `Spec => ImplementsSignIn` |
| *`ExecutionBatches_proofs`* | |
| `BatchesTyped`, `BatchesInvariant`, `LevelsInvariant` | `Spec => []TypeOK`, `[]IInv`, `[]LevelInv` |
| `DepsBatchedBefore`, `EveryIdBatched`, `BatchedOnce` | `Spec => []DepsInPriorBatches`, `[]EveryIdIsBatched`, `[]NoStepBatchedTwice` |
| `Levels`, `NobodyWaitsIdle`, `BatchesFewer` | `Spec => []BatchIsLevel`, `[]NoIdleWait`, `[]BatchesBounded` |
| `LoopProgresses` | `Spec => IterationsProgress` |
| *`X402Payment_proofs`* | |
| `PaymentTypes`, `PaymentInvariant` | `Spec => []TypeOK`, `[]IInv` |
| `DeliveriesPaid`, `TransfersServeOnce`, `TransfersCounted` | `Spec => []DeliveredIsPaid`, `[]OneTransferOneService`, `[]TransfersWithinSpent` |
| `Refinement` | `Spec => ImplementsService` |
| *`Marketplace_proofs`* | |
| `MarketTypes`, `MarketInvariant` | `Spec => []TypeOK`, `[]IInv` |
| `RoutesCurrent`, `SteadyWins`, `AgentsListedOnce`, `AgentsSubscribedFirst` | `Spec => []RouteIsCurrent`, `[]SteadySpecialistsWin`, `[]ListedOnce`, `[]ListedThenSubscribed` |
| *`Messaging_proofs`* | |
| `MessagingTypes`, `MessagingInvariant` | `Spec => []TypeOK`, `[]IInv` |
| `MembersWrite`, `MembersRead`, `InboxComplete`, `TrailTrue`, `Removals` | `Spec => []MessagesAmongMembers`, `[]AnswersToMembers`, `[]AnswersComplete`, `[]TrailNamesRows`, `RemovedByOwnerOrSelf` |

*`CortexSession`.* `CompletedIsQuiet` is not inductive: to know that nothing is in
flight when `_complete` writes the verdict one must know where the steps are at every
earlier await. `IInv` adds that in four parts. `WithinBudget` is inductive with the
types alone, because `signPayment` tests and charges in one synchronous step.
`PhaseInv` ties the await of `run()` to the row, the wallet and the enclave, with the
pivot `status = "completed" <=> reason = "completed"`, which makes the verdict final.
`StepInv` ties a step to the function it runs (a step that is done has a settled
function, a recorded call, and paid only before its retry), which gives `PaysOnce`.
`BatchInv` says that during a batch every started step is in it or done with its result
stored, and that past the last batch all are done, which gives `CompletedIsQuiet`. The
proof has one lemma per part, in each of them one step per action; the refinement maps every action
to one of `SessionContract` or a stutter, with `IInv` supplying the guards.

Three smaller invariants stand on that `IInv`. `SealInv`: nothing is
counted before the seal begins, and a completed session has no step left that could
lengthen the list. `TrailInv`: only the outcome of `run()`, which is final, is audited.
`RowsInv`: while no query has failed, each write of the success path is in place when
the next is sent, and from the last payment on the captured amount is the balance.

`BalanceAddsUp` raises the running totals from the paying position on by the price; a
step that pays has paid nothing before, by `IInv`. `StepsInOrder` carries the order of
the batches over to the session that runs them: a step starts with the results of all
it depends on, or in the last-resort batch, behind which nothing starts. A new batch is
ready or is all that is left (`BatchInOrder`); results are never withdrawn and started
steps never become idle again, so that both alternatives last. `TurnStep` does the same
for `WaitsInTurn`, from `BatchInv`: the next batch is taken up only when all of the last
one have answered.

`EndsClean` and `SessionAdvances` are the halves of the two liveness properties that
need no fairness. The first says how `run()` leaves: through `finally`, with a verdict
unless its query failed, or before its `try` because a query did. The second
gives `run()`, each step and each function a stage; no action takes one back and each takes
one on, or adds results, or sends another row of the record. There are finitely many of
all of these (`RecordsOnce` bounds the rows by the steps), so no session goes on for ever.
What fairness adds is that it does not stop half-way.

*`Accounts`.* `OneSessionPerNonce` needs that an accepted nonce is in nobody's entry any
more (`Proven`), and that an entry holds a nonce drawn for its own wallet and the
newest one (`EntryInv`), since two sign-ins may name different wallets and one nonce.
`CallInv` carries the same argument for logouts: a successful one left its row
revoked, and the UPDATE counts only rows that were live. For `LogoutIsFinal`, `Shut` is
stable from the moment of the logout: a revoked row stays revoked (no INSERT reuses a
token), so whoever carries the token is denied by `validate`.

The refinement mapping to `SignInService` hides the store, the messages and where a
request waits. `Fresh` is the nonces of the entries, `Proofs` gives a token the nonce
its sign-in was let in with, `Admitted` a request the token `validate` passed it with,
`Closers` a session the logouts that counted a row. `SignInLost` and `RestartLoses`
show that failed queries, the prune timer and restarts only lose nonces,
proofs and requests; `GenerateDraws`, `ConsumeAccepts`, `CreateOpens`,
`ValidateAdmits` and `RevokeCloses` map the five steps that say something, the rest
stutter.

*`ExecutionBatches`.* What is completed was batched, and while the loop runs nothing else
was; so what is ready next is new, and behind what it depends on. `LevelInv` says why
the batches are levels: what is left could not have gone into the batch before
(an identifier it needs was not there), so a step of batch `b` has a parent in
batch `b - 1` and, by `LongerChain`, a chain of that length; no chain is longer, since
the parent it ends with (`ChainTail`) is in an earlier batch, whose chains are shorter
(`ShorterChain`). Chains
are functions, so this takes no induction over data: `LevelInv` is the induction, over
the run of the loop. `NoIdleWait` is its half for plans with defects;
`BatchesBounded` and `IterationsProgress` are the safety part of termination: an
iteration takes steps off what remains or leaves the loop.

*`X402Payment`.* The pivot is `ChainInv`: a call an agent banks on (its submission was
taken) has its transaction in the pool or the ledger, or so far in the past that no
node will take it again; therefore no second submission of an equal transaction is
taken. The refinement maps the gate's verdicts and the ledger; a verify-only agent
is outside `Settling`, where the promise is weaker. `TransfersWithinSpent` is not
inductive, since a transaction reaches the chain long after it was charged;
`SignedCounted` says the same of everything signed, and `FitOneMore` adds a payment
behind those already on the line when the wallet is charged, `FitFewer` drops the
ones the chain never took.

*`Marketplace`.* `RouteInv` squeezes what is offered now between what was offered at every
and at some instant of the routing; a keyword that is done with has no offer of the
first kind. No action changes a score (`ScoreKept`), so that the order in which two
agents stood when one was chosen is the order they stand in ever after. `LinkInv`: a call about to list an agent has left a subscription row
behind, which is never deleted.

*`Messaging`.* `PhaseInv` says what a request has established in each phase, `SourceInv` which
requests rows, events and answers come from; `RoleInv` that a role says no more than who
owns the deployment, which is why a stale role does no harm. For `AnswersComplete`,
`ReadAccounts` shows it of the answer at the instant of the query: if a row that is
meant for the caller is cut, the page is full of newer ones (`FullPage`, by the
ranks of the rows that qualify: the library's facts on finite cardinalities do it without an
induction). `ReadKept` keeps it true while rows are appended, read and expire, for
which `ReadInv` says that what was shown stays among the rows and `Distinct` that no row is
there twice.

Each inductive invariant was checked with TLC on the instance of its run before it
was proved; the runs do not list them, since the theorems say more.

## 7. What is only model-checked

- Liveness (`SessionCleansUp`, `VerdictReached`, `LoopTerminates`), which the prover
  does not do under fairness. Their safety halves are proved: `IterationsProgress` for
  the loop, `EveryStepAdvances` and `OverIsClean` for the session. What is missing is
  that the next step is taken, and the well-founded induction over what remains.
- The five violations of section 8: TLC's counterexample is the evidence.

The proofs avoid what the provers cannot do rather than leave it out: sums are running
totals or stretches of a line, levels are chains, and a page is full when the ranks
in it are, where a recursive definition would have to be unfolded by an
induction over data.

## 8. Where the code and its texts disagree

| Run | The text | The code |
|---|---|---|
| `batches_zones` | decomposer.js:86 "local steps never parallelise with external" | `step.parallel` is never read: a batch mixes both zones (decomposer.js:107) |
| `key_zeroed` | wallet.js:21 "MUST be zeroed on session end" | `_updateStatus` is awaited before the `try`: when it fails, `finally` does not run and the key stays (index.js:71) |
| `wipe_confirmed` | init.sql:33 memory_wiped is "confirmed by TEE on termination" | it is set to true before anything is wiped (index.js:377) |
| `record_calls` | decisionRecord.js:5-9: one record, with the "per-agent call records" | the record of a failed session is sealed while siblings are still calling (index.js:144) |
| `record_row` | decisionRecord.js:5 "exactly one DecisionRecord" | a JavaScript array is bound to a JSONB column; the INSERT fails for every non-empty plan, and the error is swallowed (decisionRecord.js:133) |

The driver's rendering of arrays (`PgTakesAsJsonb`) is external to the repository
and modelled from how it is used: `[]` becomes `{}`, which JSON accepts; a list of
objects becomes `{"…"}`, which it does not.

Others were met while reading and have no run of their own:

- x402Verifier.js:7-8 describes the submitting mode as the one that settles; a
  payment marked as simulated passes in it too. `DeliveredIsPaid` speaks of signed
  payments only, and `PaidService` calls such a delivery one on credit.
- discovery.js:87-90 lists certified specialists before all others; the loop takes the
  keywords in the order of the map, and a built-in one ends it without a query. Nor
  does the query put certified agents first: its leading key is `reputation_score`
  (discovery.js:72), 85 for the plain agents of migrate_sprint9.sql:84-107 and 0 for
  all others. A seeded agent that is registered again, by anybody, with another
  capability keeps its 85 (registry.js:49-57) and is taken before a certified one. `First`
  has both keys in the order of the code, and `SteadySpecialistsWin` says what follows
  from it. "Certified first" as an invariant is violated on the instance of `market`.
- builder.js binds `agent_ids` of PATCH as an array: a nonempty list is refused by the
  JSONB column, an empty one is stored as `{}`. `null` passes the test for an array
  (builder.js:112) and is stored as NULL, after which adding an agent answers 201 and
  matches no row (`PatchAgentIds`, `Linkable`). `false`, `0` and `""` pass it too: the
  first two become a scalar that later adds turn into a list with one foreign entry,
  as `{}` is, the last is refused by the column.
- messaging.js:8-9 says that events are anchored and joining is subject to policy: a
  failed anchoring is swallowed, and no policy is evaluated. The removal of a member
  has no event.
- anonymizer.js abstracts amounts to ranges and reads the number only, so that "$2
  million" is "under $100".

## 9. Assumptions, and what is not modelled

- In `CortexSession`, `Accounts` and `Marketplace` a rejected query had no effect. In
  `Messaging` it may have been committed, as when a connection drops after the commit.
- The language model may answer any plan of a given set; an answer that is not a
  plan is the fallback of `decompose`, one of those plans.
- `algosdk` is pinned at ^3.5.2 while `wallet.js:57-62` uses the parameter names of
  version 2, so signing may throw each time, after which the client falls back to a simulated payment.
  The model allows both outcomes at every payment.
- Amounts, hashes, transaction identifiers, texts, and the arithmetic of costs are
  left out; the anonymizer and classifier appear as the execution zone of a step.
- One invocation at a time: invocations share no memory, and their rows are disjoint.
- In `Accounts`, addresses are lower-case and tokens and nonces never collide
  (random 128 and 256 bits); the process and the database share a clock; the prune
  timer may fire at any time.
- `optionalAuth`, input validation, the rate limit and read-only routes change no state.
- `X402Payment`: headers decode or are refused as a whole (a refusal is possible at
  every verification); fees are left out; the
  four rounds of `waitForConfirmation` are "some round or a refusal".
- `Marketplace`: the text matching of capabilities is a set of keywords per agent;
  `reputation_score` is set when a row is first inserted, by the migration or by
  `register`, and changed by no route (`updateReputation` is exported and never called).
  The migration runs before the program; running it again would activate the seeded
  agents again. The agents' other columns are not read by routing, and neither is the
  subset of `capabilities` a subscription grants (init.sql:160): the query ignores it.
- `Builder`: name, prompt, status and the statistics of a deployment are written and
  read for no modelled code; archiving changes the status only.
- `Messaging`: no row says admin, since no code writes one; ciphertexts are opaque (the test for raw text reads the body of one
  request); a member who joins again overwrites his public key; deployments and their
  owners do not change. A third wallet would add observers, which the proofs cover.
- Not modelled at all: the vault (one query per request, and cryptography), the
  read-only APIs, the HTTP application (routing, validation, rate limit), the
  re-exporting compatibility layer, the policy file nothing evaluates, the dashboard.

## 10. State of the plan

Done: `Decomposer`, `ExecutionBatches`, `SessionContract`, `CortexSession`, `Accounts`,
`SignInService`, `PaidService`, `X402Payment`, `Marketplace`, `Messaging`, and the proofs of
section 6: every safety property of every passing run is a theorem.

What would add most from here:

1. One composed module of a session and its payments, in which `CortexSession`'s agent
   actions are refined by `X402Payment`'s client, wallet and gate.
2. Liveness of a paid call under the timers of the client: a call ends even if the chain
   never confirms.
3. The two accounts of failure in one module: a verdict whose query was committed and
   reported as failed (`lib/db.js:15`), for `_complete` above all.
