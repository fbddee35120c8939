---------------------------- MODULE CortexSession ----------------------------
(***************************************************************************)
(* One invocation, from POST /invoke to the end of Cortex.run              *)
(* (src/src/cortex/index.js), with everything run() owns: the ephemeral    *)
(* wallet, the TEE context, the decision record, the parallel steps and    *)
(* their x402 payments, and the database rows it leaves behind.            *)
(*                                                                         *)
(* An action is the code between two awaits.  run() is one coroutine (pc); *)
(* each step is two: _executeStep (st) and the function tee.run started    *)
(* for it (fn).  A timeout or the failure of a sibling abandons the second *)
(* without stopping it, so both go on while run() cleans up.               *)
(* A query takes effect when its promise settles, and not at all when that *)
(* rejects.                                                                *)
(***************************************************************************)
EXTENDS Decomposer, FiniteSets

CONSTANTS
    Ids,            \* identifiers of steps
    RawPlans,       \* the decompositions the language model may answer
    MaxSteps,       \* options.maxSteps
    SpendingLimit,  \* options.spendingLimitMicroAlgo
    Prices,         \* amounts an agent may ask for in its 402
    MaxDbFaults,    \* bound on the number of database calls that fail
    MayCrash        \* whether the process may die

ASSUME ConstantsAssumption ==
    /\ MaxSteps \in Nat \ {0}
    /\ RawPlans \subseteq Seq(Step(Ids))
    /\ SpendingLimit \in Nat
    /\ Prices \subseteq Nat
    /\ MaxDbFaults \in Nat
    /\ MayCrash \in BOOLEAN

Pos == 1 .. MaxSteps

VARIABLES
    pc,        \* the await at which run() is suspended
    reason,    \* "none" while in try, then "completed" or "error"
    plan,      \* the decomposed steps
    results,   \* the keys of resultsByStepId
    st,        \* _executeStep, by position in plan
    fn,        \* the function given to tee.run, by position in plan
    tee,       \* teeCtx: "none", "live", "destroyed"
    wallet,    \* ephemeralWallet: "none", "live", "destroyed"
    spent,     \* ephemeralWallet.spent
    paid,      \* what the wallet signed over for the step at each position
    calls,     \* decisionRecord.agentCalls, as positions in order of arrival
    rows,      \* how many of them seal() has sent to the database
    spentArg,  \* the amount captured for the pending UPDATE of the spent column
    sealed,    \* agentCallCount of the sealed record, -1 before
    status,    \* invocations.status, "none" before the row exists
    session,   \* the cortex_sessions row, and whether the invocation links to it
    record,    \* whether the decision_records row exists
    ledger,    \* whether the cost_ledger row exists
    trail,     \* events in audit_log
    faults     \* database calls that failed so far

runVars  == <<pc, reason, plan, results>>
stepVars == <<st, fn>>
money    == <<wallet, spent, paid, spentArg>>
sealVars == <<calls, rows, sealed>>
dbVars   == <<status, session, record, ledger, trail, faults>>
vars     == <<runVars, stepVars, tee, money, sealVars, dbVars>>

Catching == {"f_audit", "f_spent", "f_fail"}
PCs == {"new", "rejected", "accepted", "create_row", "link_row", "mark_running",
        "audit_start", "decompose", "batch", "assemble", "spent", "cost", "complete",
        "seal_record", "seal_calls", "seal_audit", "seal_txid",
        "audit_complete", "terminate", "f_finally", "ended", "aborted", "crashed"} \cup Catching

StepStates == {"idle", "routing", "running", "auditing", "done", "failed"}
FnStates   == {"none", "llm", "request", "params", "retry", "settled"}
Events     == ({"start", "sealed", "complete", "fail"} \X {0}) \cup ({"step"} \X Pos)

-----------------------------------------------------------------------------
(* The database.                                                           *)

(* A query may be rejected, MaxDbFaults times at most in all. *)
Rejected == faults < MaxDbFaults /\ faults' = faults + 1
Accepted == faults' = faults

(* A write whose error the caller swallows: it happened, or it did not. *)
Swallowed(wrote, lost) == (Accepted /\ wrote) \/ (Rejected /\ lost)

HasRow == session.row # "absent"

(* auditLogger.logEvent: never throws.  A row that names a cortex session  *)
(* needs the session's row.                                                *)
LogEvent(event, needsSession) ==
    Swallowed(trail' = IF needsSession /\ ~ HasRow THEN trail
                                             ELSE trail \cup {event},
              trail' = trail)

-----------------------------------------------------------------------------
Init ==
    /\ pc = "new" /\ reason = "none" /\ plan = <<>> /\ results = {}
    /\ st = [i \in Pos |-> "idle"] /\ fn = [i \in Pos |-> "none"]
    /\ tee = "none" /\ wallet = "none" /\ spent = 0 /\ spentArg = 0
    /\ paid = [i \in Pos |-> 0]
    /\ calls = <<>> /\ rows = 0 /\ sealed = -1
    /\ status = "none"
    /\ session = [row |-> "absent", spent |-> 0, ended |-> "none"]
    /\ record = FALSE /\ ledger = FALSE /\ trail = {} /\ faults = 0

-----------------------------------------------------------------------------
(* The request and the start of the session.                               *)

(* POST /invoke: the pending row is written before the session is spawned. *)
Invoke ==
    /\ pc = "new"
    /\ \/ Accepted /\ status' = "pending" /\ pc' = "accepted"
       \/ Rejected /\ pc' = "rejected" /\ UNCHANGED status
    /\ UNCHANGED <<reason, plan, results, stepVars, tee, money, sealVars,
                   session, record, ledger, trail>>

(* createEphemeralWallet and the simulated funding. *)
OpenWallet ==
    /\ pc = "accepted"
    /\ wallet' = "live"
    /\ pc' = "create_row"
    /\ UNCHANGED <<reason, plan, results, stepVars, tee, spent, spentArg, paid, sealVars, dbVars>>

(* _createCortexSession: the INSERT, and the link from the invocation.  An *)
(* error is swallowed and skips what is left of it.                        *)
InsertSession ==
    /\ pc = "create_row"
    /\ \/ Accepted /\ session' = [session EXCEPT !.row = "inserted"] /\ pc' = "link_row"
       \/ Rejected /\ pc' = "mark_running" /\ UNCHANGED session
    /\ UNCHANGED <<reason, plan, results, stepVars, tee, money, sealVars,
                   status, record, ledger, trail>>

LinkSession ==
    /\ pc = "link_row"
    /\ Swallowed(session' = [session EXCEPT !.row = "linked"], UNCHANGED session)
    /\ pc' = "mark_running"
    /\ UNCHANGED <<reason, plan, results, stepVars, tee, money, sealVars,
                   status, record, ledger, trail>>

(* _updateStatus('running') is awaited before the try: its error leaves    *)
(* run() without the catch and without the finally.                        *)
MarkRunning ==
    /\ pc = "mark_running"
    /\ \/ Accepted /\ status' = "running" /\ tee' = "live" /\ pc' = "audit_start"
       \/ Rejected /\ pc' = "aborted" /\ UNCHANGED <<status, tee>>
    /\ UNCHANGED <<reason, plan, results, stepVars, money, sealVars,
                   session, record, ledger, trail>>

AuditStart ==
    /\ pc = "audit_start"
    /\ LogEvent(<<"start", 0>>, TRUE)
    /\ pc' = "decompose"
    /\ UNCHANGED <<reason, plan, results, stepVars, tee, money, sealVars,
                   status, session, record, ledger>>

-----------------------------------------------------------------------------
(* Batches.                                                                *)

(* Promise.all over the next batch of p: every _executeStep runs to its    *)
(* first await, a query for an external step and the model for a local     *)
(* one.  With no step left, run() goes on to the final assembly.           *)
StartBatch(p, completed) ==
    LET batch == NextBatch(p, completed)
    IN  /\ pc' = IF batch = {} THEN "assemble" ELSE "batch"
        /\ st' = [i \in Pos |-> IF i \notin batch THEN st[i]
                                ELSE IF p[i].execution = "local" THEN "running"
                                ELSE "routing"]
        /\ fn' = [i \in Pos |-> IF i \in batch /\ p[i].execution = "local"
                                THEN "llm" ELSE fn[i]]

(* The catch block up to its first await: the record is closed over the    *)
(* failure and seal() is called.                                           *)
Catch == pc' = "seal_record" /\ reason' = "error"

(* decompose answers, the record gets the graph, the first batch starts.   *)
(* Malformed dependencies make buildExecutionBatches throw.                *)
DecomposeTask ==
    /\ pc = "decompose"
    /\ \E raw \in RawPlans :
          /\ plan' = Decompose(raw, MaxSteps)
          /\ \/ StartBatch(plan', {}) /\ UNCHANGED reason
             \/ plan' # <<>> /\ Catch /\ UNCHANGED stepVars
    /\ UNCHANGED <<results, tee, money, sealVars, dbVars>>

(* Promise.all resolves when every step did; a faulty variant does not     *)
(* wait for it.                                                            *)
ResolvedUnawaited(batch) == TRUE
Resolved(batch) == \A i \in batch : st[i] = "done"

(* Every step of the batch resolved: their results are stored. *)
FinishBatch ==
    LET batch == NextBatch(plan, results)
    IN  /\ pc = "batch"
        /\ Resolved(batch)
        /\ results' = results \cup IdsOf(plan, batch)
        /\ StartBatch(plan, results')
        /\ UNCHANGED <<reason, plan, tee, money, sealVars, dbVars>>

-----------------------------------------------------------------------------
(* One step.                                                               *)

Up == pc # "crashed"

(* The promise of step i rejects.  Promise.all rejects with the first, and *)
(* does nothing to the others.                                             *)
Rejects(i) ==
    /\ st' = [st EXCEPT ![i] = "failed"]
    /\ IF pc = "batch" THEN Catch ELSE UNCHANGED <<pc, reason>>

(* The function run for step i throws.  After a timeout nobody listens. *)
FnThrows(i) ==
    /\ fn' = [fn EXCEPT ![i] = "settled"]
    /\ IF st[i] = "running" THEN Rejects(i) ELSE UNCHANGED <<st, pc, reason>>
    /\ UNCHANGED calls

(* It returns: an external call is recorded, and the step awaits its audit *)
(* event.  After a timeout the answer is dropped, unrecorded.              *)
FnReturns(i) ==
    /\ fn' = [fn EXCEPT ![i] = "settled"]
    /\ IF st[i] = "running"
       THEN /\ st' = [st EXCEPT ![i] = "auditing"]
            /\ calls' = IF plan[i].execution = "external" THEN Append(calls, i) ELSE calls
       ELSE UNCHANGED <<st, calls>>
    /\ UNCHANGED <<pc, reason>>

(* routeTask answered: tee.run refuses a destroyed context, or starts the  *)
(* call of an agent with an endpoint, or of the model or a built-in agent. *)
Route(i) ==
    /\ Up /\ st[i] = "routing"
    /\ \/ tee = "destroyed" /\ Rejects(i) /\ UNCHANGED fn
       \/ /\ tee = "live"
          /\ st' = [st EXCEPT ![i] = "running"]
          /\ \E f \in {"llm", "request"} : fn' = [fn EXCEPT ![i] = f]
          /\ UNCHANGED <<pc, reason>>
    /\ UNCHANGED <<plan, results, tee, money, sealVars, dbVars>>

(* The model, or the built-in agent, answers or fails. *)
ModelAnswers(i) ==
    /\ Up /\ fn[i] = "llm"
    /\ FnReturns(i) \/ FnThrows(i)
    /\ UNCHANGED <<plan, results, tee, money, rows, sealed, dbVars>>

(* What signPayment tests, and two faulty variants: what is already spent  *)
(* is not deducted from the limit; a destroyed wallet signs.               *)
AffordableOnce(amount) == amount <= SpendingLimit
Affordable(amount) == amount <= SpendingLimit - spent

UsableAlways == TRUE
Usable == wallet = "live"

(* First answer of the agent: a result, an error (a result that cannot be  *)
(* hashed included), or 402.  Without a usable wallet the payment is       *)
(* simulated at once.                                                      *)
AgentAnswers(i) ==
    /\ Up /\ fn[i] = "request"
    /\ \/ FnReturns(i)
       \/ FnThrows(i)
       \/ /\ fn' = [fn EXCEPT ![i] = IF Usable THEN "params" ELSE "retry"]
          /\ UNCHANGED <<st, calls, pc, reason>>
    /\ UNCHANGED <<plan, results, tee, money, rows, sealed, dbVars>>

(* signPayment checks the budget and charges it in one synchronous step. *)
SignPayment(i) ==
    /\ Up /\ fn[i] = "params" /\ Usable
    /\ \E amount \in Prices :
          /\ Affordable(amount)
          /\ spent' = spent + amount
          /\ paid' = [paid EXCEPT ![i] = @ + amount]
    /\ fn' = [fn EXCEPT ![i] = "retry"]
    /\ UNCHANGED <<runVars, st, tee, wallet, spentArg, sealVars, dbVars>>

(* Over the limit: the call fails, unpaid. *)
RefusePayment(i) ==
    /\ Up /\ fn[i] = "params" /\ Usable
    /\ \E amount \in Prices : ~ Affordable(amount)
    /\ FnThrows(i)
    /\ UNCHANGED <<plan, results, tee, money, rows, sealed, dbVars>>

(* Faulty variant of SimulatePayment: the budget is charged before the     *)
(* signing that throws.                                                    *)
SimulatePaymentCharged(i) ==
    /\ Up /\ fn[i] = "params"
    /\ \E amount \in Prices : Affordable(amount) /\ spent' = spent + amount
    /\ fn' = [fn EXCEPT ![i] = "retry"]
    /\ UNCHANGED <<runVars, st, tee, wallet, paid, spentArg, sealVars, dbVars>>

(* Algorand unreachable, no address to pay, or signing throws, as it does  *)
(* on a destroyed wallet: a simulated payment is sent instead.             *)
SimulatePayment(i) ==
    /\ Up /\ fn[i] = "params"
    /\ fn' = [fn EXCEPT ![i] = "retry"]
    /\ UNCHANGED <<runVars, st, tee, money, sealVars, dbVars>>

(* Faulty variant of AgentAnswersPaid: a second 402 is paid again. *)
AgentAnswersPaidTwice(i) ==
    /\ Up /\ fn[i] = "retry"
    /\ \/ FnReturns(i)
       \/ fn' = [fn EXCEPT ![i] = "params"] /\ UNCHANGED <<st, calls, pc, reason>>
    /\ UNCHANGED <<plan, results, tee, money, rows, sealed, dbVars>>

(* Answer to the paid request; a second 402 is an error. *)
AgentAnswersPaid(i) ==
    /\ Up /\ fn[i] = "retry"
    /\ FnReturns(i) \/ FnThrows(i)
    /\ UNCHANGED <<plan, results, tee, money, rows, sealed, dbVars>>

(* Every tee.run has a timer; in a faulty variant only local steps do. *)
TimedLocalOnly(i) == st[i] = "running" /\ plan[i].execution = "local"
Timed(i) == st[i] = "running"

(* The timer of tee.run fires first.  The function goes on. *)
TeeTimeout(i) ==
    /\ Up /\ Timed(i)
    /\ Rejects(i)
    /\ UNCHANGED <<plan, results, fn, tee, money, sealVars, dbVars>>

(* The audit event of a step does not name the cortex session. *)
AuditStep(i) ==
    /\ Up /\ st[i] = "auditing"
    /\ LogEvent(<<"step", i>>, FALSE)
    /\ st' = [st EXCEPT ![i] = "done"]
    /\ UNCHANGED <<runVars, fn, tee, money, sealVars, status, session, record, ledger>>

-----------------------------------------------------------------------------
(* The end of the session.                                                 *)

(* What run() reports as spent is read off the wallet; a faulty variant    *)
(* takes totalSpent, summed from receipts that carry no amount.            *)
SpentByReceipts == 0
SpentByWallet == spent

(* tee.run of the final assembly: an answer, an error or a timeout. *)
Assemble ==
    /\ pc = "assemble"
    /\ \/ pc' = "spent" /\ spentArg' = SpentByWallet /\ UNCHANGED reason
       \/ Catch /\ UNCHANGED spentArg
    /\ UNCHANGED <<plan, results, stepVars, tee, wallet, spent, paid, sealVars, dbVars>>

(* _updateSpent, awaited on both ways out. *)
UpdateSpent ==
    /\ \/ pc = "spent" /\ pc' = "cost"
       \/ pc = "f_spent" /\ pc' = "terminate"
    /\ Swallowed(session' = IF HasRow THEN [session EXCEPT !.spent = spentArg]
                                              ELSE session,
                 UNCHANGED session)
    /\ UNCHANGED <<reason, plan, results, stepVars, tee, money, sealVars,
                   status, record, ledger, trail>>

(* costTracker.record: the row names the cortex session. *)
RecordCost ==
    /\ pc = "cost"
    /\ Swallowed(ledger' = HasRow, UNCHANGED ledger)
    /\ pc' = "complete"
    /\ UNCHANGED <<reason, plan, results, stepVars, tee, money, sealVars,
                   status, session, record, trail>>

(* Faulty variant of Complete: its error is swallowed. *)
CompleteSwallowed ==
    /\ pc = "complete"
    /\ Swallowed(status' = "completed", UNCHANGED status)
    /\ pc' = "seal_record" /\ reason' = "completed"
    /\ UNCHANGED <<plan, results, stepVars, tee, money, sealVars,
                   session, record, ledger, trail>>

(* _complete is not swallowed: its error fails the session. *)
Complete ==
    /\ pc = "complete"
    /\ \/ Accepted /\ status' = "completed" /\ pc' = "seal_record" /\ reason' = "completed"
       \/ Rejected /\ Catch /\ UNCHANGED status
    /\ UNCHANGED <<plan, results, stepVars, tee, money, sealVars,
                   session, record, ledger, trail>>

(* pg renders a JavaScript array as a Postgres array literal, which a      *)
(* jsonb column takes only when it is empty.                               *)
PgTakesAsJsonb(array) == array = <<>>

(* Faulty variant of NextCallRow: the last call is left out. *)
NextCallRowShort(n) ==
    IF n + 1 >= Len(calls) THEN pc' = "seal_audit" /\ sealed' = n
                           ELSE pc' = "seal_calls" /\ UNCHANGED sealed

(* The loop over the recorded calls has written n of them and looks for    *)
(* the next: there is one, or the count is sealed.                         *)
NextCallRow(n) ==
    IF n = Len(calls) THEN pc' = "seal_audit" /\ sealed' = n
                      ELSE pc' = "seal_calls" /\ UNCHANGED sealed

SealRecord ==
    /\ pc = "seal_record"
    /\ Swallowed(record' = PgTakesAsJsonb(plan), UNCHANGED record)
    /\ NextCallRow(0)
    /\ UNCHANGED <<reason, plan, results, stepVars, tee, money, calls, rows,
                   status, session, ledger, trail>>

SealCall ==
    /\ pc = "seal_calls"
    /\ rows' = rows + 1
    /\ NextCallRow(rows + 1)
    /\ UNCHANGED <<reason, plan, results, stepVars, tee, money, calls, dbVars>>

SealAudit ==
    /\ pc = "seal_audit"
    /\ LogEvent(<<"sealed", 0>>, FALSE)
    /\ pc' = "seal_txid"
    /\ UNCHANGED <<reason, plan, results, stepVars, tee, money, sealVars,
                   status, session, record, ledger>>

(* The transaction identifier goes into the record, if it can. *)
SealTxid ==
    /\ pc = "seal_txid"
    /\ pc' = IF reason = "completed" THEN "audit_complete" ELSE "f_audit"
    /\ UNCHANGED <<reason, plan, results, stepVars, tee, money, sealVars, dbVars>>

AuditOutcome ==
    /\ \/ /\ pc = "audit_complete" /\ pc' = "terminate"
          /\ LogEvent(<<"complete", 0>>, TRUE) /\ UNCHANGED spentArg
       \/ /\ pc = "f_audit" /\ pc' = "f_spent"
          /\ LogEvent(<<"fail", 0>>, TRUE) /\ spentArg' = SpentByWallet
    /\ UNCHANGED <<reason, plan, results, stepVars, tee, wallet, spent, paid, sealVars,
                   status, session, record, ledger>>

(* The finally block. *)
Finally ==
    /\ tee' = "destroyed"
    /\ wallet' = "destroyed"
    /\ pc' = "ended"

(* Faulty variant of Terminate: its error is not swallowed. *)
TerminateThrows ==
    /\ pc = "terminate"
    /\ \/ /\ Accepted
          /\ session' = IF HasRow THEN [session EXCEPT !.ended = reason] ELSE session
          /\ IF reason = "completed" THEN Finally /\ UNCHANGED reason
             ELSE pc' = "f_fail" /\ UNCHANGED <<reason, tee, wallet>>
       \/ Rejected /\ Catch /\ UNCHANGED <<session, tee, wallet>>
    /\ UNCHANGED <<plan, results, stepVars, spent, spentArg, paid, sealVars,
                   status, record, ledger, trail>>

(* _terminateCortexSession sets terminated_at, memory_wiped and the reason *)
(* in one UPDATE.  On success the finally block follows.                   *)
Terminate ==
    /\ pc = "terminate"
    /\ Swallowed(session' = IF HasRow THEN [session EXCEPT !.ended = reason]
                                              ELSE session,
                 UNCHANGED session)
    /\ IF reason = "completed" THEN Finally ELSE pc' = "f_fail" /\ UNCHANGED <<tee, wallet>>
    /\ UNCHANGED <<reason, plan, results, stepVars, spent, spentArg, paid, sealVars,
                   status, record, ledger, trail>>

(* Faulty variant of FailInvocation: the verdict is not written. *)
FailInvocationSilent ==
    /\ pc = "f_fail" /\ pc' = "f_finally"
    /\ UNCHANGED <<reason, plan, results, stepVars, tee, money, sealVars, dbVars>>

(* _fail: its own error replaces the first one and reaches the finally all *)
(* the same.                                                               *)
FailInvocation ==
    /\ pc = "f_fail" /\ pc' = "f_finally"
    /\ Swallowed(status' = "failed", UNCHANGED status)
    /\ UNCHANGED <<reason, plan, results, stepVars, tee, money, sealVars,
                   session, record, ledger, trail>>

(* The finally block of a failed session: the row may have said so before, *)
(* for as long as the answer of the database was on its way.               *)
CleanUp ==
    /\ pc = "f_finally"
    /\ Finally
    /\ UNCHANGED <<reason, plan, results, stepVars, spent, spentArg, paid, sealVars, dbVars>>

(* The process dies: only the database remains. *)
Crash ==
    /\ MayCrash
    /\ pc \notin {"new", "rejected", "crashed"}
    /\ pc' = "crashed"
    /\ UNCHANGED <<reason, plan, results, stepVars, tee, money, sealVars, dbVars>>

-----------------------------------------------------------------------------
StartUp == Invoke \/ OpenWallet \/ InsertSession \/ LinkSession \/ MarkRunning \/ AuditStart

WindUp == \/ UpdateSpent \/ RecordCost \/ Complete
          \/ SealRecord \/ SealCall \/ SealAudit \/ SealTxid
          \/ AuditOutcome \/ Terminate \/ FailInvocation \/ CleanUp

Run == StartUp \/ DecomposeTask \/ FinishBatch \/ Assemble \/ WindUp

Agent(i) == \/ ModelAnswers(i) \/ AgentAnswers(i) \/ AgentAnswersPaid(i)
            \/ SignPayment(i) \/ RefusePayment(i) \/ SimulatePayment(i)

StepOf(i) == Route(i) \/ TeeTimeout(i) \/ AuditStep(i) \/ Agent(i)

Next == Run \/ (\E i \in Pos : StepOf(i)) \/ Crash

Spec == Init /\ [][Next]_vars

(* Every query, model call and audit submission returns or throws in the   *)
(* end, and timers fire.  Nothing obliges an agent to answer.              *)
Fairness ==
    /\ WF_vars(Run)
    /\ \A i \in Pos : WF_vars(Route(i)) /\ WF_vars(TeeTimeout(i)) /\ WF_vars(AuditStep(i))

FairSpec == Spec /\ Fairness

-----------------------------------------------------------------------------
ControlType ==
    /\ pc \in PCs /\ reason \in {"none", "completed", "error"}
    /\ plan \in Seq(Step(Ids)) /\ Len(plan) <= MaxSteps
    /\ results \subseteq Ids
    /\ st \in [Pos -> StepStates] /\ fn \in [Pos -> FnStates]
    /\ tee \in {"none", "live", "destroyed"}

MoneyType ==
    /\ wallet \in {"none", "live", "destroyed"}
    /\ spent \in Nat /\ spentArg \in Nat /\ paid \in [Pos -> Nat]

SealType == calls \in Seq(Pos) /\ rows \in Nat /\ sealed \in Int

RowType ==
    /\ status \in {"none", "pending", "running", "completed", "failed"}
    /\ session \in [row : {"absent", "inserted", "linked"}, spent : Nat,
                    ended : {"none", "completed", "error"}]
    /\ record \in BOOLEAN /\ ledger \in BOOLEAN
    /\ trail \subseteq Events
    /\ faults \in 0 .. MaxDbFaults

TypeOK == ControlType /\ MoneyType /\ SealType /\ RowType

(* The wallet never signs away more than its limit, however the parallel   *)
(* steps and the abandoned ones interleave their payments.                 *)
WithinBudget == spent <= SpendingLimit

(* The balance is the sum of the payments signed, the last of the running  *)
(* totals over the positions of the plan (wallet.js:65): nothing is        *)
(* charged that was not signed, nor signed uncharged.                      *)
SpentIsPaid ==
    \E total \in [0 .. MaxSteps -> 0 .. spent] :
        /\ total[0] = 0 /\ total[MaxSteps] = spent
        /\ \A i \in Pos : total[i] = total[i - 1] + paid[i]

(* A function some step started is still executing. *)
InFlight(i) == fn[i] \notin {"none", "settled"}

(* A completed invocation left nothing behind: no step and no agent call   *)
(* is in flight that could still pay or be recorded, every step of the     *)
(* plan has its result, and every result of an agent is on the record.     *)
CompletedIsQuiet ==
    status = "completed" =>
        /\ \A i \in Pos : ~ InFlight(i) /\ st[i] \in {"idle", "done"}
        /\ results = IdsOf(plan, DOMAIN plan)
        /\ \A i \in DOMAIN plan :
              st[i] = "done" /\ plan[i].execution = "external"
              => \E k \in DOMAIN calls : calls[k] = i

(* The spent column may lag behind the wallet when steps of a failed       *)
(* session go on paying, but is never ahead of it; and when no query       *)
(* failed, the rows of a completed session tell the truth: what the wallet *)
(* spent, and one cost entry.                                              *)
CompletedRowsExact ==
    /\ session.spent <= spent
    /\ (session.ended = "completed" /\ faults = 0) =>
          session.spent = spent /\ ledger /\ status = "completed"

(* The record of a completed session is sealed over all of its agent       *)
(* calls, and each of them was sent to the database: the loop of seal()    *)
(* and the count it anchors do not miss one another.                       *)
SealCoversCalls ==
    /\ sealed # -1 => rows = sealed
    /\ (sealed # -1 /\ reason = "completed") => sealed = Len(calls)

(* The audit trail never contradicts the invocation: 'cortex.complete'     *)
(* only on a completed one, 'cortex.fail' never on a completed one.        *)
TrailMatchesStatus ==
    /\ <<"complete", 0>> \in trail => status = "completed"
    /\ <<"fail", 0>> \in trail => status # "completed"

(* A verdict is final: no late failure, in the seal, the audit or the      *)
(* termination, turns a completed invocation into a failed one.            *)
VerdictIsFinal == [][(status \in {"completed", "failed"}) => UNCHANGED status]_vars

(* A destroyed wallet signs nothing, for the steps that outlive run() too  *)
(* (wallet.js:80), and is never revived.                                   *)
DestroyedWalletIsInert ==
    [][wallet = "destroyed" => UNCHANGED <<wallet, spent, paid>>]_vars

(* A step pays at most once (x402Client.js:19, "pay once then give up").   *)
PaysOnce == [][\A i \in Pos : paid[i] # 0 => paid'[i] = paid[i]]_vars

(* Whatever the agents do, silence included, a session that opened its     *)
(* enclave ends with the enclave and the wallet destroyed.                 *)
SessionCleansUp == tee = "live" ~> (tee = "destroyed" /\ wallet = "destroyed")

(* Every accepted invocation gets a verdict, unless a query failed. *)
VerdictReached == status = "pending" ~> (status \in {"completed", "failed"} \/ faults > 0)

-----------------------------------------------------------------------------
(* The inductive invariant: why the properties above hold.                 *)

Unopened == {"new", "rejected", "accepted", "create_row", "link_row", "mark_running", "aborted"}
Early    == Unopened \cup {"audit_start", "decompose"}
Executed == {"assemble", "spent", "cost", "complete"}
Sealing  == {"seal_record", "seal_calls", "seal_audit", "seal_txid"}

(* What the await of run() says of its outcome, the row, the wallet and    *)
(* the enclave.                                                            *)
PhaseInv ==
    /\ pc \in {"new", "rejected"} => status = "none" /\ wallet = "none"
    /\ pc = "accepted" => status = "pending" /\ wallet = "none"
    /\ pc \in {"create_row", "link_row", "mark_running", "aborted"}
          => status = "pending" /\ wallet = "live"
    /\ pc \notin Unopened \cup {"ended", "crashed"} => tee = "live" /\ wallet = "live"
    /\ pc \notin Unopened \cup {"f_finally", "ended", "crashed"}
          => status = IF reason = "completed" THEN "completed" ELSE "running"
    /\ pc = "f_finally" => reason = "error" /\ status \in {"running", "failed"}
    /\ pc \in Early \cup {"batch"} \cup Executed => reason = "none"
    /\ pc \in Sealing \cup {"terminate", "ended"} => reason # "none"
    /\ pc = "audit_complete" => reason = "completed"
    /\ pc \in Catching => reason = "error"
    /\ pc = "ended" => tee = "destroyed" /\ wallet = "destroyed"
    /\ status = "completed" <=> reason = "completed"

(* What a step and the function it runs can be at, and what they did. *)
StepInv ==
    \A i \in Pos :
        /\ st[i] # "idle" => i \in DOMAIN plan
        /\ st[i] \in {"idle", "routing"} => fn[i] = "none"
        /\ st[i] = "running" => InFlight(i)
        /\ st[i] \in {"auditing", "done"} => fn[i] = "settled"
        /\ (st[i] \in {"auditing", "done"} /\ plan[i].execution = "external")
              => \E k \in DOMAIN calls : calls[k] = i
        /\ paid[i] # 0 => fn[i] \in {"retry", "settled"}

(* Where the steps are with respect to run(): before a batch no later one  *)
(* has started, and past the last one every step is done.  Only a session  *)
(* that failed, or died, leaves steps behind.                              *)
BatchInv ==
    /\ pc \in Early => plan = <<>> /\ results = {} /\ \A i \in Pos : st[i] = "idle"
    /\ results \subseteq IdsOf(plan, DOMAIN plan)
    /\ pc = "batch" =>
          \A i \in Pos : \/ st[i] = "idle"
                         \/ st[i] = "done" /\ plan[i].id \in results
                         \/ st[i] # "failed" /\ i \in NextBatch(plan, results)
    /\ pc \in Executed \/ reason = "completed" =>
          /\ results = IdsOf(plan, DOMAIN plan)
          /\ \A i \in Pos : st[i] \in {"idle", "done"}

IInv == TypeOK /\ WithinBudget /\ PhaseInv /\ StepInv /\ BatchInv

(* What the seal, the audit trail and the rows rest on besides: nothing is *)
(* counted before the seal begins, only the outcome of run() is audited,   *)
(* and while no query fails each write of the success path is in place     *)
(* when the next one is sent.                                              *)
SealInv ==
    /\ reason = "none" \/ pc = "seal_record" => sealed = -1 /\ rows = 0
    /\ pc = "seal_calls" => sealed = -1
    /\ SealCoversCalls

TrailInv ==
    /\ <<"complete", 0>> \in trail => reason = "completed"
    /\ <<"fail", 0>> \in trail => reason = "error"

RowsInv ==
    /\ spentArg <= spent /\ session.spent <= spent
    /\ session.ended = "completed" => reason = "completed"
    /\ pc = "spent" => spentArg = spent
    /\ faults = 0 =>
          /\ pc \in {"link_row", "mark_running"} \/ status \in {"running", "completed", "failed"}
                => HasRow
          /\ pc \in {"cost", "complete"} \/ reason = "completed" => session.spent = spent
          /\ pc = "complete" \/ reason = "completed" => ledger

(* A step starts when every step it depends on has its result, or in the   *)
(* one batch that takes all that is left (decomposer.js:111): nothing      *)
(* starts behind that one.                                                 *)
NothingLeft ==
    \A i \in DOMAIN plan :
        plan[i].id \in results \cup IdsOf(plan, {k \in DOMAIN plan : st[k] # "idle"})
StartsInOrder ==
    \A i \in Pos : st[i] # "idle" => plan[i].deps \subseteq results \/ NothingLeft

(* While run() waits for a batch there is somebody in it, and every step   *)
(* that has started is in it or has answered and left its result.          *)
WaitsInTurn ==
    pc = "batch" =>
        /\ NextBatch(plan, results) # {}
        /\ \A i \in Pos : \/ st[i] = "idle"
                          \/ i \in NextBatch(plan, results)
                          \/ st[i] = "done" /\ plan[i].id \in results

(* How run() leaves: through the finally block with a verdict written,     *)
(* unless its query failed, or before the try because a query did.         *)
OverIsClean ==
    /\ pc = "ended" => /\ tee = "destroyed" /\ wallet = "destroyed"
                       /\ status \in {"completed", "failed"} \/ faults > 0
    /\ pc \in {"rejected", "aborted"} => tee = "none" /\ faults > 0

OverInv ==
    /\ pc \in Unopened => tee = "none"
    /\ pc = "f_finally" => status = "failed" \/ faults > 0
    /\ OverIsClean

(* No step is on the record twice, and seal() writes no call twice.        *)
RecordedOnce ==
    /\ \A k, l \in DOMAIN calls : calls[k] = calls[l] => k = l
    /\ rows <= Len(calls) /\ Len(calls) <= MaxSteps

RecordInv ==
    /\ \A k \in DOMAIN calls : fn[calls[k]] = "settled"
    /\ \A k, l \in DOMAIN calls : calls[k] = calls[l] => k = l
    /\ rows <= Len(calls)
    /\ pc = "seal_calls" => rows < Len(calls)

(* How far run(), a step and its function have come.                       *)
RunStage(p) ==
    CASE p = "new" -> 0          [] p = "accepted" -> 1        [] p = "create_row" -> 2
      [] p = "link_row" -> 3     [] p = "mark_running" -> 4    [] p = "audit_start" -> 5
      [] p = "decompose" -> 6    [] p = "batch" -> 7           [] p = "assemble" -> 8
      [] p = "spent" -> 9        [] p = "cost" -> 10           [] p = "complete" -> 11
      [] p = "seal_record" -> 12 [] p = "seal_calls" -> 13     [] p = "seal_audit" -> 14
      [] p = "seal_txid" -> 15   [] p = "audit_complete" -> 16 [] p = "f_audit" -> 16
      [] p = "f_spent" -> 17     [] p = "terminate" -> 18      [] p = "f_fail" -> 19
      [] p = "f_finally" -> 20   [] p \in {"ended", "aborted", "rejected"} -> 21
      [] p = "crashed" -> 22

StepStage(s) == CASE s = "idle" -> 0 [] s = "routing" -> 1 [] s = "running" -> 2
                  [] s = "auditing" -> 3 [] s \in {"done", "failed"} -> 4
FnStage(f)   == CASE f = "none" -> 0 [] f \in {"llm", "request"} -> 1 [] f = "params" -> 2
                  [] f = "retry" -> 3 [] f = "settled" -> 4

(* Nothing goes back and something goes on: a batch is not run again, an   *)
(* agent not asked again, a timer does not fire twice.                     *)
Advances ==
    /\ RunStage(pc) <= RunStage(pc') /\ results \subseteq results' /\ rows <= rows'
    /\ \A i \in Pos : StepStage(st[i]) <= StepStage(st'[i]) /\ FnStage(fn[i]) <= FnStage(fn'[i])
    /\ \/ RunStage(pc) < RunStage(pc') \/ results # results' \/ rows < rows'
       \/ \E i \in Pos : StepStage(st[i]) < StepStage(st'[i]) \/ FnStage(fn[i]) < FnStage(fn'[i])
EveryStepAdvances == [][Advances]_vars

-----------------------------------------------------------------------------
(* The abstract view: the invocation's row, the wallet and its balance.    *)
Contract == INSTANCE SessionContract WITH verdict <- status

(* Every interleaving of run(), its steps and the calls it abandoned is a  *)
(* behaviour of the contract: a wallet is funded once, for an invocation   *)
(* that has a row; nothing is paid before that runs, after it completed or *)
(* after the wallet is closed.                                             *)
ImplementsContract == Contract!Spec

-----------------------------------------------------------------------------
(* What the repository says of a session, and the code does not keep.      *)

(* wallet.js:21: "sk is a Uint8Array -- MUST be zeroed on session end". *)
KeyZeroedAtEnd == pc \in {"ended", "aborted"} => wallet = "destroyed"

(* init.sql:33: memory_wiped is "confirmed by TEE on termination". *)
WipeConfirmedByTee == session.ended # "none" => tee = "destroyed"

(* decisionRecord.js:5-9: the one record of an invocation accumulates the  *)
(* "per-agent call records (what went out, what came back)".               *)
RecordHasEveryCall == pc = "ended" => sealed = Len(calls)

(* decisionRecord.js:5: "Every invocation produces exactly one             *)
(* DecisionRecord"; checked with a database that never fails.              *)
RecordPersisted == (pc = "ended" /\ faults = 0) => record
=============================================================================
