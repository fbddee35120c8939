------------------------ MODULE CortexSession_proofs ------------------------
(***************************************************************************)
(* Proofs about CortexSession, for every plan, limit, price and number of  *)
(* steps.                                                                  *)
(***************************************************************************)
EXTENDS CortexSession, FiniteSets, FiniteSetTheorems, SequenceTheorems, TLAPS

-----------------------------------------------------------------------------
(* decompose never returns more than maxSteps steps, and only steps. *)
LEMMA DecomposeType ==
    ASSUME NEW raw \in RawPlans
    PROVE  /\ Decompose(raw, MaxSteps) \in Seq(Step(Ids))
           /\ Len(Decompose(raw, MaxSteps)) <= MaxSteps
<1> DEFINE m == IF Len(raw) < MaxSteps THEN Len(raw) ELSE MaxSteps
<1>1. raw \in Seq(Step(Ids))
    BY ConstantsAssumption
<1>2. Len(raw) \in Nat /\ m \in Nat /\ m <= Len(raw) /\ m <= MaxSteps
    BY <1>1, LenProperties, ConstantsAssumption
<1>3. \A k \in 1 .. m : raw[k] \in Step(Ids)
    BY <1>1, <1>2, ElementOfSeq
<1>4. SubSeq(raw, 1, m) \in Seq(Step(Ids)) /\ Len(SubSeq(raw, 1, m)) <= MaxSteps
    <2> HIDE DEF m
    <2> QED BY <1>2, <1>3, SubSeqProperties
<1> QED BY <1>4 DEF Decompose

(* A batch consists of positions of the plan, none of them completed. *)
LEMMA BatchRemains ==
    ASSUME NEW p, NEW C, NEW i \in NextBatch(p, C)
    PROVE  i \in DOMAIN p /\ p[i].id \notin C
BY DEF NextBatch, Ready, Remaining

(* There is no next batch only when every identifier is completed. *)
LEMMA NoBatchLeft ==
    ASSUME NEW p, NEW C, NextBatch(p, C) = {}
    PROVE  IdsOf(p, DOMAIN p) \subseteq C
BY DEF NextBatch, Ready, Remaining, IdsOf

(* The positions of a well-typed plan are positions of the session, and    *)
(* their identifiers and zones are well typed.                             *)
LEMMA PlanType ==
    ASSUME NEW p \in Seq(Step(Ids)), Len(p) <= MaxSteps
    PROVE  /\ DOMAIN p \subseteq Pos
           /\ \A i \in DOMAIN p : p[i].id \in Ids /\ p[i].execution \in Zones
<1>1. DOMAIN p = 1 .. Len(p) /\ Len(p) \in Nat /\ \A i \in 1 .. Len(p) : p[i] \in Step(Ids)
    BY LenProperties, ElementOfSeq
<1> QED BY <1>1, ConstantsAssumption DEF Pos, Step

-----------------------------------------------------------------------------
(* Type correctness and the budget.                                        *)

LEMMA TypeInit == Init => TypeOK /\ WithinBudget
<1> SUFFICES ASSUME Init PROVE TypeOK /\ WithinBudget
    OBVIOUS
<1>1. ControlType
    <2>1. plan \in Seq(Step(Ids)) /\ Len(plan) <= MaxSteps
        BY EmptySeq, ConstantsAssumption DEF Init
    <2>2. st \in [Pos -> StepStates] /\ fn \in [Pos -> FnStates]
        BY DEF Init, StepStates, FnStates
    <2>3. pc \in PCs
        BY DEF Init, PCs
    <2> QED BY <2>1, <2>2, <2>3 DEF Init, ControlType
<1>2. MoneyType   BY DEF Init, MoneyType
<1>3. SealType    BY EmptySeq DEF Init, SealType
<1>4. RowType
    <2>1. faults \in 0 .. MaxDbFaults
        BY ConstantsAssumption DEF Init
    <2>2. session \in [row : {"absent", "inserted", "linked"}, spent : Nat,
                      ended : {"none", "completed", "error"}]
        BY DEF Init
    <2>3. record \in BOOLEAN /\ ledger \in BOOLEAN
        BY DEF Init
    <2> QED BY <2>1, <2>2, <2>3 DEF Init, RowType
<1>5. WithinBudget BY ConstantsAssumption DEF Init, WithinBudget
<1> QED BY <1>1, <1>2, <1>3, <1>4, <1>5 DEF TypeOK

(* The first part: the control state.  A batch starts with steps in their  *)
(* first states.                                                           *)
LEMMA StartBatchType ==
    ASSUME NEW p, NEW C, StartBatch(p, C),
           st \in [Pos -> StepStates], fn \in [Pos -> FnStates]
    PROVE  /\ pc' \in PCs
           /\ st' \in [Pos -> StepStates] /\ fn' \in [Pos -> FnStates]
BY DEF StartBatch, StepStates, FnStates, PCs

LEMMA ControlStep == TypeOK /\ Next => ControlType'
<1> SUFFICES ASSUME TypeOK, Next PROVE ControlType'
    OBVIOUS
<1> USE DEF runVars, stepVars
<1>1. ControlType
    BY DEF TypeOK
<1>2. CASE StartUp
    BY <1>1, <1>2 DEF ControlType, StartUp, Invoke, OpenWallet, InsertSession, LinkSession,
                      MarkRunning, AuditStart, PCs
<1>3. CASE DecomposeTask
    <2>1. PICK raw \in RawPlans : plan' = Decompose(raw, MaxSteps)
        BY <1>3 DEF DecomposeTask
    <2>2. plan' \in Seq(Step(Ids)) /\ Len(plan') <= MaxSteps
        BY <2>1, DecomposeType
    <2>3. CASE StartBatch(plan', {}) /\ UNCHANGED reason
        <3>1. /\ pc' \in PCs
              /\ st' \in [Pos -> StepStates] /\ fn' \in [Pos -> FnStates]
            BY <1>1, <2>3, StartBatchType DEF ControlType
        <3> QED BY <1>1, <1>3, <2>2, <2>3, <3>1 DEF DecomposeTask, ControlType
    <2>4. CASE Catch /\ UNCHANGED stepVars
        BY <1>1, <1>3, <2>2, <2>4 DEF DecomposeTask, ControlType, Catch, PCs
    <2> QED BY <1>3, <2>3, <2>4 DEF DecomposeTask
<1>4. CASE FinishBatch
    <2>1. IdsOf(plan, NextBatch(plan, results)) \subseteq Ids
        BY <1>1, BatchRemains, PlanType DEF ControlType, IdsOf
    <2>2. /\ pc' \in PCs
          /\ st' \in [Pos -> StepStates] /\ fn' \in [Pos -> FnStates]
        <3>1. StartBatch(plan, results')
            BY <1>4 DEF FinishBatch
        <3> QED BY <1>1, <3>1, StartBatchType DEF ControlType
    <2> QED BY <1>1, <1>4, <2>1, <2>2 DEF FinishBatch, ControlType
<1>5. CASE Assemble
    BY <1>1, <1>5 DEF ControlType, Assemble, Catch, PCs
<1>6. CASE WindUp
    <2>1. CASE UpdateSpent \/ RecordCost \/ Complete
        BY <1>1, <2>1 DEF ControlType, UpdateSpent, RecordCost, Complete, Catch, PCs
    <2>2. CASE SealRecord \/ SealCall \/ SealAudit \/ SealTxid
        BY <1>1, <2>2 DEF ControlType, SealRecord, SealCall, SealAudit, SealTxid, NextCallRow,
                          PCs, Catching
    <2>3. CASE AuditOutcome \/ Terminate \/ FailInvocation \/ CleanUp
        BY <1>1, <2>3 DEF ControlType, AuditOutcome, Terminate, FailInvocation, CleanUp,
                          Finally, PCs, Catching
    <2> QED BY <1>6, <2>1, <2>2, <2>3 DEF WindUp
<1>7. ASSUME NEW i \in Pos, StepOf(i) PROVE ControlType'
    <2> USE DEF StepStates, FnStates
    <2>1. CASE Route(i) \/ TeeTimeout(i) \/ AuditStep(i)
        BY <1>1, <2>1 DEF ControlType, Route, TeeTimeout, AuditStep, Rejects, Catch, PCs
    <2>2. CASE ModelAnswers(i) \/ AgentAnswers(i) \/ AgentAnswersPaid(i)
        BY <1>1, <2>2 DEF ControlType, ModelAnswers, AgentAnswers, AgentAnswersPaid,
                          FnReturns, FnThrows, Rejects, Catch, PCs
    <2>3. CASE SignPayment(i) \/ RefusePayment(i) \/ SimulatePayment(i)
        BY <1>1, <2>3 DEF ControlType, SignPayment, RefusePayment, SimulatePayment,
                          FnThrows, Rejects, Catch, PCs
    <2> QED BY <1>7, <2>1, <2>2, <2>3 DEF StepOf, Agent
<1>8. CASE Crash
    BY <1>1, <1>8 DEF ControlType, Crash, PCs
<1> QED BY <1>2, <1>3, <1>4, <1>5, <1>6, <1>7, <1>8 DEF Next, Run

(* The second: the money, and the budget with it. *)
LEMMA MoneyStep == TypeOK /\ WithinBudget /\ Next => MoneyType' /\ WithinBudget'
<1> SUFFICES ASSUME TypeOK, WithinBudget, Next PROVE MoneyType' /\ WithinBudget'
    OBVIOUS
<1> USE DEF money, MoneyType, WithinBudget
<1>1. MoneyType /\ st \in [Pos -> StepStates] /\ SpendingLimit \in Nat
    BY ConstantsAssumption DEF TypeOK, ControlType
<1>2. CASE Run
    BY <1>1, <1>2 DEF Run, StartUp, Invoke, OpenWallet, InsertSession, LinkSession, MarkRunning,
        AuditStart, DecomposeTask, FinishBatch, Assemble, WindUp, UpdateSpent, RecordCost,
        Complete, SealRecord, SealCall, SealAudit, SealTxid, AuditOutcome, Terminate,
        FailInvocation, CleanUp, Finally, SpentByWallet
<1>3. ASSUME NEW i \in Pos, StepOf(i) PROVE MoneyType' /\ WithinBudget'
    <2>1. CASE SignPayment(i)
        <3>1. PICK amount \in Prices : /\ amount <= SpendingLimit - spent
                                       /\ spent' = spent + amount
                                       /\ paid' = [paid EXCEPT ![i] = @ + amount]
            BY <2>1 DEF SignPayment, Affordable, Usable
        <3>2. amount \in Nat
            BY ConstantsAssumption
        <3> QED BY <1>1, <2>1, <3>1, <3>2 DEF SignPayment
    <2>2. CASE Route(i) \/ TeeTimeout(i) \/ AuditStep(i) \/ ModelAnswers(i) \/ AgentAnswers(i)
               \/ AgentAnswersPaid(i) \/ RefusePayment(i) \/ SimulatePayment(i)
        BY <1>1, <2>2 DEF Route, TeeTimeout, AuditStep, ModelAnswers, AgentAnswers,
            AgentAnswersPaid, RefusePayment, SimulatePayment
    <2> QED BY <1>3, <2>1, <2>2 DEF StepOf, Agent
<1>4. CASE Crash
    BY <1>1, <1>4 DEF Crash
<1> QED BY <1>2, <1>3, <1>4 DEF Next

(* The third: the decision record in memory. *)
LEMMA SealStep == TypeOK /\ Next => SealType'
<1> SUFFICES ASSUME TypeOK, Next PROVE SealType'
    OBVIOUS
<1> USE DEF sealVars, SealType
<1>1. SealType
    BY DEF TypeOK
<1>2. CASE Run
    <2>1. CASE StartUp \/ DecomposeTask \/ FinishBatch \/ Assemble
        BY <1>1, <2>1 DEF StartUp, Invoke, OpenWallet, InsertSession, LinkSession, MarkRunning,
            AuditStart, DecomposeTask, FinishBatch, Assemble
    <2>2. CASE SealRecord \/ SealCall
        BY <1>1, <2>2 DEF SealRecord, SealCall, NextCallRow
    <2>3. CASE \/ UpdateSpent \/ RecordCost \/ Complete \/ SealAudit \/ SealTxid
               \/ AuditOutcome \/ Terminate \/ FailInvocation \/ CleanUp
        BY <1>1, <2>3 DEF UpdateSpent, RecordCost, Complete, SealAudit, SealTxid,
            AuditOutcome, Terminate, FailInvocation, CleanUp
    <2> QED BY <1>2, <2>1, <2>2, <2>3 DEF Run, WindUp
<1>3. ASSUME NEW i \in Pos, StepOf(i) PROVE SealType'
    <2>1. CASE Route(i) \/ TeeTimeout(i) \/ AuditStep(i)
        BY <1>1, <2>1 DEF Route, TeeTimeout, AuditStep
    <2>2. CASE Agent(i)
        BY <1>1, <2>2 DEF Agent, ModelAnswers, AgentAnswers, AgentAnswersPaid, SignPayment,
            RefusePayment, SimulatePayment, FnReturns, FnThrows
    <2> QED BY <1>3, <2>1, <2>2 DEF StepOf
<1>4. CASE Crash
    BY <1>1, <1>4 DEF Crash
<1> QED BY <1>2, <1>3, <1>4 DEF Next

(* The fourth: the rows. *)
LEMMA RowStep == TypeOK /\ Next => RowType'
<1> SUFFICES ASSUME TypeOK, Next PROVE RowType'
    OBVIOUS
<1> USE DEF dbVars, RowType, Swallowed, LogEvent, Accepted, Rejected
<1>1. RowType /\ spentArg \in Nat /\ reason \in {"none", "completed", "error"}
      /\ MaxDbFaults \in Nat
    BY ConstantsAssumption DEF TypeOK, ControlType, MoneyType
<1>2. CASE StartUp
    <2>1. CASE Invoke \/ OpenWallet \/ MarkRunning
        BY <1>1, <2>1 DEF Invoke, OpenWallet, MarkRunning
    <2>2. CASE InsertSession
        BY <1>1, <2>2 DEF InsertSession
    <2>3. CASE LinkSession
        BY <1>1, <2>3 DEF LinkSession
    <2>4. CASE AuditStart
        BY <1>1, <2>4 DEF AuditStart, Events
    <2> QED BY <1>2, <2>1, <2>2, <2>3, <2>4 DEF StartUp
<1>3. CASE DecomposeTask \/ FinishBatch \/ Assemble \/ Crash
    BY <1>1, <1>3 DEF DecomposeTask, FinishBatch, Assemble, Crash
<1>4. CASE WindUp
    <2>1. CASE UpdateSpent
        BY <1>1, <2>1 DEF UpdateSpent
    <2>2. CASE RecordCost
        <3>1. ledger' \in BOOLEAN
            BY <1>1, <2>2, Zenon DEF RecordCost, HasRow
        <3>2. faults' \in 0 .. MaxDbFaults
            BY <1>1, <2>2 DEF RecordCost
        <3> QED BY <1>1, <2>2, <3>1, <3>2 DEF RecordCost
    <2>3. CASE Complete \/ FailInvocation \/ CleanUp
        BY <1>1, <2>3 DEF Complete, FailInvocation, CleanUp
    <2>4. CASE SealRecord
        <3>1. record' \in BOOLEAN
            BY <1>1, <2>4, Zenon DEF SealRecord, PgTakesAsJsonb
        <3>2. faults' \in 0 .. MaxDbFaults
            BY <1>1, <2>4 DEF SealRecord
        <3> QED BY <1>1, <2>4, <3>1, <3>2 DEF SealRecord
    <2>5. CASE SealCall \/ SealTxid
        BY <1>1, <2>5 DEF SealCall, SealTxid
    <2>6. CASE SealAudit \/ AuditOutcome
        BY <1>1, <2>6 DEF SealAudit, AuditOutcome, Events
    <2>7. CASE Terminate
        BY <1>1, <2>7 DEF Terminate
    <2> QED BY <1>4, <2>1, <2>2, <2>3, <2>4, <2>5, <2>6, <2>7 DEF WindUp
<1>5. ASSUME NEW i \in Pos, StepOf(i) PROVE RowType'
    <2>1. CASE AuditStep(i)
        BY <1>1, <2>1 DEF AuditStep, Events
    <2>2. CASE Route(i) \/ TeeTimeout(i) \/ Agent(i)
        BY <1>1, <2>2 DEF Route, TeeTimeout, Agent, ModelAnswers, AgentAnswers,
            AgentAnswersPaid, SignPayment, RefusePayment, SimulatePayment
    <2> QED BY <1>5, <2>1, <2>2 DEF StepOf
<1> QED BY <1>2, <1>3, <1>4, <1>5 DEF Next, Run

LEMMA TypeStutter == TypeOK /\ WithinBudget /\ UNCHANGED vars => TypeOK' /\ WithinBudget'
BY DEF TypeOK, WithinBudget, ControlType, MoneyType, SealType, RowType,
       vars, runVars, stepVars, money, sealVars, dbVars

LEMMA TypeStep == TypeOK /\ WithinBudget /\ [Next]_vars => TypeOK' /\ WithinBudget'
BY ControlStep, MoneyStep, SealStep, RowStep, TypeStutter DEF TypeOK

(* Every reachable state is well typed. *)
THEOREM TypeCorrect == Spec => []TypeOK
<1>1. Init => TypeOK /\ WithinBudget
    BY TypeInit
<1>2. (TypeOK /\ WithinBudget) /\ [Next]_vars => (TypeOK /\ WithinBudget)'
    BY TypeStep
<1> QED BY <1>1, <1>2, PTL DEF Spec

(* wallet.js:47-65: whatever the agents charge and however the parallel    *)
(* and abandoned steps interleave, a session never signs away more than    *)
(* its spending limit.                                                     *)
THEOREM BudgetKept == Spec => []WithinBudget
<1>1. Init => TypeOK /\ WithinBudget
    BY TypeInit
<1>2. (TypeOK /\ WithinBudget) /\ [Next]_vars => (TypeOK /\ WithinBudget)'
    BY TypeStep
<1> QED BY <1>1, <1>2, PTL DEF Spec
-----------------------------------------------------------------------------
(* The inductive invariant.                                                *)

LEMMA InvInit == Init => IInv
<1> SUFFICES ASSUME Init PROVE IInv
    OBVIOUS
<1>1. TypeOK /\ WithinBudget
    BY TypeInit
<1>2. PhaseInv
    BY DEF Init, PhaseInv, Unopened, Early, Executed, Sealing, Catching
<1>3. StepInv
    BY DEF Init, StepInv
<1>4. BatchInv
    BY DEF Init, BatchInv, Early, Unopened, Executed, IdsOf
<1> QED BY <1>1, <1>2, <1>3, <1>4 DEF IInv

(* A step that has started and is not done, or whose function still runs,  *)
(* belongs to a session that is executing a batch, or failed, or died.     *)
LEMMA ActiveStep ==
    ASSUME IInv, NEW i \in Pos, st[i] \notin {"idle", "done"} \/ InFlight(i)
    PROVE  /\ pc \notin Early \cup Executed
           /\ reason # "completed" /\ status # "completed"
           /\ i \in DOMAIN plan
           /\ st[i] \notin {"idle", "done"}
<1>1. st[i] \notin {"idle", "done"}
    BY DEF IInv, StepInv, InFlight
<1> QED BY <1>1 DEF IInv, PhaseInv, StepInv, BatchInv

LEMMA PhaseStep == IInv /\ Next => PhaseInv'
<1> SUFFICES ASSUME IInv, Next PROVE PhaseInv'
    OBVIOUS
<1> USE DEF runVars, stepVars, money, dbVars, PhaseInv, Unopened, Early, Executed, Sealing, Catching
<1>1. PhaseInv /\ reason \in {"none", "completed", "error"}
    BY DEF IInv, TypeOK, ControlType
<1>2. CASE StartUp
    BY <1>1, <1>2 DEF StartUp, Invoke, OpenWallet, InsertSession, LinkSession, MarkRunning,
                      AuditStart
<1>3. CASE DecomposeTask
    BY <1>1, <1>3 DEF DecomposeTask, StartBatch, Catch
<1>4. CASE FinishBatch
    BY <1>1, <1>4 DEF FinishBatch, StartBatch
<1>5. CASE Assemble
    BY <1>1, <1>5 DEF Assemble, Catch
<1>6. CASE WindUp
    <2>1. CASE UpdateSpent \/ RecordCost \/ Complete
        BY <1>1, <2>1 DEF UpdateSpent, RecordCost, Complete, Catch
    <2>2. CASE SealRecord \/ SealCall \/ SealAudit \/ SealTxid
        BY <1>1, <2>2 DEF SealRecord, SealCall, SealAudit, SealTxid, NextCallRow
    <2>3. CASE AuditOutcome
        BY <1>1, <2>3 DEF AuditOutcome
    <2>4. CASE Terminate
        BY <1>1, <2>4 DEF Terminate, Finally
    <2>5. CASE FailInvocation
        BY <1>1, <2>5 DEF FailInvocation, Swallowed
    <2>6. CASE CleanUp
        BY <1>1, <2>6 DEF CleanUp, Finally
    <2> QED BY <1>6, <2>1, <2>2, <2>3, <2>4, <2>5, <2>6 DEF WindUp
<1>7. ASSUME NEW i \in Pos, StepOf(i) PROVE PhaseInv'
    <2>1. UNCHANGED <<tee, wallet, status>>
        BY <1>7 DEF StepOf, Agent, Route, TeeTimeout, AuditStep, ModelAnswers, AgentAnswers,
            AgentAnswersPaid, SignPayment, RefusePayment, SimulatePayment
    <2>2. UNCHANGED <<pc, reason>> \/ (pc = "batch" /\ Catch)
        BY <1>7 DEF StepOf, Agent, Route, TeeTimeout, AuditStep, ModelAnswers, AgentAnswers,
            AgentAnswersPaid, SignPayment, RefusePayment, SimulatePayment, FnReturns,
            FnThrows, Rejects
    <2> QED BY <1>1, <2>1, <2>2 DEF Catch
<1>8. CASE Crash
    BY <1>1, <1>8 DEF Crash
<1> QED BY <1>2, <1>3, <1>4, <1>5, <1>6, <1>7, <1>8 DEF Next, Run

(* No step starts twice: the positions of a new batch are still idle. *)
LEMMA FreshBatch ==
    ASSUME IInv, FinishBatch,
           NEW i \in NextBatch(plan, results')
    PROVE  i \in Pos /\ st[i] = "idle"
<1>1. i \in DOMAIN plan /\ plan[i].id \notin results'
    BY BatchRemains
<1>2. i \in Pos
    BY <1>1, PlanType DEF IInv, TypeOK, ControlType
<1>3. i \notin NextBatch(plan, results) /\ plan[i].id \notin results
    BY <1>1 DEF FinishBatch, Resolved, IdsOf
<1> QED BY <1>2, <1>3 DEF IInv, BatchInv, FinishBatch

(* What a new batch does to the steps. *)
LEMMA StartBatchSteps ==
    ASSUME NEW p, NEW C, StartBatch(p, C), NEW i \in Pos
    PROVE  /\ i \notin NextBatch(p, C) => st'[i] = st[i] /\ fn'[i] = fn[i]
           /\ i \in NextBatch(p, C) =>
                 \/ st'[i] = "routing" /\ fn'[i] = fn[i]
                 \/ st'[i] = "running" /\ fn'[i] = "llm"
BY DEF StartBatch

LEMMA StepStep == IInv /\ Next => StepInv'
<1> SUFFICES ASSUME IInv, Next, NEW i \in Pos PROVE StepInv!(i)'
    BY DEF StepInv
<1> USE DEF runVars, stepVars, money, sealVars, InFlight
<1>1. StepInv!(i) /\ st \in [Pos -> StepStates] /\ fn \in [Pos -> FnStates]
      /\ paid \in [Pos -> Nat] /\ calls \in Seq(Pos)
    BY DEF IInv, StepInv, TypeOK, ControlType, MoneyType, SealType
<1>2. CASE StartUp \/ Assemble \/ WindUp \/ Crash
    BY <1>1, <1>2 DEF StartUp, Invoke, OpenWallet, InsertSession, LinkSession, MarkRunning,
        AuditStart, Assemble, WindUp, UpdateSpent, RecordCost, Complete, SealRecord,
        SealCall, SealAudit, SealTxid, AuditOutcome, Terminate, FailInvocation, CleanUp, Crash
<1>3. CASE DecomposeTask
    <2>1. st[i] = "idle" /\ UNCHANGED <<paid, calls>>
        BY <1>3 DEF DecomposeTask, IInv, BatchInv, Early
    <2>2. CASE StartBatch(plan', {})
        <3>1. i \in NextBatch(plan', {}) => i \in DOMAIN plan'
            BY BatchRemains
        <3> QED BY <1>1, <2>1, <2>2, <3>1, StartBatchSteps
    <2>3. CASE UNCHANGED stepVars
        BY <1>1, <2>1, <2>3
    <2> QED BY <1>3, <2>2, <2>3 DEF DecomposeTask
<1>4. CASE FinishBatch
    <2>1. StartBatch(plan, results') /\ UNCHANGED <<plan, paid, calls>>
        BY <1>4 DEF FinishBatch
    <2>2. i \in NextBatch(plan, results') => i \in DOMAIN plan /\ st[i] = "idle"
        BY <1>4, BatchRemains, FreshBatch
    <2> QED BY <1>1, <2>1, <2>2, StartBatchSteps
<1>5. ASSUME NEW j \in Pos, StepOf(j) PROVE StepInv!(i)'
    <2>1. UNCHANGED plan
        BY <1>5 DEF StepOf, Agent, Route, TeeTimeout, AuditStep, ModelAnswers, AgentAnswers,
            AgentAnswersPaid, SignPayment, RefusePayment, SimulatePayment
    <2>2. StepInv!(j)
        BY DEF IInv, StepInv
    <2>3. CASE Route(j)
        BY <1>1, <2>1, <2>2, <2>3 DEF Route, Rejects
    <2>4. CASE TeeTimeout(j)
        BY <1>1, <2>1, <2>2, <2>4 DEF TeeTimeout, Timed, Rejects
    <2>5. CASE AuditStep(j)
        BY <1>1, <2>1, <2>2, <2>5 DEF AuditStep
    <2>6. CASE SignPayment(j)
        BY <1>1, <2>1, <2>2, <2>6 DEF SignPayment
    <2>7. CASE SimulatePayment(j)
        BY <1>1, <2>1, <2>2, <2>7 DEF SimulatePayment
    <2>8. CASE fn[j] \notin {"none", "settled"} /\ FnThrows(j) /\ UNCHANGED paid
        BY <1>1, <2>1, <2>2, <2>8 DEF FnThrows, Rejects
    <2>9. CASE fn[j] \notin {"none", "settled"} /\ FnReturns(j) /\ UNCHANGED paid
        <3>1. CASE st[j] # "running"
            BY <1>1, <2>1, <2>2, <2>9, <3>1 DEF FnReturns
        <3>2. CASE st[j] = "running"
            <4>1. calls' = IF plan[j].execution = "external" THEN Append(calls, j) ELSE calls
                BY <2>9, <3>2 DEF FnReturns
            <4>2. \A k \in DOMAIN calls : k \in DOMAIN calls' /\ calls'[k] = calls[k]
                BY <1>1, <4>1, AppendProperties
            <4>3. plan[j].execution = "external" => \E k \in DOMAIN calls' : calls'[k] = j
                BY <1>1, <4>1, AppendProperties
            <4> QED BY <1>1, <2>1, <2>2, <2>9, <3>2, <4>2, <4>3 DEF FnReturns
        <3> QED BY <3>1, <3>2
    <2>10. CASE AgentAnswers(j) /\ ~ FnReturns(j) /\ ~ FnThrows(j)
        BY <1>1, <2>1, <2>2, <2>10 DEF AgentAnswers
    <2>11. CASE ModelAnswers(j) \/ AgentAnswers(j) \/ AgentAnswersPaid(j) \/ RefusePayment(j)
        BY <2>8, <2>9, <2>10, <2>11 DEF ModelAnswers, AgentAnswers, AgentAnswersPaid, RefusePayment
    <2> QED BY <1>5, <2>3, <2>4, <2>5, <2>6, <2>7, <2>11 DEF StepOf, Agent
<1> QED BY <1>2, <1>3, <1>4, <1>5 DEF Next, Run

LEMMA BatchStep == IInv /\ Next => BatchInv'
<1> SUFFICES ASSUME IInv, Next PROVE BatchInv'
    OBVIOUS
<1> USE DEF runVars, stepVars, BatchInv, Early, Unopened, Executed
<1>1. BatchInv /\ st \in [Pos -> StepStates]
    BY DEF IInv, TypeOK, ControlType
<1>2. CASE StartUp \/ Crash
    BY <1>1, <1>2 DEF StartUp, Invoke, OpenWallet, InsertSession, LinkSession, MarkRunning,
                      AuditStart, Crash, IInv, PhaseInv
<1>3. CASE DecomposeTask
    <2>1. results' = {} /\ (\A i \in Pos : st[i] = "idle") /\ reason = "none"
        BY <1>1, <1>3 DEF DecomposeTask, IInv, PhaseInv
    <2>2. CASE StartBatch(plan', {}) /\ UNCHANGED reason
        <3>1. CASE NextBatch(plan', {}) = {}
            <4>1. IdsOf(plan', DOMAIN plan') = {} /\ pc' = "assemble"
                BY <2>2, <3>1, NoBatchLeft DEF StartBatch
            <4>2. \A i \in Pos : st'[i] = "idle"
                BY <2>1, <2>2, <3>1, StartBatchSteps
            <4> QED BY <2>1, <4>1, <4>2
        <3>2. CASE NextBatch(plan', {}) # {}
            <4>1. pc' = "batch" /\ reason' = "none"
                BY <2>1, <2>2, <3>2 DEF StartBatch
            <4>2. \A i \in Pos : \/ st'[i] = "idle"
                                 \/ st'[i] # "failed" /\ i \in NextBatch(plan', results')
                BY <2>1, <2>2, StartBatchSteps
            <4> QED BY <2>1, <4>1, <4>2
        <3> QED BY <3>1, <3>2
    <2>3. CASE Catch /\ UNCHANGED stepVars
        BY <2>1, <2>3 DEF Catch
    <2> QED BY <1>3, <2>2, <2>3 DEF DecomposeTask
<1>4. CASE FinishBatch
    <2>1. /\ results' = results \cup IdsOf(plan, NextBatch(plan, results))
          /\ StartBatch(plan, results') /\ UNCHANGED <<reason, plan>> /\ reason = "none"
        BY <1>4 DEF FinishBatch, IInv, PhaseInv
    <2>2. results' \subseteq IdsOf(plan, DOMAIN plan)
        BY <1>1, <2>1, BatchRemains DEF IdsOf
    <2>3. \A i \in Pos : st[i] = "idle" \/ (st[i] = "done" /\ plan[i].id \in results')
        BY <1>1, <1>4, <2>1 DEF FinishBatch, Resolved, IdsOf
    <2>4. CASE NextBatch(plan, results') = {}
        <3>1. results' = IdsOf(plan, DOMAIN plan) /\ pc' = "assemble"
            BY <2>1, <2>2, <2>4, NoBatchLeft DEF StartBatch
        <3>2. \A i \in Pos : st'[i] \in {"idle", "done"}
            BY <2>1, <2>3, <2>4, StartBatchSteps
        <3> QED BY <2>1, <3>1, <3>2
    <2>5. CASE NextBatch(plan, results') # {}
        <3>1. pc' = "batch"
            BY <2>1, <2>5 DEF StartBatch
        <3>2. \A i \in Pos : \/ st'[i] = "idle"
                             \/ st'[i] = "done" /\ plan[i].id \in results'
                             \/ st'[i] # "failed" /\ i \in NextBatch(plan, results')
            BY <2>1, <2>3, StartBatchSteps
        <3> QED BY <2>1, <2>2, <3>1, <3>2
    <2> QED BY <2>4, <2>5
<1>5. CASE Assemble
    BY <1>1, <1>5 DEF Assemble, Catch
<1>6. CASE WindUp
    <2>1. UNCHANGED <<plan, results, st>>
        BY <1>6 DEF WindUp, UpdateSpent, RecordCost, Complete, SealRecord, SealCall, SealAudit,
            SealTxid, AuditOutcome, Terminate, FailInvocation, CleanUp
    <2>2. /\ pc' \notin Early \cup {"batch"}
          /\ pc' \in Executed => pc \in Executed
          /\ reason' = "completed" => pc \in Executed \/ reason = "completed"
        BY <1>6 DEF WindUp, UpdateSpent, RecordCost, Complete, SealRecord, SealCall, SealAudit,
            SealTxid, NextCallRow, AuditOutcome, Terminate, FailInvocation, CleanUp, Finally, Catch
    <2> QED BY <1>1, <2>1, <2>2
<1>7. ASSUME NEW i \in Pos, StepOf(i) PROVE BatchInv'
    <2> USE DEF InFlight
    <2>1. UNCHANGED <<plan, results>>
        BY <1>7 DEF StepOf, Agent, Route, TeeTimeout, AuditStep, ModelAnswers, AgentAnswers,
            AgentAnswersPaid, SignPayment, RefusePayment, SimulatePayment
    <2>2. st[i] \notin {"idle", "done"} \/ InFlight(i)
        BY <1>7 DEF StepOf, Agent, Route, TeeTimeout, Timed, AuditStep, ModelAnswers, AgentAnswers,
            AgentAnswersPaid, SignPayment, RefusePayment, SimulatePayment
    <2>3. pc \notin Early \cup Executed /\ reason # "completed" /\ st[i] \notin {"idle", "done"}
        BY <2>2, ActiveStep
    <2>4. \A j \in Pos \ {i} : st'[j] = st[j]
        BY <1>1, <1>7 DEF StepOf, Agent, Route, TeeTimeout, AuditStep, ModelAnswers,
            AgentAnswers, AgentAnswersPaid, SignPayment, RefusePayment, SimulatePayment,
            FnReturns, FnThrows, Rejects
    <2>5. \/ UNCHANGED <<pc, reason>> /\ (st'[i] # "failed" \/ pc # "batch")
          \/ pc' = "seal_record" /\ reason' = "error"
        <3>1. pc = "batch" => st[i] # "failed"
            BY <1>1, <2>3
        <3> QED
            BY <1>1, <1>7, <3>1 DEF StepOf, Agent, Route, TeeTimeout, AuditStep, ModelAnswers,
                AgentAnswers, AgentAnswersPaid, SignPayment, RefusePayment, SimulatePayment,
                FnReturns, FnThrows, Rejects, Catch
    <2> QED BY <1>1, <2>1, <2>3, <2>4, <2>5
<1> QED BY <1>2, <1>3, <1>4, <1>5, <1>6, <1>7 DEF Next, Run

LEMMA InvStep == IInv /\ [Next]_vars => IInv'
<1>1. IInv /\ Next => IInv'
    BY TypeStep, PhaseStep, StepStep, BatchStep DEF IInv
<1>2. IInv /\ UNCHANGED vars => IInv'
    <2> SUFFICES ASSUME IInv, UNCHANGED vars PROVE IInv'
        OBVIOUS
    <2> USE DEF vars, runVars, stepVars, money, sealVars, dbVars
    <2>1. TypeOK' /\ WithinBudget'
        BY TypeStutter DEF IInv
    <2>2. PhaseInv'
        BY DEF IInv, PhaseInv
    <2>3. StepInv'
        BY DEF IInv, StepInv, InFlight
    <2>4. BatchInv'
        BY DEF IInv, BatchInv
    <2> QED BY <2>1, <2>2, <2>3, <2>4 DEF IInv
<1> QED BY <1>1, <1>2

THEOREM Invariant == Spec => []IInv
BY InvInit, InvStep, PTL DEF Spec

-----------------------------------------------------------------------------
(* A completed invocation left nothing in flight, has a result for every   *)
(* step, and has every external result on its decision record.             *)
THEOREM CompletedQuiet == Spec => []CompletedIsQuiet
<1>1. IInv => CompletedIsQuiet
    <2> SUFFICES ASSUME IInv, status = "completed"
                 PROVE  /\ \A i \in Pos : ~ InFlight(i) /\ st[i] \in {"idle", "done"}
                        /\ results = IdsOf(plan, DOMAIN plan)
                        /\ \A i \in DOMAIN plan :
                              st[i] = "done" /\ plan[i].execution = "external"
                              => \E k \in DOMAIN calls : calls[k] = i
        BY DEF CompletedIsQuiet
    <2>1. reason = "completed"
        BY DEF IInv, PhaseInv
    <2>2. DOMAIN plan \subseteq Pos
        BY PlanType DEF IInv, TypeOK, ControlType
    <2> QED BY <2>1, <2>2 DEF IInv, BatchInv, StepInv, InFlight
<1> QED BY <1>1, Invariant, PTL

(* A verdict never changes: nothing after _complete, not the seal, the     *)
(* audit or the termination, reaches the catch block.                      *)
THEOREM VerdictKept == Spec => VerdictIsFinal
<1>1. IInv /\ [Next]_vars => (status \in {"completed", "failed"} => UNCHANGED status)
    <2> SUFFICES ASSUME IInv, Next, status \in {"completed", "failed"} PROVE UNCHANGED status
        BY DEF vars, dbVars
    <2> USE DEF dbVars
    <2>1. pc \in {"f_finally", "ended", "crashed"} \/ (status = "completed" /\ reason = "completed")
        BY DEF IInv, PhaseInv, Unopened
    <2>2. CASE Run
        BY <2>1, <2>2 DEF Run, StartUp, Invoke, OpenWallet, InsertSession, LinkSession,
            MarkRunning, AuditStart, DecomposeTask, FinishBatch, Assemble, WindUp, UpdateSpent,
            RecordCost, Complete, SealRecord, SealCall, SealAudit, SealTxid, AuditOutcome,
            Terminate, FailInvocation, CleanUp, IInv, PhaseInv, Executed, Catching
    <2>3. ASSUME NEW i \in Pos, StepOf(i) PROVE UNCHANGED status
        BY <2>3 DEF StepOf, Agent, Route, TeeTimeout, AuditStep, ModelAnswers, AgentAnswers,
            AgentAnswersPaid, SignPayment, RefusePayment, SimulatePayment
    <2>4. CASE Crash
        BY <2>4 DEF Crash
    <2> QED BY <2>2, <2>3, <2>4 DEF Next
<1> QED BY <1>1, Invariant, PTL DEF Spec, VerdictIsFinal

(* wallet.js:80: after destroyWallet the wallet signs nothing, whichever   *)
(* abandoned call still runs, and no action brings it back.                *)
THEOREM DestroyedInert == Spec => DestroyedWalletIsInert
<1>1. IInv /\ [Next]_vars => (wallet = "destroyed" => UNCHANGED <<wallet, spent, paid>>)
    <2> SUFFICES ASSUME IInv, Next, wallet = "destroyed" PROVE UNCHANGED <<wallet, spent, paid>>
        BY DEF vars, money
    <2> USE DEF money
    <2>1. pc # "accepted"
        BY DEF IInv, PhaseInv
    <2>2. CASE Run
        BY <2>1, <2>2 DEF Run, StartUp, Invoke, OpenWallet, InsertSession, LinkSession,
            MarkRunning, AuditStart, DecomposeTask, FinishBatch, Assemble, WindUp, UpdateSpent,
            RecordCost, Complete, SealRecord, SealCall, SealAudit, SealTxid, AuditOutcome,
            Terminate, FailInvocation, CleanUp, Finally
    <2>3. ASSUME NEW i \in Pos, StepOf(i) PROVE UNCHANGED <<wallet, spent, paid>>
        BY <2>3 DEF StepOf, Agent, Route, TeeTimeout, AuditStep, ModelAnswers, AgentAnswers,
            AgentAnswersPaid, Usable, SignPayment, RefusePayment, SimulatePayment
    <2>4. CASE Crash
        BY <2>4 DEF Crash
    <2> QED BY <2>2, <2>3, <2>4 DEF Next
<1> QED BY <1>1, Invariant, PTL DEF Spec, DestroyedWalletIsInert

(* x402Client.js:19: a step that paid is never charged again. *)
THEOREM NeverPaysTwice == Spec => PaysOnce
<1>1. IInv /\ [Next]_vars => (\A i \in Pos : paid[i] # 0 => paid'[i] = paid[i])
    <2> SUFFICES ASSUME IInv, Next, NEW i \in Pos, paid[i] # 0 PROVE paid'[i] = paid[i]
        BY DEF vars, money
    <2> USE DEF money
    <2>1. fn[i] # "params" /\ paid \in [Pos -> Nat]
        BY DEF IInv, StepInv, TypeOK, MoneyType
    <2>2. CASE Run
        BY <2>2 DEF Run, StartUp, Invoke, OpenWallet, InsertSession, LinkSession,
            MarkRunning, AuditStart, DecomposeTask, FinishBatch, Assemble, WindUp, UpdateSpent,
            RecordCost, Complete, SealRecord, SealCall, SealAudit, SealTxid, AuditOutcome,
            Terminate, FailInvocation, CleanUp
    <2>3. ASSUME NEW j \in Pos, StepOf(j) PROVE paid'[i] = paid[i]
        BY <2>1, <2>3 DEF StepOf, Agent, Route, TeeTimeout, AuditStep, ModelAnswers,
            AgentAnswers, AgentAnswersPaid, SignPayment, RefusePayment, SimulatePayment
    <2>4. CASE Crash
        BY <2>4 DEF Crash
    <2> QED BY <2>2, <2>3, <2>4 DEF Next
<1> QED BY <1>1, Invariant, PTL DEF Spec, PaysOnce

-----------------------------------------------------------------------------
(* The seal, the audit trail and the rows.                                 *)

(* Only a session whose outcome is open turns to the catch block, and what *)
(* its steps do leaves its rows alone.                                     *)
LEMMA StepsLeaveRows ==
    ASSUME NEW i \in Pos, IInv, StepOf(i)
    PROVE  /\ UNCHANGED <<plan, tee, spentArg, rows, sealed, status, session, record, ledger>>
           /\ UNCHANGED <<pc, reason>> \/ (pc = "batch" /\ Catch)
           /\ trail' \subseteq trail \cup {<<"step", i>>}
           /\ faults' \in {faults, faults + 1}
           /\ reason = "completed" \/ pc \in Early \cup Executed => UNCHANGED <<spent, calls>>
           /\ spent' \in Nat /\ spent <= spent'
<1> USE DEF money, sealVars, dbVars, Swallowed, LogEvent, Accepted, Rejected
<1>1. st[i] \notin {"idle", "done"} \/ InFlight(i)
    BY DEF StepOf, Agent, Route, TeeTimeout, Timed, AuditStep, ModelAnswers, AgentAnswers,
        AgentAnswersPaid, SignPayment, RefusePayment, SimulatePayment, InFlight
<1>2. pc \notin Early \cup Executed /\ reason # "completed"
    BY <1>1, ActiveStep
<1>3. UNCHANGED <<plan, tee, spentArg, rows, sealed, status, session, record, ledger>>
    BY DEF StepOf, Agent, Route, TeeTimeout, AuditStep, ModelAnswers, AgentAnswers,
        AgentAnswersPaid, SignPayment, RefusePayment, SimulatePayment, runVars
<1>4. UNCHANGED <<pc, reason>> \/ (pc = "batch" /\ Catch)
    BY DEF StepOf, Agent, Route, TeeTimeout, AuditStep, ModelAnswers, AgentAnswers,
        AgentAnswersPaid, SignPayment, RefusePayment, SimulatePayment, FnReturns,
        FnThrows, Rejects, runVars
<1>5. trail' \subseteq trail \cup {<<"step", i>>} /\ faults' \in {faults, faults + 1}
    BY DEF StepOf, Agent, Route, TeeTimeout, AuditStep, ModelAnswers, AgentAnswers,
        AgentAnswersPaid, SignPayment, RefusePayment, SimulatePayment
<1>6. spent' \in Nat /\ spent <= spent'
    <2>1. spent \in Nat /\ Prices \subseteq Nat
        BY ConstantsAssumption DEF IInv, TypeOK, MoneyType
    <2> QED
        BY <2>1 DEF StepOf, Agent, Route, TeeTimeout, AuditStep, ModelAnswers, AgentAnswers,
            AgentAnswersPaid, SignPayment, RefusePayment, SimulatePayment
<1> QED BY <1>2, <1>3, <1>4, <1>5, <1>6

LEMMA SealInvStep == IInv /\ SealInv /\ [Next]_vars => SealInv'
<1> SUFFICES ASSUME IInv, SealInv, [Next]_vars PROVE SealInv'
    OBVIOUS
<1> USE DEF sealVars, runVars, SealInv, SealCoversCalls
<1>1. rows \in Nat /\ sealed \in Int /\ Len(calls) \in Nat
    BY LenProperties DEF IInv, TypeOK, SealType
<1>2. CASE Run
    <2>1. CASE StartUp \/ UpdateSpent \/ RecordCost \/ SealAudit \/ SealTxid
               \/ AuditOutcome \/ Terminate \/ FailInvocation \/ CleanUp
        <3>1. UNCHANGED <<reason, calls, rows, sealed>> /\ pc' \notin {"seal_record", "seal_calls"}
            BY <2>1 DEF StartUp, Invoke, OpenWallet, InsertSession, LinkSession, MarkRunning,
                AuditStart, UpdateSpent, RecordCost, SealAudit, SealTxid, AuditOutcome,
                Terminate, FailInvocation, CleanUp, Finally
        <3> QED BY <3>1
    <2>2. CASE DecomposeTask \/ FinishBatch \/ Assemble \/ Complete
        <3>1. /\ reason = "none" /\ UNCHANGED <<calls, rows, sealed>>
              /\ pc' # "seal_calls"
            BY <2>2 DEF DecomposeTask, FinishBatch, Assemble, Complete, StartBatch, Catch, IInv,
                PhaseInv, Early, Executed
        <3> QED BY <3>1
    <2>3. CASE SealRecord \/ SealCall
        <3>1. /\ reason # "none" /\ pc' # "seal_record" /\ UNCHANGED <<reason, calls>>
              /\ sealed = -1
            BY <2>3 DEF SealRecord, SealCall, NextCallRow, IInv, PhaseInv, Sealing
        <3>2. /\ rows' \in Nat
              /\ \/ /\ sealed' = rows'
                    /\ rows' = Len(calls)
                    /\ pc' = "seal_audit"
                 \/ sealed' = sealed
            BY <1>1, <2>3 DEF SealRecord, SealCall, NextCallRow
        <3> QED BY <1>1, <3>1, <3>2
    <2> QED BY <1>2, <2>1, <2>2, <2>3 DEF Run, WindUp
<1>3. ASSUME NEW i \in Pos, StepOf(i) PROVE SealInv'
    <2>1. /\ UNCHANGED <<rows, sealed>>
          /\ reason = "completed" => UNCHANGED calls
          /\ UNCHANGED <<pc, reason>> \/ (pc = "batch" /\ Catch)
        BY <1>3, StepsLeaveRows
    <2>2. pc = "batch" => reason = "none"
        BY DEF IInv, PhaseInv
    <2> QED BY <2>1, <2>2 DEF Catch
<1>4. CASE Crash \/ UNCHANGED vars
    BY <1>4 DEF Crash, vars
<1> QED BY <1>2, <1>3, <1>4 DEF Next

LEMMA TrailInvStep == IInv /\ TrailInv /\ [Next]_vars => TrailInv'
<1> SUFFICES ASSUME IInv, TrailInv, [Next]_vars PROVE TrailInv'
    OBVIOUS
<1> USE DEF dbVars, runVars, TrailInv, Swallowed, LogEvent
<1>1. CASE Run
    <2>1. CASE \/ Invoke \/ OpenWallet \/ InsertSession \/ LinkSession \/ MarkRunning
               \/ UpdateSpent \/ RecordCost \/ SealRecord \/ SealCall \/ SealTxid
               \/ Terminate \/ FailInvocation \/ CleanUp
        BY <2>1 DEF Invoke, OpenWallet, InsertSession, LinkSession, MarkRunning,
            UpdateSpent, RecordCost, SealRecord, SealCall, SealTxid, Terminate,
            FailInvocation, CleanUp
    <2>2. CASE AuditStart \/ SealAudit
        BY <2>2 DEF AuditStart, SealAudit
    <2>3. CASE DecomposeTask \/ FinishBatch \/ Assemble \/ Complete
        BY <2>3 DEF DecomposeTask, FinishBatch, Assemble, Complete, IInv, PhaseInv, Early, Executed
    <2>4. CASE AuditOutcome
        BY <2>4 DEF AuditOutcome, IInv, PhaseInv, Catching
    <2> QED BY <1>1, <2>1, <2>2, <2>3, <2>4 DEF Run, StartUp, WindUp
<1>2. ASSUME NEW i \in Pos, StepOf(i) PROVE TrailInv'
    <2>1. /\ trail' \subseteq trail \cup {<<"step", i>>}
          /\ UNCHANGED <<pc, reason>> \/ (pc = "batch" /\ Catch)
        BY <1>2, StepsLeaveRows
    <2>2. pc = "batch" => reason = "none"
        BY DEF IInv, PhaseInv
    <2>3. \A e \in {"complete", "fail"} : <<e, 0>> # <<"step", i>>
        OBVIOUS
    <2> QED BY <2>1, <2>2, <2>3 DEF Catch
<1>3. CASE Crash \/ UNCHANGED vars
    BY <1>3 DEF Crash, vars
<1> QED BY <1>1, <1>2, <1>3 DEF Next

LEMMA RowsInvStep == IInv /\ RowsInv /\ [Next]_vars => RowsInv'
<1> SUFFICES ASSUME IInv, RowsInv, [Next]_vars PROVE RowsInv'
    OBVIOUS
<1> USE DEF dbVars, runVars, money, RowsInv, HasRow, Swallowed, LogEvent, Accepted, Rejected
<1>1. /\ spent \in Nat /\ spentArg \in Nat /\ faults \in Nat
      /\ session \in [row : {"absent", "inserted", "linked"}, spent : Nat,
                      ended : {"none", "completed", "error"}]
      /\ reason \in {"none", "completed", "error"}
    BY DEF IInv, TypeOK, ControlType, MoneyType, RowType
<1>2. PhaseInv
    BY DEF IInv
<1>3. CASE StartUp
    <2>1. CASE Invoke \/ OpenWallet
        BY <1>1, <1>2, <2>1 DEF Invoke, OpenWallet, PhaseInv
    <2>2. CASE InsertSession
        BY <1>1, <1>2, <2>2 DEF InsertSession, PhaseInv
    <2>3. CASE LinkSession
        BY <1>1, <1>2, <2>3 DEF LinkSession, PhaseInv
    <2>4. CASE MarkRunning \/ AuditStart
        BY <1>1, <1>2, <2>4 DEF MarkRunning, AuditStart, PhaseInv
    <2> QED BY <1>3, <2>1, <2>2, <2>3, <2>4 DEF StartUp
<1>4. CASE DecomposeTask \/ FinishBatch \/ Assemble
    BY <1>1, <1>2, <1>4 DEF DecomposeTask, FinishBatch, Assemble, StartBatch, Catch, SpentByWallet,
        PhaseInv, Early, Unopened, Executed
<1>5. CASE WindUp
    <2>1. CASE UpdateSpent
        BY <1>1, <1>2, <2>1 DEF UpdateSpent, PhaseInv, Unopened, Executed, Catching
    <2>2. CASE RecordCost
        <3>1. faults = 0 => HasRow /\ session.spent = spent
            BY <1>2, <2>2 DEF RecordCost, PhaseInv, Unopened, Executed
        <3>2. faults' = 0 => faults = 0 /\ ledger' = HasRow
            BY <1>1, <2>2 DEF RecordCost
        <3>3. faults' = 0 => ledger'
            BY <3>1, <3>2, Zenon DEF HasRow
        <3>4. /\ pc = "cost" /\ pc' = "complete" /\ reason = "none"
              /\ UNCHANGED <<reason, spent, spentArg, session, status>>
            BY <1>2, <2>2 DEF RecordCost, PhaseInv, Executed
        <3> QED BY <1>1, <3>1, <3>2, <3>3, <3>4
    <2>3. CASE Complete
        BY <1>1, <1>2, <2>3 DEF Complete, Catch, PhaseInv, Unopened, Executed
    <2>4. CASE SealRecord \/ SealCall \/ SealAudit \/ SealTxid
        BY <1>1, <1>2, <2>4 DEF SealRecord, SealCall, SealAudit, SealTxid, NextCallRow, PhaseInv,
            Sealing
    <2>5. CASE AuditOutcome
        BY <1>1, <1>2, <2>5 DEF AuditOutcome, SpentByWallet, PhaseInv, Catching
    <2>6. CASE Terminate
        BY <1>1, <1>2, <2>6 DEF Terminate, Finally, PhaseInv
    <2>7. CASE FailInvocation \/ CleanUp
        BY <1>1, <1>2, <2>7 DEF FailInvocation, CleanUp, Finally, PhaseInv, Unopened, Catching
    <2> QED BY <1>5, <2>1, <2>2, <2>3, <2>4, <2>5, <2>6, <2>7 DEF WindUp
<1>6. ASSUME NEW i \in Pos, StepOf(i) PROVE RowsInv'
    <2>1. /\ UNCHANGED <<spentArg, status, session, ledger>>
          /\ UNCHANGED <<pc, reason>> \/ (pc = "batch" /\ Catch)
          /\ faults' \in {faults, faults + 1}
          /\ reason = "completed" \/ pc \in Early \cup Executed => UNCHANGED spent
          /\ spent' \in Nat /\ spent <= spent'
        BY <1>6, StepsLeaveRows
    <2>2. faults' = 0 => faults = 0
        BY <1>1, <2>1
    <2>3. pc = "batch" => reason = "none"
        BY <1>2 DEF PhaseInv
    <2> QED BY <1>1, <2>1, <2>2, <2>3 DEF Catch, Executed
<1>7. CASE Crash \/ UNCHANGED vars
    BY <1>1, <1>7 DEF Crash, vars
<1> QED BY <1>3, <1>4, <1>5, <1>6, <1>7 DEF Next, Run

LEMMA RecordsInit == Init => SealInv /\ TrailInv /\ RowsInv
BY DEF Init, SealInv, SealCoversCalls, TrailInv, RowsInv, HasRow

(* decisionRecord.js:172: the loop over the calls and the count that is    *)
(* anchored agree, and for a completed session both cover every call.      *)
THEOREM SealComplete == Spec => []SealCoversCalls
<1>1. SealInv => SealCoversCalls
    BY DEF SealInv
<1> QED BY <1>1, RecordsInit, SealInvStep, Invariant, PTL DEF Spec

(* What the audit trail says of the outcome is what the row says. *)
THEOREM TrailHonest == Spec => []TrailMatchesStatus
<1>1. IInv /\ TrailInv => TrailMatchesStatus
    BY DEF IInv, PhaseInv, TrailInv, TrailMatchesStatus
<1> QED BY <1>1, RecordsInit, TrailInvStep, Invariant, PTL DEF Spec

(* index.js:249: the row never claims more than was spent; and without a   *)
(* failed query it tells what a completed session spent, and its cost.     *)
THEOREM RowsHonest == Spec => []CompletedRowsExact
<1>1. IInv /\ RowsInv => CompletedRowsExact
    BY DEF IInv, PhaseInv, RowsInv, CompletedRowsExact
<1> QED BY <1>1, RecordsInit, RowsInvStep, Invariant, PTL DEF Spec

-----------------------------------------------------------------------------
(* The balance.  A payment at position i raises the running totals from i  *)
(* on; no other action touches the balance or what was paid.               *)
LEMMA BalanceInit == Init => SpentIsPaid
<1> SUFFICES ASSUME Init PROVE SpentIsPaid
    OBVIOUS
<1> DEFINE total == [k \in 0 .. MaxSteps |-> 0]
<1>1. total \in [0 .. MaxSteps -> 0 .. spent] /\ total[0] = 0 /\ total[MaxSteps] = spent
    BY ConstantsAssumption DEF Init
<1>2. \A i \in Pos : total[i] = total[i - 1] + paid[i]
    BY ConstantsAssumption DEF Init, Pos
<1> HIDE DEF total
<1> QED BY <1>1, <1>2 DEF SpentIsPaid

LEMMA BalanceStep == IInv /\ SpentIsPaid /\ [Next]_vars => SpentIsPaid'
<1> SUFFICES ASSUME IInv, SpentIsPaid, [Next]_vars PROVE SpentIsPaid'
    OBVIOUS
<1> USE DEF money, runVars
<1>1. CASE UNCHANGED <<spent, paid>>
    BY <1>1 DEF SpentIsPaid
<1>2. ASSUME NEW i \in Pos, SignPayment(i) PROVE SpentIsPaid'
    <2>1. PICK amount \in Prices : spent' = spent + amount /\ paid' = [paid EXCEPT ![i] = @ + amount]
        BY <1>2 DEF SignPayment
    <2>2. amount \in Nat /\ spent \in Nat /\ paid \in [Pos -> Nat] /\ MaxSteps \in Nat
          /\ i \in 1 .. MaxSteps
        BY ConstantsAssumption DEF IInv, TypeOK, MoneyType, Pos
    <2>3. PICK total \in [0 .. MaxSteps -> 0 .. spent] :
              /\ total[0] = 0 /\ total[MaxSteps] = spent
              /\ \A k \in Pos : total[k] = total[k - 1] + paid[k]
        BY DEF SpentIsPaid
    <2> DEFINE raised == [k \in 0 .. MaxSteps |-> IF k >= i THEN total[k] + amount ELSE total[k]]
    <2>4. raised \in [0 .. MaxSteps -> 0 .. spent + amount]
        BY <2>2, <2>3
    <2>5. raised[0] = 0 /\ raised[MaxSteps] = spent + amount
        BY <2>2, <2>3
    <2>6. ASSUME NEW k \in Pos PROVE raised[k] = raised[k - 1] + paid'[k]
        <3>1. /\ k \in 0 .. MaxSteps /\ k - 1 \in 0 .. MaxSteps
              /\ total[k] = total[k - 1] + paid[k]
              /\ total[k - 1] \in Nat /\ paid[k] \in Nat
            BY <2>2, <2>3 DEF Pos
        <3>2. CASE k = i
            <4>1. paid'[k] = paid[k] + amount
                BY <2>1, <2>2, <3>2
            <4> QED BY <2>2, <3>1, <3>2, <4>1
        <3>3. CASE k # i
            <4>1. paid'[k] = paid[k]
                BY <2>1, <2>2, <3>3
            <4> QED BY <2>2, <3>1, <3>3, <4>1
        <3> QED BY <3>2, <3>3
    <2> HIDE DEF raised
    <2> QED BY <2>1, <2>4, <2>5, <2>6 DEF SpentIsPaid
<1>3. CASE Run \/ Crash
    BY <1>1, <1>3 DEF Run, StartUp, Invoke, OpenWallet, InsertSession, LinkSession, MarkRunning,
        AuditStart, DecomposeTask, FinishBatch, Assemble, WindUp, UpdateSpent, RecordCost,
        Complete, SealRecord, SealCall, SealAudit, SealTxid, AuditOutcome, Terminate,
        FailInvocation, CleanUp, Crash
<1>4. ASSUME NEW i \in Pos, StepOf(i) PROVE UNCHANGED <<spent, paid>> \/ SignPayment(i)
    BY <1>4 DEF StepOf, Agent, Route, TeeTimeout, AuditStep, ModelAnswers, AgentAnswers,
        AgentAnswersPaid, RefusePayment, SimulatePayment
<1>5. CASE UNCHANGED vars
    BY <1>1, <1>5 DEF vars
<1> QED BY <1>1, <1>2, <1>3, <1>4, <1>5 DEF Next

(* wallet.js:65: the balance is the sum of what the steps paid, however    *)
(* payments, simulated payments, time-outs and failures interleave.        *)
THEOREM BalanceAddsUp == Spec => []SpentIsPaid
BY BalanceInit, BalanceStep, Invariant, PTL DEF Spec

-----------------------------------------------------------------------------
(* The order of the steps.  A new batch is ready, or it is all that is     *)
(* left of the plan.                                                       *)
LEMMA BatchInOrder ==
    ASSUME NEW p, NEW C, DOMAIN p \subseteq Pos, StartBatch(p, C),
           st' \in [Pos -> StepStates], NEW i \in NextBatch(p, C)
    PROVE  \/ p[i].deps \subseteq C
           \/ \A j \in DOMAIN p : p[j].id \in C \cup IdsOf(p, {k \in DOMAIN p : st'[k] # "idle"})
<1>1. CASE Ready(p, C) # {}
    BY <1>1 DEF NextBatch, Ready
<1>2. CASE Ready(p, C) = {}
    <2>1. \A j \in DOMAIN p : p[j].id \in C \/ j \in NextBatch(p, C)
        BY <1>2 DEF NextBatch, Remaining
    <2>2. \A j \in NextBatch(p, C) : j \in DOMAIN p /\ st'[j] # "idle"
        BY BatchRemains DEF StartBatch
    <2> QED BY <2>1, <2>2 DEF IdsOf
<1> QED BY <1>1, <1>2

LEMMA OrderStep == IInv /\ IInv' /\ StartsInOrder /\ [Next]_vars => StartsInOrder'
<1> SUFFICES ASSUME IInv, IInv', StartsInOrder, [Next]_vars PROVE StartsInOrder'
    OBVIOUS
<1> USE DEF runVars, stepVars
<1>1. st \in [Pos -> StepStates] /\ st' \in [Pos -> StepStates] /\ DOMAIN plan' \subseteq Pos
    BY PlanType DEF IInv, TypeOK, ControlType
<1>2. ASSUME UNCHANGED <<plan, results>>, \A i \in Pos : st'[i] = "idle" <=> st[i] = "idle"
      PROVE  StartsInOrder'
    <2>1. NothingLeft => NothingLeft'
        BY <1>1, <1>2 DEF NothingLeft, IdsOf
    <2> QED BY <1>2, <2>1 DEF StartsInOrder
<1>3. CASE DecomposeTask
    <2>1. results' = {} /\ \A i \in Pos : st[i] = "idle"
        BY <1>3 DEF DecomposeTask, IInv, BatchInv, Early
    <2>2. CASE StartBatch(plan', {})
        <3>1. \A i \in Pos : st'[i] # "idle" => i \in NextBatch(plan', {})
            BY <2>1, <2>2 DEF StartBatch
        <3> QED BY <1>1, <2>1, <2>2, <3>1, BatchInOrder DEF StartsInOrder, NothingLeft
    <2>3. CASE UNCHANGED stepVars
        BY <2>1, <2>3 DEF StartsInOrder
    <2> QED BY <1>3, <2>2, <2>3 DEF DecomposeTask
<1>4. CASE FinishBatch
    <2>1. plan' = plan /\ results \subseteq results' /\ StartBatch(plan, results')
        BY <1>4 DEF FinishBatch
    <2>2. \A i \in Pos : /\ st[i] # "idle" => st'[i] # "idle"
                         /\ st'[i] # "idle" => st[i] # "idle" \/ i \in NextBatch(plan, results')
        BY <1>1, <2>1 DEF StartBatch
    <2>3. NothingLeft => NothingLeft'
        BY <1>1, <2>1, <2>2 DEF NothingLeft, IdsOf
    <2>4. \A i \in NextBatch(plan, results') : plan[i].deps \subseteq results' \/ NothingLeft'
        BY <1>1, <2>1, BatchInOrder DEF NothingLeft
    <2> QED BY <2>1, <2>2, <2>3, <2>4 DEF StartsInOrder
<1>5. CASE StartUp \/ Assemble \/ WindUp \/ Crash
    <2>1. UNCHANGED <<plan, results, st>>
        BY <1>5 DEF StartUp, Invoke, OpenWallet, InsertSession, LinkSession, MarkRunning,
            AuditStart, Assemble, WindUp, UpdateSpent, RecordCost, Complete, SealRecord, SealCall,
            SealAudit, SealTxid, AuditOutcome, Terminate, FailInvocation, CleanUp, Crash
    <2> QED BY <1>2, <2>1
<1>6. ASSUME NEW i \in Pos, StepOf(i) PROVE StartsInOrder'
    <2>1. st[i] # "idle"
        BY <1>6 DEF StepOf, Agent, Route, TeeTimeout, Timed, AuditStep, ModelAnswers, AgentAnswers,
            AgentAnswersPaid, SignPayment, RefusePayment, SimulatePayment, IInv, StepInv
    <2>2. UNCHANGED <<plan, results>> /\ st'[i] # "idle" /\ \A j \in Pos \ {i} : st'[j] = st[j]
        BY <1>1, <1>6, <2>1 DEF StepOf, Agent, Route, TeeTimeout, AuditStep, ModelAnswers,
            AgentAnswers, AgentAnswersPaid, SignPayment, RefusePayment, SimulatePayment,
            FnReturns, FnThrows, Rejects
    <2> QED BY <1>2, <2>1, <2>2
<1>7. CASE UNCHANGED vars
    BY <1>2, <1>7 DEF vars
<1> QED BY <1>3, <1>4, <1>5, <1>6, <1>7 DEF Next, Run

(* run() waits for a batch only when it has just started one. *)
LEMMA TurnStep == IInv /\ IInv' /\ WaitsInTurn /\ [Next]_vars => WaitsInTurn'
<1> SUFFICES ASSUME IInv, IInv', WaitsInTurn, [Next]_vars, pc' = "batch" PROVE WaitsInTurn'
    BY DEF WaitsInTurn
<1> USE DEF runVars, stepVars
<1>1. \A i \in Pos : \/ st'[i] = "idle"
                     \/ i \in NextBatch(plan', results')
                     \/ st'[i] = "done" /\ plan'[i].id \in results'
    BY DEF IInv, BatchInv
<1>2. CASE pc = "batch" /\ UNCHANGED <<plan, results>>
    BY <1>1, <1>2 DEF WaitsInTurn
<1>3. CASE StartBatch(plan', results')
    BY <1>1, <1>3 DEF StartBatch, WaitsInTurn
<1>4. CASE DecomposeTask
    BY <1>3, <1>4 DEF DecomposeTask, Catch, IInv, BatchInv, Early
<1>5. CASE FinishBatch
    BY <1>3, <1>5 DEF FinishBatch
<1>6. CASE StartUp \/ Assemble \/ WindUp \/ Crash
    BY <1>6 DEF StartUp, Invoke, OpenWallet, InsertSession, LinkSession, MarkRunning, AuditStart,
        Assemble, WindUp, UpdateSpent, RecordCost, Complete, SealRecord, SealCall, SealAudit,
        SealTxid, NextCallRow, AuditOutcome, Terminate, FailInvocation, CleanUp, Finally, Catch,
        Crash
<1>7. ASSUME NEW i \in Pos, StepOf(i) PROVE WaitsInTurn'
    <2>1. UNCHANGED <<plan, results>> /\ (pc' = pc \/ pc' = "seal_record")
        BY <1>7 DEF StepOf, Agent, Route, TeeTimeout, AuditStep, ModelAnswers, AgentAnswers,
            AgentAnswersPaid, SignPayment, RefusePayment, SimulatePayment, FnReturns, FnThrows,
            Rejects, Catch
    <2> QED BY <1>2, <2>1
<1>8. CASE UNCHANGED vars
    BY <1>2, <1>8 DEF vars
<1> QED BY <1>4, <1>5, <1>6, <1>7, <1>8 DEF Next, Run

(* decomposer.js:95-96 and index.js:144, over the whole run and its        *)
(* parallel steps.  A step starts with the results of all it depends on,   *)
(* or in the batch of all that is left of a plan with a cycle or a         *)
(* dangling dependency, behind which nothing starts.  While run() waits    *)
(* for a batch, every step of the earlier ones has answered, and the batch *)
(* it waits for has a step.                                                *)
THEOREM StepsInOrder == Spec => [](StartsInOrder /\ WaitsInTurn)
<1>1. Init => StartsInOrder /\ WaitsInTurn
    BY DEF Init, StartsInOrder, WaitsInTurn
<1> QED BY <1>1, OrderStep, TurnStep, Invariant, PTL DEF Spec

-----------------------------------------------------------------------------
(* The end of a session, and the way there.                                *)

LEMMA OverStep == IInv /\ OverInv /\ [Next]_vars => OverInv'
<1> SUFFICES ASSUME IInv, OverInv, [Next]_vars PROVE OverInv'
    OBVIOUS
<1> USE DEF runVars, money, dbVars, OverInv, OverIsClean, Unopened
<1>1. faults \in Nat
    BY ConstantsAssumption DEF IInv, TypeOK, RowType
<1>2. CASE StartUp
    <2>1. CASE Invoke \/ MarkRunning
        BY <1>1, <2>1 DEF Invoke, MarkRunning, Rejected
    <2>2. CASE OpenWallet \/ InsertSession \/ LinkSession \/ AuditStart
        BY <2>2 DEF OpenWallet, InsertSession, LinkSession, AuditStart
    <2> QED BY <1>2, <2>1, <2>2 DEF StartUp
<1>3. CASE DecomposeTask \/ FinishBatch \/ Assemble
    BY <1>3 DEF DecomposeTask, FinishBatch, Assemble, StartBatch, Catch
<1>4. CASE WindUp
    <2>1. CASE UpdateSpent \/ RecordCost \/ Complete
        BY <2>1 DEF UpdateSpent, RecordCost, Complete, Catch
    <2>2. CASE SealRecord \/ SealCall \/ SealAudit \/ SealTxid \/ AuditOutcome
        BY <2>2 DEF SealRecord, SealCall, SealAudit, SealTxid, NextCallRow, AuditOutcome
    <2>3. CASE Terminate
        BY <2>3 DEF Terminate, Finally, IInv, PhaseInv
    <2>4. CASE FailInvocation \/ CleanUp
        BY <1>1, <2>4 DEF FailInvocation, CleanUp, Finally, Swallowed, Rejected
    <2> QED BY <1>4, <2>1, <2>2, <2>3, <2>4 DEF WindUp
<1>5. ASSUME NEW i \in Pos, StepOf(i) PROVE OverInv'
    <2>1. UNCHANGED <<tee, wallet, status>> /\ faults' \in {faults, faults + 1}
        BY <1>5, StepsLeaveRows DEF StepOf, Agent, Route, TeeTimeout, AuditStep, ModelAnswers,
            AgentAnswers, AgentAnswersPaid, SignPayment, RefusePayment, SimulatePayment
    <2>2. pc' = pc \/ (pc = "batch" /\ pc' = "seal_record")
        BY <1>5, StepsLeaveRows DEF Catch
    <2> QED BY <1>1, <2>1, <2>2
<1>6. CASE Crash \/ UNCHANGED vars
    BY <1>6 DEF Crash, vars
<1> QED BY <1>2, <1>3, <1>4, <1>5, <1>6 DEF Next, Run

(* index.js:236-258: when run() is over the enclave and the wallet are     *)
(* destroyed and the invocation has its verdict, unless a query failed; it *)
(* leaves without its finally block before the enclave exists only.        *)
THEOREM EndsClean == Spec => []OverIsClean
<1>1. Init => OverInv
    BY DEF Init, OverInv, OverIsClean
<1>2. OverInv => OverIsClean
    BY DEF OverInv
<1> QED BY <1>1, <1>2, OverStep, Invariant, PTL DEF Spec

LEMMA RecordStep == IInv /\ SealInv /\ RecordInv /\ [Next]_vars => RecordInv'
<1> SUFFICES ASSUME IInv, SealInv, RecordInv, [Next]_vars PROVE RecordInv'
    OBVIOUS
<1> USE DEF sealVars, runVars, stepVars, RecordInv
<1>1. /\ rows \in Nat /\ calls \in Seq(Pos) /\ Len(calls) \in Nat /\ DOMAIN calls = 1 .. Len(calls)
      /\ fn \in [Pos -> FnStates] /\ \A k \in DOMAIN calls : calls[k] \in Pos
    BY LenProperties, ElementOfSeq DEF IInv, TypeOK, SealType, ControlType
<1>2. CASE Run
    <2>1. CASE DecomposeTask \/ FinishBatch
        <3>1. UNCHANGED <<calls, rows>> /\ pc' # "seal_calls"
            BY <2>1 DEF DecomposeTask, FinishBatch, StartBatch, Catch
        <3>2. ASSUME NEW i \in Pos, fn[i] = "settled" PROVE fn'[i] = "settled"
            <4>1. st[i] # "idle"
                BY <3>2 DEF IInv, StepInv
            <4> QED BY <2>1, <3>2, <4>1, StartBatchSteps, FreshBatch
                    DEF DecomposeTask, FinishBatch, IInv, BatchInv, Early
        <3> QED BY <1>1, <3>1, <3>2
    <2>2. CASE StartUp \/ Assemble \/ UpdateSpent \/ RecordCost \/ Complete \/ SealAudit \/ SealTxid
               \/ AuditOutcome \/ Terminate \/ FailInvocation \/ CleanUp
        <3>1. UNCHANGED <<calls, rows, fn>> /\ pc' # "seal_calls"
            BY <2>2 DEF StartUp, Invoke, OpenWallet, InsertSession, LinkSession, MarkRunning,
                AuditStart, Assemble, Catch, UpdateSpent, RecordCost, Complete, SealAudit,
                SealTxid, AuditOutcome, Terminate, FailInvocation, CleanUp, Finally
        <3> QED BY <3>1
    <2>3. CASE SealRecord \/ SealCall
        <3>1. /\ UNCHANGED <<calls, fn>>
              /\ \/ rows' = rows /\ rows = 0
                 \/ rows' = rows + 1 /\ rows < Len(calls)
              /\ pc' = "seal_calls" => rows' # Len(calls)
            BY <1>1, <2>3 DEF SealRecord, SealCall, NextCallRow, SealInv
        <3> QED BY <1>1, <3>1
    <2> QED BY <1>2, <2>1, <2>2, <2>3 DEF Run, WindUp
<1>3. ASSUME NEW i \in Pos, StepOf(i) PROVE RecordInv'
    <2>1. rows' = rows /\ (pc' = "seal_calls" => pc = "seal_calls")
        BY <1>3, StepsLeaveRows DEF Catch
    <2>2. \/ calls' = calls
          \/ calls' = Append(calls, i) /\ fn[i] # "settled"
        BY <1>3 DEF StepOf, Agent, Route, TeeTimeout, AuditStep, ModelAnswers, AgentAnswers,
            AgentAnswersPaid, SignPayment, RefusePayment, SimulatePayment, FnReturns, FnThrows
    <2>3. /\ \A j \in Pos : fn[j] = "settled" => fn'[j] = "settled"
          /\ calls' # calls => fn'[i] = "settled"
        <3>1. CASE Route(i)
            BY <1>1, <3>1 DEF Route, IInv, StepInv
        <3>2. CASE TeeTimeout(i) \/ AuditStep(i)
            BY <3>2 DEF TeeTimeout, AuditStep
        <3>3. CASE Agent(i)
            BY <1>1, <3>3 DEF Agent, ModelAnswers, AgentAnswers, AgentAnswersPaid, SignPayment,
                RefusePayment, SimulatePayment, FnReturns, FnThrows
        <3> QED BY <1>3, <3>1, <3>2, <3>3 DEF StepOf
    <2>4. CASE calls' = calls
        BY <1>1, <2>1, <2>3, <2>4
    <2>5. CASE calls' = Append(calls, i) /\ fn[i] # "settled"
        <3>1. /\ Len(calls') = Len(calls) + 1 /\ DOMAIN calls' = 1 .. Len(calls) + 1
              /\ calls'[Len(calls) + 1] = i /\ \A k \in DOMAIN calls : calls'[k] = calls[k]
            BY <1>1, <2>5
        <3>2. calls' # calls
            BY <1>1, <3>1
        <3>3. \A k \in DOMAIN calls : calls[k] # i
            BY <2>5
        <3> QED BY <1>1, <2>1, <2>3, <3>1, <3>2, <3>3
    <2> QED BY <2>2, <2>4, <2>5
<1>4. CASE Crash \/ UNCHANGED vars
    BY <1>4 DEF Crash, vars
<1> QED BY <1>2, <1>3, <1>4 DEF Next

(* decisionRecord.js:90, 145-170: the list of agent calls holds each step  *)
(* once, and seal() sends no more rows than it has entries.                *)
THEOREM RecordsOnce == Spec => []RecordedOnce
<1>1. Init => RecordInv
    BY LenProperties, EmptySeq DEF Init, RecordInv
<1>2. IInv /\ RecordInv => RecordedOnce
    <2> SUFFICES ASSUME IInv, RecordInv, Len(calls) > MaxSteps PROVE FALSE
        BY ConstantsAssumption, LenProperties DEF IInv, TypeOK, SealType, RecordInv, RecordedOnce
    <2> DEFINE K == 1 .. Len(calls)
    <2>1. Len(calls) \in Nat /\ MaxSteps \in Nat /\ calls \in [K -> Pos]
        BY ConstantsAssumption, LenProperties DEF IInv, TypeOK, SealType
    <2>2. ASSUME NEW n \in Nat PROVE IsFiniteSet(1 .. n) /\ Cardinality(1 .. n) = n
        <3>1. 1 \in Int /\ n \in Int
            OBVIOUS
        <3>2. /\ IsFiniteSet(1 .. n)
              /\ Cardinality(1 .. n) = IF 1 > n THEN 0 ELSE n - 1 + 1
            BY <3>1, FS_Interval, Zenon
        <3> QED BY <3>2
    <2>3. IsFiniteSet(K) /\ IsFiniteSet(Pos) /\ Cardinality(K) > Cardinality(Pos)
        BY <2>1, <2>2 DEF Pos
    <2>4. PICK k, l \in K : k # l /\ calls[k] = calls[l]
        <3> HIDE DEF K
        <3> QED BY <2>1, <2>3, FS_PigeonHole
    <2> QED BY <2>1, <2>4 DEF RecordInv
<1>3. Init => SealInv
    BY RecordsInit
<1> QED BY <1>1, <1>2, <1>3, RecordStep, SealInvStep, Invariant, PTL DEF Spec

(* Stages are numbers. *)
LEMMA RunStages ==
    /\ RunStage("new") = 0 /\ RunStage("accepted") = 1 /\ RunStage("create_row") = 2
    /\ RunStage("link_row") = 3 /\ RunStage("mark_running") = 4 /\ RunStage("audit_start") = 5
    /\ RunStage("decompose") = 6 /\ RunStage("batch") = 7 /\ RunStage("assemble") = 8
    /\ RunStage("spent") = 9 /\ RunStage("cost") = 10 /\ RunStage("complete") = 11
    /\ RunStage("seal_record") = 12 /\ RunStage("seal_calls") = 13 /\ RunStage("seal_audit") = 14
    /\ RunStage("seal_txid") = 15 /\ RunStage("audit_complete") = 16 /\ RunStage("f_audit") = 16
    /\ RunStage("f_spent") = 17 /\ RunStage("terminate") = 18 /\ RunStage("f_fail") = 19
    /\ RunStage("f_finally") = 20 /\ RunStage("ended") = 21 /\ RunStage("aborted") = 21
    /\ RunStage("rejected") = 21 /\ RunStage("crashed") = 22
BY DEF RunStage

LEMMA Stages ==
    /\ \A p \in PCs : RunStage(p) \in 0 .. 22
    /\ \A s \in StepStates : StepStage(s) \in 0 .. 4
    /\ \A f \in FnStates : FnStage(f) \in 0 .. 4
<1>1. \A p \in PCs : RunStage(p) \in 0 .. 22
    BY RunStages DEF PCs, Catching
<1>2. \A s \in StepStates : StepStage(s) \in 0 .. 4
    BY DEF StepStates, StepStage
<1>3. \A f \in FnStates : FnStage(f) \in 0 .. 4
    BY DEF FnStates, FnStage
<1> QED BY <1>1, <1>2, <1>3

(* The steps of a new batch start, the others stay where they are. *)
LEMMA BatchAdvances ==
    ASSUME IInv, DecomposeTask \/ FinishBatch, NEW i \in Pos
    PROVE  StepStage(st[i]) <= StepStage(st'[i]) /\ FnStage(fn[i]) <= FnStage(fn'[i])
<1>1. StepStage(st[i]) \in 0 .. 4 /\ FnStage(fn[i]) \in 0 .. 4
    BY Stages DEF IInv, TypeOK, ControlType
<1>2. CASE UNCHANGED <<st, fn>>
    BY <1>1, <1>2
<1>3. CASE st[i] = "idle" /\ fn[i] = "none"
    <2>1. st'[i] \in {"idle", "routing", "running"} /\ fn'[i] \in {"none", "llm"}
        BY <1>3, StartBatchSteps DEF DecomposeTask, FinishBatch, stepVars
    <2> QED BY <1>3, <2>1 DEF StepStage, FnStage
<1>4. CASE st'[i] = st[i] /\ fn'[i] = fn[i]
    BY <1>1, <1>4
<1>5. st[i] = "idle" => fn[i] = "none"
    BY DEF IInv, StepInv
<1>6. CASE DecomposeTask
    BY <1>3, <1>5, <1>6 DEF DecomposeTask, IInv, BatchInv, Early
<1>7. CASE FinishBatch
    BY <1>3, <1>4, <1>5, <1>7, FreshBatch, StartBatchSteps DEF FinishBatch
<1> QED BY <1>6, <1>7

(* A batch that is finished brings results, or is the last. *)
LEMMA FinishAdvances ==
    ASSUME IInv, FinishBatch
    PROVE  results \subseteq results' /\ (results # results' \/ pc' = "assemble")
<1>1. results' = results \cup IdsOf(plan, NextBatch(plan, results))
    BY DEF FinishBatch
<1>2. CASE NextBatch(plan, results) = {}
    BY <1>1, <1>2 DEF FinishBatch, StartBatch, IdsOf
<1>3. ASSUME NEW i \in NextBatch(plan, results) PROVE results # results'
    BY <1>1, BatchRemains DEF IdsOf
<1> QED BY <1>1, <1>2, <1>3

LEMMA StepAdvances == ASSUME IInv, NEW i \in Pos, StepOf(i) PROVE Advances
<1> USE DEF runVars
<1>1. /\ st \in [Pos -> StepStates] /\ fn \in [Pos -> FnStates] /\ pc \in PCs /\ rows \in Nat
      /\ \A j \in Pos : StepStage(st[j]) \in 0 .. 4 /\ FnStage(fn[j]) \in 0 .. 4
      /\ RunStage(pc) \in 0 .. 22
    BY Stages DEF IInv, TypeOK, ControlType, SealType
<1>2. UNCHANGED <<results, rows>>
    BY StepsLeaveRows DEF StepOf, Agent, Route, TeeTimeout, AuditStep, ModelAnswers, AgentAnswers,
        AgentAnswersPaid, SignPayment, RefusePayment, SimulatePayment
<1>3. RunStage(pc) <= RunStage(pc')
    <2>1. pc' = pc \/ (pc = "batch" /\ pc' = "seal_record")
        BY StepsLeaveRows DEF Catch
    <2> QED BY <1>1, <2>1, RunStages
<1>4. \A j \in Pos \ {i} : st'[j] = st[j] /\ fn'[j] = fn[j]
    BY <1>1 DEF StepOf, Agent, Route, TeeTimeout, AuditStep, ModelAnswers, AgentAnswers,
        AgentAnswersPaid, SignPayment, RefusePayment, SimulatePayment, FnReturns, FnThrows, Rejects
<1>5. /\ StepStage(st[i]) <= StepStage(st'[i]) /\ FnStage(fn[i]) <= FnStage(fn'[i])
      /\ StepStage(st[i]) < StepStage(st'[i]) \/ FnStage(fn[i]) < FnStage(fn'[i])
    <2>1. CASE Route(i)
        <3>1. st[i] = "routing" /\ fn[i] = "none" /\ st'[i] \in {"running", "failed"}
              /\ fn'[i] \in {"none", "llm", "request"}
            BY <1>1, <2>1 DEF Route, Rejects, IInv, StepInv
        <3> QED BY <3>1 DEF StepStage, FnStage
    <2>2. CASE TeeTimeout(i) \/ AuditStep(i)
        <3>1. /\ \/ st[i] = "running" /\ st'[i] = "failed"
                 \/ st[i] = "auditing" /\ st'[i] = "done"
              /\ fn'[i] = fn[i]
            BY <1>1, <2>2 DEF TeeTimeout, Timed, AuditStep, Rejects
        <3> QED BY <1>1, <3>1 DEF StepStage
    <2>3. CASE Agent(i)
        <3>1. st'[i] = st[i] \/ (st[i] = "running" /\ st'[i] \in {"auditing", "failed"})
            BY <1>1, <2>3 DEF Agent, ModelAnswers, AgentAnswers, AgentAnswersPaid, SignPayment,
                RefusePayment, SimulatePayment, FnReturns, FnThrows, Rejects
        <3>2. \/ fn[i] \in {"llm", "request", "params", "retry"} /\ fn'[i] = "settled"
              \/ fn[i] = "request" /\ fn'[i] \in {"params", "retry"}
              \/ fn[i] = "params" /\ fn'[i] = "retry"
            BY <1>1, <2>3 DEF Agent, ModelAnswers, AgentAnswers, AgentAnswersPaid, SignPayment,
                RefusePayment, SimulatePayment, FnReturns, FnThrows
        <3>3. FnStage(fn[i]) < FnStage(fn'[i])
            BY <3>2 DEF FnStage
        <3>5. FnStage(fn[i]) <= FnStage(fn'[i])
            BY <3>2 DEF FnStage
        <3>4. StepStage(st[i]) <= StepStage(st'[i])
            <4>1. CASE st'[i] = st[i]
                BY <1>1, <4>1
            <4>2. CASE st[i] = "running" /\ st'[i] \in {"auditing", "failed"}
                BY <4>2 DEF StepStage
            <4> QED BY <3>1, <4>1, <4>2
        <3> QED BY <3>3, <3>4, <3>5
    <2> QED BY <1>1, <2>1, <2>2, <2>3 DEF StepOf
<1> QED BY <1>1, <1>2, <1>3, <1>4, <1>5 DEF Advances

(* Why a session ends under the fairness of its timers: it cannot go on    *)
(* for ever.  No batch is run again (index.js:134), no agent is asked      *)
(* again after it was paid (x402Client.js:33), and the loop of seal()      *)
(* (decisionRecord.js:145) goes on only as long as the record has calls.   *)
THEOREM SessionAdvances == Spec => EveryStepAdvances
<1>1. ASSUME IInv, Next PROVE Advances
    <2> USE DEF runVars, stepVars, sealVars
    <2>1. /\ RunStage(pc) \in 0 .. 22 /\ rows \in Nat
          /\ \A j \in Pos : StepStage(st[j]) \in 0 .. 4 /\ FnStage(fn[j]) \in 0 .. 4
        BY <1>1, Stages DEF IInv, TypeOK, ControlType, SealType
    <2>2. ASSUME UNCHANGED <<results, rows, st, fn>>, RunStage(pc) < RunStage(pc'),
                 RunStage(pc') \in Nat
          PROVE  Advances
        BY <2>1, <2>2 DEF Advances
    <2>3. CASE StartUp
        <3>1. UNCHANGED <<results, rows, st, fn>>
            BY <2>3 DEF StartUp, Invoke, OpenWallet, InsertSession, LinkSession, MarkRunning,
                AuditStart
        <3>2. \/ pc = "new" /\ pc' \in {"accepted", "rejected"}
              \/ pc = "accepted" /\ pc' = "create_row"
              \/ pc = "create_row" /\ pc' \in {"link_row", "mark_running"}
              \/ pc = "link_row" /\ pc' = "mark_running"
              \/ pc = "mark_running" /\ pc' \in {"audit_start", "aborted"}
              \/ pc = "audit_start" /\ pc' = "decompose"
            BY <2>3 DEF StartUp, Invoke, OpenWallet, InsertSession, LinkSession, MarkRunning,
                AuditStart
        <3>3. RunStage(pc) < RunStage(pc') /\ RunStage(pc') \in Nat
            BY <3>2, RunStages
        <3> QED BY <2>2, <3>1, <3>3
    <2>4. CASE DecomposeTask
        <3>1. UNCHANGED <<results, rows>> /\ pc = "decompose"
              /\ pc' \in {"batch", "assemble", "seal_record"}
            BY <2>4 DEF DecomposeTask, StartBatch, Catch
        <3>2. RunStage(pc) < RunStage(pc')
            BY <3>1, RunStages
        <3>3. \A i \in Pos : /\ StepStage(st[i]) <= StepStage(st'[i])
                             /\ FnStage(fn[i]) <= FnStage(fn'[i])
            BY <1>1, <2>4, BatchAdvances
        <3>4. RunStage(pc') \in Nat
            BY <3>1, RunStages
        <3> QED BY <2>1, <3>1, <3>2, <3>3, <3>4 DEF Advances
    <2>5. CASE FinishBatch
        <3>1. rows' = rows /\ pc = "batch" /\ pc' \in {"batch", "assemble"}
            BY <2>5 DEF FinishBatch, StartBatch
        <3>2. RunStage(pc) <= RunStage(pc') /\ (pc' = "assemble" => RunStage(pc) < RunStage(pc'))
            BY <3>1, RunStages
        <3>3. \A i \in Pos : /\ StepStage(st[i]) <= StepStage(st'[i])
                             /\ FnStage(fn[i]) <= FnStage(fn'[i])
            BY <1>1, <2>5, BatchAdvances
        <3>4. results \subseteq results' /\ (results # results' \/ pc' = "assemble")
            BY <1>1, <2>5, FinishAdvances
        <3> QED BY <2>1, <3>1, <3>2, <3>3, <3>4 DEF Advances
    <2>6. CASE Assemble \/ UpdateSpent \/ RecordCost \/ Complete
        <3>1. UNCHANGED <<results, rows, st, fn>>
            BY <2>6 DEF Assemble, UpdateSpent, RecordCost, Complete
        <3>2. \/ pc = "assemble" /\ pc' \in {"spent", "seal_record"}
              \/ pc = "spent" /\ pc' = "cost"
              \/ pc = "f_spent" /\ pc' = "terminate"
              \/ pc = "cost" /\ pc' = "complete"
              \/ pc = "complete" /\ pc' = "seal_record"
            BY <2>6 DEF Assemble, UpdateSpent, RecordCost, Complete, Catch
        <3>3. RunStage(pc) < RunStage(pc') /\ RunStage(pc') \in Nat
            BY <3>2, RunStages
        <3> QED BY <2>2, <3>1, <3>3
    <2>7. CASE SealRecord \/ SealAudit \/ SealTxid \/ AuditOutcome
        <3>1. UNCHANGED <<results, rows, st, fn>>
            BY <2>7 DEF SealRecord, SealAudit, SealTxid, AuditOutcome
        <3>2. \/ pc = "seal_record" /\ pc' \in {"seal_calls", "seal_audit"}
              \/ pc = "seal_audit" /\ pc' = "seal_txid"
              \/ pc = "seal_txid" /\ pc' \in {"audit_complete", "f_audit"}
              \/ pc = "audit_complete" /\ pc' = "terminate"
              \/ pc = "f_audit" /\ pc' = "f_spent"
            BY <2>7 DEF SealRecord, NextCallRow, SealAudit, SealTxid, AuditOutcome
        <3>3. RunStage(pc) < RunStage(pc') /\ RunStage(pc') \in Nat
            BY <3>2, RunStages
        <3> QED BY <2>2, <3>1, <3>3
    <2>8. CASE SealCall
        <3>1. UNCHANGED <<results, st, fn>> /\ rows' = rows + 1 /\ pc = "seal_calls"
              /\ pc' \in {"seal_calls", "seal_audit"}
            BY <2>8 DEF SealCall, NextCallRow
        <3>2. RunStage(pc) <= RunStage(pc')
            BY <3>1, RunStages
        <3> QED BY <2>1, <3>1, <3>2 DEF Advances
    <2>9. CASE Terminate \/ FailInvocation \/ CleanUp
        <3>1. UNCHANGED <<results, rows, st, fn>>
            BY <2>9 DEF Terminate, FailInvocation, CleanUp
        <3>2. \/ pc = "terminate" /\ pc' \in {"ended", "f_fail"}
              \/ pc = "f_fail" /\ pc' = "f_finally"
              \/ pc = "f_finally" /\ pc' = "ended"
            BY <2>9 DEF Terminate, FailInvocation, CleanUp, Finally
        <3>3. RunStage(pc) < RunStage(pc') /\ RunStage(pc') \in Nat
            BY <3>2, RunStages
        <3> QED BY <2>2, <3>1, <3>3
    <2>10. CASE Crash
        <3>1. UNCHANGED <<results, rows, st, fn>>
            BY <2>10 DEF Crash
        <3>2. RunStage(pc) \in 0 .. 21 /\ RunStage(pc') = 22
            BY <1>1, <2>10, RunStages DEF Crash, IInv, TypeOK, ControlType, PCs, Catching
        <3> QED BY <2>2, <3>1, <3>2
    <2>11. ASSUME NEW i \in Pos, StepOf(i) PROVE Advances
        BY <1>1, <2>11, StepAdvances
    <2> QED BY <1>1, <2>3, <2>4, <2>5, <2>6, <2>7, <2>8, <2>9, <2>10, <2>11 DEF Next, Run, WindUp
<1>2. IInv /\ [Next]_vars => [Advances]_vars
    BY <1>1
<1> QED BY <1>2, Invariant, PTL DEF Spec, EveryStepAdvances

-----------------------------------------------------------------------------
(* Refinement.                                                             *)

(* While a payment is being built the invocation has not completed: this   *)
(* is what the contract's Pay needs.                                       *)
LEMMA PayingIsRunning ==
    ASSUME IInv, NEW i \in Pos, fn[i] = "params", wallet = "live", Up
    PROVE  status \in {"running", "failed"}
<1>1. pc \notin Early \cup Executed /\ reason # "completed"
    BY ActiveStep DEF InFlight
<1> QED BY <1>1 DEF IInv, PhaseInv, Early, Up

LEMMA ContractInit == Init => Contract!Init
BY DEF Init, Contract!Init

LEMMA ContractStep ==
    IInv /\ [Next]_vars => [Contract!Next]_<<status, wallet, spent>>
<1> SUFFICES ASSUME IInv, Next PROVE Contract!Next \/ UNCHANGED <<status, wallet, spent>>
    BY DEF vars, money, dbVars
<1> USE DEF money, dbVars
<1>1. PhaseInv /\ spent \in Nat
    BY DEF IInv, TypeOK, MoneyType
<1>2. CASE Invoke
    BY <1>1, <1>2 DEF Invoke, PhaseInv, Contract!Next, Contract!Submit
<1>3. CASE OpenWallet
    BY <1>1, <1>3 DEF OpenWallet, PhaseInv, Contract!Next, Contract!Fund
<1>4. CASE MarkRunning
    BY <1>1, <1>4 DEF MarkRunning, PhaseInv, Contract!Next, Contract!Begin
<1>5. CASE Complete
    BY <1>1, <1>5 DEF Complete, PhaseInv, Unopened, Executed, Contract!Next, Contract!Succeed
<1>6. CASE Terminate
    <2>1. wallet = "live" /\ status \in {"running", "completed"} /\ UNCHANGED <<status, spent>>
        BY <1>1, <1>6 DEF Terminate, PhaseInv, Unopened
    <2>2. wallet' \in {"live", "destroyed"}
        BY <2>1, <1>6 DEF Terminate, Finally, Swallowed
    <2> QED BY <2>1, <2>2 DEF Contract!Next, Contract!Close
<1>7. CASE FailInvocation
    <2>1. wallet = "live" /\ status = "running" /\ UNCHANGED <<wallet, spent>>
        BY <1>1, <1>7 DEF FailInvocation, PhaseInv, Unopened, Catching
    <2>2. status' \in {"running", "failed"}
        BY <2>1, <1>7 DEF FailInvocation, Swallowed
    <2> QED BY <2>1, <2>2 DEF Contract!Next, Contract!Fail
<1>8. ASSUME NEW i \in Pos, StepOf(i)
      PROVE  Contract!Next \/ UNCHANGED <<status, wallet, spent>>
    <2>1. CASE SignPayment(i)
        <3>1. status \in {"running", "failed"}
            BY <2>1, PayingIsRunning DEF SignPayment, Usable
        <3>2. PICK amount \in Prices : amount <= SpendingLimit - spent /\ spent' = spent + amount
            BY <2>1 DEF SignPayment, Affordable, Usable
        <3>3. spent + amount <= SpendingLimit
            BY <1>1, <3>2, ConstantsAssumption
        <3> QED BY <2>1, <3>1, <3>2, <3>3 DEF SignPayment, Usable, Contract!Next, Contract!Pay
    <2>2. CASE Route(i) \/ TeeTimeout(i) \/ AuditStep(i) \/ ModelAnswers(i) \/ AgentAnswers(i)
               \/ AgentAnswersPaid(i) \/ RefusePayment(i) \/ SimulatePayment(i)
        BY <2>2 DEF Route, TeeTimeout, AuditStep, ModelAnswers, AgentAnswers,
            AgentAnswersPaid, RefusePayment, SimulatePayment
    <2> QED BY <1>8, <2>1, <2>2 DEF StepOf, Agent
<1>9. CASE CleanUp
    BY <1>1, <1>9 DEF CleanUp, Finally, PhaseInv, Unopened, Contract!Next, Contract!Close
<1>10. CASE \/ InsertSession \/ LinkSession \/ AuditStart \/ DecomposeTask \/ FinishBatch
           \/ Assemble \/ UpdateSpent \/ RecordCost \/ SealRecord \/ SealCall \/ SealAudit
           \/ SealTxid \/ AuditOutcome \/ Crash
    BY <1>10 DEF InsertSession, LinkSession, AuditStart, DecomposeTask, FinishBatch, Assemble,
        UpdateSpent, RecordCost, SealRecord, SealCall, SealAudit, SealTxid, AuditOutcome, Crash
<1> QED BY <1>2, <1>3, <1>4, <1>5, <1>6, <1>7, <1>8, <1>9, <1>10 DEF Next, Run, StartUp, WindUp

(* run(), its steps and the calls it abandons implement the contract: the  *)
(* wallet is opened once, pays within its limit, and pays nothing once the *)
(* invocation completed or the wallet is closed.                           *)
THEOREM Refinement == Spec => ImplementsContract
<1>1. Contract!Init /\ [][Contract!Next]_<<status, wallet, spent>> => ImplementsContract
    BY DEF ImplementsContract, Contract!Spec, Contract!contract
<1> QED BY <1>1, ContractInit, ContractStep, Invariant, PTL DEF Spec
=============================================================================
