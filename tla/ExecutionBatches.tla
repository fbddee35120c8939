-------------------------- MODULE ExecutionBatches --------------------------
(***************************************************************************)
(* The loop of buildExecutionBatches (src/src/cortex/decomposer.js) as a   *)
(* state machine: one action per way an iteration can go.                  *)
(***************************************************************************)
EXTENDS Decomposer, FiniteSets

CONSTANTS
    Ids,        \* identifiers of steps
    RawPlans,   \* the answers of the language model that are considered
    MaxSteps    \* options.maxSteps

ASSUME PlansAssumption == RawPlans \subseteq Seq(Step(Ids)) /\ MaxSteps \in Nat \ {0}

VARIABLES
    plan,       \* the steps decompose returned
    completed,  \* identifiers of the batched steps
    batches,    \* the batches built so far, as sets of positions of plan
    looping     \* FALSE once the loop was left

vars == <<plan, completed, batches, looping>>

Init ==
    /\ \E raw \in RawPlans : plan = Decompose(raw, MaxSteps)
    /\ completed = {}
    /\ batches = <<>>
    /\ looping = TRUE

(* Some steps are ready: they are the next batch. *)
BatchReady ==
    /\ looping
    /\ Ready(plan, completed) # {}
    /\ batches' = Append(batches, Ready(plan, completed))
    /\ completed' = completed \cup IdsOf(plan, Ready(plan, completed))
    /\ UNCHANGED <<plan, looping>>

(* Faulty variants of BatchRest: it runs when nothing remains; it drops    *)
(* the remaining steps; it batches the whole plan; it does not leave the   *)
(* loop.                                                                   *)
BatchRestEvenIfEmpty ==
    /\ looping
    /\ Ready(plan, completed) = {}
    /\ batches' = Append(batches, Remaining(plan, completed))
    /\ looping' = FALSE
    /\ UNCHANGED <<plan, completed>>

BatchRestDropped ==
    /\ looping
    /\ Ready(plan, completed) = {}
    /\ looping' = FALSE
    /\ UNCHANGED <<plan, completed, batches>>

BatchRestWholePlan ==
    /\ looping
    /\ Ready(plan, completed) = {} /\ Remaining(plan, completed) # {}
    /\ batches' = Append(batches, DOMAIN plan)
    /\ looping' = FALSE
    /\ UNCHANGED <<plan, completed>>

BatchRestSpins ==
    /\ looping
    /\ Ready(plan, completed) = {} /\ Remaining(plan, completed) # {}
    /\ UNCHANGED vars

(* Steps remain and none is ready: they all go in one last batch. *)
BatchRest ==
    /\ looping
    /\ Ready(plan, completed) = {}
    /\ Remaining(plan, completed) # {}
    /\ batches' = Append(batches, Remaining(plan, completed))
    /\ looping' = FALSE
    /\ UNCHANGED <<plan, completed>>

(* while (remaining.length > 0) *)
LoopEnds ==
    /\ looping
    /\ Remaining(plan, completed) = {}
    /\ looping' = FALSE
    /\ UNCHANGED <<plan, completed, batches>>

Next == BatchReady \/ BatchRest \/ LoopEnds

Spec == Init /\ [][Next]_vars /\ WF_vars(Next)

-----------------------------------------------------------------------------
(* A reference reading of the plan as a graph, independent of the loop.    *)

UniqueIds == \A i, j \in DOMAIN plan : plan[i].id = plan[j].id => i = j

Closed == \A i \in DOMAIN plan : plan[i].deps \subseteq IdsOf(plan, DOMAIN plan)

Parents(i) == {j \in DOMAIN plan : plan[j].id \in plan[i].deps}

(* Every set of steps has one that depends on none of the set. *)
Acyclic == \A T \in SUBSET DOMAIN plan : T # {} => \E i \in T : Parents(i) \cap T = {}

WellFormed == UniqueIds /\ Closed /\ Acyclic

(* A chain of n + 1 positions, each a dependency of the next, ends in i:   *)
(* the level of i is the length of the longest.                            *)
ChainInto(n, i) ==
    \E chain \in [0 .. n -> DOMAIN plan] :
        chain[n] = i /\ \A k \in 1 .. n : chain[k - 1] \in Parents(chain[k])

Level(i) == CHOOSE n \in 0 .. Len(plan) : ChainInto(n, i) /\ ~ ChainInto(n + 1, i)

BatchOf(i) == {b \in DOMAIN batches : i \in batches[b]}

-----------------------------------------------------------------------------
TypeOK ==
    /\ looping \in BOOLEAN
    /\ completed \subseteq IdsOf(plan, DOMAIN plan)
    /\ \A b \in DOMAIN batches : batches[b] \subseteq DOMAIN plan /\ batches[b] # {}

(* On a plan with unique identifiers, known dependencies and no cycle, the *)
(* loop puts every step into exactly one batch, the one numbered by the    *)
(* longest chain of dependencies into it: after all it needs, and no later *)
(* than that (decomposer.js:95-96, "all their deps are in prior batches"). *)
BatchIsLevel ==
    (WellFormed /\ ~ looping) =>
        \A i \in DOMAIN plan : BatchOf(i) = {Level(i) + 1}

(* On any plan, with duplicates or unknown identifiers in it, a step is    *)
(* batched behind a step of each identifier it depends on; the one batch   *)
(* excepted that takes what is left (decomposer.js:111).                   *)
DepsInPriorBatches ==
    \A b \in DOMAIN batches : looping \/ b < Len(batches) =>
        \A i \in batches[b] :
            plan[i].deps \subseteq UNION {IdsOf(plan, batches[c]) : c \in 1 .. b - 1}

(* Whatever the language model answered, no identifier is forgotten: when  *)
(* the loop ends some step of every identifier has been batched, so that   *)
(* resultsByStepId gets an entry for it.                                   *)
EveryIdIsBatched ==
    ~ looping =>
        \A i \in DOMAIN plan : \E b \in DOMAIN batches : plan[i].id \in IdsOf(plan, batches[b])

(* No step runs twice, even when its identifier is duplicated or it sits   *)
(* on a cycle: a second run would pay its agent a second time.             *)
NoStepBatchedTwice ==
    \A b, c \in DOMAIN batches : b # c => batches[b] \cap batches[c] = {}

(* The inductive invariant: what is completed has been batched, and while  *)
(* the loop runs nothing else has, so that what is ready next is new.      *)
IInv ==
    /\ TypeOK /\ batches \in Seq(SUBSET DOMAIN plan)
    /\ completed \subseteq UNION {IdsOf(plan, batches[b]) : b \in DOMAIN batches}
    /\ looping => \A b \in DOMAIN batches : IdsOf(plan, batches[b]) \subseteq completed
    /\ DepsInPriorBatches
    /\ EveryIdIsBatched
    /\ NoStepBatchedTwice

(* The identifiers of the first n batches.                                 *)
IdsBefore(n) == UNION {IdsOf(plan, batches[b]) : b \in 1 .. n}

(* On any plan no step waits for a batch it needs nothing of: each needs   *)
(* an identifier that the batches before the previous one do not have.     *)
NoIdleWait ==
    \A b \in 2 .. Len(batches) : \A i \in batches[b] : ~ (plan[i].deps \subseteq IdsBefore(b - 2))

(* What is not yet batched would not have fitted in the last batch, and on *)
(* a plan without defects a batch is the level of its steps.               *)
LevelInv ==
    /\ plan \in Seq(Step(Ids))
    /\ NoIdleWait
    /\ looping /\ batches # <<>> =>
          \A i \in Remaining(plan, completed) : ~ (plan[i].deps \subseteq IdsBefore(Len(batches) - 1))
    /\ WellFormed => \A b \in DOMAIN batches : \A i \in batches[b] :
                        ChainInto(b - 1, i) /\ ~ ChainInto(b, i)

(* Batches never outnumber steps, and each iteration leaves fewer steps to *)
(* batch or leaves the loop: why it ends.                                  *)
BatchesBounded == Len(batches) <= Len(plan)
IterationsProgress ==
    [][\/ ~ looping'
       \/ /\ Remaining(plan, completed)' \subseteq Remaining(plan, completed)
          /\ Remaining(plan, completed)' # Remaining(plan, completed)]_vars

(* The loop ends on every plan, cyclic ones included. *)
LoopTerminates == <>(~ looping)

(* decomposer.js:86: "local steps never parallelise with external".  The   *)
(* flag set there is never read, and a batch mixes both zones.             *)
LocalNeverWithExternal ==
    \A b \in DOMAIN batches :
        \A i, j \in batches[b] : plan[i].execution = plan[j].execution
=============================================================================
