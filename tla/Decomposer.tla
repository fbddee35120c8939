----------------------------- MODULE Decomposer -----------------------------
(***************************************************************************)
(* Steps and execution batches: src/src/cortex/decomposer.js.              *)
(*                                                                         *)
(* A plan is a sequence of steps.  The identifiers and the dependencies    *)
(* are whatever the language model answered: nothing in the code makes     *)
(* the identifiers unique or the dependencies resolvable.  A description   *)
(* is abstracted to the execution zone its classification gave it.         *)
(***************************************************************************)
EXTENDS Integers, Sequences

Zones == {"local", "external"}

(* What _makeStep builds and the scheduler reads of it. *)
Step(Ids) == [id : Ids, deps : SUBSET Ids, execution : Zones]

(* Faulty variant of Decompose: the answer is not cut. *)
DecomposeUncut(raw, maxSteps) == raw

(* decompose: the answer is cut to its first maxSteps entries. *)
Decompose(raw, maxSteps) ==
    SubSeq(raw, 1, IF Len(raw) < maxSteps THEN Len(raw) ELSE maxSteps)

(* The positions of plan whose identifier is not yet completed, and those  *)
(* among them with no unsatisfied dependency.                              *)
Remaining(plan, completed) == {i \in DOMAIN plan : plan[i].id \notin completed}

(* Faulty variant of Ready: some dependency is enough (some, not every). *)
ReadyOnAny(plan, completed) ==
    {i \in Remaining(plan, completed) :
        plan[i].deps = {} \/ plan[i].deps \cap completed # {}}

Ready(plan, completed) ==
    {i \in Remaining(plan, completed) : plan[i].deps \subseteq completed}

(* The next batch: the ready steps, or everything that remains when a      *)
(* cycle or an unknown dependency leaves none ready.                       *)
NextBatch(plan, completed) ==
    IF Ready(plan, completed) # {} THEN Ready(plan, completed)
                                   ELSE Remaining(plan, completed)

IdsOf(plan, positions) == {plan[i].id : i \in positions}
=============================================================================
