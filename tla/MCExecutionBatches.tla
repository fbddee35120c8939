------------------------ MODULE MCExecutionBatches ------------------------
(* Every plan of at most three steps over MCIds, and some of four. *)
EXTENDS ExecutionBatches

MCIds == {"s1", "s2", "s3"}

\* A dependency outside MCIds stands for an identifier the plan lacks.
MCSteps == [id : MCIds, deps : SUBSET (MCIds \cup {"s9"}), execution : {"external"}]
MCMixed == [id : {"s1", "s2"}, deps : SUBSET {"s1", "s2"}, execution : Zones]

\* Answers longer than maxSteps: a dependency on the step that is cut dangles.
MCLong == LET Names == <<"s1", "s2", "s3", "s4">>
                At(i) == [id : {Names[i]}, deps : {{}} \cup {{Names[j]} : j \in 1 .. 4},
                          execution : {"external"}]
          IN  {<<a, b, c, d>> : a \in At(1), b \in At(2), c \in At(3), d \in At(4)}

PlansOver(S, n) == UNION {[1 .. k -> S] : k \in 0 .. n}

MCRawPlans == PlansOver(MCSteps, 3) \cup MCLong
MCMixedPlans == PlansOver(MCMixed, 2)
===========================================================================
