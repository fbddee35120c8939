-------------------------- MODULE MCCortexSession --------------------------
(***************************************************************************)
(* Small instances of CortexSession.  MCPlans has the shapes that matter:  *)
(* nothing to do, the single step of a short task, two agents in parallel  *)
(* feeding a local step, a duplicated identifier, a cycle and a dependency *)
(* on a step that is cut.                                                  *)
(***************************************************************************)
EXTENDS CortexSession

AgentStep(id, deps) == [id |-> id, deps |-> deps, execution |-> "external"]
LocalStep(id, deps) == [id |-> id, deps |-> deps, execution |-> "local"]

MCPlans == {
    <<>>,
    <<AgentStep("s1", {})>>,
    <<AgentStep("s1", {}), AgentStep("s2", {}), LocalStep("s3", {"s1", "s2"})>>,
    <<AgentStep("s1", {}), AgentStep("s2", {"s1"}), AgentStep("s2", {})>>,
    <<LocalStep("s1", {"s2"}), AgentStep("s2", {"s1"})>>,
    <<AgentStep("s1", {"s4"}), LocalStep("s2", {}), AgentStep("s3", {"s2"}), LocalStep("s4", {})>> }

MCPrices == {1, 2}
============================================================================
