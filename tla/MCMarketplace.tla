---------------------------- MODULE MCMarketplace ----------------------------
(***************************************************************************)
(* The owner of a deployment, another wallet, and a step of the owner's    *)
(* session, with two keywords of the market and a built-in one ahead of    *)
(* them, in the order of CAPABILITY_MAP.  The agents are interchangeable.  *)
(***************************************************************************)
EXTENDS Marketplace, TLC

MCWallets     == {"w1", "w2"}
MCDeployments == {"d"}
MCOwner       == [d \in MCDeployments |-> "w1"]
MCSteps       == {"s"}
MCWalletOf    == [r \in MCSteps |-> "w1"]
MCKeywords    == {"search", "code", "email"}
MCRank        == [k \in MCKeywords |-> CASE k = "search" -> 2 [] k = "code" -> 3 [] OTHER -> 6]
MCBuiltins    == {"search"}
MCSkillsets   == {{"code"}, {"email"}}
Symmetry      == Permutations(Agents)
=============================================================================
