---------------------------- MODULE MCX402Payment ----------------------------
(***************************************************************************)
(* One session's calls: two to an agent that submits, which may sign one   *)
(* transaction between them; one to an agent that only verifies, with the  *)
(* same address and price; one to an agent with no address to pay.  The    *)
(* limit covers two payments.                                              *)
(***************************************************************************)
EXTENDS X402Payment

MCCalls      == {"c1", "c2", "c3", "c4"}
MCWallets    == {"w"}
MCAgents     == {"flight", "hotel", "maps"}
MCAddresses  == {"platform"}
MCSubmitting == {"flight"}
MCWalletOf   == [c \in MCCalls |-> "w"]
MCAgentOf    == [c \in MCCalls |-> CASE c = "c3" -> "hotel" [] c = "c4" -> "maps" [] OTHER -> "flight"]
MCPayTo      == [a \in MCAgents |-> IF a = "maps" THEN "none" ELSE "platform"]
MCPrice      == [a \in MCAgents |-> 2]
=============================================================================
