-------------------------- MODULE MCAgentApprovals --------------------------
(* AgentApprovals with two runs: r1 asks for one approval and then for two, *)
(* r2 asks once.                                                            *)
EXTENDS AgentApprovals

CONSTANTS r1, r2, a, b

MCAsks ==
    [k \in Runs \X Turns |->
        CASE k = <<r1, 2>> -> {a, b}
          [] k = <<r2, 2>> -> {}
          [] OTHER -> {a}]
=============================================================================
