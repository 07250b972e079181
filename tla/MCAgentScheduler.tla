-------------------------- MODULE MCAgentScheduler --------------------------
(* Small instances of AgentScheduler for TLC. *)
EXTENDS AgentScheduler

TwoAgents == {1, 2}
SecondId  == {2}
TwoLevels == {1, 2}
OneLevel  == {1}
NoIds     == {}
=============================================================================
