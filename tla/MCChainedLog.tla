---------------------------- MODULE MCChainedLog ----------------------------
(* Small instances of ChainedLog for TLC. *)
EXTENDS ChainedLog

CONSTANTS l1, l2  \* ChainedLog values

OneLog  == {l1}
TwoLogs == {l1, l2}
AllFaults == FaultKinds
NoFaults == {}
=============================================================================
