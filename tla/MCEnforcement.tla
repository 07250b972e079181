--------------------------- MODULE MCEnforcement ---------------------------
(* Small instances of Enforcement for TLC. *)
EXTENDS Enforcement

CONSTANTS t1, t2, p1

MCTokens == {t1, t2}
MCPids == {p1}
MCClasses == {"file_open"}

ProcessTokens == [t \in MCTokens |-> p1]
NoClasses     == [t \in MCTokens |-> {}]
=============================================================================
