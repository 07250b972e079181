---------------------------- MODULE MCGateway ----------------------------
(***************************************************************************)
(* Instances for TLC of the gateway with its watchtower, the detector of   *)
(* model extraction, the guard and the verification of the audit files.    *)
(* As in MCTasks, "part" names the one that steps.                         *)
(***************************************************************************)
EXTENDS Gateway, Extraction, SemanticGuard, AuditVerify

MCRule(id, category, global, window, threshold, cooldown) ==
  [id |-> id, category |-> category, global |-> global, window |-> window,
   threshold |-> threshold, cooldown |-> cooldown]

\* Four of the rules of lib.rs:43-126, one of them global, with small numbers.
MCRules == {MCRule("injection-burst", "prompt_injection", FALSE, 1, 1, 1),
            MCRule("extraction-active", "extraction", FALSE, 2, 1, 0),
            MCRule("auth-probing", "auth", TRUE, 2, 2, 2),
            MCRule("suspended-tenant-traffic", "suspended", FALSE, 2, 1, 0)}
MCPlan  == [t \in Tenants |-> 1]

\* Texts of digits and spaces, and shorter ones of every character.
MCGuardTexts == BoundedSeq({"d3", "d4", "d9", "space"}, 6) \cup BoundedSeq(GuardChars, 4)
MCInjectionRules == {[id |-> "delimiter", severity |-> "High", pattern |->
                                                                             <<"dot",
                                                                             "dot">>],
                     [id |-> "role-tag", severity |-> "Medium", pattern |->
                                                                              <<"dot",
                                                                              "space">>]}
MCCardDigits == 2..3

\* Nothing tells the requests apart.
Interchangeable == Permutations(Requests)

VARIABLE part     \* the component whose behaviour this is

vars == <<part, edgeVars, extractionVars, guardVars, verifyVars>>
Parts == {"gateway", "extraction", "guard", "verify"}

Init ==
  /\ part \in Parts
  /\ WatchInit /\ GatewayInit
  /\ ExtractionInit
  /\ GuardInit
  /\ VerifyInit

Next ==
  /\ UNCHANGED part
  /\ \/ part = "gateway" /\ GatewayNext
        /\ UNCHANGED <<extractionVars, guardVars, verifyVars>>
     \/ part = "extraction" /\ ExtractionNext
        /\ UNCHANGED <<edgeVars, guardVars, verifyVars>>
     \/ part = "guard" /\ GuardNext
        /\ UNCHANGED <<edgeVars, extractionVars, verifyVars>>
     \/ part = "verify" /\ VerifyNext
        /\ UNCHANGED <<edgeVars, extractionVars, guardVars>>

Spec == Init /\ [][Next]_vars

EdgeTypeOK == GatewayTypeOK /\ ExtractionTypeOK /\ GuardTypeOK /\ VerifyTypeOK
===========================================================================
