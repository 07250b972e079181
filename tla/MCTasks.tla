----------------------------- MODULE MCTasks -----------------------------
(***************************************************************************)
(* Instances of the long-running tasks for TLC.  They share no variable,   *)
(* so that each is checked by itself: "part" names the one that steps, and *)
(* the others stay in one initial state of theirs.                         *)
(***************************************************************************)
EXTENDS SyscallTracer, BCell, IntentBus, Companion, Indexer, Membership, BatchManager,
        Placement, VramManager

\* Two profiles, one of which allows the only system call of the table.
MCProfileAllows == [p \in Profiles |-> IF p = "strict" THEN {} ELSE Table]
\* A file has two pieces first and one after an edit.
MCPieces == [v \in 1 .. MaxEdits |-> IF v = 1 THEN {1, 2} ELSE {0}]
\* A companion with a bridge, one in a mesh, and one with a file task.
MCConfigs == {{"bridge"}, {"cgroup", "p2p"}, {"sfs"}}

VARIABLE part     \* the component whose behaviour this is

vars == <<part, tracerVars, bcellVars, busVars, companionVars, indexerVars,
          memberVars, placementVars, vramVars, batchVars>>
Parts == {"tracer", "bcell", "bus", "companion", "indexer", "membership", "placement", "vram", "batch"}

\* The choices that a component has initially are made only where it steps.
Unvaried ==
  /\ part # "tracer" => active_profile = "default"
  /\ part # "companion" => config = {"bridge"}
  /\ part # "batch" => engine = [kind |-> "cloud", fallback_mock |-> TRUE]

Init ==
  /\ part \in Parts
  /\ TracerInit
  /\ BCellInit
  /\ BusInit
  /\ CompanionInit
  /\ IndexerInit
  /\ MemberInit
  /\ PlacementInit
  /\ VramInit
  /\ BatchInit
  /\ Unvaried

Next ==
  /\ UNCHANGED part
  /\ \/ part = "tracer" /\ TracerNext
        /\ UNCHANGED <<bcellVars, busVars, companionVars, indexerVars,
                       memberVars, placementVars, vramVars, batchVars>>
     \/ part = "bcell" /\ BCellNext
        /\ UNCHANGED <<tracerVars, busVars, companionVars, indexerVars,
                       memberVars, placementVars, vramVars, batchVars>>
     \/ part = "bus" /\ BusNext
        /\ UNCHANGED <<tracerVars, bcellVars, companionVars, indexerVars,
                       memberVars, placementVars, vramVars, batchVars>>
     \/ part = "companion" /\ CompanionNext
        /\ UNCHANGED <<tracerVars, bcellVars, busVars, indexerVars, memberVars,
                       placementVars, vramVars, batchVars>>
     \/ part = "indexer" /\ IndexerNext
        /\ UNCHANGED <<tracerVars, bcellVars, busVars, companionVars,
                       memberVars, placementVars, vramVars, batchVars>>
     \/ part = "membership" /\ MemberNext
        /\ UNCHANGED <<tracerVars, bcellVars, busVars, companionVars,
                       indexerVars, placementVars, vramVars, batchVars>>
     \/ part = "placement" /\ PlacementNext
        /\ UNCHANGED <<tracerVars, bcellVars, busVars, companionVars,
                       indexerVars, memberVars, vramVars, batchVars>>
     \/ part = "vram" /\ VramNext
        /\ UNCHANGED <<tracerVars, bcellVars, busVars, companionVars,
                       indexerVars, memberVars, placementVars, batchVars>>
     \/ part = "batch" /\ BatchNext
        /\ UNCHANGED <<tracerVars, bcellVars, busVars, companionVars,
                       indexerVars, memberVars, placementVars, vramVars>>

\* The fairness of each component, for the part that steps.
Fairness ==
  /\ WF_bcellVars(part = "bcell" /\ (ReceiveIntent \/ Sleep \/ sweep_shadow_antibodies))
  /\ WF_bcellVars(part = "bcell" /\ ObservationCompletes)
  /\ WF_busVars(part = "bus" /\ Routing) /\ WF_busVars(part = "bus" /\ Compute)
  /\ \A s \in Subscribers : WF_busVars(part = "bus" /\ PublishNext(s))
  /\ WF_companionVars(/\ part = "companion"
                      /\ \E t \in AllTasks : WatchTaskEnds(t) \/ TokenTaskEnds(t))
  /\ WF_companionVars(part = "companion" /\ AwaitTask)
  /\ WF_companionVars(part = "companion" /\ DetachHooks)
  /\ WF_indexerVars(part = "indexer" /\ (accumulate \/ window_expires))
  /\ WF_indexerVars(/\ part = "indexer"
                    /\ take_batch \/ read_file \/ delete_file_index \/ index_file \/ flush \/ report_indexed)
  /\ WF_indexerVars(part = "indexer" /\ recv_event)
  /\ WF_memberVars(part = "membership" /\ Detecting)
  /\ \A p \in Peers : SF_memberVars(part = "membership" /\ ping(p))
  /\ \A c \in Conns :
       /\ WF_memberVars(part = "membership" /\ Connecting(c))
       /\ WF_memberVars(/\ part = "membership" /\ ConnAt(c, "open")
                        /\ conn[c].peer \in silent /\ read_ends(c))
       /\ WF_memberVars(part = "membership" /\ (drop_sender(c) \/ read_task_done(c)))
  /\ WF_batchVars(part = "batch" /\ BatchTask)

Spec == Init /\ [][Next]_vars /\ Fairness

TasksTypeOK ==
  /\ TracerTypeOK /\ BCellTypeOK /\ BusTypeOK /\ CompanionTypeOK
  /\ IndexerTypeOK /\ MembershipTypeOK /\ BatchTypeOK
  /\ PlacementTypeOK /\ VramTypeOK
===========================================================================
