----------------------------- MODULE Companion -----------------------------
(***************************************************************************)
(* The life of the daemon (kernel-companion/src/lib.rs): boot attaches the *)
(* hooks, prepares the agents' cgroup and spawns the tasks, each stage of  *)
(* which may fail; shutdown tells every task to stop, waits for them one   *)
(* after the other, and detaches the hooks last.  A boot that fails ends   *)
(* the process, as both binaries have it.                                  *)
(***************************************************************************)
EXTENDS Naturals, Sequences, FiniteSets, SequencesExt

Options == {"cgroup", "bridge", "p2p", "sfs"}   \* optional parts

CONSTANT Configs     \* the configurations, each with the parts it switches on

ASSUME CompanionAssumption == Configs \subseteq SUBSET Options

VARIABLES
  phase,         \* where boot or shutdown stands
  config,        \* the options that are on
  hook,          \* LSM hooks attached
  alive, handle, \* tasks that run, tasks whose handle is kept
  detached,      \* tasks that others spawned and nobody has the handle of
  shutdown_tx,   \* the sender of the shutdown signal
  cancelled,     \* the tokens have been cancelled
  awaiting,      \* shutdown: tasks still to wait for, in this order
  traffic        \* clients of the socket and of the bridge keep it busy

companionVars == <<phase, config, hook, alive, handle, detached, shutdown_tx, cancelled,
                   awaiting, traffic>>

(* Tasks by what ends them; nothing keeps the handle of the expiry task.   *)
WatchTasks  == {"expiry", "routing", "supervisor", "tcell", "immune", "compute", "telemetry"}
PolledTasks == {"uds", "metrics", "bridge_listener", "bridge_forwarder"}
TokenTasks  == PolledTasks \cup {"tracer"}
AbortTasks  == {"p2p_listener", "p2p_gossip", "p2p_failure_detector"}
AllTasks    == WatchTasks \cup TokenTasks \cup AbortTasks \cup {"sfs"}

(* What these spawn and forget: the handlers of their connections (with    *)
(* clients, with peers, with the scraper of metrics), the connecting to    *)
(* the peers of the configuration, the carrying out of file commands.  A   *)
(* kind is in "detached" while any task of it runs.                        *)
DetachedTasks == {"connection", "connecting", "file_command"}
Accepting == {"uds", "metrics", "bridge_listener", "p2p_listener"}

Phases == {"down", "attach", "cgroup", "tasks", "p2p", "sfs", "uds", "up", "stopping",
           "detach", "exited"}

(* The order in which shutdown waits.                                      *)
ShutdownOrder ==
  <<"uds", "routing", "supervisor", "immune", "compute", "telemetry", "bridge_listener",
    "bridge_forwarder", "p2p_listener", "p2p_gossip", "p2p_failure_detector", "tracer",
    "tcell", "metrics">>

CompanionTypeOK ==
  /\ phase \in Phases /\ config \in Configs /\ hook \in BOOLEAN
  /\ alive \subseteq AllTasks /\ handle \subseteq AllTasks \ {"expiry"}
  /\ detached \subseteq DetachedTasks
  /\ shutdown_tx \in {"none", "local", "stored", "sent"}
  /\ cancelled \in BOOLEAN /\ traffic \in BOOLEAN
  /\ \E n \in 0 .. Len(ShutdownOrder) :
       awaiting = SubSeq(ShutdownOrder, n + 1, Len(ShutdownOrder))

CompanionInit ==
  /\ phase = "down" /\ config \in Configs /\ hook = FALSE
  /\ alive = {} /\ handle = {} /\ detached = {} /\ shutdown_tx = "none"
  /\ cancelled = FALSE /\ awaiting = <<>> /\ traffic = FALSE

-----------------------------------------------------------------------------
(* Boot. *)

Fails == /\ phase' = "exited" /\ alive' = {} /\ handle' = {} /\ detached' = {}
         /\ hook' = FALSE /\ shutdown_tx' = "none"

(* The process ends, and with it the tasks and the links to the kernel.    *)
BootFails ==
  /\ \/ phase = "attach" /\ ~hook
     \/ phase = "cgroup" /\ "cgroup" \in config
     \/ phase = "p2p" /\ "p2p" \in config
     \/ phase = "uds"
  /\ Fails /\ UNCHANGED <<config, cancelled, awaiting, traffic>>

boot ==
  /\ phase \in {"down", "up"} /\ phase' = "attach"
  /\ UNCHANGED <<config, hook, alive, handle, detached, shutdown_tx, cancelled, awaiting, traffic>>

AttachHooks ==
  /\ phase = "attach" /\ phase' = "cgroup" /\ hook' = TRUE
  /\ UNCHANGED <<config, alive, handle, detached, shutdown_tx, cancelled, awaiting, traffic>>

(* A daemon that is booted again keeps the tasks it has.                   *)
EnsureCgroup ==
  /\ phase = "cgroup" /\ phase' = IF shutdown_tx = "stored" THEN "up" ELSE "tasks"
  /\ UNCHANGED <<config, hook, alive, handle, detached, shutdown_tx, cancelled, awaiting, traffic>>

Spawned(tasks) == /\ alive' = alive \cup tasks
                  /\ handle' = handle \cup (tasks \ {"expiry"})

SpawnTasks ==
  /\ phase = "tasks" /\ phase' = "p2p"
  /\ Spawned((WatchTasks \ {"telemetry"}) \cup {"tracer"} \cup
             (IF "bridge" \in config THEN {"bridge_listener", "bridge_forwarder"} ELSE {}))
  /\ shutdown_tx' = "local" /\ cancelled' = FALSE
  /\ UNCHANGED <<config, hook, detached, awaiting, traffic>>

(* An address that cannot be parsed leaves the mesh out.  The task that    *)
(* connects to the peers of the configuration is spawned and forgotten.    *)
SpawnMesh ==
  /\ phase = "p2p" /\ phase' = "sfs"
  /\ \/ /\ "p2p" \in config /\ Spawned(AbortTasks \cup {"telemetry"})
        /\ detached' = detached \cup {"connecting"}
     \/ UNCHANGED <<alive, handle, detached>>
  /\ UNCHANGED <<config, hook, shutdown_tx, cancelled, awaiting, traffic>>

(* No store of vectors, no file task.                                      *)
SpawnSfs ==
  /\ phase = "sfs" /\ phase' = "uds"
  /\ \/ "sfs" \in config /\ Spawned({"sfs"})
     \/ UNCHANGED <<alive, handle>>
  /\ UNCHANGED <<config, hook, detached, shutdown_tx, cancelled, awaiting, traffic>>

SpawnServers ==
  /\ phase = "uds" /\ phase' = "up" /\ Spawned({"uds", "metrics"})
  /\ shutdown_tx' = "stored"
  /\ UNCHANGED <<config, hook, detached, cancelled, awaiting, traffic>>

-----------------------------------------------------------------------------
(* The tasks. *)

Ends(t) == /\ alive' = alive \ {t}
           /\ UNCHANGED <<phase, config, hook, handle, detached, shutdown_tx, cancelled,
                        awaiting, traffic>>

(* A task that waits on the signal ends at its next turn of the loop.      *)
WatchTaskEnds(t) == t \in alive \cap WatchTasks /\ shutdown_tx = "sent" /\ Ends(t)

(* A server or a bridge task looks at its token only when a sleep has run  *)
(* out, which every client and every intent begins anew.                   *)
TokenTaskEnds(t) == /\ t \in alive \cap TokenTasks /\ cancelled
                    /\ t \in PolledTasks => ~traffic
                    /\ Ends(t)

(* Servers that cannot bind, a tracer that cannot load its program and the *)
(* forwarder whose peer fails end by themselves; the daemon goes on.       *)
TaskFails(t) == t \in alive \cap ((TokenTasks \ {"uds"}) \cup {"p2p_listener"}) /\ Ends(t)

(* A connection is accepted or made, a file command is taken on: from here *)
(* on it is on its own.                                                    *)
SpawnDetached(t) ==
  /\ \/ t = "connection" /\ (alive \cap Accepting # {} \/ "connecting" \in detached)
     \/ t = "file_command" /\ "sfs" \in alive
  /\ detached' = detached \cup {t}
  /\ UNCHANGED <<phase, config, hook, alive, handle, shutdown_tx, cancelled, awaiting, traffic>>

(* It ends when it is done or its client leaves, and at nobody's bidding.  *)
DetachedEnds(t) ==
  /\ t \in detached /\ detached' = detached \ {t}
  /\ UNCHANGED <<phase, config, hook, alive, handle, shutdown_tx, cancelled, awaiting, traffic>>

ClientsComeAndGo ==
  /\ traffic' = ~traffic
  /\ UNCHANGED <<phase, config, hook, alive, handle, detached, shutdown_tx, cancelled,
                 awaiting>>

-----------------------------------------------------------------------------
(* Mutant: the hooks are detached as soon as the tasks have been told.     *)
shutdown_DetachFirst ==
  /\ phase = "up" /\ phase' = "stopping"
  /\ shutdown_tx' = "sent" /\ cancelled' = TRUE /\ hook' = FALSE
  /\ alive' = alive \ {"sfs"} /\ handle' = handle \ {"sfs"}
  /\ awaiting' = ShutdownOrder
  /\ UNCHANGED <<config, detached, traffic>>

(* Mutant: the tokens are cancelled only after the tasks have been waited  *)
(* for.                                                                    *)
shutdown_CancelLate ==
  /\ phase = "up" /\ phase' = "stopping" /\ shutdown_tx' = "sent"
  /\ alive' = alive \ {"sfs"} /\ handle' = handle \ {"sfs"}
  /\ awaiting' = ShutdownOrder
  /\ UNCHANGED <<config, hook, detached, cancelled, traffic>>

shutdown ==
  /\ phase = "up" /\ phase' = "stopping"
  /\ shutdown_tx' = "sent" /\ cancelled' = TRUE
  /\ alive' = alive \ {"sfs"} /\ handle' = handle \ {"sfs"}
  /\ awaiting' = ShutdownOrder
  /\ UNCHANGED <<config, hook, detached, traffic>>

(* Wait for the next task there is a handle of; those of the mesh are      *)
(* aborted instead.                                                        *)
AwaitTask ==
  LET t == Head(awaiting) IN
  /\ phase = "stopping" /\ awaiting # <<>>
  /\ t \in handle \ AbortTasks => t \notin alive
  /\ alive' = IF t \in handle \cap AbortTasks THEN alive \ {t} ELSE alive
  /\ handle' = handle \ {t} /\ awaiting' = Tail(awaiting)
  /\ phase' = IF Tail(awaiting) = <<>> THEN "detach" ELSE phase
  /\ UNCHANGED <<config, hook, detached, shutdown_tx, cancelled, traffic>>

DetachHooks ==
  /\ phase = "detach" /\ phase' = "down" /\ hook' = FALSE
  /\ UNCHANGED <<config, alive, handle, detached, shutdown_tx, cancelled, awaiting, traffic>>

CompanionNext ==
  \/ boot \/ AttachHooks \/ EnsureCgroup \/ SpawnTasks \/ SpawnMesh \/ SpawnSfs
  \/ SpawnServers \/ BootFails \/ ClientsComeAndGo
  \/ shutdown \/ AwaitTask \/ DetachHooks
  \/ \E t \in AllTasks : WatchTaskEnds(t) \/ TokenTaskEnds(t) \/ TaskFails(t)
  \/ \E t \in DetachedTasks : SpawnDetached(t) \/ DetachedEnds(t)

-----------------------------------------------------------------------------
(* Every task that the daemon keeps the handle of runs under attached      *)
(* hooks, in whatever order they end, and a daemon that is down has none:  *)
(* shutdown forgets no handle, and what runs without the hooks is the      *)
(* sweep of expired tokens and the tasks in "detached", which shutdown     *)
(* has no hold of.                                                         *)
KeptTasksUnderHooks == ~hook => handle = {} /\ alive \subseteq {"expiry"}

(* Fairness: tasks get their turn, shutdown goes on when it can.           *)
CompanionFairness ==
  /\ WF_companionVars(\E t \in AllTasks : WatchTaskEnds(t) \/ TokenTaskEnds(t))
  /\ WF_companionVars(AwaitTask) /\ WF_companionVars(DetachHooks)

CompanionSpec == CompanionInit /\ [][CompanionNext]_companionVars /\ CompanionFairness

(* Shutdown ends, if the clients leave the servers and the bridge alone    *)
(* for once: no task waits for one that shutdown is yet to tell to stop.   *)
ShutdownEnds == <>[](~traffic) => (phase = "stopping" ~> phase = "down")
=============================================================================
