----------------------------- MODULE Delegation -----------------------------
(***************************************************************************)
(* Spawning across nodes (agent-scheduler/src/scheduler.rs): the router of *)
(* a node takes intents off its bus one by one.  A spawn intent becomes an *)
(* agent here, or, when the node is overloaded, is published again for a   *)
(* node of the routing snapshot, with an id this node has chosen.  Every   *)
(* subscriber of a bus sees what is published on it, the publisher's own   *)
(* router included.  Lifecycle operations name their agent by its bare id. *)
(* The bridge that carries intents between buses is IntentBridge's; here a *)
(* delegated intent reaches the other bus at most once.                    *)
(***************************************************************************)
EXTENDS Naturals, FiniteSets, Functions

CONSTANTS
  SchedulerNodes, Spawns,   \* the nodes, and the spawn intents callers submit
  NoNode,                   \* no META_TARGET_NODE in the metadata
  MeshLinks,                \* pairs <<n, m>>: the telemetry of m reaches n
  Trust,                    \* the trust score the mesh keeps for each node
  max_local_agents,         \* for each node
  min_remote_trust, overload_threshold_percent,
  MaxAgentId,               \* bound on allocated ids
  MaxLifecycle              \* bound on remote lifecycle operations

ASSUME DelegationAssumption ==
  /\ MeshLinks \subseteq {link \in SchedulerNodes \X SchedulerNodes : link[1] # link[2]}
  /\ Trust \in [SchedulerNodes -> Nat] /\ NoNode \notin SchedulerNodes
  /\ max_local_agents \in [SchedulerNodes -> Nat]
  /\ {min_remote_trust, overload_threshold_percent, MaxAgentId, MaxLifecycle} \subseteq Nat

VARIABLES
  agents_of,       \* the agents of a node, by id
  id_counter,      \* next_agent_id
  node_snapshot,   \* remote_nodes: the free slots a node has last seen of others
  spawn_bus,       \* intents on a node's bus that its router has not taken
  router,          \* what a node's router is doing
  submitted,       \* intents callers have submitted
  issued,          \* intents whose agent's token has been issued
  lifecycle_sent,  \* remote lifecycle operations sent so far
  spawned          \* history: the nodes and ids an intent became an agent at

delegationVars == <<agents_of, id_counter, node_snapshot, spawn_bus, router, submitted,
                    issued, lifecycle_sent, spawned>>

Listening == [pc |-> "listening"]
Routing(pc, i, id) == [pc |-> pc, intent |-> i, id |-> id]

\* delegated_agent_id and META_TARGET_NODE are set by the node that delegates.
SpawnIntentTo(i, id, target) == [kind |-> "spawn", intent |-> i, id |-> id, target |-> target]
LifecycleTo(op, id, target)  == [kind |-> "lifecycle", op |-> op, id |-> id, target |-> target]

DelegationInit ==
  /\ agents_of = [n \in SchedulerNodes |-> <<>>]
  /\ id_counter = [n \in SchedulerNodes |-> 1]
  /\ node_snapshot = [n \in SchedulerNodes |-> <<>>]
  /\ spawn_bus = [n \in SchedulerNodes |-> {}]
  /\ router = [n \in SchedulerNodes |-> Listening]
  /\ submitted = {} /\ issued = {}
  /\ lifecycle_sent = 0
  /\ spawned = [i \in Spawns |-> {}]

AgentsAt(n) == DOMAIN agents_of[n]
Slots(n) == IF Cardinality(AgentsAt(n)) >= max_local_agents[n] THEN 0
            ELSE max_local_agents[n] - Cardinality(AgentsAt(n))

Routed(n, state) == router' = [router EXCEPT ![n] = state]
Insert(f, key, value) == [x \in DOMAIN f \cup {key} |-> IF x = key THEN value ELSE f[x]]

-----------------------------------------------------------------------------
(* The snapshot of other nodes.                                            *)

\* The telemetry of m has reached n.
upsert_remote_node(n, m) ==
  /\ <<n, m>> \in MeshLinks
  /\ node_snapshot' = [node_snapshot EXCEPT ![n] = Insert(@, m, Slots(m))]
  /\ UNCHANGED <<agents_of, id_counter, spawn_bus, router, submitted, issued,
                 lifecycle_sent, spawned>>

\* n's mesh no longer lists m among the active peers.
remove_remote_node(n, m) ==
  /\ m \in DOMAIN node_snapshot[n]
  /\ node_snapshot' = [node_snapshot EXCEPT ![n] = Restrict(@, DOMAIN @ \ {m})]
  /\ UNCHANGED <<agents_of, id_counter, spawn_bus, router, submitted, issued,
                 lifecycle_sent, spawned>>

-----------------------------------------------------------------------------
(* A spawn intent is routed.                                               *)

submit_intent(n, i) ==
  /\ i \notin submitted
  /\ submitted' = submitted \cup {i}
  /\ spawn_bus' = [spawn_bus EXCEPT ![n] = @ \cup {SpawnIntentTo(i, 0, NoNode)}]
  /\ UNCHANGED <<agents_of, id_counter, node_snapshot, router, issued, lifecycle_sent, spawned>>

\* A bug a refactoring could bring: intents for other nodes are not told apart.
ForUs_Anyone(n, target) == TRUE

ForUs(n, target) == target \in {n, NoNode}

\* A node without room for any agent delegates every spawn.
is_overloaded(n) ==
  \/ max_local_agents[n] = 0
  \/ Cardinality(AgentsAt(n)) * 100 >= max_local_agents[n] * overload_threshold_percent

should_spawn_locally(n, target) == target = n \/ (target = NoNode /\ ~is_overloaded(n))

\* Nodes announce no capabilities, so that each supports every workload; the
\* telemetry of n itself is never put into its own snapshot.
Candidates(n) ==
  {m \in DOMAIN node_snapshot[n] : Trust[m] >= min_remote_trust /\ node_snapshot[n][m] > 0}

\* The most trusted, then the one with most slots; the map gives ties any order.
select_remote_node(n) ==
  {m \in Candidates(n) :
     \A k \in Candidates(n) :
       \/ Trust[m] > Trust[k]
       \/ Trust[m] = Trust[k] /\ node_snapshot[n][m] >= node_snapshot[n][k]}

Take(n, message) ==
  /\ router[n] = Listening
  /\ message \in spawn_bus[n]
  /\ spawn_bus' = [spawn_bus EXCEPT ![n] = @ \ {message}]

\* An intent for another node is ignored.
Ignore(n) ==
  /\ \E message \in spawn_bus[n] : ~ForUs(n, message.target) /\ Take(n, message)
  /\ UNCHANGED <<agents_of, id_counter, node_snapshot, router, submitted, issued,
                 lifecycle_sent, spawned>>

\* The load is looked at, and the id is the delegating node's or a fresh one.
Decide(n) ==
  \E message \in spawn_bus[n] :
    /\ message.kind = "spawn" /\ ForUs(n, message.target)
    /\ message.id = 0 => id_counter[n] <= MaxAgentId
    /\ Take(n, message)
    /\ LET id == IF message.id = 0 THEN id_counter[n] ELSE message.id
           pc == IF should_spawn_locally(n, message.target) THEN "spawning" ELSE "delegating"
       IN  Routed(n, Routing(pc, message.intent, id))
    /\ id_counter' = [id_counter EXCEPT ![n] = IF message.id = 0 THEN @ + 1 ELSE @]
    /\ UNCHANGED <<agents_of, node_snapshot, submitted, issued, lifecycle_sent, spawned>>

\* On the node's own bus, and by the bridge on the other's.  An intent the
\* bridge or a full bus loses is one that is never taken.
Publish(n, m, message) ==
  spawn_bus' = [k \in SchedulerNodes |->
                  IF k \in {n, m} THEN spawn_bus[k] \cup {message} ELSE spawn_bus[k]]

delegate_spawn(n) ==
  /\ router[n].pc = "delegating"
  /\ \E m \in select_remote_node(n) :
       Publish(n, m, SpawnIntentTo(router[n].intent, router[n].id, m))
  /\ Routed(n, Listening)
  /\ UNCHANGED <<agents_of, id_counter, node_snapshot, submitted, issued, lifecycle_sent, spawned>>

\* No node is eligible: the intent is lost, and so is the id.
NoEligibleRemoteNode(n) ==
  /\ router[n].pc = "delegating" /\ select_remote_node(n) = {}
  /\ Routed(n, Listening)
  /\ UNCHANGED <<agents_of, id_counter, node_snapshot, spawn_bus, submitted, issued,
                 lifecycle_sent, spawned>>

\* An id that is taken, by an agent of this node or of another, ends the intent.
spawn_agent_here(n) ==
  /\ router[n].pc = "spawning"
  /\ IF router[n].id \in AgentsAt(n)
     THEN Routed(n, Listening) /\ UNCHANGED <<agents_of, spawned>>
     ELSE /\ agents_of' = [agents_of EXCEPT ![n] =
                             Insert(@, router[n].id,
                                    [intent |-> router[n].intent, state |-> "Creating", tokens |-> {}])]
          /\ spawned' = [spawned EXCEPT ![router[n].intent] = @ \cup {<<n, router[n].id>>}]
          /\ Routed(n, [router[n] EXCEPT !.pc = "granting"])
  /\ UNCHANGED <<id_counter, node_snapshot, spawn_bus, submitted, issued, lifecycle_sent>>

-----------------------------------------------------------------------------
(* grant_capability: the agent is looked up, the token is issued while no  *)
(* lock is held, and the agent with that id gets it, if there is one.      *)

issue_token_of(n) ==
  /\ router[n].pc = "granting"
  /\ IF router[n].id \in AgentsAt(n)
     THEN issued' = issued \cup {router[n].intent} /\ Routed(n, [router[n] EXCEPT !.pc = "issued"])
     ELSE UNCHANGED issued /\ Routed(n, Listening)
  /\ UNCHANGED <<agents_of, id_counter, node_snapshot, spawn_bus, submitted,
                 lifecycle_sent, spawned>>

PushToken(n) ==
  /\ router[n].pc = "issued"
  /\ agents_of' = IF router[n].id \in AgentsAt(n)
                  THEN [agents_of EXCEPT ![n][router[n].id].tokens = @ \cup {router[n].intent}]
                  ELSE agents_of
  /\ Routed(n, Listening)
  /\ UNCHANGED <<id_counter, node_snapshot, spawn_bus, submitted, issued, lifecycle_sent, spawned>>

-----------------------------------------------------------------------------
(* Lifecycle operations, of this node or sent to another.                  *)

\* What pause_agent, resume_agent and terminate_agent leave of the table.
AfterLifecycle(op, f, id) ==
  CASE op = "terminate" -> Restrict(f, DOMAIN f \ {id})
    [] op = "pause" /\ id \in DOMAIN f /\ f[id].state = "Running" -> [f EXCEPT ![id].state = "Paused"]
    [] op = "resume" /\ id \in DOMAIN f /\ f[id].state = "Paused" -> [f EXCEPT ![id].state = "Running"]
    [] OTHER -> f

LifecycleOps == {"pause", "resume", "terminate", "status"}

\* remote_pause_agent and its like: the caller names an agent of another node,
\* whose id may be another agent's when the intent is handled.
send_lifecycle_intent(n, m, op, id) ==
  /\ <<n, m>> \in MeshLinks
  /\ id \in AgentsAt(m)
  /\ lifecycle_sent < MaxLifecycle
  /\ lifecycle_sent' = lifecycle_sent + 1
  /\ Publish(n, m, LifecycleTo(op, id, m))
  /\ UNCHANGED <<agents_of, id_counter, node_snapshot, router, submitted, issued, spawned>>

handle_lifecycle_intent(n) ==
  /\ \E message \in spawn_bus[n] :
       /\ message.kind = "lifecycle" /\ ForUs(n, message.target)
       /\ Take(n, message)
       /\ agents_of' = [agents_of EXCEPT ![n] = AfterLifecycle(message.op, @, message.id)]
  /\ UNCHANGED <<id_counter, node_snapshot, router, submitted, issued, lifecycle_sent, spawned>>

terminate_here(n) ==
  /\ \E id \in AgentsAt(n) :
       agents_of' = [agents_of EXCEPT ![n] = AfterLifecycle("terminate", @, id)]
  /\ UNCHANGED <<id_counter, node_snapshot, spawn_bus, router, submitted, issued,
                 lifecycle_sent, spawned>>

\* The compute scheduler has found a place for a created agent.
Placed(n) ==
  /\ \E id \in AgentsAt(n) :
       /\ agents_of[n][id].state = "Creating"
       /\ agents_of' = [agents_of EXCEPT ![n][id].state = "Running"]
  /\ UNCHANGED <<id_counter, node_snapshot, spawn_bus, router, submitted, issued,
                 lifecycle_sent, spawned>>

DelegationNext ==
  \E n \in SchedulerNodes :
    \/ \E m \in SchedulerNodes : upsert_remote_node(n, m) \/ remove_remote_node(n, m)
    \/ \E i \in Spawns : submit_intent(n, i)
    \/ Ignore(n) \/ Decide(n) \/ delegate_spawn(n) \/ NoEligibleRemoteNode(n)
    \/ spawn_agent_here(n) \/ issue_token_of(n) \/ PushToken(n)
    \/ \E m \in SchedulerNodes, op \in LifecycleOps, id \in 1..MaxAgentId :
         send_lifecycle_intent(n, m, op, id)
    \/ handle_lifecycle_intent(n) \/ terminate_here(n) \/ Placed(n)

DelegationSpec == DelegationInit /\ [][DelegationNext]_delegationVars

-----------------------------------------------------------------------------
DelegationTypeOK ==
  \A n \in SchedulerNodes :
    /\ AgentsAt(n) \subseteq 1..MaxAgentId
    /\ \A id \in AgentsAt(n) :
         /\ agents_of[n][id].intent \in Spawns
         /\ agents_of[n][id].state \in {"Creating", "Running", "Paused"}
         /\ agents_of[n][id].tokens \subseteq issued
    /\ id_counter[n] \in 1..MaxAgentId + 1
    /\ DOMAIN node_snapshot[n] \subseteq SchedulerNodes \ {n}
    /\ router[n].pc \in {"listening", "spawning", "delegating", "granting", "issued"}

\* A spawn intent becomes an agent at most once, on one node: not here and
\* where it was delegated, not on two nodes, whatever the nodes have seen of
\* each other's load (the delegating router meets its own intent again on its bus).
SpawnedOnce ==
  \A i \in Spawns : Cardinality(spawned[i]) <= 1

\* An agent a node says it has delegated starts on the node it names.
\* (Not so: the ids of two nodes collide, and the receiver refuses a taken id.)
DelegatedStarts ==
  \A n \in SchedulerNodes :
    router[n].pc = "spawning" => router[n].id \notin AgentsAt(n)

=============================================================================
