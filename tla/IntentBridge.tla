---------------------------- MODULE IntentBridge ----------------------------
(***************************************************************************)
(* The bridge that carries delegated intents from node to node             *)
(* (kernel-companion/src/intent_bridge.rs), with the telemetry task of the *)
(* companion that keeps its table of peers, and the retries around the     *)
(* publication of the telemetry (retry_telemetry.rs).  A node's forwarder  *)
(* takes intents off the bus one by one: connect, write the line, wait for *)
(* the acknowledgement.                                                    *)
(***************************************************************************)
EXTENDS Naturals, Sequences, FiniteSets

CONSTANTS Nodes, Delegations,
          MaxQueued,           \* bound: intents on the way in a forwarder's bus
          retry_max_attempts

ASSUME BridgeAssumption ==
  /\ IsFiniteSet(Nodes)
  /\ MaxQueued \in Nat /\ retry_max_attempts \in Nat

VARIABLES
  peers,          \* the address a node knows for another
  outbound,       \* delegated intents the forwarder has yet to receive
  forwarder,      \* its task, with the intent it is carrying
  wire,           \* lines and acknowledgements under way
  accepted,       \* where an intent has been put on the bus
  delegated,      \* target of the intents delegated so far
  publishing,     \* attempts left of the telemetry that is being published
  remote_nodes    \* the nodes the scheduler may delegate to

bridgeVars == <<peers, outbound, forwarder, wire, accepted, delegated, publishing,
                remote_nodes>>
linkVars   == <<peers, publishing, remote_nodes>>

Waiting   == [pc |-> "waiting"]
Stopped   == [pc |-> "stopped"]
Carrying(pc, i, addr) == [pc |-> pc, intent |-> i, addr |-> addr]
Forwarders == {Waiting, Stopped}
              \cup [pc : {"connecting", "acked"}, intent : Delegations, addr : Nodes]
Lines      == [from : Nodes, to : Nodes, intent : Delegations, ack : {"none", "yes", "no"}]

BridgeTypeOK ==
  /\ DOMAIN peers = Nodes
  /\ \A n \in Nodes : DOMAIN peers[n] \subseteq Nodes /\ \A m \in DOMAIN peers[n] : peers[n][m] \in Nodes
  /\ outbound \in [Nodes -> Seq(Delegations)]
  /\ forwarder \in [Nodes -> Forwarders]
  /\ wire \subseteq Lines
  /\ accepted \in [Delegations -> SUBSET Nodes]
  /\ delegated \in [Delegations -> SUBSET Nodes]
  /\ publishing \in [Nodes -> 0 .. retry_max_attempts + 1]
  /\ remote_nodes \in [Nodes -> SUBSET Nodes]

(* The configured peers are known to the bridge and to the scheduler.      *)
BridgeInit ==
  /\ peers = [n \in Nodes |-> [m \in Nodes \ {n} |-> m]]
  /\ outbound = [n \in Nodes |-> <<>>]
  /\ forwarder = [n \in Nodes |-> Waiting]
  /\ wire = {}
  /\ accepted = [i \in Delegations |-> {}]
  /\ delegated = [i \in Delegations |-> {}]
  /\ publishing = [n \in Nodes |-> 0]
  /\ remote_nodes = [n \in Nodes |-> Nodes \ {n}]

-----------------------------------------------------------------------------
(* The scheduler of node n delegates an intent to a node it knows.         *)
Delegate(n, i) ==
  \E m \in remote_nodes[n] :
    /\ delegated[i] = {} /\ Len(outbound[n]) < MaxQueued
    /\ delegated' = [delegated EXCEPT ![i] = {m}]
    /\ outbound' = [outbound EXCEPT ![n] = Append(@, i)]
    /\ UNCHANGED <<linkVars, forwarder, wire, accepted>>

(* The forwarder receives it; an unknown peer is an error, and every error *)
(* of forward_intent ends the forwarder's loop.                            *)
start_forwarder(n) ==
  LET i == Head(outbound[n])
      target == CHOOSE m \in delegated[i] : TRUE
  IN
  /\ forwarder[n] = Waiting /\ outbound[n] # <<>>
  /\ outbound' = [outbound EXCEPT ![n] = Tail(@)]
  /\ forwarder' = [forwarder EXCEPT ![n] =
                     IF target \in DOMAIN peers[n]
                     THEN Carrying("connecting", i, peers[n][target]) ELSE Stopped]
  /\ UNCHANGED <<linkVars, wire, accepted, delegated>>

Sending(n, pc) == forwarder[n] \notin {Waiting, Stopped} /\ forwarder[n].pc = pc

(* The line is written.                                                    *)
Write(n) ==
  LET f == forwarder[n] IN
  /\ Sending(n, "connecting")
  /\ wire' = wire \cup {[from |-> n, to |-> f.addr, intent |-> f.intent, ack |-> "none"]}
  /\ forwarder' = [forwarder EXCEPT ![n].pc = "acked"]
  /\ UNCHANGED <<linkVars, outbound, accepted, delegated>>

(* Connecting, writing or waiting for the answer fails or times out.       *)
ForwardFails(n) ==
  /\ Sending(n, "connecting") \/ Sending(n, "acked")
  /\ forwarder' = [forwarder EXCEPT ![n] = Stopped]
  /\ UNCHANGED <<linkVars, outbound, wire, accepted, delegated>>

(* Mutant: the receiving node does not compare the target with its name.   *)
handle_inbound_connection_AnyTarget(l) ==
  /\ l \in wire /\ l.ack = "none"
  /\ accepted' = [accepted EXCEPT ![l.intent] = @ \cup {l.to}]
  /\ wire' = (wire \ {l}) \cup {[l EXCEPT !.ack = "yes"]}
  /\ UNCHANGED <<linkVars, outbound, forwarder, delegated>>

(* The receiving node: an intent for another node is refused; otherwise it *)
(* is published, and when that fails the connection ends without answer.   *)
handle_inbound_connection(l) ==
  /\ l \in wire /\ l.ack = "none"
  /\ IF l.to \in delegated[l.intent]
     THEN \/ /\ accepted' = [accepted EXCEPT ![l.intent] = @ \cup {l.to}]
             /\ wire' = (wire \ {l}) \cup {[l EXCEPT !.ack = "yes"]}
          \/ wire' = wire \ {l} /\ UNCHANGED accepted
     ELSE /\ wire' = (wire \ {l}) \cup {[l EXCEPT !.ack = "no"]}
          /\ UNCHANGED accepted
  /\ UNCHANGED <<linkVars, outbound, forwarder, delegated>>

LineLost(l) ==
  /\ l \in wire /\ wire' = wire \ {l}
  /\ UNCHANGED <<linkVars, outbound, forwarder, accepted, delegated>>

ReceiveAck(l) ==
  /\ l \in wire /\ l.ack # "none"
  /\ wire' = wire \ {l}
  /\ forwarder' = [forwarder EXCEPT ![l.from] =
                     IF Sending(l.from, "acked") /\ forwarder[l.from].intent = l.intent
                     THEN IF l.ack = "yes" THEN Waiting ELSE Stopped
                     ELSE @]
  /\ UNCHANGED <<linkVars, outbound, accepted, delegated>>

-----------------------------------------------------------------------------
(* The telemetry task of a node, once in every interval. *)

(* retry_with_backoff: one attempt and so many retries.                    *)
StartPublish(n) ==
  /\ publishing[n] = 0
  /\ publishing' = [publishing EXCEPT ![n] = retry_max_attempts + 1]
  /\ UNCHANGED <<peers, remote_nodes, outbound, forwarder, wire, accepted, delegated>>

AttemptFails(n) ==
  /\ publishing[n] > 1
  /\ publishing' = [publishing EXCEPT ![n] = @ - 1]
  /\ UNCHANGED <<peers, remote_nodes, outbound, forwarder, wire, accepted, delegated>>

(* After the last attempt, whatever its result: the peers of the mesh that *)
(* are alive and have sent telemetry become known, at the address they     *)
(* announce or one inferred from it; the nodes that are not alive are      *)
(* forgotten, the configured ones included.                                *)
RefreshPeers(n) ==
  \E alive \in SUBSET (Nodes \ {n}) : \E told \in SUBSET alive : \E address \in [told -> Nodes] :
    /\ publishing[n] > 0
    /\ publishing' = [publishing EXCEPT ![n] = 0]
    /\ remote_nodes' = [remote_nodes EXCEPT ![n] = (@ \cup told) \cap alive]
    /\ peers' = [peers EXCEPT ![n] =
          [m \in (DOMAIN peers[n] \cup told) \ (remote_nodes[n] \ alive) |->
             IF m \in told THEN address[m] ELSE peers[n][m]]]
    /\ UNCHANGED <<outbound, forwarder, wire, accepted, delegated>>

BridgeNext ==
  \/ \E n \in Nodes : \/ \E i \in Delegations : Delegate(n, i)
                      \/ start_forwarder(n) \/ Write(n) \/ ForwardFails(n)
                      \/ StartPublish(n) \/ AttemptFails(n) \/ RefreshPeers(n)
  \/ \E l \in wire : handle_inbound_connection(l) \/ LineLost(l) \/ ReceiveAck(l)

-----------------------------------------------------------------------------
(* A delegated intent is put on the bus of the node it was delegated to    *)
(* and of no other, even when the table of peers has a stale address, and  *)
(* no second copy of it is ever on its way: delegation is at most once.    *)
DelegatedAtMostOnce ==
  /\ \A i \in Delegations : accepted[i] \subseteq delegated[i]
  /\ \A l \in wire : l.ack = "none" => l.intent \notin {i \in Delegations : accepted[i] # {}}

(* Fairness: the forwarder is a task of its own.                           *)
BridgeFairness ==
  \A n \in Nodes :
    /\ WF_bridgeVars(start_forwarder(n)) /\ WF_bridgeVars(Write(n) \/ ForwardFails(n))

BridgeSpec == BridgeInit /\ [][BridgeNext]_bridgeVars /\ BridgeFairness

(* The bridge "retries with a timeout" (intent_bridge.rs:191): what is     *)
(* delegated is at least carried as far as the connection to its peer.     *)
DelegatedIsCarried ==
  \A n \in Nodes, i \in Delegations :
    (\E k \in DOMAIN outbound[n] : outbound[n][k] = i)
    ~> (forwarder[n] \notin {Waiting, Stopped} /\ forwarder[n].intent = i)
=============================================================================
