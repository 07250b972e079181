----------------------------- MODULE Membership -----------------------------
(***************************************************************************)
(* Who a node takes for a member of the mesh: the connections of           *)
(* context-memory/src/p2p_mesh.rs with their handshakes and read tasks,    *)
(* the table of senders, the known nodes, and the failure detector of      *)
(* swim.rs with its loop, as one node sees them.  The ping of the mesh is  *)
(* a stub that never answers (p2p_mesh.rs:199), so every round suspects    *)
(* the node it picks.                                                      *)
(***************************************************************************)
EXTENDS Naturals, FiniteSets

CONSTANTS Peers, BootPeers,
          MayStop,        \* bound: peers that may stop
          MaxConns        \* bound: connections in all

ASSUME MembershipAssumption ==
  /\ IsFiniteSet(Peers) /\ MaxConns \in Nat
  /\ BootPeers \subseteq Peers /\ MayStop \subseteq Peers

VARIABLES
  listener,       \* of the node: "accepting" or "ended"
  conn,           \* connections, each used once
  peers,          \* whose sender broadcasts use
  known_nodes,
  status,         \* members of the failure detector
  detector,       \* its loop, with the nodes it found dead in this round
  silent          \* peers that have stopped

memberVars == <<listener, conn, peers, known_nodes, status, detector, silent>>

Conns   == 1 .. MaxConns
NoConn  == 0
NoneYet == [pc |-> "none"]
ConnStates == {NoneYet} \cup
  [pc : {"shaking", "named", "acked", "open", "ending", "dropped", "closed"},
   peer : Peers, inbound : BOOLEAN]

MembershipTypeOK ==
  /\ listener \in {"accepting", "ended"}
  /\ conn \in [Conns -> ConnStates]
  /\ peers \in [Peers -> Conns \cup {NoConn}]
  /\ known_nodes \subseteq Peers
  /\ status \in [Peers -> {"Alive", "Suspect", "Dead", "Unknown"}]
  /\ detector \in [pc : {"sleep", "ping", "remove"}, dead : SUBSET Peers]
  /\ silent \subseteq Peers

MemberInit ==
  /\ listener = "accepting" /\ conn = [c \in Conns |-> NoneYet]
  /\ peers = [p \in Peers |-> NoConn] /\ known_nodes = {} /\ silent = {}
  /\ status = [p \in Peers |-> "Unknown"]
  /\ detector = [pc |-> "sleep", dead |-> {}]

NextConn(c) == conn[c] = NoneYet /\ \A d \in Conns : d < c => conn[d] # NoneYet
ConnAt(c, pc) == conn[c] # NoneYet /\ conn[c].pc = pc
ConnGoes(c, pc) == conn' = [conn EXCEPT ![c].pc = pc]

-----------------------------------------------------------------------------
(* The failure detector's own operations.                                  *)
record_ack(p) == status' = [status EXCEPT ![p] = "Alive"]
suspect(p)    == status' = [status EXCEPT ![p] = IF @ = "Alive" THEN "Suspect" ELSE @]
mark_dead(S)  == [p \in Peers |-> IF p \in S /\ status[p] # "Unknown" THEN "Dead" ELSE status[p]]

-----------------------------------------------------------------------------
(* accept waits ten seconds; when nobody came, the error ends the listener *)
(* for good.                                                               *)
accept(c, p) ==
  /\ listener = "accepting" /\ NextConn(c) /\ p \notin silent
  /\ conn' = [conn EXCEPT ![c] = [pc |-> "shaking", peer |-> p, inbound |-> TRUE]]
  /\ UNCHANGED <<listener, peers, known_nodes, status, detector, silent>>

accept_times_out ==
  /\ listener = "accepting" /\ listener' = "ended"
  /\ UNCHANGED <<conn, peers, known_nodes, status, detector, silent>>

(* To the bootstrap nodes, once, at start.                                 *)
connect_to_peer(c, p) ==
  /\ p \in BootPeers \ silent /\ NextConn(c)
  /\ \A d \in Conns : conn[d] # NoneYet => (conn[d].inbound \/ conn[d].peer # p)
  /\ conn' = [conn EXCEPT ![c] = [pc |-> "shaking", peer |-> p, inbound |-> FALSE]]
  /\ UNCHANGED <<listener, peers, known_nodes, status, detector, silent>>

(* The handshake of the peer is read: the node becomes known.              *)
handshake(c) ==
  /\ ConnAt(c, "shaking") /\ ConnGoes(c, "named")
  /\ known_nodes' = known_nodes \cup {conn[c].peer}
  /\ UNCHANGED <<listener, peers, status, detector, silent>>

(* It does not come, or is not authentic.                                  *)
handshake_fails(c) ==
  /\ ConnAt(c, "shaking") /\ ConnGoes(c, "closed")
  /\ UNCHANGED <<listener, peers, known_nodes, status, detector, silent>>

handshake_acks(c) ==
  /\ ConnAt(c, "named") /\ ConnGoes(c, "acked") /\ record_ack(conn[c].peer)
  /\ UNCHANGED <<listener, peers, known_nodes, detector, silent>>

(* The answer is written and the sender registered, in place of an older   *)
(* one; an answer that cannot be written leaves the node known and alive.  *)
register_sender(c) ==
  /\ ConnAt(c, "acked") /\ ConnGoes(c, "open")
  /\ peers' = [peers EXCEPT ![conn[c].peer] = c]
  /\ UNCHANGED <<listener, known_nodes, status, detector, silent>>

answer_fails(c) ==
  /\ ConnAt(c, "acked") /\ conn[c].inbound /\ ConnGoes(c, "closed")
  /\ UNCHANGED <<listener, peers, known_nodes, status, detector, silent>>

(* A line arrives: the sender is alive, whatever the line is; a list of    *)
(* neighbours or a telemetry makes others known.                           *)
on_message(c) ==
  /\ ConnAt(c, "open") /\ conn[c].peer \notin silent /\ record_ack(conn[c].peer)
  /\ \E told \in SUBSET Peers : known_nodes' = known_nodes \cup told
  /\ UNCHANGED <<listener, conn, peers, detector, silent>>

(* The end of the connection, or nothing for thirty seconds.               *)
read_ends(c) ==
  /\ ConnAt(c, "open") /\ ConnGoes(c, "ending") /\ suspect(conn[c].peer)
  /\ UNCHANGED <<listener, peers, known_nodes, detector, silent>>

drop_sender(c) ==
  /\ ConnAt(c, "ending") /\ ConnGoes(c, "dropped")
  /\ peers' = [peers EXCEPT ![conn[c].peer] = NoConn]
  /\ UNCHANGED <<listener, known_nodes, status, detector, silent>>

read_task_done(c) ==
  /\ ConnAt(c, "dropped") /\ ConnGoes(c, "closed") /\ status' = mark_dead({conn[c].peer})
  /\ UNCHANGED <<listener, peers, known_nodes, detector, silent>>

-----------------------------------------------------------------------------
(* A round: the suspects that have been so for long enough are dead, ...   *)
ping_round ==
  /\ detector.pc = "sleep"
  /\ \E dead \in SUBSET {p \in Peers : status[p] = "Suspect"} :
       /\ detector' = [pc |-> "ping", dead |-> dead]
       /\ status' = mark_dead(dead)
  /\ UNCHANGED <<listener, conn, peers, known_nodes, silent>>

AliveNodes == {p \in Peers : status[p] = "Alive"}

(* Mutant: without another node to probe through, nobody is suspected.     *)
ping_Probed(p) ==
  /\ detector.pc = "ping" /\ p \in AliveNodes /\ AliveNodes # {p}
  /\ suspect(p)
  /\ detector' = [detector EXCEPT !.pc = "remove"]
  /\ UNCHANGED <<listener, conn, peers, known_nodes, silent>>

(* ... and one of those alive, chosen at random, is pinged: neither it nor *)
(* a probe through others ever answers.                                    *)
ping(p) ==
  /\ detector.pc = "ping" /\ p \in AliveNodes
  /\ suspect(p)
  /\ detector' = [detector EXCEPT !.pc = "remove"]
  /\ UNCHANGED <<listener, conn, peers, known_nodes, silent>>

ping_nobody ==
  /\ detector.pc = "ping" /\ AliveNodes = {}
  /\ detector' = [detector EXCEPT !.pc = "remove"]
  /\ UNCHANGED <<listener, conn, peers, known_nodes, status, silent>>

(* The dead of this round are removed, also when they were heard since;    *)
(* their connections go on.                                                *)
remove_node(p) ==
  /\ detector.pc = "remove" /\ p \in detector.dead
  /\ detector' = [detector EXCEPT !.dead = @ \ {p}]
  /\ status' = mark_dead({p})
  /\ known_nodes' = known_nodes \ {p}
  /\ peers' = [peers EXCEPT ![p] = NoConn]
  /\ UNCHANGED <<listener, conn, silent>>

round_over ==
  /\ detector.pc = "remove" /\ detector.dead = {}
  /\ detector' = [detector EXCEPT !.pc = "sleep"]
  /\ UNCHANGED <<listener, conn, peers, known_nodes, status, silent>>

PeerStops(p) ==
  /\ p \in MayStop \ silent /\ silent' = silent \cup {p}
  /\ UNCHANGED <<listener, conn, peers, known_nodes, status, detector>>

Connecting(c) ==
  \/ handshake(c) \/ handshake_fails(c) \/ handshake_acks(c)
  \/ register_sender(c) \/ answer_fails(c)
Disconnecting(c) == read_ends(c) \/ drop_sender(c) \/ read_task_done(c)
Detecting == ping_round \/ ping_nobody \/ (\E p \in Peers : remove_node(p)) \/ round_over

MemberNext ==
  \/ accept_times_out \/ Detecting
  \/ \E p \in Peers : ping(p) \/ PeerStops(p)
  \/ \E c \in Conns : \/ Connecting(c) \/ Disconnecting(c) \/ on_message(c)
                      \/ \E p \in Peers : accept(c, p) \/ connect_to_peer(c, p)

-----------------------------------------------------------------------------
(* Fairness: the tasks of a connection and the loop of the detector run;   *)
(* a read that gets nothing ends in thirty seconds; a node that is alive   *)
(* in ever so many rounds is picked in one.                                *)
MemberFairness ==
  /\ WF_memberVars(Detecting)
  /\ \A p \in Peers : SF_memberVars(ping(p))
  /\ \A c \in Conns :
       /\ WF_memberVars(Connecting(c))
       /\ WF_memberVars(ConnAt(c, "open") /\ conn[c].peer \in silent /\ read_ends(c))
       /\ WF_memberVars(drop_sender(c) \/ read_task_done(c))

MemberSpec == MemberInit /\ [][MemberNext]_memberVars /\ MemberFairness

(* A broadcast goes over a connection that is open, or whose end has just  *)
(* been read, and to the peer it is meant for: whatever connections of a   *)
(* peer replace one another, and whatever round of the detector removes    *)
(* it, no sender of a closed connection is kept.                           *)
SendersAreOpen ==
  \A p \in Peers : peers[p] # NoConn =>
    /\ ConnAt(peers[p], "open") \/ ConnAt(peers[p], "ending")
    /\ conn[peers[p]].peer = p

(* Completeness of the detector: a peer that has stopped is not taken for  *)
(* alive for ever: neither connections that end one after the other nor a  *)
(* handshake that was never answered keep it.                              *)
StoppedIsNoticed == \A p \in Peers : (p \in silent) ~> [](status[p] # "Alive")
=============================================================================
