---------------------------- MODULE Nodes_proofs ----------------------------
(***************************************************************************)
(* Proofs about what the nodes of a mesh tell each other, for every set of *)
(* nodes, readers, nonces and intents: IntentBridge, Delegation, MeshAuth  *)
(* and MeshRecords.                                                        *)
(***************************************************************************)
EXTENDS IntentBridge, Delegation, MeshAuth, MeshRecords, FiniteSetTheorems, TLAPS

(***************************************************************************)
(* IntentBridge, for every length of the queues and any loss of lines and  *)
(* acknowledgements: an intent is at one place of its way at a time, and   *)
(* its way ends on one bus.                                                *)
(***************************************************************************)
Connecting(n, i) == Sending(n, "connecting") /\ forwarder[n].intent = i
Unanswered(i)    == {l \in wire : l.intent = i /\ l.ack = "none"}
QueuedAt(n, k, i) == k \in 1 .. Len(outbound[n]) /\ outbound[n][k] = i

(* The stages of the way of an intent: a bus queue, a forwarder, a line,   *)
(* the bus of the target.  At each it is once, and at none of the others.  *)
QueuedOnce ==
  \A n, m \in Nodes : \A i \in Delegations : \A k, j \in Nat :
    QueuedAt(n, k, i) /\ QueuedAt(m, j, i) => n = m /\ k = j

QueuedOnly ==
  \A n \in Nodes : \A i \in Delegations : \A k \in Nat : QueuedAt(n, k, i) =>
    (\A m \in Nodes : ~Connecting(m, i)) /\ Unanswered(i) = {} /\ accepted[i] = {}

CarriedOnce ==
  \A n, m \in Nodes : \A i \in Delegations : Connecting(n, i) /\ Connecting(m, i) => n = m

CarriedOnly ==
  \A n \in Nodes : \A i \in Delegations :
    Connecting(n, i) => Unanswered(i) = {} /\ accepted[i] = {}

WiredOnce == \A i \in Delegations : \A l, m \in Unanswered(i) : l = m

WiredOnly == \A i \in Delegations : Unanswered(i) # {} => accepted[i] = {}

(* Before it is delegated it is nowhere.                                   *)
NotYet ==
  \A i \in Delegations : delegated[i] = {} =>
    /\ \A n \in Nodes : ~Connecting(n, i) /\ \A k \in Nat : ~QueuedAt(n, k, i)
    /\ Unanswered(i) = {} /\ accepted[i] = {}

OnTarget == \A i \in Delegations : accepted[i] \subseteq delegated[i]

BridgeInv == /\ BridgeTypeOK
        /\ QueuedOnce /\ QueuedOnly /\ CarriedOnce /\ CarriedOnly /\ WiredOnce /\ WiredOnly
        /\ NotYet /\ OnTarget

-----------------------------------------------------------------------------
LEMMA InvariantSuffices == BridgeInv => DelegatedAtMostOnce
<1> SUFFICES ASSUME BridgeInv PROVE DelegatedAtMostOnce
  OBVIOUS
<1>1. \A l \in wire : l.intent \in Delegations
  BY DEF BridgeInv, BridgeTypeOK, Lines
<1>2. QED
  BY <1>1 DEF BridgeInv, OnTarget, WiredOnly, Unanswered, DelegatedAtMostOnce

(* Type correctness, one step.                                             *)
LEMMA BridgeTyped ==
  ASSUME BridgeTypeOK, [BridgeNext]_bridgeVars
  PROVE  BridgeTypeOK'
<1> USE BridgeAssumption DEF BridgeTypeOK, linkVars
<1>1. ASSUME NEW n \in Nodes, NEW i \in Delegations, Delegate(n, i) PROVE BridgeTypeOK'
  <2>1. PICK m \in remote_nodes[n] :
          /\ delegated' = [delegated EXCEPT ![i] = {m}]
          /\ outbound' = [outbound EXCEPT ![n] = Append(@, i)]
          /\ UNCHANGED <<linkVars, forwarder, wire, accepted>>
    BY <1>1 DEF Delegate
  <2>2. m \in Nodes /\ Append(outbound[n], i) \in Seq(Delegations)
    OBVIOUS
  <2>3. QED
    BY <2>1, <2>2
<1>2. ASSUME NEW n \in Nodes, start_forwarder(n) PROVE BridgeTypeOK'
  <2>1. outbound[n] \in Seq(Delegations) /\ outbound[n] # <<>>
    BY <1>2 DEF start_forwarder
  <2>2. Head(outbound[n]) \in Delegations /\ Tail(outbound[n]) \in Seq(Delegations)
    BY <2>1
  <2>3. \A m \in DOMAIN peers[n] : Carrying("connecting", Head(outbound[n]), peers[n][m]) \in Forwarders
    BY <2>2 DEF Carrying, Forwarders
  <2>4. forwarder' \in [Nodes -> Forwarders]
    BY <1>2, <2>3 DEF start_forwarder, Forwarders
  <2>5. outbound' \in [Nodes -> Seq(Delegations)]
    BY <1>2, <2>2 DEF start_forwarder
  <2>6. QED
    BY <1>2, <2>4, <2>5 DEF start_forwarder
<1>3. ASSUME NEW n \in Nodes, Write(n) PROVE BridgeTypeOK'
  <2>1. forwarder[n] \in [pc : {"connecting", "acked"}, intent : Delegations, addr : Nodes]
    BY <1>3 DEF Write, Sending, Forwarders
  <2>2. [forwarder[n] EXCEPT !.pc = "acked"] \in Forwarders
    BY <2>1 DEF Forwarders
  <2>3. [from |-> n, to |-> forwarder[n].addr, intent |-> forwarder[n].intent, ack |-> "none"] \in Lines
    BY <2>1 DEF Lines
  <2>4. QED
    BY <1>3, <2>2, <2>3 DEF Write
<1>4. ASSUME NEW n \in Nodes, ForwardFails(n) PROVE BridgeTypeOK'
  BY <1>4 DEF ForwardFails, Forwarders
<1>5. ASSUME NEW n \in Nodes, StartPublish(n) \/ AttemptFails(n) PROVE BridgeTypeOK'
  <2>1. publishing' \in [Nodes -> 0 .. retry_max_attempts + 1]
    <3>1. CASE StartPublish(n)
      BY <3>1 DEF StartPublish
    <3>2. CASE AttemptFails(n)
      <4>1. publishing[n] - 1 \in 0 .. retry_max_attempts + 1
        BY <3>2 DEF AttemptFails
      <4>2. QED
        BY <3>2, <4>1 DEF AttemptFails
    <3>3. QED
      BY <1>5, <3>1, <3>2
  <2>2. UNCHANGED <<peers, remote_nodes, outbound, forwarder, wire, accepted, delegated>>
    <3>1. CASE StartPublish(n)
      BY <3>1 DEF StartPublish
    <3>2. CASE AttemptFails(n)
      BY <3>2 DEF AttemptFails
    <3>3. QED
      BY <1>5, <3>1, <3>2
  <2>3. QED
    BY <2>1, <2>2
<1>6. ASSUME NEW n \in Nodes, RefreshPeers(n) PROVE BridgeTypeOK'
  <2>1. PICK up \in SUBSET (Nodes \ {n}) : \E told \in SUBSET up : \E address \in [told -> Nodes] :
          /\ publishing' = [publishing EXCEPT ![n] = 0]
          /\ remote_nodes' = [remote_nodes EXCEPT ![n] = (@ \cup told) \cap up]
          /\ peers' = [peers EXCEPT ![n] =
                [m \in (DOMAIN peers[n] \cup told) \ (remote_nodes[n] \ up) |->
                   IF m \in told THEN address[m] ELSE peers[n][m]]]
          /\ UNCHANGED <<outbound, forwarder, wire, accepted, delegated>>
    BY <1>6 DEF RefreshPeers
  <2>2. PICK told \in SUBSET up : \E address \in [told -> Nodes] :
          /\ publishing' = [publishing EXCEPT ![n] = 0]
          /\ remote_nodes' = [remote_nodes EXCEPT ![n] = (@ \cup told) \cap up]
          /\ peers' = [peers EXCEPT ![n] =
                [m \in (DOMAIN peers[n] \cup told) \ (remote_nodes[n] \ up) |->
                   IF m \in told THEN address[m] ELSE peers[n][m]]]
          /\ UNCHANGED <<outbound, forwarder, wire, accepted, delegated>>
    BY <2>1
  <2>a. PICK address \in [told -> Nodes] :
          peers' = [peers EXCEPT ![n] =
                [m \in (DOMAIN peers[n] \cup told) \ (remote_nodes[n] \ up) |->
                   IF m \in told THEN address[m] ELSE peers[n][m]]]
    BY <2>2
  <2> DEFINE known == [m \in (DOMAIN peers[n] \cup told) \ (remote_nodes[n] \ up) |->
                         IF m \in told THEN address[m] ELSE peers[n][m]]
  <2>3. DOMAIN known \subseteq Nodes /\ \A m \in DOMAIN known : known[m] \in Nodes
    OBVIOUS
  <2>4. peers' = [peers EXCEPT ![n] = known]
    BY <2>a
  <2> HIDE DEF known
  <2>5. \A k \in Nodes : DOMAIN peers'[k] \subseteq Nodes /\ \A m \in DOMAIN peers'[k] : peers'[k][m] \in Nodes
    BY <2>3, <2>4
  <2>b. DOMAIN peers' = Nodes
    BY <2>4
  <2>6. QED
    BY <2>2, <2>5, <2>b
<1>7. ASSUME NEW l \in wire, handle_inbound_connection(l) PROVE BridgeTypeOK'
  <2>1. l \in Lines /\ [l EXCEPT !.ack = "yes"] \in Lines /\ [l EXCEPT !.ack = "no"] \in Lines
    BY DEF Lines
  <2>2. QED
    <3>1. l.intent \in Delegations /\ l.to \in Nodes
      BY <2>1 DEF Lines
    <3>2. wire' \subseteq Lines
      BY <1>7, <2>1 DEF handle_inbound_connection
    <3>3. accepted' \in [Delegations -> SUBSET Nodes]
      BY <1>7, <3>1 DEF handle_inbound_connection
    <3>4. UNCHANGED <<linkVars, outbound, forwarder, delegated>>
      BY <1>7 DEF handle_inbound_connection
    <3>5. QED
      BY <3>2, <3>3, <3>4
<1>8. ASSUME NEW l \in wire, LineLost(l) \/ ReceiveAck(l) PROVE BridgeTypeOK'
  BY <1>8 DEF LineLost, ReceiveAck, Forwarders
<1>9. CASE UNCHANGED bridgeVars
  BY <1>9 DEF bridgeVars
<1>10. QED
  BY <1>1, <1>2, <1>3, <1>4, <1>5, <1>6, <1>7, <1>8, <1>9 DEF BridgeNext

-----------------------------------------------------------------------------
(* The parts of the invariant that speak of the way of an intent.          *)
Way == QueuedOnce /\ QueuedOnly /\ CarriedOnce /\ CarriedOnly /\ WiredOnce /\ WiredOnly
       /\ NotYet /\ OnTarget

(* An intent enters its way once.                                          *)
LEMMA DelegateSound ==
  ASSUME BridgeInv, NEW n \in Nodes, NEW i \in Delegations, Delegate(n, i)
  PROVE  Way'
<1>1. PICK m \in remote_nodes[n] :
        /\ delegated' = [delegated EXCEPT ![i] = {m}]
        /\ outbound' = [outbound EXCEPT ![n] = Append(@, i)]
        /\ UNCHANGED <<linkVars, forwarder, wire, accepted>>
  BY DEF Delegate
<1>2. /\ \A q \in Nodes : ~Connecting(q, i) /\ \A k \in Nat : ~QueuedAt(q, k, i)
      /\ Unanswered(i) = {} /\ accepted[i] = {}
  BY DEF Delegate, BridgeInv, NotYet
<1>3. \A q \in Nodes : \A j \in Delegations :
        /\ Connecting(q, j)' <=> Connecting(q, j)
        /\ Unanswered(j)' = Unanswered(j)
  BY <1>1 DEF Connecting, Sending, Unanswered
<1>4. ASSUME NEW q \in Nodes, NEW j \in Delegations, NEW k \in Nat
      PROVE  QueuedAt(q, k, j)' => QueuedAt(q, k, j) \/ (q = n /\ j = i /\ k = Len(outbound[n]) + 1)
  <2>1. outbound[q] \in Seq(Delegations)
    BY DEF BridgeInv, BridgeTypeOK
  <2>2. outbound'[q] = IF q = n THEN Append(outbound[n], i) ELSE outbound[q]
    BY <1>1 DEF BridgeInv, BridgeTypeOK
  <2>3. QED
    BY <2>1, <2>2 DEF QueuedAt
<1>5. QueuedOnce' /\ QueuedOnly'
  BY <1>1, <1>2, <1>3, <1>4 DEF BridgeInv, QueuedOnce, QueuedOnly
<1>6. CarriedOnce' /\ CarriedOnly' /\ WiredOnce' /\ WiredOnly'
  BY <1>1, <1>3 DEF BridgeInv, CarriedOnce, CarriedOnly, WiredOnce, WiredOnly
<1>7. NotYet'
  <2> SUFFICES ASSUME NEW j \in Delegations, delegated'[j] = {}
               PROVE  /\ \A q \in Nodes : ~Connecting(q, j)' /\ \A k \in Nat : ~QueuedAt(q, k, j)'
                      /\ Unanswered(j)' = {} /\ accepted'[j] = {}
    BY DEF NotYet
  <2>1. j # i /\ delegated[j] = {}
    BY <1>1 DEF BridgeInv, BridgeTypeOK
  <2>2. /\ \A q \in Nodes : ~Connecting(q, j) /\ \A k \in Nat : ~QueuedAt(q, k, j)
        /\ Unanswered(j) = {} /\ accepted[j] = {}
    BY <2>1 DEF BridgeInv, NotYet
  <2>3. QED
    BY <1>1, <1>3, <1>4, <2>1, <2>2
<1>8. OnTarget'
  BY <1>1, <1>2 DEF BridgeInv, BridgeTypeOK, OnTarget
<1>9. QED
  BY <1>5, <1>6, <1>7, <1>8 DEF Way

(* The forwarder takes it out of the queue, or drops it and stops.         *)
LEMMA ReceiveSound ==
  ASSUME BridgeInv, NEW n \in Nodes, start_forwarder(n)
  PROVE  Way'
<1>0. PICK i \in Delegations : i = Head(outbound[n])
  BY DEF start_forwarder, BridgeInv, BridgeTypeOK
<1>1. /\ outbound[n] \in Seq(Delegations) /\ outbound[n] # <<>>
      /\ outbound' = [outbound EXCEPT ![n] = Tail(@)]
      /\ UNCHANGED <<wire, accepted, delegated>>
  BY DEF start_forwarder, BridgeInv, BridgeTypeOK
<1>a. outbound[n] \in Seq(Delegations) /\ outbound[n] # <<>>
  BY <1>1
<1>b. Len(outbound[n]) \in Nat
  BY <1>a
<1>c. Len(Tail(outbound[n])) = Len(outbound[n]) - 1
  BY <1>a
<1>d. \A h \in 1 .. Len(outbound[n]) - 1 : Tail(outbound[n])[h] = outbound[n][h + 1]
  BY <1>a
<1>2. QueuedAt(n, 1, i)
  BY <1>0, <1>1 DEF QueuedAt
<1>3. \A j \in Delegations : Unanswered(j)' = Unanswered(j)
  BY <1>1 DEF Unanswered
<1>4. ASSUME NEW q \in Nodes, NEW j \in Delegations
      PROVE  Connecting(q, j)' => Connecting(q, j) \/ (q = n /\ j = i)
  BY <1>0 DEF start_forwarder, Connecting, Sending, Carrying, BridgeInv, BridgeTypeOK, Waiting, Stopped
<1>5. ASSUME NEW q \in Nodes, NEW j \in Delegations, NEW k \in Nat, QueuedAt(q, k, j)'
      PROVE  \/ q # n /\ QueuedAt(q, k, j)
             \/ q = n /\ QueuedAt(n, k + 1, j)
  <2>1. outbound'[q] = IF q = n THEN Tail(outbound[n]) ELSE outbound[q]
    BY <1>1 DEF BridgeInv, BridgeTypeOK
  <2>2. CASE q # n
    BY <1>5, <2>1, <2>2 DEF QueuedAt
  <2>3. CASE q = n
    <3>1. outbound'[n] = Tail(outbound[n])
      BY <2>1, <2>3
    <3>2. k \in 1 .. Len(outbound'[n]) /\ outbound'[n][k] = j
      BY <1>5, <2>3 DEF QueuedAt
    <3>3. k \in 1 .. Len(outbound[n]) - 1 /\ Tail(outbound[n])[k] = j
      BY <1>c, <3>1, <3>2
    <3>4. k + 1 \in 1 .. Len(outbound[n]) /\ outbound[n][k + 1] = j
      BY <1>b, <1>d, <3>3
    <3>5. QED
      BY <2>3, <3>4 DEF QueuedAt
  <2>4. QED
    BY <2>2, <2>3
<1>6. \A q \in Nodes : \A k \in Nat : ~QueuedAt(q, k, i)'
  <2>1. ASSUME NEW q \in Nodes, NEW k \in Nat, QueuedAt(q, k, i)' PROVE FALSE
    <3>1. k >= 1
      BY <2>1 DEF QueuedAt
    <3>2. CASE q # n
      BY <1>1, <1>2, <1>5, <2>1, <3>2 DEF BridgeInv, QueuedOnce
    <3>3. CASE q = n
      <4>1. QueuedAt(n, k + 1, i) /\ k + 1 \in Nat /\ k + 1 # 1
        BY <1>1, <1>5, <2>1, <3>1, <3>3
      <4>2. QED
        BY <1>1, <1>2, <4>1 DEF BridgeInv, QueuedOnce
    <3>4. QED
      BY <3>2, <3>3
  <2>2. QED
    BY <2>1
<1>7. (\A q \in Nodes : ~Connecting(q, i)) /\ Unanswered(i) = {} /\ accepted[i] = {} /\ delegated[i] # {}
  BY <1>1, <1>2 DEF BridgeInv, QueuedOnly, NotYet
<1>8. QueuedOnce'
  BY <1>1, <1>5 DEF BridgeInv, QueuedOnce
<1>9. QueuedOnly'
  <2>1. ASSUME NEW q \in Nodes, NEW j \in Delegations, NEW k \in Nat, QueuedAt(q, k, j)'
        PROVE  /\ \A m \in Nodes : ~Connecting(m, j)'
               /\ Unanswered(j)' = {} /\ accepted'[j] = {}
    <3>1. j # i
      BY <1>6, <2>1
    <3>2. \E h \in Nat : QueuedAt(q, h, j)
      BY <1>5, <2>1
    <3>3. (\A m \in Nodes : ~Connecting(m, j)) /\ Unanswered(j) = {} /\ accepted[j] = {}
      BY <3>2 DEF BridgeInv, QueuedOnly
    <3>4. QED
      BY <1>1, <1>3, <1>4, <3>1, <3>3
  <2>2. QED
    BY <2>1 DEF QueuedOnly
<1>10. CarriedOnce' /\ CarriedOnly'
  BY <1>1, <1>3, <1>4, <1>7 DEF BridgeInv, CarriedOnce, CarriedOnly
<1>11. WiredOnce' /\ WiredOnly' /\ OnTarget'
  BY <1>1, <1>3 DEF BridgeInv, WiredOnce, WiredOnly, OnTarget
<1>12. NotYet'
  BY <1>1, <1>3, <1>4, <1>5, <1>7 DEF BridgeInv, NotYet
<1>13. QED
  BY <1>8, <1>9, <1>10, <1>11, <1>12 DEF Way

(* The line is written: the forwarder hands the intent to the wire.        *)
LEMMA WriteSound ==
  ASSUME BridgeInv, NEW n \in Nodes, Write(n)
  PROVE  Way'
<1> DEFINE i == forwarder[n].intent
           line == [from |-> n, to |-> forwarder[n].addr, intent |-> i, ack |-> "none"]
<1>1. /\ Connecting(n, i) /\ i \in Delegations
      /\ forwarder[n] \in [pc : {"connecting", "acked"}, intent : Delegations, addr : Nodes]
  BY DEF Write, Sending, Connecting, BridgeInv, BridgeTypeOK, Forwarders
<1>2. wire' = wire \cup {line} /\ UNCHANGED <<outbound, accepted, delegated>>
  BY DEF Write
<1>3. \A j \in Delegations : Unanswered(j)' = IF j = i THEN Unanswered(i) \cup {line} ELSE Unanswered(j)
  BY <1>2 DEF Unanswered
<1>4. ASSUME NEW q \in Nodes, NEW j \in Delegations
      PROVE  Connecting(q, j)' => q # n /\ Connecting(q, j)
  <2>1. forwarder' = [forwarder EXCEPT ![n].pc = "acked"]
    BY DEF Write
  <2>2. forwarder'[n].pc = "acked" /\ \A m \in Nodes \ {n} : forwarder'[m] = forwarder[m]
    BY <1>1, <2>1 DEF BridgeInv, BridgeTypeOK
  <2>3. QED
    BY <2>2 DEF Connecting, Sending
<1>5. \A q \in Nodes : \A j \in Delegations : \A k \in Nat : QueuedAt(q, k, j)' <=> QueuedAt(q, k, j)
  BY <1>2 DEF QueuedAt
<1>6. Unanswered(i) = {} /\ accepted[i] = {} /\ delegated[i] # {}
      /\ (\A q \in Nodes : \A k \in Nat : ~QueuedAt(q, k, i))
      /\ \A q \in Nodes : Connecting(q, i) => q = n
  BY <1>1 DEF BridgeInv, CarriedOnly, CarriedOnce, NotYet, QueuedOnly
<1> HIDE DEF i, line
<1>7. QueuedOnce' /\ QueuedOnly'
  BY <1>1, <1>2, <1>3, <1>4, <1>5, <1>6 DEF BridgeInv, QueuedOnce, QueuedOnly
<1>8. CarriedOnce' /\ CarriedOnly'
  BY <1>1, <1>2, <1>3, <1>4, <1>6 DEF BridgeInv, CarriedOnce, CarriedOnly
<1>9. WiredOnce' /\ WiredOnly' /\ OnTarget'
  BY <1>2, <1>3, <1>6 DEF BridgeInv, WiredOnce, WiredOnly, OnTarget
<1>10. NotYet'
  BY <1>2, <1>3, <1>4, <1>5, <1>6 DEF BridgeInv, NotYet
<1>11. QED
  BY <1>7, <1>8, <1>9, <1>10 DEF Way

(* What is lost, ends or is answered leaves the way.                       *)
LEMMA LeavesSound ==
  ASSUME BridgeInv, UNCHANGED <<outbound, accepted, delegated>>,
         \A j \in Delegations : Unanswered(j)' \subseteq Unanswered(j),
         \A q \in Nodes : \A j \in Delegations : Connecting(q, j)' => Connecting(q, j)
  PROVE  Way'
<1>1. \A q \in Nodes : \A j \in Delegations : \A k \in Nat : QueuedAt(q, k, j)' <=> QueuedAt(q, k, j)
  BY DEF QueuedAt
<1>2. QueuedOnce' /\ QueuedOnly'
  BY <1>1 DEF BridgeInv, QueuedOnce, QueuedOnly
<1>3. CarriedOnce' /\ CarriedOnly' /\ WiredOnce' /\ WiredOnly' /\ OnTarget'
  BY DEF BridgeInv, CarriedOnce, CarriedOnly, WiredOnce, WiredOnly, OnTarget
<1>4. NotYet'
  BY <1>1 DEF BridgeInv, NotYet
<1>5. QED
  BY <1>2, <1>3, <1>4 DEF Way

(* The receiving node puts it on its bus, or not, and answers.             *)
LEMMA InboundSound ==
  ASSUME BridgeInv, NEW l \in wire, handle_inbound_connection(l)
  PROVE  Way'
<1> DEFINE i == l.intent
<1>1. i \in Delegations /\ l \in Unanswered(i) /\ l \in Lines
  BY DEF handle_inbound_connection, BridgeInv, BridgeTypeOK, Lines, Unanswered
<1>2. [l EXCEPT !.ack = "yes"].ack = "yes" /\ [l EXCEPT !.ack = "no"].ack = "no"
  BY <1>1 DEF Lines
<1>3. UNCHANGED <<outbound, forwarder, delegated>>
  BY DEF handle_inbound_connection
<1>4. \A j \in Delegations : Unanswered(j)' \subseteq Unanswered(j) \ {l}
  BY <1>2 DEF handle_inbound_connection, Unanswered
<1>5. \A q \in Nodes : \A j \in Delegations : Connecting(q, j)' <=> Connecting(q, j)
  BY <1>3 DEF Connecting, Sending
<1>6. CASE UNCHANGED accepted
  BY <1>3, <1>4, <1>5, <1>6, LeavesSound
<1>7. CASE l.to \in delegated[i] /\ accepted' = [accepted EXCEPT ![i] = @ \cup {l.to}]
  <2>1. Unanswered(i)' = {}
    BY <1>1, <1>4 DEF BridgeInv, WiredOnce
  <2>2. \A q \in Nodes : \A k \in Nat : ~Connecting(q, i) /\ ~QueuedAt(q, k, i)
    BY <1>1 DEF BridgeInv, CarriedOnly, QueuedOnly
  <2>3. \A q \in Nodes : \A j \in Delegations : \A k \in Nat : QueuedAt(q, k, j)' <=> QueuedAt(q, k, j)
    BY <1>3 DEF QueuedAt
  <2>4. \A j \in Delegations : j # i => accepted'[j] = accepted[j]
    BY <1>7 DEF BridgeInv, BridgeTypeOK
  <2> HIDE DEF i
  <2>5. QueuedOnce' /\ QueuedOnly'
    BY <1>4, <1>5, <2>2, <2>3, <2>4 DEF BridgeInv, QueuedOnce, QueuedOnly
  <2>6. CarriedOnce' /\ CarriedOnly'
    BY <1>4, <1>5, <2>2, <2>4 DEF BridgeInv, CarriedOnce, CarriedOnly
  <2>7. WiredOnce' /\ WiredOnly'
    BY <1>4, <2>1, <2>4 DEF BridgeInv, WiredOnce, WiredOnly
  <2>8. NotYet'
    BY <1>1, <1>3, <1>4, <1>5, <1>7, <2>3, <2>4 DEF BridgeInv, NotYet
  <2>9. OnTarget'
    BY <1>1, <1>3, <1>7, <2>4 DEF BridgeInv, BridgeTypeOK, OnTarget
  <2>10. QED
    BY <2>5, <2>6, <2>7, <2>8, <2>9 DEF Way
<1>8. QED
  BY <1>6, <1>7 DEF handle_inbound_connection

LEMMA BridgeSound ==
  ASSUME BridgeInv, [BridgeNext]_bridgeVars
  PROVE  BridgeInv'
<1>0. BridgeTypeOK'
  BY BridgeTyped DEF BridgeInv
<1> SUFFICES Way'
  BY <1>0 DEF Way, BridgeInv
<1>1. ASSUME NEW n \in Nodes, NEW i \in Delegations, Delegate(n, i) PROVE Way'
  BY <1>1, DelegateSound
<1>2. ASSUME NEW n \in Nodes, start_forwarder(n) PROVE Way'
  BY <1>2, ReceiveSound
<1>3. ASSUME NEW n \in Nodes, Write(n) PROVE Way'
  BY <1>3, WriteSound
<1>4. ASSUME NEW n \in Nodes, ForwardFails(n) PROVE Way'
  BY <1>4, LeavesSound DEF ForwardFails, Unanswered, Connecting, Sending, BridgeInv, BridgeTypeOK
<1>5. ASSUME NEW n \in Nodes, StartPublish(n) \/ AttemptFails(n) \/ RefreshPeers(n) PROVE Way'
  <2>1. UNCHANGED <<outbound, forwarder, wire, accepted, delegated>>
    BY <1>5 DEF StartPublish, AttemptFails, RefreshPeers
  <2>2. QED
    BY <2>1, LeavesSound DEF Unanswered, Connecting, Sending
<1>6. ASSUME NEW l \in wire, handle_inbound_connection(l) PROVE Way'
  BY <1>6, InboundSound
<1>7. ASSUME NEW l \in wire, LineLost(l) PROVE Way'
  BY <1>7, LeavesSound DEF LineLost, Unanswered, Connecting, Sending
<1>8. ASSUME NEW l \in wire, ReceiveAck(l) PROVE Way'
  <2>1. \A j \in Delegations : Unanswered(j)' \subseteq Unanswered(j)
    BY <1>8 DEF ReceiveAck, Unanswered
  <2>2. \A q \in Nodes : \A j \in Delegations : Connecting(q, j)' => Connecting(q, j)
    BY <1>8 DEF ReceiveAck, Connecting, Sending, BridgeInv, BridgeTypeOK
  <2>3. QED
    BY <1>8, <2>1, <2>2, LeavesSound DEF ReceiveAck
<1>9. CASE UNCHANGED bridgeVars
  BY <1>9, LeavesSound DEF bridgeVars, Unanswered, Connecting, Sending
<1>10. QED
  BY <1>1, <1>2, <1>3, <1>4, <1>5, <1>6, <1>7, <1>8, <1>9 DEF BridgeNext

LEMMA BridgeInitSound == BridgeInit => BridgeInv
<1> SUFFICES ASSUME BridgeInit PROVE BridgeInv
  OBVIOUS
<1>1. BridgeTypeOK
  BY BridgeAssumption DEF BridgeInit, BridgeTypeOK, Forwarders
<1>2. /\ \A n \in Nodes : \A i \in Delegations : ~Connecting(n, i) /\ \A k \in Nat : ~QueuedAt(n, k, i)
      /\ \A i \in Delegations : Unanswered(i) = {} /\ accepted[i] = {}
  BY DEF BridgeInit, Connecting, Sending, QueuedAt, Unanswered
<1>3. QED
  BY <1>1, <1>2 DEF BridgeInv, QueuedOnce, QueuedOnly, CarriedOnce, CarriedOnly, WiredOnce, WiredOnly,
                    NotYet, OnTarget

(* For any number of nodes and intents, stale addresses and lost lines: an *)
(* intent gets on one bus at most, that of its target, and once only.      *)
THEOREM AtMostOnce == BridgeSpec => []DelegatedAtMostOnce
<1>1. BridgeInv /\ [BridgeNext]_bridgeVars => BridgeInv'
  BY BridgeSound
<1>2. QED
  BY <1>1, BridgeInitSound, InvariantSuffices, PTL DEF BridgeSpec

-----------------------------------------------------------------------------
(***************************************************************************)
(* Delegation, for every set of intents and any delay of buses and         *)
(* routers: an intent is in one message, one router or one agent at a      *)
(* time.                                                                   *)
(***************************************************************************)
(* What the messages of a bus and the state of a router are.               *)
SpawnMessages ==
  [kind : {"spawn"}, intent : Spawns, id : Nat, target : SchedulerNodes \cup {NoNode}]
LifecycleMessages ==
  [kind : {"lifecycle"}, op : LifecycleOps, id : Nat, target : SchedulerNodes]
RouterStates ==
  {Listening} \cup
  [pc : {"spawning", "delegating", "granting", "issued"}, intent : Spawns, id : Nat]

RoutingTypes ==
  /\ spawn_bus \in [SchedulerNodes -> SUBSET (SpawnMessages \cup LifecycleMessages)]
  /\ router \in [SchedulerNodes -> RouterStates]
  /\ id_counter \in [SchedulerNodes -> Nat]
  /\ DOMAIN spawned = Spawns
  /\ DOMAIN node_snapshot = SchedulerNodes
  /\ \A n \in SchedulerNodes : DOMAIN node_snapshot[n] \subseteq SchedulerNodes \ {n}

(* Where an intent is: in a message that a router may act on, in a router  *)
(* that has not decided about it, or in the agent it has become.           *)
Live(n, m, i)  == m \in spawn_bus[n] /\ m.kind = "spawn" /\ m.intent = i /\ ForUs(n, m.target)
Held(n, i)     == router[n].pc \in {"spawning", "delegating"} /\ router[n].intent = i

OnBus(i)    == {x \in SchedulerNodes \X SpawnMessages : Live(x[1], x[2], i)}
InRouter(i) == {n \in SchedulerNodes : Held(n, i)}

AtMostOne(S) == \A x, y \in S : x = y

(* It is in one of the three places only, and in one copy.                 *)
Once(i) ==
  /\ AtMostOne(OnBus(i)) /\ AtMostOne(InRouter(i)) /\ AtMostOne(spawned[i])
  /\ OnBus(i) = {} \/ InRouter(i) = {}
  /\ spawned[i] # {} => OnBus(i) = {} /\ InRouter(i) = {}
  /\ i \notin submitted => OnBus(i) = {} /\ InRouter(i) = {} /\ spawned[i] = {}

DInv == RoutingTypes /\ \A i \in Spawns : Once(i)

LEMMA DInvInit == DelegationInit => DInv
<1> SUFFICES ASSUME DelegationInit PROVE DInv
  OBVIOUS
<1>1. RoutingTypes
  BY DEF DelegationInit, RoutingTypes, RouterStates
<1>2. ASSUME NEW i \in Spawns PROVE Once(i)
  <2>1. OnBus(i) = {}
    BY DEF DelegationInit, OnBus, Live
  <2>2. InRouter(i) = {}
    BY DEF DelegationInit, InRouter, Held, Listening
  <2>3. spawned[i] = {}
    BY DEF DelegationInit
  <2>4. QED
    BY <2>1, <2>2, <2>3 DEF Once, AtMostOne
<1>3. QED
  BY <1>1, <1>2 DEF DInv

(* Steps that take nothing out of a place and put nothing in.              *)
LEMMA OnceShrinks ==
  ASSUME NEW i \in Spawns, Once(i),
         OnBus(i)' \subseteq OnBus(i), InRouter(i)' \subseteq InRouter(i),
         spawned'[i] = spawned[i], submitted \subseteq submitted'
  PROVE  Once(i)'
<1>1. AtMostOne(OnBus(i))' /\ AtMostOne(InRouter(i))' /\ AtMostOne(spawned[i])'
  BY DEF Once, AtMostOne
<1>2. QED
  BY <1>1 DEF Once

(* The messages of a bus: what is taken from it and what is put on it.     *)
LEMMA BusAfterTake ==
  ASSUME RoutingTypes, NEW n \in SchedulerNodes, NEW m \in spawn_bus[n], Take(n, m)
  PROVE  /\ spawn_bus' \in [SchedulerNodes -> SUBSET (SpawnMessages \cup LifecycleMessages)]
         /\ \A i \in Spawns : OnBus(i)' = OnBus(i) \ {<<n, m>>}
<1>1. spawn_bus' = [spawn_bus EXCEPT ![n] = @ \ {m}]
  BY DEF Take
<1>2. spawn_bus' \in [SchedulerNodes -> SUBSET (SpawnMessages \cup LifecycleMessages)]
  BY <1>1 DEF RoutingTypes
<1>3. ASSUME NEW i \in Spawns PROVE OnBus(i)' = OnBus(i) \ {<<n, m>>}
  <2>1. ASSUME NEW k \in SchedulerNodes, NEW x \in SpawnMessages
        PROVE  Live(k, x, i)' <=> Live(k, x, i) /\ ~(k = n /\ x = m)
    BY <1>1 DEF RoutingTypes, Live
  <2>2. QED
    BY <2>1 DEF OnBus
<1>4. QED
  BY <1>2, <1>3

LEMMA DInvNext == DInv /\ [DelegationNext]_delegationVars => DInv'
<1> SUFFICES ASSUME DInv, [DelegationNext]_delegationVars PROVE DInv'
  OBVIOUS
<1> USE DelegationAssumption
<1>t. RoutingTypes /\ \A i \in Spawns : Once(i)
  BY DEF DInv
<1>a. ASSUME UNCHANGED <<spawn_bus, router, id_counter, submitted, spawned>>,
             DOMAIN node_snapshot' = SchedulerNodes,
             \A n \in SchedulerNodes : DOMAIN node_snapshot'[n] \subseteq SchedulerNodes \ {n}
      PROVE  DInv'
  <2>1. RoutingTypes'
    BY <1>t, <1>a DEF RoutingTypes
  <2>2. ASSUME NEW i \in Spawns PROVE Once(i)'
    <3>1. OnBus(i)' = OnBus(i) /\ InRouter(i)' = InRouter(i)
      BY <1>a DEF OnBus, InRouter, Live, Held
    <3>2. QED
      BY <1>t, <1>a, <3>1 DEF Once
  <2>3. QED
    BY <2>1, <2>2 DEF DInv
\* A router that moves on to a state in which it decides about nothing.
<1>b. ASSUME NEW n \in SchedulerNodes, NEW s \in RouterStates, Routed(n, s),
             s.pc \notin {"spawning", "delegating"}
      PROVE  /\ router' \in [SchedulerNodes -> RouterStates]
             /\ \A i \in Spawns : InRouter(i)' = InRouter(i) \ {n}
  <2>1. router' = [router EXCEPT ![n] = s]
    BY <1>b DEF Routed
  <2>2. QED
    BY <1>t, <1>b, <2>1 DEF RoutingTypes, InRouter, Held
<1>l. Listening \in RouterStates /\ Listening.pc \notin {"spawning", "delegating"}
  BY DEF Listening, RouterStates
<1>1. ASSUME NEW n \in SchedulerNodes, NEW m \in SchedulerNodes,
             upsert_remote_node(n, m) \/ remove_remote_node(n, m)
      PROVE  DInv'
  <2>1. CASE upsert_remote_node(n, m)
    <3>1. m \in SchedulerNodes \ {n}
      BY <2>1 DEF upsert_remote_node
    <3>2. /\ DOMAIN node_snapshot' = SchedulerNodes
          /\ \A k \in SchedulerNodes : DOMAIN node_snapshot'[k] \subseteq SchedulerNodes \ {k}
      BY <1>t, <2>1, <3>1 DEF upsert_remote_node, RoutingTypes, Insert
    <3>3. QED
      BY <1>a, <2>1, <3>2 DEF upsert_remote_node
  <2>2. CASE remove_remote_node(n, m)
    <3>1. /\ DOMAIN node_snapshot' = SchedulerNodes
          /\ \A k \in SchedulerNodes : DOMAIN node_snapshot'[k] \subseteq SchedulerNodes \ {k}
      BY <1>t, <2>2 DEF remove_remote_node, RoutingTypes, Restrict
    <3>2. QED
      BY <1>a, <2>2, <3>1 DEF remove_remote_node
  <2>3. QED
    BY <1>1, <2>1, <2>2
<1>2. ASSUME NEW n \in SchedulerNodes, NEW j \in Spawns, submit_intent(n, j) PROVE DInv'
  <2> DEFINE m == SpawnIntentTo(j, 0, NoNode)
  <2>1. m \in SpawnMessages /\ m.kind = "spawn" /\ m.intent = j
    BY DEF SpawnIntentTo, SpawnMessages
  <2>2. spawn_bus' = [spawn_bus EXCEPT ![n] = @ \cup {m}]
    BY <1>2 DEF submit_intent
  <2> HIDE DEF m
  <2>3. RoutingTypes'
    <3>1. spawn_bus' \in [SchedulerNodes -> SUBSET (SpawnMessages \cup LifecycleMessages)]
      BY <1>t, <2>1, <2>2 DEF RoutingTypes
    <3>2. QED
      BY <1>t, <1>2, <3>1 DEF submit_intent, RoutingTypes
  <2>4. ASSUME NEW i \in Spawns
        PROVE  OnBus(i)' \subseteq OnBus(i) \cup (IF i = j THEN {<<n, m>>} ELSE {})
    <3>1. ASSUME NEW k \in SchedulerNodes, NEW x \in SpawnMessages, Live(k, x, i)'
          PROVE  Live(k, x, i) \/ (k = n /\ x = m /\ i = j)
      BY <1>t, <2>1, <2>2, <3>1 DEF RoutingTypes, Live
    <3>2. QED
      BY <3>1 DEF OnBus
  <2>5. ASSUME NEW i \in Spawns PROVE Once(i)'
    <3>0. InRouter(i)' = InRouter(i) /\ spawned' = spawned /\ submitted' = submitted \cup {j}
      BY <1>2 DEF submit_intent, InRouter, Held
    <3>1. CASE i # j
      BY <1>t, <2>4, <3>0, <3>1, OnceShrinks
    <3>2. CASE i = j
      <4>1. OnBus(i) = {} /\ InRouter(i) = {} /\ spawned[i] = {}
        BY <1>t, <1>2, <3>2 DEF submit_intent, Once
      <4>2. OnBus(i)' \subseteq {<<n, m>>}
        BY <2>4, <3>2, <4>1
      <4>3. QED
        BY <3>0, <3>2, <4>1, <4>2 DEF Once, AtMostOne
    <3>3. QED
      BY <3>1, <3>2
  <2>6. QED
    BY <2>3, <2>5 DEF DInv
<1>3. ASSUME NEW n \in SchedulerNodes, Ignore(n) PROVE DInv'
  <2>1. PICK m \in spawn_bus[n] : Take(n, m)
    BY <1>3 DEF Ignore
  <2>2. RoutingTypes'
    BY <1>t, <1>3, <2>1, BusAfterTake DEF Ignore, RoutingTypes
  <2>3. ASSUME NEW i \in Spawns PROVE Once(i)'
    <3>1. OnBus(i)' \subseteq OnBus(i)
      BY <1>t, <2>1, BusAfterTake
    <3>2. InRouter(i)' = InRouter(i)
      BY <1>3 DEF Ignore, InRouter, Held
    <3>3. QED
      BY <1>t, <1>3, <3>1, <3>2, OnceShrinks DEF Ignore
  <2>4. QED
    BY <2>2, <2>3 DEF DInv
<1>4. ASSUME NEW n \in SchedulerNodes, Decide(n) PROVE DInv'
  <2>1. PICK m \in spawn_bus[n] :
          /\ m.kind = "spawn" /\ ForUs(n, m.target)
          /\ Take(n, m)
          /\ LET id == IF m.id = 0 THEN id_counter[n] ELSE m.id
                 pc == IF should_spawn_locally(n, m.target) THEN "spawning" ELSE "delegating"
             IN  Routed(n, Routing(pc, m.intent, id))
          /\ id_counter' = [id_counter EXCEPT ![n] = IF m.id = 0 THEN @ + 1 ELSE @]
          /\ UNCHANGED <<node_snapshot, submitted, spawned>>
    BY <1>4 DEF Decide
  <2>2. m \in SpawnMessages
    BY <1>t, <2>1 DEF RoutingTypes, LifecycleMessages
  <2>3. PICK s \in RouterStates : s.pc \in {"spawning", "delegating"} /\ s.intent = m.intent
                                  /\ router' = [router EXCEPT ![n] = s]
    <3> DEFINE id == IF m.id = 0 THEN id_counter[n] ELSE m.id
               pc == IF should_spawn_locally(n, m.target) THEN "spawning" ELSE "delegating"
    <3>1. id \in Nat /\ pc \in {"spawning", "delegating"} /\ m.intent \in Spawns
      BY <1>t, <2>2 DEF RoutingTypes, SpawnMessages
    <3>2. router' = [router EXCEPT ![n] = Routing(pc, m.intent, id)]
      BY <2>1 DEF Routed
    <3> HIDE DEF id, pc
    <3>3. Routing(pc, m.intent, id) \in RouterStates
      BY <3>1 DEF Routing, RouterStates
    <3>4. QED
      BY <3>1, <3>2, <3>3 DEF Routing
  <2>4. RoutingTypes'
    <3>1. id_counter' \in [SchedulerNodes -> Nat]
      BY <1>t, <2>1 DEF RoutingTypes
    <3>2. spawn_bus' \in [SchedulerNodes -> SUBSET (SpawnMessages \cup LifecycleMessages)]
      BY <1>t, <2>1, BusAfterTake
    <3>3. router' \in [SchedulerNodes -> RouterStates]
      BY <1>t, <2>3 DEF RoutingTypes
    <3>4. QED
      BY <1>t, <2>1, <3>1, <3>2, <3>3 DEF RoutingTypes
  <2>5. ASSUME NEW i \in Spawns PROVE Once(i)'
    <3>1. OnBus(i)' = OnBus(i) \ {<<n, m>>}
      BY <1>t, <2>1, BusAfterTake
    <3>2. InRouter(i)' = IF i = m.intent THEN InRouter(i) \cup {n} ELSE InRouter(i)
      <4>1. \A k \in SchedulerNodes \ {n} : Held(k, i)' = Held(k, i)
        BY <1>t, <2>3 DEF RoutingTypes, Held
      <4>2. router'[n] = s
        BY <1>t, <2>3 DEF RoutingTypes
      <4>3. router[n] = Listening
        BY <2>1 DEF Take
      <4>4. Held(n, i)' <=> i = m.intent
        BY <2>3, <4>2 DEF Held
      <4>5. ~Held(n, i)
        BY <4>3 DEF Held, Listening
      <4>6. QED
        BY <4>1, <4>4, <4>5 DEF InRouter
    <3>3. CASE i # m.intent
      BY <1>t, <2>1, <3>1, <3>2, <3>3, OnceShrinks
    <3>4. CASE i = m.intent
      <4>1. <<n, m>> \in OnBus(i)
        BY <2>1, <2>2, <3>4 DEF OnBus, Live
      <4>2. OnBus(i)' = {} /\ InRouter(i) = {} /\ spawned[i] = {} /\ i \in submitted
        BY <1>t, <3>1, <4>1 DEF Once, AtMostOne
      <4>3. InRouter(i)' = {n}
        BY <3>2, <3>4, <4>2
      <4>4. QED
        BY <2>1, <4>2, <4>3 DEF Once, AtMostOne
    <3>5. QED
      BY <3>3, <3>4
  <2>6. QED
    BY <2>4, <2>5 DEF DInv
<1>5. ASSUME NEW n \in SchedulerNodes, delegate_spawn(n) PROVE DInv'
  <2> DEFINE j == router[n].intent
  <2>1. PICK m \in select_remote_node(n) : Publish(n, m, SpawnIntentTo(j, router[n].id, m))
    BY <1>5 DEF delegate_spawn
  <2> DEFINE x == SpawnIntentTo(j, router[n].id, m)
  <2>2. m \in SchedulerNodes /\ m # n
    BY <1>t DEF select_remote_node, Candidates, RoutingTypes
  <2>3. router[n].pc = "delegating" /\ router[n] \in RouterStates /\ router[n] # Listening
    BY <1>t, <1>5 DEF delegate_spawn, RoutingTypes, Listening
  <2>4. j \in Spawns /\ router[n].id \in Nat
    BY <2>3 DEF RouterStates
  <2>5. x \in SpawnMessages /\ x.kind = "spawn" /\ x.intent = j /\ x.target = m
    BY <2>2, <2>4 DEF SpawnIntentTo, SpawnMessages
  <2>6. spawn_bus' = [k \in SchedulerNodes |->
                        IF k \in {n, m} THEN spawn_bus[k] \cup {x} ELSE spawn_bus[k]]
    BY <2>1 DEF Publish
  <2>7. n \in InRouter(j)
    BY <2>3 DEF InRouter, Held
  <2> HIDE DEF x, j
  <2>8. RoutingTypes'
    <3>1. spawn_bus' \in [SchedulerNodes -> SUBSET (SpawnMessages \cup LifecycleMessages)]
      BY <1>t, <2>5, <2>6 DEF RoutingTypes
    <3>2. QED
      BY <1>t, <1>5, <1>b, <1>l, <3>1 DEF delegate_spawn, RoutingTypes
  <2>9. ASSUME NEW i \in Spawns PROVE Once(i)'
    <3>1. OnBus(i)' \subseteq OnBus(i) \cup (IF i = j THEN {<<m, x>>} ELSE {})
      <4>1. ASSUME NEW k \in SchedulerNodes, NEW y \in SpawnMessages, Live(k, y, i)'
            PROVE  Live(k, y, i) \/ (k = m /\ y = x /\ i = j)
        <5>1. y \in spawn_bus[k] \/ (k \in {n, m} /\ y = x)
          BY <2>6, <4>1 DEF Live
        <5>2. ~ForUs(n, x.target)
          BY <2>2, <2>5 DEF ForUs
        <5>3. QED
          BY <2>5, <4>1, <5>1, <5>2 DEF Live
      <4>2. QED
        BY <4>1 DEF OnBus
    <3>2. InRouter(i)' = InRouter(i) \ {n}
      BY <1>5, <1>b, <1>l DEF delegate_spawn
    <3>3. UNCHANGED <<spawned, submitted>>
      BY <1>5 DEF delegate_spawn
    <3>4. CASE i # j
      BY <1>t, <3>1, <3>2, <3>3, <3>4, OnceShrinks
    <3>5. CASE i = j
      <4>1. OnBus(i) = {} /\ spawned[i] = {} /\ i \in submitted /\ InRouter(i)' = {}
        BY <1>t, <2>7, <3>2, <3>5 DEF Once, AtMostOne
      <4>2. OnBus(i)' \subseteq {<<m, x>>}
        BY <3>1, <3>5, <4>1
      <4>3. QED
        BY <3>3, <4>1, <4>2 DEF Once, AtMostOne
    <3>6. QED
      BY <3>4, <3>5
  <2>10. QED
    BY <2>8, <2>9 DEF DInv
\* Steps of the router that leave the bus, and put the intent nowhere.
<1>6. ASSUME NEW n \in SchedulerNodes, NEW s \in RouterStates, Routed(n, s),
             s.pc \notin {"spawning", "delegating"},
             UNCHANGED <<id_counter, node_snapshot, spawn_bus, submitted, spawned>>
      PROVE  DInv'
  <2>1. RoutingTypes'
    BY <1>t, <1>6, <1>b DEF RoutingTypes
  <2>2. ASSUME NEW i \in Spawns PROVE Once(i)'
    <3>1. OnBus(i)' = OnBus(i)
      BY <1>6 DEF OnBus, Live
    <3>2. InRouter(i)' \subseteq InRouter(i)
      BY <1>6, <1>b
    <3>3. QED
      BY <1>t, <1>6, <3>1, <3>2, OnceShrinks
  <2>3. QED
    BY <2>1, <2>2 DEF DInv
<1>7. ASSUME NEW n \in SchedulerNodes, NoEligibleRemoteNode(n) PROVE DInv'
  BY <1>6, <1>7, <1>l DEF NoEligibleRemoteNode
<1>8. ASSUME NEW n \in SchedulerNodes, spawn_agent_here(n) PROVE DInv'
  <2>1. CASE router[n].id \in AgentsAt(n)
    BY <1>6, <1>8, <1>l, <2>1 DEF spawn_agent_here
  <2>2. CASE router[n].id \notin AgentsAt(n)
    <3> DEFINE j == router[n].intent
               s == [router[n] EXCEPT !.pc = "granting"]
               a == <<n, router[n].id>>
    <3>1. /\ Routed(n, s)
          /\ spawned' = [spawned EXCEPT ![j] = @ \cup {a}]
          /\ UNCHANGED <<id_counter, node_snapshot, spawn_bus, submitted>>
      BY <1>8, <2>2 DEF spawn_agent_here
    <3>2. router[n].pc = "spawning" /\ router[n] \in RouterStates /\ router[n] # Listening
      BY <1>t, <1>8 DEF spawn_agent_here, RoutingTypes, Listening
    <3>3. j \in Spawns /\ s \in RouterStates /\ s.pc = "granting"
      BY <3>2 DEF RouterStates
    <3>4. n \in InRouter(j)
      BY <3>2 DEF InRouter, Held
    <3> HIDE DEF j, s, a
    <3>5. RoutingTypes'
      BY <1>t, <1>b, <3>1, <3>3 DEF RoutingTypes
    <3>6. ASSUME NEW i \in Spawns PROVE Once(i)'
      <4>1. OnBus(i)' = OnBus(i)
        BY <3>1 DEF OnBus, Live
      <4>2. InRouter(i)' = InRouter(i) \ {n}
        BY <1>b, <3>1, <3>3
      <4>3. spawned'[i] = IF i = j THEN spawned[i] \cup {a} ELSE spawned[i]
        BY <1>t, <3>1 DEF RoutingTypes
      <4>4. CASE i # j
        BY <1>t, <3>1, <4>1, <4>2, <4>3, <4>4, OnceShrinks
      <4>5. CASE i = j
        <5>1. OnBus(i) = {} /\ spawned[i] = {} /\ i \in submitted /\ InRouter(i)' = {}
          BY <1>t, <3>4, <4>2, <4>5 DEF Once, AtMostOne
        <5>2. spawned'[i] = {a}
          BY <4>3, <4>5, <5>1
        <5>3. QED
          BY <3>1, <4>1, <5>1, <5>2 DEF Once, AtMostOne
      <4>6. QED
        BY <4>4, <4>5
    <3>7. QED
      BY <3>5, <3>6 DEF DInv
  <2>3. QED
    BY <2>1, <2>2
<1>9. ASSUME NEW n \in SchedulerNodes, issue_token_of(n) PROVE DInv'
  <2>1. CASE router[n].id \in AgentsAt(n)
    <3> DEFINE s == [router[n] EXCEPT !.pc = "issued"]
    <3>1. router[n] \in RouterStates /\ router[n] # Listening
      BY <1>t, <1>9 DEF issue_token_of, RoutingTypes, Listening
    <3>2. s \in RouterStates /\ s.pc = "issued"
      BY <3>1 DEF RouterStates
    <3>3. Routed(n, s)
      BY <1>9, <2>1 DEF issue_token_of
    <3> HIDE DEF s
    <3>4. QED
      BY <1>6, <1>9, <3>2, <3>3 DEF issue_token_of
  <2>2. CASE router[n].id \notin AgentsAt(n)
    BY <1>6, <1>9, <1>l, <2>2 DEF issue_token_of
  <2>3. QED
    BY <2>1, <2>2
<1>10. ASSUME NEW n \in SchedulerNodes, PushToken(n) PROVE DInv'
  BY <1>6, <1>10, <1>l DEF PushToken
<1>11. ASSUME NEW n \in SchedulerNodes, NEW m \in SchedulerNodes, NEW op \in LifecycleOps,
              NEW id \in 1 .. MaxAgentId, send_lifecycle_intent(n, m, op, id)
       PROVE  DInv'
  <2> DEFINE x == LifecycleTo(op, id, m)
  <2>1. x \in LifecycleMessages /\ x.kind = "lifecycle"
    BY DEF LifecycleTo, LifecycleMessages
  <2>2. spawn_bus' = [k \in SchedulerNodes |->
                        IF k \in {n, m} THEN spawn_bus[k] \cup {x} ELSE spawn_bus[k]]
    BY <1>11 DEF send_lifecycle_intent, Publish
  <2> HIDE DEF x
  <2>3. RoutingTypes'
    <3>1. spawn_bus' \in [SchedulerNodes -> SUBSET (SpawnMessages \cup LifecycleMessages)]
      BY <1>t, <2>1, <2>2 DEF RoutingTypes
    <3>2. QED
      BY <1>t, <1>11, <3>1 DEF send_lifecycle_intent, RoutingTypes
  <2>4. ASSUME NEW i \in Spawns PROVE Once(i)'
    <3>1. OnBus(i)' \subseteq OnBus(i)
      <4>1. ASSUME NEW k \in SchedulerNodes, NEW y \in SpawnMessages, Live(k, y, i)'
            PROVE  Live(k, y, i)
        BY <2>1, <2>2, <4>1 DEF Live
      <4>2. QED
        BY <4>1 DEF OnBus
    <3>2. InRouter(i)' = InRouter(i)
      BY <1>11 DEF send_lifecycle_intent, InRouter, Held
    <3>3. QED
      BY <1>t, <1>11, <3>1, <3>2, OnceShrinks DEF send_lifecycle_intent
  <2>5. QED
    BY <2>3, <2>4 DEF DInv
<1>12. ASSUME NEW n \in SchedulerNodes, handle_lifecycle_intent(n) PROVE DInv'
  <2>1. PICK m \in spawn_bus[n] : Take(n, m)
    BY <1>12 DEF handle_lifecycle_intent
  <2>2. RoutingTypes'
    BY <1>t, <1>12, <2>1, BusAfterTake DEF handle_lifecycle_intent, RoutingTypes
  <2>3. ASSUME NEW i \in Spawns PROVE Once(i)'
    <3>1. OnBus(i)' \subseteq OnBus(i)
      BY <1>t, <2>1, BusAfterTake
    <3>2. InRouter(i)' = InRouter(i)
      BY <1>12 DEF handle_lifecycle_intent, InRouter, Held
    <3>3. QED
      BY <1>t, <1>12, <3>1, <3>2, OnceShrinks DEF handle_lifecycle_intent
  <2>4. QED
    BY <2>2, <2>3 DEF DInv
<1>13. ASSUME NEW n \in SchedulerNodes, terminate_here(n) \/ Placed(n) PROVE DInv'
  <2>1. UNCHANGED <<spawn_bus, router, id_counter, submitted, spawned, node_snapshot>>
    BY <1>13 DEF terminate_here, Placed
  <2>2. QED
    BY <1>t, <1>a, <2>1 DEF RoutingTypes
<1>14. CASE UNCHANGED delegationVars
  BY <1>t, <1>a, <1>14 DEF RoutingTypes, delegationVars
<1>15. QED
  BY <1>1, <1>2, <1>3, <1>4, <1>5, <1>7, <1>8, <1>9, <1>10, <1>11, <1>12, <1>13, <1>14
     DEF DelegationNext

(* A spawn intent becomes an agent at most once, on one node, whatever the *)
(* number of nodes and whatever they have seen of each other's load.       *)
THEOREM IntentsSpawnOnce == DelegationSpec => []SpawnedOnce
<1>1. DelegationSpec => []DInv
  BY DInvInit, DInvNext, PTL DEF DelegationSpec
<1>2. ASSUME DInv PROVE SpawnedOnce
  <2> SUFFICES ASSUME NEW i \in Spawns PROVE Cardinality(spawned[i]) <= 1
    BY DEF SpawnedOnce
  <2>1. AtMostOne(spawned[i])
    BY <1>2 DEF DInv, Once
  <2>2. CASE spawned[i] = {}
    BY <2>2, FS_EmptySet
  <2>3. CASE spawned[i] # {}
    <3>1. PICK x : spawned[i] = {x}
      BY <2>1, <2>3 DEF AtMostOne
    <3>2. Cardinality({x}) = 1
      BY FS_Singleton
    <3>3. QED
      BY <3>1, <3>2
  <2>4. QED
    BY <2>2, <2>3
<1>3. QED
  BY <1>1, <1>2, PTL

-----------------------------------------------------------------------------
(***************************************************************************)
(* MeshAuth, for every replay window: the pruning of the nonces never      *)
(* forgets a line whose window is still open, whichever reader prunes.     *)
(***************************************************************************)
(* What a reader holds was sealed, and its look at the clock is over.      *)
ReadingOK ==
  \A r \in Readers : reading[r] # Idle => reading[r].line \in sealed /\ reading[r].at <= clock

(* A nonce is sealed once; only sealed lines are remembered.               *)
NonceOnce == \A l, m \in sealed : l.nonce = m.nonce => l = m
Remembered == seen_nonces \subseteq sealed /\ processed \subseteq sealed

(* An accepted line is remembered as long as its window lasts.             *)
SeenUntilOver == \A l \in processed : clock <= l.ts + REPLAY_WINDOW => l \in seen_nonces

AuthInv == MeshAuthTypeOK /\ ReadingOK /\ NonceOnce /\ Remembered /\ SeenUntilOver /\ OncePerWindow

-----------------------------------------------------------------------------
(* Type correctness, one step.                                             *)
LEMMA AuthTyped ==
  ASSUME MeshAuthTypeOK, [AuthNext]_authVars
  PROVE  MeshAuthTypeOK'
<1> USE MeshAuthAssumption DEF MeshAuthTypeOK
<1>1. CASE ClockTick
  BY <1>1 DEF ClockTick
<1>2. ASSUME NEW k \in Nonces, seal(k) PROVE MeshAuthTypeOK'
  BY <1>2 DEF seal, SealedLines
<1>3. ASSUME NEW r \in Readers, NEW l \in sealed, open(r, l) PROVE MeshAuthTypeOK'
  BY <1>3 DEF open
<1>4. ASSUME NEW r \in Readers, dedup(r) PROVE MeshAuthTypeOK'
  <2>1. reading[r].line \in SealedLines /\ retain(reading[r].at) \subseteq SealedLines
    BY <1>4 DEF dedup, retain
  <2>2. QED
    BY <1>4, <2>1 DEF dedup
<1>5. CASE UNCHANGED authVars
  BY <1>5 DEF authVars
<1>6. QED
  BY <1>1, <1>2, <1>3, <1>4, <1>5 DEF AuthNext

(* Accepting or refusing a line: what is pruned is over, because the time  *)
(* a reader prunes by is not ahead of the clock; and a line that is        *)
(* accepted again while its window lasts would still be remembered.        *)
LEMMA DedupSound ==
  ASSUME AuthInv, NEW r \in Readers, dedup(r)
  PROVE  Remembered' /\ SeenUntilOver' /\ OncePerWindow'
<1> DEFINE l    == reading[r].line
           kept == retain(reading[r].at)
<1>1. /\ l \in sealed /\ l.ts \in Nat
      /\ reading[r].at \in Nat /\ clock \in Nat /\ reading[r].at <= clock
      /\ REPLAY_WINDOW \in Nat
      /\ \A m \in sealed : m.ts \in Nat
  BY MeshAuthAssumption DEF AuthInv, MeshAuthTypeOK, ReadingOK, dedup, SealedLines
<1>2. \A m \in processed : clock <= m.ts + REPLAY_WINDOW => m \in kept
  BY <1>1 DEF AuthInv, SeenUntilOver, Remembered, retain
<1>3. kept \subseteq sealed
  BY DEF AuthInv, Remembered, retain
<1>4. CASE \E s \in kept : s.nonce = l.nonce
  <2>1. seen_nonces' = kept /\ UNCHANGED <<processed, repeated, clock, sealed>>
    BY <1>4 DEF dedup
  <2>2. QED
    BY <1>2, <1>3, <2>1 DEF AuthInv, Remembered, SeenUntilOver, OncePerWindow
<1>5. CASE ~ \E s \in kept : s.nonce = l.nonce
  <2>1. /\ seen_nonces' = kept \cup {l} /\ processed' = processed \cup {l}
        /\ UNCHANGED <<clock, sealed>>
    BY <1>5 DEF dedup
  <2>2. ~(l \in processed /\ clock <= l.ts + REPLAY_WINDOW)
    BY <1>2, <1>5
  <2>3. repeated' = repeated
    BY <1>5, <2>2 DEF dedup
  <2>4. QED
    BY <1>1, <1>2, <1>3, <2>1, <2>3 DEF AuthInv, Remembered, SeenUntilOver, OncePerWindow
<1>6. QED
  BY <1>4, <1>5

LEMMA AuthSound ==
  ASSUME AuthInv, [AuthNext]_authVars
  PROVE  AuthInv'
<1>0. MeshAuthTypeOK'
  BY AuthTyped DEF AuthInv
<1> SUFFICES ReadingOK' /\ NonceOnce' /\ Remembered' /\ SeenUntilOver' /\ OncePerWindow'
  BY <1>0 DEF AuthInv
<1> USE DEF AuthInv, ReadingOK, NonceOnce, Remembered, SeenUntilOver, OncePerWindow
<1>1. CASE ClockTick
  BY <1>1, MeshAuthAssumption DEF ClockTick, MeshAuthTypeOK, SealedLines
<1>2. ASSUME NEW k \in Nonces, seal(k)
      PROVE  ReadingOK' /\ NonceOnce' /\ Remembered' /\ SeenUntilOver' /\ OncePerWindow'
  <2>1. PICK ts \in 0 .. MaxClock + REPLAY_WINDOW + 1 : sealed' = sealed \cup {[nonce |-> k, ts |-> ts]}
    BY <1>2 DEF seal
  <2>2. NonceOnce'
    BY <1>2, <2>1 DEF seal
  <2>3. QED
    BY <1>2, <2>1, <2>2 DEF seal
<1>3. ASSUME NEW r \in Readers, NEW l \in sealed, open(r, l)
      PROVE  ReadingOK' /\ NonceOnce' /\ Remembered' /\ SeenUntilOver' /\ OncePerWindow'
  BY <1>3 DEF open, MeshAuthTypeOK
<1>4. ASSUME NEW r \in Readers, dedup(r)
      PROVE  ReadingOK' /\ NonceOnce' /\ Remembered' /\ SeenUntilOver' /\ OncePerWindow'
  <2>1. ReadingOK' /\ NonceOnce'
    BY <1>4 DEF dedup, MeshAuthTypeOK
  <2>2. QED
    BY <1>4, <2>1, DedupSound
<1>5. CASE UNCHANGED authVars
  BY <1>5 DEF authVars
<1>6. QED
  BY <1>1, <1>2, <1>3, <1>4, <1>5 DEF AuthNext

(* No line is processed a second time while its window lasts, for every    *)
(* window, every set of nonces and any number of readers.                  *)
THEOREM NoReplay == AuthSpec => []OncePerWindow
<1>1. AuthInit => AuthInv
  BY MeshAuthAssumption
  DEF AuthInit, AuthInv, MeshAuthTypeOK, ReadingOK, NonceOnce, Remembered, SeenUntilOver, OncePerWindow
<1>2. AuthInv /\ [AuthNext]_authVars => AuthInv'
  BY AuthSound
<1>3. AuthInv => OncePerWindow
  BY DEF AuthInv
<1>4. QED
  BY <1>1, <1>2, <1>3, PTL DEF AuthSpec

-----------------------------------------------------------------------------
(***************************************************************************)
(* MeshRecords, for every skew of the clocks: while the history is orderly *)
(* one record leads, and what a node lacks of it is on its way to the      *)
(* node.                                                                   *)
(***************************************************************************)
(* The records, the messages and what every node keeps.                    *)
Recs == [value : Nat, owner : MeshNodes, version : Nat]
Singles == {f \in SUBSET Recs : \A r, s \in f : r = s}
Sync(r) == [type |-> "RecordSync", rec |-> r]
Messages ==
  [type : {"RecordSync"}, rec : Recs]
  \cup [type : {"RecordFetchRequest"}, request : Nat]
  \cup [type : {"RecordFetchResponse"}, request : Nat, found : Singles]

(* No node has a link to itself.                                           *)
LinkTypes ==
  {l \in [MeshNodes -> [MeshNodes -> Seq(Messages)]] : \A n \in MeshNodes : l[n][n] = <<>>}

RecordTypes ==
  /\ now \in Nat /\ asked \in Nat /\ written \in Seq(Nat)
  /\ record \in [MeshNodes -> Singles]
  /\ writing \in [MeshNodes -> SUBSET [pc : {"stamped", "stored"}, rec : Recs]]
  /\ \A n \in MeshNodes : \A w \in writing[n] : w.rec.owner = n
  /\ link \in LinkTypes
  /\ orderly \in BOOLEAN

(* A record is on its way from a node to another, or somewhere at all.     *)
Carries(a, b, r) == \E i \in DOMAIN link[a][b] : link[a][b][i] = Sync(r)

Seen(r) ==
  \/ \E n \in MeshNodes : r \in record[n]
  \/ \E n \in MeshNodes : \E w \in writing[n] : w.rec = r
  \/ \E n, m \in MeshNodes : Carries(n, m, r)

(* The newest write: every other record is older, its node is storing it   *)
(* or has it, and every other node has it or is going to get it.           *)
Newest(t) ==
  /\ \A r \in Recs : Seen(r) => r = t \/ r.version < t.version
  /\ record[t.owner] = {t} \/ [pc |-> "stamped", rec |-> t] \in writing[t.owner]
  /\ \A m \in MeshNodes \ {t.owner} :
       \/ record[m] = {t}
       \/ \E w \in writing[t.owner] : w.rec = t
       \/ Carries(t.owner, m, t)

AllTrusted == \A n, m \in MeshNodes : trust[n][m] = 100

Leading ==
  orderly => /\ AllTrusted
             /\ (\A r \in Recs : ~Seen(r)) \/ \E t \in Recs : Newest(t)

RecordInv == RecordTypes /\ Leading

-----------------------------------------------------------------------------
(* What the two ways to change a link do to the records it carries.        *)
LEMMA LinkTaken ==
  ASSUME RecordTypes, NEW m \in MeshNodes, NEW n \in MeshNodes, Takes(m, n)
  PROVE  /\ link' \in LinkTypes
         /\ Head(link[m][n]) \in Messages
         /\ \A a, b \in MeshNodes, r \in Recs :
              /\ Carries(a, b, r)' => Carries(a, b, r)
              /\ Carries(a, b, r) =>
                   Carries(a, b, r)' \/ (a = m /\ b = n /\ Head(link[m][n]) = Sync(r))
         /\ Head(link[m][n]).type = "RecordSync" =>
              /\ Head(link[m][n]).rec \in Recs
              /\ Head(link[m][n]) = Sync(Head(link[m][n]).rec)
              /\ Carries(m, n, Head(link[m][n]).rec)
<1> DEFINE q == link[m][n]
<1>1. q \in Seq(Messages) /\ q # <<>> /\ m # n
  BY DEF RecordTypes, LinkTypes, Takes
<1>2. /\ Head(q) \in Messages /\ Head(q) = q[1] /\ Tail(q) \in Seq(Messages)
      /\ Len(q) \in Nat \ {0} /\ DOMAIN q = 1 .. Len(q) /\ DOMAIN Tail(q) = 1 .. (Len(q) - 1)
      /\ \A i \in 1 .. (Len(q) - 1) : Tail(q)[i] = q[i + 1]
  BY <1>1
<1>3. link' = [link EXCEPT ![m][n] = Tail(q)]
  BY DEF Takes
<1>4. /\ link' \in LinkTypes
      /\ link'[m][n] = Tail(q)
      /\ \A a, b \in MeshNodes : ~(a = m /\ b = n) => link'[a][b] = link[a][b]
  <2>1. link' \in [MeshNodes -> [MeshNodes -> Seq(Messages)]]
    BY <1>2, <1>3 DEF RecordTypes, LinkTypes
  <2>2. /\ link'[m][n] = Tail(q)
        /\ \A a, b \in MeshNodes : ~(a = m /\ b = n) => link'[a][b] = link[a][b]
    BY <1>2, <1>3 DEF RecordTypes, LinkTypes
  <2>3. QED
    BY <1>1, <2>1, <2>2 DEF RecordTypes, LinkTypes
<1>5. ASSUME NEW a \in MeshNodes, NEW b \in MeshNodes, NEW r \in Recs
      PROVE  /\ Carries(a, b, r)' => Carries(a, b, r)
             /\ Carries(a, b, r) =>
                  Carries(a, b, r)' \/ (a = m /\ b = n /\ Head(link[m][n]) = Sync(r))
  <2>1. CASE a = m /\ b = n
    <3>1. ASSUME NEW i \in DOMAIN Tail(q), Tail(q)[i] = Sync(r)
          PROVE  \E k \in DOMAIN q : q[k] = Sync(r)
      <4>1. i + 1 \in DOMAIN q /\ q[i + 1] = Sync(r)
        BY <1>2, <3>1
      <4>2. QED
        BY <4>1
    <3>2. ASSUME NEW k \in DOMAIN q, q[k] = Sync(r)
          PROVE  q[1] = Sync(r) \/ \E i \in DOMAIN Tail(q) : Tail(q)[i] = Sync(r)
      <4>1. CASE k = 1
        BY <3>2, <4>1
      <4>2. CASE k # 1
        <5>1. k - 1 \in DOMAIN Tail(q) /\ Tail(q)[k - 1] = Sync(r)
          BY <1>2, <3>2, <4>2
        <5>2. QED
          BY <5>1
      <4>3. QED
        BY <4>1, <4>2
    <3>3. /\ Carries(m, n, r) <=> \E k \in DOMAIN q : q[k] = Sync(r)
          /\ Carries(m, n, r)' <=> \E k \in DOMAIN Tail(q) : Tail(q)[k] = Sync(r)
      BY <1>4 DEF Carries
    <3>4. Head(link[m][n]) = q[1]
      BY <1>2
    <3> HIDE DEF q
    <3>5. QED
      BY <2>1, <3>1, <3>2, <3>3, <3>4
  <2>2. CASE ~(a = m /\ b = n)
    BY <1>4, <2>2 DEF Carries
  <2>3. QED
    BY <2>1, <2>2
<1>6. ASSUME Head(q).type = "RecordSync"
      PROVE  /\ Head(q).rec \in Recs
             /\ Head(q) = Sync(Head(q).rec)
             /\ Carries(m, n, Head(q).rec)
  <2>1. Head(q) \in [type : {"RecordSync"}, rec : Recs]
    BY <1>2, <1>6 DEF Messages
  <2>2. Head(q).rec \in Recs /\ Head(q) = Sync(Head(q).rec)
    BY <2>1 DEF Sync
  <2>3. 1 \in DOMAIN q /\ q[1] = Sync(Head(q).rec)
    BY <1>2, <2>2
  <2>4. QED
    BY <2>2, <2>3 DEF Carries
<1>7. QED
  BY <1>2, <1>4, <1>5, <1>6

LEMMA LinkBroadcast ==
  ASSUME RecordTypes, NEW n \in MeshNodes, NEW msg \in Messages,
         link' = broadcast_message(n, msg)
  PROVE  /\ link' \in LinkTypes
         /\ \A a, b \in MeshNodes, r \in Recs :
              /\ Carries(a, b, r) => Carries(a, b, r)'
              /\ Carries(a, b, r)' => Carries(a, b, r) \/ msg = Sync(r)
              /\ a = n /\ b # n /\ trust[n][b] >= 50 /\ msg = Sync(r) => Carries(a, b, r)'
<1>1. ASSUME NEW b \in MeshNodes
      PROVE  /\ link[n][b] \in Seq(Messages) /\ Len(link[n][b]) \in Nat
             /\ DOMAIN link[n][b] = 1 .. Len(link[n][b])
             /\ Append(link[n][b], msg) \in Seq(Messages)
             /\ DOMAIN Append(link[n][b], msg) = 1 .. (Len(link[n][b]) + 1)
             /\ Append(link[n][b], msg)[Len(link[n][b]) + 1] = msg
             /\ \A i \in 1 .. Len(link[n][b]) : Append(link[n][b], msg)[i] = link[n][b][i]
  BY DEF RecordTypes, LinkTypes
<1>2. /\ link' \in LinkTypes
      /\ \A a, b \in MeshNodes :
           link'[a][b] = IF a = n /\ b # n /\ trust[n][b] >= 50
                         THEN Append(link[a][b], msg) ELSE link[a][b]
  BY <1>1 DEF RecordTypes, LinkTypes, broadcast_message
<1>3. ASSUME NEW a \in MeshNodes, NEW b \in MeshNodes, NEW r \in Recs
      PROVE  /\ Carries(a, b, r) => Carries(a, b, r)'
             /\ Carries(a, b, r)' => Carries(a, b, r) \/ msg = Sync(r)
             /\ a = n /\ b # n /\ trust[n][b] >= 50 /\ msg = Sync(r) => Carries(a, b, r)'
  <2>1. CASE a = n /\ b # n /\ trust[n][b] >= 50
    <3>1. link'[a][b] = Append(link[n][b], msg)
      BY <1>2, <2>1
    <3>2. ASSUME NEW i \in DOMAIN link[n][b], link[n][b][i] = Sync(r)
          PROVE  i \in DOMAIN link'[a][b] /\ link'[a][b][i] = Sync(r)
      BY <1>1, <3>1, <3>2
    <3>3. ASSUME NEW i \in DOMAIN link'[a][b], link'[a][b][i] = Sync(r)
          PROVE  msg = Sync(r) \/ (i \in DOMAIN link[n][b] /\ link[n][b][i] = Sync(r))
      BY <1>1, <3>1, <3>3
    <3>4. Len(link[n][b]) + 1 \in DOMAIN link'[a][b] /\ link'[a][b][Len(link[n][b]) + 1] = msg
      BY <1>1, <3>1
    <3>5. QED
      BY <2>1, <3>2, <3>3, <3>4 DEF Carries
  <2>2. CASE ~(a = n /\ b # n /\ trust[n][b] >= 50)
    BY <1>2, <2>2 DEF Carries
  <2>3. QED
    BY <2>1, <2>2
<1>4. QED
  BY <1>2, <1>3

(* A request is answered on the link back, with no record on its way.      *)
LEMMA LinkAnswered ==
  ASSUME RecordTypes, NEW n \in MeshNodes, NEW m \in MeshNodes, on_fetch_request(n, m)
  PROVE  /\ link' \in LinkTypes
         /\ \A a, b \in MeshNodes, r \in Recs :
              /\ Carries(a, b, r)' => Carries(a, b, r)
              /\ Carries(a, b, r) => Carries(a, b, r)'
<1> DEFINE q == link[m][n]
           p == link[n][m]
           answer == [type |-> "RecordFetchResponse", request |-> Head(q).request,
                      found |-> record[n]]
           p2 == IF trust[n][m] >= 50 THEN Append(p, answer) ELSE p
<1>1. /\ q # <<>> /\ Head(q).type = "RecordFetchRequest"
      /\ link' = [link EXCEPT ![m][n] = Tail(q),
                              ![n][m] = IF trust[n][m] >= 50 THEN Append(@, answer) ELSE @]
  BY DEF on_fetch_request
<1>2. q \in Seq(Messages) /\ p \in Seq(Messages) /\ m # n
  BY <1>1 DEF RecordTypes, LinkTypes
<1>3. /\ Head(q) \in Messages /\ Tail(q) \in Seq(Messages) /\ Head(q) = q[1]
      /\ Len(q) \in Nat \ {0} /\ DOMAIN q = 1 .. Len(q) /\ DOMAIN Tail(q) = 1 .. (Len(q) - 1)
      /\ \A i \in 1 .. (Len(q) - 1) : Tail(q)[i] = q[i + 1]
  BY <1>1, <1>2
<1>4. Head(q).request \in Nat
  BY <1>1, <1>3 DEF Messages
<1>5. answer \in Messages
  BY <1>4 DEF Messages, RecordTypes
<1>6. \A r \in Recs : answer # Sync(r) /\ Head(q) # Sync(r)
  BY <1>1 DEF Sync
<1> HIDE DEF answer
<1>7. /\ link'[m][n] = Tail(q) /\ link'[n][m] = p2
      /\ \A a, b \in MeshNodes :
           ~(a = m /\ b = n) /\ ~(a = n /\ b = m) => link'[a][b] = link[a][b]
      /\ DOMAIN link' = MeshNodes /\ \A a \in MeshNodes : DOMAIN link'[a] = MeshNodes
  BY <1>1, <1>2 DEF RecordTypes, LinkTypes
<1>8. p2 \in Seq(Messages) /\ Len(p) \in Nat
      /\ DOMAIN p2 \in {DOMAIN p, DOMAIN p \cup {Len(p) + 1}}
      /\ DOMAIN p = 1 .. Len(p)
      /\ (\A i \in DOMAIN p : p2[i] = p[i])
      /\ (Len(p) + 1 \in DOMAIN p2 => p2[Len(p) + 1] = answer)
  BY <1>2, <1>5
<1> HIDE DEF p2, q, p
<1>9. link' \in LinkTypes
  <2>1. \A a, b \in MeshNodes : link'[a][b] \in Seq(Messages)
    <3> SUFFICES ASSUME NEW a \in MeshNodes, NEW b \in MeshNodes
                 PROVE  link'[a][b] \in Seq(Messages)
      OBVIOUS
    <3>1. link[a][b] \in Seq(Messages)
      BY DEF RecordTypes, LinkTypes
    <3>2. QED
      BY <1>3, <1>7, <1>8, <3>1
  <2>2. link' \in [MeshNodes -> [MeshNodes -> Seq(Messages)]]
    <3>1. link' = [a \in MeshNodes |-> link'[a]]
      BY <1>1, <1>7
    <3>2. \A a \in MeshNodes : link'[a] \in [MeshNodes -> Seq(Messages)]
      <4> SUFFICES ASSUME NEW a \in MeshNodes PROVE link'[a] \in [MeshNodes -> Seq(Messages)]
        OBVIOUS
      <4>1. \/ link'[a] = [link[a] EXCEPT ![n] = link'[a][n]]
            \/ link'[a] = [link[a] EXCEPT ![m] = link'[a][m]]
            \/ link'[a] = link[a]
        <5>1. link \in [MeshNodes -> [MeshNodes -> Seq(Messages)]]
          BY DEF RecordTypes, LinkTypes
        <5>2. QED
          BY <1>1, <1>2, <5>1
      <4>2. link[a] \in [MeshNodes -> Seq(Messages)]
        BY DEF RecordTypes, LinkTypes
      <4>3. QED
        BY <2>1, <4>1, <4>2
    <3>3. QED
      BY <3>1, <3>2
  <2>3. ASSUME NEW a \in MeshNodes PROVE link'[a][a] = <<>>
    <3>1. link[a][a] = <<>>
      BY DEF RecordTypes, LinkTypes
    <3>2. link'[a][a] = link[a][a]
      BY <1>2, <1>7
    <3>3. QED
      BY <3>1, <3>2
  <2>4. QED
    BY <2>2, <2>3 DEF LinkTypes
<1>10. ASSUME NEW a \in MeshNodes, NEW b \in MeshNodes, NEW r \in Recs
       PROVE  /\ Carries(a, b, r)' => Carries(a, b, r)
              /\ Carries(a, b, r) => Carries(a, b, r)'
  <2>1. CASE a = m /\ b = n
    <3>1. ASSUME NEW i \in DOMAIN Tail(q), Tail(q)[i] = Sync(r)
          PROVE  \E k \in DOMAIN q : q[k] = Sync(r)
      <4>1. i + 1 \in DOMAIN q /\ q[i + 1] = Sync(r)
        BY <1>3, <3>1
      <4>2. QED
        BY <4>1
    <3>2. ASSUME NEW k \in DOMAIN q, q[k] = Sync(r)
          PROVE  \E i \in DOMAIN Tail(q) : Tail(q)[i] = Sync(r)
      <4>1. k # 1
        BY <1>3, <1>6, <3>2
      <4>2. k - 1 \in DOMAIN Tail(q) /\ Tail(q)[k - 1] = Sync(r)
        BY <1>3, <3>2, <4>1
      <4>3. QED
        BY <4>2
    <3>3. /\ Carries(m, n, r) <=> \E k \in DOMAIN q : q[k] = Sync(r)
          /\ Carries(m, n, r)' <=> \E k \in DOMAIN Tail(q) : Tail(q)[k] = Sync(r)
      BY <1>7 DEF Carries, q
    <3>4. QED
      BY <2>1, <3>1, <3>2, <3>3
  <2>2. CASE a = n /\ b = m
    <3>1. /\ Carries(n, m, r) <=> \E k \in DOMAIN p : p[k] = Sync(r)
          /\ Carries(n, m, r)' <=> \E k \in DOMAIN p2 : p2[k] = Sync(r)
      BY <1>7 DEF Carries, p
    <3>2. QED
      BY <1>6, <1>8, <2>2, <3>1
  <2>3. CASE ~(a = m /\ b = n) /\ ~(a = n /\ b = m)
    BY <1>7, <2>3 DEF Carries
  <2>4. QED
    BY <2>1, <2>2, <2>3
<1>11. QED
  BY <1>9, <1>10

(* The initial state has no record.                                        *)
LEMMA RecordInvInit == MeshInit => RecordInv
<1> SUFFICES ASSUME MeshInit PROVE RecordInv
  OBVIOUS
<1>1. link \in LinkTypes
  BY DEF MeshInit, LinkTypes
<1>2. RecordTypes
  <2>1. written \in Seq(Nat)
    BY DEF MeshInit
  <2>2. QED
    BY <1>1, <2>1 DEF MeshInit, RecordTypes, Singles
<1>3. \A r \in Recs : ~Seen(r)
  BY DEF MeshInit, Seen, Carries
<1>4. AllTrusted
  BY DEF MeshInit, AllTrusted
<1>5. QED
  BY <1>2, <1>3, <1>4 DEF RecordInv, Leading

LEMMA RecordTyping == RecordTypes /\ [MeshNext]_meshVars => RecordTypes'
<1> SUFFICES ASSUME RecordTypes, [MeshNext]_meshVars PROVE RecordTypes'
  OBVIOUS
<1> USE MeshAssumption
<1>1. CASE MillisPass
  BY <1>1 DEF MillisPass, RecordTypes
<1>2. ASSUME NEW n \in MeshNodes, sync_record(n) PROVE RecordTypes'
  <2> DEFINE r == [value |-> Len(written) + 1, owner |-> n, version |-> now_millis(n)]
             w == [pc |-> "stamped", rec |-> r]
  <2>1. now_millis(n) \in Nat /\ Len(written) + 1 \in Nat
    BY DEF now_millis, RecordTypes
  <2>2. w \in [pc : {"stamped", "stored"}, rec : Recs] /\ w.rec.owner = n
    BY <2>1 DEF Recs
  <2>3. writing' = [writing EXCEPT ![n] = @ \cup {w}]
    BY <1>2 DEF sync_record
  <2>4. written' \in Seq(Nat)
    BY <1>2, <2>1 DEF sync_record, RecordTypes
  <2> HIDE DEF w
  <2>5. /\ writing' \in [MeshNodes -> SUBSET [pc : {"stamped", "stored"}, rec : Recs]]
        /\ \A m \in MeshNodes : \A x \in writing'[m] : x.rec.owner = m
    BY <2>2, <2>3 DEF RecordTypes
  <2>6. orderly' \in BOOLEAN
    BY <1>2 DEF sync_record
  <2>7. QED
    BY <1>2, <2>4, <2>5, <2>6 DEF sync_record, RecordTypes
<1>3. ASSUME NEW n \in MeshNodes, NEW w \in writing[n], store(n, w) PROVE RecordTypes'
  <2> DEFINE x == [w EXCEPT !.pc = "stored"]
  <2>1. /\ w \in [pc : {"stamped", "stored"}, rec : Recs] /\ w.rec.owner = n
    BY DEF RecordTypes
  <2>2. x \in [pc : {"stamped", "stored"}, rec : Recs] /\ x.rec = w.rec
    BY <2>1
  <2>3. writing' = [writing EXCEPT ![n] = (@ \ {w}) \cup {x}]
    BY <1>3 DEF store
  <2> HIDE DEF x
  <2>4. /\ writing' \in [MeshNodes -> SUBSET [pc : {"stamped", "stored"}, rec : Recs]]
        /\ \A m \in MeshNodes : \A y \in writing'[m] : y.rec.owner = m
    BY <2>1, <2>2, <2>3 DEF RecordTypes
  <2>5. record' \in [MeshNodes -> Singles]
    BY <1>3, <2>1 DEF store, RecordTypes, Singles
  <2>6. orderly' \in BOOLEAN
    BY <1>3 DEF store
  <2>7. QED
    BY <1>3, <2>4, <2>5, <2>6 DEF store, RecordTypes
<1>4. ASSUME NEW n \in MeshNodes, NEW w \in writing[n], broadcast(n, w) PROVE RecordTypes'
  <2>1. w.rec \in Recs
    BY DEF RecordTypes
  <2>2. Sync(w.rec) \in Messages /\ link' = broadcast_message(n, Sync(w.rec))
    BY <1>4, <2>1 DEF Sync, Messages, broadcast
  <2>3. link' \in LinkTypes
    BY <2>2, LinkBroadcast
  <2>4. /\ writing' \in [MeshNodes -> SUBSET [pc : {"stamped", "stored"}, rec : Recs]]
        /\ \A m \in MeshNodes : writing'[m] \subseteq writing[m]
    BY <1>4 DEF broadcast, RecordTypes
  <2>5. QED
    BY <1>4, <2>3, <2>4 DEF broadcast, RecordTypes
<1>5. ASSUME NEW n \in MeshNodes, NEW m \in MeshNodes, on_record_sync(n, m) PROVE RecordTypes'
  <2>1. /\ link' \in LinkTypes
        /\ Head(link[m][n]).rec \in Recs
    BY <1>5, LinkTaken DEF on_record_sync
  <2>2. \/ record' = [record EXCEPT ![n] = {Head(link[m][n]).rec}]
        \/ record' = [record EXCEPT ![n] = record[n]]
    BY <1>5 DEF on_record_sync
  <2>3. record' \in [MeshNodes -> Singles]
    <3>1. {Head(link[m][n]).rec} \in Singles
      BY <2>1 DEF Singles
    <3>2. QED
      BY <2>2, <3>1 DEF RecordTypes
  <2>4. QED
    BY <1>5, <2>1, <2>3 DEF on_record_sync, RecordTypes
<1>6. ASSUME NEW n \in MeshNodes, NEW m \in MeshNodes, on_fetch_request(n, m) PROVE RecordTypes'
  <2>1. link' \in LinkTypes
    BY <1>6, LinkAnswered
  <2>2. QED
    BY <1>6, <2>1 DEF on_fetch_request, RecordTypes
<1>7. ASSUME NEW n \in MeshNodes, NEW m \in MeshNodes, on_fetch_response(n, m) PROVE RecordTypes'
  <2> DEFINE msg == Head(link[m][n])
  <2>1. /\ link' \in LinkTypes
        /\ msg \in Messages /\ msg.type = "RecordFetchResponse"
    BY <1>7, LinkTaken DEF on_fetch_response
  <2>2. msg.found \in Singles
    BY <2>1 DEF Messages
  <2>3. orderly' \in BOOLEAN
    BY <1>7 DEF on_fetch_response
  <2>4. \/ record' = [record EXCEPT ![n] =
             {[value |-> r.value, owner |-> m, version |-> now_millis(n)] : r \in msg.found}]
        \/ record' = [record EXCEPT ![n] = record[n]]
    BY <1>7 DEF on_fetch_response
  <2>5. now_millis(n) \in Nat
    BY DEF now_millis, RecordTypes
  <2>6. record' \in [MeshNodes -> Singles]
    <3>1. {[value |-> r.value, owner |-> m, version |-> now_millis(n)] : r \in msg.found} \in Singles
      BY <2>2, <2>5 DEF Singles, Recs
    <3>2. QED
      BY <2>4, <3>1 DEF RecordTypes
  <2>7. QED
    BY <1>7, <2>1, <2>3, <2>6 DEF on_fetch_response, RecordTypes
<1>8. ASSUME NEW n \in MeshNodes, fetch_record(n) PROVE RecordTypes'
  <2>1. [type |-> "RecordFetchRequest", request |-> asked + 1] \in Messages
    BY DEF Messages, RecordTypes
  <2>2. link' \in LinkTypes
    BY <1>8, <2>1, LinkBroadcast DEF fetch_record
  <2>3. QED
    BY <1>8, <2>2 DEF fetch_record, RecordTypes
<1>9. ASSUME NEW n \in MeshNodes, fetch_times_out(n) PROVE RecordTypes'
  BY <1>9 DEF fetch_times_out, RecordTypes
<1>10. ASSUME NEW n \in MeshNodes, NEW m \in MeshNodes, LinkBreaks(n, m) PROVE RecordTypes'
  <2>1. <<>> \in Seq(Messages) /\ link' = [link EXCEPT ![n][m] = <<>>]
    BY <1>10 DEF LinkBreaks
  <2>2. link' \in LinkTypes
    <3>1. link' \in [MeshNodes -> [MeshNodes -> Seq(Messages)]]
      BY <2>1 DEF RecordTypes, LinkTypes
    <3>2. \A k \in MeshNodes : link'[k][k] = <<>>
      BY <2>1 DEF RecordTypes, LinkTypes
    <3>3. QED
      BY <3>1, <3>2 DEF LinkTypes
  <2>3. orderly' \in BOOLEAN
    BY <1>10 DEF LinkBreaks
  <2>4. QED
    BY <1>10, <2>2, <2>3 DEF LinkBreaks, RecordTypes
<1>11. ASSUME NEW n \in MeshNodes, NEW m \in MeshNodes, NEW score \in Scores,
              set_trust_score(n, m, score)
       PROVE  RecordTypes'
  <2>0. link' = link \/ link' = [link EXCEPT ![n][m] = <<>>]
    BY <1>11 DEF set_trust_score
  <2>1. link' \in LinkTypes
    <3>1. CASE link' = link
      BY <3>1 DEF RecordTypes
    <3>2. CASE link' = [link EXCEPT ![n][m] = <<>>]
      <4>1. <<>> \in Seq(Messages)
        OBVIOUS
      <4>2. link' \in [MeshNodes -> [MeshNodes -> Seq(Messages)]]
        BY <3>2, <4>1 DEF RecordTypes, LinkTypes
      <4>3. \A k \in MeshNodes : link'[k][k] = <<>>
        BY <3>2 DEF RecordTypes, LinkTypes
      <4>4. QED
        BY <4>2, <4>3 DEF LinkTypes
    <3>3. QED
      BY <2>0, <3>1, <3>2
  <2>2. QED
    BY <1>11, <2>1 DEF set_trust_score, RecordTypes
<1>12. CASE UNCHANGED meshVars
  BY <1>12 DEF meshVars, RecordTypes
<1>13. QED
  BY <1>1, <1>2, <1>3, <1>4, <1>5, <1>6, <1>7, <1>8, <1>9, <1>10, <1>11, <1>12 DEF MeshNext

LEMMA LeadingNext == RecordInv /\ [MeshNext]_meshVars => Leading'
<1> SUFFICES ASSUME RecordInv, [MeshNext]_meshVars, orderly' PROVE Leading'
  BY DEF Leading
<1> USE MeshAssumption
<1>t. RecordTypes /\ RecordTypes'
  BY RecordTyping DEF RecordInv
<1>o. orderly
  <2>1. ASSUME NEW n \in MeshNodes,
               \/ sync_record(n) \/ fetch_record(n) \/ fetch_times_out(n)
               \/ \E w \in writing[n] : store(n, w) \/ broadcast(n, w)
        PROVE  orderly
    BY <2>1 DEF sync_record, fetch_record, fetch_times_out, store, broadcast
  <2>2. ASSUME NEW n \in MeshNodes, NEW m \in MeshNodes,
               \/ on_record_sync(n, m) \/ on_fetch_request(n, m)
               \/ on_fetch_response(n, m) \/ LinkBreaks(n, m)
               \/ \E score \in Scores : set_trust_score(n, m, score)
        PROVE  orderly
    BY <2>2 DEF on_record_sync, on_fetch_request, on_fetch_response, LinkBreaks, set_trust_score
  <2>3. QED
    BY <2>1, <2>2 DEF MeshNext, MillisPass, meshVars
<1>l. AllTrusted /\ ((\A r \in Recs : ~Seen(r)) \/ \E t \in Recs : Newest(t))
  BY <1>o DEF RecordInv, Leading
\* Steps that move no record.
<1>q. ASSUME UNCHANGED <<record, writing, trust>>,
             \A a, b \in MeshNodes, r \in Recs : Carries(a, b, r)' <=> Carries(a, b, r)
      PROVE  Leading'
  <2>1. \A r \in Recs : Seen(r)' <=> Seen(r)
    BY <1>q DEF Seen
  <2>2. ASSUME NEW t \in Recs, Newest(t) PROVE Newest(t)'
    <3>1. t.owner \in MeshNodes
      BY DEF Recs
    <3>2. QED
      BY <1>q, <2>1, <2>2, <3>1 DEF Newest
  <2>3. AllTrusted'
    BY <1>l, <1>q DEF AllTrusted
  <2>4. QED
    BY <1>l, <2>1, <2>2, <2>3 DEF Leading
<1>1. ASSUME UNCHANGED <<record, writing, trust, link>> PROVE Leading'
  <2>1. \A a, b \in MeshNodes, r \in Recs : Carries(a, b, r)' <=> Carries(a, b, r)
    BY <1>1 DEF Carries
  <2>2. QED
    BY <1>1, <1>q, <2>1
<1>2. ASSUME NEW n \in MeshNodes, sync_record(n) PROVE Leading'
  <2>0. PICK r : r = [value |-> Len(written) + 1, owner |-> n, version |-> now_millis(n)]
    OBVIOUS
  <2> DEFINE w == [pc |-> "stamped", rec |-> r]
  <2>1. now_millis(n) \in Nat /\ Len(written) + 1 \in Nat
    BY <1>t DEF now_millis, RecordTypes
  <2>2. r \in Recs /\ r.owner = n /\ w.rec = r
    BY <2>0, <2>1 DEF Recs
  <2>3. /\ writing' = [writing EXCEPT ![n] = @ \cup {w}]
        /\ UNCHANGED <<record, link, trust>>
        /\ Latest(r.version)
    BY <1>2, <2>0 DEF sync_record
  <2>4. /\ w \in writing'[n] /\ w = [pc |-> "stamped", rec |-> r]
        /\ \A m \in MeshNodes : \A x \in writing'[m] : x \in writing[m] \/ x = w
    BY <1>t, <2>3 DEF RecordTypes
  <2> HIDE DEF w
  <2>5. \A x \in Recs : Seen(x)' => Seen(x) \/ x = r
    BY <2>2, <2>3, <2>4 DEF Seen, Carries
  <2>6. \A x \in Recs : Seen(x) => x.version < r.version
    <3> SUFFICES ASSUME NEW x \in Recs, Seen(x) PROVE x.version < r.version
      OBVIOUS
    <3>1. PICK t \in Recs : Newest(t)
      BY <1>l
    <3>2. t.owner \in MeshNodes /\ [pc |-> "stamped", rec |-> t].rec = t
      BY DEF Recs
    <3>3. t.version < r.version
      BY <2>3, <3>1, <3>2 DEF Latest, Newest
    <3>4. x = t \/ x.version < t.version
      BY <3>1 DEF Newest
    <3>5. x.version \in Nat /\ t.version \in Nat /\ r.version \in Nat
      BY <2>2 DEF Recs
    <3>6. QED
      BY <3>3, <3>4, <3>5
  <2>7. Newest(r)'
    <3>1. \A x \in Recs : Seen(x)' => x = r \/ x.version < r.version
      BY <2>5, <2>6
    <3>2. [pc |-> "stamped", rec |-> r] \in writing'[r.owner] /\ \E x \in writing'[r.owner] : x.rec = r
      BY <2>2, <2>4
    <3>3. QED
      BY <3>1, <3>2 DEF Newest
  <2>8. AllTrusted'
    BY <1>l, <2>3 DEF AllTrusted
  <2>9. QED
    BY <2>2, <2>7, <2>8 DEF Leading
\* A write is stored, after whatever its node had.
<1>3. ASSUME NEW n \in MeshNodes, NEW w \in writing[n], store(n, w) PROVE Leading'
  <2>1. PICK x : x = [w EXCEPT !.pc = "stored"]
    OBVIOUS
  <2>2. /\ w \in [pc : {"stamped", "stored"}, rec : Recs] /\ w.rec.owner = n /\ w.rec \in Recs
        /\ w.pc = "stamped" /\ w = [pc |-> "stamped", rec |-> w.rec]
    BY <1>t, <1>3 DEF RecordTypes, store
  <2>3. x.rec = w.rec /\ x.pc = "stored"
    BY <2>1, <2>2
  <2>4. /\ record' = [record EXCEPT ![n] = {w.rec}]
        /\ writing' = [writing EXCEPT ![n] = (@ \ {w}) \cup {x}]
        /\ UNCHANGED <<link, trust>>
        /\ \A r \in record[n] : r.version < w.rec.version
    BY <1>3, <2>1 DEF store
  <2>5. /\ record'[n] = {w.rec} /\ \A m \in MeshNodes \ {n} : record'[m] = record[m]
        /\ writing'[n] = (writing[n] \ {w}) \cup {x}
        /\ \A m \in MeshNodes \ {n} : writing'[m] = writing[m]
    BY <1>t, <2>4 DEF RecordTypes
  <2>6. \A a, b \in MeshNodes, r \in Recs : Carries(a, b, r)' <=> Carries(a, b, r)
    BY <2>4 DEF Carries
  <2>7. \A r \in Recs : Seen(r)' => Seen(r)
    <3> SUFFICES ASSUME NEW r \in Recs, Seen(r)' PROVE Seen(r)
      OBVIOUS
    <3>1. CASE \E m \in MeshNodes : r \in record'[m]
      BY <2>5, <3>1 DEF Seen
    <3>2. CASE \E m \in MeshNodes : \E y \in writing'[m] : y.rec = r
      BY <2>3, <2>5, <3>2 DEF Seen
    <3>3. CASE \E a, b \in MeshNodes : Carries(a, b, r)'
      BY <2>6, <3>3 DEF Seen
    <3>4. QED
      BY <3>1, <3>2, <3>3 DEF Seen
  <2>8. Seen(w.rec)
    BY DEF Seen
  <2>9. PICK t \in Recs : Newest(t)
    BY <1>l, <2>2, <2>8
  <2>10. w.rec = t \/ w.rec.version < t.version
    BY <2>2, <2>8, <2>9 DEF Newest
  <2>11. t.owner \in MeshNodes /\ t.version \in Nat /\ w.rec.version \in Nat
    BY <2>2 DEF Recs
  <2>12. record[n] # {t} \/ w.rec = t
    BY <2>4, <2>10, <2>11
  <2>13. Newest(t)'
    <3>1. record'[t.owner] = {t} \/ [pc |-> "stamped", rec |-> t] \in writing'[t.owner]
      <4>1. CASE t.owner = n
        <5>1. CASE w.rec = t
          BY <2>5, <4>1, <5>1
        <5>2. CASE w.rec # t
          BY <2>2, <2>5, <2>9, <2>12, <4>1, <5>2 DEF Newest
        <5>3. QED
          BY <5>1, <5>2
      <4>2. CASE t.owner # n
        BY <2>5, <2>9, <2>11, <4>2 DEF Newest
      <4>3. QED
        BY <4>1, <4>2
    <3>2. ASSUME NEW m \in MeshNodes \ {t.owner}
          PROVE  \/ record'[m] = {t}
                 \/ \E y \in writing'[t.owner] : y.rec = t
                 \/ Carries(t.owner, m, t)'
      <4>1. CASE record[m] = {t}
        <5>1. m # n
          BY <2>2, <2>12, <3>2, <4>1
        <5>2. QED
          BY <2>5, <4>1, <5>1
      <4>2. CASE \E y \in writing[t.owner] : y.rec = t
        BY <2>3, <2>5, <2>11, <4>2
      <4>3. CASE Carries(t.owner, m, t)
        BY <2>6, <2>11, <4>3
      <4>4. QED
        BY <2>9, <4>1, <4>2, <4>3 DEF Newest
    <3>3. QED
      BY <2>7, <2>9, <3>1, <3>2 DEF Newest
  <2>14. AllTrusted'
    BY <1>l, <2>4 DEF AllTrusted
  <2>15. QED
    BY <2>13, <2>14 DEF Leading
<1>4. ASSUME NEW n \in MeshNodes, NEW w \in writing[n], broadcast(n, w) PROVE Leading'
  <2>1. w.rec \in Recs /\ w.rec.owner = n /\ w.pc = "stored"
    BY <1>t, <1>4 DEF RecordTypes, broadcast
  <2>2. Sync(w.rec) \in Messages /\ link' = broadcast_message(n, Sync(w.rec))
    BY <1>4, <2>1 DEF Sync, Messages, broadcast
  <2>3. \A a, b \in MeshNodes, r \in Recs :
          /\ Carries(a, b, r) => Carries(a, b, r)'
          /\ Carries(a, b, r)' => Carries(a, b, r) \/ r = w.rec
          /\ a = n /\ b # n /\ r = w.rec => Carries(a, b, r)'
    <3>1. \A b \in MeshNodes : trust[n][b] >= 50
      BY <1>l DEF AllTrusted
    <3>2. \A r : Sync(w.rec) = Sync(r) <=> r = w.rec
      BY DEF Sync
    <3>3. QED
      BY <1>t, <2>2, <3>1, <3>2, LinkBroadcast
  <2>4. /\ writing'[n] = writing[n] \ {w}
        /\ \A m \in MeshNodes \ {n} : writing'[m] = writing[m]
        /\ UNCHANGED <<record, trust>>
    BY <1>t, <1>4 DEF broadcast, RecordTypes
  <2>5. Seen(w.rec)
    BY DEF Seen
  <2>6. \A r \in Recs : Seen(r)' => Seen(r)
    BY <2>3, <2>4, <2>5 DEF Seen
  <2>7. PICK t \in Recs : Newest(t)
    BY <1>l, <2>1, <2>5
  <2>8. t.owner \in MeshNodes
    BY DEF Recs
  <2>9. Newest(t)'
    <3>1. record'[t.owner] = {t} \/ [pc |-> "stamped", rec |-> t] \in writing'[t.owner]
      <4>1. w # [pc |-> "stamped", rec |-> t]
        BY <2>1
      <4>2. QED
        BY <2>4, <2>7, <2>8, <4>1 DEF Newest
    <3>2. ASSUME NEW m \in MeshNodes \ {t.owner}
          PROVE  \/ record'[m] = {t}
                 \/ \E y \in writing'[t.owner] : y.rec = t
                 \/ Carries(t.owner, m, t)'
      <4>1. CASE record[m] = {t}
        BY <2>4, <4>1
      <4>2. CASE \E y \in writing[t.owner] : y.rec = t
        <5>1. PICK y \in writing[t.owner] : y.rec = t
          BY <4>2
        <5>2. CASE y = w /\ t.owner = n
          <6>1. Carries(n, m, t)'
            BY <2>1, <2>3, <3>2, <5>1, <5>2
          <6>2. QED
            BY <5>2, <6>1
        <5>3. CASE ~(y = w /\ t.owner = n)
          BY <2>4, <2>8, <5>1, <5>3
        <5>4. QED
          BY <5>2, <5>3
      <4>3. CASE Carries(t.owner, m, t)
        BY <2>3, <2>8, <4>3
      <4>4. QED
        BY <2>7, <4>1, <4>2, <4>3 DEF Newest
    <3>3. QED
      BY <2>6, <2>7, <3>1, <3>2 DEF Newest
  <2>10. AllTrusted'
    BY <1>l, <2>4 DEF AllTrusted
  <2>11. QED
    BY <2>9, <2>10 DEF Leading
\* What arrives replaces what is older, and nothing that is newer.
<1>5. ASSUME NEW n \in MeshNodes, NEW m \in MeshNodes, on_record_sync(n, m) PROVE Leading'
  <2>1. PICK rec : rec = Head(link[m][n]).rec
    OBVIOUS
  <2>2. /\ rec \in Recs /\ Head(link[m][n]) = Sync(rec) /\ Carries(m, n, rec)
        /\ \A a, b \in MeshNodes, r \in Recs :
              /\ Carries(a, b, r)' => Carries(a, b, r)
              /\ Carries(a, b, r) =>
                   Carries(a, b, r)' \/ (a = m /\ b = n /\ Head(link[m][n]) = Sync(r))
    BY <1>t, <1>5, <2>1, LinkTaken DEF on_record_sync
  <2>3. \A a, b \in MeshNodes, r \in Recs :
          Carries(a, b, r) => Carries(a, b, r)' \/ (a = m /\ b = n /\ r = rec)
    <3>1. \A r \in Recs : Sync(rec) = Sync(r) => r = rec
      BY DEF Sync
    <3>2. QED
      BY <2>2, <3>1
  <2>4. /\ UNCHANGED <<writing, trust>>
        /\ record' = [record EXCEPT ![n] =
             IF trust[n][m] >= 50 /\ trust[n][rec.owner] >= 50
                /\ \A old \in @ : should_update(n, rec, old)
             THEN {rec} ELSE @]
    BY <1>5, <2>1 DEF on_record_sync
  <2>5. \A r \in Recs : should_update(n, rec, r) <=>
          \/ rec.version > r.version
          \/ rec.version = r.version /\ before[rec.owner] < before[r.owner]
    <3>1. trust[n][rec.owner] = 100 /\ \A r \in Recs : trust[n][r.owner] = 100
      BY <1>l, <2>2 DEF AllTrusted, Recs
    <3>2. QED
      BY <3>1 DEF should_update
  <2>6. /\ record'[n] = IF \A old \in record[n] : should_update(n, rec, old) THEN {rec} ELSE record[n]
        /\ \A k \in MeshNodes \ {n} : record'[k] = record[k]
    <3>1. trust[n][m] = 100 /\ trust[n][rec.owner] = 100
      BY <1>l, <2>2 DEF AllTrusted, Recs
    <3>2. QED
      BY <1>t, <2>4, <3>1 DEF RecordTypes
  <2>7. Seen(rec)
    BY <2>2 DEF Seen
  <2>8. \A r \in Recs : Seen(r)' => Seen(r)
    <3> SUFFICES ASSUME NEW r \in Recs, Seen(r)' PROVE Seen(r)
      OBVIOUS
    <3>1. CASE \E k \in MeshNodes : r \in record'[k]
      BY <2>6, <2>7, <3>1 DEF Seen
    <3>2. CASE \E k \in MeshNodes : \E y \in writing'[k] : y.rec = r
      BY <2>4, <3>2 DEF Seen
    <3>3. CASE \E a, b \in MeshNodes : Carries(a, b, r)'
      BY <2>2, <3>3 DEF Seen
    <3>4. QED
      BY <3>1, <3>2, <3>3 DEF Seen
  <2>9. PICK t \in Recs : Newest(t)
    BY <1>l, <2>2, <2>7
  <2>10. t.owner \in MeshNodes /\ t.version \in Nat /\ rec.version \in Nat
    BY <2>2 DEF Recs
  <2>11. record[n] = {t} => record'[n] = {t}
    <3>1. CASE rec = t
      BY <2>6, <3>1
    <3>2. CASE rec # t
      <4>1. rec.version < t.version
        BY <2>2, <2>7, <2>9, <3>2 DEF Newest
      <4>2. ~should_update(n, rec, t)
        BY <2>5, <2>10, <4>1
      <4>3. QED
        BY <2>6, <4>2
    <3>3. QED
      BY <3>1, <3>2
  <2>12. rec = t => record'[n] = {t}
    <3> SUFFICES ASSUME rec = t PROVE record'[n] = {t}
      OBVIOUS
    <3>1. record[n] \subseteq Recs /\ \A r, s \in record[n] : r = s
      BY <1>t DEF RecordTypes, Singles
    <3>2. CASE t \in record[n]
      <4>1. record[n] = {t}
        BY <3>1, <3>2
      <4>2. QED
        BY <2>11, <4>1
    <3>3. CASE t \notin record[n]
      <4>1. ASSUME NEW old \in record[n] PROVE should_update(n, rec, old)
        <5>1. old \in Recs /\ Seen(old)
          BY <3>1 DEF Seen
        <5>2. old.version < t.version /\ old.version \in Nat
          BY <2>9, <3>3, <5>1 DEF Newest, Recs
        <5>3. QED
          BY <2>5, <2>10, <5>1, <5>2
      <4>2. QED
        BY <2>6, <4>1
    <3>4. QED
      BY <3>2, <3>3
  <2>13. Newest(t)'
    <3>1. record'[t.owner] = {t} \/ [pc |-> "stamped", rec |-> t] \in writing'[t.owner]
      BY <2>4, <2>6, <2>9, <2>10, <2>11 DEF Newest
    <3>2. ASSUME NEW k \in MeshNodes \ {t.owner}
          PROVE  \/ record'[k] = {t}
                 \/ \E y \in writing'[t.owner] : y.rec = t
                 \/ Carries(t.owner, k, t)'
      <4>1. CASE record[k] = {t}
        BY <2>6, <2>11, <4>1
      <4>2. CASE \E y \in writing[t.owner] : y.rec = t
        BY <2>4, <4>2
      <4>3. CASE Carries(t.owner, k, t)
        BY <2>3, <2>10, <2>12, <4>3
      <4>4. QED
        BY <2>9, <4>1, <4>2, <4>3 DEF Newest
    <3>3. QED
      BY <2>8, <2>9, <3>1, <3>2 DEF Newest
  <2>14. AllTrusted'
    BY <1>l, <2>4 DEF AllTrusted
  <2>15. QED
    BY <2>13, <2>14 DEF Leading
<1>6. ASSUME NEW n \in MeshNodes, NEW m \in MeshNodes, on_fetch_request(n, m) PROVE Leading'
  BY <1>t, <1>6, <1>q, LinkAnswered DEF on_fetch_request
\* An answer that is stored ends the orderly phase.
<1>7. ASSUME NEW n \in MeshNodes, NEW m \in MeshNodes, on_fetch_response(n, m) PROVE Leading'
  <2>1. record' = [record EXCEPT ![n] = record[n]] /\ UNCHANGED <<writing, trust>>
        /\ Takes(m, n) /\ Head(link[m][n]).type = "RecordFetchResponse"
    BY <1>7 DEF on_fetch_response
  <2>2. record' = record
    BY <1>t, <2>1 DEF RecordTypes
  <2>3. \A r : Head(link[m][n]) # Sync(r)
    BY <2>1 DEF Sync
  <2>4. \A a, b \in MeshNodes, r \in Recs : Carries(a, b, r)' <=> Carries(a, b, r)
    BY <1>t, <2>1, <2>3, LinkTaken
  <2>5. QED
    BY <1>q, <2>1, <2>2, <2>4
<1>8. ASSUME NEW n \in MeshNodes, fetch_record(n) PROVE Leading'
  <2>1. PICK msg : msg = [type |-> "RecordFetchRequest", request |-> asked + 1]
    OBVIOUS
  <2>2. msg \in Messages /\ \A r : msg # Sync(r)
    BY <1>t, <2>1 DEF Messages, RecordTypes, Sync
  <2>3. \A a, b \in MeshNodes, r \in Recs : Carries(a, b, r)' <=> Carries(a, b, r)
    BY <1>t, <1>8, <2>1, <2>2, LinkBroadcast DEF fetch_record
  <2>4. QED
    BY <1>8, <1>q, <2>3 DEF fetch_record
<1>9. ASSUME NEW n \in MeshNodes, fetch_times_out(n) PROVE Leading'
  BY <1>1, <1>9 DEF fetch_times_out
<1>10. CASE MillisPass
  BY <1>1, <1>10 DEF MillisPass
<1>11. CASE UNCHANGED meshVars
  BY <1>1, <1>11 DEF meshVars
<1>12. ASSUME NEW n \in MeshNodes, NEW m \in MeshNodes,
              LinkBreaks(n, m) \/ \E score \in Scores : set_trust_score(n, m, score)
       PROVE  FALSE
  BY <1>12 DEF LinkBreaks, set_trust_score
<1>13. QED
  BY <1>2, <1>3, <1>4, <1>5, <1>6, <1>7, <1>8, <1>9, <1>10, <1>11, <1>12 DEF MeshNext

(* As long as the writes came one after another and nothing was lost,      *)
(* fetched or distrusted, all nodes have the same record once nothing is   *)
(* on its way, for any number of nodes, any clocks, and in whatever order  *)
(* the broadcasts came.                                                    *)
THEOREM RecordsConverge == MeshSpec => []Converged
<1>1. RecordInv /\ [MeshNext]_meshVars => RecordInv'
  BY RecordTyping, LeadingNext DEF RecordInv
<1>2. MeshSpec => []RecordInv
  BY <1>1, RecordInvInit, PTL DEF MeshSpec
<1>3. ASSUME RecordInv PROVE Converged
  <2> SUFFICES ASSUME orderly,
                      \A n \in MeshNodes : writing[n] = {} /\ \A m \in MeshNodes : link[n][m] = <<>>,
                      NEW n \in MeshNodes, NEW m \in MeshNodes
               PROVE  record[n] = record[m]
    BY DEF Converged
  <2>1. CASE \A r \in Recs : ~Seen(r)
    <3>1. \A k \in MeshNodes : record[k] \subseteq Recs
      BY <1>3 DEF RecordInv, RecordTypes, Singles
    <3>2. record[n] = {} /\ record[m] = {}
      BY <2>1, <3>1 DEF Seen
    <3>3. QED
      BY <3>2
  <2>2. CASE \E t \in Recs : Newest(t)
    <3>1. PICK t \in Recs : Newest(t)
      BY <2>2
    <3>2. t.owner \in MeshNodes
      BY DEF Recs
    <3>3. \A k \in MeshNodes : ~Carries(t.owner, k, t)
      BY <3>2 DEF Carries
    <3>4. \A k \in MeshNodes : record[k] = {t}
      BY <3>1, <3>2, <3>3 DEF Newest
    <3>5. QED
      BY <3>4
  <2>3. QED
    BY <1>3, <2>1, <2>2 DEF RecordInv, Leading
<1>4. QED
  BY <1>2, <1>3, PTL
=============================================================================
