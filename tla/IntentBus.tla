----------------------------- MODULE IntentBus -----------------------------
(***************************************************************************)
(* The broadcast bus of intents (intent-bus/src/lib.rs) and the chain of   *)
(* the companion's tasks that talk over it (kernel-companion/src/lib.rs):  *)
(* the routing task plans a natural-language intent (cognitive.rs) and     *)
(* routes commands and events to the scheduler; a spawned agent asks for a *)
(* placement, which the compute task answers over the same bus.  The       *)
(* channel keeps the last intents only; a receiver that lags skips ahead.  *)
(***************************************************************************)
EXTENDS Naturals, Sequences, FiniteSets

CONSTANTS Requests,      \* what users ask for, in natural language
          Plannable,     \* those the parser makes a spawn command of
          bus_capacity,
          FilteredKinds  \* bound: kinds an operator's filter may reject

ASSUME IntentBusAssumption ==
  /\ Plannable \subseteq Requests /\ bus_capacity \in Nat \ {0}

Subscribers == {"routing", "compute"}
Replies == {"response", "failure"}   \* a target, or none that the workload may use
Kinds == {"nl", "advisory", "command", "request"} \cup Replies
Intents == [kind : Kinds, of : Requests]
Msg(k, r) == [kind |-> k, of |-> r]

VARIABLES
  sent,          \* history: everything the channel has accepted, in order
  position,      \* how far each receiver is in it
  filters,       \* kinds of intents an enabled filter rejects
  outgoing,      \* per task, the intents it publishes before it receives again
  unplaced, placed, failed,   \* agents spawned, with a placement, refused one
  lost           \* history: intents a filter rejected or their receiver skipped

busVars == <<sent, position, filters, outgoing, unplaced, placed, failed, lost>>

BusTypeOK ==
  /\ sent \in Seq(Intents)
  /\ position \in [Subscribers -> 0 .. Len(sent)]
  /\ filters \subseteq FilteredKinds
  /\ \A s \in Subscribers : outgoing[s] \in Seq(Intents) /\ Len(outgoing[s]) <= 2
  /\ placed \subseteq Requests /\ unplaced \subseteq Requests /\ failed \subseteq Requests
  /\ lost \subseteq Intents

BusInit ==
  /\ sent = <<>> /\ position = [s \in Subscribers |-> 0]
  /\ filters = {} /\ outgoing = [s \in Subscribers |-> <<>>]
  /\ unplaced = {} /\ placed = {} /\ failed = {} /\ lost = {}

-----------------------------------------------------------------------------
(* The filters are read first: an intent one of them rejects is not sent.  *)
publish(msg) ==
  IF msg.kind \in filters
  THEN lost' = lost \cup {msg} /\ UNCHANGED sent
  ELSE sent' = Append(sent, msg) /\ UNCHANGED lost

Ask(r) ==
  /\ \A i \in DOMAIN sent : sent[i].of # r
  /\ Msg("nl", r) \notin lost
  /\ publish(Msg("nl", r))
  /\ UNCHANGED <<position, filters, outgoing, unplaced, placed, failed>>

(* An operator's filter appears or goes.                                   *)
add_filter(k)    == /\ filters' = filters \cup {k}
                    /\ UNCHANGED <<sent, position, outgoing, unplaced, placed, failed, lost>>
remove_filter(k) == /\ filters' = filters \ {k}
                    /\ UNCHANGED <<sent, position, outgoing, unplaced, placed, failed, lost>>

(* The oldest intent still in the channel.                                 *)
Oldest == IF Len(sent) > bus_capacity THEN Len(sent) - bus_capacity ELSE 0

(* Requests for a placement are for the compute task, the rest for the      *)
(* scheduler.                                                              *)
ReceiverOf(msg) == IF msg.kind = "request" THEN "compute" ELSE "routing"

(* Mutant: a receiver that lags takes its channel for closed.              *)
receive_Closed(s) ==
  /\ position[s] < Len(sent) /\ position[s] >= Oldest
  /\ position' = [position EXCEPT ![s] = @ + 1]
  /\ UNCHANGED lost

(* A receiver goes on at the oldest intent when its own has been dropped.  *)
receive(s) ==
  /\ position[s] < Len(sent)
  /\ position' = [position EXCEPT ![s] = (IF @ < Oldest THEN Oldest ELSE @) + 1]
  /\ lost' = lost \cup {sent[i] : i \in {j \in position[s] + 1 .. Oldest : ReceiverOf(sent[j]) = s}}

Received(s) == sent[position'[s]]

(* The cognitive plane advises on every request, and commands what it has  *)
(* been able to plan; the advisory goes out first.                         *)
plan_and_reason(r) ==
  IF r \in Plannable THEN <<Msg("advisory", r), Msg("command", r)>>
  ELSE <<Msg("advisory", r)>>

(* The routing task: what is routed to the scheduler spawns the agent of a *)
(* command, which then asks for a placement, or places the agent, or makes *)
(* it Failed when there is no target for it.                               *)
Routing ==
  /\ outgoing["routing"] = <<>> /\ receive("routing")
  /\ LET msg == Received("routing") IN
       /\ outgoing' = [outgoing EXCEPT !["routing"] =
            CASE msg.kind = "nl"      -> plan_and_reason(msg.of)
              [] msg.kind = "command" -> <<Msg("request", msg.of)>>
              [] OTHER                -> <<>>]
       /\ unplaced' = CASE msg.kind = "command"   -> unplaced \cup {msg.of}
                        [] msg.kind \in Replies -> unplaced \ {msg.of}
                        [] OTHER                 -> unplaced
       /\ placed' = IF msg.kind = "response" /\ msg.of \in unplaced
                    THEN placed \cup {msg.of} ELSE placed
       /\ failed' = IF msg.kind = "failure" /\ msg.of \in unplaced
                    THEN failed \cup {msg.of} ELSE failed
  /\ UNCHANGED <<sent, filters>>

(* The compute task answers the requests for a placement, and no other     *)
(* intent: with a target, or, when the hardware found has none that the    *)
(* workload may use, with a failure; the result of its publishing is       *)
(* ignored.                                                                *)
Compute ==
  /\ outgoing["compute"] = <<>> /\ receive("compute")
  /\ LET msg == Received("compute") IN
       \E reply \in Replies :
         outgoing' = [outgoing EXCEPT !["compute"] =
                        IF msg.kind = "request" THEN <<Msg(reply, msg.of)>> ELSE <<>>]
  /\ UNCHANGED <<sent, filters, unplaced, placed, failed>>

PublishNext(s) ==
  /\ outgoing[s] # <<>>
  /\ publish(Head(outgoing[s]))
  /\ outgoing' = [outgoing EXCEPT ![s] = Tail(@)]
  /\ UNCHANGED <<position, filters, unplaced, placed, failed>>

BusNext ==
  \/ \E r \in Requests : Ask(r)
  \/ \E k \in FilteredKinds : add_filter(k) \/ remove_filter(k)
  \/ Routing \/ Compute
  \/ \E s \in Subscribers : PublishNext(s)

-----------------------------------------------------------------------------
(* Fairness: both tasks run.                                               *)
BusFairness == /\ WF_busVars(Routing) /\ WF_busVars(Compute)
               /\ \A s \in Subscribers : WF_busVars(PublishNext(s))

BusSpec == BusInit /\ [][BusNext]_busVars /\ BusFairness

(* An agent has a placement, or is Failed for want of one, only when       *)
(* somebody asked for it in a request that can be planned, and the four    *)
(* intents that carry the answer went over the bus one after the other:    *)
(* whatever the tasks publish late and skip, no answer is made up, and     *)
(* none comes before it is asked for.                                      *)
SettledInOrder ==
  /\ \A r \in placed \cup failed : r \in Plannable
  /\ \A r \in placed \cup failed :
       \E i, j, k, l \in DOMAIN sent :
         /\ i < j /\ j < k /\ k < l
         /\ sent[i] = Msg("nl", r) /\ sent[j] = Msg("command", r)
         /\ sent[k] = Msg("request", r)
         /\ sent[l] = Msg(IF r \in placed THEN "response" ELSE "failure", r)

(* Who asks for an agent gets one with a placement, or one that is Failed  *)
(* because there is no target for it, through the four intents it takes,   *)
(* unless one of these was rejected by a filter or skipped by the task     *)
(* that should have acted on it: a receiver that has lagged once goes on   *)
(* receiving (intent-bus/src/lib.rs:313), and what it skips is the only    *)
(* thing it misses.                                                        *)
AskedIsSettled ==
  \A r \in Plannable :
    (\E i \in DOMAIN sent : sent[i] = Msg("nl", r))
    ~> (r \in placed \cup failed \/ \E k \in Kinds \ {"advisory"} : Msg(k, r) \in lost)
=============================================================================
