---------------------------- MODULE VramManager ----------------------------
(***************************************************************************)
(* Reservations of VRAM (compute-scheduler/src/vram_manager.rs).  The      *)
(* usage is read under one lock and the reservation entered under another, *)
(* so that callers may check against the same usage before either enters.  *)
(***************************************************************************)
EXTENDS Naturals, FiniteSets, FiniteSetsExt, Functions

CONSTANTS VramAgents, VramCallers, VramRequests,
          vram_capacity, circuit_breaker_threshold   \* percent

ASSUME VramAssumption ==
  /\ {vram_capacity, circuit_breaker_threshold} \subseteq Nat
  /\ IsFiniteSet(VramRequests) /\ VramRequests \subseteq Nat /\ VramRequests # {}
  /\ IsFiniteSet(VramCallers) /\ VramCallers # {} /\ IsFiniteSet(VramAgents)

VARIABLES allocated, reserving

vramVars == <<allocated, reserving>>

NotReserving == [pc |-> "none", bytes |-> 0]

VramInit ==
  /\ allocated = <<>>                                \* no agent has any
  /\ reserving = [c \in VramCallers |-> NotReserving]

current_usage == SumFunction(allocated)

\* A bug a rewrite could bring: the request itself is left out of the usage.
Accepted_Before(bytes) ==
  /\ current_usage <= vram_capacity
  /\ current_usage * 100 <= circuit_breaker_threshold * vram_capacity

\* Neither out of memory nor above the threshold of the circuit breaker.
Accepted(bytes) ==
  /\ current_usage + bytes <= vram_capacity
  /\ (current_usage + bytes) * 100 <= circuit_breaker_threshold * vram_capacity

\* A request that is not accepted is answered with an error at once.
check(c, agent, bytes) ==
  /\ reserving[c] = NotReserving /\ Accepted(bytes)
  /\ reserving' = [reserving EXCEPT ![c] = [pc |-> "accepted", agent |-> agent, bytes |-> bytes]]
  /\ UNCHANGED allocated

\* What the agent had is replaced.
insert_reservation(c) ==
  /\ reserving[c].pc = "accepted"
  /\ LET r == reserving[c]
     IN  allocated' = [a \in DOMAIN allocated \cup {r.agent} |->
                         IF a = r.agent THEN r.bytes ELSE allocated[a]]
  /\ reserving' = [reserving EXCEPT ![c] = NotReserving]

release_vram(agent) ==
  /\ agent \in DOMAIN allocated
  /\ allocated' = Restrict(allocated, DOMAIN allocated \ {agent})
  /\ UNCHANGED reserving

VramNext ==
  \/ \E c \in VramCallers, a \in VramAgents, b \in VramRequests : check(c, a, b)
  \/ \E c \in VramCallers : insert_reservation(c)
  \/ \E a \in VramAgents : release_vram(a)

VramSpec == VramInit /\ [][VramNext]_vramVars

-----------------------------------------------------------------------------
VramTypeOK ==
  /\ DOMAIN allocated \subseteq VramAgents
  /\ \A a \in DOMAIN allocated : allocated[a] \in VramRequests
  /\ \A c \in VramCallers : reserving[c].pc \in {"none", "accepted"}

\* What is booked and accepted exceeds the threshold by no more than the
\* other callers may ask for at once: however often callers overtake one
\* another between the two locks, the excess does not add up over time, and
\* a single caller keeps to the threshold.
OverbookedByRacesOnly ==
  LET pending == SumFunction([c \in VramCallers |-> reserving[c].bytes])
      excess  == (Cardinality(VramCallers) - 1) * Max(VramRequests)
  IN  (current_usage + pending) * 100 <= circuit_breaker_threshold * vram_capacity + excess * 100

\* Reservations keep the usage below the threshold.  (Not so for two callers.)
BelowThreshold == current_usage * 100 <= circuit_breaker_threshold * vram_capacity

=============================================================================
