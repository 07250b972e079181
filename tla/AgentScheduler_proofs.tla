----------------------- MODULE AgentScheduler_proofs -----------------------
(***************************************************************************)
(* Proofs about the agents and what stands between them and the rest:      *)
(* AgentScheduler for every set of agents, delegated ids and priorities    *)
(* and every max_restarts (type correctness, no running agent lost,        *)
(* restarts bounded and only of what has failed), the launcher of AnkRun,  *)
(* the sessions of UdsServer, the denials of DenyAudit and the verdicts of *)
(* TCell.                                                                  *)
(***************************************************************************)
EXTENDS AgentScheduler, AnkRun, UdsServer, DenyAudit, TCell, SequenceTheorems, TLAPS

(* A steady agent runs, and is queued, held by the loop, or held by a      *)
(* change of its priority.                                                 *)
SteadyOK(a) == a \in steady => Running(a) /\ (Queued(a) \/ Held(a) \/ Repriced(a))

(* A task that backs off may still restart its agent once.                 *)
AttemptsOK(a) ==
  /\ agent[a].restart_attempts <= max_restarts
  /\ monitor[a] = "backoff" => agent[a].restart_attempts < max_restarts

(* An id of this node is used once, so the agent that a task backs off for *)
(* is the one that failed, or is gone.                                     *)
FreshOK(a) ==
  a \notin Delegated =>
    /\ Present(a) \/ monitor[a] # "none" => a < next_agent_id
    /\ monitor[a] = "backoff" => agent[a].state \in {"none", "Failed"}

AgentOK(a) == SteadyOK(a) /\ AttemptsOK(a) /\ FreshOK(a)

IInv == TypeOK /\ \A a \in Agents : AgentOK(a)

-----------------------------------------------------------------------------
(* The entries of the queue are pairs of an agent and a priority.          *)
LEMMA EntryParts ==
  /\ AnyEntry \in Entries
  /\ \A e \in Entries : e[1] \in Agents /\ e[2] \in Priorities /\ e = <<e[1], e[2]>>
  /\ \A a \in Agents, p \in Priorities : <<a, p>> \in Entries
<1>1. \E e \in Entries : TRUE
  <2>1. PICK a \in Agents, p \in Priorities : TRUE
    BY SchedulerAssumption
  <2>2. <<a, p>> \in Entries
    BY DEF Entries
  <2>3. QED
    BY <2>2
<1>2. AnyEntry \in Entries
  BY <1>1, Zenon DEF AnyEntry
<1>3. QED
  BY <1>2 DEF Entries

(* The block of an id that is not in use has the type of a block.          *)
LEMMA NoAgentType == NoAgent \in Blocks
  BY EntryParts, SchedulerAssumption DEF NoAgent, Blocks, States

(* Pushing an entry keeps what is queued and queues its agent.             *)
LEMMA PushQueues ==
  ASSUME TypeOK, NEW e \in Entries, push(e)
  PROVE  /\ run_queue' \in [Entries -> Nat]
         /\ Queued(e[1])'
         /\ \A a \in Agents : Queued(a) => Queued(a)'
<1>1. run_queue' \in [Entries -> Nat]
  BY DEF TypeOK, push
<1>2. run_queue'[e] > 0
  BY DEF TypeOK, push
<1>3. \A f \in Entries : run_queue[f] > 0 => run_queue'[f] > 0
  BY DEF TypeOK, push
<1>4. Queued(e[1])'
  BY <1>2, EntryParts DEF Queued
<1>5. ASSUME NEW a \in Agents, Queued(a) PROVE Queued(a)'
  BY <1>3, <1>5, EntryParts DEF Queued
<1>6. QED
  BY <1>1, <1>4, <1>5

-----------------------------------------------------------------------------
(* The initial state is well typed.                                        *)
LEMMA TypingInit == Init => TypeOK
  BY EntryParts, NoAgentType DEF Init, TypeOK, Idle

(* Every step keeps the types.                                             *)
LEMMA TypingNext == TypeOK /\ [Next]_vars => TypeOK'
<1> SUFFICES ASSUME TypeOK, [Next]_vars PROVE TypeOK'
  OBVIOUS
<1> USE SchedulerAssumption DEF WithTable
<1>1. ASSUME NEW p \in Priorities, spawn_agent(p) PROVE TypeOK'
  <2>1. [NoAgent EXCEPT !.state = "Running", !.priority = p] \in Blocks
    BY NoAgentType DEF Blocks, States
  <2>2. QED
    BY <1>1, <2>1 DEF spawn_agent, TypeOK
<1>2. ASSUME NEW a \in Agents, NEW p \in Priorities, NEW r \in BOOLEAN, Unplaced(a, p, r),
             next_agent_id' \in Nat, WithTable
      PROVE  TypeOK'
  <2>1. [NoAgent EXCEPT !.state = "Creating", !.priority = p] \in Blocks
    BY NoAgentType DEF Blocks, States
  <2>2. QED
    BY <1>2, <2>1 DEF Unplaced, TypeOK
<1>3. ASSUME NEW p \in Priorities, SpawnIntent(p) PROVE TypeOK'
  <2>1. next_agent_id \in Agents /\ next_agent_id' \in Nat /\ WithTable
    BY <1>3 DEF SpawnIntent, TypeOK
  <2>2. CASE Present(next_agent_id)
    BY <1>3, <2>1, <2>2 DEF SpawnIntent, TypeOK
  <2>3. CASE ~Present(next_agent_id)
    <3>1. PICK r \in BOOLEAN : Unplaced(next_agent_id, p, r)
      BY <1>3, <2>3 DEF SpawnIntent
    <3>2. QED
      BY <1>2, <2>1, <3>1
  <2>4. QED
    BY <2>2, <2>3
<1>4. ASSUME NEW a \in Agents, NEW p \in Priorities, SpawnDelegated(a, p) PROVE TypeOK'
  BY <1>2, <1>4 DEF SpawnDelegated, TypeOK
<1>5. ASSUME NEW a \in Agents, NEW s \in States, SetState(a, s)
      PROVE  agent' \in [Agents -> Blocks]
  BY <1>5 DEF SetState, TypeOK, Blocks
<1>6. ASSUME NEW a \in Agents, PlacementFails(a) PROVE TypeOK'
  BY <1>5, <1>6 DEF PlacementFails, TypeOK, States
<1>7. ASSUME NEW a \in Agents, PlacementSucceeds(a) PROVE TypeOK'
  <2>1. <<a, agent[a].priority>> \in Entries
    BY EntryParts DEF TypeOK, Blocks
  <2>2. CASE agent[a].state = "Creating"
    <3>1. run_queue' \in [Entries -> Nat]
      BY <1>7, <2>1, <2>2, PushQueues DEF PlacementSucceeds
    <3>2. QED
      BY <1>5, <1>7, <2>2, <3>1 DEF PlacementSucceeds, TypeOK, States
  <2>3. CASE agent[a].state # "Creating"
    BY <1>7, <2>3 DEF PlacementSucceeds, TypeOK
  <2>4. QED
    BY <2>2, <2>3
<1>8. ASSUME NEW a \in Agents, pause_agent(a) PROVE TypeOK'
  BY <1>5, <1>8 DEF pause_agent, Leaves, TypeOK, States
<1>9. ASSUME NEW a \in Agents, resume_agent(a) PROVE TypeOK'
  BY <1>5, <1>9 DEF resume_agent, TypeOK, States
<1>10. ASSUME NEW a \in Agents, terminate_agent(a) PROVE TypeOK'
  BY <1>10, NoAgentType DEF terminate_agent, Leaves, TypeOK
<1>11. ASSUME NEW a \in Agents, fail_agent(a) PROVE TypeOK'
  BY <1>5, <1>11 DEF fail_agent, Leaves, TypeOK, States
<1>12. ASSUME NEW a \in Agents, enqueue_agent(a) PROVE TypeOK'
  <2>1. <<a, agent[a].priority>> \in Entries
    BY EntryParts DEF TypeOK, Blocks
  <2>2. run_queue' \in [Entries -> Nat]
    BY <1>12, <2>1, PushQueues DEF enqueue_agent
  <2>3. QED
    BY <1>12, <2>2 DEF enqueue_agent, TypeOK
<1>13. ASSUME NEW a \in Agents PROVE Without(a) \in [Entries -> Nat]
  BY DEF Without, TypeOK
<1>14. ASSUME NEW a \in Agents, dequeue_agent(a) PROVE TypeOK'
  BY <1>13, <1>14 DEF dequeue_agent, TypeOK
<1>15. ASSUME NEW a \in Agents, NEW p \in Priorities, set_agent_priority(a, p) PROVE TypeOK'
  <2>1. agent' \in [Agents -> Blocks]
    BY <1>15 DEF set_agent_priority, TypeOK, Blocks
  <2>2. run_queue' \in [Entries -> Nat]
    BY <1>13, <1>15 DEF set_agent_priority, TypeOK
  <2>3. repricing' \in {{}} \cup {{e} : e \in Entries}
    BY <1>15, EntryParts DEF set_agent_priority, TypeOK
  <2>4. QED
    BY <1>15, <2>1, <2>2, <2>3 DEF set_agent_priority, TypeOK
<1>a. ASSUME QueueAgain PROVE TypeOK'
  <2>1. PICK e \in Entries : push(e)
    BY <1>a DEF QueueAgain, TypeOK
  <2>2. QED
    BY <1>a, <2>1, PushQueues DEF QueueAgain, TypeOK
<1>b. ASSUME CallerGivesUp PROVE TypeOK'
  BY <1>b DEF CallerGivesUp, TypeOK
<1>16. ASSUME NEW e \in Entries, Pop(e) PROVE TypeOK'
  BY <1>16 DEF Pop, TypeOK
<1>17. ASSUME StartSlice PROVE TypeOK'
  BY <1>17, EntryParts DEF StartSlice, LoopStep, Idle, TypeOK
<1>18. ASSUME EndSlice PROVE TypeOK'
  BY <1>18, EntryParts DEF EndSlice, LoopStep, Idle, TypeOK
<1>19. ASSUME Requeue PROVE TypeOK'
  <2>1. loop.entry \in Entries
    BY DEF TypeOK
  <2>2. run_queue' \in [Entries -> Nat]
    BY <1>19, <2>1, PushQueues DEF Requeue
  <2>3. QED
    BY <1>19, <2>2, EntryParts DEF Requeue, LoopStep, Idle, TypeOK
<1>20. ASSUME Snapshot PROVE TypeOK'
  BY <1>20 DEF Snapshot, MonitorTask, TypeOK
<1>21. ASSUME NEW a \in Agents, RestartBegin(a) PROVE TypeOK'
  BY <1>21 DEF RestartBegin, Supervise, TypeOK, Blocks, States
<1>22. ASSUME NEW a \in Agents, RestartEnd(a) PROVE TypeOK'
  BY <1>5, <1>22 DEF RestartEnd, Supervise, TypeOK, States
<1>23. ASSUME NEW a \in Agents, ResetCounter(a) PROVE TypeOK'
  BY <1>23 DEF ResetCounter, Supervise, TypeOK, Blocks
<1>24. CASE UNCHANGED vars
  BY <1>24 DEF vars, TypeOK
<1>25. QED
  BY <1>1, <1>3, <1>4, <1>6, <1>7, <1>8, <1>9, <1>10, <1>11, <1>12, <1>14, <1>15, <1>a, <1>b,
     <1>16,     <1>17, <1>18, <1>19, <1>20, <1>21, <1>22, <1>23, <1>24 DEF Next

(* Every variable keeps its type.                                          *)
THEOREM Typing == Spec => []TypeOK
  BY TypingInit, TypingNext, PTL DEF Spec

-----------------------------------------------------------------------------
(* No step takes a steady agent out of both the queue and the loop.        *)
LEMMA SteadyNext ==
  ASSUME TypeOK, \A a \in Agents : SteadyOK(a), [Next]_vars, NEW b \in Agents
  PROVE  SteadyOK(b)'
<1> USE SchedulerAssumption DEF WithTable
(* Most steps touch neither the queue nor the loop.                        *)
<1>a. ASSUME UNCHANGED <<run_queue, loop, repricing>>,
             b \in steady' => b \in steady /\ agent'[b].state = agent[b].state
      PROVE  SteadyOK(b)'
  BY <1>a DEF SteadyOK, Running, Queued, Held, Repriced
<1>1. ASSUME NEW p \in Priorities, spawn_agent(p) PROVE SteadyOK(b)'
  <2>1. b \in steady => Present(b)
    BY DEF SteadyOK, Running, Present
  <2>2. QED
    BY <1>1, <1>a, <2>1 DEF spawn_agent, TypeOK
<1>2. ASSUME NEW a \in Agents, NEW p \in Priorities, NEW r \in BOOLEAN, Unplaced(a, p, r),
             ~Present(a), WithTable
      PROVE  SteadyOK(b)'
  <2>1. b \in steady => b # a
    BY <1>2 DEF SteadyOK, Running, Present
  <2>2. QED
    BY <1>2, <1>a, <2>1 DEF Unplaced, TypeOK
<1>3. ASSUME NEW p \in Priorities, SpawnIntent(p) PROVE SteadyOK(b)'
  <2>1. CASE Present(next_agent_id)
    BY <1>3, <1>a, <2>1 DEF SpawnIntent
  <2>2. CASE ~Present(next_agent_id)
    <3>1. PICK r \in BOOLEAN : Unplaced(next_agent_id, p, r)
      BY <1>3, <2>2 DEF SpawnIntent
    <3>2. next_agent_id \in Agents /\ WithTable
      BY <1>3 DEF SpawnIntent
    <3>3. QED
      BY <1>2, <2>2, <3>1, <3>2
  <2>3. QED
    BY <2>1, <2>2
<1>4. ASSUME NEW a \in Agents, NEW p \in Priorities, SpawnDelegated(a, p) PROVE SteadyOK(b)'
  BY <1>2, <1>4 DEF SpawnDelegated
<1>5. ASSUME NEW a \in Agents, PlacementFails(a) PROVE SteadyOK(b)'
  BY <1>5, <1>a DEF PlacementFails, SetState, TypeOK
<1>6. ASSUME NEW a \in Agents, PlacementSucceeds(a) PROVE SteadyOK(b)'
  <2>1. CASE agent[a].state = "Creating"
    <3>1. <<a, agent[a].priority>> \in Entries /\ <<a, agent[a].priority>>[1] = a
      BY EntryParts DEF TypeOK, Blocks
    <3>2. Queued(a)' /\ \A c \in Agents : Queued(c) => Queued(c)'
      BY <1>6, <2>1, <3>1, PushQueues DEF PlacementSucceeds
    <3>3. CASE b = a
      <4>1. agent'[a].state = "Running"
        BY <1>6, <2>1 DEF PlacementSucceeds, SetState, TypeOK, Blocks
      <4>2. QED
        BY <3>2, <3>3, <4>1 DEF SteadyOK, Running, Queued
    <3>4. CASE b # a
      <4>1. agent'[b] = agent[b] /\ loop' = loop /\ (b \in steady' => b \in steady)
        BY <1>6, <2>1, <3>4 DEF PlacementSucceeds, SetState, TypeOK
      <4>2. QED
        BY <1>6, <3>2, <4>1 DEF PlacementSucceeds, SteadyOK, Running, Held, Repriced
    <3>5. QED
      BY <3>3, <3>4
  <2>2. CASE agent[a].state # "Creating"
    BY <1>6, <1>a, <2>2 DEF PlacementSucceeds
  <2>3. QED
    BY <2>1, <2>2
<1>7. ASSUME NEW a \in Agents, pause_agent(a) PROVE SteadyOK(b)'
  BY <1>7, <1>a DEF pause_agent, Leaves, SetState, TypeOK
<1>8. ASSUME NEW a \in Agents, resume_agent(a) PROVE SteadyOK(b)'
  <2>1. a \notin steady
    BY <1>8 DEF resume_agent, SteadyOK, Running
  <2>2. QED
    BY <1>8, <1>a, <2>1 DEF resume_agent, SetState, TypeOK
<1>9. ASSUME NEW a \in Agents, terminate_agent(a) PROVE SteadyOK(b)'
  BY <1>9, <1>a DEF terminate_agent, Leaves, TypeOK
<1>10. ASSUME NEW a \in Agents, fail_agent(a) PROVE SteadyOK(b)'
  BY <1>10, <1>a DEF fail_agent, Leaves, SetState, TypeOK
<1>11. ASSUME NEW a \in Agents, enqueue_agent(a) PROVE SteadyOK(b)'
  <2>1. <<a, agent[a].priority>> \in Entries /\ <<a, agent[a].priority>>[1] = a
    BY EntryParts DEF TypeOK, Blocks
  <2>2. Queued(a)' /\ \A c \in Agents : Queued(c) => Queued(c)'
    BY <1>11, <2>1, PushQueues DEF enqueue_agent
  <2>3. QED
    BY <1>11, <2>2 DEF enqueue_agent, SteadyOK, Running, Held, Repriced
<1>12. ASSUME NEW a \in Agents, a # b, run_queue' \in {run_queue, Without(a)}
       PROVE  Queued(b) => Queued(b)'
  BY <1>12, EntryParts DEF Queued, Without, TypeOK
<1>13. ASSUME NEW a \in Agents, dequeue_agent(a) PROVE SteadyOK(b)'
  <2>1. CASE b = a
    BY <1>13, <2>1 DEF dequeue_agent, SteadyOK
  <2>2. CASE b # a
    BY <1>12, <1>13, <2>2 DEF dequeue_agent, SteadyOK, Running, Held, Repriced
  <2>3. QED
    BY <2>1, <2>2
(* The first half of a change of priority hands its agent to the second.   *)
<1>14. ASSUME NEW a \in Agents, NEW p \in Priorities, set_agent_priority(a, p) PROVE SteadyOK(b)'
  <2>1. agent'[b].state = agent[b].state /\ loop' = loop /\ steady' = steady
    BY <1>14 DEF set_agent_priority, TypeOK
  <2>2. CASE UNCHANGED <<run_queue, repricing>>
    BY <1>a, <2>1, <2>2
  <2>3. CASE run_queue' = Without(a) /\ repricing' = {<<a, p>>}
    <3>1. ~Repriced(b) /\ Repriced(a)'
      BY <1>14, <2>3 DEF set_agent_priority, Repriced
    <3>2. b # a => (Queued(b) => Queued(b)')
      BY <1>12, <2>3
    <3>3. QED
      BY <2>1, <3>1, <3>2 DEF SteadyOK, Running, Held
  <2>4. QED
    BY <1>14, <2>2, <2>3 DEF set_agent_priority
<1>b. ASSUME QueueAgain PROVE SteadyOK(b)'
  <2>1. PICK e \in Entries : repricing = {e} /\ push(e)
    BY <1>b DEF QueueAgain, TypeOK
  <2>2. Queued(e[1])' /\ (Queued(b) => Queued(b)')
    BY <2>1, PushQueues
  <2>3. Repriced(b) => b = e[1]
    BY <2>1 DEF Repriced
  <2>4. QED
    BY <1>b, <2>2, <2>3 DEF QueueAgain, SteadyOK, Running, Held
<1>c. ASSUME CallerGivesUp PROVE SteadyOK(b)'
  <2>1. b \in steady' => b \in steady /\ ~Repriced(b)
    <3>1. ASSUME NEW p \in Priorities, <<b, p>> \in repricing PROVE b \notin steady'
      <4>1. <<b, p>>[1] = b
        OBVIOUS
      <4>2. b \in {e[1] : e \in repricing}
        BY <3>1, <4>1
      <4>3. QED
        BY <1>c, <4>2 DEF CallerGivesUp
    <3>2. QED
      BY <1>c, <3>1 DEF CallerGivesUp, Repriced
  <2>2. QED
    BY <1>c, <2>1 DEF CallerGivesUp, SteadyOK, Running, Queued, Held
<1>15. ASSUME NEW e \in Entries, Pop(e) PROVE SteadyOK(b)'
  <2>1. UNCHANGED <<steady, agent, repricing>> /\ loop'.pc # "idle" /\ loop'.entry = e
    BY <1>15 DEF Pop
  <2>2. CASE e[1] = b
    BY <2>1, <2>2 DEF SteadyOK, Running, Held
  <2>3. CASE e[1] # b
    <3>1. ~Held(b)
      BY <1>15 DEF Pop, Held
    <3>2. \A p \in Priorities : run_queue'[<<b, p>>] = run_queue[<<b, p>>]
      BY <1>15, <2>3, EntryParts DEF Pop, TypeOK
    <3>3. QED
      BY <2>1, <3>1, <3>2 DEF SteadyOK, Running, Queued, Repriced
  <2>4. QED
    BY <2>2, <2>3
(* The loop lets go only of an agent that does not run.                    *)
<1>16. ASSUME StartSlice \/ EndSlice PROVE SteadyOK(b)'
  <2>1. UNCHANGED <<run_queue, steady, agent, repricing>>
    BY <1>16 DEF StartSlice, EndSlice, LoopStep
  <2>2. CASE Held(b)
    <3>1. b \in steady => loop'.pc # "idle" /\ loop'.entry = loop.entry
      BY <1>16, <2>2 DEF StartSlice, EndSlice, LoopStep, SteadyOK, Held, TypeOK
    <3>2. QED
      BY <2>1, <2>2, <3>1 DEF SteadyOK, Running, Held
  <2>3. CASE ~Held(b)
    BY <2>1, <2>3 DEF SteadyOK, Running, Queued, Repriced
  <2>4. QED
    BY <2>2, <2>3
<1>17. ASSUME Requeue PROVE SteadyOK(b)'
  <2>1. PICK e \in Entries : e = loop.entry
    BY DEF TypeOK
  <2>2. push(e) /\ UNCHANGED <<steady, agent, repricing>>
    BY <1>17, <2>1 DEF Requeue, LoopStep
  <2>3. Queued(e[1])' /\ (Queued(b) => Queued(b)')
    BY <2>2, PushQueues
  <2>4. Held(b) => b = e[1]
    BY <2>1 DEF Held
  <2>5. QED
    BY <2>2, <2>3, <2>4 DEF SteadyOK, Running, Queued, Repriced
<1>18. ASSUME Snapshot PROVE SteadyOK(b)'
  BY <1>18, <1>a DEF Snapshot
<1>19. ASSUME NEW a \in Agents, RestartBegin(a) PROVE SteadyOK(b)'
  BY <1>19, <1>a DEF RestartBegin, Supervise, TypeOK
<1>20. ASSUME NEW a \in Agents, RestartEnd(a) PROVE SteadyOK(b)'
  <2>1. a \in steady => agent[a].state = "Running"
    BY DEF SteadyOK, Running
  <2>2. QED
    <3>1. b \in steady => agent'[b].state = agent[b].state
      BY <1>20, <2>1 DEF RestartEnd, SetState, TypeOK, Blocks
    <3>2. QED
      BY <1>20, <1>a, <3>1 DEF RestartEnd, Supervise
<1>21. ASSUME NEW a \in Agents, ResetCounter(a) PROVE SteadyOK(b)'
  BY <1>21, <1>a DEF ResetCounter, Supervise, TypeOK
<1>22. CASE UNCHANGED vars
  BY <1>22, <1>a DEF vars
<1>23. QED
  BY <1>1, <1>3, <1>4, <1>5, <1>6, <1>7, <1>8, <1>9, <1>10, <1>11, <1>13, <1>14, <1>b, <1>c,
     <1>15,     <1>16, <1>17, <1>18, <1>19, <1>20, <1>21, <1>22 DEF Next

(* No step restarts an agent more often than allowed.                      *)
LEMMA AttemptsNext ==
  ASSUME TypeOK, \A a \in Agents : AttemptsOK(a), [Next]_vars, NEW b \in Agents
  PROVE  AttemptsOK(b)'
<1> USE SchedulerAssumption
(* Only the supervisor counts; a new or a removed block counts from 0.     *)
<1>a. ASSUME monitor' = monitor,
             agent'[b].restart_attempts \in {0, agent[b].restart_attempts}
      PROVE  AttemptsOK(b)'
  <2>1. agent[b].restart_attempts \in Nat
    BY DEF TypeOK, Blocks
  <2>2. QED
    BY <1>a, <2>1 DEF AttemptsOK
<1>b. NoAgent.restart_attempts = 0 /\ agent[b] \in Blocks
  BY DEF NoAgent, TypeOK
<1>1. ASSUME NEW p \in Priorities, spawn_agent(p) PROVE AttemptsOK(b)'
  BY <1>1, <1>a, <1>b DEF spawn_agent, NoAgent, TypeOK
<1>2. ASSUME NEW a \in Agents, NEW p \in Priorities, NEW r \in BOOLEAN, Unplaced(a, p, r)
      PROVE  AttemptsOK(b)'
  BY <1>2, <1>a, <1>b DEF Unplaced, NoAgent, TypeOK
<1>3. ASSUME NEW p \in Priorities, SpawnIntent(p) PROVE AttemptsOK(b)'
  <2>1. CASE Present(next_agent_id)
    BY <1>3, <1>a, <2>1 DEF SpawnIntent
  <2>2. CASE ~Present(next_agent_id)
    BY <1>2, <1>3, <2>2 DEF SpawnIntent
  <2>3. QED
    BY <2>1, <2>2
<1>4. ASSUME NEW a \in Agents, NEW p \in Priorities, SpawnDelegated(a, p) PROVE AttemptsOK(b)'
  BY <1>2, <1>4 DEF SpawnDelegated
<1>5. ASSUME NEW a \in Agents, NEW s \in States, SetState(a, s), monitor' = monitor
      PROVE  AttemptsOK(b)'
  BY <1>5, <1>a, <1>b DEF SetState, TypeOK, Blocks
<1>6. ASSUME NEW a \in Agents, PlacementFails(a) PROVE AttemptsOK(b)'
  <2>1. CASE Present(a)
    BY <1>5, <1>6, <2>1 DEF PlacementFails, States
  <2>2. CASE ~Present(a)
    BY <1>6, <1>a, <2>2 DEF PlacementFails
  <2>3. QED
    BY <2>1, <2>2
<1>7. ASSUME NEW a \in Agents, PlacementSucceeds(a) PROVE AttemptsOK(b)'
  <2>1. CASE agent[a].state = "Creating"
    BY <1>5, <1>7, <2>1 DEF PlacementSucceeds, States
  <2>2. CASE agent[a].state # "Creating"
    BY <1>7, <1>a, <2>2 DEF PlacementSucceeds
  <2>3. QED
    BY <2>1, <2>2
<1>8. ASSUME NEW a \in Agents, pause_agent(a) \/ resume_agent(a) \/ fail_agent(a)
      PROVE  AttemptsOK(b)'
  BY <1>5, <1>8 DEF pause_agent, resume_agent, fail_agent, Leaves, States
<1>9. ASSUME NEW a \in Agents, terminate_agent(a) PROVE AttemptsOK(b)'
  BY <1>9, <1>a, <1>b DEF terminate_agent, Leaves, NoAgent, TypeOK
<1>10. ASSUME NEW a \in Agents, enqueue_agent(a) \/ dequeue_agent(a) PROVE AttemptsOK(b)'
  BY <1>10, <1>a DEF enqueue_agent, dequeue_agent
<1>11. ASSUME NEW a \in Agents, NEW p \in Priorities, set_agent_priority(a, p)
       PROVE  AttemptsOK(b)'
  BY <1>11, <1>a, <1>b DEF set_agent_priority, TypeOK, Blocks
<1>c. ASSUME QueueAgain \/ CallerGivesUp PROVE AttemptsOK(b)'
  BY <1>c, <1>a DEF QueueAgain, CallerGivesUp
<1>12. ASSUME NEW e \in Entries, Pop(e) PROVE AttemptsOK(b)'
  BY <1>12, <1>a DEF Pop
<1>13. ASSUME StartSlice \/ EndSlice \/ Requeue PROVE AttemptsOK(b)'
  BY <1>13, <1>a DEF StartSlice, EndSlice, Requeue, LoopStep
<1>14. ASSUME Snapshot PROVE AttemptsOK(b)'
  <2>1. agent' = agent /\ monitor'[b] = MonitorTask(b)
    BY <1>14 DEF Snapshot
  <2>2. monitor'[b] = "backoff" => agent[b].restart_attempts < max_restarts
    BY <2>1 DEF MonitorTask
  <2>3. QED
    BY <2>1, <2>2 DEF AttemptsOK
<1>15. ASSUME NEW a \in Agents, RestartBegin(a) PROVE AttemptsOK(b)'
  <2>1. agent[b].restart_attempts \in Nat
    BY DEF TypeOK, Blocks
  <2>2. CASE b = a
    <3>1. monitor'[b] # "backoff"
      BY <1>15, <2>2 DEF RestartBegin, Supervise, TypeOK
    <3>2. agent'[b].restart_attempts <= agent[b].restart_attempts + 1
      BY <1>15, <2>1, <2>2 DEF RestartBegin, TypeOK, Blocks
    <3>3. agent[b].restart_attempts < max_restarts
      BY <1>15, <2>2 DEF RestartBegin, AttemptsOK
    <3>4. agent'[b].restart_attempts \in Nat
      BY <1>15, <2>1, <2>2 DEF RestartBegin, TypeOK, Blocks
    <3>5. QED
      BY <2>1, <3>1, <3>2, <3>3, <3>4 DEF AttemptsOK
  <2>3. CASE b # a
    <3>1. monitor'[b] = monitor[b] /\ agent'[b] = agent[b]
      BY <1>15, <2>3 DEF RestartBegin, Supervise, TypeOK
    <3>2. QED
      BY <3>1 DEF AttemptsOK
  <2>4. QED
    BY <2>2, <2>3
<1>16. ASSUME NEW a \in Agents, RestartEnd(a) PROVE AttemptsOK(b)'
  <2>1. monitor'[b] = "backoff" => monitor[b] = "backoff"
    BY <1>16 DEF RestartEnd, Supervise, TypeOK
  <2>2. agent'[b].restart_attempts = agent[b].restart_attempts
    BY <1>16 DEF RestartEnd, SetState, TypeOK, Blocks
  <2>3. QED
    BY <2>1, <2>2 DEF AttemptsOK
<1>17. ASSUME NEW a \in Agents, ResetCounter(a) PROVE AttemptsOK(b)'
  <2>1. monitor'[b] = "backoff" => monitor[b] = "backoff" /\ b # a
    BY <1>17 DEF ResetCounter, Supervise, TypeOK
  <2>2. agent'[b].restart_attempts = IF b = a THEN 0 ELSE agent[b].restart_attempts
    BY <1>17 DEF ResetCounter, TypeOK, Blocks
  <2>3. QED
    BY <2>1, <2>2 DEF AttemptsOK
<1>18. CASE UNCHANGED vars
  BY <1>18, <1>a DEF vars
<1>19. QED
  BY <1>1, <1>3, <1>4, <1>6, <1>7, <1>8, <1>9, <1>10, <1>11, <1>c, <1>12, <1>13, <1>14, <1>15,
     <1>16, <1>17, <1>18 DEF Next

(* Ids of this node stay fresh until they are given out.                   *)
LEMMA FreshNext ==
  ASSUME TypeOK, \A a \in Agents : FreshOK(a), [Next]_vars, NEW b \in Agents
  PROVE  FreshOK(b)'
<1> USE SchedulerAssumption
<1>t. b \in Nat /\ next_agent_id \in Nat
  BY DEF TypeOK
(* Most steps give out no id, and change the state of an agent only where  *)
(* no task backs off for it, or to failed or gone.                         *)
<1>a. ASSUME next_agent_id' = next_agent_id,
             monitor'[b] \in {"none", monitor[b]},
             \/ agent'[b].state = agent[b].state
             \/ Present(b) /\ (agent'[b].state \in {"none", "Failed"} \/ monitor'[b] # "backoff")
      PROVE  FreshOK(b)'
  BY <1>a DEF FreshOK, Present
(* A new agent with the next id of this node ...                           *)
<1>b. ASSUME ~Present(next_agent_id), next_agent_id \in Agents,
             next_agent_id' = next_agent_id + 1, monitor' = monitor,
             b # next_agent_id => agent'[b] = agent[b]
      PROVE  FreshOK(b)'
  <2>1. CASE b = next_agent_id
    <3>1. b \notin Delegated => monitor[b] = "none"
      BY <1>t, <2>1 DEF FreshOK
    <3>2. QED
      BY <1>b, <1>t, <2>1, <3>1 DEF FreshOK
  <2>2. CASE b # next_agent_id
    BY <1>b, <1>t, <2>2 DEF FreshOK, Present
  <2>3. QED
    BY <2>1, <2>2
(* ... or an id that is consumed although it is taken.                     *)
<1>c. ASSUME next_agent_id' = next_agent_id + 1, monitor' = monitor, agent' = agent
      PROVE  FreshOK(b)'
  BY <1>c, <1>t DEF FreshOK, Present
<1>1. ASSUME NEW p \in Priorities, spawn_agent(p) PROVE FreshOK(b)'
  <2>1. CASE Present(next_agent_id)
    BY <1>1, <1>c, <2>1 DEF spawn_agent
  <2>2. CASE ~Present(next_agent_id)
    BY <1>1, <1>b, <2>2 DEF spawn_agent, TypeOK
  <2>3. QED
    BY <2>1, <2>2
<1>2. ASSUME NEW p \in Priorities, SpawnIntent(p) PROVE FreshOK(b)'
  <2>1. CASE Present(next_agent_id)
    BY <1>2, <1>c, <2>1 DEF SpawnIntent
  <2>2. CASE ~Present(next_agent_id)
    <3>1. PICK r \in BOOLEAN : Unplaced(next_agent_id, p, r)
      BY <1>2, <2>2 DEF SpawnIntent
    <3>2. QED
      BY <1>2, <1>b, <2>2, <3>1 DEF SpawnIntent, Unplaced, TypeOK
  <2>3. QED
    BY <2>1, <2>2
<1>3. ASSUME NEW a \in Agents, NEW p \in Priorities, SpawnDelegated(a, p) PROVE FreshOK(b)'
  <2>1. CASE b \in Delegated
    BY <2>1 DEF FreshOK
  <2>2. CASE b \notin Delegated
    BY <1>3, <1>a, <2>2 DEF SpawnDelegated, Unplaced, TypeOK
  <2>3. QED
    BY <2>1, <2>2
(* A state change of an agent that exists.                                 *)
<1>4. ASSUME NEW a \in Agents, NEW s \in States, SetState(a, s), Present(a),
             next_agent_id' = next_agent_id, monitor'[b] \in {"none", monitor[b]},
             s = "Failed" \/ monitor'[a] # "backoff"
      PROVE  FreshOK(b)'
  <2>1. CASE b = a
    <3>1. agent'[b].state = s
      BY <1>4, <2>1 DEF SetState, TypeOK, Blocks
    <3>2. QED
      BY <1>4, <1>a, <2>1, <3>1
  <2>2. CASE b # a
    BY <1>4, <1>a, <2>2 DEF SetState, TypeOK
  <2>3. QED
    BY <2>1, <2>2
(* Where a task backs off nothing but failing or leaving changes the state.*)
<1>5. ASSUME NEW a \in Agents, NEW s \in States, SetState(a, s),
             agent[a].state \in {"Creating", "Running", "Paused"},
             UNCHANGED <<next_agent_id, monitor>>
      PROVE  FreshOK(b)'
  <2>1. CASE b \in Delegated
    BY <2>1 DEF FreshOK
  <2>2. CASE b \notin Delegated /\ b = a
    BY <1>4, <1>5, <2>2 DEF FreshOK, Present
  <2>3. CASE b # a
    BY <1>5, <1>a, <2>3 DEF SetState, TypeOK
  <2>4. QED
    BY <2>1, <2>2, <2>3
<1>6. ASSUME NEW a \in Agents, PlacementFails(a) PROVE FreshOK(b)'
  <2>1. CASE Present(a)
    BY <1>4, <1>6, <2>1 DEF PlacementFails, States
  <2>2. CASE ~Present(a)
    BY <1>6, <1>a, <2>2 DEF PlacementFails
  <2>3. QED
    BY <2>1, <2>2
<1>7. ASSUME NEW a \in Agents, PlacementSucceeds(a) PROVE FreshOK(b)'
  <2>1. CASE agent[a].state = "Creating"
    BY <1>5, <1>7, <2>1 DEF PlacementSucceeds, States
  <2>2. CASE agent[a].state # "Creating"
    BY <1>7, <1>a, <2>2 DEF PlacementSucceeds
  <2>3. QED
    BY <2>1, <2>2
<1>8. ASSUME NEW a \in Agents, pause_agent(a) \/ resume_agent(a) PROVE FreshOK(b)'
  BY <1>5, <1>8 DEF pause_agent, resume_agent, Running, Leaves, States
<1>9. ASSUME NEW a \in Agents, terminate_agent(a) PROVE FreshOK(b)'
  <2>1. NoAgent.state = "none"
    BY DEF NoAgent
  <2>2. agent'[b] = IF b = a THEN NoAgent ELSE agent[b]
    BY <1>9 DEF terminate_agent, TypeOK
  <2>3. Present(a) /\ UNCHANGED <<next_agent_id, monitor>>
    BY <1>9 DEF terminate_agent, Leaves
  <2>4. QED
    BY <1>a, <2>1, <2>2, <2>3
<1>10. ASSUME NEW a \in Agents, fail_agent(a) PROVE FreshOK(b)'
  BY <1>4, <1>10 DEF fail_agent, Leaves, States
<1>11. ASSUME NEW a \in Agents, enqueue_agent(a) \/ dequeue_agent(a) PROVE FreshOK(b)'
  BY <1>11, <1>a DEF enqueue_agent, dequeue_agent
<1>12. ASSUME NEW a \in Agents, NEW p \in Priorities, set_agent_priority(a, p) PROVE FreshOK(b)'
  <2>1. agent'[b].state = agent[b].state
    BY <1>12 DEF set_agent_priority, TypeOK, Blocks
  <2>2. QED
    BY <1>12, <1>a, <2>1 DEF set_agent_priority
<1>d. ASSUME QueueAgain \/ CallerGivesUp PROVE FreshOK(b)'
  BY <1>d, <1>a DEF QueueAgain, CallerGivesUp
<1>13. ASSUME NEW e \in Entries, Pop(e) PROVE FreshOK(b)'
  BY <1>13, <1>a DEF Pop
<1>14. ASSUME StartSlice \/ EndSlice \/ Requeue PROVE FreshOK(b)'
  BY <1>14, <1>a DEF StartSlice, EndSlice, Requeue, LoopStep
<1>15. ASSUME Snapshot PROVE FreshOK(b)'
  <2>1. UNCHANGED <<agent, next_agent_id>> /\ monitor'[b] = MonitorTask(b)
    BY <1>15 DEF Snapshot
  <2>2. MonitorTask(b) # "none" => Present(b)
    BY DEF MonitorTask, Running, Present
  <2>3. MonitorTask(b) = "backoff" => agent[b].state = "Failed"
    BY DEF MonitorTask
  <2>4. QED
    BY <2>1, <2>2, <2>3 DEF FreshOK, Present
<1>16. ASSUME NEW a \in Agents, RestartBegin(a) PROVE FreshOK(b)'
  <2>1. CASE b = a
    <3>1. monitor'[b] \in {"none", "restarting"} /\ monitor[b] = "backoff"
      BY <1>16, <2>1 DEF RestartBegin, Supervise, TypeOK
    <3>2. next_agent_id' = next_agent_id
      BY <1>16 DEF RestartBegin, Supervise
    <3>3. QED
      BY <3>1, <3>2 DEF FreshOK
  <2>2. CASE b # a
    BY <1>16, <1>a, <2>2 DEF RestartBegin, Supervise, TypeOK
  <2>3. QED
    BY <2>1, <2>2
<1>17. ASSUME NEW a \in Agents, RestartEnd(a) PROVE FreshOK(b)'
  <2>1. next_agent_id' = next_agent_id /\ monitor'[b] \in {"none", monitor[b]}
        /\ monitor'[a] = "none"
    BY <1>17 DEF RestartEnd, Supervise, TypeOK
  <2>2. CASE Present(a)
    BY <1>4, <1>17, <2>1, <2>2 DEF RestartEnd, States
  <2>3. CASE ~Present(a)
    BY <1>17, <1>a, <2>1, <2>3 DEF RestartEnd
  <2>4. QED
    BY <2>2, <2>3
<1>18. ASSUME NEW a \in Agents, ResetCounter(a) PROVE FreshOK(b)'
  <2>1. agent'[b].state = agent[b].state
    BY <1>18 DEF ResetCounter, TypeOK, Blocks
  <2>2. QED
    BY <1>18, <1>a, <2>1 DEF ResetCounter, Supervise, TypeOK
<1>19. CASE UNCHANGED vars
  BY <1>19, <1>a DEF vars
<1>20. QED
  BY <1>1, <1>2, <1>3, <1>6, <1>7, <1>8, <1>9, <1>10, <1>11, <1>12, <1>d, <1>13, <1>14, <1>15,
     <1>16, <1>17, <1>18, <1>19 DEF Next

-----------------------------------------------------------------------------
(* The inductive invariant holds for every value of the constants.         *)
THEOREM Inductive == Spec => []IInv
<1>1. Init => IInv
  <2> SUFFICES ASSUME Init PROVE IInv
    OBVIOUS
  <2>1. TypeOK
    BY TypingInit
  <2>2. ASSUME NEW a \in Agents PROVE AgentOK(a)
    BY SchedulerAssumption DEF Init, AgentOK, SteadyOK, AttemptsOK, FreshOK, Present, NoAgent
  <2>3. QED
    BY <2>1, <2>2 DEF IInv
<1>2. IInv /\ [Next]_vars => IInv'
  BY TypingNext, SteadyNext, AttemptsNext, FreshNext DEF IInv, AgentOK
<1>3. QED
  BY <1>1, <1>2, PTL DEF Spec

(* No running agent is lost, neither by the loop nor between the halves of *)
(* a change of its priority.                                               *)
THEOREM NothingLost == Spec => []NoAgentLost
<1>1. IInv => NoAgentLost
  BY DEF IInv, TypeOK, AgentOK, SteadyOK, NoAgentLost
<1>2. QED
  BY <1>1, Inductive, PTL

(* The supervisor keeps to max_restarts.                                   *)
THEOREM RestartsAreBounded == Spec => []RestartsBounded
<1>1. IInv => RestartsBounded
  BY DEF IInv, AgentOK, AttemptsOK, RestartsBounded
<1>2. QED
  BY <1>1, Inductive, PTL

-----------------------------------------------------------------------------
(* Only the end of a back-off makes an agent restart.                      *)
LEMMA RestartingFromBackoff ==
  ASSUME TypeOK, [Next]_vars, NEW b \in Agents,
         agent'[b].state = "Restarting", agent[b].state # "Restarting"
  PROVE  monitor[b] = "backoff" /\ Present(b)
<1> USE SchedulerAssumption
<1>a. ASSUME NEW a \in Agents, NEW s \in States \ {"Restarting"}, SetState(a, s) PROVE FALSE
  BY <1>a DEF SetState, TypeOK, Blocks
<1>b. ASSUME NEW a \in Agents, NEW s \in {"Creating", "Running"}, NEW p \in Priorities,
             agent' = [agent EXCEPT ![a] = [NoAgent EXCEPT !.state = s, !.priority = p]]
      PROVE  FALSE
  BY <1>b DEF NoAgent, TypeOK
<1>c. ASSUME UNCHANGED agent PROVE FALSE
  BY <1>c
<1>1. ASSUME NEW p \in Priorities, spawn_agent(p) PROVE FALSE
  BY <1>1, <1>b, <1>c DEF spawn_agent
<1>2. ASSUME NEW p \in Priorities, SpawnIntent(p) PROVE FALSE
  BY <1>2, <1>b, <1>c DEF SpawnIntent, Unplaced
<1>3. ASSUME NEW a \in Agents, NEW p \in Priorities, SpawnDelegated(a, p) PROVE FALSE
  BY <1>3, <1>b DEF SpawnDelegated, Unplaced
<1>4. ASSUME NEW a \in Agents, PlacementFails(a) PROVE FALSE
  BY <1>4, <1>a, <1>c DEF PlacementFails, States
<1>5. ASSUME NEW a \in Agents, PlacementSucceeds(a) PROVE FALSE
  BY <1>5, <1>a, <1>c DEF PlacementSucceeds, States
<1>6. ASSUME NEW a \in Agents, pause_agent(a) \/ resume_agent(a) \/ fail_agent(a) PROVE FALSE
  BY <1>6, <1>a DEF pause_agent, resume_agent, fail_agent, States
<1>7. ASSUME NEW a \in Agents, terminate_agent(a) PROVE FALSE
  BY <1>7 DEF terminate_agent, NoAgent, TypeOK
<1>8. ASSUME NEW a \in Agents, enqueue_agent(a) \/ dequeue_agent(a) PROVE FALSE
  BY <1>8, <1>c DEF enqueue_agent, dequeue_agent
<1>9. ASSUME NEW a \in Agents, NEW p \in Priorities, set_agent_priority(a, p) PROVE FALSE
  BY <1>9 DEF set_agent_priority, TypeOK, Blocks
<1>d. ASSUME QueueAgain \/ CallerGivesUp PROVE FALSE
  BY <1>d, <1>c DEF QueueAgain, CallerGivesUp
<1>10. ASSUME NEW e \in Entries, Pop(e) PROVE FALSE
  BY <1>10, <1>c DEF Pop
<1>11. ASSUME StartSlice \/ EndSlice \/ Requeue \/ Snapshot PROVE FALSE
  BY <1>11, <1>c DEF StartSlice, EndSlice, Requeue, LoopStep, Snapshot
<1>12. ASSUME NEW a \in Agents, RestartBegin(a) PROVE monitor[b] = "backoff" /\ Present(b)
  BY <1>12 DEF RestartBegin, TypeOK, Blocks
<1>13. ASSUME NEW a \in Agents, RestartEnd(a) PROVE FALSE
  BY <1>13, <1>a, <1>c DEF RestartEnd, States
<1>14. ASSUME NEW a \in Agents, ResetCounter(a) PROVE FALSE
  BY <1>14 DEF ResetCounter, TypeOK, Blocks
<1>15. QED
  BY <1>c, <1>d, <1>1, <1>2, <1>3, <1>4, <1>5, <1>6, <1>7, <1>8, <1>9, <1>10, <1>11,
     <1>12, <1>13, <1>14 DEF Next, vars

(* Only a failed agent is restarted, among the ids of this node.           *)
THEOREM OnlyTheFailedRestart == Spec => OnlyFailedRestarts
<1> DEFINE Step ==
      \A a \in Agents \ Delegated :
        agent'[a].state = "Restarting" /\ agent[a].state # "Restarting"
          => agent[a].state = "Failed"
<1>1. IInv /\ [Next]_vars => Step
  BY RestartingFromBackoff DEF IInv, AgentOK, FreshOK, Present
<1>2. Spec => [][Step]_vars
  BY <1>1, Inductive, PTL DEF Spec
<1>3. QED
  BY <1>2 DEF OnlyFailedRestarts

-----------------------------------------------------------------------------
(***************************************************************************)
(* AnkRun, whatever step of the launcher fails and whenever the child      *)
(* ends: the command of the user runs under its token and in its cgroup.   *)
(***************************************************************************)
(* Until the launcher resumes the child it is not the target; once the     *)
(* child has been seen stopped it is stopped, or gone.                     *)
AnkInv ==
  /\ AnkTypeOK
  /\ launcher \in {"resume", "wait"} => enrolled
  /\ launcher \in {"issue", "authorize", "resume"} => child \in {"stopped", "gone"}
  /\ launcher \in {"cgroup", "boot", "spawn"} => child = "none"
  /\ child = "target" => enrolled
  /\ launcher = "wait" => child \in {"target", "gone"}

LEMMA AnkInvNext == AnkInv /\ [AnkNext]_ankVars => AnkInv'
<1> SUFFICES ASSUME AnkInv, [AnkNext]_ankVars PROVE AnkInv'
  OBVIOUS
<1> USE DEF AnkInv, AnkTypeOK, Steps, Moves
<1>1. CASE EnsureAgentCgroup
  BY <1>1 DEF EnsureAgentCgroup
<1>2. CASE BootCompanion
  BY <1>2 DEF BootCompanion
<1>3. CASE SpawnChild
  BY <1>3 DEF SpawnChild
<1>4. CASE ChildStops
  BY <1>4 DEF ChildStops
<1>5. CASE ChildEnds
  BY <1>5 DEF ChildEnds
<1>6. CASE wait_stopped
  BY <1>6 DEF wait_stopped
<1>7. CASE IssueToken
  BY <1>7 DEF IssueToken
<1>8. CASE AuthorizeChild
  BY <1>8 DEF AuthorizeChild
<1>9. CASE ResumeChild
  BY <1>9 DEF ResumeChild
<1>10. CASE WaitChild
  BY <1>10 DEF WaitChild
<1>11. CASE ShutDown
  BY <1>11 DEF ShutDown
<1>12. CASE UNCHANGED ankVars
  BY <1>12 DEF ankVars
<1>13. QED
  BY <1>1, <1>2, <1>3, <1>4, <1>5, <1>6, <1>7, <1>8, <1>9, <1>10, <1>11, <1>12 DEF AnkNext

(* The child becomes the command only after it has been seen stopped and   *)
(* its token and scope are enrolled, whichever of the steps before fails,  *)
(* and the launcher never waits for a child that missed the signal to go   *)
(* on.                                                                     *)
THEOREM CommandUnderScope == AnkSpec => []TargetUnderScope
<1>1. AnkInit => AnkInv
  BY DEF AnkInit, AnkInv, AnkTypeOK, Steps
<1>2. AnkInv => TargetUnderScope
  BY DEF AnkInv, TargetUnderScope
<1>3. QED
  BY <1>1, <1>2, AnkInvNext, PTL DEF AnkSpec

-----------------------------------------------------------------------------
(***************************************************************************)
(* UdsServer, for every set of connections, tokens and commands and every  *)
(* limit on the sessions and their time to live.                           *)
(***************************************************************************)
(* The sessions of the socket stay within their types and their limit,     *)
(* through connections that come, fail, end and expire.                    *)
THEOREM UdsTyping == UdsSpec => []UdsTypeOK
<1>1. UdsInit => UdsTypeOK
  BY UdsAssumption DEF UdsInit, UdsTypeOK, NoToken
<1>2. UdsTypeOK /\ [UdsNext]_udsVars => UdsTypeOK'
  <2> SUFFICES ASSUME UdsTypeOK, [UdsNext]_udsVars PROVE UdsTypeOK'
    OBVIOUS
  <2> USE UdsAssumption DEF UdsTypeOK, Session, Ids
  <2>1. ASSUME NEW c \in Connections, Accept(c) PROVE UdsTypeOK'
    BY <2>1 DEF Accept, Kept, Live
  <2>2. ASSUME NEW c \in Connections, AcceptRefused(c) PROVE UdsTypeOK'
    BY <2>2 DEF AcceptRefused, Kept, Live
  <2>3. ASSUME NEW c \in Connections, Close(c) PROVE UdsTypeOK'
    BY <2>3 DEF Close, NoToken
  <2>4. ASSUME NEW c \in Connections, AuthEnd(c) PROVE UdsTypeOK'
    BY <2>4 DEF AuthEnd, NoToken
  <2>5. ASSUME NEW c \in Connections, AuthFails(c) PROVE UdsTypeOK'
    BY <2>5 DEF AuthFails, NoToken
  <2>6. ASSUME NEW c \in Connections, NEW t \in UdsTokens, AuthBegin(c, t) PROVE UdsTypeOK'
    BY <2>6 DEF AuthBegin
  <2>7. ASSUME NEW c \in Connections, NEW i \in DOMAIN sessions, NEW cmd \in Commands,
               authorize_command(c, i, cmd)
        PROVE  UdsTypeOK'
    BY <2>7 DEF authorize_command, Kept, Executed
  <2>8. ASSUME NEW t \in UdsTokens, Revoked(t) PROVE UdsTypeOK'
    BY <2>8 DEF Revoked
  <2>9. CASE TimePasses
    BY <2>9 DEF TimePasses
  <2>10. CASE UNCHANGED udsVars
    BY <2>10 DEF udsVars
  <2>11. QED
    BY <2>1, <2>2, <2>3, <2>4, <2>5, <2>6, <2>7, <2>8, <2>9, <2>10 DEF UdsNext
<1>3. QED
  BY <1>1, <1>2, PTL DEF UdsSpec

(* A setting changes only in the session of an administrator that has not  *)
(* outlived its time: no order of opening, expiring, revoking and          *)
(* commanding gets around the check that authorize_command makes.          *)
THEOREM OnlyAdminsSet == UdsSpec => AdminWithinTtl
<1>1. UdsTypeOK /\ [UdsNext]_udsVars =>
        [settings' # settings =>
           \E i \in DOMAIN sessions :
             /\ i \in DOMAIN sessions' /\ sessions[i].idle <= session_ttl
             /\ "admin" \in TokenCapabilities[sessions[i].token]]_udsVars
  <2> SUFFICES ASSUME UdsTypeOK, UdsNext, settings' # settings
               PROVE  \E i \in DOMAIN sessions :
                        /\ i \in DOMAIN sessions' /\ sessions[i].idle <= session_ttl
                        /\ "admin" \in TokenCapabilities[sessions[i].token]
    OBVIOUS
  <2>1. PICK c \in Connections, i \in DOMAIN sessions, cmd \in Commands :
          authorize_command(c, i, cmd)
    BY DEF UdsNext, Accept, AcceptRefused, Close, AuthEnd, AuthFails, AuthBegin, Revoked, TimePasses
  <2>2. ~is_expired_session(sessions[i])
    BY <2>1 DEF authorize_command
  <2>3. sessions[i].idle <= session_ttl
    BY <2>2, UdsAssumption DEF UdsTypeOK, Session, is_expired_session
  <2>4. settings' \in Executed(cmd) /\ required_capability(cmd) \in TokenCapabilities[sessions[i].token]
        /\ DOMAIN sessions' = DOMAIN sessions
    BY <2>1, <2>2 DEF authorize_command
  <2>5. cmd \in {"set-threshold", "set-lsm-profile"}
    BY <2>4 DEF Executed, Commands
  <2>6. required_capability(cmd) = "admin"
    BY <2>5 DEF required_capability
  <2>7. QED
    BY <2>3, <2>4, <2>6
<1>2. QED
  BY <1>1, UdsTyping, PTL DEF UdsSpec, AdminWithinTtl

-----------------------------------------------------------------------------
(***************************************************************************)
(* DenyAudit, for every set of keys, cap per second and number of windows  *)
(* kept: the limiter loses count of no denial but those it clears.         *)
(***************************************************************************)
DenyInv == DenyTypeOK /\ DenialsAccounted

(* Of a window and the denial that comes to it, the entry or the summary   *)
(* accounts for what the window does not keep.                             *)
LEMMA WindowCounts ==
  ASSUME NEW w \in DenyWindow
  PROVE  /\ Reported(w) \in Nat
         /\ Reported(w) + Next_window(w).suppressed = w.suppressed + 1
         /\ Next_window(w).audited \in 0 .. cap_per_sec
         /\ Next_window(w).suppressed \in Nat /\ Next_window(w).past \in BOOLEAN
         /\ Next_window(w) = [audited |-> Next_window(w).audited,
                              suppressed |-> Next_window(w).suppressed,
                              past |-> Next_window(w).past]
<1> USE DenyAuditAssumption DEF DenyWindow, Reported, Next_window, NewWindow
<1>1. CASE w.past
  <2>1. Next_window(w) = [audited |-> 1, suppressed |-> 0, past |-> FALSE]
    BY <1>1
  <2>2. Reported(w) = w.suppressed + 1
    BY <1>1
  <2> HIDE DEF Next_window, Reported
  <2>3. QED
    BY <2>1, <2>2
<1>2. CASE ~w.past /\ w.audited < cap_per_sec
  BY <1>2
<1>3. CASE ~w.past /\ ~(w.audited < cap_per_sec)
  BY <1>3
<1>4. QED
  BY <1>1, <1>2, <1>3

LEMMA DecideCounts ==
  ASSUME DenyInv, NEW k \in DenyKeys, decide(k)
  PROVE  DenyInv'
<1> DEFINE kept == IF Full_windows THEN {} ELSE DOMAIN windows
           w == IF k \in kept THEN windows[k] ELSE NewWindow
<1>1. NewWindow \in DenyWindow /\ NewWindow.suppressed = 0
  BY DenyAuditAssumption DEF NewWindow, DenyWindow
<1>2. w \in DenyWindow
  BY <1>1 DEF DenyInv, DenyTypeOK
<1>3. /\ DOMAIN windows' = kept \cup {k} /\ windows'[k] = Next_window(w)
      /\ \A j \in kept \ {k} : windows'[j] = windows[j]
      /\ recorded' = [recorded EXCEPT ![k] = @ + Reported(w)]
  BY DEF decide, Tracked
<1>4. \A j \in DenyKeys : Suppressed(j) \in 0 .. MaxDenials
  BY DenyAuditAssumption DEF DenyInv, DenyTypeOK, Suppressed, DenyWindow
<1>5. \A j \in DenyKeys : Suppressed(j)' =
        IF j = k THEN Next_window(w).suppressed
        ELSE IF Full_windows THEN 0 ELSE Suppressed(j)
  BY <1>3 DEF Suppressed
<1>6. w.suppressed = IF Full_windows THEN 0 ELSE Suppressed(k)
  BY <1>1 DEF Suppressed
<1>w. PICK v : v = w
  OBVIOUS
<1>7. /\ Reported(v) \in Nat /\ Next_window(v).suppressed \in Nat
      /\ Reported(v) + Next_window(v).suppressed = v.suppressed + 1
      /\ Next_window(v).audited \in 0 .. cap_per_sec /\ Next_window(v).past \in BOOLEAN
      /\ Next_window(v) = [audited |-> Next_window(v).audited,
                           suppressed |-> Next_window(v).suppressed,
                           past |-> Next_window(v).past]
  BY <1>2, <1>w, WindowCounts
<1> HIDE DEF w
<1>8. ASSUME NEW j \in DenyKeys
      PROVE  /\ denied'[j] = recorded'[j] + Suppressed(j)' + cleared'[j]
             /\ {denied'[j], recorded'[j], Suppressed(j)', cleared'[j]} \subseteq 0 .. MaxDenials
  <2>1. denied[j] = recorded[j] + Suppressed(j) + cleared[j]
    BY DEF DenyInv, DenialsAccounted
  <2>2. {denied[j], recorded[j], Suppressed(j), cleared[j]} \subseteq Nat /\ denied[j] <= MaxDenials
    BY <1>4, DenyAuditAssumption DEF DenyInv, DenyTypeOK
  <2>3. cleared'[j] = IF Full_windows THEN cleared[j] + Suppressed(j) ELSE cleared[j]
    BY DEF decide, DenyInv, DenyTypeOK
  <2>4. denied'[j] = (IF j = k THEN denied[j] + 1 ELSE denied[j]) /\ denied[k] < MaxDenials
        /\ recorded'[j] = (IF j = k THEN recorded[j] + Reported(v) ELSE recorded[j])
    BY <1>3, <1>w DEF decide, DenyInv, DenyTypeOK
  <2>5. CASE j = k
    BY <2>1, <2>2, <2>3, <2>4, <2>5, <1>5, <1>6, <1>7, <1>w, DenyAuditAssumption
  <2>6. CASE j # k
    BY <2>1, <2>2, <2>3, <2>4, <2>6, <1>5, DenyAuditAssumption
  <2>7. QED
    BY <2>5, <2>6
<1>9. {denied, recorded, cleared}' \subseteq [DenyKeys -> 0 .. MaxDenials]
  <2>1. /\ denied' = [j \in DenyKeys |-> denied'[j]]
        /\ recorded' = [j \in DenyKeys |-> recorded'[j]]
        /\ cleared' = [j \in DenyKeys |-> cleared'[j]]
    BY <1>3 DEF decide, DenyInv, DenyTypeOK
  <2>2. \A j \in DenyKeys : denied'[j] \in 0 .. MaxDenials /\ recorded'[j] \in 0 .. MaxDenials
                            /\ cleared'[j] \in 0 .. MaxDenials
    BY <1>8
  <2>3. QED
    BY <2>1, <2>2
<1>10. DOMAIN windows' \subseteq DenyKeys /\ \A j \in DOMAIN windows' : windows'[j] \in DenyWindow
  <2>1. DOMAIN windows' \subseteq DenyKeys
    BY <1>3 DEF DenyInv, DenyTypeOK
  <2>2. \A j \in DOMAIN windows' \ {k} : windows'[j] \in DenyWindow
    BY <1>3 DEF DenyInv, DenyTypeOK
  <2>3. Next_window(v).suppressed \in 0 .. MaxDenials
    BY <1>5, <1>8, <1>w
  <2>4. windows'[k] \in DenyWindow
    BY <1>3, <1>7, <1>w, <2>3 DEF DenyWindow
  <2>5. QED
    BY <2>1, <2>2, <2>4
<1>11. QED
  BY <1>8, <1>9, <1>10 DEF DenyInv, DenyTypeOK, DenialsAccounted

(* Of the denials of a key, those in the audit log, those a window still   *)
(* holds back and those cleared with the table add up to all there were,   *)
(* through windows that pass and a table that fills.                       *)
THEOREM NoDenialVanishes == DenySpec => [](DenyTypeOK /\ DenialsAccounted)
<1>1. DenyInit => DenyInv
  BY DenyAuditAssumption DEF DenyInit, DenyInv, DenyTypeOK, DenialsAccounted, Suppressed
<1>2. DenyInv /\ [DenyNext]_denyVars => DenyInv'
  <2> SUFFICES ASSUME DenyInv, [DenyNext]_denyVars PROVE DenyInv'
    OBVIOUS
  <2>1. ASSUME NEW k \in DenyKeys, SecondPasses(k) PROVE DenyInv'
    <3>1. DOMAIN windows' = DOMAIN windows
          /\ \A j \in DOMAIN windows : windows'[j] = IF j = k THEN [windows[k] EXCEPT !.past = TRUE]
                                                     ELSE windows[j]
      BY <2>1 DEF SecondPasses
    <3>2. \A j \in DOMAIN windows : windows'[j] \in DenyWindow
                                    /\ windows'[j].suppressed = windows[j].suppressed
      BY <3>1 DEF DenyInv, DenyTypeOK, DenyWindow
    <3>3. QED
      BY <2>1, <3>1, <3>2 DEF SecondPasses, DenyInv, DenyTypeOK, DenialsAccounted, Suppressed
  <2>2. CASE UNCHANGED denyVars
    BY <2>2 DEF denyVars, DenyInv, DenyTypeOK, DenialsAccounted, Suppressed
  <2>3. QED
    BY <2>1, <2>2, DecideCounts DEF DenyNext
<1>3. DenyInv => DenyTypeOK /\ DenialsAccounted
  BY DEF DenyInv
<1>4. QED
  BY <1>1, <1>2, <1>3, PTL DEF DenySpec

-----------------------------------------------------------------------------
(***************************************************************************)
(* TCell, for every set of suspects, length of history, limit and          *)
(* threshold of the scores.                                                *)
(***************************************************************************)
Stats == [syscall_count : Nat, deny_count : Nat, consecutive_violations : Nat,
          scored : Nat, history : Seq(ObservedCalls), elapsed : BOOLEAN, bad_windows : Nat]

(* The windows the task counts against a process are bad ones, and a       *)
(* process it is to kill has as many as the limit asks for.                *)
TCellInv ==
  /\ TCellTypeOK
  /\ process_stats \in [Suspects -> Stats]
  /\ \A p \in Suspects :
       process_stats[p].consecutive_violations <= process_stats[p].bad_windows
  /\ \A v \in verdict : v.decision = "Kill" =>
       process_stats[v.suspect].bad_windows + 1 >= violation_window_limit

LEMMA ProductIsNat == ASSUME NEW m \in Nat, NEW n \in Nat PROVE m * n \in Nat
  OBVIOUS

LEMMA ScoreIsNat ==
  ASSUME NEW st \in Stats, NEW t \in Thresholds
  PROVE  Score(st, t) \in Nat
<1>1. t[1] \in Nat /\ t[2] \in Nat
  BY TCellAssumption
<1>2. st.syscall_count \in Nat /\ AtMost(st.deny_count, t[2]) \in Nat
  BY <1>1 DEF Stats, AtMost
<1>3. PICK m : m = 2 * AtMost(st.deny_count, t[2])
                   + (IF has_suspicious_sequence(st.history) THEN 8 ELSE 0)
  OBVIOUS
<1>4. m \in Nat
  BY <1>2, <1>3
<1>5. PICK n : n = Weight(t)
  OBVIOUS
<1>6. n \in Nat
  BY <1>1, <1>5 DEF Weight
<1>7. n * m \in Nat
  BY <1>4, <1>6, ProductIsNat
<1>8. Score(st, t) = (IF t[1] = 0 THEN 0 ELSE 4 * st.syscall_count) + n * m
  BY <1>3, <1>5 DEF Score
<1>9. QED
  BY <1>2, <1>7, <1>8

(* A window is counted against the process only when it was bad.           *)
LEMMA RolledCounts ==
  ASSUME NEW st \in Stats, NEW t \in Thresholds,
         st.consecutive_violations <= st.bad_windows
  PROVE  /\ Rolled(st, t) \in Stats /\ Rolled(st, t).history = st.history
         /\ Rolled(st, t).consecutive_violations <= Rolled(st, t).bad_windows
<1>1. CASE ~st.elapsed
  BY <1>1 DEF Rolled
<1>2. CASE st.elapsed
  <2>1. PICK x : x = [st EXCEPT
          !.consecutive_violations = IF Violating(st, st.scored, t) THEN @ + 1 ELSE 0,
          !.syscall_count = 0, !.elapsed = FALSE,
          !.bad_windows = IF \E y \in Thresholds : Violating(st, st.scored, y) THEN @ + 1 ELSE 0]
    OBVIOUS
  <2>2. x = Rolled(st, t)
    BY <1>2, <2>1 DEF Rolled
  <2>a. PICK a \in Nat, b \in Nat :
          /\ a = IF Violating(st, st.scored, t) THEN st.consecutive_violations + 1 ELSE 0
          /\ b = IF \E y \in Thresholds : Violating(st, st.scored, y) THEN st.bad_windows + 1 ELSE 0
    BY DEF Stats
  <2>b. x = [st EXCEPT !.consecutive_violations = a, !.syscall_count = 0, !.elapsed = FALSE,
                       !.bad_windows = b]
    BY <2>1, <2>a
  <2>3. x \in Stats /\ x.history = st.history
    BY <2>b DEF Stats
  <2>4. x.consecutive_violations = IF Violating(st, st.scored, t)
                                   THEN st.consecutive_violations + 1 ELSE 0
    BY <2>1 DEF Stats
  <2>5. x.bad_windows = IF \E y \in Thresholds : Violating(st, st.scored, y)
                        THEN st.bad_windows + 1 ELSE 0
    BY <2>1 DEF Stats
  <2>6. x.consecutive_violations <= x.bad_windows
    BY <2>4, <2>5 DEF Stats
  <2>7. QED
    BY <2>2, <2>3, <2>6
<1>3. QED
  BY <1>1, <1>2

LEMMA CountedKeeps ==
  ASSUME NEW st \in Stats, NEW s \in ObservedCalls, NEW d \in BOOLEAN,
         Len(st.history) <= HistoryLength
  PROVE  /\ Counted(st, s, d) \in Stats /\ Len(Counted(st, s, d).history) <= HistoryLength
         /\ Counted(st, s, d).consecutive_violations = st.consecutive_violations
         /\ Counted(st, s, d).bad_windows = st.bad_windows
<1> DEFINE h == IF Len(st.history) >= HistoryLength THEN Append(Tail(st.history), s)
                ELSE Append(st.history, s)
<1>1. st.history \in Seq(ObservedCalls) /\ HistoryLength \in Nat \ {0}
  BY TCellAssumption DEF Stats
<1>2. h \in Seq(ObservedCalls) /\ Len(h) <= HistoryLength
  <2>1. CASE Len(st.history) >= HistoryLength
    <3>1. st.history # <<>> /\ Len(st.history) = HistoryLength
      BY <1>1, <2>1
    <3>2. Tail(st.history) \in Seq(ObservedCalls) /\ Len(Tail(st.history)) = HistoryLength - 1
      BY <1>1, <3>1
    <3>3. QED
      BY <1>1, <2>1, <3>2
  <2>2. CASE ~(Len(st.history) >= HistoryLength)
    BY <1>1, <2>2
  <2>3. QED
    BY <2>1, <2>2
<1> HIDE DEF h
<1>3. Counted(st, s, d) = [st EXCEPT !.syscall_count = @ + 1,
                                     !.deny_count = IF d THEN @ + 1 ELSE 0, !.history = h]
  BY DEF Counted, h
<1>4. PICK n \in Nat, m \in Nat :
        n = st.syscall_count + 1 /\ m = IF d THEN st.deny_count + 1 ELSE 0
  BY DEF Stats
<1>5. Counted(st, s, d) = [st EXCEPT !.syscall_count = n, !.deny_count = m, !.history = h]
  BY <1>3, <1>4 DEF Stats
<1>6. QED
  BY <1>2, <1>5 DEF Stats

LEMMA ObserveKeeps ==
  ASSUME TCellInv, NEW p \in Suspects, NEW s \in ObservedCalls, NEW d \in BOOLEAN,
         observe_syscall(p, s, d)
  PROVE  TCellInv'
<1>1. PICK t \in Thresholds :
        LET st  == Counted(Rolled(process_stats[p], t), s, d)
            dec == Decision(p, st, t)
        IN
        /\ process_stats' = [process_stats EXCEPT ![p] = [st EXCEPT !.scored = Score(st, t)]]
        /\ verdict' = IF dec \in {"Quarantine", "Kill"}
                      THEN {[suspect |-> p, decision |-> dec, cut |-> FALSE]} ELSE {}
        /\ UNCHANGED <<quarantined, cut>>
  BY DEF observe_syscall
<1>2. PICK r : r = Rolled(process_stats[p], t)
  OBVIOUS
<1>3. /\ r \in Stats /\ Len(r.history) <= HistoryLength
      /\ r.consecutive_violations <= r.bad_windows
  <2>1. process_stats[p] \in Stats
        /\ process_stats[p].consecutive_violations <= process_stats[p].bad_windows
        /\ Len(process_stats[p].history) <= HistoryLength
    BY DEF TCellInv, TCellTypeOK
  <2>2. QED
    BY <1>2, <2>1, RolledCounts
<1>4. PICK st : st = Counted(r, s, d)
  OBVIOUS
<1>5. /\ st \in Stats /\ Len(st.history) <= HistoryLength
      /\ st.consecutive_violations <= st.bad_windows
  BY <1>3, <1>4, CountedKeeps
<1>6. PICK dec : dec = Decision(p, st, t)
  OBVIOUS
<1>7. dec = "Kill" => st.bad_windows + 1 >= violation_window_limit
  <2>1. ASSUME dec = "Kill"
        PROVE  st.consecutive_violations + (IF Violating(st, Score(st, t), t) THEN 1 ELSE 0)
                 >= violation_window_limit
    BY <1>6, <2>1 DEF Decision
  <2>2. violation_window_limit \in Nat
    BY TCellAssumption
  <2>3. QED
    BY <1>5, <2>1, <2>2 DEF Stats
<1>8. PICK x : x = [st EXCEPT !.scored = Score(st, t)]
  OBVIOUS
<1>9. /\ x \in Stats /\ x.history = st.history /\ x.bad_windows = st.bad_windows
      /\ x.consecutive_violations = st.consecutive_violations
  BY <1>5, <1>8, ScoreIsNat DEF Stats
<1>10. /\ process_stats' = [process_stats EXCEPT ![p] = x]
       /\ verdict' = IF dec \in {"Quarantine", "Kill"}
                     THEN {[suspect |-> p, decision |-> dec, cut |-> FALSE]} ELSE {}
       /\ UNCHANGED <<quarantined, cut>>
  BY <1>1, <1>2, <1>4, <1>6, <1>8
<1>11. process_stats' \in [Suspects -> Stats] /\ process_stats'[p] = x
       /\ \A q \in Suspects \ {p} : process_stats'[q] = process_stats[q]
  BY <1>9, <1>10 DEF TCellInv
<1>12. \A q \in Suspects :
         /\ process_stats'[q].consecutive_violations <= process_stats'[q].bad_windows
         /\ process_stats'[q].syscall_count \in Nat /\ process_stats'[q].deny_count \in Nat
         /\ process_stats'[q].history \in Seq(ObservedCalls)
         /\ Len(process_stats'[q].history) <= HistoryLength
  <2>1. ASSUME NEW q \in Suspects \ {p}
        PROVE  /\ process_stats[q].consecutive_violations <= process_stats[q].bad_windows
               /\ process_stats[q].syscall_count \in Nat /\ process_stats[q].deny_count \in Nat
               /\ process_stats[q].history \in Seq(ObservedCalls)
               /\ Len(process_stats[q].history) <= HistoryLength
    BY DEF TCellInv, TCellTypeOK
  <2>2. /\ x.consecutive_violations <= x.bad_windows
        /\ x.syscall_count \in Nat /\ x.deny_count \in Nat
        /\ x.history \in Seq(ObservedCalls) /\ Len(x.history) <= HistoryLength
    BY <1>5, <1>9 DEF Stats
  <2>3. QED
    BY <1>11, <2>1, <2>2
<1>13. \A v \in verdict' : v.suspect = p /\ v.decision = dec
  BY <1>10
<1>14. /\ verdict' = {} \/ \E q \in Suspects, e \in {"Quarantine", "Kill"}, b \in BOOLEAN :
                             verdict' = {[suspect |-> q, decision |-> e, cut |-> b]}
       /\ quarantined' \in [Suspects -> {"no", "recent", "expired"}] /\ cut' \subseteq Suspects
  BY <1>10 DEF TCellInv, TCellTypeOK
<1>15. \A v \in verdict' : v.decision = "Kill" =>
         process_stats'[v.suspect].bad_windows + 1 >= violation_window_limit
  BY <1>7, <1>9, <1>11, <1>13
<1>16. QED
  BY <1>11, <1>12, <1>14, <1>15 DEF TCellInv, TCellTypeOK

LEMMA TCellInvNext == TCellInv /\ [TCellNext]_tcellVars => TCellInv'
<1> SUFFICES ASSUME TCellInv, [TCellNext]_tcellVars PROVE TCellInv'
  OBVIOUS
<1>1. ASSUME NEW p \in Suspects, WindowElapses(p) PROVE TCellInv'
  <2>1. process_stats' = [process_stats EXCEPT ![p].elapsed = TRUE]
        /\ UNCHANGED <<quarantined, verdict, cut>>
    BY <1>1 DEF WindowElapses
  <2>2. \A q \in Suspects :
          /\ process_stats'[q] \in Stats
          /\ process_stats'[q].bad_windows = process_stats[q].bad_windows
          /\ process_stats'[q].consecutive_violations = process_stats[q].consecutive_violations
          /\ process_stats'[q].history = process_stats[q].history
    BY <2>1 DEF TCellInv, Stats
  <2>3. process_stats' \in [Suspects -> Stats]
    BY <2>1, <2>2 DEF TCellInv
  <2>4. \A v \in verdict : v.suspect \in Suspects
    BY DEF TCellInv, TCellTypeOK
  <2>5. \A q \in Suspects : process_stats'[q].syscall_count \in Nat
          /\ process_stats'[q].deny_count \in Nat /\ process_stats'[q].history \in Seq(ObservedCalls)
    BY <2>2 DEF Stats
  <2>6. QED
    BY <2>1, <2>2, <2>3, <2>4, <2>5 DEF TCellInv, TCellTypeOK
<1>2. ASSUME NEW p \in Suspects, QuarantineAges(p) PROVE TCellInv'
  BY <1>2 DEF QuarantineAges, TCellInv, TCellTypeOK
<1>3. CASE quarantine
  <2>1. PICK v \in verdict :
          /\ verdict' = {[v EXCEPT !.cut = TRUE]} /\ cut' \in {cut, cut \cup {v.suspect}}
          /\ quarantined' = IF v.decision = "Quarantine"
                            THEN [quarantined EXCEPT ![v.suspect] = "recent"] ELSE quarantined
          /\ UNCHANGED process_stats
    BY <1>3 DEF quarantine
  <2>2. PICK p \in Suspects, e \in {"Quarantine", "Kill"}, b \in BOOLEAN :
          v = [suspect |-> p, decision |-> e, cut |-> b]
    BY <2>1 DEF TCellInv, TCellTypeOK
  <2>3. verdict' = {[suspect |-> p, decision |-> e, cut |-> TRUE]}
    BY <2>1, <2>2
  <2>4. e = "Kill" => process_stats[p].bad_windows + 1 >= violation_window_limit
    BY <2>1, <2>2 DEF TCellInv
  <2>5. quarantined' \in [Suspects -> {"no", "recent", "expired"}] /\ cut' \subseteq Suspects
    BY <2>1, <2>2 DEF TCellInv, TCellTypeOK
  <2>6. \A u \in verdict' : u.decision = "Kill" =>
          process_stats'[u.suspect].bad_windows + 1 >= violation_window_limit
    BY <2>1, <2>3, <2>4
  <2>7. QED
    BY <2>1, <2>3, <2>5, <2>6 DEF TCellInv, TCellTypeOK
<1>4. CASE PublishThreat
  BY <1>4 DEF PublishThreat, TCellInv, TCellTypeOK
<1>5. CASE release_expired_quarantine
  BY <1>5 DEF release_expired_quarantine, TCellInv, TCellTypeOK
<1>6. CASE UNCHANGED tcellVars
  BY <1>6 DEF tcellVars, TCellInv, TCellTypeOK
<1>7. QED
  BY <1>1, <1>2, <1>3, <1>4, <1>5, <1>6, ObserveKeeps DEF TCellNext

(* A process is killed only for as many bad windows, without a good one    *)
(* between them, as the limit asks for: the ones it has had and the one it *)
(* is in. No burst, jitter of the thresholds or quarantine that expires    *)
(* makes it fewer.                                                         *)
THEOREM KilledForBadWindows == TCellSpec => KilledForWindows
<1>1. TCellInit => TCellInv
  <2>1. ASSUME TCellInit PROVE TCellInv
    <3>1. NoStats \in Stats /\ NoStats.history = <<>> /\ NoStats.syscall_count = 0
          /\ NoStats.deny_count = 0 /\ NoStats.consecutive_violations = 0 /\ NoStats.bad_windows = 0
      BY DEF NoStats, Stats
    <3>2. NoStats.history \in Seq(ObservedCalls) /\ Len(NoStats.history) <= HistoryLength
      <4>1. <<>> \in Seq(ObservedCalls) /\ Len(<<>>) = 0
        OBVIOUS
      <4>2. QED
        BY <3>1, <4>1, TCellAssumption
    <3>3. \A p \in Suspects : process_stats[p] = NoStats
      BY <2>1 DEF TCellInit
    <3>4. process_stats \in [Suspects -> Stats]
      BY <2>1, <3>1 DEF TCellInit
    <3>a. /\ NoStats.syscall_count \in Nat /\ NoStats.deny_count \in Nat
          /\ NoStats.consecutive_violations <= NoStats.bad_windows
      BY <3>1
    <3>5. \A p \in Suspects :
            /\ process_stats[p].syscall_count \in Nat /\ process_stats[p].deny_count \in Nat
            /\ process_stats[p].history \in Seq(ObservedCalls)
            /\ Len(process_stats[p].history) <= HistoryLength
            /\ process_stats[p].consecutive_violations <= process_stats[p].bad_windows
      BY <3>2, <3>3, <3>a
    <3>6. QED
      BY <2>1, <3>4, <3>5 DEF TCellInit, TCellInv, TCellTypeOK
  <2>2. QED
    BY <2>1
<1>2. TCellInv' => \A v \in verdict' : v.decision = "Kill" =>
        process_stats'[v.suspect].bad_windows + 1 >= violation_window_limit
  BY DEF TCellInv
<1>3. TCellInv /\ [TCellNext]_tcellVars =>
        TCellInv' /\ [\A v \in verdict' : v.decision = "Kill" =>
                        process_stats'[v.suspect].bad_windows + 1 >= violation_window_limit]_tcellVars
  BY <1>2, TCellInvNext
<1>4. QED
  BY <1>1, <1>3, PTL DEF TCellSpec, KilledForWindows
=============================================================================
