--------------------------- MODULE AgentScheduler ---------------------------
(***************************************************************************)
(* The agent scheduler (crates/agent-scheduler/src): the table of agent    *)
(* control blocks with its lifecycle operations, the run queue and the     *)
(* time-slicing loop that serves it, the placement answers of the compute  *)
(* scheduler, and the supervisor that restarts what has failed.            *)
(*                                                                         *)
(* The table and the queue are behind one lock each.  An operation that    *)
(* holds the table's write lock throughout, and the queue's at most once,  *)
(* is one action.  A change of priority takes the queue's lock twice while *)
(* it holds the table, so the queue moves in between.  The loop and the    *)
(* supervisor let go of the locks between their steps.  Leaving the table  *)
(* ("Terminating", then removal) happens under one lock.                   *)
(***************************************************************************)
EXTENDS Naturals, FiniteSets

CONSTANTS Agents,       \* agent ids
          Delegated,    \* the ids that other nodes give the agents they delegate
          Priorities,   \* the priority levels, as numbers
          max_restarts,
          MaxCopies     \* bound: an agent queued that often is not enqueued again

ASSUME SchedulerAssumption ==
  /\ Agents \subseteq Nat /\ Agents # {}
  /\ Delegated \subseteq Agents
  /\ Priorities \subseteq Nat /\ Priorities # {}
  /\ max_restarts \in Nat
  /\ MaxCopies \in Nat

VARIABLES
  agent,          \* the table
  next_agent_id,
  run_queue,      \* how often an agent is queued with a priority
  placing,        \* placement requests without an answer
  loop,           \* the scheduling loop and the entry it holds
  monitor,        \* the supervisor's task for each agent of its snapshot
  repricing,      \* the entry whose change of priority holds the table
  steady          \* history: agents running, undisturbed, since an enqueue

vars == <<agent, next_agent_id, run_queue, placing, loop, monitor, repricing, steady>>

States == {"none", "Creating", "Running", "Paused", "Failed", "Restarting"}

Blocks == [state : States, priority : Priorities,
           restart_attempts : Nat]

Entries == Agents \X Priorities

AnyEntry == CHOOSE e \in Entries : TRUE
Idle     == [pc |-> "idle", entry |-> AnyEntry]

NoAgent == [state |-> "none", priority |-> AnyEntry[2], restart_attempts |-> 0]

(* The shapes of the table, the queue, the loop and the supervisor.        *)
TypeOK ==
  /\ agent \in [Agents -> Blocks]
  /\ next_agent_id \in Nat
  /\ run_queue \in [Entries -> Nat]
  /\ placing \subseteq Agents
  /\ loop \in [pc : {"idle", "popped", "executing", "requeue"}, entry : Entries]
  /\ monitor \in [Agents -> {"none", "backoff", "restarting", "reset"}]
  /\ repricing \in {{}} \cup {{e} : e \in Entries}
  /\ steady \subseteq Agents

Init ==
  /\ agent = [a \in Agents |-> NoAgent]
  /\ next_agent_id = 1
  /\ run_queue = [e \in Entries |-> 0]
  /\ placing = {}
  /\ loop = Idle
  /\ monitor = [a \in Agents |-> "none"]
  /\ repricing = {}
  /\ steady = {}

Present(a) == agent[a].state # "none"
Running(a) == agent[a].state = "Running"

SetState(a, s) == agent' = [agent EXCEPT ![a].state = s]

(* Bound: how often an agent may be queued when it is queued once more.    *)
RoomFor(a) == \A p \in Priorities : run_queue[<<a, p>>] < MaxCopies

push(e) == run_queue' = [run_queue EXCEPT ![e] = @ + 1]

(* The table's lock is taken and let go of again.                          *)
WithTable == repricing = {} /\ repricing' = {}

-----------------------------------------------------------------------------
(* Spawning. *)

(* allocate_agent_id and spawn_agent of a block with a compute target: the *)
(* agent runs at once; queueing it is up to the caller.  An id that is     *)
(* taken is consumed all the same.                                         *)
spawn_agent(p) ==
  /\ WithTable
  /\ next_agent_id \in Agents
  /\ next_agent_id' = next_agent_id + 1
  /\ agent' = IF Present(next_agent_id) THEN agent
              ELSE [agent EXCEPT ![next_agent_id] =
                      [NoAgent EXCEPT !.state = "Running", !.priority = p]]
  /\ UNCHANGED <<run_queue, placing, loop, monitor, steady>>

(* The intent "spawn-agent": an unplaced agent, and a placement request on *)
(* the bus, which may lose it.                                             *)
Unplaced(a, p, requested) ==
  /\ agent' = [agent EXCEPT ![a] = [NoAgent EXCEPT !.state = "Creating", !.priority = p]]
  /\ placing' = IF requested THEN placing \cup {a} ELSE placing
  /\ UNCHANGED <<run_queue, loop, monitor, steady>>

SpawnIntent(p) ==
  /\ WithTable
  /\ next_agent_id \in Agents
  /\ next_agent_id' = next_agent_id + 1
  /\ IF Present(next_agent_id)
     THEN UNCHANGED <<agent, run_queue, placing, loop, monitor, steady>>
     ELSE \E requested \in BOOLEAN : Unplaced(next_agent_id, p, requested)

(* The same intent from another node, which has chosen the id.             *)
SpawnDelegated(a, p) ==
  /\ WithTable
  /\ a \in Delegated
  /\ ~Present(a)
  /\ RoomFor(a)
  /\ \E requested \in BOOLEAN : Unplaced(a, p, requested)
  /\ UNCHANGED next_agent_id

-----------------------------------------------------------------------------
(* The answer of the compute scheduler (PlacementResponse). *)

PlacementFails(a) ==
  /\ WithTable
  /\ a \in placing
  /\ placing' = placing \ {a}
  /\ IF Present(a)
     THEN SetState(a, "Failed") /\ steady' = steady \ {a}
     ELSE UNCHANGED <<agent, steady>>
  /\ UNCHANGED <<next_agent_id, run_queue, loop, monitor>>

(* A success starts and queues an agent that was waiting for its place.    *)
PlacementSucceeds(a) ==
  /\ WithTable
  /\ a \in placing
  /\ placing' = placing \ {a}
  /\ IF agent[a].state = "Creating"
     THEN /\ SetState(a, "Running")
          /\ push(<<a, agent[a].priority>>)
          /\ steady' = steady \cup {a}
     ELSE UNCHANGED <<agent, run_queue, steady>>
  /\ UNCHANGED <<next_agent_id, loop, monitor>>

-----------------------------------------------------------------------------
(* Lifecycle operations, called here or by a remote lifecycle intent. *)

Leaves(a) == /\ WithTable
             /\ steady' = steady \ {a}
             /\ UNCHANGED <<next_agent_id, run_queue, placing, loop, monitor>>

(* Mutant: pausing without looking at the state.                           *)
pause_agent_Anyhow(a) ==
  /\ Present(a)
  /\ SetState(a, "Paused")
  /\ Leaves(a)

pause_agent(a) ==
  /\ Running(a)
  /\ SetState(a, "Paused")
  /\ Leaves(a)

(* The agent is not put back into the queue.                               *)
resume_agent(a) ==
  /\ WithTable
  /\ agent[a].state = "Paused"
  /\ SetState(a, "Running")
  /\ UNCHANGED <<next_agent_id, run_queue, placing, loop, monitor, steady>>

(* Its queue entries stay behind.                                          *)
terminate_agent(a) ==
  /\ Present(a)
  /\ agent' = [agent EXCEPT ![a] = NoAgent]
  /\ Leaves(a)

fail_agent(a) ==
  /\ Present(a)
  /\ SetState(a, "Failed")
  /\ Leaves(a)

enqueue_agent(a) ==
  /\ WithTable
  /\ Running(a)
  /\ RoomFor(a)
  /\ push(<<a, agent[a].priority>>)
  /\ steady' = steady \cup {a}
  /\ UNCHANGED <<agent, next_agent_id, placing, loop, monitor>>

Without(a) == [e \in Entries |-> IF e[1] = a THEN 0 ELSE run_queue[e]]

Queued(a) == \E p \in Priorities : run_queue[<<a, p>>] > 0

dequeue_agent(a) ==
  /\ run_queue' = Without(a)
  /\ steady' = steady \ {a}
  /\ UNCHANGED <<agent, next_agent_id, placing, loop, monitor, repricing>>

(* Mutant: that the agent was queued is forgotten.                         *)
set_agent_priority_Forgets(a, p) ==
  /\ WithTable
  /\ Present(a)
  /\ agent' = [agent EXCEPT ![a].priority = p]
  /\ run_queue' = Without(a)
  /\ UNCHANGED <<next_agent_id, placing, loop, monitor, steady>>

(* A queued agent is taken out of the queue under one lock of it; the      *)
(* entry the loop holds is not in the queue and keeps its priority.  A     *)
(* caller that gives up before that lock has changed the block only.       *)
set_agent_priority(a, p) ==
  /\ repricing = {}
  /\ Present(a)
  /\ agent' = [agent EXCEPT ![a].priority = p]
  /\ \/ UNCHANGED <<run_queue, repricing>>
     \/ Queued(a) /\ run_queue' = Without(a) /\ repricing' = {<<a, p>>}
  /\ UNCHANGED <<next_agent_id, placing, loop, monitor, steady>>

(* Under the next lock of the queue it is put in with its new priority.    *)
QueueAgain ==
  /\ \E e \in repricing : push(e)
  /\ repricing' = {}
  /\ UNCHANGED <<agent, next_agent_id, placing, loop, monitor, steady>>

(* A caller that gives up between the two leaves the agent out.            *)
CallerGivesUp ==
  /\ repricing # {}
  /\ repricing' = {}
  /\ steady' = steady \ {e[1] : e \in repricing}
  /\ UNCHANGED <<agent, next_agent_id, run_queue, placing, loop, monitor>>

-----------------------------------------------------------------------------
(* The scheduling loop. *)

(* The order of the heap: priority, then id.                               *)
Before(e, f) == e[2] > f[2] \/ (e[2] = f[2] /\ e[1] > f[1])

LoopStep(pc) ==
  /\ loop' = IF pc = "idle" THEN Idle ELSE [loop EXCEPT !.pc = pc]
  /\ UNCHANGED <<agent, next_agent_id, placing, monitor, steady>>

Pop(e) ==
  /\ loop.pc = "idle"
  /\ run_queue[e] > 0
  /\ \A f \in Entries : run_queue[f] > 0 => ~Before(f, e)
  /\ run_queue' = [run_queue EXCEPT ![e] = @ - 1]
  /\ loop' = [pc |-> "popped", entry |-> e]
  /\ UNCHANGED <<agent, next_agent_id, placing, monitor, repricing, steady>>

(* The table is read: a running agent gets its slice, any other is dropped.*)
StartSlice ==
  /\ WithTable
  /\ loop.pc = "popped"
  /\ LoopStep(IF Running(loop.entry[1]) THEN "executing" ELSE "idle")
  /\ UNCHANGED run_queue

(* Mutant: an agent that had its slice is not queued again.                *)
EndSlice_Drops ==
  /\ WithTable
  /\ loop.pc = "executing"
  /\ LoopStep("idle")
  /\ UNCHANGED run_queue

(* The table is read again when the slice is over.                         *)
EndSlice ==
  /\ WithTable
  /\ loop.pc = "executing"
  /\ LoopStep(IF Running(loop.entry[1]) THEN "requeue" ELSE "idle")
  /\ UNCHANGED run_queue

Requeue ==
  /\ loop.pc = "requeue"
  /\ push(loop.entry)
  /\ LoopStep("idle")
  /\ UNCHANGED repricing

-----------------------------------------------------------------------------
(* The supervisor: one task per agent of a snapshot of the table; the next *)
(* snapshot is taken when all of them have ended.                          *)

(* Mutants: one restart too many, one too few.                             *)
MonitorTask_OneMore(a) ==
  IF agent[a].state = "Failed" /\ agent[a].restart_attempts <= max_restarts THEN "backoff"
  ELSE IF Running(a) /\ agent[a].restart_attempts > 0 THEN "reset"
  ELSE "none"

MonitorTask_OneLess(a) ==
  IF agent[a].state = "Failed" /\ agent[a].restart_attempts + 1 < max_restarts THEN "backoff"
  ELSE IF Running(a) /\ agent[a].restart_attempts > 0 THEN "reset"
  ELSE "none"

MonitorTask(a) ==
  IF agent[a].state = "Failed" /\ agent[a].restart_attempts < max_restarts THEN "backoff"
  ELSE IF Running(a) /\ agent[a].restart_attempts > 0 THEN "reset"
  ELSE "none"

Snapshot ==
  /\ WithTable
  /\ \A a \in Agents : monitor[a] = "none"
  /\ monitor' = [a \in Agents |-> MonitorTask(a)]
  /\ UNCHANGED <<agent, next_agent_id, run_queue, placing, loop, steady>>

Supervise(a, next) ==
  /\ WithTable
  /\ monitor' = [monitor EXCEPT ![a] = next]
  /\ UNCHANGED <<next_agent_id, run_queue, placing, loop>>

(* The back-off is over: whatever the agent is now, it is restarting.      *)
RestartBegin(a) ==
  /\ monitor[a] = "backoff"
  /\ IF Present(a)
     THEN /\ agent' = [agent EXCEPT ![a].state = "Restarting", ![a].restart_attempts = @ + 1]
          /\ steady' = steady \ {a}
          /\ Supervise(a, "restarting")
     ELSE /\ UNCHANGED <<agent, steady>>
          /\ Supervise(a, "none")

(* 100 ms later it runs; it is not put back into the queue.                *)
RestartEnd(a) ==
  /\ monitor[a] = "restarting"
  /\ IF Present(a) THEN SetState(a, "Running") ELSE UNCHANGED agent
  /\ UNCHANGED steady
  /\ Supervise(a, "none")

ResetCounter(a) ==
  /\ monitor[a] = "reset"
  /\ agent' = [agent EXCEPT ![a].restart_attempts = 0]
  /\ UNCHANGED steady
  /\ Supervise(a, "none")

-----------------------------------------------------------------------------
Next ==
  \/ \E p \in Priorities : spawn_agent(p)
  \/ \E p \in Priorities : SpawnIntent(p)
  \/ \E a \in Agents, p \in Priorities : SpawnDelegated(a, p)
  \/ \E a \in Agents : PlacementFails(a)
  \/ \E a \in Agents : PlacementSucceeds(a)
  \/ \E a \in Agents : pause_agent(a)
  \/ \E a \in Agents : resume_agent(a)
  \/ \E a \in Agents : terminate_agent(a)
  \/ \E a \in Agents : fail_agent(a)
  \/ \E a \in Agents : enqueue_agent(a)
  \/ \E a \in Agents : dequeue_agent(a)
  \/ \E a \in Agents, p \in Priorities : set_agent_priority(a, p)
  \/ QueueAgain
  \/ CallerGivesUp
  \/ \E e \in Entries : Pop(e)
  \/ StartSlice
  \/ EndSlice
  \/ Requeue
  \/ Snapshot
  \/ \E a \in Agents : RestartBegin(a)
  \/ \E a \in Agents : RestartEnd(a)
  \/ \E a \in Agents : ResetCounter(a)

(* The loop, the supervisor and its tasks wait for timers and for locks    *)
(* only: each of them takes its next step.  The locks are handed on in the *)
(* order of asking, so who waits for the table gets it although it is held *)
(* again and again; who holds it, queues its agent or gives up.            *)
LoopTask       == (\E e \in Entries : Pop(e)) \/ Requeue
SliceTask      == StartSlice \/ EndSlice
RestartTask(a) == RestartBegin(a) \/ RestartEnd(a) \/ ResetCounter(a)

Fairness ==
  /\ WF_vars(LoopTask)
  /\ SF_vars(SliceTask)
  /\ WF_vars(QueueAgain \/ CallerGivesUp)
  /\ SF_vars(Snapshot)
  /\ \A a \in Agents : SF_vars(RestartTask(a))

Spec == Init /\ [][Next]_vars /\ Fairness

-----------------------------------------------------------------------------
(* Properties. *)

Held(a) == loop.pc # "idle" /\ loop.entry[1] = a

Repriced(a) == \E p \in Priorities : <<a, p>> \in repricing

(* An agent that was queued and has been running ever since is never lost: *)
(* it is in the queue, or the loop holds it and will put it back, or a     *)
(* change of its priority holds the table and will put it back, however    *)
(* the loop's looks at the queue and the table, the two halves of such a   *)
(* change and restarts interleave.  A change whose caller gives up between *)
(* the halves does lose its agent, which then is steady no longer.         *)
NoAgentLost == \A a \in steady : Queued(a) \/ Held(a) \/ Repriced(a)

(* The supervisor never restarts an agent more than max_restarts times     *)
(* without having seen it running, although its decision is taken on a     *)
(* snapshot and carried out after a back-off.                              *)
RestartsBounded == \A a \in Agents : agent[a].restart_attempts <= max_restarts

(* Whatever happens between the snapshot and the end of the back-off, only *)
(* a failed agent is restarted: a running or paused one is not disturbed.  *)
(* This rests on ids being used once, so it is stated for this node's own. *)
OnlyFailedRestarts ==
  [][\A a \in Agents \ Delegated :
       agent'[a].state = "Restarting" /\ agent[a].state # "Restarting"
         => agent[a].state = "Failed"]_vars

(* A failed agent that may still be restarted is.                          *)
FailedIsRestarted ==
  \A a \in Agents :
    (agent[a].state = "Failed" /\ agent[a].restart_attempts < max_restarts)
      ~> (agent[a].state # "Failed" \/ agent[a].restart_attempts = max_restarts)

Executing(a) == loop.pc = "executing" /\ loop.entry[1] = a

Scheduled == {e \in Entries : run_queue[e] > 0 \/ (loop.pc # "idle" /\ loop.entry = e)}

Outranked(a) ==
  \E e \in Scheduled : e[1] # a /\ \A p \in Priorities : <<a, p>> \in Scheduled => Before(e, <<a, p>>)

(* A steady agent that nobody outranks, and whose own priority is changed  *)
(* no more, is run again and again, although others' changes hold the      *)
(* table between the loop's looks at it.                                   *)
TopAgentRuns ==
  \A a \in Agents :
    <>[](a \in steady /\ ~Outranked(a) /\ ~Repriced(a)) => []<>Executing(a)

(* Time slicing: of two steady agents of one priority, one does not run    *)
(* for ever while the other waits.                                         *)
EqualsShareTheLoop ==
  \A a, b \in Agents :
    /\ <>[]({a, b} \subseteq steady /\ agent[a].priority = agent[b].priority)
    /\ []<>Executing(b)
    => []<>Executing(a)
=============================================================================
