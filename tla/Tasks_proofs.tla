---------------------------- MODULE Tasks_proofs ----------------------------
(***************************************************************************)
(* Proofs about the tasks of the companion and what they serve: the boot   *)
(* and shutdown of Companion, the decision cache of SyscallTracer, the     *)
(* batches of BatchManager, the intents of IntentBus, the manifest of      *)
(* Indexer, the senders of Membership, the weights of Placement, and last  *)
(* the types and bounds of all nine tasks in the group of MCTasks.         *)
(***************************************************************************)
EXTENDS MCTasks, Integers, SequenceTheorems, TLAPS

(***************************************************************************)
(* Companion, for every set of configurations: through any number of boots *)
(* and shutdowns, and failures at any stage, no task that the daemon keeps *)
(* the handle of runs without the hooks.                                   *)
(***************************************************************************)
(* From the end of the attachment to the start of the detachment ...       *)
HookedPhases == {"cgroup", "tasks", "p2p", "sfs", "uds", "up", "stopping", "detach"}
HookedWhileUp == phase \in HookedPhases => hook

(* ... every task that runs has its handle, but for the expiry task ...    *)
HandlesKept == alive \subseteq handle \cup {"expiry"}

(* ... and shutdown still waits for all it has the handle of.              *)
Awaited ==
  /\ awaiting \in Seq(AllTasks)
  /\ phase = "stopping" => \A t \in handle : \E i \in 1 .. Len(awaiting) : awaiting[i] = t
  /\ phase = "detach" => handle = {}

IInv ==
  /\ phase \in Phases /\ handle \subseteq AllTasks \ {"expiry"}
  /\ HookedWhileUp /\ HandlesKept /\ Awaited /\ KeptTasksUnderHooks

-----------------------------------------------------------------------------
(* Shutdown waits for every task there may be, save the file task, which   *)
(* it aborts itself, and the expiry task, whose handle nobody has.         *)
LEMMA OrderComplete ==
  /\ ShutdownOrder \in Seq(AllTasks)
  /\ \A t \in AllTasks \ {"expiry", "sfs"} :
       \E i \in 1 .. Len(ShutdownOrder) : ShutdownOrder[i] = t
<1> DEFINE n == Len(ShutdownOrder)
<1>0. n = 14 /\ DOMAIN ShutdownOrder = 1 .. 14
  BY DEF ShutdownOrder
<1>2. ASSUME NEW t \in AllTasks \ {"expiry", "sfs"}
      PROVE  t \in {"uds", "routing", "supervisor", "immune", "compute", "telemetry",
                    "bridge_listener", "bridge_forwarder", "p2p_listener", "p2p_gossip",
                    "p2p_failure_detector", "tracer", "tcell", "metrics"}
  BY <1>2 DEF AllTasks, WatchTasks, TokenTasks, PolledTasks, AbortTasks
<1>3. /\ ShutdownOrder[1] = "uds" /\ ShutdownOrder[2] = "routing" /\ ShutdownOrder[3] = "supervisor"
      /\ ShutdownOrder[4] = "immune" /\ ShutdownOrder[5] = "compute" /\ ShutdownOrder[6] = "telemetry"
      /\ ShutdownOrder[7] = "bridge_listener" /\ ShutdownOrder[8] = "bridge_forwarder"
      /\ ShutdownOrder[9] = "p2p_listener" /\ ShutdownOrder[10] = "p2p_gossip"
      /\ ShutdownOrder[11] = "p2p_failure_detector" /\ ShutdownOrder[12] = "tracer"
      /\ ShutdownOrder[13] = "tcell" /\ ShutdownOrder[14] = "metrics"
  BY DEF ShutdownOrder
<1>4. 1 \in 1 .. n /\ 2 \in 1 .. n /\ 3 \in 1 .. n /\ 4 \in 1 .. n /\ 5 \in 1 .. n /\ 6 \in 1 .. n
      /\ 7 \in 1 .. n /\ 8 \in 1 .. n /\ 9 \in 1 .. n /\ 10 \in 1 .. n /\ 11 \in 1 .. n
      /\ 12 \in 1 .. n /\ 13 \in 1 .. n /\ 14 \in 1 .. n
  BY <1>0
<1> HIDE DEF n
<1>5. \A t \in AllTasks \ {"expiry", "sfs"} : \E i \in 1 .. n : ShutdownOrder[i] = t
  BY <1>2, <1>3, <1>4
<1>6. ShutdownOrder \in Seq(AllTasks)
  <2>1. ASSUME NEW i \in 1 .. 14 PROVE ShutdownOrder[i] \in AllTasks
    <3>1. i \in {1, 2, 3, 4, 5, 6, 7, 8, 9, 10, 11, 12, 13, 14}
      OBVIOUS
    <3>2. QED
      BY <1>3, <3>1 DEF AllTasks, WatchTasks, TokenTasks, PolledTasks, AbortTasks
  <2>2. ShutdownOrder = [i \in 1 .. 14 |-> ShutdownOrder[i]]
    BY DEF ShutdownOrder
  <2>3. ShutdownOrder \in [1 .. 14 -> AllTasks]
    BY <2>1, <2>2
  <2>4. QED
    BY <2>3, SeqDef
<1>7. QED
  BY <1>5, <1>6 DEF n

(* A stage of boot that spawns tasks keeps their handles.                  *)
LEMMA SpawnedSound ==
  ASSUME IInv, NEW tasks \in SUBSET AllTasks, Spawned(tasks), UNCHANGED <<hook, awaiting>>,
         phase \in {"tasks", "p2p", "sfs", "uds"}, phase' \in {"p2p", "sfs", "uds", "up"}
  PROVE  IInv'
BY DEF IInv, Spawned, HookedWhileUp, HookedPhases, HandlesKept, Awaited, KeptTasksUnderHooks, Phases

(* Tasks that end, by themselves or when told, take nothing else along.    *)
LEMMA EndsSound ==
  ASSUME IInv, NEW t, Ends(t)
  PROVE  IInv'
BY DEF IInv, Ends, HookedWhileUp, HandlesKept, Awaited, KeptTasksUnderHooks

(* Waiting for one more task: its handle goes only when it has ended.      *)
LEMMA AwaitSound ==
  ASSUME IInv, AwaitTask
  PROVE  IInv'
<1> DEFINE t == Head(awaiting)
<1>1. /\ phase = "stopping" /\ awaiting \in Seq(AllTasks) /\ awaiting # <<>>
      /\ awaiting' = Tail(awaiting) /\ handle' = handle \ {t} /\ UNCHANGED hook
      /\ phase' \in {"stopping", "detach"}
      /\ phase' = "detach" => Tail(awaiting) = <<>>
  BY DEF AwaitTask, IInv, Awaited
<1>2. alive' \subseteq alive /\ (t \in handle => t \notin alive')
  BY DEF AwaitTask
<1>3. HandlesKept'
  BY <1>1, <1>2 DEF IInv, HandlesKept
<1>4. \A u \in handle' : \E i \in 1 .. Len(awaiting') : awaiting'[i] = u
  <2>1. TAKE u \in handle'
  <2>2. PICK i \in 1 .. Len(awaiting) : awaiting[i] = u
    BY <1>1, <2>1 DEF IInv, Awaited
  <2>3. i # 1 /\ Len(awaiting') = Len(awaiting) - 1
    BY <1>1, <2>1, <2>2
  <2>4. i - 1 \in 1 .. Len(awaiting') /\ awaiting'[i - 1] = u
    BY <1>1, <2>2, <2>3
  <2>5. QED
    BY <2>4
<1>5. awaiting' \in Seq(AllTasks)
  BY <1>1
<1>6. phase' = "detach" => handle' = {}
  BY <1>1, <1>4
<1>7. Awaited'
  BY <1>1, <1>4, <1>5, <1>6 DEF Awaited
<1>8. QED
  BY <1>1, <1>2, <1>3, <1>7
  DEF IInv, HookedWhileUp, HookedPhases, KeptTasksUnderHooks, Phases

LEMMA StepSound ==
  ASSUME IInv, [CompanionNext]_companionVars
  PROVE  IInv'
<1> USE DEF IInv, HookedWhileUp, HookedPhases, HandlesKept, Awaited, KeptTasksUnderHooks, Phases
<1>1. CASE boot
  BY <1>1 DEF boot
<1>2. CASE AttachHooks
  BY <1>2 DEF AttachHooks
<1>3. CASE EnsureCgroup
  BY <1>3 DEF EnsureCgroup
<1>4. CASE SpawnTasks \/ SpawnMesh \/ SpawnSfs \/ SpawnServers
  <2>1. \E tasks \in SUBSET AllTasks : Spawned(tasks)
    <3>1. Spawned({}) <=> UNCHANGED <<alive, handle>>
      BY DEF Spawned
    <3>2. QED
      BY <1>4, <3>1 DEF SpawnTasks, SpawnMesh, SpawnSfs, SpawnServers, AllTasks, WatchTasks,
                   TokenTasks, PolledTasks, AbortTasks
  <2>2. /\ UNCHANGED <<hook, awaiting>>
        /\ phase \in {"tasks", "p2p", "sfs", "uds"} /\ phase' \in {"p2p", "sfs", "uds", "up"}
    BY <1>4 DEF SpawnTasks, SpawnMesh, SpawnSfs, SpawnServers
  <2>3. QED
    BY <2>1, <2>2, SpawnedSound
<1>5. CASE BootFails
  BY <1>5 DEF BootFails, Fails
<1>6. CASE ClientsComeAndGo
  BY <1>6 DEF ClientsComeAndGo
<1>7. CASE shutdown
  <2>1. handle' \subseteq AllTasks \ {"expiry", "sfs"}
    BY <1>7 DEF shutdown
  <2>2. QED
    BY <1>7, <2>1, OrderComplete DEF shutdown
<1>8. CASE AwaitTask
  BY <1>8, AwaitSound
<1>9. CASE DetachHooks
  BY <1>9 DEF DetachHooks
<1>10. ASSUME NEW t \in AllTasks, WatchTaskEnds(t) \/ TokenTaskEnds(t) \/ TaskFails(t) PROVE IInv'
  BY <1>10, EndsSound DEF WatchTaskEnds, TokenTaskEnds, TaskFails
<1>11. ASSUME NEW t \in DetachedTasks, SpawnDetached(t) \/ DetachedEnds(t) PROVE IInv'
  BY <1>11 DEF SpawnDetached, DetachedEnds
<1>12. CASE UNCHANGED companionVars
  BY <1>12 DEF companionVars
<1>13. QED
  BY <1>1, <1>2, <1>3, <1>4, <1>5, <1>6, <1>7, <1>8, <1>9, <1>10, <1>11, <1>12
  DEF CompanionNext

LEMMA CompanionInvInit == CompanionInit => IInv
  BY DEF CompanionInit, IInv, HookedWhileUp, HookedPhases, HandlesKept, Awaited,
         KeptTasksUnderHooks, Phases

(* No task that the daemon keeps the handle of ever runs without the       *)
(* hooks, for every configuration and through any number of boots and      *)
(* shutdowns.                                                              *)
THEOREM HooksOutliveKeptTasks == CompanionSpec => []KeptTasksUnderHooks
<1>1. IInv /\ [CompanionNext]_companionVars => IInv'
  BY StepSound
<1>2. IInv => KeptTasksUnderHooks
  BY DEF IInv
<1>3. QED
  BY CompanionInvInit, <1>1, <1>2, PTL DEF CompanionSpec

-----------------------------------------------------------------------------
(***************************************************************************)
(* SyscallTracer, for every set of system calls and processes and any      *)
(* policy: a decision in the cache that the policy no longer makes is      *)
(* about to be invalidated.                                                *)
(***************************************************************************)
(* A change of the policy about s is still to be taken in by the tracer,   *)
(* or its notification was lost.                                           *)
Pending(s) ==
  \/ invalidation_lost
  \/ \E x \in untold : s \in x
  \/ \E i \in DOMAIN invalidations : s \in invalidations[i]

NoLists == \A p \in TracedPids : mutated_pids[p] = {}

(* A decision for s that is cached, or made and about to be cached.        *)
Stored(s, d) ==
  \/ syscall_decision_cache[s] = d
  \/ \E h \in holding : h.nr = s /\ h.decision = d

(* Decisions that the policy does not make any more are about to be        *)
(* invalidated: the ones that allow a blocked call, and, without lists for *)
(* some pids, all that differ from the policy.  The list of no pid allows  *)
(* a call without a name in the table.                                     *)
Tracked(s) ==
  /\ s \in blocked_syscalls /\ Stored(s, "allow") => Pending(s)
  /\ NoLists => \A d \in Decisions :
                  Stored(s, d) /\ d # decision_for_syscall(NoCall, s) => Pending(s)
  /\ s \notin Table => ~Stored(s, "allow")

TracerInv == TracerTypeOK /\ \A s \in Syscalls : Tracked(s)

(* The policy's answers.                                                   *)
LEMMA DecisionFacts ==
  ASSUME TracerTypeOK, NEW s \in Syscalls, NEW call \in Calls \cup {NoCall}
  PROVE  /\ decision_for_syscall(call, s) \in Decisions
         /\ s \in blocked_syscalls \/ s \notin Table => decision_for_syscall(call, s) = "deny"
         /\ NoLists => decision_for_syscall(call, s) = decision_for_syscall(NoCall, s)
<1>1. decision_for_syscall(call, s) \in Decisions
  BY DEF decision_for_syscall, Decisions
<1>2. AllowedFor(call) \subseteq Table
  <2>1. CASE call # NoCall /\ mutated_pids[call[1]] # {}
    <3>1. call[1] \in TracedPids
      BY <2>1 DEF Calls
    <3>2. PICK l \in SUBSET Table : mutated_pids[call[1]] = {l}
      BY <2>1, <3>1 DEF TracerTypeOK
    <3>3. QED
      BY <2>1, <3>2 DEF AllowedFor
  <2>2. CASE ~(call # NoCall /\ mutated_pids[call[1]] # {})
    BY <2>2, TracerAssumption DEF AllowedFor, TracerTypeOK
  <2>3. QED
    BY <2>1, <2>2
<1>3. NoLists => AllowedFor(call) = AllowedFor(NoCall)
  BY DEF NoLists, AllowedFor, Calls
<1>4. QED
  BY <1>1, <1>2, <1>3 DEF decision_for_syscall

LEMMA TracerInvInit == TracerInit => TracerInv
<1> SUFFICES ASSUME TracerInit PROVE TracerInv
  OBVIOUS
<1>1. TracerTypeOK
  <2>1. invalidations \in Seq(Invalidations) /\ perf \in Seq(Calls)
        /\ events \in Seq(Calls \X Decisions)
        /\ Len(invalidations) = 0 /\ Len(perf) = 0 /\ Len(events) = 0
    BY DEF TracerInit
  <2>2. /\ mutated_pids \in [TracedPids -> {{}} \cup {{l} : l \in SUBSET Table}]
        /\ syscall_decision_cache \in [Syscalls -> Decisions \cup {"none"}]
    BY DEF TracerInit
  <2>3. 0 <= InvalidationSlots /\ 0 <= PerfSlots /\ 0 <= EventSlots
    BY TracerAssumption
  <2>4. /\ active_profile \in Profiles /\ blocked_syscalls \subseteq Syscalls
        /\ tracer_mode \in {"attaching", "real", "simulation", "stopped"}
        /\ repopulate \subseteq Table /\ holding = {} /\ untold \subseteq Invalidations
        /\ invalidation_lost \in BOOLEAN
    BY DEF TracerInit
  <2>5. QED
    BY <2>1, <2>2, <2>3, <2>4 DEF TracerTypeOK
<1>2. QED
  BY <1>1 DEF TracerInv, TracerInit, Tracked, Stored, Decisions

(* What is left after the first element of a queue has been taken.         *)
LEMMA TailElements ==
  ASSUME NEW S, NEW q \in Seq(S), q # <<>>
  PROVE  /\ Head(q) \in S /\ Head(q) = q[1] /\ Tail(q) \in Seq(S) /\ Len(Tail(q)) = Len(q) - 1
         /\ Len(q) \in Nat \ {0}
         /\ \A i \in DOMAIN q : i # 1 => \E k \in DOMAIN Tail(q) : Tail(q)[k] = q[i]
<1>1. /\ Head(q) \in S /\ Head(q) = q[1] /\ Tail(q) \in Seq(S) /\ Len(Tail(q)) = Len(q) - 1
      /\ Len(q) \in Nat \ {0}
  OBVIOUS
<1>2. ASSUME NEW i \in DOMAIN q, i # 1 PROVE \E k \in DOMAIN Tail(q) : Tail(q)[k] = q[i]
  <2>1. i - 1 \in DOMAIN Tail(q) /\ Tail(q)[i - 1] = q[i]
    BY <1>1, <1>2
  <2>2. QED
    BY <2>1
<1>3. QED
  BY <1>1, <1>2

LEMMA TracerTyping == TracerTypeOK /\ [TracerNext]_tracerVars => TracerTypeOK'
<1> SUFFICES ASSUME TracerTypeOK, [TracerNext]_tracerVars PROVE TracerTypeOK'
  OBVIOUS
<1> USE TracerAssumption
<1>1. ASSUME NEW p \in Profiles, set_active_profile(p) PROVE TracerTypeOK'
  BY <1>1 DEF set_active_profile, TracerTypeOK, Invalidations
<1>2. ASSUME NEW s \in Syscalls, add_blocked_syscall(s) PROVE TracerTypeOK'
  BY <1>2 DEF add_blocked_syscall, TracerTypeOK
<1>h. ASSUME NEW s \in Syscalls, NEW c \in Calls \cup {NoCall}, Hold(s, c)
      PROVE  \E t \in Syscalls, d \in Decisions, e \in Calls \cup {NoCall} :
               holding' = {[nr |-> t, decision |-> d, call |-> e]}
  BY <1>h, DecisionFacts DEF Hold
<1>3. ASSUME NEW s \in Syscalls, Evaluate(s) PROVE TracerTypeOK'
  <2>1. \E t \in Syscalls, d \in Decisions, e \in Calls \cup {NoCall} :
          holding' = {[nr |-> t, decision |-> d, call |-> e]}
    BY <1>3, <1>h DEF Evaluate
  <2>2. repopulate' \subseteq Table
    BY <1>3 DEF Evaluate, TracerTypeOK
  <2>3. UNCHANGED <<policyVars, syscall_decision_cache, tracer_mode, untold, invalidations,
                    perf, events, invalidation_lost>>
    BY <1>3 DEF Evaluate
  <2>4. QED
    BY <2>1, <2>2, <2>3 DEF TracerTypeOK, policyVars
<1>4. ASSUME NEW p \in TracedPids, register_polymorphic_pid(p) PROVE TracerTypeOK'
  <2>1. PICK kept \in SUBSET Table : mutated_pids' = [mutated_pids EXCEPT ![p] = {kept}]
    BY <1>4 DEF register_polymorphic_pid, TracerTypeOK
  <2>2. mutated_pids' \in [TracedPids -> {{}} \cup {{l} : l \in SUBSET Table}]
    BY <2>1 DEF TracerTypeOK
  <2>3. QED
    BY <1>4, <2>2 DEF register_polymorphic_pid, TracerTypeOK
<1>5. ASSUME NEW x \in Invalidations, Notify(x) PROVE TracerTypeOK'
  <2>1. invalidations' \in Seq(Invalidations) /\ Len(invalidations') <= InvalidationSlots
        /\ invalidation_lost' \in BOOLEAN
    <3>1. CASE Len(invalidations) < InvalidationSlots
      <4>1. invalidations' = Append(invalidations, x) /\ invalidation_lost' = invalidation_lost
        BY <1>5, <3>1 DEF Notify
      <4>2. QED
        BY <3>1, <4>1 DEF TracerTypeOK
    <3>2. CASE ~(Len(invalidations) < InvalidationSlots)
      BY <1>5, <3>2 DEF Notify, TracerTypeOK
    <3>3. QED
      BY <3>1, <3>2
  <2>2. QED
    BY <1>5, <2>1 DEF Notify, TracerTypeOK, policyVars
<1>6. ASSUME NEW p \in TracedPids, NEW s \in Syscalls, sys_enter_tp(p, s) PROVE TracerTypeOK'
  <2>1. perf' \in Seq(Calls) /\ Len(perf') <= PerfSlots
    BY <1>6 DEF sys_enter_tp, TracerTypeOK, Calls
  <2>2. QED
    BY <1>6, <2>1 DEF sys_enter_tp, TracerTypeOK, policyVars
<1>7. ASSUME NEW p \in TracedPids, NEW s \in Syscalls, run_simulation_loop(p, s) PROVE TracerTypeOK'
  <2>1. <<p, s>> \in Calls /\ decision_for_syscall(<<p, s>>, s) \in Decisions
    BY DecisionFacts DEF Calls
  <2>2. events' \in Seq(Calls \X Decisions) /\ Len(events') <= EventSlots
    <3> DEFINE e == <<<<p, s>>, decision_for_syscall(<<p, s>>, s)>>
    <3>1. e \in Calls \X Decisions
      BY <2>1
    <3>2. (Len(events) < EventSlots /\ events' = Append(events, e)) \/ events' = events
      BY <1>7 DEF run_simulation_loop
    <3> HIDE DEF e
    <3>3. CASE Len(events) < EventSlots /\ events' = Append(events, e)
      BY <3>1, <3>3 DEF TracerTypeOK
    <3>4. CASE events' = events
      BY <3>4 DEF TracerTypeOK
    <3>5. QED
      BY <3>2, <3>3, <3>4
  <2>3. tracer_mode' \in {"attaching", "real", "simulation", "stopped"}
    BY <1>7 DEF run_simulation_loop, TracerTypeOK
  <2>4. QED
    BY <1>7, <2>2, <2>3 DEF run_simulation_loop, TracerTypeOK, policyVars
<1>8. CASE Attach
  BY <1>8 DEF Attach, TracerTypeOK, policyVars
<1>9. CASE process_syscall_event
  <2>1. perf' \in Seq(Calls) /\ Len(perf') <= PerfSlots /\ Head(perf) \in Calls
    BY <1>9, TailElements DEF process_syscall_event, TracerTypeOK
  <2>2. \E t \in Syscalls, d \in Decisions, e \in Calls \cup {NoCall} :
          holding' = {[nr |-> t, decision |-> d, call |-> e]}
    <3>1. Head(perf)[2] \in Syscalls
      BY <2>1 DEF Calls
    <3>2. QED
      BY <1>9, <1>h, <2>1, <3>1 DEF process_syscall_event
  <2>3. QED
    BY <1>9, <2>1, <2>2 DEF process_syscall_event, TracerTypeOK, policyVars
<1>10. CASE populate
  <2>1. PICK h \in holding :
          /\ holding' = {}
          /\ syscall_decision_cache' = [syscall_decision_cache EXCEPT ![h.nr] = h.decision]
          /\ events' = IF h.call # NoCall /\ Len(events) < EventSlots
                       THEN Append(events, <<h.call, h.decision>>) ELSE events
    BY <1>10 DEF populate
  <2>2. h.nr \in Syscalls /\ h.decision \in Decisions /\ h.call \in Calls \cup {NoCall}
    BY DEF TracerTypeOK
  <2>3. syscall_decision_cache' \in [Syscalls -> Decisions \cup {"none"}]
    BY <2>1, <2>2 DEF TracerTypeOK
  <2>4. events' \in Seq(Calls \X Decisions) /\ Len(events') <= EventSlots
    BY <2>1, <2>2 DEF TracerTypeOK
  <2>5. QED
    BY <1>10, <2>1, <2>3, <2>4 DEF populate, TracerTypeOK, policyVars
<1>11. CASE Invalidate
  <2>1. invalidations' \in Seq(Invalidations) /\ Len(invalidations') <= InvalidationSlots
    BY <1>11, TailElements DEF Invalidate, TracerTypeOK
  <2>2. syscall_decision_cache' \in [Syscalls -> Decisions \cup {"none"}]
    BY <1>11 DEF Invalidate, TracerTypeOK
  <2>3. QED
    BY <1>11, <2>1, <2>2 DEF Invalidate, TracerTypeOK, policyVars
<1>12. CASE Cancel_tracer
  BY <1>12 DEF Cancel_tracer, TracerTypeOK, policyVars
<1>13. CASE TakeEvent
  <2>1. events' \in Seq(Calls \X Decisions) /\ Len(events') <= EventSlots
    BY <1>13, TailElements DEF TakeEvent, TracerTypeOK
  <2>2. QED
    BY <1>13, <2>1 DEF TakeEvent, TracerTypeOK, policyVars
<1>14. CASE UNCHANGED tracerVars
  BY <1>14 DEF tracerVars, TracerTypeOK
<1>15. QED
  BY <1>1, <1>2, <1>3, <1>4, <1>5, <1>6, <1>7, <1>8, <1>9, <1>10, <1>11, <1>12, <1>13, <1>14
     DEF TracerNext

LEMMA TracerInvNext == TracerInv /\ [TracerNext]_tracerVars => TracerInv'
<1> SUFFICES ASSUME TracerInv, [TracerNext]_tracerVars PROVE TracerInv'
  OBVIOUS
<1> USE TracerAssumption
<1>t. TracerTypeOK /\ TracerTypeOK'
  BY TracerTyping DEF TracerInv
<1>k. \A s \in Syscalls : Tracked(s)
  BY DEF TracerInv
<1> SUFFICES ASSUME NEW s \in Syscalls PROVE Tracked(s)'
  BY <1>t DEF TracerInv
\* Steps that change neither the policy nor what waits to be taken in.
<1>a. ASSUME UNCHANGED policyVars, Pending(s) => Pending(s)',
             \A d \in Decisions : Stored(s, d)' => Stored(s, d)
      PROVE  Tracked(s)'
  BY <1>a, <1>k DEF Tracked, NoLists, decision_for_syscall, AllowedFor, policyVars, Decisions
<1>b. ASSUME UNCHANGED <<policyVars, syscall_decision_cache, holding, untold, invalidations,
                         invalidation_lost>>
      PROVE  Tracked(s)'
  <2>1. Pending(s)' = Pending(s) /\ \A d \in Decisions : Stored(s, d)' = Stored(s, d)
    BY <1>b DEF Pending, Stored
  <2>2. QED
    BY <1>a, <1>b, <2>1
<1>1. ASSUME NEW p \in Profiles, set_active_profile(p) PROVE Tracked(s)'
  <2>1. Pending(s)'
    BY <1>1 DEF set_active_profile, Pending, Full
  <2>2. s \notin Table => ~Stored(s, "allow")'
    BY <1>1, <1>k DEF set_active_profile, Tracked, Stored
  <2>3. QED
    BY <2>1, <2>2 DEF Tracked
<1>2. ASSUME NEW r \in Syscalls, add_blocked_syscall(r) PROVE Tracked(s)'
  <2>1. \A d \in Decisions : Stored(s, d)' = Stored(s, d)
    BY <1>2 DEF add_blocked_syscall, Stored
  <2>2. Pending(s) => Pending(s)'
    BY <1>2 DEF add_blocked_syscall, Pending
  <2>3. CASE s = r /\ s \in Table
    <3>1. {s} \in untold'
      BY <1>2, <2>3 DEF add_blocked_syscall, Invalidations
    <3>2. Pending(s)'
      BY <3>1 DEF Pending
    <3>3. QED
      BY <1>k, <2>1, <2>3, <3>2 DEF Tracked
  <2>4. CASE s = r /\ s \notin Table
    <3>1. ~Stored(s, "allow")'
      BY <1>k, <2>1, <2>4 DEF Tracked, Decisions
    <3>2. decision_for_syscall(NoCall, s) = "deny" /\ decision_for_syscall(NoCall, s)' = "deny"
      BY <1>t, <1>2, <2>4, DecisionFacts DEF add_blocked_syscall, decision_for_syscall
    <3>3. NoLists' = NoLists
      BY <1>2 DEF add_blocked_syscall, NoLists
    <3>4. QED
      BY <1>k, <2>1, <2>2, <3>1, <3>2, <3>3 DEF Tracked
  <2>5. CASE s # r
    <3>1. decision_for_syscall(NoCall, s)' = decision_for_syscall(NoCall, s) /\ NoLists' = NoLists
      BY <1>2, <2>5 DEF add_blocked_syscall, decision_for_syscall, NoLists, AllowedFor
    <3>2. s \in blocked_syscalls' => s \in blocked_syscalls
      BY <1>2, <2>5 DEF add_blocked_syscall
    <3>3. QED
      BY <1>k, <2>1, <2>2, <3>1, <3>2 DEF Tracked, Decisions
  <2>6. QED
    BY <2>3, <2>4, <2>5
\* A decision made now is the policy's.
<1>h. ASSUME NEW r \in Syscalls, NEW c \in Calls \cup {NoCall}, Hold(r, c),
             UNCHANGED <<policyVars, syscall_decision_cache, untold, invalidations,
                         invalidation_lost>>
      PROVE  Tracked(s)'
  <2>1. Pending(s)' = Pending(s) /\ NoLists' = NoLists
        /\ decision_for_syscall(NoCall, s)' = decision_for_syscall(NoCall, s)
    BY <1>h DEF Pending, NoLists, policyVars, decision_for_syscall, AllowedFor
  <2>2. ASSUME NEW d \in Decisions, Stored(s, d)'
        PROVE  Stored(s, d) \/ (s = r /\ d = decision_for_syscall(c, s))
    BY <1>h, <2>2 DEF Stored, Hold
  <2>3. /\ s \in blocked_syscalls \/ s \notin Table => decision_for_syscall(c, s) = "deny"
        /\ NoLists => decision_for_syscall(c, s) = decision_for_syscall(NoCall, s)
    BY <1>t, DecisionFacts
  <2>4. blocked_syscalls' = blocked_syscalls
    BY <1>h DEF policyVars
  <2>5. QED
    BY <1>k, <2>1, <2>2, <2>3, <2>4 DEF Tracked, Decisions
<1>3. ASSUME NEW r \in Syscalls, Evaluate(r) PROVE Tracked(s)'
  BY <1>3, <1>h DEF Evaluate
<1>4. ASSUME NEW p \in TracedPids, register_polymorphic_pid(p) PROVE Tracked(s)'
  <2>1. ~NoLists'
    <3>1. PICK kept : mutated_pids' = [mutated_pids EXCEPT ![p] = {kept}]
      BY <1>4 DEF register_polymorphic_pid
    <3>2. mutated_pids'[p] = {kept}
      BY <1>t, <3>1 DEF TracerTypeOK
    <3>3. QED
      BY <3>2 DEF NoLists
  <2>2. Pending(s)' = Pending(s) /\ \A d \in Decisions : Stored(s, d)' = Stored(s, d)
    BY <1>4 DEF register_polymorphic_pid, Pending, Stored
  <2>3. blocked_syscalls' = blocked_syscalls
    BY <1>4 DEF register_polymorphic_pid
  <2>4. QED
    BY <1>k, <2>1, <2>2, <2>3 DEF Tracked, Decisions
<1>5. ASSUME NEW x \in Invalidations, Notify(x) PROVE Tracked(s)'
  <2>1. ASSUME Pending(s) PROVE Pending(s)'
    <3>1. CASE Len(invalidations) < InvalidationSlots
      <4>1. invalidations' = Append(invalidations, x) /\ untold' = untold \ {x}
            /\ invalidation_lost' = invalidation_lost
        BY <1>5, <3>1 DEF Notify
      <4>2. /\ Len(invalidations) + 1 \in DOMAIN invalidations'
            /\ invalidations'[Len(invalidations) + 1] = x
            /\ \A i \in DOMAIN invalidations :
                 i \in DOMAIN invalidations' /\ invalidations'[i] = invalidations[i]
        BY <1>t, <4>1 DEF TracerTypeOK
      <4>3. QED
        BY <2>1, <4>1, <4>2 DEF Pending
    <3>2. CASE ~(Len(invalidations) < InvalidationSlots)
      BY <1>5, <3>2 DEF Notify, Pending
    <3>3. QED
      BY <3>1, <3>2
  <2>2. UNCHANGED <<policyVars, syscall_decision_cache, holding>>
    BY <1>5 DEF Notify
  <2>3. \A d \in Decisions : Stored(s, d)' = Stored(s, d)
    BY <2>2 DEF Stored
  <2>4. QED
    BY <1>a, <2>1, <2>2, <2>3
<1>6. ASSUME NEW p \in TracedPids, NEW r \in Syscalls, sys_enter_tp(p, r) \/ run_simulation_loop(p, r)
      PROVE  Tracked(s)'
  <2>1. UNCHANGED <<policyVars, syscall_decision_cache, holding, untold, invalidations,
                    invalidation_lost>>
    BY <1>6 DEF sys_enter_tp, run_simulation_loop
  <2>2. QED
    BY <1>b, <2>1
<1>7. CASE Attach \/ Cancel_tracer \/ TakeEvent
  <2>1. UNCHANGED <<policyVars, syscall_decision_cache, holding, untold, invalidations,
                    invalidation_lost>>
    BY <1>7 DEF Attach, Cancel_tracer, TakeEvent
  <2>2. QED
    BY <1>b, <2>1
<1>8. CASE process_syscall_event
  <2>1. Head(perf) \in Calls /\ Head(perf)[2] \in Syscalls
    BY <1>t, <1>8, TailElements DEF process_syscall_event, TracerTypeOK, Calls
  <2>2. QED
    BY <1>h, <1>8, <2>1 DEF process_syscall_event
<1>9. CASE populate
  <2>1. PICK h \in holding :
          /\ holding' = {}
          /\ syscall_decision_cache' = [syscall_decision_cache EXCEPT ![h.nr] = h.decision]
    BY <1>9 DEF populate
  <2>2. h.nr \in Syscalls
    BY <1>t DEF TracerTypeOK
  <2>3. \A d \in Decisions : Stored(s, d)' => Stored(s, d)
    BY <1>t, <2>1, <2>2 DEF Stored, TracerTypeOK
  <2>4. UNCHANGED <<policyVars, untold, invalidations, invalidation_lost>>
    BY <1>9 DEF populate
  <2>5. Pending(s)' = Pending(s)
    BY <2>4 DEF Pending
  <2>6. QED
    BY <1>a, <2>3, <2>4, <2>5
<1>10. CASE Invalidate
  <2>1. /\ holding = {} /\ holding' = {} /\ UNCHANGED <<policyVars, untold, invalidation_lost>>
        /\ invalidations # <<>> /\ invalidations' = Tail(invalidations)
        /\ syscall_decision_cache' = [r \in Syscalls |->
              IF r \in Head(invalidations) THEN "none" ELSE syscall_decision_cache[r]]
    BY <1>10 DEF Invalidate, Idle
  <2>2. CASE s \in Head(invalidations)
    <3>1. \A d \in Decisions : ~Stored(s, d)'
      BY <2>1, <2>2 DEF Stored, Decisions
    <3>2. QED
      BY <3>1 DEF Tracked, Decisions
  <2>3. CASE s \notin Head(invalidations)
    <3>1. \A d \in Decisions : Stored(s, d)' = Stored(s, d)
      BY <2>1, <2>3 DEF Stored
    <3>2. ASSUME Pending(s) PROVE Pending(s)'
      <4>1. ASSUME NEW i \in DOMAIN invalidations, s \in invalidations[i]
            PROVE  \E k \in DOMAIN invalidations' : s \in invalidations'[k]
        <5>1. Head(invalidations) = invalidations[1]
              /\ (i # 1 => \E k \in DOMAIN Tail(invalidations) : Tail(invalidations)[k] = invalidations[i])
          BY <1>t, <2>1, TailElements DEF TracerTypeOK
        <5>2. QED
          BY <2>1, <2>3, <4>1, <5>1
      <4>2. QED
        BY <2>1, <3>2, <4>1 DEF Pending
    <3>3. QED
      BY <1>a, <2>1, <3>1, <3>2
  <2>4. QED
    BY <2>2, <2>3
<1>11. CASE UNCHANGED tracerVars
  BY <1>b, <1>11 DEF tracerVars, policyVars
<1>12. QED
  BY <1>1, <1>2, <1>3, <1>4, <1>5, <1>6, <1>7, <1>8, <1>9, <1>10, <1>11 DEF TracerNext

(* Once every change has been told and taken in, the kernel's cache holds  *)
(* no decision the policy no longer makes, for all system calls, profiles, *)
(* pids and channel capacities.                                            *)
THEOREM CacheCatchesUp == TracerSpec => []CacheCaughtUp
<1>1. TracerSpec => []TracerInv
  BY TracerInvInit, TracerInvNext, PTL DEF TracerSpec
<1>2. ASSUME TracerInv PROVE CacheCaughtUp
  <2> SUFFICES ASSUME Idle, untold = {}, invalidations = <<>>, ~invalidation_lost,
                      NEW s \in Syscalls
               PROVE  /\ s \in blocked_syscalls => syscall_decision_cache[s] # "allow"
                      /\ NoLists => syscall_decision_cache[s] \in
                                      {"none", decision_for_syscall(NoCall, s)}
    BY DEF CacheCaughtUp, NoLists
  <2>1. ~Pending(s) /\ Tracked(s)
    BY <1>2 DEF Pending, TracerInv
  <2>2. syscall_decision_cache[s] \in Decisions \cup {"none"}
    BY <1>2 DEF TracerInv, TracerTypeOK
  <2>3. QED
    BY <2>1, <2>2 DEF Tracked, Stored, Decisions
<1>3. QED
  BY <1>1, <1>2, PTL

-----------------------------------------------------------------------------
(***************************************************************************)
(* BatchManager, for every length of the batches: who waits gets the       *)
(* output of its own prompt, at its own place of the batch.                *)
(***************************************************************************)
(* While a batch is generated its outputs are those of its first prompts,  *)
(* one for each, and what is not generated yet are the others.             *)
Aligned ==
  /\ Len(outputs) + Len(ungenerated) = Len(batch)
  /\ \A i \in 1 .. Len(outputs) : outputs[i] \in {Text(batch[i]), Mock(batch[i])}
  /\ \A i \in 1 .. Len(ungenerated) : ungenerated[i] = batch[Len(outputs) + i]

BatchInv ==
  /\ BatchTypeOK /\ AnswersMatch
  /\ batch_task = "generate" /\ engine.kind # "tensorrt" => Aligned

Answers == Outputs \cup {Unanswered, EngineFails, Dropped}

(* What answers a prompt: its own text or mock, or no output at all.       *)
Proper(p) == {Text(p), Mock(p), Unanswered, EngineFails, Dropped}

LEMMA ProperAnswers ==
  ASSUME NEW f \in [Prompts -> Answers]
  PROVE  (\A p \in Prompts : f[p].kind \in {"text", "mock"} => f[p].of = p)
         <=> (\A p \in Prompts : f[p] \in Proper(p))
  BY DEF Answers, Outputs, Proper, Text, Mock, Unanswered, EngineFails, Dropped

(* The engine generates a text or a mock of the prompt it is given.        *)
LEMMA GeneratesItsPrompt ==
  ASSUME BatchTypeOK, NEW p \in Prompts, NEW out \in generate(p), out # Panic, out # EngineFails
  PROVE  out \in {Text(p), Mock(p)}
<1>1. Unavailable(p) \in {Panic, Mock(p), EngineFails}
  BY DEF Unavailable, mock_generate
<1>2. /\ generate_llama_cpp(p) \subseteq {Text(p), Unavailable(p)}
      /\ generate_vllm(p) \subseteq {Text(p), Unavailable(p)}
      /\ generate_mps(p) \subseteq {Text(p), EngineFails, Unavailable(p)}
      /\ generate_cloud(p) \subseteq {Text(p), Unavailable(p)}
  BY DEF generate_llama_cpp, generate_vllm, generate_mps, generate_cloud
<1>3. out \in {Text(p), EngineFails, Unavailable(p)}
  BY <1>2 DEF generate
<1>4. QED
  BY <1>1, <1>3

(* TensorRT-LLM: what it gives at a place is of the prompt of that place.  *)
LEMMA TensorrtInPlace ==
  ASSUME BatchTypeOK, NEW outs \in generate_tensorrt, outs # <<Panic>>, outs # <<EngineFails>>,
         NEW i \in DOMAIN outs
  PROVE  i \in DOMAIN batch /\ outs[i] \in {Text(batch[i]), Mock(batch[i])}
<1> DEFINE mocks == [k \in DOMAIN batch |-> mock_generate(batch[k])]
<1>1. batch \in Seq(Prompts)
  BY DEF BatchTypeOK
<1>2. CASE \E n \in 0 .. Len(batch) : outs = [k \in 1 .. n |-> Text(batch[k])]
  BY <1>1, <1>2
<1>3. CASE outs = mocks /\ Panic \notin ToSet(mocks)
  <2>1. i \in DOMAIN batch /\ outs[i] = mock_generate(batch[i])
    BY <1>3
  <2>2. outs[i] # Panic
    BY <1>3 DEF ToSet
  <2>3. QED
    BY <2>1, <2>2 DEF mock_generate
<1>4. QED
  BY <1>2, <1>3 DEF generate_tensorrt

(* Dealing outputs that are in place gives each caller one of its own.     *)
LEMMA DealtInPlace ==
  ASSUME BatchInv, NEW outs, deal(outs),
         \A i \in DOMAIN outs : i \in DOMAIN batch => outs[i] \in {Text(batch[i]), Mock(batch[i])}
  PROVE  BatchInv'
<1>1. answer \in [Prompts -> Answers] /\ \A p \in Prompts : answer[p] \in Proper(p)
  BY ProperAnswers DEF BatchInv, BatchTypeOK, AnswersMatch, Answers
<1>2. ASSUME NEW p \in Prompts PROVE answer'[p] \in Proper(p)
  <2> DEFINE slots == {i \in DOMAIN batch : batch[i] = p}
             i == CHOOSE i \in slots : TRUE
  <2>1. answer'[p] = IF slots = {} THEN answer[p]
                     ELSE IF i \in DOMAIN outs THEN outs[i] ELSE Dropped
    BY DEF deal
  <2>2. CASE slots = {}
    BY <1>1, <2>1, <2>2
  <2>3. CASE slots # {}
    <3>1. i \in DOMAIN batch /\ batch[i] = p
      BY <2>3
    <3> HIDE DEF i, slots
    <3>2. QED
      BY <2>1, <2>3, <3>1 DEF Proper
  <2>4. QED
    BY <2>2, <2>3
<1>3. answer' \in [Prompts -> Answers]
  <2>1. \A p \in Prompts : Proper(p) \subseteq Answers
    BY DEF Proper, Answers, Outputs
  <2>2. answer' = [p \in Prompts |-> answer'[p]]
    BY DEF deal
  <2>3. QED
    BY <1>2, <2>1, <2>2
<1>4. AnswersMatch'
  BY <1>2, <1>3, ProperAnswers DEF AnswersMatch
<1>5. BatchTypeOK'
  BY <1>3, BatchAssumption DEF BatchInv, BatchTypeOK, deal, Answers
<1>6. QED
  BY <1>4, <1>5 DEF BatchInv, deal

(* The end of the task, and the error of a batch, answer without outputs.  *)
LEMMA EndsInPlace ==
  ASSUME BatchInv, panics \/ batch_fails
  PROVE  BatchInv'
<1>1. answer \in [Prompts -> Answers] /\ \A p \in Prompts : answer[p] \in Proper(p)
  BY ProperAnswers DEF BatchInv, BatchTypeOK, AnswersMatch, Answers
<1>2. /\ answer' = [p \in Prompts |-> answer'[p]]
      /\ \A p \in Prompts : answer'[p] \in {answer[p], Dropped, EngineFails}
  BY DEF panics, batch_fails
<1>3. /\ answer' \in [Prompts -> Answers]
      /\ \A p \in Prompts : answer'[p] \in Proper(p)
  BY <1>1, <1>2 DEF Answers, Proper
<1>4. AnswersMatch'
  BY <1>3, ProperAnswers DEF AnswersMatch
<1>5. BatchTypeOK'
  <2>1. /\ UNCHANGED engine /\ batch_task' \in {"panicked", "recv"}
        /\ batch' = <<>> /\ ungenerated' = <<>> /\ outputs' = <<>> /\ tries' = 0
        /\ batch_queue' \in {<<>>, batch_queue}
    BY DEF panics, batch_fails
  <2>2. batch_queue' \in Seq(Prompts) /\ Len(batch_queue') <= queue_capacity
    <3>1. <<>> \in Seq(Prompts) /\ Len(<<>>) = 0 /\ 0 <= queue_capacity
      BY BatchAssumption
    <3>2. batch_queue \in Seq(Prompts) /\ Len(batch_queue) <= queue_capacity
      BY DEF BatchInv, BatchTypeOK
    <3>3. QED
      BY <2>1, <3>1, <3>2
  <2>3. QED
    BY <1>3, <2>1, <2>2, BatchAssumption DEF BatchInv, BatchTypeOK, Answers
<1>6. QED
  BY <1>4, <1>5 DEF BatchInv, panics, batch_fails

LEMMA BatchInvInit == BatchInit => BatchInv
  BY BatchAssumption DEF BatchInit, BatchInv, BatchTypeOK, AnswersMatch, Unanswered

LEMMA BatchInvNext ==
  ASSUME BatchInv, [BatchNext]_batchVars
  PROVE  BatchInv'
<1> USE DEF BatchInv
<1>t. /\ batch \in Seq(Prompts) /\ ungenerated \in Seq(Prompts) /\ outputs \in Seq(Outputs)
      /\ batch_queue \in Seq(Prompts) /\ Len(batch) \in Nat /\ Len(batch_queue) \in Nat
      /\ engine \in [kind : Engines, fallback_mock : BOOLEAN]
      /\ answer \in [Prompts -> Answers] /\ tries \in 0 .. max_retries
  BY DEF BatchTypeOK, Answers
<1>1. CASE UNCHANGED batchVars
  BY <1>1 DEF batchVars, BatchTypeOK, AnswersMatch, Aligned
<1>2. ASSUME NEW p \in Prompts, submit(p) PROVE BatchInv'
  <2>1. CASE batch_task = "panicked"
    <3>1. answer' = [answer EXCEPT ![p] = EngineFails]
          /\ UNCHANGED <<engine, batch_queue, batch, batch_task, ungenerated, outputs, tries>>
      BY <1>2, <2>1 DEF submit
    <3>2. answer' \in [Prompts -> Answers]
          /\ \A x \in Prompts : answer'[x] \in {answer[x], EngineFails}
      BY <1>t, <3>1 DEF Answers
    <3>3. AnswersMatch'
      BY <3>2 DEF AnswersMatch, EngineFails
    <3>4. QED
      BY <2>1, <3>1, <3>2, <3>3 DEF BatchTypeOK, Answers
  <2>2. CASE batch_task # "panicked"
    <3>1. Len(batch_queue) < queue_capacity /\ batch_queue' = Append(batch_queue, p)
          /\ UNCHANGED <<engine, batch, batch_task, ungenerated, outputs, tries, answer>>
      BY <1>2, <2>2 DEF submit
    <3>2. batch_queue' \in Seq(Prompts) /\ Len(batch_queue') <= queue_capacity
      BY <1>t, <3>1, BatchAssumption
    <3>3. QED
      BY <3>1, <3>2 DEF BatchTypeOK, AnswersMatch, Aligned
  <2>3. QED
    BY <2>1, <2>2
<1>3. CASE recv
  <2>1. /\ batch_queue # <<>> /\ Len(batch) < max_batch_size /\ batch_task' = "fill"
        /\ batch' = Append(batch, Head(batch_queue)) /\ batch_queue' = Tail(batch_queue)
        /\ UNCHANGED <<engine, ungenerated, outputs, tries, answer>>
    BY <1>3 DEF recv
  <2>2. Head(batch_queue) \in Prompts /\ Tail(batch_queue) \in Seq(Prompts)
        /\ Len(Tail(batch_queue)) <= Len(batch_queue)
    BY <1>t, <2>1
  <2>3. batch' \in Seq(Prompts) /\ Len(batch') <= max_batch_size
    BY <1>t, <2>1, <2>2, BatchAssumption
  <2>4. Len(batch_queue') <= queue_capacity
    BY <1>t, <2>1, <2>2, BatchAssumption DEF BatchTypeOK
  <2>5. QED
    BY <2>1, <2>2, <2>3, <2>4 DEF BatchTypeOK, AnswersMatch
<1>4. CASE fill_over
  <2>1. batch_task' = "generate" /\ ungenerated' = batch /\ outputs' = <<>> /\ tries' = 0
        /\ UNCHANGED <<engine, batch_queue, batch, answer>>
    BY <1>4 DEF fill_over
  <2>2. Aligned'
    BY <1>t, <2>1 DEF Aligned
  <2>3. QED
    BY <1>t, <2>1, <2>2, BatchAssumption DEF BatchTypeOK, AnswersMatch
<1>5. CASE retry_later
  BY <1>5, BatchAssumption DEF retry_later, BatchTypeOK, AnswersMatch, Aligned
<1>6. CASE generate_batch
  <2>1. PICK out \in generate(Head(ungenerated)) :
          CASE out = Panic       -> panics
            [] out = EngineFails -> batch_fails
            [] OTHER -> /\ outputs' = Append(outputs, out)
                        /\ ungenerated' = Tail(ungenerated) /\ tries' = 0
                        /\ UNCHANGED <<engine, batch_queue, batch, batch_task, answer>>
    BY <1>6 DEF generate_batch
  <2>2. CASE out \in {Panic, EngineFails}
    <3>1. panics \/ batch_fails
      BY <2>1, <2>2
    <3>2. QED
      BY <3>1, EndsInPlace
  <2>3. CASE out \notin {Panic, EngineFails}
    <3>1. /\ outputs' = Append(outputs, out) /\ ungenerated' = Tail(ungenerated) /\ tries' = 0
          /\ UNCHANGED <<engine, batch_queue, batch, batch_task, answer>>
      BY <2>1, <2>3
    <3>2. /\ batch_task = "generate" /\ engine.kind # "tensorrt" /\ ungenerated # <<>> /\ Aligned
      BY <1>6 DEF generate_batch, Generating
    <3>3. /\ Head(ungenerated) \in Prompts /\ Head(ungenerated) = ungenerated[1]
          /\ Len(ungenerated) \in Nat \ {0} /\ Tail(ungenerated) \in Seq(Prompts)
          /\ Len(Tail(ungenerated)) = Len(ungenerated) - 1
          /\ \A i \in 1 .. (Len(ungenerated) - 1) : Tail(ungenerated)[i] = ungenerated[i + 1]
      BY <1>t, <3>2
    <3>4. out \in {Text(Head(ungenerated)), Mock(Head(ungenerated))}
      BY <2>3, <3>3, GeneratesItsPrompt
    <3>5. out \in Outputs
      BY <3>3, <3>4 DEF Outputs
    <3>6. /\ outputs' \in Seq(Outputs) /\ Len(outputs) \in Nat /\ Len(outputs') = Len(outputs) + 1
          /\ outputs'[Len(outputs) + 1] = out
          /\ \A i \in 1 .. Len(outputs) : outputs'[i] = outputs[i]
      BY <1>t, <3>1, <3>5
    <3>7. Head(ungenerated) = batch[Len(outputs) + 1]
      BY <3>2, <3>3 DEF Aligned
    <3>8. Aligned'
      <4>1. Len(outputs') + Len(ungenerated') = Len(batch')
        BY <1>t, <3>1, <3>2, <3>3, <3>6 DEF Aligned
      <4>2. \A i \in 1 .. Len(outputs') : outputs'[i] \in {Text(batch[i]), Mock(batch[i])}
        BY <3>2, <3>4, <3>6, <3>7 DEF Aligned
      <4>3. ASSUME NEW i \in 1 .. Len(ungenerated') PROVE ungenerated'[i] = batch[Len(outputs') + i]
        <5>1. i + 1 \in 1 .. Len(ungenerated) /\ ungenerated'[i] = ungenerated[i + 1]
          BY <3>1, <3>3, <4>3
        <5>2. ungenerated[i + 1] = batch[Len(outputs) + (i + 1)]
          BY <3>2, <5>1 DEF Aligned
        <5>3. Len(outputs) + (i + 1) = Len(outputs') + i
          BY <3>6, <5>1
        <5>4. QED
          BY <5>1, <5>2, <5>3
      <4>4. QED
        BY <3>1, <4>1, <4>2, <4>3 DEF Aligned
    <3>9. QED
      BY <3>1, <3>3, <3>6, <3>8, BatchAssumption DEF BatchTypeOK, AnswersMatch
  <2>4. QED
    BY <2>2, <2>3
<1>7. CASE batch_generated
  <2>1. deal(outputs) /\ Aligned
    BY <1>7 DEF batch_generated
  <2>2. \A i \in DOMAIN outputs : outputs[i] \in {Text(batch[i]), Mock(batch[i])}
    <3>1. DOMAIN outputs = 1 .. Len(outputs)
      BY <1>t
    <3>2. QED
      BY <2>1, <3>1 DEF Aligned
  <2>3. QED
    BY <2>1, <2>2, DealtInPlace
<1>8. CASE call_tensorrt
  <2>1. PICK outs \in generate_tensorrt :
          CASE outs = <<Panic>>       -> panics
            [] outs = <<EngineFails>> -> batch_fails
            [] OTHER                  -> deal(outs)
    BY <1>8 DEF call_tensorrt
  <2>2. CASE outs = <<Panic>> \/ outs = <<EngineFails>>
    <3>1. panics \/ batch_fails
      BY <2>1, <2>2
    <3>2. QED
      BY <3>1, EndsInPlace
  <2>3. CASE outs # <<Panic>> /\ outs # <<EngineFails>>
    <3>1. deal(outs)
      BY <2>1, <2>3
    <3>2. \A i \in DOMAIN outs : outs[i] \in {Text(batch[i]), Mock(batch[i])}
      BY <2>3, TensorrtInPlace
    <3>3. QED
      BY <3>1, <3>2, DealtInPlace
  <2>4. QED
    BY <2>2, <2>3
<1>9. QED
  BY <1>1, <1>2, <1>3, <1>4, <1>5, <1>6, <1>7, <1>8 DEF BatchNext, BatchTask

(* A caller that gets an output gets the one of its own prompt, whatever   *)
(* the engine gave to the others of its batch, however the batches were    *)
(* filled and whoever failed: batching.rs deals by position.               *)
THEOREM OutputsInPlace == BatchSpec => []AnswersMatch
<1>1. BatchInv => AnswersMatch
  BY DEF BatchInv
<1>2. QED
  BY BatchInvInit, BatchInvNext, <1>1, PTL DEF BatchSpec

-----------------------------------------------------------------------------
(***************************************************************************)
(* IntentBus, for every set of requests, filters and capacity: whatever    *)
(* the receivers skip, a task publishes only what an intent before it      *)
(* asked for.                                                              *)
(***************************************************************************)
(* Among the first n intents of the history h is one of this kind.         *)
Before(h, n, kind, r) == \E i \in DOMAIN h : i <= n /\ h[i] = Msg(kind, r)

(* What an intent needs to have gone before it.                            *)
Justified(h, n, msg) ==
  /\ msg.kind = "command"  => msg.of \in Plannable /\ Before(h, n, "nl", msg.of)
  /\ msg.kind = "request"  => Before(h, n, "command", msg.of)
  /\ msg.kind \in Replies => Before(h, n, "request", msg.of)

BusInv ==
  /\ sent \in Seq(Intents)
  /\ position \in [Subscribers -> Nat]
  /\ outgoing \in [Subscribers -> Seq(Intents)]
  /\ \A i \in DOMAIN sent : Justified(sent, i - 1, sent[i])
  /\ \A s \in Subscribers : \A i \in DOMAIN outgoing[s] : Justified(sent, Len(sent), outgoing[s][i])
  /\ \A r \in placed : Before(sent, Len(sent), "response", r)
  /\ \A r \in failed : Before(sent, Len(sent), "failure", r)

LEMMA OldestIsEarlier == ASSUME BusInv PROVE Oldest \in 0 .. Len(sent)
  BY IntentBusAssumption DEF BusInv, Oldest

(* What is received has been sent, and what it asks for has gone before.   *)
LEMMA ReceivedWasSent ==
  ASSUME BusInv, NEW s \in Subscribers, receive(s)
  PROVE  /\ position' \in [Subscribers -> Nat]
         /\ position'[s] \in DOMAIN sent
         /\ Received(s) = sent[position'[s]] /\ Received(s) \in Intents
<1>1. position[s] \in Nat /\ position[s] < Len(sent) /\ Len(sent) \in Nat
  BY DEF BusInv, receive
<1>2. PICK n : n = (IF position[s] < Oldest THEN Oldest ELSE position[s]) + 1
  OBVIOUS
<1>3. position' = [position EXCEPT ![s] = n]
  BY <1>2 DEF receive, BusInv
<1>4. n \in 1 .. Len(sent) \/ Oldest = Len(sent)
  BY <1>1, <1>2, OldestIsEarlier
<1>5. Oldest = Len(sent) => Len(sent) = 0
  BY <1>1, IntentBusAssumption DEF Oldest
<1>6. n \in Nat /\ n \in DOMAIN sent
  BY <1>1, <1>4, <1>5 DEF BusInv
<1>7. position' \in [Subscribers -> Nat] /\ position'[s] = n
  BY <1>3, <1>6 DEF BusInv
<1>8. sent[n] \in Intents
  BY <1>6 DEF BusInv
<1>9. QED
  BY <1>6, <1>7, <1>8 DEF Received

(* A longer history, and more of it, has no less gone before.              *)
LEMMA BeforeGrows ==
  ASSUME NEW S, NEW h \in Seq(S), NEW g \in Seq(S), Len(h) <= Len(g),
         \A i \in 1 .. Len(h) : g[i] = h[i],
         NEW n \in Int, NEW m \in Int, n <= m, NEW kind, NEW r, Before(h, n, kind, r)
  PROVE  Before(g, m, kind, r)
<1>1. PICK i \in DOMAIN h : i <= n /\ h[i] = Msg(kind, r)
  BY DEF Before
<1>2. i \in DOMAIN g /\ i <= m /\ g[i] = h[i]
  BY <1>1
<1>3. QED
  BY <1>1, <1>2 DEF Before

LEMMA JustifiedGrows ==
  ASSUME NEW S, NEW h \in Seq(S), NEW g \in Seq(S), Len(h) <= Len(g),
         \A i \in 1 .. Len(h) : g[i] = h[i],
         NEW n \in Int, NEW m \in Int, n <= m, NEW msg, Justified(h, n, msg)
  PROVE  Justified(g, m, msg)
<1>1. \A kind, r : Before(h, n, kind, r) => Before(g, m, kind, r)
  BY BeforeGrows
<1>2. QED
  BY <1>1 DEF Justified

LEMMA Appending ==
  ASSUME NEW S, NEW h \in Seq(S), NEW x \in S
  PROVE  /\ Append(h, x) \in Seq(S) /\ Len(h) \in Nat /\ Len(Append(h, x)) = Len(h) + 1
         /\ \A i \in 1 .. Len(h) : Append(h, x)[i] = h[i]
         /\ Append(h, x)[Len(h) + 1] = x
  OBVIOUS

(* An intent that is published keeps what went before, and is justified by *)
(* it.                                                                     *)
LEMMA PublishKeeps ==
  ASSUME BusInv, NEW msg \in Intents, Justified(sent, Len(sent), msg), publish(msg)
  PROVE  /\ sent' \in Seq(Intents)
         /\ \A i \in DOMAIN sent' : Justified(sent', i - 1, sent'[i])
         /\ \A m : Justified(sent, Len(sent), m) => Justified(sent', Len(sent'), m)
         /\ \A k, r : Before(sent, Len(sent), k, r) => Before(sent', Len(sent'), k, r)
<1>0. sent \in Seq(Intents) /\ Len(sent) \in Nat
      /\ \A i \in DOMAIN sent : Justified(sent, i - 1, sent[i])
  BY DEF BusInv
<1>1. CASE UNCHANGED sent
  BY <1>0, <1>1
<1>2. CASE sent' = Append(sent, msg)
  <2>1. /\ sent' \in Seq(Intents) /\ Len(sent') = Len(sent) + 1
        /\ \A i \in 1 .. Len(sent) : sent'[i] = sent[i]
        /\ sent'[Len(sent) + 1] = msg
    BY <1>0, <1>2, Appending
  <2>2. Len(sent) \in Int /\ Len(sent') \in Int /\ Len(sent) <= Len(sent')
    BY <1>0, <2>1
  <2>3. ASSUME NEW i \in DOMAIN sent' PROVE Justified(sent', i - 1, sent'[i])
    <3>1. i \in 1 .. Len(sent) \/ i = Len(sent) + 1
      BY <1>0, <2>1
    <3>2. CASE i \in 1 .. Len(sent)
      <4>1. Justified(sent, i - 1, sent[i]) /\ i - 1 \in Int /\ i - 1 <= i - 1 /\ sent'[i] = sent[i]
        BY <1>0, <2>1, <3>2
      <4>2. QED
        BY <1>0, <2>1, <2>2, <4>1, JustifiedGrows
    <3>3. CASE i = Len(sent) + 1
      <4>1. i - 1 = Len(sent) /\ sent'[i] = msg /\ Len(sent) <= Len(sent)
        BY <1>0, <2>1, <3>3
      <4>2. Justified(sent', Len(sent), msg)
        BY <1>0, <2>1, <2>2, <4>1, JustifiedGrows
      <4>3. QED
        BY <4>1, <4>2
    <3>4. QED
      BY <3>1, <3>2, <3>3
  <2>4. \A m : Justified(sent, Len(sent), m) => Justified(sent', Len(sent'), m)
    BY <1>0, <2>1, <2>2, JustifiedGrows
  <2>5. \A k, r : Before(sent, Len(sent), k, r) => Before(sent', Len(sent'), k, r)
    BY <1>0, <2>1, <2>2, BeforeGrows
  <2>6. QED
    BY <2>1, <2>3, <2>4, <2>5
<1>3. QED
  BY <1>1, <1>2 DEF publish

(* The plan of a request that has been asked for, and what is published of *)
(* a command or a request, goes after what it answers.                     *)
LEMMA AnswersJustified ==
  ASSUME BusInv, NEW n \in DOMAIN sent, NEW msg, msg = sent[n]
  PROVE  /\ msg \in Intents /\ Before(sent, Len(sent), msg.kind, msg.of)
         /\ \A k \in Kinds : Msg(k, msg.of) \in Intents
         /\ Justified(sent, Len(sent), Msg("advisory", msg.of))
         /\ msg.kind = "nl" /\ msg.of \in Plannable =>
              Justified(sent, Len(sent), Msg("command", msg.of))
         /\ msg.kind = "command" => Justified(sent, Len(sent), Msg("request", msg.of))
         /\ msg.kind = "request" =>
              \A reply \in Replies : Justified(sent, Len(sent), Msg(reply, msg.of))
<1>1. msg \in Intents /\ n <= Len(sent)
  BY DEF BusInv
<1>2. msg.kind \in Kinds /\ msg.of \in Requests /\ msg = Msg(msg.kind, msg.of)
  BY <1>1 DEF Intents, Msg
<1>3. Before(sent, Len(sent), msg.kind, msg.of)
  BY <1>1, <1>2 DEF Before
<1>4. \A k : Msg(k, msg.of).kind = k /\ Msg(k, msg.of).of = msg.of
  BY DEF Msg
<1>5. \A k \in Kinds : Msg(k, msg.of) \in Intents
  BY <1>2 DEF Msg, Intents
<1>6. QED
  BY <1>1, <1>3, <1>4, <1>5 DEF Justified, Replies

LEMMA One == ASSUME NEW S, NEW x \in S PROVE <<x>> \in Seq(S) /\ DOMAIN <<x>> = {1} /\ <<x>>[1] = x
  OBVIOUS
LEMMA Two == ASSUME NEW S, NEW x \in S, NEW y \in S
             PROVE <<x, y>> \in Seq(S) /\ DOMAIN <<x, y>> = {1, 2} /\ <<x, y>>[1] = x /\ <<x, y>>[2] = y
  OBVIOUS

(* A task that receives and sets out to publish what is justified.         *)
LEMMA TaskKeeps ==
  ASSUME BusInv, NEW s \in Subscribers, NEW out \in Seq(Intents),
         \A i \in DOMAIN out : Justified(sent, Len(sent), out[i]),
         outgoing' = [outgoing EXCEPT ![s] = out], UNCHANGED sent,
         position' \in [Subscribers -> Nat],
         \A r \in placed' : Before(sent, Len(sent), "response", r),
         \A r \in failed' : Before(sent, Len(sent), "failure", r)
  PROVE  BusInv'
<1>1. outgoing' \in [Subscribers -> Seq(Intents)]
  BY DEF BusInv
<1>2. outgoing'[s] = out /\ \A q \in Subscribers \ {s} : outgoing'[q] = outgoing[q]
  BY DEF BusInv
<1>3. \A q \in Subscribers : \A i \in DOMAIN outgoing'[q] : Justified(sent, Len(sent), outgoing'[q][i])
  BY <1>2 DEF BusInv
<1>4. QED
  BY <1>1, <1>3 DEF BusInv

LEMMA RoutingKeeps == ASSUME BusInv, Routing PROVE BusInv'
<1>1. /\ receive("routing") /\ "routing" \in Subscribers /\ UNCHANGED sent
  BY DEF Routing, Subscribers
<1>2. PICK n, msg : n = position'["routing"] /\ msg = Received("routing")
  OBVIOUS
<1>3. /\ position' \in [Subscribers -> Nat] /\ n \in DOMAIN sent /\ msg = sent[n]
  BY <1>1, <1>2, ReceivedWasSent
<1>4. /\ msg \in Intents /\ Before(sent, Len(sent), msg.kind, msg.of)
      /\ \A k \in Kinds : Msg(k, msg.of) \in Intents
      /\ Justified(sent, Len(sent), Msg("advisory", msg.of))
      /\ msg.kind = "nl" /\ msg.of \in Plannable =>
           Justified(sent, Len(sent), Msg("command", msg.of))
      /\ msg.kind = "command" => Justified(sent, Len(sent), Msg("request", msg.of))
  BY <1>3, AnswersJustified
<1>5. PICK out : out = CASE msg.kind = "nl"      -> plan_and_reason(msg.of)
                         [] msg.kind = "command" -> <<Msg("request", msg.of)>>
                         [] OTHER                -> <<>>
  OBVIOUS
<1>6. \/ msg.kind = "nl" /\ msg.of \in Plannable
           /\ out = <<Msg("advisory", msg.of), Msg("command", msg.of)>>
      \/ out = <<Msg("advisory", msg.of)>>
      \/ msg.kind = "command" /\ out = <<Msg("request", msg.of)>>
      \/ out = <<>>
  <2>1. CASE msg.kind = "nl"
    BY <1>5, <2>1, Zenon DEF plan_and_reason
  <2>2. CASE msg.kind = "command"
    <3>1. ~ (msg.kind = "nl")
      BY <2>2
    <3>2. QED
      BY <1>5, <2>2, <3>1, Zenon
  <2>3. CASE ~ (msg.kind = "nl") /\ ~ (msg.kind = "command")
    BY <1>5, <2>3, Zenon
  <2>4. QED
    BY <2>1, <2>2, <2>3
<1>7. "advisory" \in Kinds /\ "command" \in Kinds /\ "request" \in Kinds
  BY DEF Kinds
<1>8. out \in Seq(Intents) /\ \A i \in DOMAIN out : Justified(sent, Len(sent), out[i])
  <2>1. CASE msg.kind = "nl" /\ msg.of \in Plannable
             /\ out = <<Msg("advisory", msg.of), Msg("command", msg.of)>>
    BY <1>4, <1>7, <2>1, Two
  <2>2. CASE out = <<Msg("advisory", msg.of)>>
    BY <1>4, <1>7, <2>2, One
  <2>3. CASE msg.kind = "command" /\ out = <<Msg("request", msg.of)>>
    BY <1>4, <1>7, <2>3, One
  <2>4. CASE out = <<>>
    BY <2>4
  <2>5. QED
    BY <1>6, <2>1, <2>2, <2>3, <2>4
<1>9. outgoing' = [outgoing EXCEPT !["routing"] = out]
  BY <1>2, <1>5, Zenon DEF Routing
<1>10. \A r \in placed' : Before(sent, Len(sent), "response", r)
  <2>1. placed' = placed \/ (msg.kind = "response" /\ placed' = placed \cup {msg.of})
    BY <1>2 DEF Routing
  <2>2. \A r \in placed : Before(sent, Len(sent), "response", r)
    BY DEF BusInv
  <2>3. QED
    BY <1>4, <2>1, <2>2
<1>11. \A r \in failed' : Before(sent, Len(sent), "failure", r)
  <2>1. failed' = failed \/ (msg.kind = "failure" /\ failed' = failed \cup {msg.of})
    BY <1>2 DEF Routing
  <2>2. \A r \in failed : Before(sent, Len(sent), "failure", r)
    BY DEF BusInv
  <2>3. QED
    BY <1>4, <2>1, <2>2
<1>12. QED
  BY <1>1, <1>3, <1>8, <1>9, <1>10, <1>11, TaskKeeps

LEMMA ComputeKeeps == ASSUME BusInv, Compute PROVE BusInv'
<1>1. /\ receive("compute") /\ "compute" \in Subscribers /\ UNCHANGED <<sent, placed, failed>>
  BY DEF Compute, Subscribers
<1>2. PICK n, msg : n = position'["compute"] /\ msg = Received("compute")
  OBVIOUS
<1>3. /\ position' \in [Subscribers -> Nat] /\ n \in DOMAIN sent /\ msg = sent[n]
  BY <1>1, <1>2, ReceivedWasSent
<1>4. /\ \A k \in Kinds : Msg(k, msg.of) \in Intents
      /\ msg.kind = "request" =>
           \A reply \in Replies : Justified(sent, Len(sent), Msg(reply, msg.of))
  BY <1>3, AnswersJustified
<1>5. PICK reply \in Replies : outgoing' = [outgoing EXCEPT !["compute"] =
                        IF msg.kind = "request" THEN <<Msg(reply, msg.of)>> ELSE <<>>]
  BY <1>2 DEF Compute
<1>51. PICK out : out = IF msg.kind = "request" THEN <<Msg(reply, msg.of)>> ELSE <<>>
  OBVIOUS
<1>6. reply \in Kinds
  BY DEF Kinds
<1>7. out \in Seq(Intents) /\ \A i \in DOMAIN out : Justified(sent, Len(sent), out[i])
  <2>1. CASE msg.kind = "request" /\ out = <<Msg(reply, msg.of)>>
    BY <1>4, <1>6, <2>1, One
  <2>2. CASE out = <<>>
    BY <2>2
  <2>3. QED
    BY <1>51, <2>1, <2>2
<1>8. outgoing' = [outgoing EXCEPT !["compute"] = out]
  BY <1>5, <1>51, Zenon
<1>9. /\ \A r \in placed' : Before(sent, Len(sent), "response", r)
      /\ \A r \in failed' : Before(sent, Len(sent), "failure", r)
  BY <1>1 DEF BusInv
<1>10. QED
  BY <1>1, <1>3, <1>7, <1>8, <1>9, TaskKeeps

LEMMA TailOf ==
  ASSUME NEW S, NEW q \in Seq(S), q # <<>>
  PROVE  /\ Tail(q) \in Seq(S) /\ Head(q) \in S /\ 1 \in DOMAIN q /\ Head(q) = q[1]
         /\ \A i \in DOMAIN Tail(q) : i + 1 \in DOMAIN q /\ Tail(q)[i] = q[i + 1]
  OBVIOUS

LEMMA PublishNextKeeps ==
  ASSUME BusInv, NEW s \in Subscribers, PublishNext(s)
  PROVE  BusInv'
<1>1. /\ outgoing[s] \in Seq(Intents) /\ outgoing[s] # <<>>
      /\ publish(Head(outgoing[s])) /\ UNCHANGED <<position, placed, failed>>
  BY DEF PublishNext, BusInv
<1>2. PICK msg, rest : msg = Head(outgoing[s]) /\ rest = Tail(outgoing[s])
  OBVIOUS
<1>3. outgoing' = [outgoing EXCEPT ![s] = rest]
  BY <1>2 DEF PublishNext, BusInv
<1>4. /\ rest \in Seq(Intents) /\ msg \in Intents /\ msg = outgoing[s][1] /\ 1 \in DOMAIN outgoing[s]
      /\ \A i \in DOMAIN rest : i + 1 \in DOMAIN outgoing[s] /\ rest[i] = outgoing[s][i + 1]
  BY <1>1, <1>2, TailOf
<1>5. \A q \in Subscribers : \A i \in DOMAIN outgoing[q] : Justified(sent, Len(sent), outgoing[q][i])
  BY DEF BusInv
<1>6. Justified(sent, Len(sent), msg) /\ publish(msg)
  BY <1>1, <1>2, <1>4, <1>5
<1>7. /\ sent' \in Seq(Intents)
      /\ \A i \in DOMAIN sent' : Justified(sent', i - 1, sent'[i])
      /\ \A m : Justified(sent, Len(sent), m) => Justified(sent', Len(sent'), m)
      /\ \A k, r : Before(sent, Len(sent), k, r) => Before(sent', Len(sent'), k, r)
  BY <1>4, <1>6, PublishKeeps
<1>8. /\ outgoing' \in [Subscribers -> Seq(Intents)] /\ outgoing'[s] = rest
      /\ \A q \in Subscribers \ {s} : outgoing'[q] = outgoing[q]
  BY <1>3, <1>4 DEF BusInv
<1>9. \A q \in Subscribers : \A i \in DOMAIN outgoing'[q] : Justified(sent, Len(sent), outgoing'[q][i])
  BY <1>4, <1>5, <1>8
<1>10. QED
  BY <1>1, <1>7, <1>8, <1>9 DEF BusInv

LEMMA AskKeeps ==
  ASSUME BusInv, NEW r \in Requests, Ask(r)
  PROVE  BusInv'
<1>1. /\ publish(Msg("nl", r)) /\ UNCHANGED <<position, outgoing, placed, failed>>
  BY DEF Ask
<1>2. Msg("nl", r) \in Intents /\ Justified(sent, Len(sent), Msg("nl", r))
  BY DEF Msg, Intents, Kinds, Replies, Justified
<1>3. /\ sent' \in Seq(Intents)
      /\ \A i \in DOMAIN sent' : Justified(sent', i - 1, sent'[i])
      /\ \A m : Justified(sent, Len(sent), m) => Justified(sent', Len(sent'), m)
      /\ \A k, q : Before(sent, Len(sent), k, q) => Before(sent', Len(sent'), k, q)
  BY <1>1, <1>2, PublishKeeps
<1>4. QED
  BY <1>1, <1>3 DEF BusInv

LEMMA BusInvInit == BusInit => BusInv
<1>1. ASSUME BusInit PROVE BusInv
  <2>1. sent = <<>> /\ sent \in Seq(Intents) /\ DOMAIN sent = {} /\ placed = {} /\ failed = {}
    BY <1>1 DEF BusInit
  <2>2. /\ outgoing \in [Subscribers -> Seq(Intents)]
        /\ \A s \in Subscribers : DOMAIN outgoing[s] = {}
    BY <1>1 DEF BusInit
  <2>3. QED
    BY <1>1, <2>1, <2>2 DEF BusInit, BusInv
<1>2. QED
  BY <1>1

LEMMA BusInvNext == BusInv /\ [BusNext]_busVars => BusInv'
<1> SUFFICES ASSUME BusInv, [BusNext]_busVars PROVE BusInv'
  OBVIOUS
<1>1. ASSUME NEW k \in FilteredKinds, add_filter(k) \/ remove_filter(k) PROVE BusInv'
  BY <1>1 DEF add_filter, remove_filter, BusInv
<1>2. CASE UNCHANGED busVars
  BY <1>2 DEF busVars, BusInv
<1>3. QED
  BY <1>1, <1>2, AskKeeps, RoutingKeeps, ComputeKeeps, PublishNextKeeps DEF BusNext

(* An agent has a placement, or is Failed for want of one, only when a     *)
(* request that can be planned was asked, commanded, sent for a placement  *)
(* and answered, in this order on the bus: late publishing, filters and    *)
(* receivers that lag and skip make up none of the four.                   *)
THEOREM SettledAsAsked == BusSpec => []SettledInOrder
<1>1. BusInv => SettledInOrder
  <2> SUFFICES ASSUME BusInv, NEW r \in placed \cup failed
               PROVE  /\ r \in Plannable
                      /\ \E i, j, k, l \in DOMAIN sent :
                           /\ i < j /\ j < k /\ k < l
                           /\ sent[i] = Msg("nl", r) /\ sent[j] = Msg("command", r)
                           /\ sent[k] = Msg("request", r)
                           /\ sent[l] = Msg(IF r \in placed THEN "response" ELSE "failure", r)
    BY DEF SettledInOrder
  <2>0. sent \in Seq(Intents) /\ \A i \in DOMAIN sent : i \in Nat /\ Justified(sent, i - 1, sent[i])
    BY DEF BusInv
  <2>a. \A k : Msg(k, r).kind = k /\ Msg(k, r).of = r
    BY DEF Msg
  <2>b. PICK reply \in Replies : reply = (IF r \in placed THEN "response" ELSE "failure")
    BY DEF Replies
  <2>1. PICK l \in DOMAIN sent : sent[l] = Msg(reply, r)
    BY <2>b DEF BusInv, Before
  <2>2. PICK k \in DOMAIN sent : k <= l - 1 /\ sent[k] = Msg("request", r)
    BY <2>0, <2>a, <2>1, <2>b DEF Justified, Before
  <2>3. PICK j \in DOMAIN sent : j <= k - 1 /\ sent[j] = Msg("command", r)
    BY <2>0, <2>a, <2>2 DEF Justified, Before
  <2>4. r \in Plannable /\ \E i \in DOMAIN sent : i <= j - 1 /\ sent[i] = Msg("nl", r)
    BY <2>0, <2>a, <2>3 DEF Justified, Before
  <2>5. PICK i \in DOMAIN sent : i <= j - 1 /\ sent[i] = Msg("nl", r)
    BY <2>4
  <2>6. i \in Nat /\ j \in Nat /\ k \in Nat /\ l \in Nat
    BY <2>0
  <2>7. i < j /\ j < k /\ k < l
    BY <2>2, <2>3, <2>5, <2>6
  <2>8. QED
    BY <2>b, <2>1, <2>2, <2>3, <2>4, <2>5, <2>7
<1>2. QED
  BY BusInvInit, BusInvNext, <1>1, PTL DEF BusSpec

-----------------------------------------------------------------------------
(***************************************************************************)
(* Indexer, for every set of files, sizes of the batches and points of a   *)
(* version: what is indexed is what the manifest says.                     *)
(***************************************************************************)
(* The entries of a manifest are no newer than the edits, nor is what the  *)
(* indexer has read; and what it is to write is no older than the entry.   *)
EntryTypes == [version : Nat, pieces : SUBSET Nat]
IndexerInv ==
  /\ file \in [Files -> Nat] /\ edits \in [Files -> Nat]
  /\ manifest \in [Files -> EntryTypes] /\ flushed \in [Files -> EntryTypes]
  /\ changes \in Seq(Changes) /\ buffer \in Seq(Changes) /\ batches \in Seq(Seq(Changes))
  /\ work.left \in Seq(Changes) /\ work.version \in Nat
  /\ work = [pc |-> work.pc, left |-> work.left, version |-> work.version]
  /\ \A f \in Files : /\ file[f] \in {0, edits[f]}
                      /\ manifest[f].version <= edits[f] /\ flushed[f].version <= edits[f]
  /\ work.pc = "replace" =>
       /\ work.left # <<>> /\ work.version \in 1 .. MaxEdits
       /\ manifest[Head(work.left).file].version <= work.version
       /\ work.version <= edits[Head(work.left).file]
  /\ ~up => work.pc = "idle"
  /\ \A f \in Files : edits[f] <= MaxEdits

LEMMA IndexerInitially == IndexerInit => IndexerInv
  BY IndexerAssumption DEF IndexerInit, IndexerInv, EntryTypes, Unlisted, NoWork

(* What is told is one change at most.                                     *)
LEMMA ToldIsShort ==
  ASSUME NEW f \in Files, NEW v, NEW notice \in Told(f, v)
  PROVE  notice \in Seq(Changes) /\ Len(notice) \in 0 .. 1
<1>1. \A b \in BOOLEAN : [file |-> f, deleted |-> b] \in Changes
  BY DEF Changes
<1>2. notice = <<>> \/ \E b \in BOOLEAN : notice = <<[file |-> f, deleted |-> b]>>
  BY DEF Told
<1>3. CASE notice = <<>>
  BY <1>3
<1>4. CASE \E b \in BOOLEAN : notice = <<[file |-> f, deleted |-> b]>>
  <2>1. PICK c \in Changes : notice = <<c>>
    BY <1>1, <1>4
  <2>2. QED
    BY <2>1
<1>5. QED
  BY <1>2, <1>3, <1>4

LEMMA NotifyKeeps == ASSUME IndexerInv, NEW f \in Files, notify_change(f) PROVE IndexerInv'
<1>0. PICK v \in {0, edits[f] + 1} : \E notice \in Told(f, v) :
        file' = [file EXCEPT ![f] = v] /\ changes' = changes \o notice
  BY DEF notify_change
<1>1. PICK notice \in Told(f, v) : file' = [file EXCEPT ![f] = v] /\ changes' = changes \o notice
  BY <1>0
<1>2. /\ edits' = [edits EXCEPT ![f] = @ + 1] /\ edits[f] < MaxEdits
      /\ UNCHANGED <<buffer, batches, work, indexed, manifest, flushed, reports, up>>
  BY DEF notify_change
<1>3. changes' \in Seq(Changes)
  <2>1. notice \in Seq(Changes)
    BY ToldIsShort
  <2>2. QED
    BY <1>1, <2>1 DEF IndexerInv
<1>4. /\ file' \in [Files -> Nat] /\ edits' \in [Files -> Nat]
      /\ edits'[f] = edits[f] + 1 /\ file'[f] \in {0, edits'[f]}
      /\ \A g \in Files \ {f} : edits'[g] = edits[g] /\ file'[g] = file[g]
  BY <1>1, <1>2 DEF IndexerInv
<1>5. \A g \in Files : manifest[g].version \in Nat /\ flushed[g].version \in Nat
  BY DEF IndexerInv, EntryTypes
<1>6. \A g \in Files : /\ edits[g] <= edits'[g] /\ edits'[g] <= MaxEdits
                       /\ file'[g] \in {0, edits'[g]}
                       /\ manifest[g].version <= edits'[g] /\ flushed[g].version <= edits'[g]
  <2>1. SUFFICES ASSUME NEW g \in Files
                 PROVE  /\ edits[g] <= edits'[g] /\ edits'[g] <= MaxEdits
                        /\ file'[g] \in {0, edits'[g]}
                        /\ manifest[g].version <= edits'[g] /\ flushed[g].version <= edits'[g]
    OBVIOUS
  <2>2. /\ edits[g] \in Nat /\ edits[g] <= MaxEdits /\ file[g] \in {0, edits[g]} /\ MaxEdits \in Nat
        /\ manifest[g].version <= edits[g] /\ flushed[g].version <= edits[g]
    BY IndexerAssumption DEF IndexerInv
  <2>3. CASE g = f
    BY <1>2, <1>4, <1>5, <2>2, <2>3
  <2>4. CASE g # f
    BY <1>4, <2>2, <2>4
  <2>5. QED
    BY <2>3, <2>4
<1>7. work.pc = "replace" => work.version <= edits'[Head(work.left).file]
  <2>1. SUFFICES ASSUME work.pc = "replace" PROVE work.version <= edits'[Head(work.left).file]
    OBVIOUS
  <2>2. Head(work.left) \in Changes
    BY <2>1, TailOf DEF IndexerInv
  <2>3. PICK g : g = Head(work.left).file
    OBVIOUS
  <2>4. g \in Files /\ work.version <= edits[g] /\ work.version \in Nat
    BY <2>1, <2>2, <2>3 DEF Changes, IndexerInv
  <2>5. work.version <= edits'[g]
    BY <1>4, <1>6, <2>4 DEF IndexerInv
  <2>6. QED
    BY <2>3, <2>5
<1>8. QED
  BY <1>2, <1>3, <1>4, <1>6, <1>7 DEF IndexerInv

LEMMA AccumulateKeeps == ASSUME IndexerInv, accumulate PROVE IndexerInv'
<1>1. /\ changes \in Seq(Changes) /\ changes # <<>> /\ buffer \in Seq(Changes)
      /\ batches \in Seq(Seq(Changes)) /\ changes' = Tail(changes)
      /\ UNCHANGED <<file, edits, work, manifest, flushed, up>> /\ up
  BY DEF accumulate, IndexerInv
<1>2. Tail(changes) \in Seq(Changes) /\ Head(changes) \in Changes
  BY <1>1, TailOf
<1>3. PICK more : more = Append(buffer, Head(changes))
  OBVIOUS
<1>4. more \in Seq(Changes) /\ Append(batches, more) \in Seq(Seq(Changes)) /\ <<>> \in Seq(Changes)
  BY <1>1, <1>2, <1>3
<1>5. buffer' \in Seq(Changes) /\ batches' \in Seq(Seq(Changes))
  <2>1. \/ buffer' = <<>> /\ batches' = Append(batches, more)
        \/ buffer' = more /\ batches' = batches
    BY <1>3 DEF accumulate
  <2>2. QED
    BY <1>1, <1>4, <2>1
<1>6. QED
  BY <1>1, <1>2, <1>5 DEF IndexerInv

LEMMA WindowKeeps == ASSUME IndexerInv, window_expires PROVE IndexerInv'
<1>1. Append(batches, buffer) \in Seq(Seq(Changes)) /\ <<>> \in Seq(Changes)
  BY DEF IndexerInv
<1>2. QED
  BY <1>1 DEF window_expires, IndexerInv

LEMMA TakeKeeps == ASSUME IndexerInv, take_batch PROVE IndexerInv'
<1>1. Head(batches) \in Seq(Changes) /\ Tail(batches) \in Seq(Seq(Changes))
  BY TailOf DEF take_batch, IndexerInv
<1>2. QED
  BY <1>1 DEF take_batch, IndexerInv

LEMMA ReadKeeps == ASSUME IndexerInv, read_file PROVE IndexerInv'
<1>1. PICK c, f : c = Head(work.left) /\ f = c.file
  OBVIOUS
<1>2. /\ work.left \in Seq(Changes) /\ work.left # <<>> /\ work.pc = "read"
      /\ UNCHANGED <<file, edits, changes, buffer, batches, flushed, up>> /\ up
  BY DEF read_file, IndexerInv, pipeVars
<1>3. c \in Changes /\ Tail(work.left) \in Seq(Changes)
  BY <1>1, <1>2, TailOf
<1>4. f \in Files
  BY <1>1, <1>3 DEF Changes
<1>5. CASE file[f] # 0 /\ work' = [work EXCEPT !.pc = "replace", !.version = file[f]]
           /\ UNCHANGED manifest
  <2>1. /\ work' = [pc |-> "replace", left |-> work.left, version |-> file[f]]
        /\ file[f] = edits[f] /\ file[f] \in Nat /\ edits[f] <= MaxEdits
        /\ manifest[f].version <= edits[f]
    BY <1>4, <1>5 DEF IndexerInv
  <2>2. work'.pc = "replace" /\ work'.left = work.left /\ work'.version = file[f] /\ file[f] \in 1 .. MaxEdits
    BY <1>5, <2>1, IndexerAssumption
  <2>3. Head(work'.left).file = f
    BY <1>1, <2>2
  <2>4. /\ manifest'[Head(work'.left).file].version <= work'.version
        /\ work'.version <= edits'[Head(work'.left).file]
    BY <1>2, <1>5, <2>1, <2>2, <2>3
  <2>5. work' = [pc |-> work'.pc, left |-> work'.left, version |-> work'.version]
    BY <2>1
  <2>6. work'.left \in Seq(Changes) /\ work'.left # <<>> /\ work'.version \in Nat
    BY <1>2, <2>1, <2>2
  <2>7. QED
    BY <1>2, <1>5, <2>2, <2>4, <2>5, <2>6 DEF IndexerInv
<1>6. CASE work' = [work EXCEPT !.left = Tail(@)] /\ UNCHANGED manifest
  <2>1. work' = [pc |-> "read", left |-> Tail(work.left), version |-> work.version]
    BY <1>2, <1>6 DEF IndexerInv
  <2>2. QED
    BY <1>2, <1>3, <1>6, <2>1 DEF IndexerInv
<1>7. QED
  BY <1>1, <1>5, <1>6 DEF read_file

LEMMA DeleteKeeps == ASSUME IndexerInv, delete_file_index PROVE IndexerInv'
<1>1. PICK c, f : c = Head(work.left) /\ f = c.file
  OBVIOUS
<1>2. /\ work.left \in Seq(Changes) /\ work.left # <<>> /\ work.pc = "read"
      /\ UNCHANGED <<file, edits, changes, buffer, batches, flushed, up>> /\ up
  BY DEF delete_file_index, IndexerInv, pipeVars
<1>3. c \in Changes /\ Tail(work.left) \in Seq(Changes)
  BY <1>1, <1>2, TailOf
<1>4. f \in Files
  BY <1>1, <1>3 DEF Changes
<1>5. CASE work' = [work EXCEPT !.left = Tail(@)] /\ UNCHANGED manifest
  <2>1. work' = [pc |-> "read", left |-> Tail(work.left), version |-> work.version]
    BY <1>2, <1>5 DEF IndexerInv
  <2>2. QED
    BY <1>2, <1>3, <1>5, <2>1 DEF IndexerInv
<1>6. CASE work' = [work EXCEPT !.left = Tail(@)] /\ manifest' = [manifest EXCEPT ![f] = Unlisted]
  <2>1. work' = [pc |-> "read", left |-> Tail(work.left), version |-> work.version]
    BY <1>2, <1>6 DEF IndexerInv
  <2>2. manifest' \in [Files -> EntryTypes]
    BY <1>4, <1>6 DEF IndexerInv, EntryTypes, Unlisted
  <2>3. \A g \in Files : manifest'[g].version <= edits[g]
    BY <1>4, <1>6 DEF IndexerInv, Unlisted
  <2>4. QED
    BY <1>2, <1>3, <2>1, <2>2, <2>3 DEF IndexerInv
<1>7. QED
  BY <1>1, <1>5, <1>6 DEF delete_file_index

LEMMA IndexKeeps == ASSUME IndexerInv, index_file PROVE IndexerInv'
<1>1. PICK f : f = Head(work.left).file
  OBVIOUS
<1>2. /\ work.left \in Seq(Changes) /\ work.left # <<>> /\ work.pc = "replace"
      /\ work.version \in 1 .. MaxEdits /\ work.version <= edits[f]
      /\ UNCHANGED <<file, edits, changes, buffer, batches, flushed, up>> /\ up
  BY <1>1 DEF index_file, IndexerInv, pipeVars
<1>3. f \in Files /\ Tail(work.left) \in Seq(Changes)
  <2>1. Head(work.left) \in Changes /\ Tail(work.left) \in Seq(Changes)
    BY <1>2, TailOf
  <2>2. QED
    BY <1>1, <2>1 DEF Changes
<1>4. PICK e : e = [version |-> work.version, pieces |-> Pieces[work.version]]
  OBVIOUS
<1>5. e \in EntryTypes /\ e.version = work.version
  BY <1>2, <1>4, IndexerAssumption DEF EntryTypes
<1>6. manifest' = [manifest EXCEPT ![f] = e] \/ UNCHANGED manifest
  BY <1>1, <1>4 DEF index_file
<1>7. manifest' \in [Files -> EntryTypes] /\ \A g \in Files : manifest'[g].version <= edits[g]
  BY <1>2, <1>3, <1>5, <1>6 DEF IndexerInv
<1>8. work' = [pc |-> "read", left |-> Tail(work.left), version |-> work.version]
  BY DEF index_file, IndexerInv
<1>9. QED
  BY <1>2, <1>3, <1>7, <1>8 DEF IndexerInv

LEMMA StopsKeeps == ASSUME IndexerInv, IndexerStops PROVE IndexerInv'
<1>1. <<>> \in Seq(Changes) /\ <<>> \in Seq(Seq(Changes))
  OBVIOUS
<1>2. flushed' \in [Files -> EntryTypes] /\ \A g \in Files : flushed'[g].version <= edits[g]
  BY DEF IndexerStops, IndexerInv
<1>3. QED
  BY <1>1, <1>2 DEF IndexerStops, IndexerInv, NoWork

LEMMA IndexerInvNext == IndexerInv /\ [IndexerNext]_indexerVars => IndexerInv'
<1> SUFFICES ASSUME IndexerInv, [IndexerNext]_indexerVars PROVE IndexerInv'
  OBVIOUS
<1>1. CASE flush \/ report_indexed
  <2>1. <<>> \in Seq(Changes)
    OBVIOUS
  <2>2. work'.pc # "replace" /\ work'.left \in Seq(Changes) /\ work'.version \in Nat
        /\ work' = [pc |-> work'.pc, left |-> work'.left, version |-> work'.version]
    <3>1. CASE flush
      <4>1. work' = [pc |-> "report", left |-> work.left, version |-> work.version]
        BY <3>1 DEF flush, IndexerInv
      <4>2. QED
        BY <4>1 DEF IndexerInv
    <3>2. CASE report_indexed
      BY <2>1, <3>2 DEF report_indexed, NoWork
    <3>3. QED
      BY <1>1, <3>1, <3>2
  <2>3. /\ UNCHANGED <<file, edits, changes, buffer, batches, manifest, up>>
        /\ up /\ flushed' \in {flushed, manifest}
    BY <1>1 DEF flush, report_indexed, pipeVars
  <2>4. QED
    BY <2>2, <2>3 DEF IndexerInv
<1>2. CASE recv_event \/ UNCHANGED indexerVars
  BY <1>2 DEF recv_event, indexerVars, pipeVars, IndexerInv
<1>3. CASE start
  BY <1>3 DEF start, pipeVars, IndexerInv
<1>4. QED
  BY <1>1, <1>2, <1>3, NotifyKeeps, AccumulateKeeps, WindowKeeps, TakeKeeps, ReadKeeps,
     DeleteKeeps, IndexKeeps, StopsKeeps DEF IndexerNext

-----------------------------------------------------------------------------
(* A step of a daemon that goes on running.                                *)
LEMMA ForwardStep ==
  ASSUME IndexerInv, [IndexerNext]_indexerVars, up, up'
  PROVE  \A f \in Files : manifest'[f].version = 0 \/ manifest'[f].version >= manifest[f].version
<1>0. \A f \in Files : manifest[f].version \in Nat /\ manifest \in [Files -> EntryTypes]
  BY DEF IndexerInv, EntryTypes
<1>1. CASE UNCHANGED manifest
  BY <1>0, <1>1
<1>2. CASE delete_file_index
  <2>1. manifest' = manifest \/ manifest' = [manifest EXCEPT ![Head(work.left).file] = Unlisted]
    BY <1>2 DEF delete_file_index
  <2>2. QED
    BY <1>0, <2>1 DEF Unlisted
<1>3. CASE index_file
  <2>1. PICK f : f = Head(work.left).file
    OBVIOUS
  <2>2. PICK e : e = [version |-> work.version, pieces |-> Pieces[work.version]]
    OBVIOUS
  <2>3. (manifest' = [manifest EXCEPT ![f] = e] \/ UNCHANGED manifest) /\ e.version = work.version
    BY <1>3, <2>1, <2>2 DEF index_file
  <2>4. manifest[f].version <= work.version /\ work.version \in Nat
    BY <1>3, <2>1 DEF index_file, IndexerInv
  <2>5. QED
    BY <1>0, <2>3, <2>4
<1>4. QED
  BY <1>1, <1>2, <1>3
     DEF IndexerNext, notify_change, accumulate, window_expires, take_batch, read_file, flush,
         report_indexed, recv_event, IndexerStops, start, indexerVars

(* What a file's points and its entry are after a step of its own; those   *)
(* of another file are as they were.                                       *)
Exact(f) == /\ f \notin littered => Of(f) \subseteq Listed(f)
            /\ f \notin behind => Listed(f) \subseteq Of(f)

LEMMA OthersStayExact ==
  ASSUME ManifestIsExact, NEW f, NEW g \in Files, g # f,
         \A p : p.file = g => (p \in indexed' <=> p \in indexed),
         manifest'[g] = manifest[g],
         behind \ {f} \subseteq behind', littered \subseteq littered'
  PROVE  Exact(g)'
<1>1. Of(g)' = Of(g)
  BY DEF Of
<1>2. Listed(g)' = Listed(g)
  BY DEF Listed
<1>3. QED
  BY <1>1, <1>2 DEF ManifestIsExact, Exact

LEMMA DeleteExact ==
  ASSUME IndexerInv, ManifestIsExact, delete_file_index
  PROVE  ManifestIsExact'
<1>1. PICK f, pieces, listed : /\ f = Head(work.left).file /\ pieces = manifest[f].pieces
                               /\ listed = Named(f, pieces)
  OBVIOUS
<1>2. manifest \in [Files -> EntryTypes] /\ UNCHANGED littered
  BY DEF delete_file_index, IndexerInv
<1>3. \/ /\ indexed' = indexed \ listed
         /\ manifest' = [manifest EXCEPT ![f] = Unlisted]
         /\ behind \ {f} \subseteq behind'
      \/ /\ indexed' \in {indexed, indexed \ listed}
         /\ behind' = behind \cup {f} /\ UNCHANGED manifest
  BY <1>1 DEF delete_file_index, CaughtUp
<1>4. \A g : g # f => \A p : p.file = g => (p \in indexed' <=> p \in indexed)
  BY <1>1, <1>3 DEF Named, Of
<1>5. \A g \in Files : g # f => manifest'[g] = manifest[g]
  BY <1>2, <1>3
<1>6. ASSUME f \in Files PROVE Exact(f)'
  <2>0. /\ f \notin littered => Of(f) \subseteq Listed(f)
        /\ \A p \in Listed(f) : p.piece \in pieces
    BY <1>1, <1>6 DEF ManifestIsExact, Listed
  <2>1. CASE indexed' = indexed \ listed /\ manifest' = [manifest EXCEPT ![f] = Unlisted]
    <3>1. Listed(f)' = {}
      BY <1>2, <1>6, <2>1 DEF Listed, Unlisted
    <3>2. f \notin littered => Of(f)' = {}
      BY <1>1, <2>0, <2>1 DEF Of, Named
    <3>3. QED
      BY <1>2, <3>1, <3>2 DEF Exact
  <2>2. CASE indexed' \in {indexed, indexed \ listed} /\ behind' = behind \cup {f} /\ UNCHANGED manifest
    <3>1. Listed(f)' = Listed(f) /\ Of(f)' \subseteq Of(f) /\ f \in behind'
      BY <2>2 DEF Listed, Of
    <3>2. QED
      BY <1>2, <2>0, <3>1 DEF Exact
  <2>3. QED
    BY <1>3, <2>1, <2>2
<1>7. QED
  BY <1>2, <1>3, <1>4, <1>5, <1>6, OthersStayExact DEF ManifestIsExact, Exact

LEMMA IndexExact ==
  ASSUME IndexerInv, ManifestIsExact, index_file
  PROVE  ManifestIsExact'
<1>1. PICK f, v, new, stale : /\ f = Head(work.left).file /\ v = work.version /\ new = Pieces[v]
                              /\ stale = Named(f, manifest[f].pieces)
  OBVIOUS
<1>2. PICK kept, rest :
         /\ kept \in {{}, stale} /\ rest = (indexed \ stale) \cup kept
         /\ \/ /\ indexed' = Upserted(rest, f, v)
               /\ manifest' = [manifest EXCEPT ![f] = [version |-> v, pieces |-> new]]
               /\ behind \ {f} \subseteq behind'
               /\ littered' = IF kept = {} THEN littered ELSE littered \cup {f}
            \/ /\ indexed' \in {rest, Upserted(rest, f, v)}
               /\ behind' = behind \cup {f}
               /\ littered' = IF indexed' = rest THEN littered ELSE littered \cup {f}
               /\ UNCHANGED manifest
  BY <1>1 DEF index_file, CaughtUp
<1>3. manifest \in [Files -> EntryTypes]
  BY DEF IndexerInv
<1>4. behind \ {f} \subseteq behind' /\ littered \subseteq littered'
  BY <1>2
<1>5. \A g : g # f => \A p : p.file = g => (p \in indexed' <=> p \in indexed)
  <2>1. SUFFICES ASSUME NEW g, g # f, NEW p, p.file = g PROVE p \in indexed' <=> p \in indexed
    OBVIOUS
  <2>2. p \notin stale /\ p \notin Named(f, new) /\ p \notin Points(f, v)
    BY <1>1, <2>1 DEF Named, Of, Points
  <2>3. p \in rest <=> p \in indexed
    BY <1>2, <2>2
  <2>4. p \in Upserted(rest, f, v) <=> p \in rest
    BY <1>1, <2>2 DEF Upserted
  <2>5. QED
    BY <1>2, <2>3, <2>4
<1>6. \A g \in Files : g # f => manifest'[g] = manifest[g]
  BY <1>2, <1>3
<1>7. ASSUME f \in Files PROVE Exact(f)'
  <2>0. /\ f \notin littered => Of(f) \subseteq Listed(f)
        /\ \A p \in Listed(f) : p.piece \in manifest[f].pieces
    BY <1>7 DEF ManifestIsExact, Listed
  <2>1. rest \subseteq indexed
    BY <1>1, <1>2 DEF Named, Of
  <2>2. \A p \in Points(f, v) : p.file = f
    BY DEF Points
  <2>3. CASE /\ indexed' = Upserted(rest, f, v)
             /\ manifest' = [manifest EXCEPT ![f] = [version |-> v, pieces |-> new]]
             /\ littered' = IF kept = {} THEN littered ELSE littered \cup {f}
    <3>1. Listed(f)' = Points(f, v)
      <4>1. manifest'[f].version = v /\ manifest'[f].pieces = new
        BY <1>3, <1>7, <2>3
      <4>2. QED
        BY <1>1, <4>1 DEF Listed, Points
    <3>2. Points(f, v) \subseteq Of(f)'
      BY <2>2, <2>3 DEF Of, Upserted
    <3>3. ASSUME f \notin littered' PROVE Of(f)' \subseteq Points(f, v)
      <4>1. f \notin littered /\ kept = {}
        BY <2>3, <3>3
      <4>2. \A p \in indexed : p.file = f => p \in stale
        BY <1>1, <2>0, <4>1 DEF Of, Named
      <4>3. \A p \in rest : p.file # f
        BY <1>2, <4>1, <4>2
      <4>4. QED
        BY <2>3, <4>3 DEF Of, Upserted
    <3>4. QED
      BY <3>1, <3>2, <3>3 DEF Exact
  <2>4. CASE /\ indexed' \in {rest, Upserted(rest, f, v)} /\ f \in behind'
             /\ littered' = IF indexed' = rest THEN littered ELSE littered \cup {f}
             /\ UNCHANGED manifest
    <3>1. Listed(f)' = Listed(f)
      BY <2>4 DEF Listed
    <3>2. ASSUME f \notin littered' PROVE Of(f)' \subseteq Listed(f)
      <4>1. f \notin littered /\ indexed' = rest
        BY <2>4, <3>2
      <4>2. QED
        BY <2>0, <2>1, <4>1 DEF Of
    <3>3. QED
      BY <2>4, <3>1, <3>2 DEF Exact
  <2>5. QED
    BY <1>2, <2>3, <2>4
<1>8. QED
  BY <1>4, <1>5, <1>6, <1>7, OthersStayExact DEF ManifestIsExact, Exact

LEMMA ExactStep ==
  ASSUME IndexerInv, ManifestIsExact, [IndexerNext]_indexerVars, up, up'
  PROVE  ManifestIsExact'
<1>1. CASE UNCHANGED <<manifest, indexed, littered>> /\ behind \subseteq behind'
  BY <1>1 DEF ManifestIsExact, Of, Listed
<1>2. QED
  BY <1>1, DeleteExact, IndexExact
     DEF IndexerNext, notify_change, accumulate, window_expires, take_batch, read_file, flush,
         report_indexed, recv_event, IndexerStops, start, indexerVars, faultVars

(* While the daemon runs the manifest takes no file back to an older       *)
(* version, though batches are processed after newer changes were made:    *)
(* index_file reads the file as it is, not as it was when the change was   *)
(* seen.                                                                   *)
THEOREM EntriesGoForward == IndexerSpec => IndexedForward
<1>1. IndexerInv /\ [IndexerNext]_indexerVars =>
        [up /\ up' => \A f \in Files :
           manifest'[f].version = 0 \/ manifest'[f].version >= manifest[f].version]_indexerVars
  BY ForwardStep
<1>2. QED
  BY IndexerInitially, IndexerInvNext, <1>1, PTL DEF IndexerSpec, IndexedForward

(* While the daemon runs, whatever reads and calls of the store fail, the  *)
(* store holds of a file the points its entry lists, in its version, unless *)
(* a change of this file was not carried out and not made up for, and no   *)
(* other, unless a call for this file failed half-way: what replaces or    *)
(* deletes the file later leaves no point behind.                          *)
THEOREM ManifestExact == IndexerSpec => ExactWhileUp
<1>1. IndexerInit => ManifestIsExact
  BY DEF IndexerInit, ManifestIsExact, Of, Listed, Unlisted
<1>2. IndexerInv /\ ManifestIsExact /\ [IndexerNext]_indexerVars /\ up /\ up' => ManifestIsExact'
  BY ExactStep
<1>3. QED
  BY IndexerInitially, IndexerInvNext, <1>1, <1>2, PTL DEF IndexerSpec, ExactWhileUp

-----------------------------------------------------------------------------
(***************************************************************************)
(* Membership, for every set of peers and number of connections: which     *)
(* sender the node keeps for a peer.                                       *)
(***************************************************************************)
Link == [pc : {"shaking", "named", "acked", "open", "ending", "dropped", "closed"},
         peer : Peers, inbound : BOOLEAN]

MemberInv ==
  /\ conn \in [Conns -> ConnStates] /\ peers \in [Peers -> Conns \cup {NoConn}]
  /\ SendersAreOpen

LEMMA Linked ==
  /\ ConnStates = {NoneYet} \cup Link
  /\ \A k \in Link : k # NoneYet
  /\ NoConn \notin Conns
<1>1. ConnStates = {NoneYet} \cup Link
  BY DEF ConnStates, Link
<1>2. ASSUME NEW k \in Link, k = NoneYet PROVE FALSE
  <2>1. k.pc \in {"shaking", "named", "acked", "open", "ending", "dropped", "closed"} /\ NoneYet.pc = "none"
    BY DEF Link, NoneYet
  <2>2. QED
    BY <1>2, <2>1
<1>3. NoConn \notin Conns
  BY MembershipAssumption DEF NoConn, Conns
<1>4. QED
  BY <1>1, <1>2, <1>3

(* A connection goes on, and with it the senders that use it.              *)
LEMMA Goes ==
  ASSUME MemberInv, NEW c \in Conns, NEW from, NEW pc, ConnAt(c, from), ConnGoes(c, pc),
         pc \in {"shaking", "named", "acked", "open", "ending", "dropped", "closed"}
  PROVE  /\ conn[c] \in Link /\ conn[c].pc = from
         /\ conn' \in [Conns -> ConnStates]
         /\ \A d \in Conns \ {c} : conn'[d] = conn[d]
         /\ conn'[c] \in Link /\ conn'[c].pc = pc /\ conn'[c].peer = conn[c].peer
<1>1. conn \in [Conns -> ConnStates] /\ conn[c] \in Link /\ conn[c].pc = from
  BY Linked DEF MemberInv, ConnAt
<1>2. PICK k : k = [conn[c] EXCEPT !.pc = pc]
  OBVIOUS
<1>3. k \in Link /\ k.pc = pc /\ k.peer = conn[c].peer
  BY <1>1, <1>2 DEF Link
<1>4. conn' = [conn EXCEPT ![c] = k]
  BY <1>1, <1>2 DEF ConnGoes
<1>5. k \in ConnStates
  BY <1>3, Linked
<1>6. QED
  BY <1>1, <1>3, <1>4, <1>5

(* A link nobody sends over, or that stays usable, changes.                *)
LEMMA LinkKeeps ==
  ASSUME MemberInv, NEW c \in Conns, UNCHANGED peers,
         conn' \in [Conns -> ConnStates], \A d \in Conns \ {c} : conn'[d] = conn[d],
         \A p \in Peers : peers[p] = c =>
           /\ ConnAt(c, "open") /\ conn'[c] \in Link /\ conn'[c].pc = "ending"
           /\ conn'[c].peer = conn[c].peer
  PROVE  MemberInv'
<1>1. ASSUME NEW p \in Peers, peers[p] # NoConn
      PROVE  (ConnAt(peers[p], "open") \/ ConnAt(peers[p], "ending"))' /\ (conn[peers[p]].peer = p)'
  <2>1. PICK d : d = peers[p]
    OBVIOUS
  <2>2. d \in Conns /\ (ConnAt(d, "open") \/ ConnAt(d, "ending")) /\ conn[d].peer = p
    BY <1>1, <2>1 DEF MemberInv, SendersAreOpen
  <2>3. CASE d = c
    BY <1>1, <2>1, <2>2, <2>3, Linked DEF ConnAt
  <2>4. CASE d # c
    BY <1>1, <2>1, <2>2, <2>4 DEF ConnAt
  <2>5. QED
    BY <2>3, <2>4
<1>2. SendersAreOpen'
  BY <1>1 DEF SendersAreOpen
<1>3. QED
  BY <1>2 DEF MemberInv

LEMMA StartsKeep ==
  ASSUME MemberInv, NEW c \in Conns, NEW p \in Peers, accept(c, p) \/ connect_to_peer(c, p)
  PROVE  MemberInv'
<1>1. PICK k \in Link : conn' = [conn EXCEPT ![c] = k]
  BY DEF accept, connect_to_peer, Link
<1>2. conn[c] = NoneYet /\ UNCHANGED peers
  BY DEF accept, connect_to_peer, NextConn
<1>3. conn' \in [Conns -> ConnStates] /\ \A d \in Conns \ {c} : conn'[d] = conn[d]
  BY <1>1, Linked DEF MemberInv
<1>4. \A q \in Peers : peers[q] # c
  BY <1>2, Linked DEF MemberInv, SendersAreOpen, ConnAt
<1>5. QED
  BY <1>2, <1>3, <1>4, LinkKeeps

LEMMA UnusedKeep ==
  ASSUME MemberInv, NEW c \in Conns,
         \/ handshake(c) \/ handshake_fails(c) \/ handshake_acks(c) \/ answer_fails(c)
         \/ read_task_done(c) \/ read_ends(c)
  PROVE  MemberInv'
<1>1. PICK from, pc : /\ ConnAt(c, from) /\ ConnGoes(c, pc) /\ pc \in {"named", "acked", "ending", "closed"}
                      /\ from \notin {"open", "ending"} \/ (from = "open" /\ pc = "ending")
  BY DEF handshake, handshake_fails, handshake_acks, answer_fails, read_task_done, read_ends
<1>2. UNCHANGED peers
  BY DEF handshake, handshake_fails, handshake_acks, answer_fails, read_task_done, read_ends
<1>3. /\ conn[c] \in Link /\ conn[c].pc = from
      /\ conn' \in [Conns -> ConnStates]
      /\ \A d \in Conns \ {c} : conn'[d] = conn[d]
      /\ conn'[c] \in Link /\ conn'[c].pc = pc /\ conn'[c].peer = conn[c].peer
  <2>1. pc \in {"shaking", "named", "acked", "open", "ending", "dropped", "closed"}
    BY <1>1
  <2>2. ConnAt(c, from) /\ ConnGoes(c, pc)
    BY <1>1
  <2>3. QED
    BY <2>1, <2>2, Goes
<1>4. ASSUME NEW p \in Peers, peers[p] = c PROVE ConnAt(c, "open") /\ conn'[c].pc = "ending"
  <2>1. ConnAt(c, "open") \/ ConnAt(c, "ending")
    BY <1>4, Linked DEF MemberInv, SendersAreOpen
  <2>2. QED
    BY <1>1, <1>3, <2>1 DEF ConnAt
<1>5. QED
  BY <1>2, <1>3, <1>4, LinkKeeps

LEMMA RegisterKeeps ==
  ASSUME MemberInv, NEW c \in Conns, register_sender(c) \/ drop_sender(c)
  PROVE  MemberInv'
<1>1. PICK from, pc, s : /\ ConnAt(c, from) /\ ConnGoes(c, pc)
                         /\ peers' = [peers EXCEPT ![conn[c].peer] = s]
                         /\ \/ from = "acked" /\ pc = "open" /\ s = c
                            \/ from = "ending" /\ pc = "dropped" /\ s = NoConn
  BY DEF register_sender, drop_sender
<1>2. /\ conn[c] \in Link /\ conn[c].pc = from
      /\ conn' \in [Conns -> ConnStates]
      /\ \A d \in Conns \ {c} : conn'[d] = conn[d]
      /\ conn'[c] \in Link /\ conn'[c].pc = pc /\ conn'[c].peer = conn[c].peer
  <2>1. pc \in {"shaking", "named", "acked", "open", "ending", "dropped", "closed"}
    BY <1>1
  <2>2. ConnAt(c, from) /\ ConnGoes(c, pc)
    BY <1>1
  <2>3. QED
    BY <2>1, <2>2, Goes
<1>3. PICK p : p = conn[c].peer /\ p \in Peers
  BY <1>2 DEF Link
<1>4. peers' \in [Peers -> Conns \cup {NoConn}] /\ peers'[p] = s /\ \A q \in Peers \ {p} : peers'[q] = peers[q]
  BY <1>1, <1>3 DEF MemberInv
<1>5. ASSUME NEW q \in Peers, peers'[q] # NoConn
      PROVE  (ConnAt(peers[q], "open") \/ ConnAt(peers[q], "ending"))' /\ (conn[peers[q]].peer = q)'
  <2>1. CASE q = p
    <3>1. peers'[q] = c /\ conn'[c].pc = "open" /\ conn'[c].peer = q
      BY <1>1, <1>2, <1>3, <1>4, <1>5, <2>1
    <3>2. QED
      BY <1>2, <3>1, Linked DEF ConnAt
  <2>2. CASE q # p
    <3>1. PICK d : d = peers[q] /\ d = peers'[q]
      BY <1>4, <2>2
    <3>2. d \in Conns /\ (ConnAt(d, "open") \/ ConnAt(d, "ending")) /\ conn[d].peer = q
      BY <1>5, <3>1 DEF MemberInv, SendersAreOpen
    <3>3. d # c
      BY <1>3, <2>2, <3>2
    <3>4. QED
      BY <1>2, <3>1, <3>2, <3>3 DEF ConnAt
  <2>3. QED
    BY <2>1, <2>2
<1>6. SendersAreOpen'
  BY <1>5 DEF SendersAreOpen
<1>7. QED
  BY <1>2, <1>4, <1>6 DEF MemberInv

LEMMA RemoveKeeps == ASSUME MemberInv, NEW p \in Peers, remove_node(p) PROVE MemberInv'
<1>1. peers' = [peers EXCEPT ![p] = NoConn] /\ UNCHANGED conn
  BY DEF remove_node
<1>2. peers' \in [Peers -> Conns \cup {NoConn}] /\ peers'[p] = NoConn
      /\ \A q \in Peers \ {p} : peers'[q] = peers[q]
  BY <1>1 DEF MemberInv
<1>3. SendersAreOpen'
  BY <1>1, <1>2 DEF MemberInv, SendersAreOpen, ConnAt
<1>4. QED
  BY <1>1, <1>2, <1>3 DEF MemberInv

LEMMA MemberInvInit == MemberInit => MemberInv
BY Linked DEF MemberInit, MemberInv, SendersAreOpen

LEMMA MemberInvNext == MemberInv /\ [MemberNext]_memberVars => MemberInv'
<1> SUFFICES ASSUME MemberInv, [MemberNext]_memberVars PROVE MemberInv'
  OBVIOUS
<1>1. CASE UNCHANGED <<conn, peers>>
  BY <1>1 DEF MemberInv, SendersAreOpen, ConnAt
<1>2. ASSUME NEW p \in Peers, ping(p) \/ PeerStops(p) PROVE MemberInv'
  BY <1>1, <1>2 DEF ping, PeerStops
<1>3. ASSUME NEW c \in Conns, on_message(c) PROVE MemberInv'
  BY <1>1, <1>3 DEF on_message
<1>4. CASE accept_times_out \/ ping_round \/ ping_nobody \/ round_over \/ UNCHANGED memberVars
  BY <1>1, <1>4 DEF accept_times_out, ping_round, ping_nobody, round_over, memberVars
<1>5. QED
  BY <1>2, <1>3, <1>4, StartsKeep, UnusedKeep, RegisterKeeps, RemoveKeeps
     DEF MemberNext, Detecting, Connecting, Disconnecting

(* The sender kept for a peer is that of a connection of its own which is  *)
(* open, or whose end its read task has just seen: though connections of a *)
(* peer replace one another and the detector removes it, none that was     *)
(* closed stays in the table of senders.                                   *)
THEOREM SendersOpen == MemberSpec => []SendersAreOpen
<1>1. MemberInv => SendersAreOpen
  BY DEF MemberInv
<1>2. QED
  BY MemberInvInit, MemberInvNext, <1>1, PTL DEF MemberSpec

-----------------------------------------------------------------------------
(***************************************************************************)
(* Placement, for every set of devices and events: the weights of the      *)
(* score through any sequence of events and polls.                         *)
(***************************************************************************)
Shares(f) == f.latency \in Nat /\ f.power \in Nat /\ f.cost \in Nat

LEMMA Quotient ==
  ASSUME NEW a \in Nat, NEW b \in Nat \ {0}
  PROVE  /\ a \div b \in Nat
         /\ b * (a \div b) <= a /\ a < b * ((a \div b) + 1)
  OBVIOUS

LEMMA Cancel ==
  ASSUME NEW t \in Nat \ {0}, NEW a \in Int, NEW b \in Int, t * a < t * b
  PROVE  a < b
  OBVIOUS

LEMMA Spread ==
  ASSUME NEW t \in Nat, NEW u \in Nat, NEW v \in Nat, NEW r \in Nat
  PROVE  t * (u + v + r) = t * u + t * v + t * r
  OBVIOUS

LEMMA ScaledFields ==
  ASSUME NEW f, NEW t, NEW a, NEW b, NEW c, a = f.latency, b = f.power, c = f.cost
  PROVE  /\ Scaled(f, t).latency = (a * 1000) \div t
         /\ Scaled(f, t).power = (b * 1000) \div t
         /\ Scaled(f, t).cost = (c * 1000) \div t
  BY DEF Scaled, Factors

(* The shares of a sample that is not nothing add up to a thousand, less   *)
(* what rounding takes from each.                                          *)
LEMMA ScaledTotal ==
  ASSUME NEW f, Shares(f), Total(f) > 0
  PROVE  Shares(Scaled(f, Total(f))) /\ Total(Scaled(f, Total(f))) \in 998 .. 1000
<1>1. PICK a \in Nat, b \in Nat, c \in Nat : a = f.latency /\ b = f.power /\ c = f.cost
  BY DEF Shares
<1>2. PICK t \in Nat \ {0} : t = Total(f) /\ t = a + b + c
  BY <1>1 DEF Total
<1>3. PICK x \in Nat, y \in Nat, z \in Nat :
        x = (a * 1000) \div t /\ y = (b * 1000) \div t /\ z = (c * 1000) \div t
  <2>1. a * 1000 \in Nat /\ b * 1000 \in Nat /\ c * 1000 \in Nat
    BY <1>1
  <2>2. /\ (a * 1000) \div t \in Nat /\ (b * 1000) \div t \in Nat
        /\ (c * 1000) \div t \in Nat
    BY <2>1, Quotient
  <2>3. QED
    BY <2>2
<1>4. /\ t * x <= a * 1000 /\ a * 1000 < t * (x + 1)
      /\ t * y <= b * 1000 /\ b * 1000 < t * (y + 1)
      /\ t * z <= c * 1000 /\ c * 1000 < t * (z + 1)
  <2>1. a * 1000 \in Nat /\ b * 1000 \in Nat /\ c * 1000 \in Nat
    BY <1>1
  <2>2. QED
    BY <1>3, <2>1, Quotient
<1>5. x + y + z < 1001
  <2>1. t * (x + y + z) = t * x + t * y + t * z
    OBVIOUS
  <2>2. t * 1001 = t * 1000 + t /\ t * 1000 = a * 1000 + b * 1000 + c * 1000
    BY <1>2
  <2>3. t * (x + y + z) < t * 1001
    BY <1>4, <2>1, <2>2
  <2>4. QED
    BY <2>3, Cancel
<1>6. 1000 < x + y + z + 3
  <2>1. t * (x + y + z + 3) = t * (x + 1) + t * (y + 1) + t * (z + 1)
    <3>1. PICK u \in Nat, v \in Nat, r \in Nat : u = x + 1 /\ v = y + 1 /\ r = z + 1
      OBVIOUS
    <3>2. t * (u + v + r) = t * u + t * v + t * r
      BY Spread
    <3>3. u + v + r = x + y + z + 3
      BY <3>1
    <3>4. QED
      BY <3>1, <3>2, <3>3
  <2>2. t * 1000 = a * 1000 + b * 1000 + c * 1000
    BY <1>2
  <2>3. t * 1000 < t * (x + y + z + 3)
    BY <1>4, <2>1, <2>2
  <2>4. QED
    BY <2>3, Cancel
<1>7. PICK g : g = Scaled(f, t)
  OBVIOUS
<1>8. g.latency = x /\ g.power = y /\ g.cost = z
  <2>1. /\ g.latency = (a * 1000) \div t
        /\ g.power = (b * 1000) \div t
        /\ g.cost = (c * 1000) \div t
    BY <1>1, <1>7, ScaledFields
  <2>2. QED
    BY <1>3, <2>1
<1>9. x + y + z \in 998 .. 1000
  BY <1>5, <1>6
<1>10. QED
  BY <1>2, <1>7, <1>8, <1>9 DEF Shares, Total

(* The weights before they are normalised.                                 *)
Moved(w, share) == [x \in Factors |-> w[x] * 9 + share[x]]

LEMMA MovedFields ==
  ASSUME NEW w, NEW share, NEW m, m = Moved(w, share)
  PROVE  /\ m.latency = w.latency * 9 + share.latency
         /\ m.power = w.power * 9 + share.power
         /\ m.cost = w.cost * 9 + share.cost
  BY DEF Moved, Factors

(* The weights a sample moves stay normalised.                             *)
LEMMA ObserveNormalises ==
  ASSUME NEW w, NEW sample, Shares(w), Shares(sample), Total(w) \in 998 .. 1000
  PROVE  Shares(observe(w, sample)) /\ Total(observe(w, sample)) \in 998 .. 1000
<1>1. CASE Total(sample) = 0
  BY <1>1 DEF observe
<1>2. CASE Total(sample) # 0
  <2>1. PICK share : share = Scaled(sample, Total(sample))
    OBVIOUS
  <2>2. Total(sample) > 0
    BY <1>2 DEF Shares, Total
  <2>3. Shares(share)
    BY <2>1, <2>2, ScaledTotal
  <2>4. PICK moved : moved = Moved(w, share)
    OBVIOUS
  <2>5. /\ moved.latency = w.latency * 9 + share.latency
        /\ moved.power = w.power * 9 + share.power
        /\ moved.cost = w.cost * 9 + share.cost
    BY <2>4, MovedFields
  <2>6. Shares(moved) /\ Total(moved) > 0
    BY <2>3, <2>5 DEF Shares, Total
  <2>7. observe(w, sample) = Scaled(moved, Total(moved))
    BY <1>2, <2>1, <2>4 DEF observe, Moved
  <2>8. QED
    BY <2>6, <2>7, ScaledTotal
<1>3. QED
  BY <1>1, <1>2

LEMMA ProfileShares ==
  ASSUME NEW a \in Nat, NEW b \in Nat, NEW c \in Nat
  PROVE  Shares(Profile(a, b, c))
  BY DEF Profile, Shares

LEMMA BaseProfiles ==
  Shares(CpuProfile) /\ \A v \in GpuVram : Shares(GpuProfile(v))
<1>1. 500 \div cpu_count \in Nat
  BY PlacementAssumption, Quotient
<1>2. ASSUME NEW v \in GpuVram PROVE Shares(GpuProfile(v))
  <2>1. v \in 0 .. 80
    BY PlacementAssumption
  <2>2. (IF v = 0 THEN 100 ELSE 50 + (80 - v)) \in Nat /\ 200 + 15 * v \in Nat
    BY <2>1
  <2>3. QED
    BY <2>2, ProfileShares DEF GpuProfile
<1>3. QED
  BY <1>1, <1>2, ProfileShares DEF CpuProfile

LEMMA BlendedShares ==
  ASSUME NEW f, NEW g, Shares(f), Shares(g)
  PROVE  Shares(Blended(f, g))
<1>1. /\ Blended(f, g).latency = (f.latency + g.latency) \div 2
      /\ Blended(f, g).power = (f.power + g.power) \div 2
      /\ Blended(f, g).cost = (f.cost + g.cost) \div 2
  BY DEF Blended, Factors
<1>2. \A n \in Nat : n \div 2 \in Nat
  OBVIOUS
<1>3. QED
  BY <1>1, <1>2 DEF Shares

Started ==
  /\ observer = [pc |-> "waiting", gpu |-> observer.gpu, current |-> observer.current]
  /\ Shares(observer.current)
  /\ observer.gpu # <<>> => Shares(observer.gpu[1])

PlacementInv ==
  /\ Shares(weights) /\ Total(weights) \in 998 .. 1000
  /\ observer = NotStarted \/ Started
  /\ event_rx \in Seq(Events)
  /\ Len(event_rx) <= told /\ told \in Nat /\ told <= MaxEvents /\ polls \in Nat /\ polls <= MaxPolls
  /\ "pc" \in DOMAIN placing /\ placing.pc \in {"idle", "scan", "place", "answered"}

LEMMA PlacementInitially == PlacementInit => PlacementInv
<1>1. SUFFICES ASSUME PlacementInit PROVE PlacementInv
  OBVIOUS
<1>2. weights = Profile(800, 100, 100)
  BY <1>1 DEF PlacementInit, from_mode
<1>3. Shares(weights) /\ Total(weights) = 1000
  BY <1>2 DEF Profile, Shares, Total
<1>4. Total(weights) \in 998 .. 1000
  BY <1>3
<1>5. "pc" \in DOMAIN placing /\ placing.pc = "idle"
  BY <1>1 DEF PlacementInit, NotStarted
<1>6. QED
  BY <1>1, <1>3, <1>4, <1>5, PlacementAssumption DEF PlacementInit, PlacementInv

LEMMA PlacingKeeps ==
  ASSUME PlacementInv,
         \/ \E workload \in Workloads : Request(workload)
         \/ scan_hardware \/ place
         \/ \E fails \in BOOLEAN : execute_with_circuit_breaker(fails)
  PROVE  PlacementInv'
<1>1. UNCHANGED <<weights, observer, event_rx, told, polls>>
  BY DEF Request, scan_hardware, place, execute_with_circuit_breaker
<1>2. "pc" \in DOMAIN placing' /\ placing'.pc \in {"idle", "scan", "place", "answered"}
  <2>1. ASSUME NEW workload \in Workloads, Request(workload)
        PROVE  "pc" \in DOMAIN placing' /\ placing'.pc = "scan"
    BY <2>1 DEF Request
  <2>2. CASE scan_hardware
    <3>1. PICK scan : placing' = [pc |-> "place", workload |-> placing.workload, profiles |-> scan]
      BY <2>2 DEF scan_hardware
    <3>2. QED
      BY <3>1
  <2>3. CASE place
    <3>1. PICK t, r : placing' = [pc |-> "answered", workload |-> placing.workload,
                                  target |-> t, runtime |-> r]
      BY <2>3, Zenon DEF place
    <3>2. QED
      BY <3>1
  <2>4. ASSUME NEW fails \in BOOLEAN, execute_with_circuit_breaker(fails)
        PROVE  "pc" \in DOMAIN placing' /\ placing'.pc \in {"idle", "answered"}
    <3>1. placing' = [placing EXCEPT !.target = "Cpu"] \/ placing' = NotStarted
      BY <2>4 DEF execute_with_circuit_breaker
    <3>2. placing.pc = "answered" /\ "pc" \in DOMAIN placing
      BY <2>4 DEF execute_with_circuit_breaker, PlacementInv
    <3>3. QED
      BY <3>1, <3>2 DEF NotStarted
  <2>5. QED
    BY <2>1, <2>2, <2>3, <2>4
<1>3. QED
  BY <1>1, <1>2 DEF PlacementInv, Started

LEMMA AdaptedShares ==
  ASSUME Started, NEW event \in Events
  PROVE  Shares(Adapted(event))
<1>1. Shares(CpuProfile) /\ Shares(observer.current)
      /\ (observer.gpu # <<>> => Shares(observer.gpu[1]))
  BY BaseProfiles DEF Started
<1>2. CASE event = "LowBattery"
  <2>1. Adapted(event) = [CpuProfile EXCEPT !.power = @ * 3]
    BY <1>2, Zenon DEF Adapted
  <2>2. QED
    BY <1>1, <2>1 DEF Shares, CpuProfile, Profile
<1>3. CASE event = "HighLoad"
  <2>1. Adapted(event) = [CpuProfile EXCEPT !.latency = @ * 5]
    BY <1>3, Zenon DEF Adapted
  <2>2. QED
    BY <1>1, <2>1 DEF Shares, CpuProfile, Profile
<1>4. CASE event = "HighPowerDraw"
  <2>1. Adapted(event) = [observer.current EXCEPT !.power = @ * 2]
    BY <1>4, Zenon DEF Adapted
  <2>2. QED
    BY <1>1, <2>1 DEF Shares
<1>5. CASE event = "NpuUnavailable"
  <2>1. Adapted(event) = [observer.current EXCEPT !.cost = @ + 500]
    BY <1>5, Zenon DEF Adapted
  <2>2. QED
    BY <1>1, <2>1 DEF Shares
<1>6. CASE event = "GpuMemoryPressure"
  <2>1. Adapted(event) = IF observer.gpu = <<>> THEN observer.current
                         ELSE [observer.gpu[1] EXCEPT !.cost = @ * 3]
    BY <1>6, Zenon DEF Adapted
  <2>2. QED
    BY <1>1, <2>1 DEF Shares
<1>7. CASE event = "Normal"
  <2>1. Adapted(event) = IF observer.gpu = <<>> THEN CpuProfile ELSE observer.gpu[1]
    BY <1>7, Zenon DEF Adapted
  <2>2. QED
    BY <1>1, <2>1
<1>8. QED
  BY <1>2, <1>3, <1>4, <1>5, <1>6, <1>7, PlacementAssumption

LEMMA ObservingKeeps ==
  ASSUME PlacementInv,
         start_monitoring \/ receive_event \/ poll \/ \E event \in Events : trigger_event(event)
  PROVE  PlacementInv'
<1>1. CASE start_monitoring
  <2>1. PICK gpu \in {<<>>} \cup {<<GpuProfile(v)>> : v \in GpuVram} :
          observer' = [pc |-> "waiting", gpu |-> gpu,
                       current |-> IF gpu = <<>> THEN CpuProfile ELSE gpu[1]]
    BY <1>1 DEF start_monitoring
  <2>2. gpu # <<>> => Shares(gpu[1])
    BY BaseProfiles
  <2>3. Started'
    <3>1. PICK k : k = IF gpu = <<>> THEN CpuProfile ELSE gpu[1]
      OBVIOUS
    <3>2. Shares(k)
      BY <2>2, <3>1, BaseProfiles
    <3>3. /\ observer' = [pc |-> "waiting", gpu |-> gpu, current |-> k]
          /\ observer'.current = k /\ observer'.gpu = gpu
      BY <2>1, <3>1
    <3>4. QED
      BY <2>2, <3>2, <3>3 DEF Started
  <2>4. QED
    BY <1>1, <2>3 DEF start_monitoring, PlacementInv
<1>2. CASE receive_event
  <2>1. PICK event : event = Head(event_rx)
    OBVIOUS
  <2>2. /\ event \in Events /\ Tail(event_rx) \in Seq(Events)
        /\ Len(Tail(event_rx)) <= told
    BY <1>2, <2>1 DEF receive_event, PlacementInv
  <2>3. CASE Started
    <3>1. Shares(Adapted(event))
      BY <2>2, <2>3, AdaptedShares
    <3>2. PICK k : k = Adapted(event)
      OBVIOUS
    <3>3. observer' = [pc |-> "waiting", gpu |-> observer.gpu, current |-> k]
      BY <1>2, <2>1, <2>3, <3>2 DEF receive_event, Started
    <3>4. observer'.gpu = observer.gpu /\ observer'.current = k
          /\ observer' = [pc |-> "waiting", gpu |-> observer'.gpu, current |-> observer'.current]
      BY <3>3
    <3>5. Started'
      BY <2>3, <3>1, <3>2, <3>4 DEF Started
    <3>6. QED
      BY <1>2, <2>2, <3>5 DEF receive_event, PlacementInv
  <2>4. CASE observer = NotStarted
    <3>1. observer' = NotStarted
      BY <1>2, <2>4 DEF receive_event, NotStarted
    <3>2. QED
      BY <1>2, <2>2, <3>1 DEF receive_event, PlacementInv
  <2>5. QED
    BY <2>3, <2>4 DEF PlacementInv
<1>3. CASE poll
  <2>1. Started /\ polls + 1 <= MaxPolls /\ polls' = polls + 1
    BY <1>3, PlacementAssumption DEF poll, PlacementInv, NotStarted
  <2>2. PICK sample : /\ \/ sample = observer.current
                         \/ \E v \in GpuVram : sample = Blended(observer.current, GpuProfile(v))
                      /\ observer' = [observer EXCEPT !.current = sample]
                      /\ weights' = observe(weights, sample)
    BY <1>3 DEF poll
  <2>3. Shares(sample)
    BY <2>1, <2>2, BaseProfiles, BlendedShares DEF Started
  <2>4. Shares(weights') /\ Total(weights') \in 998 .. 1000
    BY <2>2, <2>3, ObserveNormalises DEF PlacementInv
  <2>5. observer' = [pc |-> "waiting", gpu |-> observer.gpu, current |-> sample]
    BY <2>1, <2>2 DEF Started
  <2>6. Started'
    BY <2>1, <2>3, <2>5 DEF Started
  <2>7. QED
    BY <1>3, <2>1, <2>4, <2>6 DEF poll, PlacementInv
<1>4. ASSUME NEW event \in Events, trigger_event(event) PROVE PlacementInv'
  <2>1. Append(event_rx, event) \in Seq(Events) /\ Len(Append(event_rx, event)) = Len(event_rx) + 1
    BY DEF PlacementInv
  <2>2. /\ event_rx' = Append(event_rx, event) /\ told' = told + 1 /\ told < MaxEvents
        /\ UNCHANGED <<weights, observer, polls, placing>>
    BY <1>4 DEF trigger_event
  <2>3. Len(event_rx') <= told' /\ told' \in Nat /\ told' <= MaxEvents
    BY <2>1, <2>2, PlacementAssumption DEF PlacementInv
  <2>4. QED
    BY <2>1, <2>2, <2>3 DEF PlacementInv, Started
<1>5. QED
  BY <1>1, <1>2, <1>3, <1>4

LEMMA PlacementInvNext == PlacementInv /\ [PlacementNext]_placementVars => PlacementInv'
<1>1. ASSUME PlacementInv, UNCHANGED placementVars PROVE PlacementInv'
  BY <1>1 DEF placementVars, PlacementInv, Started
<1>2. QED
  BY <1>1, PlacingKeeps, ObservingKeeps DEF PlacementNext

LEMMA PlacementTyped == PlacementInv => PlacementTypeOK
  BY DEF PlacementInv, PlacementTypeOK, Started, NotStarted

(* The weights stay normalised, from 998 to 1000 thousandths for all that  *)
(* rounding takes away, whatever profiles the observer is moved to; and    *)
(* neither the events nor the answers leave their types.                   *)
THEOREM PlacementTyping == PlacementSpec => []PlacementTypeOK
  BY PlacementInitially, PlacementInvNext, PlacementTyped, PTL DEF PlacementSpec

-----------------------------------------------------------------------------
(***************************************************************************)
(* BCell, for every set of calls, length of histories and limit of the     *)
(* patterns: a call has one antibody, observed or enforced.                *)
(***************************************************************************)
(* A pattern that comes takes the place of the oldest, at the limit.       *)
LEMMA PatternsBounded ==
  ASSUME BCellTypeOK, NEW history \in Histories
  PROVE  learn_threat(history) \in Seq(Histories) /\ Len(learn_threat(history)) <= max_patterns
<1>1. patterns \in Seq(Histories) /\ Len(patterns) <= max_patterns /\ max_patterns \in Nat \ {0}
  BY BCellAssumption DEF BCellTypeOK
<1>2. Len(patterns) \in Nat
  BY <1>1
<1>3. CASE Len(patterns) >= max_patterns
  <2>1. patterns # <<>>
    BY <1>1, <1>3
  <2>2. Tail(patterns) \in Seq(Histories) /\ Len(Tail(patterns)) = Len(patterns) - 1
    BY <1>1, <2>1, TailElements
  <2>3. Append(Tail(patterns), history) \in Seq(Histories)
        /\ Len(Append(Tail(patterns), history)) = Len(Tail(patterns)) + 1
    BY <2>2, Appending
  <2>4. QED
    BY <1>1, <1>2, <1>3, <2>2, <2>3 DEF learn_threat
<1>4. CASE ~(Len(patterns) >= max_patterns)
  <2>1. Append(patterns, history) \in Seq(Histories)
        /\ Len(Append(patterns, history)) = Len(patterns) + 1
    BY <1>1, Appending
  <2>2. QED
    BY <1>1, <1>2, <1>4, <2>1 DEF learn_threat
<1>5. QED
  BY <1>3, <1>4

(* One antibody per call: a call that has one is not given another.        *)
LEMMA AntibodiesApart ==
  ASSUME BCellTypeOK, NEW learned, generate_antibody(learned)
  PROVE  /\ shadow' \subseteq Antibodies /\ enforced' \subseteq ImmuneCalls
         /\ \A a, b \in shadow' : a.syscall = b.syscall => a = b
         /\ \A a \in shadow' : a.syscall \notin antibodies
<1>1. CASE UNCHANGED <<shadow, enforced>>
  BY <1>1 DEF BCellTypeOK
<1>2. ASSUME NEW s \in ImmuneCalls, ~Known(s), NEW enough,
             shadow' = shadow \cup {[syscall |-> s, complete |-> FALSE, confident |-> enough]},
             enforced' = enforced \cup {s}, enough \in BOOLEAN
      PROVE  /\ shadow' \subseteq Antibodies /\ enforced' \subseteq ImmuneCalls
             /\ \A a, b \in shadow' : a.syscall = b.syscall => a = b
             /\ \A a \in shadow' : a.syscall \notin antibodies
  <2>1. PICK new : new = [syscall |-> s, complete |-> FALSE, confident |-> enough]
    OBVIOUS
  <2>2. new \in Antibodies /\ new.syscall = s
    BY <1>2, <2>1 DEF Antibodies
  <2>3. s \notin antibodies /\ \A a \in shadow : a.syscall # s
    BY <1>2 DEF Known
  <2>4. shadow' = shadow \cup {new}
    BY <1>2, <2>1
  <2>5. QED
    BY <1>2, <2>2, <2>3, <2>4 DEF BCellTypeOK
<1>3. \A s : (Frequency(learned, s) >= PromoteCount) \in BOOLEAN
  OBVIOUS
<1>4. QED
  BY <1>1, <1>2, <1>3, Zenon DEF generate_antibody

LEMMA BCellTyping == BCellTypeOK /\ [BCellNext]_bcellVars => BCellTypeOK'
<1> SUFFICES ASSUME BCellTypeOK, [BCellNext]_bcellVars PROVE BCellTypeOK'
  OBVIOUS
<1>1. /\ inbox \in Seq(BusIntents) /\ Len(inbox) <= MaxBehind /\ Len(inbox) \in Nat /\ MaxBehind \in Nat
      /\ patterns \in Seq(Histories) /\ Len(patterns) <= max_patterns
      /\ shadow \subseteq Antibodies /\ antibodies \subseteq ImmuneCalls
      /\ \A a, b \in shadow : a.syscall = b.syscall => a = b
      /\ \A a \in shadow : a.syscall \notin antibodies
      /\ enforced \subseteq ImmuneCalls /\ {slept, overdue} \subseteq BOOLEAN
  BY BCellAssumption DEF BCellTypeOK
<1>2. ASSUME NEW x \in BusIntents, Publish(x) PROVE BCellTypeOK'
  <2>1. inbox' = Append(inbox, x) /\ Len(inbox) < MaxBehind
    BY <1>2 DEF Publish
  <2>2. inbox' \in Seq(BusIntents) /\ Len(inbox') = Len(inbox) + 1
    BY <1>1, <2>1, Appending
  <2>3. Len(inbox') <= MaxBehind
    BY <1>1, <2>1, <2>2
  <2>4. QED
    BY <1>1, <1>2, <2>2, <2>3 DEF Publish, BCellTypeOK
<1>3. CASE ReceiveIntent
  <2>1. inbox # <<>> /\ inbox' = Tail(inbox) /\ slept' = FALSE /\ UNCHANGED <<antibodies, overdue>>
    BY <1>3 DEF ReceiveIntent
  <2>2. inbox' \in Seq(BusIntents) /\ Len(inbox') = Len(inbox) - 1
    BY <1>1, <2>1, TailElements
  <2>3. Len(inbox') <= MaxBehind
    BY <1>1, <2>2
  <2>4. /\ patterns' \in Seq(Histories) /\ Len(patterns') <= max_patterns
        /\ shadow' \subseteq Antibodies /\ enforced' \subseteq ImmuneCalls
        /\ \A a, b \in shadow' : a.syscall = b.syscall => a = b
        /\ \A a \in shadow' : a.syscall \notin antibodies
    <3>1. CASE UNCHANGED <<patterns, shadow, enforced>>
      BY <1>1, <3>1
    <3>2. CASE \E history \in Histories :
                 patterns' = learn_threat(history) /\ generate_antibody(patterns')
      BY <3>2, PatternsBounded, AntibodiesApart
    <3>3. QED
      BY <1>3, <3>1, <3>2 DEF ReceiveIntent
  <2>5. QED
    BY <1>1, <2>1, <2>2, <2>3, <2>4 DEF BCellTypeOK
<1>4. CASE Sleep \/ QuarantineExpires
  BY <1>1, <1>4 DEF Sleep, QuarantineExpires, BCellTypeOK
<1>5. CASE ObservationCompletes
  <2>1. PICK ab \in shadow : shadow' = (shadow \ {ab}) \cup {[ab EXCEPT !.complete = TRUE]}
    BY <1>5 DEF ObservationCompletes
  <2>2. PICK done : done = [ab EXCEPT !.complete = TRUE]
    OBVIOUS
  <2>3. ab \in Antibodies
    BY <1>1
  <2>4. done \in Antibodies /\ done.syscall = ab.syscall
    BY <2>2, <2>3 DEF Antibodies
  <2>5. shadow' = (shadow \ {ab}) \cup {done}
    BY <2>1, <2>2
  <2>6. /\ shadow' \subseteq Antibodies
        /\ \A a, b \in shadow' : a.syscall = b.syscall => a = b
        /\ \A a \in shadow' : a.syscall \notin antibodies
    BY <1>1, <2>4, <2>5
  <2>7. QED
    BY <1>1, <1>5, <2>6 DEF ObservationCompletes, BCellTypeOK
<1>6. CASE sweep_shadow_antibodies
  <2>1. PICK promoted : promoted = {ab.syscall : ab \in {a \in shadow : Promoted(a)}}
    OBVIOUS
  <2>2. /\ shadow' = {ab \in shadow : Observing(ab)} /\ antibodies' = antibodies \cup promoted
        /\ enforced' = enforced \cup promoted /\ slept' = FALSE /\ overdue' = FALSE
        /\ UNCHANGED <<inbox, patterns>>
    BY <1>6, <2>1 DEF sweep_shadow_antibodies
  <2>3. promoted \subseteq ImmuneCalls
    BY <1>1, <2>1 DEF Antibodies
  <2>4. \A a \in shadow' : a.syscall \notin promoted
    BY <1>1, <2>1, <2>2 DEF Promoted, Observing
  <2>5. QED
    BY <1>1, <2>2, <2>3, <2>4 DEF BCellTypeOK
<1>7. CASE UNCHANGED bcellVars
  BY <1>1, <1>7 DEF bcellVars, BCellTypeOK
<1>8. QED
  BY <1>2, <1>3, <1>4, <1>5, <1>6, <1>7 DEF BCellNext

LEMMA BCellInitially == BCellInit => BCellTypeOK
<1>1. <<>> \in Seq(BusIntents) /\ <<>> \in Seq(Histories) /\ Len(<<>>) = 0
  OBVIOUS
<1>2. MaxBehind \in Nat /\ max_patterns \in Nat
  BY BCellAssumption
<1>3. 0 <= MaxBehind /\ 0 <= max_patterns
  BY <1>2
<1>4. QED
  BY <1>1, <1>3, Zenon DEF BCellInit, BCellTypeOK

-----------------------------------------------------------------------------
(***************************************************************************)
(* The types of the other tasks.                                           *)
(***************************************************************************)
VramTypes ==
  /\ DOMAIN allocated \subseteq VramAgents
  /\ \A a \in DOMAIN allocated : allocated[a] \in VramRequests
  /\ reserving \in [VramCallers -> {NotReserving} \cup
                      [pc : {"accepted"}, agent : VramAgents, bytes : VramRequests]]

LEMMA VramTyping == VramTypes /\ [VramNext]_vramVars => VramTypes'
<1> SUFFICES ASSUME VramTypes, [VramNext]_vramVars PROVE VramTypes'
  OBVIOUS
<1>1. ASSUME NEW c \in VramCallers, NEW a \in VramAgents, NEW b \in VramRequests, check(c, a, b)
      PROVE  VramTypes'
  BY <1>1 DEF check, VramTypes
<1>2. ASSUME NEW c \in VramCallers, insert_reservation(c) PROVE VramTypes'
  <2>1. PICK r : r = reserving[c]
    OBVIOUS
  <2>2. r.pc = "accepted" /\ r \in {NotReserving} \cup
                      [pc : {"accepted"}, agent : VramAgents, bytes : VramRequests]
    BY <1>2, <2>1 DEF insert_reservation, VramTypes
  <2>3. r.agent \in VramAgents /\ r.bytes \in VramRequests
    BY <2>2 DEF NotReserving
  <2>4. allocated' = [a \in DOMAIN allocated \cup {r.agent} |->
                         IF a = r.agent THEN r.bytes ELSE allocated[a]]
    BY <1>2, <2>1 DEF insert_reservation
  <2>5. reserving' = [reserving EXCEPT ![c] = NotReserving]
    BY <1>2 DEF insert_reservation
  <2>6. QED
    BY <2>3, <2>4, <2>5 DEF VramTypes
<1>3. ASSUME NEW a \in VramAgents, release_vram(a) PROVE VramTypes'
  BY <1>3 DEF release_vram, VramTypes, Restrict
<1>4. CASE UNCHANGED vramVars
  BY <1>4 DEF vramVars, VramTypes
<1>5. QED
  BY <1>1, <1>2, <1>3, <1>4 DEF VramNext

LEMMA VramInitially == VramInit => VramTypes
  BY DEF VramInit, VramTypes

LEMMA VramTyped == VramTypes => VramTypeOK
  BY DEF VramTypes, VramTypeOK, NotReserving

(* What BusInv leaves of the bus's types: nobody is ahead of the channel,  *)
(* and no task has more than two intents to publish.                       *)
BusBounds ==
  /\ \A s \in Subscribers : position[s] <= Len(sent) /\ Len(outgoing[s]) <= 2
  /\ filters \subseteq FilteredKinds
  /\ placed \subseteq Requests /\ unplaced \subseteq Requests /\ failed \subseteq Requests
  /\ lost \subseteq Intents

LEMMA BusTyped == BusInv /\ BusBounds => BusTypeOK
<1> SUFFICES ASSUME BusInv, BusBounds PROVE BusTypeOK
  OBVIOUS
<1>1. Len(sent) \in Nat /\ position \in [Subscribers -> Nat]
  BY DEF BusInv
<1>2. position \in [Subscribers -> 0 .. Len(sent)]
  BY <1>1 DEF BusBounds
<1>3. \A s \in Subscribers : outgoing[s] \in Seq(Intents)
  BY DEF BusInv
<1>4. QED
  BY <1>2, <1>3 DEF BusInv, BusBounds, BusTypeOK

LEMMA Published ==
  ASSUME BusInv, BusBounds, NEW msg \in Intents, publish(msg)
  PROVE  Len(sent) <= Len(sent') /\ lost' \subseteq Intents
<1>1. sent \in Seq(Intents) /\ Len(sent) \in Nat /\ lost \subseteq Intents
  BY DEF BusInv, BusBounds
<1>2. Len(Append(sent, msg)) = Len(sent) + 1
  BY <1>1, Appending
<1>3. QED
  BY <1>1, <1>2 DEF publish

LEMMA Receives ==
  ASSUME BusInv, BusBounds, NEW s \in Subscribers, receive(s)
  PROVE  /\ \A q \in Subscribers : position'[q] <= Len(sent)
         /\ lost' \subseteq Intents
         /\ Received(s) \in Intents
<1>1. /\ position' \in [Subscribers -> Nat] /\ position'[s] \in DOMAIN sent /\ Received(s) \in Intents
      /\ position \in [Subscribers -> Nat] /\ sent \in Seq(Intents) /\ Len(sent) \in Nat
  BY ReceivedWasSent DEF BusInv
<1>2. PICK n : position' = [position EXCEPT ![s] = n]
  BY DEF receive
<1>3. \A q \in Subscribers : position'[q] <= Len(sent)
  BY <1>1, <1>2 DEF BusBounds
<1>4. \A j \in position[s] + 1 .. Oldest : sent[j] \in Intents
  <2>1. Oldest \in 0 .. Len(sent) /\ position[s] \in Nat
    BY <1>1, OldestIsEarlier
  <2>2. QED
    BY <1>1, <2>1
<1>5. lost' \subseteq Intents
  BY <1>4 DEF receive, BusBounds
<1>6. QED
  BY <1>1, <1>3, <1>5

LEMMA BusTyping == BusInv /\ BusBounds /\ [BusNext]_busVars => BusBounds'
<1> SUFFICES ASSUME BusInv, BusBounds, [BusNext]_busVars PROVE BusBounds'
  OBVIOUS
<1>0. /\ position \in [Subscribers -> Nat] /\ Len(sent) \in Nat /\ Len(sent') \in Nat
      /\ outgoing \in [Subscribers -> Seq(Intents)] /\ outgoing' \in [Subscribers -> Seq(Intents)]
      /\ position' \in [Subscribers -> Nat]
  BY BusInvNext DEF BusInv
<1>1. ASSUME NEW r \in Requests, Ask(r) PROVE BusBounds'
  <2>1. Msg("nl", r) \in Intents
    BY DEF Msg, Intents, Kinds
  <2>2. Len(sent) <= Len(sent') /\ lost' \subseteq Intents
    BY <1>1, <2>1, Published DEF Ask
  <2>3. QED
    BY <1>0, <1>1, <2>2 DEF Ask, BusBounds
<1>2. ASSUME NEW k \in FilteredKinds, add_filter(k) \/ remove_filter(k) PROVE BusBounds'
  BY <1>2 DEF add_filter, remove_filter, BusBounds
<1>3. CASE Routing
  <2>1. /\ \A q \in Subscribers : position'[q] <= Len(sent)
        /\ lost' \subseteq Intents /\ Received("routing") \in Intents
    BY <1>3, Receives DEF Routing, Subscribers
  <2>2. PICK msg \in Intents : msg = Received("routing")
    BY <2>1
  <2>3. /\ outgoing' = [outgoing EXCEPT !["routing"] =
              CASE msg.kind = "nl"      -> plan_and_reason(msg.of)
                [] msg.kind = "command" -> <<Msg("request", msg.of)>>
                [] OTHER                -> <<>>]
        /\ unplaced' = CASE msg.kind = "command"   -> unplaced \cup {msg.of}
                        [] msg.kind \in Replies -> unplaced \ {msg.of}
                        [] OTHER                 -> unplaced
        /\ placed' = IF msg.kind = "response" /\ msg.of \in unplaced
                    THEN placed \cup {msg.of} ELSE placed
        /\ failed' = IF msg.kind = "failure" /\ msg.of \in unplaced
                    THEN failed \cup {msg.of} ELSE failed
        /\ UNCHANGED <<sent, filters>>
    BY <1>3, <2>2 DEF Routing
  <2>4. msg.of \in Requests
    BY <2>2 DEF Intents
  <2>5. unplaced' \subseteq Requests
    BY <2>3, <2>4, Zenon DEF BusBounds
  <2>6. placed' \subseteq Requests /\ failed' \subseteq Requests
    BY <2>3, <2>4 DEF BusBounds
  <2>7. PICK out : out = CASE msg.kind = "nl"      -> plan_and_reason(msg.of)
                [] msg.kind = "command" -> <<Msg("request", msg.of)>>
                [] OTHER                -> <<>>
    OBVIOUS
  <2>8. \/ out = plan_and_reason(msg.of) \/ out = <<Msg("request", msg.of)>> \/ out = <<>>
    BY <2>7, Zenon
  <2>9. Len(out) <= 2
    <3>1. \A x, y : Len(<<x, y>>) <= 2
      OBVIOUS
    <3>2. \A x : Len(<<x>>) <= 2
      OBVIOUS
    <3>3. Len(<<>>) <= 2
      OBVIOUS
    <3>4. QED
      BY <2>8, <3>1, <3>2, <3>3, Zenon DEF plan_and_reason
  <2>10. outgoing' = [outgoing EXCEPT !["routing"] = out]
    BY <2>3, <2>7
  <2>11. \A s \in Subscribers : Len(outgoing'[s]) <= 2
    BY <1>0, <2>9, <2>10 DEF BusBounds
  <2>12. QED
    BY <2>1, <2>3, <2>5, <2>6, <2>11 DEF BusBounds
<1>4. CASE Compute
  <2>1. /\ \A q \in Subscribers : position'[q] <= Len(sent) /\ lost' \subseteq Intents
    BY <1>4, Receives DEF Compute, Subscribers
  <2>2. PICK out : outgoing' = [outgoing EXCEPT !["compute"] = out] /\ Len(out) <= 2
    <3>1. \A x : Len(<<x>>) <= 2
      OBVIOUS
    <3>2. Len(<<>>) <= 2
      OBVIOUS
    <3>3. QED
      BY <1>4, <3>1, <3>2 DEF Compute
  <2>3. \A s \in Subscribers : Len(outgoing'[s]) <= 2
    BY <1>0, <2>2 DEF BusBounds
  <2>4. lost' \subseteq Intents
    BY <2>1 DEF Subscribers
  <2>5. QED
    BY <1>4, <2>1, <2>3, <2>4 DEF Compute, BusBounds
<1>5. ASSUME NEW s \in Subscribers, PublishNext(s) PROVE BusBounds'
  <2>1. /\ outgoing[s] \in Seq(Intents) /\ outgoing[s] # <<>>
        /\ publish(Head(outgoing[s])) /\ outgoing' = [outgoing EXCEPT ![s] = Tail(@)]
        /\ UNCHANGED <<position, filters, unplaced, placed, failed>>
    BY <1>0, <1>5 DEF PublishNext
  <2>2. Head(outgoing[s]) \in Intents /\ Len(Tail(outgoing[s])) = Len(outgoing[s]) - 1
        /\ Len(outgoing[s]) \in Nat
    BY <2>1, TailElements
  <2>3. Len(sent) <= Len(sent') /\ lost' \subseteq Intents
    BY <2>1, <2>2, Published
  <2>4. \A q \in Subscribers : Len(outgoing'[q]) <= 2
    BY <1>0, <2>1, <2>2 DEF BusBounds
  <2>5. \A q \in Subscribers : position'[q] <= Len(sent')
    BY <1>0, <2>1, <2>3 DEF BusBounds
  <2>6. QED
    BY <2>1, <2>3, <2>4, <2>5 DEF BusBounds
<1>6. CASE UNCHANGED busVars
  BY <1>6 DEF busVars, BusBounds
<1>7. QED
  BY <1>1, <1>2, <1>3, <1>4, <1>5, <1>6 DEF BusNext

LEMMA BusInitially == BusInit => BusBounds
  BY DEF BusInit, BusBounds

-----------------------------------------------------------------------------
CompanionBounds ==
  /\ config \in Configs /\ hook \in BOOLEAN /\ alive \subseteq AllTasks
  /\ detached \subseteq DetachedTasks
  /\ shutdown_tx \in {"none", "local", "stored", "sent"}
  /\ cancelled \in BOOLEAN /\ traffic \in BOOLEAN
  /\ \E n \in 0 .. Len(ShutdownOrder) :
       awaiting = SubSeq(ShutdownOrder, n + 1, Len(ShutdownOrder))

LEMMA CompanionTyped == IInv /\ CompanionBounds => CompanionTypeOK
  BY DEF IInv, CompanionBounds, CompanionTypeOK

LEMMA TailOfSub ==
  ASSUME NEW S, NEW q \in Seq(S), NEW n \in 0 .. Len(q), SubSeq(q, n + 1, Len(q)) # <<>>
  PROVE  n + 1 \in 0 .. Len(q) /\ Tail(SubSeq(q, n + 1, Len(q))) = SubSeq(q, n + 2, Len(q))
  OBVIOUS

LEMMA CompanionTyping == CompanionBounds /\ [CompanionNext]_companionVars => CompanionBounds'
<1> SUFFICES ASSUME CompanionBounds, [CompanionNext]_companionVars PROVE CompanionBounds'
  OBVIOUS
<1>1. CASE AwaitTask
  <2>1. PICK n \in 0 .. Len(ShutdownOrder) : awaiting = SubSeq(ShutdownOrder, n + 1, Len(ShutdownOrder))
    BY DEF CompanionBounds
  <2>2. awaiting # <<>> /\ awaiting' = Tail(awaiting) /\ alive' \subseteq alive
        /\ UNCHANGED <<config, hook, detached, shutdown_tx, cancelled, traffic>>
    BY <1>1 DEF AwaitTask
  <2>3. ShutdownOrder \in Seq(AllTasks)
    BY OrderComplete
  <2>4. n + 1 \in 0 .. Len(ShutdownOrder)
        /\ awaiting' = SubSeq(ShutdownOrder, n + 2, Len(ShutdownOrder))
    BY <2>1, <2>2, <2>3, TailOfSub
  <2>5. (n + 1) + 1 = n + 2
    BY <2>4
  <2>6. QED
    BY <2>2, <2>4, <2>5 DEF CompanionBounds
<1>2. CASE shutdown
  <2>1. ShutdownOrder \in Seq(AllTasks)
    BY OrderComplete
  <2>2. SubSeq(ShutdownOrder, 0 + 1, Len(ShutdownOrder)) = ShutdownOrder
        /\ 0 \in 0 .. Len(ShutdownOrder)
    BY <2>1
  <2>3. awaiting' = ShutdownOrder
    BY <1>2 DEF shutdown
  <2>4. \E n \in 0 .. Len(ShutdownOrder) :
          awaiting' = SubSeq(ShutdownOrder, n + 1, Len(ShutdownOrder))
    BY <2>2, <2>3
  <2>5. QED
    BY <1>2, <2>4 DEF shutdown, CompanionBounds
<1>3. CASE UNCHANGED companionVars
  BY <1>3 DEF companionVars, CompanionBounds
<1>4. CASE BootFails \/ boot \/ AttachHooks \/ EnsureCgroup \/ ClientsComeAndGo \/ DetachHooks
  BY <1>4 DEF BootFails, Fails, boot, AttachHooks, EnsureCgroup, ClientsComeAndGo, DetachHooks,
              CompanionBounds
<1>5. CASE SpawnTasks \/ SpawnMesh \/ SpawnSfs \/ SpawnServers
  BY <1>5 DEF SpawnTasks, SpawnMesh, SpawnSfs, SpawnServers, Spawned, CompanionBounds,
              AllTasks, WatchTasks, TokenTasks, PolledTasks, AbortTasks, DetachedTasks
<1>6. ASSUME NEW t \in AllTasks, WatchTaskEnds(t) \/ TokenTaskEnds(t) \/ TaskFails(t)
      PROVE  CompanionBounds'
  BY <1>6 DEF WatchTaskEnds, TokenTaskEnds, TaskFails, Ends, CompanionBounds
<1>7. ASSUME NEW t \in DetachedTasks, SpawnDetached(t) \/ DetachedEnds(t)
      PROVE  CompanionBounds'
  BY <1>7 DEF SpawnDetached, DetachedEnds, CompanionBounds
<1>8. QED
  BY <1>1, <1>2, <1>3, <1>4, <1>5, <1>6, <1>7 DEF CompanionNext

LEMMA CompanionInitially == CompanionInit => CompanionBounds
<1>1. ShutdownOrder \in Seq(AllTasks) /\ Len(ShutdownOrder) \in Nat
  BY OrderComplete
<1>2. SubSeq(ShutdownOrder, Len(ShutdownOrder) + 1, Len(ShutdownOrder)) = <<>>
  BY <1>1
<1>3. Len(ShutdownOrder) \in 0 .. Len(ShutdownOrder)
  BY <1>1
<1>4. QED
  BY <1>2, <1>3, Zenon DEF CompanionInit, CompanionBounds

Statuses == {"Alive", "Suspect", "Dead", "Unknown"}
MemberBounds ==
  /\ listener \in {"accepting", "ended"} /\ known_nodes \subseteq Peers /\ silent \subseteq Peers
  /\ status \in [Peers -> Statuses]
  /\ detector = [pc |-> detector.pc, dead |-> detector.dead]
  /\ detector.pc \in {"sleep", "ping", "remove"} /\ detector.dead \subseteq Peers

LEMMA MemberTyped == MemberInv /\ MemberBounds => MembershipTypeOK
<1> SUFFICES ASSUME MemberInv, MemberBounds PROVE MembershipTypeOK
  OBVIOUS
<1>1. detector \in [pc : {"sleep", "ping", "remove"}, dead : SUBSET Peers]
  BY DEF MemberBounds
<1>2. QED
  BY <1>1 DEF MemberInv, MemberBounds, MembershipTypeOK, Statuses

(* The peer of a connection that is made.                                  *)
LEMMA PeerOf ==
  ASSUME MemberInv, NEW c \in Conns, NEW pc, ConnAt(c, pc)
  PROVE  conn[c].peer \in Peers
<1>1. conn[c] \in Link
  BY Linked DEF MemberInv, ConnAt
<1>2. QED
  BY <1>1 DEF Link

LEMMA StatusChanges ==
  ASSUME MemberBounds
  PROVE  /\ \A p \in Peers : record_ack(p) \/ suspect(p) => status' \in [Peers -> Statuses]
         /\ \A S : mark_dead(S) \in [Peers -> Statuses]
  BY DEF MemberBounds, record_ack, suspect, mark_dead, Statuses

LEMMA MemberTyping == MemberInv /\ MemberBounds /\ [MemberNext]_memberVars => MemberBounds'
<1> SUFFICES ASSUME MemberInv, MemberBounds, [MemberNext]_memberVars PROVE MemberBounds'
  OBVIOUS
<1>0. /\ detector = [pc |-> detector.pc, dead |-> detector.dead]
      /\ detector.pc \in {"sleep", "ping", "remove"} /\ detector.dead \subseteq Peers
      /\ status \in [Peers -> Statuses]
      /\ listener \in {"accepting", "ended"} /\ known_nodes \subseteq Peers /\ silent \subseteq Peers
  BY DEF MemberBounds
<1>1. CASE UNCHANGED <<known_nodes, status, detector, silent>> /\ listener' \in {listener, "ended"}
  BY <1>0, <1>1 DEF MemberBounds
<1>2. ASSUME UNCHANGED <<listener, detector, silent>>, status' \in [Peers -> Statuses],
             known_nodes' \subseteq Peers
      PROVE  MemberBounds'
  BY <1>0, <1>2 DEF MemberBounds
<1>3. ASSUME NEW c \in Conns, Connecting(c) \/ Disconnecting(c) \/ on_message(c) PROVE MemberBounds'
  <2>1. \A pc : ConnAt(c, pc) => conn[c].peer \in Peers
    BY PeerOf
  <2>2. CASE handshake(c)
    <3>1. known_nodes' \subseteq Peers /\ status' = status
      BY <1>0, <2>1, <2>2 DEF handshake
    <3>2. QED
      BY <1>0, <1>2, <2>2, <3>1 DEF handshake
  <2>3. CASE handshake_fails(c) \/ answer_fails(c) \/ register_sender(c) \/ drop_sender(c)
    BY <1>1, <2>3 DEF handshake_fails, answer_fails, register_sender, drop_sender
  <2>4. CASE handshake_acks(c)
    BY <1>0, <1>2, <2>1, <2>4, StatusChanges DEF handshake_acks
  <2>5. CASE on_message(c)
    <3>1. known_nodes' \subseteq Peers
      BY <1>0, <2>5 DEF on_message
    <3>2. QED
      BY <1>2, <2>1, <2>5, <3>1, StatusChanges DEF on_message
  <2>6. CASE read_ends(c)
    BY <1>0, <1>2, <2>1, <2>6, StatusChanges DEF read_ends
  <2>7. CASE read_task_done(c)
    BY <1>0, <1>2, <2>7, StatusChanges DEF read_task_done
  <2>8. QED
    BY <1>3, <2>2, <2>3, <2>4, <2>5, <2>6, <2>7 DEF Connecting, Disconnecting
<1>4. ASSUME NEW c \in Conns, NEW p \in Peers, accept(c, p) \/ connect_to_peer(c, p)
      PROVE  MemberBounds'
  BY <1>1, <1>4 DEF accept, connect_to_peer
<1>5. CASE accept_times_out \/ UNCHANGED memberVars
  BY <1>1, <1>5 DEF accept_times_out, memberVars
<1>6. ASSUME UNCHANGED <<listener, silent>>, status' \in [Peers -> Statuses],
             known_nodes' \subseteq Peers,
             NEW pc \in {"sleep", "ping", "remove"}, NEW dead \in SUBSET Peers,
             detector' = [pc |-> pc, dead |-> dead]
      PROVE  MemberBounds'
  BY <1>0, <1>6 DEF MemberBounds
<1>7. CASE ping_round
  <2>1. PICK dead \in SUBSET Peers : detector' = [pc |-> "ping", dead |-> dead] /\ status' = mark_dead(dead)
    BY <1>7 DEF ping_round
  <2>2. QED
    BY <1>0, <1>6, <1>7, <2>1, StatusChanges DEF ping_round
<1>8. ASSUME NEW p \in Peers, ping(p) PROVE MemberBounds'
  <2>1. detector' = [pc |-> "remove", dead |-> detector.dead]
    BY <1>0, <1>8 DEF ping
  <2>2. status' \in [Peers -> Statuses]
    BY <1>8, StatusChanges DEF ping
  <2>3. QED
    BY <1>0, <1>6, <1>8, <2>1, <2>2 DEF ping
<1>9. CASE ping_nobody \/ round_over
  <2>1. \E pc \in {"sleep", "remove"} : detector' = [pc |-> pc, dead |-> detector.dead]
    BY <1>0, <1>9 DEF ping_nobody, round_over
  <2>2. UNCHANGED <<listener, known_nodes, status, silent>>
    BY <1>9 DEF ping_nobody, round_over
  <2>3. QED
    BY <1>0, <1>6, <2>1, <2>2
<1>10. ASSUME NEW p \in Peers, remove_node(p) PROVE MemberBounds'
  <2>1. detector' = [pc |-> detector.pc, dead |-> detector.dead \ {p}]
    BY <1>0, <1>10 DEF remove_node
  <2>2. status' \in [Peers -> Statuses] /\ known_nodes' \subseteq Peers
    BY <1>0, <1>10, StatusChanges DEF remove_node
  <2>3. QED
    BY <1>0, <1>6, <1>10, <2>1, <2>2 DEF remove_node
<1>11. ASSUME NEW p \in Peers, PeerStops(p) PROVE MemberBounds'
  BY <1>0, <1>11, MembershipAssumption DEF PeerStops, MemberBounds
<1>12. QED
  BY <1>3, <1>4, <1>5, <1>7, <1>8, <1>9, <1>10, <1>11 DEF MemberNext, Detecting

LEMMA MemberInitially == MemberInit => MemberBounds
  BY DEF MemberInit, MemberBounds, Statuses

-----------------------------------------------------------------------------
IndexerBounds ==
  /\ Len(changes) <= 2 * index_batch_size /\ Len(buffer) < index_batch_size
  /\ Len(batches) <= 2 * index_batch_size
  /\ work.pc \in {"idle", "read", "replace", "report"} /\ work.version \in Versions
  /\ indexed \subseteq IndexPoints
  /\ \A f \in Files : manifest[f].pieces \subseteq Nat /\ flushed[f].pieces \subseteq Nat
  /\ reports \in 0 .. event_capacity /\ up \in BOOLEAN
  /\ behind \subseteq Files /\ littered \subseteq Files

LEMMA FileVersions ==
  ASSUME IndexerInv
  PROVE  \A f \in Files : file[f] \in Versions /\ edits[f] \in Versions
<1> SUFFICES ASSUME NEW f \in Files PROVE file[f] \in Versions /\ edits[f] \in Versions
  OBVIOUS
<1>1. file[f] \in {0, edits[f]} /\ edits[f] \in Nat /\ edits[f] <= MaxEdits /\ MaxEdits \in Nat
  BY IndexerAssumption DEF IndexerInv
<1>2. QED
  BY <1>1 DEF Versions

LEMMA IndexerTyped == IndexerInv /\ IndexerBounds => IndexerTypeOK
<1> SUFFICES ASSUME IndexerInv, IndexerBounds PROVE IndexerTypeOK
  OBVIOUS
<1>1. MaxEdits \in Nat
  BY IndexerAssumption
<1>2. file \in [Files -> Versions] /\ edits \in [Files -> Versions]
  BY <1>1, FileVersions DEF IndexerInv
<1>3. ASSUME NEW g \in [Files -> EntryTypes], \A f \in Files : g[f].version <= edits[f]
      PROVE  g \in [Files -> Entries]
  <2>1. SUFFICES ASSUME NEW f \in Files PROVE g[f] \in Entries
    OBVIOUS
  <2>2. g[f] \in EntryTypes /\ g[f].version <= edits[f] /\ edits[f] <= MaxEdits /\ edits[f] \in Nat
    BY <1>3 DEF IndexerInv
  <2>3. QED
    BY <1>1, <2>2 DEF EntryTypes, Entries, Versions
<1>4. manifest \in [Files -> Entries] /\ flushed \in [Files -> Entries]
  BY <1>3 DEF IndexerInv
<1>5. work \in [pc : {"idle", "read", "replace", "report"}, left : Seq(Changes), version : Versions]
  BY DEF IndexerInv, IndexerBounds
<1>6. QED
  BY <1>2, <1>4, <1>5 DEF IndexerInv, IndexerBounds, IndexerTypeOK

LEMMA IndexerTyping == IndexerInv /\ IndexerBounds /\ [IndexerNext]_indexerVars => IndexerBounds'
<1> SUFFICES ASSUME IndexerInv, IndexerBounds, [IndexerNext]_indexerVars PROVE IndexerBounds'
  OBVIOUS
<1>0. /\ changes \in Seq(Changes) /\ buffer \in Seq(Changes) /\ batches \in Seq(Seq(Changes))
      /\ Len(changes) \in Nat /\ Len(buffer) \in Nat /\ Len(batches) \in Nat
      /\ MaxEdits \in Nat /\ index_batch_size \in Nat \ {0} /\ event_capacity \in Nat \ {0}
      /\ work.left \in Seq(Changes)
      /\ manifest \in [Files -> EntryTypes] /\ flushed \in [Files -> EntryTypes]
  BY IndexerAssumption DEF IndexerInv
<1>a. /\ Len(changes) <= 2 * index_batch_size /\ Len(buffer) < index_batch_size
      /\ Len(batches) <= 2 * index_batch_size
      /\ work.pc \in {"idle", "read", "replace", "report"} /\ work.version \in Versions
      /\ indexed \subseteq IndexPoints
      /\ \A f \in Files : manifest[f].pieces \subseteq Nat /\ flushed[f].pieces \subseteq Nat
      /\ reports \in 0 .. event_capacity /\ up \in BOOLEAN
      /\ behind \subseteq Files /\ littered \subseteq Files
  BY DEF IndexerBounds
<1>1. ASSUME NEW f \in Files, notify_change(f) PROVE IndexerBounds'
  <2>0. PICK v \in {0, edits[f] + 1} : \E notice \in Told(f, v) : changes' = changes \o notice
    BY <1>1 DEF notify_change
  <2>1. PICK notice \in Told(f, v) : changes' = changes \o notice
    BY <2>0
  <2>2. notice \in Seq(Changes) /\ Len(notice) \in 0 .. 1
    BY ToldIsShort
  <2>3. Len(changes \o notice) = Len(changes) + Len(notice)
    BY <1>0, <2>2
  <2>4. Len(changes') <= 2 * index_batch_size
    <3>1. Len(changes) < 2 * index_batch_size
      BY <1>1 DEF notify_change
    <3>2. PICK l, m, n : l = Len(changes) /\ m = Len(notice) /\ n = 2 * index_batch_size
      OBVIOUS
    <3>3. l \in Nat /\ m \in 0 .. 1 /\ n \in Nat /\ l < n
      BY <1>0, <2>2, <3>1, <3>2
    <3>4. l + m <= n
      BY <3>3
    <3>5. QED
      BY <2>1, <2>3, <3>2, <3>4
  <2>5. behind' \subseteq Files
    BY <1>a, <1>1 DEF notify_change
  <2>6. QED
    BY <1>a, <1>1, <2>4, <2>5 DEF notify_change, IndexerBounds
<1>2. CASE accumulate
  <2>1. PICK more : more = Append(buffer, Head(changes))
    OBVIOUS
  <2>2. changes # <<>> /\ changes' = Tail(changes)
        /\ IF Len(more) >= index_batch_size
           THEN /\ Len(batches) < 2 * index_batch_size
                /\ buffer' = <<>> /\ batches' = Append(batches, more)
           ELSE buffer' = more /\ UNCHANGED batches
    BY <1>2, <2>1 DEF accumulate
  <2>3. Head(changes) \in Changes /\ Len(changes') = Len(changes) - 1
    BY <1>0, <2>2, TailElements
  <2>4. more \in Seq(Changes) /\ Len(more) \in Nat
    BY <1>0, <2>1, <2>3, Appending
  <2>5. Len(Append(batches, more)) = Len(batches) + 1
    BY <1>0, <2>4, Appending
  <2>6. Len(changes') <= 2 * index_batch_size
    BY <1>0, <1>a, <2>3
  <2>7. Len(buffer') < index_batch_size /\ Len(batches') <= 2 * index_batch_size
    <3>1. CASE Len(more) >= index_batch_size
      <4>1. buffer' = <<>> /\ Len(batches') = Len(batches) + 1 /\ Len(batches) < 2 * index_batch_size
        BY <2>2, <2>5, <3>1
      <4>2. QED
        BY <1>0, <4>1
    <3>2. CASE ~(Len(more) >= index_batch_size)
      BY <1>0, <1>a, <2>2, <2>4, <3>2
    <3>3. QED
      BY <3>1, <3>2
  <2>8. QED
    BY <1>a, <1>2, <2>6, <2>7 DEF accumulate, faultVars, IndexerBounds
<1>3. CASE window_expires
  <2>1. Len(batches') = Len(batches) + 1 /\ Len(batches) < 2 * index_batch_size /\ buffer' = <<>>
    BY <1>0, <1>3, Appending DEF window_expires
  <2>2. Len(batches') <= 2 * index_batch_size /\ Len(buffer') < index_batch_size
    BY <1>0, <2>1
  <2>3. QED
    BY <1>a, <1>3, <2>2 DEF window_expires, faultVars, IndexerBounds
<1>4. CASE take_batch
  <2>1. Len(batches') = Len(batches) - 1
    BY <1>0, <1>4, TailElements DEF take_batch
  <2>2. Len(batches') <= 2 * index_batch_size
    BY <1>0, <1>a, <2>1
  <2>3. work'.pc = "read" /\ work'.version \in Versions
    BY <1>0, <1>4 DEF take_batch, Versions
  <2>4. QED
    BY <1>a, <1>4, <2>2, <2>3 DEF take_batch, faultVars, IndexerBounds
<1>5. ASSUME UNCHANGED <<changes, buffer, batches, flushed, up>>,
             work'.pc \in {"idle", "read", "replace", "report"}, work'.version \in Versions,
             indexed' \subseteq IndexPoints, \A f \in Files : manifest'[f].pieces \subseteq Nat,
             reports' \in 0 .. event_capacity, behind' \subseteq Files, littered' \subseteq Files
      PROVE  IndexerBounds'
  BY <1>a, <1>5 DEF IndexerBounds
<1>6. CASE read_file
  <2>1. PICK c, f : c = Head(work.left) /\ f = c.file
    OBVIOUS
  <2>2. /\ work.left # <<>> /\ UNCHANGED <<changes, buffer, batches, flushed, up>>
        /\ work = [pc |-> work.pc, left |-> work.left, version |-> work.version] /\ work.pc = "read"
    BY <1>6 DEF read_file, pipeVars, IndexerInv
  <2>3. f \in Files
    <3>1. c \in Changes
      BY <1>0, <2>1, <2>2, TailElements
    <3>2. QED
      BY <2>1, <3>1 DEF Changes
  <2>4. /\ UNCHANGED <<indexed, manifest, reports, littered>>
        /\ behind' \subseteq Files
    BY <1>a, <1>6, <2>1, <2>3 DEF read_file
  <2>5. CASE work' = [work EXCEPT !.pc = "replace", !.version = file[f]]
    <3>1. work'.pc = "replace" /\ work'.version = file[f]
      BY <2>2, <2>5
    <3>2. file[f] \in Versions
      BY <2>3, FileVersions
    <3>3. QED
      BY <1>a, <1>5, <2>2, <2>4, <3>1, <3>2
  <2>6. CASE work' = [work EXCEPT !.left = Tail(@)]
    <3>1. work'.pc = "read" /\ work'.version = work.version
      BY <2>2, <2>6
    <3>2. QED
      BY <1>a, <1>5, <2>2, <2>4, <3>1
  <2>7. QED
    BY <1>6, <2>1, <2>5, <2>6 DEF read_file
<1>b. CASE delete_file_index
  <2>1. PICK c, f : c = Head(work.left) /\ f = c.file
    OBVIOUS
  <2>2. /\ work.left # <<>> /\ UNCHANGED <<changes, buffer, batches, flushed, up>>
        /\ work = [pc |-> work.pc, left |-> work.left, version |-> work.version] /\ work.pc = "read"
    BY <1>b DEF delete_file_index, pipeVars, IndexerInv
  <2>3. f \in Files
    <3>1. c \in Changes
      BY <1>0, <2>1, <2>2, TailElements
    <3>2. QED
      BY <2>1, <3>1 DEF Changes
  <2>4. /\ work' = [work EXCEPT !.left = Tail(@)] /\ UNCHANGED littered
        /\ indexed' \subseteq indexed /\ behind' \subseteq Files
        /\ UNCHANGED manifest \/ manifest' = [manifest EXCEPT ![f] = Unlisted]
        /\ UNCHANGED reports \/ (reports < event_capacity /\ reports' = reports + 1)
    BY <1>a, <1>b, <2>1, <2>3 DEF delete_file_index, CaughtUp
  <2>5. work'.pc = "read" /\ work'.version = work.version
    BY <2>2, <2>4
  <2>6. \A g \in Files : manifest'[g].pieces \subseteq Nat
    <3>1. \A g \in Files : manifest'[g] = manifest[g] \/ manifest'[g] = Unlisted
      BY <1>0, <2>4
    <3>2. Unlisted.pieces \subseteq Nat
      BY DEF Unlisted
    <3>3. QED
      BY <1>a, <3>1, <3>2
  <2>7. reports' \in 0 .. event_capacity
    BY <1>0, <1>a, <2>4
  <2>8. QED
    BY <1>a, <1>5, <2>2, <2>4, <2>5, <2>6, <2>7
<1>7. CASE index_file
  <2>1. PICK f, v, new, stale : /\ f = Head(work.left).file /\ v = work.version /\ new = Pieces[v]
                                /\ stale = Named(f, manifest[f].pieces)
    OBVIOUS
  <2>2. /\ work.pc = "replace" /\ UNCHANGED <<changes, buffer, batches, flushed, up, reports>>
        /\ work = [pc |-> work.pc, left |-> work.left, version |-> work.version]
        /\ work' = [work EXCEPT !.pc = "read", !.left = Tail(@)]
    BY <1>7 DEF index_file, pipeVars, IndexerInv
  <2>3. work.left # <<>> /\ v \in 1 .. MaxEdits
    BY <2>1, <2>2 DEF IndexerInv
  <2>4. f \in Files
    <3>1. Head(work.left) \in Changes
      BY <1>0, <2>3, TailElements
    <3>2. QED
      BY <2>1, <3>1 DEF Changes
  <2>5. new \subseteq Nat /\ Points(f, v) \subseteq IndexPoints
    <3>1. new \subseteq Nat /\ v \in Versions
      BY <1>0, <2>1, <2>3, IndexerAssumption DEF Versions
    <3>2. QED
      BY <2>1, <2>4, <3>1 DEF Points, IndexPoints
  <2>6. PICK kept, rest :
          /\ kept \in {{}, stale} /\ rest = (indexed \ stale) \cup kept
          /\ indexed' \in {rest, Upserted(rest, f, v)}
          /\ behind' \in {behind, behind \ {f}, behind \cup {f}}
          /\ littered' \in {littered, littered \cup {f}}
          /\ \/ UNCHANGED manifest
             \/ manifest' = [manifest EXCEPT ![f] = [version |-> v, pieces |-> new]]
    BY <1>7, <2>1 DEF index_file, CaughtUp
  <2>7. indexed' \subseteq IndexPoints
    <3>1. rest \subseteq IndexPoints
      BY <1>a, <2>1, <2>6 DEF Named, Of
    <3>2. QED
      BY <2>5, <2>6, <3>1 DEF Upserted
  <2>8. \A g \in Files : manifest'[g].pieces \subseteq Nat
    <3>1. \A g \in Files : manifest'[g] = manifest[g]
                            \/ manifest'[g] = [version |-> v, pieces |-> new]
      BY <1>0, <2>6
    <3>2. QED
      BY <1>a, <2>5, <3>1
  <2>9. work'.pc = "read" /\ work'.version = work.version
    BY <2>2
  <2>10. behind' \subseteq Files /\ littered' \subseteq Files
    BY <1>a, <2>4, <2>6
  <2>11. QED
    BY <1>a, <1>5, <2>2, <2>7, <2>8, <2>9, <2>10
<1>8. CASE flush
  <2>1. work = [pc |-> work.pc, left |-> work.left, version |-> work.version]
    BY DEF IndexerInv
  <2>2. work'.pc = "report" /\ work'.version = work.version /\ flushed' \in {flushed, manifest}
    BY <1>8, <2>1 DEF flush
  <2>3. QED
    BY <1>a, <1>8, <2>2 DEF flush, pipeVars, faultVars, IndexerBounds
<1>9. CASE report_indexed
  <2>1. work' = NoWork /\ reports' \in 0 .. event_capacity
    BY <1>0, <1>a, <1>9 DEF report_indexed
  <2>2. work'.pc = "idle" /\ work'.version \in Versions
    BY <1>0, <2>1 DEF NoWork, Versions
  <2>3. QED
    BY <1>a, <1>5, <1>9, <2>1, <2>2 DEF report_indexed, pipeVars, faultVars
<1>10. CASE recv_event
  <2>1. reports' \in 0 .. event_capacity
    BY <1>0, <1>a, <1>10 DEF recv_event
  <2>2. QED
    BY <1>a, <1>5, <1>10, <2>1 DEF recv_event, pipeVars, faultVars
<1>11. CASE IndexerStops
  <2>1. /\ Len(changes') = 0 /\ Len(buffer') = 0 /\ Len(batches') = 0 /\ reports' = 0
        /\ work'.pc = "idle" /\ work'.version = 0 /\ up' = FALSE
        /\ UNCHANGED <<indexed, manifest, behind, littered>> /\ flushed' \in {flushed, manifest}
    BY <1>11 DEF IndexerStops, NoWork, faultVars
  <2>2. /\ 0 <= 2 * index_batch_size /\ 0 < index_batch_size /\ 0 \in 0 .. event_capacity
        /\ 0 \in Versions
    BY <1>0 DEF Versions
  <2>3. \A f \in Files : flushed'[f].pieces \subseteq Nat
    BY <1>a, <2>1
  <2>4. QED
    BY <1>a, <2>1, <2>2, <2>3 DEF IndexerBounds
<1>12. CASE start
  BY <1>a, <1>12 DEF start, pipeVars, faultVars, IndexerBounds
<1>13. CASE UNCHANGED indexerVars
  BY <1>a, <1>13 DEF indexerVars, IndexerBounds
<1>14. QED
  BY <1>1, <1>2, <1>3, <1>4, <1>6, <1>b, <1>7, <1>8, <1>9, <1>10, <1>11, <1>12, <1>13
  DEF IndexerNext

LEMMA IndexerBoundsInit == IndexerInit => IndexerBounds
<1> SUFFICES ASSUME IndexerInit PROVE IndexerBounds
  OBVIOUS
<1>1. /\ Len(changes) = 0 /\ Len(buffer) = 0 /\ Len(batches) = 0 /\ reports = 0
      /\ work.pc = "idle" /\ work.version = 0 /\ up = TRUE /\ indexed = {}
      /\ \A f \in Files : manifest[f].pieces = {} /\ flushed[f].pieces = {}
      /\ behind = {} /\ littered = {}
  BY DEF IndexerInit, NoWork, Unlisted
<1>2. /\ 0 <= 2 * index_batch_size /\ 0 < index_batch_size /\ 0 \in 0 .. event_capacity
      /\ 0 \in Versions
  BY IndexerAssumption DEF Versions
<1>3. QED
  BY <1>1, <1>2 DEF IndexerBounds

-----------------------------------------------------------------------------
(***************************************************************************)
(* The tasks together.                                                     *)
(***************************************************************************)
(* A step of the group is a step of each part, or leaves it alone.         *)
LEMMA GroupSteps ==
  ASSUME [Next]_vars
  PROVE  /\ [TracerNext]_tracerVars /\ [BCellNext]_bcellVars /\ [BusNext]_busVars
         /\ [CompanionNext]_companionVars /\ [IndexerNext]_indexerVars
         /\ [MemberNext]_memberVars /\ [BatchNext]_batchVars
         /\ [PlacementNext]_placementVars /\ [VramNext]_vramVars
<1>1. CASE UNCHANGED vars
  BY <1>1, Zenon DEF vars
<1>2. CASE Next
  BY <1>2, Zenon DEF Next
<1>3. QED
  BY <1>1, <1>2

(* The invariants of the parts, each with what it leaves of the types.     *)
GroupInv ==
  /\ TracerInv /\ BCellTypeOK
  /\ BusInv /\ BusBounds
  /\ IInv /\ CompanionBounds
  /\ IndexerInv /\ IndexerBounds
  /\ MemberInv /\ MemberBounds
  /\ BatchInv /\ PlacementInv /\ VramTypes

(* In every behaviour of the group, for all values of the constants of its *)
(* nine tasks at once, each keeps to its types and to its bounds: the      *)
(* channels to their capacities, the learned patterns to their limit, the  *)
(* antibodies to one a call, the receivers to what was sent.               *)
THEOREM TasksTyping == Spec => []TasksTypeOK
<1>1. Init => GroupInv
  <2> SUFFICES ASSUME Init PROVE GroupInv
    OBVIOUS
  <2>1. /\ TracerInit /\ BCellInit /\ BusInit /\ CompanionInit /\ IndexerInit
        /\ MemberInit /\ PlacementInit /\ VramInit /\ BatchInit
    BY DEF Init
  <2>2. TracerInv /\ BCellTypeOK /\ BusInv /\ BusBounds
    BY <2>1, TracerInvInit, BCellInitially, BusInvInit, BusInitially
  <2>3. IInv /\ CompanionBounds /\ IndexerInv /\ IndexerBounds
    BY <2>1, CompanionInvInit, CompanionInitially, IndexerInitially, IndexerBoundsInit
  <2>4. MemberInv /\ MemberBounds /\ BatchInv /\ PlacementInv /\ VramTypes
    BY <2>1, MemberInvInit, MemberInitially, BatchInvInit, PlacementInitially, VramInitially
  <2>5. QED
    BY <2>2, <2>3, <2>4 DEF GroupInv
<1>2. GroupInv /\ [Next]_vars => GroupInv'
  <2> SUFFICES ASSUME GroupInv, [Next]_vars PROVE GroupInv'
    OBVIOUS
  <2>1. /\ [TracerNext]_tracerVars /\ [BCellNext]_bcellVars /\ [BusNext]_busVars
        /\ [CompanionNext]_companionVars /\ [IndexerNext]_indexerVars
        /\ [MemberNext]_memberVars /\ [BatchNext]_batchVars
        /\ [PlacementNext]_placementVars /\ [VramNext]_vramVars
    BY GroupSteps
  <2>2. TracerInv' /\ BCellTypeOK'
    BY <2>1, TracerInvNext, BCellTyping DEF GroupInv
  <2>3. BusInv' /\ BusBounds'
    BY <2>1, BusInvNext, BusTyping DEF GroupInv
  <2>4. IInv' /\ CompanionBounds'
    BY <2>1, StepSound, CompanionTyping DEF GroupInv
  <2>5. IndexerInv' /\ IndexerBounds'
    BY <2>1, IndexerInvNext, IndexerTyping DEF GroupInv
  <2>6. MemberInv' /\ MemberBounds'
    BY <2>1, MemberInvNext, MemberTyping DEF GroupInv
  <2>7. BatchInv' /\ PlacementInv' /\ VramTypes'
    BY <2>1, BatchInvNext, PlacementInvNext, VramTyping DEF GroupInv
  <2>8. QED
    BY <2>2, <2>3, <2>4, <2>5, <2>6, <2>7 DEF GroupInv
<1>3. GroupInv => TasksTypeOK
  <2> SUFFICES ASSUME GroupInv PROVE TasksTypeOK
    OBVIOUS
  <2>1. TracerTypeOK /\ BatchTypeOK
    BY DEF GroupInv, TracerInv, BatchInv
  <2>2. BusTypeOK /\ CompanionTypeOK
    BY BusTyped, CompanionTyped DEF GroupInv
  <2>3. IndexerTypeOK /\ MembershipTypeOK
    BY IndexerTyped, MemberTyped DEF GroupInv
  <2>4. PlacementTypeOK /\ VramTypeOK
    BY PlacementTyped, VramTyped DEF GroupInv
  <2>5. QED
    BY <2>1, <2>2, <2>3, <2>4 DEF GroupInv, TasksTypeOK
<1>4. QED
  BY <1>1, <1>2, <1>3, PTL DEF Spec
=============================================================================
