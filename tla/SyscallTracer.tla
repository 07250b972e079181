--------------------------- MODULE SyscallTracer ---------------------------
(***************************************************************************)
(* The syscall tracer of the companion (kernel-companion/src/ebpf) and the *)
(* policy engine it asks (lsm.rs): the tracepoint reports a system call    *)
(* unless the kernel's decision cache holds a decision for it, the tracer  *)
(* task answers reports, fills the cache and hands the events to the       *)
(* T-Cell task over a bounded channel.  Whoever changes the policy tells   *)
(* the tracer over a second bounded channel which decisions are stale.     *)
(***************************************************************************)
EXTENDS Naturals, Sequences, FiniteSets

CONSTANTS Syscalls, Table,      \* system calls, and those with a name in the table
          TracedPids, Profiles,
          ProfileAllows,        \* what a profile allows
          PerfSlots,            \* bound: reports in the perf buffers
          InvalidationSlots, EventSlots   \* the capacities of the channels

ASSUME TracerAssumption ==
  /\ Table \subseteq Syscalls /\ IsFiniteSet(Syscalls)
  /\ Profiles # {}
  /\ ProfileAllows \in [Profiles -> SUBSET Table]
  /\ {PerfSlots, InvalidationSlots, EventSlots} \subseteq Nat

VARIABLES
  active_profile, blocked_syscalls, mutated_pids,   \* LsmPolicyEngine
  syscall_decision_cache,   \* the map shared with the kernel program
  tracer_mode,
  repopulate,               \* table entries the tracer has yet to evaluate
  holding,                  \* the decision it has made and not yet stored
  untold,                   \* policy changes whose notification is still to be sent
  invalidations, perf, events,
  invalidation_lost         \* history: an invalidation met a full channel

policyVars == <<active_profile, blocked_syscalls, mutated_pids>>
tracerVars == <<active_profile, blocked_syscalls, mutated_pids, syscall_decision_cache,
                tracer_mode, repopulate, holding, untold, invalidations, perf, events,
                invalidation_lost>>

(* An invalidation is the set of the entries it is about.                  *)
Full          == Syscalls
Invalidations == {{s} : s \in Table} \cup {Full}
Calls  == TracedPids \X Syscalls
NoCall == <<>>
Decisions == {"allow", "deny"}

TracerTypeOK ==
  /\ active_profile \in Profiles
  /\ blocked_syscalls \subseteq Syscalls
  /\ mutated_pids \in [TracedPids -> {{}} \cup {{l} : l \in SUBSET Table}]
  /\ syscall_decision_cache \in [Syscalls -> Decisions \cup {"none"}]
  /\ tracer_mode \in {"attaching", "real", "simulation", "stopped"}
  /\ repopulate \subseteq Table
  /\ holding = {} \/ \E s \in Syscalls, d \in Decisions, c \in Calls \cup {NoCall} :
                       holding = {[nr |-> s, decision |-> d, call |-> c]}
  /\ untold \subseteq Invalidations
  /\ invalidations \in Seq(Invalidations) /\ Len(invalidations) <= InvalidationSlots
  /\ perf \in Seq(Calls) /\ Len(perf) <= PerfSlots
  /\ events \in Seq(Calls \X Decisions) /\ Len(events) <= EventSlots
  /\ invalidation_lost \in BOOLEAN

TracerInit ==
  /\ active_profile \in Profiles
  /\ blocked_syscalls = {}
  /\ mutated_pids = [p \in TracedPids |-> {}]
  /\ syscall_decision_cache = [s \in Syscalls |-> "none"]
  /\ tracer_mode = "attaching"
  /\ repopulate = {} /\ holding = {} /\ untold = {}
  /\ invalidations = <<>> /\ perf = <<>> /\ events = <<>>
  /\ invalidation_lost = FALSE

-----------------------------------------------------------------------------
(* The policy engine. *)

(* What a pid may call: its own list if it has one, else the active        *)
(* profile; NoCall stands for no pid.                                      *)
AllowedFor(call) ==
  IF call # NoCall /\ mutated_pids[call[1]] # {}
  THEN UNION mutated_pids[call[1]]
  ELSE ProfileAllows[active_profile]

(* A call without a name in the table is asked for as "unknown", which no  *)
(* profile lists.                                                          *)
decision_for_syscall(call, s) ==
  IF s \notin blocked_syscalls /\ s \in AllowedFor(call) THEN "allow" ELSE "deny"

(* The command "set-lsm-profile"; its notification follows.                *)
set_active_profile(p) ==
  /\ active_profile' = p
  /\ untold' = untold \cup {Full}
  /\ UNCHANGED <<blocked_syscalls, mutated_pids, syscall_decision_cache, tracer_mode,
                 repopulate, holding, invalidations, perf, events, invalidation_lost>>

(* An antibody reaches the block list; nothing ever leaves it.             *)
add_blocked_syscall(s) ==
  /\ blocked_syscalls' = blocked_syscalls \cup {s}
  /\ untold' = untold \cup ({{s}} \cap Invalidations)
  /\ UNCHANGED <<active_profile, mutated_pids, syscall_decision_cache, tracer_mode,
                 repopulate, holding, invalidations, perf, events, invalidation_lost>>

(* An authorized pid gets a list of its own, part of the profile that is   *)
(* active at that moment.                                                  *)
register_polymorphic_pid(p) ==
  /\ \E kept \in SUBSET ProfileAllows[active_profile] :
        mutated_pids' = [mutated_pids EXCEPT ![p] = {kept}]
  /\ UNCHANGED <<active_profile, blocked_syscalls, syscall_decision_cache, tracer_mode,
                 repopulate, holding, untold, invalidations, perf, events,
                 invalidation_lost>>

(* The notification, which is dropped when the channel is full.            *)
Notify(x) ==
  /\ x \in untold
  /\ untold' = untold \ {x}
  /\ IF Len(invalidations) < InvalidationSlots
     THEN invalidations' = Append(invalidations, x) /\ UNCHANGED invalidation_lost
     ELSE invalidation_lost' = TRUE /\ UNCHANGED invalidations
  /\ UNCHANGED <<policyVars, syscall_decision_cache, tracer_mode, repopulate, holding,
                 perf, events>>

-----------------------------------------------------------------------------
(* The kernel program. *)

Cached(s) == syscall_decision_cache[s] # "none"

(* A call whose decision is cached is not reported.  Before the buffers    *)
(* are open, and when they are full, the report is lost.                   *)
sys_enter_tp(p, s) ==
  LET reported == ~Cached(s) /\ tracer_mode = "real" /\ Len(perf) < PerfSlots
  IN
  /\ tracer_mode \in {"attaching", "real"}
  /\ perf' = IF reported THEN Append(perf, <<p, s>>) ELSE perf
  /\ UNCHANGED <<policyVars, syscall_decision_cache, tracer_mode, repopulate, holding,
                 untold, invalidations, events, invalidation_lost>>

-----------------------------------------------------------------------------
(* The tracer task. *)

Idle == repopulate = {} /\ holding = {}

(* After the program is attached every name of the table is evaluated;     *)
(* without the program the task falls back to a fixed list of events.      *)
Attach ==
  /\ tracer_mode = "attaching" /\ Idle
  /\ \/ /\ \A s \in Table : ~Cached(s)
        /\ repopulate' = Table /\ UNCHANGED tracer_mode
     \/ /\ \A s \in Table : Cached(s)
        /\ tracer_mode' = "real" /\ UNCHANGED repopulate
     \/ /\ \A s \in Table : ~Cached(s)
        /\ tracer_mode' = "simulation" /\ UNCHANGED repopulate
  /\ UNCHANGED <<policyVars, syscall_decision_cache, holding, untold, invalidations,
                 perf, events, invalidation_lost>>

Hold(s, call) ==
  holding' = {[nr |-> s, call |-> call, decision |-> decision_for_syscall(call, s)]}

Evaluate(s) ==
  /\ s \in repopulate /\ holding = {}
  /\ repopulate' = repopulate \ {s}
  /\ Hold(s, NoCall)
  /\ UNCHANGED <<policyVars, syscall_decision_cache, tracer_mode, untold, invalidations,
                 perf, events, invalidation_lost>>

(* A report is decided for its pid.                                        *)
process_syscall_event ==
  /\ tracer_mode = "real" /\ Idle /\ perf # <<>>
  /\ perf' = Tail(perf)
  /\ Hold(Head(perf)[2], Head(perf))
  /\ UNCHANGED <<policyVars, syscall_decision_cache, tracer_mode, repopulate, untold,
                 invalidations, events, invalidation_lost>>

(* The decision is cached for the system call, whoever made it; an event   *)
(* is dropped when its channel is full.                                    *)
populate ==
  \E h \in holding :
    /\ holding' = {}
    /\ syscall_decision_cache' = [syscall_decision_cache EXCEPT ![h.nr] = h.decision]
    /\ events' = IF h.call # NoCall /\ Len(events) < EventSlots
                 THEN Append(events, <<h.call, h.decision>>) ELSE events
    /\ UNCHANGED <<policyVars, tracer_mode, repopulate, untold, invalidations, perf,
                   invalidation_lost>>

(* Mutant: only a full invalidation is obeyed.                             *)
Invalidate_OnlyFull ==
  /\ tracer_mode = "real" /\ Idle /\ invalidations # <<>>
  /\ invalidations' = Tail(invalidations)
  /\ repopulate' = IF Head(invalidations) = Full THEN Table ELSE {}
  /\ UNCHANGED <<policyVars, syscall_decision_cache, tracer_mode, holding, untold, perf,
                 events, invalidation_lost>>

(* The channel is read between two rounds over the buffers.                *)
Invalidate ==
  LET stale == Head(invalidations) IN
  /\ tracer_mode = "real" /\ Idle /\ invalidations # <<>>
  /\ invalidations' = Tail(invalidations)
  /\ syscall_decision_cache' =
        [s \in Syscalls |-> IF s \in stale THEN "none" ELSE syscall_decision_cache[s]]
  /\ repopulate' = stale \cap Table
  /\ UNCHANGED <<policyVars, tracer_mode, holding, untold, perf, events,
                 invalidation_lost>>

(* The simulated events, sent with back-pressure, and the end of the list. *)
run_simulation_loop(p, s) ==
  /\ tracer_mode = "simulation"
  /\ \/ /\ Len(events) < EventSlots
        /\ events' = Append(events, <<<<p, s>>, decision_for_syscall(<<p, s>>, s)>>)
        /\ UNCHANGED tracer_mode
     \/ tracer_mode' = "stopped" /\ UNCHANGED events
  /\ UNCHANGED <<policyVars, syscall_decision_cache, repopulate, holding, untold,
                 invalidations, perf, invalidation_lost>>

Cancel_tracer ==
  /\ tracer_mode = "real" /\ Idle
  /\ tracer_mode' = "stopped"
  /\ UNCHANGED <<policyVars, syscall_decision_cache, repopulate, holding, untold,
                 invalidations, perf, events, invalidation_lost>>

(* The T-Cell task takes an event.                                         *)
TakeEvent ==
  /\ events # <<>>
  /\ events' = Tail(events)
  /\ UNCHANGED <<policyVars, syscall_decision_cache, tracer_mode, repopulate, holding,
                 untold, invalidations, perf, invalidation_lost>>

TracerNext ==
  \/ \E p \in Profiles : set_active_profile(p)
  \/ \E s \in Syscalls : add_blocked_syscall(s) \/ Evaluate(s)
  \/ \E p \in TracedPids : register_polymorphic_pid(p)
  \/ \E x \in Invalidations : Notify(x)
  \/ \E p \in TracedPids, s \in Syscalls : sys_enter_tp(p, s) \/ run_simulation_loop(p, s)
  \/ Attach \/ process_syscall_event \/ populate \/ Invalidate \/ Cancel_tracer
  \/ TakeEvent
-----------------------------------------------------------------------------
(* Once every change has been told and taken in, the kernel holds no       *)
(* decision the policy no longer makes: no blocked call is cached as       *)
(* allowed, and without lists of their own for some pids every entry is    *)
(* what the policy says.  A full channel drops the notification, with a    *)
(* warning.                                                                *)
CacheCaughtUp ==
  tracer_mode = "real" /\ Idle /\ untold = {} /\ invalidations = <<>>
                       /\ ~invalidation_lost
  => \A s \in Syscalls :
       /\ s \in blocked_syscalls => syscall_decision_cache[s] # "allow"
       /\ (\A p \in TracedPids : mutated_pids[p] = {})
            => syscall_decision_cache[s] \in {"none", decision_for_syscall(NoCall, s)}

(* What the T-Cell task writes to the audit log is "every DENY decision"   *)
(* (lib.rs:664): the kernel program would report a denied call.            *)
DenialsAreReported ==
  tracer_mode = "real" => \A call \in Calls :
    decision_for_syscall(call, call[2]) = "deny" => ~Cached(call[2])

TracerSpec == TracerInit /\ [][TracerNext]_tracerVars
=============================================================================
