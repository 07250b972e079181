# AI-Native-Kernel: specifications, model checking and proofs

This directory holds TLA+ specifications of the AI-Native-Kernel workspace
(`src/`), the TLC configurations that check them on small instances, and TLAPS
proofs of their central invariants for every instance. Every definition is
translated from the Rust and C sources; `PROJECT.json` maps each definition to
the lines it stands for, lists the hazards the properties are aimed at and the
places where a document or comment and the code disagree.

1. [The system](#1-the-system)
2. [Modules and how they correspond to the code](#2-modules-and-how-they-correspond-to-the-code)
3. [What the runs check](#3-what-the-runs-check)
4. [What is proved](#4-what-is-proved)
5. [Where code and documents disagree](#5-where-code-and-documents-disagree)
6. [What is not modelled](#6-what-is-not-modelled)
7. [Plan](#7-plan)

To check a run: `tlc -workers 2 -config MCEnforcement.cfg MCEnforcement.tla`;
to check the proofs of a module: `tlapm ChainedLog_proofs.tla`.

## 1. The system

The workspace is a user-space "kernel companion" daemon for AI agents and a
gateway in front of model providers. The daemon hands out capability tokens,
enforces them through eBPF LSM hooks, schedules agents and compute, watches
behaviour and keeps shared context. `kernel-companion` is the composition root:
it builds every other part, wires callbacks and starts the tasks.

Components: state, operations, interactions, what is hard, what makes it correct.

| Component | State | Operations | Interacts with | Hard behaviour | Correct when |
|---|---|---|---|---|---|
| Audit log (`capability-security/chained_log.rs`, `audit.rs`) | JSON-lines file; per logger: writer handle behind an async mutex, cached last hash | `record`, `entries`, `validate` | every decision of the token registry awaits it; the T-Cell task has a logger of its own | blocking writes that outlive a timeout or a dropped future; torn lines; restarts; two loggers on one file | the chain validates, acknowledged entries stay readable |
| Token registry (`capability-security/lib.rs`) | `tokens`, `revoked`, issue-rate queues, each behind a lock | issue, revoke, validate, authorize, garbage collection | audit log (awaited between critical sections), revocation callback | audit before registration; revocation before callback; collection concurrent with both | a revoked token is never usable again |
| Kernel enforcement (`kernel-companion/lib.rs`, `lsm.rs`, `cgroup.rs`, `scope.rs`, `ebpf/lsm-security.bpf.c`) | BPF maps `blocked_pids`, `allowed_pids`, `pid_scope_flags`, `agent_cgroups` and their caches behind one mutex | authorize (plain and scoped), deny, withdraw, expiry task, immune cut | token registry, cgroups, the kernel's hooks | decisions used after an await; pid reuse; maps that are full; partial failure and rollback | the hooks follow the registry, a scope binds before the agent runs free, the host is never frozen |
| Companion boot and tasks (`kernel-companion/lib.rs`, `main.rs`) | task handles, shutdown channel | boot, run, shutdown | everything | order of wiring and shutdown | every task ends, hooks detach |
| Companion helpers (`deny_audit.rs`, `retry_telemetry.rs`, `intent_bridge.rs`, `cognitive.rs`, `skill.rs`, `uds.rs`, `nlp.rs`) | limiter windows, retry queues, cognitive state | per module | intent bus, audit log, sockets | window roll-over, retries | every suppressed denial is counted |
| Agent scheduler (`agent-scheduler`) | agent table, run queue, id counter, supervisor snapshot | spawn, pause, resume, terminate, fail, (de)queue, priority, placement answers, loop, supervisor, delegation | intent bus, compute scheduler (placement), token registry (grants), mesh (remote nodes) | table and queue locks released between the loop's steps; restarts decided on a snapshot; ids that other nodes choose | no running agent lost, restarts bounded, failed agents restarted, top agent runs |
| Immune system (`immune-system`) | T-Cell windows, quarantine and exempt sets; B-Cell shadow and enforce antibodies; cytokine channel | observe a syscall, quarantine, release, generate and promote antibodies, sweep intents | enforcement (immune cut), intent bus | check-then-act across locks; shadow promotion; release racing a new quarantine | a quarantine lasts as long as decided, an antibody is promoted on evidence |
| Intent bus and query cache (`intent-bus`) | broadcast channel, filters; cache with TTL and dependencies | publish, subscribe, put, get, invalidate | all daemon components | lagging subscribers lose intents; put after invalidation | no stale answer after an invalidation |
| Context memory tiers (`context-memory`: hot, warm, cold, vram) | three tiers and a VRAM region | get, put, promote, evict | scheduler, mesh | late warm writes, eviction order, oversized values | a value is found in the tier the index names |
| Context memory mesh (`swim.rs`, `mesh_auth.rs`, `p2p_mesh.rs`, `mesh_tls.rs`) | membership, nonces, replicas | ping rounds, acks, sealed messages, replication | other nodes | lost and late acks, replay, snapshots used after unlock | a live peer is not dead for ever, no message is accepted twice |
| Indexer, semantic store, FS watcher | vector index, file watches | index, search | query cache | update order | an index entry has its file |
| GPU pool, OOM guard, budgets (`compute-scheduler`) | blocks and their tier, per-agent usage | allocate, free, migrate, swap, evict | agents, hardware | partial failure of a migration, double free, capacity | bytes accounted = bytes held |
| Placement, engine, batching, back ends | scores, queues, foreign runtimes | place, infer | agent scheduler (placement answers) | cancelled batch members | each request answered once |
| AI gateway (`ai-gateway`) | tenant overrides, permits, audit chains per tenant | inspect request, suspend, revoke key, stream guard | semantic guard, extraction detector, watchtower | override read before awaits, permits on early return | a suspended tenant is refused, permits return |
| Semantic guard, extraction detector | rules; sliding windows | inspect, observe | gateway | window boundaries | thresholds fire once per window |
| Watchtower (`watchtower`) | rule windows and cooldowns, bounded dispatch queue, action permits | observe, dispatch, deliver with retries | gateway (executor), webhooks | full queue after a cooldown started, permits spent on refused actions | an alert is delivered, dropped or counted; actions are rate-bounded |

## 2. Modules and how they correspond to the code

| Module | Models | Checked in |
|---|---|---|
| `AuditTrail` | abstract promise of an audit log: append-only, each record once, Ok only for what is there | `chained_log` |
| `ChainedLog` | `ChainedLog<E>::record` and the file under it; `Trail == INSTANCE AuditTrail` | `chained_log*` |
| `AuditVerify` | `verify-audit`: validation, fingerprints, checkpoint file | `gateway` |
| `CapabilitySecurity` | the token registry | `enforcement*` |
| `Enforcement` | authorization, revocation, expiry task, immune cut, the LSM maps and the hook's decision; extends `CapabilitySecurity` | `enforcement*` |
| `PathScope` | compilation of an intent's paths and their matching in the `file_open` hook | `stores` |
| `SyscallTracer` | system-call policy, kernel decision cache, tracer task | `tasks` |
| `Companion` | boot, tasks and shutdown of the daemon | `tasks` |
| `AnkRun` | the launcher `ank-run` | `stores` |
| `UdsServer` | connections, sessions and commands of the administration socket | `stores` |
| `DenyAudit` | the limiter of denial entries | `stores` |
| `TCell`, `BCell` | the immune agents and the tasks that run them | `stores`, `tasks` |
| `IntentBus` | broadcast with lag, and the chain of tasks from a request to a placement | `tasks` |
| `QueryCache` | the cache of parsed queries and the classification over it | `stores` |
| `IntentBridge` | delegated intents between nodes, telemetry with retries | `stores` |
| `AgentScheduler` | agent table, run queue, loop, supervisor, placement answers | `agent_scheduler*` |
| `Delegation` | spawning across nodes | `stores` |
| `Placement` | choice of a compute target, adaptive weights | `tasks` |
| `BatchManager` | batching of prompts over five engines | `tasks` |
| `GpuPool`, `VramManager` | GPU blocks, budgets and the killer; VRAM reservations | `stores`, `tasks` |
| `ContextTiers` | the four tiers of the context memory and the macrophage's sweep | `stores`, `context_tiers_stale_copy` |
| `SemanticFs`, `Indexer` | files and their points in the vector store, on command and by watching | `stores`, `tasks` |
| `Membership`, `MeshRecords`, `MeshAuth` | the mesh: who is in it, what it replicates, which lines it accepts | `tasks`, `stores` |
| `Gateway` | the data plane of the AI gateway; extends `Watchtower` | `gateway` |
| `Watchtower` | alert rules, dispatcher, circuit breaker, automatic actions | `gateway` |
| `Extraction` | sliding windows and score of the model-extraction detector | `gateway` |
| `SemanticGuard` | normalisation, findings and redaction of one text | `gateway` |
| `ChainedLog_proofs` | theorems about `ChainedLog`, and its refinement of `AuditTrail` | |
| `Enforcement_proofs` | theorems about `Enforcement`, `CapabilitySecurity` and `PathScope` | |
| `AgentScheduler_proofs` | theorems about `AgentScheduler`, and about what decides over agents: `AnkRun`, `UdsServer`, `DenyAudit`, `TCell` | |
| `Tasks_proofs` | theorems about the tasks: `Companion`, `SyscallTracer`, `BatchManager`, `IntentBus`, `Indexer`, `Membership`, `Placement`, and about the nine together (`MCTasks`) | |
| `Nodes_proofs` | theorems about what crosses nodes: `IntentBridge`, `Delegation`, `MeshAuth`, `MeshRecords` | |
| `Memory_proofs` | theorems about `SemanticFs`, `ContextTiers` and `QueryCache`; takes the lemmas about sums from `Counting_proofs` | |
| `Counting_proofs` | theorems about sums: `VramManager`, `Extraction`, `GpuPool` | |
| `Gateway_proofs` | theorems about `Gateway`, `Watchtower` and `AuditVerify` | |
| `MC*` | constants for TLC | |

An action carries the name of the function it translates where one function is
one critical section (`pause_agent`, `garbage_collect` as `GarbageCollect`,
`deny_pid` as an operator used by the actions that call it). A function that
awaits, or lets go of a lock, is cut into one action per section, and the state
it carries across the cut is a variable (`call`, `auth`, `sweep`, `loop`,
`monitor`, `worker`, `router`, `verifier`). Definitions whose name has a suffix
after an underscore (`Forget_KeepsHash`) are deliberately wrong variants: replacing
the definition by the variant must break the property it is kept for, and does.
Each module has its type invariant, its initial predicate, its next-state
relation and its specification under a name of its own (`TiersTypeOK`, `TiersInit`,
`TiersNext`, `TiersSpec`), so that modules can be extended together.

### ChainedLog

`Logs` is the set of loggers open on one file. `record` holds the logger's async
mutex throughout, so `call[l]` is the one call in progress; its `pc` names the
await it is at: reading the tail hash, probing the last byte, opening, waiting
for an earlier write of the handle, waiting for its own. A line is handed to a
blocking thread (`jobs`): a call that times out leaves an orphan job, a call
whose future is dropped leaves an abandoned one on the open handle. `Outcomes` is
what a write may leave in the file: nothing, the repairing newline, a fragment,
the entry without its newline, everything. The file is the sequence of entries
that parse plus the state of its end (`clean`, `torn` by a fragment, `phantom`
when the last entry parses but has no newline), because every reader skips lines
that do not parse. A hash is named by the number of the call that computed it.

`disturbed` is a history variable. It is raised by exactly three things: a write
that lands after its call has gone, a tail that reads as empty although it is
not, and a torn end that the probe misses. All other faults (write errors,
failing opens, deferred errors, crashes at any moment) leave it down.

### CapabilitySecurity and Enforcement

`token[t]` follows one token from `issue_token` (audit first, registration after)
to garbage collection. `revoke_token` is two sections: `Revoke` marks the id,
`RevokeNotify` looks the scope up and calls the callback; its audit entry changes
nothing even when it fails. Expiry is a flag that may rise at any moment.
`cut` remembers registered tokens that have been marked. An expired token stays
expired: the wall clock (`SystemTime`) is assumed not to be set back.

`Enforcement` adds the processes (`proc`: incarnation of the pid, alive, host or
agent cgroup), the maps, and the tasks. `lsm_gate` is the decision of the C hook:
quarantine, world, allow-list with start time, class. `authorize_process_token`
takes `&mut self`, so one authorization runs at a time; between `Authorize` (what
`validate` decides on) and `AuthorizeGranted`/`AuthorizeRefused` lies the await of
the audit entry. `grant` remembers what each allow-list entry was granted for and
by which token, if that token was still valid when the entry was written.

Choices: the attachment and the agent cgroup exist (real mode); the secret and
the policy allow-list are one boolean (`proper`); only tokens being issued or
registered are revoked (any other mark is dropped by the next collection without
effect); tokens are not issued twice under one id; the expiry task's collection
of pids and `garbage_collect` are adjacent statements and one action; `ImmuneCut`
reads the pid's tokens in the step that denies the pid; the daemon's own pid,
which the sweep skips, is not among `Pids`.

### AgentScheduler

The table is behind one write lock. A lifecycle operation that holds it throughout
and takes the queue's lock at most once is one action (`WithTable`).
`set_agent_priority` holds the table over two locks of the queue: it takes the agent
out under the first and, if it was there, puts it in with its new priority under the
second (`QueueAgain`). In between `repricing` holds the entry: whatever needs the table
waits, while the loop pops and requeues and `dequeue_agent` goes on. A caller may give
up at either await: before the first lock only the block has changed; between the two
(`CallerGivesUp`) the agent keeps running and is in no queue, for good unless somebody
queues it. No document promises otherwise and nothing in the workspace calls the
function yet; the history `steady` ends there, so `NoAgentLost` does not speak of that
agent any more. The scheduling loop has a program counter: popped (entry in hand),
executing, requeue. The run queue is a bag of (id, priority) entries served in
the heap's order. The supervisor takes a snapshot, gives every agent a task
(`monitor`), and takes the next when all have ended. `steady` remembers the agents
that have been running and undisturbed since they were queued.

`Delegated` are the ids that other nodes choose: they can be used again after a
termination, the ids of the local counter cannot. Placement requests may be lost
(`Unplaced` with `requested = FALSE`); duplicates for one id are merged. Callers of
`spawn_agent` leave the choice of the id to the scheduler. The daemon itself does
not start the scheduling loop: the loop and the queue operations are modelled as
the library offers them.

### The tasks: SyscallTracer, BCell, IntentBus, Companion, Indexer, Membership, BatchManager, Placement, VramManager

`SyscallTracer` has the policy (`active_profile`, blocked and polymorphic calls),
the map of cached decisions that the kernel program reads, and the two bounded
channels between them. An evaluation and its insertion are two steps (`holding`),
since the policy may change in between; a change and its notification are two
steps too (`untold`). The T-Cell task and the immune task appear as actions that
block calls.

`BCell` composes the learning of threats with the immune task, whose sleep starts
again with every intent. Histories of threats are sequences over `ImmuneCalls`; a
pattern is promoted by the number of its occurrences. Of a call there is one antibody
at most, so the two lists of antibodies are sets.

`IntentBus` keeps everything the channel has ever accepted (`sent`) and a position
per receiver; a receiver that is more than `bus_capacity` behind skips ahead. The
tasks on it are the routing task (which also plans) and the compute task, which
answers a request for a placement with a target or, when `place` finds none the
workload may use, with a failure; a failure makes the agent Failed, and the supervisor
takes over (`AgentScheduler`).

`Companion` has the stages of `boot` with a failure at each, the tasks by what
ends them (the watch channel, the cancellation token polled or awaited, abort) and
the order in which `shutdown` waits. Under `traffic` a polled task is busy. `alive`
are the tasks the daemon itself spawns; `detached` are those that these spawn and
forget: the handlers of connections (`uds.rs:135`, `metrics_server.rs:27`,
`intent_bridge.rs:131`, `p2p_mesh.rs:311` and 343), the bootstrap of the mesh
(`kernel-companion/src/lib.rs:1063`) and the file commands (line 1240). Nobody has their
handle, no signal reaches them, and they go on without the hooks until they are done or
the process ends.

`Indexer` models the pipeline of bounded channels from a change that is told to the
vector store, and a crash between any two steps, after which the manifest on the disk is
read again. What is told comes from `notify_change` or from the watcher; the watcher is
a local of `run_file_watcher` and goes when that returns, so a change may be told or
not (`Told`), and a file moved away is told as modified. Reading a file, the removal and
the insertion of points (each may fail before or after the store has carried it out) and
the flush of the manifest may fail. Two histories say for which files that
matters: `behind`, a change was not told or not carried out, and the file has not been
indexed as it is since; `littered`, the store may hold points of the file that the
manifest does not list. `initial_scan` is a call of its own that `start` does not make,
and the daemon does not start the indexer: it is modelled as the library offers it.

`Membership` is one node's view: connections with their handshake and read task,
the listener that ends when no connection has come for ten seconds, and the failure
detector, whose ping is a stub in this tree (`p2p_mesh.rs:199`) and never answers.

`BatchManager` follows a prompt from `submit` to its answer. What an engine may give
for a batch is a choice per engine, read from `vllm.rs`, `mps.rs`, `cloud.rs` and
`engine.rs`; the panic of the mock on a prompt cut inside a character ends the task.

`Placement` computes the scores of the code in tenths with weights in thousandths,
and has the observer's events and polls move the weights. Its real subject is the
arithmetic of the choice; it is in the run for its type invariant and its actions,
and states no other property. `VramManager` is the library's reservation call,
which nothing but tests calls in this tree.

### The stores: TCell, DenyAudit, IntentBridge, QueryCache, AnkRun, UdsServer, ContextTiers, SemanticFs, MeshRecords, MeshAuth, GpuPool, Delegation, PathScope

`ContextTiers` writes every operation as the list of its locked steps, which a
worker takes one at a time: `put` locks the hot tier, then perhaps the warm and the
cold; `page_to_vram` looks, reads, drops three times and loads. The sweep is another
actor with its own list. `stored` and `version` are ghosts.

`SemanticFs` gives every command a task; a call to the disk or to the vector store
may time out and still be carried out, at any later moment (`late`). The property is
about writes that no other command on the path and no late call overlapped
(`alone`); that the code does not order concurrent commands is its behaviour.

`MeshRecords` has clocks that are ahead by `skew`, links in order that may break,
trust scores that may be set, and answers to fetches that bypass the merge.
`Converged` is stated while writes come one by one and nothing was lost or fetched
(`orderly`: each write's version is above all there are, so that ties of version are
in the model, and end an orderly history), which is what the merge rule can promise.
`MeshAuth` cuts `open` between the reading of the clock and the
lock.

`Delegation` has three nodes, one of which has no room and hears of the others. The
intents it passes on are seen by its own router too. `IntentBridge` carries them:
its acknowledgement may be lost, and the sender does not try again.

`GpuPool` strings the killer's steps (`try`, `swap`, `retry`, `listing`, `kill`,
`check`, `place`) over the pool's locked operations. `QueryCache` takes the lock for
each look-up anew. `UdsServer` validates a token, whose audit entry is awaited,
before it makes a session; sessions have an idle time and are swept.
`TCell` draws the jitter of its thresholds anew in each window. `AnkRun` is the
launcher's program from the child that stops itself to the end.

`PathScope` compiles lines into slots of NUL-padded bytes, writes the flags before
the slots, and matches a resolved path chunk by chunk, as the hook does. The kernel
resolves a path to names with one slash before each; `MCStores` states
what a path at or under another is in terms of the names as well (`Components`), and TLC
compares the two for the paths of the run (`AtOrUnderByName`).

### The edge: Gateway, Watchtower, Extraction, SemanticGuard, AuditVerify

`Gateway` follows each request's handler, cut at its awaits, and then its stream,
which holds the permit after the handler has returned. Events of the handlers feed
`Watchtower`'s rules; the dispatcher's automatic actions write the `overrides` the
handlers read. `logged` are the entries a request has left in the audit chains.

`Extraction` reads the clock before the tenant's lock is taken, so that additions
reach the windows out of order; `accepted` is the history of what the windows took.
`SemanticGuard` is one inspection, step by step: characters of several classes and
widths, the map of positions to the original bytes, the leftmost-longest matches of
each kind, Luhn and the check digit of the national id, and the replacement.
`AuditVerify` takes a hash to be the sequence of the bodies before it, which is what
makes it identify an entry; writers append and cut files while a run is under way,
files are tampered with between and during runs (at most `MaxDamage` times), reads
may fail, and the checkpoint is truncated before it is written. `validated` is a
history: how many entries of each file the run had before it when it validated
them. `ReportIsRight` speaks of files of which the run has validated all that the
baseline covers. What a file gets between the two reads of a run is compared with
the baseline and never validated: a file that is rewritten to fewer entries, and to
which its writer then appends one with the hash it still has in memory, matches the
baseline although what comes before is not what it was. (Two entries and two
tamperings show it.)

## 3. What the runs check

| Run | Instance | Properties | States |
|---|---|---|---|
| `chained_log` | 1 log, 4 calls, all faults | `ChainValidUntilDisturbed`, `AckedStayUntilDisturbed`, refinement `ImplementsTrail` | 27 thousand |
| `enforcement` | 2 process-scoped tokens, 1 pid, 1 class | `TypeOK`, `RevokedStaysDead`, `GateFollowsRegistry`, `ScopeIsBound`, liveness `StaleGrantIsCut` | 508 thousand |
| `agent_scheduler` | 2 agents, one with an id that is used again, 2 priorities, no restart | `NoAgentLost`, liveness `TopAgentRuns` | 137 thousand |
| `agent_scheduler_restarts` | the same agents, 1 priority, 1 restart | `RestartsBounded`, action property `OnlyFailedRestarts`, liveness `FailedIsRestarted` | 375 thousand |
| `tasks` | the nine long-running tasks | `TasksTypeOK`, `CacheCaughtUp`, `KeptTasksUnderHooks`, `AnswersMatch`, `OverbookedByRacesOnly`, liveness `AskedIsSettled`, `ShutdownEnds`, `FilesAreIndexed`, `StoppedIsNoticed`, `SubmittedIsAnswered` | 215 thousand |
| `stores` | the thirteen stores and protocols | `StoresTypeOK`, `DelegatedAtMostOnce`, `AnswersAreParses`, `KeyNeverLost`, `AckedIsFound`, `Converged`, `OncePerWindow`, `SpawnedOnce`, `PathsAsDeclared` | 1.7 million |
| `gateway` | the five parts of the edge | `EdgeTypeOK`, `ForwardedIsAudited`, `PermitsBalance`, `BreakerHolds`, `WindowSums`, `RedactsExactly`, `ReportIsRight`, action property `KeyStaysRevoked` | 1.8 million |
| `chained_log_two_logs` | 2 logs, 4 calls, no faults | `ChainValid` is violated | |
| `enforcement_recycled_pid` | one pid used twice | `HostBornFree` is violated | |
| `enforcement_late_grant` | as `enforcement` | `NoTokenNoAccess` is violated | |
| `agent_scheduler_time_slice` | 2 agents, 1 priority | `EqualsShareTheLoop` is violated | |
| `context_tiers_stale_copy` | 1 worker, 2 contexts, 2 versions | `LatestSurvives` is violated | |

**Runs of several components.** `MCTasks`, `MCStores` and `MCGateway` each extend a
group of modules that share no variable (in the gateway's group, `Gateway` and
`Watchtower` do interact, and are one part). The variable `part` names the part whose
behaviour it is; the others stay in one initial state. The state space is the sum
of those of the parts, not their product, and an invariant of one part is checked
on every behaviour of it. Interactions between components are inside a module: the
bus in `IntentBus`, the tasks of the immune system in `BCell` and `TCell`, the
watchtower in `Gateway`.

**Bounds.** `MaxEntries = 4`: breaking the chain takes an entry in the file, a
failed or interrupted one, and one or two after it; four calls leave room for a
second recovery. The calls are finite, so the system may stop: these two
configurations do not check deadlock. `Enforcement`: one pid, because pids meet
only in the sweep's work list and in the capacity of the maps (with one pid the
maps are never full, which is an assumption of the passing run); two tokens,
because the interesting cases are one token being revoked or expiring while
another is issued or valid; `MaxIncarnation = 1` in the passing run, 2 where pid
reuse is the point. `TokenClasses` grants no class, so a scope is either bound
(refusing the one class) or absent (passing it), which is all `ScopeIsBound`
distinguishes. `MaxCopies = 1` bounds how often an agent is queued when it is
queued again; the loop's own entry comes on top, so an agent can be queued twice.
The scheduler has two runs because the two halves of a priority change and the
supervisor's back-offs multiply: two priorities without restarts, and one priority
with them (a priority change still takes its two locks). `max_restarts = 1` lets an agent use its only restart, be seen running and be
restarted again. Nearly all safety properties of the runs are proved without any
of these bounds (section 4 lists them, and the hypotheses three of them need).

The bounds of the groups are in their `.cfg`. The ones that matter: `tasks` has two
requests, of which one asks for an agent, over a bus of two places, so that both
receivers lag; one system call that is in the table and one that is not; channels
of one place; a batch of two and three prompts, one of which makes the mock panic;
two files with two versions and three changes in all (`MaxChanges`), so that one file is
indexed, fails and is made up for while another stays as it is; a companion with the
bridge, one with cgroup and mesh, one with file commands; two connections of one peer; three agents that reserve
out of five bytes. `stores` has two workers over tiers of one place each, a context
that fits the VRAM and one that is larger than it; two delegations, two file
commands on one path; three nodes, of which one has a fast clock, with two writes
and one fetch, broken link or changed score; two readers and a window of two ticks with a clock that runs to
four, past the end of the window of the earliest line; three blocks and a pool of
three bytes with two callers of the killer; paths over two names, with slots of six
bytes compared two at a time. `gateway` has two requests that nothing tells apart (symmetry), two tenants, one permit
each, four rules of the code with small thresholds; windows of two buckets and a
clock of four; all texts of up to six digits and spaces and up to four of any
symbol; one file of up to two entries and two tamperings, which is enough for a file
to be cut or rewritten and then changed again within one run of `verify-audit`.

**Fairness.** `ChainedLog` has none: it is checked for safety and refinement
only. `Enforcement`: the expiry task is a loop over a 500 ms timer whose steps
take short locks, so each of its steps is weakly fair; nothing else is, neither
callers nor expiry nor the audit log. `AgentScheduler`: the scheduling loop
(100 µs timer) is weakly fair in what needs the queue alone (`LoopTask`), and so is
the second half of a priority change, which its caller finishes or gives up. What
needs the table can be kept waiting by a priority change, by one after the other even,
while it waits in line: the looks of the loop (`SliceTask`), the supervisor's snapshot
(interval timer) and its restart tasks (a sleep, then the lock) are strongly fair. This
stands for tokio's `RwLock`, which is handed on in the order of asking. Spawns,
lifecycle calls, priority changes and placement answers are not fair.
`tasks`: each daemon task is weakly fair in the steps it takes by itself (receiving,
publishing, accumulating, indexing, waiting in `shutdown`, filling and generating a
batch), and time passes where a task sleeps; callers, file changes, new
connections, crashes and the loss of messages are not. The failure detector picks its target at random
(`fastrand::choice`): it is strongly fair for each peer, which stands for a random
choice that does not avoid a peer for ever. In `Companion` a task that polls its
token every 50 ms sees it only when it is not busy; that it is not busy for ever is not
assumed, and `ShutdownEnds` says so.

**What the properties say.** `ChainValidUntilDisturbed`: only the three named
disturbances break the chain. `AckedStayUntilDisturbed`: an entry for which
`record` returned Ok stays readable. `ImplementsTrail`: under the refinement
mapping (the hashes of the file's entries) each step of the log appends one new
record or stutters. `RevokedStaysDead`: garbage collection forgets a revocation
only with its token. `GateFollowsRegistry`: once `revoke_token` has called back, no
process of the agent cgroup passes the hooks on that token's grant. It does not
cover a grant written after the token was revoked or expired; `NoTokenNoAccess`
does, and fails. `ScopeIsBound`: after a scoped authorization has returned the
process never passes unrestricted, whatever denials and rollbacks interleave.
`StaleGrantIsCut`: the sweep cuts a pid that has registered tokens but no valid
one. `NoAgentLost`: a running agent that was queued is in the queue, in the
loop's hands or in those of a priority change that still has to put it back; a change whose
caller gives up between its two locks loses the agent, and is the one exception.
`OnlyFailedRestarts`: a restart decided on an old snapshot still only hits a failed agent; this rests on ids being used once, hence its
restriction to the node's own ids. `FailedIsRestarted`, `TopAgentRuns`: the
supervisor and the loop do their work.

`CacheCaughtUp`: once every notification has been handled and none was lost, the
kernel's cache agrees with the policy. `AskedIsSettled`: the agent of a plannable request whose
intents neither a filter rejects nor a lagging receiver skips is placed, or Failed because
there is no target for it.
`KeptTasksUnderHooks`: no task whose handle the daemon keeps outlives the hooks, so that
what does is the sweep of expired tokens and the detached tasks.
`ShutdownEnds`, `StoppedIsNoticed`: what the names say, under the
conditions their comments state. `FilesAreIndexed`: when the edits are over, the store
holds the current points of every file, and no older ones, but for the files whose
last changes were not told or failed; a failure is made up for by the next change of its
file and costs no other file anything. `AnswersMatch`: an answer is of the caller's own
prompt. `SubmittedIsAnswered`: every caller of `submit` returns.
`OverbookedByRacesOnly`: concurrent reservations exceed the breaker's threshold by
what is in flight at once and never by more, however often they overtake one another.

`DelegatedAtMostOnce`: a delegated intent is put on one bus, of the node it names.
`AnswersAreParses`: an answer out of the cache is a parse of a text of the same
words or a similar one, made within the time to live. `KeyNeverLost`: an entry is in
some tier or in the hands of an operation that will put it back. `AckedIsFound`: a
write that was reported and undisturbed is on the disk and found by a search.
`Converged`, `OncePerWindow`, `SpawnedOnce`: see the notes above. `PathsAsDeclared`:
a file the hook lets through is at or under a declared path, and one that is at or under
a declared path of a bound scope is let through.

`ForwardedIsAudited`: what was sent upstream has its audit entry.
`PermitsBalance`: free permits and requests that hold one add up, on every way out.
`BreakerHolds`, `KeyStaysRevoked`: automatic punishments are bounded per window, and a
later one does not undo an earlier of another kind. `WindowSums`: a window's sum is
that of the accepted additions it covers. `RedactsExactly`: exactly the bytes of the
findings are replaced. `ReportIsRight`: a run that could read its files says valid
of untouched ones, and saves a baseline only if the files still hold what the last
one covers, as far as the run has validated them.

## 4. What is proved

All proofs are checked by TLAPS (Z3, Zenon, LS4) to the last leaf.

| Theorem | Statement | Assumptions |
|---|---|---|
| `ChainedLog_proofs!Typing` | `Spec => []TypeOK` | those on the constants |
| `ChainedLog_proofs!Inductive` | `Spec => []IInv` | `SoleLog` |
| `ChainedLog_proofs!ChainIsSound` | `Spec => []ChainValidUntilDisturbed` | `SoleLog` |
| `ChainedLog_proofs!AckedEntriesStay` | `Spec => []AckedStayUntilDisturbed` | `SoleLog` |
| `ChainedLog_proofs!LogImplementsTrail` | `Spec => ImplementsTrail` | `SoleLog` |
| `AgentScheduler_proofs!Typing` | `Spec => []TypeOK` | those on the constants |
| `AgentScheduler_proofs!NothingLost` | `Spec => []NoAgentLost` | those on the constants |
| `AgentScheduler_proofs!RestartsAreBounded` | `Spec => []RestartsBounded` | those on the constants |
| `AgentScheduler_proofs!OnlyTheFailedRestart` | `Spec => OnlyFailedRestarts` | those on the constants |
| `AgentScheduler_proofs!CommandUnderScope` | `AnkSpec => []TargetUnderScope` | those on the constants |
| `AgentScheduler_proofs!UdsTyping` | `UdsSpec => []UdsTypeOK` | those on the constants |
| `AgentScheduler_proofs!OnlyAdminsSet` | `UdsSpec => AdminWithinTtl` | those on the constants |
| `AgentScheduler_proofs!NoDenialVanishes` | `DenySpec => [](DenyTypeOK /\ DenialsAccounted)` | those on the constants |
| `AgentScheduler_proofs!KilledForBadWindows` | `TCellSpec => KilledForWindows` | those on the constants |
| `Enforcement_proofs!Typing` | `Spec => []TypeOK` | those on the constants |
| `Enforcement_proofs!RevocationIsFinal` | `Spec => []RevokedStaysDead` | those on the constants |
| `Enforcement_proofs!ScopeHolds` | `Spec => []ScopeIsBound` | those on the constants |
| `Enforcement_proofs!HooksFollowRegistry` | `Spec => []GateFollowsRegistry` | `Roomy`, `ProcessScope` |
| `Enforcement_proofs!FilesOpenAsDeclared` | `ScopeSpec => []PathsAsDeclared` | those on the constants |
| `Tasks_proofs!HooksOutliveKeptTasks` | `CompanionSpec => []KeptTasksUnderHooks` | those on the constants |
| `Tasks_proofs!CacheCatchesUp` | `TracerSpec => []CacheCaughtUp` | those on the constants |
| `Tasks_proofs!OutputsInPlace` | `BatchSpec => []AnswersMatch` | those on the constants |
| `Tasks_proofs!SettledAsAsked` | `BusSpec => []SettledInOrder` | those on the constants |
| `Tasks_proofs!EntriesGoForward` | `IndexerSpec => IndexedForward` | those on the constants |
| `Tasks_proofs!ManifestExact` | `IndexerSpec => ExactWhileUp` | those on the constants |
| `Tasks_proofs!SendersOpen` | `MemberSpec => []SendersAreOpen` | those on the constants |
| `Tasks_proofs!PlacementTyping` | `PlacementSpec => []PlacementTypeOK` | those on the constants |
| `Tasks_proofs!TasksTyping` | `Spec => []TasksTypeOK` (the `Spec` of `MCTasks`) | those on the constants |
| `Nodes_proofs!AtMostOnce` | `BridgeSpec => []DelegatedAtMostOnce` | those on the constants |
| `Nodes_proofs!IntentsSpawnOnce` | `DelegationSpec => []SpawnedOnce` | those on the constants |
| `Nodes_proofs!NoReplay` | `AuthSpec => []OncePerWindow` | those on the constants |
| `Nodes_proofs!RecordsConverge` | `MeshSpec => []Converged` | those on the constants |
| `Memory_proofs!AckedFound` | `FsSpec => []AckedIsFound` | those on the constants |
| `Memory_proofs!EntriesStay` | `TiersSpec => []KeyNeverLost` | those on the constants |
| `Memory_proofs!VramCounted` | `TiersSpec => []VramAccounted` | those on the constants |
| `Memory_proofs!CachedAsParsed` | `CacheSpec => []AnswersAreParses` | those on the constants |
| `Counting_proofs!ExcessIsBounded` | `VramSpec => []OverbookedByRacesOnly` | those on the constants |
| `Counting_proofs!AloneBelowThreshold` | `VramSpec => []BelowThreshold` | one caller |
| `Counting_proofs!WindowsSum` | `ExtractionSpec => []WindowSums` | those on the constants |
| `Counting_proofs!OnlyReturnsOverfill` | `PoolSpec => WithinCapacity` | those on the constants |
| `Counting_proofs!LowerSwapped` | `PoolSpec => []SwapsOnlyLower` | those on the constants |
| `Gateway_proofs!PermitsAddUp` | `GatewaySpec => []PermitsBalance` | those on the constants |
| `Gateway_proofs!NothingUnaudited` | `GatewaySpec => []ForwardedIsAudited` | those on the constants |
| `Gateway_proofs!RevocationLasts` | `GatewaySpec => KeyStaysRevoked` | those on the constants |
| `Gateway_proofs!BreakerLimits` | `GatewaySpec => []BreakerHolds` | those on the constants |
| `Gateway_proofs!ReportsAreRight` | `VerifySpec => []ReportIsRight` | those on the constants |

`SoleLog` says that one logger is open on the file. It is a hypothesis of the
theorems, not a fact about the daemon: run `chained_log_two_logs` shows what
happens without it. `Roomy` says that the map of quarantined pids has room for every
pid, and `ProcessScope` that no token has scope `Global`. The code guarantees neither:
a full map makes `deny_pid` return early, and the revocation callback finds no pid in
the scope of a `Global` token (section 5, item 6). Both are hypotheses, so
the theorem says that these two are the *only* ways by which a process keeps passing
on a revoked token. A theorem about a component of a group is about the component's
own specification; a step of the group is a step of one component that leaves the
state of the others alone, so it holds in the group as well (for the tasks this is
the lemma `GroupSteps`).

Some of the theorems state a property that is in no configuration: those about
`AnkRun`, `UdsServer`, `DenyAudit`, `TCell`, `IntentBus`, `Membership`, `GpuPool`,
about the manifest of `Indexer` and about the bytes of VRAM (`VramAccounted`). TLC has checked each on the instance of its
group before it was proved, and can do so again with the property's name in the
configuration of the group (`PlacementTypeOK` is a part of `TasksTypeOK`).

*The log.* `ChainValid` is not inductive: a step that appends an entry needs to
know that the entry's `prev` is the hash of the last one. `IInv` adds, while the
log is undisturbed, that a cached hash is the tail's hash and the file ends
cleanly whenever a handle is open or a repair is queued (`CacheOK`, `HandleOK`), that
a call past the tail read holds the tail's hash (`CallOK`), and that at most one
write is queued on the handle (`OneJobOnHandle`). `OutcomesSound` is the heart: with
a line queued on a clean end or behind a repairing newline, a write leaves the
entries as they were or adds its own. `Forget` must clear both the handle and the
cache for `CacheOK` to survive a failed write, which is what its mutant shows.
The refinement adds `Fresh`: the hashes of the file, of the lines in the writes and
of the calls are older than the next one, so that the entry a write leaves behind is
one the trail does not have. `TrailGrows` then maps each of the three ends of a
write (awaited, late, at a crash) to a step of the trail, and all else stutters.

*The scheduler.* `SteadyOK` says that a steady agent is Running and is queued or
held: because it is Running, both of the loop's looks at the table lead to its
slice and back to the queue, or that a priority change has taken it out and holds the
table: nobody else can make it anything but Running until the second half has put it
back. A change that is given up ends the steadiness with the entry. `AttemptsOK` bounds the counter, strictly while a
task backs off, so that the restart at the end of the back-off stays within the
limit. `FreshOK` says that an id of this node that is in use, or that a task is
working on, lies below `next_agent_id`, and that an agent whose task backs off has
failed or is gone: without the first part a new agent could take the id and
inherit the restart.

*The launcher.* `AnkInv` says what the child is at each step of the launcher: once it
has been seen stopped it is stopped or gone until it is resumed, and the launcher gets to the
resumption only when it has put it under its token. The signal therefore meets a child that is
stopped, which becomes the target, or one that has ended, for which the wait returns.

*The socket.* A session has the rights of the token that was validated when it was
made, and an age. `OnlyAdminsSet` follows from the types: a setting needs a
session in the table, and the look at its age is made in the step that sets.

*The denials.* `DenialsAccounted` equates what was written, what the windows hold
back and what was cleared with all denials that came. It is a sum over the keys of
the table: `WindowCounts` says what one window does with one more denial,
and the sum changes at one key. The term for cleared windows is section 5, item 8.

*The verdicts.* `KilledForWindows` compares the count that the task keeps with the
number of windows that are bad under some jitter, which the model keeps beside it. The
first is at most the second (`RolledCounts`), whichever jitter was drawn in which window, and a
verdict to kill is made when the first has reached the limit.

*The pool.* `PoolTypes` bounds what every step of the killer holds. An allocation is made
under the lock that has looked at the sum of the blocks, so that only a return from the host,
which looks at nothing, brings the sum over the capacity (`OnlyReturnsOverfill`).
`PoolInv` says of every call under way that the candidates it listed are of less important
agents. Importance never changes, but budgets are taken away between the listing and
the swap; an agent of the lowest importance without a budget counts as normal, and is
the exception the property names.

*The enforcement.* `Dead`: a token that was cut is still registered and still
marked, so that garbage collection, which takes the mark with the token, never revives
one. `AuthScope` and `Bound`: outside the two steps of an authorization that binds
a scope, the scope in force is that of the grant; the lemma of the proof is that
deny and roll-back clear the two together or, on a full map, neither.
`Followed` and `AuthTokens`: a grant holds tokens of its own pid, of which those cut
belong to a revocation still under way.

*The declared paths.* The invariant ties the map entry to the lines it was compiled
from: while the hooks are real the entry is what these lines compile to, in simulation
there is none (`MapOK`), and lines that are under way have passed `compile`
(`CompiledOK`). The heart is what the match computes. `ValidatedTakes`, by induction over
the lines: the prefixes are the declared paths without their last slashes, each
without a NUL and with room for one. `SlotBytes`: a slot holds its prefix, then NUL,
because a place of the entry has one quotient and one remainder by the width of a slot
(`DividesOnce`). `MatchesAsBytes`: the chunks before the first NUL have none, the
chunk with it decides, and those behind it are not reached, so that the chunks agree exactly if the
bytes up to the NUL do. `SlotMatches` needs that a resolved path ends at its NUL:
otherwise the bytes behind it, which the kernel has left there, could complete a prefix.

*The companion.* The shutdown detaches the hooks after it has awaited the handles
it holds: `HandlesKept` says that a running task has its handle in the table, `Awaited`
that past the wait none is left. Of the detached tasks it says nothing but their types:
there is no handle to wait for.

*The intent bridge.* An intent moves through the listener's queue, the wire and the
target's bus. For each stage there is one conjunct that it is there once and one that
it is nowhere further (`QueuedOnce`, `QueuedOnly`, `CarriedOnce`, ...), because a
copy left behind would be carried out again; `NotYet` lets an intent enter the way
once, and `OnTarget` says that only a node it was delegated to has accepted it,
however stale the address.

*The mesh's lines.* `SeenUntilOver`: an accepted line stays in the cache as long as
its window lasts. A reader prunes by a time it read before it took the lock, which is
never later than the clock (`ReadingOK`), so it drops no line whose window still runs.

*The gateway.* `PermitsBalance` is proved with the set of holders: `Balanced` says
that the free permits and the cardinality of `Holding` add up to the plan, and every
step adds one holder, removes one, or changes none. `AuditedOK` says which stages
of a request come after its audit entry; those that talk to the model are among
them. `KeyStaysRevoked` holds because only the dispatcher's actions write an override, each
of them one field of it.

*The breaker.* `BreakerHolds` speaks of all windows of the past and is not inductive:
whether a punishment may be added depends on the permits that are still counted.
`BreakerInv` says that from any time on that the breaker still counts there are no more
punishments than permits; the permits themselves are in the order of time, so that
what `FrontPopped` leaves holds every one that counts.

*The verification.* While a run is under way and nothing is tampered with, a file
only grows: `Kept` is what growing keeps (its prefixes, what a baseline says of it).
`ReadOnce` says that what the run validated is a linked prefix of the file,
`ReadTwice` that a file it has compared still begins with what its baseline covers,
if that was validated. A hash holds at least as many bodies as its entry has
predecessors (`Hashed`), whatever was done to the file; a baseline whose hash is of
another length than its count was saved from a broken file and is matched by
none that validates. `Pristine` is the other half: with no tampering all files are
linked and go on from every baseline, the one on the disk, the one of the run and the
one it is about to save.

*The tracer.* `Tracked`: a decision that is cached, or held by a process between its
evaluation and its insertion, and that the policy no longer makes has an
invalidation still to come (`Pending`), or one was lost. The held decision is the
point: without it a decision could come to the cache after its invalidation.

*The batches.* `Aligned`: while a batch is generated the outputs are those of its
first prompts, one each and in order, and the prompts not generated yet are the
others. Dealing the outputs by position then gives each caller its own.

*The bus.* `BusInv` says of every intent on the channel, and of every intent that a
task has made and not yet published, that what it answers was sent earlier (`Justified`), and
of every placement that its response was sent, of every refusal that its failure was.
A receiver that skips loses intents but makes none up, so that the chain of four can be read off backwards.

*The manifest.* `IndexerInv` relates three versions of a file: the entry in the manifest,
the version the indexer has read and is to write, and the last edit. The first is at most
the second and the second at most the third; so a batch that was put
together before newer ones cannot take the entry back. `ManifestIsExact` is not
inductive over restarts, which read an old manifest: `ExactWhileUp` is about a daemon that
runs on. It has two halves, and each failure gives up one of them for its file: a removal
that fails before new points come leaves points the entry does not list (`littered`), an
insertion that fails leaves an entry whose points have gone (`behind`). `IndexExact` and
`DeleteExact` go through the outcomes; a later success restores the second half,
whatever the first call had left behind, and `OthersStayExact` is for the other files.

*The mesh's members.* The sender a node keeps for a peer is of a connection that is
open, or whose end has been read and whose sender is about to be dropped. A connection that
ends drops the sender of its peer, be it its own or that of a newer connection: a peer may
be left without a sender, never with that of a closed connection. `MemberInv` adds only the
types.

*The weights.* A sample that an event or a poll adds rescales the three weights with
truncating divisions. `Shares` says that they are naturals; the lemmas on quotients say that each of the
three truncations takes less than one thousandth, so that the sum is 1000 or at most 2 below
(`ScaledTotal`).

*The tasks together.* `GroupSteps`: a step of the group is, for each of the nine
parts, a step of that part or leaves it alone. `GroupInv` is therefore the conjunction
of the parts' own invariants, each with the types and bounds that its safety proof had no
need of (`BusBounds`, `CompanionBounds`, `IndexerBounds`, `MemberBounds`). That the bounded
channels keep to their capacities needs the guards of those who send; that a B-Cell call
has one antibody at most, in observation or in force, needs the check that
`generate_antibody` makes in both lists, and is why `BCell` may keep them as sets. (The
check gives up its locks before the addition; that is harmless because the immune task is
the only one that calls it.)

*The delegation.* `Once`: an intent is in one message that a router may act on, in one
router that has not decided, or in one agent, and in one of the three places only.
A message addressed to another node is not counted (`ForUs`), which is why the
delegating node's own copy does no harm.

*The records.* `Newest`: in an orderly history one record leads; all others that
are stored, being written or on their way are older, its owner has it or is storing
it, and every other node has it or has it coming. When nothing is on its way all
nodes have that one. Two nodes may agree on a wrong record in a history that is not
orderly, which is what `orderly` leaves out.

*The files.* `AloneOK`: a task that is alone on its path has no late call but its own,
and what it wrote is on the disk until it reports. `AckedOK`: no task is at work on
a path whose last report stands. A command that starts takes the report back.

*The tiers.* An operation is a list of locked steps, and the invariant is about such
lists: a step that drops the copies of a key has a step after it that loads the
key (`Reloads`), so that the key is in hand from the moment it leaves a tier. The lemmas
`Moves`, `Waits` and `LastMove` say once what a step that moves one entry keeps; each
operation is then one application of them. The lists the operations leave are
built of concatenations and of conditional parts (`FoundSteps`, `PutsBack`), which is
where most of the proof is.

*The bytes of VRAM.* `VramAccounted` is not inductive: what a removal takes off the
count is right only if the key was listed once. `Balanced` adds that it was
(`Distinct`), and `SparesVram` that the steps which put a single copy into a
store, or take one out, are never for VRAM, which would go past the count. `EntryOut` and
`EntryIn` say what one entry takes from the sum and adds to it; an entry over the
capacity is alone, so that nothing is left when it goes. This is also why the
subtraction in the message about an eviction (`total_capacity - allocated_bytes`,
`vram.rs:422`) does not underflow. A context keeps its size in the model.

*The query cache.* An entry is the parse of its text under the key of that text. The
expired entries are filtered by a recursive function; that it exists, and that its
value is a list of entries that were there, are inductions over the numbers.

*The reservations.* The excess is bounded by an argument over one caller: `AskedUpdate`
splits what all callers have been accepted for into that of the one who acts and the
rest, which is at most what the others may ask for. A reservation is accepted only
if the usage and the caller's own request stay below the threshold; so the excess is never
more than the rest, whatever it was before. With a single caller the rest is nothing
(`AloneBelowThreshold`): `BelowThreshold` fails with two (section 5, item 14).

*The windows.* `Rings`: the buckets in a window follow one another without gaps, there
are at most `capacity` of them, and at any time from the newest on they sum to what
the log of all additions does. What is cut off the front is out of the window at
every such time, what is put in between is empty, and a late addition raises the
bucket of its time if the ring still has it and is nowhere otherwise.

*Induction.* The library's induction theorems take an operator as a parameter and cannot be
used with the installed provers. Where a proof needs an induction over the numbers it is
derived from the well-foundedness of `<` (`NatInductionSet`: a set of numbers that has
0 and with every number the next is `Nat`), and used for the sums (`SumFunction`), for
the filter of the query cache and for the paths an intent declares. What a recursive definition over other data
computes for every input stays out of reach, as does what the sequence operators of
the library select (`SelectSeq`, `FoldSeq`).

*Only model-checked.* Liveness under fairness and `ENABLED` are beyond the prover:
`StaleGrantIsCut`, `TopAgentRuns`, `FailedIsRestarted` and the liveness properties of
`tasks`. `RedactsExactly` is about the text computations of `SemanticGuard`, which are
folds and selections over sequences; it is checked for all inputs up to its bounds, and
so is `AtOrUnderByName`. `StoresTypeOK` and
`EdgeTypeOK` put the type invariants of the parts together, as `TasksTypeOK` does; of
these groups the types that a proof needs are conjuncts of its inductive invariant, and
the rest is left to TLC.

## 5. Where code and documents disagree

`PROJECT.json` quotes the documents. The first five are shown by runs:

1. Two audit loggers on one file fork the hash chain without any fault
   (`kernel-companion/src/lib.rs:644`).
2. A host process that gets the pid of a quarantined agent is refused
   (`lsm-security.bpf.c:214`).
3. A grant that lands after its token has expired and been collected is never cut
   (`kernel-companion/src/lib.rs:1521`).
4. Of two running agents of one priority, the higher id has every slice
   (`agent-scheduler/src/priority.rs:39`).
5. A context stored while an older copy is in VRAM is overwritten by that copy
   (`context-memory/src/lib.rs:264`).

The following are stated as definitions that the code violates; they can be checked
with the configuration of the module's run and the definition in place of its
properties:

6. `GateFollowsRegistry` with a Global token: revoking it cuts none of the pids it
   authorized (`kernel-companion/src/lib.rs:511`).
7. `DenialsAreReported` (`SyscallTracer`): once a denial is cached the kernel reports
   no further one (`kernel-companion/src/lib.rs:664`).
8. The denial limiter loses suppressed counts when it empties its table
   (`deny_audit.rs:72`; the term `cleared` of `DenialsAccounted`).
9. `ShadowIsNotEnforced` (`BCell`): an antibody is enforced as soon as it exists.
10. `DelegatedIsCarried` (`IntentBridge`): the bridge does not try again.
11. `DelegatedStarts` (`Delegation`): the receiver refuses an id it has in use.
12. `DeletedIsGone` (`SemanticFs`): the points of a large file stay.
13. `HigherVersionWins` (`MeshRecords`): trust goes before version.
14. `BelowThreshold` (`VramManager`): two reservations pass the breaker together.
15. `WithheldIsAudited` (`Gateway`): a withheld answer leaves no entry of its own.
16. `UnreadIsNotValid`, `BaselineKept`, `ShardsAreRemembered` (`AuditVerify`).
17. `indexer.rs:940`, `indexer.rs:1052`, `gpu_pool.rs:291` and `engine.rs:182`: shutdown
    aborts the tasks it says it waits for, the watcher it says it keeps alive is dropped,
    a failed migration loses the block's bytes, and the mock
    panics on a prompt cut inside a character. The models have these behaviours.

## 6. What is not modelled

- Arithmetic and text: MinHash signatures (they match or not), embeddings (a text
  is found by its content), regular expressions and Unicode tables (classes of
  symbols), wire formats.
- Foreign runtimes and I/O: CUDA, ROCm, ONNX, TLS, HTTP, the terminal programs,
  hardware detection; of the engines what a call may give.
- Inside the modelled parts: rate limiting of `issue_token`, `authorize_token`
  (a second entry to the same decision), the scheduler's grants and contexts, start
  and stop of its loop, the paging of key-value blocks and tensors in the context
  memory, `initial_scan` of the indexer, administrative routes of the gateway, the
  watchtower's user interface. `PROJECT.json` marks these components `partly`.

## 7. Plan

The modules of the inventory are written, and of the safety properties of the runs
all but `RedactsExactly` and the type invariants of two groups have a theorem. What is
left:

1. `RedactsExactly` for every text: the scan as a recursive function, and an induction
   over the places of the text.
2. `StoresTypeOK` and `EdgeTypeOK` as theorems of their groups, the way `TasksTyping` is.
3. Converses that the code violates (section 5, items 6 to 16), each under the
   hypothesis that makes it true.
4. `Enforcement` with two pids and full maps; `grant_capability` composed with
   `CapabilitySecurity`.
5. `ContextTiers` against an abstract map, for the operations that keep the latest
   value.
6. The entry points of the gateway: draining of connections at shutdown.
