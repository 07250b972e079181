----------------------------- MODULE Placement -----------------------------
(***************************************************************************)
(* Where inference runs (compute-scheduler/src/: placement.rs, lib.rs,     *)
(* weights.rs, cost.rs, observer.rs, hardware.rs): the compute task scans  *)
(* the hardware for each request and takes the target with the lowest      *)
(* score among those the workload allows, while the observer of the system *)
(* moves the weights of the score.  Latency, power and cost are in tenths, *)
(* weights in thousandths, rounded down.                                   *)
(***************************************************************************)
EXTENDS Naturals, Sequences, SequencesExt, Functions

CONSTANTS
  Vendors,                  \* NPU devices that may be found
  GpuVram,                  \* GB of the GPUs that may be found
  cpu_count,
  Events,                   \* what the environment may tell the observer
  REPROBE,                  \* polls after which the GPU is looked at again
  MaxEvents, MaxPolls       \* bounds; no more events than the channel holds

ASSUME PlacementAssumption ==
  /\ cpu_count \in Nat \ {0} /\ REPROBE \in Nat \ {0}
  /\ {MaxEvents, MaxPolls} \subseteq Nat
  /\ GpuVram \subseteq 0 .. 80
  /\ Events \subseteq {"LowBattery", "HighLoad", "HighPowerDraw", "GpuMemoryPressure",
                       "NpuUnavailable", "Normal"}

VARIABLES
  weights,                  \* shared by the tasks
  observer,                 \* the base profiles and the current one
  event_rx, told, polls,    \* events not yet received, counts
  placing                   \* the request of the compute task and its answer

placementVars == <<weights, observer, event_rx, told, polls, placing>>

Workloads == {"KernelLogic", "SmallLlm", "LargeLlm", "VectorIndexing"}

Profile(latency, power, cost) == [latency |-> latency, power |-> power, cost |-> cost]
Factors == {"latency", "power", "cost"}

\* What each vendor's NPU is taken to be.
NpuProfile ==
  [IntelGaudi |-> Profile(80, 900, 250),     IntelOpenvino |-> Profile(60, 150, 30),
   GoogleTpu |-> Profile(120, 400, 300),     AppleSilicon |-> Profile(50, 80, 0),
   QualcommHexagon |-> Profile(100, 120, 50), QualcommQnn |-> Profile(70, 180, 40),
   AmdXdna |-> Profile(90, 150, 80),         Generic |-> Profile(150, 100, 150)]

CpuProfile   == Profile(500 \div cpu_count, 650, 50)
CloudProfile == Profile(2000, 0, 5000)
GpuProfile(vram) == Profile(IF vram = 0 THEN 100 ELSE 50 + (80 - vram), 1500, 200 + 15 * vram)

Target(target, profile) == [target |-> target, profile |-> profile]

from_mode == [Battery    |-> Profile(100, 800, 100),
              Throughput |-> Profile(800, 100, 100),
              Cost       |-> Profile(100, 100, 800)]

NotStarted == [pc |-> "idle"]

PlacementInit ==
  /\ weights = from_mode["Throughput"]
  /\ observer = NotStarted /\ event_rx = <<>> /\ told = 0 /\ polls = 0
  /\ placing = NotStarted

-----------------------------------------------------------------------------
(* The score and the weights.                                              *)

Total(f) == f.latency + f.power + f.cost
Scaled(f, total) == [x \in Factors |-> (f[x] * 1000) \div total]

score_target(profile, w) ==
  profile.latency * w.latency + profile.power * w.power + profile.cost * w.cost

\* A tenth of the sample's shares, then normalised; a sample of nothing is left out.
observe(w, sample) ==
  IF Total(sample) = 0 THEN w
  ELSE LET share == Scaled(sample, Total(sample))
           moved == [x \in Factors |-> w[x] * 9 + share[x]]   \* in ten-thousandths
       IN  Scaled(moved, Total(moved))

\* The first of the candidates with the lowest score.
choose_best(candidates) ==
  LET score(i) == score_target(candidates[i].profile, weights)
  IN  candidates[CHOOSE i \in DOMAIN candidates :
        \A j \in DOMAIN candidates : score(i) <= score(j) /\ (score(i) = score(j) => i <= j)]

-----------------------------------------------------------------------------
(* The compute task: one request at a time.                                *)

allowed_targets ==
  [KernelLogic |-> {"Cpu"}, SmallLlm |-> {"Npu", "Cpu"},
   LargeLlm |-> {"Gpu", "Cloud"}, VectorIndexing |-> {"Gpu", "Npu"}]

select_runtime(target, workload) ==
  CASE workload = "KernelLogic" -> "none"
    [] target = "Cpu" -> IF workload = "VectorIndexing" THEN "OnnxRuntime" ELSE "LlamaCpp"
    [] target = "Gpu" -> IF workload = "LargeLlm" THEN "Vllm" ELSE "TensorRtLlm"
    [] target = "Npu" -> IF workload = "VectorIndexing" THEN "OnnxRuntime" ELSE "LlamaCpp"
    [] target = "Cloud" -> IF workload = "LargeLlm" THEN "Vllm" ELSE "LlamaCpp"

Request(workload) ==
  /\ placing = NotStarted /\ placing' = [pc |-> "scan", workload |-> workload]
  /\ UNCHANGED <<weights, observer, event_rx, told, polls>>

\* The CPU is there always, then the GPUs, the cloud if it answers, the NPUs.
Scans ==
  {<<Target("Cpu", CpuProfile)>> \o gpus \o cloud \o npus :
     gpus  \in {<<>>} \cup {<<Target("Gpu", GpuProfile(v))>> : v \in GpuVram},
     cloud \in {<<>>, <<Target("Cloud", CloudProfile)>>},
     npus  \in {<<>>} \cup {<<Target("Npu", NpuProfile[v])>> : v \in Vendors}}

scan_hardware ==
  /\ placing.pc = "scan"
  /\ \E scan \in Scans :
       placing' = [pc |-> "place", workload |-> placing.workload, profiles |-> scan]
  /\ UNCHANGED <<weights, observer, event_rx, told, polls>>

\* Only targets the workload allows; the weights are those of now.
place ==
  /\ placing.pc = "place"
  /\ LET candidates == SelectSeq(placing.profiles,
                         LAMBDA c : c.target \in allowed_targets[placing.workload])
         answered(target, runtime) ==
           placing' = [pc |-> "answered", workload |-> placing.workload,
                       target |-> target, runtime |-> runtime]
     IN  IF candidates = <<>> THEN answered("NoTargetAvailable", "none")
         ELSE LET target == choose_best(candidates).target
              IN  answered(target, select_runtime(target, placing.workload))
  /\ UNCHANGED <<weights, observer, event_rx, told, polls>>

\* The task runs where it was placed and, when that fails, once more on the CPU.
execute_with_circuit_breaker(fails) ==
  /\ placing.pc = "answered"
  /\ placing' = IF fails /\ placing.target \notin {"Cpu", "NoTargetAvailable"}
                THEN [placing EXCEPT !.target = "Cpu"] ELSE NotStarted
  /\ UNCHANGED <<weights, observer, event_rx, told, polls>>

-----------------------------------------------------------------------------
(* The observer.  Its first scan gives the base profiles.                  *)

start_monitoring ==
  /\ observer = NotStarted
  /\ \E gpu \in {<<>>} \cup {<<GpuProfile(v)>> : v \in GpuVram} :
       observer' = [pc |-> "waiting", gpu |-> gpu,
                    current |-> IF gpu = <<>> THEN CpuProfile ELSE gpu[1]]
  /\ UNCHANGED <<weights, event_rx, told, polls, placing>>

trigger_event(event) ==
  /\ observer.pc = "waiting" /\ told < MaxEvents
  /\ told' = told + 1 /\ event_rx' = Append(event_rx, event)
  /\ UNCHANGED <<weights, observer, polls, placing>>

\* The profile whose shares the weights move to after an event.
Adapted(event) ==
  CASE event = "LowBattery"   -> [CpuProfile EXCEPT !.power = @ * 3]
    [] event = "HighLoad"     -> [CpuProfile EXCEPT !.latency = @ * 5]
    [] event = "HighPowerDraw" -> [observer.current EXCEPT !.power = @ * 2]
    [] event = "GpuMemoryPressure" -> IF observer.gpu = <<>> THEN observer.current
                                      ELSE [observer.gpu[1] EXCEPT !.cost = @ * 3]
    [] event = "NpuUnavailable" -> [observer.current EXCEPT !.cost = @ + 500]
    [] event = "Normal" -> IF observer.gpu = <<>> THEN CpuProfile ELSE observer.gpu[1]

receive_event ==
  /\ event_rx # <<>>
  /\ observer' = [observer EXCEPT !.current = Adapted(Head(event_rx))]
  /\ event_rx' = Tail(event_rx)
  /\ UNCHANGED <<weights, told, polls, placing>>

Blended(a, b) == [x \in Factors |-> (a[x] + b[x]) \div 2]

\* Two seconds without an event (each event starts the wait anew); every
\* REPROBE polls a GPU that is found is blended into the current profile.
poll ==
  /\ observer.pc = "waiting" /\ event_rx = <<>> /\ polls < MaxPolls
  /\ polls' = polls + 1
  /\ \E sample \in {observer.current} \cup
       IF polls' % REPROBE = 0
       THEN {Blended(observer.current, GpuProfile(v)) : v \in GpuVram} ELSE {} :
         /\ observer' = [observer EXCEPT !.current = sample]
         /\ weights' = observe(weights, sample)
  /\ UNCHANGED <<event_rx, told, placing>>

PlacementNext ==
  \/ \E workload \in Workloads : Request(workload)
  \/ scan_hardware \/ place
  \/ \E fails \in BOOLEAN : execute_with_circuit_breaker(fails)
  \/ start_monitoring \/ receive_event \/ poll
  \/ \E event \in Events : trigger_event(event)

PlacementSpec == PlacementInit /\ [][PlacementNext]_placementVars

-----------------------------------------------------------------------------
\* The weights stay normalised, up to what rounding down takes.
PlacementTypeOK ==
  /\ Total(weights) \in 998 .. 1000
  /\ observer.pc \in {"idle", "waiting"}
  /\ Len(event_rx) <= told /\ told <= MaxEvents /\ polls <= MaxPolls
  /\ placing.pc \in {"idle", "scan", "place", "answered"}

=============================================================================
