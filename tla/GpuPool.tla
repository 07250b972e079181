------------------------------- MODULE GpuPool -------------------------------
(***************************************************************************)
(* GPU memory for several agents (compute-scheduler/src/): the pool of     *)
(* blocks (gpu_pool.rs), the budgets with their priorities (budget.rs) and *)
(* the killer that makes room (gpu_oom.rs).  Each operation of the pool    *)
(* holds its lock; the killer strings many of them together on lists it    *)
(* made at the start, and callers run at the same time.                    *)
(***************************************************************************)
EXTENDS Naturals, Sequences, FiniteSets, FiniteSetsExt, Functions

CONSTANTS Agents, Blocks, Callers,
          owner,             \* the agent whose name a block's identifier begins with
          requested_size, total_capacity,
          priorities, max_budget,
          real_mode,         \* the device may refuse a call
          MaxPoolOps         \* bound: operations of the agents on the pool

ASSUME PoolAssumption ==
  /\ IsFiniteSet(Blocks) /\ owner \in [Blocks -> Agents]
  /\ requested_size \in [Blocks -> Nat \ {0}] /\ total_capacity \in Nat
  /\ priorities \in [Agents -> 0 .. 3] /\ max_budget \in Nat
  /\ real_mode \in BOOLEAN /\ MaxPoolOps \in Nat

VARIABLES
  block,         \* state of each block
  swapped_data,  \* blocks whose bytes are in host memory
  lru_order,
  budgets,       \* registered agents with the bytes charged to them
  oom,           \* calls of the killer
  poolOps,
  wronged        \* ghost: swaps of a block whose agent was no less important

poolVars == <<block, swapped_data, lru_order, budgets, oom, poolOps, wronged>>

NoCall == [pc |-> "none"]
OomCalls == {NoCall} \cup
  [pc : {"try", "swap", "retry", "listing", "kill", "check", "place"}, block : Blocks,
   candidates : Seq(Blocks), victims : Seq(Agents), freed : Nat]

GpuPoolTypeOK ==
  /\ block \in [Blocks -> {"none", "Allocated", "Freed", "MigratedToCpu", "Swapped"}]
  /\ swapped_data \subseteq Blocks
  /\ lru_order \in Seq(Blocks)
  /\ DOMAIN budgets \subseteq Agents /\ \A a \in DOMAIN budgets : budgets[a] \in 0 .. max_budget
  /\ oom \in [Callers -> OomCalls]
  /\ poolOps \in 0 .. MaxPoolOps
  /\ wronged \subseteq Callers \X Blocks

PoolInit ==
  /\ block = [b \in Blocks |-> "none"]
  /\ swapped_data = {} /\ lru_order = <<>> /\ poolOps = 0 /\ wronged = {}
  /\ budgets = [a \in Agents |-> 0]
  /\ oom = [c \in Callers |-> NoCall]

-----------------------------------------------------------------------------
(* The pool: operators on its state, each one critical section.            *)
InUse(S)      == {b \in S : block[b] = "Allocated"}
used_bytes(S) == SumFunctionOnSet(requested_size, InUse(S))
OfAgent(a)    == {b \in Blocks : owner[b] = a}

has_capacity(b) == used_bytes(Blocks) + requested_size[b] <= total_capacity
Goes(b, state)  == block' = [block EXCEPT ![b] = state]

(* A block that is there already is replaced, and is twice in the order.   *)
allocate(b) ==
  /\ has_capacity(b) /\ Goes(b, "Allocated")
  /\ lru_order' = Append(lru_order, b) /\ UNCHANGED swapped_data

swap_out(b) ==
  /\ block[b] = "Allocated" /\ Goes(b, "Swapped")
  /\ swapped_data' = swapped_data \cup {b} /\ UNCHANGED lru_order

(* The bytes leave the host's table first: when the device then refuses,   *)
(* they are gone.  The capacity is not looked at.                          *)
swap_in(b) ==
  /\ block[b] = "Swapped" /\ swapped_data' = swapped_data \ {b}
  /\ \/ Goes(b, "Allocated") /\ lru_order' = Append(SelectSeq(lru_order, LAMBDA x : x # b), b)
     \/ real_mode /\ UNCHANGED <<block, lru_order>>

migrate_to_cpu(b) ==
  /\ block[b] = "Allocated" /\ Goes(b, "MigratedToCpu")
  /\ swapped_data' = swapped_data \cup {b} /\ UNCHANGED lru_order

migrate_to_gpu(b) ==
  /\ block[b] = "MigratedToCpu" /\ swapped_data' = swapped_data \ {b}
  /\ Goes(b, "Allocated") \/ (real_mode /\ UNCHANGED block)
  /\ UNCHANGED lru_order

(* Whatever state it is in; the host's copy and the order stay.            *)
deallocate(b) == /\ block[b] # "none" /\ Goes(b, "Freed")
                 /\ UNCHANGED <<swapped_data, lru_order>>

(* An agent charges the bytes to its budget, or is refused.                *)
charge(b) ==
  /\ owner[b] \in DOMAIN budgets
  /\ budgets[owner[b]] + requested_size[b] <= max_budget
  /\ budgets' = [budgets EXCEPT ![owner[b]] = @ + requested_size[b]]

discharge(b) ==
  budgets' = [a \in DOMAIN budgets |->
    IF a # owner[b] THEN budgets[a]
    ELSE IF budgets[a] > requested_size[b] THEN budgets[a] - requested_size[b] ELSE 0]

AgentOps(b) ==
  /\ poolOps < MaxPoolOps /\ poolOps' = poolOps + 1
  /\ \/ allocate(b) /\ charge(b)
     \/ deallocate(b) /\ discharge(b)
     \/ UNCHANGED budgets /\ (swap_out(b) \/ swap_in(b) \/ migrate_to_cpu(b) \/ migrate_to_gpu(b))
  /\ UNCHANGED <<oom, wronged>>

-----------------------------------------------------------------------------
(* The killer. *)
priority(a) == IF a \in DOMAIN budgets THEN priorities[a] ELSE 1

(* Registered agents that are less important than the one that asks.       *)
Preemptable(a) == {v \in DOMAIN budgets \ {a} : priorities[v] < priority(a)}

(* Their blocks in use, least important first; the order within an agent   *)
(* is that of a hash table.                                                *)
get_swap_candidates(a) ==
  LET S == UNION {InUse(OfAgent(v)) : v \in Preemptable(a)} IN
  {s \in [1 .. Cardinality(S) -> S] :
     /\ \A i, j \in DOMAIN s : i # j => s[i] # s[j]
     /\ \A i, j \in DOMAIN s : i < j => priorities[owner[s[i]]] <= priorities[owner[s[j]]]}

(* Any other agent that holds memory: one without a budget counts as the   *)
(* least important.  By importance, the largest first, as many as free     *)
(* what is needed.                                                         *)
kill_rank(v) == IF v \in DOMAIN budgets THEN priorities[v] ELSE 0
Before(v, w) == \/ kill_rank(v) < kill_rank(w)
                \/ kill_rank(v) = kill_rank(w) /\ used_bytes(OfAgent(v)) > used_bytes(OfAgent(w))

get_kill_candidates(a, needed) ==
  LET S == {v \in Agents \ {a} : InUse(OfAgent(v)) # {}}
      Freed(s, n) == MapThenSumSet(LAMBDA i : used_bytes(OfAgent(s[i])), 1 .. n)
      Enough(s)   == {n \in 0 .. Len(s) : n = Len(s) \/ Freed(s, n) >= needed}
  IN {SubSeq(s, 1, Min(Enough(s))) :
        s \in {t \in [1 .. Cardinality(S) -> S] :
                 \A i, j \in DOMAIN t : i < j => t[i] # t[j] /\ ~Before(t[j], t[i])}}

oom_allocate(c, b) ==
  /\ oom[c] = NoCall /\ poolOps < MaxPoolOps /\ poolOps' = poolOps + 1
  /\ \E s \in get_swap_candidates(owner[b]) :
       oom' = [oom EXCEPT ![c] = [pc |-> "try", block |-> b, candidates |-> s,
                                  victims |-> <<>>, freed |-> 0]]
  /\ UNCHANGED <<block, swapped_data, lru_order, budgets, wronged>>

Calling(c, pc) == oom[c] # NoCall /\ oom[c].pc = pc

(* First and, after the swaps, second attempt.                             *)
attempt(c) ==
  /\ Calling(c, "try") \/ Calling(c, "retry")
  /\ \/ allocate(oom[c].block) /\ oom' = [oom EXCEPT ![c] = NoCall]
     \/ /\ ~has_capacity(oom[c].block)
        /\ oom' = [oom EXCEPT ![c].pc = IF @ = "try" THEN "swap" ELSE "listing"]
        /\ UNCHANGED <<block, swapped_data, lru_order>>
     \/ /\ real_mode /\ oom' = [oom EXCEPT ![c].pc = "listing"]
        /\ UNCHANGED <<block, swapped_data, lru_order>>
  /\ UNCHANGED <<budgets, poolOps, wronged>>

(* One candidate after the other until enough is freed; one that is not in *)
(* use any more is passed over.                                            *)
auto_swap(c) ==
  LET q == oom[c]  b == Head(q.candidates)  hit == block[b] = "Allocated" IN
  /\ Calling(c, "swap") /\ q.freed < requested_size[q.block] /\ q.candidates # <<>>
  /\ oom' = [oom EXCEPT ![c].candidates = Tail(@),
                        ![c].freed = IF hit THEN @ + requested_size[b] ELSE @]
  /\ IF hit THEN swap_out(b) ELSE UNCHANGED <<block, swapped_data, lru_order>>
  /\ wronged' = IF hit /\ priorities[owner[b]] >= priorities[owner[q.block]]
                THEN wronged \cup {<<c, b>>} ELSE wronged
  /\ UNCHANGED <<budgets, poolOps>>

swap_over(c) ==
  LET q == oom[c]  enough == q.freed >= requested_size[q.block] IN
  /\ Calling(c, "swap") /\ (enough \/ q.candidates = <<>>)
  /\ oom' = [oom EXCEPT ![c].pc = IF enough THEN "retry" ELSE "listing"]
  /\ UNCHANGED <<block, swapped_data, lru_order, budgets, poolOps, wronged>>

list_victims(c) ==
  /\ Calling(c, "listing")
  /\ \E v \in get_kill_candidates(owner[oom[c].block], requested_size[oom[c].block]) :
       oom' = [oom EXCEPT ![c].pc = "kill", ![c].victims = v]
  /\ UNCHANGED <<block, swapped_data, lru_order, budgets, poolOps, wronged>>

(* All blocks of the victim are freed, also those that are swapped out,    *)
(* and its budget is dropped.  Without a victim left the call fails.       *)
kill_victim(c) ==
  LET q == oom[c] IN
  /\ Calling(c, "kill")
  /\ IF q.victims = <<>>
     THEN oom' = [oom EXCEPT ![c] = NoCall] /\ UNCHANGED <<block, budgets>>
     ELSE /\ oom' = [oom EXCEPT ![c].pc = "check", ![c].victims = Tail(@)]
          /\ block' = [b \in Blocks |-> IF owner[b] = Head(q.victims) /\ block[b] # "none"
                                        THEN "Freed" ELSE block[b]]
          /\ budgets' = [a \in DOMAIN budgets \ {Head(q.victims)} |-> budgets[a]]
  /\ UNCHANGED <<swapped_data, lru_order, poolOps, wronged>>

check_capacity(c) ==
  /\ Calling(c, "check")
  /\ oom' = [oom EXCEPT ![c].pc = IF has_capacity(oom[c].block) THEN "place" ELSE "kill"]
  /\ UNCHANGED <<block, swapped_data, lru_order, budgets, poolOps, wronged>>

(* The result of this allocation is ignored: the call succeeds.            *)
place_block(c) ==
  /\ Calling(c, "place") /\ oom' = [oom EXCEPT ![c] = NoCall]
  /\ \/ allocate(oom[c].block)
     \/ (~has_capacity(oom[c].block) \/ real_mode) /\ UNCHANGED <<block, swapped_data, lru_order>>
  /\ UNCHANGED <<budgets, poolOps, wronged>>

PoolNext ==
  \/ \E b \in Blocks : AgentOps(b)
  \/ \E c \in Callers :
       \/ \E b \in Blocks : oom_allocate(c, b)
       \/ attempt(c) \/ auto_swap(c) \/ swap_over(c) \/ list_victims(c)
       \/ kill_victim(c) \/ check_capacity(c) \/ place_block(c)

PoolSpec == PoolInit /\ [][PoolNext]_poolVars

-----------------------------------------------------------------------------
(* However calls interleave, the first stage of the killer moves out only  *)
(* blocks of agents that are less important than the one it works for.     *)
(* The exception is an agent of the lowest importance that has lost its    *)
(* budget to the killer: without one it counts as normal, and may move out *)
(* blocks of others of the lowest.                                         *)
SwapsOnlyLower ==
  \A w \in wronged : priorities[owner[w[2]]] = 0

(* A step that brings the pool above its capacity is one that brings back  *)
(* what was moved out: two allocations never share the same free bytes.    *)
WithinCapacity ==
  [][used_bytes(Blocks)' <= total_capacity
     \/ used_bytes(Blocks)' <= used_bytes(Blocks)
     \/ \E b \in Blocks : block[b] \in {"Swapped", "MigratedToCpu"} /\ block'[b] = "Allocated"]_poolVars
=============================================================================
