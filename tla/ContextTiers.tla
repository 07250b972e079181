---------------------------- MODULE ContextTiers ----------------------------
(***************************************************************************)
(* The tiers of the context memory (context-memory/src/lib.rs, vram.rs,    *)
(* hot.rs, warm.rs, cold.rs): entries move between VRAM, hot, warm and     *)
(* cold stores that have a lock each, so that every operation is a list of *)
(* locked steps and those of the callers (storing a context, paging for an *)
(* agent's compute target, demoting) interleave with each other and with   *)
(* the sweep of the macrophage (immune-system/src/macrophage.rs).          *)
(***************************************************************************)
EXTENDS Naturals, Sequences, FiniteSets, SequencesExt

CONSTANTS Workers, Contexts,
          MaxVersions,               \* bound: how often a context is stored
          MaxMoves,                  \* bound: operations that move entries
          Size,                      \* bytes of a context
          capacity_bytes, hot_capacity, warm_capacity

ASSUME TiersAssumption ==
  /\ MaxVersions \in Nat /\ MaxMoves \in Nat /\ Size \in [Contexts -> Nat \ {0}]
  /\ {capacity_bytes, hot_capacity, warm_capacity} \subseteq Nat \ {0}

VARIABLES
  tier,         \* <<vram, hot, warm, cold>>, each the oldest entry first
  allocated_bytes,    \* of the VRAM store
  stamps,       \* time stamp of a key: none, fresh or older than the time to live
  worker,       \* the locked steps each caller has still to take
  sweeper,      \* clean_expired
  stored,       \* ghost: keys stored and not since chosen by the sweep
  version,      \* how often each was stored: the value stored last
  moves         \* operations begun so far

tierVars == <<tier, allocated_bytes, stamps, worker, sweeper, stored, version, moves>>

VRAM == 1
HOT  == 2
WARM == 3
COLD == 4

Item == [key : Contexts, val : 0 .. MaxVersions]
Ops     == {"put", "insert", "spill", "settle", "page", "look", "drop", "load", "unload",
            "promote", "promote_hot", "take"}
Step(op, k, v, t) == [op |-> op, key |-> k, val |-> v, at |-> t]

TiersTypeOK ==
  /\ tier \in [VRAM .. COLD -> Seq(Item)]
  /\ \A t \in VRAM .. COLD : IsInjective([i \in DOMAIN tier[t] |-> tier[t][i].key])
  /\ allocated_bytes \in Nat
  /\ stamps \in [Contexts -> {"none", "fresh", "old"}]
  /\ worker \in [Workers -> Seq([op : Ops, key : Contexts, val : 0 .. MaxVersions, at : VRAM .. COLD])]
  /\ sweeper \in [pc : {"idle", "chosen", "wiping"}, keys : SUBSET Contexts, doing : SUBSET Contexts,
                 at : VRAM .. COLD]
  /\ stored \subseteq Contexts /\ version \in [Contexts -> 0 .. MaxVersions]
  /\ moves \in 0 .. MaxMoves

TiersInit ==
  /\ tier = [t \in VRAM .. COLD |-> <<>>]
  /\ allocated_bytes = 0
  /\ stamps = [k \in Contexts |-> "none"]
  /\ worker = [w \in Workers |-> <<>>]
  /\ sweeper = [pc |-> "idle", keys |-> {}, doing |-> {}, at |-> VRAM]
  /\ stored = {}
  /\ version = [k \in Contexts |-> 0]
  /\ moves = 0

-----------------------------------------------------------------------------
(* The stores.                                                             *)

Has(t, k)     == \E e \in ToSet(tier[t]) : e.key = k
ValueAt(t, k) == (CHOOSE e \in ToSet(tier[t]) : e.key = k).val
remove(t, k)  ==
  IF Has(t, k) THEN RemoveAt(tier[t], CHOOSE i \in DOMAIN tier[t] : tier[t][i].key = k) ELSE tier[t]

(* A value put over an old one keeps the old one's place in the queue.     *)
insert(t, e) == IF Has(t, e.key)
                THEN [i \in DOMAIN tier[t] |-> IF tier[t][i].key = e.key THEN e ELSE tier[t][i]]
                ELSE Append(tier[t], e)

KeysOf(s) == {e.key : e \in ToSet(s)}
Bytes(s)  == SumFunctionOnSet(Size, KeysOf(s))

(* How many of the least recently used entries leave for n bytes.          *)
Victims(s, n) ==
  LET Fits(i) == Bytes(SubSeq(s, i + 1, Len(s))) + n <= capacity_bytes
  IN  CHOOSE i \in 0 .. Len(s) : (i = Len(s) \/ Fits(i)) /\ \A j \in 0 .. i - 1 : ~Fits(j)

insert_with_metadata(e) ==
  LET others == remove(VRAM, e.key)
      n      == Victims(others, Size[e.key])
      kept   == Append(SubSeq(others, n + 1, Len(others)), e)
  IN [vram |-> kept, evicted |-> SubSeq(others, 1, n), bytes |-> Bytes(kept)]

Touch(k) == [tier EXCEPT ![VRAM] = Append(remove(VRAM, k), [key |-> k, val |-> ValueAt(VRAM, k)])]

-----------------------------------------------------------------------------
(* The steps of a caller: the one at hand is replaced by what follows it.  *)

At(w, op)       == worker[w] # <<>> /\ worker[w][1].op = op
Follow(w, more) == worker' = [worker EXCEPT ![w] = more \o Tail(@)]
Done(w)         == Follow(w, <<>>)
StoresOnly      == UNCHANGED <<allocated_bytes, stamps, sweeper, stored, version, moves>>

Begin(w, op, k) ==
  /\ worker[w] = <<>> /\ moves < MaxMoves /\ moves' = moves + 1
  /\ worker' = [worker EXCEPT ![w] = <<Step(op, k, 0, VRAM)>>]
  /\ UNCHANGED <<tier, allocated_bytes, stamps, sweeper, stored, version>>

(* Agents store contexts, run (paged or promoted for their target), pause. *)
store_context(w, k) ==
  /\ worker[w] = <<>> /\ version[k] < MaxVersions
  /\ version' = [version EXCEPT ![k] = @ + 1]
  /\ worker' = [worker EXCEPT ![w] = <<Step("put", k, version'[k], VRAM)>>]
  /\ UNCHANGED <<tier, allocated_bytes, stamps, sweeper, stored, moves>>
run_agent(w, k)   == Begin(w, "page", k) \/ Begin(w, "promote", k)
pause_agent(w, k) == Begin(w, "unload", k)

(* Mutant: what leaves the full hot store is not put into the warm one.    *)
InsertHot_Drops(w, s) ==
  LET hot == insert(HOT, [key |-> s.key, val |-> s.val]) IN
  /\ stored' = stored \cup {s.key}
  /\ tier' = [tier EXCEPT ![HOT] = IF Len(hot) > hot_capacity THEN Tail(hot) ELSE hot]
  /\ Done(w)

InsertHot(w, s) ==
  LET hot == insert(HOT, [key |-> s.key, val |-> s.val]) IN
  /\ stored' = stored \cup {s.key}
  /\ IF Len(hot) > hot_capacity
     THEN /\ tier' = [tier EXCEPT ![HOT] = Tail(hot)]
          /\ Follow(w, <<Step("spill", hot[1].key, hot[1].val, WARM)>>)
     ELSE tier' = [tier EXCEPT ![HOT] = hot] /\ Done(w)

(* put: a key that the hot store has keeps its time stamp; otherwise the   *)
(* lock is let go for the stamp (which waits for the sweep) and taken again.*)
put(w) ==
  LET s == worker[w][1] IN
  /\ At(w, "put")
  /\ \/ /\ Has(HOT, s.key) /\ InsertHot(w, s)
        /\ UNCHANGED <<allocated_bytes, stamps, sweeper, version, moves>>
     \/ /\ ~Has(HOT, s.key) /\ sweeper.pc # "wiping"
        /\ stamps' = [stamps EXCEPT ![s.key] = "fresh"]
        /\ Follow(w, <<[s EXCEPT !.op = "insert"]>>)
        /\ UNCHANGED <<tier, allocated_bytes, sweeper, stored, version, moves>>

put_insert(w) ==
  /\ At(w, "insert") /\ InsertHot(w, worker[w][1])
  /\ UNCHANGED <<allocated_bytes, stamps, sweeper, version, moves>>

(* What left the hot store goes to the warm one, and its oldest to cold.   *)
evict_to_warm(w) ==
  LET s == worker[w][1]
      warm == insert(WARM, [key |-> s.key, val |-> s.val])
  IN /\ At(w, "spill")
     /\ IF Len(warm) > warm_capacity
        THEN /\ tier' = [tier EXCEPT ![WARM] = Tail(warm)]
             /\ Follow(w, <<Step("settle", warm[1].key, warm[1].val, COLD)>>)
        ELSE tier' = [tier EXCEPT ![WARM] = warm] /\ Done(w)
     /\ StoresOnly

(* Also the last step of demote, which does not look at the capacity.      *)
settle(w) ==
  LET s == worker[w][1] IN
  /\ At(w, "settle") /\ Done(w)
  /\ tier' = [tier EXCEPT ![s.at] = insert(s.at, [key |-> s.key, val |-> s.val])]
  /\ StoresOnly

(* page_to_vram and page_tensor_to_vram (which does not touch).            *)
page_to_vram(w) ==
  LET s == worker[w][1] IN
  /\ At(w, "page")
  /\ IF Has(VRAM, s.key) THEN tier' \in {tier, Touch(s.key)} /\ Done(w)
     ELSE Follow(w, <<[s EXCEPT !.op = "look"]>>) /\ UNCHANGED tier
  /\ StoresOnly

(* get: one store after the other.                                         *)
get(w) ==
  LET s == worker[w][1] IN
  /\ At(w, "look")
  /\ IF Has(s.at, s.key)
     THEN LET v == ValueAt(s.at, s.key) IN
          /\ tier' = IF s.at = VRAM THEN Touch(s.key) ELSE tier
          /\ Follow(w, [i \in 1 .. 3 |-> Step("drop", s.key, v, i + 1)] \o <<Step("load", s.key, v, VRAM)>>)
     ELSE /\ UNCHANGED tier
          /\ Follow(w, IF s.at = COLD THEN <<>> ELSE <<[s EXCEPT !.at = @ + 1]>>)
  /\ StoresOnly

drop_copy(w) ==
  LET s == worker[w][1] IN
  /\ At(w, "drop") /\ Done(w)
  /\ tier' = [tier EXCEPT ![s.at] = remove(s.at, s.key)]
  /\ StoresOnly

load(w) ==
  LET s == worker[w][1]
      r == insert_with_metadata([key |-> s.key, val |-> s.val])
  IN /\ At(w, "load")
     /\ tier' = [tier EXCEPT ![VRAM] = r.vram] /\ allocated_bytes' = r.bytes
     /\ Follow(w, [i \in DOMAIN r.evicted |-> Step("put", r.evicted[i].key, r.evicted[i].val, VRAM)])
     /\ UNCHANGED <<stamps, sweeper, stored, version, moves>>

page_to_ram(w) ==
  LET s == worker[w][1] IN
  /\ At(w, "unload")
  /\ IF Has(VRAM, s.key)
     THEN /\ tier' = [tier EXCEPT ![VRAM] = remove(VRAM, s.key)]
          /\ allocated_bytes' = allocated_bytes - Size[s.key]
          /\ Follow(w, <<Step("put", s.key, ValueAt(VRAM, s.key), VRAM)>>)
     ELSE Done(w) /\ UNCHANGED <<tier, allocated_bytes>>
  /\ UNCHANGED <<stamps, sweeper, stored, version, moves>>

(* promote looks at VRAM, at hot, then takes the entry out of warm or cold. *)
promote(w) ==
  LET s == worker[w][1]
      t == IF s.op = "promote" THEN VRAM ELSE HOT
  IN /\ At(w, "promote") \/ At(w, "promote_hot")
     /\ Follow(w, IF Has(t, s.key) THEN <<>>
                  ELSE IF t = VRAM THEN <<[s EXCEPT !.op = "promote_hot"]>>
                  ELSE <<[s EXCEPT !.op = "take", !.at = WARM]>>)
     /\ UNCHANGED tier /\ StoresOnly

promote_take(w) ==
  LET s == worker[w][1] IN
  /\ At(w, "take")
  /\ tier' = [tier EXCEPT ![s.at] = remove(s.at, s.key)]
  /\ Follow(w, IF Has(s.at, s.key) THEN <<Step("put", s.key, ValueAt(s.at, s.key), VRAM)>>
               ELSE IF s.at = WARM THEN <<[s EXCEPT !.at = COLD]>> ELSE <<>>)
  /\ StoresOnly

demote(w, k) ==
  /\ worker[w] = <<>> /\ Has(HOT, k) /\ moves < MaxMoves /\ moves' = moves + 1
  /\ tier' = [tier EXCEPT ![HOT] = remove(HOT, k)]
  /\ worker' = [worker EXCEPT ![w] = <<Step("settle", k, ValueAt(HOT, k), WARM)>>]
  /\ UNCHANGED <<allocated_bytes, stamps, sweeper, stored, version>>

-----------------------------------------------------------------------------
(* clean_expired: the keys are chosen under the read lock of the stamps;   *)
(* under the write lock, taken later, each is removed from tier after tier.*)
clean_expired ==
  /\ sweeper.pc = "idle" /\ \E k \in Contexts : stamps[k] = "old"
  /\ sweeper' = [pc |-> "chosen", keys |-> {k \in Contexts : stamps[k] = "old"},
                 doing |-> {}, at |-> VRAM]
  /\ stored' = {k \in stored : stamps[k] # "old"}
  /\ UNCHANGED <<tier, allocated_bytes, stamps, worker, version, moves>>

clean_lock ==
  /\ sweeper.pc = "chosen" /\ sweeper' = [sweeper EXCEPT !.pc = "wiping"]
  /\ stamps' = [k \in Contexts |-> IF k \in sweeper.keys THEN "none" ELSE stamps[k]]
  /\ UNCHANGED <<tier, allocated_bytes, worker, stored, version, moves>>

clean_key ==
  /\ sweeper.pc = "wiping"
  /\ \E k \in IF sweeper.doing = {} THEN sweeper.keys ELSE sweeper.doing :
       /\ tier' = [tier EXCEPT ![sweeper.at] = remove(sweeper.at, k)]
       /\ allocated_bytes' = IF sweeper.at = VRAM /\ Has(VRAM, k) THEN allocated_bytes - Size[k]
                             ELSE allocated_bytes
       /\ stored' = stored \ {k}
       /\ sweeper' = [sweeper EXCEPT !.keys = @ \ {k},
                                     !.doing = IF sweeper.at = COLD THEN {} ELSE {k},
                                     !.at = IF @ = COLD THEN VRAM ELSE @ + 1]
  /\ UNCHANGED <<stamps, worker, version, moves>>

clean_done ==
  /\ sweeper.pc = "wiping" /\ sweeper.keys = {} /\ sweeper.doing = {}
  /\ sweeper' = [sweeper EXCEPT !.pc = "idle"]
  /\ UNCHANGED <<tier, allocated_bytes, stamps, worker, stored, version, moves>>

TimeToLivePasses(k) ==
  /\ stamps[k] = "fresh" /\ stamps' = [stamps EXCEPT ![k] = "old"]
  /\ UNCHANGED <<tier, allocated_bytes, worker, sweeper, stored, version, moves>>

TiersNext ==
  \/ \E w \in Workers :
       \/ \E k \in Contexts : \/ store_context(w, k)
                              \/ run_agent(w, k) \/ pause_agent(w, k) \/ demote(w, k)
       \/ put(w) \/ put_insert(w) \/ evict_to_warm(w) \/ settle(w)
       \/ page_to_vram(w) \/ get(w) \/ drop_copy(w) \/ load(w) \/ page_to_ram(w)
       \/ promote(w) \/ promote_take(w)
  \/ clean_expired \/ clean_lock \/ clean_key \/ clean_done
  \/ \E k \in Contexts : TimeToLivePasses(k)

TiersSpec == TiersInit /\ [][TiersNext]_tierVars

-----------------------------------------------------------------------------
(* A key in the hands of a caller that is moving it.                       *)
InHand(k) == \E w \in Workers : \E i \in DOMAIN worker[w] :
               worker[w][i].key = k /\ worker[w][i].op \in {"put", "insert", "spill", "settle", "load"}

(* However the moves between the four stores interleave, an entry that was *)
(* stored and that no sweep has chosen is in some tier or in the hands of  *)
(* an operation that will put it back: only clean_expired loses a key.     *)
KeyNeverLost ==
  \A k \in stored : (\E t \in VRAM .. COLD : Has(t, k)) \/ InHand(k)

(* The count of allocated bytes is that of the entries, and it passes the  *)
(* capacity only for a single entry that alone is larger.                  *)
VramAccounted ==
  /\ allocated_bytes = Bytes(tier[VRAM])
  /\ allocated_bytes > capacity_bytes => Len(tier[VRAM]) = 1

(* "VRAM tier migration does not lose data" (README.md:309): when no       *)
(* operation is under way, what was stored last under a key that no sweep  *)
(* chose is in some tier.                                                  *)
LatestSurvives ==
  (\A w \in Workers : worker[w] = <<>>) =>
    \A k \in stored : \E t \in VRAM .. COLD :
      \E e \in ToSet(tier[t]) : e.key = k /\ e.val = version[k]
=============================================================================
