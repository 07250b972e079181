----------------------------- MODULE QueryCache -----------------------------
(***************************************************************************)
(* The cache of parsed queries (intent-bus/src/query_cache.rs) and the     *)
(* classification over it (kernel-companion/src/nlp.rs): look up the       *)
(* normalised text, then a similar one, else parse and store.  The lock of *)
(* the cache is taken anew for each of these steps.                        *)
(***************************************************************************)
EXTENDS Naturals, Sequences, FiniteSets, SequencesExt

CONSTANTS Clients, Texts,
          normalize_query,     \* the key of a text
          Similar,             \* pairs of keys whose similarity passes the threshold
          Parse,               \* the command of a text, or NoCommand
          NoCommand,
          cache_capacity,
          Ttl                  \* in units of the clock

ASSUME QueryCacheAssumption ==
  /\ DOMAIN normalize_query = Texts /\ DOMAIN Parse = Texts
  /\ cache_capacity \in Nat \ {0} /\ Ttl \in Nat

VARIABLES
  cache,       \* entries, the least recently used first
  client,      \* what each caller of classify_with_cache does
  answers      \* the last answer of each, with the age of its entry

cacheVars == <<cache, client, answers>>

Keys  == {normalize_query[t] : t \in Texts}
Entry == [key : Keys, text : Texts, age : 0 .. Ttl + 1]

CacheTypeOK ==
  /\ cache \in Seq(Entry) /\ Len(cache) <= cache_capacity
  /\ \A i, j \in DOMAIN cache : i # j => cache[i].key # cache[j].key
  /\ client \in [Clients -> [pc : {"idle", "missed", "parse"}, text : Texts]]
  /\ answers \in [Clients -> SUBSET [asked : Texts, given : Texts, age : 0 .. Ttl + 1]]

CacheInit ==
  /\ cache = <<>>
  /\ client \in [Clients -> [pc : {"idle"}, text : Texts]]
  /\ answers = [c \in Clients |-> {}]

-----------------------------------------------------------------------------
(* Mutant: an entry lives for ever.                                        *)
is_expired_Never(e) == FALSE

is_expired(e) == e.age > Ttl

(* The entries without the expired ones, which are popped one by one.      *)
Fresh ==
  LET kept[i \in 0 .. Len(cache)] ==
        IF i = 0 THEN <<>>
        ELSE IF is_expired(cache[i]) THEN kept[i - 1] ELSE Append(kept[i - 1], cache[i])
  IN  kept[Len(cache)]

Goto(c, pc, t) == client' = [client EXCEPT ![c] = [pc |-> pc, text |-> t]]
Answer(c, t, e) == answers' = [answers EXCEPT ![c] = {[asked |-> t, given |-> e.text, age |-> e.age]}]

Without(s, k) ==
  LET at == {i \in DOMAIN s : s[i].key = k}
  IN  IF at = {} THEN s ELSE RemoveAt(s, CHOOSE i \in at : TRUE)

(* The exact entry: an expired one is taken out, a live one becomes the    *)
(* most recently used.                                                     *)
cache_get(c, t) ==
  LET k == normalize_query[t]
      found == {e \in ToSet(cache) : e.key = k}
  IN /\ client[c].pc = "idle"
     /\ \/ \E e \in found :
             /\ ~is_expired(e)
             /\ cache' = Append(Without(cache, k), e) /\ Answer(c, t, e)
             /\ UNCHANGED client
        \/ /\ \A e \in found : is_expired(e)
           /\ cache' = Without(cache, k) /\ Goto(c, "missed", t)
           /\ UNCHANGED answers

(* The most similar entry that has not expired; it does not become more    *)
(* recently used.                                                          *)
get_similar(c) ==
  LET t == client[c].text
      near == {e \in ToSet(cache) : <<normalize_query[t], e.key>> \in Similar /\ ~is_expired(e)}
  IN /\ client[c].pc = "missed"
     /\ \/ \E e \in near : Answer(c, t, e) /\ Goto(c, "idle", t)
        \/ near = {} /\ Goto(c, "parse", t) /\ UNCHANGED answers
     /\ UNCHANGED cache

(* Mutant: the entry that is replaced stays.                               *)
cache_put_KeepsOld(k, t) ==
  LET kept == IF Len(Fresh) = cache_capacity THEN Tail(Fresh) ELSE Fresh
  IN cache' = Append(kept, [key |-> k, text |-> t, age |-> 0])

(* Every expired entry goes; a full cache drops the least recently used.   *)
cache_put(k, t) ==
  LET others == Without(Fresh, k)
      kept   == IF Len(others) = cache_capacity THEN Tail(others) ELSE others
  IN cache' = Append(kept, [key |-> k, text |-> t, age |-> 0])

(* A text that gives no command is not stored.                             *)
classify(c) ==
  LET t == client[c].text IN
  /\ client[c].pc = "parse" /\ Goto(c, "idle", t)
  /\ IF Parse[t] = NoCommand THEN UNCHANGED <<cache, answers>>
     ELSE cache_put(normalize_query[t], t) /\ Answer(c, t, [text |-> t, age |-> 0])

(* Files indexed or deleted, or a clear: whatever the file, all entries go.*)
handle_invalidation == cache # <<>> /\ cache' = <<>> /\ UNCHANGED <<client, answers>>

gc == cache # Fresh /\ cache' = Fresh /\ UNCHANGED <<client, answers>>

ClockTicks ==
  /\ cache' = [i \in DOMAIN cache |-> [cache[i] EXCEPT !.age = IF @ > Ttl THEN @ ELSE @ + 1]]
  /\ UNCHANGED <<client, answers>>

CacheNext ==
  \/ \E c \in Clients : \/ \E t \in Texts : cache_get(c, t)
                        \/ get_similar(c) \/ classify(c)
  \/ handle_invalidation \/ gc \/ ClockTicks

CacheSpec == CacheInit /\ [][CacheNext]_cacheVars

-----------------------------------------------------------------------------
(* However the callers, the invalidations and the clock interleave, an     *)
(* answer is the command the parser gives for the text itself or for one   *)
(* with the same key or a similar one, out of an entry that had not        *)
(* outlived the time to live, and an answer is never "no command".         *)
AnswersAreParses ==
  \A c \in Clients : \A a \in answers[c] :
    /\ Parse[a.given] # NoCommand /\ a.age <= Ttl
    /\ \/ normalize_query[a.asked] = normalize_query[a.given]
       \/ <<normalize_query[a.asked], normalize_query[a.given]>> \in Similar
=============================================================================
