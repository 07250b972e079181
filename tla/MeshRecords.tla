---------------------------- MODULE MeshRecords ----------------------------
(***************************************************************************)
(* The replicated records of the mesh (context-memory/src/p2p_mesh.rs):    *)
(* sync_record writes locally and broadcasts, on_message merges what other *)
(* nodes send by trust, version and owner, fetch_record asks every peer    *)
(* for a key this node does not have.  Keys do not interact, so there is   *)
(* one.  A value is the number of its write.                               *)
(***************************************************************************)
EXTENDS Integers, Sequences, FiniteSets

CONSTANTS MeshNodes,
          skew,           \* how far the clock of a node is ahead
          before,         \* the order of the node identifiers
          Scores,         \* trust scores that are given (100 is the initial one)
          MaxWrites, MaxNow,
          MaxDisturbed    \* bound: fetches, broken links and scores set

ASSUME MeshAssumption ==
  /\ IsFiniteSet(MeshNodes) /\ skew \in [MeshNodes -> Nat]
  /\ before \in [MeshNodes -> Nat]
  /\ Scores \subseteq 0 .. 100
  /\ {MaxWrites, MaxNow, MaxDisturbed} \subseteq Nat

VARIABLES
  now,            \* epoch milliseconds
  record,         \* records of each node: at most one, for the key
  writing,        \* calls of sync_record under way, at each node
  written,         \* ghost: the version every write was given
  link,           \* messages from a node to another, in order
  fetch, asked,   \* pending_fetches: the request that is waited for; requests so far
  trust,          \* trust_score a node gives to another
  disturbed,      \* ghost: links that broke, scores that were set
  orderly         \* ghost: so far the writes came one by one, nothing was lost or fetched

meshVars == <<now, record, writing, written, link, fetch, asked, trust, disturbed, orderly>>

Versions == 0 .. MaxNow + 10
MeshRecord == [value : 1 .. MaxWrites, owner : MeshNodes, version : Versions]
Requests   == 1 .. MaxDisturbed

MeshTypeOK ==
  /\ now \in 0 .. MaxNow /\ written \in Seq(Versions) /\ disturbed \in 0 .. MaxDisturbed
  /\ \A n \in MeshNodes : record[n] \subseteq MeshRecord /\ Cardinality(record[n]) <= 1
  /\ writing \in [MeshNodes -> SUBSET [pc : {"stamped", "stored"}, rec : MeshRecord]]
  /\ fetch \in [MeshNodes -> {0} \cup Requests] /\ asked \in 0 .. MaxDisturbed
  /\ trust \in [MeshNodes -> [MeshNodes -> Scores \cup {100}]]
  /\ orderly \in BOOLEAN

MeshInit ==
  /\ now = 0 /\ written = <<>> /\ disturbed = 0 /\ orderly = TRUE
  /\ record = [n \in MeshNodes |-> {}]
  /\ writing = [n \in MeshNodes |-> {}]
  /\ link = [n \in MeshNodes |-> [m \in MeshNodes |-> <<>>]]
  /\ fetch = [n \in MeshNodes |-> 0] /\ asked = 0
  /\ trust = [n \in MeshNodes |-> [m \in MeshNodes |-> 100]]

now_millis(n) == now + skew[n]

MillisPass == now < MaxNow /\ now' = now + 1
              /\ UNCHANGED <<record, writing, written, link, fetch, asked, trust, disturbed, orderly>>

(* To every peer whose trust has not fallen below 50: set_trust_score      *)
(* drops the sender of such a peer.                                        *)
broadcast_message(n, msg) ==
  [link EXCEPT ![n] = [m \in MeshNodes |->
     IF m # n /\ trust[n][m] >= 50 THEN Append(link[n][m], msg) ELSE link[n][m]]]

-----------------------------------------------------------------------------
(* sync_record takes the version, waits for the lock, stores whatever is   *)
(* there, and broadcasts without the lock.                                 *)
\* For the ghost orderly: the version is after every version there is.
Latest(version) ==
  \A m \in MeshNodes : /\ \A r \in record[m] : r.version < version
                       /\ \A w \in writing[m] : w.rec.version < version

sync_record(n) ==
  LET rec == [value |-> Len(written) + 1, owner |-> n, version |-> now_millis(n)] IN
  /\ Len(written) < MaxWrites /\ written' = Append(written, now_millis(n))
  /\ writing' = [writing EXCEPT ![n] = @ \cup {[pc |-> "stamped", rec |-> rec]}]
  /\ orderly' = (orderly /\ writing[n] = {} /\ Latest(rec.version))
  /\ UNCHANGED <<now, record, link, fetch, asked, trust, disturbed>>

store(n, w) ==
  /\ w \in writing[n] /\ w.pc = "stamped"
  /\ record' = [record EXCEPT ![n] = {w.rec}]
  /\ writing' = [writing EXCEPT ![n] = (@ \ {w}) \cup {[w EXCEPT !.pc = "stored"]}]
  /\ orderly' = (orderly /\ \A r \in record[n] : r.version < w.rec.version)
  /\ UNCHANGED <<now, written, link, fetch, asked, trust, disturbed>>

broadcast(n, w) ==
  /\ w \in writing[n] /\ w.pc = "stored"
  /\ link' = broadcast_message(n, [type |-> "RecordSync", rec |-> w.rec])
  /\ writing' = [writing EXCEPT ![n] = @ \ {w}]
  /\ UNCHANGED <<now, record, written, fetch, asked, trust, disturbed, orderly>>

-----------------------------------------------------------------------------
(* Mutant: the version decides only when it is equal.                      *)
should_update_FirstStays(n, new, old) ==
  \/ trust[n][new.owner] > trust[n][old.owner]
  \/ trust[n][new.owner] = trust[n][old.owner] /\ new.version = old.version
     /\ before[new.owner] < before[old.owner]

(* The conflict model: trust of the owner, then the version, then the      *)
(* smaller owner.                                                          *)
should_update(n, new, old) ==
  LET t == trust[n][new.owner]  u == trust[n][old.owner] IN
  \/ t > u
  \/ t = u /\ new.version > old.version
  \/ t = u /\ new.version = old.version /\ before[new.owner] < before[old.owner]

(* A message is handled when its sender is trusted, and so is the owner of *)
(* what it brings.                                                         *)
Takes(m, n) ==
  /\ link[m][n] # <<>>
  /\ link' = [link EXCEPT ![m][n] = Tail(@)]

on_record_sync(n, m) ==
  LET msg == Head(link[m][n]) IN
  /\ Takes(m, n) /\ msg.type = "RecordSync"
  /\ record' = [record EXCEPT ![n] =
       IF trust[n][m] >= 50 /\ trust[n][msg.rec.owner] >= 50
          /\ \A old \in @ : should_update(n, msg.rec, old)
       THEN {msg.rec} ELSE @]
  /\ UNCHANGED <<now, writing, written, fetch, asked, trust, disturbed, orderly>>

(* The answer goes to the asking node, with the value as it is now.        *)
on_fetch_request(n, m) ==
  LET msg == Head(link[m][n])
      answer == [type |-> "RecordFetchResponse", request |-> msg.request, found |-> record[n]]
  IN
  /\ link[m][n] # <<>> /\ msg.type = "RecordFetchRequest"
  /\ link' = [link EXCEPT ![m][n] = Tail(@),
                          ![n][m] = IF trust[n][m] >= 50 THEN Append(@, answer) ELSE @]
  /\ UNCHANGED <<now, record, writing, written, fetch, asked, trust, disturbed, orderly>>

(* The value is stored with the answering node as its owner and the time   *)
(* as its version, whether or not the fetch still waits; the first answer, *)
(* also one without a value, ends the fetch.                               *)
on_fetch_response(n, m) ==
  LET msg == Head(link[m][n])
      trusted == trust[n][m] >= 50
      stores == trusted /\ msg.found # {} /\ \A old \in record[n] : trust[n][m] >= trust[n][old.owner]
  IN
  /\ Takes(m, n) /\ msg.type = "RecordFetchResponse"
  /\ record' = [record EXCEPT ![n] =
       IF stores THEN {[value |-> r.value, owner |-> m, version |-> now_millis(n)] : r \in msg.found}
       ELSE @]
  /\ fetch' = [fetch EXCEPT ![n] = IF trusted /\ @ = msg.request THEN 0 ELSE @]
  /\ orderly' = (orderly /\ ~stores)
  /\ UNCHANGED <<now, writing, written, asked, trust, disturbed>>

fetch_record(n) ==
  /\ record[n] = {} /\ fetch[n] = 0 /\ asked + disturbed < MaxDisturbed
  /\ asked' = asked + 1
  /\ fetch' = [fetch EXCEPT ![n] = asked + 1]
  /\ link' = broadcast_message(n, [type |-> "RecordFetchRequest", request |-> asked + 1])
  /\ UNCHANGED <<now, record, writing, written, trust, disturbed, orderly>>

fetch_times_out(n) ==
  /\ fetch[n] # 0 /\ fetch' = [fetch EXCEPT ![n] = 0]
  /\ UNCHANGED <<now, record, writing, written, link, asked, trust, disturbed, orderly>>

-----------------------------------------------------------------------------
(* A connection ends: what was on its way is lost, and the merge never     *)
(* catches up: nothing repeats a broadcast.                                *)
LinkBreaks(n, m) ==
  /\ asked + disturbed < MaxDisturbed /\ link[n][m] # <<>>
  /\ disturbed' = disturbed + 1
  /\ link' = [link EXCEPT ![n][m] = <<>>]
  /\ orderly' = FALSE
  /\ UNCHANGED <<now, record, writing, written, fetch, asked, trust>>

set_trust_score(n, m, score) ==
  /\ asked + disturbed < MaxDisturbed /\ n # m /\ disturbed' = disturbed + 1
  /\ trust' = [trust EXCEPT ![n][m] = score]
  /\ link' = IF score < 50 THEN [link EXCEPT ![n][m] = <<>>] ELSE link
  /\ orderly' = FALSE
  /\ UNCHANGED <<now, record, writing, written, fetch, asked>>

MeshNext ==
  \/ MillisPass
  \/ \E n \in MeshNodes :
       \/ sync_record(n) \/ fetch_record(n) \/ fetch_times_out(n)
       \/ \E w \in writing[n] : store(n, w) \/ broadcast(n, w)
       \/ \E m \in MeshNodes : \/ on_record_sync(n, m) \/ on_fetch_request(n, m)
                               \/ on_fetch_response(n, m) \/ LinkBreaks(n, m)
                               \/ \E score \in Scores : set_trust_score(n, m, score)

MeshSpec == MeshInit /\ [][MeshNext]_meshVars

-----------------------------------------------------------------------------
(* As long as every write was stamped after all versions there were, none  *)
(* met another write of its node, and nothing was lost, fetched or         *)
(* distrusted: once nothing is on its way, all nodes have the same record, *)
(* in whatever order the broadcasts came.                                  *)
Converged ==
  (/\ orderly
   /\ \A n \in MeshNodes : writing[n] = {} /\ \A m \in MeshNodes : link[n][m] = <<>>)
  => \A n, m \in MeshNodes : record[n] = record[m]

(* "version (epoch millis when written): the higher one wins"              *)
(* (p2p_mesh.rs:98) : what a node receives, with no change of trust, never *)
(* replaces a write by one that was stamped earlier.                       *)
HigherVersionWins ==
  [][\A n \in MeshNodes : \A old \in record[n], new \in record'[n] :
       (writing' = writing /\ trust' = trust) => written[new.value] >= written[old.value]]_meshVars
=============================================================================
