---------------------------- MODULE AuditVerify ----------------------------
(***************************************************************************)
(* verify-audit (capability-security/src/verify_report.rs, and the command *)
(* in ai-gateway/src/main.rs; ank-cli has it for one file): the chains of  *)
(* hashes of a directory, one for each tenant, are validated while their   *)
(* writer appends to them, and compared with the baseline an earlier run   *)
(* has saved outside the log.  The verifier reads each file twice, and     *)
(* its own file is replaced by truncating and writing it.                  *)
(***************************************************************************)
EXTENDS Naturals, Sequences, FiniteSets, SequencesExt, Functions

CONSTANTS
  Shards,            \* files of tenants
  Bodies,            \* what an entry may say
  MaxEntries, MaxDamage   \* bounds

ASSUME VerifyAssumption == {MaxEntries, MaxDamage} \subseteq Nat

VARIABLES
  shard,        \* the entries of the files that exist
  cached_hash,  \* the hash the gateway goes on from, if it has one in memory
  checkpoint,   \* the baseline file
  verifier,     \* the run under way
  damage        \* how often a file was tampered with

verifyVars == <<shard, cached_hash, checkpoint, verifier, damage>>

\* A hash identifies the entry and, through the previous hash, all before it:
\* it is the sequence of their bodies.
NoHash == <<>>
ApiAuditEntry(prev, body) == [body |-> body, hash |-> Append(prev, body)]
ChainCheckpoint(chain) ==
  [entries |-> Len(chain), last_hash |-> IF chain = <<>> THEN NoHash ELSE Last(chain).hash]

Idle == [pc |-> "idle"]

VerifyInit ==
  /\ shard = <<>> /\ cached_hash = <<>>
  /\ checkpoint = [whole |-> TRUE, chains |-> <<>>]   \* no file is an empty baseline
  /\ verifier = Idle
  /\ damage = 0

With(f, x, value) == [y \in DOMAIN f \cup {x} |-> IF y = x THEN value ELSE f[y]]
LastHash(f) == IF f \in DOMAIN shard THEN ChainCheckpoint(shard[f]).last_hash ELSE NoHash

\* Each entry's hash is that of its body and the hash before it.
Linked(chain) ==
  \A i \in DOMAIN chain :
    chain[i].hash = Append(IF i = 1 THEN NoHash ELSE chain[i - 1].hash, chain[i].body)

-----------------------------------------------------------------------------
(* What happens to the files.                                              *)

\* The gateway records a call: the hash in memory, or else the file's last.
Record(f, body) ==
  /\ f \in DOMAIN shard => Len(shard[f]) < MaxEntries
  /\ LET prev  == IF f \in DOMAIN cached_hash THEN cached_hash[f] ELSE LastHash(f)
         chain == IF f \in DOMAIN shard THEN shard[f] ELSE <<>>
     IN  /\ Len(prev) < MaxEntries
         /\ shard' = With(shard, f, Append(chain, ApiAuditEntry(prev, body)))
         /\ cached_hash' = With(cached_hash, f, Append(prev, body))
  /\ UNCHANGED <<checkpoint, verifier, damage>>

GatewayRestarts ==
  /\ cached_hash # <<>> /\ cached_hash' = <<>>
  /\ UNCHANGED <<shard, checkpoint, verifier, damage>>

Tampering == damage < MaxDamage /\ damage' = damage + 1 /\ UNCHANGED <<cached_hash, checkpoint, verifier>>

\* A line is lost, the last one or one that does not parse any more.
EntryIsLost(f, i) == Tampering /\ shard' = [shard EXCEPT ![f] = RemoveAt(@, i)]

EntryIsEdited(f, i, body) ==
  Tampering /\ body # shard[f][i].body /\ shard' = [shard EXCEPT ![f][i].body = body]

\* A history of the same length that is linked.
HistoryIsRewritten(f, bodies) ==
  /\ Tampering
  /\ shard' = [shard EXCEPT ![f] = [i \in DOMAIN bodies |->
                 [body |-> bodies[i], hash |-> SubSeq(bodies, 1, i)]]]

ShardIsRemoved(f) == Tampering /\ shard' = Restrict(shard, DOMAIN shard \ {f})

-----------------------------------------------------------------------------
(* A run of verify-audit.                                                  *)

FilesOnly == UNCHANGED <<shard, cached_hash, damage>>
Goes(pc) == verifier' = [verifier EXCEPT !.pc = pc]

Run(files, upserts) ==
  [pc |-> "listed", target |-> files, files |-> files, upserts |-> upserts, valid |-> TRUE, baseline |-> <<>>,
   fresh |-> <<>>, current |-> {}, linked |-> TRUE,
   unread |-> FALSE, validated |-> <<>>, since |-> damage]   \* the last three are history

\* ai-gateway: the directory is listed; without a file in it the run fails.
verify_audit ==
  /\ verifier = Idle /\ DOMAIN shard # {}
  /\ verifier' = Run(DOMAIN shard, FALSE)
  /\ FilesOnly /\ UNCHANGED checkpoint

\* ank-cli: one file, whose checkpoint takes its place among those it has
\* loaded; without the file the run fails.
verify_audit_file(f) ==
  /\ verifier = Idle /\ f \in DOMAIN shard
  /\ verifier' = Run({f}, TRUE)
  /\ FilesOnly /\ UNCHANGED checkpoint

\* A baseline that does not parse is warned about, and the run goes on without.
load ==
  /\ verifier.pc = "listed"
  /\ LET loaded == IF checkpoint.whole THEN checkpoint.chains ELSE <<>>
     IN  verifier' = [verifier EXCEPT !.pc = "next", !.baseline = loaded,
                                      !.fresh = IF verifier.upserts THEN loaded ELSE <<>>]
  /\ FilesOnly /\ UNCHANGED checkpoint

\* A file that cannot be read, or not in time, has no entries.
Readings(f) == {shard[f], <<>>}

\* path.exists, and the chain is validated.
validate(f) ==
  /\ verifier.pc = "next" /\ verifier.current = {} /\ f \in verifier.files
  /\ IF f \in DOMAIN shard
     THEN \E chain \in Readings(f) :
            verifier' = [verifier EXCEPT !.current = {f}, !.linked = Linked(chain),
                                         !.validated = With(@, f, Len(chain)),
                                         !.unread = @ \/ chain # shard[f]]
     ELSE verifier' = [verifier EXCEPT !.files = @ \ {f}, !.valid = FALSE,
                                       !.fresh = With(@, f, ChainCheckpoint(<<>>))]
  /\ FilesOnly /\ UNCHANGED checkpoint

\* A bug a rewrite could bring: only the number of entries is compared.
Consistent_ByLength(prev, chain) == Len(chain) >= prev.entries

\* Neither truncated nor rewritten since the baseline was saved.
Consistent(prev, chain) ==
  /\ Len(chain) >= prev.entries
  /\ prev.last_hash = NoHash \/ \E i \in DOMAIN chain : chain[i].hash = prev.last_hash

\* The file is read again, and what it has now is compared with the baseline.
verify_chain_checked(f) ==
  /\ verifier.pc = "next" /\ verifier.current = {f}
  /\ \E chain \in IF f \in DOMAIN shard THEN Readings(f) ELSE {<<>>} :
       LET ok == /\ verifier.linked
                 /\ f \in DOMAIN verifier.baseline => Consistent(verifier.baseline[f], chain)
       IN verifier' = [verifier EXCEPT !.current = {}, !.files = @ \ {f}, !.valid = @ /\ ok,
                                       !.fresh = With(@, f, ChainCheckpoint(chain)),
                                       !.unread = @ \/ (f \in DOMAIN shard /\ chain # shard[f])]
  /\ FilesOnly /\ UNCHANGED checkpoint

\* All chains are reported; a report that cannot be written ends the run, and
\* so does one that is not valid.
report_written ==
  /\ verifier.pc = "next" /\ verifier.files = {}
  /\ IF verifier.valid THEN Goes("saving") ELSE verifier' = Idle
  /\ FilesOnly /\ UNCHANGED checkpoint

\* fs::write truncates the file, then writes it; without room it stays so.
save ==
  /\ verifier.pc = "saving"
  /\ checkpoint' = [whole |-> FALSE, chains |-> <<>>]
  /\ Goes("writing")
  /\ FilesOnly
save_done ==
  /\ verifier.pc = "writing"
  /\ checkpoint' = [whole |-> TRUE, chains |-> verifier.fresh]
  /\ verifier' = Idle
  /\ FilesOnly

\* The process is killed, or a write of its fails.
run_ends_early ==
  /\ verifier # Idle /\ verifier' = Idle
  /\ FilesOnly /\ UNCHANGED checkpoint

VerifyNext ==
  \/ \E f \in Shards, body \in Bodies : Record(f, body)
  \/ GatewayRestarts
  \/ \E f \in DOMAIN shard :
       \/ ShardIsRemoved(f)
       \/ \E i \in DOMAIN shard[f] :
            EntryIsLost(f, i) \/ \E body \in Bodies : EntryIsEdited(f, i, body)
       \/ \E bodies \in [DOMAIN shard[f] -> Bodies] : HistoryIsRewritten(f, bodies)
  \/ verify_audit \/ load \/ report_written \/ save \/ save_done \/ run_ends_early
  \/ \E f \in Shards : verify_audit_file(f) \/ validate(f) \/ verify_chain_checked(f)

VerifySpec == VerifyInit /\ [][VerifyNext]_verifyVars

-----------------------------------------------------------------------------
VerifyTypeOK ==
  /\ \A f \in DOMAIN shard : Len(shard[f]) <= MaxEntries
  /\ DOMAIN cached_hash \subseteq Shards
  /\ DOMAIN checkpoint.chains \subseteq Shards
  /\ verifier.pc \in {"idle", "listed", "next", "saving", "writing"}
  /\ damage \in 0 .. MaxDamage

\* What the baseline covers is still at the head of the file (a baseline of a
\* linked chain, which has as many entries as its hash has bodies).
Intact(f) ==
  LET prev == verifier.baseline[f]
  IN  prev.entries = Len(prev.last_hash) => /\ prev.entries <= Len(shard[f])
      /\ Linked(SubSeq(shard[f], 1, prev.entries))
      /\ ChainCheckpoint(SubSeq(shard[f], 1, prev.entries)) = prev

\* The run validated all that the baseline covers: what the file got between
\* its two readings is compared with the baseline and never validated.
Validated(f) == verifier.baseline[f].entries <= verifier.validated[f]

\* A run that could read the files, which the gateway appends to meanwhile,
\* accepts them only if all that the saved baseline covers, and the run has
\* validated, is still there and unchanged, whatever was lost, edited or
\* rewritten before the run; and files that nobody has tampered with are never
\* reported as truncated or rewritten, however appends, restarts and
\* interrupted saves fall between its steps.
ReportIsRight ==
  verifier # Idle /\ ~verifier.unread =>
    /\ verifier.pc = "saving" /\ verifier.since = damage =>
         \A f \in DOMAIN verifier.baseline \cap verifier.target \cap DOMAIN shard :
           Validated(f) => Intact(f)
    /\ damage = 0 => verifier.valid

\* A baseline is only replaced by one that goes on from it: a broken chain is
\* not made the baseline of the next run.  (Not so: what is saved comes from
\* the second read, and only the first was validated.)
BaselineKept ==
  verifier.pc \in {"saving", "writing"} =>
    \A f \in DOMAIN verifier.baseline \cap DOMAIN verifier.fresh :
      IsPrefix(verifier.baseline[f].last_hash, verifier.fresh[f].last_hash)

\* validate answers with an error when the file cannot be read.
\* (Not so: it is validated as an empty chain, which is linked.)
UnreadIsNotValid ==
  verifier.pc = "next" =>
    \A f \in verifier.current \cap DOMAIN shard :
      damage = 0 \/ (verifier.linked => Linked(shard[f]))

\* With a checkpoint the run finds what was cut off since the last one.
\* (Not so for a file that is gone: the new baseline does not list it.)
ShardsAreRemembered ==
  verifier.pc = "saving" => DOMAIN verifier.baseline \subseteq DOMAIN verifier.fresh

=============================================================================
