------------------------------ MODULE Indexer ------------------------------
(***************************************************************************)
(* The incremental indexer (context-memory/src/indexer.rs): it is told of  *)
(* changes of files, the accumulator makes batches of them, the indexer    *)
(* reads the files of a batch, replaces their points and flushes the       *)
(* manifest, and reports on a bounded channel.  A read, a call of the      *)
(* vector store or a flush may fail; the batch goes on.                    *)
(***************************************************************************)
EXTENDS Naturals, Sequences, FiniteSets, SequencesExt

CONSTANTS Files,
          MaxEdits,            \* bound: versions of a file, and its deletions
          MaxChanges,          \* bound: those of all the files together
          Pieces,              \* the points of a version of a file
          index_batch_size, event_capacity

ASSUME IndexerAssumption ==
  /\ MaxEdits \in Nat /\ index_batch_size \in Nat \ {0} /\ event_capacity \in Nat \ {0}
  /\ Pieces \in [1 .. MaxEdits -> SUBSET Nat]

VARIABLES
  file,        \* the version on the disk, 0 when there is no file
  edits,       \* edits so far
  changes,     \* the change channel
  buffer,      \* of the accumulator
  batches,     \* the batch channel
  work,        \* the batch the indexer is at
  indexed,     \* the points of the vector store
  manifest,    \* in memory: version and points of an indexed file
  flushed,     \* the manifest on the disk
  reports,     \* events nobody has received yet
  up,          \* the daemon is running
  behind,      \* history: files of which a change was not told or not carried
               \*   out, and that have not been indexed as they are since
  littered     \* history: files of which the store may hold unlisted points

indexerVars == <<file, edits, changes, buffer, batches, work, indexed, manifest, flushed,
                 reports, up, behind, littered>>
pipeVars    == <<changes, buffer, batches>>
faultVars   == <<behind, littered>>

Versions == 0 .. MaxEdits
Changes  == [file : Files, deleted : BOOLEAN]
NoWork   == [pc |-> "idle", left |-> <<>>, version |-> 0]
Entries  == [version : Versions, pieces : SUBSET Nat]
Unlisted == [version |-> 0, pieces |-> {}]
IndexPoints == [file : Files, piece : Nat, version : Versions]

IndexerTypeOK ==
  /\ file \in [Files -> Versions] /\ edits \in [Files -> Versions]
  /\ changes \in Seq(Changes) /\ Len(changes) <= 2 * index_batch_size
  /\ buffer \in Seq(Changes) /\ Len(buffer) < index_batch_size
  /\ batches \in Seq(Seq(Changes)) /\ Len(batches) <= 2 * index_batch_size
  /\ work \in [pc : {"idle", "read", "replace", "report"}, left : Seq(Changes), version : Versions]
  /\ indexed \subseteq IndexPoints
  /\ manifest \in [Files -> Entries] /\ flushed \in [Files -> Entries]
  /\ reports \in 0 .. event_capacity
  /\ up \in BOOLEAN
  /\ behind \subseteq Files /\ littered \subseteq Files

IndexerInit ==
  /\ file = [f \in Files |-> 0] /\ edits = [f \in Files |-> 0]
  /\ changes = <<>> /\ buffer = <<>> /\ batches = <<>> /\ work = NoWork
  /\ indexed = {} /\ manifest = [f \in Files |-> Unlisted] /\ flushed = manifest
  /\ reports = 0 /\ up = TRUE /\ behind = {} /\ littered = {}

-----------------------------------------------------------------------------
(* What may be told of a file that has come to version v.  A file that was *)
(* moved away is one that was modified to the watcher, and the watcher     *)
(* itself is dropped when run_file_watcher returns: from then on only what *)
(* the owner notifies is told.                                             *)
Told(f, v) == {<<>>, <<[file |-> f, deleted |-> FALSE]>>} \cup
              (IF v = 0 THEN {<<[file |-> f, deleted |-> TRUE]>>} ELSE {})

(* A file is written, moved away or removed, and the indexer is told (the  *)
(* sender waits while the channel is full), or is not.                     *)
notify_change(f) ==
  /\ up /\ edits[f] < MaxEdits /\ FoldFunction(+, 0, edits) < MaxChanges
  /\ Len(changes) < 2 * index_batch_size
  /\ edits' = [edits EXCEPT ![f] = @ + 1]
  /\ \E v \in {0, edits[f] + 1} : \E told \in Told(f, v) :
       /\ v # file[f] /\ file' = [file EXCEPT ![f] = v]
       /\ changes' = changes \o told
       /\ behind' = IF told = <<>> THEN behind \cup {f} ELSE behind
  /\ UNCHANGED <<buffer, batches, work, indexed, manifest, flushed, reports, up, littered>>

(* Mutant: the batch that becomes full is sent without the last change.    *)
accumulate_OffByOne ==
  /\ up /\ changes # <<>> /\ Len(batches) < 2 * index_batch_size
  /\ changes' = Tail(changes)
  /\ IF Len(buffer) + 1 >= index_batch_size
     THEN buffer' = <<>> /\ batches' = IF buffer = <<>> THEN batches ELSE Append(batches, buffer)
     ELSE buffer' = Append(buffer, Head(changes)) /\ UNCHANGED batches
  /\ UNCHANGED <<file, edits, work, indexed, manifest, flushed, reports, up, faultVars>>

(* The accumulator takes a change; a full buffer is a batch.               *)
accumulate ==
  LET more == Append(buffer, Head(changes)) IN
  /\ up /\ changes # <<>>
  /\ changes' = Tail(changes)
  /\ IF Len(more) >= index_batch_size
     THEN /\ Len(batches) < 2 * index_batch_size
          /\ buffer' = <<>> /\ batches' = Append(batches, more)
     ELSE buffer' = more /\ UNCHANGED batches
  /\ UNCHANGED <<file, edits, work, indexed, manifest, flushed, reports, up, faultVars>>

(* The window has passed; it started with the last batch, not with the     *)
(* first change after it.                                                  *)
window_expires ==
  /\ up /\ buffer # <<>> /\ Len(batches) < 2 * index_batch_size
  /\ batches' = Append(batches, buffer) /\ buffer' = <<>>
  /\ UNCHANGED <<file, edits, changes, work, indexed, manifest, flushed, reports, up, faultVars>>

(* process_batch *)
take_batch ==
  /\ up /\ work.pc = "idle" /\ batches # <<>>
  /\ work' = [pc |-> "read", left |-> Head(batches), version |-> 0]
  /\ batches' = Tail(batches)
  /\ UNCHANGED <<file, edits, changes, buffer, indexed, manifest, flushed, reports, up, faultVars>>

Of(f) == {p \in indexed : p.file = f}
Named(f, pieces) == {p \in Of(f) : p.piece \in pieces}

(* A file that is indexed in the version on the disk is behind no longer.  *)
CaughtUp(f, version) == behind' = IF version = file[f] THEN behind \ {f} ELSE behind

(* index_file reads the file as it is now.  One that has gone, or cannot   *)
(* be read in time, is logged, and its change is dropped.                  *)
read_file ==
  LET c == Head(work.left) IN
  /\ up /\ work.pc = "read" /\ work.left # <<>> /\ ~c.deleted
  /\ \/ /\ file[c.file] # 0
        /\ work' = [work EXCEPT !.pc = "replace", !.version = file[c.file]]
        /\ UNCHANGED behind
     \/ /\ work' = [work EXCEPT !.left = Tail(@)]
        /\ behind' = behind \cup {c.file}
  /\ UNCHANGED <<file, edits, pipeVars, indexed, manifest, flushed, reports, up, littered>>

(* A deletion removes the points the manifest lists, then the entry, and   *)
(* is reported (the event waits).  When the store does not confirm that    *)
(* the points have gone, the entry stays and nothing is reported.          *)
delete_file_index ==
  LET f      == Head(work.left).file
      listed == Named(f, manifest[f].pieces)
  IN /\ up /\ work.pc = "read" /\ work.left # <<>> /\ Head(work.left).deleted
     /\ \/ /\ reports < event_capacity /\ reports' = reports + 1
           /\ indexed' = indexed \ listed
           /\ manifest' = [manifest EXCEPT ![f] = Unlisted]
           /\ CaughtUp(f, 0)
        \/ /\ manifest[f].pieces # {}
           /\ indexed' \in {indexed, indexed \ listed}
           /\ behind' = behind \cup {f}
           /\ UNCHANGED <<manifest, reports>>
     /\ work' = [work EXCEPT !.left = Tail(@)]
     /\ UNCHANGED <<file, edits, pipeVars, flushed, up, littered>>

(* The points of a version of a file; the store replaces those of the same *)
(* name.                                                                   *)
Points(f, v)           == {[file |-> f, piece |-> n, version |-> v] : n \in Pieces[v]}
Upserted(points, f, v) == (points \ Named(f, Pieces[v])) \cup Points(f, v)

(* The old points go, the new ones come, the entry follows.  A removal     *)
(* that fails is logged and the rest carried out; an insertion that fails, *)
(* retries and all, leaves the old entry, and the points as the failing    *)
(* calls have left them.                                                   *)
index_file ==
  LET f     == Head(work.left).file
      v     == work.version
      stale == Named(f, manifest[f].pieces)
  IN /\ up /\ work.pc = "replace"
     /\ \E kept \in {{}, stale} :
          LET rest == (indexed \ stale) \cup kept IN
          \/ /\ indexed' = Upserted(rest, f, v)
             /\ manifest' = [manifest EXCEPT ![f] = [version |-> v, pieces |-> Pieces[v]]]
             /\ CaughtUp(f, v)
             /\ littered' = IF kept = {} THEN littered ELSE littered \cup {f}
          \/ /\ indexed' \in {rest, Upserted(rest, f, v)}
             /\ behind' = behind \cup {f}
             /\ littered' = IF indexed' = rest THEN littered ELSE littered \cup {f}
             /\ UNCHANGED manifest
     /\ work' = [work EXCEPT !.pc = "read", !.left = Tail(@)]
     /\ UNCHANGED <<file, edits, pipeVars, flushed, reports, up>>

(* The end of the batch: flush, which may fail and be logged, then report  *)
(* what was indexed.                                                       *)
flush ==
  /\ up /\ work.pc = "read" /\ work.left = <<>>
  /\ flushed' \in {flushed, manifest}
  /\ work' = [work EXCEPT !.pc = "report"]
  /\ UNCHANGED <<file, edits, pipeVars, indexed, manifest, reports, up, faultVars>>

report_indexed ==
  /\ up /\ work.pc = "report" /\ reports < event_capacity
  /\ reports' \in {reports, reports + 1} /\ work' = NoWork
  /\ UNCHANGED <<file, edits, pipeVars, indexed, manifest, flushed, up, faultVars>>

recv_event ==
  /\ reports > 0 /\ reports' = reports - 1
  /\ UNCHANGED <<file, edits, pipeVars, work, indexed, manifest, flushed, up, faultVars>>

-----------------------------------------------------------------------------
(* shutdown aborts the tasks, whatever they are at, and flushes the        *)
(* manifest; a crash does not flush.                                       *)
IndexerStops ==
  /\ up /\ up' = FALSE /\ flushed' \in {flushed, manifest}
  /\ changes' = <<>> /\ buffer' = <<>> /\ batches' = <<>> /\ work' = NoWork /\ reports' = 0
  /\ UNCHANGED <<file, edits, indexed, manifest, faultVars>>

(* A new start loads the manifest, and scans nothing.                      *)
start ==
  /\ ~up /\ up' = TRUE /\ manifest' = flushed
  /\ UNCHANGED <<file, edits, pipeVars, work, indexed, flushed, reports, faultVars>>

IndexerNext ==
  \/ \E f \in Files : notify_change(f)
  \/ accumulate \/ window_expires \/ take_batch
  \/ read_file \/ delete_file_index \/ index_file \/ flush \/ report_indexed \/ recv_event
  \/ IndexerStops \/ start

(* The tasks run, the window is a timer, and the owner receives events.    *)
IndexerFairness ==
  /\ WF_indexerVars(accumulate \/ window_expires)
  /\ WF_indexerVars(\/ take_batch \/ read_file \/ delete_file_index \/ index_file
                    \/ flush \/ report_indexed)
  /\ WF_indexerVars(recv_event)

IndexerSpec == IndexerInit /\ [][IndexerNext]_indexerVars /\ IndexerFairness

-----------------------------------------------------------------------------
(* What the store is to hold of a file, and what the manifest lists of it. *)
Present(f) == IF file[f] = 0 THEN {} ELSE Points(f, file[f])
Listed(f)  == {[file |-> f, piece |-> n, version |-> manifest[f].version] : n \in manifest[f].pieces}

(* While the daemon runs, the entry of a file goes to no older version: a  *)
(* batch that was accumulated before newer ones reads the file as it is.   *)
IndexedForward ==
  [][up /\ up' => \A f \in Files :
       manifest'[f].version = 0 \/ manifest'[f].version >= manifest[f].version]_indexerVars

(* The manifest lists the points of a file, in the version they have: all  *)
(* of them but where a removal failed or an insertion that was given up    *)
(* had been carried out, and no other but where a change was not carried   *)
(* out and no later one has made up for it.  What fails for one file       *)
(* leaves the others as they are.  A restart may lose entries, so that     *)
(* this is about a daemon that runs on (ExactWhileUp).                     *)
ManifestIsExact ==
  \A f \in Files : /\ f \notin littered => Of(f) \subseteq Listed(f)
                   /\ f \notin behind => Listed(f) \subseteq Of(f)

ExactWhileUp == []up => []ManifestIsExact

(* Through the batching, and though a change is processed after newer ones *)
(* were made, every file ends up indexed in the version it has when the    *)
(* edits are over, and without a point of an older one unless a removal    *)
(* failed: every file, that is, but those whose last changes were not told *)
(* or not carried out.  A failure is made up for by the next change of the *)
(* file, and costs no other file anything; restarts aside, which lose the  *)
(* changes under way.                                                      *)
FilesAreIndexed ==
  ([]up /\ <>[][FALSE]_edits) =>
    <>[](\A f \in Files \ behind : /\ Present(f) \subseteq Of(f)
                                  /\ f \notin littered => Of(f) \subseteq Present(f))
=============================================================================
