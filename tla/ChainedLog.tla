----------------------------- MODULE ChainedLog -----------------------------
(***************************************************************************)
(* The hash-chained audit log: ChainedLog<E> of                            *)
(* crates/capability-security/src/chained_log.rs.                          *)
(*                                                                         *)
(* Logs is the set of ChainedLog values open on ONE file.  Each has its    *)
(* own writer mutex (an asynchronous mutex held for the whole of record,   *)
(* so a log has at most one call in progress), its own file handle and its *)
(* own cached last_hash.  A line reaches the file from a blocking thread:  *)
(* when the call that submitted it gives up (timeout) or is dropped        *)
(* (cancellation), the line still lands, later.                            *)
(*                                                                         *)
(* An entry is the pair of its own hash and the hash it was chained to.    *)
(* Entries are hashed once each, so a hash is named by its call's number;  *)
(* Genesis is the empty string.  Lines that do not parse are skipped by    *)
(* every reader of the file, so the file is the sequence of entries that   *)
(* parse and the state of its last line.                                   *)
(***************************************************************************)
EXTENDS Integers, Sequences, SequencesExt

CONSTANTS Logs,        \* the ChainedLog values open on the file
          MaxEntries,  \* bound: the number of calls of record
          Faults       \* the environment's faults, see FaultKinds

(* "read": reading the tail or probing the last byte fails or times out;   *)
(* "timeout": a write outlasts AUDIT_IO_TIMEOUT; "cancel": the caller's    *)
(* future is dropped.  Write errors, failing opens and crashes of the      *)
(* process are always possible.                                            *)
FaultKinds == {"read", "timeout", "cancel"}

ASSUME ChainedLogAssumption ==
  /\ Logs # {}
  /\ MaxEntries \in Nat
  /\ Faults \subseteq FaultKinds

Genesis == 0
NoHash  == -1
Hashes  == Nat
Entry   == [hash : Hashes, prev : Hashes]
Tails   == {"clean", "torn", "phantom"}
Pc      == {"idle", "tail", "probe", "open", "spawn", "wait"}
Status  == {"waited", "abandoned", "orphan"}

VARIABLES
  file,       \* [entries, tail]: the lines that parse; how the last line ends
  jobs,       \* lines handed to the blocking threads and not yet in the file
  last_hash,  \* per log: the cached hash, or NoHash
  writer,     \* per log: the handle is absent, open, or open with a deferred error
  call,       \* per log: the call of record holding the writer mutex
  next,       \* the next call's number
  acked,      \* hashes of the calls that returned Ok
  disturbed   \* history: a fault has reached the file or what was read of it

vars == <<file, jobs, last_hash, writer, call, next, acked, disturbed>>

File == [entries : Seq(Entry), tail : Tails]
Call == [pc : Pc, hash : Hashes, prev : Hashes, repair : BOOLEAN]
Job == [log : Logs, entry : Entry, repair : BOOLEAN, status : Status]

(* The shapes of the file, of the queued writes and of each ChainedLog.    *)
TypeOK ==
  /\ file \in File
  /\ jobs \subseteq Job
  /\ last_hash \in [Logs -> Hashes \cup {NoHash}]
  /\ writer \in [Logs -> {"none", "open", "failed"}]
  /\ call \in [Logs -> Call]
  /\ next \in Nat \ {0}
  /\ acked \subseteq Nat
  /\ disturbed \in BOOLEAN

-----------------------------------------------------------------------------
(* The file. *)

TailHash(f) ==
  IF f.entries = <<>> THEN Genesis ELSE f.entries[Len(f.entries)].hash

(* Bytes written after a line without newline make that line unreadable.   *)
Unglued(f) ==
  IF f.tail = "phantom" THEN Front(f.entries) ELSE f.entries

WithNewline(f)  == [f EXCEPT !.tail = "clean"]
WithFragment(f) == [entries |-> Unglued(f), tail |-> "torn"]

(* A whole line, ending in its newline (end = "clean") or short of it.     *)
WithLine(f, e, end) ==
  IF f.tail = "clean"
  THEN [entries |-> Append(f.entries, e), tail |-> end]
  ELSE [entries |-> Unglued(f), tail |-> IF end = "clean" THEN "clean" ELSE "torn"]

(* Mutant: the newline that repairs a torn line is not written.            *)
Outcomes_NoRepair(f, j) ==
  { [file |-> f, ok |-> FALSE],
    [file |-> WithFragment(f), ok |-> FALSE],
    [file |-> WithLine(f, j.entry, "phantom"), ok |-> FALSE],
    [file |-> WithLine(f, j.entry, "clean"), ok |-> TRUE] }

(* What one write of a blocking thread may leave: nothing, only the        *)
(* repairing newline, a fragment, the entry without newline, or all of it. *)
Outcomes(f, j) ==
  LET g == IF j.repair THEN WithNewline(f) ELSE f
  IN  { [file |-> f, ok |-> FALSE],
        [file |-> g, ok |-> FALSE],
        [file |-> WithFragment(g), ok |-> FALSE],
        [file |-> WithLine(g, j.entry, "phantom"), ok |-> FALSE],
        [file |-> WithLine(g, j.entry, "clean"), ok |-> TRUE] }

(* validate: every entry that parses is chained to the one before it.      *)
Linked(s) ==
  \A i \in 1 .. Len(s) :
    s[i].prev = IF i = 1 THEN Genesis ELSE s[i - 1].hash

-----------------------------------------------------------------------------
NoCall == [pc |-> "idle", hash |-> 0, prev |-> Genesis, repair |-> FALSE]

Init ==
  /\ file = [entries |-> <<>>, tail |-> "clean"]
  /\ jobs = {}
  /\ last_hash = [l \in Logs |-> NoHash]
  /\ writer = [l \in Logs |-> "none"]
  /\ call = [l \in Logs |-> NoCall]
  /\ next = 1
  /\ acked = {}
  /\ disturbed = FALSE

(* The jobs queued on the handle log l still holds: a new write waits.     *)
OnHandle(l) == {j \in jobs : j.log = l /\ j.status # "orphan"}

Return(l) == call' = [call EXCEPT ![l] = NoCall]

(* Mutant: a failed write forgets the handle only.                         *)
Forget_KeepsHash(l) ==
  /\ writer' = [writer EXCEPT ![l] = "none"]
  /\ UNCHANGED last_hash

(* A failed write forgets the handle and the cache.                        *)
Forget(l) ==
  /\ writer' = [writer EXCEPT ![l] = "none"]
  /\ last_hash' = [last_hash EXCEPT ![l] = NoHash]

WithHash(l) == IF writer[l] = "none" THEN "probe" ELSE "spawn"

(* record takes the writer mutex and the cached hash, if there is one.     *)
Begin(l) ==
  /\ call[l].pc = "idle"
  /\ next <= MaxEntries
  /\ next' = next + 1
  /\ call' = [call EXCEPT ![l] =
       [pc     |-> IF last_hash[l] = NoHash THEN "tail" ELSE WithHash(l),
        hash   |-> next,
        prev   |-> IF last_hash[l] = NoHash THEN Genesis ELSE last_hash[l],
        repair |-> FALSE]]
  /\ UNCHANGED <<file, jobs, last_hash, writer, acked, disturbed>>

(* last_hash_from_file: any failure reads as an empty log.                 *)
ReadTail(l) ==
  /\ call[l].pc = "tail"
  /\ \E h \in {TailHash(file)} \cup (IF "read" \in Faults THEN {Genesis} ELSE {}) :
       /\ last_hash' = [last_hash EXCEPT ![l] = h]
       /\ call' = [call EXCEPT ![l].pc = WithHash(l), ![l].prev = h]
       /\ disturbed' = (disturbed \/ h # TailHash(file))
  /\ UNCHANGED <<file, jobs, writer, next, acked>>

(* ends_without_newline: any failure reads as a clean end.                 *)
Probe(l) ==
  /\ call[l].pc = "probe"
  /\ \E r \in {file.tail # "clean"} \cup (IF "read" \in Faults THEN {FALSE} ELSE {}) :
       /\ call' = [call EXCEPT ![l].pc = "open", ![l].repair = r]
       /\ disturbed' = (disturbed \/ r # (file.tail # "clean"))
  /\ UNCHANGED <<file, jobs, last_hash, writer, next, acked>>

Submit(l) ==
  /\ jobs' = jobs \cup
       {[log    |-> l,
         entry  |-> [hash |-> call[l].hash, prev |-> call[l].prev],
         repair |-> call[l].repair,
         status |-> "waited"]}
  /\ call' = [call EXCEPT ![l].pc = "wait"]

(* Opening for append; the newline that repairs a torn line and the line   *)
(* itself are queued on the new handle.                                    *)
Open(l) ==
  /\ call[l].pc = "open"
  /\ writer' = [writer EXCEPT ![l] = "open"]
  /\ Submit(l)
  /\ UNCHANGED <<file, last_hash, next, acked, disturbed>>

(* The open fails or times out: Err, the cached hash stays.                *)
OpenFails(l) ==
  /\ call[l].pc = "open"
  /\ Return(l)
  /\ UNCHANGED <<file, jobs, last_hash, writer, next, acked, disturbed>>

(* With a handle already open the write waits for the one before it ...    *)
Spawn(l) ==
  /\ call[l].pc = "spawn"
  /\ OnHandle(l) = {}
  /\ writer[l] = "open"
  /\ Submit(l)
  /\ UNCHANGED <<file, last_hash, writer, next, acked, disturbed>>

(* ... and reports the error a dropped call left on the handle.            *)
SpawnFails(l) ==
  /\ call[l].pc = "spawn"
  /\ OnHandle(l) = {}
  /\ writer[l] = "failed"
  /\ Return(l)
  /\ Forget(l)
  /\ UNCHANGED <<file, jobs, next, acked, disturbed>>

(* Mutant: a write that failed is acknowledged like one that did not.      *)
Land_AcksFailure(j) ==
  /\ j.status = "waited"
  /\ \E o \in Outcomes(file, j) :
       /\ file' = o.file
       /\ acked' = acked \cup {j.entry.hash}
       /\ IF o.ok
          THEN /\ last_hash' = [last_hash EXCEPT ![j.log] = j.entry.hash]
               /\ UNCHANGED writer
          ELSE Forget(j.log)
  /\ jobs' = jobs \ {j}
  /\ Return(j.log)
  /\ UNCHANGED <<next, disturbed>>

(* A write ends while its call waits for it: record returns.               *)
Land(j) ==
  /\ j.status = "waited"
  /\ \E o \in Outcomes(file, j) :
       /\ file' = o.file
       /\ IF o.ok
          THEN /\ last_hash' = [last_hash EXCEPT ![j.log] = j.entry.hash]
               /\ acked' = acked \cup {j.entry.hash}
               /\ UNCHANGED writer
          ELSE /\ Forget(j.log)
               /\ UNCHANGED acked
  /\ jobs' = jobs \ {j}
  /\ Return(j.log)
  /\ UNCHANGED <<next, disturbed>>

(* A write ends after its call has gone: nobody learns of it, except that  *)
(* an error stays on a handle that is still open.                          *)
LandLate(j) ==
  /\ j.status # "waited"
  /\ \E o \in Outcomes(file, j) :
       /\ file' = o.file
       /\ disturbed' = (disturbed \/ o.file # file)
       /\ writer' = IF ~o.ok /\ j.status = "abandoned"
                    THEN [writer EXCEPT ![j.log] = "failed"]
                    ELSE writer
  /\ jobs' = jobs \ {j}
  /\ UNCHANGED <<last_hash, call, next, acked>>

Retag(l, s) == {IF j \in OnHandle(l) THEN [j EXCEPT !.status = s] ELSE j : j \in jobs}

(* AUDIT_IO_TIMEOUT on the write: Err(Timeout), the handle is dropped.     *)
Timeout(l) ==
  /\ "timeout" \in Faults
  /\ call[l].pc \in {"spawn", "wait"}
  /\ jobs' = Retag(l, "orphan")
  /\ Return(l)
  /\ Forget(l)
  /\ UNCHANGED <<file, next, acked, disturbed>>

(* The future of the call is dropped at one of its awaits: the mutex is    *)
(* released, the handle and the cached hash stay as they are.              *)
Cancel(l) ==
  /\ "cancel" \in Faults
  /\ call[l].pc # "idle"
  /\ jobs' = Retag(l, "abandoned")
  /\ Return(l)
  /\ UNCHANGED <<file, last_hash, writer, next, acked, disturbed>>

(* The process ends and starts again: only the file survives, with what a  *)
(* write under way has left in it.                                         *)
Crash ==
  /\ \E l \in Logs : call[l].pc # "idle" \/ last_hash[l] # NoHash
  /\ \/ UNCHANGED file
     \/ \E j \in jobs : j.status = "waited" /\ \E o \in Outcomes(file, j) : file' = o.file
  /\ jobs' = {}
  /\ last_hash' = [l \in Logs |-> NoHash]
  /\ writer' = [l \in Logs |-> "none"]
  /\ call' = [l \in Logs |-> NoCall]
  /\ UNCHANGED <<next, acked, disturbed>>

LogStep(l) ==
  \/ Begin(l)
  \/ ReadTail(l)
  \/ Probe(l)
  \/ Open(l)
  \/ OpenFails(l)
  \/ Spawn(l)
  \/ SpawnFails(l)
  \/ Timeout(l)
  \/ Cancel(l)

Next ==
  \/ \E l \in Logs : LogStep(l)
  \/ \E j \in jobs : Land(j)
  \/ \E j \in jobs : LandLate(j)
  \/ Crash

Spec == Init /\ [][Next]_vars

-----------------------------------------------------------------------------
(* Properties. *)

(* ChainedLog::validate answers true: crash-safe append, newline repair    *)
(* and resuming after a restart keep the chain whole, whatever happened.   *)
ChainValid == Linked(file.entries)

(* With a single ChainedLog on the file, crashes, torn lines, write errors *)
(* and failing opens never break the chain: the only causes of a broken    *)
(* one are a line that lands after its call has gone, a tail that could    *)
(* not be read and a torn line that the probe of the last byte missed.     *)
ChainValidUntilDisturbed == disturbed \/ ChainValid

(* An entry for which record returned Ok stays readable in the file: no    *)
(* later torn line, repair or restart swallows it.                         *)
AckedStayUntilDisturbed ==
  disturbed \/ acked \subseteq {file.entries[i].hash : i \in DOMAIN file.entries}

-----------------------------------------------------------------------------
(* What the log promises: see AuditTrail.                                  *)
Trail == INSTANCE AuditTrail
           WITH trail <- [i \in DOMAIN file.entries |-> file.entries[i].hash]

(* Until it is disturbed the log implements an append-only trail in which  *)
(* every acknowledged record has its place and keeps it.                   *)
ImplementsTrail == Trail!Spec
=============================================================================
