----------------------------- MODULE SemanticFs -----------------------------
(***************************************************************************)
(* The semantic file system (context-memory/src/fs.rs) with its vector     *)
(* store (semantic.rs), as the companion runs it (kernel-companion/src/    *)
(* lib.rs): every file command on the bus gets a task of its own, which    *)
(* works on the disk first and on the index after it, with retries.  A     *)
(* call that timed out may still be carried out by the other side, later.  *)
(***************************************************************************)
EXTENDS Naturals, FiniteSets

CONSTANTS FileCommands,       \* bound: the commands that arrive
          Paths, Contents, NoFile,
          chunks,             \* points of a content: 0 for one small enough for one
          MAX_RETRIES

ASSUME FsAssumption ==
  /\ NoFile \notin Contents /\ chunks \in [Contents -> Nat]
  /\ MAX_RETRIES \in Nat \ {0}

VARIABLES
  disk,        \* the content of each path, or NoFile
  points,      \* the points of the index
  task,        \* the task of each command
  late,        \* calls that timed out and may still take effect
  acked        \* ghost: the write of a path reported last, if nothing disturbed it

fsVars == <<disk, points, task, late, acked>>

NoTask == [pc |-> "none"]
Tasks  == {NoTask} \cup [pc : {"received", "index", "done", "failed"}, op : {"write", "delete"},
                         path : Paths, content : Contents, tries : 0 .. MAX_RETRIES,
                         alone : BOOLEAN]
Points == [path : Paths, piece : Nat, content : Contents]
Calls  == [on : {"disk", "index"}, op : {"write", "delete"}, path : Paths, content : Contents]

FsTypeOK ==
  /\ disk \in [Paths -> Contents \cup {NoFile}]
  /\ points \subseteq Points
  /\ task \in [FileCommands -> Tasks]
  /\ late \subseteq Calls
  /\ acked \in [Paths -> SUBSET Contents]

FsInit ==
  /\ disk = [p \in Paths |-> NoFile]
  /\ points = {} /\ late = {}
  /\ task = [c \in FileCommands |-> NoTask]
  /\ acked = [p \in Paths |-> {}]

-----------------------------------------------------------------------------
(* What a call does.  The identifier of a point is a hash of the path and  *)
(* of the number of the chunk (1, 2, ...; 0 is the whole file): an upsert  *)
(* replaces the point of that name and leaves the others; delete_file      *)
(* removes the point of the whole file only.                               *)
PieceNumbers(content) == IF chunks[content] = 0 THEN {0} ELSE 1 .. chunks[content]

index_content(p, content) ==
  {q \in points : q.path # p \/ q.piece \notin PieceNumbers(content)}
  \cup {[path |-> p, piece |-> n, content |-> content] : n \in PieceNumbers(content)}

unindex(p) == {q \in points : q.path # p \/ q.piece # 0}

Indexed(op, p, content) == IF op = "write" THEN index_content(p, content) ELSE unindex(p)
OnDisk(op, p, content)  == [disk EXCEPT ![p] = IF op = "write" THEN content ELSE NoFile]

Call(on, t) == [on |-> on, op |-> t.op, path |-> t.path, content |-> t.content]

Working(p) == {c \in FileCommands : task[c].pc \in {"received", "index"} /\ task[c].path = p}
LateFor(p) == {r \in late : r.path = p}

-----------------------------------------------------------------------------
(* The processor receives a command and spawns its task.                   *)
Receive(c) ==
  /\ task[c] = NoTask
  /\ \E op \in {"write", "delete"}, p \in Paths, content \in Contents :
       /\ task' = [d \in FileCommands |->
                     IF d = c
                     THEN [pc |-> "received", op |-> op, path |-> p, content |-> content,
                           tries |-> 0, alone |-> Working(p) \cup LateFor(p) = {}]
                     ELSE IF d \in Working(p) THEN [task[d] EXCEPT !.alone = FALSE] ELSE task[d]]
       /\ acked' = [acked EXCEPT ![p] = {}]
  /\ UNCHANGED <<disk, points, late>>

(* write or remove_file: the error ends the command; a deletion of a file  *)
(* that is not there goes on to the index.                                 *)
disk_step(c) ==
  LET t == task[c] IN
  /\ t.pc = "received"
  /\ \/ /\ disk' = OnDisk(t.op, t.path, t.content)
        /\ task' = [task EXCEPT ![c].pc = "index"] /\ UNCHANGED late
     \/ /\ task' = [task EXCEPT ![c].pc = "failed"]
        /\ late' \in {late, late \cup {Call("disk", t)}}
        /\ UNCHANGED disk
  /\ UNCHANGED <<points, acked>>

Report(c) ==
  acked' = IF task[c].op = "write" /\ task[c].alone
           THEN [acked EXCEPT ![task[c].path] = {task[c].content}] ELSE acked

(* Mutant: the error of the index is only logged, for writes too.          *)
retry_Lenient(c) ==
  LET t == task[c] IN
  /\ t.pc = "index"
  /\ \/ /\ points' = Indexed(t.op, t.path, t.content)
        /\ task' = [task EXCEPT ![c].pc = "done"] /\ Report(c) /\ UNCHANGED late
     \/ /\ late' \in {late, late \cup {Call("index", t)}}
        /\ IF t.tries + 1 < MAX_RETRIES
           THEN task' = [task EXCEPT ![c].tries = @ + 1] /\ UNCHANGED acked
           ELSE task' = [task EXCEPT ![c].pc = "done"] /\ Report(c)
        /\ UNCHANGED points
  /\ UNCHANGED disk

(* upsert or delete, so many times; when the last attempt fails a write is *)
(* an error and a deletion is a success all the same.                      *)
retry(c) ==
  LET t == task[c] IN
  /\ t.pc = "index"
  /\ \/ /\ points' = Indexed(t.op, t.path, t.content)
        /\ task' = [task EXCEPT ![c].pc = "done"] /\ Report(c) /\ UNCHANGED late
     \/ /\ late' \in {late, late \cup {Call("index", t)}}
        /\ task' = IF t.tries + 1 < MAX_RETRIES THEN [task EXCEPT ![c].tries = @ + 1]
                   ELSE [task EXCEPT ![c].pc = IF t.op = "write" THEN "failed" ELSE "done"]
        /\ UNCHANGED <<points, acked>>
  /\ UNCHANGED disk

(* What timed out takes effect after all.                                  *)
LateEffect(r) ==
  /\ r \in late /\ late' = late \ {r}
  /\ IF r.on = "disk" THEN disk' = OnDisk(r.op, r.path, r.content) /\ UNCHANGED points
     ELSE points' = Indexed(r.op, r.path, r.content) /\ UNCHANGED disk
  /\ acked' = [acked EXCEPT ![r.path] = {}]
  /\ UNCHANGED task

FsNext ==
  \/ \E c \in FileCommands : Receive(c) \/ disk_step(c) \/ retry(c)
  \/ \E r \in late : LateEffect(r)

FsSpec == FsInit /\ [][FsNext]_fsVars

-----------------------------------------------------------------------------
(* search_paths and search_files for a query that is close to a content:   *)
(* the file is read only when it is found.                                 *)
search_paths(content) == {q.path : q \in {r \in points : r.content = content}}

(* A write that was reported, with no other command on its path at work    *)
(* and no call late, is on the disk and is found by what it says.          *)
AckedIsFound ==
  \A p \in Paths : \A content \in acked[p] :
    disk[p] = content /\ p \in search_paths(content)

(* "Delete the file from the disk and its points from Qdrant" (fs.rs:131): *)
(* a deletion that was reported, with no other command at work, leaves no  *)
(* point of the path behind.                                               *)
DeletedIsGone ==
  \A p \in Paths :
    (/\ disk[p] = NoFile /\ late = {}
     /\ \A c \in FileCommands : task[c].pc \in {"none", "done"})
    => \A q \in points : q.path # p
=============================================================================
