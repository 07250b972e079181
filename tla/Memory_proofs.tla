--------------------------- MODULE Memory_proofs ----------------------------
(***************************************************************************)
(* Proofs about what the companion remembers: the files of SemanticFs, the *)
(* entries of ContextTiers and the answers of QueryCache.                  *)
(***************************************************************************)
EXTENDS SemanticFs, ContextTiers, QueryCache, Counting_proofs

(***************************************************************************)
(* SemanticFs, for every set of commands, paths and contents: a task that  *)
(* is alone on its path leaves disk, index and store in agreement.         *)
(***************************************************************************)
(* The tasks on a path that are still at work.                             *)
AtWork(c, p) == task[c].pc \in {"received", "index"} /\ task[c].path = p

(* A task that is alone on its path has the path to itself: the only late  *)
(* calls for it are its own attempts at the index, so that what it wrote   *)
(* on the disk is there until it reports.                                  *)
AloneOK(c) ==
  task[c].pc \in {"received", "index"} /\ task[c].alone =>
    /\ \A d \in FileCommands : AtWork(d, task[c].path) => d = c
    /\ \A r \in late : r.path = task[c].path => task[c].pc = "index" /\ r.on = "index"
    /\ task[c].pc = "index" /\ task[c].op = "write" => disk[task[c].path] = task[c].content

(* Nobody is at work on a path whose last report stands.                   *)
AckedOK(p) ==
  acked[p] # {} =>
    /\ \A d \in FileCommands : ~AtWork(d, p)
    /\ \A content \in acked[p] :
         disk[p] = content /\ \E q \in points : q.path = p /\ q.content = content

FsInv ==
  /\ FsTypeOK
  /\ \A c \in FileCommands : AloneOK(c)
  /\ \A p \in Paths : AckedOK(p)

WorkingTasks ==
  [pc : {"received", "index", "done", "failed"}, op : {"write", "delete"},
   path : Paths, content : Contents, tries : 0 .. MAX_RETRIES, alone : BOOLEAN]

LEMMA TasksAre == Tasks = {NoTask} \cup WorkingTasks
  BY DEF Tasks, WorkingTasks

(* What a call of the index does to the points of its path and of others.  *)
LEMMA IndexedPoints ==
  ASSUME FsTypeOK, NEW op \in {"write", "delete"}, NEW p \in Paths, NEW content \in Contents
  PROVE  /\ Indexed(op, p, content) \subseteq Points
         /\ \A q \in points : q.path # p => q \in Indexed(op, p, content)
         /\ op = "write" =>
              \E q \in Indexed(op, p, content) : q.path = p /\ q.content = content
<1>1. PieceNumbers(content) \subseteq Nat /\ PieceNumbers(content) # {}
  <2>1. chunks[content] \in Nat
    BY FsAssumption
  <2>2. chunks[content] # 0 => 1 \in 1 .. chunks[content]
    BY <2>1
  <2>3. QED
    BY <2>1, <2>2 DEF PieceNumbers
<1>2. PICK n \in PieceNumbers(content) : TRUE
  BY <1>1
<1>3. index_content(p, content) \subseteq Points
  BY <1>1 DEF index_content, FsTypeOK, Points
<1>4. \E q \in index_content(p, content) : q.path = p /\ q.content = content
  <2>1. [path |-> p, piece |-> n, content |-> content] \in index_content(p, content)
    BY <1>2 DEF index_content
  <2>2. QED
    BY <2>1
<1>5. unindex(p) \subseteq Points
  BY DEF unindex, FsTypeOK
<1>6. \A q \in points : q.path # p => q \in index_content(p, content) /\ q \in unindex(p)
  BY DEF index_content, unindex
<1>7. QED
  BY <1>3, <1>4, <1>5, <1>6 DEF Indexed

LEMMA FsInvInit == FsInit => FsInv
<1> SUFFICES ASSUME FsInit PROVE FsInv
  OBVIOUS
<1>1. FsTypeOK
  BY DEF FsInit, FsTypeOK, Tasks
<1>2. QED
  BY <1>1 DEF FsInit, FsInv, AloneOK, AckedOK, NoTask

LEMMA FsInvNext == FsInv /\ [FsNext]_fsVars => FsInv'
<1> SUFFICES ASSUME FsInv, [FsNext]_fsVars PROVE FsInv'
  OBVIOUS
<1> USE FsAssumption
<1>t. FsTypeOK
  BY DEF FsInv
<1>1. ASSUME NEW c \in FileCommands, Receive(c) PROVE FsInv'
  <2>1. PICK op \in {"write", "delete"}, p \in Paths, content \in Contents :
          /\ task' = [d \in FileCommands |->
                        IF d = c
                        THEN [pc |-> "received", op |-> op, path |-> p, content |-> content,
                              tries |-> 0, alone |-> Working(p) \cup LateFor(p) = {}]
                        ELSE IF d \in Working(p) THEN [task[d] EXCEPT !.alone = FALSE] ELSE task[d]]
          /\ acked' = [acked EXCEPT ![p] = {}]
    BY <1>1 DEF Receive
  <2>2. UNCHANGED <<disk, points, late>> /\ task[c] = NoTask
    BY <1>1 DEF Receive
  <2> DEFINE t == [pc |-> "received", op |-> op, path |-> p, content |-> content,
                   tries |-> 0, alone |-> Working(p) \cup LateFor(p) = {}]
  <2>3. /\ t \in Tasks /\ t.pc = "received" /\ t.path = p
        /\ t.alone => Working(p) = {} /\ LateFor(p) = {}
    <3>1. t \in Tasks /\ t.pc = "received" /\ t.path = p
      BY DEF Tasks
    <3>2. t.alone = (Working(p) \cup LateFor(p) = {})
      OBVIOUS
    <3> HIDE DEF t
    <3>3. QED
      BY <3>1, <3>2
  <2>4. ASSUME NEW d \in FileCommands, d # c
        PROVE  /\ task'[d] \in Tasks
               /\ task'[d].pc = task[d].pc
               /\ task[d].pc # "none" =>
                    /\ task'[d].path = task[d].path
                    /\ task'[d].op = task[d].op /\ task'[d].content = task[d].content
                    /\ task'[d].alone => task[d].alone /\ d \notin Working(p)
    <3>1. task[d] = NoTask \/ task[d] \in WorkingTasks
      BY <1>t, TasksAre DEF FsTypeOK
    <3>2. CASE d \in Working(p)
      <4>1. task[d] \in WorkingTasks
        BY <3>1, <3>2 DEF Working, NoTask
      <4>2. task'[d] = [task[d] EXCEPT !.alone = FALSE]
        BY <2>1, <2>4, <3>2
      <4>3. QED
        BY <4>1, <4>2, TasksAre DEF WorkingTasks
    <3>3. CASE d \notin Working(p)
      BY <2>1, <2>4, <3>1, <3>3, TasksAre DEF NoTask
    <3>4. QED
      BY <3>2, <3>3
  <2>5. task'[c] = t
    BY <2>1
  <2> HIDE DEF t
  <2>6. FsTypeOK'
    <3>1. task' \in [FileCommands -> Tasks]
      BY <2>1, <2>3, <2>4, <2>5
    <3>2. acked' \in [Paths -> SUBSET Contents]
      BY <1>t, <2>1 DEF FsTypeOK
    <3>3. QED
      BY <1>t, <2>2, <3>1, <3>2 DEF FsTypeOK
  <2>7. \A d \in FileCommands : d # c => \A x : AtWork(d, x)' => AtWork(d, x)
    BY <2>4 DEF AtWork
  <2>8. ASSUME NEW d \in FileCommands PROVE AloneOK(d)'
    <3> SUFFICES ASSUME task'[d].pc \in {"received", "index"}, task'[d].alone
                 PROVE  /\ \A e \in FileCommands : AtWork(e, task[d].path)' => e = d
                        /\ \A r \in late : r.path = task'[d].path =>
                             task'[d].pc = "index" /\ r.on = "index"
                        /\ task'[d].pc = "index" /\ task'[d].op = "write" =>
                             disk[task'[d].path] = task'[d].content
      BY <2>2 DEF AloneOK, AtWork
    <3>1. CASE d = c
      <4>1. Working(p) = {} /\ LateFor(p) = {} /\ task'[c].path = p /\ task'[c].pc = "received"
        BY <2>3, <2>5, <3>1
      <4>2. \A e \in FileCommands : AtWork(e, p)' => e = c
        BY <2>7, <4>1 DEF Working, AtWork
      <4>3. QED
        BY <3>1, <4>1, <4>2 DEF LateFor, AtWork
    <3>2. CASE d # c
      <4>1. task[d].alone /\ task[d].pc = task'[d].pc /\ task[d].path = task'[d].path
            /\ d \notin Working(p) /\ task[d].op = task'[d].op /\ task[d].content = task'[d].content
        BY <2>4, <3>2
      <4>2. task[d].path # p
        BY <4>1 DEF Working
      <4>3. AloneOK(d)
        BY DEF FsInv
      <4>4. ~AtWork(c, task[d].path)'
        BY <2>3, <2>5, <4>1, <4>2 DEF AtWork
      <4>5. QED
        BY <2>7, <4>1, <4>3, <4>4 DEF AloneOK, AtWork
    <3>3. QED
      BY <3>1, <3>2
  <2>9. ASSUME NEW x \in Paths PROVE AckedOK(x)'
    <3>1. CASE x = p
      BY <1>t, <2>1, <3>1 DEF AckedOK, FsTypeOK
    <3>2. CASE x # p
      <4>1. ~AtWork(c, x)'
        BY <2>3, <2>5, <3>2 DEF AtWork
      <4>2. acked'[x] = acked[x] /\ AckedOK(x)
        BY <1>t, <2>1, <3>2 DEF FsTypeOK, FsInv
      <4>3. \A d \in FileCommands : AtWork(d, x)' => AtWork(d, x)
        BY <2>7, <4>1
      <4>4. QED
        BY <2>2, <4>2, <4>3 DEF AckedOK
    <3>3. QED
      BY <3>1, <3>2
  <2>10. QED
    BY <2>6, <2>8, <2>9 DEF FsInv
\* What the steps of a task at work share.
<1>s. ASSUME NEW c \in FileCommands, task[c].pc \in {"received", "index"},
             NEW u \in WorkingTasks, task' = [task EXCEPT ![c] = u],
             u.path = task[c].path, u.op = task[c].op, u.content = task[c].content,
             u.alone = task[c].alone
      PROVE  /\ task[c] \in WorkingTasks
             /\ task' \in [FileCommands -> Tasks]
             /\ task'[c] = u
             /\ \A d \in FileCommands : d # c => task'[d] = task[d]
             /\ \A d \in FileCommands, p \in Paths : AtWork(d, p)' => AtWork(d, p)
             /\ AckedOK(task[c].path) => acked[task[c].path] = {}
  <2>1. task[c] \in WorkingTasks
    BY <1>t, <1>s, TasksAre DEF FsTypeOK, NoTask
  <2>2. task' \in [FileCommands -> Tasks] /\ task'[c] = u
        /\ \A d \in FileCommands : d # c => task'[d] = task[d]
    BY <1>t, <1>s, TasksAre DEF FsTypeOK
  <2>3. \A d \in FileCommands, p \in Paths : AtWork(d, p)' => AtWork(d, p)
    BY <1>s, <2>2 DEF AtWork
  <2>4. AckedOK(task[c].path) => acked[task[c].path] = {}
    BY <1>s DEF AckedOK, AtWork
  <2>5. QED
    BY <2>1, <2>2, <2>3, <2>4
<1>2. ASSUME NEW c \in FileCommands, disk_step(c) PROVE FsInv'
  <2>0. PICK p : p = task[c].path
    OBVIOUS
  <2> USE <2>0
  <2>1. task[c].pc = "received" /\ UNCHANGED <<points, acked>>
    BY <1>2 DEF disk_step
  <2>2. task[c] \in WorkingTasks
    BY <1>t, <2>1, TasksAre DEF FsTypeOK, NoTask
  <2>3. CASE /\ disk' = OnDisk(task[c].op, task[c].path, task[c].content)
             /\ task' = [task EXCEPT ![c].pc = "index"] /\ UNCHANGED late
    <3> DEFINE u == [task[c] EXCEPT !.pc = "index"]
    <3>1. u \in WorkingTasks /\ u.pc = "index" /\ u.path = task[c].path /\ u.op = task[c].op
          /\ u.content = task[c].content /\ u.alone = task[c].alone
      BY <2>2 DEF WorkingTasks
    <3>2. task' = [task EXCEPT ![c] = u]
      BY <2>3
    <3> HIDE DEF u
    <3>3. /\ task' \in [FileCommands -> Tasks]
          /\ task'[c] = u
          /\ \A d \in FileCommands : d # c => task'[d] = task[d]
          /\ \A d \in FileCommands, x \in Paths : AtWork(d, x)' => AtWork(d, x)
      BY <1>s, <2>1, <3>1, <3>2
    <3>4. p \in Paths /\ task[c].content \in Contents /\ task[c].op \in {"write", "delete"}
      BY <2>2 DEF WorkingTasks
    <3>5. /\ disk' \in [Paths -> Contents \cup {NoFile}]
          /\ \A x \in Paths : x # p => disk'[x] = disk[x]
          /\ task[c].op = "write" => disk'[p] = task[c].content
      BY <1>t, <2>3, <3>4 DEF OnDisk, FsTypeOK
    <3>6. FsTypeOK'
      BY <1>t, <2>1, <2>3, <3>3, <3>5 DEF FsTypeOK
    <3>7. ASSUME NEW d \in FileCommands PROVE AloneOK(d)'
      <4> SUFFICES ASSUME task'[d].pc \in {"received", "index"}, task'[d].alone PROVE AloneOK(d)'
        BY DEF AloneOK
      <4>1. CASE d = c
        <5>1. AloneOK(c) /\ task[c].alone
          BY <3>1, <3>3, <4>1 DEF FsInv
        <5>2. \A e \in FileCommands : AtWork(e, p)' => e = c
          BY <2>1, <3>3, <3>4, <5>1 DEF AloneOK
        <5>3. \A r \in late : r.path # p
          BY <2>1, <5>1 DEF AloneOK
        <5>4. QED
          BY <2>3, <3>1, <3>3, <3>5, <4>1, <5>2, <5>3 DEF AloneOK, AtWork
      <4>2. CASE d # c
        <5>1. task'[d] = task[d] /\ AloneOK(d) /\ task[d] \in WorkingTasks
          BY <1>t, <3>3, <4>2, TasksAre DEF FsInv, FsTypeOK, NoTask
        <5>2. task[d].path # p
          BY <2>1, <4>2, <5>1 DEF AloneOK, AtWork
        <5>3. task[d].path \in Paths
          BY <5>1 DEF WorkingTasks
        <5>4. \A e \in FileCommands : AtWork(e, task[d].path)' => e = d
          BY <3>3, <5>1, <5>3 DEF AloneOK
        <5>5. QED
          BY <2>3, <3>5, <5>1, <5>2, <5>3, <5>4 DEF AloneOK, AtWork
      <4>3. QED
        BY <4>1, <4>2
    <3>8. ASSUME NEW x \in Paths PROVE AckedOK(x)'
      <4>1. CASE x = p
        BY <1>s, <2>1, <3>1, <3>2, <4>1 DEF FsInv, AckedOK
      <4>2. CASE x # p
        BY <2>1, <3>3, <3>5, <4>2 DEF FsInv, AckedOK
      <4>3. QED
        BY <4>1, <4>2
    <3>9. QED
      BY <3>6, <3>7, <3>8 DEF FsInv
  <2>4. CASE /\ task' = [task EXCEPT ![c].pc = "failed"]
             /\ late' \in {late, late \cup {Call("disk", task[c])}}
             /\ UNCHANGED disk
    <3> DEFINE u == [task[c] EXCEPT !.pc = "failed"]
    <3>1. u \in WorkingTasks /\ u.pc = "failed" /\ u.path = task[c].path /\ u.op = task[c].op
          /\ u.content = task[c].content /\ u.alone = task[c].alone
      BY <2>2 DEF WorkingTasks
    <3>2. task' = [task EXCEPT ![c] = u]
      BY <2>4
    <3> HIDE DEF u
    <3>3. /\ task' \in [FileCommands -> Tasks]
          /\ task'[c] = u
          /\ \A d \in FileCommands : d # c => task'[d] = task[d]
          /\ \A d \in FileCommands, x \in Paths : AtWork(d, x)' => AtWork(d, x)
      BY <1>s, <2>1, <3>1, <3>2
    <3>4. Call("disk", task[c]) \in Calls /\ Call("disk", task[c]).path = p
      BY <2>2 DEF WorkingTasks, Call, Calls
    <3>5. FsTypeOK'
      BY <1>t, <2>1, <2>4, <3>3, <3>4 DEF FsTypeOK
    <3>6. ASSUME NEW d \in FileCommands PROVE AloneOK(d)'
      <4> SUFFICES ASSUME task'[d].pc \in {"received", "index"}, task'[d].alone PROVE AloneOK(d)'
        BY DEF AloneOK
      <4>1. d # c
        BY <3>1, <3>3
      <4>2. task'[d] = task[d] /\ AloneOK(d) /\ task[d] \in WorkingTasks
        BY <1>t, <3>3, <4>1, TasksAre DEF FsInv, FsTypeOK, NoTask
      <4>3. task[d].path # p
        BY <2>1, <4>1, <4>2 DEF AloneOK, AtWork
      <4>4. \A e \in FileCommands : AtWork(e, task[d].path)' => e = d
        BY <3>3, <4>2 DEF AloneOK, WorkingTasks
      <4>5. QED
        BY <2>4, <3>4, <4>2, <4>3, <4>4 DEF AloneOK, AtWork
    <3>7. ASSUME NEW x \in Paths PROVE AckedOK(x)'
      BY <2>1, <2>4, <3>3 DEF FsInv, AckedOK
    <3>8. QED
      BY <3>5, <3>6, <3>7 DEF FsInv
  <2>5. QED
    BY <1>2, <2>3, <2>4 DEF disk_step
<1>3. ASSUME NEW c \in FileCommands, retry(c) PROVE FsInv'
  <2>0. PICK p : p = task[c].path
    OBVIOUS
  <2> USE <2>0
  <2>1. task[c].pc = "index" /\ disk' = disk
    BY <1>3 DEF retry
  <2>2. task[c] \in WorkingTasks
    BY <1>t, <2>1, TasksAre DEF FsTypeOK, NoTask
  <2>3. p \in Paths /\ task[c].content \in Contents /\ task[c].op \in {"write", "delete"}
    BY <2>2 DEF WorkingTasks
  <2>o. ASSUME NEW u \in WorkingTasks, task' = [task EXCEPT ![c] = u],
               u.path = task[c].path, u.op = task[c].op, u.content = task[c].content,
               u.alone = task[c].alone, u.pc \in {"index", "done", "failed"},
               late' \in {late, late \cup {Call("index", task[c])}}
        PROVE  late' \subseteq Calls /\ \A d \in FileCommands : AloneOK(d)'
    <3>1. /\ task' \in [FileCommands -> Tasks]
          /\ task'[c] = u
          /\ \A d \in FileCommands : d # c => task'[d] = task[d]
          /\ \A d \in FileCommands, x \in Paths : AtWork(d, x)' => AtWork(d, x)
      BY <1>s, <2>1, <2>o
    <3>2. /\ Call("index", task[c]) \in Calls /\ Call("index", task[c]).path = p
          /\ Call("index", task[c]).on = "index"
      BY <2>2 DEF WorkingTasks, Call, Calls
    <3>3. ASSUME NEW d \in FileCommands, task'[d].pc \in {"received", "index"}, task'[d].alone
          PROVE  AloneOK(d)'
      <4>1. CASE d = c
        <5>1. AloneOK(c) /\ task[c].alone /\ u.pc = "index"
          BY <2>o, <3>1, <3>3, <4>1 DEF FsInv
        <5>2. \A e \in FileCommands : AtWork(e, p)' => e = c
          BY <2>1, <2>3, <3>1, <5>1 DEF AloneOK
        <5>3. \A r \in late' : r.path = p => r.on = "index"
          BY <2>1, <2>o, <3>2, <5>1 DEF AloneOK
        <5>4. task[c].op = "write" => disk[p] = task[c].content
          BY <2>1, <5>1 DEF AloneOK
        <5>5. QED
          BY <2>1, <2>o, <3>1, <4>1, <5>1, <5>2, <5>3, <5>4 DEF AloneOK, AtWork
      <4>2. CASE d # c
        <5>1. task'[d] = task[d] /\ AloneOK(d) /\ task[d] \in WorkingTasks
          BY <1>t, <3>1, <3>3, <4>2, TasksAre DEF FsInv, FsTypeOK, NoTask
        <5>2. task[d].path # p
          BY <2>1, <3>3, <4>2, <5>1 DEF AloneOK, AtWork
        <5>3. \A e \in FileCommands : AtWork(e, task[d].path)' => e = d
          BY <3>1, <3>3, <5>1 DEF AloneOK, WorkingTasks
        <5>4. QED
          BY <2>1, <2>o, <3>2, <3>3, <5>1, <5>2, <5>3 DEF AloneOK, AtWork
      <4>3. QED
        BY <4>1, <4>2
    <3>4. late' \subseteq Calls
      BY <1>t, <2>o, <3>2 DEF FsTypeOK
    <3>5. QED
      BY <3>3, <3>4 DEF AloneOK
  <2>4. CASE /\ points' = Indexed(task[c].op, task[c].path, task[c].content)
             /\ task' = [task EXCEPT ![c].pc = "done"] /\ Report(c) /\ UNCHANGED late
    <3> DEFINE u == [task[c] EXCEPT !.pc = "done"]
    <3>1. u \in WorkingTasks /\ u.pc = "done" /\ u.path = task[c].path /\ u.op = task[c].op
          /\ u.content = task[c].content /\ u.alone = task[c].alone
      BY <2>2 DEF WorkingTasks
    <3>2. task' = [task EXCEPT ![c] = u]
      BY <2>4
    <3> HIDE DEF u
    <3>3. /\ task' \in [FileCommands -> Tasks]
          /\ task'[c] = u
          /\ \A d \in FileCommands : d # c => task'[d] = task[d]
          /\ \A d \in FileCommands, x \in Paths : AtWork(d, x)' => AtWork(d, x)
          /\ acked[p] = {}
      BY <1>s, <2>1, <2>3, <3>1, <3>2 DEF FsInv
    <3>4. /\ points' \subseteq Points
          /\ \A q \in points : q.path # p => q \in points'
          /\ task[c].op = "write" => \E q \in points' : q.path = p /\ q.content = task[c].content
      BY <1>t, <2>3, <2>4, IndexedPoints
    <3>5. late' \subseteq Calls /\ \A d \in FileCommands : AloneOK(d)'
      BY <2>4, <2>o, <3>1, <3>2
    <3>6. /\ acked' \in [Paths -> SUBSET Contents]
          /\ \A x \in Paths : x # p => acked'[x] = acked[x]
          /\ acked'[p] = {} \/ (acked'[p] = {task[c].content} /\ task[c].op = "write" /\ task[c].alone)
      BY <1>t, <2>3, <2>4, <3>3 DEF Report, FsTypeOK
    <3>7. FsTypeOK'
      BY <1>t, <2>1, <3>3, <3>4, <3>5, <3>6 DEF FsTypeOK
    <3>8. ASSUME NEW x \in Paths PROVE AckedOK(x)'
      <4>1. CASE x = p
        <5>1. CASE acked'[p] = {}
          BY <4>1, <5>1 DEF AckedOK
        <5>2. CASE acked'[p] = {task[c].content} /\ task[c].op = "write" /\ task[c].alone
          <6>1. /\ \A d \in FileCommands : AtWork(d, p) => d = c
                /\ disk[p] = task[c].content
            BY <2>1, <5>2 DEF FsInv, AloneOK
          <6>2. \A d \in FileCommands : ~AtWork(d, p)'
            BY <2>3, <3>1, <3>3, <6>1 DEF AtWork
          <6>3. QED
            BY <2>1, <3>4, <4>1, <5>2, <6>1, <6>2 DEF AckedOK
        <5>3. QED
          BY <3>6, <5>1, <5>2
      <4>2. CASE x # p
        BY <2>1, <3>3, <3>4, <3>6, <4>2 DEF FsInv, AckedOK
      <4>3. QED
        BY <4>1, <4>2
    <3>9. QED
      BY <3>5, <3>7, <3>8 DEF FsInv
  <2>5. CASE /\ late' \in {late, late \cup {Call("index", task[c])}}
             /\ task' = IF task[c].tries + 1 < MAX_RETRIES THEN [task EXCEPT ![c].tries = @ + 1]
                        ELSE [task EXCEPT ![c].pc = IF task[c].op = "write" THEN "failed" ELSE "done"]
             /\ UNCHANGED <<points, acked>>
    <3>1. PICK u \in WorkingTasks :
            /\ task' = [task EXCEPT ![c] = u]
            /\ u.path = task[c].path /\ u.op = task[c].op /\ u.content = task[c].content
            /\ u.alone = task[c].alone /\ u.pc \in {"index", "done", "failed"}
      <4>1. CASE task[c].tries + 1 < MAX_RETRIES
        <5> DEFINE u == [task[c] EXCEPT !.tries = @ + 1]
        <5>1. u \in WorkingTasks
          BY <2>2, <4>1 DEF WorkingTasks
        <5>2. task' = [task EXCEPT ![c] = u]
          BY <2>5, <4>1
        <5>3. /\ u.path = task[c].path /\ u.op = task[c].op /\ u.content = task[c].content
              /\ u.alone = task[c].alone /\ u.pc = task[c].pc
          BY <2>2 DEF WorkingTasks
        <5> HIDE DEF u
        <5>4. QED
          BY <2>1, <5>1, <5>2, <5>3
      <4>2. CASE ~(task[c].tries + 1 < MAX_RETRIES)
        <5> DEFINE u == [task[c] EXCEPT !.pc = IF task[c].op = "write" THEN "failed" ELSE "done"]
        <5>1. u \in WorkingTasks
          BY <2>2 DEF WorkingTasks
        <5>2. task' = [task EXCEPT ![c] = u]
          BY <2>5, <4>2
        <5>3. /\ u.path = task[c].path /\ u.op = task[c].op /\ u.content = task[c].content
              /\ u.alone = task[c].alone /\ u.pc \in {"done", "failed"}
          BY <2>2 DEF WorkingTasks
        <5> HIDE DEF u
        <5>4. QED
          BY <5>1, <5>2, <5>3
      <4>3. QED
        BY <4>1, <4>2
    <3>2. /\ task' \in [FileCommands -> Tasks]
          /\ \A d \in FileCommands, x \in Paths : AtWork(d, x)' => AtWork(d, x)
      BY <1>s, <2>1, <3>1
    <3>3. late' \subseteq Calls /\ \A d \in FileCommands : AloneOK(d)'
      BY <2>5, <2>o, <3>1
    <3>4. FsTypeOK'
      BY <1>t, <2>1, <2>5, <3>2, <3>3 DEF FsTypeOK
    <3>5. ASSUME NEW x \in Paths PROVE AckedOK(x)'
      BY <2>1, <2>5, <3>2 DEF FsInv, AckedOK
    <3>6. QED
      BY <3>3, <3>4, <3>5 DEF FsInv
  <2>6. QED
    BY <1>3, <2>4, <2>5 DEF retry
<1>4. ASSUME NEW r \in late, LateEffect(r) PROVE FsInv'
  <2>1. /\ r \in Calls /\ r.path \in Paths /\ r.content \in Contents /\ r.op \in {"write", "delete"}
        /\ late' = late \ {r} /\ task' = task
        /\ acked' = [acked EXCEPT ![r.path] = {}]
    BY <1>t, <1>4 DEF LateEffect, FsTypeOK, Calls
  <2>2. /\ disk' \in [Paths -> Contents \cup {NoFile}]
        /\ \A x \in Paths : x # r.path \/ r.on # "disk" => disk'[x] = disk[x]
    <3>1. CASE r.on = "disk"
      BY <1>t, <1>4, <2>1, <3>1 DEF LateEffect, OnDisk, FsTypeOK
    <3>2. CASE r.on # "disk"
      BY <1>t, <1>4, <3>2 DEF LateEffect, FsTypeOK
    <3>3. QED
      BY <3>1, <3>2
  <2>3. points' \subseteq Points /\ \A q \in points : q.path # r.path => q \in points'
    <3>1. CASE r.on = "disk"
      BY <1>t, <1>4, <3>1 DEF LateEffect, FsTypeOK
    <3>2. CASE r.on # "disk"
      BY <1>t, <1>4, <2>1, <3>2, IndexedPoints DEF LateEffect
    <3>3. QED
      BY <3>1, <3>2
  <2>4. FsTypeOK'
    BY <1>t, <2>1, <2>2, <2>3 DEF FsTypeOK
  <2>5. ASSUME NEW d \in FileCommands PROVE AloneOK(d)'
    <3> SUFFICES ASSUME task[d].pc \in {"received", "index"}, task[d].alone PROVE AloneOK(d)'
      BY <2>1 DEF AloneOK
    <3>1. AloneOK(d) /\ task[d].path \in Paths
      BY <1>t, TasksAre DEF FsInv, FsTypeOK, NoTask, WorkingTasks
    <3>2. disk'[task[d].path] = disk[task[d].path]
      BY <2>2, <3>1 DEF AloneOK
    <3>3. QED
      BY <2>1, <3>1, <3>2 DEF AloneOK, AtWork
  <2>6. ASSUME NEW x \in Paths PROVE AckedOK(x)'
    <3>1. CASE x = r.path
      BY <1>t, <2>1, <3>1 DEF AckedOK, FsTypeOK
    <3>2. CASE x # r.path
      <4>1. acked'[x] = acked[x] /\ disk'[x] = disk[x] /\ AckedOK(x)
        BY <1>t, <2>1, <2>2, <3>2 DEF FsTypeOK, FsInv
      <4>2. QED
        BY <2>1, <2>3, <3>2, <4>1 DEF AckedOK, AtWork
    <3>3. QED
      BY <3>1, <3>2
  <2>7. QED
    BY <2>4, <2>5, <2>6 DEF FsInv
<1>5. CASE UNCHANGED fsVars
  BY <1>t, <1>5 DEF fsVars, FsInv, FsTypeOK, AloneOK, AckedOK, AtWork
<1>6. QED
  BY <1>1, <1>2, <1>3, <1>4, <1>5 DEF FsNext

(* A write that was reported, with no other command on its path at work    *)
(* and no call late, is on the disk and is found by what it says, for all  *)
(* commands, paths, contents, chunk counts and numbers of retries.         *)
THEOREM AckedFound == FsSpec => []AckedIsFound
<1>1. FsSpec => []FsInv
  BY FsInvInit, FsInvNext, PTL DEF FsSpec
<1>2. ASSUME FsInv PROVE AckedIsFound
  <2> SUFFICES ASSUME NEW p \in Paths, NEW content \in acked[p]
               PROVE  disk[p] = content /\ p \in search_paths(content)
    BY DEF AckedIsFound
  <2>1. AckedOK(p)
    BY <1>2 DEF FsInv
  <2>2. PICK q \in points : disk[p] = content /\ q.path = p /\ q.content = content
    BY <2>1 DEF AckedOK
  <2>3. QED
    BY <2>2 DEF search_paths
<1>3. QED
  BY <1>1, <1>2, PTL

-----------------------------------------------------------------------------
(***************************************************************************)
(* ContextTiers, for every set of contexts and workers: what was added and *)
(* not removed stays in a tier or in the hand of a worker that puts it     *)
(* back.                                                                   *)
(***************************************************************************)
(* A key in a list of entries, and in the steps that will put it back.     *)
InList(s, k) == \E i \in DOMAIN s : s[i].key = k
Putting == {"put", "insert", "spill", "settle", "load"}
StepRecord == [op : Ops, key : Contexts, val : 0 .. MaxVersions, at : VRAM .. COLD]
Holds(l, k) == \E i \in DOMAIN l : l[i].key = k /\ l[i].op \in Putting

(* Copies are dropped only by who loads the entry afterwards.              *)
Reloads(l) ==
  \A i \in DOMAIN l : l[i].op = "drop" =>
    \E j \in DOMAIN l : j > i /\ l[j].op = "load" /\ l[j].key = l[i].key

Tiered(k) == \E t \in VRAM .. COLD : InList(tier[t], k)
Somewhere(k) == Tiered(k) \/ InHand(k)

TierTypes ==
  /\ tier \in [VRAM .. COLD -> Seq(Item)]
  /\ worker \in [Workers -> Seq(StepRecord)]
  /\ version \in [Contexts -> 0 .. MaxVersions]
  /\ stored \subseteq Contexts /\ sweeper.at \in VRAM .. COLD
  /\ sweeper.keys \subseteq Contexts /\ sweeper.doing \subseteq Contexts
  /\ DOMAIN sweeper = {"pc", "keys", "doing", "at"}

TiersInv ==
  /\ TierTypes
  /\ \A w \in Workers : Reloads(worker[w])
  /\ \A k \in stored : Somewhere(k)

LEMMA HasIsInList ==
  ASSUME NEW t, NEW k
  PROVE  Has(t, k) <=> InList(tier[t], k)
BY DEF Has, InList, ToSet

LEMMA TiersSuffice == TiersInv => KeyNeverLost
BY HasIsInList DEF TiersInv, KeyNeverLost, Somewhere, Tiered

LEMMA ValueTyped ==
  ASSUME TierTypes, NEW t \in VRAM .. COLD, NEW k, Has(t, k)
  PROVE  k \in Contexts /\ ValueAt(t, k) \in 0 .. MaxVersions
<1>1. ToSet(tier[t]) \subseteq Item
  <2>1. tier[t] \in Seq(Item)
    BY DEF TierTypes
  <2>2. \A i \in DOMAIN tier[t] : tier[t][i] \in Item
    BY <2>1
  <2>3. QED
    BY <2>2 DEF ToSet
<1>2. PICK e \in ToSet(tier[t]) : e.key = k
  BY DEF Has
<1>3. PICK d : d = CHOOSE x \in ToSet(tier[t]) : x.key = k
  OBVIOUS
<1>4. d \in ToSet(tier[t]) /\ d.key = k
  BY <1>2, <1>3
<1>5. QED
  BY <1>1, <1>3, <1>4 DEF ValueAt, Item

-----------------------------------------------------------------------------
(* Lists of entries.                                                       *)
LEMMA Prefixed ==
  ASSUME NEW S, NEW s \in Seq(S), NEW n \in 0 .. Len(s)
  PROVE  /\ SubSeq(s, 1, n) \in Seq(S) /\ Len(SubSeq(s, 1, n)) = n
         /\ \A i \in 1 .. n : SubSeq(s, 1, n)[i] = s[i]
<1>1. n \in Nat /\ Len(s) \in Nat /\ n <= Len(s)
  OBVIOUS
<1>2. CASE n = 0
  BY <1>1, <1>2
<1>3. CASE n # 0
  BY <1>1, <1>3
<1>4. QED
  BY <1>2, <1>3

LEMMA RemovedAt ==
  ASSUME NEW S, NEW s \in Seq(S), NEW i \in 1 .. Len(s)
  PROVE  /\ RemoveAt(s, i) \in Seq(S) /\ Len(RemoveAt(s, i)) = Len(s) - 1
         /\ \A j \in 1 .. Len(s) - 1 : RemoveAt(s, i)[j] = IF j < i THEN s[j] ELSE s[j + 1]
<1>1. PICK n \in Nat : n = Len(s)
  OBVIOUS
<1>2. i \in Nat /\ 1 <= i /\ i <= n
  BY <1>1
<1>3. PICK a, b : a = SubSeq(s, 1, i - 1) /\ b = SubSeq(s, i + 1, n)
  OBVIOUS
<1>4. a \in Seq(S) /\ Len(a) = i - 1 /\ \A j \in 1 .. i - 1 : a[j] = s[j]
  BY <1>1, <1>2, <1>3, Prefixed
<1>5. b \in Seq(S) /\ Len(b) = n - i /\ \A j \in 1 .. n - i : b[j] = s[i + j]
  BY <1>1, <1>2, <1>3
<1>6. a \o b \in Seq(S) /\ Len(a \o b) = n - 1
  BY <1>1, <1>2, <1>4, <1>5
<1>7. ASSUME NEW j \in 1 .. n - 1 PROVE (a \o b)[j] = IF j < i THEN s[j] ELSE s[j + 1]
  <2>1. CASE j < i
    <3>1. j \in 1 .. i - 1
      BY <1>2, <2>1
    <3>2. (a \o b)[j] = a[j]
      BY <1>4, <1>5, <3>1
    <3>3. QED
      BY <1>4, <2>1, <3>1, <3>2
  <2>2. CASE ~ (j < i)
    <3>1. j - (i - 1) \in 1 .. n - i /\ i + (j - (i - 1)) = j + 1
      BY <1>1, <1>2, <2>2
    <3>2. (a \o b)[j] = b[j - (i - 1)]
      BY <1>1, <1>2, <1>4, <1>5, <1>6, <2>2
    <3>3. QED
      BY <1>5, <2>2, <3>1, <3>2
  <2>3. QED
    BY <2>1, <2>2
<1>8. RemoveAt(s, i) = a \o b
  BY <1>1, <1>3 DEF RemoveAt
<1>9. QED
  BY <1>1, <1>6, <1>7, <1>8

LEMMA RemoveAtKeeps ==
  ASSUME NEW s \in Seq(Item), NEW i \in DOMAIN s
  PROVE  /\ RemoveAt(s, i) \in Seq(Item)
         /\ \A j \in DOMAIN s : j # i => InList(RemoveAt(s, i), s[j].key)
<1>1. PICK n \in Nat : n = Len(s)
  OBVIOUS
<1>2. i \in 1 .. n /\ DOMAIN s = 1 .. n
  BY <1>1
<1>3. PICK r : r = RemoveAt(s, i)
  OBVIOUS
<1>4. r \in Seq(Item) /\ Len(r) = n - 1 /\ \A j \in 1 .. n - 1 : r[j] = IF j < i THEN s[j] ELSE s[j + 1]
  BY <1>1, <1>2, <1>3, RemovedAt
<1>5. DOMAIN r = 1 .. n - 1
  BY <1>1, <1>2, <1>4
<1>6. ASSUME NEW j \in 1 .. n, j # i PROVE InList(r, s[j].key)
  <2>1. CASE j < i
    <3>1. j \in 1 .. n - 1 /\ r[j] = s[j]
      BY <1>2, <1>4, <2>1
    <3>2. QED
      BY <1>5, <3>1 DEF InList
  <2>2. CASE j > i
    <3>1. PICK h \in Nat : h = j - 1
      BY <1>2, <2>2
    <3>2. h \in 1 .. n - 1 /\ ~(h < i) /\ h + 1 = j
      BY <1>2, <2>2, <3>1
    <3>3. r[h] = s[j]
      BY <1>4, <3>2
    <3>4. QED
      BY <1>5, <3>2, <3>3 DEF InList
  <2>3. QED
    BY <1>2, <1>6, <2>1, <2>2
<1>7. QED
  BY <1>2, <1>3, <1>4, <1>6

LEMMA RemoveKeeps ==
  ASSUME TierTypes, NEW t \in VRAM .. COLD, NEW k
  PROVE  /\ remove(t, k) \in Seq(Item)
         /\ \A j : j # k /\ InList(tier[t], j) => InList(remove(t, k), j)
<1>1. tier[t] \in Seq(Item)
  BY DEF TierTypes
<1>2. CASE ~Has(t, k)
  BY <1>1, <1>2 DEF remove
<1>3. CASE Has(t, k)
  <2>1. PICK s, i : s = tier[t] /\ i = CHOOSE x \in DOMAIN tier[t] : tier[t][x].key = k
    OBVIOUS
  <2>2. i \in DOMAIN s /\ s[i].key = k
    BY <1>3, <2>1, HasIsInList DEF InList
  <2>3. PICK r : r = RemoveAt(s, i)
    OBVIOUS
  <2>4. r \in Seq(Item) /\ \A j \in DOMAIN s : j # i => InList(r, s[j].key)
    BY <1>1, <2>1, <2>2, <2>3, RemoveAtKeeps
  <2>5. ASSUME NEW j, j # k, InList(s, j) PROVE InList(r, j)
    <3>1. PICK h \in DOMAIN s : s[h].key = j
      BY <2>5 DEF InList
    <3>2. QED
      BY <2>2, <2>4, <2>5, <3>1
  <2>6. remove(t, k) = r
    BY <1>3, <2>1, <2>3 DEF remove
  <2>7. QED
    BY <2>1, <2>4, <2>5, <2>6
<1>4. QED
  BY <1>2, <1>3

LEMMA AppendKey ==
  ASSUME NEW s \in Seq(Item), NEW e \in Item
  PROVE  /\ Append(s, e) \in Seq(Item) /\ Append(s, e) # <<>> /\ InList(Append(s, e), e.key)
         /\ \A j : InList(s, j) => InList(Append(s, e), j)
<1>1. PICK n \in Nat : n = Len(s)
  OBVIOUS
<1>2. PICK a : a = Append(s, e)
  OBVIOUS
<1>3. a \in Seq(Item) /\ a # <<>> /\ DOMAIN a = 1 .. n + 1 /\ a[n + 1] = e /\ \A i \in 1 .. n : a[i] = s[i]
  BY <1>1, <1>2
<1>4. InList(a, e.key)
  <2>1. n + 1 \in DOMAIN a
    BY <1>3
  <2>2. QED
    BY <1>3, <2>1 DEF InList
<1>5. ASSUME NEW j, InList(s, j) PROVE InList(a, j)
  <2>1. PICK i \in DOMAIN s : s[i].key = j
    BY <1>5 DEF InList
  <2>2. i \in 1 .. n /\ i \in DOMAIN a
    BY <1>1, <1>3
  <2>3. QED
    BY <1>3, <2>1, <2>2 DEF InList
<1>6. QED
  BY <1>2, <1>3, <1>4, <1>5

LEMMA InsertKey ==
  ASSUME TierTypes, NEW t \in VRAM .. COLD, NEW e \in Item
  PROVE  /\ insert(t, e) \in Seq(Item) /\ insert(t, e) # <<>> /\ InList(insert(t, e), e.key)
         /\ \A j : InList(tier[t], j) => InList(insert(t, e), j)
<1>1. tier[t] \in Seq(Item)
  BY DEF TierTypes
<1>2. CASE ~Has(t, e.key)
  <2>1. PICK s : s = tier[t]
    OBVIOUS
  <2>2. insert(t, e) = Append(s, e)
    BY <1>2, <2>1 DEF insert
  <2>3. QED
    BY <1>1, <2>1, <2>2, AppendKey
<1>3. CASE Has(t, e.key)
  <2>1. PICK s, r : s = tier[t] /\ r = [i \in DOMAIN s |-> IF s[i].key = e.key THEN e ELSE s[i]]
    OBVIOUS
  <2>2. insert(t, e) = r
    BY <1>3, <2>1 DEF insert
  <2>3. PICK n \in Nat : n = Len(s) /\ DOMAIN s = 1 .. n
    BY <1>1, <2>1
  <2>4. r \in [1 .. n -> Item]
    BY <1>1, <2>1, <2>3
  <2>5. r \in Seq(Item) /\ DOMAIN r = DOMAIN s /\ \A i \in DOMAIN s : r[i].key = s[i].key
    BY <2>1, <2>3, <2>4
  <2>6. \A j : InList(s, j) => InList(r, j)
    BY <2>5 DEF InList
  <2>7. InList(s, e.key)
    BY <1>3, <2>1, HasIsInList
  <2>8. r # <<>>
    BY <2>5, <2>7 DEF InList
  <2>9. QED
    BY <2>1, <2>2, <2>5, <2>6, <2>7, <2>8
<1>4. QED
  BY <1>2, <1>3

LEMMA TailKeys ==
  ASSUME NEW S, NEW s \in Seq(S), s # <<>>
  PROVE  /\ s[1] \in S /\ Tail(s) \in Seq(S)
         /\ \A j : InList(s, j) => s[1].key = j \/ InList(Tail(s), j)
<1>1. PICK n \in Nat : n = Len(s) /\ n # 0
  OBVIOUS
<1>2. PICK r : r = Tail(s)
  OBVIOUS
<1>3. /\ s[1] \in S /\ r \in Seq(S) /\ DOMAIN r = 1 .. n - 1 /\ \A i \in 1 .. n - 1 : r[i] = s[i + 1]
      /\ DOMAIN s = 1 .. n
  BY <1>1, <1>2
<1>4. ASSUME NEW j, InList(s, j), s[1].key # j PROVE InList(r, j)
  <2>1. PICK i \in 1 .. n : s[i].key = j
    BY <1>3, <1>4 DEF InList
  <2>2. PICK h : h = i - 1 /\ h \in 1 .. n - 1 /\ h + 1 = i
    BY <1>1, <1>4, <2>1
  <2>3. r[h].key = j
    BY <1>3, <2>1, <2>2
  <2>4. QED
    BY <1>3, <2>2, <2>3 DEF InList
<1>5. QED
  BY <1>2, <1>3, <1>4

-----------------------------------------------------------------------------
(* A caller goes on: the step at hand is replaced by others.               *)
LEMMA Joins ==
  ASSUME NEW S, NEW s \in Seq(S), NEW t \in Seq(S)
  PROVE  /\ s \o t \in Seq(S) /\ Len(s \o t) = Len(s) + Len(t)
         /\ \A i \in 1 .. Len(s) : (s \o t)[i] = s[i]
  OBVIOUS

LEMMA Joined ==
  ASSUME NEW S, NEW a \in Seq(S), NEW l \in Seq(S), l # <<>>
  PROVE  /\ a \o Tail(l) \in Seq(S) /\ Len(a \o Tail(l)) = Len(a) + Len(l) - 1
         /\ \A i \in 1 .. Len(a) : (a \o Tail(l))[i] = a[i]
         /\ \A i \in 2 .. Len(l) : (a \o Tail(l))[Len(a) + i - 1] = l[i]
<1>1. PICK n \in Nat, m \in Nat : n = Len(l) /\ m = Len(a)
  OBVIOUS
<1>2. n # 0
  BY <1>1
<1>3. PICK r : r = Tail(l)
  OBVIOUS
<1>4. r \in Seq(S) /\ Len(r) = n - 1 /\ \A i \in 1 .. n - 1 : r[i] = l[i + 1]
  BY <1>1, <1>2, <1>3
<1>5. PICK b : b = a \o r
  OBVIOUS
<1>6. b \in Seq(S) /\ Len(b) = m + (n - 1) /\ \A i \in 1 .. m : b[i] = a[i]
  <2>1. r \in Seq(S) /\ Len(r) = n - 1
    BY <1>4
  <2>2. b \in Seq(S) /\ Len(b) = Len(a) + Len(r) /\ \A i \in 1 .. Len(a) : b[i] = a[i]
    BY <1>5, <2>1, Joins
  <2>3. QED
    BY <1>1, <2>1, <2>2
<1>7. \A i \in m + 1 .. m + (n - 1) : b[i] = r[i - m]
  BY <1>1, <1>2, <1>4, <1>5, <1>6
<1>8. ASSUME NEW i \in 2 .. n PROVE b[m + i - 1] = l[i]
  <2>1. PICK h \in Nat : h = i - 1 /\ h \in 1 .. n - 1 /\ h + 1 = i /\ m + i - 1 = m + h /\ m + h - m = h
    BY <1>1, <1>2
  <2>2. m + h \in m + 1 .. m + (n - 1)
    BY <1>1, <1>2, <2>1
  <2>3. b[m + h] = r[h]
    BY <1>7, <2>1, <2>2
  <2>4. r[h] = l[i]
    BY <1>4, <2>1
  <2>5. QED
    BY <2>1, <2>3, <2>4
<1>9. QED
  BY <1>1, <1>2, <1>3, <1>5, <1>6, <1>8

LEMMA GoesOn ==
  ASSUME NEW a \in Seq(StepRecord), NEW l \in Seq(StepRecord), l # <<>>, Reloads(a), Reloads(l)
  PROVE  /\ a \o Tail(l) \in Seq(StepRecord) /\ Reloads(a \o Tail(l))
         /\ \A k : Holds(a, k) => Holds(a \o Tail(l), k)
         /\ \A k : Holds(l, k) => \/ l[1].key = k /\ l[1].op \in Putting
                                  \/ Holds(a \o Tail(l), k)
         /\ l[1].op = "drop" => Holds(a \o Tail(l), l[1].key)
<1>1. PICK n \in Nat, m \in Nat : n = Len(l) /\ m = Len(a)
  OBVIOUS
<1>2. PICK b : b = a \o Tail(l)
  OBVIOUS
<1>3. /\ b \in Seq(StepRecord) /\ Len(b) = m + n - 1 /\ n # 0
      /\ \A i \in 1 .. m : b[i] = a[i]
      /\ \A i \in 2 .. n : b[m + i - 1] = l[i]
  BY <1>1, <1>2, Joined
<1>4. DOMAIN a = 1 .. m /\ DOMAIN l = 1 .. n /\ DOMAIN b = 1 .. m + n - 1
  BY <1>1, <1>3
<1>5. ASSUME NEW i \in 1 .. m PROVE i \in DOMAIN b /\ b[i] = a[i]
  BY <1>1, <1>3, <1>4
<1>6. ASSUME NEW i \in 2 .. n PROVE m + i - 1 \in DOMAIN b /\ b[m + i - 1] = l[i] /\ m + i - 1 > m
  BY <1>1, <1>3, <1>4
<1>7. ASSUME NEW k, Holds(a, k) PROVE Holds(b, k)
  BY <1>4, <1>5, <1>7 DEF Holds
<1>8. ASSUME NEW k, Holds(l, k) PROVE (l[1].key = k /\ l[1].op \in Putting) \/ Holds(b, k)
  <2>1. PICK i \in 1 .. n : l[i].key = k /\ l[i].op \in Putting
    BY <1>4, <1>8 DEF Holds
  <2>2. CASE i = 1
    BY <2>1, <2>2
  <2>3. CASE i # 1
    <3>1. i \in 2 .. n
      BY <1>1, <2>3
    <3>2. QED
      BY <1>6, <2>1, <3>1 DEF Holds
  <2>4. QED
    BY <2>2, <2>3
<1>9. ASSUME l[1].op = "drop" PROVE Holds(b, l[1].key)
  <2>1. 1 \in DOMAIN l
    BY <1>1, <1>3, <1>4
  <2>2. PICK j \in DOMAIN l : j > 1 /\ l[j].op = "load" /\ l[j].key = l[1].key
    BY <1>9, <2>1 DEF Reloads
  <2>3. j \in 2 .. n
    BY <1>1, <1>4, <2>2
  <2>4. QED
    BY <1>6, <2>2, <2>3 DEF Holds, Putting
<1>10. Reloads(b)
  <2>1. SUFFICES ASSUME NEW i \in DOMAIN b, b[i].op = "drop"
                 PROVE  \E j \in DOMAIN b : j > i /\ b[j].op = "load" /\ b[j].key = b[i].key
    BY DEF Reloads
  <2>2. CASE i <= m
    <3>1. i \in 1 .. m /\ b[i] = a[i]
      BY <1>3, <1>4, <2>2
    <3>2. PICK j \in DOMAIN a : j > i /\ a[j].op = "load" /\ a[j].key = a[i].key
      BY <1>4, <2>1, <3>1 DEF Reloads
    <3>3. QED
      BY <1>4, <1>5, <3>1, <3>2
  <2>3. CASE i > m
    <3>1. PICK h \in Nat : h = i - m + 1
      BY <1>1, <1>4, <2>3
    <3>2. h \in 2 .. n /\ m + h - 1 = i
      BY <1>1, <1>4, <2>3, <3>1
    <3>3. b[i] = l[h] /\ h \in DOMAIN l
      BY <1>1, <1>3, <1>4, <3>2
    <3>4. PICK j \in DOMAIN l : j > h /\ l[j].op = "load" /\ l[j].key = l[h].key
      BY <2>1, <3>3 DEF Reloads
    <3>5. j \in 2 .. n /\ m + j - 1 > i
      BY <1>1, <1>4, <3>2, <3>4
    <3>6. QED
      BY <1>6, <3>3, <3>4, <3>5
  <2>4. QED
    BY <1>1, <1>4, <2>2, <2>3
<1>11. QED
  BY <1>2, <1>3, <1>7, <1>8, <1>9, <1>10

\* The lists of the callers, and what they hold, after a step.
Lists == worker \in [Workers -> Seq(StepRecord)] /\ \A w \in Workers : Reloads(worker[w])

LEMMA HeldBy ==
  ASSUME NEW k
  PROVE  InHand(k) <=> \E w \in Workers : Holds(worker[w], k)
BY DEF InHand, Holds, Putting

LEMMA FollowSound ==
  ASSUME TiersInv, NEW w \in Workers, worker[w] # <<>>, NEW a \in Seq(StepRecord), Reloads(a), Follow(w, a)
  PROVE  /\ Lists'
         /\ \A k : Holds(a, k) => InHand(k)'
         /\ \A k : InHand(k) => \/ worker[w][1].key = k /\ worker[w][1].op \in Putting
                                \/ InHand(k)'
         /\ \A k : worker[w][1].op = "drop" /\ worker[w][1].key = k => InHand(k)'
<1>1. PICK l, b : l = worker[w] /\ b = a \o Tail(l)
  OBVIOUS
<1>2. worker \in [Workers -> Seq(StepRecord)] /\ l \in Seq(StepRecord) /\ Reloads(l) /\ l # <<>>
  BY <1>1 DEF TiersInv, TierTypes
<1>3. /\ b \in Seq(StepRecord) /\ Reloads(b)
      /\ \A k : Holds(a, k) => Holds(b, k)
      /\ \A k : Holds(l, k) => (l[1].key = k /\ l[1].op \in Putting) \/ Holds(b, k)
      /\ l[1].op = "drop" => Holds(b, l[1].key)
  BY <1>1, <1>2, GoesOn
<1>4. worker' = [worker EXCEPT ![w] = b]
  BY <1>1 DEF Follow
<1>5. worker'[w] = b /\ \A v \in Workers : v # w => worker'[v] = worker[v]
  BY <1>2, <1>4
<1>6. Lists'
  BY <1>2, <1>3, <1>4, <1>5 DEF Lists, TiersInv
<1>7. \A k : Holds(b, k) => InHand(k)'
  BY <1>5, HeldBy DEF InHand, Holds, Putting
<1>8. ASSUME NEW k, InHand(k) PROVE (l[1].key = k /\ l[1].op \in Putting) \/ InHand(k)'
  <2>1. PICK v \in Workers : Holds(worker[v], k)
    BY <1>8, HeldBy
  <2>2. CASE v = w
    BY <1>1, <1>3, <1>7, <2>1, <2>2
  <2>3. CASE v # w
    BY <1>5, <2>1, <2>3 DEF InHand, Holds, Putting
  <2>4. QED
    BY <2>2, <2>3
<1>9. QED
  BY <1>1, <1>3, <1>6, <1>7, <1>8

\* The usual steps that follow: none, or one that drops nothing.
LEMMA FollowUps ==
  /\ <<>> \in Seq(StepRecord) /\ Reloads(<<>>)
  /\ \A s \in StepRecord : s.op # "drop" => /\ <<s>> \in Seq(StepRecord) /\ Reloads(<<s>>)
                                            /\ s.op \in Putting => Holds(<<s>>, s.key)
<1>1. <<>> \in Seq(StepRecord) /\ Reloads(<<>>)
  <2>1. DOMAIN <<>> = {}
    OBVIOUS
  <2>2. QED
    BY <2>1 DEF Reloads
<1>2. ASSUME NEW s \in StepRecord, s.op # "drop"
      PROVE  /\ <<s>> \in Seq(StepRecord) /\ Reloads(<<s>>)
             /\ s.op \in Putting => Holds(<<s>>, s.key)
  <2>1. PICK l : l = <<s>>
    OBVIOUS
  <2>2. l \in Seq(StepRecord) /\ DOMAIN l = {1} /\ l[1] = s
    BY <2>1
  <2>3. Reloads(l) /\ (s.op \in Putting => Holds(l, s.key))
    BY <1>2, <2>2 DEF Reloads, Holds
  <2>4. QED
    BY <2>1, <2>2, <2>3
<1>3. QED
  BY <1>1, <1>2

\* The store of a tier is replaced by another list.
LEMMA TierChanges ==
  ASSUME TierTypes, NEW t \in VRAM .. COLD, NEW s \in Seq(Item), tier' = [tier EXCEPT ![t] = s]
  PROVE  /\ tier' \in [VRAM .. COLD -> Seq(Item)]
         /\ \A k : InList(s, k) => Tiered(k)'
         /\ \A k : Tiered(k) /\ (InList(tier[t], k) => InList(s, k)) => Tiered(k)'
         /\ \A k : Tiered(k) => InList(tier[t], k) \/ Tiered(k)'
<1>1. /\ tier \in [VRAM .. COLD -> Seq(Item)] /\ tier' \in [VRAM .. COLD -> Seq(Item)]
      /\ tier'[t] = s /\ \A u \in VRAM .. COLD : u # t => tier'[u] = tier[u]
  BY DEF TierTypes
<1>2. QED
  BY <1>1 DEF Tiered

\* What is to be shown of a step that keeps the sweeper and the versions.
LEMMA StepKeeps ==
  ASSUME TiersInv, UNCHANGED <<version, sweeper>>, Lists', tier' \in [VRAM .. COLD -> Seq(Item)],
         NEW S \in SUBSET Contexts, stored' = stored \cup S, \A k \in stored \cup S : Somewhere(k)'
  PROVE  TiersInv'
BY DEF TiersInv, TierTypes, Lists

-----------------------------------------------------------------------------
(* The steps of a caller.                                                  *)
\* The step at hand.
LEMMA AtHand ==
  ASSUME TiersInv, NEW w \in Workers, NEW op, At(w, op)
  PROVE  /\ worker[w] # <<>> /\ worker[w][1] \in StepRecord /\ worker[w][1].op = op
         /\ op = "drop" => worker[w][1].op \notin Putting
<1>1. worker[w] \in Seq(StepRecord) /\ worker[w] # <<>> /\ worker[w][1].op = op
  BY DEF TiersInv, TierTypes, At
<1>2. QED
  BY <1>1 DEF Putting

\* A step that leaves the tiers alone, and whose follow-up holds its key.
LEMMA Waits ==
  ASSUME TiersInv, NEW w \in Workers, worker[w] # <<>>, NEW a \in Seq(StepRecord), Reloads(a), Follow(w, a),
         worker[w][1].op \in Putting => Holds(a, worker[w][1].key),
         UNCHANGED <<tier, version, sweeper, stored>>
  PROVE  TiersInv'
<1>1. /\ Lists'
      /\ \A k : Holds(a, k) => InHand(k)'
      /\ \A k : InHand(k) => (worker[w][1].key = k /\ worker[w][1].op \in Putting) \/ InHand(k)'
  BY FollowSound
<1>2. ASSUME NEW k, InHand(k) PROVE InHand(k)'
  BY <1>1, <1>2
<1>3. \A k \in stored : Somewhere(k)'
  BY <1>2 DEF TiersInv, Somewhere, Tiered
<1>4. QED
  BY <1>1, <1>3 DEF TiersInv, TierTypes, Lists

\* A step after which the tier has all it had but the keys that follow.
LEMMA Moves ==
  ASSUME TiersInv, NEW w \in Workers, worker[w] # <<>>, NEW a \in Seq(StepRecord), Reloads(a), Follow(w, a),
         NEW t \in VRAM .. COLD, NEW s \in Seq(Item), tier' = [tier EXCEPT ![t] = s],
         \A k : InList(tier[t], k) => \/ InList(s, k) \/ Holds(a, k)
                                      \/ worker[w][1].op = "drop" /\ worker[w][1].key = k,
         \A k : worker[w][1].op \in Putting /\ worker[w][1].key = k => InList(s, k) \/ Holds(a, k),
         NEW S \in SUBSET Contexts, stored' = stored \cup S, \A k \in S : InList(s, k) \/ Holds(a, k),
         UNCHANGED <<version, sweeper>>
  PROVE  TiersInv'
<1>1. /\ Lists'
      /\ \A k : Holds(a, k) => InHand(k)'
      /\ \A k : InHand(k) => (worker[w][1].key = k /\ worker[w][1].op \in Putting) \/ InHand(k)'
      /\ \A k : worker[w][1].op = "drop" /\ worker[w][1].key = k => InHand(k)'
  BY FollowSound
<1>2. TierTypes
  BY DEF TiersInv
<1>3. /\ tier' \in [VRAM .. COLD -> Seq(Item)]
      /\ \A k : InList(s, k) => Tiered(k)'
      /\ \A k : Tiered(k) => InList(tier[t], k) \/ Tiered(k)'
  BY <1>2, TierChanges
<1>4. ASSUME NEW k, InList(s, k) \/ Holds(a, k) PROVE Somewhere(k)'
  BY <1>1, <1>3, <1>4 DEF Somewhere
<1>5. ASSUME NEW k, Tiered(k) PROVE Somewhere(k)'
  <2>1. CASE Tiered(k)'
    BY <2>1 DEF Somewhere
  <2>2. CASE InList(tier[t], k)
    <3>1. CASE InList(s, k) \/ Holds(a, k)
      BY <1>4, <3>1
    <3>2. CASE worker[w][1].op = "drop" /\ worker[w][1].key = k
      BY <1>1, <3>2 DEF Somewhere
    <3>3. QED
      BY <2>2, <3>1, <3>2
  <2>3. QED
    BY <1>3, <1>5, <2>1, <2>2
<1>6. ASSUME NEW k, InHand(k) PROVE Somewhere(k)'
  <2>1. CASE InHand(k)'
    BY <2>1 DEF Somewhere
  <2>2. CASE worker[w][1].key = k /\ worker[w][1].op \in Putting
    BY <1>4, <2>2
  <2>3. QED
    BY <1>1, <1>6, <2>1, <2>2
<1>7. \A k \in stored \cup S : Somewhere(k)'
  BY <1>4, <1>5, <1>6 DEF TiersInv, Somewhere
<1>8. QED
  BY <1>1, <1>3, <1>7, StepKeeps

\* Nothing follows.
LEMMA LastMove ==
  ASSUME TiersInv, NEW w \in Workers, worker[w] # <<>>, Done(w),
         NEW t \in VRAM .. COLD, NEW s \in Seq(Item), tier' = [tier EXCEPT ![t] = s],
         \A k : InList(tier[t], k) => \/ InList(s, k)
                                      \/ worker[w][1].op = "drop" /\ worker[w][1].key = k,
         \A k : worker[w][1].op \in Putting /\ worker[w][1].key = k => InList(s, k),
         NEW S \in SUBSET Contexts, stored' = stored \cup S, \A k \in S : InList(s, k),
         UNCHANGED <<version, sweeper>>
  PROVE  TiersInv'
<1>1. PICK a : a = <<>>
  OBVIOUS
<1>2. a \in Seq(StepRecord) /\ Reloads(a) /\ Follow(w, a)
  BY <1>1, FollowUps DEF Done
<1>3. QED
  BY <1>2, Moves

LEMMA InsertHotSound ==
  ASSUME TiersInv, NEW w \in Workers, worker[w] # <<>>, worker[w][1] \in StepRecord,
         InsertHot(w, worker[w][1]), UNCHANGED <<version, sweeper>>
  PROVE  TiersInv'
<1>1. PICK s, hot, e : /\ s = worker[w][1] /\ e = [key |-> s.key, val |-> s.val]
                       /\ hot = insert(HOT, e)
  OBVIOUS
<1>2. e \in Item /\ s.key \in Contexts /\ e.key = s.key
  BY <1>1 DEF StepRecord, Item
<1>3. HOT \in VRAM .. COLD /\ TierTypes
  BY DEF HOT, VRAM, COLD, TiersInv
<1>4. /\ hot \in Seq(Item) /\ hot # <<>> /\ InList(hot, s.key)
      /\ \A j : InList(tier[HOT], j) => InList(hot, j)
  BY <1>1, <1>2, <1>3, InsertKey
<1>5. {s.key} \in SUBSET Contexts /\ stored' = stored \cup {s.key}
  BY <1>1, <1>2 DEF InsertHot
<1>6. CASE Len(hot) > hot_capacity
  <2>1. PICK r, n, a : r = Tail(hot) /\ n = Step("spill", hot[1].key, hot[1].val, WARM) /\ a = <<n>>
    OBVIOUS
  <2>2. tier' = [tier EXCEPT ![HOT] = r] /\ Follow(w, a)
    BY <1>1, <1>6, <2>1 DEF InsertHot
  <2>3. hot[1] \in Item /\ r \in Seq(Item) /\ \A j : InList(hot, j) => hot[1].key = j \/ InList(r, j)
    BY <1>4, <2>1, TailKeys
  <2>4. n \in StepRecord /\ n.op = "spill" /\ n.key = hot[1].key
    BY <2>1, <2>3 DEF Step, StepRecord, Item, Ops, WARM, VRAM, COLD
  <2>5. a \in Seq(StepRecord) /\ Reloads(a) /\ Holds(a, hot[1].key)
    BY <2>1, <2>4, FollowUps DEF Putting
  <2>6. \A j : InList(hot, j) => InList(r, j) \/ Holds(a, j)
    BY <2>3, <2>5
  <2>7. \A j : InList(tier[HOT], j) => InList(r, j) \/ Holds(a, j)
    BY <1>4, <2>6
  <2>8. \A j \in {s.key} : InList(r, j) \/ Holds(a, j)
    BY <1>4, <2>6
  <2>9. \A j : worker[w][1].op \in Putting /\ worker[w][1].key = j => InList(r, j) \/ Holds(a, j)
    BY <1>1, <2>8
  <2>10. QED
    BY <1>3, <1>5, <2>2, <2>3, <2>5, <2>7, <2>8, <2>9, Moves
<1>7. CASE ~(Len(hot) > hot_capacity)
  <2>1. tier' = [tier EXCEPT ![HOT] = hot] /\ Done(w)
    BY <1>1, <1>7 DEF InsertHot
  <2>2. \A j : worker[w][1].op \in Putting /\ worker[w][1].key = j => InList(hot, j)
    BY <1>1, <1>4
  <2>3. \A j \in {s.key} : InList(hot, j)
    BY <1>4
  <2>4. QED
    BY <1>3, <1>4, <1>5, <2>1, <2>2, <2>3, LastMove
<1>8. QED
  BY <1>6, <1>7

LEMMA PutSound == ASSUME TiersInv, NEW w \in Workers, put(w) PROVE TiersInv'
<1>1. PICK s : s = worker[w][1]
  OBVIOUS
<1>2. worker[w] # <<>> /\ s \in StepRecord /\ s.op = "put"
  BY <1>1, AtHand DEF put
<1>3. CASE InsertHot(w, s) /\ UNCHANGED <<version, sweeper>>
  BY <1>1, <1>2, <1>3, InsertHotSound
<1>4. CASE Follow(w, <<[s EXCEPT !.op = "insert"]>>) /\ UNCHANGED <<tier, version, sweeper, stored>>
  <2>1. PICK n, a : n = [s EXCEPT !.op = "insert"] /\ a = <<n>>
    OBVIOUS
  <2>2. n \in StepRecord /\ n.op = "insert" /\ n.key = s.key
    BY <1>2, <2>1 DEF StepRecord, Ops
  <2>3. a \in Seq(StepRecord) /\ Reloads(a) /\ Holds(a, s.key)
    BY <2>1, <2>2, FollowUps DEF Putting
  <2>4. Follow(w, a)
    BY <1>4, <2>1
  <2>5. QED
    BY <1>1, <1>2, <1>4, <2>3, <2>4, Waits
<1>5. QED
  BY <1>1, <1>3, <1>4 DEF put

LEMMA PutInsertSound == ASSUME TiersInv, NEW w \in Workers, put_insert(w) PROVE TiersInv'
<1>1. worker[w] # <<>> /\ worker[w][1] \in StepRecord
  BY AtHand DEF put_insert
<1>2. InsertHot(w, worker[w][1]) /\ UNCHANGED <<version, sweeper>>
  BY DEF put_insert
<1>3. QED
  BY <1>1, <1>2, InsertHotSound

LEMMA SpillSound == ASSUME TiersInv, NEW w \in Workers, evict_to_warm(w) PROVE TiersInv'
<1>1. PICK s, warm, e : /\ s = worker[w][1] /\ e = [key |-> s.key, val |-> s.val]
                        /\ warm = insert(WARM, e)
  OBVIOUS
<1>2. worker[w] # <<>> /\ s \in StepRecord /\ UNCHANGED <<version, sweeper, stored>>
  BY <1>1, AtHand DEF evict_to_warm, StoresOnly
<1>3. e \in Item /\ s.key \in Contexts /\ e.key = s.key
  BY <1>1, <1>2 DEF StepRecord, Item
<1>4. WARM \in VRAM .. COLD /\ TierTypes /\ {} \in SUBSET Contexts /\ stored' = stored \cup {}
  BY <1>2 DEF WARM, VRAM, COLD, TiersInv
<1>5. /\ warm \in Seq(Item) /\ warm # <<>> /\ InList(warm, s.key)
      /\ \A j : InList(tier[WARM], j) => InList(warm, j)
  BY <1>1, <1>3, <1>4, InsertKey
<1>6. CASE Len(warm) > warm_capacity
  <2>1. PICK r, n, a : r = Tail(warm) /\ n = Step("settle", warm[1].key, warm[1].val, COLD) /\ a = <<n>>
    OBVIOUS
  <2>2. tier' = [tier EXCEPT ![WARM] = r] /\ Follow(w, a)
    BY <1>1, <1>6, <2>1 DEF evict_to_warm
  <2>3. warm[1] \in Item /\ r \in Seq(Item) /\ \A j : InList(warm, j) => warm[1].key = j \/ InList(r, j)
    BY <1>5, <2>1, TailKeys
  <2>4. n \in StepRecord /\ n.op = "settle" /\ n.key = warm[1].key
    BY <2>1, <2>3 DEF Step, StepRecord, Item, Ops, VRAM, COLD
  <2>5. a \in Seq(StepRecord) /\ Reloads(a) /\ Holds(a, warm[1].key)
    BY <2>1, <2>4, FollowUps DEF Putting
  <2>6. \A j : InList(warm, j) => InList(r, j) \/ Holds(a, j)
    BY <2>3, <2>5
  <2>7. \A j : InList(tier[WARM], j) => InList(r, j) \/ Holds(a, j)
    BY <1>5, <2>6
  <2>8. InList(r, s.key) \/ Holds(a, s.key)
    BY <1>5, <2>6
  <2>9. \A j : worker[w][1].op \in Putting /\ worker[w][1].key = j => InList(r, j) \/ Holds(a, j)
    BY <1>1, <2>8
  <2>10. QED
    BY <1>2, <1>4, <2>2, <2>3, <2>5, <2>7, <2>9, Moves
<1>7. CASE ~(Len(warm) > warm_capacity)
  <2>1. tier' = [tier EXCEPT ![WARM] = warm] /\ Done(w)
    BY <1>1, <1>7 DEF evict_to_warm
  <2>2. \A j : worker[w][1].op \in Putting /\ worker[w][1].key = j => InList(warm, j)
    BY <1>1, <1>5
  <2>3. QED
    BY <1>2, <1>4, <1>5, <2>1, <2>2, LastMove
<1>8. QED
  BY <1>6, <1>7

LEMMA SettleSound == ASSUME TiersInv, NEW w \in Workers, settle(w) PROVE TiersInv'
<1>1. PICK s, t, e : s = worker[w][1] /\ t = s.at /\ e = [key |-> s.key, val |-> s.val]
  OBVIOUS
<1>2. worker[w] # <<>> /\ s \in StepRecord /\ UNCHANGED <<version, sweeper, stored>> /\ Done(w)
  BY <1>1, AtHand DEF settle, StoresOnly
<1>3. e \in Item /\ t \in VRAM .. COLD /\ e.key = s.key
  BY <1>1, <1>2 DEF StepRecord, Item
<1>4. TierTypes /\ {} \in SUBSET Contexts /\ stored' = stored \cup {}
  BY <1>2 DEF TiersInv
<1>5. PICK r : r = insert(t, e)
  OBVIOUS
<1>6. r \in Seq(Item) /\ InList(r, s.key) /\ \A j : InList(tier[t], j) => InList(r, j)
  BY <1>3, <1>4, <1>5, InsertKey
<1>7. tier' = [tier EXCEPT ![t] = r]
  BY <1>1, <1>5 DEF settle
<1>8. \A j : worker[w][1].op \in Putting /\ worker[w][1].key = j => InList(r, j)
  BY <1>1, <1>6
<1>9. QED
  BY <1>2, <1>3, <1>4, <1>6, <1>7, <1>8, LastMove

\* What Touch puts in the place of the list of VRAM.
LEMMA Touched ==
  ASSUME TierTypes, NEW k, Has(VRAM, k)
  PROVE  \E s \in Seq(Item) : /\ Touch(k) = [tier EXCEPT ![VRAM] = s]
                             /\ \A j : InList(tier[VRAM], j) => InList(s, j)
<1>1. PICK r, e : r = remove(VRAM, k) /\ e = [key |-> k, val |-> ValueAt(VRAM, k)]
  OBVIOUS
<1>2. VRAM \in VRAM .. COLD
  BY DEF VRAM, COLD
<1>3. r \in Seq(Item) /\ \A j : j # k /\ InList(tier[VRAM], j) => InList(r, j)
  BY <1>1, <1>2, RemoveKeeps
<1>4. e \in Item /\ e.key = k
  BY <1>1, <1>2, ValueTyped DEF Item
<1>5. PICK s : s = Append(r, e)
  OBVIOUS
<1>6. s \in Seq(Item) /\ InList(s, k) /\ \A j : InList(r, j) => InList(s, j)
  BY <1>3, <1>4, <1>5, AppendKey
<1>7. Touch(k) = [tier EXCEPT ![VRAM] = s]
  BY <1>1, <1>5 DEF Touch
<1>8. QED
  BY <1>3, <1>6, <1>7

LEMMA PageSound == ASSUME TiersInv, NEW w \in Workers, page_to_vram(w) PROVE TiersInv'
<1>1. PICK s : s = worker[w][1]
  OBVIOUS
<1>2. /\ worker[w] # <<>> /\ s \in StepRecord /\ s.op = "page" /\ s.op \notin Putting
      /\ UNCHANGED <<version, sweeper, stored>> /\ TierTypes
  BY <1>1, AtHand DEF page_to_vram, StoresOnly, TiersInv, Putting
<1>3. CASE Has(VRAM, s.key)
  <2>1. tier' \in {tier, Touch(s.key)} /\ Done(w)
    BY <1>1, <1>3 DEF page_to_vram
  <2>2. CASE tier' = tier
    <3>1. PICK a : a = <<>>
      OBVIOUS
    <3>2. a \in Seq(StepRecord) /\ Reloads(a) /\ Follow(w, a)
      BY <2>1, <3>1, FollowUps DEF Done
    <3>3. QED
      BY <1>1, <1>2, <2>2, <3>2, Waits
  <2>3. CASE tier' = Touch(s.key)
    <3>1. PICK l \in Seq(Item) : /\ tier' = [tier EXCEPT ![VRAM] = l]
                                 /\ \A j : InList(tier[VRAM], j) => InList(l, j)
      BY <1>2, <1>3, <2>3, Touched
    <3>2. VRAM \in VRAM .. COLD /\ {} \in SUBSET Contexts /\ stored' = stored \cup {}
      BY <1>2 DEF VRAM, COLD
    <3>3. QED
      BY <1>1, <1>2, <2>1, <3>1, <3>2, LastMove
  <2>4. QED
    BY <2>1, <2>2, <2>3
<1>4. CASE ~Has(VRAM, s.key)
  <2>1. PICK n, a : n = [s EXCEPT !.op = "look"] /\ a = <<n>>
    OBVIOUS
  <2>2. n \in StepRecord /\ n.op = "look"
    BY <1>2, <2>1 DEF StepRecord, Ops
  <2>3. a \in Seq(StepRecord) /\ Reloads(a)
    BY <2>1, <2>2, FollowUps
  <2>4. Follow(w, a) /\ tier' = tier
    BY <1>1, <1>4, <2>1 DEF page_to_vram
  <2>5. QED
    BY <1>1, <1>2, <2>3, <2>4, Waits
<1>5. QED
  BY <1>3, <1>4

LEMMA Listed ==
  ASSUME NEW S, NEW n \in Nat, NEW l \in [1 .. n -> S]
  PROVE  l \in Seq(S) /\ Len(l) = n
  OBVIOUS

\* What get leaves to do drops its copies before it loads the entry.
LEMMA FoundSteps ==
  ASSUME NEW k \in Contexts, NEW v \in 0 .. MaxVersions
  PROVE  LET a == [i \in 1 .. 3 |-> Step("drop", k, v, i + 1)] \o <<Step("load", k, v, VRAM)>>
         IN  a \in Seq(StepRecord) /\ Reloads(a)
<1>1. PICK d, ld : d = [i \in 1 .. 3 |-> Step("drop", k, v, i + 1)] /\ ld = Step("load", k, v, VRAM)
  OBVIOUS
<1>2. ld \in StepRecord /\ ld.op = "load" /\ ld.key = k
  BY <1>1 DEF Step, StepRecord, Ops, VRAM, COLD
<1>3. ASSUME NEW i \in 1 .. 3 PROVE d[i] \in StepRecord /\ d[i].key = k
  BY <1>1 DEF Step, StepRecord, Ops, VRAM, COLD
<1>4. d \in Seq(StepRecord) /\ Len(d) = 3
  <2>1. d \in [1 .. 3 -> StepRecord]
    BY <1>1, <1>3
  <2>2. QED
    BY <2>1, Listed
<1>5. PICK l, a : l = <<ld>> /\ a = d \o l
  OBVIOUS
<1>6. l \in Seq(StepRecord) /\ Len(l) = 1 /\ l[1] = ld
  BY <1>2, <1>5
<1>7. a \in Seq(StepRecord) /\ Len(a) = 4 /\ \A i \in 1 .. 3 : a[i] = d[i]
  <2>1. a \in Seq(StepRecord) /\ Len(a) = Len(d) + Len(l) /\ \A i \in 1 .. Len(d) : a[i] = d[i]
    BY <1>4, <1>5, <1>6, Joins
  <2>2. QED
    BY <1>4, <1>6, <2>1
<1>8. a[4] = ld /\ DOMAIN a = 1 .. 4
  BY <1>4, <1>5, <1>6, <1>7
<1>9. Reloads(a)
  <2>1. SUFFICES ASSUME NEW i \in 1 .. 4, a[i].op = "drop"
                 PROVE  \E j \in 1 .. 4 : j > i /\ a[j].op = "load" /\ a[j].key = a[i].key
    BY <1>8 DEF Reloads
  <2>2. i \in 1 .. 3
    BY <1>2, <1>8, <2>1
  <2>3. a[i].key = k /\ 4 > i
    BY <1>3, <1>7, <2>2
  <2>4. QED
    BY <1>2, <1>8, <2>3
<1>10. QED
  BY <1>1, <1>5, <1>7, <1>9

LEMMA GetSound == ASSUME TiersInv, NEW w \in Workers, get(w) PROVE TiersInv'
<1>1. PICK s : s = worker[w][1]
  OBVIOUS
<1>2. /\ worker[w] # <<>> /\ s \in StepRecord /\ s.op = "look" /\ s.op \notin Putting
      /\ UNCHANGED <<version, sweeper, stored>> /\ TierTypes
  BY <1>1, AtHand DEF get, StoresOnly, TiersInv, Putting
<1>3. s.at \in VRAM .. COLD /\ s.key \in Contexts
  BY <1>2 DEF StepRecord
<1>4. CASE Has(s.at, s.key)
  <2>1. PICK v, a : /\ v = ValueAt(s.at, s.key)
                    /\ a = [i \in 1 .. 3 |-> Step("drop", s.key, v, i + 1)] \o <<Step("load", s.key, v, VRAM)>>
    OBVIOUS
  <2>2. v \in 0 .. MaxVersions
    BY <1>2, <1>3, <1>4, <2>1, ValueTyped
  <2>3. a \in Seq(StepRecord) /\ Reloads(a)
    BY <1>3, <2>1, <2>2, FoundSteps
  <2>4. Follow(w, a)
    BY <1>1, <1>4, <2>1 DEF get
  <2>5. CASE s.at = VRAM
    <3>1. Has(VRAM, s.key) /\ tier' = Touch(s.key)
      BY <1>1, <1>4, <2>5 DEF get
    <3>2. PICK l \in Seq(Item) : /\ tier' = [tier EXCEPT ![VRAM] = l]
                                 /\ \A j : InList(tier[VRAM], j) => InList(l, j)
      BY <1>2, <3>1, Touched
    <3>3. VRAM \in VRAM .. COLD /\ {} \in SUBSET Contexts /\ stored' = stored \cup {}
      BY <1>2 DEF VRAM, COLD
    <3>4. QED
      BY <1>1, <1>2, <2>3, <2>4, <3>2, <3>3, Moves
  <2>6. CASE s.at # VRAM
    <3>1. tier' = tier
      BY <1>1, <1>4, <2>6 DEF get
    <3>2. QED
      BY <1>1, <1>2, <2>3, <2>4, <3>1, Waits
  <2>7. QED
    BY <2>5, <2>6
<1>5. CASE ~Has(s.at, s.key)
  <2>1. PICK n, a : n = [s EXCEPT !.at = @ + 1] /\ a = IF s.at = COLD THEN <<>> ELSE <<n>>
    OBVIOUS
  <2>2. Follow(w, a) /\ tier' = tier
    BY <1>1, <1>5, <2>1 DEF get
  <2>3. a \in Seq(StepRecord) /\ Reloads(a)
    <3>1. CASE s.at = COLD
      BY <2>1, <3>1, FollowUps
    <3>2. CASE s.at # COLD
      <4>1. s.at + 1 \in VRAM .. COLD
        BY <1>3, <3>2 DEF VRAM, COLD
      <4>2. n \in StepRecord /\ n.op = "look"
        BY <1>2, <2>1, <4>1 DEF StepRecord
      <4>3. QED
        BY <2>1, <3>2, <4>2, FollowUps
    <3>3. QED
      BY <3>1, <3>2
  <2>4. QED
    BY <1>1, <1>2, <2>2, <2>3, Waits
<1>6. QED
  BY <1>4, <1>5

LEMMA DropSound == ASSUME TiersInv, NEW w \in Workers, drop_copy(w) PROVE TiersInv'
<1>1. PICK s, t, r : s = worker[w][1] /\ t = s.at /\ r = remove(t, s.key)
  OBVIOUS
<1>2. /\ worker[w] # <<>> /\ s \in StepRecord /\ s.op = "drop" /\ s.op \notin Putting
      /\ UNCHANGED <<version, sweeper, stored>> /\ TierTypes /\ Done(w)
  BY <1>1, AtHand DEF drop_copy, StoresOnly, TiersInv, Putting
<1>3. t \in VRAM .. COLD /\ {} \in SUBSET Contexts /\ stored' = stored \cup {}
  BY <1>1, <1>2 DEF StepRecord
<1>4. r \in Seq(Item) /\ \A j : j # s.key /\ InList(tier[t], j) => InList(r, j)
  BY <1>1, <1>2, <1>3, RemoveKeeps
<1>5. tier' = [tier EXCEPT ![t] = r]
  BY <1>1 DEF drop_copy
<1>6. \A j : InList(tier[t], j) => InList(r, j) \/ (worker[w][1].op = "drop" /\ worker[w][1].key = j)
  BY <1>1, <1>2, <1>4
<1>7. QED
  BY <1>1, <1>2, <1>3, <1>4, <1>5, <1>6, LastMove

\* What VRAM has no room for is put back, the oldest first.
LEMMA VictimsRange ==
  ASSUME NEW s \in Seq(Item), NEW n
  PROVE  LET i == Victims(s, n)
         IN  i \in 0 .. Len(s) /\ (i = Len(s) \/ Bytes(SubSeq(s, i + 1, Len(s))) + n <= capacity_bytes)
<1> DEFINE Enough(i) == Bytes(SubSeq(s, i + 1, Len(s))) + n <= capacity_bytes
           Good(i) == (i = Len(s) \/ Enough(i)) /\ \A j \in 0 .. i - 1 : ~Enough(j)
           S == {i \in 0 .. Len(s) : i = Len(s) \/ Enough(i)}
<1>1. PICK m \in Nat : m = Len(s)
  OBVIOUS
<1>2. m \in S /\ S \subseteq Nat
  BY <1>1
<1>3. Victims(s, n) = CHOOSE i \in 0 .. Len(s) : Good(i)
  BY DEF Victims
<1> HIDE DEF Enough
<1>4. \E i \in 0 .. Len(s) : Good(i)
  <2> HIDE DEF S
  <2>1. PICK i \in S : \A j \in S : ~ (<<j, i>> \in OpToRel(<, Nat))
    BY <1>2, NatLessThanWellFounded, WFMin
  <2>2. \A j \in S : ~ (j < i)
    BY <1>2, <2>1 DEF OpToRel
  <2>3. i \in 0 .. Len(s) /\ (i = Len(s) \/ Enough(i))
    BY DEF S
  <2>4. ASSUME NEW j \in 0 .. i - 1 PROVE ~Enough(j)
    <3>1. j < i /\ j \in 0 .. Len(s)
      BY <1>1, <2>3
    <3>2. j \notin S
      BY <2>2, <3>1
    <3>3. QED
      BY <3>1, <3>2 DEF S
  <2>5. QED
    BY <2>3, <2>4
<1> HIDE DEF Good
<1>5. Victims(s, n) \in 0 .. Len(s) /\ Good(Victims(s, n))
  BY <1>3, <1>4
<1>6. QED
  BY <1>5 DEF Good, Enough

LEMMA Cut ==
  ASSUME NEW s \in Seq(Item), NEW n \in 0 .. Len(s)
  PROVE  /\ SubSeq(s, 1, n) \in Seq(Item) /\ SubSeq(s, n + 1, Len(s)) \in Seq(Item)
         /\ \A j : InList(s, j) => InList(SubSeq(s, 1, n), j) \/ InList(SubSeq(s, n + 1, Len(s)), j)
<1>1. PICK m \in Nat : m = Len(s)
  OBVIOUS
<1>2. n \in Nat /\ n <= m /\ DOMAIN s = 1 .. m
  BY <1>1
<1>3. PICK a, b : a = SubSeq(s, 1, n) /\ b = SubSeq(s, n + 1, m)
  OBVIOUS
<1>4. a \in Seq(Item) /\ Len(a) = n /\ \A i \in 1 .. n : a[i] = s[i]
  BY <1>1, <1>3, Prefixed
<1>5. b \in Seq(Item) /\ Len(b) = m - n /\ \A i \in 1 .. m - n : b[i] = s[n + i]
  BY <1>1, <1>2, <1>3
<1>6. DOMAIN a = 1 .. n /\ DOMAIN b = 1 .. m - n
  BY <1>2, <1>4, <1>5
<1>7. ASSUME NEW j, InList(s, j) PROVE InList(a, j) \/ InList(b, j)
  <2>1. PICK i \in 1 .. m : s[i].key = j
    BY <1>2, <1>7 DEF InList
  <2>2. CASE i <= n
    <3>1. i \in 1 .. n
      BY <1>2, <2>2
    <3>2. QED
      BY <1>4, <1>6, <2>1, <3>1 DEF InList
  <2>3. CASE i > n
    <3>1. PICK h : h = i - n /\ h \in 1 .. m - n /\ n + h = i
      BY <1>2, <2>3
    <3>2. QED
      BY <1>5, <1>6, <2>1, <3>1 DEF InList
  <2>4. QED
    BY <1>2, <2>2, <2>3
<1>8. QED
  BY <1>1, <1>3, <1>4, <1>5, <1>7

LEMMA PutsBack ==
  ASSUME NEW l \in Seq(Item)
  PROVE  LET a == [i \in DOMAIN l |-> Step("put", l[i].key, l[i].val, VRAM)]
         IN  a \in Seq(StepRecord) /\ Reloads(a) /\ \A j : InList(l, j) => Holds(a, j)
<1>1. PICK a : a = [i \in DOMAIN l |-> Step("put", l[i].key, l[i].val, VRAM)]
  OBVIOUS
<1>2. PICK n \in Nat : n = Len(l) /\ DOMAIN l = 1 .. n
  OBVIOUS
<1>3. ASSUME NEW i \in 1 .. n PROVE a[i] \in StepRecord /\ a[i].op = "put" /\ a[i].key = l[i].key
  <2>1. l[i] \in Item
    BY <1>2
  <2>2. QED
    BY <1>1, <1>2, <2>1 DEF Step, StepRecord, Item, Ops, VRAM, COLD
<1>4. a \in [1 .. n -> StepRecord]
  BY <1>1, <1>2, <1>3
<1>5. a \in Seq(StepRecord) /\ DOMAIN a = 1 .. n
  BY <1>4
<1>6. Reloads(a)
  BY <1>3, <1>5 DEF Reloads
<1>7. \A j : InList(l, j) => Holds(a, j)
  BY <1>2, <1>3, <1>5 DEF InList, Holds, Putting
<1>8. QED
  BY <1>1, <1>5, <1>6, <1>7

LEMMA LoadSound == ASSUME TiersInv, NEW w \in Workers, load(w) PROVE TiersInv'
<1>1. PICK s, e, r : /\ s = worker[w][1] /\ e = [key |-> s.key, val |-> s.val]
                     /\ r = insert_with_metadata(e)
  OBVIOUS
<1>2. /\ worker[w] # <<>> /\ s \in StepRecord /\ s.op = "load"
      /\ UNCHANGED <<version, sweeper, stored>> /\ TierTypes
  BY <1>1, AtHand DEF load, TiersInv
<1>3. e \in Item /\ e.key = s.key
  BY <1>1, <1>2 DEF StepRecord, Item
<1>4. VRAM \in VRAM .. COLD /\ {} \in SUBSET Contexts /\ stored' = stored \cup {}
  BY <1>2 DEF VRAM, COLD
<1>5. PICK others, n, out, in, kept :
           /\ others = remove(VRAM, e.key) /\ n = Victims(others, Size[e.key])
           /\ out = SubSeq(others, 1, n) /\ in = SubSeq(others, n + 1, Len(others))
           /\ kept = Append(in, e)
  OBVIOUS
<1>6. others \in Seq(Item) /\ \A j : j # e.key /\ InList(tier[VRAM], j) => InList(others, j)
  BY <1>2, <1>4, <1>5, RemoveKeeps
<1>7. n \in 0 .. Len(others)
  BY <1>5, <1>6, VictimsRange
<1>8. /\ out \in Seq(Item) /\ in \in Seq(Item)
      /\ \A j : InList(others, j) => InList(out, j) \/ InList(in, j)
  BY <1>5, <1>6, <1>7, Cut
<1>9. kept \in Seq(Item) /\ InList(kept, e.key) /\ \A j : InList(in, j) => InList(kept, j)
  BY <1>3, <1>5, <1>8, AppendKey
<1>10. r.vram = kept /\ r.evicted = out
  BY <1>1, <1>5 DEF insert_with_metadata
<1>11. PICK a : a = [i \in DOMAIN out |-> Step("put", out[i].key, out[i].val, VRAM)]
  OBVIOUS
<1>12. a \in Seq(StepRecord) /\ Reloads(a) /\ \A j : InList(out, j) => Holds(a, j)
  BY <1>8, <1>11, PutsBack
<1>13. tier' = [tier EXCEPT ![VRAM] = kept] /\ Follow(w, a)
  BY <1>1, <1>10, <1>11 DEF load
<1>14. \A j : InList(tier[VRAM], j) => InList(kept, j) \/ Holds(a, j)
  BY <1>6, <1>8, <1>9, <1>12
<1>15. \A j : worker[w][1].op \in Putting /\ worker[w][1].key = j => InList(kept, j) \/ Holds(a, j)
  BY <1>1, <1>3, <1>9
<1>16. QED
  BY <1>2, <1>4, <1>9, <1>12, <1>13, <1>14, <1>15, Moves

LEMMA UnloadSound == ASSUME TiersInv, NEW w \in Workers, page_to_ram(w) PROVE TiersInv'
<1>1. PICK s : s = worker[w][1]
  OBVIOUS
<1>2. /\ worker[w] # <<>> /\ s \in StepRecord /\ s.op = "unload" /\ s.op \notin Putting
      /\ UNCHANGED <<version, sweeper, stored>> /\ TierTypes
  BY <1>1, AtHand DEF page_to_ram, TiersInv, Putting
<1>3. VRAM \in VRAM .. COLD /\ {} \in SUBSET Contexts /\ stored' = stored \cup {} /\ s.key \in Contexts
  BY <1>2 DEF VRAM, COLD, StepRecord
<1>4. CASE Has(VRAM, s.key)
  <2>1. PICK r, n, a : /\ r = remove(VRAM, s.key) /\ a = <<n>>
                       /\ n = Step("put", s.key, ValueAt(VRAM, s.key), VRAM)
    OBVIOUS
  <2>2. tier' = [tier EXCEPT ![VRAM] = r] /\ Follow(w, a)
    BY <1>1, <1>4, <2>1 DEF page_to_ram
  <2>3. r \in Seq(Item) /\ \A j : j # s.key /\ InList(tier[VRAM], j) => InList(r, j)
    BY <1>2, <1>3, <2>1, RemoveKeeps
  <2>4. ValueAt(VRAM, s.key) \in 0 .. MaxVersions
    BY <1>2, <1>3, <1>4, ValueTyped
  <2>5. n \in StepRecord /\ n.op = "put" /\ n.key = s.key
    BY <1>3, <2>1, <2>4 DEF Step, StepRecord, Ops
  <2>6. a \in Seq(StepRecord) /\ Reloads(a) /\ Holds(a, s.key)
    BY <2>1, <2>5, FollowUps DEF Putting
  <2>7. \A j : InList(tier[VRAM], j) => InList(r, j) \/ Holds(a, j)
    BY <2>3, <2>6
  <2>8. QED
    BY <1>1, <1>2, <1>3, <2>2, <2>3, <2>6, <2>7, Moves
<1>5. CASE ~Has(VRAM, s.key)
  <2>1. PICK a : a = <<>>
    OBVIOUS
  <2>2. Follow(w, a) /\ tier' = tier
    BY <1>1, <1>5, <2>1 DEF page_to_ram, Done
  <2>3. a \in Seq(StepRecord) /\ Reloads(a)
    BY <2>1, FollowUps
  <2>4. QED
    BY <1>1, <1>2, <2>2, <2>3, Waits
<1>6. QED
  BY <1>4, <1>5

LEMMA PromoteSound == ASSUME TiersInv, NEW w \in Workers, promote(w) PROVE TiersInv'
<1>1. PICK s, t : s = worker[w][1] /\ t = IF s.op = "promote" THEN VRAM ELSE HOT
  OBVIOUS
<1>2. /\ worker[w] # <<>> /\ s \in StepRecord /\ s.op \in {"promote", "promote_hot"} /\ s.op \notin Putting
      /\ UNCHANGED <<tier, version, sweeper, stored>>
  BY <1>1, AtHand DEF promote, StoresOnly, Putting
<1>3. PICK n, a : /\ n = IF t = VRAM THEN [s EXCEPT !.op = "promote_hot"]
                         ELSE [s EXCEPT !.op = "take", !.at = WARM]
                  /\ a = IF Has(t, s.key) THEN <<>> ELSE <<n>>
  OBVIOUS
<1>4. Follow(w, a)
  <2>1. Follow(w, IF Has(t, s.key) THEN <<>>
                  ELSE IF t = VRAM THEN <<[s EXCEPT !.op = "promote_hot"]>>
                  ELSE <<[s EXCEPT !.op = "take", !.at = WARM]>>)
    BY <1>1 DEF promote
  <2>2. CASE Has(t, s.key)
    BY <1>3, <2>1, <2>2
  <2>3. CASE ~Has(t, s.key) /\ t = VRAM
    BY <1>3, <2>1, <2>3
  <2>4. CASE ~Has(t, s.key) /\ t # VRAM
    BY <1>3, <2>1, <2>4
  <2>5. QED
    BY <2>2, <2>3, <2>4
<1>5. n \in StepRecord /\ n.op # "drop"
  <2>1. CASE t = VRAM
    BY <1>2, <1>3, <2>1 DEF StepRecord, Ops
  <2>2. CASE t # VRAM
    <3>1. WARM \in VRAM .. COLD
      BY DEF WARM, VRAM, COLD
    <3>2. QED
      BY <1>2, <1>3, <2>2, <3>1 DEF StepRecord, Ops
  <2>3. QED
    BY <2>1, <2>2
<1>6. a \in Seq(StepRecord) /\ Reloads(a)
  <2>1. CASE Has(t, s.key)
    BY <1>3, <2>1, FollowUps
  <2>2. CASE ~Has(t, s.key)
    BY <1>3, <1>5, <2>2, FollowUps
  <2>3. QED
    BY <2>1, <2>2
<1>7. QED
  BY <1>1, <1>2, <1>4, <1>6, Waits

LEMMA TakeSound == ASSUME TiersInv, NEW w \in Workers, promote_take(w) PROVE TiersInv'
<1>1. PICK s, t, r : s = worker[w][1] /\ t = s.at /\ r = remove(t, s.key)
  OBVIOUS
<1>2. /\ worker[w] # <<>> /\ s \in StepRecord /\ s.op = "take" /\ s.op \notin Putting
      /\ UNCHANGED <<version, sweeper, stored>> /\ TierTypes
  BY <1>1, AtHand DEF promote_take, StoresOnly, TiersInv, Putting
<1>3. t \in VRAM .. COLD /\ {} \in SUBSET Contexts /\ stored' = stored \cup {} /\ s.key \in Contexts
  BY <1>1, <1>2 DEF StepRecord
<1>4. tier' = [tier EXCEPT ![t] = r]
  BY <1>1 DEF promote_take
<1>5. r \in Seq(Item) /\ \A j : j # s.key /\ InList(tier[t], j) => InList(r, j)
  BY <1>1, <1>2, <1>3, RemoveKeeps
<1>6. CASE Has(t, s.key)
  <2>1. PICK n, a : n = Step("put", s.key, ValueAt(t, s.key), VRAM) /\ a = <<n>>
    OBVIOUS
  <2>2. Follow(w, a)
    BY <1>1, <1>6, <2>1 DEF promote_take
  <2>3. ValueAt(t, s.key) \in 0 .. MaxVersions
    BY <1>2, <1>3, <1>6, ValueTyped
  <2>4. n \in StepRecord /\ n.op = "put" /\ n.key = s.key
    BY <1>3, <2>1, <2>3 DEF Step, StepRecord, Ops, VRAM, COLD
  <2>5. a \in Seq(StepRecord) /\ Reloads(a) /\ Holds(a, s.key)
    BY <2>1, <2>4, FollowUps DEF Putting
  <2>6. \A j : InList(tier[t], j) => InList(r, j) \/ Holds(a, j)
    BY <1>5, <2>5
  <2>7. a \in Seq(StepRecord) /\ Reloads(a)
    BY <2>5
  <2>8. worker[w] # <<>> /\ worker[w][1].op \notin Putting /\ UNCHANGED <<version, sweeper>>
    BY <1>1, <1>2
  <2>9. r \in Seq(Item)
    BY <1>5
  <2>10. QED
    BY <1>3, <1>4, <2>2, <2>6, <2>7, <2>8, <2>9, Moves
<1>7. CASE ~Has(t, s.key)
  <2>1. PICK n, a : n = [s EXCEPT !.at = COLD] /\ a = IF t = WARM THEN <<n>> ELSE <<>>
    OBVIOUS
  <2>2. Follow(w, a)
    BY <1>1, <1>7, <2>1 DEF promote_take
  <2>3. n \in StepRecord /\ n.op = "take"
    BY <1>2, <2>1 DEF StepRecord, VRAM, COLD
  <2>4. a \in Seq(StepRecord) /\ Reloads(a)
    <3>1. CASE t = WARM
      BY <2>1, <2>3, <3>1, FollowUps
    <3>2. CASE t # WARM
      BY <2>1, <3>2, FollowUps
    <3>3. QED
      BY <3>1, <3>2
  <2>5. \A j : InList(tier[t], j) => InList(r, j)
    BY <1>5, <1>7, HasIsInList
  <2>6. QED
    BY <1>1, <1>2, <1>3, <1>4, <1>5, <2>2, <2>4, <2>5, Moves
<1>8. QED
  BY <1>6, <1>7

\* A caller with nothing to do takes an operation on.
LEMMA StartSound ==
  ASSUME TiersInv, NEW w \in Workers, worker[w] = <<>>, NEW s \in StepRecord, s.op # "drop",
         worker' = [worker EXCEPT ![w] = <<s>>], NEW t \in VRAM .. COLD, NEW l \in Seq(Item),
         tier' = [tier EXCEPT ![t] = l],
         \A k : InList(tier[t], k) => InList(l, k) \/ (s.key = k /\ s.op \in Putting),
         version' \in [Contexts -> 0 .. MaxVersions], UNCHANGED <<sweeper, stored>>
  PROVE  TiersInv'
<1>1. PICK a : a = <<s>>
  OBVIOUS
<1>2. a \in Seq(StepRecord) /\ Reloads(a) /\ (s.op \in Putting => Holds(a, s.key))
  BY <1>1, FollowUps
<1>3. /\ worker \in [Workers -> Seq(StepRecord)] /\ worker'[w] = a
      /\ \A v \in Workers : v # w => worker'[v] = worker[v]
  BY <1>1 DEF TiersInv, TierTypes
<1>4. Lists'
  <2>1. worker' \in [Workers -> Seq(StepRecord)]
    BY <1>1, <1>2, <1>3
  <2>2. QED
    BY <1>2, <1>3, <2>1 DEF Lists, TiersInv
<1>5. ASSUME NEW k, InHand(k) PROVE InHand(k)'
  <2>1. PICK v \in Workers : Holds(worker[v], k)
    BY <1>5, HeldBy
  <2>2. v # w
    <3>1. DOMAIN <<>> = {}
      OBVIOUS
    <3>2. QED
      BY <2>1, <3>1 DEF Holds
  <2>3. QED
    BY <1>3, <2>1, <2>2 DEF InHand, Holds, Putting
<1>6. /\ tier' \in [VRAM .. COLD -> Seq(Item)]
      /\ \A k : InList(l, k) => Tiered(k)'
      /\ \A k : Tiered(k) => InList(tier[t], k) \/ Tiered(k)'
  <2>1. TierTypes
    BY DEF TiersInv
  <2>2. QED
    BY <2>1, TierChanges
<1>7. ASSUME NEW k, s.key = k, s.op \in Putting PROVE InHand(k)'
  BY <1>2, <1>3, <1>7 DEF InHand, Holds, Putting
<1>8. \A k \in stored : Somewhere(k)'
  BY <1>5, <1>6, <1>7 DEF TiersInv, Somewhere
<1>9. QED
  BY <1>4, <1>6, <1>8 DEF TiersInv, TierTypes, Lists

\* The same where no tier changes.
LEMMA BeginSound ==
  ASSUME TiersInv, NEW w \in Workers, worker[w] = <<>>, NEW s \in StepRecord, s.op # "drop",
         worker' = [worker EXCEPT ![w] = <<s>>], version' \in [Contexts -> 0 .. MaxVersions],
         UNCHANGED <<tier, sweeper, stored>>
  PROVE  TiersInv'
<1>1. tier \in [VRAM .. COLD -> Seq(Item)] /\ VRAM \in VRAM .. COLD
  BY DEF TiersInv, TierTypes, VRAM, COLD
<1>2. tier[VRAM] \in Seq(Item) /\ tier' = [tier EXCEPT ![VRAM] = tier[VRAM]]
  BY <1>1
<1>3. QED
  BY <1>1, <1>2, StartSound

LEMMA OperationSound ==
  ASSUME TiersInv, NEW w \in Workers, NEW k \in Contexts,
         store_context(w, k) \/ run_agent(w, k) \/ pause_agent(w, k) \/ demote(w, k)
  PROVE  TiersInv'
<1>0. version \in [Contexts -> 0 .. MaxVersions] /\ MaxVersions \in Nat
  BY TiersAssumption DEF TiersInv, TierTypes
<1>1. CASE store_context(w, k)
  <2>1. version[k] + 1 \in 0 .. MaxVersions
    BY <1>0, <1>1 DEF store_context
  <2>2. version' \in [Contexts -> 0 .. MaxVersions] /\ version'[k] = version[k] + 1
    BY <1>0, <1>1, <2>1 DEF store_context
  <2>3. PICK s : s = Step("put", k, version'[k], VRAM)
    OBVIOUS
  <2>4. s \in StepRecord /\ s.op = "put"
    BY <2>1, <2>2, <2>3 DEF Step, StepRecord, Ops, VRAM, COLD
  <2>5. worker[w] = <<>> /\ worker' = [worker EXCEPT ![w] = <<s>>] /\ UNCHANGED <<tier, sweeper, stored>>
    BY <1>1, <2>3 DEF store_context
  <2>6. QED
    BY <2>2, <2>4, <2>5, BeginSound
<1>2. ASSUME NEW op \in {"page", "promote", "unload"}, Begin(w, op, k) PROVE TiersInv'
  <2>1. PICK s : s = Step(op, k, 0, VRAM)
    OBVIOUS
  <2>2. s \in StepRecord /\ s.op # "drop"
    BY <1>0, <2>1 DEF Step, StepRecord, Ops, VRAM, COLD
  <2>3. worker[w] = <<>> /\ worker' = [worker EXCEPT ![w] = <<s>>] /\ UNCHANGED <<tier, sweeper, stored, version>>
    BY <1>2, <2>1 DEF Begin
  <2>4. QED
    BY <1>0, <2>2, <2>3, BeginSound
<1>3. CASE demote(w, k)
  <2>1. PICK l, s : l = remove(HOT, k) /\ s = Step("settle", k, ValueAt(HOT, k), WARM)
    OBVIOUS
  <2>2. /\ worker[w] = <<>> /\ worker' = [worker EXCEPT ![w] = <<s>>] /\ Has(HOT, k)
        /\ tier' = [tier EXCEPT ![HOT] = l] /\ UNCHANGED <<sweeper, stored, version>>
    BY <1>3, <2>1 DEF demote
  <2>3. HOT \in VRAM .. COLD /\ WARM \in VRAM .. COLD /\ TierTypes
    BY DEF HOT, WARM, VRAM, COLD, TiersInv
  <2>4. l \in Seq(Item) /\ \A j : j # k /\ InList(tier[HOT], j) => InList(l, j)
    BY <2>1, <2>3, RemoveKeeps
  <2>5. ValueAt(HOT, k) \in 0 .. MaxVersions
    BY <2>2, <2>3, ValueTyped
  <2>6. s \in StepRecord /\ s.op = "settle" /\ s.key = k
    BY <2>1, <2>3, <2>5 DEF Step, StepRecord, Ops
  <2>7. \A j : InList(tier[HOT], j) => InList(l, j) \/ (s.key = j /\ s.op \in Putting)
    BY <2>4, <2>6 DEF Putting
  <2>8. QED
    BY <1>0, <2>2, <2>3, <2>4, <2>6, <2>7, StartSound
<1>4. QED
  BY <1>1, <1>2, <1>3 DEF run_agent, pause_agent

-----------------------------------------------------------------------------
(* The sweep gives up the keys it removes.                                 *)
LEMMA SweepSound ==
  ASSUME TiersInv, clean_expired \/ clean_lock \/ clean_key \/ clean_done
  PROVE  TiersInv'
<1>1. ASSUME UNCHANGED <<tier, worker, version>>, stored' \subseteq stored,
             sweeper'.keys \subseteq Contexts, sweeper'.doing \subseteq Contexts,
             sweeper'.at \in VRAM .. COLD, DOMAIN sweeper' = {"pc", "keys", "doing", "at"}
      PROVE  TiersInv'
  BY <1>1 DEF TiersInv, TierTypes, Somewhere, Tiered, InHand
<1>2. CASE clean_expired
  <2>1. /\ sweeper'.keys \subseteq Contexts /\ sweeper'.doing = {} /\ sweeper'.at = VRAM
        /\ DOMAIN sweeper' = {"pc", "keys", "doing", "at"}
    BY <1>2 DEF clean_expired
  <2>2. VRAM \in VRAM .. COLD
    BY DEF VRAM, COLD
  <2>3. stored' \subseteq stored /\ UNCHANGED <<tier, worker, version>>
    BY <1>2 DEF clean_expired
  <2>4. QED
    BY <1>1, <2>1, <2>2, <2>3
<1>3. ASSUME NEW pc, sweeper' = [sweeper EXCEPT !.pc = pc], UNCHANGED <<tier, worker, version, stored>>
      PROVE  TiersInv'
  BY <1>1, <1>3 DEF TiersInv, TierTypes
<1>4. CASE clean_key
  <2>1. PICK k \in IF sweeper.doing = {} THEN sweeper.keys ELSE sweeper.doing :
          /\ tier' = [tier EXCEPT ![sweeper.at] = remove(sweeper.at, k)]
          /\ stored' = stored \ {k}
          /\ sweeper' = [sweeper EXCEPT !.keys = @ \ {k},
                                        !.doing = IF sweeper.at = COLD THEN {} ELSE {k},
                                        !.at = IF @ = COLD THEN VRAM ELSE @ + 1]
    BY <1>4 DEF clean_key
  <2>2. UNCHANGED <<worker, version>>
    BY <1>4 DEF clean_key
  <2>3. TierTypes /\ k \in Contexts
    BY <2>1 DEF TiersInv, TierTypes
  <2>4. PICK t, l : t = sweeper.at /\ l = remove(t, k)
    OBVIOUS
  <2>5. t \in VRAM .. COLD /\ tier' = [tier EXCEPT ![t] = l]
    BY <2>1, <2>3, <2>4 DEF TierTypes
  <2>6. l \in Seq(Item) /\ \A j : j # k /\ InList(tier[t], j) => InList(l, j)
    BY <2>3, <2>4, <2>5, RemoveKeeps
  <2>7. /\ tier' \in [VRAM .. COLD -> Seq(Item)]
        /\ \A j : Tiered(j) /\ (InList(tier[t], j) => InList(l, j)) => Tiered(j)'
    BY <2>3, <2>5, <2>6, TierChanges
  <2>8. /\ sweeper'.keys = sweeper.keys \ {k} /\ sweeper'.doing = IF sweeper.at = COLD THEN {} ELSE {k}
        /\ sweeper'.at = IF sweeper.at = COLD THEN VRAM ELSE sweeper.at + 1
        /\ DOMAIN sweeper' = {"pc", "keys", "doing", "at"}
    BY <2>1, <2>3 DEF TierTypes
  <2>9. sweeper'.at \in VRAM .. COLD
    BY <2>4, <2>5, <2>8 DEF VRAM, COLD
  <2>10. sweeper'.keys \subseteq Contexts /\ sweeper'.doing \subseteq Contexts
    BY <2>3, <2>8 DEF TierTypes
  <2>11. TierTypes'
    BY <2>1, <2>2, <2>3, <2>7, <2>8, <2>9, <2>10 DEF TierTypes
  <2>12. ASSUME NEW j \in stored' PROVE Somewhere(j)'
    <3>1. j # k /\ Somewhere(j)
      BY <2>1, <2>12 DEF TiersInv
    <3>2. CASE Tiered(j)
      BY <2>6, <2>7, <3>1, <3>2 DEF Somewhere
    <3>3. CASE InHand(j)
      BY <2>2, <3>3 DEF Somewhere, InHand
    <3>4. QED
      BY <3>1, <3>2, <3>3 DEF Somewhere
  <2>13. QED
    BY <2>2, <2>11, <2>12 DEF TiersInv
<1>5. QED
  BY <1>2, <1>3, <1>4 DEF clean_lock, clean_done

LEMMA TiersInvInit == TiersInit => TiersInv
<1>1. SUFFICES ASSUME TiersInit PROVE TiersInv
  OBVIOUS
<1>2. <<>> \in Seq(Item) /\ <<>> \in Seq(StepRecord) /\ Reloads(<<>>)
  BY FollowUps
<1>3. VRAM \in VRAM .. COLD /\ 0 \in 0 .. MaxVersions
  BY TiersAssumption DEF VRAM, COLD
<1>4. \A w \in Workers : worker[w] = <<>>
  BY <1>1 DEF TiersInit
<1>5. tier \in [VRAM .. COLD -> Seq(Item)] /\ worker \in [Workers -> Seq(StepRecord)]
  BY <1>1, <1>2 DEF TiersInit
<1>6. QED
  BY <1>1, <1>2, <1>3, <1>4, <1>5 DEF TiersInit, TiersInv, TierTypes

LEMMA TiersInvNext == TiersInv /\ [TiersNext]_tierVars => TiersInv'
<1>1. SUFFICES ASSUME TiersInv, [TiersNext]_tierVars PROVE TiersInv'
  OBVIOUS
<1>2. ASSUME UNCHANGED <<tier, worker, sweeper, stored, version>> PROVE TiersInv'
  BY <1>1, <1>2 DEF TiersInv, TierTypes, Somewhere, Tiered, InHand
<1>3. ASSUME NEW w \in Workers, put(w) PROVE TiersInv'
  BY <1>1, <1>3, PutSound
<1>4. ASSUME NEW w \in Workers, put_insert(w) PROVE TiersInv'
  BY <1>1, <1>4, PutInsertSound
<1>5. ASSUME NEW w \in Workers, evict_to_warm(w) PROVE TiersInv'
  BY <1>1, <1>5, SpillSound
<1>6. ASSUME NEW w \in Workers, settle(w) PROVE TiersInv'
  BY <1>1, <1>6, SettleSound
<1>7. ASSUME NEW w \in Workers, page_to_vram(w) PROVE TiersInv'
  BY <1>1, <1>7, PageSound
<1>8. ASSUME NEW w \in Workers, get(w) PROVE TiersInv'
  BY <1>1, <1>8, GetSound
<1>9. ASSUME NEW w \in Workers, drop_copy(w) PROVE TiersInv'
  BY <1>1, <1>9, DropSound
<1>10. ASSUME NEW w \in Workers, load(w) PROVE TiersInv'
  BY <1>1, <1>10, LoadSound
<1>11. ASSUME NEW w \in Workers, page_to_ram(w) PROVE TiersInv'
  BY <1>1, <1>11, UnloadSound
<1>12. ASSUME NEW w \in Workers, promote(w) PROVE TiersInv'
  BY <1>1, <1>12, PromoteSound
<1>13. ASSUME NEW w \in Workers, promote_take(w) PROVE TiersInv'
  BY <1>1, <1>13, TakeSound
<1>14. ASSUME NEW w \in Workers, NEW k \in Contexts,
              store_context(w, k) \/ run_agent(w, k) \/ pause_agent(w, k) \/ demote(w, k)
       PROVE  TiersInv'
  BY <1>1, <1>14, OperationSound
<1>15. CASE clean_expired \/ clean_lock \/ clean_key \/ clean_done
  BY <1>1, <1>15, SweepSound
<1>16. ASSUME NEW k \in Contexts, TimeToLivePasses(k) PROVE TiersInv'
  BY <1>2, <1>16 DEF TimeToLivePasses
<1>17. QED
  BY <1>1, <1>2, <1>3, <1>4, <1>5, <1>6, <1>7, <1>8, <1>9, <1>10, <1>11, <1>12, <1>13, <1>14, <1>15,
     <1>16 DEF TiersNext, tierVars

(* However the locked steps of the callers and of the sweep interleave, an *)
(* entry that was stored and not chosen by the sweep is in a tier or with  *)
(* a caller who will put it back (put, get, promote, page_to_vram, lib.rs; *)
(* insert_with_metadata, vram.rs).                                         *)
THEOREM EntriesStay == TiersSpec => []KeyNeverLost
<1>1. TiersInit => TiersInv
  BY TiersInvInit
<1>2. TiersInv /\ [TiersNext]_tierVars => TiersInv'
  BY TiersInvNext
<1>3. TiersInv => KeyNeverLost
  BY TiersSuffice
<1>4. QED
  BY <1>1, <1>2, <1>3, PTL DEF TiersSpec

-----------------------------------------------------------------------------
(* The account of VRAM: its list names a key once, what is allocated is the *)
(* size of the keys, and only a single entry may pass the capacity.        *)
Distinct(s) == \A i, j \in DOMAIN s : s[i].key = s[j].key => i = j
Balanced(s, b) == Distinct(s) /\ b = Bytes(s) /\ (b > capacity_bytes => Len(s) = 1)

\* Copies are put into and taken out of the stores below VRAM one at a time.
SparesVram(l) == \A i \in DOMAIN l : l[i].op \in {"settle", "drop", "take"} => l[i].at # VRAM

AccountInv ==
  /\ TiersInv
  /\ Balanced(tier[VRAM], allocated_bytes)
  /\ \A w \in Workers : SparesVram(worker[w])

LEMMA KeysListed ==
  ASSUME NEW s \in Seq(Item)
  PROVE  /\ IsFiniteSet(KeysOf(s)) /\ KeysOf(s) \subseteq Contexts
         /\ \A k : k \in KeysOf(s) <=> InList(s, k)
         /\ \A k \in Contexts : Size[k] \in Nat
         /\ Bytes(s) \in Nat
<1>1. PICK n \in Nat : n = Len(s) /\ DOMAIN s = 1 .. n
  OBVIOUS
<1>2. PICK f : f = [i \in 1 .. n |-> s[i].key]
  OBVIOUS
<1>3. KeysOf(s) = {s[i].key : i \in 1 .. n}
  BY <1>1 DEF KeysOf, ToSet
<1>4. \A i \in 1 .. n : s[i].key \in Contexts
  <2>1. \A i \in 1 .. n : s[i] \in Item
    BY <1>1
  <2>2. QED
    BY <2>1 DEF Item
<1>5. f \in Surjection(1 .. n, KeysOf(s))
  BY <1>2, <1>3 DEF Surjection
<1>6. IsFiniteSet(KeysOf(s))
  BY <1>1, <1>5, FS_Interval, FS_Surjection
<1>7. \A k \in Contexts : Size[k] \in Nat
  BY TiersAssumption
<1>8. KeysOf(s) \subseteq Contexts
  BY <1>3, <1>4
<1>9. Bytes(s) \in Nat
  BY <1>6, <1>7, <1>8, SumBound DEF Bytes
<1>10. QED
  BY <1>1, <1>3, <1>6, <1>7, <1>8, <1>9 DEF InList

LEMMA NothingListed ==
  ASSUME NEW s \in Seq(Item), Len(s) = 0
  PROVE  Distinct(s) /\ Bytes(s) = 0
<1>1. DOMAIN s = {}
  OBVIOUS
<1>2. KeysOf(s) = {}
  BY <1>1 DEF KeysOf, ToSet
<1>3. IsFiniteSet({}) /\ \A x \in {} : Size[x] \in Int
  BY FS_EmptySet
<1>4. SumFunctionOnSet(Size, {}) = 0
  BY <1>3, SumTakes
<1>5. QED
  BY <1>1, <1>2, <1>4 DEF Distinct, Bytes

LEMMA EntryOut ==
  ASSUME NEW s \in Seq(Item), Distinct(s), NEW i \in DOMAIN s
  PROVE  LET r == RemoveAt(s, i)
         IN  /\ r \in Seq(Item) /\ Len(r) = Len(s) - 1 /\ Distinct(r) /\ ~InList(r, s[i].key)
             /\ Bytes(s) = Size[s[i].key] + Bytes(r) /\ s[i].key \in Contexts
<1>1. PICK n \in Nat : n = Len(s)
  OBVIOUS
<1>2. i \in 1 .. n /\ DOMAIN s = 1 .. n
  BY <1>1
<1>3. PICK r, k : r = RemoveAt(s, i) /\ k = s[i].key
  OBVIOUS
<1>4. r \in Seq(Item) /\ Len(r) = n - 1 /\ \A j \in 1 .. n - 1 : r[j] = IF j < i THEN s[j] ELSE s[j + 1]
  BY <1>1, <1>2, <1>3, RemovedAt
<1>5. DOMAIN r = 1 .. n - 1
  BY <1>1, <1>2, <1>4
<1>6. PICK h : h = [j \in 1 .. n - 1 |-> IF j < i THEN j ELSE j + 1]
  OBVIOUS
<1>7. ASSUME NEW j \in 1 .. n - 1 PROVE h[j] \in 1 .. n /\ h[j] # i /\ r[j] = s[h[j]]
  BY <1>1, <1>2, <1>4, <1>6
<1>8. ASSUME NEW j \in 1 .. n - 1, NEW m \in 1 .. n - 1, h[j] = h[m] PROVE j = m
  BY <1>1, <1>2, <1>6, <1>8
<1>9. \A j, m \in 1 .. n : s[j].key = s[m].key => j = m
  BY <1>2 DEF Distinct
<1>10. Distinct(r)
  <2>1. SUFFICES ASSUME NEW j \in 1 .. n - 1, NEW m \in 1 .. n - 1, r[j].key = r[m].key PROVE j = m
    BY <1>5 DEF Distinct
  <2>2. h[j] = h[m]
    BY <1>7, <1>9, <2>1
  <2>3. QED
    BY <1>8, <2>2
<1>11. ~InList(r, k)
  <2>1. \A j \in 1 .. n - 1 : r[j].key # k
    BY <1>2, <1>3, <1>7, <1>9
  <2>2. QED
    BY <1>5, <2>1 DEF InList
<1>12. KeysOf(r) = KeysOf(s) \ {k} /\ k \in KeysOf(s)
  <2>1. \A x : InList(r, x) => InList(s, x)
    BY <1>2, <1>5, <1>7 DEF InList
  <2>2. \A x : InList(s, x) => InList(r, x) \/ x = k
    BY <1>3, RemoveAtKeeps DEF InList
  <2>3. InList(s, k)
    BY <1>3 DEF InList
  <2>4. QED
    BY <1>4, <1>11, <2>1, <2>2, <2>3, KeysListed
<1>13. Bytes(s) = Size[k] + Bytes(r)
  <2>1. PICK K : K = KeysOf(s)
    OBVIOUS
  <2>2. IsFiniteSet(K) /\ \A x \in K : Size[x] \in Int
    BY <2>1, KeysListed
  <2>3. SumFunctionOnSet(Size, K) = Size[k] + SumFunctionOnSet(Size, K \ {k})
    BY <1>12, <2>1, <2>2, SumTakes
  <2>4. QED
    BY <1>12, <2>1, <2>3 DEF Bytes
<1>14. k \in Contexts
  BY <1>12, KeysListed
<1>15. QED
  BY <1>1, <1>3, <1>4, <1>10, <1>11, <1>13, <1>14

LEMMA EntryIn ==
  ASSUME NEW s \in Seq(Item), Distinct(s), NEW e \in Item, ~InList(s, e.key)
  PROVE  LET a == Append(s, e)
         IN  a \in Seq(Item) /\ Len(a) = Len(s) + 1 /\ Distinct(a) /\ Bytes(a) = Bytes(s) + Size[e.key]
<1>1. PICK n \in Nat : n = Len(s) /\ DOMAIN s = 1 .. n
  OBVIOUS
<1>2. PICK a, k : a = Append(s, e) /\ k = e.key
  OBVIOUS
<1>3. /\ a \in Seq(Item) /\ Len(a) = n + 1 /\ DOMAIN a = 1 .. n + 1 /\ a[n + 1] = e
      /\ \A i \in 1 .. n : a[i] = s[i]
  BY <1>1, <1>2
<1>4. \A i \in 1 .. n : s[i].key # k
  BY <1>1, <1>2 DEF InList
<1>5. Distinct(a)
  <2>1. SUFFICES ASSUME NEW i \in 1 .. n + 1, NEW j \in 1 .. n + 1, a[i].key = a[j].key PROVE i = j
    BY <1>3 DEF Distinct
  <2>2. \A m \in 1 .. n + 1 : m \in 1 .. n \/ m = n + 1
    BY <1>1
  <2>3. CASE i \in 1 .. n /\ j \in 1 .. n
    BY <1>1, <1>3, <2>1, <2>3 DEF Distinct
  <2>4. CASE i = n + 1 \/ j = n + 1
    BY <1>2, <1>3, <1>4, <2>1, <2>2, <2>4
  <2>5. QED
    BY <2>2, <2>3, <2>4
<1>6. KeysOf(a) = KeysOf(s) \cup {k} /\ k \notin KeysOf(s)
  <2>1. \A x : InList(a, x) => InList(s, x) \/ x = k
    <3>1. \A m \in 1 .. n + 1 : m \in 1 .. n \/ m = n + 1
      BY <1>1
    <3>2. QED
      BY <1>1, <1>2, <1>3, <3>1 DEF InList
  <2>2. \A x : InList(s, x) \/ x = k => InList(a, x)
    BY <1>2, AppendKey
  <2>3. QED
    BY <1>2, <1>3, <2>1, <2>2, KeysListed
<1>7. Bytes(a) = Bytes(s) + Size[k]
  <2>1. PICK S, T : S = KeysOf(s) /\ T = KeysOf(a)
    OBVIOUS
  <2>2. IsFiniteSet(T) /\ T \subseteq Contexts /\ k \in T /\ T \ {k} = S
    BY <1>3, <1>6, <2>1, KeysListed
  <2>3. \A x \in T : Size[x] \in Int
    BY <2>2, KeysListed
  <2>4. SumFunctionOnSet(Size, T) = Size[k] + SumFunctionOnSet(Size, S)
    BY <2>2, <2>3, SumTakes
  <2>5. Bytes(a) \in Nat /\ Bytes(s) \in Nat /\ Size[k] \in Nat
    BY <1>3, <2>2, KeysListed
  <2>6. QED
    BY <2>1, <2>4, <2>5 DEF Bytes
<1>8. QED
  BY <1>1, <1>2, <1>3, <1>5, <1>7

LEMMA SuffixListed ==
  ASSUME NEW s \in Seq(Item), NEW n \in 0 .. Len(s)
  PROVE  LET b == SubSeq(s, n + 1, Len(s))
         IN  /\ b \in Seq(Item) /\ Len(b) = Len(s) - n /\ (Distinct(s) => Distinct(b))
             /\ \A k : InList(b, k) => InList(s, k)
<1>1. PICK m \in Nat : m = Len(s)
  OBVIOUS
<1>2. n \in Nat /\ n <= m /\ DOMAIN s = 1 .. m
  BY <1>1
<1>3. PICK b : b = SubSeq(s, n + 1, m)
  OBVIOUS
<1>4. /\ b \in Seq(Item) /\ Len(b) = m - n /\ DOMAIN b = 1 .. m - n
      /\ \A i \in 1 .. m - n : b[i] = s[n + i]
  BY <1>1, <1>2, <1>3
<1>5. \A i \in 1 .. m - n : n + i \in 1 .. m
  BY <1>1, <1>2
<1>6. ASSUME Distinct(s) PROVE Distinct(b)
  <2>1. SUFFICES ASSUME NEW i \in 1 .. m - n, NEW j \in 1 .. m - n, b[i].key = b[j].key PROVE i = j
    BY <1>4 DEF Distinct
  <2>2. n + i = n + j
    BY <1>2, <1>4, <1>5, <1>6, <2>1 DEF Distinct
  <2>3. QED
    BY <1>2, <2>2
<1>7. \A k : InList(b, k) => InList(s, k)
  BY <1>2, <1>4, <1>5 DEF InList
<1>8. QED
  BY <1>1, <1>3, <1>4, <1>6, <1>7

\* An entry is taken out of VRAM: it had been listed once.
LEMMA TakenOut ==
  ASSUME TierTypes, Balanced(tier[VRAM], allocated_bytes), NEW k
  PROVE  LET r == remove(VRAM, k)
         IN  /\ r \in Seq(Item) /\ Distinct(r) /\ ~InList(r, k)
             /\ Has(VRAM, k) => /\ Len(r) = Len(tier[VRAM]) - 1 /\ k \in Contexts
                                /\ allocated_bytes = Size[k] + Bytes(r)
<1>1. PICK s, r : s = tier[VRAM] /\ r = remove(VRAM, k)
  OBVIOUS
<1>2. s \in Seq(Item) /\ Distinct(s) /\ allocated_bytes = Bytes(s)
  BY <1>1 DEF TierTypes, Balanced, VRAM, COLD
<1>3. CASE ~Has(VRAM, k)
  <2>1. r = s /\ ~InList(s, k)
    BY <1>1, <1>3, HasIsInList DEF remove
  <2>2. QED
    BY <1>1, <1>2, <1>3, <2>1
<1>4. CASE Has(VRAM, k)
  <2>1. PICK i : i = CHOOSE x \in DOMAIN s : s[x].key = k
    OBVIOUS
  <2>2. i \in DOMAIN s /\ s[i].key = k
    BY <1>1, <1>4, <2>1, HasIsInList DEF InList
  <2>3. r = RemoveAt(s, i)
    BY <1>1, <1>4, <2>1 DEF remove
  <2>4. /\ r \in Seq(Item) /\ Len(r) = Len(s) - 1 /\ Distinct(r) /\ ~InList(r, k)
        /\ Bytes(s) = Size[k] + Bytes(r) /\ k \in Contexts
    BY <1>2, <2>2, <2>3, EntryOut
  <2>5. QED
    BY <1>1, <1>2, <2>4
<1>5. QED
  BY <1>3, <1>4

LEMMA RemovedBalanced ==
  ASSUME TierTypes, Balanced(tier[VRAM], allocated_bytes), NEW k, Has(VRAM, k)
  PROVE  Balanced(remove(VRAM, k), allocated_bytes - Size[k])
<1>1. PICK s, r : s = tier[VRAM] /\ r = remove(VRAM, k)
  OBVIOUS
<1>2. /\ r \in Seq(Item) /\ Distinct(r) /\ Len(r) = Len(s) - 1 /\ k \in Contexts
      /\ allocated_bytes = Size[k] + Bytes(r)
  BY <1>1, TakenOut
<1>3. Bytes(r) \in Nat /\ Size[k] \in Nat /\ capacity_bytes \in Nat
  BY <1>2, KeysListed, TiersAssumption
<1>4. allocated_bytes - Size[k] = Bytes(r)
  BY <1>2, <1>3
<1>5. ASSUME Bytes(r) > capacity_bytes PROVE FALSE
  <2>1. allocated_bytes > capacity_bytes
    BY <1>2, <1>3, <1>5
  <2>2. Len(s) = 1
    BY <1>1, <2>1 DEF Balanced
  <2>3. Len(r) = 0
    BY <1>2, <2>2
  <2>4. Bytes(r) = 0
    BY <1>2, <2>3, NothingListed
  <2>5. QED
    BY <1>3, <1>5, <2>4
<1>6. QED
  BY <1>1, <1>2, <1>4, <1>5 DEF Balanced

LEMMA TouchBalanced ==
  ASSUME TierTypes, Balanced(tier[VRAM], allocated_bytes), NEW k, Has(VRAM, k), tier' = Touch(k)
  PROVE  Balanced(tier'[VRAM], allocated_bytes)
<1>1. PICK s, r, e : s = tier[VRAM] /\ r = remove(VRAM, k) /\ e = [key |-> k, val |-> ValueAt(VRAM, k)]
  OBVIOUS
<1>2. VRAM \in VRAM .. COLD /\ tier \in [VRAM .. COLD -> Seq(Item)]
  BY DEF TierTypes, VRAM, COLD
<1>3. tier'[VRAM] = Append(r, e)
  BY <1>1, <1>2 DEF Touch
<1>4. e \in Item /\ e.key = k
  BY <1>1, <1>2, ValueTyped DEF Item
<1>5. /\ r \in Seq(Item) /\ Distinct(r) /\ ~InList(r, k) /\ Len(r) = Len(s) - 1 /\ k \in Contexts
      /\ allocated_bytes = Size[k] + Bytes(r)
  BY <1>1, TakenOut
<1>6. PICK a : a = Append(r, e)
  OBVIOUS
<1>7. Len(a) = Len(r) + 1 /\ Distinct(a) /\ Bytes(a) = Bytes(r) + Size[k]
  BY <1>4, <1>5, <1>6, EntryIn
<1>8. Bytes(r) \in Nat /\ Size[k] \in Nat /\ Len(s) \in Nat
  BY <1>1, <1>2, <1>5, KeysListed
<1>9. Len(a) = Len(s) /\ Bytes(a) = allocated_bytes
  BY <1>5, <1>7, <1>8
<1>10. allocated_bytes > capacity_bytes => Len(s) = 1
  BY <1>1 DEF Balanced
<1>11. QED
  BY <1>3, <1>6, <1>7, <1>9, <1>10 DEF Balanced

\* Entries leave until the new one fits in, or until it is alone.
LEMMA LoadBalanced ==
  ASSUME TierTypes, Balanced(tier[VRAM], allocated_bytes), NEW e \in Item
  PROVE  LET r == insert_with_metadata(e) IN Balanced(r.vram, r.bytes)
<1>1. PICK others, n, in, kept :
           /\ others = remove(VRAM, e.key) /\ n = Victims(others, Size[e.key])
           /\ in = SubSeq(others, n + 1, Len(others)) /\ kept = Append(in, e)
  OBVIOUS
<1>2. others \in Seq(Item) /\ Distinct(others) /\ ~InList(others, e.key)
  BY <1>1, TakenOut
<1>3. n \in 0 .. Len(others) /\ (n = Len(others) \/ Bytes(in) + Size[e.key] <= capacity_bytes)
  BY <1>1, <1>2, VictimsRange
<1>4. in \in Seq(Item) /\ Len(in) = Len(others) - n /\ Distinct(in) /\ ~InList(in, e.key)
  <2>1. n \in 0 .. Len(others)
    BY <1>3
  <2>2. /\ in \in Seq(Item) /\ Len(in) = Len(others) - n /\ Distinct(in)
        /\ \A k : InList(in, k) => InList(others, k)
    <3>1. PICK b : b = SubSeq(others, n + 1, Len(others))
      OBVIOUS
    <3>2. /\ b \in Seq(Item) /\ Len(b) = Len(others) - n /\ Distinct(b)
          /\ \A k : InList(b, k) => InList(others, k)
      BY <1>2, <2>1, <3>1, SuffixListed
    <3>3. QED
      BY <1>1, <3>1, <3>2
  <2>3. QED
    BY <1>2, <2>2
<1>5. /\ kept \in Seq(Item) /\ Len(kept) = Len(in) + 1 /\ Distinct(kept)
      /\ Bytes(kept) = Bytes(in) + Size[e.key]
  BY <1>1, <1>4, EntryIn
<1>6. Bytes(kept) > capacity_bytes => Len(kept) = 1
  <2>1. Bytes(kept) \in Nat /\ capacity_bytes \in Nat /\ Len(others) \in Nat
    BY <1>2, <1>5, KeysListed, TiersAssumption
  <2>2. QED
    BY <1>3, <1>4, <1>5, <2>1
<1>7. insert_with_metadata(e).vram = kept /\ insert_with_metadata(e).bytes = Bytes(kept)
  BY <1>1 DEF insert_with_metadata
<1>8. QED
  BY <1>5, <1>6, <1>7 DEF Balanced

\* The steps that follow the one at hand.
LEMMA OneSpares ==
  /\ <<>> \in Seq(StepRecord) /\ SparesVram(<<>>)
  /\ \A s \in StepRecord : (s.op \in {"settle", "drop", "take"} => s.at # VRAM) =>
                             <<s>> \in Seq(StepRecord) /\ SparesVram(<<s>>)
<1>1. <<>> \in Seq(StepRecord) /\ DOMAIN <<>> = {}
  OBVIOUS
<1>2. ASSUME NEW s \in StepRecord, s.op \in {"settle", "drop", "take"} => s.at # VRAM
      PROVE  <<s>> \in Seq(StepRecord) /\ SparesVram(<<s>>)
  <2>1. PICK l : l = <<s>>
    OBVIOUS
  <2>2. l \in Seq(StepRecord) /\ DOMAIN l = {1} /\ l[1] = s
    BY <2>1
  <2>3. QED
    BY <1>2, <2>1, <2>2 DEF SparesVram
<1>3. QED
  BY <1>1, <1>2 DEF SparesVram

LEMMA FollowSpares ==
  ASSUME AccountInv, NEW w \in Workers, worker[w] # <<>>,
         NEW a \in Seq(StepRecord), SparesVram(a), Follow(w, a)
  PROVE  \A v \in Workers : SparesVram(worker'[v])
<1>1. PICK l, b : l = worker[w] /\ b = a \o Tail(l)
  OBVIOUS
<1>2. worker \in [Workers -> Seq(StepRecord)] /\ l \in Seq(StepRecord) /\ SparesVram(l) /\ l # <<>>
  BY <1>1 DEF AccountInv, TiersInv, TierTypes
<1>3. PICK n \in Nat, m \in Nat : n = Len(l) /\ m = Len(a)
  OBVIOUS
<1>4. /\ b \in Seq(StepRecord) /\ Len(b) = m + n - 1
      /\ \A i \in 1 .. m : b[i] = a[i]
      /\ \A i \in 2 .. n : b[m + i - 1] = l[i]
  BY <1>1, <1>2, <1>3, Joined
<1>5. DOMAIN b = 1 .. m + n - 1 /\ DOMAIN a = 1 .. m /\ DOMAIN l = 1 .. n
  BY <1>2, <1>3, <1>4
<1>6. ASSUME NEW i \in 1 .. m + n - 1
      PROVE  (\E j \in 1 .. m : b[i] = a[j]) \/ (\E j \in 1 .. n : b[i] = l[j])
  <2>1. CASE i <= m
    <3>1. i \in 1 .. m
      BY <1>3, <2>1
    <3>2. QED
      BY <1>4, <3>1
  <2>2. CASE ~(i <= m)
    <3>1. PICK j : j = i - m + 1
      OBVIOUS
    <3>2. j \in 2 .. n /\ m + j - 1 = i /\ j \in 1 .. n
      BY <1>3, <2>2, <3>1
    <3>3. QED
      BY <1>4, <3>2
  <2>3. QED
    BY <2>1, <2>2
<1>7. SparesVram(b)
  BY <1>2, <1>5, <1>6 DEF SparesVram
<1>8. worker'[w] = b /\ \A v \in Workers : v # w => worker'[v] = worker[v]
  BY <1>1, <1>2 DEF Follow
<1>9. QED
  BY <1>7, <1>8 DEF AccountInv

LEMMA StartSpares ==
  ASSUME AccountInv, NEW w \in Workers, NEW s \in StepRecord,
         s.op \in {"settle", "drop", "take"} => s.at # VRAM,
         worker' = [worker EXCEPT ![w] = <<s>>]
  PROVE  \A v \in Workers : SparesVram(worker'[v])
<1>1. PICK a : a = <<s>> /\ SparesVram(a)
  BY OneSpares
<1>2. worker'[w] = a /\ \A v \in Workers : v # w => worker'[v] = worker[v]
  BY <1>1 DEF AccountInv, TiersInv, TierTypes
<1>3. QED
  BY <1>1, <1>2 DEF AccountInv

\* A step whose follow-ups spare VRAM, and which leaves VRAM alone itself.
LEMMA AccountKept ==
  ASSUME AccountInv, TiersInv', \A v \in Workers : SparesVram(worker'[v]),
         tier'[VRAM] = tier[VRAM], UNCHANGED allocated_bytes
  PROVE  AccountInv'
<1>1. PICK s : s = tier[VRAM] /\ s = tier'[VRAM]
  OBVIOUS
<1>2. Balanced(s, allocated_bytes)
  BY <1>1 DEF AccountInv
<1>3. Balanced(tier'[VRAM], allocated_bytes')
  BY <1>1, <1>2
<1>4. Balanced(tier[VRAM], allocated_bytes)'
  BY <1>3 DEF Balanced, Distinct, Bytes, KeysOf
<1>5. QED
  BY <1>4 DEF AccountInv, SparesVram

LEMMA OthersKept ==
  ASSUME TierTypes, NEW t \in VRAM .. COLD, NEW s, tier' = [tier EXCEPT ![t] = s], t # VRAM
  PROVE  tier'[VRAM] = tier[VRAM]
<1>1. VRAM \in VRAM .. COLD /\ tier \in [VRAM .. COLD -> Seq(Item)]
  BY DEF VRAM, COLD, TierTypes
<1>2. QED
  BY <1>1

LEMMA InsertHotAccounted ==
  ASSUME AccountInv, TiersInv', NEW w \in Workers, worker[w] # <<>>, worker[w][1] \in StepRecord,
         InsertHot(w, worker[w][1]), UNCHANGED allocated_bytes
  PROVE  AccountInv'
<1>1. PICK s, hot, e : /\ s = worker[w][1] /\ e = [key |-> s.key, val |-> s.val]
                       /\ hot = insert(HOT, e)
  OBVIOUS
<1>2. HOT \in VRAM .. COLD /\ HOT # VRAM /\ TierTypes /\ e \in Item
  BY <1>1 DEF HOT, VRAM, COLD, AccountInv, TiersInv, StepRecord, Item
<1>3. hot \in Seq(Item) /\ hot # <<>>
  BY <1>1, <1>2, InsertKey
<1>4. PICK n : n = Step("spill", hot[1].key, hot[1].val, WARM)
  OBVIOUS
<1>5. n \in StepRecord /\ n.op = "spill"
  <2>1. hot[1] \in Item
    BY <1>3, TailKeys
  <2>2. QED
    BY <1>4, <2>1 DEF Step, StepRecord, Item, Ops, WARM, VRAM, COLD
<1>6. tier' = [tier EXCEPT ![HOT] = Tail(hot)] \/ tier' = [tier EXCEPT ![HOT] = hot]
  BY <1>1 DEF InsertHot
<1>7. tier'[VRAM] = tier[VRAM]
  BY <1>2, <1>6, OthersKept
<1>8. Follow(w, <<n>>) \/ Follow(w, <<>>)
  BY <1>1, <1>4 DEF InsertHot, Done
<1>9. \A v \in Workers : SparesVram(worker'[v])
  <2>1. PICK a \in Seq(StepRecord) : SparesVram(a) /\ Follow(w, a)
    BY <1>5, <1>8, OneSpares
  <2>2. QED
    BY <2>1, FollowSpares
<1>10. QED
  BY <1>7, <1>9, AccountKept

LEMMA HandSpares ==
  ASSUME AccountInv, NEW w \in Workers, NEW op, At(w, op)
  PROVE  /\ worker[w] # <<>> /\ worker[w][1] \in StepRecord /\ worker[w][1].op = op
         /\ op \in {"settle", "drop", "take"} => worker[w][1].at # VRAM
<1>1. worker[w] \in Seq(StepRecord) /\ worker[w] # <<>> /\ worker[w][1].op = op /\ SparesVram(worker[w])
  BY DEF AccountInv, TiersInv, TierTypes, At
<1>2. 1 \in DOMAIN worker[w] /\ worker[w][1] \in StepRecord
  BY <1>1
<1>3. QED
  BY <1>1, <1>2 DEF SparesVram

\* The steps that leave VRAM as it is.
LEMMA BelowAccounted ==
  ASSUME AccountInv, TiersInv', NEW w \in Workers,
         \/ put(w) \/ put_insert(w) \/ evict_to_warm(w) \/ settle(w)
         \/ drop_copy(w) \/ promote(w) \/ promote_take(w)
  PROVE  AccountInv'
<1>0. TiersInv /\ TierTypes
  BY DEF AccountInv, TiersInv
<1>1. PICK s : s = worker[w][1]
  OBVIOUS
<1>2. CASE put(w)
  <2>1. worker[w] # <<>> /\ s \in StepRecord /\ UNCHANGED allocated_bytes
    BY <1>1, <1>2, HandSpares DEF put
  <2>2. CASE InsertHot(w, s)
    BY <1>1, <2>1, <2>2, InsertHotAccounted
  <2>3. CASE Follow(w, <<[s EXCEPT !.op = "insert"]>>) /\ UNCHANGED tier
    <3>1. PICK n : n = [s EXCEPT !.op = "insert"]
      OBVIOUS
    <3>2. n \in StepRecord /\ n.op = "insert"
      BY <2>1, <3>1 DEF StepRecord, Ops
    <3>3. PICK a \in Seq(StepRecord) : SparesVram(a) /\ Follow(w, a)
      BY <2>3, <3>1, <3>2, OneSpares
    <3>4. \A v \in Workers : SparesVram(worker'[v])
      BY <2>1, <3>3, FollowSpares
    <3>5. QED
      BY <2>1, <2>3, <3>4, AccountKept
  <2>4. QED
    BY <1>1, <1>2, <2>2, <2>3 DEF put
<1>3. CASE put_insert(w)
  <2>1. worker[w] # <<>> /\ worker[w][1] \in StepRecord /\ UNCHANGED allocated_bytes
    BY <1>3, HandSpares DEF put_insert
  <2>2. QED
    BY <1>3, <2>1, InsertHotAccounted DEF put_insert
<1>4. CASE evict_to_warm(w)
  <2>1. /\ worker[w] # <<>> /\ s \in StepRecord /\ UNCHANGED allocated_bytes
    BY <1>1, <1>4, HandSpares DEF evict_to_warm, StoresOnly
  <2>2. PICK e, warm : e = [key |-> s.key, val |-> s.val] /\ warm = insert(WARM, e)
    OBVIOUS
  <2>3. WARM \in VRAM .. COLD /\ WARM # VRAM /\ e \in Item
    BY <2>1, <2>2 DEF WARM, VRAM, COLD, StepRecord, Item
  <2>4. warm \in Seq(Item) /\ warm # <<>>
    BY <1>0, <2>2, <2>3, InsertKey
  <2>5. PICK n : n = Step("settle", warm[1].key, warm[1].val, COLD)
    OBVIOUS
  <2>6. n \in StepRecord /\ n.at # VRAM
    <3>1. warm[1] \in Item
      BY <2>4, TailKeys
    <3>2. QED
      BY <2>5, <3>1 DEF Step, StepRecord, Item, Ops, VRAM, COLD
  <2>7. tier' = [tier EXCEPT ![WARM] = Tail(warm)] \/ tier' = [tier EXCEPT ![WARM] = warm]
    BY <1>1, <1>4, <2>2 DEF evict_to_warm
  <2>8. tier'[VRAM] = tier[VRAM]
    BY <1>0, <2>3, <2>7, OthersKept
  <2>9. Follow(w, <<n>>) \/ Follow(w, <<>>)
    BY <1>1, <1>4, <2>2, <2>5 DEF evict_to_warm, Done
  <2>10. PICK a \in Seq(StepRecord) : SparesVram(a) /\ Follow(w, a)
    BY <2>6, <2>9, OneSpares
  <2>11. \A v \in Workers : SparesVram(worker'[v])
    BY <2>1, <2>10, FollowSpares
  <2>12. QED
    BY <2>1, <2>8, <2>11, AccountKept
<1>5. CASE settle(w) \/ drop_copy(w)
  <2>1. /\ worker[w] # <<>> /\ s \in StepRecord /\ s.at # VRAM
        /\ UNCHANGED allocated_bytes /\ Follow(w, <<>>)
    BY <1>1, <1>5, HandSpares DEF settle, drop_copy, StoresOnly, Done
  <2>2. s.at \in VRAM .. COLD
    BY <2>1 DEF StepRecord
  <2>3. \E l : tier' = [tier EXCEPT ![s.at] = l]
    BY <1>1, <1>5 DEF settle, drop_copy
  <2>4. tier'[VRAM] = tier[VRAM]
    BY <1>0, <2>1, <2>2, <2>3, OthersKept
  <2>5. \A v \in Workers : SparesVram(worker'[v])
    BY <2>1, OneSpares, FollowSpares
  <2>6. QED
    BY <2>1, <2>4, <2>5, AccountKept
<1>6. CASE promote(w)
  <2>1. /\ worker[w] # <<>> /\ s \in StepRecord /\ s.op \in {"promote", "promote_hot"}
        /\ UNCHANGED <<tier, allocated_bytes>>
    BY <1>1, <1>6, HandSpares DEF promote, StoresOnly
  <2>2. PICK n, m : n = [s EXCEPT !.op = "promote_hot"] /\ m = [s EXCEPT !.op = "take", !.at = WARM]
    OBVIOUS
  <2>3. n \in StepRecord /\ n.op = "promote_hot" /\ m \in StepRecord /\ m.at # VRAM
    <3>1. WARM \in VRAM .. COLD /\ WARM # VRAM
      BY DEF WARM, VRAM, COLD
    <3>2. n \in StepRecord /\ n.op = "promote_hot"
      BY <2>1, <2>2 DEF StepRecord, Ops
    <3>3. m \in StepRecord /\ m.at = WARM
      BY <2>1, <2>2, <3>1 DEF StepRecord, Ops
    <3>4. QED
      BY <3>1, <3>2, <3>3
  <2>4. Follow(w, <<>>) \/ Follow(w, <<n>>) \/ Follow(w, <<m>>)
    BY <1>1, <1>6, <2>2 DEF promote
  <2>5. PICK a \in Seq(StepRecord) : SparesVram(a) /\ Follow(w, a)
    BY <2>3, <2>4, OneSpares
  <2>6. \A v \in Workers : SparesVram(worker'[v])
    BY <2>1, <2>5, FollowSpares
  <2>7. QED
    BY <2>1, <2>6, AccountKept
<1>7. CASE promote_take(w)
  <2>1. /\ worker[w] # <<>> /\ s \in StepRecord /\ s.at # VRAM /\ s.op = "take" /\ UNCHANGED allocated_bytes
    BY <1>1, <1>7, HandSpares DEF promote_take, StoresOnly
  <2>2. s.at \in VRAM .. COLD /\ s.key \in Contexts
    BY <2>1 DEF StepRecord
  <2>3. tier' = [tier EXCEPT ![s.at] = remove(s.at, s.key)]
    BY <1>1, <1>7 DEF promote_take
  <2>4. tier'[VRAM] = tier[VRAM]
    BY <1>0, <2>1, <2>2, <2>3, OthersKept
  <2>5. PICK n, m : n = Step("put", s.key, ValueAt(s.at, s.key), VRAM) /\ m = [s EXCEPT !.at = COLD]
    OBVIOUS
  <2>6. m \in StepRecord /\ m.at # VRAM /\ n.op = "put"
    BY <2>1, <2>5 DEF StepRecord, Step, VRAM, COLD
  <2>7. Has(s.at, s.key) => n \in StepRecord
    <3>1. Has(s.at, s.key) => ValueAt(s.at, s.key) \in 0 .. MaxVersions
      BY <1>0, <2>2, ValueTyped
    <3>2. QED
      BY <2>2, <2>5, <3>1 DEF Step, StepRecord, Ops, VRAM, COLD
  <2>8. (Has(s.at, s.key) /\ Follow(w, <<n>>)) \/ Follow(w, <<m>>) \/ Follow(w, <<>>)
    BY <1>1, <1>7, <2>5 DEF promote_take
  <2>9. PICK a \in Seq(StepRecord) : SparesVram(a) /\ Follow(w, a)
    BY <2>6, <2>7, <2>8, OneSpares
  <2>10. \A v \in Workers : SparesVram(worker'[v])
    BY <2>1, <2>9, FollowSpares
  <2>11. QED
    BY <2>1, <2>4, <2>10, AccountKept
<1>8. QED
  BY <1>2, <1>3, <1>4, <1>5, <1>6, <1>7

LEMMA AccountHolds ==
  ASSUME TiersInv', \A v \in Workers : SparesVram(worker'[v]), Balanced(tier'[VRAM], allocated_bytes')
  PROVE  AccountInv'
<1>1. Balanced(tier[VRAM], allocated_bytes)'
  BY DEF Balanced, Distinct, Bytes, KeysOf
<1>2. QED
  BY <1>1 DEF AccountInv, SparesVram

LEMMA FoundSpares ==
  ASSUME NEW k \in Contexts, NEW v \in 0 .. MaxVersions
  PROVE  LET a == [i \in 1 .. 3 |-> Step("drop", k, v, i + 1)] \o <<Step("load", k, v, VRAM)>>
         IN  a \in Seq(StepRecord) /\ SparesVram(a)
<1>1. PICK d, ld, a : /\ d = [i \in 1 .. 3 |-> Step("drop", k, v, i + 1)] /\ ld = Step("load", k, v, VRAM)
                      /\ a = d \o <<ld>>
  OBVIOUS
<1>2. ld \in StepRecord /\ ld.op = "load"
  BY <1>1 DEF Step, StepRecord, Ops, VRAM, COLD
<1>3. \A i \in 1 .. 3 : d[i] \in StepRecord /\ d[i].at # VRAM
  BY <1>1 DEF Step, StepRecord, Ops, VRAM, COLD
<1>4. d \in Seq(StepRecord) /\ Len(d) = 3
  <2>1. d \in [1 .. 3 -> StepRecord]
    BY <1>1, <1>3
  <2>2. QED
    BY <2>1, Listed
<1>5. a \in Seq(StepRecord) /\ DOMAIN a = 1 .. 4 /\ a[4] = ld /\ \A i \in 1 .. 3 : a[i] = d[i]
  BY <1>1, <1>2, <1>4
<1>6. \A i \in 1 .. 4 : i \in 1 .. 3 \/ i = 4
  OBVIOUS
<1>7. SparesVram(a)
  BY <1>2, <1>3, <1>5, <1>6 DEF SparesVram
<1>8. QED
  BY <1>1, <1>5, <1>7

\* The steps that change what VRAM has.
LEMMA PageAccounted ==
  ASSUME AccountInv, TiersInv', NEW w \in Workers, page_to_vram(w) \/ get(w)
  PROVE  AccountInv'
<1>1. PICK s : s = worker[w][1]
  OBVIOUS
<1>2. worker[w] # <<>> /\ s \in StepRecord /\ UNCHANGED allocated_bytes
  BY <1>1, HandSpares DEF page_to_vram, get, StoresOnly
<1>3. TierTypes /\ Balanced(tier[VRAM], allocated_bytes)
  BY DEF AccountInv, TiersInv
<1>4. PICK a \in Seq(StepRecord) : SparesVram(a) /\ Follow(w, a)
  <2>1. CASE page_to_vram(w)
    <3>1. PICK n : n = [s EXCEPT !.op = "look"]
      OBVIOUS
    <3>2. n \in StepRecord /\ n.op = "look"
      BY <1>2, <3>1 DEF StepRecord, Ops
    <3>3. Follow(w, <<n>>) \/ Follow(w, <<>>)
      BY <1>1, <2>1, <3>1 DEF page_to_vram, Done
    <3>4. QED
      BY <3>2, <3>3, OneSpares
  <2>2. CASE get(w) /\ ~Has(s.at, s.key)
    <3>0. s.op = "look" /\ s.at \in VRAM .. COLD
      BY <1>1, <1>2, <2>2, HandSpares DEF get, StepRecord
    <3>1. PICK n : n = [s EXCEPT !.at = @ + 1]
      OBVIOUS
    <3>2. s.at = COLD \/ (n \in StepRecord /\ n.op = "look")
      <4>1. s.at # COLD => s.at + 1 \in VRAM .. COLD
        BY <3>0 DEF VRAM, COLD
      <4>2. QED
        BY <1>2, <3>0, <3>1, <4>1 DEF StepRecord
    <3>3. (s.at # COLD /\ Follow(w, <<n>>)) \/ Follow(w, <<>>)
      BY <1>1, <2>2, <3>1 DEF get
    <3>4. QED
      BY <3>2, <3>3, OneSpares
  <2>3. CASE get(w) /\ Has(s.at, s.key)
    <3>1. PICK v, a : /\ v = ValueAt(s.at, s.key)
                      /\ a = [i \in 1 .. 3 |-> Step("drop", s.key, v, i + 1)] \o <<Step("load", s.key, v, VRAM)>>
      OBVIOUS
    <3>2. Follow(w, a)
      BY <1>1, <2>3, <3>1 DEF get
    <3>3. s.key \in Contexts /\ v \in 0 .. MaxVersions
      BY <1>2, <1>3, <2>3, <3>1, ValueTyped DEF StepRecord
    <3>4. a \in Seq(StepRecord) /\ SparesVram(a)
      BY <3>1, <3>3, FoundSpares
    <3>5. QED
      BY <3>2, <3>4
  <2>4. QED
    BY <2>1, <2>2, <2>3
<1>5. \A v \in Workers : SparesVram(worker'[v])
  BY <1>2, <1>4, FollowSpares
<1>6. tier' = tier \/ (Has(VRAM, s.key) /\ tier' = Touch(s.key))
  BY <1>1 DEF page_to_vram, get
<1>7. Balanced(tier'[VRAM], allocated_bytes)
  BY <1>3, <1>6, TouchBalanced
<1>8. QED
  BY <1>2, <1>5, <1>7, AccountHolds

LEMMA LoadAccounted == ASSUME AccountInv, TiersInv', NEW w \in Workers, load(w) PROVE AccountInv'
<1>1. PICK s, e, r : /\ s = worker[w][1] /\ e = [key |-> s.key, val |-> s.val]
                     /\ r = insert_with_metadata(e)
  OBVIOUS
<1>2. worker[w] # <<>> /\ s \in StepRecord
  BY <1>1, HandSpares DEF load
<1>3. /\ TierTypes /\ Balanced(tier[VRAM], allocated_bytes) /\ e \in Item
      /\ VRAM \in VRAM .. COLD /\ tier \in [VRAM .. COLD -> Seq(Item)]
  <2>1. TierTypes /\ Balanced(tier[VRAM], allocated_bytes)
    BY DEF AccountInv, TiersInv
  <2>2. e \in Item
    BY <1>1, <1>2 DEF StepRecord, Item
  <2>3. QED
    BY <2>1, <2>2 DEF TierTypes, VRAM, COLD
<1>4. tier' = [tier EXCEPT ![VRAM] = r.vram] /\ allocated_bytes' = r.bytes
  BY <1>1 DEF load
<1>5. Balanced(tier'[VRAM], allocated_bytes')
  <2>1. Balanced(r.vram, r.bytes)
    BY <1>1, <1>3, LoadBalanced
  <2>2. tier'[VRAM] = r.vram
    BY <1>3, <1>4
  <2>3. QED
    BY <1>4, <2>1, <2>2
<1>6. PICK others, n, out :
        /\ others = remove(VRAM, e.key) /\ n = Victims(others, Size[e.key]) /\ out = SubSeq(others, 1, n)
  OBVIOUS
<1>7. out \in Seq(Item)
  <2>1. others \in Seq(Item)
    BY <1>3, <1>6, TakenOut
  <2>2. n \in 0 .. Len(others)
    BY <1>6, <2>1, VictimsRange
  <2>3. QED
    BY <1>6, <2>1, <2>2, Prefixed
<1>8. PICK a : a = [i \in DOMAIN out |-> Step("put", out[i].key, out[i].val, VRAM)]
  OBVIOUS
<1>9. a \in Seq(StepRecord) /\ SparesVram(a)
  <2>1. a \in Seq(StepRecord)
    BY <1>7, <1>8, PutsBack
  <2>2. DOMAIN a = DOMAIN out /\ \A i \in DOMAIN a : a[i].op = "put"
    BY <1>8 DEF Step
  <2>3. QED
    BY <2>1, <2>2 DEF SparesVram
<1>10. Follow(w, a)
  <2>1. r.evicted = out
    BY <1>1, <1>6 DEF insert_with_metadata
  <2>2. QED
    BY <1>1, <1>8, <2>1 DEF load
<1>11. \A v \in Workers : SparesVram(worker'[v])
  BY <1>2, <1>9, <1>10, FollowSpares
<1>12. QED
  BY <1>5, <1>11, AccountHolds

LEMMA UnloadAccounted == ASSUME AccountInv, TiersInv', NEW w \in Workers, page_to_ram(w) PROVE AccountInv'
<1>1. PICK s : s = worker[w][1]
  OBVIOUS
<1>2. worker[w] # <<>> /\ s \in StepRecord
  BY <1>1, HandSpares DEF page_to_ram
<1>3. /\ TierTypes /\ Balanced(tier[VRAM], allocated_bytes) /\ s.key \in Contexts
      /\ VRAM \in VRAM .. COLD /\ tier \in [VRAM .. COLD -> Seq(Item)]
  <2>1. TierTypes /\ Balanced(tier[VRAM], allocated_bytes)
    BY DEF AccountInv, TiersInv
  <2>2. s.key \in Contexts
    BY <1>2 DEF StepRecord
  <2>3. QED
    BY <2>1, <2>2 DEF TierTypes, VRAM, COLD
<1>4. CASE Has(VRAM, s.key)
  <2>1. PICK n, r : n = Step("put", s.key, ValueAt(VRAM, s.key), VRAM) /\ r = remove(VRAM, s.key)
    OBVIOUS
  <2>2. /\ Follow(w, <<n>>) /\ tier' = [tier EXCEPT ![VRAM] = r]
        /\ allocated_bytes' = allocated_bytes - Size[s.key]
    BY <1>1, <1>4, <2>1 DEF page_to_ram
  <2>3. tier'[VRAM] = r
    BY <1>3, <2>2
  <2>4. Balanced(r, allocated_bytes - Size[s.key])
    BY <1>3, <1>4, <2>1, RemovedBalanced
  <2>5. n \in StepRecord /\ n.op = "put"
    <3>1. ValueAt(VRAM, s.key) \in 0 .. MaxVersions
      BY <1>3, <1>4, ValueTyped
    <3>2. QED
      BY <1>3, <2>1, <3>1 DEF Step, StepRecord, Ops
  <2>6. \A v \in Workers : SparesVram(worker'[v])
    <3>1. <<n>> \in Seq(StepRecord) /\ SparesVram(<<n>>)
      BY <2>5, OneSpares
    <3>2. QED
      BY <1>2, <2>2, <3>1, FollowSpares
  <2>7. QED
    BY <2>2, <2>3, <2>4, <2>6, AccountHolds
<1>5. CASE ~Has(VRAM, s.key)
  <2>1. Follow(w, <<>>) /\ UNCHANGED <<tier, allocated_bytes>>
    BY <1>1, <1>5 DEF page_to_ram, Done
  <2>2. \A v \in Workers : SparesVram(worker'[v])
    BY <1>2, <2>1, OneSpares, FollowSpares
  <2>3. QED
    BY <2>1, <2>2, AccountKept
<1>6. QED
  BY <1>4, <1>5

LEMMA SweepAccounted == ASSUME AccountInv, TiersInv', clean_key PROVE AccountInv'
<1>1. PICK k, t : /\ t = sweeper.at /\ tier' = [tier EXCEPT ![t] = remove(t, k)]
                  /\ allocated_bytes' = IF t = VRAM /\ Has(VRAM, k) THEN allocated_bytes - Size[k]
                                        ELSE allocated_bytes
  BY DEF clean_key
<1>2. /\ TierTypes /\ Balanced(tier[VRAM], allocated_bytes) /\ t \in VRAM .. COLD
      /\ tier \in [VRAM .. COLD -> Seq(Item)]
  BY <1>1 DEF AccountInv, TiersInv, TierTypes
<1>3. \A v \in Workers : SparesVram(worker'[v])
  BY DEF clean_key, AccountInv
<1>4. CASE t # VRAM
  <2>1. tier'[VRAM] = tier[VRAM]
    BY <1>1, <1>2, <1>4, OthersKept
  <2>2. QED
    BY <1>1, <1>3, <1>4, <2>1, AccountKept
<1>5. CASE t = VRAM /\ Has(VRAM, k)
  <2>1. Balanced(remove(VRAM, k), allocated_bytes - Size[k])
    BY <1>2, <1>5, RemovedBalanced
  <2>2. tier'[VRAM] = remove(VRAM, k)
    BY <1>1, <1>2, <1>5
  <2>3. QED
    BY <1>1, <1>3, <1>5, <2>1, <2>2, AccountHolds
<1>6. CASE t = VRAM /\ ~Has(VRAM, k)
  <2>1. remove(VRAM, k) = tier[VRAM]
    BY <1>6 DEF remove
  <2>2. tier'[VRAM] = tier[VRAM]
    BY <1>1, <1>2, <1>6, <2>1
  <2>3. QED
    BY <1>1, <1>3, <1>6, <2>2, AccountKept
<1>7. QED
  BY <1>4, <1>5, <1>6

LEMMA BeginAccounted ==
  ASSUME AccountInv, TiersInv', NEW w \in Workers, NEW k \in Contexts,
         store_context(w, k) \/ run_agent(w, k) \/ pause_agent(w, k) \/ demote(w, k)
  PROVE  AccountInv'
<1>0. TierTypes /\ version \in [Contexts -> 0 .. MaxVersions] /\ MaxVersions \in Nat
  BY TiersAssumption DEF AccountInv, TiersInv, TierTypes
<1>1. CASE store_context(w, k)
  <2>1. version[k] + 1 \in 0 .. MaxVersions /\ version'[k] = version[k] + 1
    BY <1>0, <1>1 DEF store_context
  <2>2. PICK s : s = Step("put", k, version'[k], VRAM)
    OBVIOUS
  <2>3. s \in StepRecord /\ s.op = "put"
    BY <2>1, <2>2 DEF Step, StepRecord, Ops, VRAM, COLD
  <2>4. worker' = [worker EXCEPT ![w] = <<s>>] /\ UNCHANGED <<tier, allocated_bytes>>
    BY <1>1, <2>2 DEF store_context
  <2>5. \A v \in Workers : SparesVram(worker'[v])
    BY <2>3, <2>4, StartSpares
  <2>6. QED
    BY <2>4, <2>5, AccountKept
<1>2. ASSUME NEW op \in {"page", "promote", "unload"}, Begin(w, op, k) PROVE AccountInv'
  <2>1. PICK s : s = Step(op, k, 0, VRAM)
    OBVIOUS
  <2>2. s \in StepRecord /\ s.op \notin {"settle", "drop", "take"}
    BY <1>0, <2>1 DEF Step, StepRecord, Ops, VRAM, COLD
  <2>3. worker' = [worker EXCEPT ![w] = <<s>>] /\ UNCHANGED <<tier, allocated_bytes>>
    BY <1>2, <2>1 DEF Begin
  <2>4. \A v \in Workers : SparesVram(worker'[v])
    BY <2>2, <2>3, StartSpares
  <2>5. QED
    BY <2>3, <2>4, AccountKept
<1>3. CASE demote(w, k)
  <2>1. PICK s : s = Step("settle", k, ValueAt(HOT, k), WARM)
    OBVIOUS
  <2>2. /\ worker' = [worker EXCEPT ![w] = <<s>>] /\ Has(HOT, k) /\ UNCHANGED allocated_bytes
        /\ tier' = [tier EXCEPT ![HOT] = remove(HOT, k)]
    BY <1>3, <2>1 DEF demote
  <2>3. HOT \in VRAM .. COLD /\ HOT # VRAM /\ WARM \in VRAM .. COLD /\ WARM # VRAM
    BY DEF HOT, WARM, VRAM, COLD
  <2>4. ValueAt(HOT, k) \in 0 .. MaxVersions
    BY <1>0, <2>2, <2>3, ValueTyped
  <2>5. s \in StepRecord /\ s.at # VRAM
    BY <2>1, <2>3, <2>4 DEF Step, StepRecord, Ops
  <2>6. tier'[VRAM] = tier[VRAM]
    BY <1>0, <2>2, <2>3, OthersKept
  <2>7. \A v \in Workers : SparesVram(worker'[v])
    BY <2>2, <2>5, StartSpares
  <2>8. QED
    BY <2>2, <2>6, <2>7, AccountKept
<1>4. QED
  BY <1>1, <1>2, <1>3 DEF run_agent, pause_agent

LEMMA AccountInvInit == TiersInit => AccountInv
<1>1. SUFFICES ASSUME TiersInit PROVE AccountInv
  OBVIOUS
<1>2. <<>> \in Seq(Item) /\ Len(<<>>) = 0 /\ VRAM \in VRAM .. COLD /\ capacity_bytes \in Nat
  BY TiersAssumption DEF VRAM, COLD
<1>3. tier[VRAM] = <<>> /\ allocated_bytes = 0 /\ \A w \in Workers : worker[w] = <<>>
  BY <1>1, <1>2 DEF TiersInit
<1>4. Balanced(tier[VRAM], allocated_bytes)
  <2>1. Distinct(<<>>) /\ Bytes(<<>>) = 0
    BY <1>2, NothingListed
  <2>2. ~(0 > capacity_bytes)
    BY <1>2
  <2>3. QED
    BY <1>3, <2>1, <2>2 DEF Balanced
<1>5. QED
  BY <1>1, <1>3, <1>4, TiersInvInit, OneSpares DEF AccountInv

LEMMA AccountInvNext == AccountInv /\ [TiersNext]_tierVars => AccountInv'
<1>1. SUFFICES ASSUME AccountInv, [TiersNext]_tierVars PROVE AccountInv'
  OBVIOUS
<1>2. TiersInv'
  BY <1>1, TiersInvNext DEF AccountInv
<1>3. ASSUME UNCHANGED <<tier, allocated_bytes, worker>> PROVE AccountInv'
  BY <1>1, <1>2, <1>3, AccountKept DEF AccountInv
<1>4. ASSUME NEW w \in Workers,
             \/ put(w) \/ put_insert(w) \/ evict_to_warm(w) \/ settle(w)
             \/ drop_copy(w) \/ promote(w) \/ promote_take(w)
      PROVE  AccountInv'
  BY <1>1, <1>2, <1>4, BelowAccounted
<1>5. ASSUME NEW w \in Workers, page_to_vram(w) \/ get(w) PROVE AccountInv'
  BY <1>1, <1>2, <1>5, PageAccounted
<1>6. ASSUME NEW w \in Workers, load(w) PROVE AccountInv'
  BY <1>1, <1>2, <1>6, LoadAccounted
<1>7. ASSUME NEW w \in Workers, page_to_ram(w) PROVE AccountInv'
  BY <1>1, <1>2, <1>7, UnloadAccounted
<1>8. ASSUME NEW w \in Workers, NEW k \in Contexts,
             store_context(w, k) \/ run_agent(w, k) \/ pause_agent(w, k) \/ demote(w, k)
      PROVE  AccountInv'
  BY <1>1, <1>2, <1>8, BeginAccounted
<1>9. CASE clean_key
  BY <1>1, <1>2, <1>9, SweepAccounted
<1>10. CASE clean_expired \/ clean_lock \/ clean_done
  BY <1>3, <1>10 DEF clean_expired, clean_lock, clean_done
<1>11. ASSUME NEW k \in Contexts, TimeToLivePasses(k) PROVE AccountInv'
  BY <1>3, <1>11 DEF TimeToLivePasses
<1>12. QED
  BY <1>1, <1>3, <1>4, <1>5, <1>6, <1>7, <1>8, <1>9, <1>10, <1>11 DEF TiersNext, tierVars

(* However loads, evictions, touches, unloads and the sweep interleave,    *)
(* the allocated bytes are those of the entries of VRAM, and they pass the *)
(* capacity only where one entry alone is larger (insert_with_metadata,    *)
(* remove, vram.rs).                                                       *)
THEOREM VramCounted == TiersSpec => []VramAccounted
<1>1. AccountInv => VramAccounted
  BY DEF AccountInv, Balanced, VramAccounted
<1>2. QED
  BY AccountInvInit, AccountInvNext, <1>1, PTL DEF TiersSpec

-----------------------------------------------------------------------------
(***************************************************************************)
(* QueryCache, for every set of queries: an answer out of the cache is the *)
(* parse of a text that is the same or similar, and no older than the TTL. *)
(***************************************************************************)
(* What the cache may hold: a command under the key of its text.           *)
Valid == {e \in [key : Keys, text : Texts, age : Nat] :
            e.key = normalize_query[e.text] /\ Parse[e.text] # NoCommand}

AnswerOK(a) ==
  /\ Parse[a.given] # NoCommand /\ a.age <= Ttl
  /\ \/ normalize_query[a.asked] = normalize_query[a.given]
     \/ <<normalize_query[a.asked], normalize_query[a.given]>> \in Similar

CacheInv ==
  /\ cache \in Seq(Valid)
  /\ client \in [Clients -> [pc : {"idle", "missed", "parse"}, text : Texts]]
  /\ DOMAIN answers = Clients /\ \A c \in Clients : \A a \in answers[c] : AnswerOK(a)

-----------------------------------------------------------------------------
(* The recursive function of Fresh is one.                                 *)
LEMMA KeepsExists ==
  ASSUME NEW n \in Nat
  PROVE  \E kept : kept = [i \in 0 .. n |-> IF i = 0 THEN <<>>
                                            ELSE IF is_expired(cache[i]) THEN kept[i - 1]
                                            ELSE Append(kept[i - 1], cache[i])]
<1> DEFINE Next1(kept, i) == IF is_expired(cache[i]) THEN kept[i - 1] ELSE Append(kept[i - 1], cache[i])
           N == {m \in Nat : \E kept : kept = [i \in 0 .. m |-> IF i = 0 THEN <<>> ELSE Next1(kept, i)]}
<1>1. 0 \in N
  <2>1. PICK kept : kept = [i \in 0 .. 0 |-> <<>>]
    OBVIOUS
  <2>2. kept = [i \in 0 .. 0 |-> IF i = 0 THEN <<>> ELSE Next1(kept, i)]
    BY <2>1
  <2>3. QED
    BY <2>2
<1>2. ASSUME NEW m \in N PROVE m + 1 \in N
  <2>1. PICK kept : kept = [i \in 0 .. m |-> IF i = 0 THEN <<>> ELSE Next1(kept, i)]
    OBVIOUS
  <2>2. PICK more : more = [i \in 0 .. m + 1 |-> IF i = m + 1 THEN Next1(kept, i) ELSE kept[i]]
    OBVIOUS
  <2>3. m \in Nat
    OBVIOUS
  <2>4. \A i \in 0 .. m : more[i] = kept[i]
    BY <2>2, <2>3
  <2>5. ASSUME NEW i \in 0 .. m + 1 PROVE more[i] = IF i = 0 THEN <<>> ELSE Next1(more, i)
    <3>1. CASE i = 0
      BY <2>1, <2>3, <2>4, <3>1
    <3>2. CASE i # 0
      <4>1. i - 1 \in 0 .. m /\ more[i - 1] = kept[i - 1]
        BY <2>3, <2>4, <3>2
      <4>2. Next1(more, i) = Next1(kept, i)
        BY <4>1
      <4>3. CASE i = m + 1
        BY <2>2, <3>2, <4>2, <4>3
      <4>4. CASE i # m + 1
        <5>1. i \in 0 .. m
          BY <2>3, <4>4
        <5>2. kept[i] = Next1(kept, i)
          BY <2>1, <3>2, <5>1
        <5>3. QED
          BY <2>4, <3>2, <4>2, <5>1, <5>2
      <4>5. QED
        BY <4>3, <4>4
    <3>3. QED
      BY <3>1, <3>2
  <2>6. more = [i \in 0 .. m + 1 |-> IF i = 0 THEN <<>> ELSE Next1(more, i)]
    <3> HIDE DEF Next1
    <3>1. QED
      BY <2>2, <2>5
  <2>7. PICK next : next = m + 1
    OBVIOUS
  <2>8. next \in Nat
    BY <2>3, <2>7
  <2>9. next \in N
    <3> HIDE DEF Next1
    <3>1. QED
      BY <2>6, <2>7, <2>8
  <2>10. QED
    BY <2>7, <2>9
<1>3. N = Nat
  <2>1. N \in SUBSET Nat
    OBVIOUS
  <2> HIDE DEF N
  <2>2. QED
    BY <1>1, <1>2, <2>1, NatInductionSet
<1>4. QED
  BY <1>3

LEMMA FreshTyped ==
  ASSUME cache \in Seq(Valid)
  PROVE  Fresh \in Seq(Valid)
<1>1. PICK n \in Nat : n = Len(cache)
  OBVIOUS
<1> DEFINE Def(kept) == [i \in 0 .. n |-> IF i = 0 THEN <<>>
                                          ELSE IF is_expired(cache[i]) THEN kept[i - 1]
                                          ELSE Append(kept[i - 1], cache[i])]
<1>2. PICK kept : kept = CHOOSE f : f = Def(f)
  OBVIOUS
<1>3. kept = Def(kept)
  BY <1>2, KeepsExists
<1>4. Fresh = kept[n]
  BY <1>1, <1>2 DEF Fresh
<1>5. \A i \in 0 .. n : kept[i] = IF i = 0 THEN <<>>
                                  ELSE IF is_expired(cache[i]) THEN kept[i - 1]
                                  ELSE Append(kept[i - 1], cache[i])
  <2>1. PICK d : d = Def(kept)
    OBVIOUS
  <2>2. \A i \in 0 .. n : d[i] = IF i = 0 THEN <<>>
                                  ELSE IF is_expired(cache[i]) THEN kept[i - 1]
                                  ELSE Append(kept[i - 1], cache[i])
    BY <2>1
  <2> HIDE DEF Def
  <2>3. kept = d
    BY <1>3, <2>1
  <2>4. QED
    BY <2>2, <2>3
<1> DEFINE N == {i \in Nat : i <= n => kept[i] \in Seq(Valid)}
<1>6. 0 \in N
  <2>1. 0 \in 0 .. n /\ <<>> \in Seq(Valid)
    BY <1>1
  <2>2. kept[0] = <<>>
    BY <1>5, <2>1
  <2>3. QED
    BY <2>1, <2>2
<1>7. ASSUME NEW i \in N PROVE i + 1 \in N
  <2>1. SUFFICES ASSUME i + 1 <= n PROVE kept[i + 1] \in Seq(Valid)
    OBVIOUS
  <2>2. PICK j : j = i + 1
    OBVIOUS
  <2>3. j \in 1 .. n /\ j # 0 /\ j - 1 = i /\ kept[i] \in Seq(Valid) /\ j \in 0 .. n
    BY <2>1, <2>2
  <2>4. cache[j] \in Valid
    BY <1>1, <2>3
  <2>5. kept[j] = IF is_expired(cache[j]) THEN kept[i] ELSE Append(kept[i], cache[j])
    BY <1>5, <2>3
  <2>6. Append(kept[i], cache[j]) \in Seq(Valid)
    BY <2>3, <2>4
  <2>7. QED
    BY <2>2, <2>3, <2>5, <2>6
<1>8. N = Nat
  <2>1. N \in SUBSET Nat
    OBVIOUS
  <2> HIDE DEF N
  <2>2. QED
    BY <1>6, <1>7, <2>1, NatInductionSet
<1>9. QED
  BY <1>4, <1>8

-----------------------------------------------------------------------------
LEMMA WithoutTyped ==
  ASSUME NEW s \in Seq(Valid), NEW k
  PROVE  Without(s, k) \in Seq(Valid)
<1>1. PICK at : at = {i \in DOMAIN s : s[i].key = k}
  OBVIOUS
<1>2. CASE at = {}
  BY <1>1, <1>2 DEF Without
<1>3. CASE at # {}
  <2>1. PICK i : i = CHOOSE j \in at : TRUE
    OBVIOUS
  <2>2. i \in 1 .. Len(s)
    BY <1>1, <1>3, <2>1
  <2>3. RemoveAt(s, i) \in Seq(Valid)
    BY <2>2, RemovedAt
  <2>4. QED
    BY <1>1, <1>3, <2>1, <2>3 DEF Without
<1>4. QED
  BY <1>2, <1>3

LEMMA PutTyped ==
  ASSUME CacheInv, NEW t \in Texts, Parse[t] # NoCommand, cache_put(normalize_query[t], t)
  PROVE  cache' \in Seq(Valid)
<1>1. PICK others, kept, e : /\ others = Without(Fresh, normalize_query[t])
                             /\ kept = IF Len(others) = cache_capacity THEN Tail(others) ELSE others
                             /\ e = [key |-> normalize_query[t], text |-> t, age |-> 0]
  OBVIOUS
<1>2. others \in Seq(Valid)
  BY <1>1, FreshTyped, WithoutTyped DEF CacheInv
<1>3. kept \in Seq(Valid)
  <2>1. CASE Len(others) = cache_capacity
    <3>1. others # <<>>
      BY <2>1, QueryCacheAssumption
    <3>2. QED
      BY <1>1, <1>2, <2>1, <3>1
  <2>2. CASE Len(others) # cache_capacity
    BY <1>1, <1>2, <2>2
  <2>3. QED
    BY <2>1, <2>2
<1>4. e \in Valid
  BY <1>1 DEF Valid, Keys
<1>5. cache' = Append(kept, e)
  BY <1>1 DEF cache_put
<1>6. QED
  BY <1>3, <1>4, <1>5

LEMMA CacheInvNext == CacheInv /\ [CacheNext]_cacheVars => CacheInv'
<1>1. SUFFICES ASSUME CacheInv, [CacheNext]_cacheVars PROVE CacheInv'
  OBVIOUS
<1>t. /\ cache \in Seq(Valid)
      /\ client \in [Clients -> [pc : {"idle", "missed", "parse"}, text : Texts]]
      /\ DOMAIN answers = Clients /\ \A c \in Clients : \A a \in answers[c] : AnswerOK(a)
  BY <1>1 DEF CacheInv
<1>v. ToSet(cache) \subseteq Valid
  <2>1. \A i \in DOMAIN cache : cache[i] \in Valid
    BY <1>t
  <2>2. QED
    BY <2>1 DEF ToSet
<1>2. ASSUME UNCHANGED cacheVars PROVE CacheInv'
  BY <1>1, <1>2 DEF cacheVars, CacheInv
<1>3. ASSUME NEW c \in Clients, NEW pc \in {"idle", "missed", "parse"}, NEW t \in Texts, Goto(c, pc, t)
      PROVE  client' \in [Clients -> [pc : {"idle", "missed", "parse"}, text : Texts]]
  BY <1>t, <1>3 DEF Goto
<1>4. ASSUME NEW c \in Clients, NEW t, NEW e, Answer(c, t, e),
             Parse[e.text] # NoCommand, e.age <= Ttl,
             \/ normalize_query[t] = normalize_query[e.text]
             \/ <<normalize_query[t], normalize_query[e.text]>> \in Similar
      PROVE  DOMAIN answers' = Clients /\ \A d \in Clients : \A a \in answers'[d] : AnswerOK(a)
  <2>1. PICK r : r = [asked |-> t, given |-> e.text, age |-> e.age]
    OBVIOUS
  <2>2. AnswerOK(r)
    BY <1>4, <2>1 DEF AnswerOK
  <2>3. answers' = [answers EXCEPT ![c] = {r}]
    BY <1>4, <2>1 DEF Answer
  <2>4. QED
    BY <1>t, <2>2, <2>3
<1>e. ASSUME NEW e \in Valid, ~is_expired(e)
      PROVE  Parse[e.text] # NoCommand /\ e.age <= Ttl /\ e.key = normalize_query[e.text] /\ e.text \in Texts
  <2>1. e.age \in Nat /\ Ttl \in Nat
    BY QueryCacheAssumption DEF Valid
  <2>2. QED
    BY <1>e, <2>1 DEF Valid, is_expired
<1>5. ASSUME NEW c \in Clients, NEW t \in Texts, cache_get(c, t) PROVE CacheInv'
  <2>1. PICK k : k = normalize_query[t]
    OBVIOUS
  <2>2. PICK found : found = {e \in ToSet(cache) : e.key = k}
    OBVIOUS
  <2>3. Without(cache, k) \in Seq(Valid)
    BY <1>t, WithoutTyped
  <2>4. ASSUME NEW e \in found, ~is_expired(e), cache' = Append(Without(cache, k), e), Answer(c, t, e),
               UNCHANGED client
        PROVE  CacheInv'
    <3>1. e \in Valid /\ e.key = k
      BY <1>v, <2>2
    <3>2. cache' \in Seq(Valid)
      BY <2>3, <2>4, <3>1
    <3>3. DOMAIN answers' = Clients /\ \A d \in Clients : \A a \in answers'[d] : AnswerOK(a)
      BY <1>4, <1>e, <2>1, <2>4, <3>1
    <3>4. QED
      BY <1>t, <2>4, <3>2, <3>3 DEF CacheInv
  <2>5. ASSUME cache' = Without(cache, k), Goto(c, "missed", t), UNCHANGED answers PROVE CacheInv'
    BY <1>t, <1>3, <2>3, <2>5 DEF CacheInv
  <2>6. QED
    BY <1>5, <2>1, <2>2, <2>4, <2>5 DEF cache_get
<1>6. ASSUME NEW c \in Clients, get_similar(c) PROVE CacheInv'
  <2>1. PICK t : t = client[c].text
    OBVIOUS
  <2>2. t \in Texts
    BY <1>t, <2>1
  <2>3. PICK near : near = {e \in ToSet(cache) : <<normalize_query[t], e.key>> \in Similar /\ ~is_expired(e)}
    OBVIOUS
  <2>4. ASSUME NEW e \in near, Answer(c, t, e), Goto(c, "idle", t), UNCHANGED cache PROVE CacheInv'
    <3>1. e \in Valid /\ <<normalize_query[t], e.key>> \in Similar /\ ~is_expired(e)
      BY <1>v, <2>3
    <3>2. DOMAIN answers' = Clients /\ \A d \in Clients : \A a \in answers'[d] : AnswerOK(a)
      BY <1>4, <1>e, <2>4, <3>1
    <3>3. QED
      BY <1>t, <1>3, <2>2, <2>4, <3>2 DEF CacheInv
  <2>5. ASSUME Goto(c, "parse", t), UNCHANGED <<answers, cache>> PROVE CacheInv'
    BY <1>t, <1>3, <2>2, <2>5 DEF CacheInv
  <2>6. QED
    BY <1>6, <2>1, <2>3, <2>4, <2>5 DEF get_similar
<1>7. ASSUME NEW c \in Clients, classify(c) PROVE CacheInv'
  <2>1. PICK t : t = client[c].text
    OBVIOUS
  <2>2. t \in Texts /\ Goto(c, "idle", t)
    BY <1>t, <1>7, <2>1 DEF classify
  <2>3. CASE Parse[t] = NoCommand
    <3>1. UNCHANGED <<cache, answers>>
      BY <1>7, <2>1, <2>3 DEF classify
    <3>2. QED
      BY <1>t, <1>3, <2>2, <3>1 DEF CacheInv
  <2>4. CASE Parse[t] # NoCommand
    <3>1. PICK e : e = [text |-> t, age |-> 0]
      OBVIOUS
    <3>2. cache_put(normalize_query[t], t) /\ Answer(c, t, e)
      BY <1>7, <2>1, <2>4, <3>1 DEF classify
    <3>3. cache' \in Seq(Valid)
      BY <1>1, <2>2, <2>4, <3>2, PutTyped
    <3>4. DOMAIN answers' = Clients /\ \A d \in Clients : \A a \in answers'[d] : AnswerOK(a)
      <4>1. e.text = t /\ e.age = 0 /\ e.age <= Ttl
        BY <3>1, QueryCacheAssumption
      <4>2. QED
        BY <1>4, <2>4, <3>2, <4>1
    <3>5. QED
      BY <1>t, <1>3, <2>2, <3>3, <3>4 DEF CacheInv
  <2>5. QED
    BY <2>3, <2>4
<1>8. CASE handle_invalidation
  <2>1. cache' \in Seq(Valid)
    BY <1>8 DEF handle_invalidation
  <2>2. QED
    BY <1>t, <1>8, <2>1 DEF handle_invalidation, CacheInv
<1>9. CASE gc
  BY <1>t, <1>9, FreshTyped DEF gc, CacheInv
<1>10. CASE ClockTicks
  <2>1. PICK n \in Nat : n = Len(cache) /\ DOMAIN cache = 1 .. n
    BY <1>t
  <2>2. ASSUME NEW i \in 1 .. n
        PROVE  [cache[i] EXCEPT !.age = IF @ > Ttl THEN @ ELSE @ + 1] \in Valid
    <3>1. cache[i] \in Valid
      BY <1>t, <2>1
    <3>2. QED
      BY <3>1 DEF Valid
  <2>3. cache' = [i \in 1 .. n |-> [cache[i] EXCEPT !.age = IF @ > Ttl THEN @ ELSE @ + 1]]
    BY <1>10, <2>1 DEF ClockTicks
  <2>4. cache' \in [1 .. n -> Valid]
    BY <2>2, <2>3
  <2>5. cache' \in Seq(Valid)
    BY <2>4
  <2>6. QED
    BY <1>t, <1>10, <2>5 DEF ClockTicks, CacheInv
<1>11. QED
  BY <1>1, <1>2, <1>5, <1>6, <1>7, <1>8, <1>9, <1>10 DEF CacheNext

LEMMA CacheInvInit == CacheInit => CacheInv
<1>1. SUFFICES ASSUME CacheInit PROVE CacheInv
  OBVIOUS
<1>2. cache \in Seq(Valid)
  BY <1>1 DEF CacheInit
<1>3. QED
  BY <1>1, <1>2 DEF CacheInit, CacheInv

(* However the callers, the invalidations and the clock interleave between *)
(* the looks of one caller, what it is given is the command of its text or *)
(* of a similar one, and has not outlived its time (get, get_similar, put, *)
(* query_cache.rs; classify_with_cache, nlp.rs).                           *)
THEOREM CachedAsParsed == CacheSpec => []AnswersAreParses
<1>1. CacheInit => CacheInv
  BY CacheInvInit
<1>2. CacheInv /\ [CacheNext]_cacheVars => CacheInv'
  BY CacheInvNext
<1>3. CacheInv => AnswersAreParses
  BY DEF CacheInv, AnswersAreParses, AnswerOK
<1>4. QED
  BY <1>1, <1>2, <1>3, PTL DEF CacheSpec
=============================================================================
