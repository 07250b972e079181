------------------------- MODULE ChainedLog_proofs -------------------------
(***************************************************************************)
(* Proofs about ChainedLog for every number of calls and every set of      *)
(* faults: type correctness, and, for a single ChainedLog on its file,     *)
(* that nothing but the three disturbing faults breaks the chain or loses  *)
(* an acknowledged entry.                                                  *)
(***************************************************************************)
EXTENDS ChainedLog, TLAPS

(* One ChainedLog on the file: what the callers of the module rely on.     *)
SoleLog == \A a, b \in Logs : a = b

(* The parts of the inductive invariant.  Until a fault disturbs the file, *)
(* the cached hash and the hash a call is going to chain to are the hash   *)
(* of the last entry of the file ...                                       *)
CacheOK(l) == last_hash[l] # NoHash => last_hash[l] = TailHash(file)

CallOK(l) ==
  /\ call[l].pc \in {"probe", "open", "spawn", "wait"} => call[l].prev = TailHash(file)
  /\ call[l].pc = "open" => call[l].repair = (file.tail # "clean")
  /\ call[l].pc \in {"tail", "spawn"} => call[l].repair = FALSE
  /\ call[l].pc \in {"probe", "open"} => writer[l] = "none"

(* ... a handle with nothing queued on it ends at a whole line ...         *)
HandleOK(l) ==
  /\ writer[l] = "open" /\ OnHandle(l) = {} => file.tail = "clean"
  /\ OnHandle(l) # {} => writer[l] = "open"

(* ... and a queued line starts at a whole line or brings the newline.     *)
JobOK(j) ==
  /\ j.status # "orphan" => j.repair \/ file.tail = "clean"
  /\ j.status = "waited" =>
       /\ call[j.log].pc = "wait"
       /\ j.entry.prev = call[j.log].prev

OneJobOnHandle ==
  \A j, k \in jobs : j.status # "orphan" /\ k.status # "orphan" => j = k

AckedStay == acked \subseteq {file.entries[i].hash : i \in DOMAIN file.entries}

Sound ==
  /\ Linked(file.entries)
  /\ AckedStay
  /\ \A l \in Logs : CacheOK(l) /\ CallOK(l) /\ HandleOK(l)
  /\ \A j \in jobs : JobOK(j)
  /\ OneJobOnHandle

IInv == TypeOK /\ (disturbed \/ Sound)

-----------------------------------------------------------------------------
(* Removing the last entry of a sequence leaves a sequence of entries.     *)
LEMMA FrontEntries ==
  ASSUME NEW s \in Seq(Entry), s # <<>>
  PROVE  Front(s) \in Seq(Entry)
<1>1. Len(s) \in Nat /\ Len(s) > 0
  OBVIOUS
<1>2. Front(s) = SubSeq(s, 1, Len(s) - 1)
  BY DEF Front
<1>3. QED
  BY <1>1, <1>2

(* The tail of a file is a hash.                                           *)
LEMMA TailHashTyped ==
  ASSUME NEW f \in File
  PROVE  TailHash(f) \in Hashes
<1>1. CASE f.entries = <<>>
  BY <1>1 DEF TailHash, Hashes, Genesis
<1>2. CASE f.entries # <<>>
  <2>1. f.entries \in Seq(Entry) /\ Len(f.entries) \in 1 .. Len(f.entries)
    BY <1>2 DEF File
  <2>2. f.entries[Len(f.entries)] \in Entry
    BY <2>1
  <2>3. QED
    BY <1>2, <2>2 DEF TailHash, Entry
<1>3. QED
  BY <1>1, <1>2

(* Every outcome of a write leaves a well-formed file.                     *)
LEMMA OutcomesTyped ==
  ASSUME NEW f \in File, NEW j \in Job, NEW o \in Outcomes(f, j)
  PROVE  o.file \in File /\ o.ok \in BOOLEAN
<1> DEFINE g == IF j.repair THEN WithNewline(f) ELSE f
<1>1. g \in File
  BY DEF WithNewline, Tails, File
<1>2. Unglued(g) \in Seq(Entry)
  <2>1. CASE g.entries = <<>>
    <3>1. Front(<<>>) = <<>>
      BY DEF Front
    <3>2. QED
      BY <1>1, <2>1, <3>1 DEF Unglued, File
  <2>2. CASE g.entries # <<>>
    BY <1>1, <2>2, FrontEntries DEF Unglued, File
  <2>3. QED
    BY <2>1, <2>2
<1>3. WithFragment(g) \in File
  BY <1>2 DEF WithFragment, Tails, File
<1>4. ASSUME NEW end \in {"phantom", "clean"}
      PROVE  WithLine(g, j.entry, end) \in File
  <2>1. Append(g.entries, j.entry) \in Seq(Entry)
    BY <1>1 DEF File, Job
  <2>2. QED
    BY <1>2, <2>1 DEF WithLine, Tails, File
<1>5. WithLine(g, j.entry, "phantom") \in File /\ WithLine(g, j.entry, "clean") \in File
  BY <1>4
<1> HIDE DEF g
<1>6. \/ o = [file |-> f, ok |-> FALSE]
      \/ o = [file |-> g, ok |-> FALSE]
      \/ o = [file |-> WithFragment(g), ok |-> FALSE]
      \/ o = [file |-> WithLine(g, j.entry, "phantom"), ok |-> FALSE]
      \/ o = [file |-> WithLine(g, j.entry, "clean"), ok |-> TRUE]
  BY DEF Outcomes, g
<1>7. o.file \in File
  BY <1>1, <1>3, <1>5, <1>6
<1>8. o.ok = TRUE \/ o.ok = FALSE
  BY <1>6
<1>9. QED
  BY <1>7, <1>8

(* Marking the jobs of a handle keeps them jobs.                           *)
LEMMA RetagTyped ==
  ASSUME jobs \subseteq Job, NEW l, NEW s \in Status
  PROVE  Retag(l, s) \subseteq Job
  BY DEF Retag, Job

(* Init and every step keep the types, for all Logs and Faults.            *)
LEMMA TypeOKInit == Init => TypeOK
<1> SUFFICES ASSUME Init PROVE TypeOK
  OBVIOUS
<1>1. file \in File
  BY DEF Init, File, Tails
<1>2. call \in [Logs -> Call]
  BY DEF Init, NoCall, Call, Pc, Hashes, Genesis
<1>3. last_hash \in [Logs -> Hashes \cup {NoHash}] /\ next \in Nat \ {0}
  BY DEF Init, NoHash
<1>4. QED
  BY <1>1, <1>2, <1>3 DEF Init, TypeOK

LEMMA TypeOKNext == TypeOK /\ [Next]_vars => TypeOK'
<1> SUFFICES ASSUME TypeOK, [Next]_vars PROVE TypeOK'
  OBVIOUS
<1> USE DEF TypeOK
<1>0. NoCall \in Call
  BY DEF NoCall, Call, Pc, Hashes, Genesis
<1>1. ASSUME NEW l \in Logs, Begin(l) PROVE TypeOK'
  <2>1. call' \in [Logs -> Call]
    BY <1>1 DEF Begin, WithHash, Pc, Hashes, Genesis, NoHash, Call
  <2>2. QED
    BY <1>1, <2>1 DEF Begin
<1>2. ASSUME NEW l \in Logs, ReadTail(l) PROVE TypeOK'
  <2>1. PICK h \in Hashes : /\ last_hash' = [last_hash EXCEPT ![l] = h]
                           /\ call' = [call EXCEPT ![l].pc = WithHash(l), ![l].prev = h]
    BY <1>2, TailHashTyped DEF ReadTail, Hashes, Genesis
  <2>2. call' \in [Logs -> Call]
    <3>1. [call[l] EXCEPT !.pc = WithHash(l), !.prev = h] \in Call
      <4>1. call[l] \in Call /\ WithHash(l) \in Pc
        BY DEF WithHash, Pc
      <4>2. QED
        BY <4>1 DEF Call
    <3>2. call' = [call EXCEPT ![l] = [call[l] EXCEPT !.pc = WithHash(l), !.prev = h]]
      BY <2>1
    <3>3. QED
      BY <3>1, <3>2
  <2>3. disturbed' \in BOOLEAN
    BY <1>2 DEF ReadTail
  <2>4. QED
    BY <1>2, <2>1, <2>2, <2>3 DEF ReadTail
<1>3. ASSUME NEW l \in Logs, Probe(l) PROVE TypeOK'
  <2>1. PICK r \in BOOLEAN :
          /\ call' = [call EXCEPT ![l].pc = "open", ![l].repair = r]
          /\ disturbed' = (disturbed \/ r # (file.tail # "clean"))
    BY <1>3 DEF Probe
  <2>2. [call[l] EXCEPT !.pc = "open", !.repair = r] \in Call
    BY DEF Call, Pc
  <2>3. call' = [call EXCEPT ![l] = [call[l] EXCEPT !.pc = "open", !.repair = r]]
    BY <2>1
  <2>4. call' \in [Logs -> Call]
    BY <2>2, <2>3
  <2>5. disturbed' \in BOOLEAN
    BY <2>1
  <2>6. QED
    BY <1>3, <2>4, <2>5 DEF Probe
<1>4. ASSUME NEW l \in Logs, Submit(l)
      PROVE  jobs' \subseteq Job /\ call' \in [Logs -> Call]
  <2>1. call[l] \in Call
    OBVIOUS
  <2>2. [log    |-> l,
         entry  |-> [hash |-> call[l].hash, prev |-> call[l].prev],
         repair |-> call[l].repair,
         status |-> "waited"] \in Job
    BY <2>1 DEF Job, Entry, Status, Call
  <2>3. call' \in [Logs -> Call]
    BY <1>4 DEF Submit, Call, Pc
  <2>4. QED
    BY <1>4, <2>2, <2>3 DEF Submit
<1>5. ASSUME NEW l \in Logs, Open(l) PROVE TypeOK'
  BY <1>5, <1>4 DEF Open
<1>6. ASSUME NEW l \in Logs, OpenFails(l) PROVE TypeOK'
  BY <1>6, <1>0 DEF OpenFails, Return
<1>7. ASSUME NEW l \in Logs, Spawn(l) PROVE TypeOK'
  BY <1>7, <1>4 DEF Spawn
<1>8. ASSUME NEW l \in Logs, SpawnFails(l) PROVE TypeOK'
  BY <1>8, <1>0 DEF SpawnFails, Return, Forget
<1>9. ASSUME NEW l \in Logs, Timeout(l) PROVE TypeOK'
  <2>1. jobs' \subseteq Job
    BY <1>9, RetagTyped DEF Timeout, Status
  <2>2. QED
    BY <1>9, <1>0, <2>1 DEF Timeout, Return, Forget
<1>10. ASSUME NEW l \in Logs, Cancel(l) PROVE TypeOK'
  <2>1. jobs' \subseteq Job
    BY <1>10, RetagTyped DEF Cancel, Status
  <2>2. QED
    BY <1>10, <1>0, <2>1 DEF Cancel, Return
<1>11. ASSUME NEW j \in jobs, Land(j) PROVE TypeOK'
  <2>1. j \in Job
    OBVIOUS
  <2>2. j.log \in Logs /\ j.entry.hash \in Hashes
    BY <2>1 DEF Job, Entry
  <2>3. PICK o \in Outcomes(file, j) :
          /\ file' = o.file
          /\ IF o.ok
             THEN /\ last_hash' = [last_hash EXCEPT ![j.log] = j.entry.hash]
                  /\ acked' = acked \cup {j.entry.hash}
                  /\ UNCHANGED writer
             ELSE /\ Forget(j.log)
                  /\ UNCHANGED acked
    BY <1>11 DEF Land
  <2>4. file' \in File /\ o.ok \in BOOLEAN
    BY <2>1, <2>3, OutcomesTyped
  <2>5. CASE o.ok
    BY <1>11, <1>0, <2>2, <2>3, <2>4, <2>5 DEF Land, Return, Hashes
  <2>6. CASE ~o.ok
    BY <1>11, <1>0, <2>2, <2>3, <2>4, <2>6 DEF Land, Return, Forget
  <2>7. QED
    BY <2>5, <2>6
<1>12. ASSUME NEW j \in jobs, LandLate(j) PROVE TypeOK'
  <2>1. j \in Job /\ j.log \in Logs
    BY DEF Job
  <2>2. PICK o \in Outcomes(file, j) :
          /\ file' = o.file
          /\ disturbed' = (disturbed \/ o.file # file)
          /\ writer' = IF ~o.ok /\ j.status = "abandoned"
                       THEN [writer EXCEPT ![j.log] = "failed"]
                       ELSE writer
    BY <1>12 DEF LandLate
  <2>3. file' \in File
    BY <2>1, <2>2, OutcomesTyped
  <2>4. writer' \in [Logs -> {"none", "open", "failed"}]
    BY <2>1, <2>2
  <2>5. QED
    BY <1>12, <2>2, <2>3, <2>4 DEF LandLate
<1>13. ASSUME Crash PROVE TypeOK'
  <2>1. file' \in File
    <3>1. CASE UNCHANGED file
      BY <3>1
    <3>2. CASE \E j \in jobs : j.status = "waited" /\ \E o \in Outcomes(file, j) : file' = o.file
      BY <3>2, OutcomesTyped
    <3>3. QED
      BY <1>13, <3>1, <3>2 DEF Crash
  <2>2. QED
    BY <1>13, <1>0, <2>1 DEF Crash
<1>14. CASE UNCHANGED vars
  BY <1>14 DEF vars
<1>15. QED
  BY <1>1, <1>2, <1>3, <1>5, <1>6, <1>7, <1>8, <1>9, <1>10, <1>11, <1>12,
     <1>13, <1>14 DEF Next, LogStep

(* Type correctness, for every set of logs, faults and number of calls.    *)
THEOREM Typing == Spec => []TypeOK
  BY TypeOKInit, TypeOKNext, PTL DEF Spec

-----------------------------------------------------------------------------
(* Appending an entry chained to the tail keeps the chain.                 *)
LEMMA LinkedAppend ==
  ASSUME NEW f \in File, NEW e \in Entry,
         Linked(f.entries), e.prev = TailHash(f)
  PROVE  Linked(Append(f.entries, e))
<1> DEFINE s == f.entries
           t == Append(s, e)
<1>1. s \in Seq(Entry) /\ Len(s) \in Nat
  BY DEF File
<1>2. Len(t) = Len(s) + 1 /\ t[Len(s) + 1] = e /\ \A i \in 1 .. Len(s) : t[i] = s[i]
  BY <1>1
<1>3. ASSUME NEW i \in 1 .. Len(t)
      PROVE  t[i].prev = IF i = 1 THEN Genesis ELSE t[i - 1].hash
  <2>1. CASE i \in 1 .. Len(s)
    <3>1. s[i].prev = IF i = 1 THEN Genesis ELSE s[i - 1].hash
      BY <2>1 DEF Linked
    <3>2. i # 1 => i - 1 \in 1 .. Len(s)
      BY <1>1, <2>1
    <3>3. QED
      BY <1>2, <2>1, <3>1, <3>2
  <2>2. CASE i = Len(s) + 1
    <3>1. CASE Len(s) = 0
      <4>1. s = <<>>
        BY <1>1, <3>1
      <4>2. QED
        BY <1>2, <2>2, <3>1, <4>1 DEF TailHash
    <3>2. CASE Len(s) # 0
      <4>1. s # <<>> /\ Len(s) \in 1 .. Len(s) /\ i - 1 = Len(s) /\ i # 1
        BY <1>1, <2>2, <3>2
      <4>2. e.prev = s[Len(s)].hash
        BY <4>1 DEF TailHash
      <4>3. QED
        BY <1>2, <2>2, <4>1, <4>2
    <3>3. QED
      BY <3>1, <3>2
  <2>3. QED
    BY <1>1, <1>2, <2>1, <2>2
<1>4. QED
  BY <1>3 DEF Linked

(* The hash of the last entry of a sequence that has just grown.           *)
LEMMA TailOfAppend ==
  ASSUME NEW s \in Seq(Entry), NEW e \in Entry, NEW end
  PROVE  TailHash([entries |-> Append(s, e), tail |-> end]) = e.hash
<1>1. Len(Append(s, e)) = Len(s) + 1 /\ Append(s, e)[Len(s) + 1] = e /\ Append(s, e) # <<>>
  OBVIOUS
<1>2. QED
  BY <1>1 DEF TailHash

(* With a line queued on a clean end, or behind a repairing newline, a     *)
(* write leaves the entries as they were or adds its own entry; when it    *)
(* succeeds it adds the entry and the file ends at a whole line.           *)
LEMMA OutcomesSound ==
  ASSUME NEW f \in File, NEW j \in Job, NEW o \in Outcomes(f, j),
         j.repair \/ f.tail = "clean"
  PROVE  /\ \/ o.file.entries = f.entries
            \/ o.file.entries = Append(f.entries, j.entry)
         /\ o.ok => o.file = [entries |-> Append(f.entries, j.entry), tail |-> "clean"]
<1> DEFINE g == IF j.repair THEN WithNewline(f) ELSE f
<1>1. g.tail = "clean" /\ g.entries = f.entries
  BY DEF WithNewline, File
<1>2. WithFragment(g) = [entries |-> f.entries, tail |-> "torn"]
  BY <1>1 DEF WithFragment, Unglued
<1>3. WithLine(g, j.entry, "clean") = [entries |-> Append(f.entries, j.entry), tail |-> "clean"]
  BY <1>1 DEF WithLine
<1>4. WithLine(g, j.entry, "phantom") = [entries |-> Append(f.entries, j.entry), tail |-> "phantom"]
  BY <1>1 DEF WithLine
<1> HIDE DEF g
<1>6. \/ o = [file |-> f, ok |-> FALSE]
      \/ o = [file |-> g, ok |-> FALSE]
      \/ o = [file |-> WithFragment(g), ok |-> FALSE]
      \/ o = [file |-> WithLine(g, j.entry, "phantom"), ok |-> FALSE]
      \/ o = [file |-> WithLine(g, j.entry, "clean"), ok |-> TRUE]
  BY DEF Outcomes, g
<1>7. o.ok => o.file = [entries |-> Append(f.entries, j.entry), tail |-> "clean"]
  BY <1>3, <1>6
<1>8. o.file.entries = f.entries \/ o.file.entries = Append(f.entries, j.entry)
  <2>1. CASE o.file = f
    BY <2>1
  <2>2. CASE o.file = g
    BY <2>2, <1>1
  <2>3. CASE o.file = WithFragment(g)
    BY <2>3, <1>2
  <2>4. CASE o.file = WithLine(g, j.entry, "phantom")
    BY <2>4, <1>4
  <2>5. CASE o.file = WithLine(g, j.entry, "clean")
    BY <2>5, <1>3
  <2>6. QED
    BY <1>6, <2>1, <2>2, <2>3, <2>4, <2>5
<1>9. QED
  BY <1>7, <1>8

(* The initial state satisfies the inductive invariant.                    *)
LEMMA IInvInit == Init => IInv
<1> SUFFICES ASSUME Init PROVE IInv
  OBVIOUS
<1>1. TypeOK
  BY TypeOKInit
<1>2. Linked(file.entries)
  BY DEF Init, Linked
<1>3. QED
  BY <1>1, <1>2 DEF IInv, Sound, Init, NoCall, AckedStay, CacheOK, CallOK, HandleOK,
     OnHandle, OneJobOnHandle

(* An entry added to the file keeps the acknowledged ones there.           *)
LEMMA AckedGrow ==
  ASSUME NEW s \in Seq(Entry), NEW e \in Entry, NEW A,
         A \subseteq {s[i].hash : i \in DOMAIN s}
  PROVE  A \cup {e.hash} \subseteq
           {Append(s, e)[i].hash : i \in DOMAIN Append(s, e)}
<1> DEFINE t == Append(s, e)
<1>1. /\ Len(s) \in Nat /\ DOMAIN s = 1 .. Len(s) /\ DOMAIN t = 1 .. (Len(s) + 1)
      /\ t[Len(s) + 1] = e /\ \A i \in 1 .. Len(s) : t[i] = s[i]
  OBVIOUS
<1> HIDE DEF t
<1>2. ASSUME NEW a \in A PROVE \E i \in DOMAIN t : t[i].hash = a
  <2>1. PICK i \in 1 .. Len(s) : s[i].hash = a
    BY <1>1
  <2>2. i \in DOMAIN t /\ t[i].hash = a
    BY <1>1, <2>1
  <2>3. QED
    BY <2>2
<1>3. \E i \in DOMAIN t : t[i].hash = e.hash
  <2>1. Len(s) + 1 \in DOMAIN t /\ t[Len(s) + 1].hash = e.hash
    BY <1>1
  <2>2. QED
    BY <2>1
<1>4. QED
  BY <1>2, <1>3 DEF t

(* Every step of a single log keeps the inductive invariant.               *)
LEMMA IInvNext ==
  ASSUME SoleLog
  PROVE  IInv /\ [Next]_vars => IInv'
<1> SUFFICES ASSUME IInv, [Next]_vars PROVE IInv'
  OBVIOUS
<1>0. TypeOK /\ TypeOK'
  BY TypeOKNext DEF IInv
<1> SUFFICES ASSUME ~disturbed' PROVE Sound'
  BY <1>0 DEF IInv
<1> DEFINE Quiet == ~disturbed /\ Sound
<1>q. disturbed \/ Quiet
  BY DEF IInv
<1>1. ASSUME NEW l \in Logs, Begin(l) PROVE Sound'
  <2>1. Quiet
    BY <1>1, <1>q DEF Begin
  <2>2. CacheOK(l)' /\ HandleOK(l)'
    BY <1>1, <2>1 DEF Begin, Sound, CacheOK, HandleOK, OnHandle
  <2>3. call'[l] = [pc     |-> IF last_hash[l] = NoHash THEN "tail" ELSE WithHash(l),
                    hash   |-> next,
                    prev   |-> IF last_hash[l] = NoHash THEN Genesis ELSE last_hash[l],
                    repair |-> FALSE]
    BY <1>0, <1>1 DEF Begin, TypeOK
  <2>4. CallOK(l)'
    BY <1>1, <2>1, <2>3 DEF Begin, Sound, CacheOK, CallOK, WithHash
  <2>5. ASSUME NEW j \in jobs' PROVE JobOK(j)'
    <3>1. j \in jobs /\ j.log = l
      BY <1>0, <1>1 DEF Begin, SoleLog, TypeOK, Job
    <3>2. QED
      BY <1>1, <2>1, <3>1 DEF Begin, Sound, JobOK
  <2>6. QED
    BY <1>1, <2>1, <2>2, <2>4, <2>5 DEF Begin, Sound, SoleLog, AckedStay, OneJobOnHandle
<1>2. ASSUME NEW l \in Logs, ReadTail(l) PROVE Sound'
  <2>1. Quiet
    BY <1>2, <1>q DEF ReadTail
  <2>2. /\ last_hash' = [last_hash EXCEPT ![l] = TailHash(file)]
        /\ call' = [call EXCEPT ![l].pc = WithHash(l), ![l].prev = TailHash(file)]
    BY <1>2 DEF ReadTail
  <2>3. CacheOK(l)' /\ HandleOK(l)'
    BY <1>0, <1>2, <2>1, <2>2 DEF ReadTail, Sound, CacheOK, HandleOK, OnHandle, TypeOK
  <2>4. CallOK(l)'
    <3>1. call'[l].pc = WithHash(l) /\ call'[l].prev = TailHash(file) /\ call'[l].repair = call[l].repair
      BY <1>0, <2>2 DEF TypeOK, Call
    <3>2. QED
      BY <1>2, <2>1, <3>1 DEF ReadTail, CallOK, WithHash, Sound
  <2>5. ASSUME NEW j \in jobs' PROVE JobOK(j)'
    <3>1. j \in jobs /\ j.log = l
      BY <1>0, <1>2 DEF ReadTail, SoleLog, TypeOK, Job
    <3>2. QED
      BY <1>2, <2>1, <3>1 DEF ReadTail, Sound, JobOK
  <2>6. QED
    BY <1>2, <2>1, <2>3, <2>4, <2>5 DEF ReadTail, Sound, SoleLog, AckedStay, OneJobOnHandle
<1>3. ASSUME NEW l \in Logs, Probe(l) PROVE Sound'
  <2>1. Quiet
    BY <1>3, <1>q DEF Probe
  <2>2. call' = [call EXCEPT ![l].pc = "open", ![l].repair = (file.tail # "clean")]
    BY <1>3 DEF Probe
  <2>3. CacheOK(l)' /\ HandleOK(l)'
    BY <1>3, <2>1 DEF Probe, Sound, CacheOK, HandleOK, OnHandle
  <2>4. CallOK(l)'
    <3>1. call'[l].pc = "open" /\ call'[l].prev = call[l].prev /\ call'[l].repair = (file.tail # "clean")
      BY <1>0, <2>2 DEF TypeOK, Call
    <3>2. QED
      BY <1>3, <2>1, <3>1 DEF Probe, CallOK, Sound
  <2>5. ASSUME NEW j \in jobs' PROVE JobOK(j)'
    <3>1. j \in jobs /\ j.log = l
      BY <1>0, <1>3 DEF Probe, SoleLog, TypeOK, Job
    <3>2. QED
      BY <1>3, <2>1, <3>1 DEF Probe, Sound, JobOK
  <2>6. QED
    BY <1>3, <2>1, <2>3, <2>4, <2>5 DEF Probe, Sound, SoleLog, AckedStay, OneJobOnHandle
<1>4. ASSUME NEW l \in Logs, Submit(l), OnHandle(l) = {}, Quiet,
             UNCHANGED <<file, last_hash, acked>>, writer'[l] = "open",
             call[l].prev = TailHash(file),
             call[l].repair \/ file.tail = "clean"
      PROVE  Sound'
  <2> DEFINE n == [log    |-> l,
                   entry  |-> [hash |-> call[l].hash, prev |-> call[l].prev],
                   repair |-> call[l].repair,
                   status |-> "waited"]
  <2>1. jobs' = jobs \cup {n}
    BY <1>4 DEF Submit
  <2>2. call'[l].pc = "wait" /\ call'[l].prev = call[l].prev
    BY <1>0, <1>4 DEF Submit, TypeOK, Call
  <2>3. \A j \in jobs : j.status = "orphan"
    BY <1>0, <1>4 DEF OnHandle, SoleLog, TypeOK, Job
  <2>4. \A j \in jobs' : JobOK(j)'
    BY <1>4, <2>1, <2>2, <2>3 DEF JobOK
  <2>5. n \in OnHandle(l)'
    BY <2>1 DEF OnHandle
  <2>6. HandleOK(l)' /\ CacheOK(l)' /\ CallOK(l)'
    BY <1>4, <2>2, <2>5 DEF HandleOK, CacheOK, CallOK, Sound
  <2>7. OneJobOnHandle'
    BY <2>1, <2>3 DEF OneJobOnHandle
  <2>8. QED
    BY <1>4, <2>4, <2>6, <2>7 DEF Sound, SoleLog, AckedStay
<1>5. ASSUME NEW l \in Logs, Open(l) PROVE Sound'
  <2>1. Quiet
    BY <1>5, <1>q DEF Open
  <2>2. call[l].pc = "open" /\ CallOK(l) /\ HandleOK(l)
    BY <1>5, <2>1 DEF Open, Sound
  <2>3. OnHandle(l) = {}
    BY <2>2 DEF CallOK, HandleOK
  <2>4. writer'[l] = "open"
    BY <1>0, <1>5 DEF Open, TypeOK
  <2>5. call[l].prev = TailHash(file) /\ (call[l].repair \/ file.tail = "clean")
    BY <2>2 DEF CallOK
  <2>6. QED
    BY <1>4, <1>5, <2>1, <2>3, <2>4, <2>5 DEF Open
<1>7. ASSUME NEW l \in Logs, Spawn(l) PROVE Sound'
  <2>1. Quiet
    BY <1>7, <1>q DEF Spawn
  <2>2. call[l].pc = "spawn" /\ CallOK(l) /\ HandleOK(l) /\ OnHandle(l) = {}
    BY <1>7, <2>1 DEF Spawn, Sound
  <2>3. writer'[l] = "open" /\ file.tail = "clean" /\ call[l].prev = TailHash(file)
    BY <1>7, <2>2 DEF Spawn, HandleOK, CallOK
  <2>4. QED
    BY <1>4, <1>7, <2>1, <2>2, <2>3 DEF Spawn
<1>6. ASSUME NEW l \in Logs, OpenFails(l) PROVE Sound'
  <2>1. Quiet
    BY <1>6, <1>q DEF OpenFails
  <2>2. call'[l] = NoCall
    BY <1>0, <1>6 DEF OpenFails, Return, TypeOK
  <2>3. CacheOK(l)' /\ HandleOK(l)' /\ CallOK(l)'
    BY <1>6, <2>1, <2>2 DEF OpenFails, Sound, CacheOK, HandleOK, OnHandle, CallOK, NoCall
  <2>4. ASSUME NEW j \in jobs' PROVE JobOK(j)'
    <3>1. j \in jobs /\ j.log = l
      BY <1>0, <1>6 DEF OpenFails, SoleLog, TypeOK, Job
    <3>2. QED
      BY <1>6, <2>1, <3>1 DEF OpenFails, Sound, JobOK
  <2>5. QED
    BY <1>6, <2>1, <2>3, <2>4 DEF OpenFails, Sound, SoleLog, AckedStay, OneJobOnHandle
<1>8. ASSUME NEW l \in Logs, SpawnFails(l) PROVE Sound'
  <2>1. Quiet
    BY <1>8, <1>q DEF SpawnFails
  <2>2. call'[l] = NoCall /\ writer'[l] = "none" /\ last_hash'[l] = NoHash
    BY <1>0, <1>8 DEF SpawnFails, Return, Forget, TypeOK
  <2>3. CacheOK(l)' /\ HandleOK(l)' /\ CallOK(l)'
    BY <1>8, <2>2 DEF SpawnFails, CacheOK, HandleOK, OnHandle, CallOK, NoCall
  <2>4. \A j \in jobs : j.status = "orphan"
    BY <1>0, <1>8 DEF SpawnFails, OnHandle, SoleLog, TypeOK, Job
  <2>5. QED
    BY <1>8, <2>1, <2>3, <2>4 DEF SpawnFails, Sound, SoleLog, AckedStay, OneJobOnHandle, JobOK
<1>9. ASSUME NEW l \in Logs, Timeout(l) PROVE Sound'
  <2>1. Quiet
    BY <1>9, <1>q DEF Timeout
  <2>2. call'[l] = NoCall /\ writer'[l] = "none" /\ last_hash'[l] = NoHash
    BY <1>0, <1>9 DEF Timeout, Return, Forget, TypeOK
  <2>3. \A j \in jobs' : j.status = "orphan"
    BY <1>0, <1>9 DEF Timeout, Retag, OnHandle, SoleLog, TypeOK, Job, Status
  <2>4. CacheOK(l)' /\ HandleOK(l)' /\ CallOK(l)'
    BY <2>2, <2>3 DEF CacheOK, HandleOK, OnHandle, CallOK, NoCall
  <2>5. QED
    BY <1>9, <2>1, <2>3, <2>4 DEF Timeout, Sound, SoleLog, AckedStay, OneJobOnHandle, JobOK
<1>10. ASSUME NEW l \in Logs, Cancel(l) PROVE Sound'
  <2>1. Quiet
    BY <1>10, <1>q DEF Cancel
  <2>2. call'[l] = NoCall
    BY <1>0, <1>10 DEF Cancel, Return, TypeOK
  <2>3. ASSUME NEW j \in jobs'
        PROVE  /\ j.status \in {"orphan", "abandoned"}
               /\ j.log = l
               /\ \/ j \in jobs
                  \/ \E i \in jobs : i.status # "orphan" /\ j = [i EXCEPT !.status = "abandoned"]
    <3>1. PICK i \in jobs : j = IF i \in OnHandle(l) THEN [i EXCEPT !.status = "abandoned"] ELSE i
      BY <1>10 DEF Cancel, Retag
    <3>2. i \in Job /\ i.log = l
      BY <1>0 DEF TypeOK, Job, SoleLog
    <3>3. QED
      BY <3>1, <3>2 DEF OnHandle, Job, Status
  <2>4. ASSUME NEW j \in jobs' PROVE JobOK(j)'
    <3>1. CASE j.status = "orphan"
      BY <3>1 DEF JobOK
    <3>2. CASE j.status = "abandoned"
      <4>1. PICK i \in jobs : i.status # "orphan" /\ i.repair = j.repair
        <5>1. CASE j \in jobs
          BY <3>2, <5>1
        <5>2. CASE \E i \in jobs : i.status # "orphan" /\ j = [i EXCEPT !.status = "abandoned"]
          BY <1>0, <5>2 DEF TypeOK, Job
        <5>3. QED
          BY <2>3, <5>1, <5>2
      <4>2. j.repair \/ file.tail = "clean"
        BY <2>1, <4>1 DEF Sound, JobOK
      <4>3. QED
        BY <1>10, <3>2, <4>2 DEF Cancel, JobOK
    <3>3. QED
      BY <2>3, <3>1, <3>2
  <2>5. OneJobOnHandle'
    <3> SUFFICES ASSUME NEW j \in jobs', NEW k \in jobs', j.status # "orphan", k.status # "orphan"
                 PROVE  j = k
      BY DEF OneJobOnHandle
    <3>1. ASSUME NEW a \in jobs', a.status # "orphan"
          PROVE  \E i \in jobs : i.status # "orphan" /\ a = [i EXCEPT !.status = "abandoned"]
      <4>1. CASE a \in jobs
        <5>1. a = [a EXCEPT !.status = "abandoned"]
          BY <1>0, <2>3, <3>1, <4>1 DEF TypeOK, Job
        <5>2. QED
          BY <3>1, <4>1, <5>1
      <4>2. QED
        BY <2>3, <4>1
    <3>2. PICK i \in jobs : i.status # "orphan" /\ j = [i EXCEPT !.status = "abandoned"]
      BY <3>1
    <3>3. PICK m \in jobs : m.status # "orphan" /\ k = [m EXCEPT !.status = "abandoned"]
      BY <3>1
    <3>4. QED
      BY <2>1, <3>2, <3>3 DEF Sound, OneJobOnHandle
  <2>6. OnHandle(l) = {} => OnHandle(l)' = {}
    BY <1>0, <2>3 DEF OnHandle, TypeOK, Job, SoleLog
  <2>7. OnHandle(l)' = {} => OnHandle(l) = {}
    <3> SUFFICES ASSUME NEW i \in OnHandle(l) PROVE OnHandle(l)' # {}
      OBVIOUS
    <3>1. [i EXCEPT !.status = "abandoned"] \in jobs'
      BY <1>10 DEF Cancel, Retag, OnHandle
    <3>2. [i EXCEPT !.status = "abandoned"] \in OnHandle(l)'
      BY <1>0, <3>1 DEF OnHandle, TypeOK, Job
    <3>3. QED
      BY <3>2
  <2>8. CacheOK(l)' /\ CallOK(l)'
    BY <1>10, <2>1, <2>2 DEF Cancel, Sound, CacheOK, CallOK, NoCall
  <2>9. HandleOK(l)'
    BY <1>10, <2>1, <2>6, <2>7 DEF Cancel, Sound, HandleOK
  <2>10. QED
    BY <1>10, <2>1, <2>4, <2>5, <2>8, <2>9 DEF Cancel, Sound, SoleLog, AckedStay
<1>11. ASSUME NEW j \in jobs, Land(j) PROVE Sound'
  <2>1. Quiet
    BY <1>11, <1>q DEF Land
  <2>2. j \in Job /\ j.log \in Logs /\ j.status = "waited" /\ j.entry \in Entry
    BY <1>0, <1>11 DEF Land, TypeOK, Job
  <2> DEFINE l == j.log
  <2>3. PICK o \in Outcomes(file, j) :
          /\ file' = o.file
          /\ IF o.ok
             THEN /\ last_hash' = [last_hash EXCEPT ![l] = j.entry.hash]
                  /\ acked' = acked \cup {j.entry.hash}
                  /\ UNCHANGED writer
             ELSE /\ Forget(l)
                  /\ UNCHANGED acked
    BY <1>11 DEF Land
  <2>4. /\ j.repair \/ file.tail = "clean"
        /\ call[l].pc = "wait" /\ j.entry.prev = TailHash(file)
    BY <2>1, <2>2 DEF Sound, JobOK, CallOK
  <2>5. file \in File
    BY <1>0 DEF TypeOK
  <2>6. /\ \/ file'.entries = file.entries
           \/ file'.entries = Append(file.entries, j.entry)
        /\ o.ok => file' = [entries |-> Append(file.entries, j.entry), tail |-> "clean"]
        /\ o.ok \in BOOLEAN
    BY <2>2, <2>3, <2>4, <2>5, OutcomesSound, OutcomesTyped
  <2>7. Linked(file.entries) /\ Linked(Append(file.entries, j.entry))
    BY <2>1, <2>2, <2>4, <2>5, LinkedAppend DEF Sound
  <2>8. Linked(file.entries)'
    BY <2>6, <2>7
  <2>9. jobs' = jobs \ {j} /\ \A k \in jobs' : k.status = "orphan"
    BY <1>11, <2>1, <2>2 DEF Land, Sound, OneJobOnHandle
  <2>10. call'[l] = NoCall
    BY <1>0, <1>11, <2>2 DEF Land, Return, TypeOK
  <2>11. acked \cup {j.entry.hash} \subseteq
           {Append(file.entries, j.entry)[i].hash : i \in DOMAIN Append(file.entries, j.entry)}
    BY <2>1, <2>2, <2>5, AckedGrow DEF Sound, AckedStay, File
  <2>12. OneJobOnHandle' /\ \A k \in jobs' : JobOK(k)'
    BY <2>9 DEF OneJobOnHandle, JobOK
  <2>13. CASE o.ok
    <3>1. AckedStay'
      BY <2>3, <2>6, <2>11, <2>13 DEF AckedStay
    <3>2. last_hash'[l] = TailHash(file')
      <4>1. TailHash(file') = j.entry.hash
        BY <2>2, <2>5, <2>6, <2>13, TailOfAppend DEF File
      <4>2. last_hash'[l] = j.entry.hash
        BY <1>0, <2>2, <2>3, <2>13 DEF TypeOK
      <4>3. QED
        BY <4>1, <4>2
    <3>3. CacheOK(l)' /\ HandleOK(l)' /\ CallOK(l)'
      BY <2>6, <2>9, <2>10, <2>13, <3>2 DEF CacheOK, HandleOK, CallOK, NoCall, OnHandle
    <3>4. QED
      BY <2>2, <2>8, <2>12, <3>1, <3>3 DEF Sound, SoleLog
  <2>14. CASE ~o.ok
    <3>1. AckedStay'
      BY <2>1, <2>3, <2>6, <2>11, <2>14 DEF AckedStay, Sound
    <3>2. last_hash'[l] = NoHash /\ writer'[l] = "none"
      BY <1>0, <2>2, <2>3, <2>14 DEF TypeOK, Forget
    <3>3. CacheOK(l)' /\ HandleOK(l)' /\ CallOK(l)'
      BY <2>9, <2>10, <3>2 DEF CacheOK, HandleOK, CallOK, NoCall, OnHandle
    <3>4. QED
      BY <2>2, <2>8, <2>12, <3>1, <3>3 DEF Sound, SoleLog
  <2>15. QED
    BY <2>6, <2>13, <2>14
<1>12. ASSUME NEW j \in jobs, LandLate(j) PROVE Sound'
  <2>1. PICK o \in Outcomes(file, j) :
          /\ file' = o.file
          /\ disturbed' = (disturbed \/ o.file # file)
          /\ writer' = IF ~o.ok /\ j.status = "abandoned"
                       THEN [writer EXCEPT ![j.log] = "failed"]
                       ELSE writer
    BY <1>12 DEF LandLate
  <2>2. Quiet /\ file' = file /\ o.file = file
    BY <1>q, <2>1
  <2>3. j \in Job /\ j.log \in Logs /\ file \in File /\ o.ok \in BOOLEAN
    <3>1. j \in Job /\ file \in File
      BY <1>0 DEF TypeOK
    <3>2. QED
      BY <3>1, <2>1, OutcomesTyped DEF Job
  <2> DEFINE l == j.log
  <2>4. jobs' = jobs \ {j}
    BY <1>12 DEF LandLate
  <2>5. UNCHANGED <<last_hash, call, next, acked, file>>
    BY <1>12, <2>2 DEF LandLate
  <2>6. CacheOK(l)' /\ (\A k \in jobs' : JobOK(k)') /\ OneJobOnHandle'
    BY <2>2, <2>3, <2>4, <2>5 DEF Sound, CacheOK, JobOK, OneJobOnHandle
  <2>7. CASE j.status = "orphan"
    <3>1. OnHandle(l)' = OnHandle(l) /\ writer' = writer
      BY <2>1, <2>4, <2>7 DEF OnHandle
    <3>2. HandleOK(l)' /\ CallOK(l)'
      BY <2>2, <2>3, <2>5, <3>1 DEF Sound, HandleOK, CallOK
    <3>3. QED
      BY <2>2, <2>3, <2>5, <2>6, <3>2 DEF Sound, SoleLog, AckedStay
  <2>8. CASE j.status # "orphan"
    <3>1. OnHandle(l)' = {} /\ j \in OnHandle(l)
      BY <2>2, <2>4, <2>8 DEF OnHandle, Sound, OneJobOnHandle
    <3>2. writer[l] = "open" /\ (j.repair \/ file.tail = "clean") /\ CallOK(l)
      BY <2>2, <2>3, <2>8, <3>1 DEF Sound, HandleOK, JobOK
    <3>3. j.status = "abandoned"
      BY <1>12, <2>3, <2>8 DEF LandLate, Job, Status
    <3>4. o.ok => file.tail = "clean"
      <4>1. o.ok => o.file = [entries |-> Append(file.entries, j.entry), tail |-> "clean"]
        BY <2>1, <2>3, <3>2, OutcomesSound
      <4>2. QED
        BY <2>2, <4>1
    <3>5. ~o.ok => writer'[l] = "failed"
      BY <1>0, <2>1, <2>3, <3>3 DEF TypeOK
    <3>6. o.ok => writer' = writer
      BY <2>1
    <3>7. HandleOK(l)' /\ CallOK(l)'
      BY <2>3, <2>5, <3>1, <3>2, <3>4, <3>5, <3>6 DEF HandleOK, CallOK
    <3>8. QED
      BY <2>2, <2>3, <2>5, <2>6, <3>7 DEF Sound, SoleLog, AckedStay
  <2>9. QED
    BY <2>7, <2>8
<1>13. ASSUME Crash PROVE Sound'
  <2>1. Quiet
    BY <1>13, <1>q DEF Crash
  <2>2. ASSUME NEW l \in Logs PROVE CacheOK(l)' /\ HandleOK(l)' /\ CallOK(l)'
    BY <1>13 DEF Crash, CacheOK, HandleOK, CallOK, NoCall, OnHandle
  <2>3. Linked(file.entries)' /\ AckedStay'
    <3>1. CASE UNCHANGED file
      BY <1>13, <2>1, <3>1 DEF Crash, Sound, AckedStay
    <3>2. CASE \E j \in jobs : j.status = "waited" /\ \E o \in Outcomes(file, j) : file' = o.file
      <4> PICK j \in jobs : j.status = "waited" /\ \E o \in Outcomes(file, j) : file' = o.file
        BY <3>2
      <4>1. PICK o \in Outcomes(file, j) : j.status = "waited" /\ file' = o.file
        OBVIOUS
      <4>2. j \in Job /\ j.log \in Logs /\ j.entry \in Entry /\ file \in File
        BY <1>0 DEF TypeOK, Job
      <4>3. (j.repair \/ file.tail = "clean") /\ j.entry.prev = TailHash(file)
        BY <2>1, <4>1, <4>2 DEF Sound, JobOK, CallOK
      <4>4. \/ file'.entries = file.entries
            \/ file'.entries = Append(file.entries, j.entry)
        BY <4>1, <4>2, <4>3, OutcomesSound
      <4>5. Linked(file.entries) /\ Linked(Append(file.entries, j.entry))
        BY <2>1, <4>2, <4>3, LinkedAppend DEF Sound
      <4>6. acked \cup {j.entry.hash} \subseteq
              {Append(file.entries, j.entry)[i].hash : i \in DOMAIN Append(file.entries, j.entry)}
        BY <2>1, <4>2, AckedGrow DEF Sound, AckedStay, File
      <4>7. acked' = acked
        BY <1>13 DEF Crash
      <4>8. AckedStay'
        BY <2>1, <4>4, <4>6, <4>7 DEF Sound, AckedStay
      <4>9. QED
        BY <4>4, <4>5, <4>8
    <3>3. QED
      BY <1>13, <3>1, <3>2 DEF Crash
  <2>4. QED
    BY <1>13, <2>2, <2>3 DEF Crash, Sound, OneJobOnHandle
<1>14. CASE UNCHANGED vars
  <2>1. Quiet
    BY <1>14, <1>q DEF vars
  <2>2. QED
    BY <1>14, <2>1 DEF vars, Sound, AckedStay, CacheOK, HandleOK, CallOK, OnHandle, JobOK,
       OneJobOnHandle
<1>15. QED
  BY <1>1, <1>2, <1>3, <1>5, <1>6, <1>7, <1>8, <1>9, <1>10, <1>11, <1>12,
     <1>13, <1>14 DEF Next, LogStep

(* The inductive invariant, for a single log and every set of faults.      *)
THEOREM Inductive == ASSUME SoleLog PROVE Spec => []IInv
  BY IInvInit, IInvNext, PTL DEF Spec

(* Crashes, torn lines, write errors, failing opens and calls that give up *)
(* never break the chain of a single ChainedLog before one of the three    *)
(* disturbing faults has touched the file or what was read of it.          *)
THEOREM ChainIsSound == ASSUME SoleLog PROVE Spec => []ChainValidUntilDisturbed
<1>1. IInv => ChainValidUntilDisturbed
  BY DEF IInv, Sound, ChainValidUntilDisturbed, ChainValid
<1>2. QED
  BY <1>1, Inductive, PTL

(* Under the same conditions no acknowledged entry is lost.                *)
THEOREM AckedEntriesStay == ASSUME SoleLog PROVE Spec => []AckedStayUntilDisturbed
<1>1. IInv => AckedStayUntilDisturbed
  BY DEF IInv, Sound, AckedStayUntilDisturbed, AckedStay
<1>2. QED
  BY <1>1, Inductive, PTL

-----------------------------------------------------------------------------
(* The hashes of a sequence of entries: what the trail is made of.         *)
HashesOf(s) == [i \in DOMAIN s |-> s[i].hash]

(* Appending an entry appends its hash.                                    *)
LEMMA HashesOfAppend ==
  ASSUME NEW s \in Seq(Entry), NEW e \in Entry
  PROVE  /\ HashesOf(Append(s, e)) = Append(HashesOf(s), e.hash)
         /\ HashesOf(s) \in Seq(Nat)
         /\ Len(HashesOf(Append(s, e))) > 0
         /\ HashesOf(Append(s, e))[Len(HashesOf(Append(s, e)))] = e.hash
<1> DEFINE t == Append(s, e)
           h == HashesOf(s)
<1>1. /\ Len(s) \in Nat /\ DOMAIN s = 1 .. Len(s) /\ DOMAIN t = 1 .. (Len(s) + 1)
      /\ t[Len(s) + 1] = e /\ \A i \in 1 .. Len(s) : t[i] = s[i] /\ s[i] \in Entry
  OBVIOUS
<1>2. h \in [1 .. Len(s) -> Nat]
  BY <1>1 DEF HashesOf, Entry, Hashes
<1>3. h \in Seq(Nat) /\ Len(h) = Len(s)
  BY <1>1, <1>2
<1>4. Append(h, e.hash) = [i \in 1 .. (Len(s) + 1) |-> IF i = Len(s) + 1 THEN e.hash ELSE h[i]]
  <2>1. e.hash \in Nat
    BY DEF Entry, Hashes
  <2>2. QED
    BY <1>1, <1>3, <2>1
<1>5. \A i \in 1 .. Len(s) : h[i] = s[i].hash /\ i # Len(s) + 1
  BY <1>1 DEF HashesOf
<1>6. HashesOf(t) = [i \in 1 .. (Len(s) + 1) |-> IF i = Len(s) + 1 THEN e.hash ELSE h[i]]
  <2>1. HashesOf(t) = [i \in 1 .. (Len(s) + 1) |-> t[i].hash]
    BY <1>1 DEF HashesOf
  <2>2. \A i \in 1 .. (Len(s) + 1) :
          t[i].hash = IF i = Len(s) + 1 THEN e.hash ELSE h[i]
    BY <1>1, <1>5
  <2>3. QED
    BY <2>1, <2>2
<1>7. Len(HashesOf(t)) = Len(s) + 1
  BY <1>1, <1>6
<1>8. HashesOf(t)[Len(s) + 1] = e.hash
  BY <1>1, <1>6
<1>9. HashesOf(t) = Append(h, e.hash)
  BY <1>4, <1>6
<1>10. QED
  BY <1>1, <1>3, <1>7, <1>8, <1>9

(* The hashes the readers of the file see.                                 *)
HashSet == {file.entries[i].hash : i \in DOMAIN file.entries}

(* A hash names one call: until a fault disturbs the file, every hash in   *)
(* it was given out, and the call in progress has a hash that is not there *)
(* yet and that its queued line carries.                                   *)
Fresh ==
  /\ \A h \in HashSet : h < next
  /\ \A l \in Logs : call[l].pc # "idle" => call[l].hash < next /\ call[l].hash \notin HashSet
  /\ \A j \in jobs : j.status = "waited" => j.entry.hash = call[j.log].hash

FInv == IInv /\ (disturbed \/ Fresh)

(* The hashes of a file that may have grown by one entry.                  *)
LEMMA HashSetAppend ==
  ASSUME NEW s \in Seq(Entry), NEW e \in Entry
  PROVE  {Append(s, e)[i].hash : i \in DOMAIN Append(s, e)}
           \subseteq {s[i].hash : i \in DOMAIN s} \cup {e.hash}
<1>1. /\ Len(s) \in Nat /\ DOMAIN s = 1 .. Len(s) /\ DOMAIN Append(s, e) = 1 .. (Len(s) + 1)
      /\ Append(s, e)[Len(s) + 1] = e /\ \A i \in 1 .. Len(s) : Append(s, e)[i] = s[i]
  OBVIOUS
<1>2. QED
  BY <1>1

(* What a write does to an undisturbed file while its call waits for it    *)
(* (Land), or as the process ends (Crash).                                 *)
LEMMA WaitedWrite ==
  ASSUME FInv, ~disturbed, NEW j \in jobs, j.status = "waited",
         NEW o \in Outcomes(file, j), file' = o.file
  PROVE  /\ file \in File /\ j.entry \in Entry
         /\ \/ file'.entries = file.entries
            \/ file'.entries = Append(file.entries, j.entry)
         /\ o.ok \in BOOLEAN
         /\ o.ok => file'.entries = Append(file.entries, j.entry)
         /\ j.entry.hash \notin HashSet
         /\ j.entry.hash < next
<1>1. j \in Job /\ j.log \in Logs /\ j.entry \in Entry /\ file \in File
  BY DEF FInv, IInv, TypeOK, Job
<1>2. j.repair \/ file.tail = "clean"
  BY DEF FInv, IInv, Sound, JobOK
<1>3. call[j.log].pc = "wait" /\ j.entry.hash = call[j.log].hash
  BY DEF FInv, IInv, Sound, JobOK, Fresh
<1>4. j.entry.hash \notin HashSet /\ j.entry.hash < next
  BY <1>1, <1>3 DEF FInv, Fresh
<1>5. /\ \/ o.file.entries = file.entries
         \/ o.file.entries = Append(file.entries, j.entry)
      /\ o.ok => o.file = [entries |-> Append(file.entries, j.entry), tail |-> "clean"]
  BY <1>1, <1>2, OutcomesSound
<1>6. o.ok \in BOOLEAN
  BY <1>1, OutcomesTyped
<1>7. QED
  BY <1>1, <1>4, <1>5, <1>6

LEMMA FInvInit == Init => FInv
<1> SUFFICES ASSUME Init PROVE FInv
  OBVIOUS
<1>1. HashSet = {}
  BY DEF Init, HashSet
<1>2. QED
  BY <1>1, IInvInit DEF FInv, Fresh, Init, NoCall

LEMMA FInvNext ==
  ASSUME SoleLog
  PROVE  FInv /\ [Next]_vars => FInv'
<1> SUFFICES ASSUME FInv, [Next]_vars PROVE FInv'
  OBVIOUS
<1>0. IInv /\ IInv' /\ TypeOK /\ TypeOK'
  BY IInvNext DEF FInv, IInv
<1> SUFFICES ASSUME ~disturbed' PROVE Fresh'
  BY <1>0 DEF FInv
<1>q. ~disturbed
  <2>1. ASSUME NEW l \in Logs, LogStep(l) PROVE disturbed => disturbed'
    BY <2>1 DEF LogStep, Begin, ReadTail, Probe, Open, OpenFails, Spawn, SpawnFails, Timeout, Cancel
  <2>2. ASSUME NEW j \in jobs, LandLate(j) PROVE disturbed => disturbed'
    BY <2>2 DEF LandLate
  <2>3. QED
    BY <2>1, <2>2 DEF Next, Land, Crash, vars
<1>f. Fresh
  BY <1>q DEF FInv
<1>n. next \in Nat /\ next' \in Nat /\ \A h \in HashSet : h \in Nat
  <2>1. file.entries \in Seq(Entry)
    BY <1>0 DEF TypeOK, File
  <2>2. \A i \in DOMAIN file.entries : file.entries[i] \in Entry
    BY <2>1
  <2>3. QED
    BY <1>0, <2>2 DEF TypeOK, HashSet, Entry, Hashes
<1>1. ASSUME NEW l \in Logs, Begin(l) PROVE Fresh'
  <2>1. HashSet' = HashSet /\ next' = next + 1 /\ jobs' = jobs
    BY <1>1 DEF Begin, HashSet
  <2>2. call'[l].hash = next
    BY <1>0, <1>1 DEF Begin, TypeOK
  <2>3. next \notin HashSet
    BY <1>f, <1>n DEF Fresh
  <2>4. \A j \in jobs : j.status # "waited"
    <3>1. call[l].pc = "idle"
      BY <1>1 DEF Begin
    <3>2. \A j \in jobs : j.log = l
      BY <1>0 DEF TypeOK, Job, SoleLog
    <3>3. QED
      BY <1>0, <1>q, <3>1, <3>2 DEF IInv, Sound, JobOK
  <2>5. \A h \in HashSet' : h < next'
    BY <1>f, <1>n, <2>1 DEF Fresh
  <2>6. \A k \in Logs : call'[k].hash < next' /\ call'[k].hash \notin HashSet'
    BY <1>n, <2>1, <2>2, <2>3 DEF SoleLog
  <2>7. QED
    BY <2>1, <2>4, <2>5, <2>6 DEF Fresh
<1>2. ASSUME NEW l \in Logs, ReadTail(l) PROVE Fresh'
  <2>1. HashSet' = HashSet /\ next' = next /\ jobs' = jobs
    BY <1>2 DEF ReadTail, HashSet
  <2>2. call'[l].hash = call[l].hash /\ call[l].pc # "idle"
    BY <1>0, <1>2 DEF ReadTail, TypeOK
  <2>3. QED
    BY <1>f, <1>0, <2>1, <2>2 DEF Fresh, SoleLog, TypeOK, Job
<1>3. ASSUME NEW l \in Logs, Probe(l) PROVE Fresh'
  <2>1. HashSet' = HashSet /\ next' = next /\ jobs' = jobs
    BY <1>3 DEF Probe, HashSet
  <2>2. call'[l].hash = call[l].hash /\ call[l].pc # "idle"
    BY <1>0, <1>3 DEF Probe, TypeOK
  <2>3. QED
    BY <1>f, <1>0, <2>1, <2>2 DEF Fresh, SoleLog, TypeOK, Job
<1>4. ASSUME NEW l \in Logs, Submit(l), call[l].pc # "idle",
             UNCHANGED <<file, next>>
      PROVE  Fresh'
  <2>1. HashSet' = HashSet
    BY <1>4 DEF HashSet
  <2>2. call'[l].hash = call[l].hash /\ call[l].pc # "idle"
    BY <1>0, <1>4 DEF Submit, TypeOK
  <2>3. ASSUME NEW j \in jobs', j.status = "waited" PROVE j.entry.hash = call'[j.log].hash
    <3>1. j \in jobs \/ (j.entry.hash = call[l].hash /\ j.log = l)
      BY <1>4 DEF Submit
    <3>2. j.log = l
      BY <1>0, <3>1 DEF TypeOK, Job, SoleLog
    <3>3. QED
      BY <1>f, <2>2, <2>3, <3>1, <3>2 DEF Fresh
  <2>4. QED
    BY <1>f, <1>4, <2>1, <2>2, <2>3 DEF Fresh, SoleLog
<1>5. ASSUME NEW l \in Logs, Open(l) PROVE Fresh'
  BY <1>4, <1>5 DEF Open
<1>6. ASSUME NEW l \in Logs, Spawn(l) PROVE Fresh'
  BY <1>4, <1>6 DEF Spawn
<1>7. ASSUME NEW l \in Logs, Return(l), UNCHANGED <<file, next>>,
             \A j \in jobs' : j.status # "waited"
      PROVE  Fresh'
  <2>1. HashSet' = HashSet /\ call'[l].pc = "idle"
    BY <1>0, <1>7 DEF HashSet, Return, NoCall, TypeOK
  <2>2. QED
    BY <1>f, <1>7, <2>1 DEF Fresh, SoleLog
<1>8. ASSUME NEW l \in Logs, call[l].pc # "wait" PROVE \A j \in jobs : j.status # "waited"
  <2>1. \A j \in jobs : j.log = l
    BY <1>0 DEF TypeOK, Job, SoleLog
  <2>2. QED
    BY <1>0, <1>q, <1>8, <2>1 DEF IInv, Sound, JobOK
<1>9. ASSUME NEW l \in Logs, OpenFails(l) PROVE Fresh'
  BY <1>7, <1>8, <1>9 DEF OpenFails
<1>10. ASSUME NEW l \in Logs, SpawnFails(l) PROVE Fresh'
  BY <1>7, <1>8, <1>10 DEF SpawnFails
<1>11. ASSUME NEW l \in Logs, NEW s \in {"orphan", "abandoned"}, jobs' = Retag(l, s)
       PROVE  \A j \in jobs' : j.status # "waited"
  <2>1. \A j \in jobs : j \in Job /\ j.log = l
    BY <1>0 DEF TypeOK, Job, SoleLog
  <2>2. \A j \in jobs : j.status # "orphan" => [j EXCEPT !.status = s].status = s
    BY <2>1 DEF Job
  <2>3. QED
    BY <1>11, <2>1, <2>2 DEF Retag, OnHandle
<1>12. ASSUME NEW l \in Logs, Timeout(l) PROVE Fresh'
  BY <1>7, <1>11, <1>12 DEF Timeout
<1>13. ASSUME NEW l \in Logs, Cancel(l) PROVE Fresh'
  BY <1>7, <1>11, <1>13 DEF Cancel
<1>14. ASSUME NEW j \in jobs, Land(j) PROVE Fresh'
  <2>1. PICK o \in Outcomes(file, j) : file' = o.file
    BY <1>14 DEF Land
  <2>2. /\ file \in File /\ j.entry \in Entry
        /\ \/ file'.entries = file.entries
           \/ file'.entries = Append(file.entries, j.entry)
        /\ j.entry.hash < next
    BY <1>14, <1>q, <2>1, WaitedWrite DEF Land
  <2>3. HashSet' \subseteq HashSet \cup {j.entry.hash}
    BY <2>2, HashSetAppend DEF HashSet, File
  <2>4. call'[j.log].pc = "idle" /\ j.log \in Logs
    BY <1>0, <1>14 DEF Land, Return, NoCall, TypeOK, Job
  <2>5. \A k \in jobs' : k.status # "waited"
    BY <1>0, <1>14, <1>q DEF Land, IInv, Sound, OneJobOnHandle
  <2>6. next' = next
    BY <1>14 DEF Land
  <2>7. QED
    BY <1>f, <2>2, <2>3, <2>4, <2>5, <2>6 DEF Fresh, SoleLog
<1>15. ASSUME NEW j \in jobs, LandLate(j) PROVE Fresh'
  <2>1. file' = file
    BY <1>15 DEF LandLate
  <2>2. HashSet' = HashSet /\ next' = next /\ call' = call /\ jobs' \subseteq jobs
    BY <1>15, <2>1 DEF LandLate, HashSet
  <2>3. QED
    BY <1>f, <2>2 DEF Fresh
<1>16. ASSUME Crash PROVE Fresh'
  <2>1. \A h \in HashSet' : h < next
    <3>1. CASE UNCHANGED file
      BY <1>f, <3>1 DEF Fresh, HashSet
    <3>2. CASE \E j \in jobs : j.status = "waited" /\ \E o \in Outcomes(file, j) : file' = o.file
      <4>1. PICK j \in jobs : j.status = "waited" /\ \E o \in Outcomes(file, j) : file' = o.file
        BY <3>2
      <4>2. /\ file \in File /\ j.entry \in Entry
            /\ \/ file'.entries = file.entries
               \/ file'.entries = Append(file.entries, j.entry)
            /\ j.entry.hash < next
        BY <1>q, <4>1, WaitedWrite
      <4>3. HashSet' \subseteq HashSet \cup {j.entry.hash}
        BY <4>2, HashSetAppend DEF HashSet, File
      <4>4. QED
        BY <1>f, <4>2, <4>3 DEF Fresh
    <3>3. QED
      BY <1>16, <3>1, <3>2 DEF Crash
  <2>2. QED
    BY <1>16, <2>1 DEF Crash, Fresh, NoCall
<1>17. CASE UNCHANGED vars
  BY <1>f, <1>17 DEF vars, Fresh, HashSet
<1>18. QED
  BY <1>1, <1>2, <1>3, <1>5, <1>6, <1>9, <1>10, <1>12, <1>13, <1>14, <1>15, <1>16, <1>17
     DEF Next, LogStep

LEMMA TrailInit == Init => Trail!Init
  BY DEF Init, Trail!Init

(* A file that kept its entries or grew by a fresh one is a step of the    *)
(* trail or none, whether the caller is told or not.                       *)
LEMMA TrailGrows ==
  ASSUME NEW e \in Entry, file \in File, disturbed = FALSE, disturbed' = FALSE,
         e.hash \notin HashSet,
         \/ file'.entries = file.entries /\ acked' = acked
         \/ /\ file'.entries = Append(file.entries, e)
            /\ acked' \in {acked, acked \cup {e.hash}}
  PROVE  [Trail!Next]_(Trail!vars)
<1> DEFINE trail == HashesOf(file.entries)
           trail2 == HashesOf(file'.entries)
<1>1. CASE file'.entries = file.entries /\ acked' = acked
  BY <1>1 DEF Trail!vars
<1>2. CASE /\ file'.entries = Append(file.entries, e)
           /\ acked' \in {acked, acked \cup {e.hash}}
  <2>1. /\ trail2 = Append(trail, e.hash) /\ Len(trail2) > 0 /\ trail2[Len(trail2)] = e.hash
    BY <1>2, HashesOfAppend DEF File
  <2>2. e.hash \notin Trail!Recorded
    BY DEF Trail!Recorded, HashSet
  <2>3. Trail!Next
    BY <1>2, <2>1, <2>2 DEF Trail!Next, Trail!Undisturbed, Trail!Record, HashesOf
  <2>4. QED
    BY <2>3
<1>3. QED
  BY <1>1, <1>2

(* Every step of the log is a step of the trail, or none.                  *)
LEMMA TrailNext ==
  ASSUME SoleLog
  PROVE  FInv /\ FInv' /\ [Next]_vars => [Trail!Next]_(Trail!vars)
<1> SUFFICES ASSUME FInv, FInv', [Next]_vars PROVE [Trail!Next]_(Trail!vars)
  OBVIOUS
<1>0. TypeOK /\ TypeOK' /\ file \in File
  BY DEF FInv, IInv, TypeOK
<1>1. CASE disturbed'
  BY <1>1 DEF Trail!Next
<1>2. CASE ~disturbed'
  <2>1. ASSUME NEW l \in Logs, LogStep(l) PROVE UNCHANGED <<file, acked>> /\ (disturbed => disturbed')
    <3>1. file' = file /\ acked' = acked
      BY <2>1 DEF LogStep, Begin, ReadTail, Probe, Open, OpenFails, Spawn, SpawnFails, Timeout, Cancel
    <3>2. disturbed => disturbed'
      BY <2>1 DEF LogStep, Begin, ReadTail, Probe, Open, OpenFails, Spawn, SpawnFails, Timeout, Cancel
    <3>3. QED
      BY <3>1, <3>2
  <2>2. ASSUME NEW j \in jobs, LandLate(j) PROVE UNCHANGED <<file, acked>> /\ (disturbed => disturbed')
    BY <1>2, <2>2 DEF LandLate
  <2>3. disturbed = FALSE /\ disturbed' = FALSE
    <3>1. disturbed => disturbed'
      BY <2>1, <2>2 DEF Next, Land, Crash, vars
    <3>2. QED
      BY <1>0, <1>2, <3>1 DEF TypeOK
  <2>4. CASE UNCHANGED <<file, acked>>
    BY <2>3, <2>4 DEF Trail!vars
  <2>5. ASSUME NEW j \in jobs, Land(j) PROVE [Trail!Next]_(Trail!vars)
    <3>1. PICK o \in Outcomes(file, j) :
            file' = o.file /\ acked' \in {acked, acked \cup {j.entry.hash}}
                           /\ (~o.ok => acked' = acked)
      BY <2>5 DEF Land
    <3>2. /\ j.entry \in Entry
          /\ \/ file'.entries = file.entries
             \/ file'.entries = Append(file.entries, j.entry)
          /\ o.ok \in BOOLEAN
          /\ o.ok => file'.entries = Append(file.entries, j.entry)
          /\ j.entry.hash \notin HashSet
      BY <2>3, <2>5, <3>1, WaitedWrite DEF Land
    <3>3. QED
      BY <1>0, <2>3, <3>1, <3>2, TrailGrows
  <2>6. ASSUME Crash PROVE [Trail!Next]_(Trail!vars)
    <3>1. acked' = acked
      BY <2>6 DEF Crash
    <3>2. CASE UNCHANGED file
      BY <2>4, <3>1, <3>2
    <3>3. CASE \E j \in jobs : j.status = "waited" /\ \E o \in Outcomes(file, j) : file' = o.file
      <4>1. PICK j \in jobs : j.status = "waited" /\ \E o \in Outcomes(file, j) : file' = o.file
        BY <3>3
      <4>2. /\ j.entry \in Entry
            /\ \/ file'.entries = file.entries
               \/ file'.entries = Append(file.entries, j.entry)
            /\ j.entry.hash \notin HashSet
        BY <2>3, <4>1, WaitedWrite
      <4>3. QED
        BY <1>0, <2>3, <3>1, <4>2, TrailGrows
    <3>4. QED
      BY <2>6, <3>2, <3>3 DEF Crash
  <2>7. QED
    BY <2>1, <2>2, <2>4, <2>5, <2>6 DEF Next, vars
<1>3. QED
  BY <1>1, <1>2

(* A single ChainedLog implements the append-only trail of AuditTrail:     *)
(* until a fault disturbs the file each record is appended at most once,   *)
(* behind what is there, and acknowledged no earlier.                      *)
THEOREM LogImplementsTrail == ASSUME SoleLog PROVE Spec => ImplementsTrail
<1>1. Spec => []FInv
  BY FInvInit, FInvNext, PTL DEF Spec
<1>2. Spec => Trail!Init /\ [][Trail!Next]_(Trail!vars)
  BY <1>1, TrailInit, TrailNext, PTL DEF Spec
<1>3. QED
  BY <1>2 DEF ImplementsTrail, Trail!Spec
=============================================================================
