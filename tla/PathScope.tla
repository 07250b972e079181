----------------------------- MODULE PathScope -----------------------------
(***************************************************************************)
(* The paths of an intent (kernel-companion/src/scope.rs and the file_open *)
(* hook of ebpf/lsm-security.bpf.c): the paths an intent declares are      *)
(* checked and laid out as slots of NUL-terminated bytes, written to the   *)
(* maps of the kernel after the flags, and matched there in chunks against *)
(* the path the kernel resolves.  Enforcement has who is gated and when;   *)
(* here an agent whose process passed the allow-list opens files while its *)
(* scope is bound.                                                         *)
(***************************************************************************)
EXTENDS Naturals, Sequences, FiniteSets, SequencesExt

CONSTANTS
  DeclaredPaths,       \* lines of scope_path in an intent's metadata
  KernelPaths,         \* what bpf_d_path may resolve
  MaxLines,            \* bound on the lines of an intent
  MAX_PATH_PREFIXES, PATH_PREFIX_MAX, PATH_BUF_MAX,
  CHUNK                \* bytes compared at once

\* A path and the NUL after it fit the buffer, or bpf_d_path fails; a path
\* of the kernel ends at its NUL.
ASSUME ScopeAssumption ==
  /\ DeclaredPaths \cup KernelPaths \subseteq Seq(STRING)
  /\ \A path \in KernelPaths : \A i \in DOMAIN path : path[i] # "nul"
  /\ {MaxLines, MAX_PATH_PREFIXES} \subseteq Nat
  /\ {PATH_PREFIX_MAX, PATH_BUF_MAX, CHUNK} \subseteq Nat \ {0}
  /\ PATH_PREFIX_MAX % CHUNK = 0 /\ PATH_PREFIX_MAX <= PATH_BUF_MAX

VARIABLES
  lsm_mode,          \* how the hooks were attached
  compiled,          \* the scope of the intent being bound, and what it declared
  pid_scope_flags, pid_path_prefixes,   \* the maps of the kernel, for the agent's pid
  declared_by,       \* history: the lines that the path map was compiled from
  opening            \* the file_open hook under way

scopeVars == <<lsm_mode, compiled, pid_scope_flags, pid_path_prefixes, declared_by, opening>>

NUL == "nul"
SCOPE_FILE_OPEN == "file"
SCOPE_EXEC == "exec"
SCOPE_SOCKET == "socket"
ScopeClasses == {SCOPE_FILE_OPEN, SCOPE_EXEC, SCOPE_SOCKET}

\* The classes a capability grants; any other grants none.
Grants == [read |-> SCOPE_FILE_OPEN, write |-> SCOPE_FILE_OPEN, exec |-> SCOPE_EXEC,
           spawn |-> SCOPE_EXEC, net |-> SCOPE_SOCKET, socket |-> SCOPE_SOCKET]

None == [is |-> "none"]
Some(value) == [is |-> "some", value |-> value]

NotCompiling == [pc |-> "none"]
NotOpening == [pc |-> "none"]

ScopeInit ==
  /\ lsm_mode = "none"
  /\ compiled = NotCompiling
  /\ pid_scope_flags = None /\ pid_path_prefixes = None
  /\ declared_by = <<>>
  /\ opening = NotOpening

-----------------------------------------------------------------------------
(* Compiling.                                                              *)

TrimEnd(path) == \* the trailing slashes are cut off
  LET kept == {i \in DOMAIN path : path[i] # "/"}
  IN  IF kept = {} THEN <<>> ELSE SubSeq(path, 1, CHOOSE i \in kept : \A j \in kept : j <= i)

\* Absolute, without a component "..", not the root, and with room for a NUL.
validate_scope_path(path) ==
  /\ path[1] = "/" /\ NUL \notin ToSet(path)
  /\ \A i \in 1 .. Len(path) - 2 :
       ~ /\ SubSeq(path, i, i + 2) = <<"/", ".", ".">>
         /\ i + 3 > Len(path) \/ path[i + 3] = "/"
  /\ TrimEnd(path) # <<>> /\ Len(TrimEnd(path)) < PATH_PREFIX_MAX

\* Blank lines are skipped and each path is taken once.
Validated(lines) ==
  LET taken[i \in 0 .. Len(lines)] ==
        IF i = 0 THEN <<>>
        ELSE IF lines[i] = <<>> \/ TrimEnd(lines[i]) \in ToSet(taken[i - 1]) THEN taken[i - 1]
        ELSE Append(taken[i - 1], TrimEnd(lines[i]))
  IN  taken[Len(lines)]

Compiles(lines) ==
  /\ \A i \in DOMAIN lines : lines[i] # <<>> => validate_scope_path(lines[i])
  /\ Len(Validated(lines)) \in 1 .. MAX_PATH_PREFIXES

\* The slots one after the other, the rest of them NUL.
path_set_bytes(prefixes) ==
  [at \in 1 .. MAX_PATH_PREFIXES * PATH_PREFIX_MAX |->
     LET slot == ((at - 1) \div PATH_PREFIX_MAX) + 1
         i    == ((at - 1) % PATH_PREFIX_MAX) + 1
     IN  IF slot <= Len(prefixes) /\ i <= Len(prefixes[slot]) THEN prefixes[slot][i] ELSE NUL]

\* compile: the token grants classes, the intent can only take some away.
\* "scope_path" may be missing (None); declared and empty is refused.
compile(caps, narrowed, scope_path) ==
  /\ compiled = NotCompiling
  /\ scope_path # None => Compiles(scope_path.value)
  /\ compiled' = [pc |-> "flags", class_flags |-> {Grants[c] : c \in caps} \ narrowed,
                  lines |-> IF scope_path = None THEN <<>> ELSE scope_path.value]
  /\ UNCHANGED <<lsm_mode, pid_scope_flags, pid_path_prefixes, declared_by, opening>>

-----------------------------------------------------------------------------
(* Attaching and binding.  In simulation there are no maps to write.       *)

Attached == UNCHANGED <<compiled, pid_scope_flags, pid_path_prefixes, declared_by, opening>>

\* The three programs load and attach and the maps are empty, or none is kept.
try_attach_real_lsm == lsm_mode = "none" /\ lsm_mode' = "real" /\ Attached

\* Where it fails, the fallback or, with none allowed, an error.
attach_lsm_hooks ==
  \/ try_attach_real_lsm
  \/ lsm_mode = "none" /\ lsm_mode' \in {"simulation", "refused"} /\ Attached

\* A program that runs finishes before it is unloaded.
detach ==
  /\ opening = NotOpening
  /\ lsm_mode \in {"real", "simulation"} /\ lsm_mode' = "none"
  /\ pid_scope_flags' = None /\ pid_path_prefixes' = None /\ declared_by' = <<>>
  /\ compiled' = NotCompiling /\ UNCHANGED opening

set_pid_scope_flags ==
  /\ lsm_mode \in {"real", "simulation"} /\ compiled.pc = "flags"
  /\ pid_scope_flags' = IF lsm_mode = "real" THEN Some(compiled.class_flags) ELSE None
  /\ compiled' = [compiled EXCEPT !.pc = "paths"]
  /\ UNCHANGED <<lsm_mode, pid_path_prefixes, declared_by, opening>>

set_pid_scope_paths ==
  /\ compiled.pc = "paths"
  /\ pid_path_prefixes' = IF lsm_mode = "real" /\ compiled.lines # <<>>
                          THEN Some(path_set_bytes(Validated(compiled.lines))) ELSE None
  /\ declared_by' = compiled.lines
  /\ compiled' = NotCompiling
  /\ UNCHANGED <<lsm_mode, pid_scope_flags, opening>>

\* A map cannot be written, or the pid is denied or withdrawn: clear_pid_scope.
clear_pid_scope ==
  /\ pid_scope_flags # None \/ compiled # NotCompiling
  /\ pid_scope_flags' = None /\ pid_path_prefixes' = None /\ declared_by' = <<>>
  /\ compiled' = NotCompiling
  /\ UNCHANGED <<lsm_mode, opening>>

-----------------------------------------------------------------------------
(* The hook.                                                               *)

\* The resolved path with its NUL, at the head of a buffer whose end still
\* holds what the kernel built there, if it fits.
Buffer(path) ==
  [i \in 1 .. PATH_BUF_MAX |->
     IF i <= Len(path) THEN path[i]
     ELSE IF i > Len(path) + 1 /\ i < PATH_BUF_MAX /\ i >= PATH_BUF_MAX - Len(path)
          THEN path[i - (PATH_BUF_MAX - Len(path)) + 1]
     ELSE NUL]

Chunk(bytes, k) == SubSeq(bytes, (k - 1) * CHUNK + 1, k * CHUNK)
Slot(set, j) == SubSeq(set, (j - 1) * PATH_PREFIX_MAX + 1, j * PATH_PREFIX_MAX)

\* The place of the first NUL of a chunk, or 0 (z & -z).
FirstNul(p) ==
  LET nuls == {i \in DOMAIN p : p[i] = NUL}
  IN  IF nuls = {} THEN 0 ELSE CHOOSE i \in nuls : \A j \in nuls : i <= j

\* A bug a rewrite could bring: what follows the prefix is not looked at.
MatchesLast_NoBoundary(p, c) ==
  LET nul == FirstNul(p)
  IN  SubSeq(c, 1, nul - 1) = SubSeq(p, 1, nul - 1)

\* The chunk that has the prefix's NUL: equal before it, and the path ends or
\* goes on with a slash there.
MatchesLast(p, c) ==
  LET nul == FirstNul(p)
  IN  SubSeq(c, 1, nul - 1) = SubSeq(p, 1, nul - 1) /\ c[nul] \in {NUL, "/"}

\* Full chunks are equal up to the one with the NUL; without one nothing matches.
MatchesPrefix(prefix, path) ==
  \E k \in 1 .. PATH_PREFIX_MAX \div CHUNK :
    /\ \A i \in 1 .. k - 1 : FirstNul(Chunk(prefix, i)) = 0 /\ Chunk(prefix, i) = Chunk(path, i)
    /\ FirstNul(Chunk(prefix, k)) # 0 /\ MatchesLast(Chunk(prefix, k), Chunk(path, k))

\* The first empty slot ends the set.
InSet(set, path) ==
  \E j \in 1 .. MAX_PATH_PREFIXES :
    /\ \A i \in 1 .. j : Slot(set, i)[1] # NUL
    /\ MatchesPrefix(Slot(set, j), path)

\* The end of lsm_gate, for a process of the allow-list.
lsm_gate_open(path) ==
  /\ lsm_mode = "real" /\ opening = NotOpening
  /\ pid_scope_flags # None => SCOPE_FILE_OPEN \in pid_scope_flags.value
  /\ opening' = [pc |-> "gated", path |-> path]
  /\ UNCHANGED <<lsm_mode, compiled, pid_scope_flags, pid_path_prefixes, declared_by>>

lsm_file_open ==
  /\ opening.pc = "gated"
  /\ opening' = [pc |-> "decided", path |-> opening.path, declared |-> declared_by,
                 ok |-> \/ pid_path_prefixes = None
                        \/ /\ Len(opening.path) < PATH_BUF_MAX
                           /\ InSet(pid_path_prefixes.value, Buffer(opening.path))]
  /\ UNCHANGED <<lsm_mode, compiled, pid_scope_flags, pid_path_prefixes, declared_by>>

file_opened ==
  /\ opening.pc = "decided" /\ opening' = NotOpening
  /\ UNCHANGED <<lsm_mode, compiled, pid_scope_flags, pid_path_prefixes, declared_by>>

\* ScopePaths with and without paths, of a token that may read.
ScopePaths == {None} \cup {Some(lines) : lines \in SeqOf(DeclaredPaths, MaxLines)}

ScopeNext ==
  \/ attach_lsm_hooks \/ detach
  \/ \E narrowed \in {{}, {SCOPE_FILE_OPEN}}, scope_path \in ScopePaths :
       compile({"read", "exec"}, narrowed, scope_path)
  \/ set_pid_scope_flags \/ set_pid_scope_paths \/ clear_pid_scope
  \/ \E path \in KernelPaths : lsm_gate_open(path)
  \/ lsm_file_open \/ file_opened

ScopeSpec == ScopeInit /\ [][ScopeNext]_scopeVars

-----------------------------------------------------------------------------
ScopeTypeOK ==
  /\ lsm_mode \in {"none", "real", "simulation", "refused"}
  /\ compiled.pc \in {"none", "flags", "paths"}
  /\ pid_scope_flags = None \/ pid_scope_flags.value \subseteq ScopeClasses
  /\ pid_path_prefixes = None
     \/ Len(pid_path_prefixes.value) = MAX_PATH_PREFIXES * PATH_PREFIX_MAX
  /\ opening.pc \in {"none", "gated", "decided"}

\* A declared path begins the one opened, which ends there or goes on with a slash.
AtOrUnder(declared, path) ==
  /\ IsPrefix(declared, path)
  /\ Len(path) = Len(declared) \/ path[Len(declared) + 1] = "/"

\* What the kernel lets an agent open is what its intent declared: files at or
\* under one of the declared paths, however it ends, whatever slot and chunk they
\* fall into, however the paths share beginnings, and however often the scope
\* is bound again; and everything when no path was declared.
PathsAsDeclared ==
  opening.pc = "decided" =>
    opening.ok = \/ opening.declared = <<>>
                 \/ /\ Len(opening.path) < PATH_BUF_MAX
                    /\ \E i \in DOMAIN opening.declared :
                         /\ opening.declared[i] # <<>>
                         /\ AtOrUnder(TrimEnd(opening.declared[i]), opening.path)

=============================================================================
