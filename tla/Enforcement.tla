---------------------------- MODULE Enforcement ----------------------------
(***************************************************************************)
(* From a capability token to the kernel: KernelCompanion's authorization, *)
(* revocation callback, expiry task and immune-system cut                  *)
(* (crates/kernel-companion/src/lib.rs), the maps they keep through        *)
(* LsmAttachment (lsm.rs) and the decision of the LSM hooks on them        *)
(* (ebpf/lsm-security.bpf.c), over the token registry of                   *)
(* CapabilitySecurity.                                                     *)
(*                                                                         *)
(* The attachment is one mutex, so allow_pid, deny_pid and the others are  *)
(* atomic; authorize_process_token borrows the companion mutably, so one   *)
(* authorization runs at a time, and everything else runs beside it.  The  *)
(* hooks see a process as its pid, its start time (the incarnation of the  *)
(* pid) and whether its cgroup is the registered agent cgroup.  The        *)
(* syscall profiles of LsmPolicyEngine are a separate part.                *)
(***************************************************************************)
EXTENDS CapabilitySecurity

CONSTANTS Classes,         \* operation classes: file_open, exec, socket
          TokenClasses,    \* the classes a token's capabilities grant
          MaxIncarnation,  \* bound: how often a pid is used
          MapCapacity      \* max_entries of blocked_pids and of allowed_pids

ASSUME EnforcementAssumption ==
  /\ Pids # {}
  /\ TokenClasses \in [Tokens -> SUBSET Classes]
  /\ MaxIncarnation \in Nat
  /\ MapCapacity \in Nat
  /\ "unrestricted" \notin Classes

VARIABLES
  proc,      \* per pid: its latest incarnation, whether it runs, its world
  blocked,   \* blocked_pids
  allowed,   \* allowed_pids: per pid the start time allowed, or 0
  scope,     \* pid_scope_flags: the classes bound to a pid, or Unrestricted
  auth,      \* the authorization in progress
  sweep,     \* the expiry task: pids left to check, and the one to deny
  condemned, \* tokens the immune task still has to revoke
  grant      \* history: behind each pid's allow-list entry, the scope it was
             \* granted and the token, if that was still valid at the time

lsmVars == <<blocked, allowed, scope, grant>>
vars == <<registryVars, proc, lsmVars, auth, sweep, condemned>>

Unrestricted == {"unrestricted"}
Scopes == (SUBSET Classes) \cup {Unrestricted}
Incarnations == 0 .. MaxIncarnation

Proc  == [inc : Incarnations, alive : BOOLEAN, world : {"host", "agent"}]
Auth  == [pc : {"idle", "unknown", "refused", "granted", "cgroup", "scope"},
          pid : Pids, tok : SUBSET Tokens, scope : Scopes]
Sweep == [pids : SUBSET Pids, deny : SUBSET Pids]
Grant == [tok : SUBSET Tokens, scope : Scopes]

AnyPid  == CHOOSE p \in Pids : TRUE
NoAuth  == [pc |-> "idle", pid |-> AnyPid, tok |-> {}, scope |-> Unrestricted]
NoGrant == [tok |-> {}, scope |-> Unrestricted]

(* The shapes of the maps and of the companion's tasks; no authorization   *)
(* leaves anything of itself behind.                                       *)
TypeOK ==
  /\ RegistryTypeOK
  /\ proc \in [Pids -> Proc]
  /\ blocked \subseteq Pids
  /\ allowed \in [Pids -> Incarnations]
  /\ scope \in [Pids -> Scopes]
  /\ auth \in Auth /\ (auth.pc = "idle" => auth = NoAuth)
  /\ sweep \in Sweep
  /\ condemned \subseteq Tokens
  /\ grant \in [Pids -> Grant]

AllowListed == {p \in Pids : allowed[p] # 0}

Init ==
  /\ RegistryInit
  /\ proc = [p \in Pids |-> [inc |-> 0, alive |-> FALSE, world |-> "host"]]
  /\ blocked = {}
  /\ allowed = [p \in Pids |-> 0]
  /\ scope = [p \in Pids |-> Unrestricted]
  /\ auth = NoAuth
  /\ grant = [p \in Pids |-> NoGrant]
  /\ sweep = [pids |-> {}, deny |-> {}]
  /\ condemned = {}

-----------------------------------------------------------------------------
(* LsmAttachment, under its mutex. *)

(* deny_pid: a full blocked_pids map returns the error before the          *)
(* allow-list is touched.                                                  *)
BlockedHasRoom(p) == p \in blocked \/ Cardinality(blocked) < MapCapacity

deny_pid(p) ==
  IF BlockedHasRoom(p)
  THEN /\ blocked' = blocked \cup {p}
       /\ allowed' = [allowed EXCEPT ![p] = 0]
       /\ scope' = [scope EXCEPT ![p] = Unrestricted]
       /\ grant' = [grant EXCEPT ![p] = NoGrant]
  ELSE UNCHANGED lsmVars

(* Mutant: the rollback clears the scope and keeps the allow-list entry.   *)
withdraw_pid_KeepsEntry(p) ==
  /\ scope' = [scope EXCEPT ![p] = Unrestricted]
  /\ UNCHANGED <<blocked, allowed, grant>>

(* withdraw_pid: off the allow-list, without quarantine.                   *)
withdraw_pid(p) ==
  /\ allowed' = [allowed EXCEPT ![p] = 0]
  /\ scope' = [scope EXCEPT ![p] = Unrestricted]
  /\ grant' = [grant EXCEPT ![p] = NoGrant]
  /\ UNCHANGED blocked

(* allow_pid fails when /proc has no such pid or the map is full, and by   *)
(* then the quarantine has been lifted.                                    *)
CanAllow(p) ==
  /\ proc[p].alive
  /\ p \in AllowListed \/ Cardinality(AllowListed) < MapCapacity

allow_pid(p, by) ==
  /\ blocked' = blocked \ {p}
  /\ IF CanAllow(p)
     THEN /\ allowed' = [allowed EXCEPT ![p] = proc[p].inc]
          /\ grant' = [grant EXCEPT ![p] = by]
     ELSE UNCHANGED <<allowed, grant>>
  /\ UNCHANGED scope

(* lsm_gate: quarantine first, then the host world, then the allow-list    *)
(* with the start time, then the operation class.                          *)
lsm_gate(p, class) ==
  IF p \in blocked THEN "deny"
  ELSE IF proc[p].world = "host" THEN "host"
  ELSE IF allowed[p] # proc[p].inc THEN "deny"
  ELSE IF scope[p] # Unrestricted /\ class \notin scope[p] THEN "deny"
  ELSE "agent"

-----------------------------------------------------------------------------
(* Processes come and go; a new one may get a pid that was used before and *)
(* starts in the host world or, forked by an agent, in the agent cgroup.   *)
Exit(p) ==
  /\ proc[p].alive
  /\ proc' = [proc EXCEPT ![p].alive = FALSE, ![p].world = "host"]
  /\ UNCHANGED <<registryVars, lsmVars, auth, sweep, condemned>>

Fork(p, w) ==
  /\ ~proc[p].alive
  /\ proc[p].inc < MaxIncarnation
  /\ proc' = [proc EXCEPT ![p] = [inc |-> @.inc + 1, alive |-> TRUE, world |-> w]]
  /\ UNCHANGED <<registryVars, lsmVars, auth, sweep, condemned>>

-----------------------------------------------------------------------------
(* The registry's own steps.  Only a token that is being issued or is      *)
(* registered is revoked: any other revocation is dropped by the next      *)
(* collection without an effect.                                           *)

Quiet == UNCHANGED <<proc, lsmVars, auth, sweep, condemned>>

Issue(t)          == IssueBegin(t) /\ Quiet
Issued(t)         == (\E audited \in BOOLEAN : IssueEnd(t, audited)) /\ Quiet
TokenExpires(t)   == Expire(t) /\ Quiet
RevokeToken(t)    == token[t] \in {"issuing", "live"} /\ Revoke(t) /\ Quiet

(* Mutant: the callback skips a token that has expired, the sweep's work.  *)
RevocationCallback_SkipsExpired(t) ==
  /\ RevokeNotify(t)
  /\ IF t \in Live \ expired /\ TokenScope[t] # Global
     THEN deny_pid(TokenScope[t])
     ELSE UNCHANGED lsmVars
  /\ UNCHANGED <<proc, auth, sweep, condemned>>

(* The callback registered at boot denies the pid of a process-scoped      *)
(* token, and does nothing for another scope.                              *)
RevocationCallback(t) ==
  /\ RevokeNotify(t)
  /\ IF t \in Live /\ TokenScope[t] # Global
     THEN deny_pid(TokenScope[t])
     ELSE UNCHANGED lsmVars
  /\ UNCHANGED <<proc, auth, sweep, condemned>>

(* apply_immune_revocation: the kernel first, then every token of the pid  *)
(* registered at that moment, one after the other.                         *)
ImmuneCut(p) ==
  /\ condemned = {}
  /\ deny_pid(p)
  /\ condemned' = {t \in Live : TokenScope[t] = p}
  /\ UNCHANGED <<registryVars, proc, auth, sweep>>

ImmuneRevoke(t) ==
  /\ t \in condemned
  /\ Revoke(t)
  /\ condemned' = condemned \ {t}
  /\ UNCHANGED <<proc, lsmVars, auth, sweep>>

-----------------------------------------------------------------------------
(* authorize_process_token and authorize_process_token_with_scope. *)

(* The scope is compiled from the registered capabilities, narrowed by the *)
(* intent; validate then decides on what the registry says now and awaits  *)
(* the audit log.  A plain authorization binds no scope.                   *)
Authorize(p, t, proper, s) ==
  /\ auth.pc = "idle"
  /\ s = Unrestricted \/ s \subseteq (IF t \in Live THEN TokenClasses[t] ELSE {})
  /\ auth' = IF Validates(t, p, proper)
             THEN [pc |-> "granted", pid |-> p, tok |-> {t}, scope |-> s]
             ELSE [NoAuth EXCEPT !.pc = IF t \in Live THEN "refused" ELSE "unknown",
                                 !.pid = p]
  /\ UNCHANGED <<registryVars, proc, lsmVars, sweep, condemned>>

(* The decision could not be audited: an error, and nothing changes.  An   *)
(* unknown token is refused without an audit entry.                        *)
AuditFails ==
  /\ auth.pc \in {"refused", "granted"}
  /\ auth' = NoAuth
  /\ UNCHANGED <<registryVars, proc, lsmVars, sweep, condemned>>

(* The decision reaches the attachment: refused ...                        *)
AuthorizeRefused ==
  /\ auth.pc \in {"unknown", "refused"}
  /\ deny_pid(auth.pid)
  /\ auth' = NoAuth
  /\ UNCHANGED <<registryVars, proc, sweep, condemned>>

(* ... or granted, however long ago the token was looked at.               *)
AuthorizeGranted ==
  /\ auth.pc = "granted"
  /\ allow_pid(auth.pid, [tok |-> {t \in auth.tok : Valid(t)}, scope |-> auth.scope])
  /\ auth' = IF CanAllow(auth.pid)
             THEN [auth EXCEPT !.pc = "cgroup", !.tok = {}]
             ELSE NoAuth
  /\ UNCHANGED <<registryVars, proc, sweep, condemned>>

(* The pid moves into the agent cgroup; the caller of the scoped form goes *)
(* on to bind the scope.                                                   *)
EnterCgroup ==
  /\ auth.pc = "cgroup"
  /\ proc[auth.pid].alive
  /\ proc' = [proc EXCEPT ![auth.pid].world = "agent"]
  /\ auth' = IF auth.scope = Unrestricted THEN NoAuth ELSE [auth EXCEPT !.pc = "scope"]
  /\ UNCHANGED <<registryVars, lsmVars, sweep, condemned>>

(* Mutant: the authorization ends without dropping its scope.              *)
BindScope_KeepsScope ==
  /\ auth.pc = "scope"
  /\ scope' = [scope EXCEPT ![auth.pid] = auth.scope]
  /\ auth' = [auth EXCEPT !.pc = "idle"]
  /\ UNCHANGED <<registryVars, proc, blocked, allowed, grant, sweep, condemned>>

BindScope ==
  /\ auth.pc = "scope"
  /\ scope' = [scope EXCEPT ![auth.pid] = auth.scope]
  /\ auth' = NoAuth
  /\ UNCHANGED <<registryVars, proc, blocked, allowed, grant, sweep, condemned>>

(* cgroup.procs or the scope map cannot be written: the authorization is   *)
(* rolled back.                                                            *)
RollBack ==
  /\ auth.pc \in {"cgroup", "scope"}
  /\ withdraw_pid(auth.pid)
  /\ auth' = NoAuth
  /\ UNCHANGED <<registryVars, proc, sweep, condemned>>

-----------------------------------------------------------------------------
(* The expiry task, every 500 ms. *)

(* Mutant: garbage is collected first, and the pids of what is left.       *)
SweepBegin_CollectsFirst ==
  /\ sweep = [pids |-> {}, deny |-> {}]
  /\ GarbageCollect
  /\ sweep' = [pids |-> ProcessScopedPids', deny |-> {}]
  /\ UNCHANGED <<proc, lsmVars, auth, condemned>>

(* It collects the pids of the registered process-scoped tokens and then   *)
(* collects garbage: adjacent statements, short against any token's life.  *)
SweepBegin ==
  /\ sweep = [pids |-> {}, deny |-> {}]
  /\ sweep' = [pids |-> ProcessScopedPids, deny |-> {}]
  /\ GarbageCollect
  /\ UNCHANGED <<proc, lsmVars, auth, condemned>>

(* For each pid it asks the registry ...                                   *)
SweepCheck(p) ==
  /\ p \in sweep.pids
  /\ sweep.deny = {}
  /\ sweep' = [pids |-> sweep.pids \ {p},
               deny |-> IF has_valid_token_for_pid(p) THEN {} ELSE {p}]
  /\ UNCHANGED <<registryVars, proc, lsmVars, auth, condemned>>

(* ... and denies it on the answer.                                        *)
SweepDeny(p) ==
  /\ p \in sweep.deny
  /\ deny_pid(p)
  /\ sweep' = [sweep EXCEPT !.deny = {}]
  /\ UNCHANGED <<registryVars, proc, auth, condemned>>

Next ==
  \/ \E p \in Pids : Exit(p)
  \/ \E p \in Pids, w \in {"host", "agent"} : Fork(p, w)
  \/ \E t \in Tokens : Issue(t)
  \/ \E t \in Tokens : Issued(t)
  \/ \E t \in Tokens : TokenExpires(t)
  \/ \E t \in Tokens : RevokeToken(t)
  \/ \E t \in Tokens : RevocationCallback(t)
  \/ \E p \in Pids : ImmuneCut(p)
  \/ \E t \in Tokens : ImmuneRevoke(t)
  \/ \E p \in Pids, t \in Tokens, proper \in BOOLEAN, s \in Scopes :
       Authorize(p, t, proper, s)
  \/ AuditFails
  \/ AuthorizeRefused
  \/ AuthorizeGranted
  \/ EnterCgroup
  \/ BindScope
  \/ RollBack
  \/ SweepBegin
  \/ \E p \in Pids : SweepCheck(p)
  \/ \E p \in Pids : SweepDeny(p)

(* The expiry task is a loop over a timer: it always takes its next step.  *)
SweepFairness ==
  /\ WF_vars(SweepBegin)
  /\ \A p \in Pids : WF_vars(SweepCheck(p)) /\ WF_vars(SweepDeny(p))

Spec == Init /\ [][Next]_vars /\ SweepFairness

-----------------------------------------------------------------------------
(* Properties. *)

Passes(p, c) == proc[p].alive /\ lsm_gate(p, c) = "agent"

(* A process of the agent cgroup never passes the hooks on the grant of a  *)
(* registered token that has been revoked: the pid is cut before           *)
(* revoke_token returns, unless the grant itself came late (validate had   *)
(* looked at the token before the revocation, or before it expired).       *)
GateFollowsRegistry ==
  \A p \in Pids, c \in Classes :
    Passes(p, c) => grant[p].tok \cap cut \subseteq revoking

(* H3: after authorize_process_token_with_scope has returned, a process    *)
(* passes only for the classes its scope granted, and never unrestricted,  *)
(* whatever revocations and rollbacks interleaved.                         *)
ScopeIsBound ==
  \A p \in Pids, c \in Classes :
    Passes(p, c) /\ grant[p].scope # Unrestricted
    /\ ~(auth.pc \in {"cgroup", "scope"} /\ auth.pid = p) =>
      c \in grant[p].scope

(* The fail-safe of README 8.3: an allow-listed pid with registered tokens *)
(* but no valid one loses its place or gets a valid token.                 *)
StaleGrantIsCut ==
  \A p \in Pids :
    (p \in AllowListed /\ p \in ProcessScopedPids /\ ~has_valid_token_for_pid(p))
      ~> (p \notin AllowListed \/ has_valid_token_for_pid(p))

(* The same promise without the escape: a process that passes the hooks    *)
(* and whose pid has no valid token is cut in the end.                     *)
NoTokenNoAccess ==
  \A p \in Pids :
    ((\E c \in Classes : Passes(p, c)) /\ ~has_valid_token_for_pid(p))
      ~> ((\A c \in Classes : ~Passes(p, c)) \/ has_valid_token_for_pid(p))

(* "A recycled PID outside the agent cgroup must never inherit agent       *)
(* restrictions" (lsm-security.bpf.c): a process that is born in the host  *)
(* world, with a pid that was used before, is not refused by the hooks.    *)
HostBornFree ==
  [][\A p \in Pids, c \in Classes :
       /\ proc[p].inc > 0 /\ proc'[p].inc > proc[p].inc
       /\ proc'[p].world = "host"
       => lsm_gate(p, c)' = "host"]_vars
=============================================================================
