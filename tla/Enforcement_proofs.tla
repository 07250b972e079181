------------------------- MODULE Enforcement_proofs -------------------------
(***************************************************************************)
(* Proofs about Enforcement for every set of tokens, pids and classes: a   *)
(* revoked token stays dead and a scope stays bound whatever interleaves;  *)
(* and, with room in the map of quarantined pids and no Global token, the  *)
(* hooks follow the registry.  And about PathScope, for every set of paths *)
(* and every size of the kernel's map: files open as they were declared.   *)
(***************************************************************************)
EXTENDS Enforcement, PathScope, FiniteSetTheorems, WellFoundedInduction, TLAPS

(* What HooksFollowRegistry rests on: the deny of a pid never meets a full *)
(* map, and revoke_token finds the pid in the scope of the token.          *)
Roomy        == IsFiniteSet(Pids) /\ Cardinality(Pids) <= MapCapacity
ProcessScope == \A t \in Tokens : TokenScope[t] # Global

(* A registered token that was marked is still registered, and marked.     *)
Dead == cut \subseteq Live /\ cut \subseteq revoked

(* A process that runs has a start time.                                   *)
Started == \A p \in Pids : proc[p].alive => proc[p].inc # 0

(* The scope an authorization is about to bind is that of the entry it has *)
(* made, unless the entry is gone ...                                      *)
Binding(p) == auth.pc \in {"cgroup", "scope"} /\ auth.pid = p
AuthScope  == auth.pc \in {"cgroup", "scope"} =>
                grant[auth.pid].scope \in {auth.scope, Unrestricted}

(* ... and once it has returned, that of the entry is bound.               *)
Bound == \A p \in Pids : grant[p].scope # Unrestricted /\ ~Binding(p) => scope[p] = grant[p].scope

(* A grant is by tokens of its pid, and those of them that have been       *)
(* marked since are about to be called back.                               *)
AuthTokens == \A t \in auth.tok : TokenScope[t] \in {auth.pid, Global}
Followed   == \A p \in Pids : \A t \in grant[p].tok :
                TokenScope[t] \in {p, Global} /\ (t \in cut => t \in revoking)

IInv == TypeOK /\ Dead /\ Started /\ AuthScope /\ Bound

-----------------------------------------------------------------------------
(* Type correctness.                                                       *)
LEMMA NoAuthTyped == NoAuth \in Auth /\ NoGrant \in Grant /\ Unrestricted \in Scopes
<1>1. AnyPid \in Pids
  BY EnforcementAssumption DEF AnyPid
<1>2. Unrestricted \in Scopes
  BY DEF Scopes
<1>3. QED
  BY <1>1, <1>2 DEF NoAuth, NoGrant, Auth, Grant

MapsOK == /\ blocked \subseteq Pids /\ allowed \in [Pids -> Incarnations]
          /\ scope \in [Pids -> Scopes] /\ grant \in [Pids -> Grant]

LEMMA DenyTyped ==
  ASSUME TypeOK, NEW p \in Pids, deny_pid(p) \/ withdraw_pid(p)
  PROVE  MapsOK'
<1>1. 0 \in Incarnations
  BY EnforcementAssumption DEF Incarnations
<1>2. CASE deny_pid(p) /\ BlockedHasRoom(p)
  BY <1>1, <1>2, NoAuthTyped DEF deny_pid, TypeOK, MapsOK
<1>3. CASE deny_pid(p) /\ ~BlockedHasRoom(p)
  BY <1>3 DEF deny_pid, lsmVars, TypeOK, MapsOK
<1>4. CASE withdraw_pid(p)
  BY <1>1, <1>4, NoAuthTyped DEF withdraw_pid, TypeOK, MapsOK
<1>5. QED
  BY <1>2, <1>3, <1>4

(* The steps of the registry.                                              *)
LEMMA RegistryTyped ==
  ASSUME RegistryTypeOK, NEW t \in Tokens,
         \/ IssueBegin(t) \/ (\E audited \in BOOLEAN : IssueEnd(t, audited))
         \/ Expire(t) \/ Revoke(t) \/ RevokeNotify(t) \/ GarbageCollect
  PROVE  RegistryTypeOK'
<1> USE DEF RegistryTypeOK, Live
<1>1. CASE IssueBegin(t)
  BY <1>1 DEF IssueBegin
<1>2. CASE \E audited \in BOOLEAN : IssueEnd(t, audited)
  BY <1>2 DEF IssueEnd
<1>3. CASE Expire(t)
  BY <1>3 DEF Expire
<1>4. CASE Revoke(t)
  BY <1>4 DEF Revoke
<1>5. CASE RevokeNotify(t)
  BY <1>5 DEF RevokeNotify
<1>6. CASE GarbageCollect
  BY <1>6 DEF GarbageCollect
<1>7. QED
  BY <1>1, <1>2, <1>3, <1>4, <1>5, <1>6

LEMMA StepTyped ==
  ASSUME TypeOK, [Next]_vars
  PROVE  TypeOK'
<1> USE EnforcementAssumption, CapabilityAssumption
<1>1. ASSUME Quiet, RegistryTypeOK' PROVE TypeOK'
  BY <1>1, NoAuthTyped DEF Quiet, TypeOK, lsmVars, NoAuth, AnyPid
<1>2. ASSUME MapsOK', UNCHANGED <<registryVars, proc, sweep, condemned>>,
             auth' \in Auth /\ (auth'.pc = "idle" => auth' = NoAuth)
      PROVE  TypeOK'
  BY <1>2 DEF MapsOK, TypeOK, RegistryTypeOK, registryVars, NoAuth, AnyPid
<1>a. MapsOK /\ auth \in Auth /\ (auth.pc = "idle" => auth = NoAuth)
  BY DEF TypeOK, MapsOK
<1>b. ASSUME UNCHANGED lsmVars PROVE MapsOK'
  BY <1>a, <1>b DEF MapsOK, lsmVars
<1>3. ASSUME NEW p \in Pids, Exit(p) PROVE TypeOK'
  <2>1. proc' \in [Pids -> Proc]
    BY <1>3 DEF Exit, TypeOK, Proc
  <2>2. QED
    BY <1>3, <2>1 DEF Exit, TypeOK, RegistryTypeOK, registryVars, lsmVars, NoAuth, AnyPid
<1>4. ASSUME NEW p \in Pids, NEW w \in {"host", "agent"}, Fork(p, w) PROVE TypeOK'
  <2>1. proc[p].inc + 1 \in Incarnations
    BY <1>4 DEF Fork, TypeOK, Proc, Incarnations
  <2>2. proc' \in [Pids -> Proc]
    BY <1>4, <2>1 DEF Fork, TypeOK, Proc
  <2>3. QED
    BY <1>4, <2>2 DEF Fork, TypeOK, RegistryTypeOK, registryVars, lsmVars, NoAuth, AnyPid
<1>5. ASSUME NEW t \in Tokens, Issue(t) \/ Issued(t) \/ TokenExpires(t) \/ RevokeToken(t)
      PROVE  TypeOK'
  BY <1>1, <1>5, RegistryTyped DEF Issue, Issued, TokenExpires, RevokeToken, TypeOK
<1>6. ASSUME NEW t \in Tokens, RevocationCallback(t) PROVE TypeOK'
  <2>1. MapsOK'
    <3>1. CASE t \in Live /\ TokenScope[t] # Global
      BY <1>6, <3>1, DenyTyped DEF RevocationCallback
    <3>2. CASE ~(t \in Live /\ TokenScope[t] # Global)
      BY <1>6, <1>b, <3>2 DEF RevocationCallback
    <3>3. QED
      BY <3>1, <3>2
  <2>2. RegistryTypeOK'
    BY <1>6, RegistryTyped DEF RevocationCallback, TypeOK
  <2>3. QED
    BY <1>6, <2>1, <2>2 DEF RevocationCallback, TypeOK, MapsOK, NoAuth, AnyPid
<1>7. ASSUME NEW p \in Pids, ImmuneCut(p) PROVE TypeOK'
  <2>1. MapsOK'
    BY <1>7, DenyTyped DEF ImmuneCut
  <2>2. QED
    BY <1>7, <2>1 DEF ImmuneCut, Live, TypeOK, RegistryTypeOK, registryVars, MapsOK, NoAuth, AnyPid
<1>8. ASSUME NEW t \in Tokens, ImmuneRevoke(t) PROVE TypeOK'
  <2>1. RegistryTypeOK'
    BY <1>8, RegistryTyped DEF ImmuneRevoke, TypeOK
  <2>2. QED
    BY <1>8, <2>1 DEF ImmuneRevoke, TypeOK, lsmVars, NoAuth, AnyPid
<1>9. ASSUME NEW p \in Pids, NEW t \in Tokens, NEW proper \in BOOLEAN, NEW s \in Scopes,
             Authorize(p, t, proper, s)
      PROVE  TypeOK'
  <2>1. [pc |-> "granted", pid |-> p, tok |-> {t}, scope |-> s] \in Auth
    BY DEF Auth
  <2>2. \A pc \in {"refused", "unknown"} : /\ [NoAuth EXCEPT !.pc = pc, !.pid = p] \in Auth
                                         /\ [NoAuth EXCEPT !.pc = pc, !.pid = p].pc = pc
    BY NoAuthTyped DEF Auth
  <2>3. auth' \in Auth /\ auth'.pc # "idle"
    BY <1>9, <2>1, <2>2 DEF Authorize
  <2>4. QED
    BY <1>9, <1>2, <1>b, <2>3 DEF Authorize
<1>10. CASE AuditFails
  BY <1>10, <1>2, <1>b, NoAuthTyped DEF AuditFails
<1>11. CASE AuthorizeRefused
  <2>1. auth.pid \in Pids
    BY <1>a DEF Auth
  <2>2. MapsOK'
    BY <1>11, <2>1, DenyTyped DEF AuthorizeRefused
  <2>3. QED
    BY <1>11, <1>2, <2>2, NoAuthTyped DEF AuthorizeRefused
<1>12. CASE AuthorizeGranted
  <2>1. auth.pid \in Pids /\ auth.scope \in Scopes
    BY <1>a DEF Auth
  <2>2. proc[auth.pid].inc \in Incarnations
    BY <2>1 DEF TypeOK, Proc
  <2>3. [tok |-> {t \in auth.tok : Valid(t)}, scope |-> auth.scope] \in Grant
    BY <1>a, <2>1 DEF Grant, Auth
  <2>4. MapsOK'
    <3>1. CASE CanAllow(auth.pid)
      BY <1>12, <1>a, <2>1, <2>2, <2>3, <3>1 DEF AuthorizeGranted, allow_pid, MapsOK
    <3>2. CASE ~CanAllow(auth.pid)
      BY <1>12, <1>a, <3>2 DEF AuthorizeGranted, allow_pid, MapsOK
    <3>3. QED
      BY <3>1, <3>2
  <2>5. [auth EXCEPT !.pc = "cgroup", !.tok = {}] \in Auth
        /\ [auth EXCEPT !.pc = "cgroup", !.tok = {}].pc = "cgroup"
    BY <1>a DEF Auth
  <2>6. QED
    BY <1>12, <1>2, <2>4, <2>5, NoAuthTyped DEF AuthorizeGranted
<1>13. CASE EnterCgroup
  <2>1. [auth EXCEPT !.pc = "scope"] \in Auth /\ [auth EXCEPT !.pc = "scope"].pc = "scope"
    BY <1>a DEF Auth
  <2>2. proc' \in [Pids -> Proc]
    BY <1>13, <1>a DEF EnterCgroup, TypeOK, Proc, Auth
  <2>3. auth' \in Auth /\ (auth'.pc = "idle" => auth' = NoAuth)
    BY <1>13, <2>1, NoAuthTyped DEF EnterCgroup
  <2>4. QED
    BY <1>13, <2>2, <2>3 DEF EnterCgroup, TypeOK, RegistryTypeOK, registryVars, lsmVars, NoAuth, AnyPid
<1>14. CASE BindScope
  <2>1. MapsOK'
    BY <1>14, <1>a DEF BindScope, MapsOK, Auth
  <2>2. QED
    BY <1>14, <1>2, <2>1, NoAuthTyped DEF BindScope
<1>15. CASE RollBack
  <2>1. auth.pid \in Pids
    BY <1>a DEF Auth
  <2>2. MapsOK'
    BY <1>15, <2>1, DenyTyped DEF RollBack
  <2>3. QED
    BY <1>15, <1>2, <2>2, NoAuthTyped DEF RollBack
<1>16. CASE SweepBegin
  <2>1. RegistryTypeOK'
    BY <1>16 DEF SweepBegin, GarbageCollect, TypeOK, RegistryTypeOK, Live
  <2>2. sweep' \in Sweep
    BY <1>16 DEF SweepBegin, ProcessScopedPids, Live, Sweep
  <2>3. QED
    BY <1>16, <2>1, <2>2 DEF SweepBegin, TypeOK, lsmVars, NoAuth, AnyPid
<1>17. ASSUME NEW p \in Pids, SweepCheck(p) PROVE TypeOK'
  <2>1. sweep' \in Sweep
    BY <1>17 DEF SweepCheck, TypeOK, Sweep
  <2>2. QED
    BY <1>17, <2>1 DEF SweepCheck, TypeOK, RegistryTypeOK, registryVars, lsmVars, NoAuth, AnyPid
<1>18. ASSUME NEW p \in Pids, SweepDeny(p) PROVE TypeOK'
  <2>1. MapsOK' /\ sweep' \in Sweep
    BY <1>18, DenyTyped DEF SweepDeny, TypeOK, Sweep
  <2>2. QED
    BY <1>18, <2>1 DEF SweepDeny, TypeOK, RegistryTypeOK, registryVars, MapsOK, NoAuth, AnyPid
<1>19. CASE UNCHANGED vars
  BY <1>19 DEF vars, TypeOK, RegistryTypeOK, registryVars, lsmVars, NoAuth, AnyPid
<1>20. QED
  BY <1>3, <1>4, <1>5, <1>6, <1>7, <1>8, <1>9, <1>10, <1>11, <1>12, <1>13, <1>14, <1>15,
     <1>16, <1>17, <1>18, <1>19 DEF Next

LEMMA InitTyped == Init => TypeOK
<1> SUFFICES ASSUME Init PROVE TypeOK
  OBVIOUS
<1>1. 0 \in Incarnations
  BY EnforcementAssumption DEF Incarnations
<1>2. QED
  BY <1>1, NoAuthTyped
  DEF Init, RegistryInit, TypeOK, RegistryTypeOK, Proc, Sweep

(* Type correctness for every set of tokens, pids and classes.             *)
THEOREM Typing == Spec => []TypeOK
BY InitTyped, StepTyped, PTL DEF Spec

-----------------------------------------------------------------------------
(* The registry: garbage collection forgets a mark with its token only.    *)
LEMMA DeadStep ==
  ASSUME TypeOK, Dead, [Next]_vars
  PROVE  Dead'
<1> USE DEF Dead, Live
<1>1. CASE UNCHANGED registryVars
  BY <1>1 DEF registryVars
<1>2. ASSUME NEW t \in Tokens, Issue(t) \/ Issued(t) PROVE Dead'
  BY <1>2 DEF Issue, Issued, IssueBegin, IssueEnd, TypeOK, RegistryTypeOK
<1>3. ASSUME NEW t \in Tokens, TokenExpires(t) PROVE Dead'
  BY <1>3 DEF TokenExpires, Expire
<1>4. ASSUME NEW t \in Tokens, Revoke(t) PROVE Dead'
  BY <1>4 DEF Revoke
<1>5. ASSUME NEW t \in Tokens, RevokeNotify(t) PROVE Dead'
  BY <1>5 DEF RevokeNotify
<1>6. CASE GarbageCollect
  BY <1>6 DEF GarbageCollect, TypeOK, RegistryTypeOK
<1>7. QED
  BY <1>1, <1>2, <1>3, <1>4, <1>5, <1>6
  DEF Next, Exit, Fork, RevokeToken, RevocationCallback, ImmuneCut, ImmuneRevoke, Authorize,
      AuditFails, AuthorizeRefused, AuthorizeGranted, EnterCgroup, BindScope, RollBack,
      SweepBegin, SweepCheck, SweepDeny, vars

(* A process starts with a start time and keeps it.                        *)
LEMMA StartedStep ==
  ASSUME TypeOK, Started, [Next]_vars
  PROVE  Started'
<1> USE DEF Started
<1>1. CASE UNCHANGED proc
  BY <1>1
<1>2. ASSUME NEW p \in Pids, Exit(p) PROVE Started'
  BY <1>2 DEF Exit, TypeOK, Proc
<1>3. ASSUME NEW p \in Pids, NEW w \in {"host", "agent"}, Fork(p, w) PROVE Started'
  <2>1. proc[p].inc \in Nat /\ proc[p].inc + 1 # 0
    BY EnforcementAssumption DEF TypeOK, Proc, Incarnations
  <2>2. QED
    BY <1>3, <2>1 DEF Fork, TypeOK, Proc
<1>4. CASE EnterCgroup
  <2>1. auth.pid \in Pids
    BY DEF TypeOK, Auth
  <2>2. QED
    BY <1>4, <2>1 DEF EnterCgroup, TypeOK, Proc
<1>5. QED
  BY <1>1, <1>2, <1>3, <1>4
  DEF Next, Quiet, Issue, Issued, TokenExpires, RevokeToken, RevocationCallback, ImmuneCut,
      ImmuneRevoke, Authorize, AuditFails, AuthorizeRefused, AuthorizeGranted, BindScope,
      RollBack, SweepBegin, SweepCheck, SweepDeny, vars

-----------------------------------------------------------------------------
(* The scopes.  A deny or a rollback takes the grant away with the scope,  *)
(* or changes nothing.                                                     *)
ScopesOK == AuthScope /\ Bound

LEMMA DenyScopes ==
  ASSUME TypeOK, ScopesOK, NEW p \in Pids, deny_pid(p) \/ withdraw_pid(p),
         \/ auth' = auth
         \/ auth' = NoAuth /\ (\A q \in Pids : Binding(q) => (q = p /\ withdraw_pid(p)))
  PROVE  ScopesOK'
<1>1. auth.pid \in Pids /\ auth'.pid \in Pids
  BY NoAuthTyped DEF TypeOK, Auth
<1>2. \/ UNCHANGED <<scope, grant>>
      \/ /\ scope' = [scope EXCEPT ![p] = Unrestricted]
         /\ grant' = [grant EXCEPT ![p] = NoGrant]
  BY DEF deny_pid, withdraw_pid, lsmVars
<1>3. withdraw_pid(p) => /\ scope' = [scope EXCEPT ![p] = Unrestricted]
                         /\ grant' = [grant EXCEPT ![p] = NoGrant]
  BY DEF withdraw_pid
<1>4. NoGrant.scope = Unrestricted /\ NoAuth.pc = "idle"
  BY DEF NoGrant, NoAuth
<1>5. AuthScope'
  BY <1>1, <1>2, <1>4 DEF ScopesOK, AuthScope, TypeOK
<1>6. Bound'
  <2>1. CASE auth' = auth
    BY <1>2, <1>4, <2>1 DEF ScopesOK, Bound, Binding, TypeOK
  <2>2. CASE auth' = NoAuth /\ (\A q \in Pids : Binding(q) => (q = p /\ withdraw_pid(p)))
    BY <1>2, <1>3, <1>4, <2>2 DEF ScopesOK, Bound, Binding, TypeOK
  <2>3. QED
    BY <2>1, <2>2
<1>7. QED
  BY <1>5, <1>6 DEF ScopesOK

LEMMA DenyAlone ==
  ASSUME TypeOK, ScopesOK, NEW p \in Pids, deny_pid(p), auth' = auth
  PROVE  ScopesOK'
<1>1. deny_pid(p) \/ withdraw_pid(p)
  OBVIOUS
<1>2. \/ auth' = auth
      \/ auth' = NoAuth /\ (\A q \in Pids : Binding(q) => (q = p /\ withdraw_pid(p)))
  OBVIOUS
<1>3. QED
  BY <1>1, <1>2, DenyScopes

LEMMA ScopesStep ==
  ASSUME TypeOK, ScopesOK, [Next]_vars
  PROVE  ScopesOK'
<1>a. /\ auth.pid \in Pids /\ auth \in Auth
      /\ NoAuth.pc = "idle" /\ NoAuth.pid \in Pids /\ NoGrant.scope = Unrestricted
  BY NoAuthTyped DEF TypeOK, Auth, NoAuth, NoGrant
<1>1. CASE UNCHANGED <<scope, grant, auth>>
  BY <1>1 DEF ScopesOK, AuthScope, Bound, Binding
<1>2. CASE UNCHANGED <<scope, grant>> /\ auth.pc \notin {"cgroup", "scope"}
           /\ auth'.pc \notin {"cgroup", "scope"}
  BY <1>2 DEF ScopesOK, AuthScope, Bound, Binding
<1>3. ASSUME NEW t \in Tokens, RevocationCallback(t) PROVE ScopesOK'
  <2>1. CASE t \in Live /\ TokenScope[t] # Global
    <3>1. TokenScope[t] \in Pids
      BY <2>1, CapabilityAssumption
    <3>2. deny_pid(TokenScope[t]) /\ auth' = auth
      BY <1>3, <2>1 DEF RevocationCallback
    <3>3. QED
      BY <3>1, <3>2, DenyAlone
  <2>2. CASE ~(t \in Live /\ TokenScope[t] # Global)
    BY <1>1, <1>3, <2>2 DEF RevocationCallback, lsmVars
  <2>3. QED
    BY <2>1, <2>2
<1>4. ASSUME NEW p \in Pids, ImmuneCut(p) \/ SweepDeny(p) PROVE ScopesOK'
  <2>1. deny_pid(p) /\ auth' = auth
    BY <1>4 DEF ImmuneCut, SweepDeny
  <2>2. QED
    BY <1>4, <2>1, DenyAlone
<1>5. ASSUME NEW p \in Pids, NEW t \in Tokens, NEW proper \in BOOLEAN, NEW s \in Scopes,
             Authorize(p, t, proper, s)
      PROVE  ScopesOK'
  <2>1. auth'.pc \in {"granted", "refused", "unknown"}
    BY <1>5, NoAuthTyped DEF Authorize, Auth
  <2>2. QED
    BY <1>2, <1>5, <2>1 DEF Authorize, lsmVars
<1>6. CASE AuditFails
  BY <1>2, <1>6, <1>a DEF AuditFails, lsmVars
<1>7. CASE AuthorizeRefused
  BY <1>7, <1>a, DenyScopes DEF AuthorizeRefused, Binding
<1>8. CASE AuthorizeGranted
  <2>1. CASE CanAllow(auth.pid)
    <3>1. /\ auth'.pc = "cgroup" /\ auth'.pid = auth.pid /\ auth'.scope = auth.scope
      BY <1>8, <1>a, <2>1 DEF AuthorizeGranted, Auth
    <3>2. /\ scope' = scope /\ grant'[auth.pid].scope = auth.scope
          /\ \A q \in Pids \ {auth.pid} : grant'[q] = grant[q]
      BY <1>8, <1>a, <2>1 DEF AuthorizeGranted, allow_pid, TypeOK
    <3>3. AuthScope'
      BY <3>1, <3>2 DEF AuthScope
    <3>4. Bound'
      BY <1>8, <3>1, <3>2 DEF AuthorizeGranted, ScopesOK, Bound, Binding
    <3>5. QED
      BY <3>3, <3>4 DEF ScopesOK
  <2>2. CASE ~CanAllow(auth.pid)
    BY <1>2, <1>8, <1>a, <2>2 DEF AuthorizeGranted, allow_pid
  <2>3. QED
    BY <2>1, <2>2
<1>9. CASE EnterCgroup
  <2>1. CASE auth.scope = Unrestricted
    <3>1. auth' = NoAuth /\ UNCHANGED <<scope, grant>> /\ auth.pc = "cgroup"
      BY <1>9, <2>1 DEF EnterCgroup, lsmVars
    <3>2. grant[auth.pid].scope = Unrestricted
      BY <2>1, <3>1 DEF ScopesOK, AuthScope
    <3>3. QED
      BY <1>a, <3>1, <3>2 DEF ScopesOK, AuthScope, Bound, Binding
  <2>2. CASE auth.scope # Unrestricted
    <3>1. /\ UNCHANGED <<scope, grant>> /\ auth.pc = "cgroup"
          /\ auth'.pc = "scope" /\ auth'.pid = auth.pid /\ auth'.scope = auth.scope
      BY <1>9, <1>a, <2>2 DEF EnterCgroup, lsmVars, Auth
    <3>2. QED
      BY <3>1 DEF ScopesOK, AuthScope, Bound, Binding
  <2>3. QED
    BY <2>1, <2>2
<1>10. CASE BindScope
  <2>1. /\ auth' = NoAuth /\ UNCHANGED grant /\ auth.pc = "scope"
        /\ scope'[auth.pid] = auth.scope /\ \A q \in Pids \ {auth.pid} : scope'[q] = scope[q]
    BY <1>10, <1>a DEF BindScope, TypeOK
  <2>2. QED
    BY <1>a, <2>1 DEF ScopesOK, AuthScope, Bound, Binding
<1>11. CASE RollBack
  BY <1>11, <1>a, DenyScopes DEF RollBack, Binding
<1>12. QED
  BY <1>1, <1>3, <1>4, <1>5, <1>6, <1>7, <1>8, <1>9, <1>10, <1>11
  DEF Next, Exit, Fork, Quiet, Issue, Issued, TokenExpires, RevokeToken, ImmuneRevoke,
      SweepBegin, SweepCheck, lsmVars, vars

-----------------------------------------------------------------------------
LEMMA Inductive == Spec => []IInv
<1>1. Init => IInv
  <2> SUFFICES ASSUME Init PROVE IInv
    OBVIOUS
  <2>1. NoAuth.pc = "idle" /\ NoGrant.scope = Unrestricted
    BY DEF NoAuth, NoGrant
  <2>2. QED
    BY <2>1, InitTyped DEF Init, RegistryInit, IInv, Dead, Started, AuthScope, Bound
<1>2. IInv /\ [Next]_vars => IInv'
  BY StepTyped, DeadStep, StartedStep, ScopesStep DEF IInv, ScopesOK
<1>3. QED
  BY <1>1, <1>2, PTL DEF Spec

(* A registered token that has been revoked is never usable again, for     *)
(* every set of tokens and every order of revocations and collections.     *)
THEOREM RevocationIsFinal == Spec => []RevokedStaysDead
<1>1. IInv => RevokedStaysDead
  BY DEF IInv, Dead, RevokedStaysDead, Valid
<1>2. QED
  BY <1>1, Inductive, PTL

(* Once a scoped authorization has returned, its process passes for the    *)
(* classes of its scope only, for every set of pids, tokens and classes.   *)
THEOREM ScopeHolds == Spec => []ScopeIsBound
<1>1. IInv => ScopeIsBound
  <2> SUFFICES ASSUME IInv, NEW p \in Pids, NEW c \in Classes, Passes(p, c),
                      grant[p].scope # Unrestricted, ~Binding(p)
               PROVE  c \in grant[p].scope
    BY DEF ScopeIsBound, Binding
  <2>1. scope[p] = grant[p].scope
    BY DEF IInv, Bound
  <2>2. scope[p] = Unrestricted \/ c \in scope[p]
    BY DEF Passes, lsm_gate
  <2>3. QED
    BY <2>1, <2>2
<1>2. QED
  BY <1>1, Inductive, PTL

-----------------------------------------------------------------------------
(* With room in blocked_pids every deny takes effect.                      *)
LEMMA DenyGrants ==
  ASSUME TypeOK, Roomy, NEW p \in Pids, deny_pid(p)
  PROVE  grant' = [grant EXCEPT ![p] = NoGrant]
<1>1. CASE p \in blocked
  BY <1>1 DEF deny_pid, BlockedHasRoom
<1>2. CASE p \notin blocked
  <2>1. blocked \subseteq Pids \ {p} /\ IsFiniteSet(Pids \ {p})
    BY <1>2, FS_RemoveElement DEF TypeOK, Roomy
  <2>2. Cardinality(blocked) <= Cardinality(Pids \ {p})
    BY <2>1, FS_Subset
  <2>3. Cardinality(Pids \ {p}) = Cardinality(Pids) - 1 /\ Cardinality(Pids) \in Nat
    BY FS_RemoveElement, FS_CardinalityType DEF Roomy
  <2>4. Cardinality(blocked) \in Nat
    BY <2>1, FS_Subset, FS_CardinalityType
  <2>5. MapCapacity \in Nat
    BY EnforcementAssumption
  <2>6. BlockedHasRoom(p)
    BY <2>2, <2>3, <2>4, <2>5 DEF BlockedHasRoom, Roomy
  <2>7. QED
    BY <2>6 DEF deny_pid
<1>3. QED
  BY <1>1, <1>2

GrantsOK == AuthTokens /\ Followed

(* A grant goes or stays, and no call back ends: nothing to show.          *)
LEMMA GrantsKept ==
  ASSUME TypeOK, GrantsOK, AuthTokens',
         \A p \in Pids : grant'[p] = grant[p] \/ grant'[p] = NoGrant,
         \A t \in cut' : (t \in cut /\ (t \in revoking => t \in revoking')) \/ t \in revoking'
  PROVE  GrantsOK'
<1>1. NoGrant.tok = {}
  BY DEF NoGrant
<1>2. QED
  BY <1>1 DEF GrantsOK, Followed

LEMMA GrantsStep ==
  ASSUME TypeOK, Dead, GrantsOK, Roomy, ProcessScope, [Next]_vars
  PROVE  GrantsOK'
<1>a. auth \in Auth /\ auth.pid \in Pids /\ NoAuth.tok = {}
  BY DEF TypeOK, Auth, NoAuth
<1>b. ASSUME UNCHANGED auth \/ auth'.tok = {} PROVE AuthTokens'
  BY <1>b DEF GrantsOK, AuthTokens
<1>c. ASSUME NEW p \in Pids, deny_pid(p) \/ withdraw_pid(p)
      PROVE  \A q \in Pids : grant'[q] = grant[q] \/ grant'[q] = NoGrant
  <2>1. CASE deny_pid(p)
    BY <2>1, DenyGrants DEF TypeOK
  <2>2. CASE withdraw_pid(p)
    BY <2>2 DEF withdraw_pid, TypeOK
  <2>3. QED
    BY <1>c, <2>1, <2>2
<1>1. CASE UNCHANGED <<cut, revoking, grant, auth>>
  BY <1>1, <1>b, GrantsKept
<1>2. ASSUME NEW t \in Tokens, RevokeToken(t) \/ ImmuneRevoke(t) PROVE GrantsOK'
  <2>1. /\ UNCHANGED <<grant, auth>> /\ cut' \subseteq cut \cup {t}
        /\ revoking' = revoking \cup {t}
    BY <1>2 DEF RevokeToken, ImmuneRevoke, Revoke, Quiet, lsmVars
  <2>2. QED
    BY <2>1, <1>b, GrantsKept
<1>3. ASSUME NEW t \in Tokens, RevocationCallback(t) PROVE GrantsOK'
  <2>1. UNCHANGED <<auth, cut>> /\ revoking' = revoking \ {t} /\ TokenScope[t] \in Pids
    BY <1>3, CapabilityAssumption DEF RevocationCallback, RevokeNotify, ProcessScope
  <2>2. CASE t \in Live
    <3>1. deny_pid(TokenScope[t])
      BY <1>3, <2>2 DEF RevocationCallback, ProcessScope
    <3>2. grant' = [grant EXCEPT ![TokenScope[t]] = NoGrant]
      BY <2>1, <3>1, DenyGrants
    <3>3. ASSUME NEW p \in Pids, NEW u \in grant'[p].tok
          PROVE  TokenScope[u] \in {p, Global} /\ (u \in cut' => u \in revoking')
      <4>1. p # TokenScope[t] /\ grant'[p] = grant[p]
        BY <2>1, <3>2, <3>3 DEF TypeOK, NoGrant
      <4>2. u \in grant[p].tok /\ TokenScope[u] = p
        BY <3>3, <4>1 DEF GrantsOK, Followed, ProcessScope, TypeOK, Grant
      <4>3. u # t
        BY <4>1, <4>2
      <4>4. QED
        BY <2>1, <4>2, <4>3 DEF GrantsOK, Followed
    <3>4. QED
      BY <2>1, <1>b, <3>3 DEF GrantsOK, Followed
  <2>3. CASE t \notin Live
    <3>1. UNCHANGED grant /\ t \notin cut
      BY <1>3, <2>3 DEF RevocationCallback, lsmVars, Dead
    <3>2. QED
      BY <2>1, <3>1, <1>b, GrantsKept
  <2>4. QED
    BY <2>2, <2>3
<1>4. ASSUME NEW p \in Pids, ImmuneCut(p) \/ SweepDeny(p) PROVE GrantsOK'
  <2>1. deny_pid(p) /\ UNCHANGED <<cut, revoking, auth>>
    BY <1>4 DEF ImmuneCut, SweepDeny, registryVars
  <2>2. QED
    BY <2>1, <1>b, <1>c, GrantsKept
<1>5. ASSUME NEW p \in Pids, NEW t \in Tokens, NEW proper \in BOOLEAN, NEW s \in Scopes,
             Authorize(p, t, proper, s)
      PROVE  GrantsOK'
  <2>1. UNCHANGED <<cut, revoking, grant>>
    BY <1>5 DEF Authorize, registryVars, lsmVars
  <2>2. AuthTokens'
    <3>1. CASE Validates(t, p, proper)
      BY <1>5, <3>1 DEF Authorize, Validates, AuthTokens
    <3>2. CASE ~Validates(t, p, proper)
      <4>1. auth'.tok = {}
        BY <1>5, <3>2 DEF Authorize, NoAuth
      <4>2. QED
        BY <4>1 DEF AuthTokens
    <3>3. QED
      BY <3>1, <3>2
  <2>3. QED
    BY <2>1, <2>2, GrantsKept
<1>6. CASE AuditFails
  BY <1>6, <1>a, <1>b, GrantsKept DEF AuditFails, registryVars, lsmVars
<1>7. CASE AuthorizeRefused
  <2>1. deny_pid(auth.pid) /\ UNCHANGED <<cut, revoking>> /\ auth' = NoAuth
    BY <1>7 DEF AuthorizeRefused, registryVars
  <2>2. \A q \in Pids : grant'[q] = grant[q] \/ grant'[q] = NoGrant
    BY <2>1, <1>a, <1>c
  <2>3. QED
    BY <2>1, <2>2, <1>a, <1>b, GrantsKept
<1>8. CASE AuthorizeGranted
  <2> DEFINE by == [tok |-> {t \in auth.tok : Valid(t)}, scope |-> auth.scope]
  <2>1. UNCHANGED <<cut, revoking>> /\ auth'.tok = {}
    BY <1>8, <1>a DEF AuthorizeGranted, registryVars, Auth
  <2>2. AuthTokens'
    BY <2>1, <1>b
  <2>3. grant' = [grant EXCEPT ![auth.pid] = by] \/ grant' = grant
    BY <1>8 DEF AuthorizeGranted, allow_pid
  <2>4. \A t \in by.tok : TokenScope[t] \in {auth.pid, Global} /\ t \notin cut
    BY DEF GrantsOK, AuthTokens, Valid, Dead
  <2> HIDE DEF by
  <2>5. ASSUME NEW p \in Pids, NEW t \in grant'[p].tok
        PROVE  TokenScope[t] \in {p, Global} /\ (t \in cut' => t \in revoking')
    <3>1. CASE grant'[p] = grant[p]
      BY <2>1, <2>5, <3>1 DEF GrantsOK, Followed
    <3>2. CASE p = auth.pid /\ grant'[p] = by
      BY <2>1, <2>4, <2>5, <3>2
    <3>3. QED
      BY <2>3, <3>1, <3>2 DEF TypeOK
  <2>6. QED
    BY <2>2, <2>5 DEF GrantsOK, Followed
<1>9. CASE EnterCgroup
  <2>1. UNCHANGED <<cut, revoking, grant>>
    BY <1>9 DEF EnterCgroup, registryVars, lsmVars
  <2>2. AuthTokens'
    <3>1. auth' = NoAuth \/ auth' = [auth EXCEPT !.pc = "scope"]
      BY <1>9 DEF EnterCgroup
    <3>2. auth'.tok \subseteq {} \/ (auth'.tok = auth.tok /\ auth'.pid = auth.pid)
      BY <3>1, <1>a DEF Auth, NoAuth
    <3>3. QED
      BY <2>1, <3>2 DEF GrantsOK, AuthTokens
  <2>3. QED
    BY <2>1, <2>2, GrantsKept
<1>10. CASE BindScope
  BY <1>10, <1>a, <1>b, GrantsKept DEF BindScope, registryVars
<1>11. CASE RollBack
  <2>1. withdraw_pid(auth.pid) /\ UNCHANGED <<cut, revoking>> /\ auth' = NoAuth
    BY <1>11 DEF RollBack, registryVars
  <2>2. \A q \in Pids : grant'[q] = grant[q] \/ grant'[q] = NoGrant
    BY <2>1, <1>a, <1>c
  <2>3. QED
    BY <2>1, <2>2, <1>a, <1>b, GrantsKept
<1>12. CASE SweepBegin
  <2>1. UNCHANGED <<revoking, grant, auth>> /\ cut' \subseteq cut
    BY <1>12 DEF SweepBegin, GarbageCollect, lsmVars
  <2>2. QED
    BY <2>1, <1>b, GrantsKept
<1>13. QED
  BY <1>1, <1>2, <1>3, <1>4, <1>5, <1>6, <1>7, <1>8, <1>9, <1>10, <1>11, <1>12
  DEF Next, Exit, Fork, Quiet, Issue, Issued, IssueBegin, IssueEnd, TokenExpires, Expire,
      SweepCheck, registryVars, lsmVars, vars

(* With room in the map of quarantined pids and no Global token, no        *)
(* process passes on the grant of a token whose revocation has returned:   *)
(* for every set of tokens, pids and classes, and without either           *)
(* assumption it is false.                                                 *)
THEOREM HooksFollowRegistry ==
  Roomy /\ ProcessScope /\ Spec => []GateFollowsRegistry
<1> SUFFICES ASSUME Roomy, ProcessScope PROVE Spec => []GateFollowsRegistry
  OBVIOUS
<1>1. Init => IInv /\ GrantsOK
  <2> SUFFICES ASSUME Init PROVE IInv /\ GrantsOK
    OBVIOUS
  <2>1. NoAuth.pc = "idle" /\ NoAuth.tok = {} /\ NoGrant.scope = Unrestricted /\ NoGrant.tok = {}
    BY DEF NoAuth, NoGrant
  <2>2. QED
    BY <2>1, InitTyped
    DEF Init, RegistryInit, IInv, Dead, Started, AuthScope, Bound, GrantsOK, AuthTokens, Followed
<1>2. IInv /\ GrantsOK /\ [Next]_vars => IInv' /\ GrantsOK'
  BY StepTyped, DeadStep, StartedStep, ScopesStep, GrantsStep DEF IInv, ScopesOK
<1>3. IInv /\ GrantsOK => GateFollowsRegistry
  BY DEF GrantsOK, Followed, GateFollowsRegistry
<1>4. QED
  BY <1>1, <1>2, <1>3, PTL DEF Spec

-----------------------------------------------------------------------------
(* Induction over the numbers, for sets: the library's takes an operator.  *)
LEMMA NatInductionSet ==
  ASSUME NEW S \in SUBSET Nat, 0 \in S, \A n \in S : n + 1 \in S
  PROVE  S = Nat
<1>1. SUFFICES ASSUME Nat \ S # {} PROVE FALSE
  OBVIOUS
<1>2. PICK x \in Nat \ S : \A y \in Nat \ S : ~ (<<y, x>> \in OpToRel(<, Nat))
  <2>1. Nat \ S \subseteq Nat
    OBVIOUS
  <2>2. QED
    BY <1>1, <2>1, NatLessThanWellFounded, WFMin
<1>3. x - 1 \in Nat /\ x - 1 < x
  OBVIOUS
<1>4. <<x - 1, x>> \in OpToRel(<, Nat)
  BY <1>3 DEF OpToRel
<1>5. x - 1 \in S
  BY <1>2, <1>3, <1>4
<1>6. QED
  BY <1>5, <1>3

(* A set of numbers has a least one, and a bounded one a greatest.         *)
LEMMA Least ==
  ASSUME NEW T \in SUBSET Nat, T # {}
  PROVE  \E x \in T : \A y \in T : x <= y
<1>1. PICK x \in T : \A y \in T : ~ (<<y, x>> \in OpToRel(<, Nat))
  BY NatLessThanWellFounded, WFMin
<1>2. \A y \in T : ~ (y < x)
  BY <1>1 DEF OpToRel
<1>3. QED
  BY <1>2

LEMMA Greatest ==
  ASSUME NEW n \in Nat, NEW T \in SUBSET (1 .. n), T # {}
  PROVE  \E x \in T : \A y \in T : y <= x
<1> DEFINE D == {m \in Nat : n - m \in T}
<1>1. D # {} /\ D \in SUBSET Nat
  <2>1. PICK x \in T : TRUE
    OBVIOUS
  <2>2. n - x \in Nat /\ n - (n - x) = x
    OBVIOUS
  <2>3. n - x \in D
    BY <2>1, <2>2
  <2>4. QED
    BY <2>3
<1> HIDE DEF D
<1>2. PICK m \in D : \A k \in D : m <= k
  BY <1>1, Least
<1>3. m \in Nat /\ n - m \in T
  BY <1>2 DEF D
<1>4. ASSUME NEW y \in T PROVE y <= n - m
  <2>1. n - y \in Nat /\ n - (n - y) = y
    OBVIOUS
  <2>2. n - y \in D
    BY <1>4, <2>1 DEF D
  <2>3. m <= n - y
    BY <1>2, <2>2
  <2>4. QED
    BY <1>3, <2>1, <2>3
<1>5. QED
  BY <1>3, <1>4

-----------------------------------------------------------------------------
(* Compiling: a path that is taken is one declared without its last        *)
(* slashes; it has no NUL, is not empty and has room for one.              *)
Clean(path) == path \in Seq(STRING) /\ \A i \in DOMAIN path : path[i] # NUL
Prefix(path) == Clean(path) /\ Len(path) \in 1 .. PATH_PREFIX_MAX - 1

(* The first n elements of a sequence.                                     *)
LEMMA Prefixed ==
  ASSUME NEW S, NEW s \in Seq(S), NEW n \in 0 .. Len(s)
  PROVE  /\ SubSeq(s, 1, n) \in Seq(S) /\ Len(SubSeq(s, 1, n)) = n
         /\ \A i \in 1 .. n : SubSeq(s, 1, n)[i] = s[i]
<1>1. n \in Nat /\ Len(s) \in Nat /\ n <= Len(s)
  OBVIOUS
<1>2. CASE n = 0
  BY <1>1, <1>2
<1>3. CASE n # 0
  BY <1>1, <1>3
<1>4. QED
  BY <1>2, <1>3

(* Cutting the last slashes off brings no NUL in.                          *)
LEMMA TrimmedIsClean ==
  ASSUME NEW path, Clean(path)
  PROVE  Clean(TrimEnd(path))
<1> DEFINE kept == {i \in DOMAIN path : path[i] # "/"}
<1>1. PICK n \in Nat : n = Len(path)
  BY DEF Clean
<1>2. CASE kept = {}
  BY <1>2 DEF TrimEnd, Clean
<1>3. CASE kept # {}
  <2>1. kept \in SUBSET (1 .. n)
    BY <1>1 DEF Clean
  <2>2. PICK m : m = CHOOSE i \in kept : \A j \in kept : j <= i
    OBVIOUS
  <2>3. TrimEnd(path) = SubSeq(path, 1, m)
    BY <1>3, <2>2 DEF TrimEnd
  <2> HIDE DEF kept
  <2>4. m \in kept
    BY <1>3, <2>1, <2>2, Greatest
  <2>5. m \in 0 .. Len(path)
    BY <1>1, <2>1, <2>4
  <2>6. PICK t : t = SubSeq(path, 1, m)
    OBVIOUS
  <2>7. t \in Seq(STRING) /\ Len(t) = m /\ \A i \in 1 .. m : t[i] = path[i]
    BY <2>5, <2>6, Prefixed DEF Clean
  <2>8. \A i \in 1 .. m : i \in DOMAIN path
    BY <1>1, <2>1, <2>4 DEF Clean
  <2>9. QED
    BY <2>3, <2>6, <2>7, <2>8 DEF Clean
<1>4. QED
  BY <1>2, <1>3

(* What validate_scope_path lets through fits a slot, with a NUL after it. *)
LEMMA ScopePathIsPrefix ==
  ASSUME NEW path \in Seq(STRING), validate_scope_path(path)
  PROVE  Prefix(TrimEnd(path))
<1>1. Clean(path)
  BY DEF validate_scope_path, Clean, ToSet
<1>2. Clean(TrimEnd(path))
  BY <1>1, TrimmedIsClean
<1>3. TrimEnd(path) # <<>> /\ Len(TrimEnd(path)) < PATH_PREFIX_MAX
  BY DEF validate_scope_path
<1>4. PICK t : t = TrimEnd(path)
  OBVIOUS
<1>5. t \in Seq(STRING) /\ t # <<>> /\ Len(t) < PATH_PREFIX_MAX /\ PATH_PREFIX_MAX \in Nat
  BY <1>2, <1>3, <1>4, ScopeAssumption DEF Clean
<1>6. Len(t) \in 1 .. PATH_PREFIX_MAX - 1
  BY <1>5
<1>7. QED
  BY <1>2, <1>4, <1>6 DEF Prefix

(* The recursive function of Validated is one.                             *)
LEMMA TakenExists ==
  ASSUME NEW n \in Nat, NEW lines
  PROVE  \E taken : taken = [i \in 0 .. n |->
           IF i = 0 THEN <<>>
           ELSE IF lines[i] = <<>> \/ TrimEnd(lines[i]) \in ToSet(taken[i - 1]) THEN taken[i - 1]
           ELSE Append(taken[i - 1], TrimEnd(lines[i]))]
<1> DEFINE Step(taken, i) == IF lines[i] = <<>> \/ TrimEnd(lines[i]) \in ToSet(taken[i - 1])
                             THEN taken[i - 1] ELSE Append(taken[i - 1], TrimEnd(lines[i]))
           N == {m \in Nat : \E taken : taken = [i \in 0 .. m |-> IF i = 0 THEN <<>> ELSE Step(taken, i)]}
<1>1. 0 \in N
  <2>1. PICK taken : taken = [i \in 0 .. 0 |-> <<>>]
    OBVIOUS
  <2>2. taken = [i \in 0 .. 0 |-> IF i = 0 THEN <<>> ELSE Step(taken, i)]
    BY <2>1
  <2> HIDE DEF Step
  <2>3. QED
    BY <2>2
<1>2. ASSUME NEW m \in N PROVE m + 1 \in N
  <2> HIDE DEF Step
  <2>1. PICK taken : taken = [i \in 0 .. m |-> IF i = 0 THEN <<>> ELSE Step(taken, i)]
    OBVIOUS
  <2>2. PICK more : more = [i \in 0 .. m + 1 |-> IF i = m + 1 THEN Step(taken, i) ELSE taken[i]]
    OBVIOUS
  <2>3. m \in Nat
    OBVIOUS
  <2>4. \A i \in 0 .. m : more[i] = taken[i]
    BY <2>2, <2>3
  <2>5. ASSUME NEW i \in 0 .. m + 1 PROVE more[i] = IF i = 0 THEN <<>> ELSE Step(more, i)
    <3>1. CASE i = 0
      BY <2>1, <2>3, <2>4, <3>1
    <3>2. CASE i # 0
      <4>1. i - 1 \in 0 .. m /\ more[i - 1] = taken[i - 1]
        BY <2>3, <2>4, <3>2
      <4>2. Step(more, i) = Step(taken, i)
        BY <4>1 DEF Step
      <4>3. CASE i = m + 1
        BY <2>2, <3>2, <4>2, <4>3
      <4>4. CASE i # m + 1
        <5>1. i \in 0 .. m
          BY <2>3, <4>4
        <5>2. taken[i] = Step(taken, i)
          BY <2>1, <3>2, <5>1
        <5>3. QED
          BY <2>4, <3>2, <4>2, <5>1, <5>2
      <4>5. QED
        BY <4>3, <4>4
    <3>3. QED
      BY <3>1, <3>2
  <2>6. more = [i \in 0 .. m + 1 |-> IF i = 0 THEN <<>> ELSE Step(more, i)]
    BY <2>2, <2>5
  <2>7. PICK next : next = m + 1
    OBVIOUS
  <2>8. next \in Nat
    BY <2>3, <2>7
  <2>9. next \in N
    BY <2>6, <2>7, <2>8
  <2>10. QED
    BY <2>7, <2>9
<1>3. N = Nat
  <2>1. N \in SUBSET Nat
    OBVIOUS
  <2> HIDE DEF N
  <2>2. QED
    BY <1>1, <1>2, <2>1, NatInductionSet
<1>4. QED
  BY <1>3

ScopePrefixes == {p \in Seq(STRING) : Prefix(p)}

(* What a sequence holds after an append.                                  *)
LEMMA AppendHas ==
  ASSUME NEW S, NEW s \in Seq(S), NEW e \in S
  PROVE  Append(s, e) \in Seq(S) /\ ToSet(Append(s, e)) = ToSet(s) \cup {e}
<1>1. PICK t, n : t = Append(s, e) /\ n = Len(s) /\ n \in Nat
  <2>1. Len(s) \in Nat
    OBVIOUS
  <2>2. QED
    BY <2>1
<1>2. /\ t \in Seq(S) /\ DOMAIN s = 1 .. n /\ DOMAIN t = 1 .. n + 1
      /\ t[n + 1] = e /\ \A i \in 1 .. n : t[i] = s[i]
  BY <1>1
<1>3. ASSUME NEW x \in ToSet(t) PROVE x \in ToSet(s) \cup {e}
  <2>1. PICK i \in 1 .. n + 1 : x = t[i]
    BY <1>2, <1>3 DEF ToSet
  <2>2. CASE i = n + 1
    BY <1>2, <2>1, <2>2
  <2>3. CASE i # n + 1
    <3>1. i \in 1 .. n
      BY <1>1, <2>1, <2>3
    <3>2. QED
      BY <1>2, <2>1, <3>1 DEF ToSet
  <2>4. QED
    BY <2>2, <2>3
<1>4. ASSUME NEW x \in ToSet(s) PROVE x \in ToSet(t)
  <2>1. PICK i \in 1 .. n : x = s[i]
    BY <1>2, <1>4 DEF ToSet
  <2>2. i \in 1 .. n + 1 /\ x = t[i]
    BY <1>1, <1>2, <2>1
  <2>3. QED
    BY <1>2, <2>2 DEF ToSet
<1>5. e \in ToSet(t)
  <2>1. n + 1 \in 1 .. n + 1
    BY <1>1
  <2>2. QED
    BY <1>2, <2>1 DEF ToSet
<1>6. QED
  BY <1>1, <1>2, <1>3, <1>4, <1>5

(* Each path that an intent declares is taken, and no other.               *)
LEMMA ValidatedTakes ==
  ASSUME NEW lines \in Seq(Seq(STRING)),
         \A i \in DOMAIN lines : lines[i] # <<>> => validate_scope_path(lines[i])
  PROVE  /\ Validated(lines) \in Seq(ScopePrefixes)
         /\ ToSet(Validated(lines)) = {TrimEnd(lines[i]) : i \in {k \in DOMAIN lines : lines[k] # <<>>}}
<1>1. PICK n \in Nat : n = Len(lines)
  OBVIOUS
<1> DEFINE Def(taken) == [i \in 0 .. n |->
             IF i = 0 THEN <<>>
             ELSE IF lines[i] = <<>> \/ TrimEnd(lines[i]) \in ToSet(taken[i - 1]) THEN taken[i - 1]
             ELSE Append(taken[i - 1], TrimEnd(lines[i]))]
           Upto(m) == {TrimEnd(lines[i]) : i \in {k \in 1 .. m : lines[k] # <<>>}}
<1>2. PICK taken : taken = CHOOSE f : f = Def(f)
  OBVIOUS
<1>3. taken = Def(taken)
  BY <1>2, TakenExists
<1>4. Validated(lines) = taken[n]
  BY <1>1, <1>2 DEF Validated
<1>5. \A i \in 0 .. n : taken[i] =
        IF i = 0 THEN <<>>
        ELSE IF lines[i] = <<>> \/ TrimEnd(lines[i]) \in ToSet(taken[i - 1]) THEN taken[i - 1]
        ELSE Append(taken[i - 1], TrimEnd(lines[i]))
  <2>1. PICK d : d = Def(taken)
    OBVIOUS
  <2>2. \A i \in 0 .. n : d[i] =
          IF i = 0 THEN <<>>
          ELSE IF lines[i] = <<>> \/ TrimEnd(lines[i]) \in ToSet(taken[i - 1]) THEN taken[i - 1]
          ELSE Append(taken[i - 1], TrimEnd(lines[i]))
    BY <2>1
  <2> HIDE DEF Def
  <2>3. taken = d
    BY <1>3, <2>1
  <2>4. QED
    BY <2>2, <2>3
<1> HIDE DEF Def
<1> DEFINE N == {m \in Nat : m <= n => taken[m] \in Seq(ScopePrefixes) /\ ToSet(taken[m]) = Upto(m)}
<1>6. 0 \in N
  <2>1. 0 \in 0 .. n /\ <<>> \in Seq(ScopePrefixes)
    BY <1>1
  <2>2. taken[0] = <<>>
    BY <1>5, <2>1
  <2>3. ToSet(<<>>) = {}
    BY DEF ToSet
  <2>4. Upto(0) = {}
    OBVIOUS
  <2> HIDE DEF Upto
  <2>5. QED
    BY <2>1, <2>2, <2>3, <2>4
<1>7. ASSUME NEW m \in N PROVE m + 1 \in N
  <2>1. PICK j : j = m + 1
    OBVIOUS
  <2>2. SUFFICES ASSUME j <= n PROVE taken[j] \in Seq(ScopePrefixes) /\ ToSet(taken[j]) = Upto(j)
    <3> HIDE DEF Upto
    <3>1. QED
      BY <2>1
  <2>3. /\ m \in Nat /\ j \in 1 .. n /\ j # 0 /\ j - 1 = m /\ m <= n
        /\ j \in 0 .. n /\ 1 .. j = (1 .. m) \cup {j}
    BY <2>1, <2>2
  <2>4. taken[m] \in Seq(ScopePrefixes) /\ ToSet(taken[m]) = Upto(m)
    <3> HIDE DEF Upto
    <3>1. QED
      BY <2>3
  <2>5. PICK p : p = TrimEnd(lines[j])
    OBVIOUS
  <2>6. j \in DOMAIN lines /\ lines[j] \in Seq(STRING)
    BY <1>1, <2>3
  <2>7. taken[j] = IF lines[j] = <<>> \/ p \in ToSet(taken[m]) THEN taken[m] ELSE Append(taken[m], p)
    BY <1>5, <2>3, <2>5
  <2>8. Upto(j) = IF lines[j] = <<>> THEN Upto(m) ELSE Upto(m) \cup {p}
    <3>1. CASE lines[j] = <<>>
      <4>1. {k \in 1 .. j : lines[k] # <<>>} = {k \in 1 .. m : lines[k] # <<>>}
        BY <2>3, <3>1
      <4>2. QED
        BY <3>1, <4>1
    <3>2. CASE lines[j] # <<>>
      <4>1. {k \in 1 .. j : lines[k] # <<>>} = {k \in 1 .. m : lines[k] # <<>>} \cup {j}
        BY <2>3, <3>2
      <4>2. QED
        BY <2>5, <3>2, <4>1
    <3>3. QED
      BY <3>1, <3>2
  <2> HIDE DEF Upto
  <2>9. CASE lines[j] = <<>> \/ p \in ToSet(taken[m])
    BY <2>4, <2>7, <2>8, <2>9
  <2>10. CASE ~ (lines[j] = <<>> \/ p \in ToSet(taken[m]))
    <3>1. p \in ScopePrefixes
      BY <2>5, <2>6, <2>10, ScopePathIsPrefix DEF ScopePrefixes, Prefix, Clean
    <3>2. PICK t : t = taken[m] /\ t \in Seq(ScopePrefixes)
      BY <2>4
    <3>3. Append(t, p) \in Seq(ScopePrefixes) /\ ToSet(Append(t, p)) = ToSet(t) \cup {p}
      BY <3>1, <3>2, AppendHas
    <3>4. QED
      BY <2>4, <2>7, <2>8, <2>10, <3>2, <3>3
  <2>11. QED
    BY <2>9, <2>10
<1>8. N = Nat
  <2>1. N \in SUBSET Nat
    OBVIOUS
  <2> HIDE DEF N
  <2>2. QED
    BY <1>6, <1>7, <2>1, NatInductionSet
<1>9. taken[n] \in Seq(ScopePrefixes) /\ ToSet(taken[n]) = Upto(n)
  <2> HIDE DEF Upto
  <2>1. n \in N
    BY <1>8
  <2>2. QED
    BY <2>1
<1>10. DOMAIN lines = 1 .. n
  BY <1>1
<1>11. QED
  BY <1>4, <1>9, <1>10

-----------------------------------------------------------------------------
(* Slots and chunks: a place of the buffer is one place of one of them.    *)
LEMMA Divides ==
  ASSUME NEW x \in Nat, NEW m \in Nat \ {0}
  PROVE  \E q \in Nat, r \in 0 .. m - 1 : q = x \div m /\ r = x % m /\ x = m * q + r
<1>1. x \div m \in Nat /\ x % m \in 0 .. m - 1
  OBVIOUS
<1>2. PICK q, r : q = x \div m /\ r = x % m
  OBVIOUS
<1>3. r = x - m * (x \div m)
  BY <1>2
<1>4. q \in Nat /\ r \in Nat /\ r = x - m * q
  BY <1>1, <1>2, <1>3
<1>5. x = m * q + r
  BY <1>4
<1>6. q \in Nat /\ r \in 0 .. m - 1
  BY <1>1, <1>2
<1>7. QED
  BY <1>2, <1>5, <1>6

(* There is one quotient and one remainder.                                *)
LEMMA DividesOnce ==
  ASSUME NEW m \in Nat \ {0}, NEW a \in Nat, NEW b \in Nat, NEW r \in 0 .. m - 1, NEW s \in 0 .. m - 1,
         m * a + r = m * b + s
  PROVE  a = b /\ r = s
<1>1. ASSUME NEW x \in Nat, NEW y \in Nat, NEW i \in 0 .. m - 1, NEW j \in 0 .. m - 1, m * x + i = m * y + j
      PROVE  ~ (x < y)
  <2>1. SUFFICES ASSUME x < y PROVE FALSE
    OBVIOUS
  <2>2. PICK d \in Nat : y = x + 1 + d
    <3>1. y - x - 1 \in Nat /\ y = x + 1 + (y - x - 1)
      BY <2>1
    <3>2. QED
      BY <3>1
  <2>3. m * y = m * x + m + m * d
    BY <2>2
  <2>4. m * d \in Nat /\ m * x \in Nat
    BY <2>2
  <2>5. QED
    BY <1>1, <2>3, <2>4
<1>2. a = b
  BY <1>1
<1>3. m * a \in Nat
  OBVIOUS
<1>4. QED
  BY <1>2, <1>3

(* The k-th piece of m elements.                                           *)
LEMMA Piece ==
  ASSUME NEW S, NEW s \in Seq(S), NEW m \in Nat \ {0}, NEW k \in Nat \ {0}, k * m <= Len(s),
         NEW t, t = SubSeq(s, (k - 1) * m + 1, k * m)
  PROVE  t \in Seq(S) /\ Len(t) = m /\ \A i \in 1 .. m : t[i] = s[m * (k - 1) + i]
<1>1. PICK b \in Nat : b = m * (k - 1)
  <2>1. m * (k - 1) \in Nat
    BY SMTT(30)
  <2>2. QED
    BY <2>1
<1>2. (k - 1) * m = b /\ k * m = b + m
  BY <1>1
<1>3. PICK n \in Nat : n = Len(s)
  OBVIOUS
<1>4. t = SubSeq(s, b + 1, b + m)
  <2>1. PICK x, y : x = (k - 1) * m /\ y = k * m
    OBVIOUS
  <2>2. QED
    BY <1>2, <2>1
<1>5. b + m <= n
  BY <1>2, <1>3
<1>6. t \in Seq(S) /\ Len(t) = m /\ \A i \in 1 .. m : t[i] = s[b + i]
  <2>1. \A i \in b + 1 .. b + m : i \in 1 .. n
    BY <1>5
  <2>2. \A i \in b + 1 .. b + m : s[i] \in S
    BY <1>3, <2>1
  <2>3. t = [i \in 1 .. m |-> s[b + i]]
    BY <1>3, <1>4, <1>5
  <2>4. \A i \in 1 .. m : b + i \in 1 .. n /\ s[b + i] \in S
    BY <1>3, <1>5
  <2>5. t \in [1 .. m -> S]
    BY <2>3, <2>4
  <2>6. t \in Seq(S) /\ Len(t) = m
    BY <2>5
  <2>7. \A i \in 1 .. m : t[i] = s[b + i]
    BY <2>3
  <2>8. QED
    BY <2>6, <2>7
<1>7. QED
  BY <1>1, <1>2, <1>4, <1>6

(* What a slot holds.                                                      *)
Bytes == STRING \cup {NUL}
ByteAt(v, j, i) == IF j <= Len(v) /\ i <= Len(v[j]) THEN v[j][i] ELSE NUL

LEMMA ByteIsString ==
  ASSUME NEW v \in Seq(ScopePrefixes), NEW j \in Nat \ {0}, NEW i \in Nat \ {0}
  PROVE  ByteAt(v, j, i) \in Bytes
<1>1. CASE j <= Len(v) /\ i <= Len(v[j])
  <2>1. j \in DOMAIN v /\ v[j] \in ScopePrefixes
    BY <1>1
  <2>2. PICK p \in Seq(STRING) : p = v[j]
    BY <2>1 DEF ScopePrefixes
  <2>3. i \in DOMAIN p /\ p[i] \in STRING
    BY <1>1, <2>2
  <2>4. QED
    BY <1>1, <2>2, <2>3 DEF ByteAt, Bytes
<1>2. CASE ~ (j <= Len(v) /\ i <= Len(v[j]))
  <2>1. ByteAt(v, j, i) = NUL
    BY <1>2 DEF ByteAt
  <2>2. NUL \in Bytes
    BY DEF Bytes
  <2>3. QED
    BY <2>1, <2>2
<1>3. QED
  BY <1>1, <1>2

(* What the map entry holds: the prefixes, each in its slot.               *)
LEMMA PathBytes ==
  ASSUME NEW v \in Seq(ScopePrefixes)
  PROVE  /\ path_set_bytes(v) \in Seq(Bytes)
         /\ Len(path_set_bytes(v)) = MAX_PATH_PREFIXES * PATH_PREFIX_MAX
         /\ \A j \in 1 .. MAX_PATH_PREFIXES, i \in 1 .. PATH_PREFIX_MAX :
              path_set_bytes(v)[PATH_PREFIX_MAX * (j - 1) + i] = ByteAt(v, j, i)
<1>1. PICK m \in Nat \ {0} : m = PATH_PREFIX_MAX
  BY ScopeAssumption
<1>2. PICK k \in Nat : k = MAX_PATH_PREFIXES
  BY ScopeAssumption
<1>3. k * m \in Nat
  BY SMTT(30)
<1>4. PICK n \in Nat : n = k * m
  BY <1>3
<1>5. PICK s : s = path_set_bytes(v)
  OBVIOUS
<1>6. s = [at \in 1 .. n |-> ByteAt(v, ((at - 1) \div m) + 1, ((at - 1) % m) + 1)]
  BY <1>1, <1>2, <1>4, <1>5 DEF path_set_bytes, ByteAt
<1>7. ASSUME NEW at \in 1 .. n PROVE s[at] \in Bytes
  <2>1. at - 1 \in Nat
    OBVIOUS
  <2>2. PICK q \in Nat, r \in 0 .. m - 1 : q = (at - 1) \div m /\ r = (at - 1) % m
    BY <2>1, Divides
  <2>3. s[at] = ByteAt(v, q + 1, r + 1)
    BY <1>6, <2>2
  <2>4. q + 1 \in Nat \ {0} /\ r + 1 \in Nat \ {0}
    OBVIOUS
  <2>5. QED
    BY <2>3, <2>4, ByteIsString
<1>8. s \in Seq(Bytes) /\ Len(s) = n
  <2>1. s \in [1 .. n -> Bytes]
    BY <1>6, <1>7
  <2>2. QED
    BY <2>1
<1>9. ASSUME NEW j \in 1 .. k, NEW i \in 1 .. m
      PROVE  s[m * (j - 1) + i] = ByteAt(v, j, i)
  <2>1. PICK a \in Nat, c \in 0 .. m - 1 : a = j - 1 /\ c = i - 1
    <3>1. j - 1 \in Nat /\ i - 1 \in 0 .. m - 1
      OBVIOUS
    <3>2. QED
      BY <3>1
  <2>2. PICK x \in Nat : x = m * a + c
    <3>1. m * a + c \in Nat
      BY SMTT(30)
    <3>2. QED
      BY <3>1
  <2>3. PICK q \in Nat, r \in 0 .. m - 1 : q = x \div m /\ r = x % m /\ x = m * q + r
    BY Divides
  <2>4. q = a /\ r = c
    BY <2>2, <2>3, DividesOnce
  <2>5. x + 1 = m * (j - 1) + i /\ x + 1 - 1 = x
    BY <2>1, <2>2
  <2>6. x + 1 \in 1 .. n
    <3>1. PICK d \in Nat : k = a + 1 + d
      <4>1. k - a - 1 \in Nat /\ k = a + 1 + (k - a - 1)
        BY <2>1
      <4>2. QED
        BY <4>1
    <3>2. k * m = m * a + m + d * m
      BY <3>1
    <3>3. d * m \in Nat /\ m * a \in Nat
      BY SMTT(30)
    <3>4. QED
      BY <1>4, <2>2, <3>2, <3>3
  <2>7. s[x + 1] = ByteAt(v, q + 1, r + 1)
    BY <1>6, <2>3, <2>5, <2>6
  <2>8. q + 1 = j /\ r + 1 = i
    BY <2>1, <2>4
  <2>9. QED
    BY <2>5, <2>7, <2>8
<1>10. QED
  BY <1>1, <1>2, <1>4, <1>5, <1>8, <1>9

(* A slot holds its prefix, then NUL.                                      *)
LEMMA SlotBytes ==
  ASSUME NEW v \in Seq(ScopePrefixes), NEW j \in 1 .. MAX_PATH_PREFIXES
  PROVE  /\ Slot(path_set_bytes(v), j) \in Seq(Bytes)
         /\ Len(Slot(path_set_bytes(v), j)) = PATH_PREFIX_MAX
         /\ \A i \in 1 .. PATH_PREFIX_MAX : Slot(path_set_bytes(v), j)[i] = ByteAt(v, j, i)
<1>1. PICK m \in Nat \ {0}, k \in Nat : m = PATH_PREFIX_MAX /\ k = MAX_PATH_PREFIXES
  BY ScopeAssumption
<1>2. PICK s : s = path_set_bytes(v)
  OBVIOUS
<1>3. /\ s \in Seq(Bytes) /\ Len(s) = k * m
      /\ \A i \in 1 .. m : s[m * (j - 1) + i] = ByteAt(v, j, i)
  BY <1>1, <1>2, PathBytes
<1>4. j \in Nat \ {0} /\ j * m <= k * m
  <2>1. j \in Nat \ {0} /\ j <= k
    BY <1>1
  <2>2. PICK d \in Nat : k = j + d
    <3>1. k - j \in Nat /\ k = j + (k - j)
      BY <2>1
    <3>2. QED
      BY <3>1
  <2>3. k * m = j * m + d * m /\ d * m \in Nat /\ j * m \in Nat
    <3>1. d * m \in Nat /\ j * m \in Nat
      BY <2>1
    <3>2. QED
      BY <2>1, <2>2, <3>1
  <2>4. QED
    BY <2>1, <2>3
<1>5. PICK t : t = SubSeq(s, (j - 1) * m + 1, j * m)
  OBVIOUS
<1>6. t \in Seq(Bytes) /\ Len(t) = m /\ \A i \in 1 .. m : t[i] = s[m * (j - 1) + i]
  <2>1. PICK B : B = Bytes
    OBVIOUS
  <2>2. s \in Seq(B) /\ j * m <= Len(s)
    BY <1>3, <1>4, <2>1
  <2>3. j \in Nat \ {0}
    BY <1>4
  <2>4. t \in Seq(B) /\ Len(t) = m /\ \A i \in 1 .. m : t[i] = s[m * (j - 1) + i]
    BY <1>5, <2>2, <2>3, Piece
  <2>5. QED
    BY <2>1, <2>4
<1>7. QED
  BY <1>1, <1>2, <1>3, <1>5, <1>6 DEF Slot

(* Sequences are the same if their elements are.                           *)
LEMMA SameSeq ==
  ASSUME NEW S, NEW s \in Seq(S), NEW t \in Seq(S), Len(s) = Len(t), \A i \in 1 .. Len(s) : s[i] = t[i]
  PROVE  s = t
OBVIOUS

(* One place is one place of one chunk, and chunks come one after another. *)
LEMMA PlaceIsInChunk ==
  ASSUME NEW c \in Nat \ {0}, NEW n \in Nat, NEW x \in 1 .. c * n
  PROVE  \E k \in 1 .. n, r \in 1 .. c : x = c * (k - 1) + r
<1>1. PICK y \in Nat : y = x - 1
  <2>1. x - 1 \in Nat
    BY SMTT(30)
  <2>2. QED
    BY <2>1
<1>2. PICK q \in Nat, r \in 0 .. c - 1 : y = c * q + r
  <2>1. PICK q \in Nat, r \in 0 .. c - 1 : q = y \div c /\ r = y % c /\ y = c * q + r
    BY Divides
  <2>2. QED
    BY <2>1
<1>3. q < n
  <2>1. SUFFICES ASSUME n <= q PROVE FALSE
    BY <1>2
  <2>2. PICK d \in Nat : q = n + d
    <3>1. q - n \in Nat /\ q = n + (q - n)
      BY <2>1
    <3>2. QED
      BY <3>1
  <2>3. PICK u, v, w : u = c * n /\ v = c * d /\ w = c * q
    OBVIOUS
  <2>4. w = u + v /\ u \in Nat /\ v \in Nat
    BY <2>2, <2>3
  <2>5. x \in 1 .. u /\ y = w + r /\ y = x - 1
    BY <1>1, <1>2, <2>3
  <2>6. QED
    BY <2>4, <2>5
<1>4. q + 1 \in 1 .. n /\ r + 1 \in 1 .. c /\ q + 1 - 1 = q
  BY <1>3
<1>5. x = c * q + (r + 1)
  <2>1. PICK w \in Nat : w = c * q
    <3>1. c * q \in Nat
      BY SMTT(30)
    <3>2. QED
      BY <3>1
  <2>2. y = w + r
    BY <1>2, <2>1
  <2>3. x \in Nat
    BY SMTT(30)
  <2>4. QED
    BY <1>1, <2>1, <2>2, <2>3
<1>6. x = c * (q + 1 - 1) + (r + 1)
  BY <1>4, <1>5
<1>7. QED
  <2>1. PICK k, t : k = q + 1 /\ t = r + 1
    OBVIOUS
  <2>2. k \in 1 .. n /\ t \in 1 .. c /\ x = c * (k - 1) + t
    BY <1>4, <1>6, <2>1
  <2>3. QED
    BY <2>2

(* A place of an earlier chunk comes before one of a later chunk.          *)
LEMMA ChunksInOrder ==
  ASSUME NEW c \in Nat \ {0}, NEW k \in Nat \ {0}, NEW a \in Nat \ {0}, NEW x \in 1 .. c, NEW r \in 1 .. c, k < a
  PROVE  c * (k - 1) + x < c * (a - 1) + r
<1>1. PICK d \in Nat : a = k + 1 + d
  <2>1. a - k - 1 \in Nat /\ a = k + 1 + (a - k - 1)
    OBVIOUS
  <2>2. QED
    BY <2>1
<1>2. c * (a - 1) = c * (k - 1) + c + c * d
  BY <1>1
<1>3. c * (k - 1) \in Nat /\ c * d \in Nat /\ c * (a - 1) \in Nat
  OBVIOUS
<1>4. QED
  BY <1>2, <1>3

(* What a chunk of a buffer holds.                                         *)
LEMMA ChunkHas ==
  ASSUME NEW S, NEW s \in Seq(S), NEW n \in Nat, NEW k \in 1 .. n, CHUNK * n <= Len(s),
         NEW t, t = Chunk(s, k)
  PROVE  t \in Seq(S) /\ Len(t) = CHUNK /\ \A r \in 1 .. CHUNK : t[r] = s[CHUNK * (k - 1) + r]
<1>1. PICK c \in Nat \ {0} : c = CHUNK
  BY ScopeAssumption
<1>2. k \in Nat \ {0} /\ k * c <= Len(s)
  <2>1. k \in Nat \ {0} /\ k <= n
    OBVIOUS
  <2>2. PICK d \in Nat : n = k + d
    <3>1. n - k \in Nat /\ n = k + (n - k)
      BY <2>1
    <3>2. QED
      BY <3>1
  <2>3. c * n = k * c + c * d
    BY <2>1, <2>2
  <2>4. k * c \in Nat /\ c * d \in Nat
    BY <2>1
  <2>5. PICK u, v, w, l : u = c * n /\ v = k * c /\ w = c * d /\ l = Len(s)
    OBVIOUS
  <2>6. u = v + w /\ v \in Nat /\ w \in Nat /\ l \in Nat /\ u <= l
    BY <1>1, <2>3, <2>4, <2>5
  <2>7. v <= l
    BY <2>6
  <2>8. QED
    BY <2>1, <2>5, <2>7
<1>3. t = SubSeq(s, (k - 1) * c + 1, k * c)
  BY <1>1 DEF Chunk
<1>4. t \in Seq(S) /\ Len(t) = c /\ \A i \in 1 .. c : t[i] = s[c * (k - 1) + i]
  BY <1>2, <1>3, Piece
<1>5. QED
  BY <1>1, <1>4

(* FirstNul is 0 without a NUL, and else the place of the first.           *)
LEMMA FirstNulIs ==
  ASSUME NEW p, NEW c \in Nat, DOMAIN p = 1 .. c
  PROVE  /\ (\A i \in 1 .. c : p[i] # NUL) => FirstNul(p) = 0
         /\ \A r \in 1 .. c : p[r] = NUL /\ (\A i \in 1 .. r - 1 : p[i] # NUL) => FirstNul(p) = r
<1> DEFINE nuls == {i \in DOMAIN p : p[i] = NUL}
<1>1. ASSUME \A i \in 1 .. c : p[i] # NUL PROVE FirstNul(p) = 0
  <2>1. nuls = {}
    BY <1>1
  <2>2. QED
    BY <2>1 DEF FirstNul
<1>2. ASSUME NEW r \in 1 .. c, p[r] = NUL, \A i \in 1 .. r - 1 : p[i] # NUL PROVE FirstNul(p) = r
  <2>1. r \in nuls
    BY <1>2
  <2>2. PICK m : m = CHOOSE i \in nuls : \A j \in nuls : i <= j
    OBVIOUS
  <2>3. FirstNul(p) = m
    BY <2>1, <2>2 DEF FirstNul
  <2>4. \A j \in nuls : r <= j
    <3>1. SUFFICES ASSUME NEW j \in nuls, ~ (r <= j) PROVE FALSE
      OBVIOUS
    <3>2. j \in 1 .. r - 1 /\ p[j] = NUL
      BY <3>1
    <3>3. QED
      BY <1>2, <3>2
  <2> HIDE DEF nuls
  <2>5. m \in nuls /\ \A j \in nuls : m <= j
    BY <2>1, <2>2, <2>4
  <2>6. m <= r /\ r <= m
    BY <2>1, <2>4, <2>5
  <2>7. m \in Nat
    BY <2>5 DEF nuls
  <2>8. QED
    BY <2>3, <2>6, <2>7
<1>3. QED
  BY <1>1, <1>2

(* Chunk by chunk, a slot matches what has its bytes up to the NUL and     *)
(* ends or goes on with a slash there.                                     *)
LEMMA MatchesAsBytes ==
  ASSUME NEW s \in Seq(Bytes), NEW f \in Seq(Bytes),
         Len(s) = PATH_PREFIX_MAX, PATH_PREFIX_MAX <= Len(f),
         NEW l \in Nat, l < PATH_PREFIX_MAX, \A i \in 1 .. l : s[i] # NUL, s[l + 1] = NUL
  PROVE  MatchesPrefix(s, f) <=> (\A i \in 1 .. l : f[i] = s[i]) /\ f[l + 1] \in {NUL, "/"}
<1>1. PICK c \in Nat \ {0}, m \in Nat \ {0}, n \in Nat :
        c = CHUNK /\ m = PATH_PREFIX_MAX /\ n = PATH_PREFIX_MAX \div CHUNK /\ m = c * n
  <2>1. PICK c \in Nat \ {0}, m \in Nat \ {0} : c = CHUNK /\ m = PATH_PREFIX_MAX
    BY ScopeAssumption
  <2>2. PICK q \in Nat, r \in 0 .. c - 1 : q = m \div c /\ r = m % c /\ m = c * q + r
    BY Divides
  <2>3. r = 0
    BY <2>1, <2>2, ScopeAssumption
  <2>4. c * q \in Nat
    OBVIOUS
  <2>5. m = c * q
    BY <2>2, <2>3, <2>4
  <2>6. QED
    BY <2>1, <2>2, <2>5
<1>2. PICK a \in 1 .. n, r \in 1 .. c : l + 1 = c * (a - 1) + r
  <2>1. l + 1 \in 1 .. c * n
    BY <1>1
  <2>2. PICK y : y = l + 1
    OBVIOUS
  <2>3. y \in 1 .. c * n
    BY <2>1, <2>2
  <2>4. PICK k \in 1 .. n, x \in 1 .. c : y = c * (k - 1) + x
    BY <2>3, PlaceIsInChunk
  <2>5. QED
    BY <2>2, <2>4
<1>3. ASSUME NEW k \in 1 .. n
      PROVE  /\ Chunk(s, k) \in Seq(Bytes) /\ Len(Chunk(s, k)) = c
             /\ \A x \in 1 .. c : Chunk(s, k)[x] = s[c * (k - 1) + x]
             /\ Chunk(f, k) \in Seq(Bytes) /\ Len(Chunk(f, k)) = c
             /\ \A x \in 1 .. c : Chunk(f, k)[x] = f[c * (k - 1) + x]
  <2>1. CHUNK * n <= Len(s) /\ CHUNK * n <= Len(f)
    BY <1>1
  <2>2. PICK B : B = Bytes
    OBVIOUS
  <2>3. s \in Seq(B) /\ f \in Seq(B)
    BY <2>2
  <2>4. PICK p, g : p = Chunk(s, k) /\ g = Chunk(f, k)
    OBVIOUS
  <2>5. p \in Seq(B) /\ Len(p) = CHUNK /\ \A x \in 1 .. CHUNK : p[x] = s[CHUNK * (k - 1) + x]
    BY <2>1, <2>3, <2>4, ChunkHas, SMTT(60)
  <2>6. g \in Seq(B) /\ Len(g) = CHUNK /\ \A x \in 1 .. CHUNK : g[x] = f[CHUNK * (k - 1) + x]
    BY <2>1, <2>3, <2>4, ChunkHas, SMTT(60)
  <2>7. QED
    BY <1>1, <2>2, <2>4, <2>5, <2>6
<1>4. ASSUME NEW k \in 1 .. n, NEW x \in 1 .. c
      PROVE  /\ c * (k - 1) + x \in Nat \ {0}
             /\ c * (k - 1) + x <= l <=> k < a \/ (k = a /\ x < r)
  <2>1. c * (k - 1) \in Nat /\ k \in Nat \ {0} /\ a \in Nat \ {0} /\ x \in Nat \ {0} /\ r \in Nat
    OBVIOUS
  <2>2. PICK u, v : u = c * (k - 1) /\ v = c * (a - 1)
    OBVIOUS
  <2>3. u \in Nat /\ l + 1 = v + r /\ v \in Nat
    <3>1. c * (a - 1) \in Nat
      BY <2>1
    <3>2. QED
      BY <1>2, <2>1, <2>2, <3>1
  <2>4. CASE k < a
    <3>1. c * (k - 1) + x < c * (a - 1) + r
      BY <2>1, <2>4, ChunksInOrder
    <3>2. u + x < v + r
      BY <2>2, <3>1
    <3>3. QED
      BY <2>1, <2>2, <2>3, <2>4, <3>2
  <2>5. CASE k = a
    <3>1. u = v
      BY <2>2, <2>5
    <3>2. QED
      BY <2>1, <2>2, <2>3, <2>5, <3>1
  <2>6. CASE a < k
    <3>1. c * (a - 1) + r < c * (k - 1) + x
      BY <2>1, <2>6, ChunksInOrder
    <3>2. v + r < u + x
      BY <2>2, <3>1
    <3>3. QED
      BY <2>1, <2>2, <2>3, <2>6, <3>2
  <2>7. QED
    BY <2>1, <2>4, <2>5, <2>6
<1>5. ASSUME NEW k \in 1 .. n, k < a PROVE FirstNul(Chunk(s, k)) = 0
  <2>1. ASSUME NEW x \in 1 .. c PROVE Chunk(s, k)[x] # NUL
    <3>1. PICK y : y = c * (k - 1) + x
      OBVIOUS
    <3>2. y \in 1 .. l
      <4>1. y \in Nat \ {0} /\ (y <= l <=> k < a \/ (k = a /\ x < r))
        <5>1. /\ c * (k - 1) + x \in Nat \ {0}
              /\ c * (k - 1) + x <= l <=> k < a \/ (k = a /\ x < r)
          BY <1>4
        <5>2. QED
          BY <3>1, <5>1
      <4>2. QED
        BY <1>5, <4>1
    <3>3. QED
      BY <1>3, <3>1, <3>2
  <2>2. PICK p : p = Chunk(s, k)
    OBVIOUS
  <2>3. DOMAIN p = 1 .. c
    BY <1>3, <2>2
  <2>4. c \in Nat
    OBVIOUS
  <2>5. QED
    BY <2>1, <2>2, <2>3, <2>4, FirstNulIs
<1>6. FirstNul(Chunk(s, a)) = r
  <2>1. ASSUME NEW x \in 1 .. r - 1 PROVE Chunk(s, a)[x] # NUL
    <3>1. x \in 1 .. c /\ x < r
      OBVIOUS
    <3>2. PICK y : y = c * (a - 1) + x
      OBVIOUS
    <3>3. y \in 1 .. l
      <4>1. y \in Nat \ {0} /\ (y <= l <=> a < a \/ (a = a /\ x < r))
        <5>1. /\ c * (a - 1) + x \in Nat \ {0}
              /\ c * (a - 1) + x <= l <=> a < a \/ (a = a /\ x < r)
          BY <1>4, <3>1
        <5>2. QED
          BY <3>2, <5>1
      <4>2. QED
        BY <3>1, <4>1
    <3>4. QED
      BY <1>3, <3>1, <3>2, <3>3
  <2>2. Chunk(s, a)[r] = NUL
    <3>1. Chunk(s, a)[r] = s[c * (a - 1) + r]
      BY <1>3
    <3>2. QED
      BY <1>2, <3>1
  <2>3. PICK p : p = Chunk(s, a)
    OBVIOUS
  <2>4. DOMAIN p = 1 .. c
    BY <1>3, <2>3
  <2>5. c \in Nat
    OBVIOUS
  <2>6. QED
    BY <2>1, <2>2, <2>3, <2>4, <2>5, FirstNulIs
<1>7. PICK p, g : p = Chunk(s, a) /\ g = Chunk(f, a)
  OBVIOUS
<1>8. /\ p \in Seq(Bytes) /\ Len(p) = c /\ \A x \in 1 .. c : p[x] = s[c * (a - 1) + x]
      /\ g \in Seq(Bytes) /\ Len(g) = c /\ \A x \in 1 .. c : g[x] = f[c * (a - 1) + x]
  BY <1>3, <1>7
<1>9. /\ SubSeq(p, 1, r - 1) \in Seq(Bytes) /\ Len(SubSeq(p, 1, r - 1)) = r - 1
      /\ \A i \in 1 .. r - 1 : SubSeq(p, 1, r - 1)[i] = p[i]
      /\ SubSeq(g, 1, r - 1) \in Seq(Bytes) /\ Len(SubSeq(g, 1, r - 1)) = r - 1
      /\ \A i \in 1 .. r - 1 : SubSeq(g, 1, r - 1)[i] = g[i]
  <2>1. PICK h : h = r - 1
    OBVIOUS
  <2>2. h \in 0 .. Len(p) /\ h \in 0 .. Len(g)
    BY <1>8, <2>1
  <2>3. PICK B : B = Bytes
    OBVIOUS
  <2>4. p \in Seq(B) /\ g \in Seq(B)
    BY <1>8, <2>3
  <2>5. /\ SubSeq(p, 1, h) \in Seq(B) /\ Len(SubSeq(p, 1, h)) = h
        /\ \A i \in 1 .. h : SubSeq(p, 1, h)[i] = p[i]
    BY <2>2, <2>4, Prefixed
  <2>6. /\ SubSeq(g, 1, h) \in Seq(B) /\ Len(SubSeq(g, 1, h)) = h
        /\ \A i \in 1 .. h : SubSeq(g, 1, h)[i] = g[i]
    BY <2>2, <2>4, Prefixed
  <2>7. QED
    BY <2>1, <2>3, <2>5, <2>6
<1>10. MatchesLast(p, g) <=> (\A i \in 1 .. r - 1 : g[i] = p[i]) /\ g[r] \in {NUL, "/"}
  <2>1. PICK sp, sg, h : sp = SubSeq(p, 1, r - 1) /\ sg = SubSeq(g, 1, r - 1) /\ h = r - 1
    OBVIOUS
  <2>2. /\ sp \in Seq(Bytes) /\ Len(sp) = h /\ \A i \in 1 .. h : sp[i] = p[i]
        /\ sg \in Seq(Bytes) /\ Len(sg) = h /\ \A i \in 1 .. h : sg[i] = g[i]
    BY <1>9, <2>1
  <2>3. ASSUME \A i \in 1 .. h : g[i] = p[i] PROVE sg = sp
    <3>1. PICK B : B = Bytes
      OBVIOUS
    <3>2. sp \in Seq(B) /\ sg \in Seq(B) /\ Len(sp) = Len(sg) /\ \A i \in 1 .. Len(sp) : sp[i] = sg[i]
      BY <2>2, <2>3, <3>1
    <3>3. QED
      BY <3>2, SameSeq
  <2>4. ASSUME sg = sp PROVE \A i \in 1 .. h : g[i] = p[i]
    BY <2>2, <2>4
  <2>5. MatchesLast(p, g) <=> sg = sp /\ g[r] \in {NUL, "/"}
    BY <1>6, <1>7, <2>1 DEF MatchesLast
  <2>6. QED
    BY <2>1, <2>3, <2>4, <2>5
<1>11. ASSUME MatchesPrefix(s, f)
       PROVE  (\A i \in 1 .. l : f[i] = s[i]) /\ f[l + 1] \in {NUL, "/"}
  <2>1. PICK k \in 1 .. n :
          /\ \A i \in 1 .. k - 1 : FirstNul(Chunk(s, i)) = 0 /\ Chunk(s, i) = Chunk(f, i)
          /\ FirstNul(Chunk(s, k)) # 0 /\ MatchesLast(Chunk(s, k), Chunk(f, k))
    BY <1>1, <1>11 DEF MatchesPrefix
  <2>2. k = a
    <3>1. ~ (k < a)
      BY <1>5, <2>1
    <3>2. ~ (a < k)
      <4>1. SUFFICES ASSUME a < k PROVE FALSE
        OBVIOUS
      <4>2. a \in 1 .. k - 1
        BY <4>1
      <4>3. QED
        BY <1>6, <2>1, <4>2
    <3>3. QED
      BY <3>1, <3>2
  <2>3. (\A i \in 1 .. r - 1 : g[i] = p[i]) /\ g[r] \in {NUL, "/"}
    BY <1>7, <1>10, <2>1, <2>2
  <2>4. ASSUME NEW y \in 1 .. l PROVE f[y] = s[y]
    <3>1. y \in 1 .. c * n
      BY <1>1
    <3>2. PICK i \in 1 .. n, x \in 1 .. c : y = c * (i - 1) + x
      BY <3>1, PlaceIsInChunk
    <3>3. i < a \/ (i = a /\ x < r)
      <4>1. /\ c * (i - 1) + x \in Nat \ {0}
            /\ c * (i - 1) + x <= l <=> i < a \/ (i = a /\ x < r)
        BY <1>4
      <4>2. y <= l
        OBVIOUS
      <4>3. QED
        BY <3>2, <4>1, <4>2
    <3>4. CASE i < a
      <4>1. i \in 1 .. k - 1
        BY <2>2, <3>4
      <4>2. Chunk(s, i)[x] = Chunk(f, i)[x]
        BY <2>1, <4>1
      <4>3. QED
        BY <1>3, <3>2, <4>2
    <3>5. CASE i = a /\ x < r
      <4>1. x \in 1 .. r - 1
        BY <3>5
      <4>2. g[x] = p[x]
        BY <2>3, <4>1
      <4>3. QED
        BY <1>8, <3>2, <3>5, <4>2
    <3>6. QED
      BY <3>3, <3>4, <3>5
  <2>5. g[r] = f[l + 1]
    BY <1>2, <1>8
  <2>6. QED
    BY <2>3, <2>4, <2>5
<1>12. ASSUME \A i \in 1 .. l : f[i] = s[i], f[l + 1] \in {NUL, "/"}
       PROVE  MatchesPrefix(s, f)
  <2>1. ASSUME NEW k \in 1 .. a - 1 PROVE Chunk(s, k) = Chunk(f, k)
    <3>1. k \in 1 .. n /\ k < a
      OBVIOUS
    <3>2. ASSUME NEW x \in 1 .. c PROVE Chunk(s, k)[x] = Chunk(f, k)[x]
      <4>1. PICK y : y = c * (k - 1) + x
        OBVIOUS
      <4>2. y \in 1 .. l
        <5>1. y \in Nat \ {0} /\ (y <= l <=> k < a \/ (k = a /\ x < r))
          <6>1. /\ c * (k - 1) + x \in Nat \ {0}
                /\ c * (k - 1) + x <= l <=> k < a \/ (k = a /\ x < r)
            BY <1>4, <3>1
          <6>2. QED
            BY <4>1, <6>1
        <5>2. QED
          BY <3>1, <5>1
      <4>3. QED
        BY <1>3, <1>12, <3>1, <4>1, <4>2
    <3>3. PICK B : B = Bytes
      OBVIOUS
    <3>4. PICK u, v : u = Chunk(s, k) /\ v = Chunk(f, k)
      OBVIOUS
    <3>5. u \in Seq(B) /\ v \in Seq(B) /\ Len(u) = Len(v) /\ \A x \in 1 .. Len(u) : u[x] = v[x]
      BY <1>3, <3>1, <3>2, <3>3, <3>4
    <3>6. QED
      BY <3>4, <3>5, SameSeq
  <2>2. ASSUME NEW x \in 1 .. r - 1 PROVE g[x] = p[x]
    <3>1. x \in 1 .. c /\ x < r
      OBVIOUS
    <3>2. PICK y : y = c * (a - 1) + x
      OBVIOUS
    <3>3. y \in 1 .. l
      <4>1. y \in Nat \ {0} /\ (y <= l <=> a < a \/ (a = a /\ x < r))
        <5>1. /\ c * (a - 1) + x \in Nat \ {0}
              /\ c * (a - 1) + x <= l <=> a < a \/ (a = a /\ x < r)
          BY <1>4, <3>1
        <5>2. QED
          BY <3>2, <5>1
      <4>2. QED
        BY <3>1, <4>1
    <3>4. g[x] = f[y] /\ p[x] = s[y]
      BY <1>8, <3>1, <3>2
    <3>5. QED
      BY <1>12, <3>3, <3>4
  <2>3. g[r] = f[l + 1]
    BY <1>2, <1>8
  <2>4. MatchesLast(p, g)
    BY <1>10, <1>12, <2>2, <2>3
  <2>5. ASSUME NEW k \in 1 .. a - 1 PROVE FirstNul(Chunk(s, k)) = 0
    <3>1. k \in 1 .. n /\ k < a
      OBVIOUS
    <3>2. QED
      BY <1>5, <3>1
  <2>6. FirstNul(Chunk(s, a)) # 0
    BY <1>6
  <2>7. QED
    BY <1>1, <1>7, <2>1, <2>4, <2>5, <2>6 DEF MatchesPrefix
<1>13. QED
  BY <1>11, <1>12

(* The buffer holds the path and a NUL after it.                           *)
LEMMA BufferHas ==
  ASSUME NEW path, Clean(path), Len(path) < PATH_BUF_MAX
  PROVE  /\ Buffer(path) \in Seq(Bytes) /\ Len(Buffer(path)) = PATH_BUF_MAX
         /\ \A i \in 1 .. Len(path) : Buffer(path)[i] = path[i]
         /\ Buffer(path)[Len(path) + 1] = NUL
<1>1. PICK b \in Nat, n \in Nat : b = PATH_BUF_MAX /\ n = Len(path) /\ n < b
  BY ScopeAssumption DEF Clean
<1>2. path \in Seq(STRING) /\ DOMAIN path = 1 .. n
  BY <1>1 DEF Clean
<1>3. PICK f : f = Buffer(path)
  OBVIOUS
<1>4. f = [i \in 1 .. b |->
            IF i <= n THEN path[i]
            ELSE IF i > n + 1 /\ i < b /\ i >= b - n THEN path[i - (b - n) + 1]
            ELSE NUL]
  BY <1>1, <1>3 DEF Buffer
<1>5. ASSUME NEW i \in 1 .. b PROVE f[i] \in Bytes
  <2>1. CASE i <= n
    <3>1. i \in 1 .. n
      BY <2>1
    <3>2. f[i] = path[i] /\ path[i] \in STRING
      BY <1>2, <1>4, <2>1, <3>1
    <3>3. QED
      BY <3>2 DEF Bytes
  <2>2. CASE i > n + 1 /\ i < b /\ i >= b - n
    <3>1. i - (b - n) + 1 \in 1 .. n
      BY <1>1, <2>2
    <3>2. PICK y \in 1 .. n : y = i - (b - n) + 1
      BY <3>1
    <3>3. f[i] = path[y]
      BY <1>4, <2>2, <3>2
    <3>4. path[y] \in STRING
      BY <1>2
    <3>5. QED
      BY <3>3, <3>4 DEF Bytes
  <2>3. CASE ~ (i <= n) /\ ~ (i > n + 1 /\ i < b /\ i >= b - n)
    BY <1>4, <2>3 DEF Bytes
  <2>4. QED
    BY <2>1, <2>2, <2>3
<1>6. f \in Seq(Bytes) /\ Len(f) = b
  <2>1. f \in [1 .. b -> Bytes]
    BY <1>4, <1>5
  <2>2. QED
    BY <2>1
<1>7. \A i \in 1 .. n : f[i] = path[i]
  BY <1>1, <1>4
<1>8. f[n + 1] = NUL
  BY <1>1, <1>4
<1>9. QED
  BY <1>1, <1>3, <1>6, <1>7, <1>8

(* A prefix, element by element.                                           *)
LEMMA PrefixAsBytes ==
  ASSUME NEW S, NEW q \in Seq(S), NEW path \in Seq(S)
  PROVE  IsPrefix(q, path) <=> Len(q) <= Len(path) /\ \A i \in 1 .. Len(q) : q[i] = path[i]
<1>1. PICK n \in Nat : n = Len(q)
  OBVIOUS
<1>2. CASE n <= Len(path)
  <2>1. n \in 0 .. Len(q) /\ n \in 0 .. Len(path)
    BY <1>1, <1>2
  <2>2. PICK a, b : a = SubSeq(q, 1, n) /\ b = SubSeq(path, 1, n)
    OBVIOUS
  <2>3. a \in Seq(S) /\ Len(a) = n /\ \A i \in 1 .. n : a[i] = q[i]
    BY <2>1, <2>2, Prefixed
  <2>4. b \in Seq(S) /\ Len(b) = n /\ \A i \in 1 .. n : b[i] = path[i]
    BY <2>1, <2>2, Prefixed
  <2>5. ASSUME \A i \in 1 .. n : q[i] = path[i] PROVE a = b
    <3>1. Len(a) = Len(b) /\ \A i \in 1 .. Len(a) : a[i] = b[i]
      BY <2>3, <2>4, <2>5
    <3>2. QED
      BY <2>3, <2>4, <3>1, SameSeq
  <2>6. ASSUME a = b PROVE \A i \in 1 .. n : q[i] = path[i]
    BY <2>3, <2>4, <2>6
  <2>7. IsPrefix(q, path) <=> a = b
    BY <1>1, <1>2, <2>2 DEF IsPrefix
  <2>8. QED
    BY <1>1, <1>2, <2>5, <2>6, <2>7
<1>3. CASE ~ (n <= Len(path))
  BY <1>1, <1>3 DEF IsPrefix
<1>4. QED
  BY <1>2, <1>3

(* A slot matches the paths at or under its prefix.                        *)
LEMMA SlotMatches ==
  ASSUME NEW v \in Seq(ScopePrefixes), NEW j \in DOMAIN v, Len(v) <= MAX_PATH_PREFIXES,
         NEW path, Clean(path), Len(path) < PATH_BUF_MAX
  PROVE  MatchesPrefix(Slot(path_set_bytes(v), j), Buffer(path)) <=> AtOrUnder(v[j], path)
<1>1. PICK s, f, q : s = Slot(path_set_bytes(v), j) /\ f = Buffer(path) /\ q = v[j]
  OBVIOUS
<1>2. PICK m \in Nat, b \in Nat : m = PATH_PREFIX_MAX /\ b = PATH_BUF_MAX /\ m <= b
  BY ScopeAssumption
<1>3. PICK l : l = Len(q)
  OBVIOUS
<1>4. /\ q \in Seq(STRING) /\ l \in 1 .. m - 1 /\ DOMAIN q = 1 .. l
      /\ \A i \in 1 .. l : q[i] # NUL
  <2>1. q \in ScopePrefixes
    BY <1>1
  <2>2. q \in Seq(STRING) /\ Len(q) \in 1 .. PATH_PREFIX_MAX - 1 /\ \A i \in DOMAIN q : q[i] # NUL
    BY <2>1 DEF ScopePrefixes, Prefix, Clean
  <2>3. DOMAIN q = 1 .. Len(q)
    BY <2>2
  <2>4. QED
    BY <1>2, <1>3, <2>2, <2>3
<1>5. j \in 1 .. MAX_PATH_PREFIXES /\ j <= Len(v)
  BY ScopeAssumption
<1>6. s \in Seq(Bytes) /\ Len(s) = m /\ \A i \in 1 .. m : s[i] = ByteAt(v, j, i)
  BY <1>1, <1>2, <1>5, SlotBytes
<1>7. \A i \in 1 .. l : s[i] = q[i]
  <2>1. SUFFICES ASSUME NEW i \in 1 .. l PROVE s[i] = q[i]
    OBVIOUS
  <2>2. i \in 1 .. m /\ i <= l
    BY <1>2, <1>4
  <2>3. QED
    BY <1>1, <1>3, <1>5, <1>6, <2>2 DEF ByteAt
<1>8. s[l + 1] = NUL
  <2>1. l + 1 \in 1 .. m /\ ~ (l + 1 <= l)
    BY <1>2, <1>4
  <2>2. PICK y : y = l + 1
    OBVIOUS
  <2>3. QED
    BY <1>1, <1>3, <1>6, <2>1, <2>2 DEF ByteAt
<1>9. PICK n \in Nat : n = Len(path) /\ n < b
  BY <1>2 DEF Clean
<1>10. path \in Seq(STRING) /\ DOMAIN path = 1 .. n /\ \A i \in 1 .. n : path[i] # NUL
  BY <1>9 DEF Clean
<1>11. f \in Seq(Bytes) /\ Len(f) = b /\ (\A i \in 1 .. n : f[i] = path[i]) /\ f[n + 1] = NUL
  BY <1>1, <1>2, <1>9, BufferHas
<1>12. MatchesPrefix(s, f) <=> (\A i \in 1 .. l : f[i] = s[i]) /\ f[l + 1] \in {NUL, "/"}
  <2>1. l \in Nat /\ l < PATH_PREFIX_MAX /\ Len(s) = PATH_PREFIX_MAX /\ PATH_PREFIX_MAX <= Len(f)
    BY <1>2, <1>4, <1>6, <1>11
  <2>2. \A i \in 1 .. l : s[i] # NUL
    BY <1>4, <1>7
  <2>3. QED
    BY <1>6, <1>8, <1>11, <2>1, <2>2, MatchesAsBytes
<1>13. AtOrUnder(q, path) <=> /\ l <= n /\ \A i \in 1 .. l : q[i] = path[i]
                              /\ n = l \/ path[l + 1] = "/"
  <2>1. IsPrefix(q, path) <=> Len(q) <= Len(path) /\ \A i \in 1 .. Len(q) : q[i] = path[i]
    <3>1. PICK B : B = STRING
      OBVIOUS
    <3>2. q \in Seq(B) /\ path \in Seq(B)
      BY <1>4, <1>10, <3>1
    <3>3. QED
      BY <3>2, PrefixAsBytes
  <2>2. AtOrUnder(q, path) <=> IsPrefix(q, path) /\ (Len(path) = Len(q) \/ path[Len(q) + 1] = "/")
    BY DEF AtOrUnder
  <2>3. QED
    BY <1>3, <1>9, <2>1, <2>2
<1>14. ASSUME MatchesPrefix(s, f) PROVE AtOrUnder(q, path)
  <2>1. \A i \in 1 .. l : f[i] = q[i]
    BY <1>7, <1>12, <1>14
  <2>2. l <= n
    <3>1. SUFFICES ASSUME n < l PROVE FALSE
      BY <1>4
    <3>2. n + 1 \in 1 .. l
      BY <1>4, <3>1
    <3>3. QED
      BY <1>4, <1>11, <2>1, <3>2
  <2>3. \A i \in 1 .. l : q[i] = path[i]
    BY <1>4, <1>11, <2>1, <2>2
  <2>4. n = l \/ path[l + 1] = "/"
    <3>1. SUFFICES ASSUME n # l PROVE path[l + 1] = "/"
      OBVIOUS
    <3>2. l + 1 \in 1 .. n
      BY <1>4, <2>2, <3>1
    <3>3. path[l + 1] = f[l + 1] /\ path[l + 1] # NUL
      BY <1>10, <1>11, <3>2
    <3>4. QED
      BY <1>12, <1>14, <3>3
  <2>5. QED
    BY <1>13, <2>2, <2>3, <2>4
<1>15. ASSUME AtOrUnder(q, path) PROVE MatchesPrefix(s, f)
  <2>1. l <= n /\ \A i \in 1 .. l : q[i] = path[i]
    BY <1>13, <1>15
  <2>2. ASSUME NEW i \in 1 .. l PROVE f[i] = s[i]
    <3>1. i \in 1 .. n
      BY <1>4, <2>1
    <3>2. QED
      BY <1>7, <1>11, <2>1, <3>1
  <2>3. f[l + 1] \in {NUL, "/"}
    <3>1. CASE n = l
      BY <1>11, <3>1
    <3>2. CASE n # l
      <4>1. l + 1 \in 1 .. n
        BY <1>4, <2>1, <3>2
      <4>2. QED
        BY <1>11, <1>13, <1>15, <3>2, <4>1
    <3>3. QED
      BY <3>1, <3>2
  <2>4. QED
    BY <1>12, <2>2, <2>3
<1>16. QED
  BY <1>1, <1>14, <1>15

(* A path is in the set if it is at or under one of its prefixes.          *)
LEMMA SetMatches ==
  ASSUME NEW v \in Seq(ScopePrefixes), Len(v) <= MAX_PATH_PREFIXES,
         NEW path, Clean(path), Len(path) < PATH_BUF_MAX
  PROVE  InSet(path_set_bytes(v), Buffer(path)) <=> \E p \in ToSet(v) : AtOrUnder(p, path)
<1>1. PICK k \in Nat, m \in Nat \ {0} : k = MAX_PATH_PREFIXES /\ m = PATH_PREFIX_MAX
  BY ScopeAssumption
<1>2. ASSUME NEW i \in 1 .. k PROVE Slot(path_set_bytes(v), i)[1] # NUL <=> i \in DOMAIN v
  <2>1. Slot(path_set_bytes(v), i)[1] = ByteAt(v, i, 1)
    <3>1. 1 \in 1 .. m
      OBVIOUS
    <3>2. QED
      BY <1>1, <3>1, SlotBytes
  <2>2. CASE i \in DOMAIN v
    <3>1. PICK q : q = v[i]
      OBVIOUS
    <3>2. q \in ScopePrefixes
      BY <2>2, <3>1
    <3>3. 1 <= Len(q) /\ 1 \in DOMAIN q /\ q[1] # NUL
      BY <1>1, <3>2 DEF ScopePrefixes, Prefix, Clean
    <3>4. i <= Len(v)
      BY <2>2
    <3>5. QED
      BY <2>1, <2>2, <3>1, <3>3, <3>4 DEF ByteAt
  <2>3. CASE i \notin DOMAIN v
    <3>1. ~ (i <= Len(v))
      BY <2>3
    <3>2. QED
      BY <2>1, <2>3, <3>1 DEF ByteAt
  <2>4. QED
    BY <2>2, <2>3
<1>3. ASSUME InSet(path_set_bytes(v), Buffer(path)) PROVE \E p \in ToSet(v) : AtOrUnder(p, path)
  <2>1. PICK j \in 1 .. k : /\ \A i \in 1 .. j : Slot(path_set_bytes(v), i)[1] # NUL
                            /\ MatchesPrefix(Slot(path_set_bytes(v), j), Buffer(path))
    BY <1>1, <1>3 DEF InSet
  <2>2. j \in DOMAIN v
    <3>1. j \in 1 .. j
      OBVIOUS
    <3>2. QED
      BY <1>2, <2>1, <3>1
  <2>3. AtOrUnder(v[j], path)
    BY <2>1, <2>2, SlotMatches
  <2>4. QED
    BY <2>2, <2>3 DEF ToSet
<1>4. ASSUME NEW p \in ToSet(v), AtOrUnder(p, path) PROVE InSet(path_set_bytes(v), Buffer(path))
  <2>1. PICK j \in DOMAIN v : p = v[j]
    BY DEF ToSet
  <2>2. MatchesPrefix(Slot(path_set_bytes(v), j), Buffer(path))
    BY <1>4, <2>1, SlotMatches
  <2>3. j \in 1 .. k /\ \A i \in 1 .. j : i \in DOMAIN v /\ i \in 1 .. k
    BY <1>1
  <2>4. \A i \in 1 .. j : Slot(path_set_bytes(v), i)[1] # NUL
    BY <1>2, <2>3
  <2>5. QED
    BY <1>1, <2>2, <2>3, <2>4 DEF InSet
<1>5. QED
  BY <1>3, <1>4

(* A map entry is compiled from the lines that were declared.              *)
Declared(lines) ==
  /\ lines \in Seq(DeclaredPaths) /\ Compiles(lines)

(* The entry compiled from the lines matches the paths at or under one of  *)
(* them.                                                                   *)
LEMMA LinesMatch ==
  ASSUME NEW lines, Declared(lines), NEW path \in KernelPaths, Len(path) < PATH_BUF_MAX
  PROVE  InSet(path_set_bytes(Validated(lines)), Buffer(path))
           <=> \E i \in DOMAIN lines : lines[i] # <<>> /\ AtOrUnder(TrimEnd(lines[i]), path)
<1>1. lines \in Seq(Seq(STRING))
  <2>1. PICK L : L = Seq(STRING)
    OBVIOUS
  <2>2. DeclaredPaths \subseteq L /\ lines \in Seq(DeclaredPaths)
    BY <2>1, ScopeAssumption DEF Declared
  <2>3. lines \in Seq(L)
    BY <2>2
  <2>4. QED
    BY <2>1, <2>3
<1>2. \A i \in DOMAIN lines : lines[i] # <<>> => validate_scope_path(lines[i])
  BY DEF Declared, Compiles
<1>3. PICK v : v = Validated(lines)
  OBVIOUS
<1>4. /\ v \in Seq(ScopePrefixes)
      /\ ToSet(v) = {TrimEnd(lines[i]) : i \in {k \in DOMAIN lines : lines[k] # <<>>}}
  BY <1>1, <1>2, <1>3, ValidatedTakes
<1>5. Len(v) <= MAX_PATH_PREFIXES
  BY <1>3, ScopeAssumption DEF Declared, Compiles
<1>6. Clean(path)
  BY ScopeAssumption DEF Clean, NUL
<1>7. InSet(path_set_bytes(v), Buffer(path)) <=> \E p \in ToSet(v) : AtOrUnder(p, path)
  BY <1>4, <1>5, <1>6, SetMatches
<1>8. (\E p \in ToSet(v) : AtOrUnder(p, path))
        <=> \E i \in DOMAIN lines : lines[i] # <<>> /\ AtOrUnder(TrimEnd(lines[i]), path)
  BY <1>4
<1>9. QED
  BY <1>3, <1>7, <1>8

(* The invariant: the entry is compiled from what was declared while the   *)
(* hooks are real, and the hook runs only then.                            *)
CompiledOK ==
  compiled = NotCompiling
  \/ /\ compiled.pc \in {"flags", "paths"}
     /\ compiled.lines = <<>> \/ Declared(compiled.lines)
     /\ compiled.pc = "paths" => lsm_mode \in {"real", "simulation"}

MapOK ==
  /\ IF lsm_mode = "real" /\ declared_by # <<>>
     THEN Declared(declared_by) /\ pid_path_prefixes = Some(path_set_bytes(Validated(declared_by)))
     ELSE pid_path_prefixes = None
  /\ lsm_mode = "none" => declared_by = <<>>

OpeningOK ==
  /\ opening.pc \in {"none", "gated", "decided"}
  /\ opening.pc = "gated" => lsm_mode = "real" /\ opening.path \in KernelPaths
  /\ PathsAsDeclared

ScopeIInv == CompiledOK /\ MapOK /\ OpeningOK

LEMMA ScopeInitOK == ScopeInit => ScopeIInv
BY DEF ScopeInit, ScopeIInv, CompiledOK, MapOK, OpeningOK, PathsAsDeclared, NotOpening

LEMMA SomeIsNotNone == \A x : Some(x) # None /\ Some(x).value = x
BY DEF Some, None

(* What the hook decides.                                                  *)
LEMMA Decides ==
  ASSUME ScopeIInv, lsm_file_open
  PROVE  PathsAsDeclared'
<1> DEFINE Fits == Len(opening.path) < PATH_BUF_MAX
           Under == \E i \in DOMAIN declared_by :
                      declared_by[i] # <<>> /\ AtOrUnder(TrimEnd(declared_by[i]), opening.path)
           Ok == \/ pid_path_prefixes = None
                 \/ Fits /\ InSet(pid_path_prefixes.value, Buffer(opening.path))
<1>1. opening.path \in KernelPaths /\ lsm_mode = "real"
  BY DEF ScopeIInv, OpeningOK, lsm_file_open
<1>2. Ok <=> declared_by = <<>> \/ (Fits /\ Under)
  <2>1. CASE declared_by = <<>>
    BY <2>1 DEF ScopeIInv, MapOK
  <2>2. CASE declared_by # <<>>
    <3>1. Declared(declared_by) /\ pid_path_prefixes = Some(path_set_bytes(Validated(declared_by)))
      BY <1>1, <2>2 DEF ScopeIInv, MapOK
    <3>2. /\ pid_path_prefixes # None
          /\ pid_path_prefixes.value = path_set_bytes(Validated(declared_by))
      BY <3>1, SomeIsNotNone
    <3>3. Fits => (InSet(path_set_bytes(Validated(declared_by)), Buffer(opening.path)) <=> Under)
      BY <1>1, <3>1, LinesMatch
    <3>4. QED
      BY <2>2, <3>2, <3>3
  <2>3. QED
    BY <2>1, <2>2
<1>3. opening' = [pc |-> "decided", path |-> opening.path, declared |-> declared_by, ok |-> Ok]
  BY DEF lsm_file_open
<1> HIDE DEF Ok
<1>4. /\ opening'.ok = Ok /\ opening'.path = opening.path /\ opening'.declared = declared_by
  BY <1>3
<1>5. opening'.ok = (declared_by = <<>> \/ (Fits /\ Under))
  <2>1. PICK a, b : a = Ok /\ b = (declared_by = <<>> \/ (Fits /\ Under))
    OBVIOUS
  <2>2. a = b
    BY <1>2, <2>1 DEF Ok
  <2>3. QED
    BY <1>4, <2>1, <2>2
<1>6. QED
  BY <1>4, <1>5 DEF PathsAsDeclared

(* Each step keeps the invariant.                                          *)
LEMMA ScopeStepOK == ScopeIInv /\ [ScopeNext]_scopeVars => ScopeIInv'
<1> SUFFICES ASSUME ScopeIInv, [ScopeNext]_scopeVars PROVE ScopeIInv'
  OBVIOUS
<1> USE DEF ScopeIInv
<1>1. CASE UNCHANGED scopeVars
  BY <1>1 DEF scopeVars, CompiledOK, MapOK, OpeningOK, PathsAsDeclared
<1>2. CASE attach_lsm_hooks
  BY <1>2 DEF attach_lsm_hooks, try_attach_real_lsm, Attached, CompiledOK, MapOK, OpeningOK, PathsAsDeclared
<1>3. CASE detach
  BY <1>3 DEF detach, CompiledOK, MapOK, OpeningOK, PathsAsDeclared, NotOpening
<1>4. ASSUME NEW narrowed \in {{}, {SCOPE_FILE_OPEN}}, NEW scope_path \in ScopePaths,
             compile({"read", "exec"}, narrowed, scope_path)
      PROVE  ScopeIInv'
  <2>1. CompiledOK'
    <3>1. PICK lines : lines = IF scope_path = None THEN <<>> ELSE scope_path.value
      OBVIOUS
    <3>2. compiled'.pc = "flags" /\ compiled'.lines = lines
      BY <1>4, <3>1 DEF compile
    <3>3. lines = <<>> \/ Declared(lines)
      <4>1. CASE scope_path = None
        BY <3>1, <4>1
      <4>2. CASE scope_path # None
        <5>1. PICK l \in SeqOf(DeclaredPaths, MaxLines) : scope_path = Some(l)
          BY <4>2 DEF ScopePaths
        <5>2. scope_path.value = l
          BY <5>1, SomeIsNotNone
        <5>3. l \in Seq(DeclaredPaths)
          BY ScopeAssumption DEF SeqOf
        <5>4. Compiles(l)
          BY <1>4, <4>2, <5>2 DEF compile
        <5>5. QED
          BY <3>1, <4>2, <5>2, <5>3, <5>4 DEF Declared
      <4>3. QED
        BY <4>1, <4>2
    <3>4. QED
      BY <3>2, <3>3 DEF CompiledOK
  <2>2. MapOK' /\ OpeningOK'
    BY <1>4 DEF compile, MapOK, OpeningOK, PathsAsDeclared
  <2>3. QED
    BY <2>1, <2>2
<1>5. CASE set_pid_scope_flags
  <2>1. CompiledOK'
    BY <1>5 DEF set_pid_scope_flags, CompiledOK, NotCompiling
  <2>2. MapOK' /\ OpeningOK'
    BY <1>5 DEF set_pid_scope_flags, MapOK, OpeningOK, PathsAsDeclared
  <2>3. QED
    BY <2>1, <2>2
<1>6. CASE set_pid_scope_paths
  <2>1. CompiledOK'
    BY <1>6 DEF set_pid_scope_paths, CompiledOK
  <2>2. MapOK'
    <3>1. /\ compiled.lines = <<>> \/ Declared(compiled.lines)
          /\ lsm_mode \in {"real", "simulation"}
      BY <1>6 DEF set_pid_scope_paths, CompiledOK, NotCompiling
    <3>2. QED
      BY <1>6, <3>1 DEF set_pid_scope_paths, MapOK
  <2>3. OpeningOK'
    BY <1>6 DEF set_pid_scope_paths, OpeningOK, PathsAsDeclared
  <2>4. QED
    BY <2>1, <2>2, <2>3
<1>7. CASE clear_pid_scope
  BY <1>7 DEF clear_pid_scope, CompiledOK, MapOK, OpeningOK, PathsAsDeclared
<1>8. ASSUME NEW path \in KernelPaths, lsm_gate_open(path) PROVE ScopeIInv'
  <2>1. CompiledOK' /\ MapOK'
    BY <1>8 DEF lsm_gate_open, CompiledOK, MapOK
  <2>2. OpeningOK'
    BY <1>8 DEF lsm_gate_open, OpeningOK, PathsAsDeclared
  <2>3. QED
    BY <2>1, <2>2
<1>9. CASE lsm_file_open
  <2>1. CompiledOK' /\ MapOK'
    BY <1>9 DEF lsm_file_open, CompiledOK, MapOK
  <2>2. PathsAsDeclared'
    BY <1>9, Decides
  <2>3. opening'.pc = "decided"
    BY <1>9 DEF lsm_file_open
  <2>4. QED
    BY <2>1, <2>2, <2>3 DEF OpeningOK
<1>10. CASE file_opened
  <2>1. CompiledOK' /\ MapOK'
    BY <1>10 DEF file_opened, CompiledOK, MapOK
  <2>2. OpeningOK'
    BY <1>10 DEF file_opened, OpeningOK, PathsAsDeclared, NotOpening
  <2>3. QED
    BY <2>1, <2>2
<1>11. QED
  BY <1>1, <1>2, <1>3, <1>4, <1>5, <1>6, <1>7, <1>8, <1>9, <1>10 DEF ScopeNext

(* The file_open hook lets a gated agent open exactly the files at or      *)
(* under a path its intent declared: for every set of paths declared and   *)
(* resolved, every number and width of slots, buffer and chunk, and        *)
(* however often the scope is bound, cleared and bound again.              *)
THEOREM FilesOpenAsDeclared == ScopeSpec => []PathsAsDeclared
<1>1. ScopeIInv => PathsAsDeclared
  BY DEF ScopeIInv, OpeningOK
<1>2. QED
  BY <1>1, ScopeInitOK, ScopeStepOK, PTL DEF ScopeSpec
=============================================================================
