------------------------------ MODULE Gateway ------------------------------
(***************************************************************************)
(* The data plane: a request is parsed, authenticated, checked against the *)
(* punishments in force and the policy, takes one of its tenant's permits, *)
(* is read by the semantic guard and the extraction detector, is audited,  *)
(* and only then forwarded; the answer comes back as one body or as a      *)
(* stream whose first bytes are inspected before they are released.        *)
(* Handlers run in parallel; a step ends where the handler awaits.         *)
(***************************************************************************)
EXTENDS Watchtower

CONSTANTS Requests, max_concurrent

ASSUME GatewayAssumption ==
  /\ IsFiniteSet(Requests)
  /\ max_concurrent \in [Tenants -> Nat \ {0}]

Anonymous == Everyone   \* the chain and the event label of an unknown caller

VARIABLES
  request,  \* what each request's handler, or its stream, is doing
  free,     \* permits each tenant has left
  logged    \* decisions the audit chains hold for each request

gatewayVars == <<request, free, logged>>

NewRequest == [at |-> "new"]
Over(outcome) == [at |-> "over", outcome |-> outcome]

GatewayInit ==
  /\ request = [r \in Requests |-> NewRequest]
  /\ free = max_concurrent
  /\ logged = [r \in Requests |-> {}]

Release(t) == free' = [free EXCEPT ![t] = @ + 1]

Finish(r, outcome) == request' = [request EXCEPT ![r] = Over(outcome)]

-----------------------------------------------------------------------------
(* Before the first await of inspect_request.                              *)

\* A body that is not UTF-8 or has no model is answered without an entry.
bad_body(r) ==
  /\ request[r].at = "new"
  /\ Finish(r, "refused")
  /\ UNCHANGED <<watchVars, free, logged>>

\* A refusal that is to be audited and reported; the caller holds no permit.
Refusing(r, t, category) ==
  request' = [request EXCEPT ![r] = [at |-> "audit", tenant |-> t, decision |-> "deny",
                                     events |-> <<category>>, permit |-> FALSE]]

authenticate_fails(r) ==
  /\ request[r].at = "new"
  /\ \E category \in {"auth", "info"} : Refusing(r, Anonymous, category)
  /\ UNCHANGED <<watchVars, free, logged>>

is_suspended(t) == wall < overrides[t].until

punished_tenant(r, t) ==
  /\ request[r].at = "new"
  /\ \/ overrides[t].key_revoked /\ Refusing(r, t, "auth")
     \/ ~overrides[t].key_revoked /\ is_suspended(t) /\ Refusing(r, t, "suspended")
  /\ UNCHANGED <<watchVars, free, logged>>

Cleared(r, t) ==
  request[r].at = "new" /\ ~overrides[t].key_revoked /\ ~is_suspended(t)

\* authorize: the endpoint, the model, or the tenant's standing suspension.
authorize_denies(r, t) ==
  /\ Cleared(r, t)
  /\ Refusing(r, t, "policy_violation")
  /\ UNCHANGED <<watchVars, free, logged>>

acquire_fails(r, t) ==
  /\ Cleared(r, t) /\ free[t] = 0
  /\ Refusing(r, t, "concurrency")
  /\ UNCHANGED <<watchVars, free, logged>>

\* The permit is taken and the text is read by the guard and the detector; a
\* request the guard denies still holds its permit while it is audited.
inspect(r, t) ==
  /\ Cleared(r, t) /\ free[t] > 0
  /\ free' = [free EXCEPT ![t] = @ - 1]
  /\ \E verdict \in [decision : {"deny", "allow", "redacted"},
                     extraction : {"none", "extraction_watch", "extraction"}] :
       LET found == IF verdict.decision = "deny" THEN <<"prompt_injection">>
                    ELSE (IF verdict.decision = "redacted" THEN <<"pii_exfiltration">> ELSE <<>>)
                         \o (IF verdict.extraction # "none" THEN <<verdict.extraction>> ELSE <<>>)
       IN  request' = [request EXCEPT ![r] =
                         [at |-> "audit", tenant |-> t, decision |-> verdict.decision,
                          events |-> found, permit |-> TRUE]]
  /\ UNCHANGED <<watchVars, logged>>

-----------------------------------------------------------------------------
(* record_audit, the events that follow it, and the way out.               *)

record_audit(r) ==
  /\ request[r].at = "audit"
  /\ logged' = [logged EXCEPT ![r] = @ \cup {request[r].decision}]
  /\ request' = [request EXCEPT ![r].at = "events"]
  /\ UNCHANGED <<watchVars, free>>

\* A bug a refactoring could bring: the error is logged, not returned.
record_audit_fails_Open(r) ==
  /\ request[r].at = "audit"
  /\ request' = [request EXCEPT ![r].at = "events"]
  /\ UNCHANGED <<watchVars, free, logged>>

\* The `?` leaves the handler: no event, no forwarding, the permit is dropped.
record_audit_fails(r) ==
  /\ request[r].at = "audit"
  /\ Finish(r, "failed")
  /\ IF request[r].permit THEN Release(request[r].tenant) ELSE UNCHANGED free
  /\ UNCHANGED <<watchVars, logged>>

report_event(r) ==
  /\ request[r].at = "events" /\ request[r].events # <<>>
  /\ observe_security(Head(request[r].events), request[r].tenant, 1)
  /\ request' = [request EXCEPT ![r].events = Tail(@)]
  /\ UNCHANGED <<free, logged>>

inspected(r) ==
  /\ request[r].at = "events" /\ request[r].events = <<>>
  /\ IF request[r].decision = "deny"
     THEN /\ Finish(r, "refused")
          /\ IF request[r].permit THEN Release(request[r].tenant) ELSE UNCHANGED free
     ELSE /\ request' = [request EXCEPT ![r] = [at |-> "forward", tenant |-> @.tenant]]
          /\ UNCHANGED free
  /\ UNCHANGED <<watchVars, logged>>

-----------------------------------------------------------------------------
(* The upstream call and a buffered answer.                                *)

\* An upstream or read error, or an answer too large to inspect.
upstream_fails(r) ==
  /\ request[r].at \in {"forward", "read"}
  /\ Finish(r, "failed") /\ Release(request[r].tenant)
  /\ UNCHANGED <<watchVars, logged>>

\* A bug a refactoring could bring: a streaming handler drops its permit on return.
forward_DropsPermit(r) ==
  /\ request[r].at = "forward"
  /\ \/ request' = [request EXCEPT ![r].at = "read"] /\ UNCHANGED free
     \/ request' = [request EXCEPT ![r].at = "prefix"] /\ Release(request[r].tenant)
  /\ UNCHANGED <<watchVars, logged>>

forward(r) ==
  /\ request[r].at = "forward"
  /\ \E kind \in {"read", "prefix"} : request' = [request EXCEPT ![r].at = kind]
  /\ UNCHANGED <<watchVars, free, logged>>

\* inspect_buffered: a denied body is withheld, and the handler returns
\* before it reaches record_audit.
withhold(r) ==
  /\ request[r].at = "read"
  /\ Finish(r, "withheld") /\ Release(request[r].tenant)
  /\ UNCHANGED <<watchVars, logged>>

answer(r) ==
  /\ request[r].at = "read"
  /\ \/ logged' = [logged EXCEPT ![r] = @ \cup {"response"}] /\ Finish(r, "answered")
     \/ UNCHANGED logged /\ Finish(r, "failed")
  /\ Release(request[r].tenant)
  /\ UNCHANGED watchVars

-----------------------------------------------------------------------------
(* A streamed answer: the stream owns the permit.                          *)

\* The prefix passes: its entry is best effort, then the bytes are released.
release_prefix(r) ==
  /\ request[r].at = "prefix"
  /\ \/ logged' = [logged EXCEPT ![r] = @ \cup {"response"}]
     \/ UNCHANGED logged
  /\ request' = [request EXCEPT ![r].at = "stream"]
  /\ UNCHANGED <<watchVars, free>>

\* The prefix is denied: a deny entry, an error to the client, and the end.
withhold_prefix(r) ==
  /\ request[r].at = "prefix"
  /\ \/ logged' = [logged EXCEPT ![r] = @ \cup {"response_deny"}]
     \/ UNCHANGED logged
  /\ Finish(r, "withheld") /\ Release(request[r].tenant)
  /\ UNCHANGED watchVars

\* The stream ends or breaks, or the client goes away, prefix seen or not.
stream_over(r) ==
  /\ request[r].at \in {"prefix", "stream"}
  /\ Finish(r, "answered") /\ Release(request[r].tenant)
  /\ UNCHANGED <<watchVars, logged>>

-----------------------------------------------------------------------------
Handle(r) ==
  \/ bad_body(r) \/ authenticate_fails(r)
  \/ \E t \in Tenants :
       punished_tenant(r, t) \/ authorize_denies(r, t) \/ acquire_fails(r, t) \/ inspect(r, t)
  \/ record_audit(r) \/ record_audit_fails(r) \/ report_event(r) \/ inspected(r)
  \/ upstream_fails(r) \/ forward(r) \/ withhold(r) \/ answer(r)
  \/ release_prefix(r) \/ withhold_prefix(r) \/ stream_over(r)

GatewayNext ==
  \/ \E r \in Requests : Handle(r)
  \/ (WallPasses \/ Dispatch) /\ UNCHANGED gatewayVars

edgeVars == <<watchVars, gatewayVars>>

GatewaySpec == WatchInit /\ GatewayInit /\ [][GatewayNext]_edgeVars

-----------------------------------------------------------------------------
GatewayTypeOK ==
  /\ WatchTypeOK
  /\ \A r \in Requests : request[r].at \in
       {"new", "audit", "events", "forward", "read", "prefix", "stream", "over"}
  /\ \A t \in Tenants : free[t] \in 0..max_concurrent[t]
  /\ logged \in [Requests -> SUBSET {"deny", "allow", "redacted", "response", "response_deny"}]

AtUpstream(r) == request[r].at \in {"forward", "read", "prefix", "stream"}

\* Nothing reaches the model, and nothing comes back from it, without a
\* permission in the tenant's audit chain: a disk that fails closes the gate.
ForwardedIsAudited ==
  \A r \in Requests :
    AtUpstream(r) \/ (request[r].at = "over" /\ request[r].outcome \in {"answered", "withheld"})
      => logged[r] \cap {"allow", "redacted"} # {}

\* The model works for no more of a tenant's requests than its plan allows,
\* open streams included, and no way out of the handler leaks a permit.
PermitsBalance ==
  \A t \in Tenants :
    free[t] + Cardinality({r \in Requests :
      \/ AtUpstream(r) /\ request[r].tenant = t
      \/ /\ request[r].at \in {"audit", "events"}
         /\ request[r].permit /\ request[r].tenant = t}) = max_concurrent[t]

\* An answer the guard withholds leaves an entry that says so.
WithheldIsAudited ==
  \A r \in Requests :
    request[r].at = "over" /\ request[r].outcome = "withheld"
      => "response_deny" \in logged[r]
============================================================================
