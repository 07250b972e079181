--------------------------- MODULE Gateway_proofs ---------------------------
(***************************************************************************)
(* Proofs about Gateway for every set of tenants, requests, rules and      *)
(* plans: no way through the handler and the stream loses or doubles a     *)
(* permit, nothing is forwarded without its audit entry, and no automatic  *)
(* action lifts the revocation of a key.                                   *)
(***************************************************************************)
EXTENDS Gateway, AuditVerify, TLAPS, FiniteSetTheorems, WellFoundedInduction

Upstream  == {"forward", "read", "prefix", "stream"}
Decisions == {"deny", "allow", "redacted"}
Passed    == {"allow", "redacted"}

(* What the events of the handler are about.                               *)
Categories == {"auth", "info", "suspended", "policy_violation", "concurrency",
               "prompt_injection", "pii_exfiltration", "extraction_watch", "extraction"}

(* The records a request can be, by how far it is.                         *)
RequestRecord ==
  [at : {"new"}]
  \cup [at : {"over"}, outcome : {"refused", "failed", "withheld", "answered"}]
  \cup [at : {"audit", "events"}, tenant : Tenants \cup {Everyone}, decision : Decisions,
        events : Seq(Categories), permit : BOOLEAN]
  \cup [at : Upstream, tenant : Tenants]

RequestTyped == request \in [Requests -> RequestRecord] /\ free \in [Tenants -> Nat]
                /\ logged \in [Requests -> SUBSET {"deny", "allow", "redacted", "response", "response_deny"}]

(* A request in state q holds a permit of tenant t.                        *)
Holding(q, t) ==
  \/ q.at \in Upstream /\ q.tenant = t
  \/ q.at \in {"audit", "events"} /\ q.permit /\ q.tenant = t

(* Only a tenant's own permits are held, and a request that is not denied  *)
(* holds one.                                                              *)
PermitOK(q) ==
  q.at \in {"audit", "events"} => \/ q.permit /\ q.tenant \in Tenants
                                  \/ ~q.permit /\ q.decision = "deny"

Balanced ==
  \A t \in Tenants :
    free[t] + Cardinality({r \in Requests : Holding(request[r], t)}) = max_concurrent[t]

(* What was let through has its entry before its events are reported.      *)
AuditedOK(q, entries) ==
  \/ q.at \in Upstream
  \/ q.at = "events" /\ q.decision # "deny"
  \/ q.at = "over" /\ q.outcome \in {"answered", "withheld"}
  => entries \cap Passed # {}

IInv == /\ RequestTyped
        /\ \A r \in Requests : PermitOK(request[r]) /\ AuditedOK(request[r], logged[r])
        /\ Balanced

-----------------------------------------------------------------------------
(* The properties are readings of the invariant.                           *)
LEMMA InvariantSuffices == IInv => PermitsBalance /\ ForwardedIsAudited
<1> SUFFICES ASSUME IInv PROVE PermitsBalance /\ ForwardedIsAudited
  OBVIOUS
<1>1. ASSUME NEW t \in Tenants
      PROVE  {r \in Requests : Holding(request[r], t)} =
             {r \in Requests : \/ AtUpstream(r) /\ request[r].tenant = t
                               \/ /\ request[r].at \in {"audit", "events"}
                                  /\ request[r].permit /\ request[r].tenant = t}
  BY DEF Holding, AtUpstream, Upstream
<1>2. PermitsBalance
  BY <1>1 DEF IInv, Balanced, PermitsBalance
<1>3. ForwardedIsAudited
  BY DEF IInv, AuditedOK, ForwardedIsAudited, AtUpstream, Upstream, Passed
<1>4. QED
  BY <1>2, <1>3

-----------------------------------------------------------------------------
(* How the balance moves when request r goes over into state q: it holds   *)
(* what it held, takes a permit, or gives its permit back.                 *)
LEMMA BalanceKept ==
  ASSUME RequestTyped, Balanced, NEW r \in Requests, NEW q,
         request' = [request EXCEPT ![r] = q], free' = free,
         \A t \in Tenants : Holding(q, t) <=> Holding(request[r], t)
  PROVE  Balanced'
<1>1. ASSUME NEW t \in Tenants
      PROVE  {s \in Requests : Holding(request'[s], t)} = {s \in Requests : Holding(request[s], t)}
  <2>1. \A s \in Requests : Holding(request'[s], t) <=> Holding(request[s], t)
    BY DEF RequestTyped
  <2>2. QED
    BY <2>1
<1>2. QED
  BY <1>1 DEF Balanced, Holding

LEMMA BalanceTakes ==
  ASSUME RequestTyped, Balanced, NEW r \in Requests, NEW q, NEW u \in Tenants,
         request' = [request EXCEPT ![r] = q], free' = [free EXCEPT ![u] = @ - 1], free[u] > 0,
         \A t \in Tenants : ~Holding(request[r], t),
         \A t \in Tenants : Holding(q, t) <=> t = u
  PROVE  Balanced'
<1> DEFINE H(t)  == {s \in Requests : Holding(request[s], t)}
           Hn(t) == {s \in Requests : Holding(request'[s], t)}
<1>1. \A s \in Requests : request'[s] = IF s = r THEN q ELSE request[s]
  BY DEF RequestTyped
<1>2. ASSUME NEW t \in Tenants PROVE IsFiniteSet(H(t)) /\ r \notin H(t)
  BY GatewayAssumption, FS_Subset
<1>3. ASSUME NEW t \in Tenants, t # u PROVE Hn(t) = H(t) /\ free'[t] = free[t]
  BY <1>1, <1>3 DEF RequestTyped
<1>4. Hn(u) = H(u) \cup {r}
  BY <1>1
<1>5. Cardinality(Hn(u)) = Cardinality(H(u)) + 1 /\ Cardinality(H(u)) \in Nat
  BY <1>2, <1>4, FS_AddElement, FS_CardinalityType
<1>6. free'[u] = free[u] - 1 /\ free[u] \in Nat
  BY DEF RequestTyped
<1>7. ASSUME NEW t \in Tenants PROVE free'[t] + Cardinality(Hn(t)) = max_concurrent[t]
  <2>1. free[t] + Cardinality(H(t)) = max_concurrent[t]
    BY DEF Balanced
  <2>2. CASE t = u
    BY <1>5, <1>6, <2>1, <2>2
  <2>3. CASE t # u
    BY <1>3, <2>1, <2>3
  <2>4. QED
    BY <2>2, <2>3
<1>8. QED
  BY <1>7 DEF Balanced, Holding

LEMMA BalanceGives ==
  ASSUME RequestTyped, Balanced, NEW r \in Requests, NEW q, NEW u \in Tenants,
         request' = [request EXCEPT ![r] = q], free' = [free EXCEPT ![u] = @ + 1],
         \A t \in Tenants : ~Holding(q, t),
         \A t \in Tenants : Holding(request[r], t) <=> t = u
  PROVE  Balanced'
<1> DEFINE H(t)  == {s \in Requests : Holding(request[s], t)}
           Hn(t) == {s \in Requests : Holding(request'[s], t)}
<1>1. \A s \in Requests : request'[s] = IF s = r THEN q ELSE request[s]
  BY DEF RequestTyped
<1>2. IsFiniteSet(H(u)) /\ r \in H(u)
  BY GatewayAssumption, FS_Subset
<1>3. ASSUME NEW t \in Tenants, t # u PROVE Hn(t) = H(t) /\ free'[t] = free[t]
  BY <1>1, <1>3 DEF RequestTyped
<1>4. Hn(u) = H(u) \ {r}
  BY <1>1
<1>5. Cardinality(Hn(u)) = Cardinality(H(u)) - 1 /\ Cardinality(H(u)) \in Nat
  BY <1>2, <1>4, FS_RemoveElement, FS_CardinalityType
<1>6. free'[u] = free[u] + 1 /\ free[u] \in Nat
  BY DEF RequestTyped
<1>7. ASSUME NEW t \in Tenants PROVE free'[t] + Cardinality(Hn(t)) = max_concurrent[t]
  <2>1. free[t] + Cardinality(H(t)) = max_concurrent[t]
    BY DEF Balanced
  <2>2. CASE t = u
    BY <1>5, <1>6, <2>1, <2>2
  <2>3. CASE t # u
    BY <1>3, <2>1, <2>3
  <2>4. QED
    BY <2>2, <2>3
<1>8. QED
  BY <1>7 DEF Balanced, Holding

(* Request r goes over into the well-formed state q.                       *)
LEMMA GoesOver ==
  ASSUME IInv, NEW r \in Requests, NEW q \in RequestRecord, PermitOK(q),
         request' = [request EXCEPT ![r] = q], free' \in [Tenants -> Nat],
         NEW entries \in SUBSET {"deny", "allow", "redacted", "response", "response_deny"},
         logged' = [logged EXCEPT ![r] = entries], AuditedOK(q, entries), Balanced'
  PROVE  IInv'
BY DEF IInv, RequestTyped, PermitOK, AuditedOK

-----------------------------------------------------------------------------
(* The ways a request goes on, by what becomes of its permit.              *)
LEMMA KeepsPermit ==
  ASSUME IInv, NEW r \in Requests, NEW q \in RequestRecord, PermitOK(q),
         request' = [request EXCEPT ![r] = q], free' = free,
         \A t \in Tenants : Holding(q, t) <=> Holding(request[r], t),
         NEW entries \in SUBSET {"deny", "allow", "redacted", "response", "response_deny"},
         logged' = [logged EXCEPT ![r] = entries], AuditedOK(q, entries)
  PROVE  IInv'
<1>1. Balanced'
  BY BalanceKept DEF IInv
<1>2. free' \in [Tenants -> Nat]
  BY DEF IInv, RequestTyped
<1>3. QED
  BY <1>1, <1>2, GoesOver

(* Ending a request that holds a permit gives it back.                     *)
LEMMA EndsHolding ==
  ASSUME IInv, NEW r \in Requests, NEW u \in Tenants,
         \A t \in Tenants : Holding(request[r], t) <=> t = u,
         NEW outcome \in {"refused", "failed", "withheld", "answered"},
         Finish(r, outcome), Release(u),
         NEW entries \in SUBSET {"deny", "allow", "redacted", "response", "response_deny"},
         logged' = [logged EXCEPT ![r] = entries],
         outcome \in {"answered", "withheld"} => entries \cap Passed # {}
  PROVE  IInv'
<1> DEFINE q == Over(outcome)
<1>1. q \in RequestRecord /\ PermitOK(q) /\ q.at = "over" /\ q.outcome = outcome
  BY DEF Over, RequestRecord, PermitOK
<1>2. \A t \in Tenants : ~Holding(q, t)
  BY <1>1 DEF Holding, Upstream
<1>3. AuditedOK(q, entries)
  BY <1>1 DEF AuditedOK, Upstream
<1>4. request' = [request EXCEPT ![r] = q]
  BY DEF Finish
<1>5. free' = [free EXCEPT ![u] = @ + 1] /\ free' \in [Tenants -> Nat]
  BY DEF Release, IInv, RequestTyped
<1> HIDE DEF q
<1>6. Balanced'
  BY <1>2, <1>4, <1>5, BalanceGives DEF IInv
<1>7. QED
  BY <1>1, <1>3, <1>4, <1>5, <1>6, GoesOver

(* A request at the model, or reading its answer, holds its tenant's       *)
(* permit and no other.                                                    *)
LEMMA UpstreamHolds ==
  ASSUME IInv, NEW r \in Requests, request[r].at \in Upstream
  PROVE  /\ request[r].tenant \in Tenants
         /\ \A t \in Tenants : Holding(request[r], t) <=> t = request[r].tenant
         /\ request[r] \in [at : Upstream, tenant : Tenants]
         /\ logged[r] \cap Passed # {}
<1>1. request[r] \in RequestRecord
  BY DEF IInv, RequestTyped
<1>2. request[r] \in [at : Upstream, tenant : Tenants]
  BY <1>1 DEF RequestRecord, Upstream
<1>3. request[r].tenant \in Tenants
  BY <1>2
<1>4. \A t \in Tenants : Holding(request[r], t) <=> t = request[r].tenant
  BY DEF Holding, Upstream
<1>5. logged[r] \cap Passed # {}
  BY DEF IInv, AuditedOK
<1>6. QED
  BY <1>2, <1>3, <1>4, <1>5

(* A request that is being audited, or whose events are reported.          *)
LEMMA InspectedShape ==
  ASSUME IInv, NEW r \in Requests, request[r].at \in {"audit", "events"}
  PROVE  request[r] \in [at : {"audit", "events"}, tenant : Tenants \cup {Everyone},
                         decision : Decisions, events : Seq(Categories), permit : BOOLEAN]
BY DEF IInv, RequestTyped, RequestRecord, Upstream

(* An unknown entry changes nothing.                                       *)
LEMMA NoEntry ==
  ASSUME IInv, NEW r \in Requests
  PROVE  /\ logged = [logged EXCEPT ![r] = logged[r]]
         /\ logged[r] \in SUBSET {"deny", "allow", "redacted", "response", "response_deny"}
BY DEF IInv, RequestTyped

-----------------------------------------------------------------------------
(* The actions before the request is forwarded.                            *)

(* A refusal without a permit.                                             *)
LEMMA RefusingSound ==
  ASSUME IInv, NEW r \in Requests, request[r].at = "new",
         NEW t \in Tenants \cup {Everyone}, NEW category \in Categories,
         Refusing(r, t, category), UNCHANGED <<free, logged>>
  PROVE  IInv'
<1> DEFINE q == [at |-> "audit", tenant |-> t, decision |-> "deny",
                 events |-> <<category>>, permit |-> FALSE]
<1>1. q \in RequestRecord
  <2>1. <<category>> \in Seq(Categories)
    OBVIOUS
  <2>2. QED
    BY <2>1 DEF RequestRecord, Decisions
<1>2. PermitOK(q) /\ AuditedOK(q, logged[r])
  BY DEF PermitOK, AuditedOK, Upstream
<1>3. \A u \in Tenants : ~Holding(q, u) /\ ~Holding(request[r], u)
  BY DEF Holding, Upstream
<1>4. request' = [request EXCEPT ![r] = q]
  BY DEF Refusing
<1> HIDE DEF q
<1>5. QED
  BY <1>1, <1>2, <1>3, <1>4, NoEntry, KeepsPermit

LEMMA EarlySound ==
  ASSUME IInv, NEW r \in Requests,
         \/ bad_body(r) \/ authenticate_fails(r)
         \/ \E t \in Tenants : punished_tenant(r, t) \/ authorize_denies(r, t) \/ acquire_fails(r, t)
  PROVE  IInv'
<1>1. CASE bad_body(r)
  <2> DEFINE q == Over("refused")
  <2>1. q \in RequestRecord /\ PermitOK(q) /\ AuditedOK(q, logged[r])
    BY DEF Over, RequestRecord, PermitOK, AuditedOK, Upstream
  <2>2. \A u \in Tenants : ~Holding(q, u) /\ ~Holding(request[r], u)
    BY <1>1 DEF Holding, Upstream, bad_body, Over
  <2>3. request' = [request EXCEPT ![r] = q] /\ UNCHANGED <<free, logged>>
    BY <1>1 DEF bad_body, Finish
  <2> HIDE DEF q
  <2>4. QED
    BY <2>1, <2>2, <2>3, NoEntry, KeepsPermit
<1>2. CASE authenticate_fails(r)
  BY <1>2, RefusingSound DEF authenticate_fails, Anonymous, Categories
<1>3. ASSUME NEW t \in Tenants, punished_tenant(r, t) \/ authorize_denies(r, t) \/ acquire_fails(r, t)
      PROVE  IInv'
  BY <1>3, RefusingSound
  DEF punished_tenant, authorize_denies, acquire_fails, Cleared, Categories
<1>4. QED
  BY <1>1, <1>2, <1>3

(* The permit is taken.                                                    *)
LEMMA InspectSound ==
  ASSUME IInv, NEW r \in Requests, NEW u \in Tenants, inspect(r, u)
  PROVE  IInv'
<1>1. PICK verdict \in [decision : {"deny", "allow", "redacted"},
                       extraction : {"none", "extraction_watch", "extraction"}] :
        request' = [request EXCEPT ![r] =
          [at |-> "audit", tenant |-> u, decision |-> verdict.decision,
           events |-> IF verdict.decision = "deny" THEN <<"prompt_injection">>
                    ELSE (IF verdict.decision = "redacted" THEN <<"pii_exfiltration">> ELSE <<>>)
                         \o (IF verdict.extraction # "none" THEN <<verdict.extraction>> ELSE <<>>),
           permit |-> TRUE]]
  BY DEF inspect
<1> DEFINE found == IF verdict.decision = "deny" THEN <<"prompt_injection">>
                    ELSE (IF verdict.decision = "redacted" THEN <<"pii_exfiltration">> ELSE <<>>)
                         \o (IF verdict.extraction # "none" THEN <<verdict.extraction>> ELSE <<>>)
           q == [at |-> "audit", tenant |-> u, decision |-> verdict.decision,
                 events |-> found, permit |-> TRUE]
<1>2. found \in Seq(Categories)
  <2> DEFINE pii  == IF verdict.decision = "redacted" THEN <<"pii_exfiltration">> ELSE <<>>
             tail == IF verdict.extraction # "none" THEN <<verdict.extraction>> ELSE <<>>
  <2>1. <<"prompt_injection">> \in Seq(Categories)
    BY DEF Categories
  <2>2. pii \in Seq(Categories)
    <3>1. "pii_exfiltration" \in Categories
      BY DEF Categories
    <3>2. <<"pii_exfiltration">> \in Seq(Categories) /\ <<>> \in Seq(Categories)
      BY <3>1
    <3>3. QED
      BY <3>2
  <2>3. tail \in Seq(Categories)
    <3>1. verdict.extraction # "none" => verdict.extraction \in Categories
      BY DEF Categories
    <3>2. QED
      BY <3>1
  <2> HIDE DEF pii, tail
  <2>4. pii \o tail \in Seq(Categories)
    BY <2>2, <2>3
  <2>5. QED
    BY <2>1, <2>4 DEF pii, tail
<1>3. request' = [request EXCEPT ![r] = q]
  BY <1>1
<1> HIDE DEF found
<1>4. q \in RequestRecord
  BY <1>2 DEF RequestRecord, Decisions
<1>5. PermitOK(q) /\ AuditedOK(q, logged[r]) /\ \A t \in Tenants : Holding(q, t) <=> t = u
  BY DEF PermitOK, AuditedOK, Holding, Upstream
<1> HIDE DEF q
<1>6. /\ free' = [free EXCEPT ![u] = @ - 1] /\ free[u] > 0 /\ UNCHANGED logged
      /\ \A t \in Tenants : ~Holding(request[r], t)
  BY DEF inspect, Cleared, Holding, Upstream
<1>7. Balanced'
  BY <1>3, <1>5, <1>6, BalanceTakes DEF IInv
<1>8. free' \in [Tenants -> Nat]
  BY <1>6 DEF IInv, RequestTyped
<1>9. QED
  BY <1>3, <1>4, <1>5, <1>6, <1>7, <1>8, NoEntry, GoesOver

-----------------------------------------------------------------------------
(* The audit entry, the events and the forwarding.                         *)

LEMMA RecordAuditSound ==
  ASSUME IInv, NEW r \in Requests, record_audit(r)
  PROVE  IInv'
<1> DEFINE q == [request[r] EXCEPT !.at = "events"]
           entries == logged[r] \cup {request[r].decision}
<1>1. request[r] \in [at : {"audit", "events"}, tenant : Tenants \cup {Everyone},
                     decision : Decisions, events : Seq(Categories), permit : BOOLEAN]
  BY InspectedShape DEF record_audit
<1>2. /\ q \in RequestRecord /\ q.at = "events" /\ q.tenant = request[r].tenant
      /\ q.decision = request[r].decision /\ q.permit = request[r].permit
  BY <1>1 DEF RequestRecord
<1>3. request' = [request EXCEPT ![r] = q] /\ UNCHANGED free
      /\ logged' = [logged EXCEPT ![r] = entries] /\ request[r].at = "audit"
  BY DEF record_audit, IInv, RequestTyped
<1>4. entries \in SUBSET {"deny", "allow", "redacted", "response", "response_deny"}
  BY <1>1 DEF Decisions, IInv, RequestTyped
<1>5. AuditedOK(q, entries)
  BY <1>1, <1>2 DEF AuditedOK, Decisions, Passed, Upstream
<1> HIDE DEF q, entries
<1>6. PermitOK(q) /\ \A t \in Tenants : Holding(q, t) <=> Holding(request[r], t)
  BY <1>2, <1>3 DEF PermitOK, Holding, IInv, Upstream
<1>7. QED
  BY <1>2, <1>3, <1>4, <1>5, <1>6, KeepsPermit

LEMMA ReportEventSound ==
  ASSUME IInv, NEW r \in Requests, report_event(r)
  PROVE  IInv'
<1> DEFINE q == [request[r] EXCEPT !.events = Tail(@)]
<1>1. /\ request[r] \in [at : {"audit", "events"}, tenant : Tenants \cup {Everyone},
                        decision : Decisions, events : Seq(Categories), permit : BOOLEAN]
      /\ request[r].events # <<>> /\ request[r].at = "events"
  BY InspectedShape DEF report_event
<1>2. Tail(request[r].events) \in Seq(Categories)
  BY <1>1
<1>3. /\ q \in RequestRecord /\ q.at = "events" /\ q.tenant = request[r].tenant
      /\ q.decision = request[r].decision /\ q.permit = request[r].permit
  BY <1>1, <1>2 DEF RequestRecord
<1>4. request' = [request EXCEPT ![r] = q] /\ UNCHANGED <<free, logged>>
  BY DEF report_event, IInv, RequestTyped
<1> HIDE DEF q
<1>5. PermitOK(q) /\ AuditedOK(q, logged[r])
      /\ \A t \in Tenants : Holding(q, t) <=> Holding(request[r], t)
  BY <1>1, <1>3 DEF PermitOK, AuditedOK, Holding, IInv, Upstream
<1>6. QED
  BY <1>3, <1>4, <1>5, NoEntry, KeepsPermit

(* A request that ends before it is forwarded: the permit it may hold is   *)
(* that of its tenant.                                                     *)
LEMMA EndsInspected ==
  ASSUME IInv, NEW r \in Requests, request[r].at \in {"audit", "events"},
         NEW outcome \in {"refused", "failed"}, Finish(r, outcome),
         IF request[r].permit THEN Release(request[r].tenant) ELSE UNCHANGED free,
         UNCHANGED logged
  PROVE  IInv'
<1> DEFINE q == Over(outcome)
<1>1. q \in RequestRecord /\ PermitOK(q) /\ AuditedOK(q, logged[r])
      /\ \A t \in Tenants : ~Holding(q, t)
  BY DEF Over, RequestRecord, PermitOK, AuditedOK, Holding, Upstream
<1>2. request' = [request EXCEPT ![r] = q]
  BY DEF Finish
<1> HIDE DEF q
<1>3. CASE request[r].permit
  <2>1. request[r].tenant \in Tenants /\ \A t \in Tenants : Holding(request[r], t) <=> t = request[r].tenant
    BY <1>3 DEF IInv, PermitOK, Holding, Upstream
  <2>2. Release(request[r].tenant)
    BY <1>3
  <2>3. /\ logged' = [logged EXCEPT ![r] = logged[r]]
        /\ logged[r] \in SUBSET {"deny", "allow", "redacted", "response", "response_deny"}
    BY NoEntry
  <2>4. /\ outcome \in {"refused", "failed", "withheld", "answered"}
        /\ outcome \in {"answered", "withheld"} => logged[r] \cap Passed # {}
    OBVIOUS
  <2>5. QED
    BY <2>1, <2>2, <2>3, <2>4, EndsHolding
<1>4. CASE ~request[r].permit
  <2>1. \A t \in Tenants : ~Holding(request[r], t)
    BY <1>4 DEF Holding, Upstream
  <2>2. QED
    BY <1>1, <1>2, <1>4, <2>1, NoEntry, KeepsPermit
<1>5. QED
  BY <1>3, <1>4

LEMMA InspectedSound ==
  ASSUME IInv, NEW r \in Requests, inspected(r)
  PROVE  IInv'
<1>1. request[r].at = "events" /\ UNCHANGED logged
  BY DEF inspected
<1>2. CASE request[r].decision = "deny"
  BY <1>1, <1>2, EndsInspected DEF inspected
<1>3. CASE request[r].decision # "deny"
  <2> DEFINE q == [at |-> "forward", tenant |-> request[r].tenant]
  <2>1. request[r].permit /\ request[r].tenant \in Tenants /\ logged[r] \cap Passed # {}
    BY <1>1, <1>3 DEF IInv, PermitOK, AuditedOK
  <2>2. request' = [request EXCEPT ![r] = q] /\ UNCHANGED free
    BY <1>3 DEF inspected, IInv, RequestTyped
  <2>3. q \in RequestRecord /\ PermitOK(q) /\ AuditedOK(q, logged[r])
        /\ \A t \in Tenants : Holding(q, t) <=> Holding(request[r], t)
    BY <1>1, <2>1 DEF RequestRecord, PermitOK, AuditedOK, Holding, Upstream
  <2> HIDE DEF q
  <2>4. QED
    BY <1>1, <2>2, <2>3, NoEntry, KeepsPermit
<1>4. QED
  BY <1>2, <1>3

(* A step further of a request that keeps its permit: to reading the       *)
(* answer, or from the prefix of a stream to the rest.                     *)
LEMMA FurtherSound ==
  ASSUME IInv, NEW r \in Requests, request[r].at \in Upstream, NEW kind \in Upstream,
         request' = [request EXCEPT ![r].at = kind], UNCHANGED free,
         NEW entries \in SUBSET {"deny", "allow", "redacted", "response", "response_deny"},
         logged[r] \subseteq entries, logged' = [logged EXCEPT ![r] = entries]
  PROVE  IInv'
<1> DEFINE q == [request[r] EXCEPT !.at = kind]
<1>1. request[r] \in [at : Upstream, tenant : Tenants] /\ logged[r] \cap Passed # {}
  BY UpstreamHolds
<1>2. q \in RequestRecord /\ q.at = kind /\ q.tenant = request[r].tenant
  BY <1>1 DEF RequestRecord
<1>3. request' = [request EXCEPT ![r] = q]
  BY DEF IInv, RequestTyped
<1> HIDE DEF q
<1>4. PermitOK(q) /\ AuditedOK(q, entries) /\ \A t \in Tenants : Holding(q, t) <=> Holding(request[r], t)
  BY <1>1, <1>2 DEF PermitOK, AuditedOK, Holding, Upstream
<1>5. QED
  BY <1>2, <1>3, <1>4, KeepsPermit

(* A request at the model that ends gives its permit back.                 *)
LEMMA UpstreamEnds ==
  ASSUME IInv, NEW r \in Requests, request[r].at \in Upstream,
         NEW outcome \in {"failed", "withheld", "answered"}, Finish(r, outcome),
         Release(request[r].tenant),
         NEW entries \in SUBSET {"deny", "allow", "redacted", "response", "response_deny"},
         logged[r] \subseteq entries, logged' = [logged EXCEPT ![r] = entries]
  PROVE  IInv'
<1>1. /\ request[r].tenant \in Tenants /\ logged[r] \cap Passed # {}
      /\ \A t \in Tenants : Holding(request[r], t) <=> t = request[r].tenant
  BY UpstreamHolds
<1>2. entries \cap Passed # {}
  BY <1>1
<1>3. QED
  BY <1>1, <1>2, EndsHolding

LEMMA LateSound ==
  ASSUME IInv, NEW r \in Requests,
         upstream_fails(r) \/ forward(r) \/ withhold(r) \/ answer(r)
         \/ release_prefix(r) \/ withhold_prefix(r) \/ stream_over(r)
  PROVE  IInv'
<1> DEFINE with(e) == logged[r] \cup {e}
<1>1. request[r].at \in Upstream
  BY DEF upstream_fails, forward, withhold, answer, release_prefix, withhold_prefix,
         stream_over, Upstream
<1>2. /\ logged = [logged EXCEPT ![r] = logged[r]]
      /\ \A e \in {"response", "response_deny"} :
           /\ with(e) \in SUBSET {"deny", "allow", "redacted", "response", "response_deny"}
           /\ [logged EXCEPT ![r] = @ \cup {e}] = [logged EXCEPT ![r] = with(e)]
      /\ logged[r] \in SUBSET {"deny", "allow", "redacted", "response", "response_deny"}
  BY DEF IInv, RequestTyped
<1>3. CASE upstream_fails(r)
  BY <1>1, <1>2, <1>3, UpstreamEnds DEF upstream_fails
<1>4. CASE forward(r)
  BY <1>1, <1>2, <1>4, FurtherSound DEF forward, Upstream
<1>5. CASE withhold(r)
  BY <1>1, <1>2, <1>5, UpstreamEnds DEF withhold
<1>6. CASE answer(r)
  <2>1. CASE logged' = [logged EXCEPT ![r] = @ \cup {"response"}] /\ Finish(r, "answered")
    BY <1>1, <1>2, <1>6, <2>1, UpstreamEnds DEF answer
  <2>2. CASE UNCHANGED logged /\ Finish(r, "failed")
    BY <1>1, <1>2, <1>6, <2>2, UpstreamEnds DEF answer
  <2>3. QED
    BY <1>6, <2>1, <2>2 DEF answer
<1>7. CASE release_prefix(r)
  <2>1. CASE logged' = [logged EXCEPT ![r] = @ \cup {"response"}]
    BY <1>1, <1>2, <1>7, <2>1, FurtherSound DEF release_prefix, Upstream
  <2>2. CASE UNCHANGED logged
    BY <1>1, <1>2, <1>7, <2>2, FurtherSound DEF release_prefix, Upstream
  <2>3. QED
    BY <1>7, <2>1, <2>2 DEF release_prefix
<1>8. CASE withhold_prefix(r)
  <2>1. CASE logged' = [logged EXCEPT ![r] = @ \cup {"response_deny"}]
    BY <1>1, <1>2, <1>8, <2>1, UpstreamEnds DEF withhold_prefix
  <2>2. CASE UNCHANGED logged
    BY <1>1, <1>2, <1>8, <2>2, UpstreamEnds DEF withhold_prefix
  <2>3. QED
    BY <1>8, <2>1, <2>2 DEF withhold_prefix
<1>9. CASE stream_over(r)
  BY <1>1, <1>2, <1>9, UpstreamEnds DEF stream_over
<1>10. QED
  BY <1>3, <1>4, <1>5, <1>6, <1>7, <1>8, <1>9

-----------------------------------------------------------------------------
LEMMA InitSound == GatewayInit => IInv
<1> SUFFICES ASSUME GatewayInit PROVE IInv
  OBVIOUS
<1>1. RequestTyped
  BY GatewayAssumption DEF GatewayInit, RequestTyped, RequestRecord, NewRequest
<1>2. \A r \in Requests : PermitOK(request[r]) /\ AuditedOK(request[r], logged[r])
  BY DEF GatewayInit, NewRequest, PermitOK, AuditedOK, Upstream
<1>3. Balanced
  <2>1. ASSUME NEW t \in Tenants PROVE {r \in Requests : Holding(request[r], t)} = {}
    BY DEF GatewayInit, NewRequest, Holding, Upstream
  <2>2. QED
    BY <2>1, FS_EmptySet, GatewayAssumption DEF Balanced, GatewayInit
<1>4. QED
  BY <1>1, <1>2, <1>3 DEF IInv

LEMMA StepSound == IInv /\ [GatewayNext]_edgeVars => IInv'
<1> SUFFICES ASSUME IInv, [GatewayNext]_edgeVars PROVE IInv'
  OBVIOUS
<1>1. ASSUME NEW r \in Requests, Handle(r) PROVE IInv'
  <2>1. CASE \/ bad_body(r) \/ authenticate_fails(r)
             \/ \E t \in Tenants : punished_tenant(r, t) \/ authorize_denies(r, t) \/ acquire_fails(r, t)
    BY <2>1, EarlySound
  <2>2. CASE \E t \in Tenants : inspect(r, t)
    BY <2>2, InspectSound
  <2>3. CASE record_audit(r)
    BY <2>3, RecordAuditSound
  <2>4. CASE record_audit_fails(r)
    BY <2>4, EndsInspected DEF record_audit_fails
  <2>5. CASE report_event(r)
    BY <2>5, ReportEventSound
  <2>6. CASE inspected(r)
    BY <2>6, InspectedSound
  <2>7. CASE upstream_fails(r) \/ forward(r) \/ withhold(r) \/ answer(r)
             \/ release_prefix(r) \/ withhold_prefix(r) \/ stream_over(r)
    BY <2>7, LateSound
  <2>8. QED
    BY <1>1, <2>1, <2>2, <2>3, <2>4, <2>5, <2>6, <2>7 DEF Handle
<1>2. CASE UNCHANGED gatewayVars
  BY <1>2 DEF gatewayVars, IInv, RequestTyped, PermitOK, AuditedOK, Balanced, Holding
<1>3. QED
  BY <1>1, <1>2 DEF GatewayNext, edgeVars

(* For every number of requests and every plan, the free permits and those *)
(* held by requests and streams add up to the plan.                        *)
THEOREM PermitsAddUp == GatewaySpec => []PermitsBalance
<1>1. IInv => PermitsBalance
  BY InvariantSuffices
<1>2. QED
  BY <1>1, InitSound, StepSound, PTL DEF GatewaySpec

(* What reached the model, or came back from it, has its audit entry.      *)
THEOREM NothingUnaudited == GatewaySpec => []ForwardedIsAudited
<1>1. IInv => ForwardedIsAudited
  BY InvariantSuffices
<1>2. QED
  BY <1>1, InitSound, StepSound, PTL DEF GatewaySpec

-----------------------------------------------------------------------------
(* The punishments in force.                                               *)
Overrides == overrides \in [Tenants -> [key_revoked : BOOLEAN, until : Nat]] /\ wall \in Nat

KeysStay == \A t \in Tenants : overrides[t].key_revoked => overrides'[t].key_revoked

(* Only an action of the dispatcher writes them, and each writes one field. *)
LEMMA OverridesStep ==
  ASSUME Overrides, [GatewayNext]_edgeVars
  PROVE  Overrides' /\ KeysStay
<1> USE DEF Overrides, KeysStay
<1>1. CASE UNCHANGED <<overrides, wall>>
  BY <1>1
<1>2. CASE WallPasses
  BY <1>2 DEF WallPasses
<1>3. ASSUME NEW action, NEW t, execute(action, t), UNCHANGED wall
      PROVE  Overrides' /\ KeysStay
  <2>1. CASE t \in opted_in /\ action = "suspend"
    <3>1. overrides' = [overrides EXCEPT ![t].until = wall + suspend_duration]
      BY <1>3, <2>1 DEF execute, suspend_tenant_for
    <3>2. wall + suspend_duration \in Nat
      BY WatchtowerAssumption
    <3>3. QED
      BY <1>3, <3>1, <3>2
  <2>2. CASE t \in opted_in /\ action # "suspend"
    <3>1. overrides' = [overrides EXCEPT ![t].key_revoked = TRUE]
      BY <1>3, <2>2 DEF execute, revoke_tenant_key
    <3>2. QED
      BY <1>3, <3>1
  <2>3. CASE t \notin opted_in
    BY <1>3, <2>3 DEF execute
  <2>4. QED
    BY <2>1, <2>2, <2>3
<1>4. CASE apply_actions
  BY <1>3, <1>4 DEF apply_actions, act
<1>5. CASE recv_alert \/ deliver_fails \/ deliver_succeeds
  BY <1>1, <1>5 DEF recv_alert, deliver_fails, deliver_succeeds
<1>6. ASSUME NEW r \in Requests, Handle(r) PROVE UNCHANGED <<overrides, wall>>
  <2>1. CASE report_event(r)
    BY <2>1 DEF report_event, observe_security
  <2>2. CASE ~report_event(r)
    BY <1>6, <2>2
    DEF Handle, bad_body, authenticate_fails, punished_tenant, authorize_denies, acquire_fails,
        inspect, record_audit, record_audit_fails, inspected, upstream_fails, forward, withhold,
        answer, release_prefix, withhold_prefix, stream_over, watchVars
  <2>3. QED
    BY <2>1, <2>2
<1>7. QED
  BY <1>1, <1>2, <1>4, <1>5, <1>6 DEF GatewayNext, Dispatch, edgeVars, watchVars

(* No later action gives a revoked key back, for every set of rules.       *)
THEOREM RevocationLasts == GatewaySpec => KeyStaysRevoked
<1>1. WatchInit => Overrides
  BY DEF WatchInit, Overrides
<1>2. Overrides /\ [GatewayNext]_edgeVars => Overrides' /\ KeysStay
  BY OverridesStep
<1>3. GatewaySpec => [][KeysStay]_watchVars
  <2>1. Overrides /\ [GatewayNext]_edgeVars => [KeysStay]_watchVars
    BY <1>2
  <2>2. QED
    BY <1>1, <1>2, <2>1, PTL DEF GatewaySpec
<1>4. QED
  BY <1>3 DEF KeyStaysRevoked, KeysStay

-----------------------------------------------------------------------------
(***************************************************************************)
(* The circuit breaker of Watchtower, for every window and limit: the      *)
(* permits of one window are at most its limit.                            *)
(***************************************************************************)
(* Popping the front leaves what comes after the first few, of which none  *)
(* is still counted.                                                       *)
Popped(s, kept, k) ==
  /\ k \in 0 .. Len(s) /\ kept \in Seq(Nat) /\ Len(kept) = Len(s) - k
  /\ \A i \in 1 .. Len(kept) : kept[i] = s[i + k]
  /\ \A i \in 1 .. k : ~ Counted(s[i])

LEMMA PoppedKeeps ==
  ASSUME NEW s \in Seq(Nat), NEW kept, NEW k, Popped(s, kept, k),
         NEW w, \A i \in DOMAIN s : s[i] <= w
  PROVE  \A i \in DOMAIN kept : kept[i] <= w
<1>1. PICK n \in Nat : n = Len(s)
  OBVIOUS
<1>2. k \in 0 .. n /\ kept \in Seq(Nat) /\ Len(kept) = n - k
  BY <1>1 DEF Popped
<1>3. \A i \in 1 .. n - k : i + k \in 1 .. n
  BY <1>2
<1>4. \A i \in 1 .. n - k : kept[i] = s[i + k]
  BY <1>2 DEF Popped
<1>5. DOMAIN kept = 1 .. n - k /\ DOMAIN s = 1 .. n
  BY <1>1, <1>2
<1>6. QED
  BY <1>3, <1>4, <1>5

LEMMA Suffix ==
  ASSUME NEW s \in Seq(Nat), NEW j \in 1 .. Len(s) + 1
  PROVE  /\ SubSeq(s, j, Len(s)) \in Seq(Nat) /\ Len(SubSeq(s, j, Len(s))) = Len(s) - j + 1
         /\ \A i \in 1 .. Len(s) - j + 1 : SubSeq(s, j, Len(s))[i] = s[j + i - 1]
  OBVIOUS

LEMMA FrontPops ==
  ASSUME NEW s \in Seq(Nat)
  PROVE  \E k : Popped(s, FrontPopped(s, {i \in DOMAIN s : Counted(s[i])}), k)
<1> DEFINE T == {i \in DOMAIN s : Counted(s[i])}
           First(n) == /\ n <= Len(s) => n \in T
                       /\ \A i \in 1 .. n - 1 : i \notin T
           S == {n \in 1 .. Len(s) + 1 : n <= Len(s) => Counted(s[n])}
<1>1. \E n \in 1 .. Len(s) + 1 : First(n)
  <2>1. Len(s) + 1 \in S /\ S \subseteq Nat
    OBVIOUS
  <2> HIDE DEF S
  <2>2. PICK n \in S : \A m \in S : ~ (<<m, n>> \in OpToRel(<, Nat))
    BY <2>1, NatLessThanWellFounded, WFMin
  <2>3. \A m \in S : ~ (m < n)
    BY <2>1, <2>2 DEF OpToRel
  <2>4. n \in 1 .. Len(s) + 1 /\ (n <= Len(s) => Counted(s[n]))
    BY DEF S
  <2>5. ASSUME NEW i \in 1 .. n - 1 PROVE ~ Counted(s[i])
    <3>1. i \in 1 .. Len(s) + 1 /\ i < n
      BY <2>4
    <3>2. i \notin S
      BY <2>3, <3>1
    <3>3. QED
      BY <3>1, <3>2 DEF S
  <2>6. QED
    BY <2>4, <2>5
<1>2. PICK j : j = CHOOSE n \in 1 .. Len(s) + 1 : First(n)
  OBVIOUS
<1>3. j \in 1 .. Len(s) + 1 /\ First(j)
  <2> HIDE DEF First
  <2>1. QED
    BY <1>1, <1>2
<1>4. FrontPopped(s, T) = SubSeq(s, j, Len(s))
  BY <1>2 DEF FrontPopped
<1>5. Popped(s, SubSeq(s, j, Len(s)), j - 1)
  <2>0. j - 1 \in Nat
    BY <1>3
  <2>1. PICK kept, k : kept = SubSeq(s, j, Len(s)) /\ k \in Nat /\ k = j - 1
    BY <2>0
  <2>2. kept \in Seq(Nat) /\ Len(kept) = Len(s) - j + 1 /\ \A i \in 1 .. Len(s) - j + 1 : kept[i] = s[j + i - 1]
    BY <1>3, <2>1, Suffix
  <2>3. k \in 0 .. Len(s) /\ Len(kept) = Len(s) - k /\ \A i \in 1 .. k : ~ Counted(s[i])
    BY <1>3, <2>1, <2>2
  <2>4. ASSUME NEW i \in 1 .. Len(kept) PROVE kept[i] = s[i + k]
    <3>1. i \in 1 .. Len(s) - j + 1 /\ j + i - 1 = i + k
      BY <1>3, <2>1, <2>2
    <3>2. QED
      BY <2>2, <3>1
  <2>5. QED
    BY <2>1, <2>2, <2>3, <2>4 DEF Popped
<1>6. QED
  BY <1>4, <1>5

(* The entries of a list of times that are not before c.                   *)
From(c, s) == {j \in DOMAIN s : s[j] >= c}

LEMMA FromIsFinite ==
  ASSUME NEW s \in Seq(Nat), NEW c
  PROVE  IsFiniteSet(From(c, s)) /\ Cardinality(From(c, s)) \in Nat
         /\ Cardinality(From(c, s)) <= Len(s)
<1>1. From(c, s) \subseteq 1 .. Len(s) /\ Len(s) \in Nat
  BY DEF From
<1>2. IsFiniteSet(1 .. Len(s)) /\ Cardinality(1 .. Len(s)) = Len(s)
  <2>1. PICK n \in Nat : n = Len(s)
    BY <1>1
  <2>2. IsFiniteSet(1 .. n) /\ Cardinality(1 .. n) = IF 1 > n THEN 0 ELSE n - 1 + 1
    BY FS_Interval
  <2>3. (IF 1 > n THEN 0 ELSE n - 1 + 1) = n
    OBVIOUS
  <2>4. QED
    BY <2>1, <2>2, <2>3
<1>3. QED
  BY <1>1, <1>2, FS_Subset, FS_CardinalityType

LEMMA FromAppend ==
  ASSUME NEW s \in Seq(Nat), NEW x \in Nat, NEW c \in Int
  PROVE  Cardinality(From(c, Append(s, x)))
           = Cardinality(From(c, s)) + (IF x >= c THEN 1 ELSE 0)
<1>1. PICK t, n : t = Append(s, x) /\ n = Len(s) + 1
  OBVIOUS
<1>2. DOMAIN t = DOMAIN s \cup {n} /\ n \notin DOMAIN s /\ t[n] = x /\ \A j \in DOMAIN s : t[j] = s[j]
  BY <1>1
<1>3. IsFiniteSet(From(c, s)) /\ Cardinality(From(c, s)) \in Nat /\ n \notin From(c, s)
  BY <1>2, FromIsFinite DEF From
<1>4. CASE x >= c
  <2>1. From(c, t) = From(c, s) \cup {n}
    BY <1>2, <1>4 DEF From
  <2>2. Cardinality(From(c, t)) = Cardinality(From(c, s)) + 1
    BY <1>3, <2>1, FS_AddElement
  <2>3. QED
    BY <1>1, <1>4, <2>2
<1>5. CASE ~ (x >= c)
  <2>1. From(c, t) = From(c, s)
    BY <1>2, <1>5 DEF From
  <2>2. QED
    BY <1>1, <1>3, <1>5, <2>1
<1>6. QED
  BY <1>4, <1>5

(* What is popped leaves the entries of the window where they are.         *)
LEMMA FromPopped ==
  ASSUME NEW s \in Seq(Nat), NEW kept, NEW k, Popped(s, kept, k), wall \in Nat,
         NEW c \in Int, c >= wall - breaker_window
  PROVE  Cardinality(From(c, s)) <= Cardinality(From(c, kept))
<1>1. PICK f : f = [i \in From(c, kept) |-> i + k]
  OBVIOUS
<1>2. /\ k \in 0 .. Len(s) /\ kept \in Seq(Nat) /\ Len(kept) = Len(s) - k
      /\ \A i \in 1 .. Len(kept) : kept[i] = s[i + k]
      /\ \A i \in 1 .. k : ~ Counted(s[i])
  BY DEF Popped
<1>3. ASSUME NEW i \in From(c, kept) PROVE f[i] \in From(c, s)
  <2>1. i \in 1 .. Len(kept) /\ kept[i] >= c
    <3>1. DOMAIN kept = 1 .. Len(kept)
      BY <1>2
    <3>2. QED
      BY <3>1 DEF From
  <2>2. i + k \in 1 .. Len(s) /\ s[i + k] >= c
    <3>1. kept[i] = s[i + k]
      BY <1>2, <2>1
    <3>2. PICK n \in Nat : n = Len(s)
      OBVIOUS
    <3>3. i + k \in 1 .. n
      BY <1>2, <2>1, <3>2
    <3>4. QED
      BY <2>1, <3>1, <3>2, <3>3
  <2>3. i + k \in From(c, s)
    BY <2>2 DEF From
  <2>4. QED
    BY <1>1, <2>3
<1>4. ASSUME NEW j \in From(c, s) PROVE \E i \in From(c, kept) : f[i] = j
  <2>1. j \in 1 .. Len(s) /\ s[j] >= c /\ s[j] \in Nat
    BY DEF From
  <2>2. Counted(s[j])
    <3>1. breaker_window \in Nat
      BY WatchtowerAssumption
    <3>2. QED
      BY <2>1, <3>1 DEF Counted
  <2>3. j > k
    BY <1>2, <2>1, <2>2
  <2>4. PICK i \in 1 .. Len(kept) : i + k = j
    <3>1. j - k \in 1 .. Len(kept) /\ (j - k) + k = j
      BY <1>2, <2>1, <2>3
    <3>2. QED
      BY <3>1
  <2>5. kept[i] >= c
    BY <1>2, <2>1, <2>4
  <2>6. i \in From(c, kept)
    BY <1>2, <2>5 DEF From
  <2>7. QED
    BY <1>1, <2>4, <2>6
<1>5. f \in Surjection(From(c, kept), From(c, s))
  <2>1. f \in [From(c, kept) -> From(c, s)]
    BY <1>1, <1>3
  <2>2. QED
    BY <1>4, <2>1 DEF Surjection
<1>6. QED
  BY <1>2, <1>5, FromIsFinite, FS_Surjection

(* The breaker counts every punishment of its window, and no window that   *)
(* starts with one has held more than it permits.                          *)
BreakerInv ==
  /\ wall \in Nat /\ permits \in Seq(Nat) /\ punished \in Seq(Nat)
  /\ \A i \in DOMAIN permits : permits[i] <= wall
  /\ \A i \in DOMAIN punished : punished[i] <= wall
  /\ \A c \in Int : c >= wall - breaker_window =>
       Cardinality(From(c, punished)) <= Cardinality(From(c, permits))
  /\ BreakerHolds

LEMMA PermitTaken ==
  ASSUME BreakerInv, NEW kept, NEW k, Popped(permits, kept, k), Len(kept) < max_per_window,
         UNCHANGED wall, permits' = Append(kept, wall), punished' \in {punished, Append(punished, wall)}
  PROVE  BreakerInv'
<1>1. /\ wall \in Nat /\ permits \in Seq(Nat) /\ punished \in Seq(Nat) /\ breaker_window \in Nat
      /\ max_per_window \in Nat /\ kept \in Seq(Nat)
  BY WatchtowerAssumption DEF BreakerInv, Popped
<1>2. /\ permits' \in Seq(Nat) /\ punished' \in Seq(Nat) /\ wall' \in Nat
      /\ \A i \in DOMAIN permits' : permits'[i] <= wall'
      /\ \A i \in DOMAIN punished' : punished'[i] <= wall'
  <2>1. \A i \in DOMAIN kept : kept[i] <= wall
    BY <1>1, PoppedKeeps DEF BreakerInv
  <2>2. permits' \in Seq(Nat) /\ \A i \in DOMAIN permits' : permits'[i] <= wall
    BY <1>1, <2>1
  <2>3. \A i \in DOMAIN punished : punished[i] <= wall
    BY DEF BreakerInv
  <2>4. punished' \in Seq(Nat) /\ \A i \in DOMAIN punished' : punished'[i] <= wall
    <3>1. CASE punished' = punished
      BY <1>1, <2>3, <3>1
    <3>2. CASE punished' = Append(punished, wall)
      BY <1>1, <2>3, <3>2
    <3>3. QED
      BY <3>1, <3>2
  <2>5. QED
    BY <1>1, <2>2, <2>4
<1>3. ASSUME NEW c \in Int, c >= wall - breaker_window
      PROVE  /\ Cardinality(From(c, punished')) <= Cardinality(From(c, kept)) + (IF wall >= c THEN 1 ELSE 0)
             /\ Cardinality(From(c, permits')) = Cardinality(From(c, kept)) + (IF wall >= c THEN 1 ELSE 0)
  <2>1. Cardinality(From(c, punished)) <= Cardinality(From(c, permits))
    BY <1>3 DEF BreakerInv
  <2>2. Cardinality(From(c, permits)) <= Cardinality(From(c, kept))
    BY <1>1, <1>3, FromPopped
  <2>3. Cardinality(From(c, permits')) = Cardinality(From(c, kept)) + (IF wall >= c THEN 1 ELSE 0)
    BY <1>1, FromAppend
  <2>4. Cardinality(From(c, Append(punished, wall)))
          = Cardinality(From(c, punished)) + (IF wall >= c THEN 1 ELSE 0)
    BY <1>1, FromAppend
  <2>5. /\ Cardinality(From(c, punished)) \in Nat /\ Cardinality(From(c, permits)) \in Nat
        /\ Cardinality(From(c, kept)) \in Nat
    BY <1>1, FromIsFinite
  <2>6. PICK one \in {0, 1} : one = IF wall >= c THEN 1 ELSE 0
    OBVIOUS
  <2>7. Cardinality(From(c, punished')) <= Cardinality(From(c, kept)) + one
    <3>1. CASE punished' = punished
      BY <2>1, <2>2, <2>5, <3>1
    <3>2. CASE punished' = Append(punished, wall)
      BY <2>1, <2>2, <2>4, <2>5, <2>6, <3>2
    <3>3. QED
      BY <3>1, <3>2
  <2>8. QED
    BY <2>3, <2>6, <2>7
<1>4. ASSUME NEW c \in Int, c >= wall - breaker_window
      PROVE  Cardinality(From(c, punished')) <= max_per_window
  <2>1. PICK one \in {0, 1} : one = IF wall >= c THEN 1 ELSE 0
    OBVIOUS
  <2>2. Cardinality(From(c, punished')) <= Cardinality(From(c, kept)) + one
    BY <1>3, <1>4, <2>1
  <2>3. /\ Cardinality(From(c, kept)) \in Nat /\ Cardinality(From(c, kept)) <= Len(kept)
        /\ Cardinality(From(c, punished')) \in Nat
    BY <1>1, <1>2, FromIsFinite
  <2>4. QED
    BY <1>1, <2>2, <2>3
<1>5. BreakerHolds'
  <2>1. SUFFICES ASSUME NEW i \in 1 .. Len(punished')
                 PROVE  Cardinality({j \in 1 .. Len(punished') :
                           punished'[j] \in punished'[i] .. punished'[i] + breaker_window}) <= max_per_window
    BY DEF BreakerHolds
  <2>2. PICK c, H : /\ c = punished'[i]
                    /\ H = {j \in 1 .. Len(punished') : punished'[j] \in c .. c + breaker_window}
    OBVIOUS
  <2>3. c \in Nat
    BY <1>2, <2>2
  <2>4. Cardinality(H) <= max_per_window
    <3>1. CASE c >= wall - breaker_window
      <4>1. H \subseteq From(c, punished')
        BY <1>2, <2>2, <2>3 DEF From
      <4>2. /\ IsFiniteSet(From(c, punished')) /\ Cardinality(From(c, punished')) \in Nat
            /\ Cardinality(From(c, punished')) <= max_per_window
        BY <1>2, <1>4, <2>3, <3>1, FromIsFinite
      <4>3. IsFiniteSet(H) /\ Cardinality(H) <= Cardinality(From(c, punished')) /\ Cardinality(H) \in Nat
        BY <4>1, <4>2, FS_Subset, FS_CardinalityType
      <4>4. QED
        BY <1>1, <4>2, <4>3
    <3>2. CASE c < wall - breaker_window
      <4>1. i \in 1 .. Len(punished) /\ c = punished[i]
        <5>1. CASE punished' = punished
          BY <2>2, <5>1
        <5>2. CASE punished' = Append(punished, wall)
          <6>1. c # wall
            BY <1>1, <2>3, <3>2
          <6>2. QED
            BY <1>1, <2>2, <5>2, <6>1
        <5>3. QED
          BY <5>1, <5>2
      <4>2. H = {j \in 1 .. Len(punished) : punished[j] \in c .. c + breaker_window}
        <5>1. CASE punished' = punished
          BY <2>2, <5>1
        <5>2. CASE punished' = Append(punished, wall)
          <6>1. PICK n \in Nat : n = Len(punished)
            BY <1>1
          <6>2. Len(punished') = n + 1 /\ punished'[n + 1] = wall /\ \A j \in 1 .. n : punished'[j] = punished[j]
            BY <1>1, <5>2, <6>1
          <6>3. wall \notin c .. c + breaker_window
            BY <1>1, <2>3, <3>2
          <6>4. QED
            BY <2>2, <6>1, <6>2, <6>3
        <5>3. QED
          BY <5>1, <5>2
      <4>3. QED
        BY <4>1, <4>2 DEF BreakerInv, BreakerHolds
    <3>3. QED
      BY <1>1, <2>3, <3>1, <3>2
  <2>5. QED
    BY <2>2, <2>4
<1>6. \A c \in Int : c >= wall' - breaker_window =>
        Cardinality(From(c, punished')) <= Cardinality(From(c, permits'))
  <2>1. SUFFICES ASSUME NEW c \in Int, c >= wall - breaker_window
                 PROVE  Cardinality(From(c, punished')) <= Cardinality(From(c, permits'))
    OBVIOUS
  <2>2. QED
    BY <1>3, <2>1
<1>7. QED
  BY <1>2, <1>5, <1>6 DEF BreakerInv, From

LEMMA PermitRefused ==
  ASSUME BreakerInv, NEW kept, NEW k, Popped(permits, kept, k),
         UNCHANGED <<wall, punished>>, permits' = kept
  PROVE  BreakerInv'
<1>1. wall \in Nat /\ permits \in Seq(Nat) /\ punished \in Seq(Nat) /\ kept \in Seq(Nat)
  BY DEF BreakerInv, Popped
<1>2. \A i \in DOMAIN kept : kept[i] <= wall
  BY <1>1, PoppedKeeps DEF BreakerInv
<1>3. ASSUME NEW c \in Int, c >= wall - breaker_window
      PROVE  Cardinality(From(c, punished)) <= Cardinality(From(c, kept))
  <2>1. Cardinality(From(c, punished)) <= Cardinality(From(c, permits))
    BY <1>3 DEF BreakerInv
  <2>2. Cardinality(From(c, permits)) <= Cardinality(From(c, kept))
    BY <1>1, <1>3, FromPopped
  <2>3. /\ Cardinality(From(c, punished)) \in Nat /\ Cardinality(From(c, permits)) \in Nat
        /\ Cardinality(From(c, kept)) \in Nat
    BY <1>1, FromIsFinite
  <2>4. QED
    BY <2>1, <2>2, <2>3
<1>4. BreakerHolds'
  BY DEF BreakerInv, BreakerHolds
<1>5. QED
  BY <1>1, <1>2, <1>3, <1>4 DEF BreakerInv, From

LEMMA BreakerInvInit == WatchInit => BreakerInv
<1> SUFFICES ASSUME WatchInit PROVE BreakerInv
  OBVIOUS
<1>1. permits = <<>> /\ punished = <<>> /\ wall = 0
  BY DEF WatchInit
<1>2. \A c : From(c, permits) = From(c, punished)
  BY <1>1
<1>3. \A c : Cardinality(From(c, <<>>)) <= Cardinality(From(c, <<>>))
  <2>1. <<>> \in Seq(Nat)
    OBVIOUS
  <2>2. ASSUME NEW c PROVE Cardinality(From(c, <<>>)) <= Cardinality(From(c, <<>>))
    <3>1. PICK n : n = Cardinality(From(c, <<>>))
      OBVIOUS
    <3>2. n \in Nat
      BY <2>1, <3>1, FromIsFinite
    <3>3. QED
      BY <3>1, <3>2
  <2>3. QED
    BY <2>2
<1>4. QED
  BY <1>1, <1>3 DEF BreakerInv, BreakerHolds

LEMMA BreakerInvNext ==
  ASSUME BreakerInv, [GatewayNext]_edgeVars
  PROVE  BreakerInv'
<1>1. CASE UNCHANGED <<permits, punished, wall>>
  BY <1>1 DEF BreakerInv, BreakerHolds, From
<1>2. CASE WallPasses
  <2>1. wall' = wall + 1 /\ permits' = permits /\ punished' = punished
    BY <1>2 DEF WallPasses
  <2>2. wall \in Nat /\ breaker_window \in Nat
    BY WatchtowerAssumption DEF BreakerInv
  <2>3. \A c \in Int : c >= wall' - breaker_window => c >= wall - breaker_window
    BY <2>1, <2>2
  <2>4. /\ permits \in Seq(Nat) /\ punished \in Seq(Nat)
        /\ \A i \in DOMAIN permits : permits[i] <= wall'
        /\ \A i \in DOMAIN punished : punished[i] <= wall'
    BY <2>1, <2>2 DEF BreakerInv
  <2>5. BreakerHolds'
    BY <2>1 DEF BreakerInv, BreakerHolds
  <2>6. \A c \in Int : c >= wall' - breaker_window =>
          Cardinality(From(c, punished)) <= Cardinality(From(c, permits))
    BY <2>3 DEF BreakerInv
  <2>7. QED
    BY <2>1, <2>2, <2>4, <2>5, <2>6 DEF BreakerInv, From
<1>3. CASE apply_actions
  <2>1. wall' = wall
    BY <1>3 DEF apply_actions
  <2>2. CASE dispatcher.actions = <<>>
    BY <1>1, <1>3, <2>1, <2>2 DEF apply_actions
  <2>3. CASE dispatcher.actions # <<>>
    <3>1. PICK kept : kept = FrontPopped(permits, {i \in DOMAIN permits : Counted(permits[i])})
      OBVIOUS
    <3>2. PICK k : Popped(permits, kept, k)
      BY <3>1, FrontPops DEF BreakerInv
    <3>3. \/ Len(kept) >= max_per_window /\ permits' = kept /\ punished' = punished
          \/ /\ ~ (Len(kept) >= max_per_window) /\ permits' = Append(kept, wall)
             /\ execute(Head(dispatcher.actions), dispatcher.alert.tenant)
      BY <1>3, <2>3, <3>1 DEF apply_actions, act
    <3>4. CASE permits' = kept /\ punished' = punished
      BY <2>1, <3>2, <3>4, PermitRefused
    <3>5. CASE ~ (Len(kept) >= max_per_window) /\ permits' = Append(kept, wall)
                 /\ execute(Head(dispatcher.actions), dispatcher.alert.tenant)
      <4>1. punished' \in {punished, Append(punished, wall)}
        BY <3>5 DEF execute
      <4>2. Len(kept) < max_per_window
        <5>1. Len(kept) \in Nat /\ max_per_window \in Nat
          BY <3>2, WatchtowerAssumption DEF Popped
        <5>2. QED
          BY <3>5, <5>1
      <4>3. QED
        BY <2>1, <3>2, <3>5, <4>1, <4>2, PermitTaken
    <3>6. QED
      BY <3>3, <3>4, <3>5
  <2>4. QED
    BY <2>2, <2>3
<1>4. CASE recv_alert \/ deliver_fails \/ deliver_succeeds
  BY <1>1, <1>4 DEF recv_alert, deliver_fails, deliver_succeeds
<1>5. ASSUME NEW r \in Requests, Handle(r) PROVE UNCHANGED <<permits, punished, wall>>
  <2>1. CASE report_event(r)
    BY <2>1 DEF report_event, observe_security
  <2>2. CASE ~report_event(r)
    BY <1>5, <2>2
    DEF Handle, bad_body, authenticate_fails, punished_tenant, authorize_denies, acquire_fails,
        inspect, record_audit, record_audit_fails, inspected, upstream_fails, forward, withhold,
        answer, release_prefix, withhold_prefix, stream_over, watchVars
  <2>3. QED
    BY <2>1, <2>2
<1>6. QED
  BY <1>1, <1>2, <1>3, <1>4, <1>5 DEF GatewayNext, Dispatch, edgeVars, watchVars

(* However the alerts come, no window of the breaker that starts with a    *)
(* punishment holds more of them than it permits                           *)
(* (CircuitBreaker::try_permit, action.rs).                                *)
THEOREM BreakerLimits == GatewaySpec => []BreakerHolds
<1>1. BreakerInv => BreakerHolds
  BY DEF BreakerInv
<1>2. QED
  BY BreakerInvInit, BreakerInvNext, <1>1, PTL DEF GatewaySpec

-----------------------------------------------------------------------------
(***************************************************************************)
(* A run of verify-audit (AuditVerify), for every set of files and any     *)
(* tampering: what a run has found, and what the files keep of it.         *)
(***************************************************************************)
LEMMA NatInductionSet ==
  ASSUME NEW S \in SUBSET Nat, 0 \in S, \A n \in S : n + 1 \in S
  PROVE  S = Nat
<1>1. SUFFICES ASSUME Nat \ S # {} PROVE FALSE
  OBVIOUS
<1>2. PICK x \in Nat \ S : \A y \in Nat \ S : ~ (<<y, x>> \in OpToRel(<, Nat))
  <2>1. Nat \ S \subseteq Nat
    OBVIOUS
  <2>2. QED
    BY <1>1, <2>1, NatLessThanWellFounded, WFMin
<1>3. x - 1 \in Nat /\ x - 1 < x
  OBVIOUS
<1>4. <<x - 1, x>> \in OpToRel(<, Nat)
  BY <1>3 DEF OpToRel
<1>5. x - 1 \in S
  BY <1>2, <1>3, <1>4
<1>6. QED
  BY <1>5, <1>3

-----------------------------------------------------------------------------
(* Chains of hashes, and what a baseline says of one.                      *)
LoggedEntry == [body : Bodies, hash : Seq(Bodies)]
Marks == [entries : Nat, last_hash : Seq(Bodies)]

(* A hash stands for at least as many entries as it has before it.         *)
Hashed(chain) ==
  chain \in Seq(LoggedEntry) /\ \A i \in 1 .. Len(chain) : Len(chain[i].hash) >= i

(* Intact, of a baseline and a chain.                                      *)
Heads(prev, chain) ==
  prev.entries = Len(prev.last_hash) =>
    /\ prev.entries <= Len(chain)
    /\ Linked(SubSeq(chain, 1, prev.entries))
    /\ ChainCheckpoint(SubSeq(chain, 1, prev.entries)) = prev

LEMMA Prefixed ==
  ASSUME NEW S, NEW s \in Seq(S), NEW n \in 0 .. Len(s)
  PROVE  /\ SubSeq(s, 1, n) \in Seq(S) /\ Len(SubSeq(s, 1, n)) = n
         /\ \A i \in 1 .. n : SubSeq(s, 1, n)[i] = s[i]
<1>1. n \in Nat /\ Len(s) \in Nat /\ n <= Len(s)
  OBVIOUS
<1>2. CASE n = 0
  BY <1>1, <1>2
<1>3. CASE n # 0
  BY <1>1, <1>3
<1>4. QED
  BY <1>2, <1>3

LEMMA PrefixKept ==
  ASSUME NEW S, NEW s \in Seq(S), NEW e \in S, NEW n \in 0 .. Len(s)
  PROVE  SubSeq(Append(s, e), 1, n) = SubSeq(s, 1, n)
<1>0. Len(s) \in Nat
  OBVIOUS
<1>1. PICK t, m : t = Append(s, e) /\ m = Len(s) /\ m \in Nat
  BY <1>0
<1>2. t \in Seq(S) /\ Len(t) = m + 1 /\ n \in 0 .. Len(t) /\ \A i \in 1 .. m : t[i] = s[i]
  BY <1>1
<1>3. PICK u, v : u = SubSeq(t, 1, n) /\ v = SubSeq(s, 1, n)
  OBVIOUS
<1>4. u \in Seq(S) /\ Len(u) = n /\ \A i \in 1 .. n : u[i] = t[i]
  BY <1>2, <1>3, Prefixed
<1>5. v \in Seq(S) /\ Len(v) = n /\ \A i \in 1 .. n : v[i] = s[i]
  BY <1>3, Prefixed
<1>6. \A i \in 1 .. n : u[i] = v[i]
  BY <1>1, <1>2, <1>4, <1>5
<1>7. u = v
  BY <1>4, <1>5, <1>6
<1>8. QED
  BY <1>1, <1>3, <1>7

LEMMA LinkedPrefix ==
  ASSUME NEW chain \in Seq(LoggedEntry), NEW n \in 0 .. Len(chain), NEW m \in 0 .. n,
         Linked(SubSeq(chain, 1, n))
  PROVE  Linked(SubSeq(chain, 1, m))
<1>1. PICK t, u : t = SubSeq(chain, 1, n) /\ u = SubSeq(chain, 1, m)
  OBVIOUS
<1>2. n \in Nat /\ m \in Nat /\ m \in 0 .. Len(chain)
  OBVIOUS
<1>3. /\ DOMAIN t = 1 .. n /\ \A i \in 1 .. n : t[i] = chain[i]
      /\ DOMAIN u = 1 .. m /\ \A i \in 1 .. m : u[i] = chain[i]
  BY <1>1, <1>2, Prefixed
<1>4. \A i \in 1 .. m : u[i] = t[i] /\ (i # 1 => u[i - 1] = t[i - 1])
  BY <1>2, <1>3
<1>5. \A i \in 1 .. n : t[i].hash = Append(IF i = 1 THEN NoHash ELSE t[i - 1].hash, t[i].body)
  BY <1>1, <1>3 DEF Linked
<1>6. ASSUME NEW i \in 1 .. m
      PROVE  u[i].hash = Append(IF i = 1 THEN NoHash ELSE u[i - 1].hash, u[i].body)
  <2>1. i \in 1 .. n
    BY <1>2
  <2>2. CASE i = 1
    BY <1>4, <1>5, <2>1, <2>2
  <2>3. CASE i # 1
    BY <1>4, <1>5, <2>1, <2>3
  <2>4. QED
    BY <2>2, <2>3
<1>7. Linked(u)
  BY <1>3, <1>6 DEF Linked
<1>8. QED
  BY <1>1, <1>7

(* In a linked chain a hash stands for the entries up to its own.          *)
LEMMA LinkedLengths ==
  ASSUME NEW chain \in Seq(LoggedEntry), Linked(chain)
  PROVE  \A i \in 1 .. Len(chain) : Len(chain[i].hash) = i
<1>0. PICK n \in Nat : n = Len(chain)
  OBVIOUS
<1>1. \A i \in 1 .. n : /\ chain[i] \in LoggedEntry
                        /\ chain[i].hash = Append(IF i = 1 THEN NoHash ELSE chain[i - 1].hash, chain[i].body)
  BY <1>0 DEF Linked
<1>2. \A i \in 1 .. n : chain[i].hash \in Seq(Bodies) /\ chain[i].body \in Bodies
  BY <1>1 DEF LoggedEntry
<1> DEFINE N == {i \in Nat : i \in 1 .. n => Len(chain[i].hash) = i}
<1>3. 0 \in N
  OBVIOUS
<1>4. ASSUME NEW i \in N PROVE i + 1 \in N
  <2>0. i \in Nat /\ (i \in 1 .. n => Len(chain[i].hash) = i)
    OBVIOUS
  <2> HIDE DEF N
  <2>1. SUFFICES ASSUME i + 1 \in 1 .. n PROVE Len(chain[i + 1].hash) = i + 1
    BY <2>0 DEF N
  <2>2. CASE i = 0
    <3>1. chain[i + 1].hash = Append(NoHash, chain[i + 1].body)
      BY <1>1, <2>1, <2>2
    <3>2. NoHash \in Seq(Bodies) /\ Len(NoHash) = 0
      BY DEF NoHash
    <3>3. QED
      BY <1>2, <2>1, <2>2, <3>1, <3>2
  <2>3. CASE i # 0
    <3>1. i \in 1 .. n /\ i + 1 # 1 /\ (i + 1) - 1 = i
      BY <1>0, <2>0, <2>1, <2>3
    <3>2. PICK j : j = i + 1
      OBVIOUS
    <3>3. chain[j].hash = Append(chain[i].hash, chain[j].body)
      BY <1>1, <2>1, <3>1, <3>2
    <3>4. chain[i].hash \in Seq(Bodies) /\ Len(chain[i].hash) = i
      BY <1>2, <2>0, <3>1
    <3>5. Len(chain[j].hash) = i + 1
      BY <1>2, <2>1, <3>2, <3>3, <3>4
    <3>6. QED
      BY <3>2, <3>5
  <2>4. QED
    BY <2>2, <2>3
<1>5. N = Nat
  <2>1. N \in SUBSET Nat
    OBVIOUS
  <2> HIDE DEF N
  <2>2. QED
    BY <1>3, <1>4, <2>1, NatInductionSet
<1>6. QED
  BY <1>0, <1>5

(* A chain that has the baseline's hash, and was validated up to its       *)
(* entries, begins with what the baseline covers.                          *)
LEMMA ConsistentHeads ==
  ASSUME NEW chain, Hashed(chain), NEW n \in 0 .. Len(chain), Linked(SubSeq(chain, 1, n)),
         NEW prev \in Marks, prev.entries <= n, Consistent(prev, chain)
  PROVE  Heads(prev, chain)
<1>1. SUFFICES ASSUME prev.entries = Len(prev.last_hash)
               PROVE  /\ prev.entries <= Len(chain)
                      /\ Linked(SubSeq(chain, 1, prev.entries))
                      /\ ChainCheckpoint(SubSeq(chain, 1, prev.entries)) = prev
  BY DEF Heads
<1>2. chain \in Seq(LoggedEntry) /\ Len(chain) \in Nat
  BY DEF Hashed
<1>3. PICK m \in Nat : m = prev.entries
  BY DEF Marks
<1>4. m \in 0 .. n /\ m \in 0 .. Len(chain) /\ n \in Nat
  BY <1>2, <1>3
<1>5. PICK u : u = SubSeq(chain, 1, m)
  OBVIOUS
<1>6. /\ u \in Seq(LoggedEntry) /\ Len(u) = m /\ \A i \in 1 .. m : u[i] = chain[i]
      /\ Linked(u)
  BY <1>2, <1>4, <1>5, Prefixed, LinkedPrefix
<1>7. prev.last_hash \in Seq(Bodies) /\ Len(prev.last_hash) = m
  BY <1>1, <1>3 DEF Marks
<1>8. ChainCheckpoint(u) = [entries |-> m, last_hash |-> prev.last_hash]
  <2>1. CASE m = 0
    <3>1. u = <<>> /\ prev.last_hash = <<>>
      BY <1>6, <1>7, <2>1
    <3>2. QED
      BY <1>6, <3>1 DEF ChainCheckpoint, NoHash
  <2>2. CASE m # 0
    <3>1. prev.last_hash # NoHash
      BY <1>7, <2>2 DEF NoHash
    <3>2. PICK i \in DOMAIN chain : chain[i].hash = prev.last_hash
      BY <3>1 DEF Consistent
    <3>3. i \in 1 .. Len(chain) /\ Len(chain[i].hash) >= i
      BY <1>2, <3>2 DEF Hashed
    <3>4. i \in 1 .. m
      BY <1>7, <3>2, <3>3
    <3>5. Len(u[i].hash) = i
      BY <1>6, <3>4, LinkedLengths
    <3>6. i = m /\ u[m].hash = prev.last_hash
      BY <1>6, <1>7, <3>2, <3>4, <3>5
    <3>7. u # <<>> /\ Last(u) = u[m]
      BY <1>6, <2>2 DEF Last
    <3>8. QED
      BY <1>6, <3>6, <3>7 DEF ChainCheckpoint
  <2>3. QED
    BY <2>1, <2>2
<1>9. prev = [entries |-> m, last_hash |-> prev.last_hash]
  BY <1>3 DEF Marks
<1>10. QED
  BY <1>3, <1>4, <1>5, <1>6, <1>8, <1>9

(* What an appended entry leaves as it was.                                *)
LEMMA AppendKeeps ==
  ASSUME NEW chain, Hashed(chain), NEW e \in LoggedEntry, Len(e.hash) > Len(chain)
  PROVE  /\ Hashed(Append(chain, e)) /\ Append(chain, e) # <<>>
         /\ Len(Append(chain, e)) = Len(chain) + 1
         /\ \A n \in 0 .. Len(chain) :
              /\ n \in 0 .. Len(Append(chain, e))
              /\ SubSeq(Append(chain, e), 1, n) = SubSeq(chain, 1, n)
         /\ \A prev \in Marks : Heads(prev, chain) => Heads(prev, Append(chain, e))
         /\ \A prev \in Marks : Consistent(prev, chain) => Consistent(prev, Append(chain, e))
<1>0. chain \in Seq(LoggedEntry) /\ Len(chain) \in Nat
  BY DEF Hashed
<1>1. PICK t, k : t = Append(chain, e) /\ k = Len(chain) /\ k \in Nat /\ chain \in Seq(LoggedEntry)
  BY <1>0
<1>2. /\ t \in Seq(LoggedEntry) /\ Len(t) = k + 1 /\ t # <<>>
      /\ t[k + 1] = e /\ \A i \in 1 .. k : t[i] = chain[i]
  BY <1>1
<1>3. Hashed(t)
  <2>1. ASSUME NEW i \in 1 .. Len(t) PROVE Len(t[i].hash) >= i
    <3>1. Len(e.hash) \in Nat
      BY DEF LoggedEntry
    <3>2. CASE i = k + 1
      BY <1>1, <1>2, <3>1, <3>2
    <3>3. CASE i # k + 1
      <4>1. i \in 1 .. k /\ t[i] = chain[i]
        BY <1>1, <1>2, <3>3
      <4>2. QED
        BY <1>1, <4>1 DEF Hashed
    <3>4. QED
      BY <3>2, <3>3
  <2>2. QED
    BY <1>2, <2>1 DEF Hashed
<1>4. ASSUME NEW n \in 0 .. k PROVE n \in 0 .. Len(t) /\ SubSeq(t, 1, n) = SubSeq(chain, 1, n)
  <2>1. n \in 0 .. Len(t)
    BY <1>1, <1>2
  <2>2. QED
    BY <1>1, <2>1, PrefixKept
<1>5. ASSUME NEW prev \in Marks, Heads(prev, chain) PROVE Heads(prev, t)
  <2>1. SUFFICES ASSUME prev.entries = Len(prev.last_hash) PROVE Heads(prev, t)
    BY DEF Heads
  <2>2. prev.entries \in 0 .. k
    BY <1>1, <1>5, <2>1 DEF Heads, Marks
  <2>3. SubSeq(t, 1, prev.entries) = SubSeq(chain, 1, prev.entries) /\ prev.entries <= Len(t)
    BY <1>4, <2>2
  <2>4. QED
    BY <1>5, <2>3 DEF Heads
<1>6. ASSUME NEW prev \in Marks, Consistent(prev, chain) PROVE Consistent(prev, t)
  <2>1. Len(t) >= prev.entries
    <3>1. prev.entries \in Nat
      BY DEF Marks
    <3>2. QED
      BY <1>1, <1>2, <1>6, <3>1 DEF Consistent
  <2>2. ASSUME prev.last_hash # NoHash PROVE \E i \in DOMAIN t : t[i].hash = prev.last_hash
    <3>1. PICK i \in DOMAIN chain : chain[i].hash = prev.last_hash
      BY <1>6, <2>2 DEF Consistent
    <3>2. i \in 1 .. k /\ i \in DOMAIN t
      BY <1>1, <1>2
    <3>3. QED
      BY <1>2, <3>1, <3>2
  <2>3. QED
    BY <2>1, <2>2 DEF Consistent
<1>7. QED
  BY <1>1, <1>2, <1>3, <1>4, <1>5, <1>6

LEMMA LastIsConsistent ==
  ASSUME NEW chain \in Seq(LoggedEntry)
  PROVE  ChainCheckpoint(chain) \in Marks /\ Consistent(ChainCheckpoint(chain), chain)
<1>1. PICK n \in Nat : n = Len(chain)
  OBVIOUS
<1>2. CASE chain = <<>>
  <2>1. ChainCheckpoint(chain) = [entries |-> 0, last_hash |-> NoHash]
    BY <1>2 DEF ChainCheckpoint
  <2>2. NoHash \in Seq(Bodies) /\ Len(chain) = 0
    BY <1>2 DEF NoHash
  <2>3. ChainCheckpoint(chain) \in Marks
    BY <2>1, <2>2 DEF Marks
  <2>4. QED
    BY <2>1, <2>2, <2>3 DEF Consistent
<1>3. CASE chain # <<>>
  <2>1. ChainCheckpoint(chain) = [entries |-> n, last_hash |-> chain[n].hash]
    BY <1>1, <1>3 DEF ChainCheckpoint, Last
  <2>2. n \in DOMAIN chain /\ chain[n] \in LoggedEntry
    BY <1>1, <1>3
  <2>3. QED
    BY <1>1, <2>1, <2>2 DEF Marks, Consistent, LoggedEntry
<1>4. QED
  BY <1>2, <1>3

LEMMA NothingIsConsistent ==
  ASSUME NEW chain \in Seq(LoggedEntry)
  PROVE  Consistent(ChainCheckpoint(<<>>), chain)
<1>1. ChainCheckpoint(<<>>).entries = 0 /\ ChainCheckpoint(<<>>).last_hash = NoHash
  BY DEF ChainCheckpoint
<1>2. QED
  BY <1>1 DEF Consistent

(* An entry on the last hash goes on with the chain.                       *)
LEMMA LinkedAppend ==
  ASSUME NEW chain \in Seq(LoggedEntry), Linked(chain), NEW body \in Bodies
  PROVE  LET t == Append(chain, ApiAuditEntry(ChainCheckpoint(chain).last_hash, body))
         IN  /\ Linked(t)
             /\ ChainCheckpoint(t).last_hash = Append(ChainCheckpoint(chain).last_hash, body)
<1>1. PICK p, e, t, n : /\ p = ChainCheckpoint(chain).last_hash /\ e = ApiAuditEntry(p, body)
                        /\ t = Append(chain, e) /\ n = Len(chain) /\ n \in Nat
  <2>1. Len(chain) \in Nat
    OBVIOUS
  <2>2. QED
    BY <2>1
<1>2. e = [body |-> body, hash |-> Append(p, body)]
  BY <1>1 DEF ApiAuditEntry
<1>3. /\ Len(t) = n + 1 /\ DOMAIN t = 1 .. n + 1 /\ t[n + 1] = e
      /\ t # <<>> /\ \A i \in 1 .. n : t[i] = chain[i]
  BY <1>1
<1>4. p = IF n = 0 THEN NoHash ELSE chain[n].hash
  BY <1>1 DEF ChainCheckpoint, Last
<1>5. ASSUME NEW i \in 1 .. n + 1
      PROVE  t[i].hash = Append(IF i = 1 THEN NoHash ELSE t[i - 1].hash, t[i].body)
  <2>1. CASE i = n + 1
    <3>1. t[i].hash = Append(p, t[i].body)
      BY <1>2, <1>3, <2>1
    <3>2. CASE n = 0
      BY <1>4, <2>1, <3>1, <3>2
    <3>3. CASE n # 0
      <4>1. i # 1 /\ i - 1 = n /\ n \in 1 .. n
        BY <1>1, <2>1, <3>3
      <4>2. t[i - 1] = chain[n]
        BY <1>3, <4>1
      <4>3. QED
        BY <1>4, <3>1, <3>3, <4>1, <4>2
    <3>4. QED
      BY <3>2, <3>3
  <2>2. CASE i # n + 1
    <3>1. i \in 1 .. n /\ i \in DOMAIN chain /\ (i # 1 => i - 1 \in 1 .. n)
      BY <1>1, <2>2
    <3>2. t[i] = chain[i] /\ (i # 1 => t[i - 1] = chain[i - 1])
      BY <1>3, <3>1
    <3>3. chain[i].hash = Append(IF i = 1 THEN NoHash ELSE chain[i - 1].hash, chain[i].body)
      BY <3>1 DEF Linked
    <3>4. CASE i = 1
      BY <3>2, <3>3, <3>4
    <3>5. CASE i # 1
      BY <3>2, <3>3, <3>5
    <3>6. QED
      BY <3>4, <3>5
  <2>3. QED
    BY <2>1, <2>2
<1>6. Linked(t)
  BY <1>3, <1>5 DEF Linked
<1>7. ChainCheckpoint(t).last_hash = Append(p, body)
  <2>1. Last(t) = e
    BY <1>3 DEF Last
  <2>2. QED
    BY <1>2, <1>3, <2>1 DEF ChainCheckpoint
<1>8. QED
  BY <1>1, <1>6, <1>7

(***************************************************************************)
(* The invariant of a run of the verifier.                                 *)
(***************************************************************************)
(* What a chain that only grew keeps.                                      *)
Kept(s, t) ==
  /\ s \in Seq(LoggedEntry) /\ t \in Seq(LoggedEntry) /\ Len(s) <= Len(t)
  /\ \A n \in 0 .. Len(s) : SubSeq(t, 1, n) = SubSeq(s, 1, n)
  /\ \A prev \in Marks : Heads(prev, s) => Heads(prev, t)
  /\ \A prev \in Marks : Consistent(prev, s) => Consistent(prev, t)

AreMarks(m) == \A f \in DOMAIN m : m[f] \in Marks

\* Whatever was done to the files.
FilesOK ==
  /\ damage \in Nat
  /\ \A f \in DOMAIN shard : Hashed(shard[f])
  /\ \A f \in DOMAIN cached_hash :
       cached_hash[f] \in Seq(Bodies) /\ (f \in DOMAIN shard => Len(cached_hash[f]) >= Len(shard[f]))

RunFields == {"pc", "target", "files", "upserts", "valid", "baseline", "fresh", "current", "linked",
              "unread", "validated", "since"}

\* A run goes through its files one by one.
RunShape ==
  /\ DOMAIN verifier = RunFields
  /\ verifier.pc \in {"listed", "next", "saving", "writing"}
  /\ verifier.since \in Nat /\ verifier.since <= damage
  /\ verifier.valid \in BOOLEAN /\ verifier.linked \in BOOLEAN /\ verifier.unread \in BOOLEAN
  /\ verifier.current \subseteq verifier.files /\ verifier.files \subseteq verifier.target
  /\ verifier.pc = "listed" => verifier.files = verifier.target /\ verifier.current = {}
  /\ verifier.pc \in {"saving", "writing"} => verifier.files = {} /\ verifier.valid
  /\ AreMarks(verifier.baseline) /\ AreMarks(verifier.fresh)

\* What the run has read once of a file, and of one it has read twice.
ReadOnce(f) ==
  /\ f \in DOMAIN shard /\ f \in DOMAIN verifier.validated
  /\ verifier.validated[f] \in 0 .. Len(shard[f])
  /\ verifier.linked => Linked(SubSeq(shard[f], 1, verifier.validated[f]))
ReadTwice(f) ==
  /\ f \in DOMAIN shard /\ f \in DOMAIN verifier.validated
  /\ f \in DOMAIN verifier.baseline /\ Validated(f) => Heads(verifier.baseline[f], shard[f])

RunOK ==
  verifier.since = damage /\ ~verifier.unread =>
    /\ \A f \in verifier.current : ReadOnce(f)
    /\ verifier.valid => \A f \in verifier.target \ verifier.files : ReadTwice(f)

\* Nobody has tampered with a file: all is linked, and goes on from what any
\* baseline says of it.
Followed(m) == \A f \in DOMAIN m : f \in DOMAIN shard /\ Consistent(m[f], shard[f])
Pristine ==
  damage = 0 =>
    /\ \A f \in DOMAIN shard : Linked(shard[f])
    /\ \A f \in DOMAIN cached_hash :
         f \in DOMAIN shard /\ cached_hash[f] = ChainCheckpoint(shard[f]).last_hash
    /\ Followed(checkpoint.chains)
    /\ verifier # Idle =>
         /\ Followed(verifier.baseline) /\ Followed(verifier.fresh)
         /\ verifier.target \subseteq DOMAIN shard
         /\ verifier.current # {} => verifier.linked
         /\ ~verifier.unread => verifier.valid

VerifyInv ==
  /\ FilesOK /\ AreMarks(checkpoint.chains)
  /\ verifier = Idle \/ (RunShape /\ RunOK)
  /\ Pristine

LEMMA VerifySuffices == VerifyInv => ReportIsRight
<1>1. SUFFICES ASSUME VerifyInv, verifier # Idle, ~verifier.unread PROVE
        /\ verifier.pc = "saving" /\ verifier.since = damage =>
             \A f \in DOMAIN verifier.baseline \cap verifier.target \cap DOMAIN shard :
               Validated(f) => Intact(f)
        /\ damage = 0 => verifier.valid
  BY DEF ReportIsRight
<1>2. damage = 0 => verifier.valid
  BY <1>1 DEF VerifyInv, Pristine
<1>3. ASSUME verifier.pc = "saving", verifier.since = damage,
             NEW f \in DOMAIN verifier.baseline \cap verifier.target \cap DOMAIN shard, Validated(f)
      PROVE  Intact(f)
  <2>1. verifier.files = {} /\ verifier.valid /\ RunOK
    BY <1>1, <1>3 DEF VerifyInv, RunShape
  <2>2. ReadTwice(f)
    BY <1>1, <1>3, <2>1 DEF RunOK
  <2>3. Heads(verifier.baseline[f], shard[f])
    BY <1>3, <2>2 DEF ReadTwice
  <2>4. QED
    BY <2>3 DEF Heads, Intact
<1>4. QED
  BY <1>2, <1>3

LEMMA VerifyInvInit == VerifyInit => VerifyInv
<1>1. SUFFICES ASSUME VerifyInit PROVE VerifyInv
  OBVIOUS
<1>2. DOMAIN shard = {} /\ DOMAIN cached_hash = {} /\ DOMAIN checkpoint.chains = {}
  BY <1>1 DEF VerifyInit
<1>3. QED
  BY <1>1, <1>2 DEF VerifyInit, VerifyInv, FilesOK, AreMarks, Pristine, Followed

LEMMA KeptItself ==
  ASSUME NEW s \in Seq(LoggedEntry) PROVE Kept(s, s)
  BY DEF Kept

-----------------------------------------------------------------------------
(* What a call that is recorded does to its file.                          *)
LEMMA RecordFacts ==
  ASSUME FilesOK, NEW f, NEW body \in Bodies, Record(f, body)
  PROVE  \E chain, prev :
           /\ Hashed(chain) /\ prev \in Seq(Bodies) /\ Len(prev) >= Len(chain)
           /\ f \in DOMAIN shard => chain = shard[f]
           /\ f \notin DOMAIN shard => chain = <<>>
           /\ f \in DOMAIN cached_hash => prev = cached_hash[f]
           /\ f \notin DOMAIN cached_hash => prev = ChainCheckpoint(chain).last_hash
           /\ shard' = With(shard, f, Append(chain, ApiAuditEntry(prev, body)))
           /\ cached_hash' = With(cached_hash, f, Append(prev, body))
<1>1. PICK chain : chain = IF f \in DOMAIN shard THEN shard[f] ELSE <<>>
  OBVIOUS
<1>2. PICK prev : prev = IF f \in DOMAIN cached_hash THEN cached_hash[f] ELSE LastHash(f)
  OBVIOUS
<1>3. /\ shard' = With(shard, f, Append(chain, ApiAuditEntry(prev, body)))
      /\ cached_hash' = With(cached_hash, f, Append(prev, body))
  BY <1>1, <1>2 DEF Record
<1>4. Hashed(chain)
  <2>1. CASE f \in DOMAIN shard
    BY <1>1, <2>1 DEF FilesOK
  <2>2. CASE f \notin DOMAIN shard
    <3>1. chain = <<>> /\ chain \in Seq(LoggedEntry) /\ Len(chain) = 0
      BY <1>1, <2>2
    <3>2. QED
      BY <3>1 DEF Hashed
  <2>3. QED
    BY <2>1, <2>2
<1>5. LastHash(f) = ChainCheckpoint(chain).last_hash
  BY <1>1 DEF LastHash, ChainCheckpoint
<1>6. /\ ChainCheckpoint(chain).last_hash \in Seq(Bodies)
      /\ Len(ChainCheckpoint(chain).last_hash) >= Len(chain)
  <2>1. ChainCheckpoint(chain) \in Marks /\ chain \in Seq(LoggedEntry)
    BY <1>4, LastIsConsistent DEF Hashed
  <2>2. PICK n \in Nat : n = Len(chain)
    BY <2>1
  <2>3. CASE n = 0
    <3>1. ChainCheckpoint(chain).last_hash \in Seq(Bodies)
      BY <2>1 DEF Marks
    <3>2. QED
      BY <2>2, <2>3, <3>1
  <2>4. CASE n # 0
    <3>1. chain # <<>> /\ n \in 1 .. Len(chain) /\ Last(chain) = chain[n]
      BY <2>1, <2>2, <2>4 DEF Last
    <3>2. ChainCheckpoint(chain).last_hash = chain[n].hash /\ Len(chain[n].hash) >= n
      BY <1>4, <3>1 DEF ChainCheckpoint, Hashed
    <3>3. QED
      BY <2>1, <2>2, <3>2 DEF Marks
  <2>5. QED
    BY <2>3, <2>4
<1>7. prev \in Seq(Bodies) /\ Len(prev) >= Len(chain)
  <2>1. CASE f \in DOMAIN cached_hash
    <3>1. prev = cached_hash[f] /\ prev \in Seq(Bodies) /\ Len(prev) \in Nat
      BY <1>2, <2>1 DEF FilesOK
    <3>2. CASE f \in DOMAIN shard
      BY <1>1, <2>1, <3>1, <3>2 DEF FilesOK
    <3>3. CASE f \notin DOMAIN shard
      <4>1. Len(chain) = 0
        BY <1>1, <3>3
      <4>2. QED
        BY <3>1, <4>1
    <3>4. QED
      BY <3>2, <3>3
  <2>2. CASE f \notin DOMAIN cached_hash
    BY <1>2, <1>5, <1>6, <2>2
  <2>3. QED
    BY <2>1, <2>2
<1>8. QED
  BY <1>1, <1>2, <1>3, <1>4, <1>5, <1>7

LEMMA EntryAppended ==
  ASSUME NEW chain, Hashed(chain), NEW prev \in Seq(Bodies), Len(prev) >= Len(chain), NEW body \in Bodies
  PROVE  LET t == Append(chain, ApiAuditEntry(prev, body))
         IN  /\ Hashed(t) /\ Len(t) = Len(chain) + 1 /\ Kept(chain, t)
             /\ Append(prev, body) \in Seq(Bodies) /\ Len(Append(prev, body)) >= Len(t)
<1>1. PICK e : e = ApiAuditEntry(prev, body)
  OBVIOUS
<1>2. chain \in Seq(LoggedEntry) /\ Len(chain) \in Nat /\ Len(prev) \in Nat
  BY DEF Hashed
<1>3. Append(prev, body) \in Seq(Bodies) /\ Len(Append(prev, body)) = Len(prev) + 1
  OBVIOUS
<1>4. e \in LoggedEntry /\ Len(e.hash) > Len(chain)
  BY <1>1, <1>2, <1>3 DEF ApiAuditEntry, LoggedEntry
<1>5. PICK t : t = Append(chain, e)
  OBVIOUS
<1>6. /\ Hashed(t) /\ Len(t) = Len(chain) + 1
      /\ \A n \in 0 .. Len(chain) : SubSeq(t, 1, n) = SubSeq(chain, 1, n)
      /\ \A prv \in Marks : Heads(prv, chain) => Heads(prv, t)
      /\ \A prv \in Marks : Consistent(prv, chain) => Consistent(prv, t)
  BY <1>4, <1>5, AppendKeeps
<1>7. Kept(chain, t)
  BY <1>2, <1>6 DEF Kept, Hashed
<1>8. QED
  BY <1>1, <1>2, <1>3, <1>5, <1>6, <1>7

LEMMA RecordKeeps ==
  ASSUME FilesOK, NEW f, NEW body \in Bodies, Record(f, body)
  PROVE  /\ FilesOK' /\ DOMAIN shard \subseteq DOMAIN shard'
         /\ \A g \in DOMAIN shard : Kept(shard[g], shard'[g])
<1>1. PICK chain, prev :
           /\ Hashed(chain) /\ prev \in Seq(Bodies) /\ Len(prev) >= Len(chain)
           /\ f \in DOMAIN shard => chain = shard[f]
           /\ shard' = With(shard, f, Append(chain, ApiAuditEntry(prev, body)))
           /\ cached_hash' = With(cached_hash, f, Append(prev, body))
  BY RecordFacts
<1>2. PICK t, h : t = Append(chain, ApiAuditEntry(prev, body)) /\ h = Append(prev, body)
  OBVIOUS
<1>3. /\ Hashed(t) /\ Len(t) = Len(chain) + 1 /\ Kept(chain, t)
      /\ h \in Seq(Bodies) /\ Len(h) >= Len(t)
  BY <1>1, <1>2, EntryAppended
<1>4. /\ DOMAIN shard' = DOMAIN shard \cup {f} /\ shard'[f] = t
      /\ \A g \in DOMAIN shard : g # f => shard'[g] = shard[g]
  <2>1. shard' = With(shard, f, t)
    BY <1>1, <1>2
  <2>2. QED
    BY <2>1 DEF With
<1>5. /\ DOMAIN cached_hash' = DOMAIN cached_hash \cup {f} /\ cached_hash'[f] = h
      /\ \A g \in DOMAIN cached_hash : g # f => cached_hash'[g] = cached_hash[g]
  <2>1. cached_hash' = With(cached_hash, f, h)
    BY <1>1, <1>2
  <2>2. QED
    BY <2>1 DEF With
<1>6. ASSUME NEW g \in DOMAIN shard PROVE Kept(shard[g], shard'[g])
  <2>1. CASE g = f
    BY <1>1, <1>3, <1>4, <2>1
  <2>2. CASE g # f
    <3>1. shard'[g] = shard[g] /\ shard[g] \in Seq(LoggedEntry)
      BY <1>4, <2>2 DEF FilesOK, Hashed
    <3>2. QED
      BY <3>1, KeptItself
  <2>3. QED
    BY <2>1, <2>2
<1>7. \A g \in DOMAIN shard' : Hashed(shard'[g])
  BY <1>3, <1>4 DEF FilesOK
<1>8. ASSUME NEW g \in DOMAIN cached_hash'
      PROVE  cached_hash'[g] \in Seq(Bodies) /\ (g \in DOMAIN shard' => Len(cached_hash'[g]) >= Len(shard'[g]))
  <2>1. CASE g = f
    BY <1>3, <1>4, <1>5, <2>1
  <2>2. CASE g # f
    BY <1>4, <1>5, <2>2 DEF FilesOK
  <2>3. QED
    BY <2>1, <2>2
<1>9. damage' = damage
  BY DEF Record
<1>10. QED
  BY <1>4, <1>6, <1>7, <1>8, <1>9 DEF FilesOK

(* Appending to a linked chain whose last hash is known.                   *)
LEMMA RecordLinks ==
  ASSUME FilesOK, Pristine, damage = 0, NEW f, NEW body \in Bodies, Record(f, body)
  PROVE  /\ \A g \in DOMAIN shard' : Linked(shard'[g])
         /\ \A g \in DOMAIN cached_hash' :
              g \in DOMAIN shard' /\ cached_hash'[g] = ChainCheckpoint(shard'[g]).last_hash
<1>1. PICK chain, prev :
           /\ Hashed(chain) /\ prev \in Seq(Bodies) /\ Len(prev) >= Len(chain)
           /\ f \in DOMAIN shard => chain = shard[f]
           /\ f \notin DOMAIN shard => chain = <<>>
           /\ f \in DOMAIN cached_hash => prev = cached_hash[f]
           /\ f \notin DOMAIN cached_hash => prev = ChainCheckpoint(chain).last_hash
           /\ shard' = With(shard, f, Append(chain, ApiAuditEntry(prev, body)))
           /\ cached_hash' = With(cached_hash, f, Append(prev, body))
  BY RecordFacts
<1>2. prev = ChainCheckpoint(chain).last_hash
  BY <1>1 DEF Pristine
<1>3. chain \in Seq(LoggedEntry) /\ Linked(chain)
  <2>1. CASE f \in DOMAIN shard
    BY <1>1, <2>1 DEF Pristine, Hashed
  <2>2. CASE f \notin DOMAIN shard
    <3>1. chain = <<>> /\ DOMAIN chain = {} /\ chain \in Seq(LoggedEntry)
      BY <1>1, <2>2
    <3>2. QED
      BY <3>1 DEF Linked
  <2>3. QED
    BY <2>1, <2>2
<1>4. PICK t, h : t = Append(chain, ApiAuditEntry(ChainCheckpoint(chain).last_hash, body))
                  /\ h = Append(ChainCheckpoint(chain).last_hash, body)
  OBVIOUS
<1>5. Linked(t) /\ ChainCheckpoint(t).last_hash = h
  BY <1>3, <1>4, LinkedAppend
<1>6. shard' = With(shard, f, t) /\ cached_hash' = With(cached_hash, f, h)
  BY <1>1, <1>2, <1>4
<1>7. /\ DOMAIN shard' = DOMAIN shard \cup {f} /\ shard'[f] = t
      /\ \A g \in DOMAIN shard : g # f => shard'[g] = shard[g]
  BY <1>6 DEF With
<1>8. /\ DOMAIN cached_hash' = DOMAIN cached_hash \cup {f} /\ cached_hash'[f] = h
      /\ \A g \in DOMAIN cached_hash : g # f => cached_hash'[g] = cached_hash[g]
  BY <1>6 DEF With
<1>9. \A g \in DOMAIN shard' : Linked(shard'[g])
  BY <1>5, <1>7 DEF Pristine
<1>10. ASSUME NEW g \in DOMAIN cached_hash'
       PROVE  g \in DOMAIN shard' /\ cached_hash'[g] = ChainCheckpoint(shard'[g]).last_hash
  <2>1. CASE g = f
    BY <1>5, <1>7, <1>8, <2>1
  <2>2. CASE g # f
    <3>1. g \in DOMAIN shard /\ cached_hash[g] = ChainCheckpoint(shard[g]).last_hash
      BY <1>8, <2>2 DEF Pristine
    <3>2. QED
      BY <1>7, <1>8, <2>2, <3>1
  <2>3. QED
    BY <2>1, <2>2
<1>11. QED
  BY <1>9, <1>10

LEMMA RecordSound ==
  ASSUME VerifyInv, NEW f, NEW body \in Bodies, Record(f, body)
  PROVE  VerifyInv'
<1>1. /\ FilesOK' /\ DOMAIN shard \subseteq DOMAIN shard'
      /\ \A g \in DOMAIN shard : Kept(shard[g], shard'[g])
  BY RecordKeeps DEF VerifyInv
<1>2. UNCHANGED <<checkpoint, verifier, damage>>
  BY DEF Record
<1>3. AreMarks(checkpoint.chains)'
  BY <1>2 DEF VerifyInv
<1>4. ASSUME verifier # Idle PROVE (RunShape /\ RunOK)'
  <2>1. RunShape /\ RunOK
    BY <1>4 DEF VerifyInv
  <2>2. RunShape'
    BY <1>2, <2>1 DEF RunShape
  <2>3. ASSUME NEW g, ReadOnce(g) PROVE ReadOnce(g)'
    <3>1. PICK n : n = verifier.validated[g]
      OBVIOUS
    <3>2. /\ g \in DOMAIN shard' /\ g \in DOMAIN verifier.validated /\ n \in 0 .. Len(shard[g])
          /\ Kept(shard[g], shard'[g]) /\ (verifier.linked => Linked(SubSeq(shard[g], 1, n)))
      BY <1>1, <2>3, <3>1 DEF ReadOnce
    <3>3. n \in 0 .. Len(shard'[g]) /\ SubSeq(shard'[g], 1, n) = SubSeq(shard[g], 1, n)
      <4>1. Len(shard[g]) \in Nat /\ Len(shard'[g]) \in Nat
        BY <3>2 DEF Kept
      <4>2. QED
        BY <3>2, <4>1 DEF Kept
    <3>4. QED
      BY <1>2, <3>1, <3>2, <3>3 DEF ReadOnce
  <2>4. ASSUME NEW g, ReadTwice(g) PROVE ReadTwice(g)'
    <3>1. g \in DOMAIN shard' /\ Kept(shard[g], shard'[g])
      BY <1>1, <2>4 DEF ReadTwice
    <3>2. ASSUME g \in DOMAIN verifier.baseline, Validated(g)
          PROVE  Heads(verifier.baseline[g], shard'[g])
      <4>1. verifier.baseline[g] \in Marks
        BY <2>1, <3>2 DEF RunShape, AreMarks
      <4>2. Heads(verifier.baseline[g], shard[g])
        BY <2>4, <3>2 DEF ReadTwice
      <4>3. QED
        BY <3>1, <4>1, <4>2 DEF Kept
    <3>3. Validated(g)' = Validated(g)
      BY <1>2 DEF Validated
    <3>4. QED
      BY <1>2, <2>4, <3>1, <3>2, <3>3 DEF ReadTwice
  <2>5. RunOK'
    BY <1>2, <2>1, <2>3, <2>4 DEF RunOK
  <2>6. QED
    BY <2>2, <2>5
<1>5. ASSUME damage = 0
      PROVE  /\ Followed(checkpoint.chains)'
             /\ verifier # Idle => Followed(verifier.baseline)' /\ Followed(verifier.fresh)'
                                   /\ verifier.target \subseteq DOMAIN shard'
  <2>1. /\ AreMarks(checkpoint.chains) /\ Followed(checkpoint.chains)
        /\ verifier # Idle => /\ AreMarks(verifier.baseline) /\ AreMarks(verifier.fresh)
                              /\ Followed(verifier.baseline) /\ Followed(verifier.fresh)
                              /\ verifier.target \subseteq DOMAIN shard
    BY <1>5 DEF VerifyInv, Pristine, RunShape
  <2>2. \A m : AreMarks(m) /\ Followed(m) => \A g \in DOMAIN m : g \in DOMAIN shard' /\ Consistent(m[g], shard'[g])
    BY <1>1 DEF AreMarks, Followed, Kept
  <2>3. QED
    BY <1>1, <1>2, <2>1, <2>2 DEF Followed
<1>6. Pristine'
  <2>1. SUFFICES ASSUME damage = 0 PROVE Pristine'
    BY <1>2 DEF Pristine
  <2>2. /\ \A g \in DOMAIN shard' : Linked(shard'[g])
        /\ \A g \in DOMAIN cached_hash' :
             g \in DOMAIN shard' /\ cached_hash'[g] = ChainCheckpoint(shard'[g]).last_hash
    BY <2>1, RecordLinks DEF VerifyInv
  <2>3. QED
    BY <1>2, <1>5, <2>1, <2>2 DEF Pristine, VerifyInv
<1>7. QED
  BY <1>1, <1>2, <1>3, <1>4, <1>6 DEF VerifyInv

-----------------------------------------------------------------------------
(* What is done to the files leaves hashes, but nothing to rely on: the    *)
(* run that was under way is one of before.                                *)
LEMMA Parts ==
  ASSUME NEW S, NEW s \in Seq(S), NEW i \in 1 .. Len(s)
  PROVE  /\ RemoveAt(s, i) \in Seq(S) /\ Len(RemoveAt(s, i)) = Len(s) - 1
         /\ \A j \in 1 .. Len(s) - 1 : RemoveAt(s, i)[j] = IF j < i THEN s[j] ELSE s[j + 1]
<1>1. PICK n \in Nat : n = Len(s)
  OBVIOUS
<1>2. i \in Nat /\ 1 <= i /\ i <= n
  BY <1>1
<1>3. PICK a, b : a = SubSeq(s, 1, i - 1) /\ b = SubSeq(s, i + 1, n)
  OBVIOUS
<1>4. a \in Seq(S) /\ Len(a) = i - 1 /\ \A j \in 1 .. i - 1 : a[j] = s[j]
  BY <1>1, <1>2, <1>3, Prefixed
<1>5. b \in Seq(S) /\ Len(b) = n - i /\ \A j \in 1 .. n - i : b[j] = s[i + j]
  BY <1>1, <1>2, <1>3
<1>6. a \o b \in Seq(S) /\ Len(a \o b) = n - 1
  BY <1>1, <1>2, <1>4, <1>5
<1>7. ASSUME NEW j \in 1 .. n - 1 PROVE (a \o b)[j] = IF j < i THEN s[j] ELSE s[j + 1]
  <2>1. CASE j < i
    <3>1. j \in 1 .. i - 1
      BY <1>2, <2>1
    <3>2. (a \o b)[j] = a[j]
      BY <1>4, <1>5, <3>1
    <3>3. QED
      BY <1>4, <2>1, <3>1, <3>2
  <2>2. CASE ~ (j < i)
    <3>1. j - (i - 1) \in 1 .. n - i /\ i + (j - (i - 1)) = j + 1
      BY <1>1, <1>2, <2>2
    <3>2. (a \o b)[j] = b[j - (i - 1)]
      BY <1>1, <1>2, <1>4, <1>5, <1>6, <2>2
    <3>3. QED
      BY <1>5, <2>2, <3>1, <3>2
  <2>3. QED
    BY <2>1, <2>2
<1>8. RemoveAt(s, i) = a \o b
  BY <1>1, <1>3 DEF RemoveAt
<1>9. QED
  BY <1>1, <1>6, <1>7, <1>8

LEMMA LostHashed ==
  ASSUME NEW chain, Hashed(chain), NEW i \in DOMAIN chain
  PROVE  Hashed(RemoveAt(chain, i)) /\ Len(RemoveAt(chain, i)) <= Len(chain)
<1>1. chain \in Seq(LoggedEntry) /\ i \in 1 .. Len(chain)
  BY DEF Hashed
<1>2. PICK t, n : t = RemoveAt(chain, i) /\ n = Len(chain) - 1
  OBVIOUS
<1>3. n \in Nat /\ Len(chain) = n + 1
  BY <1>1, <1>2
<1>4. t \in Seq(LoggedEntry) /\ Len(t) = n /\ \A j \in 1 .. n : t[j] = IF j < i THEN chain[j] ELSE chain[j + 1]
  BY <1>1, <1>2, Parts
<1>5. ASSUME NEW j \in 1 .. n PROVE Len(t[j].hash) >= j
  <2>1. CASE j < i
    BY <1>3, <1>4, <2>1 DEF Hashed
  <2>2. CASE ~ (j < i)
    <3>1. PICK k : k = j + 1 /\ k \in 1 .. Len(chain)
      BY <1>3
    <3>2. t[j] = chain[k] /\ Len(chain[k].hash) >= k /\ chain[k] \in LoggedEntry
      BY <1>1, <1>4, <2>2, <3>1 DEF Hashed
    <3>3. Len(chain[k].hash) \in Nat
      BY <3>2 DEF LoggedEntry
    <3>4. QED
      BY <3>1, <3>2, <3>3
  <2>3. QED
    BY <2>1, <2>2
<1>6. QED
  BY <1>2, <1>3, <1>4, <1>5 DEF Hashed

LEMMA EditedHashed ==
  ASSUME NEW chain, Hashed(chain), NEW i \in DOMAIN chain, NEW body \in Bodies
  PROVE  /\ Hashed([chain EXCEPT ![i].body = body])
         /\ Len([chain EXCEPT ![i].body = body]) = Len(chain)
<1>1. chain \in Seq(LoggedEntry) /\ Len(chain) \in Nat /\ DOMAIN chain = 1 .. Len(chain)
  BY DEF Hashed
<1>2. PICK e : e = [chain[i] EXCEPT !.body = body]
  OBVIOUS
<1>3. e \in LoggedEntry /\ e.hash = chain[i].hash
  <2>1. chain[i] \in LoggedEntry
    BY <1>1
  <2>2. QED
    BY <1>2, <2>1 DEF LoggedEntry
<1>4. PICK t : t = [chain EXCEPT ![i] = e]
  OBVIOUS
<1>5. t \in Seq(LoggedEntry) /\ Len(t) = Len(chain)
  BY <1>1, <1>3, <1>4
<1>6. ASSUME NEW j \in 1 .. Len(t) PROVE Len(t[j].hash) >= j
  <2>1. j \in DOMAIN chain /\ Len(chain[j].hash) >= j
    BY <1>1, <1>5 DEF Hashed
  <2>2. t[j].hash = chain[j].hash
    BY <1>3, <1>4, <2>1
  <2>3. QED
    BY <2>1, <2>2
<1>7. t = [chain EXCEPT ![i].body = body]
  BY <1>2, <1>4
<1>8. QED
  BY <1>5, <1>6, <1>7 DEF Hashed

LEMMA RewrittenHashed ==
  ASSUME NEW n \in Nat, NEW bodies \in [1 .. n -> Bodies]
  PROVE  /\ Hashed([i \in DOMAIN bodies |-> [body |-> bodies[i], hash |-> SubSeq(bodies, 1, i)]])
         /\ Len([i \in DOMAIN bodies |-> [body |-> bodies[i], hash |-> SubSeq(bodies, 1, i)]]) = n
<1>1. bodies \in Seq(Bodies) /\ Len(bodies) = n /\ DOMAIN bodies = 1 .. n
  OBVIOUS
<1>2. ASSUME NEW i \in 1 .. n
      PROVE  /\ SubSeq(bodies, 1, i) \in Seq(Bodies) /\ Len(SubSeq(bodies, 1, i)) = i
             /\ [body |-> bodies[i], hash |-> SubSeq(bodies, 1, i)] \in LoggedEntry
  <2>1. i \in 0 .. Len(bodies)
    BY <1>1
  <2>2. SubSeq(bodies, 1, i) \in Seq(Bodies) /\ Len(SubSeq(bodies, 1, i)) = i
    BY <1>1, <2>1, Prefixed
  <2>3. QED
    BY <2>2 DEF LoggedEntry
<1>3. PICK t : t = [i \in 1 .. n |-> [body |-> bodies[i], hash |-> SubSeq(bodies, 1, i)]]
  OBVIOUS
<1>4. t \in [1 .. n -> LoggedEntry] /\ \A i \in 1 .. n : Len(t[i].hash) = i
  BY <1>2, <1>3
<1>5. t \in Seq(LoggedEntry) /\ Len(t) = n
  BY <1>4
<1>6. Hashed(t)
  BY <1>4, <1>5 DEF Hashed
<1>7. QED
  BY <1>1, <1>3, <1>5, <1>6

LEMMA TamperingSound ==
  ASSUME VerifyInv, Tampering, DOMAIN shard' \subseteq DOMAIN shard,
         \A f \in DOMAIN shard' : Hashed(shard'[f]) /\ Len(shard'[f]) <= Len(shard[f])
  PROVE  VerifyInv'
<1>1. damage \in Nat /\ damage' = damage + 1 /\ UNCHANGED <<cached_hash, checkpoint, verifier>>
  BY DEF VerifyInv, FilesOK, Tampering
<1>2. FilesOK'
  <2>1. ASSUME NEW f \in DOMAIN cached_hash', f \in DOMAIN shard'
        PROVE  Len(cached_hash'[f]) >= Len(shard'[f])
    <3>1. /\ Len(cached_hash[f]) >= Len(shard[f]) /\ Len(shard'[f]) <= Len(shard[f])
          /\ cached_hash[f] \in Seq(Bodies)
          /\ shard[f] \in Seq(LoggedEntry) /\ shard'[f] \in Seq(LoggedEntry)
      BY <1>1, <2>1 DEF VerifyInv, FilesOK, Hashed
    <3>2. Len(cached_hash[f]) \in Nat /\ Len(shard[f]) \in Nat /\ Len(shard'[f]) \in Nat
      BY <3>1
    <3>3. QED
      BY <1>1, <3>1, <3>2
  <2>2. QED
    BY <1>1, <2>1 DEF VerifyInv, FilesOK
<1>3. ASSUME verifier # Idle PROVE (RunShape /\ RunOK)'
  <2>1. RunShape
    BY <1>3 DEF VerifyInv
  <2>2. verifier.since # damage'
    BY <1>1, <2>1 DEF RunShape
  <2>3. RunShape'
    BY <1>1, <2>1 DEF RunShape
  <2>4. QED
    BY <1>1, <2>2, <2>3 DEF RunOK
<1>4. Pristine'
  BY <1>1 DEF Pristine
<1>5. QED
  BY <1>1, <1>2, <1>3, <1>4 DEF VerifyInv

LEMMA TampersSound ==
  ASSUME VerifyInv, NEW f \in DOMAIN shard,
         \/ ShardIsRemoved(f)
         \/ \E i \in DOMAIN shard[f] :
              EntryIsLost(f, i) \/ \E body \in Bodies : EntryIsEdited(f, i, body)
         \/ \E bodies \in [DOMAIN shard[f] -> Bodies] : HistoryIsRewritten(f, bodies)
  PROVE  VerifyInv'
<1>1. \A g \in DOMAIN shard : Hashed(shard[g]) /\ shard[g] \in Seq(LoggedEntry) /\ Len(shard[g]) \in Nat
  <2>1. ASSUME NEW g \in DOMAIN shard PROVE Hashed(shard[g])
    BY DEF VerifyInv, FilesOK
  <2>2. ASSUME NEW g \in DOMAIN shard PROVE shard[g] \in Seq(LoggedEntry)
    BY <2>1 DEF Hashed
  <2>3. QED
    BY <2>1, <2>2
<1>2. ASSUME NEW t, Hashed(t), Len(t) <= Len(shard[f]), Tampering, shard' = [shard EXCEPT ![f] = t]
      PROVE  VerifyInv'
  <2>1. DOMAIN shard' = DOMAIN shard /\ \A g \in DOMAIN shard : shard'[g] = IF g = f THEN t ELSE shard[g]
    BY <1>2
  <2>2. ASSUME NEW g \in DOMAIN shard' PROVE Hashed(shard'[g]) /\ Len(shard'[g]) <= Len(shard[g])
    BY <1>1, <1>2, <2>1
  <2>3. QED
    BY <1>2, <2>1, <2>2, TamperingSound
<1>3. CASE ShardIsRemoved(f)
  <2>1. Tampering /\ DOMAIN shard' = DOMAIN shard \ {f} /\ \A g \in DOMAIN shard' : shard'[g] = shard[g]
    BY <1>3 DEF ShardIsRemoved, Restrict
  <2>2. QED
    BY <1>1, <2>1, TamperingSound
<1>4. ASSUME NEW i \in DOMAIN shard[f], EntryIsLost(f, i) PROVE VerifyInv'
  <2>1. PICK t : t = RemoveAt(shard[f], i)
    OBVIOUS
  <2>2. Hashed(t) /\ Len(t) <= Len(shard[f])
    BY <1>1, <2>1, LostHashed
  <2>3. Tampering /\ shard' = [shard EXCEPT ![f] = t]
    BY <1>4, <2>1 DEF EntryIsLost
  <2>4. QED
    BY <1>2, <2>2, <2>3
<1>5. ASSUME NEW i \in DOMAIN shard[f], NEW body \in Bodies, EntryIsEdited(f, i, body) PROVE VerifyInv'
  <2>1. PICK c, t : c = shard[f] /\ t = [c EXCEPT ![i].body = body]
    OBVIOUS
  <2>2. Hashed(t) /\ Len(t) <= Len(shard[f])
    <3>1. Hashed(c) /\ i \in DOMAIN c /\ Len(c) \in Nat
      BY <1>1, <2>1
    <3>2. /\ Hashed([c EXCEPT ![i].body = body])
          /\ Len([c EXCEPT ![i].body = body]) = Len(c)
      BY <3>1, EditedHashed
    <3>3. QED
      BY <2>1, <3>1, <3>2
  <2>3. Tampering /\ shard' = [shard EXCEPT ![f] = t]
    BY <1>5, <2>1 DEF EntryIsEdited
  <2>4. QED
    BY <1>2, <2>2, <2>3
<1>6. ASSUME NEW bodies \in [DOMAIN shard[f] -> Bodies], HistoryIsRewritten(f, bodies) PROVE VerifyInv'
  <2>1. PICK t : t = [i \in DOMAIN bodies |-> [body |-> bodies[i], hash |-> SubSeq(bodies, 1, i)]]
    OBVIOUS
  <2>2. PICK n \in Nat : n = Len(shard[f]) /\ DOMAIN shard[f] = 1 .. n
    BY <1>1
  <2>3. Hashed(t) /\ Len(t) <= Len(shard[f])
    <3>1. bodies \in [1 .. n -> Bodies]
      BY <2>2
    <3>2. Hashed(t) /\ Len(t) = n
      BY <2>1, <3>1, RewrittenHashed
    <3>3. QED
      BY <2>2, <3>2
  <2>4. Tampering /\ shard' = [shard EXCEPT ![f] = t]
    BY <1>6, <2>1 DEF HistoryIsRewritten
  <2>5. QED
    BY <1>2, <2>3, <2>4
<1>7. QED
  BY <1>3, <1>4, <1>5, <1>6

LEMMA RestartSound == ASSUME VerifyInv, GatewayRestarts PROVE VerifyInv'
<1>1. DOMAIN cached_hash' = {} /\ UNCHANGED <<shard, checkpoint, verifier, damage>>
  BY DEF GatewayRestarts
<1>2. FilesOK' /\ AreMarks(checkpoint.chains)'
  BY <1>1 DEF VerifyInv, FilesOK, AreMarks
<1>3. ASSUME verifier # Idle PROVE (RunShape /\ RunOK)'
  <2>1. RunShape /\ RunOK
    BY <1>3 DEF VerifyInv
  <2>2. RunShape'
    BY <1>1, <2>1 DEF RunShape
  <2>3. QED
    BY <1>1, <2>1, <2>2 DEF RunOK, ReadOnce, ReadTwice, Validated
<1>4. Pristine'
  BY <1>1 DEF VerifyInv, Pristine, Followed
<1>5. QED
  BY <1>1, <1>2, <1>3, <1>4 DEF VerifyInv

-----------------------------------------------------------------------------
(* The steps of the run itself, which leave the files alone.               *)
LEMMA RunStep ==
  ASSUME VerifyInv, FilesOnly, AreMarks(checkpoint.chains)',
         verifier' = Idle \/ (RunShape /\ RunOK)',
         damage = 0 => /\ Followed(checkpoint.chains)'
                       /\ verifier' # Idle =>
                            /\ Followed(verifier.baseline)' /\ Followed(verifier.fresh)'
                            /\ verifier'.target \subseteq DOMAIN shard
                            /\ verifier'.current # {} => verifier'.linked
                            /\ ~verifier'.unread => verifier'.valid
  PROVE  VerifyInv'
<1>1. UNCHANGED <<shard, cached_hash, damage>>
  BY DEF FilesOnly
<1>2. FilesOK'
  BY <1>1 DEF VerifyInv, FilesOK
<1>3. Pristine'
  BY <1>1 DEF VerifyInv, Pristine
<1>4. QED
  BY <1>2, <1>3 DEF VerifyInv

LEMMA EndsSound ==
  ASSUME VerifyInv, FilesOnly, verifier' = Idle, UNCHANGED checkpoint
  PROVE  VerifyInv'
<1>1. AreMarks(checkpoint.chains)' /\ UNCHANGED shard
  BY DEF VerifyInv, AreMarks, FilesOnly
<1>2. damage = 0 => Followed(checkpoint.chains)'
  BY <1>1 DEF VerifyInv, Pristine, Followed
<1>3. QED
  BY <1>1, <1>2, RunStep

LEMMA StartsSound ==
  ASSUME VerifyInv, NEW files, files \subseteq DOMAIN shard, NEW upserts,
         verifier' = Run(files, upserts), FilesOnly, UNCHANGED checkpoint
  PROVE  VerifyInv'
<1>1. AreMarks(checkpoint.chains)' /\ UNCHANGED <<shard, damage>> /\ damage \in Nat
  BY DEF VerifyInv, AreMarks, FilesOnly, FilesOK
<1>2. /\ DOMAIN verifier' = RunFields
      /\ verifier'.pc = "listed" /\ verifier'.target = files /\ verifier'.files = files
      /\ verifier'.valid = TRUE /\ verifier'.linked = TRUE /\ verifier'.unread = FALSE
      /\ verifier'.baseline = <<>> /\ verifier'.fresh = <<>> /\ verifier'.current = {}
      /\ verifier'.since = damage
  BY DEF Run, RunFields
<1>3. DOMAIN verifier'.baseline = {} /\ DOMAIN verifier'.fresh = {}
  BY <1>2
<1>4. RunShape'
  <2>1. AreMarks(verifier.baseline)' /\ AreMarks(verifier.fresh)'
    BY <1>3 DEF AreMarks
  <2>2. damage' \in Nat /\ verifier'.since \in Nat /\ verifier'.since <= damage'
    BY <1>1, <1>2
  <2>3. QED
    BY <1>2, <2>1, <2>2 DEF RunShape
<1>5. RunOK'
  BY <1>2 DEF RunOK
<1>6. damage = 0 => Followed(checkpoint.chains)'
  BY <1>1 DEF VerifyInv, Pristine, Followed
<1>7. Followed(verifier.baseline)' /\ Followed(verifier.fresh)'
  BY <1>3 DEF Followed
<1>8. QED
  BY <1>1, <1>2, <1>4, <1>5, <1>6, <1>7, RunStep

\* What a step that is not the end finds of the run.
UnderWay == verifier # Idle /\ RunShape /\ RunOK /\ FilesOK

LEMMA NotIdle ==
  ASSUME VerifyInv, verifier.pc # "idle"
  PROVE  UnderWay
<1>1. verifier # Idle
  BY DEF Idle
<1>2. QED
  BY <1>1 DEF VerifyInv, UnderWay

LEMMA LoadSound == ASSUME VerifyInv, load PROVE VerifyInv'
<1>1. UnderWay /\ verifier.pc = "listed"
  BY NotIdle DEF load
<1>2. PICK loaded : /\ loaded = IF checkpoint.whole THEN checkpoint.chains ELSE <<>>
                    /\ verifier' = [verifier EXCEPT !.pc = "next", !.baseline = loaded,
                                      !.fresh = IF verifier.upserts THEN loaded ELSE <<>>]
  BY DEF load
<1>3. FilesOnly /\ UNCHANGED checkpoint /\ UNCHANGED <<shard, damage>>
  BY DEF load, FilesOnly
<1>4. /\ AreMarks(loaded) /\ AreMarks(<<>>)
      /\ damage = 0 => Followed(loaded) /\ Followed(<<>>)
  <2>1. DOMAIN <<>> = {}
    OBVIOUS
  <2>2. CASE checkpoint.whole
    BY <1>2, <2>1, <2>2 DEF VerifyInv, Pristine, AreMarks, Followed
  <2>3. CASE ~checkpoint.whole
    BY <1>2, <2>1, <2>3 DEF AreMarks, Followed
  <2>4. QED
    BY <2>2, <2>3
<1>5. PICK fresh : fresh = IF verifier.upserts THEN loaded ELSE <<>>
  OBVIOUS
<1>6. AreMarks(fresh) /\ (damage = 0 => Followed(fresh))
  BY <1>4, <1>5
<1>7. /\ DOMAIN verifier' = RunFields
      /\ verifier'.pc = "next" /\ verifier'.baseline = loaded /\ verifier'.fresh = fresh
      /\ verifier'.target = verifier.target /\ verifier'.files = verifier.files
      /\ verifier'.valid = verifier.valid /\ verifier'.linked = verifier.linked
      /\ verifier'.unread = verifier.unread /\ verifier'.current = verifier.current
      /\ verifier'.since = verifier.since
  BY <1>1, <1>2, <1>5 DEF UnderWay, RunShape, RunFields
<1>8. RunShape'
  BY <1>1, <1>3, <1>4, <1>6, <1>7 DEF UnderWay, RunShape, AreMarks
<1>9. RunOK'
  <2>1. verifier'.files = verifier'.target /\ verifier'.current = {}
    BY <1>1, <1>7 DEF UnderWay, RunShape
  <2>2. QED
    BY <2>1 DEF RunOK
<1>10. AreMarks(checkpoint.chains)' /\ (damage = 0 => Followed(checkpoint.chains)')
  BY <1>3 DEF VerifyInv, Pristine, AreMarks, Followed
<1>11. damage = 0 => Followed(verifier.baseline)' /\ Followed(verifier.fresh)'
  BY <1>3, <1>4, <1>6, <1>7 DEF Followed
<1>12. damage = 0 => /\ verifier'.target \subseteq DOMAIN shard
                     /\ verifier'.current # {} => verifier'.linked
                     /\ ~verifier'.unread => verifier'.valid
  BY <1>1, <1>7 DEF VerifyInv, Pristine, UnderWay
<1>13. QED
  BY <1>3, <1>8, <1>9, <1>10, <1>11, <1>12, RunStep

\* The first reading of a file.
LEMMA ValidateSound == ASSUME VerifyInv, NEW f, validate(f) PROVE VerifyInv'
<1>1. /\ UnderWay /\ verifier.pc = "next" /\ verifier.current = {} /\ f \in verifier.files
      /\ FilesOnly /\ UNCHANGED <<shard, damage>> /\ UNCHANGED checkpoint
  BY NotIdle DEF validate, FilesOnly
<1>2. AreMarks(checkpoint.chains)' /\ (damage = 0 => Followed(checkpoint.chains)')
  BY <1>1 DEF VerifyInv, Pristine, AreMarks, Followed
<1>3. CASE f \in DOMAIN shard
  <2>1. PICK chain \in Readings(f) :
           verifier' = [verifier EXCEPT !.current = {f}, !.linked = Linked(chain),
                                        !.validated = With(@, f, Len(chain)),
                                        !.unread = @ \/ chain # shard[f]]
    BY <1>3 DEF validate
  <2>2. /\ DOMAIN verifier' = RunFields
        /\ verifier'.pc = "next" /\ verifier'.current = {f} /\ verifier'.linked = Linked(chain)
        /\ verifier'.validated = With(verifier.validated, f, Len(chain))
        /\ verifier'.unread = (verifier.unread \/ chain # shard[f])
        /\ verifier'.baseline = verifier.baseline /\ verifier'.fresh = verifier.fresh
        /\ verifier'.target = verifier.target /\ verifier'.files = verifier.files
        /\ verifier'.valid = verifier.valid /\ verifier'.since = verifier.since
    BY <1>1, <2>1 DEF UnderWay, RunShape, RunFields
  <2>3. RunShape'
    <3>1. AreMarks(verifier.baseline)' /\ AreMarks(verifier.fresh)'
      BY <1>1, <2>2 DEF UnderWay, RunShape, AreMarks
    <3>2. verifier'.linked \in BOOLEAN /\ verifier'.unread \in BOOLEAN /\ verifier'.valid \in BOOLEAN
      BY <1>1, <2>2 DEF UnderWay, RunShape, Linked
    <3>3. QED
      BY <1>1, <2>2, <3>1, <3>2 DEF UnderWay, RunShape
  <2>4. ASSUME verifier'.since = damage', ~verifier'.unread PROVE ReadOnce(f)'
    <3>1. chain = shard[f] /\ chain \in Seq(LoggedEntry)
      BY <1>1, <1>3, <2>2, <2>4 DEF UnderWay, FilesOK, Hashed
    <3>2. PICK n \in Nat : n = Len(chain)
      BY <3>1
    <3>3. verifier'.validated[f] = n /\ f \in DOMAIN verifier'.validated
      BY <2>2, <3>2 DEF With
    <3>4. SubSeq(chain, 1, n) = chain
      BY <3>1, <3>2
    <3>5. f \in DOMAIN shard' /\ shard'[f] = chain /\ n \in 0 .. Len(chain)
      BY <1>1, <1>3, <3>1, <3>2
    <3>6. verifier'.linked => Linked(SubSeq(chain, 1, n))
      BY <2>2, <3>4
    <3>7. QED
      BY <3>3, <3>5, <3>6 DEF ReadOnce
  <2>5. ASSUME verifier'.since = damage', ~verifier'.unread, verifier'.valid,
               NEW g \in verifier'.target \ verifier'.files
        PROVE  ReadTwice(g)'
    <3>1. g # f /\ ReadTwice(g)
      BY <1>1, <2>2, <2>5 DEF UnderWay, RunOK
    <3>2. g \in DOMAIN verifier'.validated /\ verifier'.validated[g] = verifier.validated[g]
      BY <2>2, <3>1 DEF With, ReadTwice
    <3>3. QED
      BY <1>1, <2>2, <3>1, <3>2 DEF ReadTwice, Validated
  <2>6. RunOK'
    <3>1. \A g \in verifier'.current : g = f
      BY <2>2
    <3>2. QED
      BY <2>4, <2>5, <3>1 DEF RunOK
  <2>7. ASSUME damage = 0
        PROVE  /\ Followed(verifier.baseline)' /\ Followed(verifier.fresh)'
               /\ verifier'.target \subseteq DOMAIN shard
               /\ verifier'.current # {} => verifier'.linked
               /\ ~verifier'.unread => verifier'.valid
    <3>1. Linked(chain)
      <4>1. CASE chain = shard[f]
        BY <1>3, <2>7, <4>1 DEF VerifyInv, Pristine
      <4>2. CASE chain # shard[f]
        <5>1. DOMAIN chain = {}
          BY <4>2 DEF Readings
        <5>2. QED
          BY <5>1 DEF Linked
      <4>3. QED
        BY <4>1, <4>2
    <3>2. /\ Followed(verifier.baseline) /\ Followed(verifier.fresh)
          /\ verifier.target \subseteq DOMAIN shard
          /\ ~verifier.unread => verifier.valid
      BY <1>1, <2>7 DEF VerifyInv, Pristine, UnderWay
    <3>3. Followed(verifier.baseline)' /\ Followed(verifier.fresh)'
      BY <1>1, <2>2, <3>2 DEF Followed
    <3>4. QED
      BY <2>2, <3>1, <3>2, <3>3
  <2>8. QED
    BY <1>1, <1>2, <2>3, <2>6, <2>7, RunStep
<1>4. CASE f \notin DOMAIN shard
  <2>1. verifier' = [verifier EXCEPT !.files = @ \ {f}, !.valid = FALSE,
                                     !.fresh = With(@, f, ChainCheckpoint(<<>>))]
    BY <1>4 DEF validate
  <2>2. /\ DOMAIN verifier' = RunFields
        /\ verifier'.pc = "next" /\ verifier'.files = verifier.files \ {f} /\ verifier'.valid = FALSE
        /\ verifier'.fresh = With(verifier.fresh, f, ChainCheckpoint(<<>>))
        /\ verifier'.baseline = verifier.baseline /\ verifier'.linked = verifier.linked
        /\ verifier'.target = verifier.target /\ verifier'.current = {}
        /\ verifier'.unread = verifier.unread /\ verifier'.since = verifier.since
    BY <1>1, <2>1 DEF UnderWay, RunShape, RunFields
  <2>3. RunShape'
    <3>1. AreMarks(verifier.baseline)'
      BY <1>1, <2>2 DEF UnderWay, RunShape, AreMarks
    <3>2. AreMarks(verifier.fresh)'
      <4>1. ChainCheckpoint(<<>>) \in Marks
        <5>1. <<>> \in Seq(LoggedEntry)
          OBVIOUS
        <5>2. QED
          BY <5>1, LastIsConsistent
      <4>2. QED
        BY <1>1, <2>2, <4>1 DEF UnderWay, RunShape, AreMarks, With
    <3>3. QED
      BY <1>1, <2>2, <3>1, <3>2 DEF UnderWay, RunShape
  <2>4. RunOK'
    BY <2>2 DEF RunOK
  <2>5. damage # 0
    BY <1>1, <1>4 DEF VerifyInv, Pristine, UnderWay, RunShape
  <2>6. QED
    BY <1>1, <1>2, <2>3, <2>4, <2>5, RunStep
<1>5. QED
  BY <1>3, <1>4

\* The second reading, which is compared with the baseline.
LEMMA CheckedSound == ASSUME VerifyInv, NEW f, verify_chain_checked(f) PROVE VerifyInv'
<1>1. /\ UnderWay /\ verifier.pc = "next" /\ verifier.current = {f}
      /\ FilesOnly /\ UNCHANGED <<shard, damage>> /\ UNCHANGED checkpoint
  BY NotIdle DEF verify_chain_checked, FilesOnly
<1>2. AreMarks(checkpoint.chains)' /\ (damage = 0 => Followed(checkpoint.chains)')
  BY <1>1 DEF VerifyInv, Pristine, AreMarks, Followed
<1>3. PICK chain \in IF f \in DOMAIN shard THEN Readings(f) ELSE {<<>>}, ok \in BOOLEAN :
        /\ ok = (verifier.linked /\ (f \in DOMAIN verifier.baseline => Consistent(verifier.baseline[f], chain)))
        /\ verifier' = [verifier EXCEPT !.current = {}, !.files = @ \ {f}, !.valid = @ /\ ok,
                                        !.fresh = With(@, f, ChainCheckpoint(chain)),
                                        !.unread = @ \/ (f \in DOMAIN shard /\ chain # shard[f])]
  BY DEF verify_chain_checked
<1>4. /\ DOMAIN verifier' = RunFields
      /\ verifier'.pc = "next" /\ verifier'.current = {} /\ verifier'.files = verifier.files \ {f}
      /\ verifier'.valid = (verifier.valid /\ ok)
      /\ verifier'.fresh = With(verifier.fresh, f, ChainCheckpoint(chain))
      /\ verifier'.unread = (verifier.unread \/ (f \in DOMAIN shard /\ chain # shard[f]))
      /\ verifier'.baseline = verifier.baseline /\ verifier'.validated = verifier.validated
      /\ verifier'.target = verifier.target /\ verifier'.linked = verifier.linked
      /\ verifier'.since = verifier.since
  BY <1>1, <1>3 DEF UnderWay, RunShape, RunFields
<1>5. chain \in Seq(LoggedEntry) /\ (chain = <<>> \/ (f \in DOMAIN shard /\ chain = shard[f]))
  <2>1. <<>> \in Seq(LoggedEntry)
    OBVIOUS
  <2>2. chain = <<>> \/ (f \in DOMAIN shard /\ chain = shard[f])
    BY <1>3 DEF Readings
  <2>3. QED
    BY <1>1, <2>1, <2>2 DEF UnderWay, FilesOK, Hashed
<1>6. RunShape'
  <2>1. AreMarks(verifier.baseline)'
    BY <1>1, <1>4 DEF UnderWay, RunShape, AreMarks
  <2>2. AreMarks(verifier.fresh)'
    <3>1. ChainCheckpoint(chain) \in Marks
      BY <1>5, LastIsConsistent
    <3>2. QED
      BY <1>1, <1>4, <3>1 DEF UnderWay, RunShape, AreMarks, With
  <2>3. verifier'.linked \in BOOLEAN /\ verifier'.unread \in BOOLEAN /\ verifier'.valid \in BOOLEAN
    BY <1>1, <1>4 DEF UnderWay, RunShape
  <2>4. QED
    BY <1>1, <1>4, <2>1, <2>2, <2>3 DEF UnderWay, RunShape
<1>7. ASSUME verifier'.since = damage', ~verifier'.unread, verifier'.valid,
             NEW g \in verifier'.target \ verifier'.files
      PROVE  ReadTwice(g)'
  <2>1. ASSUME ReadTwice(g) PROVE ReadTwice(g)'
    BY <1>1, <1>4, <2>1 DEF ReadTwice, Validated
  <2>2. CASE g # f
    <3>1. g \in verifier.target \ verifier.files
      BY <1>4, <1>7, <2>2
    <3>2. ReadTwice(g)
      BY <1>1, <1>4, <1>7, <3>1 DEF UnderWay, RunOK
    <3>3. QED
      BY <2>1, <3>2
  <2>3. CASE g = f
    <3>1. ReadOnce(f) /\ verifier.linked
      BY <1>1, <1>3, <1>4, <1>7 DEF UnderWay, RunOK
    <3>2. chain = shard[f] /\ Hashed(chain)
      BY <1>1, <1>4, <1>7, <3>1 DEF UnderWay, ReadOnce, FilesOK
    <3>3. ASSUME f \in DOMAIN verifier.baseline, Validated(f) PROVE Heads(verifier.baseline[f], chain)
      <4>1. PICK prev, n : prev = verifier.baseline[f] /\ n = verifier.validated[f]
        OBVIOUS
      <4>2. n \in 0 .. Len(chain) /\ Linked(SubSeq(chain, 1, n)) /\ prev.entries <= n
        BY <3>1, <3>2, <3>3, <4>1 DEF ReadOnce, Validated
      <4>3. prev \in Marks
        BY <1>1, <3>3, <4>1 DEF UnderWay, RunShape, AreMarks
      <4>4. Consistent(prev, chain)
        BY <1>3, <1>4, <1>7, <3>3, <4>1
      <4>5. Heads(prev, chain)
        BY <3>2, <4>2, <4>3, <4>4, ConsistentHeads
      <4>6. QED
        BY <4>1, <4>5
    <3>4. ReadTwice(f)
      BY <3>1, <3>2, <3>3 DEF ReadOnce, ReadTwice
    <3>5. QED
      BY <2>1, <2>3, <3>4
  <2>4. QED
    BY <2>2, <2>3
<1>8. RunOK'
  BY <1>4, <1>7 DEF RunOK
<1>9. ASSUME damage = 0
      PROVE  /\ Followed(verifier.baseline)' /\ Followed(verifier.fresh)'
             /\ verifier'.target \subseteq DOMAIN shard
             /\ verifier'.current # {} => verifier'.linked
             /\ ~verifier'.unread => verifier'.valid
  <2>1. /\ Followed(verifier.baseline) /\ Followed(verifier.fresh)
        /\ verifier.target \subseteq DOMAIN shard /\ verifier.linked
        /\ ~verifier.unread => verifier.valid
    BY <1>1, <1>9 DEF VerifyInv, Pristine, UnderWay
  <2>2. f \in DOMAIN shard
    BY <1>1, <2>1 DEF UnderWay, RunShape
  <2>3. Consistent(ChainCheckpoint(chain), shard[f])
    <3>1. shard[f] \in Seq(LoggedEntry)
      BY <1>1, <2>2 DEF UnderWay, FilesOK, Hashed
    <3>2. CASE chain = <<>>
      BY <3>1, <3>2, NothingIsConsistent
    <3>3. CASE chain = shard[f]
      BY <3>1, <3>3, LastIsConsistent
    <3>4. QED
      BY <1>5, <3>2, <3>3
  <2>4. Followed(verifier.fresh)'
    BY <1>1, <1>4, <2>1, <2>2, <2>3 DEF Followed, With
  <2>5. Followed(verifier.baseline)'
    BY <1>1, <1>4, <2>1 DEF Followed
  <2>6. ASSUME ~verifier'.unread PROVE verifier'.valid
    <3>1. ~verifier.unread /\ chain = shard[f]
      BY <1>4, <2>2, <2>6
    <3>2. f \in DOMAIN verifier.baseline => Consistent(verifier.baseline[f], chain)
      BY <2>1, <3>1 DEF Followed
    <3>3. QED
      BY <1>3, <1>4, <2>1, <3>1, <3>2
  <2>7. QED
    BY <1>4, <2>1, <2>4, <2>5, <2>6
<1>10. QED
  BY <1>1, <1>2, <1>6, <1>8, <1>9, RunStep

\* A change of the program counter, and of the baseline's file.
LEMMA GoesSound ==
  ASSUME VerifyInv, UnderWay, NEW pc \in {"saving", "writing"}, Goes(pc), FilesOnly,
         verifier.files = {}, verifier.valid, checkpoint' = checkpoint \/ checkpoint'.chains = <<>>
  PROVE  VerifyInv'
<1>1. /\ DOMAIN verifier' = RunFields
      /\ verifier'.pc = pc /\ verifier'.current = verifier.current /\ verifier'.files = verifier.files
      /\ verifier'.valid = verifier.valid /\ verifier'.linked = verifier.linked
      /\ verifier'.fresh = verifier.fresh /\ verifier'.unread = verifier.unread
      /\ verifier'.baseline = verifier.baseline /\ verifier'.validated = verifier.validated
      /\ verifier'.target = verifier.target /\ verifier'.since = verifier.since
      /\ UNCHANGED <<shard, damage>>
  BY DEF UnderWay, RunShape, RunFields, Goes, FilesOnly
<1>2. RunShape'
  <2>1. AreMarks(verifier.baseline)' /\ AreMarks(verifier.fresh)'
    BY <1>1 DEF UnderWay, RunShape, AreMarks
  <2>2. QED
    BY <1>1, <2>1 DEF UnderWay, RunShape
<1>3. RunOK'
  BY <1>1 DEF UnderWay, RunOK, ReadOnce, ReadTwice, Validated
<1>4. AreMarks(checkpoint.chains)' /\ (damage = 0 => Followed(checkpoint.chains)')
  <2>1. CASE checkpoint' = checkpoint
    BY <1>1, <2>1 DEF VerifyInv, Pristine, AreMarks, Followed
  <2>2. CASE checkpoint'.chains = <<>>
    <3>1. DOMAIN checkpoint'.chains = {}
      BY <2>2
    <3>2. QED
      BY <3>1 DEF AreMarks, Followed
  <2>3. QED
    BY <2>1, <2>2
<1>5. damage = 0 => Followed(verifier.baseline)' /\ Followed(verifier.fresh)'
  BY <1>1 DEF VerifyInv, Pristine, UnderWay, Followed
<1>6. damage = 0 => /\ verifier'.target \subseteq DOMAIN shard
                    /\ verifier'.current # {} => verifier'.linked
                    /\ ~verifier'.unread => verifier'.valid
  BY <1>1 DEF VerifyInv, Pristine, UnderWay
<1>7. QED
  BY <1>2, <1>3, <1>4, <1>5, <1>6, RunStep

LEMMA VerifyInvNext == VerifyInv /\ [VerifyNext]_verifyVars => VerifyInv'
<1>1. SUFFICES ASSUME VerifyInv, [VerifyNext]_verifyVars PROVE VerifyInv'
  OBVIOUS
<1>2. ASSUME UNCHANGED verifyVars PROVE VerifyInv'
  BY <1>1, <1>2 DEF verifyVars, VerifyInv, FilesOK, AreMarks, RunShape, RunOK, ReadOnce, ReadTwice,
                    Validated, Pristine, Followed
<1>3. ASSUME NEW f \in Shards, NEW body \in Bodies, Record(f, body) PROVE VerifyInv'
  BY <1>1, <1>3, RecordSound
<1>4. CASE GatewayRestarts
  BY <1>1, <1>4, RestartSound
<1>5. ASSUME NEW f \in DOMAIN shard,
             \/ ShardIsRemoved(f)
             \/ \E i \in DOMAIN shard[f] :
                  EntryIsLost(f, i) \/ \E body \in Bodies : EntryIsEdited(f, i, body)
             \/ \E bodies \in [DOMAIN shard[f] -> Bodies] : HistoryIsRewritten(f, bodies)
      PROVE  VerifyInv'
  BY <1>1, <1>5, TampersSound
<1>6. CASE verify_audit
  BY <1>1, <1>6, StartsSound DEF verify_audit
<1>7. ASSUME NEW f \in Shards, verify_audit_file(f) PROVE VerifyInv'
  <2>1. {f} \subseteq DOMAIN shard
    BY <1>7 DEF verify_audit_file
  <2>2. QED
    BY <1>1, <1>7, <2>1, StartsSound DEF verify_audit_file
<1>8. CASE load
  BY <1>1, <1>8, LoadSound
<1>9. ASSUME NEW f \in Shards, validate(f) PROVE VerifyInv'
  BY <1>1, <1>9, ValidateSound
<1>10. ASSUME NEW f \in Shards, verify_chain_checked(f) PROVE VerifyInv'
  BY <1>1, <1>10, CheckedSound
<1>11. CASE report_written
  <2>1. UnderWay /\ verifier.files = {}
    BY <1>1, <1>11, NotIdle DEF report_written
  <2>2. CASE verifier.valid
    BY <1>1, <1>11, <2>1, <2>2, GoesSound DEF report_written
  <2>3. CASE ~verifier.valid
    BY <1>1, <1>11, <2>3, EndsSound DEF report_written
  <2>4. QED
    BY <2>2, <2>3
<1>12. CASE save
  <2>1. UnderWay /\ checkpoint'.chains = <<>>
    BY <1>1, <1>12, NotIdle DEF save
  <2>2. verifier.files = {} /\ verifier.valid
    BY <1>12, <2>1 DEF save, UnderWay, RunShape
  <2>3. QED
    BY <1>1, <1>12, <2>1, <2>2, GoesSound DEF save
<1>13. CASE save_done
  <2>1. UnderWay /\ checkpoint'.chains = verifier.fresh /\ verifier' = Idle /\ FilesOnly
    BY <1>1, <1>13, NotIdle DEF save_done
  <2>2. AreMarks(checkpoint.chains)'
    BY <2>1 DEF UnderWay, RunShape, AreMarks
  <2>3. damage = 0 => Followed(checkpoint.chains)'
    BY <1>1, <2>1 DEF VerifyInv, Pristine, UnderWay, Followed, FilesOnly
  <2>4. QED
    BY <1>1, <2>1, <2>2, <2>3, RunStep
<1>14. CASE run_ends_early
  BY <1>1, <1>14, EndsSound DEF run_ends_early
<1>15. QED
  BY <1>1, <1>2, <1>3, <1>4, <1>5, <1>6, <1>7, <1>8, <1>9, <1>10, <1>11, <1>12, <1>13, <1>14 DEF VerifyNext

(* A run of verify-audit that could read the files accepts only what still *)
(* begins with all that the saved baseline covers and the run has          *)
(* validated, whatever was lost, edited or rewritten before the run; and   *)
(* nothing that nobody has tampered with is ever reported, wherever        *)
(* appends, restarts and interrupted saves fall (verify_chain_checked,     *)
(* verify_report.rs; verify_audit, main.rs).                               *)
THEOREM ReportsAreRight == VerifySpec => []ReportIsRight
<1>1. VerifyInit => VerifyInv
  BY VerifyInvInit
<1>2. VerifyInv /\ [VerifyNext]_verifyVars => VerifyInv'
  BY VerifyInvNext
<1>3. VerifyInv => ReportIsRight
  BY VerifySuffices
<1>4. QED
  BY <1>1, <1>2, <1>3, PTL DEF VerifySpec
=============================================================================
