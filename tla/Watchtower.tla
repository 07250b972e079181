----------------------------- MODULE Watchtower -----------------------------
(***************************************************************************)
(* The alert pipeline beside the gateway: security events are counted by   *)
(* the rules engine under a lock, alerts that fire enter a bounded queue,  *)
(* and one dispatcher task takes them off, punishes the tenant where the   *)
(* rule is on an allow-list and the circuit breaker permits it, and then   *)
(* delivers the alert to the webhook with retries.  The executor that      *)
(* carries out a punishment is the gateway's; it runs in the dispatcher's  *)
(* task, so its override table is a variable of this module.               *)
(***************************************************************************)
EXTENDS Integers, Sequences, FiniteSets, SequencesExt

CONSTANTS
  Tenants,          \* tenants of the data-plane policy
  Everyone,         \* the scope "*" of a global rule
  AlertRules,       \* records [id, category, global, window, threshold, cooldown]
  suspend_rules,    \* ids of the rules that may suspend a tenant
  revoke_rules,     \* ids of the rules that may revoke its key
  opted_in,         \* tenants whose policy switches auto-response on
  suspend_duration, \* ticks a suspension lasts
  max_per_window,   \* actions the breaker permits in one window
  breaker_window,   \* ticks of that window
  queue_capacity,   \* alerts the dispatcher's queue holds
  MAX_ATTEMPTS,     \* deliveries tried per alert
  MaxWall           \* bound on the clock

Ids == {rule.id : rule \in AlertRules}

ASSUME WatchtowerAssumption ==
  /\ Everyone \notin Tenants
  /\ opted_in \subseteq Tenants
  /\ suspend_rules \subseteq Ids /\ revoke_rules \subseteq Ids
  /\ {max_per_window, queue_capacity, MAX_ATTEMPTS} \subseteq Nat \ {0}
  /\ {suspend_duration, breaker_window, MaxWall} \subseteq Nat
  /\ \A rule \in AlertRules : rule.threshold > 0 /\ rule.window > 0
  /\ \A rule, other \in AlertRules :
       rule.id = other.id \/ rule.category = other.category => rule = other

VARIABLES
  wall,        \* the clock, in ticks
  hits,        \* what each rule has counted, by tenant or for everyone
  last_fired,  \* when each of those last fired, -1 for never
  tx,          \* alerts waiting for the dispatcher
  dispatcher,  \* what the dispatcher's task is doing
  permits,     \* times of the actions the breaker still counts
  frozen,      \* the breaker refuses actions and has said so
  overrides,   \* punishments in force
  punished,    \* times at which an action was carried out (history)
  tally        \* alerts fired, dropped, delivered and given up

watchVars == <<wall, hits, last_fired, tx, dispatcher, permits, frozen,
               overrides, punished, tally>>

Listening == [at |-> "recv"]

WatchInit ==
  /\ wall = 0
  /\ hits = [id \in Ids, who \in Tenants \cup {Everyone} |-> <<>>]
  /\ last_fired = [id \in Ids, who \in Tenants \cup {Everyone} |-> -1]
  /\ tx = <<>> /\ dispatcher = Listening
  /\ permits = <<>> /\ frozen = FALSE /\ punished = <<>>
  /\ overrides = [t \in Tenants |-> [key_revoked |-> FALSE, until |-> 0]]
  /\ tally = [fired |-> 0, dropped |-> 0, delivered |-> 0, given_up |-> 0]

WallPasses ==
  /\ wall < MaxWall
  /\ wall' = wall + 1
  /\ UNCHANGED <<hits, last_fired, tx, dispatcher, permits, frozen, overrides,
                 punished, tally>>

-----------------------------------------------------------------------------
(* Counting: GatewayCore::observe_security, RulesEngine::observe.          *)

\* The front is popped until it is an entry that stays.
FrontPopped(entries, staying) ==
  LET first == CHOOSE n \in 1..Len(entries) + 1 :
                 /\ n <= Len(entries) => n \in staying
                 /\ \A i \in 1..n - 1 : i \notin staying
  IN  SubSeq(entries, first, Len(entries))

Since(cutoff, entries) ==
  FrontPopped(entries, {i \in DOMAIN entries : entries[i].at >= cutoff})

Total(entries) == FoldSeq(LAMBDA e, sum : e.count + sum, 0, entries)

\* try_send: an alert that finds the queue full is dropped and counted.
try_enqueue(alert) ==
  IF Len(tx) < queue_capacity
  THEN /\ tx' = Append(tx, alert)
       /\ tally' = [tally EXCEPT !.fired = @ + 1]
  ELSE /\ tally' = [tally EXCEPT !.fired = @ + 1, !.dropped = @ + 1]
       /\ UNCHANGED tx

\* The cooldown starts when the alert fires, whether or not it is queued.
count_hit(rule, tenant, count) ==
  LET who   == IF rule.global THEN Everyone ELSE tenant
      seen  == Append(Since(wall - rule.window, hits[<<rule.id, who>>]),
                      [at |-> wall, count |-> count])
      last  == last_fired[<<rule.id, who>>]
      fires == /\ Total(seen) >= rule.threshold
               /\ last = -1 \/ wall - last >= rule.cooldown
  IN  /\ hits' = [hits EXCEPT ![<<rule.id, who>>] = seen]
      /\ IF fires
         THEN /\ last_fired' = [last_fired EXCEPT ![<<rule.id, who>>] = wall]
              /\ try_enqueue([rule |-> rule.id, tenant |-> who])
         ELSE UNCHANGED <<last_fired, tx, tally>>

observe_security(category, tenant, count) ==
  /\ IF \E rule \in AlertRules : rule.category = category
     THEN \E rule \in AlertRules :
            rule.category = category /\ count_hit(rule, tenant, count)
     ELSE UNCHANGED <<hits, last_fired, tx, tally>>
  /\ UNCHANGED <<wall, dispatcher, permits, frozen, overrides, punished>>

-----------------------------------------------------------------------------
(* The dispatcher's task.                                                  *)

actions_for(alert) ==
  (IF alert.rule \in suspend_rules THEN <<"suspend">> ELSE <<>>)
    \o (IF alert.rule \in revoke_rules THEN <<"revoke_key">> ELSE <<>>)

recv_alert ==
  /\ dispatcher.at = "recv" /\ tx # <<>>
  /\ tx' = Tail(tx)
  /\ dispatcher' = [at |-> "act", alert |-> Head(tx), actions |-> actions_for(Head(tx)),
                    sending |-> "", attempt |-> 0]
  /\ UNCHANGED <<wall, hits, last_fired, permits, frozen, overrides, punished, tally>>

Sends(what) == [dispatcher EXCEPT !.at = "send", !.sending = what, !.attempt = 1]

NextAction == [dispatcher EXCEPT !.at = "act", !.actions = Tail(@)]

\* A bug a refactoring could bring: the suspension replaces the whole entry.
suspend_tenant_for_Fresh(t) ==
  overrides' = [overrides EXCEPT ![t] =
                  [key_revoked |-> FALSE, until |-> wall + suspend_duration]]

suspend_tenant_for(t) ==
  overrides' = [overrides EXCEPT ![t].until = wall + suspend_duration]

revoke_tenant_key(t) == overrides' = [overrides EXCEPT ![t].key_revoked = TRUE]

\* CoreActionExecutor: a tenant that has not opted in is skipped.  The audit
\* entry that follows is best effort and the executor's own event has no rule.
execute(action, t) ==
  IF t \in opted_in
  THEN /\ IF action = "suspend" THEN suspend_tenant_for(t) ELSE revoke_tenant_key(t)
       /\ punished' = Append(punished, wall)
       /\ dispatcher' = Sends("notice")
  ELSE dispatcher' = NextAction /\ UNCHANGED <<overrides, punished>>

\* A bug a refactoring could bring: a permit at the edge of the window is forgotten.
Counted_CutsTheEdge(at) == at > wall - breaker_window

Counted(at) == at >= wall - breaker_window

\* try_permit and what follows without an await.  Refusals are announced
\* once, on the edge into the frozen state; a permit is spent before the
\* executor has looked at the tenant.
act ==
  LET kept == FrontPopped(permits, {i \in DOMAIN permits : Counted(permits[i])})
  IN  IF Len(kept) >= max_per_window
      THEN /\ permits' = kept /\ frozen' = TRUE
           /\ dispatcher' = IF frozen THEN NextAction ELSE Sends("meta")
           /\ UNCHANGED <<overrides, punished>>
      ELSE /\ permits' = Append(kept, wall) /\ frozen' = FALSE
           /\ execute(Head(dispatcher.actions), dispatcher.alert.tenant)

apply_actions ==
  /\ dispatcher.at = "act"
  /\ IF dispatcher.actions = <<>>
     THEN dispatcher' = Sends("alert") /\ UNCHANGED <<permits, frozen, overrides, punished>>
     ELSE act
  /\ UNCHANGED <<wall, hits, last_fired, tx, tally>>

Sent(outcome) ==
  IF dispatcher.sending = "alert"
  THEN dispatcher' = Listening /\ tally' = [tally EXCEPT ![outcome] = @ + 1]
  ELSE dispatcher' = NextAction /\ UNCHANGED tally

deliver_fails ==
  /\ dispatcher.at = "send"
  /\ IF dispatcher.attempt < MAX_ATTEMPTS
     THEN dispatcher' = [dispatcher EXCEPT !.attempt = @ + 1] /\ UNCHANGED tally
     ELSE Sent("given_up")
  /\ UNCHANGED <<wall, hits, last_fired, tx, permits, frozen, overrides, punished>>

deliver_succeeds ==
  /\ dispatcher.at = "send"
  /\ Sent("delivered")
  /\ UNCHANGED <<wall, hits, last_fired, tx, permits, frozen, overrides, punished>>

Dispatch == recv_alert \/ apply_actions \/ deliver_fails \/ deliver_succeeds

-----------------------------------------------------------------------------
WatchTypeOK ==
  /\ wall \in 0..MaxWall /\ frozen \in BOOLEAN
  /\ DOMAIN hits = Ids \X (Tenants \cup {Everyone})
  /\ DOMAIN last_fired = DOMAIN hits
  /\ Len(tx) <= queue_capacity
  /\ dispatcher.at \in {"recv", "act", "send"}
  /\ Len(permits) <= max_per_window
  /\ overrides \in [Tenants -> [key_revoked : BOOLEAN, until : Nat]]

\* No window of the breaker holds more punishments than it allows, both of
\* its ends included: a false alarm cannot suspend tenants without limit.
BreakerHolds ==
  \A i \in 1..Len(punished) :
    Cardinality({j \in 1..Len(punished) :
      punished[j] \in punished[i]..punished[i] + breaker_window}) <= max_per_window

\* Every alert that fired is waiting, in the dispatcher's hands, delivered,
\* given up after the last attempt, or counted as dropped.
AlertsAccounted ==
  tally.fired = tally.dropped + tally.delivered + tally.given_up + Len(tx)
                + (IF dispatcher = Listening THEN 0 ELSE 1)

\* A revoked key stays revoked, whatever later alerts do to the same tenant.
KeyStaysRevoked ==
  [][\A t \in Tenants : overrides[t].key_revoked => overrides'[t].key_revoked]_watchVars

=============================================================================
