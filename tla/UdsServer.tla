----------------------------- MODULE UdsServer -----------------------------
(***************************************************************************)
(* The control socket (kernel-companion/src/uds.rs) and its sessions       *)
(* (capability-security/src/uds_auth.rs): a connection authenticates with  *)
(* a capability token, which is validated and audited before a session is  *)
(* kept with the token's capabilities; commands ride on a session, whose   *)
(* idle time they reset.                                                   *)
(***************************************************************************)
EXTENDS Naturals, FiniteSets

CONSTANTS Connections, UdsTokens,
          TokenCapabilities,    \* what each token grants
          session_ttl,
          MaxSessions           \* bound: sessions ever made

ASSUME UdsAssumption ==
  /\ TokenCapabilities \in [UdsTokens -> SUBSET {"read", "write", "execute", "admin"}]
  /\ session_ttl \in Nat /\ MaxSessions \in Nat

VARIABLES
  valid_tokens,         \* registered tokens that are neither revoked nor expired
  connection,           \* what the task of each connection does
  sessions,             \* the table of sessions
  next_session_id,
  settings,             \* thresholds and profile as the commands have set them
  granted               \* history: tokens whose session did the latest command

udsVars == <<valid_tokens, connection, sessions, next_session_id, settings, granted>>

Commands == {"status", "set-threshold", "set-lsm-profile", "spawn-agent"}
Ids      == 1 .. MaxSessions
Session  == [token : UdsTokens, idle : 0 .. session_ttl + 1]
NoToken  == {}

UdsTypeOK ==
  /\ valid_tokens \subseteq UdsTokens
  /\ connection \in [Connections ->
       [pc : {"closed", "open", "validating"}, token : SUBSET UdsTokens, session : 0 .. MaxSessions]]
  /\ DOMAIN sessions \subseteq Ids /\ \A i \in DOMAIN sessions : sessions[i] \in Session
  /\ next_session_id \in 1 .. MaxSessions + 1
  /\ settings \in [threshold : 0 .. 1, profile : 0 .. 1]
  /\ granted \in SUBSET UdsTokens

UdsInit ==
  /\ valid_tokens \in SUBSET UdsTokens
  /\ connection = [c \in Connections |-> [pc |-> "closed", token |-> NoToken, session |-> 0]]
  /\ sessions = [i \in {} |-> 0] /\ next_session_id = 1
  /\ settings = [threshold |-> 0, profile |-> 0] /\ granted = {}

-----------------------------------------------------------------------------
is_expired_session(s) == s.idle > session_ttl

Kept(ids) == [i \in ids |-> sessions[i]]
Live == {i \in DOMAIN sessions : ~is_expired_session(sessions[i])}

(* A new connection first sweeps the expired sessions; a peer of another   *)
(* user is dropped.                                                        *)
Accept(c) ==
  /\ connection[c].pc = "closed" /\ sessions' = Kept(Live)
  /\ connection' = [connection EXCEPT ![c].pc = "open"]
  /\ UNCHANGED <<valid_tokens, next_session_id, settings, granted>>

AcceptRefused(c) ==
  /\ connection[c].pc = "closed" /\ sessions' = Kept(Live)
  /\ UNCHANGED <<valid_tokens, connection, next_session_id, settings, granted>>

(* The end of a connection, or two of its reads too far apart: its session *)
(* stays in the table.                                                     *)
Close(c) ==
  /\ connection[c].pc = "open"
  /\ connection' = [connection EXCEPT ![c] = [pc |-> "closed", token |-> NoToken, session |-> 0]]
  /\ UNCHANGED <<valid_tokens, sessions, next_session_id, settings, granted>>

(* The token is looked up and validated; then the audit entry is written.  *)
AuthBegin(c, t) ==
  /\ connection[c].pc = "open" /\ t \in valid_tokens /\ next_session_id <= MaxSessions
  /\ connection' = [connection EXCEPT ![c].pc = "validating", ![c].token = {t}]
  /\ UNCHANGED <<valid_tokens, sessions, next_session_id, settings, granted>>

AuthEnd(c) ==
  /\ connection[c].pc = "validating"
  /\ \E t \in connection[c].token :
       /\ next_session_id <= MaxSessions
       /\ sessions' = [i \in DOMAIN sessions \cup {next_session_id} |->
                         IF i = next_session_id THEN [token |-> t, idle |-> 0] ELSE sessions[i]]
       /\ connection' = [connection EXCEPT ![c] =
                           [pc |-> "open", token |-> NoToken, session |-> next_session_id]]
  /\ next_session_id' = next_session_id + 1
  /\ UNCHANGED <<valid_tokens, settings, granted>>

(* The audit entry cannot be written, or the pid is not the token's.       *)
AuthFails(c) ==
  /\ connection[c].pc = "validating"
  /\ connection' = [connection EXCEPT ![c].pc = "open", ![c].token = NoToken]
  /\ UNCHANGED <<valid_tokens, sessions, next_session_id, settings, granted>>

required_capability(cmd) ==
  CASE cmd = "status" -> "read"
    [] cmd \in {"set-threshold", "set-lsm-profile"} -> "admin"
    [] OTHER -> "execute"

(* What an authorized command does; the others only read, or publish.      *)
Executed(cmd) ==
  CASE cmd = "set-threshold"   -> {[settings EXCEPT !.threshold = v] : v \in 0 .. 1}
    [] cmd = "set-lsm-profile" -> {[settings EXCEPT !.profile = v] : v \in 0 .. 1}
    [] OTHER                   -> {settings}

(* A command on a session, the connection's own or one it names.           *)
authorize_command(c, i, cmd) ==
  /\ connection[c].pc = "open" /\ i \in DOMAIN sessions
  /\ IF is_expired_session(sessions[i])
     THEN sessions' = Kept(DOMAIN sessions \ {i}) /\ UNCHANGED <<settings, granted>>
     ELSE /\ required_capability(cmd) \in TokenCapabilities[sessions[i].token]
          /\ sessions' = [sessions EXCEPT ![i].idle = 0]
          /\ settings' \in Executed(cmd) /\ granted' = {sessions[i].token}
  /\ UNCHANGED <<valid_tokens, connection, next_session_id>>

Revoked(t) ==
  /\ t \in valid_tokens /\ valid_tokens' = valid_tokens \ {t}
  /\ UNCHANGED <<connection, sessions, next_session_id, settings, granted>>

TimePasses ==
  /\ sessions' = [i \in DOMAIN sessions |->
       [sessions[i] EXCEPT !.idle = IF @ > session_ttl THEN @ ELSE @ + 1]]
  /\ UNCHANGED <<valid_tokens, connection, next_session_id, settings, granted>>

UdsNext ==
  \/ \E c \in Connections :
       \/ Accept(c) \/ AcceptRefused(c) \/ Close(c) \/ AuthEnd(c) \/ AuthFails(c)
       \/ \E t \in UdsTokens : AuthBegin(c, t)
       \/ \E i \in DOMAIN sessions, cmd \in Commands : authorize_command(c, i, cmd)
  \/ \E t \in UdsTokens : Revoked(t)
  \/ TimePasses

UdsSpec == UdsInit /\ [][UdsNext]_udsVars

-----------------------------------------------------------------------------
(* Thresholds and the profile change only for a token that grants "admin", *)
(* and over a session that nobody has left idle for longer than its time   *)
(* to live: what was swept, or should have been, is not revived by a late  *)
(* command of the same or another connection.                              *)
AdminWithinTtl ==
  [][settings' # settings =>
       \E i \in DOMAIN sessions :
         /\ i \in DOMAIN sessions' /\ sessions[i].idle <= session_ttl
         /\ "admin" \in TokenCapabilities[sessions[i].token]]_udsVars
=============================================================================
