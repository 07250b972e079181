------------------------- MODULE CapabilitySecurity -------------------------
(***************************************************************************)
(* The token registry: CapabilitySecurityManager of                        *)
(* crates/capability-security/src/lib.rs, its tokens and revoked tables    *)
(* (each behind its own lock) and the operations that await the audit log  *)
(* between reading and writing them.                                       *)
(*                                                                         *)
(* A token is issued once.  Its scope is one process or Global; that its   *)
(* lifetime has passed is the flag "expired", raised by Expire at any      *)
(* moment: only the order of expiry and the other steps matters.           *)
(***************************************************************************)
EXTENDS Naturals, FiniteSets

CONSTANTS Tokens,      \* token ids
          Pids,        \* process ids
          Global,      \* the Global scope
          TokenScope   \* the scope of each token: a pid, or Global

ASSUME CapabilityAssumption ==
  /\ Global \notin Pids
  /\ TokenScope \in [Tokens -> Pids \cup {Global}]

VARIABLES
  token,     \* "new", "issuing" (awaiting the audit log), "live" or "gone"
  expired,   \* tokens past expires_at
  revoked,   \* the revoked table
  revoking,  \* calls of revoke_token between their two critical sections
  cut        \* history: registered tokens that revoke_token has marked

registryVars == <<token, expired, revoked, revoking, cut>>

(* The shapes of the registry's tables.                                    *)
RegistryTypeOK ==
  /\ token \in [Tokens -> {"new", "issuing", "live", "gone"}]
  /\ expired \subseteq Tokens
  /\ revoked \subseteq Tokens
  /\ revoking \subseteq Tokens
  /\ cut \subseteq Tokens

RegistryInit ==
  /\ token = [t \in Tokens |-> "new"]
  /\ expired = {}
  /\ revoked = {}
  /\ revoking = {}
  /\ cut = {}

Live == {t \in Tokens : token[t] = "live"}

(* is_valid and not revoked: what makes a registered token usable.         *)
Valid(t) == t \in Live /\ t \notin expired /\ t \notin revoked

has_valid_token_for_pid(p) == \E t \in Tokens : TokenScope[t] = p /\ Valid(t)

ProcessScopedPids == {TokenScope[t] : t \in Live} \ {Global}

(* validate: the token is registered and usable, the secret matches and    *)
(* the policy engine grants the capability (proper), and the token's scope *)
(* is the one asked for or Global.                                         *)
Validates(t, p, proper) ==
  Valid(t) /\ proper /\ TokenScope[t] \in {p, Global}

(* issue_token writes the audit log first ...                              *)
IssueBegin(t) ==
  /\ token[t] = "new"
  /\ token' = [token EXCEPT ![t] = "issuing"]
  /\ UNCHANGED <<expired, revoked, revoking, cut>>

(* ... and only then the registry; when the audit fails the token is not   *)
(* registered, and the caller may try again.                               *)
IssueEnd(t, audited) ==
  /\ token[t] = "issuing"
  /\ token' = [token EXCEPT ![t] = IF audited THEN "live" ELSE "new"]
  /\ UNCHANGED <<expired, revoked, revoking, cut>>

(* A lifetime that ends while the issue awaits the audit log shows first   *)
(* when the token is registered.                                           *)
Expire(t) ==
  /\ t \in Live \ expired
  /\ expired' = expired \cup {t}
  /\ UNCHANGED <<token, revoked, revoking, cut>>

(* revoke_token marks the id first, whether or not it is registered.       *)
Revoke(t) ==
  /\ revoked' = revoked \cup {t}
  /\ revoking' = revoking \cup {t}
  /\ cut' = IF t \in Live THEN cut \cup {t} ELSE cut
  /\ UNCHANGED <<token, expired>>

(* Then it looks the token up and, if it is registered, calls the          *)
(* revocation callback with its scope; the audit entry that follows        *)
(* changes nothing here, even when it fails.                               *)
RevokeNotify(t) ==
  /\ t \in revoking
  /\ revoking' = revoking \ {t}
  /\ UNCHANGED <<token, expired, revoked, cut>>

(* Mutant: garbage collection empties the revoked table.                   *)
GarbageCollect_ForgetsAll ==
  LET gone == Live \cap expired
  IN  /\ token' = [t \in Tokens |-> IF t \in gone THEN "gone" ELSE token[t]]
      /\ revoked' = {}
      /\ expired' = expired \ gone
      /\ cut' = cut \ gone
      /\ UNCHANGED revoking

(* garbage_collect drops the expired tokens, then the revocations of ids   *)
(* that are not registered, under all the locks.                           *)
GarbageCollect ==
  LET left == Live \ expired
      gone == Live \cap expired
  IN  /\ token' = [t \in Tokens |-> IF t \in gone THEN "gone" ELSE token[t]]
      /\ revoked' = revoked \cap left
      /\ expired' = expired \ gone
      /\ cut' = cut \ gone
      /\ UNCHANGED revoking

-----------------------------------------------------------------------------
(* A token that was in the registry when revoke_token was called is never  *)
(* usable again: garbage collection forgets a revocation only together     *)
(* with its token.                                                         *)
RevokedStaysDead == \A t \in cut : t \in Live /\ ~Valid(t)
=============================================================================
