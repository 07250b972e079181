----------------------------- MODULE AuditTrail -----------------------------
(***************************************************************************)
(* What a hash-chained audit log promises its callers                      *)
(* (crates/capability-security/src/chained_log.rs, README 8.1): a record   *)
(* is appended to a trail that is never rewritten, each record at most     *)
(* once, and a caller is told Ok only of a record that is in the trail.    *)
(* The promise ends when a fault it does not cover disturbs the file.      *)
(***************************************************************************)
EXTENDS Integers, Sequences

VARIABLES trail, acked, disturbed

vars == <<trail, acked, disturbed>>

Recorded == {trail[i] : i \in DOMAIN trail}

Init ==
  /\ trail = <<>>
  /\ acked = {}
  /\ disturbed = FALSE

(* A record is appended; its caller learns of it, or the call fails.       *)
Record(e) ==
  /\ e \notin Recorded
  /\ trail' = Append(trail, e)
  /\ acked' \in {acked, acked \cup {e}}

Undisturbed == ~disturbed /\ ~disturbed'

(* The record appended by this step, if it appends one.                    *)
Next ==
  \/ Undisturbed /\ Len(trail') > 0 /\ Record(trail'[Len(trail')])
  \/ disturbed'

Spec == Init /\ [][Next]_vars
=============================================================================
