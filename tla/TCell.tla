------------------------------- MODULE TCell -------------------------------
(***************************************************************************)
(* The T-Cell (immune-system/src/tcell.rs) and the companion task that     *)
(* drives it (kernel-companion/src/lib.rs): the calls of a process are     *)
(* judged over windows of one second, and a threat is cut off in the       *)
(* kernel, recorded in quarantine and published, one after the other.      *)
(***************************************************************************)
EXTENDS Naturals, Sequences, FiniteSets

CONSTANTS Suspects,            \* processes, each with its tenant
          ObservedCalls,       \* the system calls they make
          Signatures,          \* suspicious sequences of sets of calls
          Thresholds,          \* <<rate, deny, kill>> after jitter and sensitivity
          Exempt,              \* processes that are never killed
          violation_window_limit,
          HistoryLength,
          MaxCount             \* bound: calls, denials and windows counted

ASSUME TCellAssumption ==
  /\ Exempt \subseteq Suspects
  /\ Thresholds \subseteq (Nat \X (Nat \ {0}) \X (Nat \ {0})) /\ Thresholds # {}
  /\ {violation_window_limit, HistoryLength} \subseteq Nat \ {0}
  /\ MaxCount \in Nat

VARIABLES
  process_stats, quarantined,  \* TCellAgent
  verdict,                     \* the threat the task is dealing with
  cut                          \* pids denied in the kernel for a threat

tcellVars == <<process_stats, quarantined, verdict, cut>>

NoStats == [syscall_count |-> 0, deny_count |-> 0, consecutive_violations |-> 0,
            scored |-> 0, history |-> <<>>, elapsed |-> FALSE, bad_windows |-> 0]

TCellTypeOK ==
  /\ \A p \in Suspects :
       /\ process_stats[p].syscall_count \in Nat /\ process_stats[p].deny_count \in Nat
       /\ process_stats[p].history \in Seq(ObservedCalls)
       /\ Len(process_stats[p].history) <= HistoryLength
  /\ quarantined \in [Suspects -> {"no", "recent", "expired"}]
  /\ verdict = {} \/ \E p \in Suspects, d \in {"Quarantine", "Kill"}, b \in BOOLEAN :
                       verdict = {[suspect |-> p, decision |-> d, cut |-> b]}
  /\ cut \subseteq Suspects

TCellInit ==
  /\ process_stats = [p \in Suspects |-> NoStats]
  /\ quarantined = [p \in Suspects |-> "no"]
  /\ verdict = {} /\ cut = {}

-----------------------------------------------------------------------------

(* The calls of a signature occur in the history in its order.             *)
Shows(history, signature) ==
  \E at \in [DOMAIN signature -> DOMAIN history] :
    /\ \A i, j \in DOMAIN signature : i < j => at[i] < at[j]
    /\ \A i \in DOMAIN signature : history[at[i]] \in signature[i]

has_suspicious_sequence(history) == \E sig \in Signatures : Shows(history, sig)

AtMost(n, limit) == IF n < limit THEN n ELSE limit

(* The score is a fraction; it is kept here times the rate limit, and a    *)
(* rate limit of 0 leaves the rate out of it.                              *)
Weight(t) == IF t[1] = 0 THEN 1 ELSE t[1]
Score(st, t) ==
  (IF t[1] = 0 THEN 0 ELSE 4 * st.syscall_count)
  + Weight(t) * (2 * AtMost(st.deny_count, t[2])
                 + (IF has_suspicious_sequence(st.history) THEN 8 ELSE 0))

Violating(st, score, t) ==
  \/ st.deny_count >= t[2]
  \/ t[1] > 0 /\ st.syscall_count >= 2 * t[1]
  \/ score >= t[3] * Weight(t)

(* A window that is over is judged with the thresholds of the first call   *)
(* after it, and the denials go on being counted.                          *)
Rolled(st, t) ==
  IF ~st.elapsed THEN st
  ELSE [st EXCEPT !.consecutive_violations =
                     IF Violating(st, st.scored, t) THEN @ + 1 ELSE 0,
                  !.syscall_count = 0, !.elapsed = FALSE,
                  !.bad_windows = IF \E x \in Thresholds : Violating(st, st.scored, x)
                                  THEN @ + 1 ELSE 0]

Counted(st, s, denied) ==
  [st EXCEPT !.syscall_count = @ + 1,
             !.deny_count = IF denied THEN @ + 1 ELSE 0,
             !.history = IF Len(@) >= HistoryLength THEN Append(Tail(@), s)
                         ELSE Append(@, s)]

Decision(p, st, t) ==
  LET score == Score(st, t)
      total == st.consecutive_violations + (IF Violating(st, score, t) THEN 1 ELSE 0)
  IN IF total >= violation_window_limit THEN (IF p \in Exempt THEN "Warn" ELSE "Kill")
     ELSE IF (t[1] > 0 /\ st.syscall_count >= t[1]) \/ score >= 8 * Weight(t)
          THEN "Quarantine"
     ELSE IF st.deny_count > 0 \/ score >= 2 * Weight(t) THEN "Warn" ELSE "Safe"

(* An event of the tracer: what is judged a threat is dealt with before    *)
(* the next event.                                                         *)
observe_syscall(p, s, denied) ==
  \E t \in Thresholds :
    LET st  == Counted(Rolled(process_stats[p], t), s, denied)
        dec == Decision(p, st, t)
    IN
    /\ verdict = {}
    /\ {process_stats[p].syscall_count, process_stats[p].deny_count,
        process_stats[p].bad_windows} \subseteq 0 .. MaxCount - 1
    /\ process_stats' = [process_stats EXCEPT ![p] = [st EXCEPT !.scored = Score(st, t)]]
    /\ verdict' = IF dec \in {"Quarantine", "Kill"}
                  THEN {[suspect |-> p, decision |-> dec, cut |-> FALSE]} ELSE {}
    /\ UNCHANGED <<quarantined, cut>>

WindowElapses(p) ==
  /\ process_stats[p].syscall_count > 0 /\ ~process_stats[p].elapsed
  /\ process_stats' = [process_stats EXCEPT ![p].elapsed = TRUE]
  /\ UNCHANGED <<quarantined, verdict, cut>>

(* apply_immune_revocation, whose error is only logged, and then the       *)
(* quarantine of the T-Cell.                                               *)
quarantine ==
  \E v \in verdict :
    /\ ~v.cut
    /\ verdict' = {[v EXCEPT !.cut = TRUE]}
    /\ cut' \in {cut, cut \cup {v.suspect}}
    /\ quarantined' = IF v.decision = "Quarantine"
                      THEN [quarantined EXCEPT ![v.suspect] = "recent"] ELSE quarantined
    /\ UNCHANGED <<process_stats>>

(* After the audit entry the threat is published, and the task is free.    *)
PublishThreat ==
  \E v \in verdict :
    /\ v.cut /\ verdict' = {}
    /\ UNCHANGED <<process_stats, quarantined, cut>>

QuarantineAges(p) ==
  /\ quarantined[p] = "recent"
  /\ quarantined' = [quarantined EXCEPT ![p] = "expired"]
  /\ UNCHANGED <<process_stats, verdict, cut>>

(* The immune task lifts expired quarantines; the kernel keeps its denial. *)
release_expired_quarantine ==
  /\ \E p \in Suspects : quarantined[p] = "expired"
  /\ quarantined' = [p \in Suspects |-> IF quarantined[p] = "expired" THEN "no"
                                        ELSE quarantined[p]]
  /\ UNCHANGED <<process_stats, verdict, cut>>

TCellNext ==
  \/ \E p \in Suspects, s \in ObservedCalls, d \in BOOLEAN : observe_syscall(p, s, d)
  \/ \E p \in Suspects : WindowElapses(p) \/ QuarantineAges(p)
  \/ quarantine \/ PublishThreat \/ release_expired_quarantine

TCellSpec == TCellInit /\ [][TCellNext]_tcellVars

-----------------------------------------------------------------------------
(* A process is killed only after as many bad windows as the limit says:   *)
(* earlier windows, without a good one between them, in which it broke     *)
(* the thresholds in some jitter, and the one it is in.  A single burst    *)
(* does not kill.                                                          *)
KilledForWindows ==
  [][\A v \in verdict' : v.decision = "Kill" =>
       process_stats'[v.suspect].bad_windows + 1 >= violation_window_limit]_tcellVars

=============================================================================
