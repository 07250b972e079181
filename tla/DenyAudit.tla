----------------------------- MODULE DenyAudit -----------------------------
(***************************************************************************)
(* The limiter of denial entries (kernel-companion/src/deny_audit.rs) and  *)
(* the T-Cell task that writes what it decides: per (pid, system call) so  *)
(* many single entries a second, and a summary of the others when the      *)
(* next denial of that pair falls into a later second.                     *)
(***************************************************************************)
EXTENDS Naturals, FiniteSets

CONSTANTS DenyKeys,            \* the pairs of pid and system call
          cap_per_sec,
          MaxTracked,          \* DENY_AUDIT_MAX_TRACKED
          MaxDenials           \* bound: denials of a pair

ASSUME DenyAuditAssumption ==
  /\ cap_per_sec \in Nat \ {0} /\ MaxTracked \in Nat \ {0} /\ MaxDenials \in Nat

VARIABLES
  windows,       \* the pairs with a window
  denied,        \* history: denials so far
  recorded,      \* history: denials the audit log accounts for
  cleared        \* history: suppressed counts that went with a clear

denyVars == <<windows, denied, recorded, cleared>>

DenyWindow == [audited : 0 .. cap_per_sec, suppressed : 0 .. MaxDenials, past : BOOLEAN]
NewWindow  == [audited |-> 0, suppressed |-> 0, past |-> FALSE]

Suppressed(k) == IF k \in DOMAIN windows THEN windows[k].suppressed ELSE 0

DenyTypeOK ==
  /\ DOMAIN windows \subseteq DenyKeys
  /\ \A k \in DOMAIN windows : windows[k] \in DenyWindow
  /\ {denied, recorded, cleared} \subseteq [DenyKeys -> 0 .. MaxDenials]

DenyInit ==
  /\ windows = [k \in {} |-> NewWindow]
  /\ denied = [k \in DenyKeys |-> 0]
  /\ recorded = [k \in DenyKeys |-> 0]
  /\ cleared = [k \in DenyKeys |-> 0]

Full_windows == Cardinality(DOMAIN windows) >= MaxTracked

(* A full map is emptied, the pairs that are in it included.               *)
Tracked(k) ==
  LET kept == IF Full_windows THEN {} ELSE DOMAIN windows
  IN [j \in kept \cup {k} |-> IF j \in kept THEN windows[j] ELSE NewWindow]

(* The denials the entries of this decision account for.                   *)
Reported(w) == IF w.past THEN w.suppressed + 1
               ELSE IF w.audited < cap_per_sec THEN 1 ELSE 0

Next_window(w) ==
  CASE w.past                    -> [NewWindow EXCEPT !.audited = 1]
    [] w.audited < cap_per_sec /\ ~w.past -> [w EXCEPT !.audited = @ + 1]
    [] OTHER                     -> [w EXCEPT !.suppressed = @ + 1]

decide(k) ==
  LET tracked == Tracked(k) IN
  /\ denied[k] < MaxDenials
  /\ denied' = [denied EXCEPT ![k] = @ + 1]
  /\ windows' = [tracked EXCEPT ![k] = Next_window(@)]
  /\ recorded' = [recorded EXCEPT ![k] = @ + Reported(tracked[k])]
  /\ cleared' = IF Full_windows
                THEN [j \in DenyKeys |-> cleared[j] + Suppressed(j)]
                ELSE cleared

SecondPasses(k) ==
  /\ k \in DOMAIN windows /\ ~windows[k].past
  /\ windows' = [windows EXCEPT ![k].past = TRUE]
  /\ UNCHANGED <<denied, recorded, cleared>>

DenyNext == \E k \in DenyKeys : decide(k) \/ SecondPasses(k)

DenySpec == DenyInit /\ [][DenyNext]_denyVars

-----------------------------------------------------------------------------
(* "Every decision is counted in the audit, none vanishes silently"        *)
(* (deny_audit.rs:11): a denial has its entry, is in a summary, or is in   *)
(* the count of the present window.  What the limiter cannot keep is what  *)
(* it has suppressed when it empties a full map.                           *)
DenialsAccounted ==
  \A k \in DenyKeys : denied[k] = recorded[k] + Suppressed(k) + cleared[k]
=============================================================================
