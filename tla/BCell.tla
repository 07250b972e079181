------------------------------- MODULE BCell -------------------------------
(***************************************************************************)
(* The B-Cell (immune-system/src/bcell.rs) and the immune task of the      *)
(* companion (kernel-companion/src/lib.rs).  The task receives every       *)
(* intent of the bus; from the threats the T-Cell publishes the B-Cell     *)
(* learns patterns and makes antibodies, and when ten seconds have passed  *)
(* without an intent the task sweeps antibodies and quarantines.           *)
(***************************************************************************)
EXTENDS Naturals, Sequences, FiniteSets

CONSTANTS ImmuneCalls,         \* the system calls in the histories of threats
          HistoryLimit,        \* the length of a history
          MinCount, max_patterns,
          PromoteCount,        \* occurrences that give the promotion confidence
          MaxBehind            \* bound: intents the immune task is behind

ASSUME BCellAssumption ==
  /\ {HistoryLimit, MinCount, max_patterns, PromoteCount} \subseteq Nat \ {0}
  /\ MaxBehind \in Nat

VARIABLES
  inbox,                       \* intents the immune task has yet to receive
  patterns,                    \* BCellAgent
  shadow, antibodies,          \* of a call there is at most one antibody
  enforced,                    \* calls the immune task has had blocked
  slept,                       \* its sleep of ten seconds is over
  overdue                      \* a quarantine of the T-Cell has expired

bcellVars == <<inbox, patterns, shadow, antibodies, enforced, slept, overdue>>

BusIntents == {"other", "threat"}
Histories  == UNION {[1 .. n -> ImmuneCalls] : n \in 1 .. HistoryLimit}
Antibodies == [syscall : ImmuneCalls, complete : BOOLEAN, confident : BOOLEAN]

BCellTypeOK ==
  /\ inbox \in Seq(BusIntents) /\ Len(inbox) <= MaxBehind
  /\ patterns \in Seq(Histories) /\ Len(patterns) <= max_patterns
  /\ shadow \subseteq Antibodies /\ antibodies \subseteq ImmuneCalls
  /\ \A a, b \in shadow : a.syscall = b.syscall => a = b
  /\ \A a \in shadow : a.syscall \notin antibodies
  /\ enforced \subseteq ImmuneCalls /\ {slept, overdue} \subseteq BOOLEAN

BCellInit ==
  /\ inbox = <<>>
  /\ patterns = <<>> /\ shadow = {} /\ antibodies = {} /\ enforced = {}
  /\ slept = FALSE /\ overdue = FALSE

-----------------------------------------------------------------------------
(* Mutant: the limit is looked at one pattern late.                        *)
learn_threat_OneOver(history) ==
  IF Len(patterns) > max_patterns THEN Append(Tail(patterns), history)
  ELSE Append(patterns, history)

(* A threat of the T-Cell has a severity of 8 or 10, severe enough.        *)
learn_threat(history) ==
  IF Len(patterns) >= max_patterns THEN Append(Tail(patterns), history)
  ELSE Append(patterns, history)

(* How often a call occurs in the patterns.                                *)
Frequency(learned, s) ==
  Cardinality({p \in (DOMAIN learned) \X (1 .. HistoryLimit) :
                 p[2] \in DOMAIN learned[p[1]] /\ learned[p[1]][p[2]] = s})

Known(s) == (\E ab \in shadow : ab.syscall = s) \/ s \in antibodies

Frequent(learned, s) ==
  /\ \A other \in ImmuneCalls : Frequency(learned, other) <= Frequency(learned, s)
  /\ Frequency(learned, s) >= MinCount

(* One of the most frequent calls becomes a shadow antibody if it is       *)
(* frequent enough and there is none for it yet; the task has it blocked   *)
(* at once.                                                                *)
generate_antibody(learned) ==
  \/ /\ \A s \in ImmuneCalls : ~Frequent(learned, s)
     /\ UNCHANGED <<shadow, enforced>>
  \/ \E s \in ImmuneCalls :
       /\ Frequent(learned, s)
       /\ IF Known(s) THEN UNCHANGED <<shadow, enforced>>
          ELSE /\ shadow' = shadow \cup {[syscall |-> s, complete |-> FALSE,
                                          confident |-> Frequency(learned, s) >= PromoteCount]}
               /\ enforced' = enforced \cup {s}

(* An intent arrives, and the sleep begins again.  The task reads the      *)
(* history of the suspect now, whatever it has become since the verdict.   *)
ReceiveIntent ==
  /\ inbox # <<>> /\ inbox' = Tail(inbox)
  /\ slept' = FALSE
  /\ \/ UNCHANGED <<patterns, shadow, enforced>>
     \/ /\ Head(inbox) = "threat"
        /\ \E history \in Histories : patterns' = learn_threat(history)
        /\ generate_antibody(patterns')
  /\ UNCHANGED <<antibodies, overdue>>

Publish(x) ==
  /\ Len(inbox) < MaxBehind
  /\ inbox' = Append(inbox, x)
  /\ UNCHANGED <<patterns, shadow, antibodies, enforced, slept, overdue>>

Sleep ==
  /\ ~slept /\ slept' = TRUE
  /\ UNCHANGED <<inbox, patterns, shadow, antibodies, enforced, overdue>>

ObservationCompletes ==
  \E ab \in shadow :
    /\ ~ab.complete
    /\ shadow' = (shadow \ {ab}) \cup {[ab EXCEPT !.complete = TRUE]}
    /\ UNCHANGED <<inbox, patterns, antibodies, enforced, slept, overdue>>

QuarantineExpires ==
  /\ overdue' = TRUE
  /\ UNCHANGED <<inbox, patterns, shadow, antibodies, enforced, slept>>

Promoted(ab)  == ab.complete /\ ab.confident
Observing(ab) == ~ab.complete

(* The periodic work.  Nobody records observations of shadow antibodies,   *)
(* so that their rate of false positives is 0 and confidence decides.      *)
sweep_shadow_antibodies ==
  LET promoted == {ab.syscall : ab \in {a \in shadow : Promoted(a)}} IN
  /\ slept /\ slept' = FALSE
  /\ shadow' = {ab \in shadow : Observing(ab)}
  /\ antibodies' = antibodies \cup promoted
  /\ enforced' = enforced \cup promoted
  /\ overdue' = FALSE
  /\ UNCHANGED <<inbox, patterns>>

BCellNext ==
  \/ \E x \in BusIntents : Publish(x)
  \/ ReceiveIntent \/ Sleep \/ ObservationCompletes \/ QuarantineExpires
  \/ sweep_shadow_antibodies

-----------------------------------------------------------------------------
(* "Shadow" means observing: what is in shadow mode is not enforced yet    *)
(* (bcell.rs:177-181).                                                     *)
ShadowIsNotEnforced ==
  \A ab \in shadow : ab.syscall \notin enforced

(* Fairness: time passes, and the immune task is a task of its own.        *)
BCellFairness ==
  /\ WF_bcellVars(ReceiveIntent \/ Sleep \/ sweep_shadow_antibodies)
  /\ WF_bcellVars(ObservationCompletes)

BCellSpec == BCellInit /\ [][BCellNext]_bcellVars /\ BCellFairness

(* Once the bus stays quiet, no shadow antibody is left for ever and an    *)
(* expired quarantine is lifted.  (Every intent restarts the sleep, so     *)
(* that a busy bus may put the sweep off for ever.)                        *)
QuietBusIsSwept ==
  <>[](inbox = <<>>) => []<>(shadow = {}) /\ []<>(~overdue)
=============================================================================
