---------------------------- MODULE SemanticGuard ----------------------------
(***************************************************************************)
(* The semantic guard: one inspection of a text, step by step.  The text   *)
(* is normalised (invisible characters dropped, wide ones folded, spaces   *)
(* collapsed) with a map back to the bytes of the original; personal data  *)
(* and injection signatures are searched in the normalised text; what the  *)
(* policy redacts is replaced in the original.  The clock is read after    *)
(* every step, and an inspection that is late or too large is denied.      *)
(* The patterns keep their form and have fewer digits.                     *)
(***************************************************************************)
EXTENDS Integers, Sequences, FiniteSets, SequencesExt

CONSTANTS
  GuardTexts,            \* the texts examined, sequences over GuardChars
  max_input_bytes,       \* GuardConfig::max_input_bytes
  redact_kinds,          \* kinds redacted in any case
  InjectionRules,        \* records [id, severity, pattern]
  CardDigits,            \* number of digits of a card (13..19)
  IdDigits,              \* number of digits of a national id (13)
  MaxOctet,              \* largest number in an address (255)
  MAX_FINDINGS_PER_RULE

Digit == [d3 |-> 3, d4 |-> 4, d9 |-> 9]
GuardChars == DOMAIN Digit \cup {"space", "dot", "wide3", "joiner"}

ASSUME GuardAssumption ==
  /\ GuardTexts \subseteq Seq(GuardChars)
  /\ {max_input_bytes, IdDigits, MaxOctet, MAX_FINDINGS_PER_RULE} \subseteq Nat
  /\ CardDigits \subseteq Nat

VARIABLES
  examined,    \* the text, its direction and GuardConfig::redact_all
  guard_stage,  \* how far the inspection has come
  normalized,   \* Normalized: chars, and for each the bytes it stands for
  pii_found,    \* findings of PiiDetector::detect
  injections,   \* findings of the matcher and of the plugged-in detector
  guard_verdict

guardVars == <<examined, guard_stage, normalized, pii_found, injections, guard_verdict>>

GuardInit ==
  /\ examined = [text |-> <<>>, direction |-> "Inbound", redact_all |-> FALSE]
  /\ guard_stage = "idle"
  /\ normalized = <<>> /\ pii_found = <<>> /\ injections = <<>>
  /\ guard_verdict = [action |-> "None", text |-> <<>>, pii |-> <<>>]

-----------------------------------------------------------------------------
(* normalize.                                                              *)

is_invisible(c) == c = "joiner"
fold_fullwidth(c) == IF c = "wide3" THEN "d3" ELSE c
len_utf8(c) == IF c \in {"wide3", "joiner"} THEN 3 ELSE 1

ByteLen(t) == FoldSeq(LAMBDA c, n : len_utf8(c) + n, 0, t)
Offset(t, i) == ByteLen(SubSeq(t, 1, i - 1))

\* An entry of the normalised text: a char, and the start and length of its source.
Entry(c, start, len) == [char |-> c, start |-> start, len |-> len]

Taken(t, acc, i) ==
  LET c    == t[i]
      here == Entry(fold_fullwidth(c), Offset(t, i), len_utf8(c))
      gap  == IF acc.pending THEN <<[here EXCEPT !.char = "space"]>> ELSE <<>>
  IN  CASE is_invisible(c) -> acc
        [] c = "space"     -> [acc EXCEPT !.pending = acc.out # <<>>]
        [] OTHER           -> [out |-> acc.out \o gap \o <<here>>, pending |-> FALSE]

normalize(t) ==
  FoldLeft(LAMBDA acc, i : Taken(t, acc, i), [out |-> <<>>, pending |-> FALSE],
           [i \in 1..Len(t) |-> i]).out

\* A bug a refactoring could bring: the length of the folded char is used.
to_orig_span_Folded(n, from, to) ==
  [start |-> n[from].start, end |-> n[to].start + len_utf8(n[to].char)]

\* The bytes of the original behind the normalised chars from..to.
to_orig_span(n, from, to) ==
  [start |-> n[from].start, end |-> n[to].start + n[to].len]

-----------------------------------------------------------------------------
(* PiiDetector::detect and InjectionMatcher::scan.                         *)

is_digit(c) == c \in DOMAIN Digit
Chars(n, from, to) == [i \in 1..(to - from + 1) |-> n[from + i - 1].char]
DigitsOf(s) == LET ds == SelectSeq(s, is_digit) IN [i \in 1..Len(ds) |-> Digit[ds[i]]]

\* \b on both sides of from..to, for matches that begin and end with a digit.
Bounded(n, from, to) ==
  /\ is_digit(n[from].char) /\ is_digit(n[to].char)
  /\ from = 1 \/ ~is_digit(n[from - 1].char)
  /\ to = Len(n) \/ ~is_digit(n[to + 1].char)

\* Digits with at most one space between two of them.
Spaced(n, from, to, counts) ==
  /\ Bounded(n, from, to)
  /\ ToSet(Chars(n, from, to)) \subseteq DOMAIN Digit \cup {"space"}
  /\ Len(DigitsOf(Chars(n, from, to))) \in counts

Dotted(n, from, to) ==
  /\ Bounded(n, from, to)
  /\ to = from + 2 /\ n[from + 1].char = "dot"

PiiKinds == {"CreditCard", "ThaiNationalId", "Ipv4"}

pattern(kind, n, from, to) ==
  CASE kind = "CreditCard"     -> Spaced(n, from, to, CardDigits)
    [] kind = "ThaiNationalId" -> Spaced(n, from, to, {IdDigits})
    [] kind = "Ipv4"           -> Dotted(n, from, to)

\* find_iter: the leftmost matches, the longest at each place, without overlap.
\* ends[i]: the places at which a match that begins at i may end.
find_iter(ends) ==
  LET Step(acc, i) ==
        IF acc.free <= i /\ ends[i] # {}
        THEN [found |-> Append(acc.found, <<i, Max(ends[i])>>), free |-> Max(ends[i]) + 1]
        ELSE acc
  IN  FoldLeft(Step, [found |-> <<>>, free |-> 1], [i \in DOMAIN ends |-> i]).found

SumSeq(s) == FoldSeq(+, 0, s)
Doubled(d) == IF 2 * d > 9 THEN 2 * d - 9 ELSE 2 * d

luhn_valid(ds) ==
  (SumSeq([i \in 1..Len(ds) |->
             IF (Len(ds) - i) % 2 = 1 THEN Doubled(ds[i]) ELSE ds[i]])) % 10 = 0

thai_id_valid(ds) ==
  LET weighted == [i \in 1..(Len(ds) - 1) |-> ds[i] * (Len(ds) - i + 1)]
  IN  (11 - (SumSeq(weighted) % 11)) % 10 = Last(ds)

is_plausible(kind, s) ==
  CASE kind = "CreditCard"     -> luhn_valid(DigitsOf(s))
    [] kind = "ThaiNationalId" -> thai_id_valid(DigitsOf(s))
    [] kind = "Ipv4"           -> \A d \in ToSet(DigitsOf(s)) : d <= MaxOctet

Matches(kind, n) ==
  SelectSeq(find_iter([i \in 1..Len(n) |-> {j \in i..Len(n) : pattern(kind, n, i, j)}]),
            LAMBDA m : is_plausible(kind, Chars(n, m[1], m[2])))

Before(f, g) == f.start < g.start \/ (f.start = g.start /\ f.end <= g.end)

\* Overlapping findings of a sorted sequence become one, of the first's kind.
Joined(findings) ==
  LET Join(acc, f) ==
        IF acc # <<>> /\ f.start < Last(acc).end
        THEN [acc EXCEPT ![Len(acc)].end = IF f.end > @ THEN f.end ELSE @]
        ELSE Append(acc, f)
  IN  FoldLeft(Join, <<>>, findings)

SpansOf(kind, n) ==
  LET ms == Matches(kind, n)
  IN  [i \in 1..Len(ms) |->
         LET span == to_orig_span(n, ms[i][1], ms[i][2])
         IN  [kind |-> kind, start |-> span.start, end |-> span.end]]

\* The matches of one kind do not overlap, and dedup_overlapping joins none.
detect(n) ==
  SetToSortSeq(UNION {ToSet(Joined(SpansOf(kind, n))) : kind \in PiiKinds},
               LAMBDA f, g : f # g /\ Before(f, g))

scan(n) ==
  LET Hits(rule) ==
        LET ms == find_iter([i \in 1..Len(n) |-> {j \in i..Len(n) : Chars(n, i, j) = rule.pattern}])
        IN  {[rule |-> rule.id, severity |-> rule.severity, at |-> n[ms[k][1]].start] :
               k \in 1..(IF Len(ms) > MAX_FINDINGS_PER_RULE
                         THEN MAX_FINDINGS_PER_RULE ELSE Len(ms))}
  IN  SetToSortSeq(UNION {Hits(rule) : rule \in InjectionRules},
                   LAMBDA f, g : f.at < g.at)

-----------------------------------------------------------------------------
(* redact_with.                                                            *)

\* What replaces a finding, one symbol of any length.
Token(kind) == "REDACTED " \o kind

\* The characters before a byte, and from it on.
Upto(t, byte) == SubSeq(t, 1, Cardinality({i \in 1..Len(t) : Offset(t, i + 1) <= byte}))
From(t, byte) == SubSeq(t, 1 + Cardinality({i \in 1..Len(t) : Offset(t, i) < byte}), Len(t))

is_char_boundary(t, byte) == \E i \in 1..Len(t) + 1 : Offset(t, i) = byte

\* From the last finding to the first, so that the offsets before it hold.
redact_with(t, findings) ==
  LET Cut(acc, f) ==
        IF is_char_boundary(acc.head, f.start) /\ is_char_boundary(acc.head, f.end)
        THEN [head |-> Upto(acc.head, f.start),
              tail |-> <<Token(f.kind)>> \o From(acc.head, f.end) \o acc.tail,
              applied |-> <<f>> \o acc.applied]
        ELSE acc
      done == FoldLeft(Cut, [head |-> t, tail |-> <<>>, applied |-> <<>>],
                       Reverse(Joined(findings)))
  IN  [text |-> done.head \o done.tail, findings |-> done.applied]

-----------------------------------------------------------------------------
(* Guard::inspect and inspect_fail_closed.                                 *)

\* Severity::Low is below what the policy redacts by itself.
should_redact(kind) == examined.redact_all \/ kind \in redact_kinds

Decide(action, text, pii) ==
  guard_verdict' = [action |-> action, text |-> text, pii |-> pii]

\* An error of inspect: the answer is a denial without a text.
deny_with == guard_stage' = "done" /\ Decide("Deny", <<>>, <<>>)

\* A caller of the guard, under one of two configurations.
Call ==
  /\ guard_stage = "idle"
  /\ \E text \in GuardTexts, direction \in {"Inbound", "Outbound"}, all \in BOOLEAN :
       examined' = [text |-> text, direction |-> direction, redact_all |-> all]
  /\ guard_stage' = "started"
  /\ UNCHANGED <<normalized, pii_found, injections, guard_verdict>>

TooLarge ==
  /\ guard_stage = "started"
  /\ ByteLen(examined.text) > max_input_bytes
  /\ deny_with
  /\ UNCHANGED <<examined, normalized, pii_found, injections>>

BudgetExceeded ==
  /\ guard_stage \in {"normalized", "detected", "scanned", "plugged"}
  /\ deny_with
  /\ UNCHANGED <<examined, normalized, pii_found, injections>>

Normalize ==
  /\ guard_stage = "started"
  /\ ByteLen(examined.text) <= max_input_bytes
  /\ normalized' = normalize(examined.text)
  /\ guard_stage' = "normalized"
  /\ UNCHANGED <<examined, pii_found, injections, guard_verdict>>

Detect ==
  /\ guard_stage = "normalized"
  /\ pii_found' = detect(normalized)
  /\ guard_stage' = "detected"
  /\ UNCHANGED <<examined, normalized, injections, guard_verdict>>

Scan ==
  /\ guard_stage = "detected"
  /\ injections' = IF examined.direction = "Inbound" THEN scan(normalized) ELSE <<>>
  /\ guard_stage' = IF examined.direction = "Inbound" THEN "scanned" ELSE "plugged"
  /\ UNCHANGED <<examined, normalized, pii_found, guard_verdict>>

\* A detector of the operator's, about which nothing is known.
RunDetector ==
  /\ guard_stage = "scanned"
  /\ \E found \in {<<>>} \cup {<<[rule |-> "plugin", severity |-> s, at |-> 0]>> :
                                 s \in {"Medium", "High"}} :
       injections' = found \o injections
  /\ guard_stage' = "plugged"
  /\ UNCHANGED <<examined, normalized, pii_found, guard_verdict>>

\* deny_on_high_injection is set; the text of such a denial is the original.
Conclude ==
  /\ guard_stage = "plugged"
  /\ LET marked == SelectSeq(pii_found, LAMBDA f : should_redact(f.kind))
         report == redact_with(examined.text, marked)
     IN  IF \E i \in 1..Len(injections) : injections[i].severity = "High"
         THEN Decide("Deny", examined.text, pii_found)
         ELSE Decide(IF report.findings = <<>> THEN "Allow" ELSE "Redacted",
                     report.text, report.findings)
  /\ guard_stage' = "done"
  /\ UNCHANGED <<examined, normalized, pii_found, injections>>

GuardNext ==
  \/ Call \/ TooLarge \/ BudgetExceeded
  \/ Normalize \/ Detect \/ Scan \/ RunDetector \/ Conclude

GuardSpec == GuardInit /\ [][GuardNext]_guardVars

-----------------------------------------------------------------------------
GuardTypeOK ==
  /\ examined.text \in GuardTexts \cup {<<>>}
  /\ guard_stage \in {"idle", "started", "normalized", "detected", "scanned", "plugged", "done"}
  /\ \A i \in 1..Len(normalized) : normalized[i].char \in GuardChars \ {"wide3", "joiner"}
  /\ \A i \in 1..Len(pii_found) : pii_found[i].kind \in PiiKinds
  /\ guard_verdict.action \in {"None", "Allow", "Redacted", "Deny"}

\* Places in the original of its printed characters, and of the normalised
\* ones: the k-th of one is the k-th of the other, whatever lies between.
Printed(t) ==
  SelectSeq([i \in 1..Len(t) |-> i], LAMBDA i : t[i] \notin {"space", "joiner"})
NthPrinted(n, i) == Len(SelectSeq(Chars(n, 1, i), LAMBDA c : c # "space"))

\* Characters of the original from the first to the last one of a match of a
\* kind that the policy redacts.
Secret(t) ==
  LET n == normalize(t)
      p == Printed(t)
      Places(m) == p[NthPrinted(n, m[1])]..p[NthPrinted(n, m[2])]
  IN  UNION {UNION {Places(m) : m \in ToSet(Matches(kind, n))} :
               kind \in {k \in PiiKinds : should_redact(k)}}

\* A text the guard lets through is the original without the characters of
\* the matches, all of them and no other, in their order, a match or matches
\* that overlap having become one token; the guard says Allow exactly when it
\* changed nothing, and an inspection that failed gives no text at all
\* (spans in bytes of a folded text, overlaps of two kinds, replacement by offset).
RedactsExactly ==
  guard_verdict.action \in {"Allow", "Redacted"} =>
    LET t      == examined.text
        secret == Secret(t)
        left   == SelectSeq([i \in 1..Len(t) |-> i], LAMBDA i : i \notin secret)
    IN  /\ SelectSeq(guard_verdict.text, LAMBDA c : c \in GuardChars)
             = [i \in 1..Len(left) |-> t[left[i]]]
        /\ (guard_verdict.action = "Allow") = (guard_verdict.text = t)
        /\ Len(guard_verdict.text) - Len(left) = Len(guard_verdict.pii)

=============================================================================
