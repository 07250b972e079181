----------------------------- MODULE Extraction -----------------------------
(***************************************************************************)
(* The model-extraction detector for one tenant: two sliding windows of    *)
(* time buckets (requests and tokens), a bounded history of signatures     *)
(* against which each prompt is compared, and a score over the signals.    *)
(* A request takes its time stamp before it takes the tenant's lock, so    *)
(* stamps may reach the windows out of order.  Weights are in percent.     *)
(***************************************************************************)
EXTENDS Integers, Sequences, FiniteSets, SequencesExt

CONSTANTS
  PromptKinds,        \* prompts; two of one kind have signatures that match
  capacity,           \* buckets in a window
  max_requests,       \* requests in a window above which the rate is high
  max_tokens,         \* the same for tokens
  min_distinct,       \* percent of distinct prompts below which it is low
  max_similarity,     \* percent of near duplicates above which it is high
  warmup_requests,    \* requests before any level is given
  uniform_after,      \* requests before the lengths are judged
  history_depth,      \* signatures kept
  MaxTokens,          \* bound on the tokens of one request
  MaxBucket,          \* bound on the clock, in buckets
  MaxObserved         \* bound on the number of requests

ASSUME ExtractionAssumption ==
  /\ {capacity, history_depth} \subseteq Nat \ {0}
  /\ {max_requests, max_tokens, warmup_requests, uniform_after, MaxTokens,
      MaxBucket, MaxObserved} \subseteq Nat
  /\ min_distinct \in 0..100 /\ max_similarity \in 0..100

VARIABLES
  bucket_now,   \* the bucket of the wall clock
  windows,      \* the buckets kept for requests and for tokens, oldest first
  accepted,     \* every addition a window did not refuse as late (history)
  observed,     \* requests seen in all, and those that matched the history
  signatures,   \* kinds of the last prompts
  verdict       \* the level and signals of the last request

extractionVars == <<bucket_now, windows, accepted, observed, signatures, verdict>>

ExtractionInit ==
  /\ bucket_now = 0
  /\ windows = [requests |-> <<>>, tokens |-> <<>>]
  /\ accepted = [requests |-> <<>>, tokens |-> <<>>]
  /\ observed = [total |-> 0, near |-> 0]
  /\ signatures = <<>>
  /\ verdict = [level |-> "normal", signals |-> {}]

-----------------------------------------------------------------------------
(* SlidingWindow.                                                          *)

Bucket(b, v) == [bucket |-> b, value |-> v]

\* The buckets up to b, empty ones included, once the window has slid there.
Slid(w, b) ==
  IF w = <<>> \/ b - Last(w).bucket > capacity THEN <<>>
  ELSE w \o [i \in 1..(b - Last(w).bucket - 1) |-> Bucket(Last(w).bucket + i, 0)]

Newest(w, n) == SubSeq(w, IF Len(w) > n THEN Len(w) - n + 1 ELSE 1, Len(w))

Late(w, b) == w # <<>> /\ b < Last(w).bucket

\* A bug a refactoring could bring: the ring makes room before it is added to.
advance_TrimsFirst(w, b, v) ==
  IF Late(w, b) THEN w
  ELSE IF w # <<>> /\ b = Last(w).bucket
       THEN [w EXCEPT ![Len(w)].value = @ + v]
       ELSE Append(Newest(Slid(w, b), capacity), Bucket(b, v))

advance(w, b, v) ==
  IF Late(w, b) THEN w
  ELSE IF w # <<>> /\ b = Last(w).bucket
       THEN [w EXCEPT ![Len(w)].value = @ + v]
       ELSE Newest(Append(Slid(w, b), Bucket(b, v)), capacity)

\* A bug a refactoring could bring: the oldest bucket of the window is cut off.
InWindow_Exclusive(e, b) == e.bucket > b - (capacity - 1) /\ e.bucket <= b

InWindow(e, b) == e.bucket >= b - (capacity - 1) /\ e.bucket <= b

sum(w, b) ==
  SumFunctionOnSet([i \in DOMAIN w |-> w[i].value], {i \in DOMAIN w : InWindow(w[i], b)})

-----------------------------------------------------------------------------
(* ExtractionDetector::observe.                                            *)

signal_weight(signal) ==
  CASE signal = "SystematicEnumeration" -> 32
    [] signal = "LowDistinctRatio"      -> 28
    [] signal = "HighTokenBurn"         -> 20
    [] signal = "HighRequestRate"       -> 12
    [] signal = "UniformPromptLength"   -> 8

Structural == {"SystematicEnumeration", "LowDistinctRatio"}

Signals == Structural \cup {"HighTokenBurn", "HighRequestRate", "UniformPromptLength"}

Score(signals) == FoldSet(LAMBDA s, total : signal_weight(s) + total, 0, signals)

Extracting(signals) ==
  Cardinality(signals) >= 3 /\ (signals \cap Structural # {} \/ Score(signals) >= 50)

level(total, signals) ==
  IF total < warmup_requests THEN "normal"
  ELSE IF Extracting(signals) THEN "extracting"
  ELSE IF Cardinality(signals) >= 2 \/ Score(signals) >= 40 THEN "alert"
  ELSE IF signals # {} THEN "suspicious" ELSE "normal"

\* uniform is what the variance of the lengths says, for enough requests.
signals_of(w, b, total, near, uniform) ==
  {s \in Signals :
     \/ s = "HighRequestRate" /\ sum(w.requests, b) > max_requests
     \/ s = "HighTokenBurn" /\ sum(w.tokens, b) > max_tokens
     \/ s = "LowDistinctRatio" /\ total >= warmup_requests
          /\ 100 * (total - near) < min_distinct * total
     \/ s = "SystematicEnumeration" /\ total >= warmup_requests
          /\ 100 * near > max_similarity * total
     \/ s = "UniformPromptLength" /\ uniform /\ total >= uniform_after}

observe(kind, tokens, b, uniform) ==
  LET duplicate == \E i \in 1..Len(signatures) : signatures[i] = kind
      total  == observed.total + 1
      near   == observed.near + (IF duplicate THEN 1 ELSE 0)
      adds   == [requests |-> 1, tokens |-> tokens]
      slid   == [w \in DOMAIN windows |-> advance(windows[w], b, adds[w])]
      found  == signals_of(slid, b, total, near, uniform)
  IN  /\ windows' = slid
      /\ accepted' = [w \in DOMAIN windows |->
                        IF Late(windows[w], b) THEN accepted[w]
                        ELSE Append(accepted[w], Bucket(b, adds[w]))]
      /\ observed' = [total |-> total, near |-> near]
      /\ signatures' = Newest(Append(signatures, kind), history_depth)
      /\ verdict' = [level |-> level(total, found), signals |-> found]
      /\ UNCHANGED bucket_now

\* A request stamped in the last two buckets gets the tenant's lock.
observe_request ==
  /\ observed.total < MaxObserved
  /\ \E kind \in PromptKinds, tokens \in 0..MaxTokens, uniform \in BOOLEAN,
        b \in {bucket_now, bucket_now - 1} \cap Nat : observe(kind, tokens, b, uniform)

BucketPasses ==
  /\ bucket_now < MaxBucket
  /\ bucket_now' = bucket_now + 1
  /\ UNCHANGED <<windows, accepted, observed, signatures, verdict>>

ExtractionNext == observe_request \/ BucketPasses

ExtractionSpec == ExtractionInit /\ [][ExtractionNext]_extractionVars

-----------------------------------------------------------------------------
ExtractionTypeOK ==
  /\ bucket_now \in 0..MaxBucket
  /\ \A w \in DOMAIN windows :
       /\ Len(windows[w]) <= capacity
       /\ \A i \in 1..Len(windows[w]) : windows[w][i].value \in Nat
  /\ observed.near \in 0..observed.total /\ Len(signatures) <= history_depth
  /\ verdict.signals \subseteq Signals

\* The bounded ring of buckets computes what a log of every addition would:
\* the values added in the last capacity buckets, at any time from its
\* newest bucket on.  (A late request reads it at an earlier time, and gets less.)
WindowSums ==
  \A w \in DOMAIN windows, b \in 0..MaxBucket :
    windows[w] # <<>> /\ b >= Last(windows[w]).bucket =>
      LET log == accepted[w]
      IN  sum(windows[w], b) =
            SumFunctionOnSet([i \in DOMAIN log |-> log[i].value],
                             {i \in DOMAIN log : log[i].bucket \in b - (capacity - 1)..b})

=============================================================================
