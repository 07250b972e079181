------------------------------ MODULE MeshAuth ------------------------------
(***************************************************************************)
(* Sealing and opening of the mesh's lines (context-memory/src/            *)
(* mesh_auth.rs): open checks the signature, reads the clock, and only     *)
(* then takes the lock of the nonces it has seen, in any number of read    *)
(* tasks.  The network may deliver a line any number of times, late or     *)
(* changed.  The clock does not go back.                                   *)
(***************************************************************************)
EXTENDS Naturals, FiniteSets

CONSTANTS Nonces, Readers,
          REPLAY_WINDOW,
          MaxClock           \* bound

ASSUME MeshAuthAssumption == /\ IsFiniteSet(Nonces)
                             /\ REPLAY_WINDOW \in Nat /\ MaxClock \in Nat

VARIABLES
  clock,          \* of the receiving node
  sealed,         \* signed lines on the network: a nonce and the sender's time
  reading,        \* the line a reader is opening, and the time it has read
  seen_nonces,    \* nonces with the time of their line
  processed,      \* ghost: lines that were accepted
  repeated        \* ghost: lines accepted again before their window was over

authVars == <<clock, sealed, reading, seen_nonces, processed, repeated>>

SealedLines == [nonce : Nonces, ts : 0 .. MaxClock + REPLAY_WINDOW + 1]
Idle == [pc |-> "idle"]

MeshAuthTypeOK ==
  /\ clock \in 0 .. MaxClock
  /\ sealed \subseteq SealedLines /\ seen_nonces \subseteq SealedLines
  /\ processed \subseteq SealedLines /\ repeated \subseteq SealedLines
  /\ reading \in [Readers -> {Idle} \cup [pc : {"fresh"}, line : SealedLines, at : 0 .. MaxClock]]

AuthInit ==
  /\ clock = 0 /\ reading = [r \in Readers |-> Idle]
  /\ sealed = {} /\ seen_nonces = {} /\ processed = {} /\ repeated = {}

(* The sender's clock may be off; a line that was changed on the way does  *)
(* not pass the signature and is not among the sealed ones.                *)
seal(k) ==
  /\ \A l \in sealed : l.nonce # k
  /\ \E ts \in 0 .. MaxClock + REPLAY_WINDOW + 1 :
       sealed' = sealed \cup {[nonce |-> k, ts |-> ts]}
  /\ UNCHANGED <<clock, reading, seen_nonces, processed, repeated>>

ClockTick == clock < MaxClock /\ clock' = clock + 1
             /\ UNCHANGED <<sealed, reading, seen_nonces, processed, repeated>>

(* A line arrives: outside the window it is refused.                       *)
open(r, l) ==
  /\ reading[r] = Idle /\ l \in sealed
  /\ l.ts + REPLAY_WINDOW >= clock /\ l.ts <= clock + REPLAY_WINDOW
  /\ reading' = [reading EXCEPT ![r] = [pc |-> "fresh", line |-> l, at |-> clock]]
  /\ UNCHANGED <<clock, sealed, seen_nonces, processed, repeated>>

(* Mutant: a nonce is dropped in the last instant of its window.           *)
retain_Short(at) == {l \in seen_nonces : l.ts + REPLAY_WINDOW > at}

retain(at) == {l \in seen_nonces : l.ts + REPLAY_WINDOW >= at}

(* Under the lock: prune by the time that was read, then look.             *)
dedup(r) ==
  LET l == reading[r].line  kept == retain(reading[r].at) IN
  /\ reading[r] # Idle
  /\ reading' = [reading EXCEPT ![r] = Idle]
  /\ IF \E s \in kept : s.nonce = l.nonce
     THEN seen_nonces' = kept /\ UNCHANGED <<processed, repeated>>
     ELSE /\ seen_nonces' = kept \cup {l}
          /\ processed' = processed \cup {l}
          /\ repeated' = IF l \in processed /\ clock <= l.ts + REPLAY_WINDOW
                         THEN repeated \cup {l} ELSE repeated
  /\ UNCHANGED <<clock, sealed>>

AuthNext ==
  \/ ClockTick
  \/ \E k \in Nonces : seal(k)
  \/ \E r \in Readers : dedup(r) \/ \E l \in sealed : open(r, l)

AuthSpec == AuthInit /\ [][AuthNext]_authVars

(* However readers and deliveries interleave, no line is processed a       *)
(* second time while its window lasts, also one with a time in the future. *)
(* (A reader that read the clock in time may still be overtaken by one     *)
(* that prunes: then the window is over when the line is accepted again.)  *)
OncePerWindow == repeated = {}
=============================================================================
