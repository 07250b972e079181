------------------------------- MODULE AnkRun -------------------------------
(***************************************************************************)
(* The launcher (kernel-companion/src/bin/ank-run.rs) runs a command under *)
(* the scope of a skill: it boots a companion, starts a child that stops   *)
(* itself, issues a token for it and authorizes it, and only then lets it  *)
(* go on to execute the command.                                           *)
(***************************************************************************)
EXTENDS Naturals

VARIABLES
  launcher,      \* the next step of main, or how it has ended
  options,       \* --no-fallback
  cgroup,        \* the agents' cgroup could be made
  child,         \* state of the child process
  enrolled       \* it has been authorized under the skill's scope

ankVars == <<launcher, options, cgroup, child, enrolled>>

Steps == {"cgroup", "boot", "spawn", "wait_stopped", "issue", "authorize", "resume", "wait",
          "shutdown", "done", "failed"}

AnkTypeOK ==
  /\ launcher \in Steps /\ options \in [no_fallback : BOOLEAN] /\ cgroup \in BOOLEAN
  /\ child \in {"none", "starting", "stopped", "target", "gone"}
  /\ enrolled \in BOOLEAN

AnkInit ==
  /\ launcher = "cgroup" /\ options \in [no_fallback : BOOLEAN] /\ cgroup = FALSE
  /\ child = "none" /\ enrolled = FALSE

Moves(from, to) == launcher = from /\ launcher' = to

(* Without the cgroup the command runs unenforced, unless --no-fallback.   *)
EnsureAgentCgroup ==
  /\ \/ Moves("cgroup", "boot") /\ cgroup' = TRUE
     \/ /\ UNCHANGED cgroup
        /\ \/ options.no_fallback /\ Moves("cgroup", "failed")
           \/ ~options.no_fallback /\ Moves("cgroup", "boot")
  /\ UNCHANGED <<options, child, enrolled>>

BootCompanion == (Moves("boot", "spawn") \/ Moves("boot", "failed"))
                 /\ UNCHANGED <<options, cgroup, child, enrolled>>

SpawnChild ==
  /\ \/ Moves("spawn", "wait_stopped") /\ child' = "starting"
     \/ Moves("spawn", "failed") /\ UNCHANGED child
  /\ UNCHANGED <<options, cgroup, enrolled>>

(* The child's shell stops itself before it executes the command; anybody  *)
(* may end the child.                                                      *)
ChildStops == /\ child = "starting" /\ child' = "stopped"
              /\ UNCHANGED <<launcher, options, cgroup, enrolled>>
ChildEnds  == /\ child \in {"starting", "stopped", "target"} /\ child' = "gone"
              /\ UNCHANGED <<launcher, options, cgroup, enrolled>>

(* A child that does not stop within five seconds is killed.               *)
wait_stopped ==
  /\ \/ child = "stopped" /\ Moves("wait_stopped", "issue") /\ UNCHANGED child
     \/ child # "stopped" /\ Moves("wait_stopped", "failed") /\ child' = "gone"
  /\ UNCHANGED <<options, cgroup, enrolled>>

(* Issuing the token, or authorizing, may fail (audit log, /proc, maps):   *)
(* main returns, and leaves the child as it is.                            *)
IssueToken == (Moves("issue", "authorize") \/ Moves("issue", "failed"))
              /\ UNCHANGED <<options, cgroup, child, enrolled>>

AuthorizeChild ==
  /\ \/ Moves("authorize", "resume") /\ child # "gone" /\ enrolled' = TRUE /\ UNCHANGED child
     \/ Moves("authorize", "failed") /\ child' = "gone" /\ UNCHANGED enrolled
     \/ Moves("authorize", "failed") /\ UNCHANGED <<child, enrolled>>
  /\ UNCHANGED <<options, cgroup>>

ResumeChild ==
  /\ \/ Moves("resume", "wait") /\ child' = IF child = "stopped" THEN "target" ELSE child
     \/ Moves("resume", "failed") /\ child = "gone" /\ UNCHANGED child
  /\ UNCHANGED <<options, cgroup, enrolled>>

WaitChild == /\ child = "gone" /\ Moves("wait", "shutdown")
             /\ UNCHANGED <<options, cgroup, child, enrolled>>
ShutDown  == Moves("shutdown", "done") /\ UNCHANGED <<options, cgroup, child, enrolled>>

AnkNext == \/ EnsureAgentCgroup \/ BootCompanion \/ SpawnChild \/ ChildStops \/ ChildEnds
           \/ wait_stopped \/ IssueToken \/ AuthorizeChild \/ ResumeChild \/ WaitChild
           \/ ShutDown

AnkSpec == AnkInit /\ [][AnkNext]_ankVars

-----------------------------------------------------------------------------
(* The command is born under the scope of the skill (ank-run.rs:163): the  *)
(* child executes it only once it has been authorized, and the launcher    *)
(* never waits for a child its signal has missed, one that stops itself    *)
(* after it was told to go on.                                             *)
TargetUnderScope ==
  /\ child = "target" => enrolled
  /\ launcher = "wait" => child \in {"target", "gone"}
=============================================================================
