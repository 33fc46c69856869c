---------------------------- MODULE IpcLifecycle ----------------------------
(***************************************************************************)
(* IpcServer as an implementation of JobLifecycle: the refinement mapping. *)
(* Running and Recovering are one phase for the client: a daemon that      *)
(* restarts does not change the life of a job.                             *)
(***************************************************************************)
EXTENDS IpcServer

(* The phase of a job in each state of IpcJobState.                        *)
PhaseNamed == [Unsubmitted |-> "new", Queued |-> "ready", Paused |-> "held",
               Running |-> "claimed", Recovering |-> "claimed",
               PauseRequested |-> "pausing", CancelRequested |-> "stopping",
               Completed |-> "succeeded", Failed |-> "failed", Cancelled |-> "cancelled"]
PhaseOf(state) == PhaseNamed[state]

Lifecycle == INSTANCE JobLifecycle
               WITH phase <- [j \in Jobs |-> PhaseOf(jobs[j].state)],
                    runs <- [j \in Jobs |-> jobs[j].attempt],
                    outputs <- published

(* Every behaviour of the server is a life of its jobs that JobLifecycle   *)
(* allows: a cancelled job only ever ends, a file job starts once, every   *)
(* run publishes at most once, and success follows a publication.          *)
ImplementsLifecycle == Lifecycle!Spec
=============================================================================
