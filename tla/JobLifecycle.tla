---------------------------- MODULE JobLifecycle ----------------------------
(***************************************************************************)
(* What the IPC server promises about a job, whatever thread, child or     *)
(* daemon happens to handle it: the life of a job as a client follows it,  *)
(* and the link between the outcome that is reported, the runs that were   *)
(* started and the outputs that were published.  IpcServer implements it   *)
(* (see IpcLifecycle).                                                     *)
(***************************************************************************)
EXTENDS Naturals

CONSTANTS Jobs, Resumable

VARIABLES phase,     \* where the job is in its life
          runs,      \* how many runs of it were started
          outputs    \* how many of them published their output

vars == <<phase, runs, outputs>>

Ended == {"succeeded", "failed", "cancelled"}
Phase == {"new", "ready", "held", "claimed", "pausing", "stopping"} \cup Ended

TypeOK == /\ phase \in [Jobs -> Phase]
          /\ runs \in [Jobs -> Nat]
          /\ outputs \in [Jobs -> Nat]

Init == /\ phase = [j \in Jobs |-> "new"]
        /\ runs = [j \in Jobs |-> 0]
        /\ outputs = [j \in Jobs |-> 0]

Move(j, from, to) == /\ phase[j] \in from
                     /\ phase' = [phase EXCEPT ![j] = to]
                     /\ UNCHANGED <<runs, outputs>>

Submit(j) == Move(j, {"new"}, "ready")
Release(j) == Move(j, {"held"}, "ready")

(* Only a job that can be resumed is paused or run again.                  *)
Hold(j) == j \in Resumable /\ Move(j, {"ready"}, "held")
AskPause(j) == j \in Resumable /\ Move(j, {"claimed"}, "pausing")
Pause(j) == j \in Resumable /\ Move(j, {"pausing"}, "held")
Requeue(j) == j \in Resumable /\ Move(j, {"claimed"}, "ready")

(* A job asked to cancel only ever ends.                                   *)
AskCancel(j) == Move(j, {"ready", "held", "claimed", "pausing"}, "stopping")

(* A run starts from the queue; one that was paused before it ever got a   *)
(* process may be overtaken by its start.                                  *)
Claim(j) == /\ phase[j] \in {"ready", "held"}
            /\ j \notin Resumable => runs[j] = 0
            /\ phase' = [phase EXCEPT ![j] = "claimed"]
            /\ runs' = [runs EXCEPT ![j] = @ + 1]
            /\ UNCHANGED outputs

(* Every run publishes at most once, possibly after the job has ended: a   *)
(* run may outlive the daemon that started it.                             *)
Publish(j) == /\ outputs[j] < runs[j]
              /\ outputs' = [outputs EXCEPT ![j] = @ + 1]
              /\ UNCHANGED <<phase, runs>>

(* Success is never reported without an output.                            *)
Finish(j) == \E outcome \in Ended :
               /\ outcome = "succeeded" => outputs[j] > 0
               /\ Move(j, {"ready", "held", "claimed", "pausing", "stopping"}, outcome)

(* A forced shutdown cancels what waits and asks the rest to stop.         *)
ForceStop ==
  /\ phase' = [j \in Jobs |-> CASE phase[j] \in {"ready", "held"} -> "cancelled"
                                [] phase[j] \in {"claimed", "pausing"} -> "stopping"
                                [] OTHER -> phase[j]]
  /\ UNCHANGED <<runs, outputs>>

(* What changes nothing is a stutter.                                     *)
Next == /\ vars' # vars
        /\ \/ \E j \in Jobs :
                \/ Submit(j) \/ Hold(j) \/ Release(j) \/ AskPause(j) \/ Pause(j)
                \/ Requeue(j) \/ AskCancel(j) \/ Claim(j) \/ Publish(j) \/ Finish(j)
           \/ ForceStop

Spec == Init /\ [][Next]_vars
=============================================================================
