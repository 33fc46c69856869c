----------------------------- MODULE IpcJobStore -----------------------------
(***************************************************************************)
(* The durable job queue of the denoize IPC server                         *)
(* (src/src/ipc/storage.rs, StateStore).  Every mutation of the queue      *)
(* happens under the store mutex and is saved by one atomic file           *)
(* replacement before the mutex is released, so one variable stands both   *)
(* for the queue in memory and for the queue on disk: a daemon crash keeps *)
(* it.  A save that fails is not modelled.                                 *)
(*                                                                         *)
(* The code keeps live jobs in a map and finished ones in a bounded list.  *)
(* Here jobs[j] is the last status of j in either place, a job is live iff *)
(* its state is not terminal, and history is the bounded list of the ids   *)
(* whose terminal entry is still retained.                                 *)
(*                                                                         *)
(* The actions of this module leave it to the caller to say what happens   *)
(* when the Rust method returns Err: the condition is the negation of the  *)
(* action's first conjunct, which has a name (May...).                     *)
(***************************************************************************)
EXTENDS Integers, Sequences, FiniteSets

CONSTANTS Jobs,        \* job ids, random in the code and never reused
          Resumable,   \* the batch and stream jobs; the others are file jobs
          Priority,    \* Jobs -> Int
          MaxQueue,    \* limits.max_queue_entries
          MaxHistory   \* limits.max_history_entries

ASSUME JobsAssumption == IsFiniteSet(Jobs) /\ Resumable \subseteq Jobs
ASSUME PriorityAssumption == Priority \in [Jobs -> Int]
ASSUME LimitAssumption == MaxQueue \in Nat \ {0} /\ MaxHistory \in Nat \ {0}

VARIABLES jobs,          \* the status of every job, see Job
          history,       \* ids of the retained terminal entries, oldest first
          nextSequence   \* the sequence number of the next submission

storeVars == <<jobs, history, nextSequence>>

LiveState == {"Queued", "Running", "PauseRequested", "Paused",
              "CancelRequested", "Recovering"}
TerminalState == {"Completed", "Failed", "Cancelled"}
JobState == LiveState \cup TerminalState \cup {"Unsubmitted"}

(* attempt counts mark_running; pid says whether process_id is Some; plan  *)
(* is the revision of the dry-run report, 0 for the one of the submission. *)
Job == [state : JobState, attempt : Nat, pid : BOOLEAN,
        sequence : Nat, plan : Nat]

StoreTypeOK == /\ jobs \in [Jobs -> Job]
               /\ history \in Seq(Jobs)
               /\ nextSequence \in Nat

StoreInit == /\ jobs = [j \in Jobs |-> [state |-> "Unsubmitted", attempt |-> 0,
                                        pid |-> FALSE, sequence |-> 0, plan |-> 0]]
             /\ history = <<>>
             /\ nextSequence = 0

Live(j) == jobs[j].state \in LiveState
Terminal(j) == jobs[j].state \in TerminalState
LiveJobs == {j \in Jobs : Live(j)}
Retained == {history[i] : i \in DOMAIN history}

Put(j, status) == jobs' = [jobs EXCEPT ![j] = status]

-----------------------------------------------------------------------------

MayInsert(j) == /\ jobs[j].state = "Unsubmitted"
                /\ Cardinality(LiveJobs) < MaxQueue

InsertJob(j) ==
  /\ MayInsert(j)
  /\ Put(j, [jobs[j] EXCEPT !.state = "Queued", !.sequence = nextSequence])
  /\ nextSequence' = nextSequence + 1
  /\ UNCHANGED history

(* next_job: highest priority first, then first come first served.         *)
Before(j, k) == \/ Priority[j] > Priority[k]
                \/ /\ Priority[j] = Priority[k]
                   /\ jobs[j].sequence <= jobs[k].sequence

NextJob(j) == /\ jobs[j].state = "Queued"
              /\ \A k \in Jobs : jobs[k].state = "Queued" => Before(j, k)

(* Mutant: a cancelled job may still be started.                           *)
MayRunCancelled(j) == jobs[j].state \in {"Queued", "Paused", "CancelRequested"}

(* mark_running accepts a paused job as well as a queued one.              *)
MayRun(j) == jobs[j].state \in {"Queued", "Paused"}

(* Mutant: the process of the run is recorded only later.                  *)
MarkRunningWithoutProcess(j) ==
  /\ MayRun(j)
  /\ Put(j, [jobs[j] EXCEPT !.state = "Running", !.attempt = @ + 1])
  /\ UNCHANGED <<history, nextSequence>>

MarkRunning(j) ==
  /\ MayRun(j)
  /\ Put(j, [jobs[j] EXCEPT !.state = "Running", !.attempt = @ + 1,
                                !.pid = TRUE])
  /\ UNCHANGED <<history, nextSequence>>

MayUpdateProcess(j) ==
  jobs[j].state \in {"Running", "PauseRequested", "CancelRequested", "Recovering"}

UpdateProcessId(j) ==
  /\ MayUpdateProcess(j)
  /\ Put(j, [jobs[j] EXCEPT !.pid = TRUE])
  /\ UNCHANGED <<history, nextSequence>>

MayReplan(j) == jobs[j].state = "Queued" /\ jobs[j].attempt > 0

ReplaceDryRun(j, revision) ==
  /\ MayReplan(j)
  /\ Put(j, [jobs[j] EXCEPT !.plan = revision])
  /\ UNCHANGED <<history, nextSequence>>

(* Mutant: a file job may be paused like any other.                        *)
MayPauseAny(j) == jobs[j].state \in {"Running", "Recovering", "Queued"}

(* request_control: what the request leaves in the queue.                  *)
MayPause(j) == /\ j \in Resumable
               /\ jobs[j].state \in {"Running", "Recovering", "Queued"}

RequestPause(j) ==
  /\ MayPause(j)
  /\ Put(j, [jobs[j] EXCEPT !.state = IF @ = "Queued" THEN "Paused"
                                     ELSE "PauseRequested"])
  /\ UNCHANGED <<history, nextSequence>>

MayCancel(j) == jobs[j].state \in LiveState \ {"CancelRequested"}

RequestCancel(j) ==
  /\ MayCancel(j)
  /\ Put(j, [jobs[j] EXCEPT !.state = "CancelRequested"])
  /\ UNCHANGED <<history, nextSequence>>

MayResume(j) == jobs[j].state = "Paused"

Resume(j) ==
  /\ MayResume(j)
  /\ Put(j, [jobs[j] EXCEPT !.state = "Queued"])
  /\ UNCHANGED <<history, nextSequence>>

MayMarkPaused(j) == jobs[j].state = "PauseRequested"

MarkPaused(j) ==
  /\ MayMarkPaused(j)
  /\ Put(j, [jobs[j] EXCEPT !.state = "Paused", !.pid = FALSE])
  /\ UNCHANGED <<history, nextSequence>>

(* The history keeps MaxHistory entries.                                   *)
Excess(seq) == IF Len(seq) > MaxHistory THEN Len(seq) - MaxHistory ELSE 0

(* Mutant: one receipt too many is dropped with the expired entries.       *)
ExpiredPlusOne(seq) ==
  {seq[i] : i \in {k \in DOMAIN seq : Len(seq) > MaxHistory /\ k <= Excess(seq) + 1}}

(* terminalize moves the job to the history, whose oldest entries beyond   *)
(* the limit are dropped; Expired are the jobs it drops.                   *)
Expired(seq) == {seq[i] : i \in 1..Excess(seq)}
Trimmed(seq) == SubSeq(seq, Excess(seq) + 1, Len(seq))

Terminalize(j, outcome) ==
  /\ Live(j)
  /\ Put(j, [jobs[j] EXCEPT !.state = outcome, !.pid = FALSE])
  /\ history' = Trimmed(Append(history, j))
  /\ UNCHANGED nextSequence

(* Mutant: recovery overlooks a cancellation that was asked for.           *)
RecoveryJobsNotCancelled ==
  {j \in Jobs : jobs[j].state \in {"Recovering", "PauseRequested"}}

RecoveryJobs ==
  {j \in Jobs : jobs[j].state \in {"Recovering", "PauseRequested", "CancelRequested"}}

MayRequeue(j) == jobs[j].state = "Recovering" /\ j \in Resumable

RequeueRecovered(j) ==
  /\ MayRequeue(j)
  /\ Put(j, [jobs[j] EXCEPT !.state = "Queued", !.pid = FALSE])
  /\ UNCHANGED <<history, nextSequence>>

(* Mutant: a daemon that starts takes the queue as it finds it.            *)
PrepareNothing == UNCHANGED storeVars

(* prepare_recovery, run once when a daemon opens the store.               *)
PrepareRecovery ==
  /\ jobs' = [j \in Jobs |-> IF jobs[j].state = "Running"
                             THEN [jobs[j] EXCEPT !.state = "Recovering"]
                             ELSE jobs[j]]
  /\ UNCHANGED <<history, nextSequence>>

(* Mutant: a forced shutdown overlooks the paused jobs.                    *)
OnlyQueued == {j \in Jobs : jobs[j].state = "Queued"}

(* cancel_waiting_jobs: jobs that have not started end here, in the order  *)
(* of their ids (some enumeration of them); the others are asked to stop.  *)
Waiting == {j \in Jobs : jobs[j].state \in {"Queued", "Paused"}}

Enumerations(S) == {s \in [1..Cardinality(S) -> S] : {s[i] : i \in DOMAIN s} = S}

CancelWaitingJobs ==
  /\ jobs' = [j \in Jobs |->
                CASE j \in Waiting ->
                       [jobs[j] EXCEPT !.state = "Cancelled", !.pid = FALSE]
                  [] jobs[j].state \in {"Running", "Recovering", "PauseRequested"} ->
                       [jobs[j] EXCEPT !.state = "CancelRequested"]
                  [] OTHER -> jobs[j]]
  /\ \E order \in Enumerations(Waiting) : history' = Trimmed(history \o order)
  /\ UNCHANGED nextSequence
=============================================================================
