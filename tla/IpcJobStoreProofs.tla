-------------------------- MODULE IpcJobStoreProofs --------------------------
(***************************************************************************)
(* Facts about the durable queue that hold for every operation of          *)
(* IpcJobStore, whoever calls it: typing, and the part of the promise      *)
(* about file jobs that the queue alone keeps.                             *)
(***************************************************************************)
EXTENDS IpcJobStore, FunctionTheorems, SequenceTheorems, FiniteSetTheorems, TLAPS

(* Every operation of the store on one job.                                *)
StoreStep(j) ==
  \/ InsertJob(j) \/ MarkRunning(j) \/ UpdateProcessId(j)
  \/ (\E revision \in Nat : ReplaceDryRun(j, revision))
  \/ RequestPause(j) \/ RequestCancel(j) \/ Resume(j) \/ MarkPaused(j)
  \/ (\E outcome \in TerminalState : Terminalize(j, outcome)) \/ RequeueRecovered(j)

StoreNext == (\E j \in Jobs : StoreStep(j)) \/ PrepareRecovery \/ CancelWaitingJobs

(* terminalize: trimming the history gives a history.                      *)
LEMMA TrimmedType ==
  ASSUME NEW seq \in Seq(Jobs)
  PROVE  Trimmed(seq) \in Seq(Jobs)
  <1>1. Len(seq) \in Nat
    BY LenProperties
  <1>2. Excess(seq) \in Nat
    BY <1>1, LimitAssumption DEF Excess
  <1>3. \A i \in (Excess(seq) + 1) .. Len(seq) : seq[i] \in Jobs
    <2> TAKE i \in (Excess(seq) + 1) .. Len(seq)
    <2>1. i \in 1 .. Len(seq)
      BY <1>1, <1>2
    <2> QED
      BY <2>1, ElementOfSeq
  <1> QED
    BY <1>1, <1>2, <1>3, SubSeqProperties DEF Trimmed

(* Every operation of the store keeps it well typed.                       *)
LEMMA StoreTyped ==
  ASSUME StoreTypeOK, StoreNext
  PROVE  StoreTypeOK'
  <1> USE DEF StoreTypeOK
  <1>1. ASSUME NEW j \in Jobs, StoreStep(j)
        PROVE  StoreTypeOK'
    <2>0. ASSUME NEW status \in Job, Put(j, status)
          PROVE  jobs' \in [Jobs -> Job]
      BY <2>0 DEF Put
    <2>1. CASE InsertJob(j)
      <3>1. [jobs[j] EXCEPT !.state = "Queued", !.sequence = nextSequence] \in Job
        BY DEF Job, JobState, LiveState
      <3> QED
        BY <2>0, <2>1, <3>1 DEF InsertJob
    <2>2. CASE MarkRunning(j)
      <3>0. jobs[j] \in Job /\ jobs[j].attempt + 1 \in Nat
        BY DEF Job
      <3>1. [jobs[j] EXCEPT !.state = "Running", !.attempt = @ + 1, !.pid = TRUE] \in Job
        BY <3>0 DEF Job, JobState, LiveState
      <3> QED
        BY <2>0, <2>2, <3>1 DEF MarkRunning
    <2>3. CASE UpdateProcessId(j)
      <3>1. [jobs[j] EXCEPT !.pid = TRUE] \in Job
        BY DEF Job
      <3> QED
        BY <2>0, <2>3, <3>1 DEF UpdateProcessId
    <2>4. ASSUME NEW revision \in Nat, ReplaceDryRun(j, revision)
          PROVE  StoreTypeOK'
      <3>1. [jobs[j] EXCEPT !.plan = revision] \in Job
        BY DEF Job
      <3> QED
        BY <2>0, <2>4, <3>1 DEF ReplaceDryRun
    <2>5. CASE RequestPause(j)
      <3>1. [jobs[j] EXCEPT !.state = IF @ = "Queued" THEN "Paused"
                                      ELSE "PauseRequested"] \in Job
        BY DEF Job, JobState, LiveState
      <3> QED
        BY <2>0, <2>5, <3>1 DEF RequestPause
    <2>6. CASE RequestCancel(j)
      <3>1. [jobs[j] EXCEPT !.state = "CancelRequested"] \in Job
        BY DEF Job, JobState, LiveState
      <3> QED
        BY <2>0, <2>6, <3>1 DEF RequestCancel
    <2>7. CASE Resume(j)
      <3>1. [jobs[j] EXCEPT !.state = "Queued"] \in Job
        BY DEF Job, JobState, LiveState
      <3> QED
        BY <2>0, <2>7, <3>1 DEF Resume
    <2>8. CASE MarkPaused(j)
      <3>1. [jobs[j] EXCEPT !.state = "Paused", !.pid = FALSE] \in Job
        BY DEF Job, JobState, LiveState
      <3> QED
        BY <2>0, <2>8, <3>1 DEF MarkPaused
    <2>9. ASSUME NEW outcome \in TerminalState, Terminalize(j, outcome)
          PROVE  StoreTypeOK'
      <3>1. [jobs[j] EXCEPT !.state = outcome, !.pid = FALSE] \in Job
        BY DEF Job, JobState
      <3>2. Append(history, j) \in Seq(Jobs)
        BY AppendProperties
      <3>3. history' \in Seq(Jobs)
        BY <2>9, <3>2, TrimmedType DEF Terminalize
      <3> QED
        BY <2>0, <2>9, <3>1, <3>3 DEF Terminalize
    <2>10. CASE RequeueRecovered(j)
      <3>1. [jobs[j] EXCEPT !.state = "Queued", !.pid = FALSE] \in Job
        BY DEF Job, JobState, LiveState
      <3> QED
        BY <2>0, <2>10, <3>1 DEF RequeueRecovered
    <2> QED
      BY <1>1, <2>1, <2>2, <2>3, <2>4, <2>5, <2>6, <2>7, <2>8, <2>9, <2>10 DEF StoreStep
  <1>2. CASE PrepareRecovery
    <2>1. ASSUME NEW j \in Jobs
          PROVE  [jobs[j] EXCEPT !.state = "Recovering"] \in Job
      BY DEF Job, JobState, LiveState
    <2> QED
      BY <1>2, <2>1 DEF PrepareRecovery
  <1>3. CASE CancelWaitingJobs
    <2>1. ASSUME NEW j \in Jobs
          PROVE  /\ [jobs[j] EXCEPT !.state = "Cancelled", !.pid = FALSE] \in Job
                 /\ [jobs[j] EXCEPT !.state = "CancelRequested"] \in Job
      BY DEF Job, JobState, LiveState, TerminalState
    <2>2. jobs' \in [Jobs -> Job]
      BY <1>3, <2>1 DEF CancelWaitingJobs
    <2>3. PICK order \in Enumerations(Waiting) : history' = Trimmed(history \o order)
      BY <1>3 DEF CancelWaitingJobs
    <2>4. order \in Seq(Jobs)
      <3>1. Cardinality(Waiting) \in Nat
        BY JobsAssumption, FS_Subset, FS_CardinalityType DEF Waiting
      <3>2. order \in Seq(Waiting)
        BY <2>3, <3>1, IsASeq DEF Enumerations
      <3> QED
        BY <3>2, SeqMonotonic DEF Waiting
    <2>5. history' \in Seq(Jobs)
      BY <2>3, <2>4, TrimmedType, ConcatProperties
    <2> QED
      BY <1>3, <2>2, <2>5 DEF CancelWaitingJobs
  <1> QED
    BY <1>1, <1>2, <1>3 DEF StoreNext

(* The queue alone keeps a file job from a second attempt: it runs only    *)
(* from Queued, is Queued only before its first attempt, and is never      *)
(* paused.                                                                 *)
FileStoreInv ==
  \A j \in Jobs \ Resumable :
    /\ jobs[j].attempt <= 1
    /\ jobs[j].state \in {"Unsubmitted", "Queued"} => jobs[j].attempt = 0
    /\ jobs[j].state \notin {"Paused", "PauseRequested"}

(* Every step of the queue keeps it: a file job is never paused, requeued  *)
(* or put back, so mark_running finds it Queued only once.                 *)
LEMMA FileStoreStep ==
  ASSUME StoreTypeOK, FileStoreInv, StoreNext
  PROVE  FileStoreInv'
  <1> SUFFICES ASSUME NEW k \in Jobs \ Resumable
               PROVE  /\ jobs'[k].attempt <= 1
                      /\ jobs'[k].state \in {"Unsubmitted", "Queued"} => jobs'[k].attempt = 0
                      /\ jobs'[k].state \notin {"Paused", "PauseRequested"}
    BY DEF FileStoreInv
  <1>0. /\ jobs \in [Jobs -> Job] /\ jobs[k] \in Job
        /\ jobs[k].attempt <= 1
        /\ jobs[k].state \in {"Unsubmitted", "Queued"} => jobs[k].attempt = 0
        /\ jobs[k].state \notin {"Paused", "PauseRequested"}
    BY DEF FileStoreInv, StoreTypeOK
  <1>1. ASSUME NEW j \in Jobs, StoreStep(j), j # k
        PROVE  jobs'[k] = jobs[k]
    BY <1>0, <1>1 DEF StoreStep, InsertJob, MarkRunning, UpdateProcessId,
       ReplaceDryRun, RequestPause, RequestCancel, Resume, MarkPaused, Terminalize,
       RequeueRecovered, Put
  <1>2. CASE StoreStep(k)
    <2>1. CASE InsertJob(k)
      BY <1>0, <2>1 DEF InsertJob, MayInsert, Put, Job
    <2>2. CASE MarkRunning(k)
      BY <1>0, <2>2 DEF MarkRunning, MayRun, Put, Job
    <2>3. CASE UpdateProcessId(k)
      BY <1>0, <2>3 DEF UpdateProcessId, MayUpdateProcess, Put, Job
    <2>4. CASE \E revision \in Nat : ReplaceDryRun(k, revision)
      BY <1>0, <2>4 DEF ReplaceDryRun, Put, Job
    <2>5. CASE RequestPause(k)
      BY <2>5 DEF RequestPause, MayPause
    <2>6. CASE RequestCancel(k)
      BY <1>0, <2>6 DEF RequestCancel, Put, Job
    <2>7. CASE Resume(k)
      BY <1>0, <2>7 DEF Resume, MayResume
    <2>8. CASE MarkPaused(k)
      BY <1>0, <2>8 DEF MarkPaused, MayMarkPaused
    <2>9. CASE \E outcome \in TerminalState : Terminalize(k, outcome)
      BY <1>0, <2>9 DEF Terminalize, TerminalState, Put, Job
    <2>10. CASE RequeueRecovered(k)
      BY <2>10 DEF RequeueRecovered, MayRequeue
    <2> QED
      BY <1>2, <2>1, <2>2, <2>3, <2>4, <2>5, <2>6, <2>7, <2>8, <2>9, <2>10 DEF StoreStep
  <1>3. CASE PrepareRecovery
    BY <1>0, <1>3 DEF PrepareRecovery, Job
  <1>4. CASE CancelWaitingJobs
    BY <1>0, <1>4 DEF CancelWaitingJobs, Job
  <1> QED
    BY <1>0, <1>1, <1>2, <1>3, <1>4 DEF StoreNext

(* Attempts only grow, and no faster than one at a time.                   *)
LEMMA AttemptGrows ==
  ASSUME StoreTypeOK, StoreNext, NEW k \in Jobs
  PROVE  jobs'[k].attempt \in {jobs[k].attempt, jobs[k].attempt + 1}
  <1>0. jobs \in [Jobs -> Job] /\ jobs[k] \in Job
    BY DEF StoreTypeOK
  <1>1. ASSUME NEW j \in Jobs, StoreStep(j)
        PROVE  jobs'[k].attempt \in {jobs[k].attempt, jobs[k].attempt + 1}
    <2>0. jobs[j] \in Job /\ jobs[j].attempt + 1 \in Nat
      BY DEF StoreTypeOK, Job
    <2>1. ASSUME Put(j, [jobs[j] EXCEPT !.state = "Running", !.attempt = @ + 1,
                                        !.pid = TRUE])
          PROVE  jobs'[k].attempt \in {jobs[k].attempt, jobs[k].attempt + 1}
      BY <1>0, <2>0, <2>1 DEF Put, Job
    <2>2. CASE j # k
      BY <1>0, <1>1, <2>2 DEF StoreStep, InsertJob, MarkRunning, UpdateProcessId,
         ReplaceDryRun, RequestPause, RequestCancel, Resume, MarkPaused, Terminalize,
         RequeueRecovered, Put
    <2>3. CASE j = k /\ InsertJob(k)
      BY <1>0, <2>3 DEF InsertJob, Put, Job
    <2>4. CASE j = k /\ (UpdateProcessId(k) \/ \E r \in Nat : ReplaceDryRun(k, r))
      BY <1>0, <2>4 DEF UpdateProcessId, ReplaceDryRun, Put, Job
    <2>5. CASE j = k /\ (RequestPause(k) \/ RequestCancel(k) \/ Resume(k))
      BY <1>0, <2>5 DEF RequestPause, RequestCancel, Resume, Put, Job
    <2>6. CASE /\ j = k
               /\ \/ MarkPaused(k) \/ RequeueRecovered(k)
                  \/ \E outcome \in TerminalState : Terminalize(k, outcome)
      BY <1>0, <2>6 DEF MarkPaused, RequeueRecovered, Terminalize, Put, Job
    <2> QED
      BY <1>1, <2>1, <2>2, <2>3, <2>4, <2>5, <2>6 DEF StoreStep, MarkRunning
  <1>2. CASE PrepareRecovery
    BY <1>0, <1>2 DEF PrepareRecovery, Job
  <1>3. CASE CancelWaitingJobs
    BY <1>0, <1>3 DEF CancelWaitingJobs, Job
  <1> QED
    BY <1>1, <1>2, <1>3 DEF StoreNext

(* Only an explicit completion makes a job Completed.                      *)
OtherStep(j) ==
  \/ InsertJob(j) \/ MarkRunning(j) \/ UpdateProcessId(j)
  \/ (\E revision \in Nat : ReplaceDryRun(j, revision))
  \/ RequestPause(j) \/ RequestCancel(j) \/ Resume(j) \/ MarkPaused(j)
  \/ Terminalize(j, "Failed") \/ Terminalize(j, "Cancelled") \/ RequeueRecovered(j)

OtherNext == (\E j \in Jobs : OtherStep(j)) \/ PrepareRecovery \/ CancelWaitingJobs

(* The store methods other than terminalize complete no job.               *)
LEMMA OtherStepsComplete ==
  ASSUME StoreTypeOK, OtherNext, NEW k \in Jobs, jobs'[k].state = "Completed"
  PROVE  jobs[k].state = "Completed"
  <1>0. jobs \in [Jobs -> Job] /\ jobs[k] \in Job
    BY DEF StoreTypeOK
  <1>1. ASSUME NEW j \in Jobs, OtherStep(j), j # k
        PROVE  jobs'[k] = jobs[k]
    BY <1>0, <1>1 DEF OtherStep, InsertJob, MarkRunning, UpdateProcessId,
       ReplaceDryRun, RequestPause, RequestCancel, Resume, MarkPaused, Terminalize,
       RequeueRecovered, Put
  <1>2. CASE OtherStep(k)
    <2>1. CASE InsertJob(k) \/ MarkRunning(k)
      BY <1>0, <2>1 DEF InsertJob, MarkRunning, Put, Job
    <2>2. CASE UpdateProcessId(k) \/ \E r \in Nat : ReplaceDryRun(k, r)
      BY <1>0, <2>2 DEF UpdateProcessId, ReplaceDryRun, Put, Job
    <2>3. CASE RequestPause(k) \/ RequestCancel(k) \/ Resume(k)
      BY <1>0, <2>3 DEF RequestPause, RequestCancel, Resume, Put, Job
    <2>4. CASE MarkPaused(k) \/ RequeueRecovered(k)
      BY <1>0, <2>4 DEF MarkPaused, RequeueRecovered, Put, Job
    <2>5. CASE Terminalize(k, "Failed") \/ Terminalize(k, "Cancelled")
      BY <1>0, <2>5 DEF Terminalize, Put, Job
    <2> QED
      BY <1>0, <1>2, <2>1, <2>2, <2>3, <2>4, <2>5 DEF OtherStep
  <1>3. CASE PrepareRecovery
    BY <1>0, <1>3 DEF PrepareRecovery, Job
  <1>4. CASE CancelWaitingJobs
    BY <1>0, <1>4 DEF CancelWaitingJobs, Job
  <1> QED
    BY <1>1, <1>2, <1>3, <1>4 DEF OtherNext

(* What an operation on job j leaves of the queue: the state of j goes     *)
(* from one of a set to one of another, no other job changes.              *)
Turns(j, from, to, pid) == /\ jobs[j].state \in from /\ jobs'[j].state \in to
                           /\ jobs'[j].pid = pid
                           /\ jobs'[j].attempt \in Nat
                           /\ \A k \in Jobs : k # j => jobs'[k] = jobs[k]

SamePlan(j) == jobs'[j].attempt = jobs[j].attempt /\ jobs'[j].plan = jobs[j].plan

(* The effect of every operation of the store on one job.                  *)
LEMMA StoreEffects ==
  ASSUME jobs \in [Jobs -> Job], nextSequence \in Nat, NEW j \in Jobs
  PROVE  /\ InsertJob(j) => /\ Turns(j, {"Unsubmitted"}, {"Queued"}, jobs[j].pid)
                            /\ SamePlan(j)
         /\ MarkRunning(j) => /\ Turns(j, {"Queued", "Paused"}, {"Running"}, TRUE)
                              /\ jobs'[j].attempt = jobs[j].attempt + 1
                              /\ jobs'[j].plan = jobs[j].plan
         /\ UpdateProcessId(j) => /\ Turns(j, {"Running", "PauseRequested", "CancelRequested",
                                               "Recovering"}, {jobs[j].state}, TRUE)
                                  /\ SamePlan(j)
         /\ \A revision \in Nat : ReplaceDryRun(j, revision) =>
              /\ Turns(j, {"Queued"}, {"Queued"}, jobs[j].pid)
              /\ jobs'[j].attempt = jobs[j].attempt
         /\ RequestPause(j) =>
              /\ j \in Resumable /\ SamePlan(j)
              /\ \/ Turns(j, {"Queued"}, {"Paused"}, jobs[j].pid)
                 \/ Turns(j, {"Running", "Recovering"}, {"PauseRequested"}, jobs[j].pid)
         /\ RequestCancel(j) => /\ Turns(j, LiveState \ {"CancelRequested"},
                                         {"CancelRequested"}, jobs[j].pid)
                                /\ SamePlan(j)
         /\ Resume(j) => Turns(j, {"Paused"}, {"Queued"}, jobs[j].pid) /\ SamePlan(j)
         /\ MarkPaused(j) => /\ Turns(j, {"PauseRequested"}, {"Paused"}, FALSE)
                             /\ SamePlan(j)
         /\ \A outcome \in TerminalState : Terminalize(j, outcome) =>
              Turns(j, LiveState, {outcome}, FALSE) /\ SamePlan(j)
         /\ RequeueRecovered(j) => /\ j \in Resumable
                                   /\ Turns(j, {"Recovering"}, {"Queued"}, FALSE)
                                   /\ SamePlan(j)
  <1>0. jobs[j] \in Job /\ jobs[j].attempt + 1 \in Nat
    BY DEF Job
  <1>1. ASSUME NEW r \in Job, Put(j, r)
        PROVE  jobs'[j] = r /\ \A k \in Jobs : k # j => jobs'[k] = jobs[k]
    BY <1>1 DEF Put
  <1> USE DEF Turns, SamePlan
  <1>2. ASSUME InsertJob(j)
        PROVE  Turns(j, {"Unsubmitted"}, {"Queued"}, jobs[j].pid) /\ SamePlan(j)
    BY <1>0, <1>1, <1>2 DEF InsertJob, MayInsert, Put, Job
  <1>3. ASSUME MarkRunning(j)
        PROVE  /\ Turns(j, {"Queued", "Paused"}, {"Running"}, TRUE)
               /\ jobs'[j].attempt = jobs[j].attempt + 1 /\ jobs'[j].plan = jobs[j].plan
    BY <1>0, <1>3 DEF MarkRunning, MayRun, Put, Job
  <1>4. ASSUME UpdateProcessId(j)
        PROVE  /\ Turns(j, {"Running", "PauseRequested", "CancelRequested", "Recovering"},
                        {jobs[j].state}, TRUE)
               /\ SamePlan(j)
    BY <1>0, <1>4 DEF UpdateProcessId, MayUpdateProcess, Put, Job
  <1>5. ASSUME NEW revision \in Nat, ReplaceDryRun(j, revision)
        PROVE  /\ Turns(j, {"Queued"}, {"Queued"}, jobs[j].pid)
               /\ jobs'[j].attempt = jobs[j].attempt
    BY <1>0, <1>5 DEF ReplaceDryRun, MayReplan, Put, Job
  <1>6. ASSUME RequestPause(j)
        PROVE  /\ j \in Resumable /\ SamePlan(j)
               /\ \/ Turns(j, {"Queued"}, {"Paused"}, jobs[j].pid)
                  \/ Turns(j, {"Running", "Recovering"}, {"PauseRequested"}, jobs[j].pid)
    BY <1>0, <1>6 DEF RequestPause, MayPause, Put, Job
  <1>7. ASSUME RequestCancel(j)
        PROVE  /\ Turns(j, LiveState \ {"CancelRequested"}, {"CancelRequested"}, jobs[j].pid)
               /\ SamePlan(j)
    BY <1>0, <1>7 DEF RequestCancel, MayCancel, Put, Job
  <1>8. ASSUME Resume(j)
        PROVE  Turns(j, {"Paused"}, {"Queued"}, jobs[j].pid) /\ SamePlan(j)
    BY <1>0, <1>8 DEF Resume, MayResume, Put, Job
  <1>9. ASSUME MarkPaused(j)
        PROVE  Turns(j, {"PauseRequested"}, {"Paused"}, FALSE) /\ SamePlan(j)
    BY <1>0, <1>9 DEF MarkPaused, MayMarkPaused, Put, Job
  <1>10. ASSUME NEW outcome \in TerminalState, Terminalize(j, outcome)
         PROVE  Turns(j, LiveState, {outcome}, FALSE) /\ SamePlan(j)
    BY <1>0, <1>10 DEF Terminalize, Live, Put, Job
  <1>11. ASSUME RequeueRecovered(j)
         PROVE  /\ j \in Resumable
                /\ Turns(j, {"Recovering"}, {"Queued"}, FALSE) /\ SamePlan(j)
    BY <1>0, <1>11 DEF RequeueRecovered, MayRequeue, Put, Job
  <1> HIDE DEF Turns, SamePlan
  <1> QED
    BY <1>2, <1>3, <1>4, <1>5, <1>6, <1>7, <1>8, <1>9, <1>10, <1>11

(* The two operations on the whole queue.                                  *)
LEMMA SweepEffects ==
  ASSUME jobs \in [Jobs -> Job], NEW k \in Jobs
  PROVE  /\ PrepareRecovery =>
              /\ jobs[k].state = "Running" => jobs'[k].state = "Recovering"
              /\ jobs[k].state # "Running" => jobs'[k].state = jobs[k].state
              /\ jobs'[k].pid = jobs[k].pid /\ SamePlan(k)
         /\ CancelWaitingJobs =>
              /\ k \in Waiting => jobs'[k].state = "Cancelled" /\ ~jobs'[k].pid
              /\ k \notin Waiting =>
                   /\ jobs'[k].pid = jobs[k].pid
                   /\ jobs'[k].state =
                        IF jobs[k].state \in {"Running", "Recovering", "PauseRequested"}
                        THEN "CancelRequested" ELSE jobs[k].state
              /\ SamePlan(k)
  <1>0. jobs[k] \in Job
    OBVIOUS
  <1>1. ASSUME PrepareRecovery
        PROVE  /\ jobs[k].state = "Running" => jobs'[k].state = "Recovering"
               /\ jobs[k].state # "Running" => jobs'[k].state = jobs[k].state
               /\ jobs'[k].pid = jobs[k].pid /\ SamePlan(k)
    BY <1>0, <1>1 DEF PrepareRecovery, Job, SamePlan
  <1>2. ASSUME CancelWaitingJobs
        PROVE  /\ k \in Waiting => jobs'[k].state = "Cancelled" /\ ~jobs'[k].pid
               /\ k \notin Waiting =>
                    /\ jobs'[k].pid = jobs[k].pid
                    /\ jobs'[k].state =
                         IF jobs[k].state \in {"Running", "Recovering", "PauseRequested"}
                         THEN "CancelRequested" ELSE jobs[k].state
               /\ SamePlan(k)
    <2>1. CASE k \in Waiting
      <3>1. jobs'[k] = [jobs[k] EXCEPT !.state = "Cancelled", !.pid = FALSE]
        BY <1>2, <2>1 DEF CancelWaitingJobs, Waiting
      <3> QED
        BY <1>0, <2>1, <3>1 DEF Job, SamePlan
    <2>2. CASE jobs[k].state \in {"Running", "Recovering", "PauseRequested"}
      <3>1. jobs'[k] = [jobs[k] EXCEPT !.state = "CancelRequested"]
        BY <1>2, <2>2 DEF CancelWaitingJobs, Waiting
      <3>2. k \notin Waiting
        BY <2>2 DEF Waiting
      <3> QED
        BY <1>0, <2>2, <3>1, <3>2 DEF Job, SamePlan
    <2>3. CASE /\ k \notin Waiting
               /\ jobs[k].state \notin {"Running", "Recovering", "PauseRequested"}
      <3>1. jobs'[k] = jobs[k]
        BY <1>2, <2>3 DEF CancelWaitingJobs
      <3> QED
        BY <2>3, <3>1 DEF SamePlan
    <2> QED
      BY <2>1, <2>2, <2>3
  <1> QED
    BY <1>1, <1>2


-----------------------------------------------------------------------------
(* The bounded history.                                                    *)

Once(seq) == \A i, k \in 1..Len(seq) : seq[i] = seq[k] => i = k

(* The history retains terminal entries only, each of them once.           *)
HistoryInv == Once(history) /\ \A k \in Retained : Terminal(k)

(* Trimming keeps the end of a sequence, and separates it from what        *)
(* expires.                                                                *)
LEMMA TrimmedParts ==
  ASSUME NEW seq \in Seq(Jobs), Once(seq)
  PROVE  /\ Trimmed(seq) \in Seq(Jobs) /\ Once(Trimmed(seq))
         /\ \A i \in 1..Len(Trimmed(seq)) :
              /\ \E k \in 1..Len(seq) : Trimmed(seq)[i] = seq[k]
              /\ Trimmed(seq)[i] \notin Expired(seq)
  <1> DEFINE n == Len(seq)
             x == Excess(seq)
             t == Trimmed(seq)
  <1>1. n \in Nat /\ x \in Nat /\ x <= n
    BY LenProperties, LimitAssumption DEF Excess
  <1>2. \A i \in (x + 1)..n : seq[i] \in Jobs
    BY <1>1, ElementOfSeq
  <1>3. t = SubSeq(seq, x + 1, n)
    BY DEF Trimmed
  <1> HIDE DEF n, x, t
  <1>4. /\ t \in Seq(Jobs) /\ Len(t) = IF x + 1 <= n THEN n - (x + 1) + 1 ELSE 0
        /\ \A i \in 1..(n - (x + 1) + 1) : t[i] = seq[x + 1 + i - 1]
    BY <1>1, <1>2, <1>3, SubSeqProperties
  <1>5. \A i \in 1..Len(t) : i + x \in 1..n /\ i + x > x /\ t[i] = seq[i + x]
    BY <1>1, <1>4
  <1>6. \A i, k \in 1..n : seq[i] = seq[k] => i = k
    BY DEF Once, n
  <1>7. Len(t) \in Nat
    BY <1>1, <1>4
  <1>8. Once(t)
    <2> SUFFICES ASSUME NEW i \in 1..Len(t), NEW k \in 1..Len(t), t[i] = t[k]
                 PROVE  i = k
      BY DEF Once
    <2>1. i + x = k + x
      BY <1>5, <1>6
    <2> QED
      BY <1>1, <1>7, <2>1
  <1>9. \A i \in 1..Len(t) : t[i] \notin {seq[k] : k \in 1..x}
    <2> SUFFICES ASSUME NEW i \in 1..Len(t), NEW k \in 1..x, t[i] = seq[k]
                 PROVE  FALSE
      OBVIOUS
    <2>1. k \in 1..n
      BY <1>1
    <2>2. i + x = k
      BY <1>5, <1>6, <2>1
    <2> QED
      BY <1>1, <1>5, <2>2
  <1>10. Expired(seq) = {seq[k] : k \in 1..x}
    BY DEF Expired, x
  <1> QED
    BY <1>4, <1>5, <1>8, <1>9, <1>10 DEF t, n

(* terminalize: what is retained was or is the job that ends, what expires *)
(* was retained, and nothing is both.                                      *)
LEMMA TerminalizeHistory ==
  ASSUME StoreTypeOK, HistoryInv, NEW j \in Jobs, NEW outcome \in TerminalState,
         Terminalize(j, outcome)
  PROVE  /\ Once(history') /\ Retained' \subseteq Retained \cup {j}
         /\ Expired(Append(history, j)) \subseteq Retained
         /\ \A k \in Retained' : k \notin Expired(Append(history, j))
  <1> DEFINE seq == Append(history, j)
  <1>1. /\ history \in Seq(Jobs) /\ Len(history) \in Nat /\ DOMAIN history = 1..Len(history)
        /\ seq \in Seq(Jobs) /\ Len(seq) = Len(history) + 1
        /\ \A i \in 1..Len(history) : seq[i] = history[i]
        /\ seq[Len(history) + 1] = j
    BY AppendProperties, LenProperties DEF StoreTypeOK
  <1>2. history' = Trimmed(seq) /\ Live(j)
    BY DEF Terminalize
  <1> HIDE DEF seq
  <1>3. j \notin Retained
    BY <1>2 DEF HistoryInv, Terminal, Live, LiveState, TerminalState
  <1>4. \A i \in 1..Len(history) : history[i] # j /\ history[i] \in Retained
    BY <1>1, <1>3 DEF Retained
  <1>5. Once(seq)
    <2> SUFFICES ASSUME NEW i \in 1..Len(seq), NEW k \in 1..Len(seq), seq[i] = seq[k]
                 PROVE  i = k
      BY DEF Once
    <2>1. CASE i \in 1..Len(history) /\ k \in 1..Len(history)
      BY <1>1, <2>1 DEF HistoryInv, Once
    <2>2. CASE ~(i \in 1..Len(history) /\ k \in 1..Len(history))
      BY <1>1, <1>4, <2>2
    <2> QED
      BY <2>1, <2>2
  <1>6. /\ Trimmed(seq) \in Seq(Jobs) /\ Once(Trimmed(seq))
        /\ \A i \in 1..Len(Trimmed(seq)) :
             /\ \E k \in 1..Len(seq) : Trimmed(seq)[i] = seq[k]
             /\ Trimmed(seq)[i] \notin Expired(seq)
    BY <1>1, <1>5, TrimmedParts
  <1>7. \A k \in Retained' : \E i \in 1..Len(Trimmed(seq)) : k = Trimmed(seq)[i]
    BY <1>2, <1>6, LenProperties DEF Retained
  <1>8. \A i \in 1..Len(seq) : seq[i] \in Retained \cup {j}
    BY <1>1, <1>4
  <1>9. Expired(seq) \subseteq Retained
    <2>1. Excess(seq) \in Nat /\ Excess(seq) <= Len(history)
      BY <1>1, LimitAssumption DEF Excess
    <2> QED
      BY <1>1, <1>4, <2>1 DEF Expired
  <1> QED
    BY <1>2, <1>6, <1>7, <1>8, <1>9 DEF seq

(* An enumeration lists every member once.                                 *)
LEMMA EnumerationOnce ==
  ASSUME NEW S, S \subseteq Jobs, NEW order \in Enumerations(S)
  PROVE  order \in Seq(S) /\ Once(order)
  <1>1. IsFiniteSet(S) /\ Cardinality(S) \in Nat
    BY JobsAssumption, FS_Subset, FS_CardinalityType
  <1> DEFINE n == Cardinality(S)
  <1>2. order \in [1..n -> S] /\ {order[i] : i \in DOMAIN order} = S
    BY DEF Enumerations
  <1>3. n \in Nat
    BY <1>1
  <1> HIDE DEF n
  <1>4. order \in Seq(S) /\ Len(order) = n
    <2>1. order \in Seq(S)
      BY <1>2, <1>3, IsASeq
    <2>2. DOMAIN order = 1..Len(order) /\ Len(order) \in Nat
      BY <2>1, LenProperties
    <2>3. 1..n = 1..Len(order)
      BY <1>2, <2>2
    <2>4. Len(order) = n
      <3> DEFINE m == Len(order)
      <3>1. m \in Nat /\ \A i \in Int : i \in 1..n <=> i \in 1..m
        BY <2>2, <2>3
      <3> HIDE DEF m
      <3>2. ~(m < n) /\ ~(n < m)
        BY <1>3, <3>1
      <3> QED
        BY <1>3, <3>1, <3>2 DEF m
    <2> QED
      BY <2>1, <2>4
  <1>5. 1 \in Int /\ n \in Int
    BY <1>3
  <1>6. IsFiniteSet(1..n) /\ Cardinality(1..n) = IF 1 > n THEN 0 ELSE n - 1 + 1
    BY <1>5, FS_Interval
  <1>7. Cardinality(1..n) = Cardinality(S)
    BY <1>3, <1>6 DEF n
  <1>8. order \in Surjection(1..n, S)
    BY <1>2, Fun_IsSurj
  <1>9. order \in Injection(1..n, S)
    BY <1>6, <1>7, <1>8, FS_SurjSameCardinalityImpliesInj
  <1>10. \A i, k \in 1..n : order[i] = order[k] => i = k
    BY <1>9 DEF Injection, IsInjective
  <1> QED
    BY <1>4, <1>10 DEF Once

(* What a forced shutdown puts in the history was there or was waiting.    *)
LEMMA WaitingRetained ==
  ASSUME StoreTypeOK, HistoryInv, NEW order \in Enumerations(Waiting),
         history' = Trimmed(history \o order)
  PROVE  Once(history') /\ \A k \in Retained' : k \in Retained \cup Waiting
  <1>0. history \in Seq(Jobs)
    BY DEF StoreTypeOK
  <1>2. order \in Seq(Waiting) /\ Once(order)
    BY EnumerationOnce DEF Waiting
  <1> DEFINE seq == history \o order
  <1>3. order \in Seq(Jobs)
    BY <1>2, SeqMonotonic DEF Waiting
  <1>4. /\ Len(history) \in Nat /\ DOMAIN history = 1..Len(history)
        /\ Len(order) \in Nat /\ \A i \in 1..Len(order) : order[i] \in Waiting
    BY <1>0, <1>2, LenProperties
  <1>5. /\ seq \in Seq(Jobs) /\ Len(seq) = Len(history) + Len(order)
        /\ \A i \in 1..Len(history) + Len(order) :
             seq[i] = IF i <= Len(history) THEN history[i] ELSE order[i - Len(history)]
    BY <1>0, <1>3, ConcatProperties
  <1>6. history' = Trimmed(seq)
    OBVIOUS
  <1> HIDE DEF seq
  <1>7. \A i \in 1..Len(history) : history[i] \in Retained /\ history[i] \notin Waiting
    BY <1>4 DEF HistoryInv, Retained, Waiting, Terminal, TerminalState
  <1>8. Once(seq)
    <2> SUFFICES ASSUME NEW i \in 1..Len(seq), NEW k \in 1..Len(seq), seq[i] = seq[k]
                 PROVE  i = k
      BY DEF Once
    <2>1. CASE i <= Len(history) /\ k <= Len(history)
      <3>1. history[i] = history[k] /\ i \in 1..Len(history) /\ k \in 1..Len(history)
        BY <1>4, <1>5, <2>1
      <3> QED
        BY <3>1 DEF HistoryInv, Once
    <2>2. CASE i > Len(history) /\ k > Len(history)
      <3>1. /\ i - Len(history) \in 1..Len(order) /\ k - Len(history) \in 1..Len(order)
            /\ order[i - Len(history)] = order[k - Len(history)]
        BY <1>4, <1>5, <2>2
      <3>2. i - Len(history) = k - Len(history)
        BY <1>2, <3>1 DEF Once
      <3> QED
        BY <1>4, <1>5, <3>2
    <2>3. CASE i <= Len(history) /\ k > Len(history)
      <3>1. /\ i \in 1..Len(history) /\ seq[i] = history[i]
            /\ k - Len(history) \in 1..Len(order) /\ seq[k] = order[k - Len(history)]
        BY <1>4, <1>5, <2>3
      <3> QED
        BY <1>4, <1>7, <3>1
    <2>4. CASE i > Len(history) /\ k <= Len(history)
      <3>1. /\ k \in 1..Len(history) /\ seq[k] = history[k]
            /\ i - Len(history) \in 1..Len(order) /\ seq[i] = order[i - Len(history)]
        BY <1>4, <1>5, <2>4
      <3> QED
        BY <1>4, <1>7, <3>1
    <2> QED
      BY <1>4, <1>5, <2>1, <2>2, <2>3, <2>4
  <1>9. \A i \in 1..Len(seq) : seq[i] \in Retained \cup Waiting
    <2> SUFFICES ASSUME NEW i \in 1..Len(seq) PROVE seq[i] \in Retained \cup Waiting
      OBVIOUS
    <2>1. CASE i <= Len(history)
      <3>1. i \in 1..Len(history) /\ seq[i] = history[i]
        BY <1>4, <1>5, <2>1
      <3> QED
        BY <1>7, <3>1
    <2>2. CASE i > Len(history)
      <3>1. i - Len(history) \in 1..Len(order) /\ seq[i] = order[i - Len(history)]
        BY <1>4, <1>5, <2>2
      <3> QED
        BY <1>4, <3>1
    <2> QED
      BY <1>4, <1>5, <2>1, <2>2
  <1>10. /\ Trimmed(seq) \in Seq(Jobs) /\ Once(Trimmed(seq))
         /\ \A i \in 1..Len(Trimmed(seq)) : \E k \in 1..Len(seq) : Trimmed(seq)[i] = seq[k]
    BY <1>5, <1>8, TrimmedParts
  <1>11. \A k \in Retained' : k \in Retained \cup Waiting
    <2>1. DOMAIN Trimmed(seq) = 1..Len(Trimmed(seq))
      BY <1>10, LenProperties
    <2> QED
      BY <1>6, <1>9, <1>10, <2>1 DEF Retained
  <1> QED
    BY <1>6, <1>10, <1>11

(* Every operation of the store keeps the history in order.                *)
LEMMA HistoryStep ==
  ASSUME StoreTypeOK, HistoryInv, StoreNext
  PROVE  HistoryInv'
  <1>0. jobs \in [Jobs -> Job] /\ nextSequence \in Nat /\ history \in Seq(Jobs)
    BY DEF StoreTypeOK
  <1>1. ASSUME history' = history,
               \A k \in Jobs : jobs[k].state \in TerminalState
                                 => jobs'[k].state \in TerminalState
        PROVE  HistoryInv'
    <2>1. Retained \subseteq Jobs
      BY <1>0, LenProperties, ElementOfSeq DEF Retained
    <2>2. Retained' = Retained
      BY <1>1 DEF Retained
    <2> QED
      BY <1>1, <2>1, <2>2 DEF HistoryInv, Terminal, Once
  <1>2. ASSUME NEW j \in Jobs, NEW from, NEW to, NEW pid, Turns(j, from, to, pid),
               history' = history, \A s \in TerminalState : s \notin from
        PROVE  HistoryInv'
    BY <1>1, <1>2 DEF Turns
  <1>3. ASSUME NEW j \in Jobs, NEW outcome \in TerminalState, Terminalize(j, outcome)
        PROVE  HistoryInv'
    <2>1. Once(history') /\ Retained' \subseteq Retained \cup {j}
      BY <1>3, TerminalizeHistory
    <2>2. Turns(j, LiveState, {outcome}, FALSE)
      BY <1>0, <1>3, StoreEffects
    <2>3. Retained \subseteq Jobs
      BY <1>0, LenProperties, ElementOfSeq DEF Retained
    <2> QED
      BY <1>3, <2>1, <2>2, <2>3 DEF HistoryInv, Terminal, Turns, Once
  <1>4. ASSUME NEW j \in Jobs, StoreStep(j)
        PROVE  HistoryInv'
    <2>1. CASE InsertJob(j)
      <3>1. Turns(j, {"Unsubmitted"}, {"Queued"}, jobs[j].pid)
        BY <1>0, <2>1, StoreEffects
      <3>2. history' = history
        BY <2>1 DEF InsertJob
      <3> QED
        BY <1>2, <3>1, <3>2 DEF TerminalState
    <2>2. CASE MarkRunning(j)
      <3>1. Turns(j, {"Queued", "Paused"}, {"Running"}, TRUE)
        BY <1>0, <2>2, StoreEffects
      <3>2. history' = history
        BY <2>2 DEF MarkRunning
      <3> QED
        BY <1>2, <3>1, <3>2 DEF TerminalState
    <2>3. CASE UpdateProcessId(j)
      <3>1. /\ Turns(j, {"Running", "PauseRequested", "CancelRequested", "Recovering"},
                     {jobs[j].state}, TRUE)
            /\ history' = history
        BY <1>0, <2>3, StoreEffects DEF UpdateProcessId
      <3> QED
        BY <1>2, <3>1 DEF TerminalState
    <2>4. ASSUME NEW revision \in Nat, ReplaceDryRun(j, revision)
          PROVE  HistoryInv'
      <3>1. Turns(j, {"Queued"}, {"Queued"}, jobs[j].pid)
        BY <1>0, <2>4, StoreEffects
      <3>2. history' = history
        BY <2>4 DEF ReplaceDryRun
      <3> QED
        BY <1>2, <3>1, <3>2 DEF TerminalState
    <2>5. CASE RequestPause(j)
      <3>1. /\ history' = history
            /\ \/ Turns(j, {"Queued"}, {"Paused"}, jobs[j].pid)
               \/ Turns(j, {"Running", "Recovering"}, {"PauseRequested"}, jobs[j].pid)
        BY <1>0, <2>5, StoreEffects DEF RequestPause
      <3> QED
        BY <1>2, <3>1 DEF TerminalState
    <2>6. CASE RequestCancel(j)
      <3>1. /\ history' = history
            /\ Turns(j, LiveState \ {"CancelRequested"}, {"CancelRequested"}, jobs[j].pid)
        BY <1>0, <2>6, StoreEffects DEF RequestCancel
      <3> QED
        BY <1>2, <3>1 DEF TerminalState, LiveState
    <2>7. CASE Resume(j)
      <3>1. Turns(j, {"Paused"}, {"Queued"}, jobs[j].pid)
        BY <1>0, <2>7, StoreEffects
      <3>2. history' = history
        BY <2>7 DEF Resume
      <3> QED
        BY <1>2, <3>1, <3>2 DEF TerminalState
    <2>8. CASE MarkPaused(j)
      <3>1. Turns(j, {"PauseRequested"}, {"Paused"}, FALSE)
        BY <1>0, <2>8, StoreEffects
      <3>2. history' = history
        BY <2>8 DEF MarkPaused
      <3> QED
        BY <1>2, <3>1, <3>2 DEF TerminalState
    <2>9. CASE RequeueRecovered(j)
      <3>1. Turns(j, {"Recovering"}, {"Queued"}, FALSE)
        BY <1>0, <2>9, StoreEffects
      <3>2. history' = history
        BY <2>9 DEF RequeueRecovered
      <3> QED
        BY <1>2, <3>1, <3>2 DEF TerminalState
    <2> QED
      BY <1>3, <1>4, <2>1, <2>2, <2>3, <2>4, <2>5, <2>6, <2>7, <2>8, <2>9 DEF StoreStep
  <1>5. CASE PrepareRecovery
    <2>1. \A k \in Jobs : jobs[k].state # "Running" => jobs'[k].state = jobs[k].state
      BY <1>0, <1>5, SweepEffects
    <2>2. history' = history
      BY <1>5 DEF PrepareRecovery
    <2>3. \A k \in Jobs : jobs[k].state \in TerminalState
                            => jobs'[k].state \in TerminalState
      BY <2>1 DEF TerminalState
    <2> QED
      BY <1>1, <2>2, <2>3
  <1>6. CASE CancelWaitingJobs
    <2>1. PICK order \in Enumerations(Waiting) : history' = Trimmed(history \o order)
      BY <1>6 DEF CancelWaitingJobs
    <2>2. Once(history') /\ \A k \in Retained' : k \in Retained \cup Waiting
      BY <2>1, WaitingRetained
    <2>12. Retained \subseteq Jobs /\ Waiting \subseteq Jobs
      BY <1>0, LenProperties, ElementOfSeq DEF Retained, Waiting
    <2>13. \A k \in Retained' : jobs'[k].state \in TerminalState
      <3> TAKE k \in Retained'
      <3>1. k \in Jobs /\ k \in Retained \cup Waiting
        BY <2>2, <2>12
      <3>2. CASE k \in Waiting
        BY <1>0, <1>6, <3>1, <3>2, SweepEffects DEF TerminalState
      <3>3. CASE k \in Retained /\ k \notin Waiting
        <4>1. jobs[k].state \in TerminalState
          BY <3>3 DEF HistoryInv, Terminal
        <4>2. jobs'[k].state = IF jobs[k].state \in {"Running", "Recovering", "PauseRequested"}
                               THEN "CancelRequested" ELSE jobs[k].state
          BY <1>0, <1>6, <3>1, <3>3, SweepEffects
        <4> QED
          BY <4>1, <4>2 DEF TerminalState
      <3> QED
        BY <3>1, <3>2, <3>3
    <2> QED
      BY <2>2, <2>13 DEF HistoryInv, Terminal, Once
  <1> QED
    BY <1>4, <1>5, <1>6 DEF StoreNext

(* What no operation of the store does to a job: a job that has ended      *)
(* stays as it ended, only a live one ends, none is forgotten, a plan is   *)
(* replaced only in the queue, and the history takes in only jobs that     *)
(* end.                                                                    *)
LEMMA StoreKeeps ==
  ASSUME StoreTypeOK, HistoryInv, StoreNext, NEW k \in Jobs
  PROVE  /\ jobs'[k].plan = jobs[k].plan \/ jobs'[k].state = "Queued"
         /\ Terminal(k) => jobs'[k].state = jobs[k].state
         /\ jobs'[k].state \in TerminalState => Live(k) \/ Terminal(k)
         /\ jobs'[k].state = "Unsubmitted" => jobs[k].state = "Unsubmitted"
         /\ k \in Retained' => k \in Retained \/ Live(k)
  <1> DEFINE Goal == /\ jobs'[k].plan = jobs[k].plan \/ jobs'[k].state = "Queued"
                     /\ Terminal(k) => jobs'[k].state = jobs[k].state
                     /\ jobs'[k].state \in TerminalState => Live(k) \/ Terminal(k)
                     /\ jobs'[k].state = "Unsubmitted" => jobs[k].state = "Unsubmitted"
                     /\ k \in Retained' => k \in Retained \/ Live(k)
  <1>0. jobs \in [Jobs -> Job] /\ nextSequence \in Nat /\ history \in Seq(Jobs)
    BY DEF StoreTypeOK
  <1>1. ASSUME history' = history PROVE Retained' = Retained
    BY <1>1 DEF Retained
  <1>2. ASSUME NEW j \in Jobs, NEW from, NEW to, NEW pid, Turns(j, from, to, pid),
               SamePlan(j) \/ to = {"Queued"}, history' = history,
               \A s \in TerminalState : s \notin from /\ s \notin to,
               "Unsubmitted" \notin to
        PROVE  Goal
    <2>1. CASE j = k
      BY <1>1, <1>2, <2>1 DEF Turns, SamePlan, Terminal
    <2>2. CASE j # k
      BY <1>1, <1>2, <2>2 DEF Turns, Terminal
    <2> QED
      BY <2>1, <2>2
  <1>3. ASSUME NEW j \in Jobs, NEW outcome \in TerminalState, Terminalize(j, outcome)
        PROVE  Goal
    <2>1. Retained' \subseteq Retained \cup {j}
      BY <1>3, TerminalizeHistory
    <2>2. Turns(j, LiveState, {outcome}, FALSE) /\ SamePlan(j)
      BY <1>0, <1>3, StoreEffects
    <2>3. jobs[j].state \in LiveState /\ ~(jobs[j].state \in TerminalState)
      BY <2>2 DEF Turns, LiveState, TerminalState
    <2>4. CASE j = k
      BY <2>1, <2>2, <2>3, <2>4 DEF Turns, SamePlan, Terminal, Live, TerminalState
    <2>5. CASE j # k
      BY <2>1, <2>2, <2>5 DEF Turns, Terminal
    <2> QED
      BY <2>4, <2>5
  <1>4. ASSUME NEW j \in Jobs, StoreStep(j)
        PROVE  Goal
    <2>1. CASE InsertJob(j)
      <3>1. /\ Turns(j, {"Unsubmitted"}, {"Queued"}, jobs[j].pid)
            /\ SamePlan(j)
        BY <1>0, <2>1, StoreEffects
      <3>2. history' = history
        BY <2>1 DEF InsertJob
      <3> QED
        BY <1>2, <3>1, <3>2 DEF TerminalState, LiveState
    <2>2. CASE MarkRunning(j)
      <3>1. /\ Turns(j, {"Queued", "Paused"}, {"Running"}, TRUE)
            /\ jobs'[j].plan = jobs[j].plan
        BY <1>0, <2>2, StoreEffects
      <3>2. history' = history
        BY <2>2 DEF MarkRunning
      <3>3. CASE j = k
        BY <1>1, <3>1, <3>2, <3>3 DEF Turns, Terminal, TerminalState
      <3>4. CASE j # k
        BY <1>1, <3>1, <3>2, <3>4 DEF Turns, Terminal
      <3> QED
        BY <3>3, <3>4
    <2>3. CASE UpdateProcessId(j)
      <3>1. /\ Turns(j, {"Running", "PauseRequested", "CancelRequested",
                     "Recovering"}, {jobs[j].state}, TRUE)
            /\ SamePlan(j)
        BY <1>0, <2>3, StoreEffects
      <3>2. history' = history
        BY <2>3 DEF UpdateProcessId
      <3>3. CASE j = k
        BY <1>1, <3>1, <3>2, <3>3 DEF Turns, SamePlan, Terminal, TerminalState
      <3>4. CASE j # k
        BY <1>1, <3>1, <3>2, <3>4 DEF Turns, Terminal
      <3> QED
        BY <3>3, <3>4
    <2>4. ASSUME NEW revision \in Nat, ReplaceDryRun(j, revision)
          PROVE  Goal
      <3>1. Turns(j, {"Queued"}, {"Queued"}, jobs[j].pid)
        BY <1>0, <2>4, StoreEffects
      <3>2. history' = history
        BY <2>4 DEF ReplaceDryRun
      <3> QED
        BY <1>2, <3>1, <3>2 DEF TerminalState
    <2>5. CASE RequestPause(j)
      <3>1. /\ SamePlan(j)
            /\ \/ Turns(j, {"Queued"}, {"Paused"}, jobs[j].pid)
               \/ Turns(j, {"Running", "Recovering"}, {"PauseRequested"}, jobs[j].pid)
        BY <1>0, <2>5, StoreEffects
      <3>2. history' = history
        BY <2>5 DEF RequestPause
      <3> QED
        BY <1>2, <3>1, <3>2 DEF TerminalState
    <2>6. CASE RequestCancel(j)
      <3>1. /\ Turns(j, LiveState \ {"CancelRequested"}, {"CancelRequested"}, jobs[j].pid)
            /\ SamePlan(j)
        BY <1>0, <2>6, StoreEffects
      <3>2. history' = history
        BY <2>6 DEF RequestCancel
      <3> QED
        BY <1>2, <3>1, <3>2 DEF TerminalState, LiveState
    <2>7. CASE Resume(j)
      <3>1. /\ Turns(j, {"Paused"}, {"Queued"}, jobs[j].pid)
            /\ SamePlan(j)
        BY <1>0, <2>7, StoreEffects
      <3>2. history' = history
        BY <2>7 DEF Resume
      <3> QED
        BY <1>2, <3>1, <3>2 DEF TerminalState, LiveState
    <2>8. CASE MarkPaused(j)
      <3>1. /\ Turns(j, {"PauseRequested"}, {"Paused"}, FALSE)
            /\ SamePlan(j)
        BY <1>0, <2>8, StoreEffects
      <3>2. history' = history
        BY <2>8 DEF MarkPaused
      <3> QED
        BY <1>2, <3>1, <3>2 DEF TerminalState, LiveState
    <2>9. CASE RequeueRecovered(j)
      <3>1. /\ Turns(j, {"Recovering"}, {"Queued"}, FALSE)
            /\ SamePlan(j)
        BY <1>0, <2>9, StoreEffects
      <3>2. history' = history
        BY <2>9 DEF RequeueRecovered
      <3> QED
        BY <1>2, <3>1, <3>2 DEF TerminalState, LiveState
    <2> QED
      BY <1>3, <1>4, <2>1, <2>2, <2>3, <2>4, <2>5, <2>6, <2>7, <2>8, <2>9 DEF StoreStep
  <1>5. CASE PrepareRecovery
    <2>1. /\ jobs[k].state = "Running" => jobs'[k].state = "Recovering"
          /\ jobs[k].state # "Running" => jobs'[k].state = jobs[k].state
          /\ SamePlan(k)
      BY <1>0, <1>5, SweepEffects
    <2>2. history' = history
      BY <1>5 DEF PrepareRecovery
    <2> QED
      BY <1>1, <2>1, <2>2 DEF SamePlan, Terminal, TerminalState
  <1>6. CASE CancelWaitingJobs
    <2>1. /\ k \in Waiting => jobs'[k].state = "Cancelled"
          /\ k \notin Waiting =>
               jobs'[k].state = IF jobs[k].state \in {"Running", "Recovering", "PauseRequested"}
                                THEN "CancelRequested" ELSE jobs[k].state
          /\ SamePlan(k)
      BY <1>0, <1>6, SweepEffects
    <2>2. PICK order \in Enumerations(Waiting) : history' = Trimmed(history \o order)
      BY <1>6 DEF CancelWaitingJobs
    <2>3. \A i \in Retained' : i \in Retained \cup Waiting
      BY <2>2, WaitingRetained
    <2> QED
      BY <2>1, <2>3 DEF SamePlan, Terminal, TerminalState, Live, LiveState, Waiting
  <1> QED
    BY <1>4, <1>5, <1>6 DEF StoreNext


(* Every operation but replace_dry_run leaves the plans alone.             *)
PlainStep(j) ==
  \/ InsertJob(j) \/ MarkRunning(j) \/ UpdateProcessId(j)
  \/ RequestPause(j) \/ RequestCancel(j) \/ Resume(j) \/ MarkPaused(j)
  \/ (\E outcome \in TerminalState : Terminalize(j, outcome)) \/ RequeueRecovered(j)

PlainNext == (\E j \in Jobs : PlainStep(j)) \/ PrepareRecovery \/ CancelWaitingJobs

LEMMA PlainKeepsPlans ==
  ASSUME StoreTypeOK, PlainNext, NEW k \in Jobs
  PROVE  jobs'[k].plan = jobs[k].plan
  <1>0. jobs \in [Jobs -> Job] /\ nextSequence \in Nat
    BY DEF StoreTypeOK
  <1>1. ASSUME NEW j \in Jobs, PlainStep(j)
        PROVE  jobs'[k].plan = jobs[k].plan
    <2>1. \E from, to, pid : Turns(j, from, to, pid) /\ jobs'[j].plan = jobs[j].plan
      BY <1>0, <1>1, StoreEffects DEF PlainStep, SamePlan
    <2> QED
      BY <2>1 DEF Turns
  <1>2. CASE PrepareRecovery \/ CancelWaitingJobs
    <2>1. SamePlan(k)
      BY <1>0, <1>2, SweepEffects
    <2> QED
      BY <2>1 DEF SamePlan
  <1> QED
    BY <1>1, <1>2 DEF PlainNext


(* The operations that start no job, bring none back into the queue and    *)
(* fail none.                                                              *)
CalmStep(j) ==
  \/ InsertJob(j) \/ UpdateProcessId(j) \/ RequestPause(j) \/ RequestCancel(j)
  \/ Resume(j) \/ MarkPaused(j) \/ Terminalize(j, "Completed") \/ Terminalize(j, "Cancelled")

CalmNext == (\E j \in Jobs : CalmStep(j)) \/ CancelWaitingJobs

LEMMA CalmEffects ==
  ASSUME StoreTypeOK, CalmNext, NEW k \in Jobs
  PROVE  /\ jobs'[k].attempt = jobs[k].attempt
         /\ jobs'[k].state \in {"Running", "Recovering"} => jobs'[k].state = jobs[k].state
         /\ jobs[k].state = "Recovering" => jobs'[k].state \notin {"Failed", "Queued"}
  <1> DEFINE Goal ==
         /\ jobs'[k].attempt = jobs[k].attempt
         /\ jobs'[k].state \in {"Running", "Recovering"} => jobs'[k].state = jobs[k].state
         /\ jobs[k].state = "Recovering" => jobs'[k].state \notin {"Failed", "Queued"}
  <1>0. jobs \in [Jobs -> Job] /\ nextSequence \in Nat
    BY DEF StoreTypeOK
  <1>1. ASSUME NEW j \in Jobs, NEW from, NEW to, NEW pid, Turns(j, from, to, pid),
               SamePlan(j),
               \A s \in to : s \notin {"Running", "Recovering", "Failed"},
               "Queued" \in to => "Recovering" \notin from
        PROVE  Goal
    <2>1. CASE j = k
      BY <1>1, <2>1 DEF Turns, SamePlan
    <2>2. CASE j # k
      BY <1>1, <2>2 DEF Turns
    <2> QED
      BY <2>1, <2>2
  <1>2. ASSUME NEW j \in Jobs, CalmStep(j)
        PROVE  Goal
    <2>1. CASE InsertJob(j)
      <3>1. Turns(j, {"Unsubmitted"}, {"Queued"}, jobs[j].pid) /\ SamePlan(j)
        BY <1>0, <2>1, StoreEffects
      <3> QED
        BY <1>1, <3>1
    <2>2. CASE UpdateProcessId(j)
      <3>1. /\ Turns(j, {"Running", "PauseRequested", "CancelRequested", "Recovering"},
                     {jobs[j].state}, TRUE)
            /\ SamePlan(j)
        BY <1>0, <2>2, StoreEffects
      <3>2. CASE j = k
        BY <3>1, <3>2 DEF Turns, SamePlan
      <3>3. CASE j # k
        BY <3>1, <3>3 DEF Turns
      <3> QED
        BY <3>2, <3>3
    <2>3. CASE RequestPause(j)
      <3>1. /\ SamePlan(j)
            /\ \/ Turns(j, {"Queued"}, {"Paused"}, jobs[j].pid)
               \/ Turns(j, {"Running", "Recovering"}, {"PauseRequested"}, jobs[j].pid)
        BY <1>0, <2>3, StoreEffects
      <3> QED
        BY <1>1, <3>1
    <2>4. CASE RequestCancel(j)
      <3>1. /\ Turns(j, LiveState \ {"CancelRequested"}, {"CancelRequested"}, jobs[j].pid)
            /\ SamePlan(j)
        BY <1>0, <2>4, StoreEffects
      <3> QED
        BY <1>1, <3>1
    <2>5. CASE Resume(j)
      <3>1. Turns(j, {"Paused"}, {"Queued"}, jobs[j].pid) /\ SamePlan(j)
        BY <1>0, <2>5, StoreEffects
      <3> QED
        BY <1>1, <3>1
    <2>6. CASE MarkPaused(j)
      <3>1. Turns(j, {"PauseRequested"}, {"Paused"}, FALSE) /\ SamePlan(j)
        BY <1>0, <2>6, StoreEffects
      <3> QED
        BY <1>1, <3>1
    <2>7. CASE Terminalize(j, "Completed") \/ Terminalize(j, "Cancelled")
      <3>1. /\ \/ Turns(j, LiveState, {"Completed"}, FALSE)
               \/ Turns(j, LiveState, {"Cancelled"}, FALSE)
            /\ SamePlan(j)
        BY <1>0, <2>7, StoreEffects DEF TerminalState
      <3>2. \A s \in {"Completed"} \cup {"Cancelled"} :
              s \notin {"Running", "Recovering", "Failed"} /\ s # "Queued"
        OBVIOUS
      <3> QED
        BY <1>1, <3>1, <3>2
    <2> QED
      BY <1>2, <2>1, <2>2, <2>3, <2>4, <2>5, <2>6, <2>7 DEF CalmStep
  <1>3. CASE CancelWaitingJobs
    <2>1. /\ k \in Waiting => jobs'[k].state = "Cancelled"
          /\ k \notin Waiting =>
               jobs'[k].state = IF jobs[k].state \in {"Running", "Recovering", "PauseRequested"}
                                THEN "CancelRequested" ELSE jobs[k].state
          /\ SamePlan(k)
      BY <1>0, <1>3, SweepEffects
    <2> QED
      BY <2>1 DEF SamePlan
  <1> QED
    BY <1>2, <1>3 DEF CalmNext


=============================================================================
