-------------------------- MODULE IpcLifecycleProofs --------------------------
(***************************************************************************)
(* The IPC server implements JobLifecycle, for any number of jobs,         *)
(* clients, requests, crashes and attempts: every step of a thread, a      *)
(* child or the daemon is one step in the life of the jobs, or none.       *)
(***************************************************************************)
EXTENDS IpcLifecycle, IpcServerSafety

(* The attempts of a job whose child is not going to publish any more.     *)
Past(j) == {a \in 1..jobs[j].attempt :
              a \in Attempts /\ child[<<j, a>>].phase \in PastPublish}

(* Every attempt publishes at most once, and a job does not publish        *)
(* without an attempt.                                                     *)
PublishInv == \A j \in Jobs : published[j] <= Cardinality(Past(j))

(* There are n numbers from 1 to n.                                        *)
LEMMA IntervalCounts ==
  ASSUME NEW n \in Nat
  PROVE  IsFiniteSet(1..n) /\ Cardinality(1..n) = n
  <1>1. 1 \in Int /\ n \in Int
    OBVIOUS
  <1>2. IsFiniteSet(1..n) /\ Cardinality(1..n) = IF 1 > n THEN 0 ELSE n - 1 + 1
    BY <1>1, FS_Interval
  <1> QED
    BY <1>2

(* What PublishInv counts is finite, and a child that is about to publish  *)
(* is not counted.                                                         *)
LEMMA PastCounts ==
  ASSUME FileInv, NEW j \in Jobs
  PROVE  /\ IsFiniteSet(Past(j)) /\ Cardinality(Past(j)) \in Nat
         /\ \A p \in Proc :
              p[1] = j /\ child[p].phase \notin PastPublish /\ child[p].phase # "none"
                => Cardinality(Past(j)) < jobs[j].attempt /\ p[2] \notin Past(j)
  <1>0. jobs[j].attempt \in Nat /\ ChildInv
    BY DEF FileInv, Typed, TypeOK, StoreTypeOK, Job
  <1>1. /\ IsFiniteSet(1..jobs[j].attempt)
        /\ Cardinality(1..jobs[j].attempt) = jobs[j].attempt
    BY <1>0, IntervalCounts
  <1>2. Past(j) \subseteq 1..jobs[j].attempt
    BY DEF Past
  <1>3. IsFiniteSet(Past(j)) /\ Cardinality(Past(j)) \in Nat
    BY <1>1, <1>2, FS_Subset, FS_CardinalityType
  <1>4. ASSUME NEW p \in Proc, p[1] = j,
               child[p].phase \notin PastPublish, child[p].phase # "none"
        PROVE  Cardinality(Past(j)) < jobs[j].attempt /\ p[2] \notin Past(j)
    <2>0. p = <<j, p[2]>> /\ p[2] \in Attempts
      BY <1>4 DEF Proc
    <2>1. p[2] \in 1..jobs[j].attempt
      <3>1. p[2] \in Nat /\ p[2] # 0
        BY BoundAssumption DEF Proc
      <3>2. p[2] <= jobs[j].attempt
        BY <1>0, <1>4 DEF ChildInv
      <3> QED
        BY <1>0, <3>1, <3>2
    <2>2. p[2] \notin Past(j)
      BY <1>4, <2>0 DEF Past
    <2> DEFINE rest == (1..jobs[j].attempt) \ {p[2]}
    <2>3. IsFiniteSet(rest) /\ Cardinality(rest) = jobs[j].attempt - 1
      BY <1>1, <2>1, FS_RemoveElement
    <2>4. Past(j) \in SUBSET rest
      BY <1>2, <2>2
    <2> HIDE DEF rest
    <2>5. Cardinality(Past(j)) <= Cardinality(rest)
      BY <2>3, <2>4, FS_Subset
    <2> QED
      BY <1>0, <1>3, <2>2, <2>3, <2>5
  <1> QED
    BY <1>3, <1>4

(* No step takes an attempt out of Past.                                   *)
LEMMA PastGrows ==
  ASSUME FileInv, [Next]_vars, NEW j \in Jobs
  PROVE  Past(j) \subseteq Past(j)'
  <1> SUFFICES ASSUME NEW a \in Past(j)
               PROVE  a \in Past(j)'
    OBVIOUS
  <1>0. Typed /\ ChildInv
    BY DEF FileInv
  <1>1. /\ a \in 1..jobs[j].attempt /\ a \in Attempts /\ <<j, a>> \in Proc
        /\ child[<<j, a>>].phase \in PastPublish
    BY DEF Past, Proc
  <1>2. a \in 1..jobs'[j].attempt
    <2>1. /\ jobs[j].attempt \in Nat /\ jobs'[j].attempt \in Nat
          /\ jobs[j].attempt <= jobs'[j].attempt
      BY <1>0, AttemptsGrow
    <2> QED
      BY <1>1, <2>1
  <1> DEFINE p == <<j, a>>
  <1>3. child'[p].phase \in PastPublish
    <2>1. ASSUME NEW q \in Proc, ChildStep(q) \/ ChildFail(q)
          PROVE  child'[p].phase \in PastPublish
      <3>1. CASE q = p
        BY <1>0, <1>1, <2>1, <3>1, ChildMoves
      <3>2. CASE q # p
        BY <1>0, <1>1, <2>1, <3>2, ChildMoves
      <3> QED
        BY <3>1, <3>2
    <2>2. CASE \/ SchedStep \/ SchedFailure
               \/ (\E c \in Clients : ClientRequest(c) \/ ClientStep(c))
               \/ MainStop \/ MainExit \/ Crash \/ Start \/ UNCHANGED vars
      <3>1. ~(SchedSpawn /\ p = <<cur, jobs[cur].attempt>>)
        <4> SUFFICES ASSUME SchedSpawn, p = <<cur, jobs[cur].attempt>> PROVE FALSE
          OBVIOUS
        <4>1. child[p].phase = "none"
          BY <1>0 DEF SchedSpawn, ChildInv
        <4> QED
          BY <1>1, <4>1 DEF PastPublish, ExitPhase
      <3>2. child'[p].phase = child[p].phase \/ child'[p].phase \in {"failed", "gone"}
        BY <1>0, <1>1, <2>2, <3>1, DaemonMoves
      <3> QED
        BY <1>1, <3>2 DEF PastPublish, ExitPhase
    <2> QED
      BY <2>1, <2>2 DEF Next
  <1> QED
    BY <1>1, <1>2, <1>3 DEF Past

(* A step that publishes an output of a job is a step of a child that was  *)
(* not past its rename, and is now.                                        *)
LEMMA PublishMoves ==
  ASSUME FileInv, [Next]_vars
  PROVE  \/ published' = published
         \/ \E p \in Proc :
              /\ published' = [published EXCEPT ![p[1]] = @ + 1]
              /\ UNCHANGED storeVars
              /\ child[p].phase = "cleared" /\ child'[p].phase = "published"
  <1>0. Typed
    BY DEF FileInv
  <1>1. ASSUME NEW q \in Proc, ChildStep(q) \/ ChildFail(q)
        PROVE  \/ published' = published
               \/ /\ published' = [published EXCEPT ![q[1]] = @ + 1]
                  /\ UNCHANGED storeVars
                  /\ child[q].phase = "cleared" /\ child'[q].phase = "published"
    <2>1. UNCHANGED storeVars
      BY <1>1 DEF ChildStep, ChildFail, ChildOpen, ChildLock, ChildLockTimeout,
         ChildStart, ChildCheckpoint, ChildFence, ChildPublish, ChildReceipt,
         ChildSucceed, childFrame
    <2> QED
      BY <1>0, <1>1, <2>1, ChildMoves
  <1>2. CASE \/ SchedStep \/ SchedFailure
             \/ (\E c \in Clients : ClientRequest(c) \/ ClientStep(c))
             \/ MainStop \/ MainExit \/ Crash \/ Start \/ UNCHANGED vars
    <2>1. CASE Proc = {}
      <3>1. Jobs = {}
        <4>1. \A k \in Jobs : <<k, 1>> \in Proc
          BY BoundAssumption DEF Proc
        <4> QED
          BY <2>1, <4>1
      <3>2. published \in [Jobs -> Nat] /\ Typed'
        BY <1>0, TypedStep DEF Typed, TypeOK
      <3>3. published' \in [Jobs -> Nat]
        BY <3>2 DEF Typed, TypeOK
      <3> QED
        BY <3>1, <3>2, <3>3
    <2>2. CASE \E q \in Proc : TRUE
      BY <1>0, <1>2, <2>2, DaemonMoves
    <2> QED
      BY <2>1, <2>2
  <1> QED
    BY <1>1, <1>2 DEF Next

(* Every step keeps the count.                                             *)
LEMMA PublishInvStep ==
  ASSUME FileInv, FileInv', PublishInv, [Next]_vars
  PROVE  PublishInv'
  <1> SUFFICES ASSUME NEW j \in Jobs
               PROVE  published'[j] <= Cardinality(Past(j)')
    BY DEF PublishInv
  <1>0. /\ published[j] <= Cardinality(Past(j)) /\ Cardinality(Past(j)) \in Nat
        /\ IsFiniteSet(Past(j)) /\ published \in [Jobs -> Nat]
    BY PastCounts DEF PublishInv, FileInv, Typed, TypeOK
  <1>1. IsFiniteSet(Past(j)') /\ Cardinality(Past(j)') \in Nat
    <2>1. jobs'[j].attempt \in Nat
      BY AttemptsGrow DEF FileInv
    <2>2. IsFiniteSet(1..jobs'[j].attempt)
      BY <2>1, IntervalCounts
    <2>3. Past(j)' \subseteq 1..jobs'[j].attempt
      BY DEF Past
    <2> QED
      BY <2>2, <2>3, FS_Subset, FS_CardinalityType
  <1>2. Past(j) \subseteq Past(j)'
    BY PastGrows
  <1>3. Cardinality(Past(j)) <= Cardinality(Past(j)')
    BY <1>1, <1>2, FS_Subset
  <1>4. CASE published'[j] = published[j]
    BY <1>0, <1>1, <1>3, <1>4
  <1>5. ASSUME NEW p \in Proc, p[1] = j,
               published' = [published EXCEPT ![p[1]] = @ + 1],
               child[p].phase = "cleared", child'[p].phase = "published"
        PROVE  published'[j] <= Cardinality(Past(j)')
    <2>0. p = <<j, p[2]>> /\ p[2] \in Attempts
      BY <1>5 DEF Proc
    <2>1. p[2] \notin Past(j)
      BY <1>5, <2>0 DEF Past, PastPublish, ExitPhase
    <2>2. p[2] \in Past(j)'
      <3>1. p[2] \in 1..jobs'[j].attempt
        <4>1. p[2] <= jobs[j].attempt
          BY <1>5 DEF FileInv, ChildInv
        <4>2. /\ jobs[j].attempt \in Nat /\ jobs'[j].attempt \in Nat
              /\ jobs[j].attempt <= jobs'[j].attempt
          BY AttemptsGrow DEF FileInv
        <4>3. p[2] \in Nat /\ p[2] # 0
          BY BoundAssumption DEF Proc
        <4> QED
          BY <4>1, <4>2, <4>3
      <3> QED
        BY <1>5, <2>0, <3>1 DEF Past, PastPublish
    <2>3. Past(j) \cup {p[2]} \in SUBSET Past(j)'
      BY <1>2, <2>2
    <2>4. Cardinality(Past(j) \cup {p[2]}) = Cardinality(Past(j)) + 1
      BY <1>0, <2>1, FS_AddElement
    <2>5. Cardinality(Past(j)) + 1 <= Cardinality(Past(j)')
      BY <1>1, <2>3, <2>4, FS_Subset
    <2>6. published'[j] = published[j] + 1
      BY <1>0, <1>5
    <2> QED
      BY <1>0, <1>1, <2>5, <2>6
  <1> QED
    BY <1>0, <1>4, <1>5, PublishMoves DEF Proc

-----------------------------------------------------------------------------
(* The refinement.                                                         *)

(* What the server keeps and JobLifecycle does not see.                    *)
LifeInv == FileInv /\ OutcomeInv /\ PublishInv

(* The refinement mapping, by name.                                        *)
PhaseMap == [j \in Jobs |-> PhaseOf(jobs[j].state)]
RunMap == [j \in Jobs |-> jobs[j].attempt]

(* The states of a job in the phases of its life.                          *)
LEMMA Phases ==
  /\ PhaseOf("Unsubmitted") = "new" /\ PhaseOf("Queued") = "ready"
  /\ PhaseOf("Paused") = "held" /\ PhaseOf("Running") = "claimed"
  /\ PhaseOf("Recovering") = "claimed" /\ PhaseOf("PauseRequested") = "pausing"
  /\ PhaseOf("CancelRequested") = "stopping" /\ PhaseOf("Completed") = "succeeded"
  /\ PhaseOf("Failed") = "failed" /\ PhaseOf("Cancelled") = "cancelled"
  BY DEF PhaseOf, PhaseNamed

(* An operation on one job moves that job in its life and no other.        *)
LEMMA PutMaps ==
  ASSUME jobs \in [Jobs -> Job], NEW j \in Jobs, NEW r \in Job, Put(j, r)
  PROVE  /\ PhaseMap' = [PhaseMap EXCEPT ![j] = PhaseOf(r.state)]
         /\ RunMap' = [RunMap EXCEPT ![j] = r.attempt]
         /\ PhaseMap[j] = PhaseOf(jobs[j].state) /\ RunMap[j] = jobs[j].attempt
  <1>1. jobs' = [jobs EXCEPT ![j] = r]
    BY DEF Put
  <1>2. \A k \in Jobs : jobs'[k] = IF k = j THEN r ELSE jobs[k]
    BY <1>1
  <1>3. PhaseMap' = [k \in Jobs |-> PhaseOf(jobs'[k].state)]
    BY DEF PhaseMap
  <1>4. RunMap' = [k \in Jobs |-> jobs'[k].attempt]
    BY DEF RunMap
  <1>5. PhaseMap' = [PhaseMap EXCEPT ![j] = PhaseOf(r.state)]
    BY <1>2, <1>3 DEF PhaseMap
  <1>6. RunMap' = [RunMap EXCEPT ![j] = r.attempt]
    BY <1>2, <1>4 DEF RunMap
  <1> QED
    BY <1>5, <1>6 DEF PhaseMap, RunMap

(* An operation that does not start a run is a move, or none.              *)
LEMMA PutMoves ==
  ASSUME jobs \in [Jobs -> Job], NEW j \in Jobs, NEW r \in Job, Put(j, r),
         r.attempt = jobs[j].attempt, published' = published
  PROVE  /\ \A from : PhaseOf(jobs[j].state) \in from
                        => Lifecycle!Move(j, from, PhaseOf(r.state))
         /\ r.state = jobs[j].state => UNCHANGED Lifecycle!vars
  <1>1. /\ PhaseMap' = [PhaseMap EXCEPT ![j] = PhaseOf(r.state)]
        /\ RunMap' = [RunMap EXCEPT ![j] = r.attempt]
        /\ PhaseMap[j] = PhaseOf(jobs[j].state) /\ RunMap[j] = jobs[j].attempt
    BY PutMaps
  <1>2. RunMap' = RunMap
    BY <1>1 DEF RunMap
  <1>3. r.state = jobs[j].state => PhaseMap' = PhaseMap
    BY <1>1 DEF PhaseMap
  <1> QED
    BY <1>1, <1>2, <1>3 DEF Lifecycle!Move, Lifecycle!vars, PhaseMap, RunMap


(* One operation on one job is one step in its life, or none.              *)
LEMMA StoreStepLives ==
  ASSUME Typed, FileStoreInv, NEW j \in Jobs, StoreStep(j), published' = published,
         jobs'[j].state = "Completed" => published[j] > 0
  PROVE  Lifecycle!Next \/ UNCHANGED Lifecycle!vars
  <1>0. /\ jobs \in [Jobs -> Job] /\ jobs[j] \in Job /\ nextSequence \in Nat
        /\ j \notin Resumable => /\ jobs[j].attempt <= 1
                                 /\ jobs[j].state = "Queued" => jobs[j].attempt = 0
                                 /\ jobs[j].state \notin {"Paused", "PauseRequested"}
    BY DEF FileStoreInv, Typed, TypeOK, StoreTypeOK
  <1>1. ASSUME NEW r \in Job, Put(j, r), r.attempt = jobs[j].attempt
        PROVE  /\ \A from : PhaseOf(jobs[j].state) \in from
                              => Lifecycle!Move(j, from, PhaseOf(r.state))
               /\ r.state = jobs[j].state => UNCHANGED Lifecycle!vars
    BY <1>0, <1>1, PutMoves
  <1>2. ASSUME NEW s \in JobState, NEW r \in Job, Put(j, r), r.state = s,
               r.attempt = jobs[j].attempt
        PROVE  \A from : PhaseOf(jobs[j].state) \in from => Lifecycle!Move(j, from, PhaseOf(s))
    BY <1>1, <1>2
  <1>3. CASE InsertJob(j)
    <2> DEFINE r == [jobs[j] EXCEPT !.state = "Queued", !.sequence = nextSequence]
    <2>1. r \in Job /\ r.state = "Queued" /\ r.attempt = jobs[j].attempt
      BY <1>0 DEF Job, JobState, LiveState
    <2>2. Put(j, r) /\ jobs[j].state = "Unsubmitted"
      BY <1>3 DEF InsertJob, MayInsert
    <2> HIDE DEF r
    <2>3. Lifecycle!Move(j, {"new"}, "ready")
      BY <1>1, <2>1, <2>2, Phases
    <2> QED
      BY <2>3 DEF Lifecycle!Next, Lifecycle!Submit
  <1>4. CASE MarkRunning(j)
    <2> DEFINE r == [jobs[j] EXCEPT !.state = "Running", !.attempt = @ + 1, !.pid = TRUE]
    <2>1. r \in Job /\ r.state = "Running" /\ r.attempt = jobs[j].attempt + 1
      <3>1. jobs[j].attempt + 1 \in Nat
        BY <1>0 DEF Job
      <3> QED
        BY <1>0, <3>1 DEF Job, JobState, LiveState
    <2>2. Put(j, r) /\ jobs[j].state \in {"Queued", "Paused"}
      BY <1>4 DEF MarkRunning, MayRun
    <2> HIDE DEF r
    <2>3. /\ PhaseMap' = [PhaseMap EXCEPT ![j] = "claimed"]
          /\ RunMap' = [RunMap EXCEPT ![j] = jobs[j].attempt + 1]
          /\ PhaseMap[j] \in {"ready", "held"} /\ RunMap[j] = jobs[j].attempt
      BY <1>0, <2>1, <2>2, PutMaps, Phases
    <2>4. j \notin Resumable => RunMap[j] = 0
      BY <1>0, <2>2, <2>3
    <2>5. Lifecycle!Claim(j)
      BY <2>3, <2>4 DEF Lifecycle!Claim, PhaseMap, RunMap
    <2> QED
      BY <2>5 DEF Lifecycle!Next
  <1>5. CASE UpdateProcessId(j)
    <2> DEFINE r == [jobs[j] EXCEPT !.pid = TRUE]
    <2>1. r \in Job /\ r.state = jobs[j].state /\ r.attempt = jobs[j].attempt
      BY <1>0 DEF Job
    <2>2. Put(j, r)
      BY <1>5 DEF UpdateProcessId
    <2> HIDE DEF r
    <2> QED
      BY <1>1, <2>1, <2>2
  <1>6. ASSUME NEW revision \in Nat, ReplaceDryRun(j, revision)
        PROVE  UNCHANGED Lifecycle!vars
    <2> DEFINE r == [jobs[j] EXCEPT !.plan = revision]
    <2>1. r \in Job /\ r.state = jobs[j].state /\ r.attempt = jobs[j].attempt
      BY <1>0 DEF Job
    <2>2. Put(j, r)
      BY <1>6 DEF ReplaceDryRun
    <2> HIDE DEF r
    <2> QED
      BY <1>1, <2>1, <2>2
  <1>7. CASE RequestPause(j)
    <2> DEFINE s == IF jobs[j].state = "Queued" THEN "Paused" ELSE "PauseRequested"
               r == [jobs[j] EXCEPT !.state = s]
    <2>1. r \in Job /\ r.state = s /\ r.attempt = jobs[j].attempt
      BY <1>0 DEF Job, JobState, LiveState
    <2>2. /\ Put(j, r) /\ j \in Resumable
          /\ jobs[j].state \in {"Running", "Recovering", "Queued"}
      BY <1>7 DEF RequestPause, MayPause
    <2> HIDE DEF r
    <2>3. CASE jobs[j].state = "Queued"
      <3>1. Lifecycle!Move(j, {"ready"}, "held")
        BY <1>1, <2>1, <2>2, <2>3, Phases
      <3> QED
        BY <2>2, <3>1 DEF Lifecycle!Next, Lifecycle!Hold
    <2>4. CASE jobs[j].state # "Queued"
      <3>1. Lifecycle!Move(j, {"claimed"}, "pausing")
        BY <1>1, <2>1, <2>2, <2>4, Phases
      <3> QED
        BY <2>2, <3>1 DEF Lifecycle!Next, Lifecycle!AskPause
    <2> QED
      BY <2>3, <2>4
  <1>8. CASE RequestCancel(j)
    <2> DEFINE r == [jobs[j] EXCEPT !.state = "CancelRequested"]
    <2>1. r \in Job /\ r.state = "CancelRequested" /\ r.attempt = jobs[j].attempt
      BY <1>0 DEF Job, JobState, LiveState
    <2>2. Put(j, r) /\ jobs[j].state \in LiveState \ {"CancelRequested"}
      BY <1>8 DEF RequestCancel, MayCancel
    <2> HIDE DEF r
    <2>3. PhaseOf(jobs[j].state) \in {"ready", "held", "claimed", "pausing"}
      BY <2>2, Phases DEF LiveState
    <2>4. Lifecycle!Move(j, {"ready", "held", "claimed", "pausing"}, "stopping")
      BY <1>1, <2>1, <2>2, <2>3, Phases
    <2> QED
      BY <2>4 DEF Lifecycle!Next, Lifecycle!AskCancel
  <1>9. CASE Resume(j)
    <2> DEFINE r == [jobs[j] EXCEPT !.state = "Queued"]
    <2>1. r \in Job /\ r.state = "Queued" /\ r.attempt = jobs[j].attempt
      BY <1>0 DEF Job, JobState, LiveState
    <2>2. Put(j, r) /\ jobs[j].state = "Paused"
      BY <1>9 DEF Resume, MayResume
    <2> HIDE DEF r
    <2>3. Lifecycle!Move(j, {"held"}, "ready")
      BY <1>1, <2>1, <2>2, Phases
    <2> QED
      BY <2>3 DEF Lifecycle!Next, Lifecycle!Release
  <1>10. CASE MarkPaused(j)
    <2> DEFINE r == [jobs[j] EXCEPT !.state = "Paused", !.pid = FALSE]
    <2>1. r \in Job /\ r.state = "Paused" /\ r.attempt = jobs[j].attempt
      BY <1>0 DEF Job, JobState, LiveState
    <2>2. Put(j, r) /\ jobs[j].state = "PauseRequested" /\ j \in Resumable
      BY <1>0, <1>10 DEF MarkPaused, MayMarkPaused
    <2> HIDE DEF r
    <2>3. Lifecycle!Move(j, {"pausing"}, "held")
      BY <1>1, <2>1, <2>2, Phases
    <2> QED
      BY <2>2, <2>3 DEF Lifecycle!Next, Lifecycle!Pause
  <1>11. ASSUME NEW outcome \in TerminalState, Terminalize(j, outcome)
         PROVE  Lifecycle!Next \/ UNCHANGED Lifecycle!vars
    <2> DEFINE r == [jobs[j] EXCEPT !.state = outcome, !.pid = FALSE]
    <2>1. r \in Job /\ r.state = outcome /\ r.attempt = jobs[j].attempt
      BY <1>0 DEF Job, JobState
    <2>2. Put(j, r) /\ jobs[j].state \in LiveState
      BY <1>11 DEF Terminalize, Live
    <2> HIDE DEF r
    <2>3. PhaseOf(jobs[j].state) \in {"ready", "held", "claimed", "pausing", "stopping"}
      BY <2>2, Phases DEF LiveState
    <2>4. Lifecycle!Move(j, {"ready", "held", "claimed", "pausing", "stopping"},
                         PhaseOf(outcome))
      BY <1>1, <2>1, <2>2, <2>3
    <2>5. PhaseOf(outcome) \in Lifecycle!Ended
      BY Phases DEF TerminalState, Lifecycle!Ended
    <2>6. PhaseOf(outcome) = "succeeded" => published[j] > 0
      <3>1. jobs'[j] = r
        BY <1>0, <2>2 DEF Put
      <3>2. PhaseOf(outcome) = "succeeded" => outcome = "Completed"
        BY Phases DEF TerminalState
      <3> QED
        BY <2>1, <3>1, <3>2
    <2> QED
      BY <2>4, <2>5, <2>6 DEF Lifecycle!Next, Lifecycle!Finish
  <1>12. CASE RequeueRecovered(j)
    <2> DEFINE r == [jobs[j] EXCEPT !.state = "Queued", !.pid = FALSE]
    <2>1. r \in Job /\ r.state = "Queued" /\ r.attempt = jobs[j].attempt
      BY <1>0 DEF Job, JobState, LiveState
    <2>2. Put(j, r) /\ jobs[j].state = "Recovering" /\ j \in Resumable
      BY <1>12 DEF RequeueRecovered, MayRequeue
    <2> HIDE DEF r
    <2>3. Lifecycle!Move(j, {"claimed"}, "ready")
      BY <1>1, <2>1, <2>2, Phases
    <2> QED
      BY <2>2, <2>3 DEF Lifecycle!Next, Lifecycle!Requeue
  <1> QED
    BY <1>3, <1>4, <1>5, <1>6, <1>7, <1>8, <1>9, <1>10, <1>11, <1>12 DEF StoreStep

(* The start of a daemon changes no life; a forced shutdown is a ForceStop.*)
LEMMA StoreSweepLives ==
  ASSUME Typed, PrepareRecovery \/ CancelWaitingJobs, published' = published
  PROVE  Lifecycle!Next \/ UNCHANGED Lifecycle!vars
  <1>0. jobs \in [Jobs -> Job]
    BY DEF Typed, TypeOK, StoreTypeOK
  <1>1. /\ PhaseMap' = [j \in Jobs |-> PhaseOf(jobs'[j].state)]
        /\ RunMap' = [j \in Jobs |-> jobs'[j].attempt]
        /\ \A j \in Jobs : jobs[j] \in Job /\ PhaseMap[j] = PhaseOf(jobs[j].state)
    BY <1>0 DEF PhaseMap, RunMap
  <1>2. CASE PrepareRecovery
    <2>1. \A j \in Jobs : jobs'[j].attempt = jobs[j].attempt
      BY <1>1, <1>2 DEF PrepareRecovery, Job
    <2>2. \A j \in Jobs : PhaseOf(jobs'[j].state) = PhaseOf(jobs[j].state)
      <3> TAKE j \in Jobs
      <3>1. CASE jobs[j].state = "Running"
        <4>1. jobs'[j].state = "Recovering"
          BY <1>1, <1>2, <3>1 DEF PrepareRecovery, Job
        <4> QED
          BY <3>1, <4>1, Phases
      <3>2. CASE jobs[j].state # "Running"
        BY <1>1, <1>2, <3>2 DEF PrepareRecovery
      <3> QED
        BY <3>1, <3>2
    <2>3. PhaseMap' = PhaseMap /\ RunMap' = RunMap
      BY <1>1, <2>1, <2>2 DEF PhaseMap, RunMap
    <2> QED
      BY <2>3 DEF Lifecycle!vars, PhaseMap, RunMap
  <1>3. CASE CancelWaitingJobs
    <2>1. \A j \in Jobs : jobs'[j].attempt = jobs[j].attempt
      BY <1>1, <1>3 DEF CancelWaitingJobs, Job
    <2>2. ASSUME NEW j \in Jobs
          PROVE  PhaseOf(jobs'[j].state) =
                   CASE PhaseMap[j] \in {"ready", "held"} -> "cancelled"
                     [] PhaseMap[j] \in {"claimed", "pausing"} -> "stopping"
                     [] OTHER -> PhaseMap[j]
      <3>0. jobs[j] \in Job /\ PhaseMap[j] = PhaseOf(jobs[j].state)
        BY <1>1
      <3>1. CASE jobs[j].state \in {"Queued", "Paused"}
        <4>1. jobs'[j].state = "Cancelled"
          BY <1>3, <3>0, <3>1 DEF CancelWaitingJobs, Waiting, Job
        <4> QED
          BY <3>0, <3>1, <4>1, Phases
      <3>2. CASE jobs[j].state \in {"Running", "Recovering", "PauseRequested"}
        <4>1. jobs'[j].state = "CancelRequested"
          BY <1>3, <3>0, <3>2 DEF CancelWaitingJobs, Waiting, Job
        <4> QED
          BY <3>0, <3>2, <4>1, Phases
      <3>3. CASE jobs[j].state \in TerminalState \cup {"Unsubmitted", "CancelRequested"}
        <4>1. jobs'[j] = jobs[j]
          BY <1>3, <3>0, <3>3 DEF CancelWaitingJobs, Waiting, TerminalState
        <4>2. PhaseMap[j] \notin {"ready", "held", "claimed", "pausing"}
          BY <3>0, <3>3, Phases DEF TerminalState
        <4> QED
          BY <3>0, <4>1, <4>2
      <3> QED
        BY <3>0, <3>1, <3>2, <3>3 DEF Job, JobState, LiveState
    <2>3. PhaseMap' = [j \in Jobs |->
                         CASE PhaseMap[j] \in {"ready", "held"} -> "cancelled"
                           [] PhaseMap[j] \in {"claimed", "pausing"} -> "stopping"
                           [] OTHER -> PhaseMap[j]]
      BY <1>1, <2>2
    <2>4. RunMap' = RunMap
      BY <1>1, <2>1 DEF RunMap
    <2>5. Lifecycle!ForceStop
      BY <2>3, <2>4 DEF Lifecycle!ForceStop, PhaseMap, RunMap
    <2> QED
      BY <2>5 DEF Lifecycle!Next
  <1> QED
    BY <1>2, <1>3

(* A step that publishes is a run that publishes for the first time.       *)
LEMMA PublishLives ==
  ASSUME LifeInv, NEW p \in Proc, UNCHANGED storeVars,
         published' = [published EXCEPT ![p[1]] = @ + 1],
         child[p].phase = "cleared"
  PROVE  Lifecycle!Next \/ UNCHANGED Lifecycle!vars
  <1> DEFINE j == p[1]
  <1>1. j \in Jobs
    BY DEF Proc
  <1>2. Cardinality(Past(j)) \in Nat /\ Cardinality(Past(j)) < jobs[j].attempt
    BY <1>1, PastCounts DEF LifeInv, PastPublish, ExitPhase
  <1>3. published[j] \in Nat /\ published[j] <= Cardinality(Past(j))
    BY <1>1 DEF LifeInv, PublishInv, FileInv, Typed, TypeOK
  <1>4. jobs[j].attempt \in Nat
    BY <1>1 DEF LifeInv, FileInv, Typed, TypeOK, StoreTypeOK, Job
  <1>5. RunMap[j] = jobs[j].attempt /\ PhaseMap' = PhaseMap /\ RunMap' = RunMap
    BY <1>1 DEF RunMap, PhaseMap, storeVars
  <1>6. published[j] < RunMap[j]
    BY <1>2, <1>3, <1>4, <1>5
  <1>7. Lifecycle!Publish(j)
    BY <1>5, <1>6 DEF Lifecycle!Publish, PhaseMap, RunMap
  <1> QED
    BY <1>1, <1>7 DEF Lifecycle!Next

(* Whatever is reported Completed in a step has been published before it.  *)
LEMMA CompletionFollowsPublish ==
  ASSUME LifeInv, [Next]_vars, NEW j \in Jobs, jobs'[j].state = "Completed"
  PROVE  published[j] > 0
  <1>1. \/ jobs[j].state = "Completed"
        \/ cur = j /\ (ReceiptSeen \/ ValidReceipt(j))
    BY CompletionNeedsReceipt DEF LifeInv, FileInv
  <1> QED
    BY <1>1 DEF LifeInv, OutcomeInv, ReceiptInv, CompletedIsPublished, ValidReceipt

(* Every step of the server is a step in the life of one job, a forced     *)
(* stop of all of them, or none that a client can see.                     *)
LEMMA StepLives ==
  ASSUME LifeInv, [Next]_vars
  PROVE  Lifecycle!Next \/ UNCHANGED Lifecycle!vars
  <1>0. Typed /\ FileStoreInv
    BY DEF LifeInv, FileInv
  <1>1. CASE published' = published
    <2>1. CASE UNCHANGED storeVars
      BY <1>1, <2>1 DEF storeVars, Lifecycle!vars
    <2>2. ASSUME NEW j \in Jobs, StoreStep(j)
          PROVE  Lifecycle!Next \/ UNCHANGED Lifecycle!vars
      <3>1. jobs'[j].state = "Completed" => published[j] > 0
        BY CompletionFollowsPublish
      <3> QED
        BY <1>0, <1>1, <2>2, <3>1, StoreStepLives
    <2>3. CASE PrepareRecovery \/ CancelWaitingJobs
      BY <1>0, <1>1, <2>3, StoreSweepLives
    <2> QED
      BY <1>0, <2>1, <2>2, <2>3, NextOnStore DEF StoreNext
  <1>2. ASSUME NEW p \in Proc,
               published' = [published EXCEPT ![p[1]] = @ + 1],
               UNCHANGED storeVars, child[p].phase = "cleared"
        PROVE  Lifecycle!Next \/ UNCHANGED Lifecycle!vars
    BY <1>2, PublishLives
  <1> QED
    BY <1>1, <1>2, PublishMoves DEF LifeInv

(* The server implements JobLifecycle, for any number of jobs, clients,    *)
(* requests, attempts and daemon crashes: a job asked to cancel only ever  *)
(* ends, only a batch or stream job is paused or run again, every run      *)
(* publishes at most once, and success follows a publication.              *)
THEOREM LifecycleImplemented == Spec => ImplementsLifecycle
  <1>1. Init => Lifecycle!Init
    BY Phases DEF Init, StoreInit, Lifecycle!Init
  <1>2. Init => PublishInv
    <2> SUFFICES ASSUME Init, NEW j \in Jobs
                 PROVE  published[j] <= Cardinality(Past(j))
      BY DEF PublishInv
    <2>1. 1..jobs[j].attempt = {} /\ published[j] = 0
      BY DEF Init, StoreInit
    <2>2. Past(j) = {}
      BY <2>1 DEF Past
    <2> QED
      BY <2>1, <2>2, FS_EmptySet
  <1>3. FileInv /\ FileInv' /\ PublishInv /\ [Next]_vars => PublishInv'
    BY PublishInvStep
  <1>4. FileInv /\ OutcomeInv /\ PublishInv /\ [Next]_vars
          => [Lifecycle!Next]_(Lifecycle!vars)
    BY StepLives DEF LifeInv
  <1> QED
    BY <1>1, <1>2, <1>3, <1>4, FileInvariance, OutcomeInvariance, PTL
       DEF Spec, ImplementsLifecycle, Lifecycle!Spec


=============================================================================
