--------------------------- MODULE IpcServerProofs ---------------------------
(***************************************************************************)
(* Theorems about IpcServer, for any number of jobs, clients, requests,    *)
(* crashes and attempts.                                                   *)
(***************************************************************************)
EXTENDS IpcServer, IpcJobStoreProofs

(* Where the scheduler has a job at hand, and where a request thread has.  *)
BusyPC == SchedPC \ {"top", "orphans", "gate", "drain", "pick", "done", "dead", "off"}
ControlPC == {"pauseSignal", "cancelSignal", "cancelKill", "cancelFinish"}

BindingOK ==
  /\ sched \in BusyPC => cur \in Jobs
  /\ sched = "register" => jobs[cur].attempt \in Attempts
  /\ sched = "wait" => active \in Proc
  /\ \A c \in Clients : client[c].pc \in ControlPC => client[c].job \in Jobs

Typed == TypeOK /\ BindingOK

(* What scheduler_loop does to replan a job is one replace_dry_run.        *)
LEMMA ReplanOnStore ==
  ASSUME Typed, SchedReplan
  PROVE  \E j \in Jobs : \E revision \in Nat : ReplaceDryRun(j, revision)
  <1>1. cur \in Jobs
    BY DEF Typed, BindingOK, SchedReplan, BusyPC, SchedPC
  <1>2. jobs[cur].plan \in Nat /\ jobs[cur].attempt \in Nat
    BY <1>1 DEF Typed, TypeOK, StoreTypeOK, Job
  <1> QED
    BY <1>1, <1>2 DEF SchedReplan

(* A calm step changes the queue by one calm operation of the store, if at *)
(* all; these are the others.                                              *)
QueueStep == \/ SchedReplan \/ SchedMarkRunning \/ Start
             \/ RecoverRequeued \/ RecoverUncertain \/ SettleFailed \/ SchedGiveUp

LEMMA NextOnQueue ==
  ASSUME Typed, [Next]_vars
  PROVE  CalmNext \/ UNCHANGED storeVars \/ QueueStep
  <1> USE DEF CalmNext, CalmStep, Typed, BindingOK, BusyPC, SchedPC
  <1>1. CASE RecoverStep
    BY <1>1 DEF RecoverStep, RecoverCompleted, RecoverCancelled, RecoverPaused,
       RecoverRefused, QueueStep, Settling, End
  <1>2. CASE SettleStep
    BY <1>2 DEF SettleStep, SettleCompleted, SettlePaused, SettleCancelled,
       SettleRefused, QueueStep, EndTo, End, Abort
  <1>3. CASE SchedFailure
    BY <1>3 DEF SchedFailure, SchedPlanFails, SchedLaunchFails, SchedSpawnFails,
       SchedReaderFails, SchedTimeout, Abort
  <1>4. ASSUME NEW p \in Proc, ChildStep(p) \/ ChildFail(p)
        PROVE  UNCHANGED storeVars
    BY <1>4 DEF ChildStep, ChildFail, ChildOpen, ChildLock, ChildLockTimeout,
       ChildStart, ChildCheckpoint, ChildFence, ChildPublish, ChildReceipt,
       ChildSucceed, childFrame
  <1>5. ASSUME NEW c \in Clients, ClientRequest(c)
        PROVE  CalmNext \/ UNCHANGED storeVars
    BY <1>5 DEF ClientRequest, ClientSubmit, ClientResume, ClientPause, ClientCancel,
       ClientShutdown
  <1>6. ASSUME NEW c \in Clients, ClientStep(c)
        PROVE  CalmNext \/ UNCHANGED storeVars
    BY <1>6 DEF ClientStep, ClientStop, ClientSignal, ClientKill, ClientFinish, End,
       ControlPC
  <1>7. CASE MainStop \/ MainExit \/ Crash
    BY <1>7 DEF MainStop, MainExit, Crash, Stopping
  <1>8. CASE SchedReplan \/ SchedMarkRunning \/ SchedGiveUp \/ Start
    BY <1>8 DEF QueueStep
  <1>9. CASE SchedGate
    BY <1>9 DEF SchedGate
  <1>10. CASE SchedReconcile
    BY <1>10 DEF SchedReconcile, EndTo, End
  <1>11. CASE SchedRegister
    BY <1>11 DEF SchedRegister
  <1>12. CASE \/ SchedSnapshot \/ (\E t \in todo : SchedProbe(t)) \/ SchedProbed
              \/ SchedReread \/ SchedCleanOrphan \/ SchedDrain \/ SchedIdle
              \/ (\E j \in Jobs : SchedPick(j)) \/ SchedReplanRefused \/ SchedLaunch
              \/ SchedLock \/ SchedReconcileRefused \/ SchedMarkRefused \/ SchedSpawn
              \/ SchedReap \/ SchedReadState \/ SchedClean \/ SchedAbort
              \/ SchedAbandon \/ SchedGiveUpRefused
    BY <1>12 DEF SchedSnapshot, SchedProbe, SchedProbed, SchedReread,
       SchedCleanOrphan, SchedDrain, SchedIdle, SchedPick, SchedReplanRefused, SchedLaunch,
       SchedLock, SchedReconcileRefused, SchedMarkRefused, SchedSpawn, SchedReap,
       SchedReadState, SchedClean, SchedAbort, SchedAbandon, SchedGiveUpRefused, Abort
  <1>13. CASE UNCHANGED vars
    BY <1>13 DEF vars
  <1> QED
    BY <1>1, <1>2, <1>3, <1>4, <1>5, <1>6, <1>7, <1>8, <1>9, <1>10, <1>11, <1>12,
       <1>13 DEF Next, SchedStep

(* Every step but a replan changes no plan.                                *)
LEMMA NextButReplan ==
  ASSUME Typed, [Next]_vars
  PROVE  PlainNext \/ UNCHANGED storeVars \/ SchedReplan
  <1>1. CalmNext => PlainNext
    BY DEF CalmNext, CalmStep, PlainNext, PlainStep, TerminalState
  <1>2. QueueStep => PlainNext \/ SchedReplan
    BY DEF QueueStep, SchedMarkRunning, Start, RecoverRequeued, RecoverUncertain,
       SettleFailed, SchedGiveUp, EndTo, End, Settling, PlainNext, PlainStep,
       TerminalState, Typed, BindingOK, BusyPC, SchedPC
  <1> QED
    BY <1>1, <1>2, NextOnQueue

(* Every step changes the queue by one operation of the store, if at all.  *)
LEMMA NextOnStore ==
  ASSUME Typed, [Next]_vars
  PROVE  StoreNext \/ UNCHANGED storeVars
  <1>1. PlainNext => StoreNext
    BY DEF PlainNext, PlainStep, StoreNext, StoreStep
  <1>2. SchedReplan => StoreNext
    BY ReplanOnStore DEF StoreNext, StoreStep
  <1> QED
    BY <1>1, <1>2, NextButReplan

(* Only a replan changes the plan of a job.                                *)
LEMMA PlanStays ==
  ASSUME Typed, [Next]_vars, NEW j \in Jobs
  PROVE  jobs'[j].plan = jobs[j].plan \/ sched = "replan"
  <1>1. CASE PlainNext
    BY <1>1, PlainKeepsPlans DEF Typed, TypeOK
  <1>2. CASE UNCHANGED storeVars \/ SchedReplan
    BY <1>2 DEF storeVars, SchedReplan
  <1> QED
    BY <1>1, <1>2, NextButReplan

-----------------------------------------------------------------------------
(* Typing.  ServerTypeOK is TypeOK without the queue.                      *)

Process == [phase : ChildPhase, lease : Nat, plan : Int, orphan : BOOLEAN,
            stray : BOOLEAN]

ServerTypeOK ==
  /\ control \in [Jobs -> {"none", "Run", "Pause", "Cancel"}]
  /\ lease \in [Jobs -> Nat]
  /\ planFile \in [Jobs -> Int] /\ receipt \in [Jobs -> Int]
  /\ published \in [Jobs -> Nat]
  /\ child \in [Proc -> Process]
  /\ active \in Proc \cup {NoProc}
  /\ sched \in SchedPC /\ cur \in Jobs \cup {NoJob} /\ held \in Nat
  /\ todo \subseteq [job : Jobs, state : JobState]
  /\ seen \in [state : JobState, receipt : BOOLEAN, exit : ChildPhase]
  /\ client \in [Clients -> [pc : ClientPC, job : Jobs \cup {NoJob}]]
  /\ daemon \in {"accept", "join", "down"}
  /\ shutdown \in BOOLEAN /\ force \in BOOLEAN
  /\ requests \in Nat /\ crashes \in Nat

(* Typing of the queue and of the rest can be shown apart.                 *)
LEMMA TypeParts == TypeOK <=> StoreTypeOK /\ ServerTypeOK
  BY DEF TypeOK, ServerTypeOK, Process

(* What a process record may become.                                       *)
LEMMA BecomeTyped ==
  ASSUME child \in [Proc -> Process], NEW p \in Proc
  PROVE  /\ \A q \in Process : Become(p, q) \in [Proc -> Process]
         /\ \A phase \in ChildPhase : Enter(p, phase) \in [Proc -> Process]
         /\ \A phase \in ChildPhase : Exited(p, phase) \in [Proc -> Process]
         /\ Killed(p) \in [Proc -> Process]
         /\ Reaped(p) \in [Proc -> Process]
  <1>1. child[p] \in Process
    OBVIOUS
  <1>2. \A q \in Process : Become(p, q) \in [Proc -> Process]
    BY DEF Become
  <1>3. \A phase \in ChildPhase : Enter(p, phase) \in [Proc -> Process]
    BY <1>1, <1>2 DEF Enter, Process
  <1>4. \A phase \in ChildPhase : Exited(p, phase) \in [Proc -> Process]
    <2> TAKE phase \in ChildPhase
    <2>1. [child[p] EXCEPT !.phase = IF child[p].orphan THEN "gone" ELSE phase,
                           !.lease = 0] \in Process
      BY <1>1 DEF Process, ChildPhase
    <2> QED
      BY <1>2, <2>1 DEF Exited
  <1>5. "failed" \in ChildPhase
    BY DEF ChildPhase, ExitPhase
  <1>6. Killed(p) \in [Proc -> Process]
    BY <1>4, <1>5 DEF Killed
  <1>7. [child[p] EXCEPT !.phase = "gone", !.lease = 0] \in Process
    BY <1>1 DEF Process, ChildPhase
  <1>8. Reaped(p) \in [Proc -> Process]
    BY <1>2, <1>7 DEF Reaped
  <1> QED
    BY <1>2, <1>3, <1>4, <1>6, <1>8

(* The attempt that never started is a process record.                     *)
LEMMA NoChildTyped == NoChild \in Process
  <1>1. "none" \in ChildPhase /\ NoFile \in Int
    BY DEF ChildPhase, NoFile
  <1> QED
    BY <1>1 DEF NoChild, Process

(* No step of a child disturbs the types or the bindings of the scheduler. *)
LEMMA ChildTyped ==
  ASSUME Typed, NEW p \in Proc, ChildStep(p) \/ ChildFail(p)
  PROVE  ServerTypeOK' /\ BindingOK'
  <1>1. ServerTypeOK /\ BindingOK
    BY TypeParts DEF Typed
  <1>2. p[1] \in Jobs /\ child[p] \in Process
    BY <1>1 DEF Proc, ServerTypeOK
  <1>3. /\ \A phase \in ChildPhase : Enter(p, phase) \in [Proc -> Process]
        /\ \A phase \in ChildPhase : Exited(p, phase) \in [Proc -> Process]
        /\ \A q \in Process : Become(p, q) \in [Proc -> Process]
    BY <1>1, BecomeTyped DEF ServerTypeOK
  <1>4. Boundary(p[1]) # "go" => Exited(p, Boundary(p[1])) \in [Proc -> Process]
    <2>1. Boundary(p[1]) \in {"go", "paused", "cancelled", "failed"}
      BY DEF Boundary
    <2> QED
      BY <1>3, <2>1 DEF ChildPhase, ExitPhase
  <1>5. /\ Exited(p, "failed") \in [Proc -> Process]
        /\ Exited(p, "succeeded") \in [Proc -> Process]
    BY <1>3 DEF ChildPhase, ExitPhase
  <1>6. /\ Enter(p, "locked") \in [Proc -> Process]
        /\ Enter(p, "cleared") \in [Proc -> Process]
        /\ Enter(p, "published") \in [Proc -> Process]
        /\ Enter(p, "receipted") \in [Proc -> Process]
    BY <1>3 DEF ChildPhase, LivePhase, LockedPhase
  <1>7. [child[p] EXCEPT !.phase = "opened", !.lease = lease[p[1]]] \in Process
    BY <1>1, <1>2 DEF ServerTypeOK, Process, ChildPhase, LivePhase
  <1>8. [child[p] EXCEPT !.phase = "working", !.plan = planFile[p[1]]] \in Process
    BY <1>1, <1>2 DEF ServerTypeOK, Process, ChildPhase, LivePhase, LockedPhase
  <1>9. child' \in [Proc -> Process]
    <2>1. CASE ChildOpen(p)
      BY <1>3, <1>5, <1>7, <2>1 DEF ChildOpen
    <2>2. CASE ChildLock(p) \/ ChildLockTimeout(p) \/ ChildSucceed(p) \/ ChildFail(p)
      BY <1>5, <1>6, <2>2 DEF ChildLock, ChildLockTimeout, ChildSucceed, ChildFail
    <2>3. CASE ChildStart(p)
      BY <1>3, <1>4, <1>5, <1>8, <2>3 DEF ChildStart
    <2>4. CASE ChildCheckpoint(p) \/ ChildFence(p)
      BY <1>4, <1>6, <2>4 DEF ChildCheckpoint, ChildFence
    <2>5. CASE ChildPublish(p) \/ ChildReceipt(p)
      BY <1>4, <1>5, <1>6, <2>5 DEF ChildPublish, ChildReceipt
    <2> QED
      BY <2>1, <2>2, <2>3, <2>4, <2>5 DEF ChildStep
  <1>10. published' \in [Jobs -> Nat]
    <2>1. published \in [Jobs -> Nat]
      BY <1>1 DEF ServerTypeOK
    <2> QED
      BY <1>2, <2>1 DEF ChildStep, ChildFail, ChildOpen, ChildLock, ChildLockTimeout,
         ChildStart, ChildCheckpoint, ChildFence, ChildPublish, ChildReceipt, ChildSucceed
  <1>11. receipt' \in [Jobs -> Int]
    <2>1. receipt \in [Jobs -> Int] /\ child[p].plan \in Int
      BY <1>1, <1>2 DEF ServerTypeOK, Process
    <2> QED
      BY <1>2, <2>1 DEF ChildStep, ChildFail, ChildOpen, ChildLock, ChildLockTimeout,
         ChildStart, ChildCheckpoint, ChildFence, ChildPublish, ChildReceipt, ChildSucceed
  <1>12. UNCHANGED childFrame
    BY DEF ChildStep, ChildFail, ChildOpen, ChildLock, ChildLockTimeout, ChildStart,
       ChildCheckpoint, ChildFence, ChildPublish, ChildReceipt, ChildSucceed, childFrame
  <1> QED
    BY <1>1, <1>9, <1>10, <1>11, <1>12 DEF ServerTypeOK, BindingOK, childFrame, storeVars, schedVars, flagVars

(* The file operations several steps share.                                *)
LEMMA FilesTyped ==
  ASSUME ServerTypeOK
  PROVE  /\ \A S : RemoveReceipts(S) => receipt' \in [Jobs -> Int]
         /\ \A j \in Jobs : RemoveFiles(j) =>
              /\ control' \in [Jobs -> {"none", "Run", "Pause", "Cancel"}]
              /\ lease' \in [Jobs -> Nat]
              /\ planFile' \in [Jobs -> Int] /\ receipt' \in [Jobs -> Int]
  BY DEF ServerTypeOK, RemoveReceipts, RemoveFiles, NoFile

(* What the scheduler notes of the store, a receipt or an exit is typed.   *)
LEMMA SeenTyped ==
  ASSUME ServerTypeOK
  PROVE  /\ NothingSeen \in [state : JobState, receipt : BOOLEAN, exit : ChildPhase]
         /\ \A j : [NothingSeen EXCEPT !.receipt = ValidReceipt(j)]
                     \in [state : JobState, receipt : BOOLEAN, exit : ChildPhase]
         /\ \A j : [seen EXCEPT !.receipt = ValidReceipt(j)]
                     \in [state : JobState, receipt : BOOLEAN, exit : ChildPhase]
         /\ \A s \in JobState : [seen EXCEPT !.state = s]
                     \in [state : JobState, receipt : BOOLEAN, exit : ChildPhase]
         /\ \A e \in ChildPhase : [seen EXCEPT !.exit = e]
                     \in [state : JobState, receipt : BOOLEAN, exit : ChildPhase]
  <1>1. \A j : ValidReceipt(j) \in BOOLEAN
    BY DEF ValidReceipt
  <1> QED
    BY <1>1 DEF ServerTypeOK, NothingSeen, JobState, ChildPhase

(* The daemon's recovery of the jobs an earlier daemon left behind.        *)
LEMMA RecoveryTyped ==
  ASSUME Typed,
         \/ SchedSnapshot \/ (\E t \in todo : SchedProbe(t)) \/ SchedProbed
         \/ SchedReread \/ RecoverStep \/ SchedCleanOrphan
  PROVE  ServerTypeOK' /\ BindingOK'
  <1>1. ServerTypeOK /\ BindingOK /\ StoreTypeOK
    BY TypeParts DEF Typed
  <1>2. \A j \in Jobs : jobs[j].state \in JobState
    BY <1>1 DEF StoreTypeOK, Job
  <1> USE DEF schedFrame, fileVars, flagVars, BusyPC, SchedPC, Goto
  <1>3. CASE SchedSnapshot
    <2>1. todo' \subseteq [job : Jobs, state : JobState]
      BY <1>2, <1>3 DEF SchedSnapshot, RecoveryJobs
    <2> QED
      BY <1>1, <1>3, <2>1 DEF SchedSnapshot, ServerTypeOK, BindingOK
  <1>4. ASSUME NEW t \in todo, SchedProbe(t)
        PROVE  ServerTypeOK' /\ BindingOK'
    <2>1. t.job \in Jobs /\ todo' \subseteq [job : Jobs, state : JobState]
      BY <1>1, <1>4 DEF ServerTypeOK, SchedProbe
    <2>2. control' \in [Jobs -> {"none", "Run", "Pause", "Cancel"}]
      BY <1>1, <1>4, <2>1 DEF ServerTypeOK, SchedProbe
    <2>3. seen' \in [state : JobState, receipt : BOOLEAN, exit : ChildPhase]
      BY <1>1, <1>4, SeenTyped DEF ServerTypeOK, SchedProbe
    <2>4. /\ sched' \in SchedPC /\ cur' \in Jobs \cup {NoJob} /\ held' \in Nat
          /\ sched' \in {"orphans", "reread"} /\ (sched' = "reread" => cur' \in Jobs)
      BY <1>1, <1>4, <2>1 DEF ServerTypeOK, SchedProbe
    <2> QED
      BY <1>1, <1>4, <2>1, <2>2, <2>3, <2>4 DEF SchedProbe, ServerTypeOK, BindingOK
  <1>5. CASE SchedProbed
    BY <1>1, <1>5 DEF SchedProbed, ServerTypeOK, BindingOK
  <1>6. CASE SchedReread
    <2>1. cur \in Jobs
      BY <1>1, <1>6 DEF SchedReread, BindingOK
    <2>2. seen' \in [state : JobState, receipt : BOOLEAN, exit : ChildPhase]
      BY <1>1, <1>2, <1>6, <2>1, SeenTyped DEF SchedReread
    <2> QED
      BY <1>1, <1>6, <2>1, <2>2 DEF SchedReread, ServerTypeOK, BindingOK
  <1>7. CASE RecoverStep
    <2>1. sched = "settleOrphan" /\ cur \in Jobs
      BY <1>1, <1>7 DEF RecoverStep, RecoverCompleted, RecoverCancelled, RecoverPaused,
         RecoverRequeued, RecoverUncertain, RecoverRefused, Settling, BindingOK
    <2>2. \E S : RemoveReceipts(S)
      BY <1>7 DEF RecoverStep, RecoverCompleted, RecoverCancelled, RecoverPaused,
         RecoverRequeued, RecoverUncertain, RecoverRefused, End
    <2>3. receipt' \in [Jobs -> Int]
      BY <1>1, <2>2, FilesTyped
    <2>4. CASE RecoverRefused
      BY <1>1, <2>3, <2>4, SeenTyped DEF RecoverRefused, Die, ServerTypeOK, BindingOK
    <2>5. CASE Settled
      BY <1>1, <2>1, <2>3, <2>5 DEF Settled, ServerTypeOK, BindingOK
    <2> QED
      BY <1>7, <2>4, <2>5 DEF RecoverStep, RecoverCompleted, RecoverCancelled,
         RecoverPaused, RecoverRequeued, RecoverUncertain
  <1>8. CASE SchedCleanOrphan
    <2>1. cur \in Jobs
      BY <1>1, <1>8 DEF SchedCleanOrphan, BindingOK
    <2> QED
      BY <1>1, <1>8, <2>1, FilesTyped, SeenTyped
         DEF SchedCleanOrphan, ServerTypeOK, BindingOK
  <1> QED
    BY <1>3, <1>4, <1>5, <1>6, <1>7, <1>8

(* From the choice of a job to the process that runs it.                   *)
LEMMA LaunchTyped ==
  ASSUME Typed,
         \/ SchedGate \/ SchedDrain \/ SchedIdle \/ (\E j \in Jobs : SchedPick(j))
         \/ SchedReplan \/ SchedReplanRefused \/ SchedPlanFails
         \/ SchedLaunch \/ SchedLaunchFails \/ SchedLock
         \/ SchedReconcile \/ SchedReconcileRefused
         \/ SchedMarkRunning \/ SchedMarkRefused
         \/ SchedSpawn \/ SchedSpawnFails \/ SchedReaderFails \/ SchedRegister
  PROVE  ServerTypeOK' /\ BindingOK'
  <1>1. ServerTypeOK /\ BindingOK
    BY TypeParts DEF Typed
  <1> USE DEF schedFrame, fileVars, flagVars, BusyPC, SchedPC, Goto
  <1>2. CASE SchedGate
    <2>1. receipt' \in [Jobs -> Int]
      BY <1>1, <1>2, FilesTyped DEF SchedGate, ServerTypeOK
    <2> QED
      BY <1>1, <1>2, <2>1 DEF SchedGate, ServerTypeOK, BindingOK
  <1>3. CASE SchedIdle \/ \E j \in Jobs : SchedPick(j)
    BY <1>1, <1>3 DEF SchedIdle, SchedPick, ServerTypeOK, BindingOK
  <1>4. CASE SchedReplan \/ SchedPlanFails \/ SchedLaunchFails
    BY <1>1, <1>4 DEF SchedReplan, SchedPlanFails, SchedLaunchFails, ServerTypeOK, BindingOK
  <1>5. CASE SchedReplanRefused
    BY <1>1, <1>5, SeenTyped DEF SchedReplanRefused, Die, ServerTypeOK, BindingOK
  <1>6. CASE SchedLaunch
    <2>1. cur \in Jobs /\ jobs[cur].plan \in Int
      BY <1>1, <1>6 DEF SchedLaunch, BindingOK, Typed, TypeOK, StoreTypeOK, Job
    <2>2. \A n \in Inodes : n \in Nat
      BY BoundAssumption
    <2>3. /\ planFile' \in [Jobs -> Int] /\ lease' \in [Jobs -> Nat]
          /\ control' \in [Jobs -> {"none", "Run", "Pause", "Cancel"}]
      BY <1>1, <1>6, <2>1, <2>2 DEF SchedLaunch, ServerTypeOK
    <2> QED
      BY <1>1, <1>6, <2>1, <2>3 DEF SchedLaunch, ServerTypeOK, BindingOK
  <1>7. CASE SchedLock
    <2>1. cur \in Jobs
      BY <1>1, <1>7 DEF SchedLock, BindingOK
    <2>2. receipt' \in [Jobs -> Int]
      BY <1>1, <1>7, FilesTyped DEF SchedLock, ServerTypeOK
    <2>3. held' \in Nat /\ sched' \in {"early", "mark", "abort"}
      BY <1>1, <1>7, <2>1 DEF SchedLock, ServerTypeOK
    <2> QED
      BY <1>1, <1>7, <2>1, <2>2, <2>3 DEF SchedLock, ServerTypeOK, BindingOK
  <1>8. CASE SchedReconcile
    <2>1. cur \in Jobs /\ receipt' \in [Jobs -> Int]
      BY <1>1, <1>8, FilesTyped DEF SchedReconcile, EndTo, End, BindingOK
    <2> QED
      BY <1>1, <1>8, <2>1 DEF SchedReconcile, EndTo, ServerTypeOK, BindingOK
  <1>9. CASE SchedReconcileRefused \/ SchedMarkRefused \/ SchedSpawnFails
    BY <1>1, <1>9 DEF SchedReconcileRefused, SchedMarkRefused, SchedSpawnFails, Abort,
       ServerTypeOK, BindingOK
  <1>10. CASE SchedMarkRunning
    BY <1>1, <1>10 DEF SchedMarkRunning, ServerTypeOK, BindingOK
  <1>11. CASE SchedSpawn
    <2>1. cur \in Jobs /\ jobs[cur].attempt \in Attempts
      BY <1>1, <1>11 DEF SchedSpawn, BindingOK
    <2>2. <<cur, jobs[cur].attempt>> \in Proc
      BY <2>1 DEF Proc
    <2>3. [NoChild EXCEPT !.phase = "spawned"] \in Process
      BY NoChildTyped DEF ChildPhase, LivePhase, Process
    <2>4. child' \in [Proc -> Process]
      BY <1>1, <1>11, <2>2, <2>3, BecomeTyped DEF SchedSpawn, ServerTypeOK
    <2> QED
      BY <1>1, <1>11, <2>1, <2>4 DEF SchedSpawn, ServerTypeOK, BindingOK, storeVars
  <1>12. CASE SchedRegister
    <2>1. cur \in Jobs /\ jobs[cur].attempt \in Attempts
      BY <1>1, <1>12 DEF SchedRegister, BindingOK
    <2>2. active' \in Proc
      BY <1>12, <2>1 DEF SchedRegister, Proc
    <2>3. sched' \in {"wait", "abort"} /\ held' \in Nat
      BY <1>12 DEF SchedRegister
    <2> QED
      BY <1>1, <1>12, <2>1, <2>2, <2>3 DEF SchedRegister, ServerTypeOK, BindingOK
  <1>13. CASE SchedDrain
    BY <1>1, <1>13 DEF SchedDrain, ServerTypeOK, BindingOK, storeVars
  <1>14. CASE SchedReaderFails
    <2> DEFINE p == <<cur, jobs[cur].attempt>>
    <2>1. p \in Proc
      BY <1>1, <1>14 DEF SchedReaderFails, BindingOK, Proc
    <2>2. [child[p] EXCEPT !.orphan = TRUE, !.stray = TRUE] \in Process
      <3>1. child[p] \in Process
        BY <1>1, <2>1 DEF ServerTypeOK
      <3> HIDE DEF p
      <3> QED
        BY <3>1 DEF Process
    <2>3. child' \in [Proc -> Process]
      BY <1>1, <1>14, <2>1, <2>2, BecomeTyped DEF SchedReaderFails, ServerTypeOK
    <2>4. crashes' \in Nat
      BY <1>1, <1>14 DEF SchedReaderFails, ServerTypeOK
    <2>5. /\ sched = "register" /\ sched' = "abort" /\ held' = 0
          /\ UNCHANGED <<jobs, fileVars, published, active, cur, todo, seen, client,
                         daemon, flagVars, requests>>
      BY <1>14 DEF SchedReaderFails, storeVars
    <2> QED
      BY <1>1, <2>3, <2>4, <2>5 DEF ServerTypeOK, BindingOK
  <1> QED
    BY <1>2, <1>3, <1>4, <1>5, <1>6, <1>7, <1>8, <1>9, <1>10, <1>11, <1>12, <1>13,
       <1>14

(* From the process to the end of the job.                                 *)
LEMMA SettleTyped ==
  ASSUME Typed,
         \/ SchedTimeout \/ SchedReap \/ SchedReadState \/ SettleStep \/ SchedClean
         \/ SchedAbort \/ SchedAbandon \/ SchedGiveUp \/ SchedGiveUpRefused
  PROVE  ServerTypeOK' /\ BindingOK'
  <1>1. ServerTypeOK /\ BindingOK
    BY TypeParts DEF Typed
  <1>2. child \in [Proc -> Process]
    BY <1>1 DEF ServerTypeOK
  <1> USE DEF schedFrame, fileVars, flagVars, BusyPC, SchedPC, Goto
  <1>3. CASE SchedTimeout
    <2>1. active \in Proc /\ cur \in Jobs
      BY <1>1, <1>3 DEF SchedTimeout, BindingOK
    <2>2. child' \in [Proc -> Process]
      BY <1>2, <1>3, <2>1, BecomeTyped DEF SchedTimeout
    <2> QED
      BY <1>1, <1>3, <2>1, <2>2 DEF SchedTimeout, schedVars, ServerTypeOK, BindingOK
  <1>4. CASE SchedReap
    <2>1. active \in Proc /\ cur \in Jobs /\ child[active].phase \in ChildPhase
      BY <1>1, <1>2, <1>4 DEF SchedReap, BindingOK, Process
    <2>2. child' \in [Proc -> Process]
      BY <1>2, <1>4, <2>1, BecomeTyped DEF SchedReap
    <2>3. seen' \in [state : JobState, receipt : BOOLEAN, exit : ChildPhase]
      BY <1>1, <1>4, <2>1, SeenTyped DEF SchedReap
    <2> QED
      BY <1>1, <1>4, <2>1, <2>2, <2>3 DEF SchedReap, ServerTypeOK, BindingOK
  <1>5. CASE SchedReadState
    <2>1. cur \in Jobs
      BY <1>1, <1>5 DEF SchedReadState, BindingOK
    <2>2. jobs[cur].state \in JobState
      BY <2>1 DEF Typed, TypeOK, StoreTypeOK, Job
    <2>3. seen' \in [state : JobState, receipt : BOOLEAN, exit : ChildPhase]
      BY <1>1, <1>5, <2>2, SeenTyped DEF SchedReadState
    <2> QED
      BY <1>1, <1>5, <2>1, <2>3 DEF SchedReadState, ServerTypeOK, BindingOK
  <1>6. ASSUME NEW outcome, EndTo(outcome), sched \in BusyPC
        PROVE  ServerTypeOK' /\ BindingOK'
    <2>1. cur \in Jobs /\ receipt' \in [Jobs -> Int]
      BY <1>1, <1>6, FilesTyped DEF EndTo, End, BindingOK
    <2> QED
      BY <1>1, <1>6, <2>1 DEF EndTo, ServerTypeOK, BindingOK
  <1>7. CASE SettleStep
    <2>1. sched = "settle" /\ cur \in Jobs
      BY <1>1, <1>7 DEF SettleStep, SettleCompleted, SettlePaused, SettleCancelled,
         SettleFailed, SettleRefused, BindingOK
    <2>2. CASE SettlePaused \/ SettleRefused
      BY <1>1, <2>1, <2>2 DEF SettlePaused, SettleRefused, Abort, ServerTypeOK, BindingOK
    <2> QED
      BY <1>6, <1>7, <2>1, <2>2 DEF SettleStep, SettleCompleted, SettleCancelled, SettleFailed
  <1>8. CASE SchedClean
    <2>1. cur \in Jobs
      BY <1>1, <1>8 DEF SchedClean, BindingOK
    <2> QED
      BY <1>1, <1>8, <2>1, FilesTyped, SeenTyped DEF SchedClean, ServerTypeOK, BindingOK
  <1>9. CASE SchedAbort
    <2>1. cur \in Jobs
      BY <1>1, <1>9 DEF SchedAbort, BindingOK
    <2>2. child' \in [Proc -> Process]
      BY <1>1, <1>2, <1>9, BecomeTyped DEF SchedAbort, ServerTypeOK
    <2>3. /\ control' \in [Jobs -> {"none", "Run", "Pause", "Cancel"}]
          /\ active' \in Proc \cup {NoProc}
      BY <1>1, <1>9, <2>1 DEF SchedAbort, ServerTypeOK
    <2> QED
      BY <1>1, <1>9, <2>1, <2>2, <2>3 DEF SchedAbort, ServerTypeOK, BindingOK
  <1>10. CASE SchedAbandon \/ SchedGiveUpRefused
    <2>1. cur \in Jobs
      BY <1>1, <1>10 DEF SchedAbandon, SchedGiveUpRefused, BindingOK
    <2>2. seen' \in [state : JobState, receipt : BOOLEAN, exit : ChildPhase]
      BY <1>1, <1>10, SeenTyped DEF SchedAbandon, SchedGiveUpRefused, Die
    <2> QED
      BY <1>1, <1>10, <2>1, <2>2
         DEF SchedAbandon, SchedGiveUpRefused, Die, ServerTypeOK, BindingOK
  <1>11. CASE SchedGiveUp
    BY <1>6, <1>11 DEF SchedGiveUp
  <1> QED
    BY <1>3, <1>4, <1>5, <1>7, <1>8, <1>9, <1>10, <1>11

(* A request never counts as an attempt.                                   *)
LEMMA ClientKeepsAttempts ==
  ASSUME Typed, NEW c \in Clients, ClientRequest(c) \/ ClientStep(c), NEW k \in Jobs
  PROVE  jobs'[k].attempt = jobs[k].attempt
  <1>0. jobs \in [Jobs -> Job] /\ jobs[k] \in Job
    BY DEF Typed, TypeOK, StoreTypeOK
  <1>1. ASSUME NEW j \in Jobs,
               \/ ClientSubmit(c, j) \/ ClientResume(c, j)
               \/ ClientPause(c, j) \/ ClientCancel(c, j)
        PROVE  jobs'[k].attempt = jobs[k].attempt
    <2>1. CASE j # k
      BY <1>0, <1>1, <2>1 DEF ClientSubmit, ClientResume, ClientPause, ClientCancel,
         InsertJob, Resume, RequestPause, RequestCancel, Put
    <2>2. CASE j = k
      BY <1>0, <1>1, <2>2 DEF ClientSubmit, ClientResume, ClientPause, ClientCancel,
         InsertJob, Resume, RequestPause, RequestCancel, Put, Job
    <2> QED
      BY <2>1, <2>2
  <1>2. CASE ClientFinish(c)
    <2>1. CASE UNCHANGED storeVars
      BY <2>1 DEF storeVars
    <2>2. CASE Put(client[c].job, [jobs[client[c].job] EXCEPT !.state = "Cancelled",
                                                              !.pid = FALSE])
      <3>1. CASE client[c].job = k
        <4>1. jobs'[k] = [jobs[k] EXCEPT !.state = "Cancelled", !.pid = FALSE]
          BY <1>0, <2>2, <3>1 DEF Put
        <4> QED
          BY <1>0, <4>1 DEF Job
      <3>2. CASE client[c].job # k
        BY <1>0, <2>2, <3>2 DEF Put
      <3> QED
        BY <3>1, <3>2
    <2> QED
      BY <1>2, <2>1, <2>2 DEF ClientFinish, End, Terminalize
  <1>3. CASE ClientShutdown(c) \/ ClientStop(c) \/ ClientSignal(c) \/ ClientKill(c)
    BY <1>3 DEF ClientShutdown, ClientStop, ClientSignal, ClientKill, storeVars
  <1> QED
    BY <1>1, <1>2, <1>3 DEF ClientRequest, ClientStep

(* Request threads.                                                        *)
LEMMA ClientTyped ==
  ASSUME Typed, NEW c \in Clients, ClientRequest(c) \/ ClientStep(c)
  PROVE  ServerTypeOK' /\ BindingOK'
  <1>1. ServerTypeOK /\ BindingOK
    BY TypeParts DEF Typed
  <1> USE DEF fileVars, flagVars, schedVars, requestFrame, clientFrame, Accept
  <1>2. /\ \A pc \in ClientPC : \A j \in Jobs :
              At(c, pc, j) => client' \in [Clients -> [pc : ClientPC, job : Jobs \cup {NoJob}]]
        /\ \A pc \in ClientPC :
              At(c, pc, NoJob) => client' \in [Clients -> [pc : ClientPC, job : Jobs \cup {NoJob}]]
        /\ Done(c) => client' \in [Clients -> [pc : ClientPC, job : Jobs \cup {NoJob}]]
    BY <1>1 DEF At, Done, Idle, ClientPC, ServerTypeOK
  <1>3. /\ \A pc : \A j \in Jobs : At(c, pc, j) =>
              \A d \in Clients : client'[d].pc \in ControlPC => client'[d].job \in Jobs
        /\ \A pc : pc \notin ControlPC /\ At(c, pc, NoJob) =>
              \A d \in Clients : client'[d].pc \in ControlPC => client'[d].job \in Jobs
        /\ Done(c) =>
              \A d \in Clients : client'[d].pc \in ControlPC => client'[d].job \in Jobs
    BY <1>1 DEF At, Done, Idle, ControlPC, ServerTypeOK, BindingOK
  <1>4. client' \in [Clients -> [pc : ClientPC, job : Jobs \cup {NoJob}]]
    <2>0. client[c].pc \in ControlPC => client[c].job \in Jobs
      BY <1>1 DEF BindingOK
    <2>1. CASE ClientRequest(c)
      <3> USE DEF ClientPC
      <3>1. ASSUME NEW j \in Jobs, ClientPause(c, j) \/ ClientCancel(c, j)
            PROVE  client' \in [Clients -> [pc : ClientPC, job : Jobs \cup {NoJob}]]
        BY <1>1, <1>2, <3>1 DEF ClientPause, ClientCancel, ServerTypeOK
      <3>2. ASSUME NEW j \in Jobs, ClientSubmit(c, j) \/ ClientResume(c, j)
            PROVE  client' \in [Clients -> [pc : ClientPC, job : Jobs \cup {NoJob}]]
        BY <1>1, <3>2 DEF ClientSubmit, ClientResume, ServerTypeOK
      <3>3. CASE ClientShutdown(c)
        BY <1>2, <3>3 DEF ClientShutdown
      <3> QED
        BY <2>1, <3>1, <3>2, <3>3 DEF ClientRequest
    <2>2. CASE ClientStep(c)
      BY <1>2, <2>0, <2>2 DEF ClientStep, ClientStop, ClientSignal, ClientKill,
         ClientFinish, ClientPC, ControlPC
    <2> QED
      BY <2>1, <2>2
  <1>5. \A d \in Clients : client'[d].pc \in ControlPC => client'[d].job \in Jobs
    <2>0. client[c].pc \in ControlPC => client[c].job \in Jobs
      BY <1>1 DEF BindingOK
    <2>1. CASE ClientRequest(c)
      <3>1. ASSUME NEW j \in Jobs,
                   \/ ClientPause(c, j) \/ ClientCancel(c, j)
                   \/ ClientSubmit(c, j) \/ ClientResume(c, j)
            PROVE  \A d \in Clients : client'[d].pc \in ControlPC => client'[d].job \in Jobs
        BY <1>1, <1>3, <3>1 DEF ClientPause, ClientCancel, ClientSubmit, ClientResume, BindingOK
      <3>2. CASE ClientShutdown(c)
        BY <1>3, <3>2 DEF ClientShutdown, ControlPC
      <3> QED
        BY <2>1, <3>1, <3>2 DEF ClientRequest
    <2>2. CASE ClientStep(c)
      BY <1>3, <2>0, <2>2 DEF ClientStep, ClientStop, ClientSignal, ClientKill,
         ClientFinish, ControlPC
    <2> QED
      BY <2>1, <2>2
  <1>6. UNCHANGED <<lease, planFile, published, active, schedVars, daemon, crashes>>
    BY DEF ClientRequest, ClientSubmit, ClientResume, ClientPause, ClientCancel,
       ClientShutdown, ClientStep, ClientStop, ClientSignal, ClientKill, ClientFinish
  <1>7. shutdown' \in BOOLEAN /\ force' \in BOOLEAN
    BY <1>1 DEF ClientRequest, ClientSubmit, ClientResume, ClientPause, ClientCancel,
       ClientShutdown, ClientStep, ClientStop, ClientSignal, ClientKill, ClientFinish,
       ServerTypeOK
  <1>8. CASE ClientRequest(c)
    <2>0. requests' \in Nat
      BY <1>1, <1>8 DEF ClientRequest, ClientSubmit, ClientResume, ClientPause,
         ClientCancel, ClientShutdown, ServerTypeOK
    <2>1. UNCHANGED <<control, receipt, child>>
      BY <1>8 DEF ClientRequest, ClientSubmit, ClientResume, ClientPause, ClientCancel,
         ClientShutdown
    <2> QED
      BY <1>1, <1>4, <1>5, <1>6, <1>7, <2>0, <2>1, ClientKeepsAttempts DEF ServerTypeOK, BindingOK, BusyPC
  <1>9. CASE ClientStep(c)
    <2>0. client[c].pc \in ControlPC => client[c].job \in Jobs
      BY <1>1 DEF BindingOK
    <2>1. control' \in [Jobs -> {"none", "Run", "Pause", "Cancel"}]
      BY <1>1, <1>9, <2>0 DEF ClientStep, ClientStop, ClientSignal, ClientKill,
         ClientFinish, ServerTypeOK, ControlPC
    <2>2. receipt' \in [Jobs -> Int]
      <3>1. (\E S : RemoveReceipts(S)) \/ receipt' = receipt
        BY <1>9 DEF ClientStep, ClientStop, ClientSignal, ClientKill, ClientFinish, End
      <3> QED
        BY <1>1, <3>1, FilesTyped DEF ServerTypeOK
    <2>3. child' \in [Proc -> Process]
      <3>1. CASE ClientKill(c)
        <4>1. client[c].job \in Jobs
          BY <2>0, <3>1 DEF ClientKill, ControlPC
        <4>2. active[1] = client[c].job => active \in Proc
          BY <1>1, <4>1, NoJobAssumption DEF ServerTypeOK, NoProc
        <4> QED
          BY <1>1, <3>1, <4>2, BecomeTyped DEF ClientKill, ServerTypeOK
      <3>2. CASE ClientStop(c) \/ ClientSignal(c) \/ ClientFinish(c)
        BY <1>1, <3>2 DEF ClientStop, ClientSignal, ClientFinish, ServerTypeOK
      <3> QED
        BY <1>9, <3>1, <3>2 DEF ClientStep
    <2>4. requests' = requests
      BY <1>9 DEF ClientStep, ClientStop, ClientSignal, ClientKill, ClientFinish
    <2> QED
      BY <1>1, <1>4, <1>5, <1>6, <1>7, <2>1, <2>2, <2>3, <2>4, ClientKeepsAttempts
         DEF ServerTypeOK, BindingOK, BusyPC
  <1> QED
    BY <1>8, <1>9

(* The main thread, a crash and a start.                                   *)
LEMMA MainTyped ==
  ASSUME Typed, MainStop \/ MainExit \/ Crash \/ Start
  PROVE  ServerTypeOK' /\ BindingOK'
  <1>1. ServerTypeOK /\ BindingOK
    BY TypeParts DEF Typed
  <1> USE DEF fileVars, flagVars, schedVars, storeVars, BusyPC, SchedPC
  <1>2. CASE MainStop
    <2>1. active \in Proc => active[1] \in Jobs
      BY DEF Proc
    <2>2. child' \in [Proc -> Process]
      BY <1>1, <1>2, BecomeTyped DEF MainStop, ServerTypeOK
    <2>3. control' \in [Jobs -> {"none", "Run", "Pause", "Cancel"}]
      BY <1>1, <1>2, <2>1 DEF MainStop, ServerTypeOK
    <2> QED
      BY <1>1, <1>2, <2>2, <2>3 DEF MainStop, ServerTypeOK, BindingOK
  <1>3. CASE Stopping /\ child' \in [Proc -> Process] /\ crashes' \in Nat
    <2>1. client' \in [Clients -> [pc : ClientPC, job : Jobs \cup {NoJob}]]
      BY <1>3 DEF Stopping, Idle, ClientPC
    <2>2. \A c \in Clients : client'[c].pc \notin ControlPC
      BY <1>3 DEF Stopping, Idle, ControlPC
    <2> QED
      BY <1>1, <1>3, <2>1, <2>2, SeenTyped DEF Stopping, ServerTypeOK, BindingOK
  <1>4. CASE MainExit
    BY <1>1, <1>3, <1>4 DEF MainExit, ServerTypeOK
  <1>5. CASE Crash
    <2>1. ASSUME NEW p \in Proc
          PROVE  /\ child[p] \in Process
                 /\ [child[p] EXCEPT !.orphan = TRUE, !.stray = FALSE] \in Process
                 /\ [child[p] EXCEPT !.phase = "gone"] \in Process
      <3>1. child[p] \in Process /\ "gone" \in ChildPhase
        BY <1>1 DEF ServerTypeOK, ChildPhase
      <3> QED
        BY <3>1 DEF Process
    <2>2. child' \in [Proc -> Process]
      BY <1>1, <1>5, <2>1 DEF Crash, ServerTypeOK
    <2>3. Stopping /\ crashes' = crashes + 1
      BY <1>5, Zenon DEF Crash
    <2>4. crashes' \in Nat
      BY <1>1, <2>3 DEF ServerTypeOK
    <2> QED
      BY <1>3, <2>2, <2>3, <2>4
  <1>6. CASE Start
    <2>1. receipt' \in [Jobs -> Int]
      BY <1>1, <1>6, FilesTyped DEF Start
    <2>2. ASSUME NEW p \in Proc
          PROVE  [child[p] EXCEPT !.orphan = @ /\ Alive(p)] \in Process
      <3>1. child[p] \in Process
        BY <1>1 DEF ServerTypeOK
      <3>2. (child[p].orphan /\ Alive(p)) \in BOOLEAN
        OBVIOUS
      <3> QED
        BY <3>1, <3>2 DEF Process
    <2>3. child' \in [Proc -> Process]
      BY <1>6, <2>2 DEF Start
    <2> QED
      BY <1>1, <1>6, <2>1, <2>3 DEF Start, ServerTypeOK, BindingOK
  <1> QED
    BY <1>2, <1>4, <1>5, <1>6

(* The first daemon of an empty state directory is typed.                  *)
LEMMA InitTyped == Init => Typed
  <1> SUFFICES ASSUME Init PROVE Typed
    OBVIOUS
  <1>1. StoreTypeOK
    BY EmptySeq DEF Init, StoreInit, StoreTypeOK, Job, JobState
  <1>2. /\ client \in [Clients -> [pc : ClientPC, job : Jobs \cup {NoJob}]]
        /\ \A c \in Clients : client[c].pc \notin ControlPC
    BY DEF Init, Idle, ClientPC, ControlPC
  <1>3. child \in [Proc -> Process]
    BY NoChildTyped DEF Init
  <1>4. seen \in [state : JobState, receipt : BOOLEAN, exit : ChildPhase]
    BY DEF Init, NothingSeen, JobState, ChildPhase
  <1>5. /\ control \in [Jobs -> {"none", "Run", "Pause", "Cancel"}]
        /\ lease \in [Jobs -> Nat] /\ published \in [Jobs -> Nat]
        /\ planFile \in [Jobs -> Int] /\ receipt \in [Jobs -> Int]
    BY DEF Init, NoFile
  <1>6. ServerTypeOK
    BY <1>2, <1>3, <1>4, <1>5 DEF Init, ServerTypeOK, SchedPC
  <1> QED
    BY <1>1, <1>2, <1>6, TypeParts DEF Init, Typed, BindingOK, BusyPC

(* Every step of the server keeps the types and the bindings.              *)
LEMMA TypedStep == Typed /\ [Next]_vars => Typed'
  <1> SUFFICES ASSUME Typed, [Next]_vars PROVE Typed'
    OBVIOUS
  <1>1. StoreTypeOK'
    <2>1. CASE StoreNext
      BY <2>1, StoreTyped DEF Typed, TypeOK
    <2>2. CASE UNCHANGED storeVars
      BY <2>2 DEF Typed, TypeOK, StoreTypeOK, storeVars
    <2> QED
      BY <2>1, <2>2, NextOnStore
  <1>2. ServerTypeOK' /\ BindingOK'
    <2>1. CASE SchedStep \/ SchedFailure
      BY <2>1, RecoveryTyped, LaunchTyped, SettleTyped DEF SchedStep, SchedFailure
    <2>2. CASE \E c \in Clients : ClientRequest(c) \/ ClientStep(c)
      BY <2>2, ClientTyped
    <2>3. CASE \E p \in Proc : ChildStep(p) \/ ChildFail(p)
      BY <2>3, ChildTyped
    <2>4. CASE MainStop \/ MainExit \/ Crash \/ Start
      BY <2>4, MainTyped
    <2>5. CASE UNCHANGED vars
      BY <2>5, TypeParts DEF vars, storeVars, fileVars, schedVars, flagVars, Typed,
         ServerTypeOK, BindingOK
    <2> QED
      BY <2>1, <2>2, <2>3, <2>4, <2>5 DEF Next
  <1> QED
    BY <1>1, <1>2, TypeParts DEF Typed, TypeOK, ServerTypeOK, Process

(* Every variable keeps its type, whatever the threads of run_ipc_server,  *)
(* the children and the crashes of daemons do; and whatever a thread is    *)
(* about to use (the job at hand, the registered child) exists.            *)
THEOREM TypeCorrect == Spec => []TypeOK /\ []BindingOK
  BY InitTyped, TypedStep, PTL DEF Spec, Typed
=============================================================================
