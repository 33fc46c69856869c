------------------------------ MODULE IpcServer ------------------------------
(***************************************************************************)
(* The denoize IPC job server (src/src/ipc/server.rs) around the durable   *)
(* queue of IpcJobStore: the accept loop of the main thread, one thread    *)
(* per client request, the scheduler thread, the child process that runs a *)
(* job (src/src/ipc/control.rs and the commits of src/src/main.rs), the    *)
(* per-job files they share, and a daemon that may be killed at any point  *)
(* and started again while a child it had spawned lives on.                *)
(*                                                                         *)
(* One action is what a thread does between two points where another       *)
(* thread or process can see or change something it uses: a lock that is   *)
(* released, a file that is written or read.                               *)
(***************************************************************************)
EXTENDS IpcJobStore

CONSTANTS NoJob,        \* stands for no job where the code has None
          Clients,      \* concurrent client connections
          MaxRequests,  \* bound: requests accepted in a behaviour
          MaxCrashes,   \* bound: daemons that die and children one loses
          Attempts,     \* bound: numbers of the attempts of a job
          Inodes,       \* bound: inodes a lease path can name
          MayFail       \* TRUE: planning, spawning and launching may fail

ASSUME BoundAssumption == /\ MaxRequests \in Nat /\ MaxCrashes \in Nat
                          /\ MayFail \in BOOLEAN
                          /\ Attempts \subseteq Nat \ {0} /\ 1 \in Attempts
                          /\ Inodes \subseteq Nat \ {0}
ASSUME NoJobAssumption == NoJob \notin Jobs

VARIABLES
  control,   \* <job>.control.json: an action, or "none" when there is no file
  lease,     \* <job>.lease: the inode the path names, 0 when there is none
  planFile,  \* <job>.plan.json: a plan revision, or -1 when there is none
  receipt,   \* <job>.receipt.json: the revision it is signed for, -1: none
  published, \* how often the output of the job was renamed into place
  child,     \* the process of each attempt of each job
  active,    \* runtime.active: the attempt of the registered child
  sched,     \* control state of the scheduler thread
  cur,       \* the job the scheduler handles
  todo,      \* recover_orphaned_jobs: jobs of the snapshot, with their states
  held,      \* inode of the lease of cur the scheduler has locked, or 0
  seen,      \* what the scheduler last read: of the store, and of the child
  client,    \* request threads
  daemon,    \* main thread
  shutdown, force,   \* the two shutdown flags
  requests, crashes  \* counters for the bounds

fileVars == <<control, lease, planFile, receipt>>
schedVars == <<sched, cur, todo, held, seen>>
flagVars == <<shutdown, force>>
vars == <<storeVars, fileVars, published, child, active, schedVars, client,
          daemon, flagVars, requests, crashes>>

NoFile == -1
NoProc == <<NoJob, 0>>
Proc == Jobs \X Attempts

-----------------------------------------------------------------------------
(* Children.  A child opens the lease file, waits for its lock, checks the *)
(* control file, works, passes the publication fence, renames its output   *)
(* into place, passes the fence again and renames its signed receipt.      *)

ExitPhase == {"succeeded", "paused", "cancelled", "failed"}
LockedPhase == {"locked", "working", "cleared", "published", "receipted"}
LivePhase == {"spawned", "opened"} \cup LockedPhase
ChildPhase == {"none", "gone"} \cup LivePhase \cup ExitPhase

NoChild == [phase |-> "none", lease |-> 0, plan |-> NoFile, orphan |-> FALSE,
            stray |-> FALSE]

Alive(p) == child[p].phase \in LivePhase
ChildrenOf(j) == {p \in Proc : p[1] = j}

(* flock on an inode of job j: the scheduler or one child holds it.        *)
LeaseFree(j, n) ==
  /\ ~(cur = j /\ held = n)
  /\ \A p \in ChildrenOf(j) :
       ~(child[p].lease = n /\ child[p].phase \in LockedPhase)

(* A rename puts a new inode at the path; the least unused one stands for  *)
(* it.                                                                     *)
Unused(j, n) ==
  n # lease[j] /\ \A p \in ChildrenOf(j) : Alive(p) => child[p].lease # n

FreshInode(j, n) == Unused(j, n) /\ \A m \in Inodes : m < n => ~Unused(j, m)

Become(p, process) == [child EXCEPT ![p] = process]
Enter(p, phase) == Become(p, [child[p] EXCEPT !.phase = phase])

(* An exit status waits for the daemon that spawned the child; nobody      *)
(* reaps an orphan, whose daemon has died or has dropped it.               *)
Exited(p, phase) ==
  Become(p, [child[p] EXCEPT !.phase = IF child[p].orphan THEN "gone" ELSE phase,
                             !.lease = 0])

(* kill(SIGKILL) of a child, which changes nothing once it has exited.     *)
Killed(p) == IF Alive(p) THEN Exited(p, "failed") ELSE child

(* wait() of a child that is dead or has just been killed.                 *)
Reaped(p) == Become(p, [child[p] EXCEPT !.phase = "gone", !.lease = 0])

(* check_control_path: what the child does about the control file.         *)
Boundary(j) == CASE control[j] = "Run" -> "go"
                 [] control[j] = "Pause" -> "paused"
                 [] control[j] = "Cancel" -> "cancelled"
                 [] OTHER -> "failed"

childFrame == <<storeVars, control, lease, planFile, active, schedVars, client,
                daemon, flagVars, requests, crashes>>

(* install_process_control: open the lease file...                         *)
ChildOpen(p) ==
  /\ child[p].phase = "spawned"
  /\ child' = IF lease[p[1]] = 0 THEN Exited(p, "failed")
              ELSE Become(p, [child[p] EXCEPT !.phase = "opened", !.lease = lease[p[1]]])
  /\ UNCHANGED <<childFrame, receipt, published>>

(* ...and poll for its lock; the loop gives up after five seconds.         *)
ChildLock(p) ==
  /\ child[p].phase = "opened"
  /\ LeaseFree(p[1], child[p].lease)
  /\ child' = Enter(p, "locked")
  /\ UNCHANGED <<childFrame, receipt, published>>

ChildLockTimeout(p) ==
  /\ child[p].phase = "opened"
  /\ ~LeaseFree(p[1], child[p].lease)
  /\ child' = Exited(p, "failed")
  /\ UNCHANGED <<childFrame, receipt, published>>

(* The control check at start, then the load of the plan file and the      *)
(* preflight, which refuses a receipt path that is taken.                  *)
ChildStart(p) ==
  LET j == p[1] IN
  /\ child[p].phase = "locked"
  /\ child' = IF Boundary(j) # "go" THEN Exited(p, Boundary(j))
              ELSE IF planFile[j] = NoFile \/ receipt[j] # NoFile THEN Exited(p, "failed")
              ELSE Become(p, [child[p] EXCEPT !.phase = "working", !.plan = planFile[j]])
  /\ UNCHANGED <<childFrame, receipt, published>>

(* A batch or stream child checks at every checkpoint and leaves there;    *)
(* any child checks at the fence of its commit.                            *)
ChildCheckpoint(p) ==
  LET j == p[1] IN
  /\ child[p].phase = "working" /\ j \in Resumable
  /\ Boundary(j) # "go"
  /\ child' = Exited(p, Boundary(j))
  /\ UNCHANGED <<childFrame, receipt, published>>

ChildFence(p) ==
  LET j == p[1] IN
  /\ child[p].phase = "working"
  /\ child' = IF Boundary(j) # "go" THEN Exited(p, Boundary(j))
              ELSE Enter(p, "cleared")
  /\ UNCHANGED <<childFrame, receipt, published>>

(* The output is renamed into place; a batch or stream job that is run     *)
(* again may find that an earlier run did so, and skip it.                 *)
ChildPublish(p) ==
  LET j == p[1] IN
  /\ child[p].phase = "cleared"
  /\ child' = Enter(p, "published")
  /\ \/ published' = [published EXCEPT ![j] = @ + 1]
     \/ j \in Resumable /\ published[j] > 0 /\ UNCHANGED published
  /\ UNCHANGED <<childFrame, receipt>>

(* The commit of the receipt passes the same fence and never replaces a    *)
(* receipt that is already there.                                          *)
ChildReceipt(p) ==
  LET j == p[1] IN
  /\ child[p].phase = "published"
  /\ IF Boundary(j) # "go"
     THEN child' = Exited(p, Boundary(j)) /\ UNCHANGED receipt
     ELSE IF receipt[j] # NoFile
     THEN child' = Exited(p, "failed") /\ UNCHANGED receipt
     ELSE /\ child' = Enter(p, "receipted")
          /\ receipt' = [receipt EXCEPT ![j] = child[p].plan]
  /\ UNCHANGED <<childFrame, published>>

ChildSucceed(p) ==
  /\ child[p].phase = "receipted"
  /\ child' = Exited(p, "succeeded")
  /\ UNCHANGED <<childFrame, receipt, published>>

(* A child may fail by itself anywhere.                                    *)
ChildFail(p) ==
  /\ MayFail /\ Alive(p)
  /\ child' = Exited(p, "failed")
  /\ UNCHANGED <<childFrame, receipt, published>>

ChildStep(p) == \/ ChildOpen(p) \/ ChildLock(p) \/ ChildLockTimeout(p)
                \/ ChildStart(p) \/ ChildCheckpoint(p) \/ ChildFence(p)
                \/ ChildPublish(p) \/ ChildReceipt(p) \/ ChildSucceed(p)

-----------------------------------------------------------------------------
(* The scheduler thread.  sched is where it is, cur the job at hand; an    *)
(* error that ? propagates out of scheduler_loop ends the thread ("dead"). *)

schedFrame == <<client, daemon, flagVars, requests, crashes>>

NothingSeen == [state |-> "Unsubmitted", receipt |-> FALSE, exit |-> "none"]

Goto(pc) == sched' = pc
Die == /\ Goto("dead") /\ cur' = NoJob /\ todo' = {} /\ held' = 0
       /\ seen' = NothingSeen

(* Mutant: a receipt that is missing is taken for a valid one.             *)
MissingReceiptIsValid(j) == receipt[j] = NoFile \/ receipt[j] = jobs[j].plan

ValidReceipt(j) == receipt[j] # NoFile /\ receipt[j] = jobs[j].plan

RemoveReceipts(S) ==
  receipt' = [j \in Jobs |-> IF j \in S THEN NoFile ELSE receipt[j]]

(* terminalize also deletes the receipts of the entries it expires; the    *)
(* caller may have deleted the receipt of j itself just before.            *)
End(j, outcome, deleted) ==
  /\ Terminalize(j, outcome)
  /\ RemoveReceipts(Expired(Append(history, j)) \cup deleted)

(* recover_orphaned_jobs: the snapshot of the jobs to look at.             *)
SchedSnapshot ==
  /\ sched = "top"
  /\ todo' = {[job |-> j, state |-> jobs[j].state] : j \in RecoveryJobs}
  /\ Goto("orphans")
  /\ UNCHANGED <<storeVars, fileVars, published, child, active, cur, held, seen,
                 schedFrame>>

(* recover_orphaned_job up to the receipt: the request of the snapshot is  *)
(* written again, then the lease is tried.                                 *)
SchedProbe(t) ==
  LET j == t.job IN
  /\ sched = "orphans" /\ t \in todo
  /\ control' = [control EXCEPT ![j] = CASE t.state = "PauseRequested" -> "Pause"
                                        [] t.state = "CancelRequested" -> "Cancel"
                                        [] OTHER -> @]
  /\ todo' = todo \ {t}
  /\ IF lease[j] # 0 /\ ~LeaseFree(j, lease[j])
     THEN UNCHANGED <<sched, cur, held, seen>>
     ELSE /\ Goto("reread") /\ cur' = j /\ held' = lease[j]
          /\ seen' = [seen EXCEPT !.receipt = ValidReceipt(j)]
  /\ UNCHANGED <<storeVars, lease, planFile, receipt, published, child, active,
                 schedFrame>>

SchedProbed ==
  /\ sched = "orphans" /\ todo = {}
  /\ Goto("gate")
  /\ UNCHANGED <<storeVars, fileVars, published, child, active, cur, todo, held,
                 seen, schedFrame>>

SchedReread ==
  /\ sched = "reread"
  /\ IF Live(cur)
     THEN /\ Goto("settleOrphan") /\ seen' = [seen EXCEPT !.state = jobs[cur].state]
          /\ UNCHANGED <<cur, held>>
     ELSE Goto("orphans") /\ held' = 0 /\ cur' = NoJob /\ seen' = NothingSeen
  /\ UNCHANGED <<storeVars, fileVars, published, child, active, todo, schedFrame>>

(* Mutant: the state decides before the receipt does.                      *)
SettlingWithReceipt(state) == sched = "settleOrphan" /\ seen.state = state

(* The decision of recover_orphaned_job from what was read; the store is   *)
(* locked again to carry it out.  An invalid receipt is deleted first.  On *)
(* success the lease is dropped and the files of the job are next.         *)
Settling(state) == sched = "settleOrphan" /\ ~seen.receipt /\ seen.state = state

Settled == /\ Goto("cleanOrphan") /\ held' = 0
           /\ UNCHANGED <<control, lease, planFile, published, child, active, cur,
                          todo, seen, schedFrame>>

RecoverCompleted ==
  sched = "settleOrphan" /\ seen.receipt /\ End(cur, "Completed", {}) /\ Settled

RecoverCancelled ==
  Settling("CancelRequested") /\ End(cur, "Cancelled", {cur}) /\ Settled

RecoverPaused ==
  Settling("PauseRequested") /\ MarkPaused(cur) /\ RemoveReceipts({cur}) /\ Settled

RecoverRequeued ==
  /\ Settling("Recovering") /\ cur \in Resumable
  /\ RequeueRecovered(cur) /\ RemoveReceipts({cur}) /\ Settled

RecoverUncertain ==
  /\ Settling("Recovering") /\ cur \notin Resumable
  /\ End(cur, "Failed", {cur}) /\ Settled

(* A request thread changed the job since it was read: the store refuses,  *)
(* and the error leaves scheduler_loop.                                    *)
RecoverRefused ==
  /\ sched = "settleOrphan"
  /\ \/ (seen.receipt \/ seen.state = "CancelRequested") /\ ~Live(cur)
     \/ Settling("PauseRequested") /\ ~MayMarkPaused(cur)
     \/ Settling("Recovering") /\ cur \in Resumable /\ ~MayRequeue(cur)
     \/ Settling("Recovering") /\ cur \notin Resumable /\ ~Live(cur)
  /\ RemoveReceipts(IF seen.receipt THEN {} ELSE {cur})
  /\ Die
  /\ UNCHANGED <<storeVars, control, lease, planFile, published, child, active,
                 schedFrame>>

RemoveFiles(j) == /\ control' = [control EXCEPT ![j] = "none"]
                  /\ lease' = [lease EXCEPT ![j] = 0]
                  /\ planFile' = [planFile EXCEPT ![j] = NoFile]
                  /\ UNCHANGED receipt

(* cleanup_job_control_files at the end of recover_orphaned_job.           *)
SchedCleanOrphan ==
  /\ sched = "cleanOrphan"
  /\ RemoveFiles(cur)
  /\ Goto("orphans") /\ cur' = NoJob /\ seen' = NothingSeen
  /\ UNCHANGED <<storeVars, published, child, active, todo, held, schedFrame>>

(* The shutdown branch of scheduler_loop: a forced shutdown cancels what   *)
(* waits...                                                                *)
SchedGate ==
  /\ sched = "gate"
  /\ IF shutdown /\ force
     THEN /\ CancelWaitingJobs
          /\ RemoveReceipts((Retained \cup Waiting) \ Retained')
     ELSE UNCHANGED <<storeVars, receipt>>
  /\ Goto(IF shutdown THEN "drain" ELSE "pick")
  /\ UNCHANGED <<control, lease, planFile, published, child, active, cur, todo,
                 held, seen, schedFrame>>

(* ...and the thread ends when no job is left.                             *)
SchedDrain ==
  /\ sched = "drain"
  /\ Goto(IF active = NoProc /\ LiveJobs = {} THEN "done" ELSE "pick")
  /\ UNCHANGED <<storeVars, fileVars, published, child, active, cur, todo, held,
                 seen, schedFrame>>

(* No queued job: sleep, and around again.                                 *)
SchedIdle ==
  /\ sched = "pick"
  /\ \A j \in Jobs : jobs[j].state # "Queued"
  /\ Goto("top")
  /\ UNCHANGED <<storeVars, fileVars, published, child, active, cur, todo, held,
                 seen, schedFrame>>

SchedPick(j) ==
  /\ sched = "pick"
  /\ NextJob(j)
  /\ cur' = j
  /\ Goto(IF jobs[j].attempt > 0 THEN "replan" ELSE "launch")
  /\ UNCHANGED <<storeVars, fileVars, published, child, active, todo, held, seen,
                 schedFrame>>

(* A job that ran before is planned again.  The new plan may differ from   *)
(* the old one.  The error of replace_dry_run leaves scheduler_loop.       *)
SchedReplan ==
  /\ sched = "replan"
  /\ \E revision \in {jobs[cur].plan, jobs[cur].attempt} : ReplaceDryRun(cur, revision)
  /\ Goto("launch")
  /\ UNCHANGED <<fileVars, published, child, active, cur, todo, held, seen, schedFrame>>

SchedReplanRefused ==
  /\ sched = "replan"
  /\ ~MayReplan(cur)
  /\ Die
  /\ UNCHANGED <<storeVars, fileVars, published, child, active, schedFrame>>

SchedPlanFails ==
  /\ MayFail /\ sched = "replan"
  /\ Goto("abort")
  /\ UNCHANGED <<storeVars, fileVars, published, child, active, cur, todo, held,
                 seen, schedFrame>>

(* execute_job: the plan, the control file and a new lease file...         *)
SchedLaunch ==
  /\ sched = "launch"
  /\ planFile' = [planFile EXCEPT ![cur] = jobs[cur].plan]
  /\ control' = [control EXCEPT ![cur] = "Run"]
  /\ \E n \in Inodes : FreshInode(cur, n) /\ lease' = [lease EXCEPT ![cur] = n]
  /\ Goto("lock")
  /\ UNCHANGED <<storeVars, receipt, published, child, active, cur, todo, held,
                 seen, schedFrame>>

SchedLaunchFails ==
  /\ MayFail /\ sched = "launch"
  /\ Goto("abort")
  /\ UNCHANGED <<storeVars, fileVars, published, child, active, cur, todo, held,
                 seen, schedFrame>>

(* ...which is locked unless an orphan got there first.  A receipt that is *)
(* valid already ends the job; any other one is deleted.                   *)
SchedLock ==
  /\ sched = "lock"
  /\ IF LeaseFree(cur, lease[cur])
     THEN /\ held' = lease[cur]
          /\ IF ValidReceipt(cur) THEN Goto("early") /\ UNCHANGED receipt
             ELSE Goto("mark") /\ RemoveReceipts({cur})
     ELSE Goto("abort") /\ UNCHANGED <<held, receipt>>
  /\ UNCHANGED <<storeVars, control, lease, planFile, published, child, active,
                 cur, todo, seen, schedFrame>>

(* Where a job ends in execute_job or in terminalize_scheduler_failure.    *)
EndTo(outcome) ==
  /\ End(cur, outcome, {}) /\ Goto("clean") /\ held' = 0
  /\ UNCHANGED <<control, lease, planFile, published, child, active, cur, todo,
                 seen, schedFrame>>

(* An error of execute_job: its lease file is dropped on the way out.      *)
Abort == /\ Goto("abort") /\ held' = 0
         /\ UNCHANGED <<storeVars, fileVars, published, child, active, cur, todo,
                        seen, schedFrame>>

SchedReconcile == sched = "early" /\ EndTo("Completed")
SchedReconcileRefused == sched = "early" /\ ~Live(cur) /\ Abort

SchedMarkRunning ==
  /\ sched = "mark"
  /\ MarkRunning(cur)
  /\ Goto("spawn")
  /\ UNCHANGED <<fileVars, published, child, active, cur, todo, held, seen, schedFrame>>

SchedMarkRefused == sched = "mark" /\ ~MayRun(cur) /\ Abort

SchedSpawn ==
  /\ sched = "spawn" /\ jobs[cur].attempt \in Attempts
  /\ child' = Become(<<cur, jobs[cur].attempt>>, [NoChild EXCEPT !.phase = "spawned"])
  /\ Goto("register")
  /\ UNCHANGED <<storeVars, fileVars, published, active, cur, todo, held, seen,
                 schedFrame>>

SchedSpawnFails == MayFail /\ sched = "spawn" /\ Abort

(* The threads that read its output are started while the child runs       *)
(* already and is not registered yet.  An error there drops the handle of  *)
(* the process, which goes on: a stray.                                    *)
SchedReaderFails ==
  /\ MayFail /\ sched = "register"
  /\ crashes < MaxCrashes /\ crashes' = crashes + 1
  /\ LET p == <<cur, jobs[cur].attempt>> IN
       child' = IF Alive(p)
                THEN Become(p, [child[p] EXCEPT !.orphan = TRUE, !.stray = TRUE])
                ELSE child
  /\ Goto("abort") /\ held' = 0
  /\ UNCHANGED <<storeVars, fileVars, published, active, cur, todo, seen, client,
                 daemon, flagVars, requests>>

(* Mutant: the child is registered under the number of the attempt before. *)
SchedRegisterEarlierAttempt ==
  /\ sched = "register"
  /\ active' = <<cur, jobs[cur].attempt - 1>>
  /\ IF MayUpdateProcess(cur) THEN UpdateProcessId(cur) /\ Goto("wait")
     ELSE UNCHANGED storeVars /\ Goto("abort")
  /\ held' = 0
  /\ UNCHANGED <<fileVars, published, child, cur, todo, seen, schedFrame>>

(* Under the store and the runtime locks; then the launch lease is         *)
(* released.  A refused update leaves the child registered.                *)
SchedRegister ==
  /\ sched = "register"
  /\ active' = <<cur, jobs[cur].attempt>>
  /\ IF MayUpdateProcess(cur) THEN UpdateProcessId(cur) /\ Goto("wait")
     ELSE UNCHANGED storeVars /\ Goto("abort")
  /\ held' = 0
  /\ UNCHANGED <<fileVars, published, child, cur, todo, seen, schedFrame>>

(* The poll loop: a job that exceeds its time limit is told to cancel and  *)
(* killed.                                                                 *)
SchedTimeout ==
  /\ MayFail /\ sched = "wait" /\ Alive(active)
  /\ control' = [control EXCEPT ![cur] = "Cancel"]
  /\ child' = Killed(active)
  /\ UNCHANGED <<storeVars, lease, planFile, receipt, published, active, schedVars,
                 schedFrame>>

SchedReap ==
  /\ sched = "wait" /\ ~Alive(active)
  /\ seen' = [seen EXCEPT !.exit = child[active].phase]
  /\ child' = Reaped(active)
  /\ active' = NoProc
  /\ Goto("read")
  /\ UNCHANGED <<storeVars, fileVars, published, cur, todo, held, schedFrame>>

SchedReadState ==
  /\ sched = "read"
  /\ seen' = [seen EXCEPT !.state = jobs[cur].state]
  /\ Goto("settle")
  /\ UNCHANGED <<storeVars, fileVars, published, child, active, cur, todo, held,
                 schedFrame>>

(* What execute_job makes of the exit: success needs a valid receipt;      *)
(* otherwise a pause comes before a cancellation, by the state that was    *)
(* read or by the marker the child left in its diagnostics.                *)
Succeeded == seen.exit = "succeeded"
Stopped == ~Succeeded /\ (seen.state = "PauseRequested" \/ seen.exit = "paused")
Withdrawn == /\ ~Succeeded /\ ~Stopped
             /\ seen.state = "CancelRequested" \/ seen.exit = "cancelled"

SettleCompleted ==
  sched = "settle" /\ Succeeded /\ ValidReceipt(cur) /\ EndTo("Completed")

SettlePaused ==
  /\ sched = "settle" /\ Stopped
  /\ MarkPaused(cur) /\ Goto("clean")
  /\ UNCHANGED <<fileVars, published, child, active, cur, todo, held, seen, schedFrame>>

SettleCancelled == sched = "settle" /\ Withdrawn /\ EndTo("Cancelled")

SettleFailed ==
  /\ sched = "settle" /\ ~Succeeded /\ ~Stopped /\ ~Withdrawn
  /\ EndTo("Failed")

SettleRefused ==
  /\ sched = "settle"
  /\ \/ Succeeded /\ ~ValidReceipt(cur)
     \/ Stopped /\ ~MayMarkPaused(cur)
     \/ ~Stopped /\ ~Live(cur)
  /\ Abort

SchedClean ==
  /\ sched = "clean"
  /\ RemoveFiles(cur)
  /\ Goto("top") /\ cur' = NoJob /\ seen' = NothingSeen
  /\ UNCHANGED <<storeVars, published, child, active, todo, held, schedFrame>>

(* terminalize_scheduler_failure: kill the registered child and wait...    *)
SchedAbort ==
  /\ sched = "abort"
  /\ IF active # NoProc
     THEN /\ control' = [control EXCEPT ![cur] = "Cancel"]
          /\ child' = Reaped(active)
          /\ active' = NoProc
     ELSE UNCHANGED <<control, child, active>>
  /\ Goto("abandon")
  /\ UNCHANGED <<storeVars, lease, planFile, receipt, published, cur, todo, held,
                 seen, schedFrame>>

(* ...then, when the job still is in the queue, look for its receipt...    *)
SchedAbandon ==
  /\ sched = "abandon"
  /\ IF Live(cur)
     THEN /\ Goto("giveUp") /\ UNCHANGED cur
          /\ seen' = [NothingSeen EXCEPT !.receipt = ValidReceipt(cur)]
     ELSE Goto("top") /\ cur' = NoJob /\ seen' = NothingSeen
  /\ UNCHANGED <<storeVars, fileVars, published, child, active, todo, held,
                 schedFrame>>

(* ...and end the job, an error of which leaves scheduler_loop.            *)
SchedGiveUp ==
  sched = "giveUp" /\ EndTo(IF seen.receipt THEN "Completed" ELSE "Failed")

SchedGiveUpRefused ==
  /\ sched = "giveUp" /\ ~Live(cur)
  /\ Die
  /\ UNCHANGED <<storeVars, fileVars, published, child, active, schedFrame>>

RecoverStep == \/ RecoverCompleted \/ RecoverCancelled \/ RecoverPaused
               \/ RecoverRequeued \/ RecoverUncertain \/ RecoverRefused

SettleStep == \/ SettleCompleted \/ SettlePaused \/ SettleCancelled
              \/ SettleFailed \/ SettleRefused

(* The steps the scheduler takes of its own accord; the failures that may  *)
(* or may not happen are apart.                                            *)
SchedStep ==
  \/ SchedSnapshot \/ (\E t \in todo : SchedProbe(t)) \/ SchedProbed
  \/ SchedReread \/ RecoverStep \/ SchedCleanOrphan
  \/ SchedGate \/ SchedDrain \/ SchedIdle \/ (\E j \in Jobs : SchedPick(j))
  \/ SchedReplan \/ SchedReplanRefused \/ SchedLaunch \/ SchedLock
  \/ SchedReconcile \/ SchedReconcileRefused
  \/ SchedMarkRunning \/ SchedMarkRefused \/ SchedSpawn \/ SchedRegister
  \/ SchedReap \/ SchedReadState \/ SettleStep \/ SchedClean
  \/ SchedAbort \/ SchedAbandon \/ SchedGiveUp \/ SchedGiveUpRefused

SchedFailure ==
  \/ SchedPlanFails \/ SchedLaunchFails \/ SchedSpawnFails \/ SchedReaderFails
  \/ SchedTimeout

-----------------------------------------------------------------------------
(* Request threads.  A request is authorized and then changes the queue;   *)
(* a control request goes on from the job it found there: to the child     *)
(* when a process was recorded, otherwise a cancellation ends the job.     *)
(* A request that is refused changes nothing and is left out.              *)

Idle == [pc |-> "idle", job |-> NoJob]
ClientPC == {"idle", "pauseSignal", "cancelSignal", "cancelKill", "cancelFinish",
             "stop", "forceStop"}
At(c, pc, j) == client' = [client EXCEPT ![c] = [pc |-> pc, job |-> j]]
Done(c) == client' = [client EXCEPT ![c] = Idle]

Accept(c) == /\ client[c] = Idle /\ daemon = "accept"
             /\ requests < MaxRequests /\ requests' = requests + 1

requestFrame == <<fileVars, published, child, active, schedVars, daemon, crashes>>
clientFrame == <<lease, planFile, published, active, schedVars, daemon, requests,
                 crashes>>

ClientSubmit(c, j) == /\ Accept(c) /\ InsertJob(j)
                      /\ UNCHANGED <<client, flagVars, requestFrame>>

ClientResume(c, j) == /\ Accept(c) /\ Resume(j)
                      /\ UNCHANGED <<client, flagVars, requestFrame>>

ClientPause(c, j) ==
  /\ Accept(c) /\ RequestPause(j)
  /\ IF jobs[j].pid THEN At(c, "pauseSignal", j) ELSE UNCHANGED client
  /\ UNCHANGED <<flagVars, requestFrame>>

(* Mutant: a cancellation ends the job even when it has a process.         *)
ClientCancelAtOnce(c, j) ==
  /\ Accept(c) /\ RequestCancel(j)
  /\ At(c, "cancelFinish", j)
  /\ UNCHANGED <<flagVars, requestFrame>>

ClientCancel(c, j) ==
  /\ Accept(c) /\ RequestCancel(j)
  /\ At(c, IF jobs[j].pid THEN "cancelSignal" ELSE "cancelFinish", j)
  /\ UNCHANGED <<flagVars, requestFrame>>

(* Shutdown first looks whether the queue is empty...                      *)
ClientShutdown(c) ==
  /\ Accept(c)
  /\ \/ At(c, "forceStop", NoJob)
     \/ LiveJobs = {} /\ At(c, "stop", NoJob)
  /\ UNCHANGED <<storeVars, flagVars, requestFrame>>

(* ...and later stores the two flags.                                      *)
ClientStop(c) ==
  /\ client[c].pc \in {"stop", "forceStop"}
  /\ force' = (client[c].pc = "forceStop") /\ shutdown' = TRUE
  /\ Done(c)
  /\ UNCHANGED <<storeVars, control, receipt, child, clientFrame>>

(* write_control_file, whose path the child reads.                         *)
ClientSignal(c) ==
  LET j == client[c].job IN
  /\ client[c].pc \in {"pauseSignal", "cancelSignal"}
  /\ IF client[c].pc = "pauseSignal"
     THEN control' = [control EXCEPT ![j] = "Pause"] /\ Done(c)
     ELSE control' = [control EXCEPT ![j] = "Cancel"] /\ At(c, "cancelKill", j)
  /\ UNCHANGED <<storeVars, receipt, child, flagVars, clientFrame>>

(* Under the runtime lock: a cancellation kills the child of its job.      *)
ClientKill(c) ==
  /\ client[c].pc = "cancelKill"
  /\ child' = IF active[1] = client[c].job THEN Killed(active) ELSE child
  /\ Done(c)
  /\ UNCHANGED <<storeVars, control, receipt, flagVars, clientFrame>>

(* "cancelled before execution", unless the scheduler ended the job first. *)
ClientFinish(c) ==
  LET j == client[c].job IN
  /\ client[c].pc = "cancelFinish"
  /\ IF Live(j) THEN End(j, "Cancelled", {}) ELSE UNCHANGED <<storeVars, receipt>>
  /\ Done(c)
  /\ UNCHANGED <<control, child, flagVars, clientFrame>>

ClientRequest(c) == \/ \E j \in Jobs : \/ ClientSubmit(c, j) \/ ClientResume(c, j)
                                      \/ ClientPause(c, j) \/ ClientCancel(c, j)
                    \/ ClientShutdown(c)

ClientStep(c) == ClientStop(c) \/ ClientSignal(c) \/ ClientKill(c) \/ ClientFinish(c)

-----------------------------------------------------------------------------
(* The main thread, and what happens to the daemon as a whole.             *)

(* The accept loop ends; a forced shutdown cancels the registered child.   *)
MainStop ==
  /\ daemon = "accept" /\ shutdown
  /\ daemon' = "join"
  /\ IF force /\ active # NoProc
     THEN /\ control' = [control EXCEPT ![active[1]] = "Cancel"]
          /\ child' = Killed(active)
     ELSE UNCHANGED <<control, child>>
  /\ UNCHANGED <<storeVars, lease, planFile, receipt, published, active, schedVars,
                 client, flagVars, requests, crashes>>

(* What a process loses when it ends.                                      *)
Stopping == /\ daemon' = "down"
            /\ sched' = "off" /\ cur' = NoJob /\ todo' = {} /\ held' = 0
            /\ seen' = NothingSeen /\ active' = NoProc
            /\ client' = [c \in Clients |-> Idle]
            /\ shutdown' = FALSE /\ force' = FALSE
            /\ UNCHANGED <<storeVars, fileVars, published, requests>>

MainExit ==
  /\ daemon = "join" /\ sched \in {"done", "dead"}
  /\ \A c \in Clients : client[c] = Idle
  /\ Stopping
  /\ UNCHANGED <<child, crashes>>

(* The daemon dies; a child that still runs goes on without it.            *)
Crash ==
  /\ daemon # "down" /\ crashes < MaxCrashes
  /\ crashes' = crashes + 1
  /\ Stopping
  /\ child' = [p \in Proc |->
                 IF Alive(p) THEN [child[p] EXCEPT !.orphan = TRUE, !.stray = FALSE]
                 ELSE IF child[p].phase \in ExitPhase
                 THEN [child[p] EXCEPT !.phase = "gone"] ELSE child[p]]

(* run_ipc_server: open the store, which deletes receipts that nothing     *)
(* refers to, prepare recovery, start the scheduler and accept.  What is   *)
(* an orphan of this daemon is a child that still runs now.                *)
Start ==
  /\ daemon = "down"
  /\ daemon' = "accept" /\ sched' = "top"
  /\ PrepareRecovery
  /\ RemoveReceipts({j \in Jobs : ~Live(j) /\ j \notin Retained})
  /\ child' = [p \in Proc |-> [child[p] EXCEPT !.orphan = @ /\ Alive(p)]]
  /\ UNCHANGED <<control, lease, planFile, published, active, cur, todo, held,
                 seen, client, flagVars, requests, crashes>>

-----------------------------------------------------------------------------
Init ==
  /\ StoreInit
  /\ control = [j \in Jobs |-> "none"] /\ lease = [j \in Jobs |-> 0]
  /\ planFile = [j \in Jobs |-> NoFile] /\ receipt = [j \in Jobs |-> NoFile]
  /\ published = [j \in Jobs |-> 0]
  /\ child = [p \in Proc |-> NoChild] /\ active = NoProc
  /\ sched = "top" /\ cur = NoJob /\ todo = {} /\ held = 0 /\ seen = NothingSeen
  /\ client = [c \in Clients |-> Idle]
  /\ daemon = "accept" /\ shutdown = FALSE /\ force = FALSE
  /\ requests = 0 /\ crashes = 0

Next == \/ SchedStep \/ SchedFailure
        \/ \E c \in Clients : ClientRequest(c) \/ ClientStep(c)
        \/ \E p \in Proc : ChildStep(p) \/ ChildFail(p)
        \/ MainStop \/ MainExit \/ Crash \/ Start

Spec == Init /\ [][Next]_vars

(* Every thread of the daemon runs (none of them waits on another one      *)
(* while it holds a lock), a child that is not stopped runs to its end,    *)
(* and a daemon that is down is started again.                             *)
Fairness == /\ WF_vars(SchedStep)
            /\ \A c \in Clients : WF_vars(ClientStep(c))
            /\ \A p \in Proc : WF_vars(ChildStep(p))
            /\ WF_vars(MainStop) /\ WF_vars(MainExit) /\ WF_vars(Start)

FairSpec == Spec /\ Fairness

-----------------------------------------------------------------------------
SchedPC == {"top", "orphans", "reread", "settleOrphan", "cleanOrphan", "gate",
            "drain", "pick", "replan", "launch", "lock", "early", "mark", "spawn",
            "register", "wait", "read", "settle", "clean", "abort", "abandon",
            "giveUp", "done", "dead", "off"}

TypeOK ==
  /\ StoreTypeOK
  /\ control \in [Jobs -> {"none", "Run", "Pause", "Cancel"}]
  /\ lease \in [Jobs -> Nat]
  /\ planFile \in [Jobs -> Int] /\ receipt \in [Jobs -> Int]
  /\ published \in [Jobs -> Nat]
  /\ child \in [Proc -> [phase : ChildPhase, lease : Nat, plan : Int,
                         orphan : BOOLEAN, stray : BOOLEAN]]
  /\ active \in Proc \cup {NoProc}
  /\ sched \in SchedPC /\ cur \in Jobs \cup {NoJob} /\ held \in Nat
  /\ todo \subseteq [job : Jobs, state : JobState]
  /\ seen \in [state : JobState, receipt : BOOLEAN, exit : ChildPhase]
  /\ client \in [Clients -> [pc : ClientPC, job : Jobs \cup {NoJob}]]
  /\ daemon \in {"accept", "join", "down"}
  /\ shutdown \in BOOLEAN /\ force \in BOOLEAN
  /\ requests \in Nat /\ crashes \in Nat

OwnChild(p) == Alive(p) /\ ~child[p].orphan

(* A file job is started at most once, whatever is requested and however   *)
(* often the daemon dies, and so its output is published at most once:     *)
(* mark_running, requeue_recovered, request_control and the recovery of a  *)
(* daemon have to agree on this.                                           *)
FileRunsOnce ==
  \A j \in Jobs \ Resumable : jobs[j].attempt <= 1 /\ published[j] <= 1

(* A job that is reported Completed did publish its output, through        *)
(* whichever of the four places that complete a job it went (the exit of   *)
(* the child, an earlier receipt, recovery, the failure path).             *)
CompletedIsPublished ==
  \A j \in Jobs : jobs[j].state = "Completed" => published[j] > 0

(* The receipt whose fingerprint a retained Completed entry carries is on  *)
(* disk: no restart, no pruning and no other child takes it away.          *)
CompletedKeepsReceipt ==
  \A j \in Jobs : jobs[j].state = "Completed" /\ j \in Retained
                    => ValidReceipt(j)

(* While a daemon is up, a Running job is the one its scheduler is busy    *)
(* with; no error path leaves a job Running that nobody will look at.      *)
RunningIsAttended ==
  \A j \in Jobs : daemon # "down" /\ jobs[j].state = "Running" =>
     cur = j /\ sched \in {"spawn", "register", "wait", "read", "settle", "abort",
                          "abandon", "giveUp"}

(* A live child that a daemon has not lost is that of the last attempt of  *)
(* the job its scheduler is busy with, and that job has neither ended nor  *)
(* been paused nor gone back to the queue: there is at most one.  The code *)
(* does lose one, to an error between spawn and registration; the job of   *)
(* such a stray is on its way to its end or has ended, and never runs,     *)
(* waits or is recovered again beside it under the same daemon.            *)
OneOwnChild ==
  \A p \in Proc :
    /\ OwnChild(p) =>
         /\ cur = p[1] /\ p[2] = jobs[cur].attempt
         /\ jobs[cur].state \in {"Running", "PauseRequested", "CancelRequested"}
         /\ sched \in {"register", "wait", "abort"}
    /\ Alive(p) /\ child[p].stray =>
         \/ Terminal(p[1])
         \/ /\ cur = p[1] /\ p[2] = jobs[cur].attempt /\ active = NoProc
            /\ sched \in {"abort", "abandon", "giveUp"}

(* Once the requests that asked a job to stop are answered, the control    *)
(* file its live child will read does not say Run: the order in which the  *)
(* request threads and the scheduler write that file loses no request.     *)
StopIsVisible ==
  \A p \in Proc :
     /\ OwnChild(p)
     /\ jobs[p[1]].state \in {"PauseRequested", "CancelRequested"}
     /\ \A c \in Clients : client[c].job # p[1]
     => control[p[1]] \in {"Pause", "Cancel"}

(* No child of an attempt before the last one was still running when this  *)
(* daemon started.                                                         *)
NoEarlierOrphan(j) ==
  \A p \in ChildrenOf(j) : p[2] < jobs[j].attempt => ~child[p].orphan

(* A daemon that recovers a job whose child finished with a receipt        *)
(* neither fails that job nor runs it again.  The lease it tries is the    *)
(* one of the last launch: a child of an earlier launch that still ran     *)
(* when the daemon started has outlived two daemons, holds another one,    *)
(* and can finish behind its back.                                         *)
RestartReconciles ==
  [][\A j \in Jobs : /\ jobs[j].state = "Recovering" /\ ValidReceipt(j)
                     /\ NoEarlierOrphan(j)
       => jobs'[j].state \notin {"Failed", "Queued"}]_vars

(* A job that runs, or that was asked to stop, settles: it ends, waits to  *)
(* be resumed, or is back in the queue.  The one exception is a scheduler  *)
(* thread that has died of an error.                                       *)
StopsSettle ==
  \A j \in Jobs :
    jobs[j].state \in {"Running", "Recovering", "PauseRequested", "CancelRequested"}
      ~> Terminal(j) \/ jobs[j].state \in {"Paused", "Queued"} \/ sched = "dead"

(* A forced shutdown ends the daemon, whatever its scheduler and its       *)
(* request threads were doing, and even when the scheduler has died; only  *)
(* a later shutdown request that is not forced can take it back.           *)
ForcedShutdownEnds == (shutdown /\ force) ~> (daemon = "down" \/ ~force)

-----------------------------------------------------------------------------
(* Statements of the documentation that the code does not keep.            *)

(* "V1 runs one job at a time" (docs/cli.md:883): no two children work at  *)
(* once, also when one of them has outlived the daemon that started it.    *)
Working(p) == child[p].phase \in {"working", "cleared", "published", "receipted"}
OneJobAtATime == \A p, q \in Proc : Working(p) /\ Working(q) => p = q

(* The queue is durably ordered and run (docs/cli.md:883): a queued job    *)
(* does not stay queued for ever while the daemon is up.                   *)
QueuedJobsProgress ==
  \A j \in Jobs : jobs[j].state = "Queued" ~> jobs[j].state # "Queued"

(* A job that was paused runs again only after a resume, which replans it  *)
(* (docs/cli.md:884-886): the start of a job does not overtake its pause.  *)
PausedWaitsForResume ==
  [][\A j \in Jobs : jobs[j].state = "Paused" => jobs'[j].state # "Running"]_vars
=============================================================================
