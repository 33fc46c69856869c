--------------------------- MODULE IpcServerSafety ---------------------------
(***************************************************************************)
(* Safety of the IPC server, for any number of jobs, clients, requests,    *)
(* crashes and attempts: a file job runs once, and what is reported        *)
(* Completed was published.                                                *)
(***************************************************************************)
EXTENDS IpcServerProofs

(* The phases of a child that is not going to publish any more.            *)
PastPublish == {"published", "receipted", "gone"} \cup ExitPhase

(* What the operators on process records do to the phases of all children. *)
LEMMA ProcessPhase ==
  ASSUME child \in [Proc -> Process], NEW p \in Proc
  PROVE  /\ p = <<p[1], p[2]>> /\ p[1] \in Jobs /\ p[2] \in Attempts
         /\ child[p].phase \in ChildPhase
         /\ \A q \in Proc : \A r : q # p => Become(p, r)[q] = child[q]
         /\ \A r : Become(p, r)[p] = r
         /\ \A phase : Enter(p, phase)[p].phase = phase
         /\ \A phase : Exited(p, phase)[p].phase \in {phase, "gone"}
         /\ Reaped(p)[p].phase = "gone"
         /\ \A q \in Proc : q # p => Reaped(p)[q] = child[q] /\ Killed(p)[q] = child[q]
  <1>1. p = <<p[1], p[2]>> /\ p[1] \in Jobs /\ p[2] \in Attempts
    BY DEF Proc
  <1>2. child[p] \in Process
    OBVIOUS
  <1>3. \A r : Become(p, r)[p] = r
    BY DEF Become
  <1>4. \A q \in Proc : \A r : q # p => Become(p, r)[q] = child[q]
    BY DEF Become
  <1>5. \A phase : [child[p] EXCEPT !.phase = phase].phase = phase
    BY <1>2 DEF Process
  <1>6. \A phase : [child[p] EXCEPT !.phase = phase, !.lease = 0].phase = phase
    BY <1>2 DEF Process
  <1>7. \A phase : Exited(p, phase)[p].phase \in {phase, "gone"}
    <2> TAKE phase
    <2>1. Exited(p, phase)[p] =
            [child[p] EXCEPT !.phase = IF child[p].orphan THEN "gone" ELSE phase, !.lease = 0]
      BY <1>3 DEF Exited
    <2> QED
      BY <1>6, <2>1
  <1>8. /\ \A phase : Enter(p, phase)[p].phase = phase
        /\ Reaped(p)[p].phase = "gone"
    BY <1>3, <1>5, <1>6 DEF Enter, Reaped
  <1>9. \A q \in Proc : q # p => Reaped(p)[q] = child[q] /\ Killed(p)[q] = child[q]
    BY <1>4 DEF Reaped, Killed, Exited
  <1>10. child[p].phase \in ChildPhase
    BY <1>2 DEF Process
  <1> QED
    BY <1>1, <1>3, <1>4, <1>7, <1>8, <1>9, <1>10

(* The process itself goes on: only what the daemon knows of it changes.   *)
GoesOn(q) == /\ child'[q].phase = child[q].phase
             /\ child'[q].lease = child[q].lease /\ child'[q].plan = child[q].plan

(* The error between spawn and registration loses the child of the launch  *)
(* when it still runs, and changes nothing else of any child.              *)
LEMMA ReaderFailsEffect ==
  ASSUME Typed, SchedReaderFails
  PROVE  /\ sched = "register" /\ sched' = "abort" /\ cur' = cur /\ cur \in Jobs
         /\ active' = active /\ jobs' = jobs /\ UNCHANGED <<storeVars, fileVars, published>>
         /\ daemon' = daemon /\ client' = client /\ todo' = todo /\ seen' = seen
         /\ held' = 0
         /\ \A q \in Proc :
              /\ GoesOn(q)
              /\ \/ child'[q] = child[q] /\ (q = <<cur, jobs[cur].attempt>> => ~Alive(q))
                 \/ /\ q = <<cur, jobs[cur].attempt>> /\ Alive(q)
                    /\ child'[q].orphan /\ child'[q].stray
  <1>1. /\ sched = "register" /\ sched' = "abort" /\ cur' = cur /\ active' = active
        /\ UNCHANGED <<storeVars, fileVars, published>>
        /\ daemon' = daemon /\ client' = client /\ todo' = todo /\ seen' = seen
        /\ held' = 0
    BY DEF SchedReaderFails, Goto
  <1>2. cur \in Jobs /\ jobs[cur].attempt \in Attempts /\ jobs' = jobs
    BY <1>1 DEF Typed, BindingOK, BusyPC, SchedPC, storeVars
  <1> DEFINE p == <<cur, jobs[cur].attempt>>
             r == [child[p] EXCEPT !.orphan = TRUE, !.stray = TRUE]
  <1>3. p \in Proc /\ child \in [Proc -> Process]
    BY <1>2, TypeParts DEF Proc, Typed, ServerTypeOK
  <1>4. child' = IF Alive(p) THEN [child EXCEPT ![p] = r] ELSE child
    BY DEF SchedReaderFails, Become
  <1>5. /\ r.orphan /\ r.stray /\ r.phase = child[p].phase
        /\ r.lease = child[p].lease /\ r.plan = child[p].plan
    <2>1. child[p] \in Process
      BY <1>3
    <2> HIDE DEF p
    <2> QED
      BY <2>1 DEF Process
  <1>6. ASSUME NEW q \in Proc
        PROVE  /\ GoesOn(q)
               /\ \/ child'[q] = child[q] /\ (q = p => ~Alive(q))
                  \/ q = p /\ Alive(q) /\ child'[q].orphan /\ child'[q].stray
    <2> HIDE DEF p, r
    <2> QED
      BY <1>3, <1>4, <1>5, <1>6 DEF GoesOn
  <1> QED
    BY <1>1, <1>2, <1>6

(* A daemon that starts takes a child for an orphan if it still runs.      *)
LEMMA StartEffect ==
  ASSUME Typed, Start, NEW q \in Proc
  PROVE  /\ GoesOn(q) /\ child'[q].stray = child[q].stray
         /\ child'[q].orphan = (child[q].orphan /\ Alive(q))
  <1>1. child[q] \in Process
    BY TypeParts DEF Typed, ServerTypeOK
  <1>2. child'[q] = [child[q] EXCEPT !.orphan = child[q].orphan /\ Alive(q)]
    BY DEF Start
  <1> QED
    BY <1>1, <1>2 DEF GoesOn, Process

(* What a step of child p does to its phase.                               *)
LEMMA ChildMoves ==
  ASSUME Typed, NEW p \in Proc, ChildStep(p) \/ ChildFail(p)
  PROVE  /\ Alive(p)
         /\ \A q \in Proc : q # p => child'[q] = child[q]
         /\ child'[p].phase \in ChildPhase \ {"none", "spawned"}
         /\ child[p].phase \in PastPublish => child'[p].phase \in PastPublish
         /\ child'[p].phase = "receipted" => child[p].phase = "published"
         /\ child'[p].phase = "published" => child[p].phase = "cleared"
         /\ \/ published' = published /\ child'[p].phase # "published"
            \/ published' = published /\ p[1] \in Resumable /\ published[p[1]] > 0
            \/ /\ published' = [published EXCEPT ![p[1]] = @ + 1]
               /\ child[p].phase = "cleared" /\ child'[p].phase = "published"
  <1>1. child \in [Proc -> Process]
    BY TypeParts DEF Typed, ServerTypeOK
  <1>2. p[1] \in Jobs /\ child[p] \in Process
    BY <1>1 DEF Proc
  <1>3. /\ \A q \in Proc : \A r : q # p => Become(p, r)[q] = child[q]
        /\ \A r : Become(p, r)[p] = r
        /\ \A phase : Enter(p, phase)[p].phase = phase
        /\ \A phase : Exited(p, phase)[p].phase \in {phase, "gone"}
    BY <1>1, ProcessPhase
  <1>4. /\ \A q \in Proc : \A phase : q # p => Enter(p, phase)[q] = child[q]
        /\ \A q \in Proc : \A phase : q # p => Exited(p, phase)[q] = child[q]
    BY <1>3 DEF Enter, Exited
  <1>5. Boundary(p[1]) \in {"go", "paused", "cancelled", "failed"}
    BY DEF Boundary
  <1>6. /\ [child[p] EXCEPT !.phase = "opened", !.lease = lease[p[1]]].phase = "opened"
        /\ [child[p] EXCEPT !.phase = "working", !.plan = planFile[p[1]]].phase = "working"
    BY <1>2 DEF Process
  <1> USE DEF Alive, PastPublish, ChildPhase, LivePhase, LockedPhase, ExitPhase
  <1>7. CASE ChildOpen(p)
    BY <1>3, <1>4, <1>6, <1>7 DEF ChildOpen
  <1>8. CASE ChildLock(p) \/ ChildLockTimeout(p)
    BY <1>3, <1>4, <1>8 DEF ChildLock, ChildLockTimeout
  <1>9. CASE ChildStart(p)
    BY <1>3, <1>4, <1>5, <1>6, <1>9 DEF ChildStart
  <1>10. CASE ChildCheckpoint(p) \/ ChildFence(p)
    BY <1>3, <1>4, <1>5, <1>10 DEF ChildCheckpoint, ChildFence
  <1>11. CASE ChildPublish(p)
    BY <1>3, <1>4, <1>11 DEF ChildPublish
  <1>12. CASE ChildReceipt(p)
    BY <1>3, <1>4, <1>5, <1>12 DEF ChildReceipt
  <1>13. CASE ChildSucceed(p) \/ ChildFail(p)
    BY <1>3, <1>4, <1>13 DEF ChildSucceed, ChildFail
  <1> QED
    BY <1>7, <1>8, <1>9, <1>10, <1>11, <1>12, <1>13 DEF ChildStep

(* What a step of the daemon, or of the world around it, does to a child.  *)
LEMMA DaemonMoves ==
  ASSUME Typed, NEW q \in Proc,
         \/ SchedStep \/ SchedFailure
         \/ (\E c \in Clients : ClientRequest(c) \/ ClientStep(c))
         \/ MainStop \/ MainExit \/ Crash \/ Start \/ UNCHANGED vars
  PROVE  /\ published' = published
         /\ \/ child'[q].phase = child[q].phase
            \/ child[q].phase # "none" /\ child'[q].phase \in {"failed", "gone"}
            \/ active = q /\ child'[q].phase = "gone" /\ sched \in {"wait", "abort"}
            \/ /\ SchedSpawn /\ q = <<cur, jobs[cur].attempt>>
               /\ child'[q].phase = "spawned"
  <1> DEFINE Goal ==
        /\ published' = published
        /\ \/ child'[q].phase = child[q].phase
           \/ child[q].phase # "none" /\ child'[q].phase \in {"failed", "gone"}
           \/ active = q /\ child'[q].phase = "gone" /\ sched \in {"wait", "abort"}
           \/ /\ SchedSpawn /\ q = <<cur, jobs[cur].attempt>>
              /\ child'[q].phase = "spawned"
  <1>1. /\ child \in [Proc -> Process] /\ child[q] \in Process
        /\ active \in Proc \cup {NoProc} /\ BindingOK
    BY TypeParts DEF Typed, ServerTypeOK
  <1>2. ASSUME NEW p \in Proc, child' = Killed(p), published' = published
        PROVE  Goal
    <2>1. CASE ~Alive(p)
      BY <1>2, <2>1 DEF Killed
    <2>2. CASE Alive(p) /\ q = p
      BY <1>1, <1>2, <2>2, ProcessPhase DEF Killed, Alive, LivePhase, LockedPhase
    <2>3. CASE Alive(p) /\ q # p
      BY <1>1, <1>2, <2>3, ProcessPhase
    <2> QED
      BY <2>1, <2>2, <2>3
  <1>3. ASSUME active \in Proc, child' = Reaped(active), published' = published,
               sched \in {"wait", "abort"}
        PROVE  Goal
    <2>1. CASE q = active
      BY <1>1, <1>3, <2>1, ProcessPhase
    <2>2. CASE q # active
      BY <1>1, <1>3, <2>2, ProcessPhase
    <2> QED
      BY <2>1, <2>2
  <1>4. CASE published' = published /\ child' = child
    BY <1>4
  <1> USE DEF schedFrame, requestFrame, clientFrame
  <1>5. CASE SchedTimeout
    BY <1>1, <1>2, <1>5 DEF SchedTimeout, BindingOK
  <1>6. CASE SchedReap
    BY <1>1, <1>3, <1>6 DEF SchedReap, BindingOK
  <1>7. CASE SchedAbort
    BY <1>1, <1>3, <1>4, <1>7 DEF SchedAbort
  <1>8. CASE SchedSpawn
    <2>1. cur \in Jobs /\ jobs[cur].attempt \in Attempts
      BY <1>1, <1>8 DEF SchedSpawn, BindingOK, BusyPC, SchedPC
    <2>2. <<cur, jobs[cur].attempt>> \in Proc
      BY <2>1 DEF Proc
    <2>3. [NoChild EXCEPT !.phase = "spawned"].phase = "spawned"
      BY NoChildTyped DEF Process
    <2>4. published' = published
      BY <1>8 DEF SchedSpawn
    <2> DEFINE p == <<cur, jobs[cur].attempt>>
               new == [NoChild EXCEPT !.phase = "spawned"]
    <2>5. child' = Become(p, new) /\ p \in Proc /\ new.phase = "spawned"
      BY <1>8, <2>2, <2>3 DEF SchedSpawn
    <2> HIDE DEF p, new
    <2>6. q = p => child'[q].phase = "spawned"
      BY <1>1, <2>5, ProcessPhase
    <2>7. q # p => child'[q] = child[q]
      BY <1>1, <2>5, ProcessPhase
    <2> QED
      BY <1>8, <2>4, <2>6, <2>7 DEF p
  <1>9. CASE RecoverStep
    BY <1>4, <1>9 DEF RecoverStep, RecoverCompleted, RecoverCancelled, RecoverPaused,
       RecoverRequeued, RecoverUncertain, RecoverRefused, Settled
  <1>10. CASE SettleStep
    BY <1>4, <1>10 DEF SettleStep, SettleCompleted, SettlePaused, SettleCancelled,
       SettleFailed, SettleRefused, EndTo, Abort
  <1>11. CASE SchedPlanFails \/ SchedLaunchFails \/ SchedSpawnFails
    BY <1>4, <1>11 DEF SchedPlanFails, SchedLaunchFails, SchedSpawnFails, Abort
  <1>12. CASE \/ SchedSnapshot \/ (\E t \in todo : SchedProbe(t)) \/ SchedProbed
              \/ SchedReread \/ SchedCleanOrphan \/ SchedGate \/ SchedDrain \/ SchedIdle
              \/ (\E j \in Jobs : SchedPick(j)) \/ SchedReplan \/ SchedReplanRefused
    BY <1>4, <1>12 DEF SchedSnapshot, SchedProbe, SchedProbed, SchedReread,
       SchedCleanOrphan, SchedGate, SchedDrain, SchedIdle, SchedPick, SchedReplan, SchedReplanRefused
  <1>13. CASE \/ SchedLaunch \/ SchedLock \/ SchedReconcile \/ SchedReconcileRefused
              \/ SchedMarkRunning \/ SchedMarkRefused \/ SchedRegister
              \/ SchedReadState \/ SchedClean
              \/ SchedAbandon \/ SchedGiveUp \/ SchedGiveUpRefused
    BY <1>4, <1>13 DEF SchedLaunch, SchedLock, SchedReconcile, SchedReconcileRefused,
       SchedMarkRunning, SchedMarkRefused, SchedRegister, SchedReadState, SchedClean,
       SchedAbandon, SchedGiveUp, SchedGiveUpRefused, EndTo, Abort
  <1>14. ASSUME NEW c \in Clients, ClientRequest(c) \/ ClientStep(c)
         PROVE  Goal
    <2>1. CASE ClientKill(c)
      <3>1. child' = child \/ (active \in Proc /\ child' = Killed(active))
        <4>1. client[c].job \in Jobs
          BY <1>1, <2>1 DEF ClientKill, BindingOK, ControlPC
        <4> QED
          BY <1>1, <2>1, <4>1, NoJobAssumption DEF ClientKill, NoProc
      <3>2. published' = published
        BY <2>1 DEF ClientKill
      <3> QED
        BY <1>2, <1>4, <3>1, <3>2
    <2>2. CASE ClientRequest(c) \/ ClientStop(c) \/ ClientSignal(c) \/ ClientFinish(c)
      BY <1>4, <2>2 DEF ClientRequest, ClientSubmit, ClientResume, ClientPause,
         ClientCancel, ClientShutdown, ClientStop, ClientSignal, ClientFinish
    <2> QED
      BY <1>14, <2>1, <2>2 DEF ClientStep
  <1>15. CASE MainStop
    <2>1. child' = child \/ (active \in Proc /\ child' = Killed(active))
      BY <1>1, <1>15 DEF MainStop
    <2> QED
      BY <1>2, <1>4, <1>15, <2>1 DEF MainStop
  <1>16. CASE MainExit
    BY <1>4, <1>16 DEF MainExit, Stopping
  <1>19. CASE Start
    BY <1>19, StartEffect DEF Start, GoesOn
  <1>20. CASE SchedReaderFails
    BY <1>20, ReaderFailsEffect DEF GoesOn
  <1>17. CASE Crash
    <2>1. child'[q] = IF Alive(q)
                      THEN [child[q] EXCEPT !.orphan = TRUE, !.stray = FALSE]
                      ELSE IF child[q].phase \in ExitPhase
                      THEN [child[q] EXCEPT !.phase = "gone"] ELSE child[q]
      BY <1>17 DEF Crash
    <2>2. child'[q].phase = child[q].phase
            \/ (child[q].phase \in ExitPhase /\ child'[q].phase = "gone")
      BY <1>1, <2>1 DEF Process
    <2> QED
      BY <1>17, <2>2 DEF Crash, Stopping, ExitPhase
  <1>18. CASE UNCHANGED vars
    BY <1>4, <1>18 DEF vars
  <1> QED
    BY <1>5, <1>6, <1>7, <1>8, <1>9, <1>10, <1>11, <1>12, <1>13, <1>14, <1>15, <1>16,
       <1>17, <1>18, <1>19, <1>20 DEF SchedStep, SchedFailure

(* A process that was never started.                                       *)
SpawnMoves == \/ /\ sched = "spawn" /\ cur' = cur
                 /\ \A k \in Jobs : jobs'[k].attempt = jobs[k].attempt
              \/ /\ sched = "mark" /\ MarkRunning(cur)
                 /\ cur \in Jobs /\ cur' = cur /\ child' = child

ActiveMoves == \/ active' = active \/ active' = NoProc
               \/ /\ sched = "register" /\ cur \in Jobs
                  /\ active' = <<cur, jobs[cur].attempt>>

(* How the scheduler gets to a spawn, and what it registers.               *)
LEMMA SchedMoves ==
  ASSUME Typed, [Next]_vars
  PROVE  (sched' = "spawn" => SpawnMoves) /\ ActiveMoves
  <1>1. BindingOK
    BY DEF Typed
  <1> USE DEF schedFrame, requestFrame, clientFrame, childFrame, schedVars, Goto
  <1>2. CASE RecoverStep
    BY <1>2 DEF RecoverStep, RecoverCompleted, RecoverCancelled, RecoverPaused,
       RecoverRequeued, RecoverUncertain, RecoverRefused, Settled, Die, ActiveMoves
  <1>3. CASE SettleStep
    BY <1>3 DEF SettleStep, SettleCompleted, SettlePaused, SettleCancelled,
       SettleFailed, SettleRefused, EndTo, Abort, ActiveMoves
  <1>4. CASE SchedFailure
    BY <1>4 DEF SchedFailure, SchedPlanFails, SchedLaunchFails, SchedSpawnFails,
       SchedReaderFails, SchedTimeout, Abort, ActiveMoves
  <1>5. CASE \/ SchedSnapshot \/ (\E t \in todo : SchedProbe(t)) \/ SchedProbed
             \/ SchedReread \/ SchedCleanOrphan \/ SchedGate \/ SchedDrain \/ SchedIdle
             \/ (\E j \in Jobs : SchedPick(j)) \/ SchedReplan \/ SchedReplanRefused
    BY <1>5 DEF SchedSnapshot, SchedProbe, SchedProbed, SchedReread, SchedCleanOrphan,
       SchedGate, SchedDrain, SchedIdle, SchedPick, SchedReplan, SchedReplanRefused, Die, ActiveMoves
  <1>6. CASE \/ SchedLaunch \/ SchedLock \/ SchedReconcile \/ SchedReconcileRefused
             \/ SchedMarkRefused \/ SchedSpawn \/ SchedReap
             \/ SchedReadState \/ SchedClean \/ SchedAbort
             \/ SchedAbandon \/ SchedGiveUp \/ SchedGiveUpRefused
    BY <1>6 DEF SchedLaunch, SchedLock, SchedReconcile, SchedReconcileRefused,
       SchedMarkRefused, SchedSpawn, SchedReap, SchedReadState, SchedClean, SchedAbort,
       SchedAbandon, SchedGiveUp, SchedGiveUpRefused, EndTo, Abort, Die, ActiveMoves
  <1>7. CASE SchedMarkRunning \/ SchedRegister
    BY <1>1, <1>7 DEF SchedMarkRunning, SchedRegister, BindingOK, BusyPC, SchedPC,
       SpawnMoves, ActiveMoves
  <1>8. ASSUME NEW c \in Clients, ClientRequest(c) \/ ClientStep(c)
        PROVE  (sched' = "spawn" => SpawnMoves) /\ ActiveMoves
    <2>1. UNCHANGED <<sched, cur, active>>
      BY <1>8 DEF ClientRequest, ClientSubmit, ClientResume, ClientPause, ClientCancel,
         ClientShutdown, ClientStep, ClientStop, ClientSignal, ClientKill, ClientFinish
    <2> QED
      BY <1>8, <2>1, ClientKeepsAttempts DEF SpawnMoves, ActiveMoves
  <1>9. ASSUME NEW p \in Proc, ChildStep(p) \/ ChildFail(p)
        PROVE  (sched' = "spawn" => SpawnMoves) /\ ActiveMoves
    <2>1. UNCHANGED childFrame
      BY <1>9 DEF ChildStep, ChildFail, ChildOpen, ChildLock, ChildLockTimeout,
         ChildStart, ChildCheckpoint, ChildFence, ChildPublish, ChildReceipt, ChildSucceed
    <2> QED
      BY <2>1 DEF SpawnMoves, ActiveMoves, storeVars
  <1>10. CASE MainStop \/ MainExit \/ Crash \/ Start
    BY <1>10 DEF MainStop, MainExit, Crash, Start, Stopping, SpawnMoves, ActiveMoves, storeVars
  <1>11. CASE UNCHANGED vars
    BY <1>11 DEF vars, storeVars, SpawnMoves, ActiveMoves
  <1> QED
    BY <1>2, <1>3, <1>4, <1>5, <1>6, <1>7, <1>8, <1>9, <1>10, <1>11 DEF Next, SchedStep

-----------------------------------------------------------------------------
(* A file job runs once.                                                   *)

(* No child is ahead of the attempts of its job, and the next attempt has  *)
(* no child yet.                                                           *)
ChildInv ==
  /\ \A p \in Proc : child[p].phase # "none" => p[2] <= jobs[p[1]].attempt
  /\ active \in Proc => active[2] <= jobs[active[1]].attempt
  /\ sched = "spawn" /\ jobs[cur].attempt \in Attempts
       => child[<<cur, jobs[cur].attempt>>].phase = "none"

(* The one child of a file job that has published does not do it again.    *)
OutputInv ==
  \A j \in Jobs \ Resumable :
    /\ published[j] <= 1
    /\ published[j] = 1 => child[<<j, 1>>].phase \in PastPublish

FileInv == Typed /\ FileStoreInv /\ ChildInv /\ OutputInv

(* No step of the server lowers the attempt count of a job.                *)
LEMMA AttemptsGrow ==
  ASSUME Typed, [Next]_vars, NEW k \in Jobs
  PROVE  /\ jobs[k].attempt \in Nat /\ jobs'[k].attempt \in Nat
         /\ jobs[k].attempt <= jobs'[k].attempt
  <1>1. jobs[k].attempt \in Nat
    BY DEF Typed, TypeOK, StoreTypeOK, Job
  <1>2. jobs'[k].attempt \in {jobs[k].attempt, jobs[k].attempt + 1}
    <2>1. CASE StoreNext
      BY <2>1, AttemptGrows DEF Typed, TypeOK
    <2> QED
      BY <2>1, NextOnStore DEF storeVars
  <1> QED
    BY <1>1, <1>2

(* Every step keeps the numbering of the children: execute_job spawns the  *)
(* child of the attempt mark_running has just counted.                     *)
LEMMA ChildInvStep ==
  ASSUME FileInv, [Next]_vars
  PROVE  ChildInv'
  <1>0. Typed /\ ChildInv /\ ServerTypeOK /\ BindingOK
    BY TypeParts DEF FileInv, Typed
  <1>1. ASSUME NEW p \in Proc, child'[p].phase # "none"
        PROVE  p[2] <= jobs'[p[1]].attempt
    <2>1. p[1] \in Jobs /\ p[2] \in Nat
      BY BoundAssumption DEF Proc
    <2>2. p[2] <= jobs[p[1]].attempt
      <3>1. CASE child[p].phase # "none" \/ active = p
        BY <1>0, <3>1 DEF ChildInv
      <3>2. CASE p = <<cur, jobs[cur].attempt>>
        BY <1>0, <2>1, <3>2 DEF Typed, TypeOK, StoreTypeOK, Job
      <3>3. ASSUME NEW q \in Proc, ChildStep(q) \/ ChildFail(q)
            PROVE  child[p].phase # "none"
        <4>1. child[q].phase # "none"
          BY <1>0, <3>3, ChildMoves DEF Alive, LivePhase, LockedPhase
        <4> QED
          BY <1>0, <1>1, <3>3, <4>1, ChildMoves
      <3> QED
        BY <1>0, <1>1, <3>1, <3>2, <3>3, DaemonMoves DEF Next
    <2>3. jobs[p[1]].attempt \in Nat /\ jobs[p[1]].attempt <= jobs'[p[1]].attempt
      BY <1>0, <2>1, AttemptsGrow
    <2> QED
      BY <1>0, <2>1, <2>2, <2>3, AttemptsGrow
  <1>2. ASSUME active' \in Proc
        PROVE  active'[2] <= jobs'[active'[1]].attempt
    <2>1. active'[1] \in Jobs /\ active'[2] \in Nat
      BY <1>2, BoundAssumption DEF Proc
    <2>2. active'[2] <= jobs[active'[1]].attempt
      <3>1. CASE active' = active
        BY <1>0, <1>2, <3>1 DEF ChildInv
      <3>2. CASE active' = <<cur, jobs[cur].attempt>>
        BY <2>1, <3>2
      <3>3. active' # NoProc
        BY <1>2, NoJobAssumption DEF NoProc, Proc
      <3> QED
        BY <1>0, <3>1, <3>2, <3>3, SchedMoves DEF ActiveMoves
    <2> QED
      BY <1>0, <2>1, <2>2, AttemptsGrow
  <1>3. ASSUME sched' = "spawn", jobs'[cur'].attempt \in Attempts
        PROVE  child'[<<cur', jobs'[cur'].attempt>>].phase = "none"
    <2>0. SpawnMoves
      BY <1>0, <1>3, SchedMoves
    <2>1. CASE sched = "mark"
      <3> DEFINE p == <<cur, jobs'[cur].attempt>>
      <3>0. /\ cur \in Jobs /\ cur' = cur /\ child' = child /\ p \in Proc
            /\ jobs[cur].attempt \in Nat
            /\ jobs'[cur].attempt = jobs[cur].attempt + 1
        <4>1. jobs \in [Jobs -> Job] /\ cur \in Jobs /\ cur' = cur /\ child' = child
          BY <1>0, <2>0, <2>1 DEF SpawnMoves, Typed, TypeOK, StoreTypeOK
        <4>2. jobs[cur] \in Job
          BY <4>1
        <4>3. jobs' = [jobs EXCEPT ![cur] = [jobs[cur] EXCEPT !.state = "Running",
                                         !.attempt = @ + 1, !.pid = TRUE]]
          BY <2>0, <2>1 DEF SpawnMoves, MarkRunning, Put
        <4>4. jobs'[cur].attempt = jobs[cur].attempt + 1
          BY <4>1, <4>2, <4>3 DEF Job
        <4> QED
          BY <1>3, <4>1, <4>2, <4>4 DEF Job, Proc
      <3>1. child[p].phase # "none" => jobs[cur].attempt + 1 <= jobs[cur].attempt
        BY <1>0, <3>0 DEF ChildInv
      <3> QED
        BY <3>0, <3>1
    <2>2. CASE sched = "spawn"
      <3> DEFINE p == <<cur, jobs[cur].attempt>>
      <3>0. /\ cur \in Jobs /\ cur' = cur /\ jobs'[cur].attempt = jobs[cur].attempt
            /\ p \in Proc /\ child[p].phase = "none"
        BY <1>0, <1>3, <2>0, <2>2 DEF SpawnMoves, BindingOK, BusyPC, SchedPC, ChildInv, Proc
      <3>1. CASE \E q \in Proc : ChildStep(q) \/ ChildFail(q)
        <4>1. PICK q \in Proc : ChildStep(q) \/ ChildFail(q)
          BY <3>1
        <4>2. q # p
          BY <1>0, <3>0, <4>1, ChildMoves DEF Alive, LivePhase, LockedPhase
        <4>3. child'[p] = child[p]
          BY <1>0, <3>0, <4>1, <4>2, ChildMoves
        <4> QED
          BY <3>0, <4>3
      <3>2. ~SchedSpawn
        BY <1>3 DEF SchedSpawn, Goto
      <3>3. CASE \/ SchedStep \/ SchedFailure
                 \/ (\E c \in Clients : ClientRequest(c) \/ ClientStep(c))
                 \/ MainStop \/ MainExit \/ Crash \/ Start \/ UNCHANGED vars
        <4>1. child'[p].phase = child[p].phase
          BY <1>0, <2>2, <3>0, <3>2, <3>3, DaemonMoves
        <4> QED
          BY <3>0, <4>1
      <3> QED
        BY <3>1, <3>3 DEF Next
    <2> QED
      BY <2>0, <2>1, <2>2 DEF SpawnMoves
  <1> QED
    BY <1>1, <1>2, <1>3 DEF ChildInv

(* Every step keeps it: only the first child of a file job publishes, and  *)
(* only once.                                                              *)
LEMMA OutputInvStep ==
  ASSUME FileInv, [Next]_vars
  PROVE  OutputInv'
  <1>0. /\ Typed /\ ChildInv /\ OutputInv /\ FileStoreInv
        /\ published \in [Jobs -> Nat] /\ child \in [Proc -> Process] /\ BindingOK
    BY TypeParts DEF FileInv, Typed, ServerTypeOK
  <1>1. SUFFICES ASSUME NEW j \in Jobs \ Resumable
        PROVE  /\ published'[j] <= 1
               /\ published'[j] = 1 => child'[<<j, 1>>].phase \in PastPublish
    BY DEF OutputInv
  <1>2. /\ published[j] \in Nat /\ published[j] <= 1
        /\ published[j] = 1 => child[<<j, 1>>].phase \in PastPublish
        /\ jobs[j].attempt \in Nat /\ jobs[j].attempt <= 1
    BY <1>0 DEF OutputInv, FileStoreInv, Typed, TypeOK, StoreTypeOK, Job
  <1>3. ASSUME NEW q \in Proc, q[1] = j, child[q].phase # "none"
        PROVE  q = <<j, 1>>
    <2>0. q[2] \in Attempts /\ q = <<q[1], q[2]>>
      BY DEF Proc
    <2>1. q[2] \in Nat \ {0} /\ q = <<q[1], q[2]>>
      BY <2>0, BoundAssumption
    <2>2. q[2] <= jobs[j].attempt
      BY <1>0, <1>3 DEF ChildInv
    <2>3. q[2] = 1
      BY <1>2, <2>1, <2>2
    <2> QED
      BY <1>3, <2>1, <2>3
  <1>4. ASSUME NEW q \in Proc, ChildStep(q) \/ ChildFail(q)
        PROVE  /\ published'[j] <= 1
               /\ published'[j] = 1 => child'[<<j, 1>>].phase \in PastPublish
    <2>1. child[q].phase # "none"
      BY <1>0, <1>4, ChildMoves DEF Alive, LivePhase, LockedPhase
    <2>2. CASE q[1] = j
      <3>1. q = <<j, 1>>
        BY <1>3, <2>1, <2>2
      <3>3. child[q].phase \in PastPublish => child'[q].phase \in PastPublish
        BY <1>0, <1>4, ChildMoves
      <3>4. CASE published' = published
        BY <1>2, <3>1, <3>3, <3>4
      <3>5. CASE /\ published' = [published EXCEPT ![q[1]] = @ + 1]
                 /\ child[q].phase = "cleared" /\ child'[q].phase = "published"
        <4>1. published[j] = 0
          BY <1>2, <3>1, <3>5 DEF PastPublish, ExitPhase
        <4>2. published'[j] = 1
          BY <1>0, <2>2, <3>5, <4>1
        <4> QED
          BY <3>1, <3>5, <4>2 DEF PastPublish
      <3> QED
        BY <1>0, <1>4, <3>4, <3>5, ChildMoves
    <2>3. CASE q[1] # j
      <3>1. published'[j] = published[j]
        BY <1>0, <1>4, <2>3, ChildMoves
      <3>2. child'[<<j, 1>>] = child[<<j, 1>>]
        BY <1>0, <1>4, <2>3, ChildMoves, BoundAssumption DEF Proc
      <3> QED
        BY <1>2, <3>1, <3>2
    <2> QED
      BY <2>2, <2>3
  <1>5. CASE \/ SchedStep \/ SchedFailure
             \/ (\E c \in Clients : ClientRequest(c) \/ ClientStep(c))
             \/ MainStop \/ MainExit \/ Crash \/ Start \/ UNCHANGED vars
    <2>1. published' = published
      <3>1. <<j, 1>> \in Proc
        BY BoundAssumption DEF Proc
      <3> QED
        BY <1>0, <1>5, <3>1, DaemonMoves
    <2> DEFINE q == <<j, 1>>
    <2>2. ASSUME published[j] = 1
          PROVE  child'[q].phase \in PastPublish
      <3>1. q \in Proc /\ child[q].phase \in PastPublish
        BY <1>2, <2>2, BoundAssumption DEF Proc
      <3>2. ~(SchedSpawn /\ q = <<cur, jobs[cur].attempt>>)
        <4> SUFFICES ASSUME SchedSpawn, q = <<cur, jobs[cur].attempt>> PROVE FALSE
          OBVIOUS
        <4>1. child[q].phase = "none"
          BY <1>0 DEF SchedSpawn, ChildInv
        <4> QED
          BY <3>1, <4>1 DEF PastPublish, ExitPhase
      <3>3. \/ child'[q].phase = child[q].phase
            \/ child'[q].phase \in {"failed", "gone"}
        BY <1>0, <1>5, <3>1, <3>2, DaemonMoves
      <3> QED
        BY <3>1, <3>3 DEF PastPublish, ExitPhase
    <2> QED
      BY <1>2, <2>1, <2>2
  <1> QED
    BY <1>4, <1>5 DEF Next

(* The inductive invariant for file jobs.                                  *)
LEMMA FileInvariance == Spec => []FileInv
  <1>1. Init => FileInv
    <2> SUFFICES ASSUME Init PROVE FileInv
      OBVIOUS
    <2>1. FileStoreInv
      BY DEF Init, StoreInit, FileStoreInv
    <2>2. ChildInv
      BY NoJobAssumption DEF Init, ChildInv, NoChild, NoProc, Proc
    <2>3. OutputInv
      BY DEF Init, OutputInv
    <2> QED
      BY <2>1, <2>2, <2>3, InitTyped DEF FileInv
  <1>2. FileInv /\ [Next]_vars => FileInv'
    <2> SUFFICES ASSUME FileInv, [Next]_vars PROVE FileInv'
      OBVIOUS
    <2>1. FileStoreInv'
      <3>1. CASE StoreNext
        BY <3>1, FileStoreStep DEF FileInv, Typed, TypeOK
      <3>2. CASE UNCHANGED storeVars
        BY <3>2 DEF FileInv, FileStoreInv, storeVars
      <3> QED
        BY <3>1, <3>2, NextOnStore DEF FileInv
    <2> QED
      BY <2>1, TypedStep, ChildInvStep, OutputInvStep DEF FileInv
  <1> QED
    BY <1>1, <1>2, PTL DEF Spec

(* A file job is never started twice and its output is never published     *)
(* twice, for any number of requests, clients and daemon crashes.          *)
THEOREM FileJobsRunOnce == Spec => []FileRunsOnce
  <1>1. FileInv => FileRunsOnce
    BY DEF FileInv, FileStoreInv, OutputInv, FileRunsOnce
  <1> QED
    BY <1>1, FileInvariance, PTL

-----------------------------------------------------------------------------
(* What is reported Completed was published.                               *)

(* Where the scheduler is about to report a job Completed on the strength  *)
(* of a receipt it has seen.                                               *)
ReceiptSeen == \/ sched \in {"reread", "settleOrphan", "giveUp"} /\ seen.receipt
               \/ sched = "early"

(* A receipt is there, or was seen, only after the output was published.   *)
ReceiptInv ==
  /\ \A j \in Jobs : receipt[j] # NoFile => published[j] > 0
  /\ \A p \in Proc : child[p].phase \in {"published", "receipted"} => published[p[1]] > 0
  /\ ReceiptSeen => published[cur] > 0

OutcomeInv == Typed /\ ReceiptInv /\ CompletedIsPublished

(* The four places that report a job Completed have a receipt for it.      *)
LEMMA CompletionNeedsReceipt ==
  ASSUME Typed, [Next]_vars, NEW j \in Jobs, jobs'[j].state = "Completed"
  PROVE  \/ jobs[j].state = "Completed"
         \/ /\ cur = j /\ sched' \in {"cleanOrphan", "clean"}
            /\ ReceiptSeen \/ (sched = "settle" /\ ValidReceipt(j))
  <1>0. /\ StoreTypeOK /\ BindingOK /\ jobs \in [Jobs -> Job]
        /\ cur \in Jobs \cup {NoJob}
    BY DEF Typed, TypeOK, StoreTypeOK
  <1>1. ASSUME OtherNext \/ UNCHANGED storeVars
        PROVE  jobs[j].state = "Completed"
    BY <1>0, <1>1, OtherStepsComplete DEF storeVars
  <1>2. ASSUME Terminalize(cur, "Completed"), cur \in Jobs
        PROVE  cur = j \/ jobs[j].state = "Completed"
    BY <1>0, <1>2 DEF Terminalize, Put
  <1> USE DEF OtherNext, OtherStep
  <1>3. CASE RecoverStep
    <2>0. cur \in Jobs
      BY <1>0, <1>3 DEF RecoverStep, RecoverCompleted, RecoverCancelled, RecoverPaused,
         RecoverRequeued, RecoverUncertain, RecoverRefused, Settling, BindingOK, BusyPC, SchedPC
    <2>1. CASE RecoverCompleted
      BY <1>2, <2>0, <2>1 DEF RecoverCompleted, End, ReceiptSeen, Settled, Goto
    <2>2. CASE \/ RecoverCancelled \/ RecoverPaused \/ RecoverRequeued
               \/ RecoverUncertain \/ RecoverRefused
      BY <1>1, <2>0, <2>2 DEF RecoverCancelled, RecoverPaused, RecoverRequeued,
         RecoverUncertain, RecoverRefused, End
    <2> QED
      BY <1>3, <2>1, <2>2 DEF RecoverStep
  <1>4. CASE SettleStep
    <2>0. cur \in Jobs
      BY <1>0, <1>4 DEF SettleStep, SettleCompleted, SettlePaused, SettleCancelled,
         SettleFailed, SettleRefused, BindingOK, BusyPC, SchedPC
    <2>1. CASE SettleCompleted
      <3>1. /\ sched = "settle" /\ sched' = "clean"
            /\ ValidReceipt(cur) /\ Terminalize(cur, "Completed")
        BY <2>1 DEF SettleCompleted, EndTo, End, Goto
      <3> QED
        BY <1>2, <2>0, <3>1
    <2>2. CASE SettlePaused \/ SettleCancelled \/ SettleFailed \/ SettleRefused
      BY <1>1, <2>0, <2>2 DEF SettlePaused, SettleCancelled, SettleFailed,
         SettleRefused, EndTo, End, Abort
    <2> QED
      BY <1>4, <2>1, <2>2 DEF SettleStep
  <1>5. CASE SchedReconcile \/ SchedGiveUp
    <2>0. cur \in Jobs
      BY <1>0, <1>5 DEF SchedReconcile, SchedGiveUp, BindingOK, BusyPC, SchedPC
    <2>1. CASE SchedReconcile
      BY <1>2, <2>0, <2>1 DEF SchedReconcile, EndTo, End, ReceiptSeen, Goto
    <2>2. CASE SchedGiveUp /\ seen.receipt
      BY <1>2, <2>0, <2>2 DEF SchedGiveUp, EndTo, End, ReceiptSeen, Goto
    <2>3. CASE SchedGiveUp /\ ~seen.receipt
      BY <1>1, <2>0, <2>3 DEF SchedGiveUp, EndTo, End
    <2> QED
      BY <1>5, <2>1, <2>2, <2>3
  <1>6. CASE SchedFailure
    BY <1>1, <1>6 DEF SchedFailure, SchedPlanFails, SchedLaunchFails, SchedSpawnFails,
       SchedReaderFails, SchedTimeout, Abort
  <1>7. CASE SchedReplan
    <2>1. cur \in Jobs /\ jobs[cur].plan \in Nat /\ jobs[cur].attempt \in Nat
      BY <1>0, <1>7 DEF SchedReplan, BindingOK, BusyPC, SchedPC, Job
    <2> QED
      BY <1>1, <1>7, <2>1 DEF SchedReplan
  <1>8. CASE SchedGate
    BY <1>1, <1>8 DEF SchedGate
  <1>9. CASE SchedMarkRunning \/ SchedRegister
    BY <1>0, <1>1, <1>9 DEF SchedMarkRunning, SchedRegister, BindingOK, BusyPC, SchedPC
  <1>10. CASE \/ SchedSnapshot \/ (\E t \in todo : SchedProbe(t)) \/ SchedProbed
              \/ SchedReread \/ SchedCleanOrphan \/ SchedDrain \/ SchedIdle
              \/ (\E k \in Jobs : SchedPick(k)) \/ SchedReplanRefused \/ SchedLaunch
              \/ SchedLock \/ SchedReconcileRefused \/ SchedMarkRefused \/ SchedSpawn
              \/ SchedReap \/ SchedReadState \/ SchedClean \/ SchedAbort
              \/ SchedAbandon \/ SchedGiveUpRefused
    BY <1>1, <1>10 DEF SchedSnapshot, SchedProbe, SchedProbed, SchedReread,
       SchedCleanOrphan, SchedDrain, SchedIdle, SchedPick, SchedReplanRefused, SchedLaunch,
       SchedLock, SchedReconcileRefused, SchedMarkRefused, SchedSpawn, SchedReap,
       SchedReadState, SchedClean, SchedAbort, SchedAbandon, SchedGiveUpRefused, Abort
  <1>11. CASE \E p \in Proc : ChildStep(p) \/ ChildFail(p)
    <2>1. UNCHANGED childFrame
      BY <1>11 DEF ChildStep, ChildFail, ChildOpen, ChildLock, ChildLockTimeout,
         ChildStart, ChildCheckpoint, ChildFence, ChildPublish, ChildReceipt, ChildSucceed
    <2> QED
      BY <1>1, <2>1 DEF childFrame
  <1>12. ASSUME NEW c \in Clients, ClientRequest(c)
         PROVE  jobs[j].state = "Completed"
    BY <1>1, <1>12 DEF ClientRequest, ClientSubmit, ClientResume, ClientPause,
       ClientCancel, ClientShutdown
  <1>13. ASSUME NEW c \in Clients, ClientStep(c)
         PROVE  jobs[j].state = "Completed"
    BY <1>0, <1>1, <1>13 DEF ClientStep, ClientStop, ClientSignal, ClientKill,
       ClientFinish, End, BindingOK, ControlPC
  <1>14. CASE MainStop \/ MainExit \/ Crash \/ Start
    BY <1>1, <1>14 DEF MainStop, MainExit, Crash, Start, Stopping
  <1>15. CASE UNCHANGED vars
    BY <1>1, <1>15 DEF vars
  <1> QED
    BY <1>3, <1>4, <1>5, <1>6, <1>7, <1>8, <1>9, <1>10, <1>11, <1>12, <1>13, <1>14,
       <1>15 DEF Next, SchedStep

(* A receipt appears only through a child that has published.              *)
LEMMA ReceiptAppears ==
  ASSUME Typed, [Next]_vars, NEW j \in Jobs, receipt'[j] # NoFile
  PROVE  \/ receipt'[j] = receipt[j]
         \/ \E p \in Proc : p[1] = j /\ child[p].phase = "published"
  <1>0. receipt \in [Jobs -> Int]
    BY TypeParts DEF Typed, ServerTypeOK
  <1>1. ASSUME (\E S : RemoveReceipts(S)) \/ receipt' = receipt
        PROVE  receipt'[j] = receipt[j]
    BY <1>1 DEF RemoveReceipts
  <1> USE DEF fileVars, schedFrame, requestFrame, clientFrame, childFrame
  <1>2. CASE RecoverStep
    BY <1>1, <1>2 DEF RecoverStep, RecoverCompleted, RecoverCancelled, RecoverPaused,
       RecoverRequeued, RecoverUncertain, RecoverRefused, End
  <1>3. CASE SettleStep
    BY <1>1, <1>3 DEF SettleStep, SettleCompleted, SettlePaused, SettleCancelled,
       SettleFailed, SettleRefused, EndTo, End, Abort
  <1>4. CASE SchedFailure
    BY <1>1, <1>4 DEF SchedFailure, SchedPlanFails, SchedLaunchFails, SchedSpawnFails,
       SchedReaderFails, SchedTimeout, Abort
  <1>5. CASE \/ SchedSnapshot \/ (\E t \in todo : SchedProbe(t)) \/ SchedProbed
             \/ SchedReread \/ SchedCleanOrphan \/ SchedGate \/ SchedDrain \/ SchedIdle
             \/ (\E k \in Jobs : SchedPick(k)) \/ SchedReplan \/ SchedReplanRefused
    BY <1>1, <1>5 DEF SchedSnapshot, SchedProbe, SchedProbed, SchedReread,
       SchedCleanOrphan, SchedGate, SchedDrain, SchedIdle, SchedPick, SchedReplan,
       SchedReplanRefused, RemoveFiles
  <1>6. CASE \/ SchedLaunch \/ SchedLock \/ SchedReconcile \/ SchedReconcileRefused
             \/ SchedMarkRunning \/ SchedMarkRefused \/ SchedSpawn \/ SchedRegister
    BY <1>1, <1>6 DEF SchedLaunch, SchedLock, SchedReconcile, SchedReconcileRefused,
       SchedMarkRunning, SchedMarkRefused, SchedSpawn, SchedRegister, EndTo, End, Abort
  <1>7. CASE \/ SchedReap \/ SchedReadState \/ SchedClean \/ SchedAbort
             \/ SchedAbandon \/ SchedGiveUp \/ SchedGiveUpRefused
    BY <1>1, <1>7 DEF SchedReap, SchedReadState, SchedClean, SchedAbort, SchedAbandon,
       SchedGiveUp, SchedGiveUpRefused, EndTo, End, RemoveFiles
  <1>8. ASSUME NEW c \in Clients, ClientRequest(c) \/ ClientStep(c)
        PROVE  receipt'[j] = receipt[j]
    BY <1>1, <1>8 DEF ClientRequest, ClientSubmit, ClientResume, ClientPause,
       ClientCancel, ClientShutdown, ClientStep, ClientStop, ClientSignal, ClientKill,
       ClientFinish, End
  <1>9. ASSUME NEW p \in Proc, ChildStep(p) \/ ChildFail(p)
        PROVE  receipt'[j] = receipt[j] \/ (p[1] = j /\ child[p].phase = "published")
    <2>1. CASE ChildReceipt(p)
      BY <1>0, <2>1 DEF ChildReceipt
    <2>2. CASE receipt' = receipt
      BY <1>1, <2>2
    <2> QED
      BY <1>9, <2>1, <2>2 DEF ChildStep, ChildFail, ChildOpen, ChildLock,
         ChildLockTimeout, ChildStart, ChildCheckpoint, ChildFence, ChildPublish,
         ChildSucceed
  <1>10. CASE MainStop \/ MainExit \/ Crash \/ Start
    BY <1>1, <1>10 DEF MainStop, MainExit, Crash, Start, Stopping
  <1>11. CASE UNCHANGED vars
    BY <1>1, <1>11 DEF vars
  <1> QED
    BY <1>2, <1>3, <1>4, <1>5, <1>6, <1>7, <1>8, <1>9, <1>10, <1>11 DEF Next, SchedStep

(* The scheduler believes in a receipt only when there was one.            *)
LEMMA ReceiptIsSeen ==
  ASSUME Typed, [Next]_vars, ReceiptSeen'
  PROVE  \/ ReceiptSeen /\ cur' = cur
         \/ /\ cur' \in Jobs /\ ValidReceipt(cur')
            /\ jobs' = jobs /\ receipt' = receipt
  <1> DEFINE Goal == \/ ReceiptSeen /\ cur' = cur
                     \/ /\ cur' \in Jobs /\ ValidReceipt(cur')
                        /\ jobs' = jobs /\ receipt' = receipt
  <1>0. /\ seen \in [state : JobState, receipt : BOOLEAN, exit : ChildPhase]
        /\ todo \subseteq [job : Jobs, state : JobState] /\ BindingOK
    BY TypeParts DEF Typed, ServerTypeOK
  <1>1. CASE UNCHANGED schedVars
    BY <1>1 DEF ReceiptSeen, schedVars
  <1>2. CASE sched' \notin {"reread", "settleOrphan", "giveUp", "early"}
    BY <1>2 DEF ReceiptSeen
  <1> USE DEF Goto
  <1>3. CASE RecoverStep \/ SettleStep
    BY <1>2, <1>3 DEF RecoverStep, RecoverCompleted, RecoverCancelled, RecoverPaused,
       RecoverRequeued, RecoverUncertain, RecoverRefused, Settled, Die, SettleStep,
       SettleCompleted, SettlePaused, SettleCancelled, SettleFailed, SettleRefused,
       EndTo, Abort
  <1>4. CASE SchedFailure
    BY <1>1, <1>2, <1>4 DEF SchedFailure, SchedPlanFails, SchedLaunchFails,
       SchedSpawnFails, SchedReaderFails, SchedTimeout, Abort
  <1>5. ASSUME NEW t \in todo, SchedProbe(t)
        PROVE  Goal
    <2>1. t.job \in Jobs
      BY <1>0
    <2>2. CASE sched' = "reread"
      <3>1. /\ cur' = t.job /\ seen' = [seen EXCEPT !.receipt = ValidReceipt(t.job)]
            /\ jobs' = jobs /\ receipt' = receipt
        BY <1>5, <2>2 DEF SchedProbe, storeVars
      <3>2. seen'.receipt = ValidReceipt(t.job)
        BY <1>0, <3>1
      <3> QED
        BY <2>1, <2>2, <3>1, <3>2 DEF ReceiptSeen
    <2> QED
      BY <1>2, <1>5, <2>2 DEF SchedProbe
  <1>6. CASE SchedReread
    <2>1. CASE Live(cur)
      <3>1. sched = "reread" /\ cur' = cur /\ seen' = [seen EXCEPT !.state = jobs[cur].state]
        BY <1>6, <2>1 DEF SchedReread
      <3>2. seen'.receipt = seen.receipt
        BY <1>0, <3>1
      <3> QED
        BY <1>6, <2>1, <3>1, <3>2 DEF SchedReread, ReceiptSeen
    <2> QED
      BY <1>2, <1>6, <2>1 DEF SchedReread
  <1>7. CASE SchedLock
    <2>1. cur \in Jobs
      BY <1>0, <1>7 DEF SchedLock, BindingOK, BusyPC, SchedPC
    <2>2. CASE sched' = "early"
      BY <1>7, <2>1, <2>2 DEF SchedLock, storeVars
    <2> QED
      BY <1>2, <1>7, <2>2 DEF SchedLock
  <1>8. CASE SchedAbandon
    <2>1. cur \in Jobs
      BY <1>0, <1>8 DEF SchedAbandon, BindingOK, BusyPC, SchedPC
    <2>2. CASE Live(cur)
      <3>1. /\ cur' = cur /\ sched' = "giveUp"
            /\ seen' = [NothingSeen EXCEPT !.receipt = ValidReceipt(cur)]
            /\ jobs' = jobs /\ receipt' = receipt
        BY <1>8, <2>2 DEF SchedAbandon, storeVars, fileVars
      <3>2. seen'.receipt = ValidReceipt(cur)
        BY <3>1 DEF NothingSeen
      <3> QED
        BY <2>1, <3>1, <3>2 DEF ReceiptSeen
    <2> QED
      BY <1>2, <1>8, <2>2 DEF SchedAbandon
  <1>9. CASE \/ SchedSnapshot \/ SchedProbed \/ SchedCleanOrphan \/ SchedGate
             \/ SchedDrain \/ SchedIdle \/ (\E j \in Jobs : SchedPick(j)) \/ SchedReplan
             \/ SchedReplanRefused \/ SchedLaunch \/ SchedReconcile
             \/ SchedReconcileRefused \/ SchedMarkRunning \/ SchedMarkRefused
             \/ SchedSpawn \/ SchedRegister \/ SchedReap \/ SchedReadState
             \/ SchedClean \/ SchedAbort \/ SchedGiveUp \/ SchedGiveUpRefused
    BY <1>2, <1>9 DEF SchedSnapshot, SchedProbed, SchedCleanOrphan, SchedGate,
       SchedDrain, SchedIdle, SchedPick, SchedReplan, SchedReplanRefused, SchedLaunch,
       SchedReconcile, SchedReconcileRefused, SchedMarkRunning, SchedMarkRefused,
       SchedSpawn, SchedRegister, SchedReap, SchedReadState, SchedClean, SchedAbort,
       SchedGiveUp, SchedGiveUpRefused, EndTo, Abort, Die
  <1>10. CASE \/ \E c \in Clients : ClientRequest(c) \/ ClientStep(c)
              \/ \E p \in Proc : ChildStep(p) \/ ChildFail(p)
    <2>1. ASSUME NEW c \in Clients, ClientRequest(c) \/ ClientStep(c)
          PROVE  UNCHANGED schedVars
      BY <2>1 DEF ClientRequest, ClientSubmit, ClientResume, ClientPause, ClientCancel,
         ClientShutdown, ClientStep, ClientStop, ClientSignal, ClientKill, ClientFinish,
         requestFrame, clientFrame
    <2>2. ASSUME NEW p \in Proc, ChildStep(p) \/ ChildFail(p)
          PROVE  UNCHANGED schedVars
      BY <2>2 DEF ChildStep, ChildFail, ChildOpen, ChildLock, ChildLockTimeout,
         ChildStart, ChildCheckpoint, ChildFence, ChildPublish, ChildReceipt,
         ChildSucceed, childFrame
    <2> QED
      BY <1>1, <1>10, <2>1, <2>2
  <1>11. CASE MainStop \/ MainExit \/ Crash \/ Start
    BY <1>1, <1>2, <1>11 DEF MainStop, MainExit, Crash, Start, Stopping
  <1>12. CASE UNCHANGED vars
    BY <1>1, <1>12 DEF vars
  <1> QED
    BY <1>3, <1>4, <1>5, <1>6, <1>7, <1>8, <1>9, <1>10, <1>11, <1>12
       DEF Next, SchedStep

(* Outputs are never taken back, and a child that is past its rename has   *)
(* published.                                                              *)
LEMMA PublishedGrows ==
  ASSUME Typed, [Next]_vars, NEW j \in Jobs
  PROVE  /\ published[j] \in Nat /\ published[j] <= published'[j]
         /\ \A p \in Proc :
              p[1] = j /\ child[p].phase # "published" /\ child'[p].phase = "published"
                => published'[j] > 0
  <1>0. published \in [Jobs -> Nat] /\ child \in [Proc -> Process]
    BY TypeParts DEF Typed, ServerTypeOK
  <1>1. ASSUME NEW q \in Proc, ChildStep(q) \/ ChildFail(q)
        PROVE  /\ published[j] <= published'[j]
               /\ \A p \in Proc :
                    p[1] = j /\ child[p].phase # "published" /\ child'[p].phase = "published"
                      => published'[j] > 0
    <2>1. CASE \/ published' = published /\ child'[q].phase # "published"
               \/ published' = published /\ published[q[1]] > 0
      BY <1>0, <1>1, <2>1, ChildMoves
    <2>2. CASE published' = [published EXCEPT ![q[1]] = @ + 1]
      <3>1. q[1] = j => published'[j] = published[j] + 1
        BY <1>0, <2>2
      <3>2. q[1] # j => published'[j] = published[j]
        BY <1>0, <2>2
      <3>3. \A p \in Proc : p # q => child'[p] = child[p]
        BY <1>0, <1>1, ChildMoves
      <3> QED
        BY <1>0, <3>1, <3>2, <3>3
    <2> QED
      BY <1>1, <2>1, <2>2, ChildMoves
  <1>2. CASE \/ SchedStep \/ SchedFailure
             \/ (\E c \in Clients : ClientRequest(c) \/ ClientStep(c))
             \/ MainStop \/ MainExit \/ Crash \/ Start \/ UNCHANGED vars
    <2>1. <<j, 1>> \in Proc
      BY BoundAssumption DEF Proc
    <2>2. published' = published
      BY <1>2, <2>1, DaemonMoves
    <2>3. \A p \in Proc : child'[p].phase = "published" => child[p].phase = "published"
      BY <1>2, DaemonMoves
    <2> QED
      BY <1>0, <2>2, <2>3
  <1> QED
    BY <1>0, <1>1, <1>2 DEF Next

(* The inductive invariant for outcomes is kept by every step.             *)
LEMMA OutcomeInvStep == OutcomeInv /\ [Next]_vars => OutcomeInv'
  <1> SUFFICES ASSUME OutcomeInv, [Next]_vars PROVE OutcomeInv'
    OBVIOUS
  <1>0. Typed /\ ReceiptInv /\ CompletedIsPublished
    BY DEF OutcomeInv
  <1>1. \A j \in Jobs : published[j] > 0 => published'[j] > 0
    <2> TAKE j \in Jobs
    <2>1. published[j] \in Nat /\ published[j] <= published'[j]
      BY <1>0, PublishedGrows
    <2>2. Typed'
      BY <1>0, TypedStep
    <2>3. published' \in [Jobs -> Nat]
      BY <2>2 DEF Typed, TypeOK
    <2> QED
      BY <2>1, <2>3
  <1>2. ASSUME NEW j \in Jobs, receipt'[j] # NoFile
        PROVE  published'[j] > 0
    <2>1. published[j] > 0
      BY <1>0, <1>2, ReceiptAppears DEF ReceiptInv
    <2> QED
      BY <1>1, <2>1
  <1>3. ASSUME NEW p \in Proc, child'[p].phase \in {"published", "receipted"}
        PROVE  published'[p[1]] > 0
    <2>0. p[1] \in Jobs
      BY DEF Proc
    <2>1. CASE child[p].phase \in {"published", "receipted"}
      BY <1>0, <1>1, <2>0, <2>1 DEF ReceiptInv
    <2>2. CASE child[p].phase \notin {"published", "receipted"}
      <3>1. child'[p].phase # "receipted"
        <4>1. ASSUME NEW q \in Proc, ChildStep(q) \/ ChildFail(q)
              PROVE  child'[p].phase # "receipted"
          BY <1>0, <2>2, <4>1, ChildMoves
        <4> QED
          BY <1>0, <2>2, <4>1, DaemonMoves DEF Next
      <3> QED
        BY <1>0, <1>3, <2>0, <2>2, <3>1, PublishedGrows
    <2> QED
      BY <2>1, <2>2
  <1>4. ASSUME ReceiptSeen'
        PROVE  published'[cur'] > 0
    <2>1. CASE ReceiptSeen /\ cur' = cur
      <3>1. cur \in Jobs
        BY <1>0, <2>1 DEF ReceiptSeen, Typed, BindingOK, BusyPC, SchedPC
      <3> QED
        BY <1>0, <1>1, <2>1, <3>1 DEF ReceiptInv
    <2>2. CASE cur' \in Jobs /\ ValidReceipt(cur')
      BY <1>0, <1>1, <2>2 DEF ReceiptInv, ValidReceipt
    <2> QED
      BY <1>0, <1>4, <2>1, <2>2, ReceiptIsSeen
  <1>5. ASSUME NEW j \in Jobs, jobs'[j].state = "Completed"
        PROVE  published'[j] > 0
    <2>1. published[j] > 0
      <3>1. CASE jobs[j].state = "Completed"
        BY <1>0, <3>1 DEF CompletedIsPublished
      <3>2. CASE cur = j /\ ReceiptSeen
        BY <1>0, <3>2 DEF ReceiptInv
      <3>3. CASE ValidReceipt(j)
        BY <1>0, <3>3 DEF ReceiptInv, ValidReceipt
      <3> QED
        BY <1>0, <1>5, <3>1, <3>2, <3>3, CompletionNeedsReceipt
    <2> QED
      BY <1>1, <2>1
  <1> QED
    BY <1>0, <1>2, <1>3, <1>4, <1>5, TypedStep
       DEF OutcomeInv, ReceiptInv, CompletedIsPublished

(* The inductive invariant for outcomes.                                   *)
LEMMA OutcomeInvariance == Spec => []OutcomeInv
  <1>1. Init => OutcomeInv
    <2> SUFFICES ASSUME Init PROVE OutcomeInv
      OBVIOUS
    <2>1. \A p \in Proc : child[p].phase = "none"
      BY DEF Init, NoChild
    <2> QED
      BY <2>1, InitTyped DEF Init, StoreInit, OutcomeInv, ReceiptInv, ReceiptSeen,
         CompletedIsPublished
  <1> QED
    BY <1>1, OutcomeInvStep, PTL DEF Spec

(* A job that is reported Completed has published its output, whichever    *)
(* thread reported it and however often the daemon had died before.        *)
THEOREM CompletedJobsPublished == Spec => []CompletedIsPublished
  <1>1. OutcomeInv => CompletedIsPublished
    BY DEF OutcomeInv
  <1> QED
    BY <1>1, OutcomeInvariance, PTL

-----------------------------------------------------------------------------
(* The job a scheduler runs, and its child.                                *)

RunningPC == {"spawn", "register", "wait", "read", "settle"}
AttendedPC == RunningPC \cup {"abort", "abandon", "giveUp"}
AskedState == {"PauseRequested", "CancelRequested"}
BusyState == {"Running"} \cup AskedState

(* A daemon that is down has no scheduler; one whose scheduler runs a job  *)
(* finds that job running or asked to stop, and with a process; a request  *)
(* thread that is about to end a job has one that was asked to cancel and  *)
(* has no process.                                                         *)
DownIsOff == daemon = "down" => sched = "off"

CurRuns == sched \in RunningPC => jobs[cur].state \in BusyState /\ jobs[cur].pid

FinishIsDue ==
  \A c \in Clients : client[c].pc = "cancelFinish" =>
     \/ /\ jobs[client[c].job].state = "CancelRequested"
        /\ ~jobs[client[c].job].pid
     \/ Terminal(client[c].job)

(* A child is registered while the scheduler waits for it, and it is the   *)
(* one of the last attempt; a child of this daemon is that one.            *)
RegisteredIsLast == /\ active # NoProc => sched = "wait"
                    /\ sched = "wait" => active = <<cur, jobs[cur].attempt>>

OwnIsLast == \A p \in Proc : OwnChild(p) => /\ sched \in {"register", "wait"}
                                            /\ p = <<cur, jobs[cur].attempt>>

(* A stray belongs to a job that has ended, or that the scheduler is about *)
(* to end with no child registered.                                        *)
EndingPC == {"abort", "abandon", "giveUp"}
StrayIsEnding ==
  \A p \in Proc : Alive(p) /\ child[p].stray =>
     /\ jobs[p[1]].state # "Unsubmitted"
     /\ Terminal(p[1]) \/ (sched \in EndingPC /\ p = <<cur, jobs[cur].attempt>>)

JobsAttended == DownIsOff /\ RunningIsAttended /\ CurRuns /\ FinishIsDue
ChildAttended == RegisteredIsLast /\ OwnIsLast
RunInv == JobsAttended /\ ChildAttended

(* The types the following proofs use.                                     *)
LEMMA TypedParts ==
  ASSUME Typed
  PROVE  /\ jobs \in [Jobs -> Job] /\ nextSequence \in Nat /\ history \in Seq(Jobs)
         /\ control \in [Jobs -> {"none", "Run", "Pause", "Cancel"}]
         /\ lease \in [Jobs -> Nat] /\ receipt \in [Jobs -> Int]
         /\ child \in [Proc -> Process] /\ active \in Proc \cup {NoProc}
         /\ sched \in SchedPC /\ cur \in Jobs \cup {NoJob} /\ held \in Nat
         /\ (sched \in BusyPC => cur \in Jobs)
         /\ (sched = "wait" => active \in Proc)
         /\ todo \subseteq [job : Jobs, state : JobState]
         /\ seen \in [state : JobState, receipt : BOOLEAN, exit : ChildPhase]
         /\ client \in [Clients -> [pc : ClientPC, job : Jobs \cup {NoJob}]]
         /\ (\A c \in Clients : client[c].pc \in ControlPC => client[c].job \in Jobs)
         /\ daemon \in {"accept", "join", "down"}
  BY TypeParts DEF Typed, StoreTypeOK, ServerTypeOK, BindingOK

(* A step that leaves the states of the jobs alone.                        *)
LEMMA QuietAttends ==
  ASSUME Typed, JobsAttended,
         \A k \in Jobs : jobs'[k].state = jobs[k].state /\ jobs'[k].pid = jobs[k].pid,
         client' = client, daemon' = daemon, daemon # "down",
         \/ sched \notin AttendedPC
         \/ cur' = cur /\ sched' \in AttendedPC
         \/ jobs[cur].state # "Running",
         sched' \in RunningPC => sched \in RunningPC /\ cur' = cur
  PROVE  JobsAttended'
  <1>0. /\ \A c \in Clients : client[c].pc \in ControlPC => client[c].job \in Jobs
        /\ (sched \in BusyPC => cur \in Jobs)
    BY TypedParts
  <1>1. RunningIsAttended'
    BY DEF JobsAttended, RunningIsAttended, AttendedPC, RunningPC
  <1>2. CurRuns'
    BY <1>0 DEF JobsAttended, CurRuns, RunningPC, BusyPC, SchedPC
  <1>3. FinishIsDue'
    BY <1>0 DEF JobsAttended, FinishIsDue, Terminal, ControlPC
  <1> QED
    BY <1>1, <1>2, <1>3 DEF JobsAttended, DownIsOff

(* A step of the scheduler that takes the job at hand out of its run.      *)
LEMMA TurnAttends ==
  ASSUME Typed, JobsAttended, cur \in Jobs, NEW from, NEW to, NEW pid,
         Turns(cur, from, to, pid),
         "Running" \notin to, from \subseteq LiveState,
         to \subseteq TerminalState \/ "CancelRequested" \notin from,
         client' = client, daemon' = daemon, daemon # "down", sched' \notin RunningPC
  PROVE  JobsAttended'
  <1>0. \A c \in Clients : client[c].pc \in ControlPC => client[c].job \in Jobs
    BY TypedParts
  <1>1. RunningIsAttended'
    BY DEF JobsAttended, RunningIsAttended, Turns
  <1>2. CurRuns'
    BY DEF CurRuns
  <1>3. FinishIsDue'
    BY <1>0 DEF JobsAttended, FinishIsDue, Terminal, ControlPC, Turns, LiveState,
       TerminalState
  <1> QED
    BY <1>1, <1>2, <1>3 DEF JobsAttended, DownIsOff

(* A step of the scheduler keeps the job attended.                         *)
LEMMA SchedAttends ==
  ASSUME Typed, JobsAttended, SchedStep \/ SchedFailure
  PROVE  JobsAttended'
  <1>0. /\ jobs \in [Jobs -> Job] /\ nextSequence \in Nat
        /\ sched \in SchedPC /\ (sched \in BusyPC => cur \in Jobs)
        /\ CurRuns /\ DownIsOff
    BY TypedParts DEF JobsAttended
  <1> USE DEF schedFrame, Goto, AttendedPC, RunningPC
  <1>1. CASE \/ SchedSnapshot \/ (\E t \in todo : SchedProbe(t)) \/ SchedProbed
             \/ SchedReread \/ SchedCleanOrphan \/ SchedDrain \/ SchedIdle
             \/ (\E j \in Jobs : SchedPick(j)) \/ SchedReplanRefused \/ SchedLaunch
             \/ SchedLock \/ SchedReconcileRefused \/ SchedMarkRefused \/ SchedClean
             \/ RecoverRefused \/ SchedPlanFails \/ SchedLaunchFails
    <2>1. /\ client' = client /\ daemon' = daemon /\ jobs' = jobs
          /\ sched \notin AttendedPC /\ sched' \notin RunningPC /\ sched # "off"
      BY <1>0, <1>1 DEF SchedSnapshot, SchedProbe, SchedProbed, SchedReread,
         SchedCleanOrphan, SchedDrain, SchedIdle, SchedPick, SchedReplanRefused,
         SchedLaunch, SchedLock, SchedReconcileRefused, SchedMarkRefused, SchedClean,
         RecoverRefused, SchedPlanFails, SchedLaunchFails, Abort, Die, storeVars
    <2> QED
      BY <1>0, <2>1, QuietAttends DEF DownIsOff
  <1>2. CASE SchedSpawn \/ SchedReap \/ SchedReadState \/ SchedTimeout
    <2>1. /\ client' = client /\ daemon' = daemon /\ jobs' = jobs /\ cur' = cur
          /\ sched \in RunningPC /\ sched' \in RunningPC
      BY <1>0, <1>2 DEF SchedSpawn, SchedReap, SchedReadState, SchedTimeout,
         storeVars, schedVars
    <2> QED
      BY <1>0, <2>1, QuietAttends DEF DownIsOff
  <1>3. CASE SchedSpawnFails \/ SettleRefused \/ SchedAbort
    <2>1. /\ client' = client /\ daemon' = daemon /\ jobs' = jobs /\ cur' = cur
          /\ sched \in AttendedPC /\ sched' \in AttendedPC \ RunningPC
      BY <1>0, <1>3 DEF SchedSpawnFails, SettleRefused, SchedAbort, Abort, storeVars
    <2> QED
      BY <1>0, <2>1, QuietAttends DEF DownIsOff
  <1>13. CASE SchedReaderFails
    BY <1>0, <1>13, ReaderFailsEffect, QuietAttends DEF DownIsOff
  <1>4. CASE SchedAbandon \/ SchedGiveUpRefused
    <2>1. /\ client' = client /\ daemon' = daemon /\ jobs' = jobs
          /\ sched \in AttendedPC /\ sched' \notin RunningPC
          /\ (cur' = cur /\ sched' \in AttendedPC) \/ ~Live(cur)
      BY <1>0, <1>4 DEF SchedAbandon, SchedGiveUpRefused, Die, storeVars
    <2> QED
      BY <1>0, <2>1, QuietAttends DEF DownIsOff, Live, LiveState
  <1>5. CASE SchedRegister
    <2>0. cur \in Jobs /\ jobs[cur].state \in BusyState /\ jobs[cur].pid
      BY <1>0, <1>5 DEF SchedRegister, CurRuns, BusyPC, SchedPC
    <2>1. UpdateProcessId(cur) /\ sched' = "wait"
      BY <1>5, <2>0 DEF SchedRegister, MayUpdateProcess, BusyState, AskedState
    <2>2. \A k \in Jobs : jobs'[k].state = jobs[k].state /\ jobs'[k].pid = jobs[k].pid
      BY <1>0, <2>0, <2>1, StoreEffects DEF Turns
    <2> QED
      BY <1>0, <1>5, <2>1, <2>2, QuietAttends DEF SchedRegister, DownIsOff
  <1>6. CASE SchedReplan
    <2>1. \E j \in Jobs : \E revision \in Nat : ReplaceDryRun(j, revision)
      BY <1>6, ReplanOnStore
    <2>2. \A k \in Jobs : jobs'[k].state = jobs[k].state /\ jobs'[k].pid = jobs[k].pid
      <3>1. PICK j \in Jobs, revision \in Nat : ReplaceDryRun(j, revision)
        BY <2>1
      <3>2. Turns(j, {"Queued"}, {"Queued"}, jobs[j].pid)
        BY <1>0, <3>1, StoreEffects
      <3> QED
        BY <3>2 DEF Turns
    <2> QED
      BY <1>0, <1>6, <2>2, QuietAttends DEF SchedReplan, DownIsOff
  <1>7. CASE SchedMarkRunning
    <2>0. cur \in Jobs /\ MarkRunning(cur) /\ sched = "mark" /\ sched' = "spawn"
          /\ client' = client /\ daemon' = daemon /\ cur' = cur /\ daemon # "down"
      BY <1>0, <1>7 DEF SchedMarkRunning, BusyPC, SchedPC, DownIsOff
    <2>1. Turns(cur, {"Queued", "Paused"}, {"Running"}, TRUE)
      BY <1>0, <2>0, StoreEffects
    <2>2. RunningIsAttended'
      BY <2>0, <2>1 DEF JobsAttended, RunningIsAttended, Turns
    <2>3. CurRuns'
      BY <2>0, <2>1 DEF CurRuns, Turns, BusyState
    <2>4. FinishIsDue'
      <3>1. \A c \in Clients : client[c].pc \in ControlPC => client[c].job \in Jobs
        BY TypedParts
      <3> QED
        BY <2>0, <2>1, <3>1 DEF JobsAttended, FinishIsDue, Turns, Terminal, TerminalState,
           ControlPC
    <2> QED
      BY <2>0, <2>2, <2>3, <2>4 DEF JobsAttended, DownIsOff
  <1>8. CASE SchedGate
    <2>1. CASE UNCHANGED storeVars
      BY <1>0, <1>8, <2>1, QuietAttends DEF SchedGate, DownIsOff, storeVars
    <2>2. CASE CancelWaitingJobs
      <3>0. /\ sched = "gate" /\ sched' \in {"drain", "pick"} /\ daemon # "down"
            /\ client' = client /\ daemon' = daemon
        BY <1>0, <1>8 DEF SchedGate, DownIsOff
      <3>1. \A k \in Jobs : jobs'[k].state # "Running"
        BY <1>0, <2>2, SweepEffects
      <3>2. FinishIsDue'
        <4>1. \A c \in Clients : client[c].pc \in ControlPC => client[c].job \in Jobs
          BY TypedParts
        <4>2. \A k \in Jobs : jobs[k].state \in {"CancelRequested"} \cup TerminalState
                => jobs'[k].state = jobs[k].state /\ jobs'[k].pid = jobs[k].pid
          BY <1>0, <2>2, SweepEffects DEF Waiting, TerminalState
        <4> QED
          BY <3>0, <4>1, <4>2 DEF JobsAttended, FinishIsDue, Terminal, ControlPC
      <3> QED
        BY <3>0, <3>1, <3>2 DEF JobsAttended, DownIsOff, RunningIsAttended, CurRuns
    <2> QED
      BY <1>8, <2>1, <2>2 DEF SchedGate
  <1>9. ASSUME cur \in Jobs, sched # "off", NEW outcome \in TerminalState,
               Terminalize(cur, outcome),
               client' = client, daemon' = daemon, sched' \notin RunningPC
        PROVE  JobsAttended'
    <2>1. Turns(cur, LiveState, {outcome}, FALSE)
      BY <1>0, <1>9, StoreEffects
    <2>2. {outcome} \subseteq TerminalState /\ "Running" \notin {outcome}
      BY <1>9 DEF TerminalState
    <2> QED
      BY <1>0, <1>9, <2>1, <2>2, TurnAttends DEF DownIsOff
  <1>10. CASE \/ RecoverCompleted \/ RecoverCancelled \/ RecoverUncertain
              \/ SettleCompleted \/ SettleCancelled \/ SettleFailed
              \/ SchedReconcile \/ SchedGiveUp
    <2>1. /\ cur \in Jobs /\ sched # "off" /\ client' = client /\ daemon' = daemon
          /\ sched' \notin RunningPC
          /\ \E outcome \in TerminalState : Terminalize(cur, outcome)
      BY <1>0, <1>10 DEF RecoverCompleted, RecoverCancelled, RecoverUncertain, Settling,
         Settled, SettleCompleted, SettleCancelled, SettleFailed, SchedReconcile,
         SchedGiveUp, EndTo, End, BusyPC, SchedPC, TerminalState
    <2> QED
      BY <1>9, <2>1
  <1>11. CASE RecoverPaused \/ SettlePaused
    <2>1. /\ cur \in Jobs /\ sched # "off" /\ client' = client /\ daemon' = daemon
          /\ sched' \notin RunningPC /\ MarkPaused(cur)
      BY <1>0, <1>11 DEF RecoverPaused, SettlePaused, Settling, Settled, BusyPC, SchedPC
    <2>2. Turns(cur, {"PauseRequested"}, {"Paused"}, FALSE)
      BY <1>0, <2>1, StoreEffects
    <2>3. /\ {"PauseRequested"} \subseteq LiveState
          /\ "Running" \notin {"Paused"} /\ "CancelRequested" \notin {"PauseRequested"}
      BY DEF LiveState
    <2> QED
      BY <1>0, <2>1, <2>2, <2>3, TurnAttends DEF DownIsOff
  <1>12. CASE RecoverRequeued
    <2>1. /\ cur \in Jobs /\ sched # "off" /\ client' = client /\ daemon' = daemon
          /\ sched' \notin RunningPC /\ RequeueRecovered(cur)
      BY <1>0, <1>12 DEF RecoverRequeued, Settling, Settled, BusyPC, SchedPC
    <2>2. Turns(cur, {"Recovering"}, {"Queued"}, FALSE)
      BY <1>0, <2>1, StoreEffects
    <2>3. /\ {"Recovering"} \subseteq LiveState
          /\ "Running" \notin {"Queued"} /\ "CancelRequested" \notin {"Recovering"}
      BY DEF LiveState
    <2> QED
      BY <1>0, <2>1, <2>2, <2>3, TurnAttends DEF DownIsOff
  <1> QED
    BY <1>1, <1>2, <1>3, <1>4, <1>5, <1>6, <1>7, <1>8, <1>10, <1>11, <1>12, <1>13
       DEF SchedStep, SchedFailure, RecoverStep, SettleStep


(* What a request thread leaves alone.                                     *)
LEMMA ClientFrame ==
  ASSUME Typed, NEW c \in Clients, ClientRequest(c) \/ ClientStep(c)
  PROVE  /\ UNCHANGED <<lease, planFile, published, active, schedVars, daemon>>
         /\ \A d \in Clients : d # c => client'[d] = client[d]
  <1>1. client \in [Clients -> [pc : ClientPC, job : Jobs \cup {NoJob}]]
    BY TypedParts
  <1> QED
    BY <1>1 DEF ClientRequest, ClientSubmit, ClientResume, ClientPause, ClientCancel,
       ClientShutdown, ClientStep, ClientStop, ClientSignal, ClientKill, ClientFinish,
       requestFrame, clientFrame, fileVars, At, Done

(* A request that changes one job: what is needed to keep it attended.     *)
LEMMA RequestAttends ==
  ASSUME Typed, JobsAttended, NEW c \in Clients, ClientRequest(c) \/ ClientStep(c),
         NEW j \in Jobs, NEW from, NEW to, NEW pid, Turns(j, from, to, pid),
         "Running" \notin to,
         jobs[j].state \in BusyState /\ jobs[j].pid
           => jobs'[j].state \in BusyState /\ jobs'[j].pid,
         \A k \in TerminalState : k \notin from,
         to \subseteq TerminalState \/ "CancelRequested" \notin from,
         client'[c].pc = "cancelFinish" =>
           client'[c].job = j /\ jobs'[j].state = "CancelRequested" /\ ~jobs'[j].pid
  PROVE  JobsAttended'
  <1>0. /\ \A d \in Clients : client[d].pc \in ControlPC => client[d].job \in Jobs
        /\ (sched \in BusyPC => cur \in Jobs)
        /\ \A d \in Clients : d # c => client'[d] = client[d]
        /\ UNCHANGED <<sched, cur, daemon>>
    BY TypedParts, ClientFrame DEF schedVars
  <1>1. RunningIsAttended'
    BY <1>0 DEF JobsAttended, RunningIsAttended, Turns
  <1>2. CurRuns'
    BY <1>0 DEF JobsAttended, CurRuns, Turns, RunningPC, BusyPC, SchedPC
  <1>3. FinishIsDue'
    <2> SUFFICES ASSUME NEW d \in Clients, client'[d].pc = "cancelFinish"
                 PROVE  LET k == client'[d].job IN
                        \/ jobs'[k].state = "CancelRequested" /\ ~jobs'[k].pid
                        \/ jobs'[k].state \in TerminalState
      BY DEF FinishIsDue, Terminal
    <2>1. CASE d = c
      BY <2>1
    <2>2. CASE d # c
      <3>1. /\ client'[d] = client[d] /\ client[d].job \in Jobs
            /\ \/ jobs[client[d].job].state = "CancelRequested" /\ ~jobs[client[d].job].pid
               \/ jobs[client[d].job].state \in TerminalState
        BY <1>0, <2>2 DEF JobsAttended, FinishIsDue, Terminal, ControlPC
      <3> QED
        BY <3>1 DEF Turns
    <2> QED
      BY <2>1, <2>2
  <1> QED
    BY <1>0, <1>1, <1>2, <1>3 DEF JobsAttended, DownIsOff

(* A step of a request thread keeps the job attended.                      *)
LEMMA ClientAttends ==
  ASSUME Typed, JobsAttended, NEW c \in Clients, ClientRequest(c) \/ ClientStep(c)
  PROVE  JobsAttended'
  <1>0. /\ jobs \in [Jobs -> Job] /\ nextSequence \in Nat
        /\ client \in [Clients -> [pc : ClientPC, job : Jobs \cup {NoJob}]]
        /\ \A d \in Clients : client[d].pc \in ControlPC => client[d].job \in Jobs
        /\ (sched \in BusyPC => cur \in Jobs)
        /\ \A d \in Clients : d # c => client'[d] = client[d]
        /\ UNCHANGED <<sched, cur, daemon>>
    BY TypedParts, ClientFrame DEF schedVars
  <1>1. ASSUME UNCHANGED storeVars, client'[c].pc # "cancelFinish"
        PROVE  JobsAttended'
    <2>1. jobs' = jobs
      BY <1>1 DEF storeVars
    <2>2. FinishIsDue'
      BY <1>0, <1>1, <2>1 DEF JobsAttended, FinishIsDue, Terminal
    <2> QED
      BY <1>0, <2>1, <2>2 DEF JobsAttended, DownIsOff, RunningIsAttended, CurRuns
  <1> USE DEF Accept, Idle, At, Done
  <1>2. ASSUME NEW j \in Jobs, ClientSubmit(c, j) \/ ClientResume(c, j)
        PROVE  JobsAttended'
    <2>1. /\ client' = client /\ client[c] = Idle
          /\ \/ Turns(j, {"Unsubmitted"}, {"Queued"}, jobs[j].pid)
             \/ Turns(j, {"Paused"}, {"Queued"}, jobs[j].pid)
      BY <1>0, <1>2, StoreEffects DEF ClientSubmit, ClientResume
    <2>2. client'[c].pc # "cancelFinish"
      BY <2>1
    <2>3. jobs[j].state \in {"Unsubmitted", "Paused"}
      BY <2>1 DEF Turns
    <2>4. jobs[j].state \notin BusyState
      BY <2>3 DEF BusyState, AskedState
    <2>5. ClientRequest(c)
      BY <1>2 DEF ClientRequest
    <2> QED
      BY <2>1, <2>2, <2>4, <2>5, RequestAttends DEF TerminalState
  <1>3. ASSUME NEW j \in Jobs, ClientPause(c, j)
        PROVE  JobsAttended'
    <2>1. /\ client[c] = Idle /\ RequestPause(j)
          /\ client' = client \/ client'[c].pc = "pauseSignal"
      BY <1>0, <1>3 DEF ClientPause
    <2>2. client'[c].pc # "cancelFinish"
      BY <2>1
    <2>3. \/ Turns(j, {"Queued"}, {"Paused"}, jobs[j].pid)
          \/ Turns(j, {"Running", "Recovering"}, {"PauseRequested"}, jobs[j].pid)
      BY <1>0, <2>1, StoreEffects
    <2>4. jobs[j].state \in BusyState /\ jobs[j].pid
            => jobs'[j].state \in BusyState /\ jobs'[j].pid
      BY <2>3 DEF BusyState, AskedState, Turns
    <2>5. ClientRequest(c)
      BY <1>3 DEF ClientRequest
    <2> QED
      BY <2>2, <2>3, <2>4, <2>5, RequestAttends DEF TerminalState
  <1>4. ASSUME NEW j \in Jobs, ClientCancel(c, j)
        PROVE  JobsAttended'
    <2>1. /\ RequestCancel(j)
          /\ client'[c].job = j
          /\ client'[c].pc = IF jobs[j].pid THEN "cancelSignal" ELSE "cancelFinish"
      BY <1>0, <1>4 DEF ClientCancel
    <2>2. Turns(j, LiveState \ {"CancelRequested"}, {"CancelRequested"}, jobs[j].pid)
      BY <1>0, <2>1, StoreEffects
    <2>3. jobs'[j].state = "CancelRequested" /\ jobs'[j].pid = jobs[j].pid
      BY <2>2 DEF Turns
    <2>4. jobs[j].pid \in BOOLEAN
      BY <1>0 DEF Job
    <2>5. ClientRequest(c)
      BY <1>4 DEF ClientRequest
    <2> QED
      BY <2>1, <2>2, <2>3, <2>4, <2>5, RequestAttends DEF TerminalState, LiveState,
         BusyState, AskedState
  <1>5. CASE ClientShutdown(c) \/ ClientStop(c) \/ ClientSignal(c) \/ ClientKill(c)
    <2>1. UNCHANGED storeVars /\ client'[c].pc # "cancelFinish"
      BY <1>0, <1>5 DEF ClientShutdown, ClientStop, ClientSignal, ClientKill
    <2> QED
      BY <1>1, <2>1
  <1>6. CASE ClientFinish(c)
    <2> DEFINE j == client[c].job
    <2>0. j \in Jobs /\ client'[c].pc = "idle" /\ client[c].pc = "cancelFinish"
      BY <1>0, <1>6 DEF ClientFinish, ControlPC
    <2>1. CASE ~Live(j)
      <3>1. UNCHANGED storeVars
        BY <1>6, <2>1 DEF ClientFinish
      <3> QED
        BY <1>1, <2>0, <3>1
    <2>2. CASE Live(j)
      <3>1. Terminalize(j, "Cancelled")
        BY <1>6, <2>2 DEF ClientFinish, End
      <3>2. Turns(j, LiveState, {"Cancelled"}, FALSE)
        BY <1>0, <2>0, <3>1, StoreEffects DEF TerminalState
      <3>3. ~jobs[j].pid
        BY <2>0, <2>2 DEF JobsAttended, FinishIsDue, Live, Terminal, LiveState, TerminalState
      <3>4. ClientStep(c)
        BY <1>6 DEF ClientStep
      <3> HIDE DEF j
      <3> QED
        BY <2>0, <3>2, <3>3, <3>4, RequestAttends DEF TerminalState, LiveState
    <2> QED
      BY <2>1, <2>2
  <1> QED
    BY <1>2, <1>3, <1>4, <1>5, <1>6 DEF ClientRequest, ClientStep

(* Every step keeps the job attended.                                      *)
LEMMA JobsAttendedStep ==
  ASSUME Typed, JobsAttended, [Next]_vars
  PROVE  JobsAttended'
  <1>1. CASE SchedStep \/ SchedFailure
    BY <1>1, SchedAttends
  <1>2. CASE \E c \in Clients : ClientRequest(c) \/ ClientStep(c)
    BY <1>2, ClientAttends
  <1>3. ASSUME UNCHANGED <<jobs, client, sched, cur, daemon>>
        PROVE  JobsAttended'
    BY <1>3 DEF JobsAttended, DownIsOff, RunningIsAttended, CurRuns, FinishIsDue, Terminal
  <1>4. ASSUME NEW p \in Proc, ChildStep(p) \/ ChildFail(p)
        PROVE  JobsAttended'
    <2>1. UNCHANGED childFrame
      BY <1>4 DEF ChildStep, ChildFail, ChildOpen, ChildLock, ChildLockTimeout,
         ChildStart, ChildCheckpoint, ChildFence, ChildPublish, ChildReceipt, ChildSucceed
    <2> QED
      BY <1>3, <2>1 DEF childFrame, storeVars, schedVars
  <1>5. CASE MainStop
    <2>1. UNCHANGED <<jobs, client, sched, cur>> /\ daemon' = "join" /\ daemon # "down"
      BY <1>5 DEF MainStop, storeVars, schedVars
    <2> QED
      BY <2>1 DEF JobsAttended, DownIsOff, RunningIsAttended, CurRuns, FinishIsDue, Terminal
  <1>6. CASE MainExit \/ Crash
    <2>1. daemon' = "down" /\ sched' = "off" /\ client' = [c \in Clients |-> Idle]
      BY <1>6 DEF MainExit, Crash, Stopping
    <2> QED
      BY <2>1 DEF JobsAttended, DownIsOff, RunningIsAttended, CurRuns, FinishIsDue,
         RunningPC, Idle
  <1>7. CASE Start
    <2>0. jobs \in [Jobs -> Job] /\ nextSequence \in Nat
          /\ \A c \in Clients : client[c].pc \in ControlPC => client[c].job \in Jobs
      BY TypedParts
    <2>1. sched' = "top" /\ daemon' = "accept" /\ client' = client /\ PrepareRecovery
      BY <1>7 DEF Start
    <2>2. \A k \in Jobs : jobs'[k].state # "Running"
      BY <2>0, <2>1, SweepEffects
    <2>3. \A k \in Jobs : jobs[k].state \in {"CancelRequested"} \cup TerminalState
            => jobs'[k].state = jobs[k].state /\ jobs'[k].pid = jobs[k].pid
      BY <2>0, <2>1, SweepEffects DEF TerminalState
    <2>4. FinishIsDue'
      BY <2>0, <2>1, <2>3 DEF JobsAttended, FinishIsDue, Terminal, ControlPC
    <2> QED
      BY <2>1, <2>2, <2>4 DEF JobsAttended, DownIsOff, RunningIsAttended, CurRuns, RunningPC
  <1>8. CASE UNCHANGED vars
    BY <1>3, <1>8 DEF vars, storeVars, schedVars
  <1> QED
    BY <1>1, <1>2, <1>4, <1>5, <1>6, <1>7, <1>8 DEF Next


(* The operators on process records do not adopt an orphan or revive a     *)
(* child that has exited.                                                  *)
LEMMA ProcessOwn ==
  ASSUME child \in [Proc -> Process], NEW q \in Proc
  PROVE  /\ \A phase : Enter(q, phase)[q].orphan = child[q].orphan
         /\ \A phase : Enter(q, phase)[q].stray = child[q].stray
         /\ \A phase : Exited(q, phase)[q].orphan = child[q].orphan
         /\ \A phase : Exited(q, phase)[q].stray = child[q].stray
         /\ Reaped(q)[q].orphan = child[q].orphan
         /\ Reaped(q)[q].phase = "gone"
         /\ \A phase : \A p \in Proc : p # q =>
              /\ Enter(q, phase)[p] = child[p]
              /\ Exited(q, phase)[p] = child[p] /\ Reaped(q)[p] = child[p]
  <1>1. child[q] \in Process /\ \A r : Become(q, r)[q] = r
    BY DEF Become
  <1>2. \A p \in Proc : \A r : p # q => Become(q, r)[p] = child[p]
    BY DEF Become
  <1>3. \A phase : /\ [child[q] EXCEPT !.phase = phase].orphan = child[q].orphan
                   /\ [child[q] EXCEPT !.phase = phase].stray = child[q].stray
    BY <1>1 DEF Process
  <1>4. \A phase :
          /\ [child[q] EXCEPT !.phase = phase, !.lease = 0].orphan = child[q].orphan
          /\ [child[q] EXCEPT !.phase = phase, !.lease = 0].stray = child[q].stray
          /\ [child[q] EXCEPT !.phase = phase, !.lease = 0].phase = phase
    BY <1>1 DEF Process
  <1>5. \A phase : /\ Enter(q, phase)[q].orphan = child[q].orphan
                   /\ Enter(q, phase)[q].stray = child[q].stray
    <2> TAKE phase
    <2>1. Enter(q, phase)[q] = [child[q] EXCEPT !.phase = phase]
      BY <1>1 DEF Enter
    <2> QED
      BY <1>3, <2>1
  <1>6. \A phase : /\ Exited(q, phase)[q].orphan = child[q].orphan
                   /\ Exited(q, phase)[q].stray = child[q].stray
    <2> TAKE phase
    <2> DEFINE after == IF child[q].orphan THEN "gone" ELSE phase
    <2>1. Exited(q, phase)[q] = [child[q] EXCEPT !.phase = after, !.lease = 0]
      BY <1>1 DEF Exited
    <2> HIDE DEF after
    <2> QED
      BY <1>4, <2>1
  <1>7. Reaped(q)[q].orphan = child[q].orphan /\ Reaped(q)[q].phase = "gone"
    <2>1. Reaped(q)[q] = [child[q] EXCEPT !.phase = "gone", !.lease = 0]
      BY <1>1 DEF Reaped
    <2> QED
      BY <1>4, <2>1
  <1>8. \A phase : \A p \in Proc : p # q =>
          /\ Enter(q, phase)[p] = child[p]
          /\ Exited(q, phase)[p] = child[p] /\ Reaped(q)[p] = child[p]
    BY <1>2 DEF Enter, Exited, Reaped
  <1> QED
    BY <1>5, <1>6, <1>7, <1>8

(* What the daemon knows of a process.                                     *)
SameFlags(p) == /\ child'[p].orphan = child[p].orphan
                /\ child'[p].stray = child[p].stray

(* A crash makes a plain orphan of every child that still runs.            *)
LEMMA CrashEffect ==
  ASSUME Typed, Crash, NEW p \in Proc, Alive(p)'
  PROVE  Alive(p) /\ child'[p].orphan /\ ~child'[p].stray
  <1>0. child[p] \in Process /\ child'[p].phase \in LivePhase
    BY TypedParts DEF Alive
  <1> DEFINE r == [child[p] EXCEPT !.orphan = TRUE, !.stray = FALSE]
  <1>1. child'[p] = IF Alive(p) THEN r
                    ELSE IF child[p].phase \in ExitPhase
                    THEN [child[p] EXCEPT !.phase = "gone"] ELSE child[p]
    BY DEF Crash
  <1>4. r.orphan /\ ~r.stray
    BY <1>0 DEF Process
  <1> HIDE DEF r
  <1>2. CASE Alive(p)
    BY <1>1, <1>2, <1>4
  <1>3. CASE ~Alive(p)
    BY <1>0, <1>1, <1>3 DEF Process, Alive, LivePhase, LockedPhase
  <1> QED
    BY <1>2, <1>3

(* A child that runs was running before, and the daemon knows of it what   *)
(* it knew, or it was just spawned; a crash and the error after a spawn    *)
(* are apart.                                                              *)
LEMMA LiveMoves ==
  ASSUME Typed, [Next]_vars, NEW p \in Proc, Alive(p)'
  PROVE  \/ Alive(p) /\ SameFlags(p)
         \/ /\ SchedSpawn /\ p = <<cur, jobs[cur].attempt>>
            /\ ~child'[p].stray
         \/ SchedReaderFails /\ Alive(p) /\ p = <<cur, jobs[cur].attempt>>
         \/ Crash
  <1>0. /\ child \in [Proc -> Process] /\ child[p] \in Process
        /\ active \in Proc \cup {NoProc} /\ (sched = "wait" => active \in Proc)
        /\ child'[p].phase \in LivePhase
    BY TypedParts DEF Alive
  <1> DEFINE Kept == Alive(p) /\ SameFlags(p)
  <1>1. ASSUME NEW q \in Proc, Alive(q), SameFlags(q),
               \A r \in Proc : r # q => child'[r] = child[r]
        PROVE  Kept
    <2>1. CASE p = q
      BY <1>0, <1>1, <2>1
    <2>2. CASE p # q
      BY <1>0, <1>1, <2>2 DEF SameFlags, Alive
    <2> QED
      BY <2>1, <2>2
  <1>2. ASSUME NEW q \in Proc, child' = Reaped(q)
        PROVE  Kept
    <2>1. p # q
      BY <1>0, <1>2, ProcessOwn DEF LivePhase, LockedPhase
    <2>2. child'[p] = child[p]
      BY <1>0, <1>2, <2>1, ProcessOwn
    <2> QED
      BY <1>0, <2>2 DEF SameFlags, Alive
  <1>3. ASSUME NEW q \in Proc, child' = Killed(q)
        PROVE  Kept
    <2>1. CASE ~Alive(q)
      BY <1>0, <1>3, <2>1 DEF Killed, SameFlags, Alive
    <2>2. CASE Alive(q)
      BY <1>0, <1>1, <1>3, <2>2, ProcessOwn DEF Killed, SameFlags
    <2> QED
      BY <2>1, <2>2
  <1>4. ASSUME child' = child
        PROVE  Kept
    BY <1>0, <1>4 DEF SameFlags, Alive
  <1>6. ASSUME NEW q \in Proc, ChildStep(q) \/ ChildFail(q)
        PROVE  Kept
    <2>1. Alive(q) /\ \A r \in Proc : r # q => child'[r] = child[r]
      BY <1>6, ChildMoves
    <2>2. child[q] \in Process
      BY <1>0
    <2> DEFINE opened == [child[q] EXCEPT !.phase = "opened", !.lease = lease[q[1]]]
               working == [child[q] EXCEPT !.phase = "working", !.plan = planFile[q[1]]]
    <2>3. /\ opened.orphan = child[q].orphan /\ opened.stray = child[q].stray
          /\ working.orphan = child[q].orphan /\ working.stray = child[q].stray
      BY <2>2 DEF Process
    <2>4. \A r : Become(q, r)[q] = r
      BY <1>0 DEF Become
    <2>5. SameFlags(q)
      <3>1. /\ \A phase : Enter(q, phase)[q].orphan = child[q].orphan
            /\ \A phase : Enter(q, phase)[q].stray = child[q].stray
            /\ \A phase : Exited(q, phase)[q].orphan = child[q].orphan
            /\ \A phase : Exited(q, phase)[q].stray = child[q].stray
        BY <1>0, ProcessOwn
      <3> USE DEF SameFlags
      <3>2. CASE ChildOpen(q)
        BY <2>3, <2>4, <3>1, <3>2 DEF ChildOpen
      <3>3. CASE ChildStart(q)
        BY <2>3, <2>4, <3>1, <3>3 DEF ChildStart
      <3>4. CASE ChildReceipt(q) \/ ChildFence(q) \/ ChildCheckpoint(q)
        BY <3>1, <3>4 DEF ChildReceipt, ChildFence, ChildCheckpoint
      <3>5. CASE \/ ChildLock(q) \/ ChildLockTimeout(q) \/ ChildPublish(q)
                 \/ ChildSucceed(q) \/ ChildFail(q)
        BY <3>1, <3>5 DEF ChildLock, ChildLockTimeout, ChildPublish, ChildSucceed, ChildFail
      <3> QED
        BY <1>6, <3>2, <3>3, <3>4, <3>5 DEF ChildStep
    <2> QED
      BY <1>1, <2>1, <2>5
  <1>7. CASE SchedTimeout
    BY <1>0, <1>3, <1>7 DEF SchedTimeout
  <1>8. CASE SchedReap
    BY <1>0, <1>2, <1>8 DEF SchedReap
  <1>9. CASE SchedAbort
    BY <1>0, <1>2, <1>4, <1>9 DEF SchedAbort
  <1>10. CASE SchedSpawn
    <2>1. CASE p = <<cur, jobs[cur].attempt>>
      <3> DEFINE r == [NoChild EXCEPT !.phase = "spawned"]
      <3>1. child'[p] = r
        BY <1>0, <1>10, <2>1 DEF SchedSpawn, Become
      <3>2. ~r.stray
        BY DEF NoChild
      <3> QED
        BY <1>10, <2>1, <3>1, <3>2
    <2>2. CASE p # <<cur, jobs[cur].attempt>>
      <3> DEFINE q == <<cur, jobs[cur].attempt>>
                 r == [NoChild EXCEPT !.phase = "spawned"]
      <3>1. child' = [child EXCEPT ![q] = r] /\ p # q
        BY <1>10, <2>2 DEF SchedSpawn, Become
      <3> HIDE DEF q, r
      <3>2. child'[p] = child[p]
        BY <1>0, <3>1
      <3> QED
        BY <1>0, <3>2 DEF SameFlags, Alive
    <2> QED
      BY <2>1, <2>2
  <1> USE DEF schedFrame, requestFrame, clientFrame
  <1>11. CASE \/ RecoverStep \/ SettleStep \/ SchedPlanFails \/ SchedLaunchFails
              \/ SchedSpawnFails
    BY <1>4, <1>11 DEF RecoverStep, RecoverCompleted, RecoverCancelled,
       RecoverPaused, RecoverRequeued, RecoverUncertain, RecoverRefused, Settled,
       SettleStep, SettleCompleted, SettlePaused, SettleCancelled, SettleFailed,
       SettleRefused, EndTo, Abort, SchedPlanFails, SchedLaunchFails, SchedSpawnFails
  <1>12. CASE \/ SchedSnapshot \/ (\E t \in todo : SchedProbe(t)) \/ SchedProbed
              \/ SchedReread \/ SchedCleanOrphan \/ SchedGate \/ SchedDrain \/ SchedIdle
              \/ (\E j \in Jobs : SchedPick(j)) \/ SchedReplan \/ SchedReplanRefused
    BY <1>4, <1>12 DEF SchedSnapshot, SchedProbe, SchedProbed, SchedReread,
       SchedCleanOrphan, SchedGate, SchedDrain, SchedIdle, SchedPick, SchedReplan,
       SchedReplanRefused
  <1>13. CASE \/ SchedLaunch \/ SchedLock \/ SchedReconcile \/ SchedReconcileRefused
              \/ SchedMarkRunning \/ SchedMarkRefused \/ SchedRegister
              \/ SchedReadState \/ SchedClean
              \/ SchedAbandon \/ SchedGiveUp \/ SchedGiveUpRefused
    BY <1>4, <1>13 DEF SchedLaunch, SchedLock, SchedReconcile,
       SchedReconcileRefused, SchedMarkRunning, SchedMarkRefused, SchedRegister,
       SchedReadState, SchedClean, SchedAbandon, SchedGiveUp, SchedGiveUpRefused,
       EndTo, Abort
  <1>14. ASSUME NEW c \in Clients, ClientRequest(c) \/ ClientStep(c)
         PROVE  Kept
    <2>1. CASE ClientKill(c)
      <3>1. child' = child \/ (active \in Proc /\ child' = Killed(active))
        <4>1. client[c].job \in Jobs
          BY <2>1, TypedParts DEF ClientKill, ControlPC
        <4> QED
          BY <1>0, <2>1, <4>1, NoJobAssumption DEF ClientKill, NoProc
      <3> QED
        BY <1>3, <1>4, <3>1
    <2>2. CASE ClientRequest(c) \/ ClientStop(c) \/ ClientSignal(c) \/ ClientFinish(c)
      BY <1>4, <2>2 DEF ClientRequest, ClientSubmit, ClientResume, ClientPause,
         ClientCancel, ClientShutdown, ClientStop, ClientSignal, ClientFinish
    <2> QED
      BY <1>14, <2>1, <2>2 DEF ClientStep
  <1>15. CASE MainStop
    <2>1. child' = child \/ (active \in Proc /\ child' = Killed(active))
      BY <1>0, <1>15 DEF MainStop
    <2> QED
      BY <1>3, <1>4, <2>1
  <1>16. CASE MainExit \/ UNCHANGED vars
    BY <1>4, <1>16 DEF MainExit, Stopping, vars
  <1>17. CASE Start
    <2>1. child'[p].phase = child[p].phase /\ child'[p].stray = child[p].stray
      BY <1>17, StartEffect DEF GoesOn
    <2>2. Alive(p)
      BY <1>0, <2>1 DEF Alive
    <2>3. child'[p].orphan = (child[p].orphan /\ Alive(p))
      BY <1>17, StartEffect
    <2>4. child[p].orphan \in BOOLEAN
      BY <1>0 DEF Process
    <2> QED
      BY <2>1, <2>2, <2>3, <2>4 DEF SameFlags
  <1>18. CASE SchedReaderFails
    <2>1. /\ GoesOn(p)
          /\ child'[p] = child[p] \/ (p = <<cur, jobs[cur].attempt>> /\ Alive(p))
      BY <1>18, ReaderFailsEffect
    <2>2. Alive(p)
      BY <1>0, <2>1 DEF GoesOn, Alive
    <2> QED
      BY <1>18, <2>1, <2>2 DEF SameFlags
  <1> QED
    BY <1>6, <1>7, <1>8, <1>9, <1>10, <1>11, <1>12, <1>13, <1>14, <1>15, <1>16,
       <1>17, <1>18 DEF Next, SchedStep, SchedFailure

(* A child of this daemon was one before, or was just spawned; a crash     *)
(* leaves none, and the error after a spawn loses it.                      *)
LEMMA OwnMoves ==
  ASSUME Typed, [Next]_vars, NEW p \in Proc, OwnChild(p)'
  PROVE  /\ ~Crash
         /\ ~(SchedReaderFails /\ p = <<cur, jobs[cur].attempt>>)
         /\ OwnChild(p) \/ (SchedSpawn /\ p = <<cur, jobs[cur].attempt>>)
  <1>1. Alive(p)' /\ ~child'[p].orphan
    BY DEF OwnChild
  <1>2. ~Crash
    BY <1>1, CrashEffect
  <1>3. ~(SchedReaderFails /\ p = <<cur, jobs[cur].attempt>>)
    BY <1>1, ReaderFailsEffect DEF GoesOn, Alive
  <1> QED
    BY <1>1, <1>2, <1>3, LiveMoves DEF OwnChild, SameFlags

(* A stray was one before, or is the child the error after a spawn loses.  *)
LEMMA StrayMoves ==
  ASSUME Typed, [Next]_vars, NEW p \in Proc, Alive(p)', child'[p].stray
  PROVE  /\ ~Crash
         /\ \/ Alive(p) /\ child[p].stray
            \/ SchedReaderFails /\ p = <<cur, jobs[cur].attempt>>
  <1>1. ~Crash
    BY CrashEffect
  <1> QED
    BY <1>1, LiveMoves DEF SameFlags


(* How the scheduler gets to the registration and to the wait, and leaves  *)
(* them.                                                                   *)
LEMMA WaitMoves ==
  ASSUME Typed, DownIsOff, [Next]_vars
  PROVE  /\ sched' = "wait" => \/ sched = "wait" /\ cur' = cur /\ active' = active
                               \/ /\ sched = "register" /\ cur' = cur
                                  /\ active' = <<cur, jobs[cur].attempt>>
         /\ sched' # "wait" => \/ active' = active /\ sched # "wait"
                               \/ active' = NoProc
                               \/ sched = "register" /\ ~MayUpdateProcess(cur)
         /\ sched \in {"register", "wait"} =>
              \/ sched' = sched /\ cur' = cur
              \/ sched = "register" /\ sched' = "wait" /\ cur' = cur
              \/ sched = "register" /\ ~MayUpdateProcess(cur)
              \/ SchedReaderFails
              \/ sched = "wait" /\ ~Alive(active) /\ child' = Reaped(active)
              \/ Crash
         /\ SchedSpawn => sched' = "register" /\ cur' = cur /\ sched = "spawn"
  <1> DEFINE Goal ==
         /\ sched' = "wait" => \/ sched = "wait" /\ cur' = cur /\ active' = active
                               \/ /\ sched = "register" /\ cur' = cur
                                  /\ active' = <<cur, jobs[cur].attempt>>
         /\ sched' # "wait" => \/ active' = active /\ sched # "wait"
                               \/ active' = NoProc
                               \/ sched = "register" /\ ~MayUpdateProcess(cur)
         /\ sched \in {"register", "wait"} =>
              \/ sched' = sched /\ cur' = cur
              \/ sched = "register" /\ sched' = "wait" /\ cur' = cur
              \/ sched = "register" /\ ~MayUpdateProcess(cur)
              \/ SchedReaderFails
              \/ sched = "wait" /\ ~Alive(active) /\ child' = Reaped(active)
              \/ Crash
  <1>0. SchedSpawn => sched' = "register" /\ cur' = cur /\ sched = "spawn"
    BY DEF SchedSpawn, Goto
  <1> SUFFICES Goal
    BY <1>0
  <1>1. CASE UNCHANGED <<sched, cur, active>>
    BY <1>1
  <1>2. CASE UNCHANGED active /\ sched' # "wait" /\ sched \notin {"register", "wait"}
    BY <1>2
  <1> USE DEF Goto, schedVars
  <1>3. CASE SchedRegister
    BY <1>3 DEF SchedRegister
  <1>4. CASE SchedReap
    BY <1>4 DEF SchedReap
  <1>5. CASE SchedAbort
    BY <1>5 DEF SchedAbort
  <1>6. CASE SchedTimeout
    BY <1>1, <1>6 DEF SchedTimeout
  <1>7. CASE RecoverStep \/ SettleStep
    BY <1>2, <1>7 DEF RecoverStep, RecoverCompleted, RecoverCancelled, RecoverPaused,
       RecoverRequeued, RecoverUncertain, RecoverRefused, Settling, Settled, Die,
       SettleStep, SettleCompleted, SettlePaused, SettleCancelled, SettleFailed,
       SettleRefused, EndTo, Abort
  <1>8. CASE SchedPlanFails \/ SchedLaunchFails \/ SchedSpawnFails
    BY <1>2, <1>8 DEF SchedPlanFails, SchedLaunchFails, SchedSpawnFails, Abort
  <1>15. CASE SchedReaderFails
    BY <1>15, ReaderFailsEffect
  <1>9. CASE \/ SchedSnapshot \/ (\E t \in todo : SchedProbe(t)) \/ SchedProbed
             \/ SchedReread \/ SchedCleanOrphan \/ SchedGate \/ SchedDrain \/ SchedIdle
             \/ (\E j \in Jobs : SchedPick(j)) \/ SchedReplan \/ SchedReplanRefused
    BY <1>2, <1>9 DEF SchedSnapshot, SchedProbe, SchedProbed, SchedReread,
       SchedCleanOrphan, SchedGate, SchedDrain, SchedIdle, SchedPick, SchedReplan,
       SchedReplanRefused, Die
  <1>10. CASE \/ SchedLaunch \/ SchedLock \/ SchedReconcile \/ SchedReconcileRefused
              \/ SchedMarkRunning \/ SchedMarkRefused \/ SchedSpawn \/ SchedReadState
              \/ SchedClean \/ SchedAbandon \/ SchedGiveUp \/ SchedGiveUpRefused
    BY <1>2, <1>10 DEF SchedLaunch, SchedLock, SchedReconcile, SchedReconcileRefused,
       SchedMarkRunning, SchedMarkRefused, SchedSpawn, SchedReadState, SchedClean,
       SchedAbandon, SchedGiveUp, SchedGiveUpRefused, EndTo, Abort, Die
  <1>11. ASSUME NEW c \in Clients, ClientRequest(c) \/ ClientStep(c)
         PROVE  Goal
    BY <1>1, <1>11, ClientFrame
  <1>12. ASSUME NEW p \in Proc, ChildStep(p) \/ ChildFail(p)
         PROVE  Goal
    <2>1. UNCHANGED childFrame
      BY <1>12 DEF ChildStep, ChildFail, ChildOpen, ChildLock, ChildLockTimeout,
         ChildStart, ChildCheckpoint, ChildFence, ChildPublish, ChildReceipt, ChildSucceed
    <2> QED
      BY <1>1, <2>1 DEF childFrame
  <1>13. CASE MainStop \/ Start \/ UNCHANGED vars
    BY <1>1, <1>2, <1>13 DEF MainStop, Start, DownIsOff, vars
  <1>14. CASE MainExit \/ Crash
    BY <1>14 DEF MainExit, Crash, Stopping
  <1>16. CASE SchedStep \/ SchedFailure
    BY <1>3, <1>4, <1>5, <1>6, <1>7, <1>8, <1>9, <1>10, <1>15, <1>16
       DEF SchedStep, SchedFailure
  <1> QED
    BY <1>11, <1>12, <1>13, <1>14, <1>16 DEF Next



(* An attempt is counted only by mark_running.                             *)
LEMMA AttemptStays ==
  ASSUME Typed, [Next]_vars, sched # "mark", NEW k \in Jobs
  PROVE  jobs'[k].attempt = jobs[k].attempt
  <1>0. /\ jobs \in [Jobs -> Job] /\ nextSequence \in Nat
        /\ (sched \in BusyPC => cur \in Jobs)
    BY TypedParts
  <1>1. CASE UNCHANGED storeVars
    BY <1>1 DEF storeVars
  <1>2. ASSUME NEW j \in Jobs,
               \/ \E outcome \in TerminalState : Terminalize(j, outcome)
               \/ \E revision \in Nat : ReplaceDryRun(j, revision)
               \/ MarkPaused(j) \/ RequeueRecovered(j) \/ UpdateProcessId(j)
        PROVE  jobs'[k].attempt = jobs[k].attempt
    <2>1. CASE j = k
      BY <1>0, <1>2, <2>1, StoreEffects DEF SamePlan
    <2>2. CASE j # k
      BY <1>0, <1>2, <2>2, StoreEffects DEF Turns
    <2> QED
      BY <2>1, <2>2
  <1>3. CASE RecoverStep
    <2>1. sched = "settleOrphan"
      BY <1>3 DEF RecoverStep, RecoverCompleted, RecoverCancelled, RecoverPaused,
         RecoverRequeued, RecoverUncertain, RecoverRefused, Settling
    <2>2. cur \in Jobs
      BY <1>0, <2>1 DEF BusyPC, SchedPC
    <2> QED
      BY <1>1, <1>2, <1>3, <2>2 DEF RecoverStep, RecoverCompleted, RecoverCancelled,
         RecoverPaused, RecoverRequeued, RecoverUncertain, RecoverRefused, End,
         TerminalState
  <1>4. CASE SettleStep
    <2>1. sched = "settle"
      BY <1>4 DEF SettleStep, SettleCompleted, SettlePaused, SettleCancelled,
         SettleFailed, SettleRefused
    <2>2. cur \in Jobs
      BY <1>0, <2>1 DEF BusyPC, SchedPC
    <2> QED
      BY <1>1, <1>2, <1>4, <2>2 DEF SettleStep, SettleCompleted, SettlePaused,
         SettleCancelled, SettleFailed, SettleRefused, EndTo, End, Abort, TerminalState
  <1>5. CASE SchedReconcile \/ SchedGiveUp \/ SchedRegister
    <2>1. cur \in Jobs
      BY <1>0, <1>5 DEF SchedReconcile, SchedGiveUp, SchedRegister, BusyPC, SchedPC
    <2> QED
      BY <1>1, <1>2, <1>5, <2>1 DEF SchedReconcile, SchedGiveUp, SchedRegister, EndTo,
         End, TerminalState
  <1>6. CASE SchedReplan
    BY <1>2, <1>6, ReplanOnStore
  <1>7. CASE SchedGate \/ Start
    BY <1>0, <1>1, <1>7, SweepEffects DEF SchedGate, Start, SamePlan
  <1>8. CASE SchedFailure
    BY <1>1, <1>8 DEF SchedFailure, SchedPlanFails, SchedLaunchFails, SchedSpawnFails,
       SchedReaderFails, SchedTimeout, Abort
  <1>9. CASE \/ SchedSnapshot \/ (\E t \in todo : SchedProbe(t)) \/ SchedProbed
             \/ SchedReread \/ SchedCleanOrphan \/ SchedDrain \/ SchedIdle
             \/ (\E j \in Jobs : SchedPick(j)) \/ SchedReplanRefused \/ SchedLaunch
             \/ SchedLock \/ SchedReconcileRefused
    BY <1>1, <1>9 DEF SchedSnapshot, SchedProbe, SchedProbed, SchedReread,
       SchedCleanOrphan, SchedDrain, SchedIdle, SchedPick, SchedReplanRefused,
       SchedLaunch, SchedLock, SchedReconcileRefused, Abort
  <1>10. CASE \/ SchedMarkRunning \/ SchedMarkRefused \/ SchedSpawn \/ SchedReap
              \/ SchedReadState \/ SchedClean \/ SchedAbort \/ SchedAbandon
              \/ SchedGiveUpRefused
    BY <1>1, <1>10 DEF SchedMarkRunning, SchedMarkRefused, SchedSpawn, SchedReap,
       SchedReadState, SchedClean, SchedAbort, SchedAbandon, SchedGiveUpRefused, Abort
  <1>11. CASE \E p \in Proc : ChildStep(p) \/ ChildFail(p)
    <2>1. UNCHANGED childFrame
      BY <1>11 DEF ChildStep, ChildFail, ChildOpen, ChildLock, ChildLockTimeout,
         ChildStart, ChildCheckpoint, ChildFence, ChildPublish, ChildReceipt, ChildSucceed
    <2> QED
      BY <1>1, <2>1 DEF childFrame
  <1>12. CASE MainStop \/ MainExit \/ Crash \/ UNCHANGED vars
    BY <1>1, <1>12 DEF MainStop, MainExit, Crash, Stopping, vars
  <1> QED
    BY <1>3, <1>4, <1>5, <1>6, <1>7, <1>8, <1>9, <1>10, <1>11, <1>12, ClientKeepsAttempts
       DEF Next, SchedStep

(* Every step keeps the children attended.                                 *)
LEMMA ChildAttendedStep ==
  ASSUME Typed, RunInv, [Next]_vars
  PROVE  ChildAttended'
  <1>0. /\ DownIsOff /\ CurRuns /\ RegisteredIsLast /\ OwnIsLast
        /\ sched \in SchedPC /\ (sched \in BusyPC => cur \in Jobs)
        /\ child \in [Proc -> Process]
    BY TypedParts DEF RunInv, JobsAttended, ChildAttended
  <1>1. sched = "register" => MayUpdateProcess(cur)
    BY <1>0 DEF CurRuns, RunningPC, MayUpdateProcess, BusyState, AskedState
  <1>2. sched \in {"spawn", "register", "wait"}
          => cur \in Jobs /\ jobs'[cur].attempt = jobs[cur].attempt
    BY <1>0, AttemptStays DEF BusyPC, SchedPC
  <1>3. RegisteredIsLast'
    BY <1>0, <1>1, <1>2, WaitMoves DEF RegisteredIsLast
  <1>4. OwnIsLast'
    <2> SUFFICES ASSUME NEW p \in Proc, OwnChild(p)'
                 PROVE  /\ sched' \in {"register", "wait"}
                        /\ p = <<cur', jobs'[cur'].attempt>>
      BY DEF OwnIsLast
    <2>1. /\ ~Crash /\ ~(SchedReaderFails /\ p = <<cur, jobs[cur].attempt>>)
          /\ OwnChild(p) \/ (SchedSpawn /\ p = <<cur, jobs[cur].attempt>>)
      BY OwnMoves
    <2>2. CASE SchedSpawn /\ p = <<cur, jobs[cur].attempt>>
      BY <1>0, <1>2, <2>2, WaitMoves
    <2>3. CASE OwnChild(p)
      <3>1. sched \in {"register", "wait"} /\ p = <<cur, jobs[cur].attempt>>
        BY <1>0, <2>3 DEF OwnIsLast
      <3>2. ~(sched = "wait" /\ ~Alive(active))
        BY <1>0, <2>3, <3>1 DEF RegisteredIsLast, OwnChild
      <3>3. sched' \in {"register", "wait"} /\ cur' = cur
        BY <1>0, <1>1, <2>1, <3>1, <3>2, WaitMoves
      <3> QED
        BY <1>2, <3>1, <3>3
    <2> QED
      BY <2>1, <2>2, <2>3
  <1> QED
    BY <1>3, <1>4 DEF ChildAttended

(* The inductive invariant for the job that runs and its child.            *)
LEMMA RunInvariance == Spec => [](Typed /\ RunInv)
  <1>1. Init => Typed /\ RunInv
    <2> SUFFICES ASSUME Init PROVE RunInv
      BY InitTyped
    <2>1. \A p \in Proc : child[p].phase = "none"
      BY DEF Init, NoChild
    <2>2. ChildAttended
      BY <2>1 DEF Init, ChildAttended, RegisteredIsLast, OwnIsLast, OwnChild, Alive,
         LivePhase, LockedPhase
    <2>3. JobsAttended
      BY DEF Init, StoreInit, JobsAttended, DownIsOff, RunningIsAttended, CurRuns,
         FinishIsDue, RunningPC, Idle
    <2> QED
      BY <2>2, <2>3 DEF RunInv
  <1>2. Typed /\ RunInv /\ [Next]_vars => (Typed /\ RunInv)'
    BY TypedStep, JobsAttendedStep, ChildAttendedStep DEF RunInv
  <1> QED
    BY <1>1, <1>2, PTL DEF Spec

(* While a daemon is up, a Running job is the one its scheduler is busy    *)
(* with: no error path of execute_job, no request and no crash leaves a    *)
(* job Running that nobody will look at.                                   *)
THEOREM RunningAttended == Spec => []RunningIsAttended
  <1>1. Typed /\ RunInv => RunningIsAttended
    BY DEF RunInv, JobsAttended
  <1> QED
    BY <1>1, RunInvariance, PTL

(* How the scheduler leaves the end of a job whose launch has failed.      *)
LEMMA EndingMoves ==
  ASSUME Typed, DownIsOff, [Next]_vars, sched \in EndingPC
  PROVE  \/ sched' \in EndingPC /\ cur' = cur
         \/ jobs'[cur].state \in TerminalState \/ ~Live(cur)
         \/ Crash
  <1>0. cur \in Jobs /\ jobs \in [Jobs -> Job] /\ nextSequence \in Nat
    BY TypedParts DEF EndingPC, BusyPC, SchedPC
  <1> DEFINE Goal == \/ sched' \in EndingPC /\ cur' = cur
                     \/ jobs'[cur].state \in TerminalState \/ ~Live(cur)
                     \/ Crash
  <1> USE DEF EndingPC, Goto
  <1>1. CASE UNCHANGED <<sched, cur>>
    BY <1>1
  <1>2. CASE SchedAbort
    BY <1>2 DEF SchedAbort
  <1>3. CASE SchedAbandon
    BY <1>3 DEF SchedAbandon
  <1>4. CASE SchedGiveUp
    <2> DEFINE outcome == IF seen.receipt THEN "Completed" ELSE "Failed"
    <2>1. Terminalize(cur, outcome) /\ cur' = cur /\ outcome \in TerminalState
      BY <1>4 DEF SchedGiveUp, EndTo, End, TerminalState
    <2>2. jobs'[cur].state = outcome
      BY <1>0, <2>1, StoreEffects DEF Turns
    <2> QED
      BY <2>1, <2>2 DEF Terminal
  <1>5. CASE SchedGiveUpRefused
    BY <1>5 DEF SchedGiveUpRefused
  <1>6. ASSUME sched \notin EndingPC
        PROVE  FALSE
    BY <1>6
  <1>7. CASE RecoverStep \/ SettleStep
    BY <1>6, <1>7 DEF RecoverStep, RecoverCompleted, RecoverCancelled, RecoverPaused,
       RecoverRequeued, RecoverUncertain, RecoverRefused, Settling, SettleStep,
       SettleCompleted, SettlePaused, SettleCancelled, SettleFailed, SettleRefused
  <1>8. CASE SchedFailure
    BY <1>6, <1>8 DEF SchedFailure, SchedPlanFails, SchedLaunchFails, SchedSpawnFails,
       SchedReaderFails, SchedTimeout
  <1>9. CASE \/ SchedSnapshot \/ (\E t \in todo : SchedProbe(t)) \/ SchedProbed
             \/ SchedReread \/ SchedCleanOrphan \/ SchedGate \/ SchedDrain \/ SchedIdle
             \/ (\E j \in Jobs : SchedPick(j)) \/ SchedReplan \/ SchedReplanRefused
    BY <1>6, <1>9 DEF SchedSnapshot, SchedProbe, SchedProbed, SchedReread,
       SchedCleanOrphan, SchedGate, SchedDrain, SchedIdle, SchedPick, SchedReplan,
       SchedReplanRefused
  <1>10. CASE \/ SchedLaunch \/ SchedLock \/ SchedReconcile \/ SchedReconcileRefused
              \/ SchedMarkRunning \/ SchedMarkRefused \/ SchedSpawn \/ SchedRegister
              \/ SchedReap \/ SchedReadState \/ SchedClean
    BY <1>6, <1>10 DEF SchedLaunch, SchedLock, SchedReconcile, SchedReconcileRefused,
       SchedMarkRunning, SchedMarkRefused, SchedSpawn, SchedRegister, SchedReap,
       SchedReadState, SchedClean
  <1>11. ASSUME NEW c \in Clients, ClientRequest(c) \/ ClientStep(c)
         PROVE  Goal
    BY <1>1, <1>11, ClientFrame DEF schedVars
  <1>12. ASSUME NEW p \in Proc, ChildStep(p) \/ ChildFail(p)
         PROVE  Goal
    <2>1. UNCHANGED childFrame
      BY <1>12 DEF ChildStep, ChildFail, ChildOpen, ChildLock, ChildLockTimeout,
         ChildStart, ChildCheckpoint, ChildFence, ChildPublish, ChildReceipt, ChildSucceed
    <2> QED
      BY <1>1, <2>1 DEF childFrame, schedVars
  <1>13. CASE MainStop \/ UNCHANGED vars
    BY <1>1, <1>13 DEF MainStop, vars, schedVars
  <1>14. CASE MainExit
    BY <1>6, <1>14 DEF MainExit
  <1>15. CASE SchedStep \/ SchedFailure
    BY <1>2, <1>3, <1>4, <1>5, <1>7, <1>8, <1>9, <1>10, <1>15 DEF SchedStep
  <1>16. CASE Start
    BY <1>16 DEF Start, DownIsOff
  <1> QED
    BY <1>11, <1>12, <1>13, <1>14, <1>15, <1>16 DEF Next

(* Every step keeps a stray out of the life of any job.                    *)
LEMMA StrayStep ==
  ASSUME Typed, RunInv, HistoryInv, StrayIsEnding, [Next]_vars
  PROVE  StrayIsEnding'
  <1>0. /\ StoreTypeOK /\ DownIsOff /\ CurRuns /\ (sched \in BusyPC => cur \in Jobs)
    BY TypedParts DEF RunInv, JobsAttended, Typed, TypeOK
  <1>1. ASSUME NEW j \in Jobs
        PROVE  /\ Terminal(j) => jobs'[j].state = jobs[j].state
               /\ jobs'[j].state = "Unsubmitted" => jobs[j].state = "Unsubmitted"
    <2>1. CASE StoreNext
      BY <1>0, <2>1, StoreKeeps
    <2>2. CASE UNCHANGED storeVars
      BY <2>2 DEF storeVars
    <2> QED
      BY <2>1, <2>2, NextOnStore
  <1> SUFFICES ASSUME NEW p \in Proc, Alive(p)', child'[p].stray
               PROVE  /\ jobs'[p[1]].state # "Unsubmitted"
                      /\ \/ Terminal(p[1])'
                         \/ sched' \in EndingPC /\ p = <<cur', jobs'[cur'].attempt>>
    BY DEF StrayIsEnding
  <1>2. p[1] \in Jobs
    BY DEF Proc
  <1>3. /\ ~Crash
        /\ \/ Alive(p) /\ child[p].stray
           \/ SchedReaderFails /\ p = <<cur, jobs[cur].attempt>>
    BY StrayMoves
  <1>4. CASE SchedReaderFails /\ p = <<cur, jobs[cur].attempt>>
    <2>1. /\ sched = "register" /\ sched' = "abort" /\ cur' = cur /\ jobs' = jobs
          /\ p[1] = cur
      BY <1>4, ReaderFailsEffect
    <2>2. jobs[cur].state # "Unsubmitted"
      BY <1>0, <2>1 DEF CurRuns, RunningPC, BusyState, AskedState
    <2> QED
      BY <1>4, <2>1, <2>2 DEF EndingPC
  <1>5. CASE Alive(p) /\ child[p].stray
    <2>1. /\ jobs[p[1]].state # "Unsubmitted"
          /\ Terminal(p[1]) \/ (sched \in EndingPC /\ p = <<cur, jobs[cur].attempt>>)
      BY <1>5 DEF StrayIsEnding
    <2>2. jobs'[p[1]].state # "Unsubmitted" /\ (Terminal(p[1]) => Terminal(p[1])')
      BY <1>1, <1>2, <2>1 DEF Terminal
    <2>3. CASE sched \in EndingPC /\ p = <<cur, jobs[cur].attempt>>
      <3>1. cur \in Jobs /\ p[1] = cur /\ jobs'[cur].attempt = jobs[cur].attempt
        BY <1>0, <2>3, AttemptStays DEF EndingPC, BusyPC, SchedPC
      <3>2. ~Live(cur) => Terminal(cur)
        <4>1. jobs[cur].state \in JobState
          BY <1>0, <3>1 DEF StoreTypeOK, Job
        <4> QED
          BY <2>1, <3>1, <4>1 DEF JobState, Live, Terminal
      <3>3. \/ sched' \in EndingPC /\ cur' = cur
            \/ jobs'[cur].state \in TerminalState \/ ~Live(cur)
        BY <1>0, <1>3, <2>3, EndingMoves
      <3>4. CASE sched' \in EndingPC /\ cur' = cur
        BY <2>2, <2>3, <3>1, <3>4
      <3>5. CASE ~Live(cur)
        BY <2>2, <3>1, <3>2, <3>5
      <3>6. CASE jobs'[cur].state \in TerminalState
        BY <2>2, <3>1, <3>6 DEF Terminal
      <3> QED
        BY <3>3, <3>4, <3>5, <3>6
    <2> QED
      BY <2>1, <2>2, <2>3
  <1> QED
    BY <1>3, <1>4, <1>5

(* A live child that a daemon has not lost is that of the last attempt of  *)
(* the job at hand, and that job still runs or was asked to stop; one that *)
(* was lost belongs to a job that has ended or is about to.                *)
THEOREM OneChildAtMost == Spec => []OneOwnChild
  <1>1. Typed /\ RunInv /\ StrayIsEnding => OneOwnChild
    <2> SUFFICES ASSUME Typed, RunInv, StrayIsEnding PROVE OneOwnChild
      OBVIOUS
    <2>1. /\ CurRuns /\ OwnIsLast /\ RegisteredIsLast
      BY DEF RunInv, JobsAttended, ChildAttended
    <2>2. ASSUME NEW p \in Proc, OwnChild(p)
          PROVE  /\ cur = p[1] /\ p[2] = jobs[cur].attempt
                 /\ jobs[cur].state \in {"Running", "PauseRequested", "CancelRequested"}
                 /\ sched \in {"register", "wait", "abort"}
      BY <2>1, <2>2 DEF OwnIsLast, CurRuns, RunningPC, BusyState, AskedState
    <2>3. ASSUME NEW p \in Proc, Alive(p), child[p].stray
          PROVE  \/ Terminal(p[1])
                 \/ /\ cur = p[1] /\ p[2] = jobs[cur].attempt /\ active = NoProc
                    /\ sched \in {"abort", "abandon", "giveUp"}
      BY <2>1, <2>3 DEF StrayIsEnding, EndingPC, RegisteredIsLast
    <2> QED
      BY <2>2, <2>3 DEF OneOwnChild
  <1>2. Init => HistoryInv /\ StrayIsEnding
    <2> SUFFICES ASSUME Init PROVE HistoryInv /\ StrayIsEnding
      OBVIOUS
    <2>1. \A p \in Proc : ~Alive(p)
      BY DEF Init, NoChild, Alive, LivePhase, LockedPhase
    <2>2. history = <<>> /\ Len(history) = 0 /\ Retained = {}
      BY DEF Init, StoreInit, Retained
    <2>3. HistoryInv
      BY <2>2 DEF HistoryInv, Once
    <2> QED
      BY <2>1, <2>3 DEF StrayIsEnding
  <1>3. Typed /\ HistoryInv /\ [Next]_vars => HistoryInv'
    <2> SUFFICES ASSUME Typed, HistoryInv, [Next]_vars PROVE HistoryInv'
      OBVIOUS
    <2>1. CASE StoreNext
      BY <2>1, HistoryStep DEF Typed, TypeOK
    <2>2. CASE UNCHANGED storeVars
      BY <2>2 DEF storeVars, HistoryInv, Retained, Terminal
    <2> QED
      BY <2>1, <2>2, NextOnStore
  <1> QED
    BY <1>1, <1>2, <1>3, StrayStep, RunInvariance, PTL DEF Spec


-----------------------------------------------------------------------------
(* A request to stop reaches the child.                                    *)

(* A request thread has a job only while it handles a control request.     *)
IdleHasNoJob == \A c \in Clients : client[c].pc \notin ControlPC => client[c].job = NoJob

(* From the start of a run, a request that is not on its way any more is   *)
(* in the control file, where a cancellation is written before it kills.   *)
AskedIsWritten ==
  /\ sched \in {"spawn", "register", "wait"}
  /\ jobs[cur].state \in AskedState
  /\ \A c \in Clients : client[c].job = cur => client[c].pc = "cancelKill"
  => control[cur] \in {"Pause", "Cancel"}

StopInv == IdleHasNoJob /\ AskedIsWritten

(* What the scheduler does to a control file while it runs a job.          *)
LEMMA SchedControl ==
  ASSUME Typed, RunInv, SchedStep \/ SchedFailure,
         sched' \in {"spawn", "register", "wait"}, jobs'[cur'].state \in AskedState
  PROVE  /\ sched \in {"spawn", "register", "wait"} /\ cur' = cur
         /\ jobs'[cur].state = jobs[cur].state
         /\ control' = control \/ control'[cur] = "Cancel"
  <1>0. /\ jobs \in [Jobs -> Job] /\ nextSequence \in Nat
        /\ (sched \in BusyPC => cur \in Jobs) /\ CurRuns
        /\ control \in [Jobs -> {"none", "Run", "Pause", "Cancel"}]
    BY TypedParts DEF RunInv, JobsAttended
  <1> USE DEF Goto, schedVars, fileVars
  <1>1. CASE SchedRegister
    <2>1. /\ cur \in Jobs /\ UpdateProcessId(cur) /\ sched = "register" /\ cur' = cur
          /\ control' = control
      BY <1>0, <1>1 DEF SchedRegister, BusyPC, SchedPC, CurRuns, RunningPC,
         MayUpdateProcess, BusyState, AskedState
    <2> QED
      BY <1>0, <2>1, StoreEffects DEF Turns
  <1>2. CASE SchedSpawn \/ SchedTimeout
    BY <1>0, <1>2 DEF SchedSpawn, SchedTimeout, storeVars, BusyPC, SchedPC
  <1>3. CASE SchedMarkRunning
    <2>1. cur \in Jobs /\ MarkRunning(cur) /\ cur' = cur
      BY <1>0, <1>3 DEF SchedMarkRunning, BusyPC, SchedPC
    <2>2. jobs'[cur].state = "Running"
      BY <1>0, <2>1, StoreEffects DEF Turns
    <2> QED
      BY <2>1, <2>2 DEF AskedState
  <1>4. ASSUME sched' \notin {"spawn", "register", "wait"}
        PROVE  FALSE
    BY <1>4
  <1>5. CASE RecoverStep \/ SettleStep
    BY <1>4, <1>5 DEF RecoverStep, RecoverCompleted, RecoverCancelled, RecoverPaused,
       RecoverRequeued, RecoverUncertain, RecoverRefused, Settled, Die, SettleStep,
       SettleCompleted, SettlePaused, SettleCancelled, SettleFailed, SettleRefused,
       EndTo, Abort
  <1>6. CASE \/ SchedPlanFails \/ SchedLaunchFails \/ SchedSpawnFails
             \/ SchedReaderFails
    BY <1>4, <1>6 DEF SchedPlanFails, SchedLaunchFails, SchedSpawnFails,
       SchedReaderFails, Abort
  <1>7. CASE \/ SchedSnapshot \/ (\E t \in todo : SchedProbe(t)) \/ SchedProbed
             \/ SchedReread \/ SchedCleanOrphan \/ SchedGate \/ SchedDrain \/ SchedIdle
             \/ (\E j \in Jobs : SchedPick(j)) \/ SchedReplan \/ SchedReplanRefused
    BY <1>4, <1>7 DEF SchedSnapshot, SchedProbe, SchedProbed, SchedReread,
       SchedCleanOrphan, SchedGate, SchedDrain, SchedIdle, SchedPick, SchedReplan,
       SchedReplanRefused, Die
  <1>8. CASE \/ SchedLaunch \/ SchedLock \/ SchedReconcile \/ SchedReconcileRefused
             \/ SchedMarkRefused \/ SchedReap \/ SchedReadState \/ SchedClean
             \/ SchedAbort \/ SchedAbandon \/ SchedGiveUp \/ SchedGiveUpRefused
    BY <1>4, <1>8 DEF SchedLaunch, SchedLock, SchedReconcile, SchedReconcileRefused,
       SchedMarkRefused, SchedReap, SchedReadState, SchedClean, SchedAbort,
       SchedAbandon, SchedGiveUp, SchedGiveUpRefused, EndTo, Abort, Die
  <1> QED
    BY <1>1, <1>2, <1>3, <1>5, <1>6, <1>7, <1>8 DEF SchedStep, SchedFailure

(* A step of a request thread leaves a request to the running job either   *)
(* in the control file or in the hands of that thread.                     *)
LEMMA ClientControl ==
  ASSUME Typed, RunInv, StopInv, NEW c \in Clients, ClientRequest(c) \/ ClientStep(c)
  PROVE  StopInv'
  <1>0. /\ jobs \in [Jobs -> Job] /\ nextSequence \in Nat
        /\ client \in [Clients -> [pc : ClientPC, job : Jobs \cup {NoJob}]]
        /\ control \in [Jobs -> {"none", "Run", "Pause", "Cancel"}]
        /\ \A d \in Clients : client[d].pc \in ControlPC => client[d].job \in Jobs
        /\ (sched \in BusyPC => cur \in Jobs)
        /\ UNCHANGED <<sched, cur>>
        /\ \A d \in Clients : d # c => client'[d] = client[d]
        /\ IdleHasNoJob /\ AskedIsWritten
        /\ JobsAttended
    BY TypedParts, ClientFrame DEF schedVars, StopInv, RunInv
  <1>1. IdleHasNoJob'
    <2>1. client'[c].pc \notin ControlPC => client'[c].job = NoJob
      BY <1>0 DEF IdleHasNoJob, ClientRequest, ClientSubmit, ClientResume, ClientPause,
         ClientCancel, ClientShutdown, ClientStep, ClientStop, ClientSignal, ClientKill,
         ClientFinish, At, Done, Idle, ControlPC
    <2> QED
      BY <1>0, <2>1 DEF IdleHasNoJob
  <1>2. AskedIsWritten'
    <2> SUFFICES ASSUME sched \in {"spawn", "register", "wait"},
                        jobs'[cur].state \in AskedState,
                        \A d \in Clients : client'[d].job = cur => client'[d].pc = "cancelKill"
                 PROVE  control'[cur] \in {"Pause", "Cancel"}
      BY <1>0 DEF AskedIsWritten
    <2>0. /\ cur \in Jobs /\ jobs[cur].state \in BusyState /\ jobs[cur].pid
          /\ cur # NoJob
      BY <1>0, NoJobAssumption DEF JobsAttended, CurRuns, RunningPC, BusyPC, SchedPC
    <2>1. ASSUME control' = control, jobs'[cur].state = jobs[cur].state,
                 client[c].job = cur => client[c].pc = "cancelKill"
          PROVE  control'[cur] \in {"Pause", "Cancel"}
      BY <1>0, <2>1 DEF AskedIsWritten
    <2> USE DEF Accept, requestFrame, clientFrame, fileVars, At, Done
    <2>2. ASSUME NEW j \in Jobs, ClientSubmit(c, j) \/ ClientResume(c, j)
          PROVE  control'[cur] \in {"Pause", "Cancel"}
      <3>1. control' = control /\ client[c].job = NoJob
        BY <2>2 DEF ClientSubmit, ClientResume, Idle
      <3>2. \/ Turns(j, {"Unsubmitted"}, {"Queued"}, jobs[j].pid)
            \/ Turns(j, {"Paused"}, {"Queued"}, jobs[j].pid)
        BY <1>0, <2>2, StoreEffects DEF ClientSubmit, ClientResume
      <3>3. j # cur
        BY <2>0, <3>2 DEF Turns, BusyState, AskedState
      <3> QED
        BY <2>0, <2>1, <3>1, <3>2, <3>3 DEF Turns
    <2>3. ASSUME NEW j \in Jobs, ClientPause(c, j)
          PROVE  control'[cur] \in {"Pause", "Cancel"}
      <3>1. /\ RequestPause(j) /\ control' = control /\ client[c].job = NoJob
            /\ jobs[j].pid => client'[c].job = j /\ client'[c].pc = "pauseSignal"
        BY <1>0, <2>3 DEF ClientPause, Idle
      <3>2. j # cur
        BY <2>0, <3>1
      <3>3. \A k \in Jobs : k # j => jobs'[k] = jobs[k]
        BY <1>0, <3>1, StoreEffects DEF Turns
      <3> QED
        BY <2>0, <2>1, <3>1, <3>2, <3>3
    <2>4. ASSUME NEW j \in Jobs, ClientCancel(c, j)
          PROVE  control'[cur] \in {"Pause", "Cancel"}
      <3>1. /\ RequestCancel(j) /\ control' = control /\ client[c].job = NoJob
            /\ client'[c].job = j /\ client'[c].pc \in {"cancelSignal", "cancelFinish"}
        BY <1>0, <2>4 DEF ClientCancel, Idle
      <3>2. j # cur
        BY <2>0, <3>1
      <3>3. \A k \in Jobs : k # j => jobs'[k] = jobs[k]
        <4>1. Turns(j, LiveState \ {"CancelRequested"}, {"CancelRequested"}, jobs[j].pid)
          BY <1>0, <3>1, StoreEffects
        <4> QED
          BY <4>1 DEF Turns
      <3> QED
        BY <2>0, <2>1, <3>1, <3>2, <3>3
    <2>5. CASE ClientShutdown(c)
      BY <2>0, <2>1, <2>5 DEF ClientShutdown, Idle, storeVars
    <2>6. CASE ClientStop(c)
      <3>1. client[c].job = NoJob
        BY <1>0, <2>6 DEF ClientStop, IdleHasNoJob, ControlPC
      <3> QED
        BY <2>0, <2>1, <2>6, <3>1 DEF ClientStop, storeVars
    <2>7. CASE ClientKill(c)
      BY <2>1, <2>7 DEF ClientKill, storeVars
    <2>8. CASE ClientSignal(c)
      <3>1. client[c].job \in Jobs
        BY <1>0, <2>8 DEF ClientSignal, ControlPC
      <3>2. CASE client[c].job = cur
        BY <1>0, <2>0, <2>8, <3>2 DEF ClientSignal
      <3>3. CASE client[c].job # cur
        <4>1. control'[cur] = control[cur] /\ jobs' = jobs
          BY <1>0, <2>0, <2>8, <3>1, <3>3 DEF ClientSignal, storeVars
        <4> QED
          BY <1>0, <3>3, <4>1 DEF AskedIsWritten
      <3> QED
        BY <3>2, <3>3
    <2>9. CASE ClientFinish(c)
      <3>1. client[c].job \in Jobs /\ control' = control
        BY <1>0, <2>9 DEF ClientFinish, ControlPC
      <3>2. client[c].job # cur
        BY <1>0, <2>0, <2>9 DEF ClientFinish, JobsAttended, FinishIsDue, Terminal,
           TerminalState, BusyState, AskedState
      <3>3. jobs'[cur] = jobs[cur]
        <4>1. CASE Terminalize(client[c].job, "Cancelled")
          BY <1>0, <2>0, <3>1, <3>2, <4>1, StoreEffects DEF Turns, TerminalState
        <4>2. CASE UNCHANGED storeVars
          BY <4>2 DEF storeVars
        <4> QED
          BY <2>9, <4>1, <4>2 DEF ClientFinish, End
      <3> QED
        BY <2>1, <3>1, <3>2, <3>3
    <2> QED
      BY <2>2, <2>3, <2>4, <2>5, <2>6, <2>7, <2>8, <2>9 DEF ClientRequest, ClientStep
  <1> QED
    BY <1>1, <1>2 DEF StopInv

(* Every step keeps the requests in sight.                                 *)
LEMMA StopInvStep ==
  ASSUME Typed, RunInv, StopInv, [Next]_vars
  PROVE  StopInv'
  <1>0. /\ control \in [Jobs -> {"none", "Run", "Pause", "Cancel"}]
        /\ (sched \in BusyPC => cur \in Jobs) /\ IdleHasNoJob /\ AskedIsWritten
        /\ active \in Proc \cup {NoProc}
    BY TypedParts DEF StopInv
  <1>1. ASSUME UNCHANGED <<jobs, client, sched, cur>>,
               control' = control \/ control'[cur] = "Cancel"
        PROVE  StopInv'
    BY <1>0, <1>1 DEF StopInv, IdleHasNoJob, AskedIsWritten
  <1>2. CASE SchedStep \/ SchedFailure
    <2>1. client' = client
      BY <1>2 DEF SchedStep, SchedFailure, schedFrame, SchedSnapshot, SchedProbe,
         SchedProbed, SchedReread, RecoverStep, RecoverCompleted, RecoverCancelled,
         RecoverPaused, RecoverRequeued, RecoverUncertain, RecoverRefused, Settled,
         Settling, SchedCleanOrphan, SchedGate, SchedDrain, SchedIdle, SchedPick,
         SchedReplan, SchedReplanRefused, SchedLaunch, SchedLock, SchedReconcile,
         SchedReconcileRefused, SchedMarkRunning, SchedMarkRefused, SchedSpawn,
         SchedRegister, SchedReap, SchedReadState, SettleStep, SettleCompleted,
         SettlePaused, SettleCancelled, SettleFailed, SettleRefused, SchedClean,
         SchedAbort, SchedAbandon, SchedGiveUp, SchedGiveUpRefused, SchedPlanFails,
         SchedLaunchFails, SchedSpawnFails, SchedReaderFails, SchedTimeout, EndTo, Abort
    <2>2. IdleHasNoJob'
      BY <1>0, <2>1 DEF IdleHasNoJob
    <2>3. AskedIsWritten'
      <3> SUFFICES ASSUME sched' \in {"spawn", "register", "wait"},
                          jobs'[cur'].state \in AskedState,
                          \A d \in Clients : client[d].job = cur' => client[d].pc = "cancelKill"
                   PROVE  control'[cur'] \in {"Pause", "Cancel"}
        BY <2>1 DEF AskedIsWritten
      <3> QED
        BY <1>0, <1>2, SchedControl DEF AskedIsWritten
    <2> QED
      BY <2>2, <2>3 DEF StopInv
  <1>3. CASE \E c \in Clients : ClientRequest(c) \/ ClientStep(c)
    BY <1>3, ClientControl
  <1>4. ASSUME NEW p \in Proc, ChildStep(p) \/ ChildFail(p)
        PROVE  StopInv'
    <2>1. UNCHANGED childFrame
      BY <1>4 DEF ChildStep, ChildFail, ChildOpen, ChildLock, ChildLockTimeout,
         ChildStart, ChildCheckpoint, ChildFence, ChildPublish, ChildReceipt, ChildSucceed
    <2> QED
      BY <1>1, <2>1 DEF childFrame, storeVars, schedVars
  <1>5. CASE MainStop
    <2>1. UNCHANGED <<jobs, client, sched, cur>>
      BY <1>5 DEF MainStop, storeVars, schedVars
    <2>2. \/ control' = control
          \/ control' = [control EXCEPT ![active[1]] = "Cancel"]
      BY <1>5 DEF MainStop
    <2>3. \A k \in Jobs : control'[k] \in {control[k], "Cancel"}
      BY <1>0, <2>2
    <2> QED
      BY <1>0, <2>1, <2>3 DEF StopInv, IdleHasNoJob, AskedIsWritten, BusyPC, SchedPC
  <1>6. CASE MainExit \/ Crash
    <2>1. sched' = "off" /\ client' = [c \in Clients |-> Idle]
      BY <1>6 DEF MainExit, Crash, Stopping
    <2> QED
      BY <2>1 DEF StopInv, IdleHasNoJob, AskedIsWritten, Idle
  <1>7. CASE Start
    BY <1>0, <1>7 DEF Start, StopInv, IdleHasNoJob, AskedIsWritten
  <1>8. CASE UNCHANGED vars
    BY <1>1, <1>8 DEF vars, storeVars, schedVars, fileVars
  <1> QED
    BY <1>2, <1>3, <1>4, <1>5, <1>6, <1>7, <1>8 DEF Next

(* Once the requests that asked a job to stop are answered, the control    *)
(* file its live child will read does not say Run: no order of the request *)
(* threads and the scheduler loses a request.                              *)
THEOREM StopAlwaysVisible == Spec => []StopIsVisible
  <1>1. Init => StopInv
    BY DEF Init, StopInv, IdleHasNoJob, AskedIsWritten, Idle
  <1>2. Typed /\ RunInv /\ StopInv /\ [Next]_vars => StopInv'
    BY StopInvStep
  <1>3. Typed /\ RunInv /\ StopInv => StopIsVisible
    BY DEF RunInv, ChildAttended, OwnIsLast, StopInv, AskedIsWritten, StopIsVisible,
       AskedState
  <1> QED
    BY <1>1, <1>2, <1>3, RunInvariance, PTL DEF Spec

-----------------------------------------------------------------------------
(* The receipt of a completed job stays.                                   *)

(* A receipt the scheduler has seen stays for as long as its job has not   *)
(* ended, and a job that is recovered without one is not Completed.        *)
SeenStays == ReceiptSeen /\ ~Terminal(cur) => ValidReceipt(cur)
OrphanNotCompleted == sched = "settleOrphan" => jobs[cur].state # "Completed"

KeepInv == HistoryInv /\ SeenStays /\ OrphanNotCompleted /\ CompletedKeepsReceipt

(* The five ways a receipt can be deleted: its entry expires, recovery or  *)
(* a launch finds it invalid, a forced shutdown cancels its job, or a      *)
(* daemon that starts finds no entry for it.                               *)
ReceiptGoes(j) ==
  \/ j \in Retained /\ j \notin Retained'
  \/ j = cur /\ sched = "settleOrphan" /\ ~seen.receipt
  \/ j = cur /\ sched = "lock" /\ ~ValidReceipt(j)
  \/ j \in Waiting /\ jobs'[j].state = "Cancelled"
  \/ sched' = "top" /\ ~Live(j) /\ j \notin Retained /\ history' = history

(* A receipt is never replaced, and deleted in those ways only.            *)
LEMMA ReceiptFate ==
  ASSUME Typed, HistoryInv, [Next]_vars, NEW j \in Jobs, receipt[j] # NoFile
  PROVE  receipt'[j] = receipt[j] \/ ReceiptGoes(j)
  <1> DEFINE Goal == receipt'[j] = receipt[j] \/ ReceiptGoes(j)
  <1>0. /\ receipt \in [Jobs -> Int] /\ jobs \in [Jobs -> Job] /\ StoreTypeOK /\ BindingOK
        /\ nextSequence \in Nat
    BY TypeParts DEF Typed, ServerTypeOK, StoreTypeOK
  <1>1. ASSUME NEW S, RemoveReceipts(S), j \notin S
        PROVE  Goal
    BY <1>1 DEF RemoveReceipts
  <1>2. CASE receipt' = receipt
    BY <1>2
  <1>3. ASSUME NEW k \in Jobs, NEW outcome \in TerminalState, NEW deleted,
               End(k, outcome, deleted), j \in deleted => ReceiptGoes(j)
        PROVE  Goal
    <2>1. /\ Terminalize(k, outcome)
          /\ RemoveReceipts(Expired(Append(history, k)) \cup deleted)
      BY <1>3 DEF End
    <2>2. /\ Expired(Append(history, k)) \subseteq Retained
          /\ \A i \in Retained' : i \notin Expired(Append(history, k))
      BY <1>0, <2>1, TerminalizeHistory
    <2>3. CASE j \in Expired(Append(history, k))
      BY <2>2, <2>3 DEF ReceiptGoes
    <2>4. CASE j \in deleted
      BY <1>3, <2>4
    <2>5. CASE j \notin Expired(Append(history, k)) \cup deleted
      BY <1>1, <2>1, <2>5
    <2> QED
      BY <2>3, <2>4, <2>5
  <1>4. CASE RecoverStep
    <2>0. cur \in Jobs
      BY <1>0, <1>4 DEF RecoverStep, RecoverCompleted, RecoverCancelled, RecoverPaused,
         RecoverRequeued, RecoverUncertain, RecoverRefused, Settling, BindingOK, BusyPC, SchedPC
    <2>1. CASE RecoverCompleted
      <3>1. End(cur, "Completed", {})
        BY <2>1 DEF RecoverCompleted
      <3> QED
        BY <1>3, <2>0, <3>1 DEF TerminalState
    <2>2. CASE RecoverCancelled \/ RecoverUncertain
      <3>1. \E outcome \in {"Cancelled", "Failed"} : End(cur, outcome, {cur})
        BY <2>2 DEF RecoverCancelled, RecoverUncertain
      <3>2. sched = "settleOrphan" /\ ~seen.receipt
        BY <2>2 DEF RecoverCancelled, RecoverUncertain, Settling
      <3>3. j \in {cur} => ReceiptGoes(j)
        BY <3>2 DEF ReceiptGoes
      <3> QED
        BY <1>3, <2>0, <3>1, <3>3 DEF TerminalState
    <2>3. CASE RecoverPaused \/ RecoverRequeued
      <3>1. RemoveReceipts({cur}) /\ sched = "settleOrphan" /\ ~seen.receipt
        BY <2>3 DEF RecoverPaused, RecoverRequeued, Settling
      <3> QED
        BY <1>1, <3>1 DEF ReceiptGoes
    <2>4. CASE RecoverRefused
      <3>1. sched = "settleOrphan" /\ RemoveReceipts(IF seen.receipt THEN {} ELSE {cur})
        BY <2>4 DEF RecoverRefused, Settling
      <3>2. CASE seen.receipt
        BY <1>1, <3>1, <3>2
      <3>3. CASE ~seen.receipt
        BY <1>1, <3>1, <3>3 DEF ReceiptGoes
      <3> QED
        BY <3>2, <3>3
    <2> QED
      BY <1>4, <2>1, <2>2, <2>3, <2>4 DEF RecoverStep
  <1>5. ASSUME NEW outcome \in TerminalState, EndTo(outcome), cur \in Jobs
        PROVE  Goal
    <2>1. End(cur, outcome, {})
      BY <1>5 DEF EndTo
    <2> QED
      BY <1>3, <1>5, <2>1
  <1> USE DEF fileVars, schedFrame, requestFrame, clientFrame, childFrame
  <1>6. CASE SettleStep
    <2>0. cur \in Jobs
      BY <1>0, <1>6 DEF SettleStep, SettleCompleted, SettlePaused, SettleCancelled,
         SettleFailed, SettleRefused, BindingOK, BusyPC, SchedPC
    <2>1. (\E outcome \in TerminalState : EndTo(outcome)) \/ receipt' = receipt
      BY <1>6 DEF SettleStep, SettleCompleted, SettlePaused, SettleCancelled,
         SettleFailed, SettleRefused, Abort, TerminalState
    <2> QED
      BY <1>2, <1>5, <2>0, <2>1
  <1>7. CASE SchedReconcile \/ SchedGiveUp
    <2>1. cur \in Jobs /\ \E outcome \in TerminalState : EndTo(outcome)
      BY <1>0, <1>7 DEF SchedReconcile, SchedGiveUp, BindingOK, BusyPC, SchedPC,
         TerminalState
    <2> QED
      BY <1>5, <2>1
  <1>8. CASE SchedGate
    <2>1. CASE shutdown /\ force
      <3>1. CancelWaitingJobs /\ RemoveReceipts((Retained \cup Waiting) \ Retained')
        BY <1>8, <2>1 DEF SchedGate
      <3>2. j \in Waiting => jobs'[j].state = "Cancelled"
        BY <1>0, <3>1, SweepEffects
      <3> QED
        BY <1>1, <3>1, <3>2 DEF ReceiptGoes
    <2>2. CASE ~(shutdown /\ force)
      BY <1>2, <1>8, <2>2 DEF SchedGate
    <2> QED
      BY <2>1, <2>2
  <1>9. CASE SchedLock
    <2>1. sched = "lock" /\ \/ receipt' = receipt
                            \/ ~ValidReceipt(cur) /\ RemoveReceipts({cur})
      BY <1>9 DEF SchedLock
    <2> QED
      BY <1>1, <1>2, <2>1 DEF ReceiptGoes
  <1>10. CASE Start
    <2>1. /\ sched' = "top" /\ history' = history
          /\ RemoveReceipts({k \in Jobs : ~Live(k) /\ k \notin Retained})
      BY <1>10 DEF Start, PrepareRecovery
    <2> QED
      BY <1>1, <2>1 DEF ReceiptGoes
  <1>11. ASSUME NEW c \in Clients, ClientRequest(c) \/ ClientStep(c)
         PROVE  Goal
    <2>1. CASE ClientFinish(c) /\ Live(client[c].job)
      <3>1. client[c].job \in Jobs /\ End(client[c].job, "Cancelled", {})
        BY <1>0, <2>1 DEF ClientFinish, BindingOK, ControlPC
      <3> QED
        BY <1>3, <3>1 DEF TerminalState
    <2>2. CASE ~(ClientFinish(c) /\ Live(client[c].job))
      BY <1>2, <1>11, <2>2 DEF ClientRequest, ClientSubmit, ClientResume, ClientPause,
         ClientCancel, ClientShutdown, ClientStep, ClientStop, ClientSignal, ClientKill,
         ClientFinish
    <2> QED
      BY <2>1, <2>2
  <1>12. ASSUME NEW p \in Proc, ChildStep(p) \/ ChildFail(p)
         PROVE  Goal
    <2>1. CASE ChildReceipt(p)
      BY <1>0, <2>1 DEF ChildReceipt
    <2>2. CASE receipt' = receipt
      BY <1>2, <2>2
    <2> QED
      BY <1>12, <2>1, <2>2 DEF ChildStep, ChildFail, ChildOpen, ChildLock,
         ChildLockTimeout, ChildStart, ChildCheckpoint, ChildFence, ChildPublish,
         ChildSucceed
  <1>13. CASE \/ SchedSnapshot \/ (\E t \in todo : SchedProbe(t)) \/ SchedProbed
              \/ SchedReread \/ SchedCleanOrphan \/ SchedDrain \/ SchedIdle
              \/ (\E k \in Jobs : SchedPick(k)) \/ SchedReplan \/ SchedReplanRefused
              \/ SchedLaunch
    BY <1>2, <1>13 DEF SchedSnapshot, SchedProbe, SchedProbed, SchedReread,
       SchedCleanOrphan, SchedDrain, SchedIdle, SchedPick, SchedReplan,
       SchedReplanRefused, SchedLaunch, RemoveFiles
  <1>14. CASE \/ SchedReconcileRefused \/ SchedMarkRunning \/ SchedMarkRefused
              \/ SchedSpawn \/ SchedRegister \/ SchedReap \/ SchedReadState \/ SchedClean
              \/ SchedAbort \/ SchedAbandon \/ SchedGiveUpRefused
    BY <1>2, <1>14 DEF SchedReconcileRefused, SchedMarkRunning, SchedMarkRefused,
       SchedSpawn, SchedRegister, SchedReap, SchedReadState, SchedClean, SchedAbort,
       SchedAbandon, SchedGiveUpRefused, RemoveFiles, Abort
  <1>15. CASE SchedFailure
    BY <1>2, <1>15 DEF SchedFailure, SchedPlanFails, SchedLaunchFails, SchedSpawnFails,
       SchedReaderFails, SchedTimeout, Abort
  <1>16. CASE MainStop \/ MainExit \/ Crash
    BY <1>2, <1>16 DEF MainStop, MainExit, Crash, Stopping
  <1>17. CASE UNCHANGED vars
    BY <1>2, <1>17 DEF vars
  <1> QED
    BY <1>4, <1>6, <1>7, <1>8, <1>9, <1>10, <1>11, <1>12, <1>13, <1>14, <1>15, <1>16,
       <1>17 DEF Next, SchedStep


(* Recovery settles a job that is still in the queue.                      *)
LEMMA SettleEnters ==
  ASSUME Typed, [Next]_vars, sched' = "settleOrphan"
  PROVE  /\ cur' = cur
         /\ sched = "settleOrphan" \/ (Live(cur) /\ UNCHANGED storeVars)
  <1>1. CASE UNCHANGED schedVars
    BY <1>1 DEF schedVars
  <1>2. CASE sched' # "settleOrphan"
    BY <1>2
  <1>3. CASE SchedReread
    <2>1. CASE Live(cur)
      BY <1>3, <2>1 DEF SchedReread
    <2>2. CASE ~Live(cur)
      BY <1>3, <2>2 DEF SchedReread, Goto
    <2> QED
      BY <2>1, <2>2
  <1> USE DEF Goto
  <1>4. CASE RecoverStep \/ SettleStep
    BY <1>4 DEF RecoverStep, RecoverCompleted, RecoverCancelled, RecoverPaused,
       RecoverRequeued, RecoverUncertain, RecoverRefused, Settled, Die, SettleStep,
       SettleCompleted, SettlePaused, SettleCancelled, SettleFailed, SettleRefused,
       EndTo, Abort
  <1>5. CASE SchedFailure
    BY <1>1, <1>5 DEF SchedFailure, SchedPlanFails, SchedLaunchFails,
       SchedSpawnFails, SchedReaderFails, SchedTimeout, Abort
  <1>6. CASE \E t \in todo : SchedProbe(t)
    <2>1. sched = "orphans" /\ (sched' = sched \/ sched' = "reread")
      BY <1>6 DEF SchedProbe
    <2> QED
      BY <2>1
  <1>7. CASE \/ SchedSnapshot \/ SchedProbed \/ SchedCleanOrphan \/ SchedGate
             \/ SchedDrain \/ SchedIdle \/ (\E j \in Jobs : SchedPick(j)) \/ SchedReplan
             \/ SchedReplanRefused \/ SchedLaunch \/ SchedLock \/ SchedReconcile
             \/ SchedReconcileRefused \/ SchedMarkRunning \/ SchedMarkRefused
    BY <1>2, <1>7 DEF SchedSnapshot, SchedProbed, SchedCleanOrphan, SchedGate,
       SchedDrain, SchedIdle, SchedPick, SchedReplan, SchedReplanRefused, SchedLaunch,
       SchedLock, SchedReconcile, SchedReconcileRefused, SchedMarkRunning,
       SchedMarkRefused, EndTo, Abort, Die
  <1>8. CASE \/ SchedSpawn \/ SchedRegister \/ SchedReap \/ SchedReadState
             \/ SchedClean \/ SchedAbort \/ SchedAbandon \/ SchedGiveUp
             \/ SchedGiveUpRefused
    BY <1>2, <1>8 DEF SchedSpawn, SchedRegister, SchedReap, SchedReadState, SchedClean,
       SchedAbort, SchedAbandon, SchedGiveUp, SchedGiveUpRefused, EndTo, Abort, Die
  <1>9. ASSUME NEW c \in Clients, ClientRequest(c) \/ ClientStep(c)
        PROVE  UNCHANGED schedVars
    BY <1>9 DEF ClientRequest, ClientSubmit, ClientResume, ClientPause, ClientCancel,
       ClientShutdown, ClientStep, ClientStop, ClientSignal, ClientKill, ClientFinish,
       requestFrame, clientFrame
  <1>10. ASSUME NEW p \in Proc, ChildStep(p) \/ ChildFail(p)
         PROVE  UNCHANGED schedVars
    BY <1>10 DEF ChildStep, ChildFail, ChildOpen, ChildLock, ChildLockTimeout,
       ChildStart, ChildCheckpoint, ChildFence, ChildPublish, ChildReceipt,
       ChildSucceed, childFrame
  <1>11. CASE MainStop \/ MainExit \/ Crash \/ Start
    BY <1>1, <1>2, <1>11 DEF MainStop, MainExit, Crash, Start, Stopping
  <1>12. CASE UNCHANGED vars
    BY <1>1, <1>12 DEF vars
  <1> QED
    BY <1>1, <1>3, <1>4, <1>5, <1>6, <1>7, <1>8, <1>9, <1>10, <1>11, <1>12
       DEF Next, SchedStep

(* The invariant about receipts is kept by every step.                     *)
LEMMA KeepInvStep ==
  ASSUME Typed, KeepInv, [Next]_vars
  PROVE  KeepInv'
  <1>0. /\ HistoryInv /\ SeenStays /\ OrphanNotCompleted /\ CompletedKeepsReceipt
        /\ StoreTypeOK /\ BindingOK
    BY DEF KeepInv, Typed, TypeOK
  <1>1. ASSUME NEW j \in Jobs
        PROVE  /\ jobs'[j].plan = jobs[j].plan \/ jobs'[j].state = "Queued"
               /\ Terminal(j) => jobs'[j].state = jobs[j].state
               /\ jobs'[j].state \in TerminalState => Live(j) \/ Terminal(j)
               /\ j \in Retained' => j \in Retained \/ Live(j)
    <2>1. CASE StoreNext
      BY <1>0, <2>1, StoreKeeps
    <2>2. CASE UNCHANGED storeVars
      BY <2>2 DEF storeVars, Terminal, Retained
    <2> QED
      BY <2>1, <2>2, NextOnStore
  <1>2. HistoryInv'
    <2>1. CASE StoreNext
      BY <1>0, <2>1, HistoryStep
    <2>2. CASE UNCHANGED storeVars
      BY <1>0, <2>2 DEF storeVars, HistoryInv, Retained, Terminal
    <2> QED
      BY <2>1, <2>2, NextOnStore
  <1>3. \A j \in Jobs : j \in Retained => ~Live(j)
    BY <1>0 DEF HistoryInv, Terminal, Live, LiveState, TerminalState
  <1>4. \A j \in Jobs : j \in Waiting => Live(j) /\ ~Terminal(j)
    BY DEF Waiting, Live, LiveState, Terminal, TerminalState
  <1>5. ASSUME NEW j \in Jobs, ValidReceipt(j), jobs'[j].plan = jobs[j].plan,
               ~ReceiptGoes(j)
        PROVE  ValidReceipt(j)'
    BY <1>0, <1>5, ReceiptFate DEF ValidReceipt
  <1>6. SeenStays'
    <2> SUFFICES ASSUME ReceiptSeen', ~Terminal(cur)' PROVE ValidReceipt(cur)'
      BY DEF SeenStays
    <2>1. CASE ReceiptSeen /\ cur' = cur
      <3>1. cur \in Jobs
        BY <1>0, <2>1 DEF ReceiptSeen, BindingOK, BusyPC, SchedPC
      <3>2. ~Terminal(cur) /\ jobs'[cur].state \notin TerminalState
        BY <1>1, <2>1, <3>1 DEF Terminal
      <3>3. ValidReceipt(cur)
        BY <1>0, <2>1, <3>2 DEF SeenStays
      <3>4. ~ReceiptGoes(cur)
        BY <1>0, <2>1, <3>2 DEF ReceiptGoes, ReceiptSeen, HistoryInv, TerminalState
      <3>5. jobs'[cur].plan = jobs[cur].plan
        BY <2>1, <3>1, PlanStays DEF ReceiptSeen
      <3> QED
        BY <1>5, <2>1, <3>1, <3>3, <3>4, <3>5 DEF ValidReceipt
    <2>2. CASE cur' \in Jobs /\ ValidReceipt(cur') /\ jobs' = jobs /\ receipt' = receipt
      BY <2>2 DEF ValidReceipt
    <2> QED
      BY <1>0, <2>1, <2>2, ReceiptIsSeen
  <1>7. OrphanNotCompleted'
    <2> SUFFICES ASSUME sched' = "settleOrphan", jobs'[cur'].state = "Completed"
                 PROVE  FALSE
      BY DEF OrphanNotCompleted
    <2>1. cur' = cur /\ (sched = "settleOrphan" \/ (Live(cur) /\ UNCHANGED storeVars))
      BY SettleEnters
    <2>2. CASE sched = "settleOrphan"
      <3>1. cur \in Jobs
        BY <1>0, <2>2 DEF BindingOK, BusyPC, SchedPC
      <3>2. jobs[cur].state # "Completed"
        BY <1>0, <2>2 DEF OrphanNotCompleted
      <3> QED
        BY <2>1, <3>1, <3>2, CompletionNeedsReceipt
    <2>3. CASE Live(cur) /\ UNCHANGED storeVars
      BY <2>1, <2>3 DEF storeVars, Live, LiveState
    <2> QED
      BY <2>1, <2>2, <2>3
  <1>8. CompletedKeepsReceipt'
    <2> SUFFICES ASSUME NEW j \in Jobs, jobs'[j].state = "Completed", j \in Retained'
                 PROVE  ValidReceipt(j)'
      BY DEF CompletedKeepsReceipt
    <2>1. jobs'[j].plan = jobs[j].plan
      BY <1>1
    <2>2. CASE jobs[j].state = "Completed"
      <3>1. j \in Retained /\ ~Live(j)
        BY <1>1, <2>2 DEF Live, LiveState
      <3>2. ValidReceipt(j)
        BY <1>0, <2>2, <3>1 DEF CompletedKeepsReceipt
      <3>3. ~ReceiptGoes(j)
        BY <1>0, <1>4, <2>2, <3>1, <3>2 DEF ReceiptGoes, OrphanNotCompleted
      <3> QED
        BY <1>5, <2>1, <3>2, <3>3
    <2>3. CASE jobs[j].state # "Completed"
      <3>1. /\ cur = j /\ sched' \in {"cleanOrphan", "clean"}
            /\ ReceiptSeen \/ (sched = "settle" /\ ValidReceipt(j))
        BY <2>3, CompletionNeedsReceipt
      <3>2. ~Terminal(j) /\ Live(j)
        BY <1>1, <2>3 DEF TerminalState
      <3>3. ValidReceipt(j)
        BY <1>0, <3>1, <3>2 DEF SeenStays
      <3>4. ~ReceiptGoes(j)
        BY <1>3, <3>1, <3>2, <3>3 DEF ReceiptGoes, ReceiptSeen
      <3> QED
        BY <1>5, <2>1, <3>3, <3>4
    <2> QED
      BY <2>2, <2>3
  <1> QED
    BY <1>2, <1>6, <1>7, <1>8 DEF KeepInv

(* A retained Completed entry has its receipt on disk: no restart, no      *)
(* pruning, no recovery and no other child takes it away.                  *)
THEOREM CompletedReceiptKept == Spec => []CompletedKeepsReceipt
  <1>1. Init => KeepInv
    <2> SUFFICES ASSUME Init PROVE KeepInv
      OBVIOUS
    <2>1. history = <<>> /\ Len(history) = 0 /\ Retained = {}
      BY DEF Init, StoreInit, Retained
    <2> QED
      BY <2>1 DEF Init, StoreInit, KeepInv, HistoryInv, Once, SeenStays, ReceiptSeen,
         OrphanNotCompleted, CompletedKeepsReceipt
  <1>2. KeepInv => CompletedKeepsReceipt
    BY DEF KeepInv
  <1>3. Typed /\ KeepInv /\ [Next]_vars => (Typed /\ KeepInv)'
    BY KeepInvStep, TypedStep
  <1> QED
    BY <1>1, <1>2, <1>3, InitTyped, PTL DEF Spec


-----------------------------------------------------------------------------
(* Leases: a receipt that is there when recovery probes a job, or that an  *)
(* orphan of its last run may still write, is not overlooked.              *)

HoldPhase == {"opened"} \cup LockedPhase
ProbePC == {"reread", "settleOrphan"}
LaunchPC == {"lock", "early", "mark"}

(* The lease the scheduler holds, and where; no child holds the same.      *)
HeldWhere == held # 0 => sched \in ProbePC \cup {"early", "mark", "spawn", "register"}
HeldAlone == \A p \in ChildrenOf(cur) :
               child[p].phase \in LockedPhase /\ held # 0 => child[p].lease # held

(* The lease file of a job that is launched or runs is there, and the      *)
(* child of its last run has it open.                                      *)
LaunchNames == sched \in LaunchPC => lease[cur] # 0
RunNames == \A j \in Jobs : jobs[j].state \in {"Running", "Recovering"} => lease[j] # 0
LastHolds == \A p \in Proc :
  /\ jobs[p[1]].state \in {"Running", "Recovering"} /\ p[2] = jobs[p[1]].attempt
  /\ child[p].phase \in HoldPhase
  => child[p].lease = lease[p[1]]

(* Only recovery handles a job in recovery; what its probe found out about *)
(* the receipt stays true as long as the lease is held.                    *)
RecoveryOnly == sched \in BusyPC \ ProbePC => jobs[cur].state # "Recovering"
ProbeStands ==
  /\ sched \in ProbePC /\ ~seen.receipt
  /\ jobs[cur].state = "Recovering" /\ NoEarlierOrphan(cur)
  => ~ValidReceipt(cur) /\ held = lease[cur]

LeaseInv == /\ HeldWhere /\ HeldAlone /\ LaunchNames /\ RunNames /\ LastHolds
            /\ RecoveryOnly /\ ProbeStands

(* What the operators on process records do to a lease.                    *)
LEMMA ProcessLease ==
  ASSUME child \in [Proc -> Process], NEW q \in Proc
  PROVE  \A phase : Enter(q, phase)[q].lease = child[q].lease
  BY DEF Enter, Become, Process

(* A child comes to hold an inode by opening the file, locks it only when  *)
(* it is free, and keeps it; only a spawn and a daemon's start forget an   *)
(* orphan.                                                                 *)
LEMMA HoldMoves ==
  ASSUME Typed, [Next]_vars, NEW p \in Proc
  PROVE  /\ child[p].orphan => child'[p].orphan \/ sched = "spawn" \/ daemon = "down"
         /\ child'[p].phase \in HoldPhase =>
              \/ /\ child[p].phase \in HoldPhase /\ child'[p].lease = child[p].lease
                 /\ child'[p].phase \in LockedPhase
                      => child[p].phase \in LockedPhase \/ ChildLock(p)
              \/ /\ ChildOpen(p) /\ child'[p].lease = lease[p[1]]
                 /\ child'[p].phase = "opened"
  <1> DEFINE Goal ==
         /\ child[p].orphan => child'[p].orphan \/ sched = "spawn" \/ daemon = "down"
         /\ child'[p].phase \in HoldPhase =>
              \/ /\ child[p].phase \in HoldPhase /\ child'[p].lease = child[p].lease
                 /\ child'[p].phase \in LockedPhase
                      => child[p].phase \in LockedPhase \/ ChildLock(p)
              \/ /\ ChildOpen(p) /\ child'[p].lease = lease[p[1]]
                 /\ child'[p].phase = "opened"
  <1>0. /\ child \in [Proc -> Process] /\ child[p] \in Process
        /\ active \in Proc \cup {NoProc} /\ (sched = "wait" => active \in Proc)
    BY TypedParts
  <1>1. ASSUME child'[p] = child[p]
        PROVE  Goal
    BY <1>1
  <1>2. ASSUME child'[p].orphan = child[p].orphan,
               child'[p].phase \in ExitPhase \cup {"gone"}
        PROVE  Goal
    BY <1>2 DEF ExitPhase, HoldPhase, LockedPhase
  <1>3. ASSUME NEW q \in Proc, child' = Reaped(q) \/ child' = Killed(q)
        PROVE  Goal
    <2>1. CASE p # q
      BY <1>0, <1>1, <1>3, <2>1, ProcessPhase
    <2>2. CASE p = q
      <3>1. CASE child' = Reaped(q)
        BY <1>0, <1>2, <2>2, <3>1, ProcessOwn
      <3>2. CASE child' = Killed(q) /\ ~Alive(q)
        BY <1>1, <3>2 DEF Killed
      <3>3. CASE child' = Exited(q, "failed")
        <4>1. child'[p].orphan = child[p].orphan
          BY <1>0, <2>2, <3>3, ProcessOwn
        <4>2. child'[p].phase \in {"failed", "gone"}
          BY <1>0, <2>2, <3>3, ProcessPhase
        <4> QED
          BY <1>2, <4>1, <4>2 DEF ExitPhase
      <3> QED
        BY <1>3, <3>1, <3>2, <3>3 DEF Killed
    <2> QED
      BY <2>1, <2>2
  <1>4. ASSUME NEW q \in Proc, ChildStep(q) \/ ChildFail(q)
        PROVE  Goal
    <2>1. CASE p # q
      BY <1>1, <1>4, <2>1, ChildMoves
    <2>2. CASE p = q
      <3>0. /\ \A phase : Enter(p, phase)[p].orphan = child[p].orphan
            /\ \A phase : Exited(p, phase)[p].orphan = child[p].orphan
            /\ \A phase : Enter(p, phase)[p].phase = phase
            /\ \A phase : Enter(p, phase)[p].lease = child[p].lease
            /\ \A phase : Exited(p, phase)[p].phase \in {phase, "gone"}
            /\ \A r : Become(p, r)[p] = r
        BY <1>0, ProcessOwn, ProcessPhase, ProcessLease
      <3>1. ASSUME NEW phase \in ExitPhase, child' = Exited(p, phase)
            PROVE  Goal
        BY <1>2, <3>0, <3>1
      <3>2. ASSUME NEW phase \in LockedPhase, child' = Enter(p, phase),
                   child[p].phase \in LockedPhase \/ ChildLock(p)
            PROVE  Goal
        BY <3>0, <3>2 DEF HoldPhase, ChildLock
      <3>3. Boundary(p[1]) # "go" => Boundary(p[1]) \in ExitPhase
        BY DEF Boundary, ExitPhase
      <3>4. CASE ChildOpen(p)
        <4>1. CASE child' = Exited(p, "failed")
          BY <3>1, <4>1 DEF ExitPhase
        <4>2. CASE child' = Become(p, [child[p] EXCEPT !.phase = "opened",
                                                       !.lease = lease[p[1]]])
          <5>0. child'[p] = [child[p] EXCEPT !.phase = "opened", !.lease = lease[p[1]]]
            BY <3>0, <4>2
          <5>1. /\ child'[p].lease = lease[p[1]] /\ child'[p].phase = "opened"
                /\ child'[p].orphan = child[p].orphan
            BY <1>0, <5>0 DEF Process
          <5> QED
            BY <3>4, <5>1
        <4> QED
          BY <3>4, <4>1, <4>2 DEF ChildOpen
      <3>5. CASE ChildStart(p)
        <4>1. CASE \E phase \in ExitPhase : child' = Exited(p, phase)
          BY <3>1, <4>1
        <4>2. CASE child' = Become(p, [child[p] EXCEPT !.phase = "working",
                                                       !.plan = planFile[p[1]]])
          <5>0. child'[p] = [child[p] EXCEPT !.phase = "working", !.plan = planFile[p[1]]]
            BY <3>0, <4>2
          <5>1. /\ child'[p].lease = child[p].lease /\ child'[p].phase = "working"
                /\ child'[p].orphan = child[p].orphan
            BY <1>0, <5>0 DEF Process
          <5> QED
            BY <3>5, <5>1 DEF ChildStart, HoldPhase, LockedPhase
        <4> QED
          BY <3>3, <3>5, <4>1, <4>2 DEF ChildStart, ExitPhase
      <3>6. CASE ChildCheckpoint(p)
        BY <3>1, <3>3, <3>6 DEF ChildCheckpoint
      <3>7. CASE ChildLockTimeout(p) \/ ChildSucceed(p) \/ ChildFail(p)
        BY <3>1, <3>7 DEF ChildLockTimeout, ChildSucceed, ChildFail, ExitPhase
      <3>8. CASE ChildFence(p)
        BY <3>1, <3>2, <3>3, <3>8 DEF ChildFence, LockedPhase
      <3>9. CASE ChildReceipt(p)
        BY <3>1, <3>2, <3>3, <3>9 DEF ChildReceipt, LockedPhase, ExitPhase
      <3>10. CASE ChildLock(p) \/ ChildPublish(p)
        BY <3>2, <3>10 DEF ChildLock, ChildPublish, LockedPhase
      <3> QED
        BY <1>4, <2>2, <3>4, <3>5, <3>6, <3>7, <3>8, <3>9, <3>10 DEF ChildStep
    <2> QED
      BY <2>1, <2>2
  <1>5. CASE Crash
    <2>1. child'[p] = IF Alive(p) THEN [child[p] EXCEPT !.orphan = TRUE, !.stray = FALSE]
                      ELSE IF child[p].phase \in ExitPhase
                      THEN [child[p] EXCEPT !.phase = "gone"] ELSE child[p]
      BY <1>5 DEF Crash
    <2>2. CASE Alive(p)
      BY <1>0, <2>1, <2>2 DEF Process
    <2>3. CASE ~Alive(p)
      BY <1>0, <2>1, <2>3 DEF Process, HoldPhase, LockedPhase
    <2> QED
      BY <2>2, <2>3
  <1>6. CASE SchedTimeout \/ SchedReap
    BY <1>0, <1>3, <1>6 DEF SchedTimeout, SchedReap
  <1>7. CASE SchedAbort
    BY <1>0, <1>1, <1>3, <1>7 DEF SchedAbort
  <1>8. CASE SchedSpawn
    <2> DEFINE q == <<cur, jobs[cur].attempt>>
               r == [NoChild EXCEPT !.phase = "spawned"]
    <2>1. sched = "spawn" /\ child' = [child EXCEPT ![q] = r] /\ r.phase = "spawned"
      BY <1>8 DEF SchedSpawn, Become, NoChild
    <2> HIDE DEF q, r
    <2>2. child'[p] = child[p] \/ child'[p] = r
      BY <1>0, <2>1
    <2> QED
      BY <1>1, <2>1, <2>2 DEF HoldPhase, LockedPhase
  <1> USE DEF schedFrame, requestFrame, clientFrame
  <1>9. CASE \/ RecoverStep \/ SettleStep \/ SchedPlanFails \/ SchedLaunchFails
             \/ SchedSpawnFails
    BY <1>1, <1>9 DEF RecoverStep, RecoverCompleted, RecoverCancelled,
       RecoverPaused, RecoverRequeued, RecoverUncertain, RecoverRefused, Settled,
       SettleStep, SettleCompleted, SettlePaused, SettleCancelled, SettleFailed,
       SettleRefused, EndTo, Abort, SchedPlanFails, SchedLaunchFails, SchedSpawnFails
  <1>10. CASE \/ SchedSnapshot \/ (\E t \in todo : SchedProbe(t)) \/ SchedProbed
              \/ SchedReread \/ SchedCleanOrphan \/ SchedGate \/ SchedDrain \/ SchedIdle
              \/ (\E j \in Jobs : SchedPick(j)) \/ SchedReplan \/ SchedReplanRefused
    BY <1>1, <1>10 DEF SchedSnapshot, SchedProbe, SchedProbed, SchedReread,
       SchedCleanOrphan, SchedGate, SchedDrain, SchedIdle, SchedPick, SchedReplan,
       SchedReplanRefused
  <1>11. CASE \/ SchedLaunch \/ SchedLock \/ SchedReconcile \/ SchedReconcileRefused
              \/ SchedMarkRunning \/ SchedMarkRefused \/ SchedRegister
              \/ SchedReadState \/ SchedClean
              \/ SchedAbandon \/ SchedGiveUp \/ SchedGiveUpRefused
    BY <1>1, <1>11 DEF SchedLaunch, SchedLock, SchedReconcile, SchedReconcileRefused,
       SchedMarkRunning, SchedMarkRefused, SchedRegister, SchedReadState, SchedClean,
       SchedAbandon, SchedGiveUp, SchedGiveUpRefused, EndTo, Abort
  <1>12. ASSUME NEW c \in Clients, ClientRequest(c) \/ ClientStep(c)
         PROVE  Goal
    <2>1. CASE ClientKill(c)
      <3>1. child' = child \/ (active \in Proc /\ child' = Killed(active))
        <4>1. client[c].job \in Jobs
          BY <2>1, TypedParts DEF ClientKill, ControlPC
        <4> QED
          BY <1>0, <2>1, <4>1, NoJobAssumption DEF ClientKill, NoProc
      <3> QED
        BY <1>1, <1>3, <3>1
    <2>2. CASE ClientRequest(c) \/ ClientStop(c) \/ ClientSignal(c) \/ ClientFinish(c)
      BY <1>1, <2>2 DEF ClientRequest, ClientSubmit, ClientResume, ClientPause,
         ClientCancel, ClientShutdown, ClientStop, ClientSignal, ClientFinish
    <2> QED
      BY <1>12, <2>1, <2>2 DEF ClientStep
  <1>13. CASE MainStop
    <2>1. child' = child \/ (active \in Proc /\ child' = Killed(active))
      BY <1>0, <1>13 DEF MainStop
    <2> QED
      BY <1>1, <1>3, <2>1
  <1>14. CASE MainExit \/ UNCHANGED vars
    BY <1>1, <1>14 DEF MainExit, Stopping, vars
  <1>15. CASE Start
    BY <1>0, <1>15, StartEffect DEF GoesOn, Start, HoldPhase, LockedPhase
  <1>16. CASE SchedReaderFails
    <2>1. /\ GoesOn(p)
          /\ child'[p] = child[p] \/ child'[p].orphan
      BY <1>16, ReaderFailsEffect
    <2> QED
      BY <1>0, <2>1 DEF GoesOn, HoldPhase, LockedPhase
  <1> QED
    BY <1>4, <1>5, <1>6, <1>7, <1>8, <1>9, <1>10, <1>11, <1>12, <1>13, <1>14, <1>15,
       <1>16
       DEF Next, SchedStep, SchedFailure


HeldPC == ProbePC \cup {"early", "mark", "spawn", "register"}

(* The file of the job at hand goes or is replaced; no child moves.        *)
LeaseChanges == /\ cur \in Jobs /\ child' = child /\ jobs' = jobs
                /\ \A k \in Jobs : k # cur => lease'[k] = lease[k]

(* How the scheduler comes to hold a lease, what changes the file it       *)
(* locks, and how it gets to the jobs it handles.                          *)
LEMMA LeaseMoves ==
  ASSUME Typed, HeldWhere, DownIsOff, [Next]_vars
  PROVE  /\ held' # 0 => /\ sched' \in HeldPC
                       /\ \/ held' = held /\ cur' = cur
                          \/ child' = child /\ cur' \in Jobs /\ LeaseFree(cur', held')
         /\ \/ lease' = lease
            \/ LeaseChanges /\ sched \in {"clean", "cleanOrphan"}
            \/ LeaseChanges /\ sched = "launch" /\ lease'[cur] # 0
         /\ sched' \in LaunchPC => cur' = cur /\ sched \in LaunchPC \cup {"launch"}
         /\ sched = "launch" => sched' \notin LaunchPC \/ lease'[cur] # 0
         /\ sched' \in ProbePC =>
              \/ /\ sched \in ProbePC /\ cur' = cur /\ held' = held
                 /\ seen'.receipt = seen.receipt /\ lease' = lease
              \/ /\ cur' \in Jobs /\ seen'.receipt = ValidReceipt(cur')
                 /\ held' = lease[cur'] /\ UNCHANGED <<jobs, lease, receipt, child>>
         /\ sched' \in BusyPC \ ProbePC =>
              \/ sched \in BusyPC \ ProbePC /\ cur' = cur
              \/ cur' \in Jobs /\ jobs'[cur'].state # "Recovering"
  <1> DEFINE Goal ==
         /\ held' # 0 => /\ sched' \in HeldPC
                       /\ \/ held' = held /\ cur' = cur
                          \/ child' = child /\ cur' \in Jobs /\ LeaseFree(cur', held')
         /\ \/ lease' = lease
            \/ LeaseChanges /\ sched \in {"clean", "cleanOrphan"}
            \/ LeaseChanges /\ sched = "launch" /\ lease'[cur] # 0
         /\ sched' \in LaunchPC => cur' = cur /\ sched \in LaunchPC \cup {"launch"}
         /\ sched = "launch" => sched' \notin LaunchPC \/ lease'[cur] # 0
         /\ sched' \in ProbePC =>
              \/ /\ sched \in ProbePC /\ cur' = cur /\ held' = held
                 /\ seen'.receipt = seen.receipt /\ lease' = lease
              \/ /\ cur' \in Jobs /\ seen'.receipt = ValidReceipt(cur')
                 /\ held' = lease[cur'] /\ UNCHANGED <<jobs, lease, receipt, child>>
         /\ sched' \in BusyPC \ ProbePC =>
              \/ sched \in BusyPC \ ProbePC /\ cur' = cur
              \/ cur' \in Jobs /\ jobs'[cur'].state # "Recovering"
  <1>0. /\ sched \in SchedPC /\ (sched \in BusyPC => cur \in Jobs)
        /\ jobs \in [Jobs -> Job] /\ lease \in [Jobs -> Nat] /\ nextSequence \in Nat
        /\ todo \subseteq [job : Jobs, state : JobState]
        /\ seen \in [state : JobState, receipt : BOOLEAN, exit : ChildPhase]
    BY TypedParts
  <1>00. held # 0 => sched \in HeldPC
    BY DEF HeldWhere, HeldPC
  <1> SUFFICES Goal
    OBVIOUS
  <1>1. ASSUME UNCHANGED <<sched, cur, held, seen, lease>>
        PROVE  Goal
    BY <1>00, <1>1 DEF LaunchPC
  <1>2. ASSUME lease' = lease, sched' \in SchedPC \ BusyPC, held' = 0
        PROVE  Goal
    BY <1>2 DEF LaunchPC, ProbePC, BusyPC, SchedPC
  <1>3. ASSUME lease' = lease, cur' = cur, sched \in BusyPC \ ProbePC,
               sched' \notin ProbePC \cup LaunchPC,
               held' = 0 \/ (held' = held /\ (sched' \in HeldPC \/ sched \notin HeldPC))
        PROVE  Goal
    BY <1>00, <1>3 DEF LaunchPC
  <1> USE DEF Goto
  <1>4. ASSUME NEW t \in todo, SchedProbe(t)
        PROVE  Goal
    <2>1. t.job \in Jobs /\ sched = "orphans"
      BY <1>0, <1>4 DEF SchedProbe
    <2>2. CASE lease[t.job] # 0 /\ ~LeaseFree(t.job, lease[t.job])
      BY <1>1, <1>4, <2>2 DEF SchedProbe
    <2>3. CASE ~(lease[t.job] # 0 /\ ~LeaseFree(t.job, lease[t.job]))
      <3>1. /\ sched' = "reread" /\ cur' = t.job /\ held' = lease[t.job]
            /\ seen' = [seen EXCEPT !.receipt = ValidReceipt(t.job)]
            /\ UNCHANGED <<jobs, lease, receipt, child>>
        BY <1>4, <2>3 DEF SchedProbe, storeVars
      <3>2. seen'.receipt = ValidReceipt(t.job)
        BY <1>0, <3>1
      <3> QED
        BY <2>1, <2>3, <3>1, <3>2 DEF HeldPC, ProbePC, LaunchPC
    <2> QED
      BY <2>2, <2>3
  <1>5. CASE SchedReread
    <2>1. CASE Live(cur)
      <3>1. /\ sched = "reread" /\ sched' = "settleOrphan" /\ cur' = cur /\ held' = held
            /\ seen' = [seen EXCEPT !.state = jobs[cur].state] /\ lease' = lease
        BY <1>5, <2>1 DEF SchedReread, fileVars
      <3>2. seen'.receipt = seen.receipt
        BY <1>0, <3>1
      <3> QED
        BY <3>1, <3>2 DEF HeldPC, ProbePC, LaunchPC
    <2>2. CASE ~Live(cur)
      BY <1>2, <1>5, <2>2 DEF SchedReread, fileVars, SchedPC, BusyPC
    <2> QED
      BY <2>1, <2>2
  <1>6. CASE RecoverStep
    <2>0. sched = "settleOrphan" /\ lease' = lease /\ cur \in Jobs
      BY <1>0, <1>6 DEF RecoverStep, RecoverCompleted, RecoverCancelled, RecoverPaused,
         RecoverRequeued, RecoverUncertain, RecoverRefused, Settling, Settled, BusyPC, SchedPC
    <2>1. CASE RecoverRefused
      BY <1>2, <2>0, <2>1 DEF RecoverRefused, Die, BusyPC, SchedPC
    <2>2. CASE Settled /\ jobs'[cur].state # "Recovering"
      BY <2>0, <2>2 DEF Settled, LaunchPC, ProbePC
    <2>3. CASE RecoverPaused
      <3>1. Turns(cur, {"PauseRequested"}, {"Paused"}, FALSE)
        <4>1. MarkPaused(cur)
          BY <2>3 DEF RecoverPaused
        <4> QED
          BY <1>0, <2>0, <4>1, StoreEffects
      <3> QED
        BY <2>2, <2>3, <3>1 DEF RecoverPaused, Turns
    <2>4. CASE RecoverRequeued
      <3>1. Turns(cur, {"Recovering"}, {"Queued"}, FALSE)
        <4>1. RequeueRecovered(cur)
          BY <2>4 DEF RecoverRequeued
        <4> QED
          BY <1>0, <2>0, <4>1, StoreEffects
      <3> QED
        BY <2>2, <2>4, <3>1 DEF RecoverRequeued, Turns
    <2>5. CASE RecoverCompleted \/ RecoverCancelled \/ RecoverUncertain
      <3>1. PICK outcome \in TerminalState : Terminalize(cur, outcome)
        BY <2>5 DEF RecoverCompleted, RecoverCancelled, RecoverUncertain, End, TerminalState
      <3>2. Turns(cur, LiveState, {outcome}, FALSE)
        BY <1>0, <2>0, <3>1, StoreEffects
      <3>3. jobs'[cur].state # "Recovering"
        BY <3>1, <3>2 DEF Turns, TerminalState
      <3> QED
        BY <2>2, <2>5, <3>3 DEF RecoverCompleted, RecoverCancelled, RecoverUncertain
    <2> QED
      BY <1>6, <2>1, <2>3, <2>4, <2>5 DEF RecoverStep
  <1>7. CASE SchedClean \/ SchedCleanOrphan
    <2>1. /\ sched \in {"clean", "cleanOrphan"} /\ lease' = [lease EXCEPT ![cur] = 0]
          /\ jobs' = jobs /\ child' = child /\ held' = held
          /\ sched' \in {"top", "orphans"}
      BY <1>7 DEF SchedClean, SchedCleanOrphan, RemoveFiles, storeVars
    <2>2. held = 0 /\ cur \in Jobs /\ LeaseChanges
      BY <1>0, <1>00, <2>1 DEF HeldPC, ProbePC, LeaseChanges, BusyPC, SchedPC
    <2> QED
      BY <2>1, <2>2 DEF LaunchPC, ProbePC, BusyPC
  <1>8. CASE SchedLaunch
    <2>1. /\ sched = "launch" /\ sched' = "lock" /\ cur' = cur /\ held' = held
          /\ jobs' = jobs /\ child' = child /\ cur \in Jobs
      BY <1>0, <1>8 DEF SchedLaunch, storeVars, BusyPC, SchedPC
    <2>2. PICK n \in Inodes : lease' = [lease EXCEPT ![cur] = n]
      BY <1>8 DEF SchedLaunch
    <2>3. LeaseChanges /\ lease'[cur] # 0
      BY <1>0, <2>1, <2>2, BoundAssumption DEF LeaseChanges
    <2>4. held = 0
      BY <1>00, <2>1 DEF HeldPC, ProbePC
    <2> QED
      BY <2>1, <2>3, <2>4 DEF LaunchPC, ProbePC, BusyPC, SchedPC
  <1>9. CASE SchedLock
    <2>1. sched = "lock" /\ cur' = cur /\ lease' = lease /\ child' = child /\ cur \in Jobs
      BY <1>0, <1>9 DEF SchedLock, BusyPC, SchedPC
    <2>2. CASE LeaseFree(cur, lease[cur])
      BY <1>9, <2>1, <2>2 DEF SchedLock, HeldPC, LaunchPC, ProbePC, BusyPC, SchedPC
    <2>3. CASE ~LeaseFree(cur, lease[cur])
      BY <1>3, <1>9, <2>1, <2>3 DEF SchedLock, HeldPC, LaunchPC, ProbePC, BusyPC, SchedPC
    <2> QED
      BY <2>2, <2>3
  <1>10. ASSUME NEW j \in Jobs, SchedPick(j)
         PROVE  Goal
    <2>1. /\ sched = "pick" /\ cur' = j /\ sched' \in {"replan", "launch"}
          /\ jobs[j].state = "Queued" /\ jobs' = jobs /\ lease' = lease /\ held' = held
      BY <1>10 DEF SchedPick, NextJob, storeVars, fileVars
    <2>2. held = 0
      BY <1>00, <2>1 DEF HeldPC, ProbePC
    <2> QED
      BY <2>1, <2>2 DEF LaunchPC, ProbePC
  <1>11. CASE SchedReplan \/ SchedPlanFails \/ SchedLaunchFails
    <2>1. /\ sched \in {"replan", "launch"} /\ sched' \in {"launch", "abort"}
          /\ UNCHANGED <<lease, cur, held>>
      BY <1>11 DEF SchedReplan, SchedPlanFails, SchedLaunchFails, fileVars
    <2> QED
      BY <1>3, <2>1 DEF HeldPC, LaunchPC, ProbePC, BusyPC, SchedPC
  <1>12. CASE SchedMarkRunning \/ SchedSpawn
    <2>1. /\ sched \in {"mark", "spawn"} /\ sched' \in {"spawn", "register"}
          /\ UNCHANGED <<lease, cur, held>>
      BY <1>12 DEF SchedMarkRunning, SchedSpawn, fileVars
    <2> QED
      BY <1>3, <2>1 DEF HeldPC, LaunchPC, ProbePC, BusyPC, SchedPC
  <1>13. CASE SchedRegister
    <2>1. /\ sched = "register" /\ sched' \in {"wait", "abort"} /\ held' = 0
          /\ UNCHANGED <<lease, cur>>
      BY <1>13 DEF SchedRegister, fileVars
    <2> QED
      BY <1>3, <2>1 DEF LaunchPC, ProbePC, BusyPC, SchedPC
  <1>14. CASE \/ SchedReconcile \/ SchedReconcileRefused \/ SchedMarkRefused
              \/ SchedSpawnFails \/ SettleCompleted \/ SettleCancelled \/ SettleFailed
              \/ SettleRefused \/ SchedGiveUp
    <2>1. /\ sched \in {"early", "mark", "spawn", "settle", "giveUp"}
          /\ sched' \in {"clean", "abort"} /\ held' = 0 /\ UNCHANGED <<lease, cur>>
      BY <1>14 DEF SchedReconcile, SchedReconcileRefused, SchedMarkRefused,
         SchedSpawnFails, SettleCompleted, SettleCancelled, SettleFailed, SettleRefused,
         SchedGiveUp, EndTo, Abort, fileVars
    <2> QED
      BY <1>3, <2>1 DEF LaunchPC, ProbePC, BusyPC, SchedPC
  <1>15. CASE SettlePaused \/ SchedReap \/ SchedReadState \/ SchedAbort
    <2>1. /\ sched \in {"settle", "wait", "read", "abort"}
          /\ sched' \in {"clean", "read", "settle", "abandon"}
          /\ UNCHANGED <<lease, cur, held>>
      BY <1>15 DEF SettlePaused, SchedReap, SchedReadState, SchedAbort, fileVars
    <2> QED
      BY <1>3, <2>1 DEF HeldPC, LaunchPC, ProbePC, BusyPC, SchedPC
  <1>16. CASE SchedAbandon
    <2>1. sched = "abandon" /\ UNCHANGED <<lease, held>>
      BY <1>16 DEF SchedAbandon, fileVars
    <2>2. CASE Live(cur)
      <3>1. sched' = "giveUp" /\ cur' = cur
        BY <1>16, <2>2 DEF SchedAbandon
      <3> QED
        BY <1>3, <2>1, <3>1 DEF HeldPC, LaunchPC, ProbePC, BusyPC, SchedPC
    <2>3. CASE ~Live(cur)
      <3>1. sched' = "top" /\ held = 0
        BY <1>00, <1>16, <2>1, <2>3 DEF SchedAbandon, HeldPC, ProbePC
      <3> QED
        BY <1>2, <2>1, <3>1 DEF BusyPC, SchedPC
    <2> QED
      BY <2>2, <2>3
  <1>17. CASE SchedReplanRefused \/ SchedGiveUpRefused
    BY <1>2, <1>17 DEF SchedReplanRefused, SchedGiveUpRefused, Die, fileVars, BusyPC, SchedPC
  <1>18. CASE \/ SchedSnapshot \/ SchedProbed \/ SchedGate \/ SchedDrain \/ SchedIdle
    <2>1. /\ sched \in {"top", "orphans", "gate", "drain", "pick"}
          /\ sched' \in {"orphans", "gate", "drain", "pick", "done", "top"}
          /\ UNCHANGED <<lease, held>>
      BY <1>18 DEF SchedSnapshot, SchedProbed, SchedGate, SchedDrain, SchedIdle, fileVars
    <2>2. held = 0
      BY <1>00, <2>1 DEF HeldPC, ProbePC
    <2> QED
      BY <1>2, <2>1, <2>2 DEF BusyPC, SchedPC
  <1>19. CASE SchedTimeout
    BY <1>1, <1>19 DEF SchedTimeout, schedVars
  <1>20. ASSUME NEW c \in Clients, ClientRequest(c) \/ ClientStep(c)
         PROVE  Goal
    <2>1. UNCHANGED <<schedVars, lease>>
      BY <1>20 DEF ClientRequest, ClientSubmit, ClientResume, ClientPause, ClientCancel,
         ClientShutdown, ClientStep, ClientStop, ClientSignal, ClientKill, ClientFinish,
         requestFrame, clientFrame, fileVars
    <2> QED
      BY <1>1, <2>1 DEF schedVars
  <1>21. ASSUME NEW p \in Proc, ChildStep(p) \/ ChildFail(p)
         PROVE  Goal
    <2>1. UNCHANGED childFrame
      BY <1>21 DEF ChildStep, ChildFail, ChildOpen, ChildLock, ChildLockTimeout,
         ChildStart, ChildCheckpoint, ChildFence, ChildPublish, ChildReceipt, ChildSucceed
    <2> QED
      BY <1>1, <2>1 DEF childFrame, schedVars
  <1>22. CASE MainStop \/ UNCHANGED vars
    BY <1>1, <1>22 DEF MainStop, schedVars, vars, fileVars
  <1>23. CASE MainExit \/ Crash
    BY <1>2, <1>23 DEF MainExit, Crash, Stopping, fileVars, BusyPC, SchedPC
  <1>24. CASE Start
    <2>1. /\ sched = "off" /\ sched' = "top" /\ UNCHANGED <<lease, held>>
      BY <1>24 DEF Start, DownIsOff
    <2>2. held = 0
      BY <1>00, <2>1 DEF HeldPC, ProbePC
    <2> QED
      BY <1>2, <2>1, <2>2 DEF BusyPC, SchedPC
  <1>25. CASE SchedReaderFails
    <2>1. /\ sched = "register" /\ sched' = "abort" /\ UNCHANGED <<lease, cur>>
          /\ held' = 0
      BY <1>25, ReaderFailsEffect DEF fileVars
    <2> QED
      BY <2>1 DEF HeldPC, LaunchPC, ProbePC, BusyPC, SchedPC
  <1> QED
    BY <1>4, <1>5, <1>6, <1>7, <1>8, <1>9, <1>10, <1>11, <1>12, <1>13, <1>14, <1>15,
       <1>16, <1>17, <1>18, <1>19, <1>20, <1>21, <1>22, <1>23, <1>24, <1>25
       DEF Next, SchedStep, SchedFailure, SettleStep


(* Which steps run a job, put one into recovery, or take it out of there.  *)
LEMMA RunMoves ==
  ASSUME Typed, [Next]_vars, NEW k \in Jobs
  PROVE  /\ jobs'[k].state = "Recovering"
              => jobs[k].state = "Recovering" \/ (sched' = "top" /\ jobs[k].state = "Running")
         /\ \/ jobs'[k].attempt = jobs[k].attempt
            \/ sched = "mark" /\ cur = k /\ jobs'[k].attempt = jobs[k].attempt + 1
         /\ jobs'[k].state = "Running" /\ jobs'[k].attempt = jobs[k].attempt
              => jobs[k].state = "Running"
         /\ jobs'[k].state = "Running" => jobs[k].state = "Running" \/ (sched = "mark" /\ cur = k)
         /\ jobs[k].state = "Recovering" /\ jobs'[k].state \in {"Failed", "Queued"} =>
              /\ cur = k
              /\ sched \in {"settle", "giveUp"} \/ (sched = "settleOrphan" /\ ~seen.receipt)
  <1> DEFINE Goal ==
         /\ jobs'[k].state = "Recovering"
              => jobs[k].state = "Recovering" \/ (sched' = "top" /\ jobs[k].state = "Running")
         /\ \/ jobs'[k].attempt = jobs[k].attempt
            \/ sched = "mark" /\ cur = k /\ jobs'[k].attempt = jobs[k].attempt + 1
         /\ jobs'[k].state = "Running" /\ jobs'[k].attempt = jobs[k].attempt
              => jobs[k].state = "Running"
         /\ jobs'[k].state = "Running" => jobs[k].state = "Running" \/ (sched = "mark" /\ cur = k)
         /\ jobs[k].state = "Recovering" /\ jobs'[k].state \in {"Failed", "Queued"} =>
              /\ cur = k
              /\ sched \in {"settle", "giveUp"} \/ (sched = "settleOrphan" /\ ~seen.receipt)
  <1>0. /\ jobs \in [Jobs -> Job] /\ nextSequence \in Nat /\ StoreTypeOK
        /\ (sched \in BusyPC => cur \in Jobs) /\ jobs[k] \in Job
    BY TypedParts DEF Typed, TypeOK
  <1>1. CASE CalmNext
    BY <1>0, <1>1, CalmEffects
  <1>2. CASE UNCHANGED storeVars
    BY <1>2 DEF storeVars
  <1>3. CASE SchedReplan
    <2>1. PICK j \in Jobs, revision \in Nat : ReplaceDryRun(j, revision)
      BY <1>3, ReplanOnStore
    <2>2. Turns(j, {"Queued"}, {"Queued"}, jobs[j].pid) /\ jobs'[j].attempt = jobs[j].attempt
      BY <1>0, <2>1, StoreEffects
    <2>3. CASE j = k
      BY <2>2, <2>3 DEF Turns
    <2>4. CASE j # k
      BY <2>2, <2>4 DEF Turns
    <2> QED
      BY <2>3, <2>4
  <1>4. CASE SchedMarkRunning
    <2>1. sched = "mark" /\ cur \in Jobs /\ MarkRunning(cur)
      BY <1>0, <1>4 DEF SchedMarkRunning, BusyPC, SchedPC
    <2>2. /\ Turns(cur, {"Queued", "Paused"}, {"Running"}, TRUE)
          /\ jobs'[cur].attempt = jobs[cur].attempt + 1
      BY <1>0, <2>1, StoreEffects
    <2>3. jobs[k].attempt \in Nat
      BY <1>0 DEF Job
    <2>4. CASE cur = k
      BY <2>1, <2>2, <2>3, <2>4 DEF Turns
    <2>5. CASE cur # k
      BY <2>2, <2>5 DEF Turns
    <2> QED
      BY <2>4, <2>5
  <1>5. CASE Start
    <2>1. sched' = "top" /\ PrepareRecovery
      BY <1>5 DEF Start
    <2>2. /\ jobs[k].state = "Running" => jobs'[k].state = "Recovering"
          /\ jobs[k].state # "Running" => jobs'[k].state = jobs[k].state
          /\ SamePlan(k)
      BY <1>0, <2>1, SweepEffects
    <2> QED
      BY <2>1, <2>2 DEF SamePlan
  <1>6. ASSUME cur \in Jobs, jobs'[cur].state \notin {"Running", "Recovering"},
               jobs'[cur].attempt = jobs[cur].attempt,
               cur # k => jobs'[k] = jobs[k],
               \/ sched \in {"settle", "giveUp"}
               \/ sched = "settleOrphan" /\ ~seen.receipt
        PROVE  Goal
    <2>1. CASE cur = k
      BY <1>6, <2>1
    <2>2. CASE cur # k
      BY <1>6, <2>2
    <2> QED
      BY <2>1, <2>2
  <1>7. CASE RecoverRequeued
    <2>1. sched = "settleOrphan" /\ ~seen.receipt /\ cur \in Jobs /\ RequeueRecovered(cur)
      BY <1>0, <1>7 DEF RecoverRequeued, Settling, BusyPC, SchedPC
    <2>2. Turns(cur, {"Recovering"}, {"Queued"}, FALSE) /\ SamePlan(cur)
      BY <1>0, <2>1, StoreEffects
    <2>3. /\ jobs'[cur].state = "Queued" /\ jobs'[cur].attempt = jobs[cur].attempt
          /\ cur # k => jobs'[k] = jobs[k]
      BY <2>2 DEF Turns, SamePlan
    <2> QED
      BY <1>6, <2>1, <2>3
  <1>8. CASE RecoverUncertain \/ SettleFailed \/ SchedGiveUp
    <2>1. /\ \/ sched \in {"settle", "giveUp"}
             \/ sched = "settleOrphan" /\ ~seen.receipt
          /\ cur \in Jobs /\ \E outcome \in TerminalState : Terminalize(cur, outcome)
      BY <1>0, <1>8 DEF RecoverUncertain, SettleFailed, SchedGiveUp, EndTo, End, Settling,
         BusyPC, SchedPC, TerminalState
    <2>2. PICK outcome \in TerminalState : Terminalize(cur, outcome)
      BY <2>1
    <2>3. Turns(cur, LiveState, {outcome}, FALSE) /\ SamePlan(cur)
      BY <1>0, <2>1, <2>2, StoreEffects
    <2>4. /\ jobs'[cur].state = outcome /\ jobs'[cur].attempt = jobs[cur].attempt
          /\ cur # k => jobs'[k] = jobs[k]
      BY <2>3 DEF Turns, SamePlan
    <2>5. outcome \notin {"Running", "Recovering"}
      BY DEF TerminalState
    <2> QED
      BY <1>6, <2>1, <2>4, <2>5
  <1> QED
    BY <1>1, <1>2, <1>3, <1>4, <1>5, <1>7, <1>8, NextOnQueue DEF QueueStep

(* Every step keeps the invariant about leases.                            *)
LEMMA LeaseInvStep ==
  ASSUME Typed, RunInv, ChildInv, LeaseInv, [Next]_vars
  PROVE  LeaseInv'
  <1>0. /\ HeldWhere /\ HeldAlone /\ LaunchNames /\ RunNames /\ LastHolds /\ RecoveryOnly
        /\ ProbeStands /\ DownIsOff /\ RunningIsAttended /\ OwnIsLast
        /\ jobs \in [Jobs -> Job] /\ sched \in SchedPC /\ (sched \in BusyPC => cur \in Jobs)
        /\ daemon \in {"accept", "join", "down"}
        /\ Attempts \subseteq Nat \ {0}
    BY TypedParts, BoundAssumption
       DEF LeaseInv, RunInv, JobsAttended, ChildAttended
  <1>1. sched \in {"clean", "cleanOrphan", "launch"}
          => jobs[cur].state \notin {"Running", "Recovering"}
    BY <1>0 DEF RecoveryOnly, RunningIsAttended, DownIsOff, BusyPC, SchedPC, ProbePC
  <1>2. ASSUME NEW j \in Jobs, jobs'[j].state \in {"Running", "Recovering"}
        PROVE  \/ lease'[j] = lease[j]
               \/ /\ jobs[j].state \notin {"Running", "Recovering"}
                  /\ jobs' = jobs
    BY <1>0, <1>1, LeaseMoves DEF LeaseChanges
  <1>3. HeldWhere'
    BY <1>0, LeaseMoves DEF HeldWhere, HeldPC
  <1>4. HeldAlone'
    <2> SUFFICES ASSUME NEW p \in Proc, p[1] = cur', child'[p].phase \in LockedPhase,
                        held' # 0
                 PROVE  child'[p].lease # held'
      BY DEF HeldAlone, ChildrenOf
    <2>1. CASE held' = held /\ cur' = cur
      <3>1. /\ child[p].phase \in HoldPhase /\ child'[p].lease = child[p].lease
            /\ child[p].phase \in LockedPhase \/ ChildLock(p)
        BY HoldMoves DEF HoldPhase, LockedPhase
      <3>2. CASE child[p].phase \in LockedPhase
        BY <1>0, <2>1, <3>1, <3>2 DEF HeldAlone, ChildrenOf
      <3>3. CASE ChildLock(p)
        BY <2>1, <3>1, <3>3 DEF ChildLock, LeaseFree
      <3> QED
        BY <3>1, <3>2, <3>3
    <2>2. CASE child' = child /\ cur' \in Jobs /\ LeaseFree(cur', held')
      BY <2>2 DEF LeaseFree, ChildrenOf
    <2> QED
      BY <1>0, <2>1, <2>2, LeaseMoves
  <1>5. LaunchNames'
    <2> SUFFICES ASSUME sched' \in LaunchPC PROVE lease'[cur'] # 0
      BY DEF LaunchNames
    <2>1. cur' = cur /\ sched \in LaunchPC \cup {"launch"}
      BY <1>0, LeaseMoves
    <2>2. CASE sched = "launch"
      BY <1>0, <2>1, <2>2, LeaseMoves
    <2>3. CASE sched \in LaunchPC
      <3>1. lease' = lease
        BY <1>0, <2>3, LeaseMoves DEF LaunchPC
      <3> QED
        BY <1>0, <2>1, <2>3, <3>1 DEF LaunchNames
    <2> QED
      BY <2>1, <2>2, <2>3
  <1>6. RunNames'
    <2> SUFFICES ASSUME NEW j \in Jobs, jobs'[j].state \in {"Running", "Recovering"}
                 PROVE  lease'[j] # 0
      BY DEF RunNames
    <2>1. lease'[j] = lease[j]
      BY <1>2
    <2>2. jobs[j].state \in {"Running", "Recovering"} \/ (sched = "mark" /\ cur = j)
      BY RunMoves
    <2> QED
      BY <1>0, <2>1, <2>2 DEF RunNames, LaunchNames, LaunchPC
  <1>7. LastHolds'
    <2> SUFFICES ASSUME NEW p \in Proc, jobs'[p[1]].state \in {"Running", "Recovering"},
                        p[2] = jobs'[p[1]].attempt, child'[p].phase \in HoldPhase
                 PROVE  child'[p].lease = lease'[p[1]]
      BY DEF LastHolds
    <2>0. p[1] \in Jobs /\ p[2] \in Nat /\ jobs[p[1]].attempt \in Nat
      BY <1>0 DEF Proc, Job
    <2>1. CASE child[p].phase \in HoldPhase /\ child'[p].lease = child[p].lease
      <3>1. p[2] <= jobs[p[1]].attempt
        BY <2>1 DEF ChildInv, HoldPhase, LockedPhase
      <3>2. jobs'[p[1]].attempt = jobs[p[1]].attempt
        BY <2>0, <3>1, RunMoves
      <3>3. jobs[p[1]].state \in {"Running", "Recovering"}
        BY <2>0, <3>2, RunMoves
      <3>4. lease'[p[1]] = lease[p[1]]
        BY <1>2, <2>0, <3>3
      <3> QED
        BY <1>0, <2>1, <3>2, <3>3, <3>4 DEF LastHolds
    <2>2. CASE ChildOpen(p) /\ child'[p].lease = lease[p[1]]
      BY <2>2 DEF ChildOpen, childFrame
    <2> QED
      BY <2>1, <2>2, HoldMoves
  <1>8. RecoveryOnly'
    <2> SUFFICES ASSUME sched' \in BusyPC \ ProbePC PROVE jobs'[cur'].state # "Recovering"
      BY DEF RecoveryOnly
    <2>1. CASE sched \in BusyPC \ ProbePC /\ cur' = cur
      <3>1. cur \in Jobs /\ jobs[cur].state # "Recovering" /\ sched' # "top"
        BY <1>0, <2>1 DEF RecoveryOnly, BusyPC
      <3> QED
        BY <2>1, <3>1, RunMoves
    <2> QED
      BY <1>0, <2>1, LeaseMoves
  <1>9. ProbeStands'
    <2> SUFFICES ASSUME sched' \in ProbePC, ~seen'.receipt,
                        jobs'[cur'].state = "Recovering", NoEarlierOrphan(cur)'
                 PROVE  ~ValidReceipt(cur)' /\ held' = lease'[cur']
      BY DEF ProbeStands
    <2>1. CASE /\ sched \in ProbePC /\ cur' = cur /\ held' = held
               /\ seen'.receipt = seen.receipt /\ lease' = lease
      <3>0. cur \in Jobs /\ sched' # "top" /\ sched \notin {"mark", "spawn", "replan"}
        BY <1>0, <2>1 DEF ProbePC, BusyPC, SchedPC
      <3>1. /\ jobs[cur].state = "Recovering" /\ jobs'[cur].attempt = jobs[cur].attempt
            /\ jobs'[cur].plan = jobs[cur].plan
        BY <2>1, <3>0, RunMoves, PlanStays
      <3>2. NoEarlierOrphan(cur)
        <4> SUFFICES ASSUME NEW p \in Proc, p[1] = cur, p[2] < jobs[cur].attempt,
                            child[p].orphan
                     PROVE  FALSE
          BY DEF NoEarlierOrphan, ChildrenOf
        <4>1. child'[p].orphan
          BY <1>0, <2>1, <3>0, HoldMoves DEF DownIsOff, ProbePC
        <4> QED
          BY <2>1, <3>1, <4>1 DEF NoEarlierOrphan, ChildrenOf
      <3>3. ~ValidReceipt(cur) /\ held = lease[cur] /\ held # 0
        BY <1>0, <2>1, <3>0, <3>1, <3>2 DEF ProbeStands, RunNames
      <3>4. ASSUME NEW p \in Proc, p[1] = cur, child[p].phase = "published"
            PROVE  FALSE
        <4>1. p[2] \in Nat /\ jobs[cur].attempt \in Nat /\ p[2] <= jobs[cur].attempt
          BY <1>0, <3>0, <3>4 DEF Proc, Job, ChildInv
        <4>2. CASE p[2] < jobs[cur].attempt
          <5>1. OwnChild(p)
            BY <3>2, <3>4, <4>2 DEF NoEarlierOrphan, ChildrenOf, OwnChild, Alive, LivePhase,
               LockedPhase
          <5> QED
            BY <1>0, <2>1, <5>1 DEF OwnIsLast, ProbePC
        <4>3. CASE p[2] = jobs[cur].attempt
          <5>1. child[p].lease = held
            BY <1>0, <3>1, <3>3, <3>4, <4>3 DEF LastHolds, HoldPhase, LockedPhase
          <5> QED
            BY <1>0, <3>3, <3>4, <5>1 DEF HeldAlone, ChildrenOf, LockedPhase
        <4> QED
          BY <4>1, <4>2, <4>3
      <3>5. receipt'[cur] # NoFile => receipt'[cur] = receipt[cur]
        BY <3>0, <3>4, ReceiptAppears
      <3>6. ~ValidReceipt(cur)'
        BY <2>1, <3>1, <3>3, <3>5 DEF ValidReceipt
      <3> QED
        BY <2>1, <3>3, <3>6
    <2>2. CASE /\ cur' \in Jobs /\ seen'.receipt = ValidReceipt(cur')
               /\ held' = lease[cur'] /\ UNCHANGED <<jobs, lease, receipt, child>>
      BY <2>2 DEF ValidReceipt
    <2> QED
      BY <1>0, <2>1, <2>2, LeaseMoves
  <1> QED
    BY <1>3, <1>4, <1>5, <1>6, <1>7, <1>8, <1>9 DEF LeaseInv

(* A daemon that recovers a job whose child has written its receipt        *)
(* neither fails that job nor runs it again, unless a child of an earlier  *)
(* run was still running when this daemon started.                         *)
THEOREM RestartsReconcile == Spec => RestartReconciles
  <1>1. Init => LeaseInv
    <2> SUFFICES ASSUME Init PROVE LeaseInv
      OBVIOUS
    <2>1. \A p \in Proc : child[p].phase = "none"
      BY DEF Init, NoChild
    <2> QED
      BY <2>1 DEF Init, StoreInit, LeaseInv, HeldWhere, HeldAlone, ChildrenOf, LaunchNames,
         LaunchPC, RunNames, LastHolds, HoldPhase, LockedPhase, RecoveryOnly, BusyPC,
         ProbePC, ProbeStands
  <1>2. Spec => [](Typed /\ RunInv /\ ChildInv)
    <2>1. FileInv => ChildInv
      BY DEF FileInv
    <2> QED
      BY <2>1, RunInvariance, FileInvariance, PTL
  <1>3. Typed /\ RunInv /\ ChildInv /\ LeaseInv /\ [Next]_vars => LeaseInv'
    BY LeaseInvStep
  <1>4. Typed /\ RunInv /\ LeaseInv /\ [Next]_vars =>
          [\A j \in Jobs : /\ jobs[j].state = "Recovering" /\ ValidReceipt(j)
                           /\ NoEarlierOrphan(j)
             => jobs'[j].state \notin {"Failed", "Queued"}]_vars
    <2> SUFFICES ASSUME Typed, LeaseInv, [Next]_vars, NEW j \in Jobs,
                        jobs[j].state = "Recovering", ValidReceipt(j), NoEarlierOrphan(j),
                        jobs'[j].state \in {"Failed", "Queued"}
                 PROVE  FALSE
      OBVIOUS
    <2>1. /\ cur = j
          /\ sched \in {"settle", "giveUp"} \/ (sched = "settleOrphan" /\ ~seen.receipt)
      BY RunMoves
    <2> QED
      BY <2>1 DEF LeaseInv, RecoveryOnly, ProbeStands, ProbePC, BusyPC, SchedPC
  <1> QED
    BY <1>1, <1>2, <1>3, <1>4, PTL DEF Spec, RestartReconciles


=============================================================================
