-------------------------- MODULE UpdateSlotsProofs --------------------------
(* Proofs about UpdateSlots, for every value of its constants.             *)
EXTENDS UpdateSlots, TLAPS

(* What an instance may rely on at each of its steps: only the holder of   *)
(* the lock is inside a locked operation, its bundle is still allowed by   *)
(* the state it was checked against, the slots it staged are there, and    *)
(* whoever has its window up runs a version that gets it up.               *)
Staging == {"candidate", "rollback", "commit"}
StepInv(p) ==
  LET r == proc[p] IN
  /\ r.at \in Staging \cup {"clean"} => lock = p
  /\ r.at \in Staging => /\ r.why = "apply" /\ r.bundle \in Bundles
                         /\ Ready(r.bundle, r.v) /\ applies # 0
  /\ r.at \in {"rollback", "commit"} =>
       slots[r.bundle.to] \in {r.bundle.manifest, Corrupt}
  /\ r.at = "commit" => slots[r.bundle.from] \in {r.bundle.manifest, Corrupt}
  /\ \/ r.at \in {"off", "report", "silent"}
     \/ r.at \in {"begin", "lookup", "install", "clean"} /\ r.why = "start"
     \/ r.v \notin Broken
  /\ r.at \in {"clean", "lookup"} => state.managed
  /\ r.at = "report" /\ r.token # 0 => state.managed

StateInv ==
  /\ StateValid
  /\ FallbackWorks
  /\ state.managed /\ HealthPending => state.active.version = state.floor

Inv == /\ TypeOK /\ StateInv /\ SlotsRecoverable
       /\ \A p \in Procs : StepInv(p)

(* What the helpers make of an instance is an instance.                    *)
LEMMA InstanceTyped ==
  ASSUME TypeOK, NEW p \in Procs
  PROVE  /\ proc[p] \in Instance
         /\ \A at \in At : GoTo(p, at) => proc' \in [Procs -> Instance]
         /\ \A at \in At, why \in Why : For(p, at, why) => proc' \in [Procs -> Instance]
         /\ \A v \in Releases : Become(p, Off(v)) => proc' \in [Procs -> Instance]
         /\ Window(p) => proc' \in [Procs -> Instance]
         /\ \A token \in Nat : Report(p, token) => proc' \in [Procs -> Instance]
         /\ Succeed(p) => proc' \in [Procs -> Instance]
         /\ Fail(p) => proc' \in [Procs -> Instance]
<1>1. proc \in [Procs -> Instance] /\ proc[p] \in Instance
  BY DEF TypeOK
<1>2. proc[p].v \in Releases
  BY <1>1 DEF Instance
<1>3. \A v \in Releases : Off(v) \in Instance
  BY DEF Off, Instance, At, Why
<1>4. \A r \in Instance : Become(p, r) => proc' \in [Procs -> Instance]
  BY <1>1 DEF Become
<1>5. \A r \in Instance, at \in At : [r EXCEPT !.at = at] \in Instance
  BY DEF Instance
<1>6. \A r \in Instance, why \in Why : [r EXCEPT !.why = why] \in Instance
  BY DEF Instance
<1>7. \A r \in Instance, token \in Nat : [r EXCEPT !.token = token] \in Instance
  BY DEF Instance
<1>8. \A at \in At, why \in Why : For(p, at, why) => proc' \in [Procs -> Instance]
  <2> SUFFICES ASSUME NEW at \in At, NEW why \in Why, For(p, at, why)
               PROVE  proc' \in [Procs -> Instance]
    OBVIOUS
  <2>1. [proc[p] EXCEPT !.at = at, !.why = why] \in Instance
    BY <1>1 DEF Instance
  <2> QED BY <2>1, <1>4 DEF For
<1>9. "idle" \in At /\ "report" \in At /\ "silent" \in At /\ 0 \in Nat
  BY DEF At
<1>10. Window(p) => proc' \in [Procs -> Instance]
  BY <1>2, <1>3, <1>4, <1>5, <1>9 DEF Window
<1>11. \A token \in Nat : Report(p, token) => proc' \in [Procs -> Instance]
  <2> SUFFICES ASSUME NEW token \in Nat, Report(p, token) PROVE proc' \in [Procs -> Instance]
    OBVIOUS
  <2>1. [Off(proc[p].v) EXCEPT !.at = "report", !.token = token] \in Instance
    BY <1>2, <1>9 DEF Off, Instance, Why
  <2> QED BY <2>1, <1>4 DEF Report
<1>12. Fail(p) => proc' \in [Procs -> Instance]
  BY <1>2, <1>3, <1>4, <1>5, <1>9, <1>10 DEF Fail
<1>13. Succeed(p) => proc' \in [Procs -> Instance]
  BY <1>9, <1>10, <1>11 DEF Succeed
<1> QED
  BY <1>1, <1>3, <1>4, <1>5, <1>8, <1>10, <1>11, <1>12, <1>13 DEF GoTo

(* What the operations make of the state is a state.                       *)
LEMMA StateTyped ==
  ASSUME TypeOK
  PROVE  /\ state.managed => /\ state \in Managed
                             /\ Recovered(state) \in Managed
                             /\ [state EXCEPT !.pending.attempts = @ + 1] \in Managed
                             /\ [state EXCEPT !.pending.late = TRUE] \in Managed
                             /\ [state EXCEPT !.lkg = state.active, !.pending = NoPending]
                                  \in Managed
         /\ \A b \in Bundles : Accepted(b) \in Managed
         /\ Cleaned(state) \in [Releases -> Manifest \cup {Absent, Corrupt}]
<1>1. state.managed => state \in Managed
  BY DEF TypeOK, Unmanaged
<1>2. NoPending \in Pending
  BY DEF NoPending, Pending
<1>3. state.managed => Recovered(state) \in Managed
  BY <1>1, <1>2 DEF Recovered, Managed
<1>4. state.managed => [state EXCEPT !.pending.attempts = @ + 1] \in Managed
  <2> SUFFICES ASSUME state.managed
               PROVE  [state EXCEPT !.pending.attempts = @ + 1] \in Managed
    OBVIOUS
  <2>1. state.pending \in Pending
    BY <1>1 DEF Managed
  <2>2. state.pending.attempts + 1 \in Nat
    BY <2>1 DEF Pending
  <2>3. [state.pending EXCEPT !.attempts = @ + 1] \in Pending
    BY <2>1, <2>2 DEF Pending
  <2>4. [state EXCEPT !.pending.attempts = @ + 1]
          = [state EXCEPT !.pending = [state.pending EXCEPT !.attempts = @ + 1]]
    BY <1>1 DEF Managed
  <2> QED BY <1>1, <2>3, <2>4 DEF Managed
<1>5. state.managed => [state EXCEPT !.pending.late = TRUE] \in Managed
  BY <1>1 DEF Managed, Pending
<1>6. state.managed => [state EXCEPT !.lkg = state.active, !.pending = NoPending] \in Managed
  BY <1>1, <1>2 DEF Managed
<1>7. \A b \in Bundles : Accepted(b) \in Managed
  BY BundlesAssumption DEF TypeOK, Accepted, Managed, Pending, Stored, Bundle
<1>8. Cleaned(state) \in [Releases -> Manifest \cup {Absent, Corrupt}]
  BY DEF TypeOK, Cleaned
<1> QED BY <1>1, <1>3, <1>4, <1>5, <1>6, <1>7, <1>8

(* Every step keeps the types.                                             *)
LEMMA TypeStep == Inv /\ [Next]_vars => TypeOK'
<1> SUFFICES ASSUME TypeOK, \A p \in Procs : StepInv(p), [Next]_vars PROVE TypeOK'
  BY DEF Inv
<1> USE DEF store, counters
<1>1. ASSUME NEW p \in Procs, Start(p) PROVE TypeOK'
  <2>1. /\ state.managed => state \in Managed
        /\ proc[p] \in Instance /\ installed \in Releases
        /\ proc[p].token \in Nat /\ proc[p].v \in Releases
        /\ state.managed => state.pending.token \in Nat
    BY <1>1, InstanceTyped, StateTyped DEF TypeOK, Instance, Managed, Pending
  <2> USE DEF TypeOK
  <2>2. CASE Launch(p)
    <3>1. [Off(installed) EXCEPT !.at = "begin", !.why = "start"] \in Instance
      BY <2>1 DEF Off, Instance, At, Why
    <3> QED BY <2>2, <3>1 DEF Launch, Become
  <2>3. CASE BeginUnmanaged(p) \/ BeginFails(p)
    BY <2>3, InstanceTyped DEF BeginUnmanaged, BeginFails
  <2>4. CASE BeginHealthy(p)
    BY <2>4, InstanceTyped DEF BeginHealthy, At
  <2>5. CASE BeginRecover(p)
    BY <2>5, InstanceTyped, StateTyped DEF BeginRecover, Begin, At
  <2>6. CASE BeginAttempt(p)
    <3>1. proc' \in [Procs -> Instance]
      BY <2>1, <2>6, InstanceTyped DEF BeginAttempt, Begin
    <3> QED BY <2>6, <3>1, StateTyped DEF BeginAttempt, Begin
  <2>7. CASE Show(p) \/ BeginAgain(p)
    BY <2>7, InstanceTyped DEF Show, BeginAgain, At, Why
  <2>8. CASE Confirm(p)
    <3>1. CASE Free /\ MayConfirm(p)
      <4>1. state.managed
        BY <2>8 DEF Confirm, Up, StepInv
      <4> QED BY <4>1, <2>8, <3>1, InstanceTyped, StateTyped DEF Confirm, At, Why
    <3>2. CASE ~(Free /\ MayConfirm(p))
      BY <2>8, <3>2, InstanceTyped DEF Confirm
    <3> QED BY <3>1, <3>2
  <2> QED BY <1>1, <2>2, <2>3, <2>4, <2>5, <2>6, <2>7, <2>8 DEF Start
<1>2. ASSUME NEW p \in Procs, Command(p) PROVE TypeOK'
  <2>1. /\ state.managed => state \in Managed
        /\ proc[p] \in Instance /\ proc[p].target \in Releases
        /\ proc[p].bundle \in Bundles \cup {NoBundle}
    BY InstanceTyped, StateTyped DEF Instance
  <2> USE DEF TypeOK
  <2>2. CASE StageCandidate(p) \/ StageRollback(p)
    <3> SUFFICES ASSUME NEW v, NEW next \in At, Stage(p, v, next)
                 PROVE  /\ slots' \in [Releases -> Manifest \cup {Absent, Corrupt}]
                        /\ proc' \in [Procs -> Instance]
                        /\ lock' \in Procs \cup {Nobody}
      BY <2>2 DEF StageCandidate, StageRollback, At
    <3>1. proc[p].bundle.manifest \in Manifest \cup {Absent}
      BY <2>1, BundlesAssumption DEF Bundle, NoBundle
    <3> QED BY <3>1, InstanceTyped DEF Stage
  <2>3. CASE Commit(p)
    <3>1. proc[p].bundle \in Bundles
      BY <2>3 DEF Commit, StepInv, Staging
    <3> QED BY <2>3, <3>1, InstanceTyped, StateTyped DEF Commit, At
  <2>4. CASE Clean(p)
    BY <2>4, InstanceTyped, StateTyped DEF Clean, At
  <2>5. CASE Lookup(p)
    <3>1. Target(p).version \in Releases
      BY <2>1, <2>5 DEF Lookup, Target, StepInv, Managed, Stored
    <3>2. [proc[p] EXCEPT !.at = "install", !.target = Target(p).version] \in Instance
      BY <2>1, <3>1 DEF Instance, At
    <3> QED BY <2>5, <3>2, InstanceTyped DEF Lookup, Become
  <2>6. CASE Install(p)
    BY <2>6, <2>1, InstanceTyped DEF Install, AfterInstall, AfterFailure, At
  <2>7. CASE Recover(p)
    BY <2>7, InstanceTyped, StateTyped DEF Recover, MayRecover, At, Why
  <2> QED BY <1>2, <2>2, <2>3, <2>4, <2>5, <2>6, <2>7 DEF Command
<1>3. ASSUME NEW p \in Procs, User(p) PROVE TypeOK'
  <2> USE DEF TypeOK
  <2>1. CASE Close(p)
    BY <2>1, InstanceTyped DEF Close
  <2>2. CASE Reload(p) \/ ManualRecover(p)
    BY <2>2, InstanceTyped DEF Reload, ManualRecover, At, Why
  <2>3. ASSUME NEW b \in Bundles, ApplyStart(p, b) PROVE TypeOK'
    <3>1. [proc[p] EXCEPT !.at = "candidate", !.why = "apply", !.bundle = b] \in Instance
      BY InstanceTyped DEF Instance, At, Why
    <3>2. proc' \in [Procs -> Instance]
      BY <2>3, <3>1 DEF ApplyStart, Become
    <3> QED BY <2>3, <3>2, StateTyped DEF ApplyStart, CleanedBefore
  <2> QED BY <1>3, <2>1, <2>2, <2>3 DEF User
<1>4. ASSUME NEW p \in Procs, Fault(p) PROVE TypeOK'
  <2> USE DEF TypeOK
  <2>1. CASE InstallFails(p) \/ InstallLost(p)
    BY <2>1, InstanceTyped DEF InstallFails, InstallLost, AfterInstall, AfterFailure, At
  <2>2. CASE Kill(p)
    BY <2>2, InstanceTyped DEF Kill
  <2> QED BY <1>4, <2>1, <2>2 DEF Fault
<1>5. CASE CliRecover
  <2>1. Cleaned(Recovered(state)) \in [Releases -> Manifest \cup {Absent, Corrupt}]
    BY DEF TypeOK, Cleaned
  <2> QED BY <1>5, <2>1, StateTyped DEF CliRecover, MayRecover, TypeOK
<1>6. CASE Expire
  BY <1>6, StateTyped DEF Expire, TypeOK
<1>7. ASSUME NEW v \in Releases, Tamper(v) PROVE TypeOK'
  BY <1>7 DEF Tamper, TypeOK
<1>8. CASE UNCHANGED vars
  BY <1>8 DEF vars, TypeOK
<1> QED BY <1>1, <1>2, <1>3, <1>4, <1>5, <1>6, <1>7, <1>8 DEF Next

(* A commit, a confirmation, a recovery or an attempt writes a state that  *)
(* is valid, names no broken fallback and keeps the floor.                 *)
LEMMA StateStep ==
  ASSUME Inv, [Next]_vars
  PROVE  /\ StateInv'
         /\ state.managed =>
              /\ state'.managed /\ state'.floor >= state.floor
              /\ state'.floor = state.floor => state'.manifest = state.manifest
<1> DEFINE Rises == state.managed =>
                      /\ state'.managed /\ state'.floor >= state.floor
                      /\ state'.floor = state.floor => state'.manifest = state.manifest
<1> USE DEF store, counters
<1>1. /\ state.managed => /\ state \in Managed
                          /\ state.floor \in Nat
                          /\ state.active.version \in Nat
                          /\ state.lkg.version \in Nat
                          /\ state.pending \in Pending
  BY StateTyped, ReleasesAssumption DEF Inv, Managed, Stored
<1>2. CASE UNCHANGED state
  BY <1>1, <1>2 DEF Inv, StateInv, StateValid, FallbackWorks, HealthPending
<1>3. ASSUME state.managed, HealthPending, state' = Recovered(state)
      PROVE  StateInv' /\ Rises
  <2>1. /\ state' \in Managed /\ state'.active = state.lkg /\ state'.lkg = state.lkg
        /\ state'.pending = NoPending /\ state'.floor = state.floor
        /\ state'.manifest = state.manifest /\ state'.managed
    BY <1>1, <1>3, StateTyped DEF Inv, Recovered, Managed
  <2>2. state.lkg.version < state.floor
    BY <1>1, <1>3 DEF Inv, StateInv, StateValid
  <2> QED BY <1>1, <1>3, <2>1, <2>2
          DEF Inv, StateInv, StateValid, FallbackWorks, HealthPending
<1>4. ASSUME NEW p \in Procs, BeginAttempt(p) PROVE StateInv' /\ Rises
  <2>1. state.managed /\ HealthPending /\ state.pending.attempts < MaxAttempts
    BY <1>1, <1>4, LimitAssumption DEF BeginAttempt, Begin, MustRecover, Pending
  <2>2. /\ state'.active = state.active /\ state'.lkg = state.lkg
        /\ state'.pending.attempts = state.pending.attempts + 1
        /\ state'.floor = state.floor /\ state'.manifest = state.manifest /\ state'.managed
    BY <1>1, <1>4, <2>1 DEF BeginAttempt, Managed, Pending
  <2>3. state'.pending # NoPending
    BY <1>1, <2>1, <2>2 DEF NoPending, Pending
  <2> QED BY <1>1, <2>1, <2>2, <2>3, LimitAssumption
          DEF Inv, StateInv, StateValid, FallbackWorks, HealthPending, Pending
<1>5. ASSUME NEW p \in Procs, Confirm(p) PROVE StateInv' /\ Rises
  <2>1. CASE Free /\ MayConfirm(p)
    <3>1. state.managed /\ HealthPending /\ state.active.version \notin Broken
      BY <1>5, <2>1 DEF Confirm, Up, Inv, StepInv, MayConfirm
    <3>2. /\ state'.active = state.active /\ state'.lkg = state.active
          /\ state'.pending = NoPending /\ state'.floor = state.floor
          /\ state'.manifest = state.manifest /\ state'.managed
      BY <1>1, <1>5, <2>1, <3>1 DEF Confirm, Managed
    <3> QED BY <1>1, <3>1, <3>2 DEF Inv, StateInv, StateValid, FallbackWorks, HealthPending
  <2>2. CASE ~(Free /\ MayConfirm(p))
    BY <1>2, <1>5, <2>2 DEF Confirm
  <2> QED BY <2>1, <2>2
<1>6. ASSUME NEW p \in Procs, Commit(p) PROVE StateInv' /\ Rises
  <2> DEFINE b == proc[p].bundle
  <2>1. b \in Bundles /\ Ready(b, proc[p].v) /\ applies # 0 /\ proc[p].v \notin Broken
    BY <1>6 DEF Commit, Inv, StepInv, Staging
  <2>2. /\ state'.active = [version |-> b.to, manifest |-> b.manifest]
        /\ state'.lkg = [version |-> b.from, manifest |-> b.manifest]
        /\ state'.pending = [token |-> applies, attempts |-> 0, late |-> FALSE]
        /\ state'.floor = b.to /\ state'.manifest = b.manifest /\ state'.managed
    BY <1>6 DEF Commit, Accepted
  <2>3. b.from \in Nat /\ b.to \in Nat /\ b.from < b.to
    BY <2>1, BundlesAssumption, ReleasesAssumption DEF Bundle
  <2>4. state'.pending # NoPending
    BY <2>1, <2>2 DEF NoPending
  <2>5. b.from \notin Broken
    BY <2>1 DEF Ready
  <2>6. StateInv'
    BY <2>2, <2>3, <2>4, <2>5, LimitAssumption
       DEF StateInv, StateValid, FallbackWorks, HealthPending
  <2>7. Rises
    BY <1>1, <2>1, <2>2, <2>3 DEF Ready
  <2> QED BY <2>6, <2>7
<1>7. CASE Expire
  <2>1. /\ state'.active = state.active /\ state'.lkg = state.lkg
        /\ state'.pending.attempts = state.pending.attempts /\ state'.pending.late
        /\ state'.floor = state.floor /\ state'.manifest = state.manifest /\ state'.managed
    BY <1>1, <1>7 DEF Expire, Managed, Pending
  <2>2. state'.pending # NoPending
    BY <2>1 DEF NoPending
  <2> QED BY <1>1, <1>7, <2>1, <2>2
          DEF Expire, Inv, StateInv, StateValid, FallbackWorks, HealthPending
<1>8. ASSUME NEW p \in Procs, Start(p) PROVE StateInv' /\ Rises
  <2>1. CASE BeginRecover(p)
    BY <1>3, <2>1 DEF BeginRecover, Begin
  <2>2. CASE ~BeginRecover(p)
    BY <1>2, <1>4, <1>5, <1>8, <2>2
       DEF Start, Launch, BeginUnmanaged, BeginFails, BeginHealthy, Show, BeginAgain
  <2> QED BY <2>1, <2>2
<1>9. ASSUME NEW p \in Procs, Command(p) PROVE StateInv' /\ Rises
  <2>1. CASE Recover(p)
    BY <1>2, <1>3, <2>1 DEF Recover, MayRecover
  <2>2. CASE ~Recover(p)
    BY <1>2, <1>6, <1>9, <2>2
       DEF Command, StageCandidate, StageRollback, Clean, Lookup, Install
  <2> QED BY <2>1, <2>2
<1>10. ASSUME NEW p \in Procs, User(p) \/ Fault(p) PROVE StateInv' /\ Rises
  BY <1>2, <1>10 DEF User, Close, Reload, ManualRecover, ApplyStart,
                     Fault, InstallFails, InstallLost, Kill
<1>11. CASE CliRecover
  BY <1>3, <1>11 DEF CliRecover, MayRecover
<1>12. ASSUME NEW v \in Releases, Tamper(v) PROVE StateInv' /\ Rises
  BY <1>2, <1>12 DEF Tamper
<1>13. CASE UNCHANGED vars
  BY <1>2, <1>13 DEF vars
<1> QED BY <1>7, <1>8, <1>9, <1>10, <1>11, <1>12, <1>13 DEF Next

(* Whoever writes the state names what it named before, or commits; and    *)
(* while an instance holds the lock nobody else writes it.                 *)
LEMMA StateMoves ==
  ASSUME Inv, [Next]_vars
  PROVE  /\ \/ \E p \in Procs : Commit(p)
            \/ state' = state
            \/ /\ state.managed
               /\ {state'.active, state'.lkg} \subseteq {state.active, state.lkg}
         /\ \A q \in Procs :
              proc'[q] = proc[q] /\ proc[q].at \in Staging \cup {"clean"} =>
                /\ lock' = lock
                /\ proc[q].at \in Staging => state' = state
<1> DEFINE Named == {state'.active, state'.lkg} \subseteq {state.active, state.lkg}
           Held(q) == proc[q].at \in Staging \cup {"clean"}
           Kept(q) == lock' = lock /\ (proc[q].at \in Staging => state' = state)
           Keeps == \A q \in Procs : proc'[q] = proc[q] /\ Held(q) => Kept(q)
           Goal == /\ (\E p \in Procs : Commit(p)) \/ state' = state \/ (state.managed /\ Named)
                   /\ Keeps
<1> USE DEF store, counters
<1>1. /\ state.managed => state \in Managed
      /\ \A q \in Procs : Held(q) => lock = q /\ q # Nobody
      /\ \A q \in Procs : proc[q].at \in Staging => ~(state.managed /\ HealthPending)
      /\ proc \in [Procs -> Instance]
  BY StateTyped, ProcsAssumption DEF Inv, StepInv, Ready, TypeOK, Nobody
<1>2. CASE UNCHANGED <<state, lock>>
  BY <1>2
<1>3. ASSUME state.managed, state' = Recovered(state), Free PROVE Goal
  <2>1. state'.active = state.lkg /\ state'.lkg = state.lkg
    BY <1>1, <1>3 DEF Recovered, Managed
  <2> QED BY <1>1, <1>3, <2>1 DEF Free
<1>4. ASSUME NEW p \in Procs, Start(p) PROVE Goal
  <2>1. CASE BeginRecover(p)
    BY <1>3, <2>1 DEF BeginRecover, Begin
  <2>2. CASE BeginAttempt(p)
    <3>1. state'.active = state.active /\ state'.lkg = state.lkg
      BY <1>1, <2>2 DEF BeginAttempt, Begin, Managed
    <3> QED BY <1>1, <2>2, <3>1 DEF BeginAttempt, Begin, Free
  <2>3. CASE Confirm(p) /\ Free /\ MayConfirm(p)
    <3>1. state.managed
      BY <2>3 DEF Confirm, Up, Inv, StepInv
    <3>2. state'.active = state.active /\ state'.lkg = state.active
      BY <1>1, <2>3, <3>1 DEF Confirm, Managed
    <3> QED BY <1>1, <2>3, <3>1, <3>2 DEF Free
  <2> QED
    BY <1>2, <1>4, <2>1, <2>2, <2>3
       DEF Start, Launch, BeginUnmanaged, BeginFails, BeginHealthy, Show, BeginAgain, Confirm
<1>5. ASSUME NEW p \in Procs, Command(p) PROVE Goal
  <2>1. CASE Recover(p)
    BY <1>2, <1>3, <2>1 DEF Recover, MayRecover
  <2>2. CASE Lookup(p) \/ Install(p)
    BY <1>2, <2>2 DEF Lookup, Install
  <2>3. CASE StageCandidate(p) \/ StageRollback(p) \/ Commit(p) \/ Clean(p)
    <3>1. lock = p /\ proc'[p] # proc[p]
      <4>1. proc[p].at \in Staging \cup {"clean"} /\ proc'[p].at # proc[p].at
        BY <1>1, <2>3
           DEF Instance, StageCandidate, StageRollback, Stage, Commit, Clean, GoTo, Window, Off,
               Become, Staging
      <4> QED BY <1>1, <4>1
    <3>2. \A q \in Procs : ~(proc'[q] = proc[q] /\ Held(q))
      BY <1>1, <3>1
    <3>3. state' = state \/ Commit(p)
      BY <2>3 DEF StageCandidate, StageRollback, Clean
    <3> QED BY <3>2, <3>3
  <2> QED BY <1>5, <2>1, <2>2, <2>3 DEF Command
<1>6. ASSUME NEW p \in Procs, User(p) PROVE Goal
  <2>1. CASE Close(p) \/ Reload(p) \/ ManualRecover(p)
    BY <1>2, <2>1 DEF Close, Reload, ManualRecover
  <2>2. ASSUME NEW b \in Bundles, ApplyStart(p, b) PROVE Goal
    BY <1>1, <2>2 DEF ApplyStart, Free
  <2> QED BY <1>6, <2>1, <2>2 DEF User
<1>7. ASSUME NEW p \in Procs, Fault(p) PROVE Goal
  <2>1. CASE InstallFails(p) \/ InstallLost(p)
    BY <1>2, <2>1 DEF InstallFails, InstallLost
  <2>2. CASE Kill(p)
    <3>1. proc'[p].at = "off" /\ proc[p].at # "off"
      BY <1>1, <2>2 DEF Kill, Become, Off
    <3> QED BY <1>1, <2>2, <3>1 DEF Kill
  <2> QED BY <1>7, <2>1, <2>2 DEF Fault
<1>8. CASE CliRecover
  BY <1>3, <1>8 DEF CliRecover, MayRecover
<1>9. CASE Expire
  <2>1. state'.active = state.active /\ state'.lkg = state.lkg
    BY <1>1, <1>9 DEF Expire, Managed
  <2> QED BY <1>1, <1>9, <2>1 DEF Expire
<1>10. ASSUME NEW v \in Releases, Tamper(v) PROVE Goal
  BY <1>2, <1>10 DEF Tamper
<1>11. CASE UNCHANGED vars
  BY <1>2, <1>11 DEF vars
<1>12. Goal
  BY <1>4, <1>5, <1>6, <1>7, <1>8, <1>9, <1>10, <1>11 DEF Next
<1> QED BY <1>12

(* A slot stays, is staged when it was absent, is damaged, or is cleaned,  *)
(* when the state names it no more and nobody is staging.                  *)
LEMMA SlotMoves ==
  ASSUME Inv, [Next]_vars, NEW v \in Releases
  PROVE  \/ slots'[v] \in {slots[v], Corrupt}
         \/ slots[v] = Absent
         \/ /\ v \notin {state'.active.version, state'.lkg.version}
            /\ \A p \in Procs : proc[p].at \notin Staging
<1> DEFINE Unused == /\ v \notin {state'.active.version, state'.lkg.version}
                     /\ \A p \in Procs : proc[p].at \notin Staging
           Goal == slots'[v] \in {slots[v], Corrupt} \/ slots[v] = Absent \/ Unused
<1> USE DEF store, counters
<1>1. /\ slots \in [Releases -> Manifest \cup {Absent, Corrupt}]
      /\ \A p \in Procs : proc[p].at \in Staging => lock = p /\ p # Nobody
  BY ProcsAssumption DEF Inv, TypeOK, StepInv, Nobody
<1>2. CASE UNCHANGED slots
  BY <1>2
<1>3. ASSUME NEW p \in Procs, NEW w, NEW next, Stage(p, w, next) PROVE Goal
  <2>1. CASE Stageable(w, proc[p].bundle)
    BY <1>1, <1>3, <2>1 DEF Stage, Stageable
  <2> QED BY <1>2, <1>3, <2>1 DEF Stage
<1>4. ASSUME NEW p \in Procs, Clean(p) PROVE Goal
  <2>1. lock = p /\ state' = state /\ proc[p].at \notin Staging
    BY <1>4 DEF Clean, Inv, StepInv, Staging
  <2> QED BY <1>1, <1>4, <2>1 DEF Clean, Cleaned, Retained
<1>5. ASSUME NEW p \in Procs, NEW b \in Bundles, ApplyStart(p, b) PROVE Goal
  BY <1>1, <1>5 DEF ApplyStart, CleanedBefore, Cleaned, Retained, Free
<1>6. CASE CliRecover
  <2>1. lock = Nobody /\ state' = Recovered(state)
    BY <1>6 DEF CliRecover, MayRecover, Free
  <2> QED BY <1>1, <1>6, <2>1 DEF CliRecover, Cleaned, Retained
<1>7. ASSUME NEW w \in Releases, Tamper(w) PROVE Goal
  BY <1>1, <1>7 DEF Tamper
<1>8. ASSUME NEW p \in Procs, Start(p) PROVE Goal
  BY <1>2, <1>8 DEF Start, Launch, BeginUnmanaged, BeginFails, BeginHealthy, BeginRecover,
                    BeginAttempt, Show, BeginAgain, Confirm
<1>9. ASSUME NEW p \in Procs, Command(p) PROVE Goal
  BY <1>2, <1>3, <1>4, <1>9
     DEF Command, StageCandidate, StageRollback, Commit, Lookup, Install, Recover
<1>10. ASSUME NEW p \in Procs, User(p) \/ Fault(p) PROVE Goal
  BY <1>2, <1>5, <1>10 DEF User, Close, Reload, ManualRecover,
                          Fault, InstallFails, InstallLost, Kill
<1>11. Goal
  BY <1>2, <1>6, <1>7, <1>8, <1>9, <1>10 DEF Next, Expire, vars
<1> QED BY <1>11

(* A step of others leaves an instance what it relies on.                  *)
LEMMA OthersKeep ==
  ASSUME Inv, [Next]_vars, NEW q \in Procs, proc'[q] = proc[q]
  PROVE  StepInv(q)'
<1> DEFINE r == proc[q]
<1>1. /\ StepInv(q)
      /\ state.managed => state'.managed
      /\ applies \in Nat
      /\ r.at \in Staging \cup {"clean"} => lock' = lock
      /\ r.at \in Staging => state' = state
  BY StateStep, StateMoves DEF Inv, TypeOK
<1>2. applies # 0 => applies' # 0
  <2>1. applies' = applies \/ applies' = applies + 1
    BY DEF Next, Start, Launch, BeginUnmanaged, BeginFails, BeginHealthy, BeginRecover,
           BeginAttempt, Show, BeginAgain, Confirm, Command, StageCandidate, StageRollback,
           Commit, Clean, Lookup, Install, Recover, User, Close, Reload, ManualRecover,
           ApplyStart, Fault, InstallFails, InstallLost, Kill, CliRecover, Expire, Tamper,
           counters, vars
  <2> QED BY <1>1, <2>1
<1>3. \A v \in Releases, m \in Manifest :
         r.at \in Staging /\ slots[v] \in {m, Corrupt} => slots'[v] \in {m, Corrupt}
  <2>1. \A m \in Manifest : m # Absent /\ Corrupt # Absent
    BY ReleasesAssumption DEF Manifest, Absent, Corrupt
  <2> QED BY <2>1, SlotMoves
<1>4. r.at \in Staging => /\ r.bundle.to \in Releases /\ r.bundle.from \in Releases
                          /\ r.bundle.manifest \in Manifest
  BY <1>1, BundlesAssumption DEF StepInv, Bundle
<1>5. r.at \in Staging => Ready(r.bundle, r.v)'
  BY <1>1 DEF StepInv, Ready, HealthPending
<1> QED BY <1>1, <1>2, <1>3, <1>4, <1>5 DEF StepInv, Staging

(* An instance that takes a step finds what it relies on at the next.      *)
LEMMA OwnStep ==
  ASSUME Inv, [Next]_vars, NEW p \in Procs, Start(p) \/ Command(p) \/ User(p) \/ Fault(p)
  PROVE  StepInv(p)'
<1> DEFINE r == proc[p]
           n == proc'[p]
           Plain == /\ n.at \notin {"candidate", "rollback", "commit", "clean", "lookup"}
                    /\ n.at = "report" /\ n.token # 0 => state.managed
                    /\ \/ n.at \in {"off", "report", "silent"}
                       \/ n.at \in {"begin", "install"} /\ n.why = "start"
                       \/ n.v \notin Broken
<1> USE DEF store, counters
<1>1. /\ proc \in [Procs -> Instance] /\ r \in Instance /\ StepInv(p)
      /\ state.managed => state'.managed
      /\ SlotsRecoverable /\ slots \in [Releases -> Manifest \cup {Absent, Corrupt}]
  BY StateStep DEF Inv, TypeOK
<1>2. Plain => StepInv(p)'
  BY <1>1 DEF StepInv, Staging
<1>3. Window(p) => n.at = "idle" /\ n.v = r.v
  BY <1>1 DEF Window, Become, Off
<1>4. \A token : Report(p, token) => n.at = "report" /\ n.token = token
  BY <1>1 DEF Report, Become, Off
<1>5. Fail(p) => n.at = "silent" \/ (n.at = "idle" /\ n.v = r.v /\ ~Starting(p))
  BY <1>1, <1>3 DEF Fail, Become, Off
<1>6. Succeed(p) => (n.at = "report" /\ n.token = 0)
                      \/ (n.at = "idle" /\ n.v = r.v /\ ~Starting(p))
  BY <1>3, <1>4 DEF Succeed
<1>7. \A at : GoTo(p, at) => /\ n.at = at /\ n.v = r.v /\ n.why = r.why
                             /\ n.bundle = r.bundle /\ n.token = r.token
  BY <1>1 DEF GoTo, Become, Instance
<1>8. \A at, why : For(p, at, why) => n.at = at /\ n.v = r.v /\ n.why = why
  BY <1>1 DEF For, Become, Instance
<1>9. ASSUME NEW b \in Bundles, ApplyStart(p, b), Ready(b, r.v) PROVE StepInv(p)'
  <2>1. n = [r EXCEPT !.at = "candidate", !.why = "apply", !.bundle = b]
    BY <1>1, <1>9 DEF ApplyStart, Become
  <2>2. /\ n.at = "candidate" /\ n.why = "apply" /\ n.bundle = b /\ n.v = r.v
        /\ r.at = "idle" /\ lock' = p /\ applies' = applies + 1 /\ state' = state
    BY <1>1, <1>9, <2>1 DEF ApplyStart, Instance
  <2>3. Ready(b, r.v)'
    BY <1>9, <2>2 DEF Ready, HealthPending
  <2>4. r.v \notin Broken /\ applies' # 0
    BY <1>1, <2>2 DEF StepInv, Inv, TypeOK
  <2> QED BY <2>2, <2>3, <2>4 DEF StepInv, Ready, HealthPending
<1>10. ASSUME NEW v \in Releases, NEW next \in Staging, Stage(p, v, next),
              r.at \in Staging, UNCHANGED <<state, applies>>,
              next \in {"rollback", "commit"},
              next = "rollback" => v = r.bundle.to,
              next = "commit" => r.at = "rollback" /\ v = r.bundle.from
       PROVE  StepInv(p)'
  <2>1. /\ lock = p /\ r.why = "apply" /\ r.bundle \in Bundles /\ Ready(r.bundle, r.v)
        /\ applies # 0 /\ r.v \notin Broken
    BY <1>1, <1>10 DEF StepInv, Staging
  <2>2. CASE Stageable(v, r.bundle)
    <3>1. /\ n.at = next /\ n.v = r.v /\ n.why = r.why /\ n.bundle = r.bundle
          /\ lock' = lock /\ slots' = [slots EXCEPT ![v] = r.bundle.manifest]
      BY <1>7, <1>10, <2>2 DEF Stage
    <3>2. slots'[v] = r.bundle.manifest
      BY <1>1, <3>1
    <3>3. next = "commit" => slots'[r.bundle.to] \in {r.bundle.manifest, Corrupt}
      BY <1>1, <1>10, <3>1, <2>1, BundlesAssumption DEF StepInv, Bundle
    <3>4. Ready(r.bundle, r.v)'
      BY <1>10, <2>1, <3>1 DEF Ready, HealthPending
    <3> QED BY <1>10, <2>1, <3>1, <3>2, <3>3, <3>4 DEF StepInv, Staging, Ready, HealthPending
  <2>3. CASE ~Stageable(v, r.bundle)
    BY <1>2, <1>3, <1>10, <2>1, <2>3 DEF Stage
  <2> QED BY <2>2, <2>3
<1>11. CASE Start(p)
  <2>1. CASE Launch(p)
    <3>1. n.at = "begin" /\ n.why = "start"
      BY <1>1, <2>1 DEF Launch, Become, Off
    <3> QED BY <1>2, <3>1
  <2>2. CASE BeginUnmanaged(p) \/ BeginFails(p)
    BY <1>1, <1>2, <1>5, <1>6, <2>2 DEF BeginUnmanaged, BeginFails, StepInv, Starting
  <2>3. CASE BeginHealthy(p)
    BY <1>1, <1>2, <1>6, <1>7, <2>3 DEF BeginHealthy, Begin, StepInv, Starting, Staging
  <2>4. CASE BeginRecover(p)
    BY <1>1, <1>7, <2>4 DEF BeginRecover, Begin, StepInv, Staging
  <2>5. CASE BeginAttempt(p)
    BY <1>1, <1>2, <1>3, <1>4, <2>5 DEF BeginAttempt, Begin, StepInv, Starting
  <2>6. CASE Show(p) \/ BeginAgain(p)
    BY <1>2, <1>3, <1>8, <2>6 DEF Show, BeginAgain, Up
  <2>7. CASE Confirm(p)
    BY <1>1, <1>2, <1>3, <1>8, <2>7 DEF Confirm, Up, StepInv, Staging
  <2> QED BY <1>11, <2>1, <2>2, <2>3, <2>4, <2>5, <2>6, <2>7 DEF Start
<1>12. CASE Command(p)
  <2>1. CASE StageCandidate(p) \/ StageRollback(p)
    <3>1. r.bundle.to \in Releases /\ r.bundle.from \in Releases
      BY <1>1, <2>1, BundlesAssumption DEF StageCandidate, StageRollback, StepInv, Staging, Bundle
    <3> QED BY <1>10, <2>1, <3>1 DEF StageCandidate, StageRollback, Staging
  <2>2. CASE Commit(p)
    <3>1. n.at = "clean" /\ n.v = r.v /\ lock' = lock
      BY <1>7, <2>2 DEF Commit
    <3>2. lock = p /\ r.v \notin Broken /\ state'.managed
      BY <1>1, <2>2 DEF Commit, Accepted, StepInv, Staging
    <3> QED BY <3>1, <3>2 DEF StepInv, Staging
  <2>3. CASE Clean(p)
    BY <1>1, <1>2, <1>3, <1>7, <2>3 DEF Clean, StepInv, Staging
  <2>4. CASE Lookup(p)
    <3>1. CASE Free /\ Verify(Target(p))
      <4> DEFINE m == [r EXCEPT !.at = "install", !.target = Target(p).version]
      <4>1. n = m
        BY <1>1, <2>4, <3>1 DEF Lookup, Become
      <4>2. m.at = "install" /\ m.v = r.v /\ m.why = r.why
        BY <1>1 DEF Instance
      <4>3. n.at = "install" /\ n.v = r.v /\ n.why = r.why
        BY <4>1, <4>2
      <4> HIDE DEF m
      <4> QED BY <1>1, <1>2, <2>4, <4>3 DEF Lookup, StepInv
    <3>2. CASE ~(Free /\ Verify(Target(p)))
      BY <1>1, <1>2, <1>5, <2>4, <3>2 DEF Lookup, StepInv, Starting
    <3> QED BY <3>1, <3>2
  <2>5. CASE Install(p)
    BY <1>1, <1>2, <1>5, <1>6, <1>7, <2>5
       DEF Install, AfterInstall, AfterFailure, StepInv, Starting
  <2>6. CASE Recover(p)
    BY <1>1, <1>2, <1>3, <1>8, <2>6 DEF Recover, MayRecover, StepInv, Staging
  <2> QED BY <1>12, <2>1, <2>2, <2>3, <2>4, <2>5, <2>6 DEF Command
<1>13. CASE User(p)
  <2>1. CASE Close(p)
    <3>1. n.at = "off"
      BY <1>1, <2>1 DEF Close, Become, Off
    <3> QED BY <1>2, <3>1
  <2>2. CASE Reload(p) \/ ManualRecover(p)
    BY <1>1, <1>2, <1>8, <2>2 DEF Reload, ManualRecover, StepInv, Staging
  <2>3. ASSUME NEW b \in Bundles, ApplyStart(p, b), ~Ready(b, r.v) PROVE StepInv(p)'
    BY <1>1, <2>3, OthersKeep DEF ApplyStart
  <2> QED BY <1>9, <1>13, <2>1, <2>2, <2>3 DEF User
<1>14. CASE Fault(p)
  <2>1. CASE InstallFails(p) \/ InstallLost(p)
    BY <1>1, <1>2, <1>5, <1>6, <1>7, <2>1
       DEF InstallFails, InstallLost, AfterInstall, AfterFailure, StepInv, Starting
  <2>2. CASE Kill(p)
    <3>1. n.at = "off"
      BY <1>1, <2>2 DEF Kill, Become, Off
    <3> QED BY <1>2, <3>1
  <2> QED BY <1>14, <2>1, <2>2 DEF Fault
<1> QED BY <1>11, <1>12, <1>13, <1>14

(* The invariant holds in every state of every behaviour.                  *)
LEMMA Invariance == Spec => []Inv
<1>1. Init => Inv
  <2> SUFFICES ASSUME Init PROVE Inv
    OBVIOUS
  <2>1. installed \in Releases /\ installed \notin Broken
    BY BundlesAssumption DEF Init, Bundle
  <2>2. \A v \in Releases : Off(v) \in Instance
    BY DEF Off, Instance, At, Why
  <2>3. TypeOK
    BY <2>1, <2>2 DEF Init, TypeOK
  <2>4. StateInv /\ SlotsRecoverable
    BY DEF Init, Unmanaged, StateInv, StateValid, FallbackWorks, SlotsRecoverable
  <2>5. \A p \in Procs : proc[p].at = "off"
    BY DEF Init, Off
  <2> QED BY <2>3, <2>4, <2>5 DEF Inv, StepInv, Staging
<1>2. Inv /\ [Next]_vars => SlotsRecoverable'
  <2> SUFFICES ASSUME Inv, [Next]_vars, state'.managed, NEW s \in {state'.active, state'.lkg}
               PROVE  slots'[s.version] \in {s.manifest, Corrupt}
    BY DEF SlotsRecoverable
  <2>1. ASSUME NEW p \in Procs, Commit(p) PROVE slots'[s.version] \in {s.manifest, Corrupt}
    BY <2>1 DEF Commit, Accepted, Inv, StepInv
  <2>2. CASE state.managed /\ s \in {state.active, state.lkg}
    <3>1. s \in Stored
      BY <2>2, StateTyped DEF Inv, Managed
    <3>2. s.version \in Releases /\ s.manifest # Absent /\ Corrupt # Absent
      BY <3>1, ReleasesAssumption DEF Stored, Manifest, Absent, Corrupt
    <3>3. slots[s.version] \in {s.manifest, Corrupt}
      BY <2>2 DEF Inv, SlotsRecoverable
    <3> QED BY <3>2, <3>3, SlotMoves
  <2> QED BY <2>1, <2>2, StateMoves
<1>3. Inv /\ [Next]_vars => Inv'
  <2> SUFFICES ASSUME Inv, [Next]_vars, NEW q \in Procs PROVE StepInv(q)'
    BY <1>2, TypeStep, StateStep DEF Inv
  <2>1. ASSUME NEW p \in Procs, Start(p) \/ Command(p) \/ User(p) \/ Fault(p), p # q
        PROVE  proc'[q] = proc[q]
    BY <2>1 DEF Inv, TypeOK, Start, Launch, BeginUnmanaged, BeginFails, BeginHealthy,
         BeginRecover, BeginAttempt, Show, BeginAgain, Confirm, Command, StageCandidate,
         StageRollback, Stage, Commit, Clean, Lookup, Install, Recover, User, Close, Reload,
         ManualRecover, ApplyStart, Fault, InstallFails, InstallLost, Kill, AfterInstall,
         AfterFailure, Succeed, Fail, Report, Window, GoTo, For, Become, store
  <2>2. CASE \E p \in Procs : Start(p) \/ Command(p) \/ User(p) \/ Fault(p)
    BY <2>1, <2>2, OwnStep, OthersKeep
  <2>3. CASE CliRecover \/ Expire \/ (\E v \in Releases : Tamper(v)) \/ UNCHANGED vars
    BY <2>3, OthersKeep DEF CliRecover, Expire, Tamper, vars
  <2> QED BY <2>2, <2>3 DEF Next
<1> QED BY <1>1, <1>3, PTL DEF Spec

(* Every variable has its type.                                            *)
THEOREM UpdateTyped == Spec => []TypeOK
  BY Invariance, PTL DEF Inv

(* Neither a kill between two writes, nor a recovery, nor the command line *)
(* next to an instance leaves the state file naming a slot that is gone.   *)
THEOREM SlotsAlwaysRecoverable == Spec => []SlotsRecoverable
  BY Invariance, PTL DEF Inv

(* Every state that is written is one the next call accepts.               *)
THEOREM StateAlwaysValid == Spec => []StateValid
  BY Invariance, PTL DEF Inv, StateInv

(* What an installation falls back to is never a version that was not      *)
(* seen to work.                                                           *)
THEOREM FallbackAlwaysWorks == Spec => []FallbackWorks
  BY Invariance, PTL DEF Inv, StateInv

(* The floor never sinks, and a release at it keeps its manifest.          *)
THEOREM FloorNeverSinks == Spec => FloorRises
<1>1. Inv /\ [Next]_vars =>
        [state.managed =>
           /\ state'.managed /\ state'.floor >= state.floor
           /\ state'.floor = state.floor => state'.manifest = state.manifest]_state
  BY StateStep
<1> QED BY <1>1, Invariance, PTL DEF Spec, FloorRises

=============================================================================
