----------------------------- MODULE UpdateSlots -----------------------------
(***************************************************************************)
(* Application updates (src/src/update.rs) as the desktop application      *)
(* drives them (src/apps/desktop/src-tauri/src/lib.rs): a bundle imports   *)
(* its candidate and the payload to roll back to into slots, the candidate *)
(* becomes active with its health pending, the package is installed, and   *)
(* the next start either confirms the candidate or goes back to the last   *)
(* known good slot.                                                        *)
(*                                                                         *)
(* Several instances of the application and the command line share the     *)
(* state directory.  Its lock is only tried, never waited for; the         *)
(* installation happens outside it.  A process may be killed at any step.  *)
(***************************************************************************)
EXTENDS Naturals, FiniteSets

CONSTANTS Procs,        \* instances of the desktop application
          Releases,     \* versions, by their sequence
          Bundles,      \* signed transitions: see Bundle
          Broken,       \* versions that never get their window up
          MaxAttempts,  \* maximum_start_attempts of the policy
          MaxApplies, MaxKills, MaxFaults  \* bounds

Manifest == [version : Releases, edition : {1, 2}]
Bundle == [from : Releases, to : Releases, manifest : Manifest]

ASSUME ReleasesAssumption == Releases \subseteq Nat \ {0}
ASSUME BundlesAssumption ==
  /\ Bundles \subseteq Bundle
  /\ \A b \in Bundles : b.manifest.version = b.to /\ b.from < b.to
ASSUME ProcsAssumption == "nobody" \notin Procs
ASSUME LimitAssumption == /\ MaxAttempts \in Nat \ {0} /\ MaxApplies \in Nat
                          /\ MaxKills \in Nat /\ MaxFaults \in Nat

VARIABLES
  state,      \* the update state file
  slots,      \* slots/<id>: the manifest stored with the payload of a version
  installed,  \* version of the package on disk
  proc,       \* the instances
  lock,       \* who holds the state lock, between two writes
  applies, kills, faults

vars == <<state, slots, installed, proc, lock, applies, kills, faults>>
counters == <<applies, kills, faults>>

-----------------------------------------------------------------------------
(* Slots and state.                                                        *)

Absent == [version |-> 0, edition |-> 0]
Corrupt == [version |-> 0, edition |-> 1]
Stored == [version : Releases, manifest : Manifest]  \* StoredUpdateSlot

NoPending == [token |-> 0, attempts |-> 0, late |-> FALSE]
Pending == [token : Nat, attempts : Nat, late : BOOLEAN]

Unmanaged == [managed |-> FALSE]
Managed == [managed : {TRUE}, active : Stored, lkg : Stored, pending : Pending,
            floor : Releases, manifest : Manifest]

HealthPending == state.pending # NoPending

(* verify_slot: the payload is whole and the manifest stored with it is    *)
(* the one the state names.                                                *)
Verify(s) == slots[s.version] = s.manifest

(* Mutant: only the active slot is kept.                                   *)
RetainedActive(s) == {s.active.version}

(* cleanup_unreferenced_slots.                                             *)
Retained(s) == {s.active.version, s.lkg.version}
Cleaned(s) == [v \in Releases |-> IF v \in Retained(s) THEN slots[v] ELSE Absent]

(* Mutant: the floor goes back with the version.                           *)
RecoveredFloor(s) == [s EXCEPT !.active = s.lkg, !.pending = NoPending,
                      !.floor = s.lkg.version]

(* Mutant: the slots are swapped the wrong way round.                      *)
RecoveredSwapped(s) == [s EXCEPT !.lkg = s.active, !.pending = NoPending]

(* recover_state, up to its cleanup: the candidate is given up, the floor  *)
(* stays.                                                                  *)
Recovered(s) == [s EXCEPT !.active = s.lkg, !.pending = NoPending]

-----------------------------------------------------------------------------
(* Instances: not running, at a step of the start, with the window up and  *)
(* at "idle", or at a step of one of its commands.                         *)

Nobody == "nobody"
At == {"off", "begin", "report", "silent", "idle",
       "candidate", "rollback", "commit", "clean", "lookup", "install", "recover"}
Why == {"start", "window", "apply", "manual", "none"}

NoBundle == [from |-> 0, to |-> 0, manifest |-> Absent]
Instance == [v : Releases, at : At, why : Why, token : Nat, target : Releases,
             bundle : Bundles \cup {NoBundle}]

Off(v) == [v |-> v, at |-> "off", why |-> "none", token |-> 0, target |-> v,
           bundle |-> NoBundle]

Become(p, r) == proc' = [proc EXCEPT ![p] = r]
GoTo(p, at) == Become(p, [proc[p] EXCEPT !.at = at])
For(p, at, why) == Become(p, [proc[p] EXCEPT !.at = at, !.why = why])
Window(p) == Become(p, [Off(proc[p].v) EXCEPT !.at = "idle"])

(* What the window takes when it comes up: the report of the start, with   *)
(* the token to confirm or none, or nothing, since the start failed.       *)
Report(p, token) == Become(p, [Off(proc[p].v) EXCEPT !.at = "report", !.token = token])

Starting(p) == proc[p].why = "start"
Succeed(p) == IF Starting(p) THEN Report(p, 0) ELSE Window(p)
Fail(p) == IF Starting(p) THEN Become(p, [Off(proc[p].v) EXCEPT !.at = "silent"])
           ELSE Window(p)

Free == lock = Nobody

store == <<state, slots, lock>>

-----------------------------------------------------------------------------
(* The start of an instance.                                               *)

Launch(p) ==
  /\ proc[p].at = "off"
  /\ Become(p, [Off(installed) EXCEPT !.at = "begin", !.why = "start"])
  /\ UNCHANGED <<store, installed, counters>>

(* begin_update_startup_health.                                            *)
Usable == Verify(state.lkg) /\ (Verify(state.active) \/ HealthPending)

BeginUnmanaged(p) ==
  /\ proc[p].at = "begin" /\ ~state.managed
  /\ Succeed(p)
  /\ UNCHANGED <<store, installed, counters>>

BeginFails(p) ==
  /\ proc[p].at = "begin" /\ state.managed
  /\ ~Free \/ ~Usable
  /\ Fail(p)
  /\ UNCHANGED <<store, installed, counters>>

Begin(p) == proc[p].at = "begin" /\ state.managed /\ Free /\ Usable

(* A healthy state that names another version: install that one again.     *)
BeginHealthy(p) ==
  /\ Begin(p) /\ ~HealthPending
  /\ IF proc[p].v = state.active.version THEN Succeed(p) ELSE GoTo(p, "lookup")
  /\ UNCHANGED <<store, installed, counters>>

(* Mutant: one start too many.                                             *)
MustRecoverLate(p) == \/ ~Verify(state.active)
                      \/ proc[p].v # state.active.version
                      \/ state.pending.late
                      \/ state.pending.attempts > MaxAttempts

MustRecover(p) == \/ ~Verify(state.active)
                  \/ proc[p].v # state.active.version
                  \/ state.pending.late
                  \/ state.pending.attempts >= MaxAttempts

BeginRecover(p) ==
  /\ Begin(p) /\ HealthPending /\ MustRecover(p)
  /\ state' = Recovered(state)
  /\ lock' = p
  /\ GoTo(p, "clean")
  /\ UNCHANGED <<slots, installed, counters>>

(* Mutant: only a confirmation is written, not the attempt.                *)
BeginUncounted(p) ==
  /\ Begin(p) /\ HealthPending /\ ~MustRecover(p)
  /\ IF Starting(p) THEN Report(p, state.pending.token) ELSE Window(p)
  /\ UNCHANGED <<store, installed, counters>>

(* The token goes to the window with the report of the start; to a report  *)
(* that the window asked for it is only shown.                             *)
BeginAttempt(p) ==
  /\ Begin(p) /\ HealthPending /\ ~MustRecover(p)
  /\ state' = [state EXCEPT !.pending.attempts = @ + 1]
  /\ IF Starting(p) THEN Report(p, state.pending.token) ELSE Window(p)
  /\ UNCHANGED <<slots, lock, installed, counters>>

(* confirm_application_update_startup, when the window is up; without a    *)
(* report it begins again.                                                 *)
Up(p, at) == proc[p].at = at /\ proc[p].v \notin Broken

Show(p) ==
  /\ Up(p, "report") /\ proc[p].token = 0
  /\ Window(p)
  /\ UNCHANGED <<store, installed, counters>>

BeginAgain(p) ==
  /\ Up(p, "silent")
  /\ For(p, "begin", "window")
  /\ UNCHANGED <<store, installed, counters>>

MayConfirm(p) == /\ HealthPending
                 /\ proc[p].v = state.active.version
                 /\ proc[p].token = state.pending.token
                 /\ ~state.pending.late
                 /\ Verify(state.active)

Confirm(p) ==
  /\ Up(p, "report") /\ proc[p].token # 0
  /\ IF Free /\ MayConfirm(p)
       THEN /\ state' = [state EXCEPT !.lkg = state.active, !.pending = NoPending]
            /\ lock' = p
            /\ For(p, "clean", "none")
       ELSE Window(p) /\ UNCHANGED <<state, lock>>
  /\ UNCHANGED <<slots, installed, counters>>

(* The window is loaded again.                                             *)
Reload(p) ==
  /\ proc[p].at = "idle" /\ faults < MaxFaults
  /\ faults' = faults + 1
  /\ For(p, "begin", "window")
  /\ UNCHANGED <<store, installed, applies, kills>>

-----------------------------------------------------------------------------
(* apply_update_bundle.                                                    *)

(* validate_apply_transition; dry_run_update_bundle calls this "ready".    *)
Ready(b, v) ==
  /\ b.from = v /\ b.to > v
  /\ state.managed =>
       /\ ~HealthPending
       /\ state.active.version = v
       /\ b.to >= state.floor
       /\ b.to = state.floor => b.manifest = state.manifest

CleanedBefore == IF state.managed THEN Cleaned(state) ELSE slots

ApplyStart(p, b) ==
  /\ proc[p].at = "idle" /\ Free /\ applies < MaxApplies
  /\ applies' = applies + 1
  /\ slots' = CleanedBefore
  /\ IF Ready(b, proc[p].v)
       THEN /\ lock' = p
            /\ Become(p, [proc[p] EXCEPT !.at = "candidate", !.why = "apply", !.bundle = b])
       ELSE UNCHANGED <<lock, proc>>
  /\ UNCHANGED <<state, installed, kills, faults>>

(* stage_slot: a slot that is there must be that of this very bundle.      *)
Stageable(v, b) == slots[v] \in {Absent, b.manifest}

Stage(p, v, next) ==
  LET b == proc[p].bundle IN
  IF Stageable(v, b)
    THEN /\ slots' = [slots EXCEPT ![v] = b.manifest]
         /\ GoTo(p, next)
         /\ UNCHANGED lock
    ELSE Window(p) /\ lock' = Nobody /\ UNCHANGED slots

StageCandidate(p) ==
  /\ proc[p].at = "candidate"
  /\ Stage(p, proc[p].bundle.to, "rollback")
  /\ UNCHANGED <<state, installed, counters>>

StageRollback(p) ==
  /\ proc[p].at = "rollback"
  /\ Stage(p, proc[p].bundle.from, "commit")
  /\ UNCHANGED <<state, installed, counters>>

(* Mutant: the floor is the next release.                                  *)
AcceptedNext(b) ==
  [managed |-> TRUE,
   active |-> [version |-> b.to, manifest |-> b.manifest],
   lkg |-> [version |-> b.from, manifest |-> b.manifest],
   pending |-> [token |-> applies, attempts |-> 0, late |-> FALSE],
   floor |-> b.to + 1, manifest |-> b.manifest]

Accepted(b) ==
  [managed |-> TRUE,
   active |-> [version |-> b.to, manifest |-> b.manifest],
   lkg |-> [version |-> b.from, manifest |-> b.manifest],
   pending |-> [token |-> applies, attempts |-> 0, late |-> FALSE],
   floor |-> b.to, manifest |-> b.manifest]

Commit(p) ==
  /\ proc[p].at = "commit"
  /\ state' = Accepted(proc[p].bundle)
  /\ GoTo(p, "clean")
  /\ UNCHANGED <<slots, lock, installed, counters>>

(* The end of a locked operation, after its state is written.              *)
Clean(p) ==
  /\ proc[p].at = "clean"
  /\ slots' = Cleaned(state)
  /\ lock' = Nobody
  /\ IF proc[p].why \in {"manual", "none"} THEN Window(p) ELSE GoTo(p, "lookup")
  /\ UNCHANGED <<state, installed, counters>>

-----------------------------------------------------------------------------
(* active_update_target, or last_known_good_update_target for a manual     *)
(* recovery; then the installation of the package, outside the lock.       *)

Target(p) == IF proc[p].why = "manual" THEN state.lkg ELSE state.active

Lookup(p) ==
  /\ proc[p].at = "lookup"
  /\ IF Free /\ Verify(Target(p))
       THEN Become(p, [proc[p] EXCEPT !.at = "install", !.target = Target(p).version])
       ELSE Fail(p)
  /\ UNCHANGED <<store, installed, counters>>

AfterInstall(p) == IF proc[p].why = "manual" THEN GoTo(p, "recover") ELSE Succeed(p)
AfterFailure(p) == IF proc[p].why = "apply" THEN GoTo(p, "recover") ELSE Fail(p)

(* The slot may be gone by now.                                            *)
Install(p) ==
  /\ proc[p].at = "install"
  /\ IF slots[proc[p].target] # Absent
       THEN installed' = proc[p].target /\ AfterInstall(p)
       ELSE UNCHANGED installed /\ AfterFailure(p)
  /\ UNCHANGED <<store, counters>>

InstallFails(p) ==
  /\ proc[p].at = "install" /\ faults < MaxFaults
  /\ faults' = faults + 1
  /\ AfterFailure(p)
  /\ UNCHANGED <<store, installed, applies, kills>>

(* An installer that runs on its own may fail after it was started.        *)
InstallLost(p) ==
  /\ proc[p].at = "install" /\ faults < MaxFaults
  /\ faults' = faults + 1
  /\ AfterInstall(p)
  /\ UNCHANGED <<store, installed, applies, kills>>

(* recover_application_update, from the window while health is pending.    *)
ManualRecover(p) ==
  /\ proc[p].at = "idle" /\ Free /\ state.managed /\ HealthPending
  /\ For(p, "lookup", "manual")
  /\ UNCHANGED <<store, installed, counters>>

(* recover_update: after the package of a manual recovery, and when that   *)
(* of an update could not be installed.                                    *)
MayRecover == Free /\ state.managed /\ HealthPending /\ Verify(state.lkg)

Recover(p) ==
  /\ proc[p].at = "recover"
  /\ IF MayRecover
       THEN state' = Recovered(state) /\ lock' = p /\ For(p, "clean", "none")
       ELSE Window(p) /\ UNCHANGED <<state, lock>>
  /\ UNCHANGED <<slots, installed, counters>>

(* denoize update recover, which installs nothing and may die before it    *)
(* cleans up.                                                              *)
CliRecover ==
  /\ MayRecover /\ kills < MaxKills
  /\ kills' = kills + 1
  /\ state' = Recovered(state)
  /\ slots' \in {slots, Cleaned(Recovered(state))}
  /\ UNCHANGED <<installed, proc, lock, applies, faults>>

-----------------------------------------------------------------------------
(* The world around.                                                       *)

Close(p) ==
  /\ proc[p].at \in {"report", "silent", "idle"}
  /\ Become(p, Off(installed))
  /\ UNCHANGED <<store, installed, counters>>

Kill(p) ==
  /\ proc[p].at \notin {"off", "report", "silent", "idle"} /\ kills < MaxKills
  /\ kills' = kills + 1
  /\ lock' = IF lock = p THEN Nobody ELSE lock
  /\ Become(p, Off(installed))
  /\ UNCHANGED <<state, slots, installed, applies, faults>>

(* The deadline passes.                                                    *)
Expire ==
  /\ state.managed /\ HealthPending /\ ~state.pending.late
  /\ state' = [state EXCEPT !.pending.late = TRUE]
  /\ UNCHANGED <<slots, installed, proc, lock, counters>>

Tamper(v) ==
  /\ slots[v] \notin {Absent, Corrupt} /\ faults < MaxFaults
  /\ faults' = faults + 1
  /\ slots' = [slots EXCEPT ![v] = Corrupt]
  /\ UNCHANGED <<state, installed, proc, lock, applies, kills>>

-----------------------------------------------------------------------------
Init ==
  /\ state = Unmanaged
  /\ slots = [v \in Releases |-> Absent]
  /\ installed \in {b.from : b \in Bundles} \ Broken
  /\ proc = [p \in Procs |-> Off(installed)]
  /\ lock = Nobody
  /\ applies = 0 /\ kills = 0 /\ faults = 0

Start(p) == \/ Launch(p) \/ BeginUnmanaged(p) \/ BeginFails(p) \/ BeginHealthy(p)
            \/ BeginRecover(p) \/ BeginAttempt(p)
            \/ Show(p) \/ BeginAgain(p) \/ Confirm(p)
Command(p) == \/ StageCandidate(p) \/ StageRollback(p) \/ Commit(p) \/ Clean(p)
              \/ Lookup(p) \/ Install(p) \/ Recover(p)
User(p) == Close(p) \/ Reload(p) \/ ManualRecover(p) \/ \E b \in Bundles : ApplyStart(p, b)
Fault(p) == InstallFails(p) \/ InstallLost(p) \/ Kill(p)

Next == \/ \E p \in Procs : Start(p) \/ Command(p) \/ User(p) \/ Fault(p)
        \/ CliRecover \/ Expire
        \/ \E v \in Releases : Tamper(v)

Spec == Init /\ [][Next]_vars

(* Instances are scheduled, and somebody closes and starts them again and  *)
(* again.                                                                  *)
Fairness == \A p \in Procs : WF_vars(Start(p)) /\ WF_vars(Command(p)) /\ WF_vars(Close(p))

FairSpec == Spec /\ Fairness

-----------------------------------------------------------------------------
(* Properties.                                                             *)

(* Every variable has its type.                                            *)
TypeOK ==
  /\ state \in Managed \cup {Unmanaged}
  /\ slots \in [Releases -> Manifest \cup {Absent, Corrupt}]
  /\ installed \in Releases
  /\ proc \in [Procs -> Instance]
  /\ lock \in Procs \cup {Nobody}
  /\ applies \in Nat /\ kills \in Nat /\ faults \in Nat

(* Both slots the state names are there, with the manifest it names,       *)
(* whatever was killed between the staging, the state file and the cleanup *)
(* ("Cleanup ... never removes the only recoverable installation",         *)
(* docs/updates.md).                                                       *)
SlotsRecoverable ==
  state.managed => \A s \in {state.active, state.lkg} :
                      slots[s.version] \in {s.manifest, Corrupt}

(* UpdateState::validate: no sequence of calls writes a state that the     *)
(* next call would refuse to read.                                         *)
StateValid ==
  state.managed =>
    /\ IF HealthPending THEN /\ state.active.version # state.lkg.version
                             /\ state.pending.attempts <= MaxAttempts
                        ELSE state.active = state.lkg
    /\ state.active.version <= state.floor /\ state.lkg.version <= state.floor
    /\ state.active.version = state.floor => state.active.manifest = state.manifest

(* A version whose window never comes up is never what an installation     *)
(* falls back to, although instances of other versions run meanwhile, with *)
(* tokens of earlier candidates.                                           *)
FallbackWorks == state.managed => state.lkg.version \notin Broken

(* The anti-rollback floor survives recoveries: it never sinks, and the    *)
(* release at the floor never changes its manifest.                        *)
FloorRises ==
  [][state.managed =>
       /\ state'.managed /\ state'.floor >= state.floor
       /\ state'.floor = state.floor => state'.manifest = state.manifest]_state

(* An update ends: its candidate is confirmed or given up, and the package *)
(* on disk is the one the state names, unless a slot was damaged.          *)
Settled == /\ ~HealthPending /\ installed = state.active.version
Damaged == \E v \in Releases : slots[v] = Corrupt
UpdateSettles == <>[](state.managed => Settled \/ Damaged)

(* "apply imports the authenticated candidate and rollback payload into    *)
(* private, bounded slots" (docs/updates.md): a bundle that dry run calls  *)
(* ready finds its slots free or its own.                                  *)
ReadyIsApplicable ==
  Free /\ ~Damaged =>
    \A b \in Bundles : Ready(b, installed) =>
      \A v \in {b.from, b.to} : CleanedBefore[v] \in {Absent, b.manifest}

=============================================================================
