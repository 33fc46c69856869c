----------------------------- MODULE BatchJournal -----------------------------
(***************************************************************************)
(* Resumable batches (src/src/batch_resume.rs, driven by run_batch of      *)
(* src/src/main.rs): a run plans its items against the journal of the      *)
(* output directory, repairs the journal, processes the items in several   *)
(* threads, and publishes each of them through the gate prepare record,    *)
(* rename of the output, complete record.                                  *)
(*                                                                         *)
(* The process may be killed, or the power be cut, between any two steps   *)
(* and in the middle of a write; appends and renames may fail; somebody    *)
(* else edits inputs and outputs.  A power cut may undo every rename, for  *)
(* no directory is synced, the lines of the journal that are not synced,   *)
(* and the creation of the journal.  What survives of the journal is a     *)
(* prefix.  The lock of the output directory (acquire_batch_lock) leaves   *)
(* one run at a time.                                                      *)
(***************************************************************************)
EXTENDS Naturals, Sequences, FiniteSets, Functions

CONSTANTS Items,
          Versions,    \* contents an input may have
          Recipes,     \* processing options, as their digest
          Variants,    \* outputs one input and one recipe may give
          Runs,        \* how runs may be started: see Run
          MaxRecords,  \* MAX_JOURNAL_RECORDS
          MaxEdits,    \* bound: edits of inputs and outputs by others
          MaxFaults,   \* bound: appends and renames that fail, cancellations
          MaxCrashes   \* bound: kills and power cuts

Run == [recipe : Recipes, force : BOOLEAN, resume : BOOLEAN]

ASSUME RunsAssumption == Runs \subseteq Run
ASSUME LimitAssumption == /\ MaxRecords \in Nat /\ MaxEdits \in Nat
                          /\ MaxFaults \in Nat /\ MaxCrashes \in Nat

VARIABLES
  input,    \* what the path of each input names
  output,   \* what the destination of each item names
  durable,  \* what it would name after a power cut: no directory is synced
  journal,  \* the whole lines of the journal file
  torn,     \* the file ends in a part of a line
  synced,   \* so many of its lines are sure to survive a power cut
  file,     \* the file: none, in its directory, or there on disk as well
  lost,     \* history: records that a power cut took, with a line or the file
  phase,    \* of the session, "idle" when there is none
  run,      \* how it was started
  plan,     \* its expectation and decision for each item
  worker,   \* where the thread of each item is, and the output it staged
  cancelled,  \* CANCELLED
  checked,  \* the items this phase has checked again
  touched,  \* history: the items edited since their own check
  placed,   \* history: what a destination has named, and who put it there
  edits, faults, crashes

fileVars == <<input, output, durable>>
journalVars == <<journal, torn, synced, file, lost>>
checkVars == <<checked, touched>>
sessionVars == <<phase, run, plan, worker, cancelled, checkVars>>
counters == <<edits, faults, crashes>>
vars == <<fileVars, journalVars, sessionVars, placed, counters>>

-----------------------------------------------------------------------------
(* A record id digests the item, its input, the recipe and the output.     *)

Product == [kind : {"product"}, input : Versions, recipe : Recipes, variant : Variants]
Missing == [kind |-> "missing"]
Foreign == [kind |-> "foreign"]
Content == Product \cup {Missing, Foreign}

Record == [item : Items, output : Product]
Line == [kind : {"prepare", "complete", "garbage"}, id : Record]

Prepare(id) == [kind |-> "prepare", id |-> id]
Complete(id) == [kind |-> "complete", id |-> id]

(* JournalIndex: what the lines say.  The session reads the file once and  *)
(* then follows its own appends, so that this is also its index in memory. *)
Prepared == {l.id : l \in {m \in Range(journal) : m.kind = "prepare"}}
Completed == {l.id : l \in {m \in Range(journal) : m.kind = "complete"}}

(* parse_journal: no malformed line and no completion without its prepare; *)
(* a last line without its newline is set aside.                           *)
Readable ==
  \A n \in 1..Len(journal) :
    /\ journal[n].kind # "garbage"
    /\ journal[n].kind = "complete" =>
         \E m \in 1..(n - 1) : journal[m] = Prepare(journal[n].id)

(* write_all to a file opened for append: behind part of a line, the new   *)
(* one completes a line that cannot be parsed.                             *)
Written(line) ==
  Append(journal, IF torn THEN [line EXCEPT !.kind = "garbage"] ELSE line)

(* open_journal_if_needed: the first record creates the file.              *)
Open == file' = IF file = "none" THEN "cached" ELSE file

(* append_bytes: the sync is one of the whole file.                        *)
Append1(line) == /\ journal' = Written(line) /\ torn' = FALSE
                 /\ synced' = Len(journal')
                 /\ Open /\ UNCHANGED lost

(* A write that fails, or that the end of the process interrupts, leaves   *)
(* nothing, a part, or the whole of its line, which is not synced; nor     *)
(* does a later run sync what it finds.                                    *)
Residue(line) == \/ UNCHANGED journalVars
                 \/ /\ \/ UNCHANGED <<journal, torn>>
                       \/ torn' = TRUE /\ UNCHANGED journal
                       \/ journal' = Written(line) /\ torn' = FALSE
                    /\ Open /\ UNCHANGED <<synced, lost>>

HasRoom(extra) == Len(journal) + extra <= MaxRecords

-----------------------------------------------------------------------------
(* Expectations, decisions and threads.                                    *)

Decision == {"open", "skip", "create", "replace"}
Plan == [input : Versions, decision : Decision, output : Content]
Step == {"todo", "staged", "queued", "gate", "prepared", "committed"}
Outcome == {"done", "failed", "cancelled"}
Worker == [at : Step \cup Outcome, stage : Content]

Idle == [at |-> "todo", stage |-> Missing]
NoPlan == [input |-> CHOOSE v \in Versions : TRUE, decision |-> "open", output |-> Missing]
ToDo(i) == plan[i].decision \in {"create", "replace"}
Current(i) == input[i] = plan[i].input  \* verify_sources
(* Mutant: the record names the output that was found when planning.       *)
RecordOfPlanned(i) == [item |-> i, output |-> plan[i].output]

RecordOf(i) == [item |-> i, output |-> worker[i].stage]

(* record_matches_expectation, and the output is byte for byte that of the *)
(* record: the newest such record justifies a skip.                        *)
Matches(id, i, out) == /\ id.item = i
                       /\ id.output.input = plan[i].input
                       /\ id.output.recipe = run.recipe
                       /\ id.output = out
Exact(i, out) == \E id \in Prepared : Matches(id, i, out)

Enter(i, at) == worker' = [worker EXCEPT ![i].at = at]
Fail(i) == Enter(i, "failed")

(* The end of a process; its locals are forgotten.                         *)
Quit == /\ phase' = "idle"
        /\ plan' = [i \in Items |-> NoPlan]
        /\ worker' = [i \in Items |-> Idle]
        /\ cancelled' = FALSE /\ checked' = {} /\ touched' = {}
        /\ UNCHANGED run

Fault == faults < MaxFaults /\ faults' = faults + 1 /\ UNCHANGED <<edits, crashes>>

-----------------------------------------------------------------------------
(* Planning.                                                               *)

(* The preflight, BatchSession::acquire, and the expectations of the items.*)
(* A journal that cannot be parsed ends the run here.                      *)
Acquire(r) ==
  /\ phase = "idle"
  /\ r.resume => Readable
  /\ phase' = "planning"
  /\ run' = r
  /\ plan' = [i \in Items |-> [input |-> input[i], decision |-> "open", output |-> Missing]]
  /\ worker' = [i \in Items |-> Idle]
  /\ cancelled' = FALSE /\ checked' = {} /\ touched' = {}
  /\ UNCHANGED <<fileVars, journalVars, placed, counters>>

Decide(i, decision) ==
  /\ plan' = [plan EXCEPT ![i].decision = decision, ![i].output = output[i]]
  /\ UNCHANGED <<phase, run, worker, cancelled, checkVars>>

(* BatchSession::plan: the output of an item that is neither missing nor   *)
(* exact is only replaced by force.                                        *)
PlanItem(i) ==
  /\ phase = "planning" /\ plan[i].decision = "open"
  /\ IF ~Current(i) THEN Quit
     ELSE IF output[i] = Missing
       THEN Decide(i, IF run.force THEN "replace" ELSE "create")
     ELSE IF run.resume /\ Exact(i, output[i]) THEN Decide(i, "skip")
     ELSE IF run.force THEN Decide(i, "replace")
     ELSE Quit
  /\ UNCHANGED <<fileVars, journalVars, placed, counters>>

Decided == \A i \in Items : plan[i].decision # "open"
Skipped == {i \in Items : plan[i].decision = "skip"}

(* run_batch verifies the sources of every item again, one by one.         *)
Recheck(i) ==
  /\ phase = "planning" /\ Decided /\ i \notin checked
  /\ IF Current(i)
       THEN checked' = checked \cup {i} /\ UNCHANGED <<phase, run, plan, worker, cancelled, touched>>
       ELSE Quit
  /\ UNCHANGED <<fileVars, journalVars, placed, counters>>

Planned == phase = "planning" /\ Decided /\ checked = Items

(* A cancellation seen before the activation ends the run with no change.  *)
Leave ==
  /\ Planned /\ cancelled
  /\ Quit
  /\ UNCHANGED <<fileVars, journalVars, placed, counters>>

-----------------------------------------------------------------------------
(* BatchSession::activate.  It verifies every skip again, one by one, makes*)
(* sure of the room it needs, cuts the torn tail off, and completes the    *)
(* records whose output is in place.  Without a journal there is nothing   *)
(* to do.                                                                  *)

Activate ==
  /\ Planned /\ ~cancelled
  /\ phase' = IF run.resume THEN "verify" ELSE "active"
  /\ checked' = {} /\ touched' = {}
  /\ UNCHANGED <<fileVars, journalVars, run, plan, worker, cancelled, placed, counters>>

(* Mutant: a skipped output only has to be there still.                    *)
StillThere(i) == output[i] # Missing

StillExact(i) == output[i] = plan[i].output

Verify(i) ==
  /\ phase = "verify" /\ i \in Skipped \ checked
  /\ IF Current(i) /\ StillExact(i)
       THEN checked' = checked \cup {i} /\ UNCHANGED <<phase, run, plan, worker, cancelled, touched>>
       ELSE Quit
  /\ UNCHANGED <<fileVars, journalVars, placed, counters>>

Recoveries ==
  {id \in Prepared \ Completed : \E i \in Skipped : Matches(id, i, plan[i].output)}

Verified ==
  /\ phase = "verify" /\ checked = Skipped
  /\ IF HasRoom(Cardinality(Recoveries))
       THEN phase' = "repair" /\ UNCHANGED <<run, plan, worker, cancelled, checkVars>>
       ELSE Quit
  /\ UNCHANGED <<fileVars, journalVars, placed, counters>>

(* Mutant: the next record is appended behind the torn one.                *)
RepairNothing ==
  /\ phase = "repair"
  /\ phase' = "recover"
  /\ UNCHANGED <<fileVars, journalVars, run, plan, worker, cancelled, checkVars, placed,
                 counters>>

(* The file is cut and synced when it is torn, and left alone otherwise.   *)
Repair ==
  /\ phase = "repair"
  /\ phase' = "recover"
  /\ torn' = FALSE
  /\ synced' = IF torn THEN Len(journal) ELSE synced
  /\ UNCHANGED <<fileVars, journal, file, lost, run, plan, worker, cancelled, checkVars,
                 placed, counters>>

(* Cut, but not synced.                                                    *)
HalfRepaired == /\ phase = "repair" /\ torn /\ torn' = FALSE
                /\ UNCHANGED <<journal, synced, file, lost>>

Recover ==
  /\ phase = "recover"
  /\ IF Recoveries = {}
       THEN phase' = "active" /\ UNCHANGED journalVars
       ELSE /\ \E id \in Recoveries : Append1(Complete(id))
            /\ UNCHANGED phase
  /\ UNCHANGED <<fileVars, run, plan, worker, cancelled, checkVars, placed, counters>>

RecoverFails ==
  /\ \/ phase = "repair" /\ torn /\ UNCHANGED journalVars
     \/ HalfRepaired
     \/ phase = "recover" /\ \E id \in Recoveries : Residue(Complete(id))
  /\ Quit /\ Fault
  /\ UNCHANGED <<fileVars, placed>>

-----------------------------------------------------------------------------
(* Processing and BatchSession::publish.  The fence is held from "queued"  *)
(* on, the mutex of the session from "gate" on.                            *)

Holder(i) == worker[i].at \in {"gate", "prepared", "committed"}
GateFree == \A i \in Items : ~Holder(i)
FenceFree == GateFree /\ \A i \in Items : worker[i].at # "queued"
Working(i) == phase \in {"active", "poisoned"} /\ ToDo(i)

gateFrame == <<fileVars, run, plan, cancelled, checkVars, placed>>

(* process_one_to_staged_output: checks the input against the expectation. *)
Process(i) ==
  /\ Working(i) /\ worker[i].at = "todo"
  /\ IF cancelled THEN Enter(i, "cancelled")
     ELSE IF Current(i)
       THEN \E v \in Variants : worker' = [worker EXCEPT ![i] =
              [at |-> "staged",
               stage |-> [kind |-> "product", input |-> plan[i].input,
                          recipe |-> run.recipe, variant |-> v]]]
     ELSE Fail(i)
  /\ UNCHANGED <<gateFrame, phase, journalVars, counters>>

(* The fence of run_batch, held until publish returns, and publish up to   *)
(* the mutex.                                                              *)
Queue(i) ==
  /\ Working(i) /\ worker[i].at = "staged" /\ FenceFree
  /\ Enter(i, IF cancelled THEN "cancelled"
              ELSE IF phase = "active" /\ Current(i) THEN "queued" ELSE "failed")
  /\ UNCHANGED <<gateFrame, phase, journalVars, counters>>

(* Mutant: room is kept for the record that comes next.                    *)
NextRecord(i) == IF RecordOf(i) \in Prepared /\ RecordOf(i) \in Completed THEN 0 ELSE 1

(* Records the publication will add: both must fit before the first.       *)
NewRecords(i) == (IF RecordOf(i) \in Prepared THEN 0 ELSE 1)
                 + (IF RecordOf(i) \in Completed THEN 0 ELSE 1)

EnterGate(i) ==
  /\ Working(i) /\ worker[i].at = "queued" /\ GateFree
  /\ IF phase = "active" /\ Current(i)
       THEN IF run.resume /\ ~HasRoom(NewRecords(i))
              THEN phase' = "poisoned" /\ Fail(i)
              ELSE UNCHANGED phase /\ Enter(i, "gate")
       ELSE UNCHANGED phase /\ Fail(i)
  /\ UNCHANGED <<gateFrame, journalVars, counters>>

(* Mutant: any record of the item will do.                                 *)
NeedsFirstPrepare(i) == run.resume /\ \A id \in Prepared : id.item # i

NeedsPrepare(i) == run.resume /\ RecordOf(i) \notin Prepared
NeedsComplete(i) == run.resume /\ RecordOf(i) \notin Completed

AppendPrepare(i) ==
  /\ worker[i].at = "gate" /\ Working(i)
  /\ IF NeedsPrepare(i) THEN Append1(Prepare(RecordOf(i))) ELSE UNCHANGED journalVars
  /\ Enter(i, "prepared")
  /\ UNCHANGED <<gateFrame, phase, counters>>

(* Mutant: the other threads go on after an append has failed.             *)
StaysActive == "active"

AfterFailedAppend == "poisoned"

AppendPrepareFails(i) ==
  /\ worker[i].at = "gate" /\ Working(i) /\ NeedsPrepare(i)
  /\ Residue(Prepare(RecordOf(i)))
  /\ Fail(i) /\ Fault
  /\ phase' = AfterFailedAppend
  /\ UNCHANGED gateFrame

(* Mutant: the stage is always renamed over the destination.               *)
RenameAlways(i) == TRUE

(* AtomicOutput::commit of the synced stage, by rename or by a link that   *)
(* does not replace.  A failure leaves the prepare record unmatched.       *)
MayCommit(i) == plan[i].decision = "replace" \/ output[i] = Missing

Synced(id) == \E n \in 1..synced : journal[n] = Prepare(id)

Commit(i) ==
  /\ worker[i].at = "prepared" /\ Working(i)
  /\ IF MayCommit(i)
       THEN /\ output' = [output EXCEPT ![i] = worker[i].stage]
            /\ placed' = placed \cup {[id |-> RecordOf(i),
                                      by |-> IF ~run.resume THEN "plain"
                                             ELSE IF Synced(RecordOf(i)) THEN "synced"
                                             ELSE "unsynced"]}
            /\ Enter(i, "committed")
       ELSE Fail(i) /\ UNCHANGED <<output, placed>>
  /\ UNCHANGED <<input, durable, run, plan, cancelled, checkVars, phase, journalVars, counters>>

(* Mutant: an error of the rename is dropped.                              *)
CommitFailsUnseen(i) ==
  /\ worker[i].at = "prepared" /\ Working(i)
  /\ Enter(i, "committed") /\ Fault
  /\ UNCHANGED <<gateFrame, phase, journalVars>>

CommitFails(i) ==
  /\ worker[i].at = "prepared" /\ Working(i)
  /\ Fail(i) /\ Fault
  /\ UNCHANGED <<gateFrame, phase, journalVars>>

AppendComplete(i) ==
  /\ worker[i].at = "committed" /\ Working(i)
  /\ IF NeedsComplete(i) THEN Append1(Complete(RecordOf(i))) ELSE UNCHANGED journalVars
  /\ Enter(i, "done")
  /\ UNCHANGED <<gateFrame, phase, counters>>

(* Mutant: the output is in place, so the item counts as done.             *)
AppendCompleteFailsDone(i) ==
  /\ worker[i].at = "committed" /\ Working(i) /\ NeedsComplete(i)
  /\ Residue(Complete(RecordOf(i)))
  /\ Enter(i, "done") /\ Fault
  /\ phase' = AfterFailedAppend
  /\ UNCHANGED gateFrame

AppendCompleteFails(i) ==
  /\ worker[i].at = "committed" /\ Working(i) /\ NeedsComplete(i)
  /\ Residue(Complete(RecordOf(i)))
  /\ Fail(i) /\ Fault
  /\ phase' = AfterFailedAppend
  /\ UNCHANGED gateFrame

(* All threads are through: the run ends and drops the session.            *)
Finish ==
  /\ phase \in {"active", "poisoned"}
  /\ \A i \in Items : ToDo(i) => worker[i].at \in Outcome
  /\ Quit
  /\ UNCHANGED <<fileVars, journalVars, placed, counters>>

-----------------------------------------------------------------------------
(* The world around a run.                                                 *)

(* Before the handler is installed, an interrupt is a Kill.                *)
Cancel ==
  /\ phase # "idle" /\ ~cancelled
  /\ phase = "planning" => Planned
  /\ cancelled' = TRUE
  /\ Fault
  /\ UNCHANGED <<fileVars, journalVars, phase, run, plan, worker, checkVars, placed>>

(* The write that is going on when the process ends.                       *)
Writing == {Prepare(RecordOf(i)) : i \in {k \in Items :
                 Working(k) /\ worker[k].at = "gate" /\ NeedsPrepare(k)}}
           \cup {Complete(RecordOf(i)) : i \in {k \in Items :
                 Working(k) /\ worker[k].at = "committed" /\ NeedsComplete(k)}}
           \cup {Complete(id) : id \in IF phase = "recover" THEN Recoveries ELSE {}}

Interrupt ==
  /\ phase # "idle" /\ crashes < MaxCrashes
  /\ crashes' = crashes + 1
  /\ Quit
  /\ UNCHANGED <<input, placed, edits, faults>>

Kill ==
  /\ Interrupt
  /\ UNCHANGED journalVars \/ HalfRepaired \/ \E line \in Writing : Residue(line)
  /\ UNCHANGED <<output, durable>>

(* What a power cut leaves of the journal, the write that was going on     *)
(* included: the lines that are synced and some of those that are not.     *)
KeepsLines ==
  \E lines \in {journal} \cup {Written(l) : l \in Writing} :
    \E n \in synced..Len(lines) :
      /\ journal' = SubSeq(lines, 1, n)
      /\ torn' \in IF n < Len(lines) \/ torn THEN BOOLEAN ELSE {FALSE}
      /\ synced' = n
      /\ file' = IF file = "none" /\ lines = journal THEN "none" ELSE "disk"
      /\ lost' = lost \cup {[id |-> id, with |-> "line"] : id \in Prepared \ Prepared'}

(* Or nothing, when the journal's own directory entry is not on disk.      *)
LosesFile ==
  /\ file = "cached"
  /\ journal' = <<>> /\ torn' = FALSE /\ synced' = 0 /\ file' = "none"
  /\ lost' = lost \cup {[id |-> id, with |-> "file"] : id \in Prepared}

(* A power cut may undo renames: their directories were never synced.      *)
PowerCut ==
  /\ Interrupt
  /\ output' \in {o \in [Items -> Range(output) \cup Range(durable)] :
                    \A i \in Items : o[i] \in {output[i], durable[i]}}
  /\ durable' = output'
  /\ KeepsLines \/ LosesFile

Edit(i) ==
  /\ edits < MaxEdits /\ edits' = edits + 1
  /\ touched' = IF phase = "verify" THEN touched \cup ({i} \cap checked) ELSE touched
  /\ UNCHANGED <<journalVars, phase, run, plan, worker, cancelled, checked, faults, crashes>>

EditInput(i) ==
  /\ Edit(i)
  /\ \E v \in Versions \ {input[i]} : input' = [input EXCEPT ![i] = v]
  /\ UNCHANGED <<output, durable, placed>>

(* Somebody removes or writes an output, or puts back one of before.       *)
EditOutput(i) ==
  /\ Edit(i)
  /\ \E c \in {Missing, Foreign} \cup {id.output : id \in {d \in Prepared : d.item = i}} :
       /\ output' = [output EXCEPT ![i] = c]
       /\ durable' = [durable EXCEPT ![i] = c]
       /\ placed' = IF c.kind = "product"
                      THEN placed \cup {[id |-> [item |-> i, output |-> c], by |-> "other"]}
                      ELSE placed
  /\ UNCHANGED input

-----------------------------------------------------------------------------
Init ==
  /\ input \in [Items -> Versions]
  /\ output = [i \in Items |-> Missing]
  /\ durable = output
  /\ journal = <<>> /\ torn = FALSE /\ synced = 0 /\ file = "none" /\ lost = {}
  /\ phase = "idle"
  /\ run \in Runs
  /\ plan = [i \in Items |-> NoPlan]
  /\ worker = [i \in Items |-> Idle]
  /\ cancelled = FALSE /\ checked = {} /\ touched = {}
  /\ placed = {}
  /\ edits = 0 /\ faults = 0 /\ crashes = 0

SessionStep == Activate \/ Leave \/ Verified \/ Repair \/ Recover \/ Finish
               \/ \E i \in Items : PlanItem(i) \/ Recheck(i) \/ Verify(i)

WorkerStep(i) == \/ Process(i) \/ Queue(i) \/ EnterGate(i)
                 \/ AppendPrepare(i) \/ Commit(i) \/ AppendComplete(i)

Failure == \/ RecoverFails \/ Cancel \/ Kill \/ PowerCut
           \/ \E i \in Items : AppendPrepareFails(i) \/ CommitFails(i)
                               \/ AppendCompleteFails(i)

Others == \E i \in Items : EditInput(i) \/ EditOutput(i)

Next == \/ \E r \in Runs : Acquire(r)
        \/ SessionStep
        \/ \E i \in Items : WorkerStep(i)
        \/ Failure
        \/ Others

Spec == Init /\ [][Next]_vars

(* Threads are scheduled, and a batch that has not finished is started     *)
(* again; edits, failures and crashes are never assumed.                   *)
Fairness == /\ WF_vars(\E r \in Runs : Acquire(r))
            /\ WF_vars(SessionStep)
            /\ \A i \in Items : WF_vars(WorkerStep(i))

FairSpec == Spec /\ Fairness

-----------------------------------------------------------------------------
(* Properties.                                                             *)

(* Every variable has its type.                                            *)
TypeOK ==
  /\ input \in [Items -> Versions]
  /\ output \in [Items -> Content] /\ durable \in [Items -> Content]
  /\ journal \in Seq(Line) /\ torn \in BOOLEAN
  /\ synced \in 0..Len(journal) /\ file \in {"none", "cached", "disk"}
  /\ lost \subseteq [id : Record, with : {"line", "file"}]
  /\ phase \in {"idle", "planning", "verify", "repair", "recover", "active", "poisoned"}
  /\ run \in Run
  /\ plan \in [Items -> Plan]
  /\ worker \in [Items -> Worker]
  /\ cancelled \in BOOLEAN /\ checked \subseteq Items /\ touched \subseteq Items
  /\ placed \subseteq [id : Record, by : {"synced", "unsynced", "plain", "other"}]
  /\ edits \in Nat /\ faults \in Nat /\ crashes \in Nat

(* Whatever write was cut short, and whatever failed before it, the next   *)
(* run can read the journal: parts of a line only ever stand at its end,   *)
(* and no completion stands without its record.                            *)
JournalReadable == Readable

(* An output that a resumable run put in place is not taken for somebody   *)
(* else's: its record stays in the journal, over any kills, failed writes  *)
(* and power cuts.  Two ways to lose it are left by the code, both by a    *)
(* power cut: the file goes whose directory entry was never synced, or the *)
(* record's own line, which a run that was killed or failed had written    *)
(* and not synced, and which a later run took for prepared.                *)
PublishedIsRecorded ==
  \A p \in placed :
    /\ p.by = "synced" => p.id \in Prepared \/ [id |-> p.id, with |-> "file"] \in lost
    /\ p.by = "unsynced" => p.id \in Prepared \/ \E l \in lost : l.id = p.id

(* A record is completed only when its output was seen in place: no crash, *)
(* failed rename, recovery or repeated record completes it before.         *)
CompletedWasPlaced == \A id \in Completed : \E p \in placed : p.id = id

(* The run reports an item as completed only when its record is complete   *)
(* on disk.                                                                *)
DoneIsRecorded ==
  \A i \in Items : run.resume /\ worker[i].at = "done" => RecordOf(i) \in Completed

(* The limit on records ends a publication before its output is placed:    *)
(* the journal never runs full between an output and its completion.       *)
RoomToComplete ==
  /\ Len(journal) <= MaxRecords
  /\ \A i \in Items : worker[i].at \in {"prepared", "committed"} /\ NeedsComplete(i)
                        => HasRoom(1)

(* When a run goes on to work, what it skips is the output of the very     *)
(* input and recipe it was asked for, although inputs, outputs and recipes *)
(* changed between runs and since the planning.  Only an edit behind the   *)
(* item's own last check, while others are checked, is not noticed.        *)
SkipsAreExact ==
  [][phase' \in {"repair", "active"} /\ phase \in {"planning", "verify"} =>
       \A i \in Skipped \ touched :
         /\ output[i].kind = "product"
         /\ output[i].input = input[i]
         /\ output[i].recipe = run.recipe]_vars

(* Without force a run never replaces a file, also one that appeared after *)
(* its planning.                                                           *)
NothingReplaced ==
  [][\A i \in Items : phase' # "idle" /\ ~run.force /\ edits' = edits
       /\ output'[i] # output[i] => output[i] = Missing]_vars

(* A batch that nobody disturbs any more finishes, wherever it was         *)
(* interrupted: started again without force it never stops at an output    *)
(* of its own, unless a power cut took the record of that output.          *)
Finished == \A i \in Items : [item |-> i, output |-> output[i]] \in Completed
Stranded == \E i \in Items : LET id == [item |-> i, output |-> output[i]] IN
              id \notin Prepared /\ \E l \in lost : l.id = id
BatchFinishes == <>[](Finished \/ Stranded)

=============================================================================
