----------------------------- MODULE WatchFolder -----------------------------
(***************************************************************************)
(* Watch folders (src/src/watch.rs) with the processor that the command    *)
(* line gives them (process_watch_job of src/src/main.rs).  A cycle scans  *)
(* the inbox, turns settled files into jobs, and attempts each due job:    *)
(* an output with its receipt, a retry, or the quarantine of the input.    *)
(* The state file is written before and after every attempt.               *)
(*                                                                         *)
(* The watcher may be killed between any two steps, writes of the state    *)
(* file and attempts may fail, and somebody else drops, changes and takes  *)
(* away inputs and outputs.  The lock of the state file leaves one watcher *)
(* at a time; settle_millis is not zero.                                   *)
(***************************************************************************)
EXTENDS Naturals

CONSTANTS Paths,
          Contents,     \* of inputs, not 0
          Bad,          \* contents that cannot be processed
          MaxAttempts,  \* max_attempts
          MaxEdits, MaxFaults, MaxKills  \* bounds

ASSUME ContentsAssumption == Contents \subseteq Nat \ {0} /\ Bad \subseteq Contents
ASSUME LimitAssumption == /\ MaxAttempts \in Nat \ {0} /\ MaxEdits \in Nat
                          /\ MaxFaults \in Nat /\ MaxKills \in Nat
ASSUME InputsAssumption == Paths # {} /\ Contents # {}

VARIABLES
  inbox,    \* the input at each path, with its modification stamp
  out, receipt,   \* what the outputs and the receipts were made of
  quar, reason,   \* quarantined copies, and the explanations beside them
  mem,      \* the state of the watcher
  saved,    \* the state file
  step,     \* where the cycle is
  runs,     \* history: how often the input of a job was processed, and deferred
  clock,    \* time, as far as explanations tell it apart
  edits, faults, kills

files == <<inbox, out, receipt, quar, reason>>
counters == <<edits, faults, kills>>
vars == <<files, mem, saved, step, runs, clock, counters>>

-----------------------------------------------------------------------------
(* The state: an observation of each path, and the jobs.  A job is named   *)
(* by its path and content; output, receipt, copy and explanation are      *)
(* named after the path, or, where that is taken, also after the content.  *)

None == 0
File == [content : Contents \cup {None}, stamp : Nat]
NoFile == [content |-> None, stamp |-> 0]

Id == [path : Paths, content : Contents]
Place == [path : Paths, tag : Contents \cup {None}]
Plain(id) == [path |-> id.path, tag |-> None]
Digested(id) == [path |-> id.path, tag |-> id.content]

Observation == [content : Contents \cup {None}, stamp : Nat, ripe : BOOLEAN]
NoObservation == [content |-> None, stamp |-> 0, ripe |-> FALSE]

Finished == {"completed", "quarantined", "superseded"}
Status == {"none", "ready", "processing", "retry", "quarantinePending"} \cup Finished
Job == [status : Status, attempts : Nat, due : BOOLEAN, place : Place, evidence : Nat]
NoJob(id) == [status |-> "none", attempts |-> 0, due |-> FALSE, place |-> Plain(id),
              evidence |-> None]
State == [obs : [Paths -> Observation], jobs : [Id -> Job]]

(* Where a cycle is.  History: touched are the files that were edited since*)
(* the last check that this step made of them.                             *)
At == {"off", "rest", "scan", "due", "process", "render", "publish", "pair", "verify",
       "output", "receipt", "record",
       "evidence", "copy", "explain", "check", "remove", "done"}
Step == [at : At, todo : SUBSET Paths, errors : BOOLEAN, due : SUBSET Id,
         id : Id, source : BOOLEAN, touched : SUBSET {"input", "output", "receipt"}]
Runs == [made : Nat, spared : Nat]
NoRuns == [made |-> 0, spared |-> 0]

job == mem.jobs[step.id]
With(id, r) == [mem EXCEPT !.jobs[id] = r]
GoTo(at) == step' = [step EXCEPT !.at = at]
Locals == [step EXCEPT !.todo = {}, !.errors = FALSE, !.due = {}, !.source = FALSE,
                       !.touched = {}]
Rest == [Locals EXCEPT !.at = "rest"]
NextDue == [step EXCEPT !.at = "due", !.source = FALSE, !.touched = {}]

Fault == faults < MaxFaults /\ faults' = faults + 1 /\ UNCHANGED <<edits, kills>>

(* save_state, and on with the cycle.  A failure ends it, and the next one *)
(* reads the file again (reload_state_after_failed_save).                  *)
Save(m, next) ==
  \/ mem' = m /\ saved' = m /\ step' = next /\ UNCHANGED counters
  \/ mem' = saved /\ step' = Rest /\ UNCHANGED saved /\ Fault

-----------------------------------------------------------------------------
(* Opening, and the start of a cycle.                                      *)

(* Mutant: what was interrupted stays so.                                  *)
ResumedNot(m) == m

Resumed(m) ==
  [m EXCEPT !.jobs = [id \in Id |->
     IF m.jobs[id].status = "processing"
       THEN [m.jobs[id] EXCEPT !.status = "retry", !.due = TRUE]
       ELSE m.jobs[id]]]

Open ==
  /\ step.at = "off"
  /\ \/ /\ mem' = Resumed(saved) /\ saved' = mem' /\ step' = Rest
        /\ UNCHANGED counters
     \/ /\ Resumed(saved) # saved /\ Fault
        /\ UNCHANGED <<mem, saved, step>>
  /\ UNCHANGED <<files, runs, clock>>

Scanning == [Rest EXCEPT !.at = "scan", !.todo = Paths]

BeginCycle ==
  /\ step.at = "rest"
  /\ IF Resumed(mem) = mem
       THEN step' = Scanning /\ UNCHANGED <<mem, saved, counters>>
       ELSE Save(Resumed(mem), Scanning)
  /\ UNCHANGED <<files, runs, clock>>

-----------------------------------------------------------------------------
(* observe: one path of the scan.                                          *)

Observed(p) == [path |-> p, content |-> mem.obs[p].content]
Fresh(p) == [content |-> inbox[p].content, stamp |-> inbox[p].stamp, ripe |-> FALSE]

(* allocate_destinations.                                                  *)
Occupied(place) == \/ \E id \in Id : /\ mem.jobs[id].status # "none"
                                     /\ mem.jobs[id].place = place
                   \/ out[place] # None \/ receipt[place] # None

Free(id) == {place \in {Plain(id), Digested(id)} : ~Occupied(place)}
Destination(id) == IF Plain(id) \in Free(id) THEN Plain(id) ELSE Digested(id)

(* What a scan makes of a completed job.                                   *)
Reviewed(r) ==
  CASE out[r.place] # None /\ receipt[r.place] # None -> r
    [] out[r.place] = None /\ receipt[r.place] = None ->
         [r EXCEPT !.status = "ready", !.attempts = 0]
    [] OTHER -> [r EXCEPT !.status = "quarantinePending"]

Scanned(p) == step' = [step EXCEPT !.todo = @ \ {p}]
Reobserve(p) == mem' = [mem EXCEPT !.obs[p] = Fresh(p)] /\ Scanned(p)

Observe(p) ==
  LET id == Observed(p)
      r == mem.jobs[id] IN
  /\ step.at = "scan" /\ p \in step.todo /\ inbox[p] # NoFile
  /\ IF mem.obs[p].content = None \/ mem.obs[p].stamp # inbox[p].stamp
       THEN Reobserve(p) /\ UNCHANGED runs
     ELSE IF r.status = "completed"
       THEN /\ mem' = With(id, Reviewed(r)) /\ Scanned(p)
            /\ runs' = IF Reviewed(r).status = "ready" THEN [runs EXCEPT ![id] = NoRuns] ELSE runs
     ELSE IF r.status \notin {"none", "superseded"} \/ ~mem.obs[p].ripe
       THEN Scanned(p) /\ UNCHANGED <<mem, runs>>
     ELSE IF inbox[p].content # mem.obs[p].content
       THEN Reobserve(p) /\ UNCHANGED runs
     ELSE IF r.status = "superseded"
       THEN Scanned(p) /\ UNCHANGED <<mem, runs>>
     ELSE IF Free(id) = {}
       THEN step' = Rest /\ UNCHANGED <<mem, runs>>
     ELSE /\ mem' = With(id, [r EXCEPT !.status = "ready", !.place = Destination(id)])
          /\ runs' = [runs EXCEPT ![id] = NoRuns]
          /\ Scanned(p)
  /\ UNCHANGED <<files, saved, clock, counters>>

(* A transient error, after which unseen paths keep their observations.    *)
ObserveFails(p) ==
  /\ step.at = "scan" /\ p \in step.todo /\ inbox[p] # NoFile
  /\ step' = [step EXCEPT !.todo = @ \ {p}, !.errors = TRUE]
  /\ Fault
  /\ UNCHANGED <<files, mem, saved, runs, clock>>

-----------------------------------------------------------------------------
(* The end of the scan.                                                    *)

Observations == [p \in Paths |-> IF inbox[p] = NoFile /\ ~step.errors
                                   THEN NoObservation ELSE mem.obs[p]]

(* Jobs that are over are kept as long as their content is there.          *)
Pruned == [obs |-> Observations,
           jobs |-> [id \in Id |->
             IF /\ mem.jobs[id].status \in Finished
                /\ Observations[id.path].content # id.content
               THEN NoJob(id) ELSE mem.jobs[id]]]

IsDue(r) == \/ r.status \in {"ready", "quarantinePending"}
            \/ r.status = "retry" /\ r.due

EndScan ==
  /\ step.at = "scan" /\ \A p \in step.todo : inbox[p] = NoFile
  /\ Save(Pruned, [Locals EXCEPT !.at = "due",
                   !.due = {id \in Id : IsDue(Pruned.jobs[id])}])
  /\ UNCHANGED <<files, runs, clock>>

EndCycle ==
  /\ step.at = "due" /\ step.due = {}
  /\ step' = Rest
  /\ UNCHANGED <<files, mem, saved, runs, clock, counters>>

-----------------------------------------------------------------------------
(* An attempt.                                                             *)

Quarantining(id) == [mem.jobs[id] EXCEPT !.status = "quarantinePending"]
Superseded(id) == With(id, [mem.jobs[id] EXCEPT !.status = "superseded"])

(* Mutant: the attempt is counted when it ends.                            *)
StartedUncounted(r) == [r EXCEPT !.status = "processing"]

Started(r) == [r EXCEPT !.status = "processing", !.attempts = @ + 1]

Take(id) ==
  LET r == mem.jobs[id]
      at(where) == [step EXCEPT !.at = where, !.id = id, !.due = @ \ {id}] IN
  /\ step.at = "due" /\ id \in step.due
  /\ IF r.status = "quarantinePending"
       THEN step' = at("evidence") /\ UNCHANGED <<mem, saved, counters>>
     ELSE IF r.attempts >= MaxAttempts
       THEN Save(With(id, Quarantining(id)), at("evidence"))
     ELSE IF inbox[id.path].content = id.content
       THEN Save(With(id, Started(r)), at("process"))
     ELSE Save(Superseded(id), at("due"))
  /\ UNCHANGED <<files, runs, clock>>

(* An input that cannot be read now counts as one that has changed.        *)
TakeUnreadable(id) ==
  /\ step.at = "due" /\ id \in step.due /\ mem.jobs[id].status \in {"ready", "retry"}
  /\ mem.jobs[id].attempts < MaxAttempts
  /\ mem' = Superseded(id) /\ saved' = mem'
  /\ step' = [step EXCEPT !.due = @ \ {id}]
  /\ Fault
  /\ UNCHANGED <<files, runs, clock>>

(* The outcomes of the processor.                                          *)
Permanent == Save(With(step.id, Quarantining(step.id)), [step EXCEPT !.at = "evidence"])
Waiting == [job EXCEPT !.status = "retry", !.due = FALSE]
Retryable == IF job.attempts >= MaxAttempts THEN Permanent
             ELSE Save(With(step.id, Waiting), NextDue)

Has(which) == which[job.place] # None

(* recover_watch_job: both are there, and the receipt is for this input.   *)
Recovers == Has(out) /\ Has(receipt) /\ receipt[job.place] = step.id.content

Process ==
  /\ step.at = "process"
  /\ IF Recovers THEN GoTo("output") /\ UNCHANGED <<mem, saved, counters>>
     ELSE IF Has(out) \/ Has(receipt) THEN Permanent
     ELSE GoTo("render") /\ UNCHANGED <<mem, saved, counters>>
  /\ UNCHANGED <<files, runs, clock>>

(* The key or a model is not there: the attempt does not count.            *)
ProcessDefers ==
  /\ step.at = "process"
  /\ mem' = With(step.id, [Waiting EXCEPT !.attempts = @ - 1])
  /\ saved' = mem' /\ step' = NextDue
  /\ Fault
  /\ UNCHANGED <<files, runs, clock>>

(* run_one_with_output_format, which checks the input against the job.     *)
Render ==
  /\ step.at = "render"
  /\ runs' = [runs EXCEPT ![step.id].made = @ + 1]
  /\ IF inbox[step.id.path].content # step.id.content THEN Retryable
     ELSE IF step.id.content \in Bad THEN Permanent
     ELSE GoTo("publish") /\ UNCHANGED <<mem, saved, counters>>
  /\ UNCHANGED <<files, clock>>

RunFails ==
  /\ step.at \in {"render", "pair"}
  /\ runs' = [runs EXCEPT ![step.id].made = IF step.at = "render" THEN @ + 1 ELSE @]
  /\ LET over == job.attempts >= MaxAttempts IN
       /\ mem' = With(step.id, IF over THEN Quarantining(step.id) ELSE Waiting)
       /\ step' = IF over THEN [step EXCEPT !.at = "evidence"] ELSE NextDue
  /\ saved' = mem'
  /\ Fault
  /\ UNCHANGED <<files, clock>>

(* classify_watch_process_error: a failure that says "cancelled" defers,   *)
(* also when the input was processed.                                      *)
RunDefers ==
  /\ step.at \in {"render", "pair"}
  /\ runs' = [runs EXCEPT ![step.id] =
                [made |-> IF step.at = "render" THEN @.made + 1 ELSE @.made,
                 spared |-> @.spared + 1]]
  /\ mem' = With(step.id, [Waiting EXCEPT !.attempts = @ - 1])
  /\ saved' = mem' /\ step' = NextDue
  /\ Fault
  /\ UNCHANGED <<files, clock>>

(* The output is committed first, its receipt after it; nobody else makes  *)
(* files here.                                                             *)
Publish ==
  /\ step.at = "publish"
  /\ out' = [out EXCEPT ![job.place] = step.id.content]
  /\ GoTo("pair")
  /\ UNCHANGED <<inbox, receipt, quar, reason, mem, saved, runs, clock, counters>>

PublishReceipt ==
  /\ step.at = "pair"
  /\ receipt' = [receipt EXCEPT ![job.place] = step.id.content]
  /\ GoTo("verify")
  /\ UNCHANGED <<inbox, out, quar, reason, mem, saved, runs, clock, counters>>

Verify ==
  /\ step.at = "verify"
  /\ IF Recovers THEN GoTo("output") /\ UNCHANGED <<mem, saved, counters>> ELSE Permanent
  /\ UNCHANGED <<files, runs, clock>>

(* Mutant: the processor has just verified the output.                     *)
OutputTrusted ==
  /\ step.at = "output"
  /\ GoTo("receipt")
  /\ UNCHANGED <<files, mem, saved, runs, clock, counters>>

(* require_regular_output, twice.  A file that is gone ends the cycle: the *)
(* job stays in processing, and the next cycle makes it a retry.           *)
RequireOutput ==
  /\ step.at = "output"
  /\ step' = IF Has(out) THEN [step EXCEPT !.at = "receipt"] ELSE Rest
  /\ UNCHANGED <<files, mem, saved, runs, clock, counters>>

RequireReceipt ==
  /\ step.at = "receipt"
  /\ step' = IF Has(receipt) THEN [step EXCEPT !.at = "record"] ELSE Rest
  /\ UNCHANGED <<files, mem, saved, runs, clock, counters>>

Complete ==
  /\ step.at = "record"
  /\ Save(With(step.id, [job EXCEPT !.status = "completed", !.due = FALSE]), NextDue)
  /\ UNCHANGED <<files, runs, clock>>

-----------------------------------------------------------------------------
(* finish_quarantine: the diagnostic, the copy, its explanation, and the   *)
(* removal of the input.                                                   *)

Pending == Save(With(step.id, Quarantining(step.id)), NextDue)
Supersede == Save(Superseded(step.id), NextDue)

Evidence ==
  /\ step.at = "evidence"
  /\ IF job.evidence = None
       THEN /\ clock' = clock + 1
            /\ Save(With(step.id, [job EXCEPT !.evidence = clock']), [step EXCEPT !.at = "copy"])
       ELSE GoTo("copy") /\ UNCHANGED <<mem, saved, clock, counters>>
  /\ UNCHANGED <<files, runs>>

(* A copy of something else makes way for the digested name.               *)
Asylum == IF quar[Plain(step.id)] \in {None, step.id.content}
            THEN Plain(step.id) ELSE Digested(step.id)

Source == inbox[step.id.path]

Copy ==
  /\ step.at = "copy"
  /\ IF Source = NoFile /\ quar[Asylum] = None THEN Supersede /\ UNCHANGED quar
     ELSE IF Source # NoFile /\ Source.content # step.id.content
       THEN Supersede /\ UNCHANGED quar
     ELSE /\ quar' = [quar EXCEPT ![Asylum] = step.id.content]
          /\ step' = [step EXCEPT !.at = "explain", !.source = Source # NoFile]
          /\ UNCHANGED <<mem, saved, counters>>
  /\ UNCHANGED <<inbox, out, receipt, reason, runs, clock>>

(* Mutant: an explanation that is there is good enough.                    *)
ExplainedAny == TRUE

(* write_json_no_clobber_or_exact.                                         *)
Explained == reason[Asylum] \in {None, job.evidence}

Explain ==
  /\ step.at = "explain"
  /\ IF Explained
       THEN /\ reason' = [reason EXCEPT ![Asylum] = IF @ = None THEN job.evidence ELSE @]
            /\ GoTo(IF step.source THEN "check" ELSE "done")
            /\ UNCHANGED <<mem, saved, counters>>
       ELSE Pending /\ UNCHANGED reason
  /\ UNCHANGED <<inbox, out, receipt, quar, runs, clock>>

(* Copying or explaining fails: the job stays pending.                     *)
QuarantineFails ==
  /\ step.at \in {"copy", "explain"}
  /\ step' = NextDue
  /\ Fault
  /\ UNCHANGED <<files, mem, saved, runs, clock>>

(* Mutant: the input was compared before it was copied.                    *)
CheckedBefore ==
  /\ step.at = "check"
  /\ GoTo("remove")
  /\ UNCHANGED <<files, mem, saved, runs, clock, counters>>

Check ==
  /\ step.at = "check"
  /\ IF Source = NoFile THEN Pending
     ELSE IF Source.content # step.id.content THEN Supersede
     ELSE GoTo("remove") /\ UNCHANGED <<mem, saved, counters>>
  /\ UNCHANGED <<files, runs, clock>>

(* Whatever the path names by now is removed.                              *)
Remove ==
  /\ step.at = "remove"
  /\ IF Source = NoFile THEN Pending /\ UNCHANGED inbox
     ELSE /\ inbox' = [inbox EXCEPT ![step.id.path] = NoFile]
          /\ GoTo("done")
          /\ UNCHANGED <<mem, saved, counters>>
  /\ UNCHANGED <<out, receipt, quar, reason, runs, clock>>

Done ==
  /\ step.at = "done"
  /\ Save(With(step.id, [job EXCEPT !.status = "quarantined"]), NextDue)
  /\ UNCHANGED <<files, runs, clock>>

-----------------------------------------------------------------------------
(* Time and others.                                                        *)

(* The settle interval passes; the delay of a retry passes.                *)
Settle(p) ==
  /\ step.at = "rest" /\ mem.obs[p].content # None /\ ~mem.obs[p].ripe
  /\ mem' = [mem EXCEPT !.obs[p].ripe = TRUE]
  /\ saved' = IF saved.obs[p] = mem.obs[p] THEN [saved EXCEPT !.obs[p].ripe = TRUE] ELSE saved
  /\ UNCHANGED <<files, step, runs, clock, counters>>

Due(id) ==
  /\ step.at = "rest" /\ mem.jobs[id].status = "retry" /\ ~mem.jobs[id].due
  /\ mem' = [mem EXCEPT !.jobs[id].due = TRUE]
  /\ saved' = IF saved.jobs[id] = mem.jobs[id] THEN [saved EXCEPT !.jobs[id].due = TRUE] ELSE saved
  /\ UNCHANGED <<files, step, runs, clock, counters>>

Edit == edits < MaxEdits /\ edits' = edits + 1 /\ UNCHANGED <<faults, kills>>
Behind(late, which) ==
  step' = IF late THEN [step EXCEPT !.touched = @ \cup {which}] ELSE step

(* Somebody drops an input, changes one, perhaps within the resolution of  *)
(* its stamp, or takes it away.                                            *)
EditInput(p) ==
  /\ Edit
  /\ \/ \E c \in Contents, s \in {edits + 2, inbox[p].stamp} :
          /\ s # 0 /\ [content |-> c, stamp |-> s] # inbox[p]
          /\ inbox' = [inbox EXCEPT ![p] = [content |-> c, stamp |-> s]]
     \/ inbox[p] # NoFile /\ inbox' = [inbox EXCEPT ![p] = NoFile]
  /\ Behind(p = step.id.path /\ step.at = "remove", "input")
  /\ UNCHANGED <<out, receipt, quar, reason, mem, saved, runs, clock>>

EditOutput(place) ==
  /\ Edit
  /\ \/ /\ out[place] # None /\ out' = [out EXCEPT ![place] = None] /\ UNCHANGED receipt
        /\ Behind(place = job.place /\ step.at \in {"receipt", "record"}, "output")
     \/ /\ receipt[place] # None /\ receipt' = [receipt EXCEPT ![place] = None] /\ UNCHANGED out
        /\ Behind(place = job.place /\ step.at = "record", "receipt")
  /\ UNCHANGED <<inbox, quar, reason, mem, saved, runs, clock>>

Kill ==
  /\ step.at # "off" /\ kills < MaxKills
  /\ kills' = kills + 1
  /\ step' = [Locals EXCEPT !.at = "off"]
  /\ mem' = saved
  /\ UNCHANGED <<files, saved, runs, clock, edits, faults>>

-----------------------------------------------------------------------------
Init ==
  /\ inbox \in [Paths -> {NoFile} \cup [content : Contents, stamp : {1}]]
  /\ out = [place \in Place |-> None] /\ receipt = out
  /\ quar = out /\ reason = out
  /\ mem = [obs |-> [p \in Paths |-> NoObservation], jobs |-> [id \in Id |-> NoJob(id)]]
  /\ saved = mem
  /\ step = [at |-> "off", todo |-> {}, errors |-> FALSE, due |-> {},
             id |-> CHOOSE id \in Id : TRUE, source |-> FALSE, touched |-> {}]
  /\ runs = [id \in Id |-> NoRuns]
  /\ clock = 0 /\ edits = 0 /\ faults = 0 /\ kills = 0

Scan == Open \/ BeginCycle \/ EndScan \/ EndCycle \/ \E p \in Paths : Observe(p)
Attempt == \/ \E id \in Id : Take(id)
           \/ Process \/ Render \/ Publish \/ PublishReceipt \/ Verify
           \/ RequireOutput \/ RequireReceipt \/ Complete
Quarantine == Evidence \/ Copy \/ Explain \/ Check \/ Remove \/ Done

Failure == \/ \E p \in Paths : ObserveFails(p)
           \/ \E id \in Id : TakeUnreadable(id)
           \/ ProcessDefers \/ RunFails \/ RunDefers \/ QuarantineFails \/ Kill

Others == \/ \E p \in Paths : EditInput(p)
          \/ \E place \in Place : EditOutput(place)

Next == \/ Scan \/ Attempt \/ Quarantine \/ Failure \/ Others
        \/ \E p \in Paths : Settle(p)
        \/ \E id \in Id : Due(id)

Spec == Init /\ [][Next]_vars

(* The watcher runs, again after it was killed, and time passes between    *)
(* its cycles.                                                             *)
Fairness == /\ WF_vars(Scan \/ Attempt \/ Quarantine)
            /\ \A p \in Paths : SF_vars(Settle(p))
            /\ \A id \in Id : SF_vars(Due(id))

FairSpec == Spec /\ Fairness

-----------------------------------------------------------------------------
(* Properties.                                                             *)

(* Every variable has its type.                                            *)
TypeOK ==
  /\ inbox \in [Paths -> File]
  /\ out \in [Place -> Contents \cup {None}] /\ receipt \in [Place -> Contents \cup {None}]
  /\ quar \in [Place -> Contents \cup {None}] /\ reason \in [Place -> Nat]
  /\ mem \in State /\ saved \in State
  /\ step \in Step
  /\ runs \in [Id -> Runs] /\ clock \in Nat
  /\ edits \in Nat /\ faults \in Nat /\ kills \in Nat

(* What the state file calls quarantined has its copy, and beside it the   *)
(* explanation the state file fixed, however often the quarantine was      *)
(* interrupted.                                                            *)
Kept(id) == \E place \in {Plain(id), Digested(id)} :
              /\ quar[place] = id.content
              /\ reason[place] = saved.jobs[id].evidence /\ reason[place] # None
QuarantineKeeps == \A id \in Id : saved.jobs[id].status = "quarantined" => Kept(id)

(* An input is removed only when its copy and explanation are in place and *)
(* the state file knows them, and what is removed is what was copied: no   *)
(* edit between the comparisons, the copy, the explanation and a kill is   *)
(* lost with it.  Only what takes its place after the last comparison is   *)
(* removed without one.                                                    *)
RemovedIsKept ==
  [][\A p \in Paths : inbox[p] # NoFile /\ inbox'[p] = NoFile /\ edits' = edits
       => /\ step.id.path = p /\ Kept(step.id)
          /\ inbox[p].content = step.id.content \/ "input" \in step.touched]_vars

(* A job is called completed only when its output and its receipt are both *)
(* there, although the watcher may have died between them and others take  *)
(* files away.  Only one that goes after its own last check and before the *)
(* state is written is missed.                                             *)
CompletedIsPaired ==
  [][\A id \in Id :
       saved.jobs[id].status # "completed" /\ saved'.jobs[id].status = "completed" =>
         LET place == saved'.jobs[id].place IN
         /\ out'[place] = id.content \/ "output" \in step.touched
         /\ receipt'[place] = id.content \/ "receipt" \in step.touched]_vars

(* The budget of attempts is spent before each attempt: neither kills nor  *)
(* failed writes let an input be processed more often.  Only an attempt    *)
(* that is deferred after it processed the input is given back.            *)
BoundedAttempts == \A id \in Id : runs[id].made <= MaxAttempts + runs[id].spared

(* An input that stays is completed or quarantined in the end, or it is    *)
(* one of those the watcher overlooks: its job was over before (superseded *)
(* or quarantined), its change left no stamp, the explanation of an        *)
(* earlier quarantine of the same content is in the way, or every name for *)
(* some output is taken.                                                   *)
StatusOf(p) == mem.jobs[[path |-> p, content |-> inbox[p].content]].status
Overlooked(p) ==
  LET id == [path |-> p, content |-> inbox[p].content] IN
  \/ mem.jobs[id].status \in {"superseded", "quarantined"}
  \/ mem.obs[p].stamp = inbox[p].stamp /\ mem.obs[p].content # inbox[p].content
  \/ /\ mem.jobs[id].status = "quarantinePending"
     /\ \E place \in {Plain(id), Digested(id)} :
          reason[place] \notin {None, mem.jobs[id].evidence}
Blocked == \E id \in Id : inbox[id.path].content = id.content /\ Free(id) = {}
           /\ mem.jobs[id].status = "none"
InputsSettle ==
  <>[](\A p \in Paths : inbox[p] = NoFile \/ StatusOf(p) = "completed"
                        \/ Overlooked(p) \/ Blocked)

(* "Interrupted jobs retry on restart" (docs/cli.md): an input that can be *)
(* processed is quarantined only when its attempts are used up.            *)
InterruptedRetries ==
  \A id \in Id : saved.jobs[id].status \in {"quarantinePending", "quarantined"} =>
    id.content \in Bad \/ saved.jobs[id].attempts >= MaxAttempts

=============================================================================
