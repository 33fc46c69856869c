-------------------------- MODULE WatchFolderProofs --------------------------
(* Proofs about WatchFolder, for every value of its constants.             *)
EXTENDS WatchFolder, TLAPS

(* The copy of an input in q, and the explanation e beside it in x.        *)
KeptAs(id, e, q, x) == \E place \in {Plain(id), Digested(id)} :
                         q[place] = id.content /\ x[place] = e /\ e # None

(* What is true of a job, in memory and in the state file alike: it was    *)
(* processed no more often (n) than its attempts say and the deferred ones *)
(* that were taken back from them, and a quarantine that is over has left  *)
(* its copy and its explanation.                                           *)
JobOK(id, r, q, x, n) ==
  /\ r.attempts <= MaxAttempts
  /\ r.status # "none" => n[id].made <= r.attempts + n[id].spared
  /\ r.status = "quarantined" => KeptAs(id, r.evidence, q, x)
Knows(m, q, x, n) == m \in State /\ \A id \in Id : JobOK(id, m.jobs[id], q, x, n)

(* A completed job is completed in the state file too.                     *)
Recorded == \A id \in Id : mem.jobs[id].status = "completed" =>
                           saved.jobs[id].status = "completed"

(* A receipt and its output are of one input, and a digested name holds    *)
(* only the content it is named after.                                     *)
Paired == \A place \in Place : out[place] # None /\ receipt[place] # None =>
                                 out[place] = receipt[place]
Sheltered == \A id \in Id : quar[Digested(id)] \in {None, id.content}

(* What the cycle knows at each of its steps.                              *)
Processing == {"process", "render", "publish", "pair", "verify", "output", "receipt",
               "record"}
Hiding == {"evidence", "copy", "explain", "check", "remove", "done"}
StepInv ==
  /\ step.at \notin {"rest", "scan"} => mem = saved
  /\ step.at \in {"off", "rest", "scan"} => step.due = {}
  /\ \A id \in step.due : IsDue(mem.jobs[id])
  /\ step.at \in Processing \cup Hiding =>
       step.id \notin step.due /\ job.status # "none"
  /\ step.at \in Processing => job.attempts > 0
  /\ step.at \in {"process", "render"} =>
       runs[step.id].made < job.attempts + runs[step.id].spared
  /\ step.at \in {"render", "publish"} => out[job.place] = None
  /\ step.at \in {"render", "publish", "pair"} => receipt[job.place] = None
  /\ step.at \in {"pair", "output"} => out[job.place] \in {None, step.id.content}
  /\ step.at \in {"output", "receipt"} => receipt[job.place] \in {None, step.id.content}
  /\ step.at \in {"receipt", "record"} =>
       out[job.place] = step.id.content \/ "output" \in step.touched
  /\ step.at = "record" =>
       receipt[job.place] = step.id.content \/ "receipt" \in step.touched
  /\ step.at \in Hiding \ {"evidence"} => job.evidence # None
  /\ step.at \in {"explain", "check", "remove", "done"} => quar[Asylum] = step.id.content
  /\ step.at \in {"check", "remove", "done"} => reason[Asylum] = job.evidence
  /\ step.at = "remove" => Source.content = step.id.content \/ "input" \in step.touched

FilesInv == Paired /\ Sheltered
KnowsInv == Knows(mem, quar, reason, runs) /\ Knows(saved, quar, reason, runs)
IInv == TypeOK /\ KnowsInv /\ Recorded /\ FilesInv /\ BoundedAttempts /\ StepInv

-----------------------------------------------------------------------------
(* What the helpers make of a state and of a job.                          *)

LEMMA WithJob ==
  ASSUME NEW m \in State, NEW id \in Id, NEW r \in Job
  PROVE  /\ [m EXCEPT !.jobs[id] = r] \in State
         /\ [m EXCEPT !.jobs[id] = r].obs = m.obs
         /\ [m EXCEPT !.jobs[id] = r].jobs = [m.jobs EXCEPT ![id] = r]
         /\ [m EXCEPT !.jobs[id] = r].jobs[id] = r
         /\ \A other \in Id \ {id} : [m EXCEPT !.jobs[id] = r].jobs[other] = m.jobs[other]
<1>1. m.jobs \in [Id -> Job] /\ m.obs \in [Paths -> Observation]
  BY DEF State
<1>2. [m.jobs EXCEPT ![id] = r] \in [Id -> Job]
  BY <1>1
<1>3. [m EXCEPT !.jobs[id] = r] = [m EXCEPT !.jobs = [m.jobs EXCEPT ![id] = r]]
  BY DEF State
<1> QED BY <1>1, <1>2, <1>3 DEF State

LEMMA JobTyped ==
  ASSUME NEW r \in Job
  PROVE  /\ \A s \in Status, d \in BOOLEAN : [r EXCEPT !.status = s, !.due = d] \in Job
         /\ \A s \in Status : [r EXCEPT !.status = s] \in Job
         /\ \A s \in Status, d \in BOOLEAN, n \in Nat :
              /\ [r EXCEPT !.status = s, !.attempts = n] \in Job
              /\ [[r EXCEPT !.status = s, !.due = d] EXCEPT !.attempts = n] \in Job
         /\ \A s \in Status, place \in Place : [r EXCEPT !.status = s, !.place = place] \in Job
         /\ \A e \in Nat : [r EXCEPT !.evidence = e] \in Job
         /\ \A d \in BOOLEAN : [r EXCEPT !.due = d] \in Job
BY DEF Job

LEMMA PlaceTyped == \A id \in Id : Plain(id) \in Place /\ Digested(id) \in Place
BY DEF Id, Place, Plain, Digested

LEMMA NoJobTyped == \A id \in Id : NoJob(id) \in Job
BY PlaceTyped DEF NoJob, Job, Status, None

(* Changing one job of a state.                                            *)
LEMMA KnowsWith ==
  ASSUME NEW m, NEW q, NEW x, NEW n, Knows(m, q, x, n),
         NEW id \in Id, NEW r \in Job, JobOK(id, r, q, x, n)
  PROVE  Knows([m EXCEPT !.jobs[id] = r], q, x, n)
<1>1. m \in State
  BY DEF Knows
<1> DEFINE w == [m EXCEPT !.jobs[id] = r]
<1>2. w \in State /\ w.jobs[id] = r /\ \A other \in Id \ {id} : w.jobs[other] = m.jobs[other]
  BY <1>1, WithJob
<1>3. ASSUME NEW other \in Id PROVE JobOK(other, w.jobs[other], q, x, n)
  <2>1. CASE other = id
    BY <2>1, <1>2
  <2>2. CASE other # id
    <3>1. w.jobs[other] = m.jobs[other]
      BY <1>2, <2>2
    <3> QED BY <3>1 DEF Knows
  <2> QED BY <2>1, <2>2
<1> QED BY <1>2, <1>3 DEF Knows

(* Copies and explanations that only grow keep what was known.             *)
Grows(f, g) == \A place \in Place : f[place] # None => g[place] = f[place]

LEMMA KnowsGrows ==
  ASSUME NEW m, NEW q, NEW x, NEW n, Knows(m, q, x, n),
         NEW q2, NEW x2, Grows(q, q2), Grows(x, x2)
  PROVE  Knows(m, q2, x2, n)
<1>1. ASSUME NEW id \in Id, NEW e, KeptAs(id, e, q, x) PROVE KeptAs(id, e, q2, x2)
  <2>1. PICK place \in {Plain(id), Digested(id)} :
           q[place] = id.content /\ x[place] = e /\ e # None
    BY <1>1 DEF KeptAs
  <2>2. place \in Place
    BY PlaceTyped
  <2>3. id.content # None
    BY ContentsAssumption DEF Id, None
  <2> QED BY <2>1, <2>2, <2>3 DEF KeptAs, Grows
<1> QED BY <1>1 DEF Knows, JobOK

(* What a write of the state file leaves, whether it fails or not.         *)
LEMMA Saving ==
  ASSUME TypeOK, NEW m, NEW next \in Step, Save(m, next),
         Knows(m, quar', reason', runs'), Knows(saved, quar', reason', runs')
  PROVE  /\ KnowsInv' /\ Recorded' /\ mem' = saved'
         /\ step' \in Step /\ edits' \in Nat /\ faults' \in Nat /\ kills' \in Nat
         /\ mem' \in State /\ saved' \in State
         /\ (mem' = m /\ step' = next) \/ step' = Rest
<1>1. Rest \in Step
  BY DEF TypeOK, Rest, Locals, Step, At
<1>2. (mem' = m \/ mem' = saved) /\ mem' = saved'
  BY DEF Save
<1>3. Knows(mem', quar', reason', runs') /\ Knows(saved', quar', reason', runs')
  BY <1>2
<1>4. mem' \in State /\ saved' \in State
  BY <1>3 DEF Knows
<1>5. step' \in Step /\ ((mem' = m /\ step' = next) \/ step' = Rest)
  BY <1>1 DEF Save
<1>6. edits' \in Nat /\ faults' \in Nat /\ kills' \in Nat
  BY DEF Save, Fault, TypeOK, counters
<1> QED BY <1>2, <1>3, <1>4, <1>5, <1>6 DEF KnowsInv, Recorded

-----------------------------------------------------------------------------
(* Where a step may leave the cycle.                                       *)

LEMMA Rests ==
  ASSUME TypeOK
  PROVE  /\ Rest \in Step /\ NextDue \in Step /\ Scanning \in Step
         /\ Rest.at = "rest" /\ Rest.due = {}
         /\ Scanning.at = "scan" /\ Scanning.due = {}
         /\ NextDue.at = "due" /\ NextDue.due = step.due /\ NextDue.touched = {}
         /\ \A at \in At : /\ [step EXCEPT !.at = at] \in Step
                           /\ [step EXCEPT !.at = at].at = at
                           /\ [step EXCEPT !.at = at].due = step.due
                           /\ [step EXCEPT !.at = at].id = step.id
                           /\ [step EXCEPT !.at = at].touched = step.touched
<1>1. step \in Step
  BY DEF TypeOK
<1>2. /\ Locals \in Step /\ Locals.due = {}
  BY <1>1 DEF Locals, Step
<1>3. Rest \in Step /\ Rest.at = "rest" /\ Rest.due = {}
  BY <1>2 DEF Rest, Step, At
<1>4. Scanning \in Step /\ Scanning.at = "scan" /\ Scanning.due = {}
  BY <1>3 DEF Scanning, Step, At
<1>5. /\ NextDue \in Step /\ NextDue.at = "due" /\ NextDue.due = step.due
      /\ NextDue.touched = {}
  BY <1>1 DEF NextDue, Step, At
<1>6. \A at \in At : /\ [step EXCEPT !.at = at] \in Step
                     /\ [step EXCEPT !.at = at].at = at
                     /\ [step EXCEPT !.at = at].due = step.due
                     /\ [step EXCEPT !.at = at].id = step.id
                     /\ [step EXCEPT !.at = at].touched = step.touched
  BY <1>1 DEF Step
<1> QED BY <1>3, <1>4, <1>5, <1>6

(* Between the attempts nothing is due.                                    *)
LEMMA Idles == ASSUME TypeOK, step' \in {Rest, Scanning} PROVE StepInv'
<1>1. step'.at \in {"rest", "scan"} /\ step'.due = {}
  BY Rests
<1> QED BY <1>1 DEF StepInv, Processing, Hiding

(* The attempt is over: only its job has changed.                          *)
LEMMA AttemptEnds ==
  ASSUME TypeOK, StepInv, step.at \in Processing \cup Hiding, NEW r \in Job,
         mem' = With(step.id, r), saved' = mem', step' = NextDue
  PROVE  StepInv'
<1>1. mem \in State /\ step.id \in Id /\ step.due \subseteq Id
  BY DEF TypeOK, Step
<1>2. \A id \in Id \ {step.id} : mem'.jobs[id] = mem.jobs[id]
  BY <1>1, WithJob DEF With
<1>3. step'.at = "due" /\ step'.due = step.due
  BY Rests
<1>4. step.id \notin step.due /\ \A id \in step.due : IsDue(mem.jobs[id])
  BY DEF StepInv
<1>5. \A id \in step'.due : IsDue(mem.jobs[id])'
  <2> SUFFICES ASSUME NEW id \in step.due PROVE IsDue(mem'.jobs[id])
    BY <1>3 DEF IsDue
  <2>1. mem'.jobs[id] = mem.jobs[id]
    BY <1>1, <1>2, <1>4
  <2> QED BY <1>4, <2>1
<1> QED BY <1>3, <1>5 DEF StepInv, Processing, Hiding

(* The attempt goes on with the quarantine of its job.                     *)
LEMMA AttemptHides ==
  ASSUME TypeOK, StepInv, step.at \in Processing, NEW r \in Job, r.status # "none",
         mem' = With(step.id, r), saved' = mem', step' = [step EXCEPT !.at = "evidence"]
  PROVE  StepInv'
<1>1. mem \in State /\ step.id \in Id /\ step.due \subseteq Id
  BY DEF TypeOK, Step
<1>2. mem'.jobs[step.id] = r /\ \A id \in Id \ {step.id} : mem'.jobs[id] = mem.jobs[id]
  BY <1>1, WithJob DEF With
<1>3. step'.at = "evidence" /\ step'.due = step.due /\ step'.id = step.id
  BY Rests DEF At
<1>4. step.id \notin step.due /\ \A id \in step.due : IsDue(mem.jobs[id])
  BY DEF StepInv
<1>5. \A id \in step'.due : IsDue(mem.jobs[id])'
  <2> SUFFICES ASSUME NEW id \in step.due PROVE IsDue(mem'.jobs[id])
    BY <1>3 DEF IsDue
  <2>1. mem'.jobs[id] = mem.jobs[id]
    BY <1>1, <1>2, <1>4
  <2> QED BY <1>4, <2>1
<1>6. job'.status # "none"
  BY <1>2, <1>3 DEF job
<1> QED BY <1>3, <1>4, <1>5, <1>6 DEF StepInv, Processing, Hiding

-----------------------------------------------------------------------------
(* Opening, and the scan.                                                  *)

LEMMA ResumedKnows ==
  ASSUME NEW m, Knows(m, quar, reason, runs)
  PROVE  Knows(Resumed(m), quar, reason, runs)
<1>1. m \in State /\ m.jobs \in [Id -> Job]
  BY DEF Knows, State
<1> DEFINE resumed == [id \in Id |-> IF m.jobs[id].status = "processing"
                         THEN [m.jobs[id] EXCEPT !.status = "retry", !.due = TRUE]
                         ELSE m.jobs[id]]
<1>2. Resumed(m) = [m EXCEPT !.jobs = resumed]
  BY DEF Resumed
<1>3. \A id \in Id : resumed[id] \in Job /\ JobOK(id, resumed[id], quar, reason, runs)
  <2> TAKE id \in Id
  <2>1. m.jobs[id] \in Job /\ JobOK(id, m.jobs[id], quar, reason, runs)
    BY <1>1 DEF Knows
  <2>2. CASE m.jobs[id].status = "processing"
    <3>1. resumed[id] = [m.jobs[id] EXCEPT !.status = "retry", !.due = TRUE]
      BY <2>2
    <3>2. resumed[id] \in Job
      BY <2>1, <3>1, JobTyped DEF Status
    <3>3. resumed[id].status = "retry" /\ resumed[id].attempts = m.jobs[id].attempts
      BY <2>1, <3>1 DEF Job
    <3> HIDE DEF resumed
    <3> QED BY <2>1, <2>2, <3>2, <3>3 DEF JobOK
  <2>3. CASE m.jobs[id].status # "processing"
    BY <2>1, <2>3
  <2> QED BY <2>2, <2>3
<1>4. resumed \in [Id -> Job]
  BY <1>3
<1> HIDE DEF resumed
<1>5. Resumed(m) \in State /\ Resumed(m).jobs = resumed
  BY <1>1, <1>2, <1>4 DEF State
<1> QED BY <1>3, <1>5 DEF Knows

LEMMA OpenKeeps == ASSUME IInv, Open PROVE IInv'
<1> USE DEF IInv, KnowsInv
<1>1. CASE /\ mem' = Resumed(saved) /\ saved' = mem' /\ step' = Rest /\ UNCHANGED counters
  <2>1. UNCHANGED <<files, runs, clock, counters>>
    BY <1>1 DEF Open
  <2>2. KnowsInv'
    BY <1>1, <2>1, ResumedKnows DEF files
  <2>3. mem' \in State /\ saved' \in State
    BY <2>2 DEF Knows
  <2>4. StepInv'
    BY <1>1, Idles
  <2>5. Recorded'
    BY <1>1 DEF Recorded
  <2>6. TypeOK'
    BY <1>1, <2>1, <2>3, Rests DEF TypeOK, files, counters
  <2> QED BY <2>1, <2>2, <2>4, <2>5, <2>6
       DEF files, FilesInv, Paired, Sheltered, BoundedAttempts
<1>2. CASE Fault /\ UNCHANGED <<mem, saved, step>>
  <2>1. UNCHANGED <<files, runs, clock, mem, saved, step>>
    BY <1>2 DEF Open
  <2>2. TypeOK'
    BY <1>2, <2>1 DEF TypeOK, Fault, files
  <2>3. StepInv'
    BY <2>1 DEF StepInv, files, job, Asylum, Source
  <2> QED BY <2>1, <2>2, <2>3 DEF files, FilesInv, Paired, Sheltered, BoundedAttempts, Recorded
<1> QED BY <1>1, <1>2 DEF Open

LEMMA BeginCycleKeeps == ASSUME IInv, BeginCycle PROVE IInv'
<1> USE DEF IInv, KnowsInv
<1>1. UNCHANGED <<files, runs, clock>>
  BY DEF BeginCycle
<1>2. CASE UNCHANGED <<mem, saved, counters>> /\ step' = Scanning
  <2>1. StepInv'
    BY <1>2, Idles
  <2>2. TypeOK'
    BY <1>1, <1>2, Rests DEF TypeOK, files, counters
  <2> QED BY <1>1, <1>2, <2>1, <2>2
       DEF files, FilesInv, Paired, Sheltered, BoundedAttempts, Recorded
<1>3. CASE Save(Resumed(mem), Scanning)
  <2>1. Knows(Resumed(mem), quar', reason', runs') /\ Knows(saved, quar', reason', runs')
    BY <1>1, ResumedKnows DEF files
  <2>2. /\ KnowsInv' /\ Recorded' /\ step' \in Step /\ mem' \in State /\ saved' \in State
        /\ edits' \in Nat /\ faults' \in Nat /\ kills' \in Nat
        /\ step' = Scanning \/ step' = Rest
    BY <1>3, <2>1, Rests, Saving
  <2>3. StepInv'
    BY <2>2, Idles
  <2>4. TypeOK'
    BY <1>1, <2>2 DEF TypeOK, files
  <2> QED BY <1>1, <2>2, <2>3, <2>4 DEF files, FilesInv, Paired, Sheltered, BoundedAttempts
<1> QED BY <1>2, <1>3 DEF BeginCycle

(* Counting anew from zero keeps what was known.                           *)
LEMMA KnowsFewer ==
  ASSUME NEW m, NEW q, NEW x, NEW n \in [Id -> Runs], Knows(m, q, x, n),
         NEW n2 \in [Id -> Runs], \A id \in Id : n2[id] \in {n[id], NoRuns}
  PROVE  Knows(m, q, x, n2)
<1> SUFFICES ASSUME NEW id \in Id, m.jobs[id].status # "none"
             PROVE  n2[id].made <= m.jobs[id].attempts + n2[id].spared
  BY DEF Knows, JobOK
<1>1. n[id].made <= m.jobs[id].attempts + n[id].spared
  BY DEF Knows, JobOK
<1>2. m.jobs[id].attempts \in Nat
  BY DEF Knows, State, Job
<1> QED BY <1>1, <1>2 DEF NoRuns

(* What a path of the scan may change: memory, of jobs that are not        *)
(* completed by it, and counts that start again.                           *)
LEMMA ScanKeeps ==
  ASSUME IInv, step.at = "scan", UNCHANGED <<files, saved, clock>>,
         edits' \in Nat, faults' \in Nat, kills' \in Nat,
         runs' \in [Id -> Runs], \A id \in Id : runs'[id] \in {runs[id], NoRuns},
         Knows(mem', quar, reason, runs'),
         \A id \in Id : mem'.jobs[id].status = "completed" =>
                          mem.jobs[id].status = "completed",
         NEW todo \in SUBSET Paths, NEW errors \in BOOLEAN,
         step' \in {Rest, [step EXCEPT !.todo = todo],
                    [step EXCEPT !.todo = todo, !.errors = TRUE]}
  PROVE  IInv'
<1>1. step \in Step /\ runs \in [Id -> Runs] /\ step.due = {}
  BY DEF IInv, TypeOK, StepInv
<1>2. step' \in Step /\ step'.at \in {"rest", "scan"} /\ step'.due = {}
  BY <1>1, Rests DEF Step, IInv
<1>3. KnowsInv'
  BY <1>1, KnowsFewer DEF IInv, KnowsInv, files
<1>4. mem' \in State
  BY DEF Knows
<1>5. TypeOK'
  BY <1>2, <1>4 DEF IInv, TypeOK, files
<1>6. Recorded'
  BY DEF IInv, Recorded
<1>7. StepInv'
  BY <1>2 DEF StepInv, Processing, Hiding
<1>8. BoundedAttempts'
  <2> SUFFICES ASSUME NEW id \in Id PROVE runs'[id].made <= MaxAttempts + runs'[id].spared
    BY DEF BoundedAttempts
  <2>1. runs[id].made <= MaxAttempts + runs[id].spared
    BY DEF IInv, BoundedAttempts
  <2> QED BY <1>1, <2>1, LimitAssumption DEF NoRuns
<1>9. FilesInv'
  BY DEF IInv, FilesInv, Paired, Sheltered, files
<1> QED BY <1>3, <1>5, <1>6, <1>7, <1>8, <1>9 DEF IInv

(* A new observation leaves the jobs alone.                                *)
LEMMA WithObs ==
  ASSUME NEW m \in State, NEW p \in Paths, NEW o \in Observation
  PROVE  /\ [m EXCEPT !.obs[p] = o] \in State
         /\ [m EXCEPT !.obs[p] = o].jobs = m.jobs
<1>1. [m EXCEPT !.obs[p] = o] = [m EXCEPT !.obs = [m.obs EXCEPT ![p] = o]]
  BY DEF State
<1>2. [m.obs EXCEPT ![p] = o] \in [Paths -> Observation]
  BY DEF State
<1> QED BY <1>1, <1>2 DEF State

LEMMA DestinationTyped == \A id \in Id : Destination(id) \in Place
BY PlaceTyped DEF Destination

LEMMA ObserveKeeps == ASSUME IInv, NEW p \in Paths, Observe(p) PROVE IInv'
<1> DEFINE id == Observed(p)
           r == mem.jobs[id]
<1>1. /\ step.at = "scan" /\ UNCHANGED <<files, saved, clock, counters>>
      /\ inbox[p] # NoFile
  BY DEF Observe
<1>2. /\ mem \in State /\ step \in Step /\ inbox \in [Paths -> File]
      /\ runs \in [Id -> Runs] /\ edits' \in Nat /\ faults' \in Nat /\ kills' \in Nat
      /\ Knows(mem, quar, reason, runs)
  BY <1>1 DEF IInv, TypeOK, KnowsInv, counters
<1>3. step.todo \ {p} \in SUBSET Paths
  BY <1>2 DEF Step
<1>4. ASSUME UNCHANGED <<mem, runs>>, Scanned(p) \/ step' = Rest
      PROVE  IInv'
  <2>1. \A j \in Id : runs'[j] \in {runs[j], NoRuns}
    BY <1>2, <1>4
  <2>2. step' \in {Rest, [step EXCEPT !.todo = step.todo \ {p}]}
    BY <1>4 DEF Scanned
  <2> QED BY <1>1, <1>2, <1>3, <1>4, <2>1, <2>2, ScanKeeps
<1>5. ASSUME Reobserve(p), UNCHANGED runs
      PROVE  IInv'
  <2>1. Fresh(p) \in Observation
    BY <1>2 DEF Fresh, File, Observation
  <2>2. mem' \in State /\ mem'.jobs = mem.jobs
    BY <1>2, <1>5, <2>1, WithObs DEF Reobserve
  <2>3. Knows(mem', quar, reason, runs')
    BY <1>2, <1>5, <2>2 DEF Knows
  <2>4. \A j \in Id : runs'[j] \in {runs[j], NoRuns}
    BY <1>2, <1>5
  <2>5. step' \in {Rest, [step EXCEPT !.todo = step.todo \ {p}]}
    BY <1>5 DEF Scanned, Reobserve
  <2> QED BY <1>1, <1>2, <1>3, <1>5, <2>2, <2>3, <2>4, <2>5, ScanKeeps
<1>6. CASE mem.obs[p].content = None \/ mem.obs[p].stamp # inbox[p].stamp
  BY <1>5, <1>6 DEF Observe
<1>7. CASE ~(mem.obs[p].content = None \/ mem.obs[p].stamp # inbox[p].stamp)
  <2>1. id \in Id
    BY <1>2, <1>7 DEF State, Observation, Observed, Id, None
  <2>2. r \in Job /\ JobOK(id, r, quar, reason, runs)
    BY <1>2, <2>1 DEF State, Knows
  <2> HIDE DEF id
  <2>3. ASSUME NEW r2 \in Job, mem' = With(id, r2), Scanned(p),
               \/ runs' = runs
               \/ runs' = [runs EXCEPT ![id] = NoRuns],
               JobOK(id, r2, quar, reason, runs'),
               r2.status = "completed" => r.status = "completed"
        PROVE  IInv'
    <3>1. runs' \in [Id -> Runs] /\ NoRuns \in Runs /\ \A j \in Id : runs'[j] \in {runs[j], NoRuns}
      BY <1>2, <2>1, <2>3 DEF NoRuns, Runs
    <3>2. Knows(mem, quar, reason, runs')
      BY <1>2, <3>1, KnowsFewer
    <3>3. Knows(mem', quar, reason, runs')
      BY <2>1, <2>3, <3>2, KnowsWith DEF With
    <3>4. mem'.jobs[id] = r2 /\ \A j \in Id \ {id} : mem'.jobs[j] = mem.jobs[j]
      BY <1>2, <2>1, <2>3, WithJob DEF With
    <3>5. \A j \in Id : mem'.jobs[j].status = "completed" => mem.jobs[j].status = "completed"
      BY <2>3, <3>4
    <3>6. step' \in {Rest, [step EXCEPT !.todo = step.todo \ {p}]}
      BY <2>3 DEF Scanned
    <3> QED BY <1>1, <1>2, <1>3, <3>1, <3>3, <3>5, <3>6, ScanKeeps
  <2>4. CASE r.status = "completed"
    <3>1. /\ mem' = With(id, Reviewed(r)) /\ Scanned(p)
          /\ runs' = IF Reviewed(r).status = "ready" THEN [runs EXCEPT ![id] = NoRuns] ELSE runs
      BY <1>7, <2>4 DEF Observe, id
    <3>2. Reviewed(r) \in {r, [r EXCEPT !.status = "ready", !.attempts = 0],
                           [r EXCEPT !.status = "quarantinePending"]}
      BY DEF Reviewed
    <3>3. Reviewed(r) \in Job
      <4>1. /\ [r EXCEPT !.status = "ready", !.attempts = 0] \in Job
            /\ [r EXCEPT !.status = "quarantinePending"] \in Job
        BY <2>2 DEF Job, Status
      <4> QED BY <2>2, <3>2, <4>1
    <3>4. JobOK(id, Reviewed(r), quar, reason, runs')
      <4>1. CASE Reviewed(r) = r
        BY <2>2, <2>4, <3>1, <4>1
      <4>2. CASE Reviewed(r) = [r EXCEPT !.status = "ready", !.attempts = 0]
        <5>1. Reviewed(r).status = "ready" /\ Reviewed(r).attempts = 0
          BY <2>2, <4>2 DEF Job
        <5>2. runs'[id] = NoRuns
          BY <1>2, <2>1, <3>1, <5>1
        <5> QED BY <5>1, <5>2, LimitAssumption DEF JobOK, NoRuns
      <4>3. CASE Reviewed(r) = [r EXCEPT !.status = "quarantinePending"]
        <5>1. Reviewed(r).status = "quarantinePending" /\ Reviewed(r).attempts = r.attempts
          BY <2>2, <4>3 DEF Job
        <5> QED BY <2>2, <2>4, <3>1, <5>1 DEF JobOK
      <4> QED BY <3>2, <4>1, <4>2, <4>3
    <3> QED BY <2>3, <2>4, <3>1, <3>3, <3>4
  <2>5. CASE r.status # "completed"
    <3> DEFINE r2 == [r EXCEPT !.status = "ready", !.place = Destination(id)]
    <3>1. CASE /\ mem' = With(id, r2) /\ Scanned(p)
               /\ runs' = [runs EXCEPT ![id] = NoRuns]
      <4>1. r2 \in Job /\ r2.status = "ready" /\ r2.attempts = r.attempts
        BY <2>1, <2>2, DestinationTyped, JobTyped DEF Job, Status
      <4>2. runs'[id] = NoRuns
        BY <1>2, <2>1, <3>1
      <4> HIDE DEF r2
      <4>3. JobOK(id, r2, quar, reason, runs')
        BY <2>2, <4>1, <4>2 DEF JobOK, Job, NoRuns
      <4> QED BY <2>3, <3>1, <4>1, <4>3
    <3>2. CASE Reobserve(p) /\ UNCHANGED runs
      BY <1>5, <3>2
    <3>3. CASE UNCHANGED <<mem, runs>> /\ (Scanned(p) \/ step' = Rest)
      BY <1>4, <3>3
    <3> QED BY <1>7, <2>5, <3>1, <3>2, <3>3 DEF Observe, id
  <2> QED BY <2>4, <2>5
<1> QED BY <1>6, <1>7

LEMMA ObserveFailsKeeps == ASSUME IInv, NEW p \in Paths, ObserveFails(p) PROVE IInv'
<1>1. /\ step.at = "scan" /\ UNCHANGED <<files, mem, saved, runs, clock>>
      /\ step' = [step EXCEPT !.todo = step.todo \ {p}, !.errors = TRUE]
  BY DEF ObserveFails
<1>2. /\ step \in Step /\ runs \in [Id -> Runs] /\ Knows(mem, quar, reason, runs)
      /\ edits' \in Nat /\ faults' \in Nat /\ kills' \in Nat
  BY DEF ObserveFails, Fault, IInv, TypeOK, KnowsInv
<1>3. step.todo \ {p} \in SUBSET Paths
  BY <1>2 DEF Step
<1>4. \A id \in Id : runs'[id] \in {runs[id], NoRuns}
  BY <1>1, <1>2
<1>5. step' \in {Rest, [step EXCEPT !.todo = step.todo \ {p}],
                 [step EXCEPT !.todo = step.todo \ {p}, !.errors = TRUE]}
  BY <1>1
<1>6. Knows(mem', quar, reason, runs')
  BY <1>1, <1>2
<1> QED BY <1>1, <1>2, <1>3, <1>4, <1>5, <1>6, ScanKeeps

(* What the end of the scan saves.                                         *)
LEMMA PrunedKnows ==
  ASSUME IInv
  PROVE  /\ Knows(Pruned, quar, reason, runs)
         /\ {id \in Id : IsDue(Pruned.jobs[id])} \in SUBSET Id
<1>1. /\ mem \in State /\ inbox \in [Paths -> File]
      /\ Knows(mem, quar, reason, runs)
  BY DEF IInv, TypeOK, KnowsInv
<1>2. Observations \in [Paths -> Observation]
  <2>1. NoObservation \in Observation
    BY DEF NoObservation, Observation, None
  <2> QED BY <1>1, <2>1 DEF Observations, State
<1> DEFINE pruned == [id \in Id |->
             IF /\ mem.jobs[id].status \in Finished
                /\ Observations[id.path].content # id.content
               THEN NoJob(id) ELSE mem.jobs[id]]
<1>3. \A id \in Id : pruned[id] \in Job /\ JobOK(id, pruned[id], quar, reason, runs)
  <2> TAKE id \in Id
  <2>1. mem.jobs[id] \in Job /\ JobOK(id, mem.jobs[id], quar, reason, runs)
    BY <1>1 DEF State, Knows
  <2>2. NoJob(id) \in Job
    BY NoJobTyped
  <2>3. JobOK(id, NoJob(id), quar, reason, runs)
    BY LimitAssumption DEF NoJob, JobOK
  <2>4. pruned[id] \in {NoJob(id), mem.jobs[id]}
    OBVIOUS
  <2> QED BY <2>1, <2>2, <2>3, <2>4
<1>4. pruned \in [Id -> Job]
  BY <1>3
<1>5. Pruned = [obs |-> Observations, jobs |-> pruned]
  BY DEF Pruned
<1> HIDE DEF pruned
<1>6. Pruned \in State /\ Pruned.jobs = pruned
  BY <1>2, <1>4, <1>5 DEF State
<1> QED BY <1>3, <1>6 DEF Knows

LEMMA EndScanKeeps == ASSUME IInv, EndScan PROVE IInv'
<1> DEFINE due == {id \in Id : IsDue(Pruned.jobs[id])}
           next == [Locals EXCEPT !.at = "due", !.due = due]
<1>1. UNCHANGED <<files, runs, clock>> /\ Save(Pruned, next)
  BY DEF EndScan
<1>2. due \in SUBSET Id /\ TypeOK /\ step \in Step
  BY DEF IInv, TypeOK
<1>3. Locals \in Step
  BY <1>2 DEF Locals, Step
<1>4. next \in Step /\ next.at = "due" /\ next.due = due
  BY <1>2, <1>3 DEF Step, At
<1>5. Knows(Pruned, quar', reason', runs') /\ Knows(saved, quar', reason', runs')
  BY <1>1, PrunedKnows DEF files, IInv, KnowsInv
<1> HIDE DEF next
<1>6. /\ KnowsInv' /\ Recorded' /\ step' \in Step /\ mem' \in State /\ saved' \in State
      /\ edits' \in Nat /\ faults' \in Nat /\ kills' \in Nat /\ mem' = saved'
      /\ (mem' = Pruned /\ step' = next) \/ step' = Rest
  BY <1>1, <1>2, <1>4, <1>5, Saving
<1>7. StepInv'
  <2>1. CASE step' = Rest
    BY <1>2, <2>1, Idles
  <2>2. CASE mem' = Pruned /\ step' = next
    <3>1. \A id \in step'.due : IsDue(mem'.jobs[id])
      BY <1>4, <2>2
    <3> QED BY <1>4, <1>6, <2>2, <3>1 DEF StepInv, Processing, Hiding, IsDue
  <2> QED BY <1>6, <2>1, <2>2
<1>8. TypeOK'
  BY <1>1, <1>6 DEF IInv, TypeOK, files
<1> QED BY <1>1, <1>6, <1>7, <1>8 DEF IInv, FilesInv, Paired, Sheltered, BoundedAttempts, files

LEMMA EndCycleKeeps == ASSUME IInv, EndCycle PROVE IInv'
<1>1. UNCHANGED <<files, mem, saved, runs, clock, counters>> /\ step' = Rest
  BY DEF EndCycle
<1>2. StepInv'
  BY <1>1, Idles DEF IInv
<1>3. TypeOK'
  BY <1>1, Rests DEF IInv, TypeOK, files, counters
<1> QED BY <1>1, <1>2, <1>3
     DEF IInv, KnowsInv, Recorded, FilesInv, Paired, Sheltered, BoundedAttempts, files

-----------------------------------------------------------------------------
(* An attempt.                                                             *)

(* Inside an attempt a job has everything that is known of it.             *)
LEMMA AttemptKnows ==
  ASSUME IInv, step.at \in Processing \cup Hiding
  PROVE  /\ mem = saved /\ mem \in State /\ step \in Step /\ step.id \in Id
         /\ job \in Job /\ job.status # "none"
         /\ JobOK(step.id, job, quar, reason, runs)
         /\ Knows(mem, quar, reason, runs)
<1>1. mem \in State /\ step \in Step /\ Knows(mem, quar, reason, runs)
  BY DEF IInv, TypeOK, KnowsInv
<1>2. step.id \in Id
  BY <1>1 DEF Step
<1>3. job \in Job /\ JobOK(step.id, job, quar, reason, runs)
  BY <1>1, <1>2 DEF job, State, Knows
<1>4. mem = saved /\ job.status # "none"
  BY DEF IInv, StepInv, Processing, Hiding
<1> QED BY <1>1, <1>2, <1>3, <1>4

(* An attempt that ends with r as its job, in memory and in the file, or   *)
(* that cannot write it; the inputs, and what nobody relies on, are free.  *)
LEMMA EndingKeeps ==
  ASSUME IInv, step.at \in Processing \cup Hiding, NEW r \in Job,
         \/ Save(With(step.id, r), NextDue)
         \/ /\ mem' = With(step.id, r) /\ saved' = mem' /\ step' = NextDue
            /\ edits' \in Nat /\ faults' \in Nat /\ kills' \in Nat,
         UNCHANGED <<out, receipt, quar, reason>>,
         inbox' \in [Paths -> File], clock' \in Nat, runs' \in [Id -> Runs],
         Knows(mem, quar, reason, runs'), JobOK(step.id, r, quar, reason, runs'),
         BoundedAttempts'
  PROVE  IInv'
<1>1. TypeOK /\ StepInv /\ mem = saved /\ step.id \in Id /\ NextDue \in Step
  BY AttemptKnows, Rests DEF IInv
<1>2. Knows(With(step.id, r), quar', reason', runs') /\ Knows(saved, quar', reason', runs')
  BY <1>1, KnowsWith DEF With
<1>3. /\ KnowsInv' /\ Recorded' /\ step' \in Step /\ mem' \in State /\ saved' \in State
      /\ edits' \in Nat /\ faults' \in Nat /\ kills' \in Nat /\ mem' = saved'
      /\ (mem' = With(step.id, r) /\ step' = NextDue) \/ step' = Rest
  <2>1. CASE Save(With(step.id, r), NextDue)
    BY <1>1, <1>2, <2>1, Saving
  <2>2. CASE /\ mem' = With(step.id, r) /\ saved' = mem' /\ step' = NextDue
             /\ edits' \in Nat /\ faults' \in Nat /\ kills' \in Nat
    <3>1. KnowsInv' /\ Recorded'
      BY <1>2, <2>2 DEF KnowsInv, Recorded
    <3>2. mem' \in State
      BY <1>2, <2>2 DEF Knows
    <3> QED BY <1>1, <2>2, <3>1, <3>2
  <2> QED BY <2>1, <2>2
<1>4. StepInv'
  <2>1. CASE step' = Rest
    BY <1>1, <2>1, Idles
  <2>2. CASE mem' = With(step.id, r) /\ step' = NextDue
    BY <1>1, <1>3, <2>2, AttemptEnds
  <2> QED BY <1>3, <2>1, <2>2
<1>5. TypeOK'
  BY <1>3 DEF IInv, TypeOK
<1> QED BY <1>3, <1>4, <1>5 DEF IInv, FilesInv, Paired, Sheltered

(* The same for one that goes on with the quarantine.                      *)
LEMMA HidingKeeps ==
  ASSUME IInv, step.at \in Processing, NEW r \in Job, r.status # "none",
         \/ Save(With(step.id, r), [step EXCEPT !.at = "evidence"])
         \/ /\ mem' = With(step.id, r) /\ saved' = mem'
            /\ step' = [step EXCEPT !.at = "evidence"]
            /\ edits' \in Nat /\ faults' \in Nat /\ kills' \in Nat,
         UNCHANGED <<files, clock>>, runs' \in [Id -> Runs],
         Knows(mem, quar, reason, runs'), JobOK(step.id, r, quar, reason, runs'),
         BoundedAttempts'
  PROVE  IInv'
<1> DEFINE next == [step EXCEPT !.at = "evidence"]
<1>1. TypeOK /\ StepInv /\ mem = saved /\ step.id \in Id /\ next \in Step
  BY AttemptKnows, Rests DEF IInv, At
<1>2. Knows(With(step.id, r), quar', reason', runs') /\ Knows(saved, quar', reason', runs')
  BY <1>1, KnowsWith DEF With, files
<1> HIDE DEF next
<1>3. /\ KnowsInv' /\ Recorded' /\ step' \in Step /\ mem' \in State /\ saved' \in State
      /\ edits' \in Nat /\ faults' \in Nat /\ kills' \in Nat /\ mem' = saved'
      /\ (mem' = With(step.id, r) /\ step' = next) \/ step' = Rest
  <2>1. CASE Save(With(step.id, r), next)
    BY <1>1, <1>2, <2>1, Saving
  <2>2. CASE /\ mem' = With(step.id, r) /\ saved' = mem' /\ step' = next
             /\ edits' \in Nat /\ faults' \in Nat /\ kills' \in Nat
    <3>1. KnowsInv' /\ Recorded'
      BY <1>2, <2>2 DEF KnowsInv, Recorded
    <3>2. mem' \in State
      BY <1>2, <2>2 DEF Knows
    <3> QED BY <1>1, <2>2, <3>1, <3>2
  <2> QED BY <2>1, <2>2 DEF next
<1>4. StepInv'
  <2>1. CASE step' = Rest
    BY <1>1, <2>1, Idles
  <2>2. CASE mem' = With(step.id, r) /\ step' = next
    BY <1>1, <1>3, <2>2, AttemptHides DEF next
  <2> QED BY <1>3, <2>1, <2>2
<1>5. TypeOK'
  BY <1>3 DEF IInv, TypeOK, files
<1> QED BY <1>3, <1>4, <1>5 DEF IInv, FilesInv, Paired, Sheltered, files

(* Going on to an attempt at a job, which r becomes.                       *)
LEMMA TakeKeeps ==
  ASSUME IInv, NEW id \in step.due, step.at = "due", UNCHANGED <<files, runs, clock>>,
         NEW where \in {"due", "process", "evidence"}, NEW r \in Job,
         NEW next, next = [step EXCEPT !.at = where, !.id = id, !.due = @ \ {id}],
         r.status # "none", JobOK(id, r, quar, reason, runs),
         where = "process" => runs[id].made < r.attempts + runs[id].spared /\ r.attempts > 0,
         \/ Save(With(id, r), next)
         \/ /\ mem' = With(id, r) /\ saved' = mem' /\ step' = next
            /\ edits' \in Nat /\ faults' \in Nat /\ kills' \in Nat
  PROVE  IInv'
<1>1. /\ TypeOK /\ mem = saved /\ mem \in State /\ step \in Step /\ id \in Id
      /\ Knows(mem, quar, reason, runs) /\ \A j \in step.due : IsDue(mem.jobs[j])
      /\ step.due \subseteq Id
  BY DEF IInv, TypeOK, StepInv, KnowsInv, Step
<1>2. /\ next \in Step /\ next.at = where /\ next.id = id /\ next.due = step.due \ {id}
  BY <1>1 DEF Step, At
<1>3. Knows(With(id, r), quar', reason', runs') /\ Knows(saved, quar', reason', runs')
  BY <1>1, KnowsWith DEF With, files
<1>4. /\ KnowsInv' /\ Recorded' /\ step' \in Step /\ mem' \in State /\ saved' \in State
      /\ edits' \in Nat /\ faults' \in Nat /\ kills' \in Nat /\ mem' = saved'
      /\ (mem' = With(id, r) /\ step' = next) \/ step' = Rest
  <2>1. CASE Save(With(id, r), next)
    BY <1>1, <1>2, <1>3, <2>1, Saving
  <2>2. CASE /\ mem' = With(id, r) /\ saved' = mem' /\ step' = next
             /\ edits' \in Nat /\ faults' \in Nat /\ kills' \in Nat
    <3>1. KnowsInv' /\ Recorded'
      BY <1>3, <2>2 DEF KnowsInv, Recorded
    <3>2. mem' \in State
      BY <1>3, <2>2 DEF Knows
    <3> QED BY <1>2, <2>2, <3>1, <3>2
  <2> QED BY <2>1, <2>2
<1>5. StepInv'
  <2>1. CASE step' = Rest
    BY <1>1, <2>1, Idles
  <2>2. CASE mem' = With(id, r) /\ step' = next
    <3>1. mem'.jobs[id] = r /\ \A j \in Id \ {id} : mem'.jobs[j] = mem.jobs[j]
      BY <1>1, <2>2, WithJob DEF With
    <3>2. \A j \in step'.due : IsDue(mem'.jobs[j])
      <4> SUFFICES ASSUME NEW j \in step'.due PROVE IsDue(mem'.jobs[j])
        OBVIOUS
      <4>1. j \in step.due /\ j # id /\ j \in Id
        BY <1>1, <1>2, <2>2
      <4>2. mem'.jobs[j] = mem.jobs[j]
        BY <3>1, <4>1
      <4> QED BY <1>1, <4>1, <4>2
    <3>3. job' = r /\ step'.id = id /\ step'.id \notin step'.due
      BY <1>2, <2>2, <3>1 DEF job
    <3>4. runs'[id] = runs[id]
      OBVIOUS
    <3> QED BY <1>2, <1>4, <2>2, <3>2, <3>3, <3>4
         DEF StepInv, Processing, Hiding, IsDue
  <2> QED BY <1>4, <2>1, <2>2
<1>6. TypeOK'
  BY <1>4 DEF IInv, TypeOK, files
<1> QED BY <1>4, <1>5, <1>6 DEF IInv, FilesInv, Paired, Sheltered, BoundedAttempts, files

LEMMA DueJob ==
  ASSUME IInv, NEW id \in step.due
  PROVE  /\ id \in Id /\ mem \in State /\ mem.jobs[id] \in Job /\ IsDue(mem.jobs[id])
         /\ mem.jobs[id].status \in {"ready", "quarantinePending", "retry"}
         /\ mem.jobs[id].status # "none"
         /\ JobOK(id, mem.jobs[id], quar, reason, runs)
<1>1. /\ mem \in State /\ step \in Step /\ Knows(mem, quar, reason, runs)
      /\ IsDue(mem.jobs[id])
  BY DEF IInv, TypeOK, KnowsInv, StepInv
<1>2. id \in Id
  BY <1>1 DEF Step
<1> QED BY <1>1, <1>2 DEF Knows, State, IsDue

(* A job that is known stays so when only its status changes.              *)
Sound(id, r, n) == r \in Job /\ r.status # "none" /\ JobOK(id, r, quar, reason, n)

LEMMA StatusSound ==
  ASSUME NEW id \in Id, NEW r, NEW n, Sound(id, r, n)
  PROVE  /\ Sound(id, [r EXCEPT !.status = "superseded"], n)
         /\ Sound(id, [r EXCEPT !.status = "quarantinePending"], n)
         /\ Sound(id, [r EXCEPT !.status = "completed", !.due = FALSE], n)
         /\ Sound(id, [r EXCEPT !.status = "retry", !.due = FALSE], n)
BY DEF Sound, Job, JobOK, Status, Finished

LEMMA TakeStepKeeps == ASSUME IInv, NEW id \in Id, Take(id) PROVE IInv'
<1> DEFINE r == mem.jobs[id]
           at(where) == [step EXCEPT !.at = where, !.id = id, !.due = @ \ {id}]
<1>1. step.at = "due" /\ id \in step.due /\ UNCHANGED <<files, runs, clock>>
  BY DEF Take
<1>2. /\ r \in Job /\ mem \in State /\ JobOK(id, r, quar, reason, runs)
      /\ r.status # "none"
      /\ mem = saved /\ step \in Step /\ runs \in [Id -> Runs]
      /\ edits \in Nat /\ faults \in Nat /\ kills \in Nat
  BY <1>1, DueJob DEF IInv, StepInv, TypeOK
<1>3. Sound(id, r, runs)
  BY <1>2 DEF Sound
<1>4. CASE r.status = "quarantinePending" /\ step' = at("evidence")
           /\ UNCHANGED <<mem, saved, counters>>
  <2>1. mem' = With(id, r)
    <3>1. mem.jobs = [mem.jobs EXCEPT ![id] = r] /\ mem = [mem EXCEPT !.jobs = mem.jobs]
      BY <1>2 DEF State
    <3>2. [mem EXCEPT !.jobs[id] = r] = [mem EXCEPT !.jobs = [mem.jobs EXCEPT ![id] = r]]
      BY <1>2 DEF State
    <3> QED BY <1>4, <3>1, <3>2 DEF With
  <2>2. saved' = mem' /\ edits' \in Nat /\ faults' \in Nat /\ kills' \in Nat
    BY <1>2, <1>4 DEF counters
  <2> HIDE DEF r
  <2> QED BY <1>1, <1>2, <1>4, <2>1, <2>2, TakeKeeps
<1>5. CASE Save(With(id, Quarantining(id)), at("evidence"))
  <2>1. Sound(id, Quarantining(id), runs)
    BY <1>3, StatusSound DEF Quarantining
  <2> QED BY <1>1, <1>5, <2>1, TakeKeeps DEF Sound
<1>6. CASE ~(r.attempts >= MaxAttempts) /\ Save(With(id, Started(r)), at("process"))
  <2> HIDE DEF r
  <2>1. r.attempts \in Nat /\ r.attempts + 1 \in Nat
    BY <1>2 DEF Job
  <2>2. /\ Started(r) \in Job /\ Started(r).status = "processing"
        /\ Started(r).attempts = r.attempts + 1
    BY <1>2, <2>1 DEF Started, Job, Status
  <2>3. /\ runs[id].made <= r.attempts + runs[id].spared
        /\ runs[id].made \in Nat /\ runs[id].spared \in Nat
    BY <1>2 DEF JobOK, Runs
  <2>4. /\ runs[id].made < Started(r).attempts + runs[id].spared
        /\ Started(r).attempts > 0
    BY <2>1, <2>2, <2>3
  <2>5. Started(r).attempts <= MaxAttempts
    BY <1>6, <2>1, <2>2, LimitAssumption
  <2>6. JobOK(id, Started(r), quar, reason, runs)
    BY <2>1, <2>2, <2>3, <2>5 DEF JobOK
  <2>7. Started(r).status # "none"
    BY <2>2
  <2> QED BY <1>1, <1>6, <2>2, <2>4, <2>6, <2>7, TakeKeeps
<1>7. CASE Save(Superseded(id), at("due"))
  <2> DEFINE r2 == [mem.jobs[id] EXCEPT !.status = "superseded"]
  <2>1. Sound(id, r2, runs)
    BY <1>3, StatusSound
  <2>2. Save(With(id, r2), at("due"))
    BY <1>7 DEF Superseded
  <2> HIDE DEF r2
  <2> QED BY <1>1, <2>1, <2>2, TakeKeeps DEF Sound
<1> QED BY <1>4, <1>5, <1>6, <1>7 DEF Take

LEMMA TakeUnreadableKeeps == ASSUME IInv, NEW id \in Id, TakeUnreadable(id) PROVE IInv'
<1> DEFINE old == mem.jobs[id]
           r == [old EXCEPT !.status = "superseded"]
<1>1. /\ step.at = "due" /\ id \in step.due /\ UNCHANGED <<files, runs, clock>>
      /\ mem' = Superseded(id) /\ saved' = mem'
      /\ step' = [step EXCEPT !.due = @ \ {id}]
      /\ edits' \in Nat /\ faults' \in Nat /\ kills' \in Nat
  BY DEF TakeUnreadable, Fault, IInv, TypeOK
<1>2. r \in Job /\ r.status # "none" /\ JobOK(id, r, quar, reason, runs)
  <2>1. Sound(id, old, runs)
    BY <1>1, DueJob DEF Sound
  <2>2. Sound(id, r, runs)
    BY <2>1, StatusSound
  <2> HIDE DEF r
  <2> QED BY <2>2 DEF Sound
<1>3. /\ mem \in State /\ mem = saved /\ step \in Step /\ step.due \subseteq Id
      /\ Knows(mem, quar, reason, runs)
      /\ \A j \in step.due : IsDue(mem.jobs[j])
  BY <1>1 DEF IInv, StepInv, TypeOK, KnowsInv, Step
<1>4. mem' = [mem EXCEPT !.jobs[id] = r]
  BY <1>1 DEF Superseded, With
<1> HIDE DEF r
<1>5. Knows(mem', quar, reason, runs)
  BY <1>2, <1>3, <1>4, KnowsWith
<1>6. KnowsInv' /\ mem' \in State
  BY <1>1, <1>5 DEF KnowsInv, Knows, files
<1>7. step' \in Step /\ step'.at = "due" /\ step'.due = step.due \ {id}
  BY <1>1, <1>3 DEF Step
<1>8. StepInv'
  <2>1. \A j \in Id \ {id} : mem'.jobs[j] = mem.jobs[j]
    BY <1>2, <1>3, <1>4, WithJob
  <2>2. \A j \in step'.due : IsDue(mem'.jobs[j])
    BY <1>3, <1>7, <2>1
  <2> QED BY <1>1, <1>7, <2>2 DEF StepInv, Processing, Hiding, IsDue
<1>9. TypeOK'
  BY <1>1, <1>6, <1>7 DEF IInv, TypeOK, files
<1> QED BY <1>1, <1>6, <1>8, <1>9
     DEF IInv, FilesInv, Paired, Sheltered, BoundedAttempts, Recorded, files

(* An attempt that counts no more than its job has paid for.               *)
LEMMA CountsPaid ==
  ASSUME IInv, step.at \in Processing \cup Hiding, NEW n \in Runs,
         runs' = [runs EXCEPT ![step.id] = n], n.made <= job.attempts + n.spared
  PROVE  /\ runs' \in [Id -> Runs] /\ BoundedAttempts'
         /\ Knows(mem, quar, reason, runs')
         /\ Sound(step.id, job, runs')
<1>1. /\ mem \in State /\ step.id \in Id /\ job \in Job /\ job.status # "none"
      /\ JobOK(step.id, job, quar, reason, runs)
      /\ Knows(mem, quar, reason, runs) /\ runs \in [Id -> Runs] /\ BoundedAttempts
  BY AttemptKnows DEF IInv, TypeOK
<1>2. /\ runs' \in [Id -> Runs] /\ runs'[step.id] = n
      /\ \A id \in Id \ {step.id} : runs'[id] = runs[id]
  BY <1>1
<1>3. Sound(step.id, job, runs')
  BY <1>1, <1>2 DEF Sound, JobOK
<1>4. Knows(mem, quar, reason, runs')
  <2> SUFFICES ASSUME NEW id \in Id PROVE JobOK(id, mem.jobs[id], quar, reason, runs')
    BY <1>1 DEF Knows
  <2>1. CASE id = step.id
    BY <1>3, <2>1 DEF Sound, job
  <2>2. CASE id # step.id
    BY <1>1, <1>2, <2>2 DEF Knows, JobOK
  <2> QED BY <2>1, <2>2
<1>5. BoundedAttempts'
  <2> SUFFICES ASSUME NEW id \in Id PROVE runs'[id].made <= MaxAttempts + runs'[id].spared
    BY DEF BoundedAttempts
  <2>1. CASE id = step.id
    <3>1. job.attempts \in Nat /\ job.attempts <= MaxAttempts
      BY <1>1 DEF Job, JobOK
    <3>2. n.made \in Nat /\ n.spared \in Nat
      BY DEF Runs
    <3> QED BY <1>2, <2>1, <3>1, <3>2, LimitAssumption
  <2>2. CASE id # step.id
    BY <1>1, <1>2, <2>2 DEF BoundedAttempts
  <2> QED BY <2>1, <2>2
<1> QED BY <1>2, <1>3, <1>4, <1>5

(* An attempt counts at most one processing, and before it its budget.     *)
LEMMA Counts ==
  ASSUME IInv, step.at \in Processing \cup Hiding,
         \/ runs' = runs
         \/ step.at = "render" /\ runs' = [runs EXCEPT ![step.id].made = @ + 1]
  PROVE  /\ runs' \in [Id -> Runs] /\ BoundedAttempts'
         /\ Knows(mem, quar, reason, runs')
         /\ Sound(step.id, job, runs')
<1>1. /\ step.id \in Id /\ job \in Job /\ runs \in [Id -> Runs]
      /\ JobOK(step.id, job, quar, reason, runs) /\ job.status # "none"
      /\ Knows(mem, quar, reason, runs) /\ BoundedAttempts
  BY AttemptKnows DEF IInv, TypeOK
<1>2. CASE runs' = runs
  BY <1>1, <1>2 DEF Sound, BoundedAttempts
<1>3. CASE step.at = "render" /\ runs' = [runs EXCEPT ![step.id].made = @ + 1]
  <2> DEFINE n == [runs[step.id] EXCEPT !.made = @ + 1]
  <2>1. runs[step.id].made < job.attempts + runs[step.id].spared
    BY <1>3 DEF IInv, StepInv
  <2>2. /\ runs[step.id] \in Runs /\ job.attempts \in Nat
        /\ runs[step.id].made \in Nat /\ runs[step.id].spared \in Nat
    BY <1>1 DEF Runs, Job
  <2>3. n \in Runs /\ n.made = runs[step.id].made + 1 /\ n.spared = runs[step.id].spared
    BY <2>2 DEF Runs
  <2>4. runs' = [runs EXCEPT ![step.id] = n]
    BY <1>1, <1>3
  <2> HIDE DEF n
  <2>5. n.made <= job.attempts + n.spared
    BY <2>1, <2>2, <2>3
  <2> QED BY <2>3, <2>4, <2>5, CountsPaid
<1> QED BY <1>2, <1>3

LEMMA OutcomeKeeps ==
  ASSUME IInv, step.at \in Processing, UNCHANGED <<files, clock>>,
         \/ runs' = runs
         \/ step.at = "render" /\ runs' = [runs EXCEPT ![step.id].made = @ + 1],
         Permanent \/ Retryable
  PROVE  IInv'
<1>1. /\ runs' \in [Id -> Runs] /\ BoundedAttempts'
      /\ Knows(mem, quar, reason, runs') /\ Sound(step.id, job, runs')
  BY Counts
<1>2. inbox' \in [Paths -> File] /\ clock' \in Nat /\ step.id \in Id
      /\ UNCHANGED <<out, receipt, quar, reason>>
  BY AttemptKnows DEF IInv, TypeOK, files
<1>4. CASE Permanent
  <2>1. Sound(step.id, Quarantining(step.id), runs')
    BY <1>1, <1>2, StatusSound DEF Quarantining, job
  <2>2. Save(With(step.id, Quarantining(step.id)), [step EXCEPT !.at = "evidence"])
    BY <1>4 DEF Permanent
  <2> QED BY <1>1, <1>2, <2>1, <2>2, HidingKeeps DEF Sound
<1>5. CASE Save(With(step.id, Waiting), NextDue)
  <2>1. Sound(step.id, Waiting, runs')
    BY <1>1, <1>2, StatusSound DEF Waiting
  <2> QED BY <1>1, <1>2, <1>5, <2>1, EndingKeeps DEF Sound
<1> QED BY <1>4, <1>5 DEF Retryable

(* Nothing is written; the attempt goes on at another of its steps.        *)
LEMMA GoesOn ==
  ASSUME IInv, step.at \in Processing \cup Hiding,
         NEW where \in Processing \cup Hiding,
         UNCHANGED <<mem, saved, counters>>,
         step' \in Step, step'.at = where, step'.id = step.id, step'.due = step.due,
         inbox' \in [Paths -> File], out' \in [Place -> Contents \cup {None}],
         receipt' \in [Place -> Contents \cup {None}],
         quar' \in [Place -> Contents \cup {None}], reason' \in [Place -> Nat],
         clock' \in Nat, runs' \in [Id -> Runs],
         Grows(quar, quar'), Grows(reason, reason'),
         Knows(mem, quar, reason, runs'), BoundedAttempts', FilesInv',
         where \in Processing => step.at \in Processing,
         where \in {"process", "render"} =>
           runs'[step.id].made < job.attempts + runs'[step.id].spared,
         where \in {"render", "publish"} => out'[job.place] = None,
         where \in {"render", "publish", "pair"} => receipt'[job.place] = None,
         where \in {"pair", "output"} => out'[job.place] \in {None, step.id.content},
         where \in {"output", "receipt"} => receipt'[job.place] \in {None, step.id.content},
         where \in {"receipt", "record"} =>
           out'[job.place] = step.id.content \/ "output" \in step'.touched,
         where = "record" =>
           receipt'[job.place] = step.id.content \/ "receipt" \in step'.touched,
         where \in Hiding \ {"evidence"} => job.evidence # None,
         where \in {"explain", "check", "remove", "done"} => quar'[Asylum'] = step.id.content,
         where \in {"check", "remove", "done"} => reason'[Asylum'] = job.evidence,
         where = "remove" => Source'.content = step.id.content
  PROVE  IInv'
<1>1. /\ mem = saved /\ mem \in State /\ step \in Step /\ step.id \in Id
      /\ job.status # "none" /\ step.id \notin step.due
      /\ \A id \in step.due : IsDue(mem.jobs[id])
  BY AttemptKnows DEF IInv, StepInv
<1>2. where \in At /\ where \notin {"off", "rest", "scan", "due"}
  BY DEF Processing, Hiding, At
<1>4. KnowsInv'
  BY <1>1, KnowsGrows DEF KnowsInv
<1>5. TypeOK'
  BY DEF IInv, TypeOK, counters
<1>6. /\ job' = job
      /\ where \in Processing => job.attempts > 0
  BY DEF job, IInv, StepInv
<1>7. \A id \in step'.due : IsDue(mem'.jobs[id])
  BY <1>1
<1>8. StepInv'
  BY <1>1, <1>2, <1>6, <1>7 DEF StepInv, Processing, Hiding, IsDue
<1>9. Recorded'
  BY DEF IInv, Recorded
<1> QED BY <1>4, <1>5, <1>8, <1>9 DEF IInv

(* The same when no file changes, and the count at most as it may.         *)
LEMMA GoesOnQuietly ==
  ASSUME IInv, step.at \in Processing \cup Hiding,
         NEW where \in Processing \cup Hiding,
         UNCHANGED <<files, mem, saved, clock, counters>>,
         \/ runs' = runs
         \/ step.at = "render" /\ runs' = [runs EXCEPT ![step.id].made = @ + 1],
         step' = [step EXCEPT !.at = where],
         where \in Processing => step.at \in Processing,
         where \in {"process", "render"} =>
           runs'[step.id].made < job.attempts + runs'[step.id].spared,
         where \in {"render", "publish"} => out[job.place] = None,
         where \in {"render", "publish", "pair"} => receipt[job.place] = None,
         where \in {"pair", "output"} => out[job.place] \in {None, step.id.content},
         where \in {"output", "receipt"} => receipt[job.place] \in {None, step.id.content},
         where \in {"receipt", "record"} =>
           out[job.place] = step.id.content \/ "output" \in step.touched,
         where = "record" =>
           receipt[job.place] = step.id.content \/ "receipt" \in step.touched,
         where \in Hiding \ {"evidence"} => job.evidence # None,
         where \in {"explain", "check", "remove", "done"} => quar[Asylum] = step.id.content,
         where \in {"check", "remove", "done"} => reason[Asylum] = job.evidence,
         where = "remove" => Source.content = step.id.content
  PROVE  IInv'
<1>1. /\ runs' \in [Id -> Runs] /\ BoundedAttempts' /\ Knows(mem, quar, reason, runs')
  BY Counts
<1>2. /\ inbox' = inbox /\ out' = out /\ receipt' = receipt /\ quar' = quar
      /\ reason' = reason /\ clock' = clock
  BY DEF files
<1>3. /\ inbox \in [Paths -> File] /\ out \in [Place -> Contents \cup {None}]
      /\ receipt \in [Place -> Contents \cup {None}]
      /\ quar \in [Place -> Contents \cup {None}] /\ reason \in [Place -> Nat]
      /\ clock \in Nat /\ FilesInv
  BY DEF IInv, TypeOK
<1>4. Grows(quar, quar') /\ Grows(reason, reason')
  BY <1>2 DEF Grows
<1>5. FilesInv'
  BY <1>2, <1>3 DEF FilesInv, Paired, Sheltered
<1>6. /\ step' \in Step /\ step'.at = where /\ step'.id = step.id /\ step'.due = step.due
      /\ step'.touched = step.touched
  <2>1. where \in At
    BY DEF Processing, Hiding, At
  <2> QED BY <2>1, Rests DEF IInv
<1>7. Asylum' = Asylum /\ Source' = Source
  BY <1>2, <1>6 DEF Asylum, Source
<1> QED BY <1>1, <1>2, <1>3, <1>4, <1>5, <1>6, <1>7, GoesOn

(* The pair that is found there is of the input of the job.                *)
LEMMA RecoversKeeps ==
  ASSUME IInv, step.at \in Processing, Recovers, GoTo("output"),
         UNCHANGED <<files, mem, saved, runs, clock, counters>>
  PROVE  IInv'
<1>1. step' = [step EXCEPT !.at = "output"]
  BY DEF GoTo
<1>2. job.place \in Place /\ Paired
  BY AttemptKnows DEF Job, IInv, FilesInv
<1>3. receipt[job.place] = step.id.content /\ out[job.place] = step.id.content
  BY <1>2 DEF Recovers, Has, Paired
<1>4. "output" \in Processing /\ "output" \notin Hiding
  BY DEF Processing, Hiding
<1> QED BY <1>1, <1>3, <1>4, GoesOnQuietly

LEMMA ProcessKeeps == ASSUME IInv, Process PROVE IInv'
<1>1. step.at = "process" /\ UNCHANGED <<files, runs, clock>>
  BY DEF Process
<1>2. step.at \in Processing
  BY <1>1 DEF Processing
<1>3. CASE Permanent
  BY <1>1, <1>2, <1>3, OutcomeKeeps
<1>4. CASE ~Has(out) /\ ~Has(receipt) /\ GoTo("render") /\ UNCHANGED <<mem, saved, counters>>
  <2>1. step' = [step EXCEPT !.at = "render"]
    BY <1>4 DEF GoTo
  <2>2. out[job.place] = None /\ receipt[job.place] = None
    BY <1>4 DEF Has
  <2>3. runs'[step.id].made < job.attempts + runs'[step.id].spared
    BY <1>1 DEF IInv, StepInv
  <2>4. "render" \in Processing /\ "render" \notin Hiding
    BY DEF Processing, Hiding
  <2> QED BY <1>1, <1>2, <1>4, <2>1, <2>2, <2>3, <2>4, GoesOnQuietly
<1>5. CASE Recovers /\ GoTo("output") /\ UNCHANGED <<mem, saved, counters>>
  BY <1>1, <1>2, <1>5, RecoversKeeps
<1> QED BY <1>3, <1>4, <1>5 DEF Process

(* An attempt is taken back: its job waits as if it had not been made.     *)
LEMMA DefersKeeps ==
  ASSUME IInv, step.at \in Processing, UNCHANGED <<files, clock>>,
         runs' \in [Id -> Runs], BoundedAttempts', Knows(mem, quar, reason, runs'),
         runs'[step.id].made < job.attempts + runs'[step.id].spared,
         mem' = With(step.id, [Waiting EXCEPT !.attempts = @ - 1]), saved' = mem',
         step' = NextDue, edits' \in Nat, faults' \in Nat, kills' \in Nat
  PROVE  IInv'
<1> DEFINE r == [Waiting EXCEPT !.attempts = @ - 1]
<1>1. inbox' \in [Paths -> File] /\ clock' \in Nat /\ step.id \in Id
      /\ UNCHANGED <<out, receipt, quar, reason>>
      /\ job \in Job /\ job.attempts > 0 /\ job.attempts <= MaxAttempts
  BY AttemptKnows DEF IInv, TypeOK, StepInv, files, JobOK
<1>2. /\ Waiting \in Job /\ Waiting.status = "retry" /\ Waiting.attempts = job.attempts
      /\ job.attempts \in Nat
  BY <1>1 DEF Waiting, Job, Status
<1>3. runs'[step.id].made \in Nat /\ runs'[step.id].spared \in Nat
  BY <1>1 DEF Runs
<1>4. /\ job.attempts - 1 \in Nat
      /\ runs'[step.id].made <= (job.attempts - 1) + runs'[step.id].spared
  BY <1>1, <1>2, <1>3
<1>5. r \in Job /\ r.status = "retry" /\ r.attempts = job.attempts - 1
  BY <1>2, <1>4 DEF Job
<1>6. r.attempts <= MaxAttempts
  BY <1>1, <1>2, <1>5, LimitAssumption
<1>7. mem' = With(step.id, r)
  OBVIOUS
<1> HIDE DEF r
<1>8. JobOK(step.id, r, quar, reason, runs')
  BY <1>4, <1>5, <1>6 DEF JobOK
<1> QED BY <1>1, <1>5, <1>7, <1>8, EndingKeeps

LEMMA ProcessDefersKeeps == ASSUME IInv, ProcessDefers PROVE IInv'
<1>1. /\ step.at = "process" /\ UNCHANGED <<files, runs, clock>>
      /\ mem' = With(step.id, [Waiting EXCEPT !.attempts = @ - 1]) /\ saved' = mem'
      /\ step' = NextDue /\ edits' \in Nat /\ faults' \in Nat /\ kills' \in Nat
  BY DEF ProcessDefers, Fault, IInv, TypeOK
<1>2. step.at \in Processing
  BY <1>1 DEF Processing
<1>3. runs' \in [Id -> Runs] /\ BoundedAttempts' /\ Knows(mem, quar, reason, runs')
  BY <1>1, <1>2, Counts
<1>4. runs'[step.id].made < job.attempts + runs'[step.id].spared
  BY <1>1 DEF IInv, StepInv
<1> QED BY <1>1, <1>2, <1>3, <1>4, DefersKeeps

LEMMA RenderKeeps == ASSUME IInv, Render PROVE IInv'
<1>1. /\ step.at = "render" /\ runs' = [runs EXCEPT ![step.id].made = @ + 1]
      /\ UNCHANGED <<files, clock>>
  BY DEF Render
<1>2. step.at \in Processing
  BY <1>1 DEF Processing
<1>3. CASE Retryable \/ Permanent
  BY <1>1, <1>2, <1>3, OutcomeKeeps
<1>4. CASE GoTo("publish") /\ UNCHANGED <<mem, saved, counters>>
  <2>1. step' = [step EXCEPT !.at = "publish"]
    BY <1>4 DEF GoTo
  <2>2. out[job.place] = None /\ receipt[job.place] = None
    BY <1>1 DEF IInv, StepInv
  <2>3. "publish" \in Processing /\ "publish" \notin Hiding
    BY DEF Processing, Hiding
  <2> QED BY <1>1, <1>2, <1>4, <2>1, <2>2, <2>3, GoesOnQuietly
<1> QED BY <1>3, <1>4 DEF Render

LEMMA RunFailsKeeps == ASSUME IInv, RunFails PROVE IInv'
<1>1. /\ step.at \in {"render", "pair"} /\ UNCHANGED <<files, clock>>
      /\ runs' = [runs EXCEPT ![step.id].made = IF step.at = "render" THEN @ + 1 ELSE @]
      /\ saved' = mem' /\ edits' \in Nat /\ faults' \in Nat /\ kills' \in Nat
  BY DEF RunFails, Fault, IInv, TypeOK
<1>2. step.at \in Processing
  BY <1>1 DEF Processing
<1>3. \/ runs' = runs
      \/ step.at = "render" /\ runs' = [runs EXCEPT ![step.id].made = @ + 1]
  <2>1. step.id \in Id /\ runs \in [Id -> Runs]
    BY <1>2, AttemptKnows DEF IInv, TypeOK
  <2> QED BY <1>1, <2>1 DEF Runs
<1>4. /\ runs' \in [Id -> Runs] /\ BoundedAttempts'
      /\ Knows(mem, quar, reason, runs') /\ Sound(step.id, job, runs')
  BY <1>2, <1>3, Counts
<1>5. inbox' \in [Paths -> File] /\ clock' \in Nat /\ step.id \in Id
      /\ UNCHANGED <<out, receipt, quar, reason>>
  BY <1>1, <1>2, AttemptKnows DEF IInv, TypeOK, files
<1>6. CASE mem' = With(step.id, Quarantining(step.id)) /\ step' = [step EXCEPT !.at = "evidence"]
  <2>1. Sound(step.id, Quarantining(step.id), runs')
    BY <1>4, <1>5, StatusSound DEF Quarantining, job
  <2> QED BY <1>1, <1>2, <1>4, <1>5, <1>6, <2>1, HidingKeeps DEF Sound
<1>7. CASE mem' = With(step.id, Waiting) /\ step' = NextDue
  <2>1. Sound(step.id, Waiting, runs')
    BY <1>4, <1>5, StatusSound DEF Waiting
  <2> QED BY <1>1, <1>2, <1>4, <1>5, <1>7, <2>1, EndingKeeps DEF Sound
<1> QED BY <1>6, <1>7 DEF RunFails

LEMMA RunDefersKeeps == ASSUME IInv, RunDefers PROVE IInv'
<1> DEFINE n == [made |-> IF step.at = "render" THEN runs[step.id].made + 1
                          ELSE runs[step.id].made,
                 spared |-> runs[step.id].spared + 1]
<1>1. /\ step.at \in {"render", "pair"} /\ UNCHANGED <<files, clock>>
      /\ mem' = With(step.id, [Waiting EXCEPT !.attempts = @ - 1]) /\ saved' = mem'
      /\ step' = NextDue /\ edits' \in Nat /\ faults' \in Nat /\ kills' \in Nat
  BY DEF RunDefers, Fault, IInv, TypeOK
<1>2. step.at \in Processing
  BY <1>1 DEF Processing
<1>3. /\ step.id \in Id /\ runs \in [Id -> Runs] /\ runs[step.id] \in Runs
      /\ job \in Job /\ JobOK(step.id, job, quar, reason, runs) /\ job.status # "none"
  BY <1>2, AttemptKnows DEF IInv, TypeOK
<1>4. /\ job.attempts \in Nat
      /\ runs[step.id].made \in Nat /\ runs[step.id].spared \in Nat
  BY <1>3 DEF Job, Runs
<1>5. n \in Runs
  BY <1>4 DEF Runs
<1>6. runs' = [runs EXCEPT ![step.id] = n]
  BY <1>3 DEF RunDefers
<1>7. n.made < job.attempts + n.spared
  <2>1. CASE step.at = "render"
    <3>1. runs[step.id].made < job.attempts + runs[step.id].spared
      BY <2>1 DEF IInv, StepInv
    <3> QED BY <1>4, <2>1, <3>1
  <2>2. CASE step.at = "pair"
    <3>1. runs[step.id].made <= job.attempts + runs[step.id].spared
      BY <1>3 DEF JobOK
    <3> QED BY <1>4, <2>2, <3>1
  <2> QED BY <1>1, <2>1, <2>2
<1>8. n.made \in Nat /\ n.spared \in Nat
  BY <1>5 DEF Runs
<1> HIDE DEF n
<1>9. n.made <= job.attempts + n.spared
  BY <1>4, <1>7, <1>8
<1>10. runs' \in [Id -> Runs] /\ BoundedAttempts' /\ Knows(mem, quar, reason, runs')
  BY <1>2, <1>5, <1>6, <1>9, CountsPaid
<1>11. runs'[step.id].made < job.attempts + runs'[step.id].spared
  BY <1>3, <1>6, <1>7
<1> QED BY <1>1, <1>2, <1>10, <1>11, DefersKeeps

LEMMA VerifyKeeps == ASSUME IInv, Verify PROVE IInv'
<1>1. step.at \in Processing /\ UNCHANGED <<files, runs, clock>>
  BY DEF Verify, Processing
<1>2. CASE Permanent
  BY <1>1, <1>2, OutcomeKeeps
<1>3. CASE Recovers /\ GoTo("output") /\ UNCHANGED <<mem, saved, counters>>
  BY <1>1, <1>3, RecoversKeeps
<1> QED BY <1>2, <1>3 DEF Verify

(* The attempt ends without a word: its job stays in processing.           *)
LEMMA BreaksOff ==
  ASSUME IInv, step.at \in Processing, step' = Rest,
         UNCHANGED <<files, mem, saved, runs, clock, counters>>
  PROVE  IInv'
<1>1. StepInv'
  BY Idles DEF IInv
<1>2. TypeOK'
  BY Rests DEF IInv, TypeOK, files, counters
<1> QED BY <1>1, <1>2
     DEF IInv, KnowsInv, Recorded, FilesInv, Paired, Sheltered, BoundedAttempts, files

LEMMA RequireOutputKeeps == ASSUME IInv, RequireOutput PROVE IInv'
<1>1. /\ step.at = "output" /\ UNCHANGED <<files, mem, saved, runs, clock, counters>>
      /\ step' = IF Has(out) THEN [step EXCEPT !.at = "receipt"] ELSE Rest
  BY DEF RequireOutput
<1>2. step.at \in Processing /\ "receipt" \in Processing /\ "receipt" \notin Hiding
  BY <1>1 DEF Processing, Hiding
<1>3. CASE ~Has(out)
  BY <1>1, <1>2, <1>3, BreaksOff
<1>4. CASE Has(out)
  <2>1. out[job.place] = step.id.content /\ receipt[job.place] \in {None, step.id.content}
    BY <1>1, <1>4 DEF IInv, StepInv, Has
  <2>2. step' = [step EXCEPT !.at = "receipt"]
    BY <1>1, <1>4
  <2> QED BY <1>1, <1>2, <2>1, <2>2, GoesOnQuietly
<1> QED BY <1>3, <1>4

LEMMA RequireReceiptKeeps == ASSUME IInv, RequireReceipt PROVE IInv'
<1>1. /\ step.at = "receipt" /\ UNCHANGED <<files, mem, saved, runs, clock, counters>>
      /\ step' = IF Has(receipt) THEN [step EXCEPT !.at = "record"] ELSE Rest
  BY DEF RequireReceipt
<1>2. step.at \in Processing /\ "record" \in Processing /\ "record" \notin Hiding
  BY <1>1 DEF Processing, Hiding
<1>3. CASE ~Has(receipt)
  BY <1>1, <1>2, <1>3, BreaksOff
<1>4. CASE Has(receipt)
  <2>1. /\ out[job.place] = step.id.content \/ "output" \in step.touched
        /\ receipt[job.place] = step.id.content
    BY <1>1, <1>4 DEF IInv, StepInv, Has
  <2>2. step' = [step EXCEPT !.at = "record"]
    BY <1>1, <1>4
  <2> QED BY <1>1, <1>2, <2>1, <2>2, GoesOnQuietly
<1> QED BY <1>3, <1>4

LEMMA CompleteKeeps == ASSUME IInv, Complete PROVE IInv'
<1>1. /\ step.at = "record" /\ UNCHANGED <<files, runs, clock>>
      /\ Save(With(step.id, [job EXCEPT !.status = "completed", !.due = FALSE]), NextDue)
  BY DEF Complete
<1>2. step.at \in Processing
  BY <1>1 DEF Processing
<1>3. /\ runs' \in [Id -> Runs] /\ BoundedAttempts'
      /\ Knows(mem, quar, reason, runs') /\ Sound(step.id, job, runs')
  BY <1>1, <1>2, Counts
<1>4. inbox' \in [Paths -> File] /\ clock' \in Nat /\ step.id \in Id
      /\ UNCHANGED <<out, receipt, quar, reason>>
  BY <1>1, <1>2, AttemptKnows DEF IInv, TypeOK, files
<1>5. Sound(step.id, [job EXCEPT !.status = "completed", !.due = FALSE], runs')
  BY <1>3, <1>4, StatusSound
<1> QED BY <1>1, <1>2, <1>3, <1>4, <1>5, EndingKeeps DEF Sound

(* An attempt that makes an output or a receipt changes no other file.     *)
LEMMA PublishKeeps == ASSUME IInv, Publish PROVE IInv'
<1>1. /\ step.at = "publish" /\ step' = [step EXCEPT !.at = "pair"]
      /\ out' = [out EXCEPT ![job.place] = step.id.content]
      /\ UNCHANGED <<inbox, receipt, quar, reason, mem, saved, runs, clock, counters>>
  BY DEF Publish, GoTo
<1>2. step.at \in Processing /\ "pair" \in Processing /\ "pair" \notin Hiding
  BY <1>1 DEF Processing, Hiding
<1>3. /\ runs' \in [Id -> Runs] /\ BoundedAttempts' /\ Knows(mem, quar, reason, runs')
      /\ job \in Job /\ step.id \in Id
  BY <1>1, <1>2, Counts, AttemptKnows
<1>4. job.place \in Place /\ step.id.content \in Contents
  BY <1>3 DEF Job, Id
<1>5. /\ inbox' \in [Paths -> File] /\ out \in [Place -> Contents \cup {None}]
      /\ receipt \in [Place -> Contents \cup {None}]
      /\ quar \in [Place -> Contents \cup {None}] /\ reason \in [Place -> Nat]
      /\ clock' \in Nat /\ FilesInv
      /\ receipt[job.place] = None
  BY <1>1 DEF IInv, TypeOK, StepInv
<1>6. /\ out' \in [Place -> Contents \cup {None}] /\ out'[job.place] = step.id.content
      /\ \A place \in Place \ {job.place} : out'[place] = out[place]
  BY <1>1, <1>4, <1>5
<1>7. FilesInv'
  BY <1>1, <1>5, <1>6 DEF FilesInv, Paired, Sheltered
<1>8. Grows(quar, quar') /\ Grows(reason, reason')
  BY <1>1 DEF Grows
<1>9. /\ step' \in Step /\ step'.at = "pair" /\ step'.id = step.id
      /\ step'.due = step.due
  BY <1>1, Rests DEF IInv, At
<1> QED BY <1>1, <1>2, <1>3, <1>5, <1>6, <1>7, <1>8, <1>9, GoesOn

LEMMA PublishReceiptKeeps == ASSUME IInv, PublishReceipt PROVE IInv'
<1>1. /\ step.at = "pair" /\ step' = [step EXCEPT !.at = "verify"]
      /\ receipt' = [receipt EXCEPT ![job.place] = step.id.content]
      /\ UNCHANGED <<inbox, out, quar, reason, mem, saved, runs, clock, counters>>
  BY DEF PublishReceipt, GoTo
<1>2. step.at \in Processing /\ "verify" \in Processing /\ "verify" \notin Hiding
  BY <1>1 DEF Processing, Hiding
<1>3. /\ runs' \in [Id -> Runs] /\ BoundedAttempts' /\ Knows(mem, quar, reason, runs')
      /\ job \in Job /\ step.id \in Id
  BY <1>1, <1>2, Counts, AttemptKnows
<1>4. job.place \in Place /\ step.id.content \in Contents
  BY <1>3 DEF Job, Id
<1>5. /\ inbox' \in [Paths -> File] /\ out \in [Place -> Contents \cup {None}]
      /\ receipt \in [Place -> Contents \cup {None}]
      /\ quar \in [Place -> Contents \cup {None}] /\ reason \in [Place -> Nat]
      /\ clock' \in Nat /\ FilesInv
      /\ out[job.place] \in {None, step.id.content}
  BY <1>1 DEF IInv, TypeOK, StepInv
<1>6. /\ receipt' \in [Place -> Contents \cup {None}] /\ receipt'[job.place] = step.id.content
      /\ \A place \in Place \ {job.place} : receipt'[place] = receipt[place]
  BY <1>1, <1>4, <1>5
<1>7. FilesInv'
  BY <1>1, <1>5, <1>6 DEF FilesInv, Paired, Sheltered
<1>8. Grows(quar, quar') /\ Grows(reason, reason')
  BY <1>1 DEF Grows
<1>9. /\ step' \in Step /\ step'.at = "verify" /\ step'.id = step.id
      /\ step'.due = step.due
  BY <1>1, Rests DEF IInv, At
<1> QED BY <1>1, <1>2, <1>3, <1>5, <1>6, <1>7, <1>8, <1>9, GoesOn

-----------------------------------------------------------------------------
(* The quarantine.                                                         *)

(* It ends with its job pending or superseded.                             *)
LEMMA GivesUpKeeps ==
  ASSUME IInv, step.at \in Hiding, Pending \/ Supersede, UNCHANGED <<files, runs, clock>>
  PROVE  IInv'
<1>1. /\ runs' \in [Id -> Runs] /\ BoundedAttempts'
      /\ Knows(mem, quar, reason, runs') /\ Sound(step.id, job, runs')
  BY Counts
<1>2. inbox' \in [Paths -> File] /\ clock' \in Nat /\ step.id \in Id
      /\ UNCHANGED <<out, receipt, quar, reason>>
  BY AttemptKnows DEF IInv, TypeOK, files
<1>3. CASE Pending
  <2>1. Sound(step.id, Quarantining(step.id), runs')
    BY <1>1, <1>2, StatusSound DEF Quarantining, job
  <2>2. Save(With(step.id, Quarantining(step.id)), NextDue)
    BY <1>3 DEF Pending
  <2> QED BY <1>1, <1>2, <2>1, <2>2, EndingKeeps DEF Sound
<1>4. CASE Supersede
  <2> DEFINE r == [mem.jobs[step.id] EXCEPT !.status = "superseded"]
  <2>1. Sound(step.id, r, runs')
    BY <1>1, <1>2, StatusSound DEF job
  <2>2. Save(With(step.id, r), NextDue)
    BY <1>4 DEF Supersede, Superseded
  <2> HIDE DEF r
  <2> QED BY <1>1, <1>2, <2>1, <2>2, EndingKeeps DEF Sound
<1> QED BY <1>3, <1>4

LEMMA EvidenceKeeps == ASSUME IInv, Evidence PROVE IInv'
<1>1. step.at = "evidence" /\ UNCHANGED <<files, runs>>
  BY DEF Evidence
<1>2. step.at \in Hiding /\ "copy" \in Hiding /\ "copy" \notin Processing
  BY <1>1 DEF Hiding, Processing
<1>3. CASE /\ job.evidence # None /\ GoTo("copy") /\ UNCHANGED <<mem, saved, clock, counters>>
  <2>1. step' = [step EXCEPT !.at = "copy"]
    BY <1>3 DEF GoTo
  <2> QED BY <1>1, <1>2, <1>3, <2>1, GoesOnQuietly
<1>4. CASE /\ job.evidence = None /\ clock' = clock + 1
           /\ Save(With(step.id, [job EXCEPT !.evidence = clock']), [step EXCEPT !.at = "copy"])
  <2> DEFINE r == [job EXCEPT !.evidence = clock']
             next == [step EXCEPT !.at = "copy"]
  <2>1. /\ mem = saved /\ mem \in State /\ step \in Step /\ step.id \in Id
        /\ job \in Job /\ job.status # "none" /\ step.id \notin step.due
        /\ JobOK(step.id, job, quar, reason, runs) /\ TypeOK /\ clock \in Nat
        /\ \A id \in step.due : IsDue(mem.jobs[id])
        /\ step.due \subseteq Id /\ Knows(mem, quar, reason, runs)
    BY <1>2, AttemptKnows DEF IInv, StepInv, TypeOK, Step
  <2>2. clock' \in Nat /\ clock' # None
    BY <1>4, <2>1 DEF None
  <2>3. r \in Job /\ r.evidence = clock' /\ r.status = job.status /\ r.attempts = job.attempts
    BY <2>1, <2>2 DEF Job
  <2>4. JobOK(step.id, r, quar, reason, runs)
    <3>1. job.status # "quarantined"
      <4>1. ~KeptAs(step.id, job.evidence, quar, reason)
        BY <1>4 DEF KeptAs
      <4> QED BY <2>1, <4>1 DEF JobOK
    <3> HIDE DEF r
    <3> QED BY <2>1, <2>3, <3>1 DEF JobOK
  <2>5. next \in Step /\ next.at = "copy" /\ next.due = step.due /\ next.id = step.id
    BY <2>1, Rests DEF At
  <2> HIDE DEF r, next
  <2>6. Knows(With(step.id, r), quar', reason', runs') /\ Knows(saved, quar', reason', runs')
    BY <1>1, <2>1, <2>3, <2>4, KnowsWith DEF With, files
  <2>7. Save(With(step.id, r), next)
    BY <1>4 DEF r, next
  <2>8. /\ KnowsInv' /\ Recorded' /\ step' \in Step /\ mem' \in State /\ saved' \in State
        /\ edits' \in Nat /\ faults' \in Nat /\ kills' \in Nat /\ mem' = saved'
        /\ (mem' = With(step.id, r) /\ step' = next) \/ step' = Rest
    BY <2>1, <2>5, <2>6, <2>7, Saving
  <2>9. StepInv'
    <3>1. CASE step' = Rest
      BY <2>1, <3>1, Idles
    <3>2. CASE mem' = With(step.id, r) /\ step' = next
      <4>1. /\ mem'.jobs[step.id] = r
            /\ \A j \in Id \ {step.id} : mem'.jobs[j] = mem.jobs[j]
        BY <2>1, <2>3, <3>2, WithJob DEF With
      <4>2. \A j \in step'.due : IsDue(mem'.jobs[j])
        BY <2>1, <2>5, <3>2, <4>1
      <4>3. job' = r
        BY <2>5, <3>2, <4>1 DEF job
      <4> QED BY <2>1, <2>2, <2>3, <2>5, <2>8, <3>2, <4>2, <4>3
           DEF StepInv, Processing, Hiding, IsDue
    <3> QED BY <2>8, <3>1, <3>2
  <2>10. TypeOK'
    BY <1>1, <2>2, <2>8 DEF IInv, TypeOK, files
  <2> QED BY <1>1, <2>8, <2>9, <2>10
       DEF IInv, FilesInv, Paired, Sheltered, BoundedAttempts, files
<1> QED BY <1>3, <1>4 DEF Evidence

(* Where the copy goes nothing else is, and it is found there again.       *)
LEMMA CopyFits ==
  ASSUME IInv, step.at \in Hiding
  PROVE  /\ Asylum \in {Plain(step.id), Digested(step.id)} /\ Asylum \in Place
         /\ quar[Asylum] \in {None, step.id.content}
<1>1. step.id \in Id
  BY AttemptKnows
<1>2. quar[Digested(step.id)] \in {None, step.id.content}
  BY <1>1 DEF IInv, FilesInv, Sheltered
<1> QED BY <1>1, <1>2, PlaceTyped DEF Asylum

LEMMA CopyKeeps == ASSUME IInv, Copy PROVE IInv'
<1>1. step.at = "copy" /\ UNCHANGED <<inbox, out, receipt, reason, runs, clock>>
  BY DEF Copy
<1>2. step.at \in Hiding /\ "explain" \in Hiding /\ "explain" \notin Processing
  BY <1>1 DEF Hiding, Processing
<1>3. CASE Supersede /\ UNCHANGED quar
  BY <1>1, <1>2, <1>3, GivesUpKeeps DEF files
<1>4. CASE /\ quar' = [quar EXCEPT ![Asylum] = step.id.content]
           /\ step' = [step EXCEPT !.at = "explain", !.source = Source # NoFile]
           /\ UNCHANGED <<mem, saved, counters>>
  <2>1. /\ runs' \in [Id -> Runs] /\ BoundedAttempts' /\ Knows(mem, quar, reason, runs')
        /\ step.id \in Id /\ step \in Step
    BY <1>1, <1>2, Counts, AttemptKnows
  <2>2. step.id.content \in Contents /\ step.id.content # None
    BY <2>1, ContentsAssumption DEF Id, None
  <2>3. /\ inbox' \in [Paths -> File] /\ out' \in [Place -> Contents \cup {None}]
        /\ receipt' \in [Place -> Contents \cup {None}]
        /\ quar \in [Place -> Contents \cup {None}] /\ reason' \in [Place -> Nat]
        /\ clock' \in Nat /\ FilesInv /\ job.evidence # None
    BY <1>1 DEF IInv, TypeOK, StepInv, Hiding
  <2>4. /\ quar' \in [Place -> Contents \cup {None}] /\ quar'[Asylum] = step.id.content
        /\ \A place \in Place \ {Asylum} : quar'[place] = quar[place]
        /\ Asylum \in {Plain(step.id), Digested(step.id)} /\ Asylum \in Place
        /\ quar[Asylum] \in {None, step.id.content}
    BY <1>2, <1>4, <2>2, <2>3, CopyFits
  <2>5. Grows(quar, quar') /\ Grows(reason, reason')
    BY <1>1, <2>4 DEF Grows
  <2>6. /\ step' \in Step /\ step'.at = "explain" /\ step'.id = step.id
        /\ step'.due = step.due
    <3>1. (Source # NoFile) \in BOOLEAN
      OBVIOUS
    <3> QED BY <1>4, <2>1, <3>1 DEF Step, At
  <2>7. Asylum' = Asylum
    <3>1. Plain(step.id) \in Place /\ Plain(step.id) # Digested(step.id)
      BY <2>1, <2>2, PlaceTyped DEF Plain, Digested
    <3>2. CASE Asylum = Plain(step.id)
      BY <2>4, <2>6, <3>2 DEF Asylum
    <3>3. CASE Asylum = Digested(step.id)
      <4>1. quar'[Plain(step.id)] = quar[Plain(step.id)]
        BY <2>4, <3>1, <3>3
      <4> QED BY <2>6, <3>1, <3>3, <4>1 DEF Asylum
    <3> QED BY <2>4, <3>2, <3>3
  <2>8. Sheltered'
    <3> SUFFICES ASSUME NEW id \in Id PROVE quar'[Digested(id)] \in {None, id.content}
      BY DEF Sheltered
    <3>1. Digested(id) \in Place /\ quar[Digested(id)] \in {None, id.content}
      BY <2>3, PlaceTyped DEF FilesInv, Sheltered
    <3>2. CASE Digested(id) = Asylum
      <4>1. Digested(id).tag = id.content /\ id.content # None
        BY ContentsAssumption DEF Digested, Id, None
      <4>2. Plain(step.id).tag = None /\ Digested(step.id).tag = step.id.content
        BY DEF Plain, Digested
      <4> QED BY <2>4, <3>2, <4>1, <4>2
    <3>3. CASE Digested(id) # Asylum
      BY <2>4, <3>1, <3>3
    <3> QED BY <3>2, <3>3
  <2>9. FilesInv'
    BY <1>1, <2>3, <2>8 DEF FilesInv, Paired
  <2>10. /\ quar'[Asylum'] = step.id.content /\ UNCHANGED <<mem, saved, counters>>
         /\ quar' \in [Place -> Contents \cup {None}]
    BY <1>4, <2>4, <2>7
  <2> QED BY <1>1, <1>2, <2>1, <2>3, <2>5, <2>6, <2>9, <2>10, GoesOn
<1> QED BY <1>3, <1>4 DEF Copy

LEMMA ExplainKeeps == ASSUME IInv, Explain PROVE IInv'
<1>1. step.at = "explain" /\ UNCHANGED <<inbox, out, receipt, quar, runs, clock>>
  BY DEF Explain
<1>2. /\ step.at \in Hiding /\ {"check", "done"} \subseteq Hiding
      /\ \A at \in {"check", "done"} : at \notin Processing
  BY <1>1 DEF Hiding, Processing
<1>3. CASE Pending /\ UNCHANGED reason
  BY <1>1, <1>2, <1>3, GivesUpKeeps DEF files
<1>4. CASE /\ Explained
           /\ reason' = [reason EXCEPT ![Asylum] = IF @ = None THEN job.evidence ELSE @]
           /\ GoTo(IF step.source THEN "check" ELSE "done")
           /\ UNCHANGED <<mem, saved, counters>>
  <2> DEFINE where == IF step.source THEN "check" ELSE "done"
  <2>1. /\ runs' \in [Id -> Runs] /\ BoundedAttempts' /\ Knows(mem, quar, reason, runs')
        /\ step.id \in Id /\ step \in Step /\ job \in Job
    BY <1>1, <1>2, Counts, AttemptKnows
  <2>2. /\ inbox' \in [Paths -> File] /\ out' \in [Place -> Contents \cup {None}]
        /\ receipt' \in [Place -> Contents \cup {None}]
        /\ quar' \in [Place -> Contents \cup {None}] /\ reason \in [Place -> Nat]
        /\ clock' \in Nat /\ FilesInv /\ job.evidence # None
        /\ quar[Asylum] = step.id.content
    BY <1>1 DEF IInv, TypeOK, StepInv, Hiding
  <2>3. Asylum \in Place
    BY <1>2, CopyFits
  <2>4. job.evidence \in Nat
    BY <2>1 DEF Job
  <2>5. /\ reason' \in [Place -> Nat] /\ reason'[Asylum] = job.evidence
        /\ \A place \in Place \ {Asylum} : reason'[place] = reason[place]
        /\ reason[Asylum] # None => reason'[Asylum] = reason[Asylum]
    BY <1>4, <2>2, <2>3, <2>4 DEF Explained
  <2>6. Grows(quar, quar') /\ Grows(reason, reason')
    BY <1>1, <2>5 DEF Grows
  <2>7. /\ step' \in Step /\ step'.at = where /\ step'.id = step.id
        /\ step'.due = step.due
    <3>1. step' = [step EXCEPT !.at = where] /\ where \in At
      BY <1>4 DEF GoTo, At
    <3> HIDE DEF where
    <3> QED BY <3>1, Rests DEF IInv
  <2>8. Asylum' = Asylum
    BY <1>1, <2>7 DEF Asylum
  <2>9. FilesInv'
    BY <1>1, <2>2 DEF FilesInv, Paired, Sheltered
  <2>10. where \in {"check", "done"}
    OBVIOUS
  <2> HIDE DEF where
  <2> QED BY <1>1, <1>2, <1>4, <2>1, <2>2, <2>5, <2>6, <2>7, <2>8, <2>9, <2>10, GoesOn
<1> QED BY <1>3, <1>4 DEF Explain

LEMMA QuarantineFailsKeeps == ASSUME IInv, QuarantineFails PROVE IInv'
<1>1. /\ step.at \in {"copy", "explain"} /\ step' = NextDue
      /\ UNCHANGED <<files, mem, saved, runs, clock>>
      /\ edits' \in Nat /\ faults' \in Nat /\ kills' \in Nat
  BY DEF QuarantineFails, Fault, IInv, TypeOK
<1>2. step.at \in Hiding
  BY <1>1 DEF Hiding
<1>3. /\ mem = saved /\ \A id \in step.due : IsDue(mem.jobs[id])
      /\ NextDue \in Step /\ NextDue.at = "due" /\ NextDue.due = step.due
  BY <1>2, AttemptKnows, Rests DEF IInv, StepInv
<1>4. \A id \in step'.due : IsDue(mem'.jobs[id])
  BY <1>1, <1>3
<1>5. StepInv'
  BY <1>1, <1>3, <1>4 DEF StepInv, Processing, Hiding, IsDue
<1>6. TypeOK'
  BY <1>1, <1>3 DEF IInv, TypeOK, files
<1> QED BY <1>1, <1>5, <1>6
     DEF IInv, KnowsInv, Recorded, FilesInv, Paired, Sheltered, BoundedAttempts, files

LEMMA CheckKeeps == ASSUME IInv, Check PROVE IInv'
<1>1. step.at = "check" /\ UNCHANGED <<files, runs, clock>>
  BY DEF Check
<1>2. step.at \in Hiding /\ "remove" \in Hiding /\ "remove" \notin Processing
  BY <1>1 DEF Hiding, Processing
<1>3. CASE Pending \/ Supersede
  BY <1>1, <1>2, <1>3, GivesUpKeeps
<1>4. CASE /\ Source.content = step.id.content
           /\ GoTo("remove") /\ UNCHANGED <<mem, saved, counters>>
  <2>1. step' = [step EXCEPT !.at = "remove"]
    BY <1>4 DEF GoTo
  <2>2. job.evidence # None /\ quar[Asylum] = step.id.content /\ reason[Asylum] = job.evidence
    BY <1>1 DEF IInv, StepInv, Hiding
  <2> QED BY <1>1, <1>2, <1>4, <2>1, <2>2, GoesOnQuietly
<1> QED BY <1>3, <1>4 DEF Check

LEMMA RemoveKeeps == ASSUME IInv, Remove PROVE IInv'
<1>1. step.at = "remove" /\ UNCHANGED <<out, receipt, quar, reason, runs, clock>>
  BY DEF Remove
<1>2. step.at \in Hiding /\ "done" \in Hiding /\ "done" \notin Processing
  BY <1>1 DEF Hiding, Processing
<1>3. CASE Pending /\ UNCHANGED inbox
  BY <1>1, <1>2, <1>3, GivesUpKeeps DEF files
<1>4. CASE /\ inbox' = [inbox EXCEPT ![step.id.path] = NoFile]
           /\ GoTo("done") /\ UNCHANGED <<mem, saved, counters>>
  <2>1. /\ runs' \in [Id -> Runs] /\ BoundedAttempts' /\ Knows(mem, quar, reason, runs')
        /\ step.id \in Id /\ step \in Step
    BY <1>1, <1>2, Counts, AttemptKnows
  <2>2. NoFile \in File
    BY DEF NoFile, File, None
  <2>3. /\ inbox' \in [Paths -> File] /\ out' \in [Place -> Contents \cup {None}]
        /\ receipt' \in [Place -> Contents \cup {None}]
        /\ quar' \in [Place -> Contents \cup {None}] /\ reason' \in [Place -> Nat]
        /\ clock' \in Nat /\ FilesInv
    BY <1>1, <1>4, <2>2 DEF IInv, TypeOK
  <2>4. job.evidence # None /\ quar[Asylum] = step.id.content /\ reason[Asylum] = job.evidence
    BY <1>1 DEF IInv, StepInv, Hiding
  <2>5. /\ step' \in Step /\ step'.at = "done" /\ step'.id = step.id
        /\ step'.due = step.due
    BY <1>4, Rests DEF GoTo, At, IInv
  <2>6. Asylum' = Asylum
    BY <1>1, <2>5 DEF Asylum
  <2>7. Grows(quar, quar') /\ Grows(reason, reason')
    BY <1>1 DEF Grows
  <2>8. FilesInv'
    BY <1>1, <2>3 DEF FilesInv, Paired, Sheltered
  <2>9. quar'[Asylum'] = step.id.content /\ reason'[Asylum'] = job.evidence
    BY <1>1, <2>4, <2>6
  <2> QED BY <1>1, <1>2, <1>4, <2>1, <2>3, <2>4, <2>5, <2>7, <2>8, <2>9, GoesOn
<1> QED BY <1>3, <1>4 DEF Remove

LEMMA DoneKeeps == ASSUME IInv, Done PROVE IInv'
<1> DEFINE r == [job EXCEPT !.status = "quarantined"]
<1>1. /\ step.at = "done" /\ UNCHANGED <<files, runs, clock>>
      /\ Save(With(step.id, r), NextDue)
  BY DEF Done
<1>2. step.at \in Hiding
  BY <1>1 DEF Hiding
<1>3. /\ runs' \in [Id -> Runs] /\ BoundedAttempts'
      /\ Knows(mem, quar, reason, runs') /\ Sound(step.id, job, runs')
  BY <1>1, <1>2, Counts
<1>4. inbox' \in [Paths -> File] /\ clock' \in Nat /\ step.id \in Id
      /\ UNCHANGED <<out, receipt, quar, reason>>
  BY <1>1, <1>2, AttemptKnows DEF IInv, TypeOK, files
<1>5. KeptAs(step.id, job.evidence, quar, reason)
  <2>1. job.evidence # None /\ quar[Asylum] = step.id.content /\ reason[Asylum] = job.evidence
    BY <1>1 DEF IInv, StepInv, Hiding
  <2> QED BY <1>2, <2>1, CopyFits DEF KeptAs
<1>6. /\ r \in Job /\ r.status = "quarantined" /\ r.attempts = job.attempts
      /\ r.evidence = job.evidence
  BY <1>3 DEF Sound, Job, Status, Finished
<1> HIDE DEF r
<1>7. JobOK(step.id, r, quar, reason, runs')
  BY <1>3, <1>5, <1>6 DEF Sound, JobOK
<1> QED BY <1>1, <1>2, <1>3, <1>4, <1>6, <1>7, EndingKeeps

-----------------------------------------------------------------------------
(* Time and others.                                                        *)

(* What leaves the jobs as they are, but for whether a retry is due, and   *)
(* the files, but for some that nobody relies on.                          *)
LEMMA RestingKeeps ==
  ASSUME IInv, step.at = "rest", UNCHANGED <<files, step, runs, clock, counters>>,
         mem' \in State, saved' \in State,
         \A id \in Id : mem'.jobs[id] \in {mem.jobs[id], [mem.jobs[id] EXCEPT !.due = TRUE]},
         \A id \in Id : saved'.jobs[id] \in {saved.jobs[id], [saved.jobs[id] EXCEPT !.due = TRUE]}
  PROVE  IInv'
<1>1. mem \in State /\ saved \in State /\ KnowsInv /\ Recorded
  BY DEF IInv, TypeOK
<1>2. ASSUME NEW m \in State, NEW m2 \in State, Knows(m, quar, reason, runs),
             \A id \in Id : m2.jobs[id] \in {m.jobs[id], [m.jobs[id] EXCEPT !.due = TRUE]}
      PROVE  /\ Knows(m2, quar, reason, runs)
             /\ \A id \in Id : m2.jobs[id].status = m.jobs[id].status
  <2> SUFFICES ASSUME NEW id \in Id
               PROVE  /\ JobOK(id, m2.jobs[id], quar, reason, runs)
                      /\ m2.jobs[id].status = m.jobs[id].status
    BY <1>2 DEF Knows
  <2>1. m.jobs[id] \in Job /\ JobOK(id, m.jobs[id], quar, reason, runs)
    BY <1>2 DEF Knows, State
  <2>2. CASE m2.jobs[id] = m.jobs[id]
    BY <2>1, <2>2
  <2>3. CASE m2.jobs[id] = [m.jobs[id] EXCEPT !.due = TRUE]
    <3>1. /\ m2.jobs[id].status = m.jobs[id].status
          /\ m2.jobs[id].attempts = m.jobs[id].attempts
          /\ m2.jobs[id].evidence = m.jobs[id].evidence
      BY <2>1, <2>3 DEF Job
    <3> QED BY <2>1, <3>1 DEF JobOK
  <2> QED BY <1>2, <2>2, <2>3
<1>3. /\ Knows(mem', quar, reason, runs) /\ Knows(saved', quar, reason, runs)
      /\ \A id \in Id : mem'.jobs[id].status = mem.jobs[id].status
      /\ \A id \in Id : saved'.jobs[id].status = saved.jobs[id].status
  BY <1>1, <1>2 DEF KnowsInv
<1>4. KnowsInv'
  BY <1>3 DEF KnowsInv, files
<1>5. Recorded'
  BY <1>1, <1>3 DEF Recorded
<1>6. StepInv'
  BY DEF IInv, StepInv, Processing, Hiding
<1>7. TypeOK'
  BY DEF IInv, TypeOK, files, counters
<1> QED BY <1>4, <1>5, <1>6, <1>7
     DEF IInv, FilesInv, Paired, Sheltered, BoundedAttempts, files

LEMMA SettleKeeps == ASSUME IInv, NEW p \in Paths, Settle(p) PROVE IInv'
<1>1. /\ step.at = "rest" /\ UNCHANGED <<files, step, runs, clock, counters>>
      /\ mem' = [mem EXCEPT !.obs[p].ripe = TRUE]
      /\ saved' \in {saved, [saved EXCEPT !.obs[p].ripe = TRUE]}
  BY DEF Settle
<1>2. mem \in State /\ saved \in State
  BY DEF IInv, TypeOK
<1>3. ASSUME NEW m \in State
      PROVE  /\ [m EXCEPT !.obs[p].ripe = TRUE] \in State
             /\ [m EXCEPT !.obs[p].ripe = TRUE].jobs = m.jobs
  <2>1. m.obs[p] \in Observation
    BY <1>3 DEF State
  <2>2. [m.obs[p] EXCEPT !.ripe = TRUE] \in Observation
    BY <2>1 DEF Observation
  <2>3. [m EXCEPT !.obs[p].ripe = TRUE] = [m EXCEPT !.obs[p] = [m.obs[p] EXCEPT !.ripe = TRUE]]
    BY <1>3, <2>1 DEF State
  <2> QED BY <1>3, <2>2, <2>3, WithObs
<1>4. mem' \in State /\ saved' \in State /\ mem'.jobs = mem.jobs /\ saved'.jobs = saved.jobs
  BY <1>1, <1>2, <1>3
<1> QED BY <1>1, <1>4, RestingKeeps

LEMMA DueKeeps == ASSUME IInv, NEW id \in Id, Due(id) PROVE IInv'
<1>1. /\ step.at = "rest" /\ UNCHANGED <<files, step, runs, clock, counters>>
      /\ mem' = [mem EXCEPT !.jobs[id].due = TRUE]
      /\ saved' \in {saved, [saved EXCEPT !.jobs[id].due = TRUE]}
  BY DEF Due
<1>2. mem \in State /\ saved \in State
  BY DEF IInv, TypeOK
<1>3. ASSUME NEW m \in State
      PROVE  /\ [m EXCEPT !.jobs[id].due = TRUE] \in State
             /\ \A j \in Id : [m EXCEPT !.jobs[id].due = TRUE].jobs[j]
                                \in {m.jobs[j], [m.jobs[j] EXCEPT !.due = TRUE]}
  <2> DEFINE r == [m.jobs[id] EXCEPT !.due = TRUE]
             w == [m EXCEPT !.jobs[id].due = TRUE]
  <2>1. m.jobs[id] \in Job
    BY <1>3 DEF State
  <2>2. r \in Job
    BY <2>1, JobTyped
  <2>3. w = [m EXCEPT !.jobs[id] = r]
    BY <1>3, <2>1 DEF State
  <2>4. w \in State /\ w.jobs[id] = r /\ \A j \in Id \ {id} : w.jobs[j] = m.jobs[j]
    <3> HIDE DEF r, w
    <3> QED BY <1>3, <2>2, <2>3, WithJob
  <2> QED BY <2>4
<1>4. /\ mem' \in State /\ saved' \in State
      /\ \A j \in Id : mem'.jobs[j] \in {mem.jobs[j], [mem.jobs[j] EXCEPT !.due = TRUE]}
      /\ \A j \in Id : saved'.jobs[j] \in {saved.jobs[j], [saved.jobs[j] EXCEPT !.due = TRUE]}
  BY <1>1, <1>2, <1>3
<1> QED BY <1>1, <1>4, RestingKeeps

(* Somebody else leaves the watcher where it is, but for what is recorded  *)
(* as touched.                                                             *)
LEMMA TouchedStays ==
  ASSUME step \in Step, NEW late, NEW which \in {"input", "output", "receipt"},
         Behind(late, which)
  PROVE  /\ step' \in Step /\ step'.at = step.at /\ step'.id = step.id
         /\ step'.due = step.due /\ step.touched \subseteq step'.touched
         /\ late => which \in step'.touched
<1>1. CASE ~late
  BY <1>1 DEF Behind
<1>2. CASE late
  <2>1. step' = [step EXCEPT !.touched = step.touched \cup {which}]
    BY <1>2 DEF Behind
  <2>2. step.touched \cup {which} \in SUBSET {"input", "output", "receipt"}
    BY DEF Step
  <2> QED BY <2>1, <2>2 DEF Step
<1> QED BY <1>1, <1>2

LEMMA EditInputKeeps == ASSUME IInv, NEW p \in Paths, EditInput(p) PROVE IInv'
<1>1. UNCHANGED <<out, receipt, quar, reason, mem, saved, runs, clock>>
  BY DEF EditInput
<1>2. edits' \in Nat /\ faults' \in Nat /\ kills' \in Nat /\ inbox \in [Paths -> File]
      /\ edits + 2 \in Nat
  BY DEF EditInput, Edit, IInv, TypeOK
<1>3. inbox' \in [Paths -> File]
  <2>1. NoFile \in File
    BY DEF NoFile, File, None
  <2>2. inbox[p].stamp \in Nat
    BY <1>2 DEF File
  <2>3. \A c \in Contents, s \in {edits + 2, inbox[p].stamp} :
          [content |-> c, stamp |-> s] \in File
    BY <1>2, <2>2 DEF File
  <2> QED BY <1>2, <2>1, <2>3 DEF EditInput
<1>4. /\ step' \in Step /\ step'.at = step.at /\ step'.id = step.id
      /\ step'.due = step.due /\ step.touched \subseteq step'.touched
      /\ p = step.id.path /\ step.at = "remove" => "input" \in step'.touched
  <2>1. Behind(p = step.id.path /\ step.at = "remove", "input") /\ step \in Step
    BY DEF EditInput, IInv, TypeOK
  <2> QED BY <2>1, TouchedStays
<1>5. TypeOK'
  BY <1>1, <1>2, <1>3, <1>4 DEF IInv, TypeOK
<1>6. step.at = "remove" => Source'.content = step.id.content \/ "input" \in step'.touched
  <2>1. CASE p = step.id.path
    BY <1>4, <2>1
  <2>2. CASE p # step.id.path /\ step.at = "remove"
    <3>1. \A q \in Paths \ {p} : inbox'[q] = inbox[q]
      BY <1>2 DEF EditInput
    <3>2. step.id.path \in Paths
      BY <2>2, AttemptKnows DEF Hiding, Id
    <3>3. Source' = Source
      BY <1>4, <2>2, <3>1, <3>2 DEF Source
    <3> QED BY <1>4, <2>2, <3>3 DEF IInv, StepInv
  <2> QED BY <2>1, <2>2
<1>7. job' = job /\ Asylum' = Asylum
  BY <1>1, <1>4 DEF job, Asylum
<1>8. StepInv'
  BY <1>1, <1>4, <1>6, <1>7 DEF IInv, StepInv, Processing, Hiding, IsDue
<1> QED BY <1>1, <1>5, <1>8
     DEF IInv, KnowsInv, Recorded, FilesInv, Paired, Sheltered, BoundedAttempts

LEMMA EditOutputKeeps == ASSUME IInv, NEW place \in Place, EditOutput(place) PROVE IInv'
<1>1. UNCHANGED <<inbox, quar, reason, mem, saved, runs, clock>>
  BY DEF EditOutput
<1>2. /\ out' = [out EXCEPT ![place] = None] \/ out' = out
      /\ receipt' = [receipt EXCEPT ![place] = None] \/ receipt' = receipt
      /\ edits' \in Nat /\ faults' \in Nat /\ kills' \in Nat
      /\ out \in [Place -> Contents \cup {None}] /\ receipt \in [Place -> Contents \cup {None}]
  BY DEF EditOutput, Edit, IInv, TypeOK
<1>3. /\ out' \in [Place -> Contents \cup {None}] /\ receipt' \in [Place -> Contents \cup {None}]
      /\ \A other \in Place : out'[other] \in {out[other], None}
      /\ \A other \in Place : receipt'[other] \in {receipt[other], None}
  BY <1>2
<1>8. /\ step' \in Step /\ step'.at = step.at /\ step'.id = step.id
      /\ step'.due = step.due /\ step.touched \subseteq step'.touched
      /\ \/ /\ out' = [out EXCEPT ![place] = None] /\ receipt' = receipt
            /\ place = job.place /\ step.at \in {"receipt", "record"} =>
                 "output" \in step'.touched
         \/ /\ receipt' = [receipt EXCEPT ![place] = None] /\ out' = out
            /\ place = job.place /\ step.at = "record" => "receipt" \in step'.touched
  BY TouchedStays DEF EditOutput, IInv, TypeOK
<1>4. TypeOK'
  BY <1>1, <1>2, <1>3, <1>8 DEF IInv, TypeOK
<1>5. Paired'
  <2> SUFFICES ASSUME NEW other \in Place, out'[other] # None, receipt'[other] # None
               PROVE  out'[other] = receipt'[other]
    BY DEF Paired
  <2>1. out'[other] = out[other] /\ receipt'[other] = receipt[other]
    BY <1>3
  <2> QED BY <2>1 DEF IInv, FilesInv, Paired
<1>6. StepInv'
  <2>1. job' = job /\ Asylum' = Asylum
    BY <1>1, <1>8 DEF job, Asylum
  <2>2. ASSUME step.at \in Processing PROVE job.place \in Place
    BY <2>2, AttemptKnows DEF Job
  <2>3. /\ step.at \in {"render", "publish"} => out'[job.place] = None
        /\ step.at \in {"render", "publish", "pair"} => receipt'[job.place] = None
        /\ step.at \in {"pair", "output"} => out'[job.place] \in {None, step.id.content}
        /\ step.at \in {"output", "receipt"} =>
             receipt'[job.place] \in {None, step.id.content}
    BY <1>3, <2>2 DEF IInv, StepInv, Processing
  <2>4. /\ step.at \in {"receipt", "record"} =>
             out'[job.place] = step.id.content \/ "output" \in step'.touched
        /\ step.at = "record" =>
             receipt'[job.place] = step.id.content \/ "receipt" \in step'.touched
    BY <1>2, <1>8, <2>2 DEF IInv, StepInv, Processing
  <2>5. Source' = Source
    BY <1>1, <1>8 DEF Source
  <2> QED BY <1>1, <1>8, <2>1, <2>3, <2>4, <2>5 DEF IInv, StepInv, Processing, Hiding, IsDue
<1>7. Sheltered'
  BY <1>1 DEF IInv, FilesInv, Sheltered
<1> QED BY <1>1, <1>4, <1>5, <1>6, <1>7
     DEF IInv, KnowsInv, Recorded, FilesInv, BoundedAttempts

LEMMA KillKeeps == ASSUME IInv, Kill PROVE IInv'
<1>1. /\ mem' = saved /\ UNCHANGED <<files, saved, runs, clock>>
      /\ step' = [Locals EXCEPT !.at = "off"]
      /\ edits' \in Nat /\ faults' \in Nat /\ kills' \in Nat
      /\ step \in Step
  BY DEF Kill, IInv, TypeOK
<1>2. Locals \in Step /\ Locals.due = {}
  BY <1>1 DEF Locals, Step
<1>3. step' \in Step /\ step'.at = "off" /\ step'.due = {}
  BY <1>1, <1>2 DEF Step, At
<1>4. KnowsInv' /\ Recorded'
  BY <1>1 DEF IInv, KnowsInv, Recorded, files
<1>5. StepInv'
  BY <1>1, <1>3 DEF StepInv, Processing, Hiding
<1>6. TypeOK'
  BY <1>1, <1>3 DEF IInv, TypeOK, files
<1> QED BY <1>1, <1>4, <1>5, <1>6
     DEF IInv, FilesInv, Paired, Sheltered, BoundedAttempts, files

-----------------------------------------------------------------------------
(* The theorems.                                                           *)

LEMMA InitHolds == Init => IInv
<1> SUFFICES ASSUME Init PROVE IInv
  OBVIOUS
<1>1. \E id \in Id : TRUE
  <2>1. PICK p \in Paths, c \in Contents : TRUE
    BY InputsAssumption
  <2>2. [path |-> p, content |-> c] \in Id
    BY DEF Id
  <2> QED BY <2>2
<1>2. \A p \in Paths : NoObservation \in Observation
  BY DEF NoObservation, Observation, None
<1>3. mem \in State /\ saved = mem /\ \A id \in Id : mem.jobs[id] = NoJob(id)
  BY <1>2, NoJobTyped DEF Init, State
<1>4. step \in Step /\ step.at = "off" /\ step.due = {}
  <2>1. (CHOOSE id \in Id : TRUE) \in Id
    BY <1>1
  <2> QED BY <2>1 DEF Init, Step, At
<1>5. inbox \in [Paths -> File]
  <2>1. {NoFile} \cup [content : Contents, stamp : {1}] \subseteq File
    BY DEF NoFile, File, None
  <2> QED BY <2>1 DEF Init
<1>6. /\ out = [place \in Place |-> None] /\ receipt = out /\ quar = out /\ reason = out
      /\ runs = [id \in Id |-> NoRuns]
  BY DEF Init
<1>7. TypeOK
  BY <1>3, <1>4, <1>5, <1>6 DEF Init, TypeOK, None, Runs, NoRuns
<1>8. Knows(mem, quar, reason, runs)
  <2> SUFFICES ASSUME NEW id \in Id PROVE JobOK(id, mem.jobs[id], quar, reason, runs)
    BY <1>3 DEF Knows
  <2>1. mem.jobs[id] = NoJob(id) /\ 0 <= MaxAttempts
    BY <1>3, LimitAssumption
  <2>2. NoJob(id).status = "none" /\ NoJob(id).attempts = 0
    BY DEF NoJob
  <2> QED BY <2>1, <2>2 DEF JobOK
<1>9. KnowsInv /\ Recorded
  BY <1>3, <1>8 DEF KnowsInv, Recorded
<1>10. FilesInv
  BY <1>6, PlaceTyped DEF FilesInv, Paired, Sheltered
<1>11. BoundedAttempts
  BY <1>6, LimitAssumption DEF BoundedAttempts, NoRuns
<1>12. StepInv
  BY <1>3, <1>4 DEF StepInv, Processing, Hiding
<1> QED BY <1>7, <1>9, <1>10, <1>11, <1>12 DEF IInv

LEMMA NextKeeps == IInv /\ [Next]_vars => IInv'
<1> SUFFICES ASSUME IInv, [Next]_vars PROVE IInv'
  OBVIOUS
<1>1. CASE Scan
  BY <1>1, OpenKeeps, BeginCycleKeeps, EndScanKeeps, EndCycleKeeps, ObserveKeeps DEF Scan
<1>2. CASE Attempt
  BY <1>2, TakeStepKeeps, ProcessKeeps, RenderKeeps, PublishKeeps, PublishReceiptKeeps,
     VerifyKeeps, RequireOutputKeeps, RequireReceiptKeeps, CompleteKeeps DEF Attempt
<1>3. CASE Quarantine
  BY <1>3, EvidenceKeeps, CopyKeeps, ExplainKeeps, CheckKeeps, RemoveKeeps, DoneKeeps
     DEF Quarantine
<1>4. CASE Failure
  BY <1>4, ObserveFailsKeeps, TakeUnreadableKeeps, ProcessDefersKeeps, RunFailsKeeps,
     RunDefersKeeps, QuarantineFailsKeeps, KillKeeps DEF Failure
<1>5. CASE Others
  BY <1>5, EditInputKeeps, EditOutputKeeps DEF Others
<1>6. CASE \E p \in Paths : Settle(p)
  BY <1>6, SettleKeeps
<1>7. CASE \E id \in Id : Due(id)
  BY <1>7, DueKeeps
<1>8. CASE UNCHANGED vars
  <2>1. UNCHANGED <<inbox, out, receipt, quar, reason, mem, saved, step, runs, clock,
                    edits, faults, kills>>
    BY <1>8 DEF vars, files, counters
  <2>2. TypeOK'
    BY <2>1 DEF IInv, TypeOK
  <2>3. StepInv'
    BY <2>1 DEF IInv, StepInv, job, Asylum, Source
  <2> QED BY <2>1, <2>2, <2>3
       DEF IInv, KnowsInv, Recorded, FilesInv, Paired, Sheltered, BoundedAttempts
<1> QED BY <1>1, <1>2, <1>3, <1>4, <1>5, <1>6, <1>7, <1>8 DEF Next

LEMMA InvHolds == Spec => []IInv
BY InitHolds, NextKeeps, PTL DEF Spec

(* Every variable has its type: the state that the watcher works on and    *)
(* the one it writes are states whatever fails or is killed.               *)
THEOREM TypesHold == Spec => []TypeOK
BY InvHolds, PTL DEF IInv

(* The budget of attempts is spent before each attempt: however often the  *)
(* watcher is killed or cannot write its state, no input is processed more *)
(* often than max_attempts says, and once more for each attempt that was   *)
(* deferred after it had processed the input and was not counted.          *)
THEOREM BudgetHolds == Spec => []BoundedAttempts
BY InvHolds, PTL DEF IInv

(* A job that the state file calls quarantined has its copy and beside it  *)
(* the explanation of just this quarantine, however often finish_quarantine*)
(* was interrupted and whatever stood in the way.                          *)
THEOREM QuarantineHolds == Spec => []QuarantineKeeps
<1>1. IInv => QuarantineKeeps
  BY DEF IInv, KnowsInv, Knows, JobOK, KeptAs, QuarantineKeeps, Kept
<1> QED BY <1>1, InvHolds, PTL


-----------------------------------------------------------------------------
(* What a step may do.                                                     *)

(* Only the end of a quarantine, and people, take inputs away.             *)
LEMMA WhoRemoves ==
  ASSUME IInv, [Next]_vars
  PROVE  inbox' = inbox \/ Remove \/ edits' # edits
<1>1. CASE Scan
  BY <1>1 DEF Scan, Open, BeginCycle, EndScan, EndCycle, Observe, files
<1>2. CASE Attempt
  BY <1>2 DEF Attempt, Take, Process, Render, Publish, PublishReceipt, Verify,
     RequireOutput, RequireReceipt, Complete, files
<1>3. CASE Quarantine
  BY <1>3 DEF Quarantine, Evidence, Copy, Explain, Check, Done, files
<1>4. CASE Failure
  BY <1>4 DEF Failure, ObserveFails, TakeUnreadable, ProcessDefers, RunFails, RunDefers,
     QuarantineFails, Kill, files
<1>5. CASE \E p \in Paths : EditInput(p)
  <2>1. edits \in Nat /\ edits' = edits + 1
    BY <1>5 DEF EditInput, Edit, IInv, TypeOK
  <2> QED BY <2>1
<1>6. CASE \E place \in Place : EditOutput(place)
  BY <1>6 DEF EditOutput
<1>7. CASE (\E p \in Paths : Settle(p)) \/ (\E id \in Id : Due(id))
  BY <1>7 DEF Settle, Due, files
<1>8. CASE UNCHANGED vars
  BY <1>8 DEF vars, files
<1> QED BY <1>1, <1>2, <1>3, <1>4, <1>5, <1>6, <1>7, <1>8 DEF Next, Others

(* The watcher removes an input only when its copy and its explanation are *)
(* in place and the state file knows them, and what it removes is what it  *)
(* copied, or what came under the name after the last comparison.          *)
THEOREM RemovalHolds == Spec => RemovedIsKept
<1>1. ASSUME IInv, [Next]_vars, NEW p \in Paths,
             inbox[p] # NoFile, inbox'[p] = NoFile, edits' = edits
      PROVE  /\ step.id.path = p /\ Kept(step.id)
             /\ inbox[p].content = step.id.content \/ "input" \in step.touched
  <2>1. Remove
    BY <1>1, WhoRemoves
  <2>2. step.at = "remove" /\ inbox' = [inbox EXCEPT ![step.id.path] = NoFile]
    BY <1>1, <2>1 DEF Remove
  <2>3. step.at \in Hiding /\ step.at \in Hiding \ {"evidence"}
    BY <2>2 DEF Hiding
  <2>4. step.id \in Id /\ mem = saved /\ inbox \in [Paths -> File]
    BY <1>1, <2>3, AttemptKnows DEF IInv, TypeOK
  <2>5. step.id.path = p
    BY <1>1, <2>2, <2>4 DEF Id
  <2>6. job.evidence # None /\ quar[Asylum] = step.id.content /\ reason[Asylum] = job.evidence
    BY <1>1, <2>2, <2>3 DEF IInv, StepInv
  <2>7. Asylum \in {Plain(step.id), Digested(step.id)}
    BY <1>1, <2>3, CopyFits
  <2>8. Kept(step.id)
    BY <2>4, <2>6, <2>7 DEF Kept, job
  <2>9. Source.content = step.id.content \/ "input" \in step.touched
    BY <1>1, <2>2 DEF IInv, StepInv
  <2> QED BY <2>5, <2>8, <2>9 DEF Source
<1>2. IInv /\ [Next]_vars =>
        [\A p \in Paths : inbox[p] # NoFile /\ inbox'[p] = NoFile /\ edits' = edits
           => /\ step.id.path = p /\ Kept(step.id)
              /\ inbox[p].content = step.id.content \/ "input" \in step.touched]_vars
  BY <1>1
<1> QED BY <1>2, InvHolds, PTL DEF Spec, RemovedIsKept

(* Which jobs a step calls completed in the state file that were not.      *)
NewlyDone(id) == saved.jobs[id].status # "completed" /\ saved'.jobs[id].status = "completed"

LEMMA WritesNoDone ==
  ASSUME IInv, NEW m, NEW next, Save(m, next) \/ saved' = m,
         \A id \in Id : m.jobs[id].status = "completed" =>
                          mem.jobs[id].status = "completed"
  PROVE  \A id \in Id : ~NewlyDone(id)
BY DEF Save, NewlyDone, IInv, Recorded

LEMMA WritesJob ==
  ASSUME IInv, NEW id \in Id, NEW r \in Job, NEW next,
         r.status = "completed" => mem.jobs[id].status = "completed",
         Save(With(id, r), next) \/ saved' = With(id, r)
  PROVE  \A j \in Id : ~NewlyDone(j)
<1>1. mem \in State
  BY DEF IInv, TypeOK
<1>2. /\ With(id, r).jobs[id] = r
      /\ \A j \in Id \ {id} : With(id, r).jobs[j] = mem.jobs[j]
  BY <1>1, WithJob DEF With
<1>3. \A j \in Id : With(id, r).jobs[j].status = "completed" =>
                      mem.jobs[j].status = "completed"
  BY <1>2
<1> QED BY <1>3, WritesNoDone

LEMMA ResumedDone ==
  ASSUME NEW m \in State, NEW id \in Id, Resumed(m).jobs[id].status = "completed"
  PROVE  m.jobs[id].status = "completed"
<1>1. m.jobs[id] \in Job
  BY DEF State
<1>2. Resumed(m).jobs[id] = IF m.jobs[id].status = "processing"
                              THEN [m.jobs[id] EXCEPT !.status = "retry", !.due = TRUE]
                              ELSE m.jobs[id]
  BY DEF Resumed, State
<1> QED BY <1>1, <1>2 DEF Job

LEMMA ScanDone == ASSUME IInv, Scan PROVE \A id \in Id : ~NewlyDone(id)
<1>1. mem \in State /\ saved \in State
  BY DEF IInv, TypeOK
<1>2. CASE Open
  BY <1>1, <1>2, ResumedDone DEF Open, NewlyDone
<1>3. CASE BeginCycle
  <2>1. CASE saved' = saved
    BY <2>1 DEF NewlyDone
  <2>2. CASE Save(Resumed(mem), Scanning)
    BY <1>1, <2>2, ResumedDone, WritesNoDone
  <2> QED BY <1>3, <2>1, <2>2 DEF BeginCycle
<1>4. CASE EndScan
  <2>1. \A id \in Id : Pruned.jobs[id].status = "completed" => mem.jobs[id].status = "completed"
    BY DEF Pruned, NoJob
  <2>2. PICK next : Save(Pruned, next)
    BY <1>4 DEF EndScan
  <2> QED BY <2>1, <2>2, WritesNoDone
<1>5. CASE EndCycle \/ \E p \in Paths : Observe(p)
  BY <1>5 DEF EndCycle, Observe, NewlyDone
<1> QED BY <1>2, <1>3, <1>4, <1>5 DEF Scan

(* A processor that gives up leaves a job that is not completed.           *)
LEMMA GivesUpDone ==
  ASSUME IInv, step.at \in Processing \cup Hiding,
         Permanent \/ Retryable \/ Pending \/ Supersede
  PROVE  \A id \in Id : ~NewlyDone(id)
<1>1. /\ mem \in State /\ step.id \in Id /\ job \in Job /\ Sound(step.id, job, runs)
  BY AttemptKnows DEF Sound
<1>2. /\ Quarantining(step.id) \in Job /\ Quarantining(step.id).status = "quarantinePending"
  BY <1>1 DEF Quarantining, job, Job, Status
<1>3. Waiting \in Job /\ Waiting.status = "retry"
  BY <1>1 DEF Waiting, Job, Status
<1>4. CASE Permanent \/ Pending
  BY <1>1, <1>2, <1>4, WritesJob DEF Permanent, Pending
<1>5. CASE \E next : Save(With(step.id, Waiting), next)
  BY <1>1, <1>3, <1>5, WritesJob
<1>6. CASE Supersede
  <2> DEFINE r == [mem.jobs[step.id] EXCEPT !.status = "superseded"]
  <2>1. r \in Job /\ r.status = "superseded"
    BY <1>1 DEF job, Job, Status, Finished
  <2>2. Save(With(step.id, r), NextDue)
    BY <1>6 DEF Supersede, Superseded
  <2> HIDE DEF r
  <2> QED BY <1>1, <2>1, <2>2, WritesJob
<1> QED BY <1>4, <1>5, <1>6 DEF Retryable

LEMMA TakeDone == ASSUME IInv, NEW id \in Id, Take(id) PROVE \A j \in Id : ~NewlyDone(j)
<1>1. mem.jobs[id] \in Job /\ mem \in State
  BY DEF IInv, TypeOK, State
<1>2. CASE saved' = saved
  BY <1>2 DEF NewlyDone
<1>3. CASE \E next : Save(With(id, Quarantining(id)), next)
  <2>1. Quarantining(id) \in Job /\ Quarantining(id).status = "quarantinePending"
    BY <1>1 DEF Quarantining, Job, Status
  <2> QED BY <1>3, <2>1, WritesJob
<1>4. CASE \E next : Save(With(id, Started(mem.jobs[id])), next)
  <2>1. mem.jobs[id].attempts + 1 \in Nat
    BY <1>1 DEF Job
  <2>2. Started(mem.jobs[id]) \in Job /\ Started(mem.jobs[id]).status = "processing"
    BY <1>1, <2>1 DEF Started, Job, Status
  <2> QED BY <1>4, <2>2, WritesJob
<1>5. CASE \E next : Save(Superseded(id), next)
  <2> DEFINE r == [mem.jobs[id] EXCEPT !.status = "superseded"]
  <2>1. r \in Job /\ r.status = "superseded"
    BY <1>1 DEF Job, Status, Finished
  <2>2. PICK next : Save(With(id, r), next)
    BY <1>5 DEF Superseded
  <2> HIDE DEF r
  <2> QED BY <2>1, <2>2, WritesJob
<1> QED BY <1>2, <1>3, <1>4, <1>5 DEF Take


(* A job is completed over the pair that was found for it.                 *)
PairFound(id) ==
  LET place == saved'.jobs[id].place IN
  /\ out'[place] = id.content \/ "output" \in step.touched
  /\ receipt'[place] = id.content \/ "receipt" \in step.touched

LEMMA CompletesPair ==
  ASSUME IInv, Complete, NEW id \in Id, NewlyDone(id)
  PROVE  PairFound(id)
<1> DEFINE r == [job EXCEPT !.status = "completed", !.due = FALSE]
<1>1. step.at = "record" /\ UNCHANGED files /\ step.at \in Processing
  BY DEF Complete, Processing
<1>2. /\ mem \in State /\ step.id \in Id /\ job \in Job /\ mem = saved
  BY <1>1, AttemptKnows
<1>3. r \in Job /\ r.place = job.place
  BY <1>2 DEF Job, Status, Finished
<1>4. \A next : Save(With(step.id, r), next) => saved' \in {saved, With(step.id, r)}
  BY DEF Save
<1>5. saved' \in {saved, With(step.id, r)}
  BY <1>4 DEF Complete
<1> HIDE DEF r
<1>6. saved' = With(step.id, r)
  BY <1>5 DEF NewlyDone
<1>7. /\ saved'.jobs[step.id] = r
      /\ \A j \in Id \ {step.id} : saved'.jobs[j] = mem.jobs[j]
  BY <1>2, <1>3, <1>6, WithJob DEF With
<1>8. id = step.id
  BY <1>2, <1>7 DEF NewlyDone
<1>9. saved'.jobs[id].place = job.place
  BY <1>3, <1>7, <1>8
<1>10. /\ out[job.place] = step.id.content \/ "output" \in step.touched
       /\ receipt[job.place] = step.id.content \/ "receipt" \in step.touched
  BY <1>1 DEF IInv, StepInv
<1> QED BY <1>1, <1>8, <1>9, <1>10 DEF PairFound, files

LEMMA AttemptDone ==
  ASSUME IInv, Attempt, NEW id \in Id, NewlyDone(id)
  PROVE  PairFound(id)
<1>1. CASE Process \/ Verify \/ Render
  <2>1. step.at \in Processing
    BY <1>1 DEF Process, Verify, Render, Processing
  <2>2. CASE Retryable \/ Permanent
    BY <2>1, <2>2, GivesUpDone
  <2>3. CASE UNCHANGED saved
    BY <2>3 DEF NewlyDone
  <2> QED BY <1>1, <2>2, <2>3 DEF Process, Verify, Render
<1>2. CASE Publish \/ PublishReceipt \/ RequireOutput \/ RequireReceipt
  BY <1>2 DEF Publish, PublishReceipt, RequireOutput, RequireReceipt, NewlyDone
<1>3. CASE \E j \in Id : Take(j)
  BY <1>3, TakeDone
<1>4. CASE Complete
  BY <1>4, CompletesPair
<1> QED BY <1>1, <1>2, <1>3, <1>4 DEF Attempt

LEMMA QuarantineDone == ASSUME IInv, Quarantine PROVE \A id \in Id : ~NewlyDone(id)
<1>1. step.at \in Hiding
  BY DEF Quarantine, Evidence, Copy, Explain, Check, Remove, Done, Hiding
<1>2. /\ mem \in State /\ step.id \in Id /\ job \in Job /\ mem = saved
      /\ JobOK(step.id, job, quar, reason, runs) /\ clock \in Nat
  BY <1>1, AttemptKnows DEF IInv, TypeOK
<1>3. CASE Pending \/ Supersede
  BY <1>1, <1>3, GivesUpDone
<1>4. CASE UNCHANGED saved
  BY <1>4 DEF NewlyDone
<1>5. CASE Done
  <2> DEFINE r == [job EXCEPT !.status = "quarantined"]
  <2>1. r \in Job /\ r.status = "quarantined"
    BY <1>2 DEF Job, Status, Finished
  <2>2. Save(With(step.id, r), NextDue)
    BY <1>5 DEF Done
  <2> HIDE DEF r
  <2> QED BY <1>2, <2>1, <2>2, WritesJob
<1>6. CASE /\ clock' = clock + 1
           /\ Save(With(step.id, [job EXCEPT !.evidence = clock']), [step EXCEPT !.at = "copy"])
  <2> DEFINE r == [job EXCEPT !.evidence = clock']
             next == [step EXCEPT !.at = "copy"]
  <2>1. r \in Job /\ r.status = job.status
    <3>1. clock' \in Nat
      BY <1>2, <1>6
    <3> QED BY <1>2, <3>1 DEF Job
  <2>2. Save(With(step.id, r), next)
    BY <1>6
  <2>3. r.status = "completed" => mem.jobs[step.id].status = "completed"
    BY <2>1 DEF job
  <2> HIDE DEF r, next
  <2> QED BY <1>2, <2>1, <2>2, <2>3, WritesJob
<1>7. CASE Evidence
  BY <1>4, <1>6, <1>7 DEF Evidence
<1>8. CASE Copy \/ Explain \/ Check \/ Remove
  BY <1>3, <1>4, <1>8 DEF Copy, Explain, Check, Remove
<1> QED BY <1>5, <1>7, <1>8 DEF Quarantine

LEMMA FailureDone == ASSUME IInv, Failure PROVE \A id \in Id : ~NewlyDone(id)
<1>1. mem \in State /\ \A id \in Id : mem.jobs[id] \in Job
  BY DEF IInv, TypeOK, State
<1>2. CASE \/ \E p \in Paths : ObserveFails(p)
           \/ QuarantineFails \/ Kill
  BY <1>2 DEF ObserveFails, QuarantineFails, Kill, NewlyDone
<1>3. ASSUME NEW id \in Id, TakeUnreadable(id) PROVE \A j \in Id : ~NewlyDone(j)
  <2> DEFINE r == [mem.jobs[id] EXCEPT !.status = "superseded"]
  <2>1. r \in Job /\ r.status = "superseded"
    BY <1>1 DEF Job, Status, Finished
  <2>2. saved' = With(id, r)
    BY <1>3 DEF TakeUnreadable, Superseded
  <2> HIDE DEF r
  <2> QED BY <2>1, <2>2, WritesJob
<1>4. CASE ProcessDefers \/ RunDefers
  <2> DEFINE r == [Waiting EXCEPT !.attempts = @ - 1]
  <2>1. step.at \in Processing /\ job.attempts > 0
    BY <1>4 DEF ProcessDefers, RunDefers, Processing, IInv, StepInv
  <2>2. step.id \in Id /\ job \in Job
    BY <2>1, AttemptKnows
  <2>3. /\ Waiting \in Job /\ Waiting.status = "retry" /\ Waiting.attempts = job.attempts
        /\ job.attempts \in Nat
    BY <2>2 DEF Waiting, Job, Status
  <2>4. Waiting.attempts - 1 \in Nat
    BY <2>1, <2>3
  <2>5. r \in Job /\ r.status = "retry"
    BY <2>3, <2>4 DEF Job
  <2>6. saved' = With(step.id, r)
    BY <1>4 DEF ProcessDefers, RunDefers
  <2> HIDE DEF r
  <2> QED BY <2>2, <2>5, <2>6, WritesJob
<1>5. CASE RunFails
  <2>1. step.at \in Processing
    BY <1>5 DEF RunFails, Processing
  <2>2. step.id \in Id /\ job \in Job
    BY <2>1, AttemptKnows
  <2>3. Waiting \in Job /\ Waiting.status = "retry"
    BY <2>2 DEF Waiting, Job, Status
  <2>4. /\ Quarantining(step.id) \in Job
        /\ Quarantining(step.id).status = "quarantinePending"
    BY <2>2 DEF Quarantining, job, Job, Status
  <2>5. saved' = With(step.id, Waiting) \/ saved' = With(step.id, Quarantining(step.id))
    BY <1>5 DEF RunFails
  <2> QED BY <2>2, <2>3, <2>4, <2>5, WritesJob
<1> QED BY <1>2, <1>3, <1>4, <1>5 DEF Failure

LEMMA OthersDone ==
  ASSUME IInv, Others \/ (\E p \in Paths : Settle(p)) \/ (\E id \in Id : Due(id))
               \/ UNCHANGED vars
  PROVE  \A id \in Id : ~NewlyDone(id)
<1>1. saved \in State
  BY DEF IInv, TypeOK
<1>2. CASE Others \/ UNCHANGED vars
  BY <1>2 DEF Others, EditInput, EditOutput, vars, NewlyDone
<1>3. ASSUME NEW p \in Paths, Settle(p) PROVE \A id \in Id : ~NewlyDone(id)
  <2>1. saved'.jobs = saved.jobs
    BY <1>1, <1>3 DEF Settle, State
  <2> QED BY <2>1 DEF NewlyDone
<1>4. ASSUME NEW id \in Id, Due(id) PROVE \A j \in Id : ~NewlyDone(j)
  <2>1. saved' \in {saved, [saved EXCEPT !.jobs[id].due = TRUE]}
    BY <1>4 DEF Due
  <2>2. \A j \in Id : [saved EXCEPT !.jobs[id].due = TRUE].jobs[j].status = saved.jobs[j].status
    BY <1>1 DEF State, Job
  <2>3. \A j \in Id : saved'.jobs[j].status = saved.jobs[j].status
    BY <2>1, <2>2
  <2> QED BY <2>3 DEF NewlyDone
<1> QED BY <1>2, <1>3, <1>4

(* The state file calls a job completed only when both its output and its  *)
(* receipt were found made from the content of the job, and what others    *)
(* take away is noticed up to its own last check: a watcher that died      *)
(* between the two never leaves a job completed over something else.       *)
THEOREM CompletionHolds == Spec => CompletedIsPaired
<1>1. ASSUME IInv, [Next]_vars, NEW id \in Id, NewlyDone(id)
      PROVE  PairFound(id)
  <2>1. Attempt
    BY <1>1, ScanDone, QuarantineDone, FailureDone, OthersDone DEF Next
  <2> QED BY <1>1, <2>1, AttemptDone
<1>2. IInv /\ [Next]_vars =>
        [\A id \in Id :
           saved.jobs[id].status # "completed" /\ saved'.jobs[id].status = "completed" =>
             LET place == saved'.jobs[id].place IN
             /\ out'[place] = id.content \/ "output" \in step.touched
             /\ receipt'[place] = id.content \/ "receipt" \in step.touched]_vars
  BY <1>1 DEF NewlyDone, PairFound
<1> QED BY <1>2, InvHolds, PTL DEF Spec, CompletedIsPaired

=============================================================================
