-------------------------- MODULE BatchJournalProofs --------------------------
(* Proofs about BatchJournal, for every value of its constants.            *)
EXTENDS BatchJournal, FiniteSetTheorems, TLAPS

(* What stands between the steps of a publication: only one thread is past *)
(* the gate, and only while the session is active; its record precedes its *)
(* output; and whatever a destination names that a run has made was once   *)
(* placed, also when a power cut brings it back.                           *)
Placed(id) == \E p \in placed : p.id = id
Known(i, c) == c.kind = "product" => Placed([item |-> i, output |-> c])

WorkerInv(i) ==
  /\ worker[i].at \in Step \ {"todo"} => worker[i].stage \in Product
  /\ Holder(i) => phase = "active"
  /\ worker[i].at \in {"prepared", "committed"} /\ run.resume => RecordOf(i) \in Prepared
  /\ worker[i].at = "committed" => Placed(RecordOf(i))
  /\ worker[i].at = "done" /\ run.resume => RecordOf(i) \in Completed

PlaceInv(i) == Known(i, output[i]) /\ Known(i, durable[i]) /\ Known(i, plan[i].output)

SessionInv ==
  /\ \A i, j \in Items : Holder(i) /\ Holder(j) => i = j
  /\ phase \in {"verify", "repair", "recover"} => run.resume
  /\ torn /\ run.resume => phase \in {"idle", "planning", "verify", "repair", "poisoned"}

(* A synced record goes with the journal file only, any other one with its *)
(* line or with the file.                                                  *)
Gone(id) == [id |-> id, with |-> "file"] \in lost
Missed(id) == \E l \in lost : l.id = id
RecordInv ==
  \A p \in placed : /\ p.by = "synced" => Synced(p.id) \/ Gone(p.id)
                    /\ p.by = "unsynced" => p.id \in Prepared \/ Missed(p.id)

Inv == /\ TypeOK /\ SessionInv
       /\ \A i \in Items : WorkerInv(i) /\ PlaceInv(i)
       /\ Readable /\ RecordInv /\ CompletedWasPlaced

JournalTyped == /\ journal \in Seq(Line) /\ torn \in BOOLEAN
                /\ synced \in 0..Len(journal) /\ file \in {"none", "cached", "disk"}
                /\ lost \subseteq [id : Record, with : {"line", "file"}]

(* The journal only grows.                                                 *)
Grows == /\ Prepared \subseteq Prepared' /\ Completed \subseteq Completed'
         /\ lost' = lost /\ \A id : Synced(id) => Synced(id)'

(* A line that a run may write.                                            *)
Legal(line) == /\ line \in Line
               /\ \/ line.kind = "prepare"
                  \/ line.kind = "complete" /\ line.id \in Prepared

(* The whole lines before and after a legal one are as they were.          *)
LEMMA OneMore ==
  ASSUME journal \in Seq(Line), torn = FALSE, NEW line, Legal(line)
  PROVE  /\ Written(line) = Append(journal, line) /\ Written(line) \in Seq(Line)
         /\ Len(Written(line)) = Len(journal) + 1
         /\ \A n \in 1..Len(journal) : Written(line)[n] = journal[n]
         /\ Written(line)[Len(journal) + 1] = line
         /\ line.kind = "complete" =>
              \E m \in 1..Len(journal) : journal[m] = Prepare(line.id)
<1>1. line \in Line /\ Written(line) = Append(journal, line)
  BY DEF Written, Legal
<1>2. line.kind = "complete" => Prepare(line.id) \in Range(journal)
  <2> SUFFICES ASSUME line.id \in Prepared PROVE Prepare(line.id) \in Range(journal)
    BY DEF Legal, Line
  <2>1. PICK l \in Range(journal) : l.kind = "prepare" /\ l.id = line.id
    BY DEF Prepared
  <2>2. l \in Line
    BY DEF Range
  <2>3. l = Prepare(line.id)
    BY <2>1, <2>2 DEF Line, Prepare
  <2> QED BY <2>3
<1>3. line.kind = "complete" => \E m \in 1..Len(journal) : journal[m] = Prepare(line.id)
  BY <1>2 DEF Range
<1> QED BY <1>1, <1>3

(* A write to a journal that ends in a whole line, cut short or not, keeps *)
(* it readable and loses no record; a whole one adds its own record only.  *)
LEMMA Appending ==
  ASSUME JournalTyped, torn = FALSE, Readable,
         NEW line, Residue(line) \/ Append1(line), Legal(line)
  PROVE  /\ JournalTyped' /\ Readable' /\ Grows
         /\ Completed' \subseteq Completed \cup
                (IF line.kind = "complete" THEN {line.id} ELSE {})
         /\ Append1(line) /\ line.kind = "prepare" => line.id \in Prepared'
         /\ Append1(line) /\ line.kind = "complete" => line.id \in Completed'
<1>0. /\ journal \in Seq(Line) /\ Len(journal) \in Nat /\ synced \in 0..Len(journal)
      /\ file \in {"none", "cached", "disk"}
      /\ lost \subseteq [id : Record, with : {"line", "file"}]
  BY DEF JournalTyped
<1>1. /\ lost' = lost /\ file' \in {"none", "cached", "disk"}
      /\ torn' \in BOOLEAN /\ journal' \in {journal, Written(line)}
      /\ synced' = synced \/ (synced' = Len(journal') /\ journal' = Written(line))
  BY <1>0 DEF Residue, Append1, Open, journalVars
<1>2. /\ Written(line) \in Seq(Line) /\ Len(Written(line)) = Len(journal) + 1
      /\ \A n \in 1..Len(journal) : Written(line)[n] = journal[n]
      /\ Written(line)[Len(journal) + 1] = line
      /\ line.kind = "complete" =>
           \E m \in 1..Len(journal) : journal[m] = Prepare(line.id)
  BY <1>0, OneMore
<1>3. CASE journal' = journal
  <2>1. ~Append1(line) /\ synced' = synced
    BY <1>1, <1>2, <1>3 DEF Append1
  <2>2. /\ Prepared' = Prepared /\ Completed' = Completed
        /\ Readable' /\ \A id : Synced(id) => Synced(id)'
    BY <1>3, <2>1 DEF Readable, Prepared, Completed, Synced
  <2> QED BY <1>0, <1>1, <1>3, <2>1, <2>2 DEF JournalTyped, Grows
<1>4. CASE journal' = Written(line)
  <2>1. Range(journal') = Range(journal) \cup {line}
    <3>1. DOMAIN journal = 1..Len(journal) /\ DOMAIN journal' = 1..(Len(journal) + 1)
      BY <1>0, <1>2, <1>4
    <3> QED BY <1>0, <1>2, <1>4, <3>1 DEF Range
  <2>2. /\ Prepared' = Prepared \cup (IF line.kind = "prepare" THEN {line.id} ELSE {})
        /\ Completed' = Completed \cup (IF line.kind = "complete" THEN {line.id} ELSE {})
    BY <2>1 DEF Prepared, Completed
  <2>3. Readable'
    <3> SUFFICES ASSUME NEW n \in 1..Len(journal')
                 PROVE  /\ journal'[n].kind # "garbage"
                        /\ journal'[n].kind = "complete" =>
                             \E m \in 1..(n - 1) : journal'[m] = Prepare(journal'[n].id)
      BY DEF Readable
    <3>1. CASE n \in 1..Len(journal)
      BY <1>0, <1>2, <1>4, <3>1 DEF Readable
    <3>2. CASE n = Len(journal) + 1
      BY <1>0, <1>2, <1>4, <3>2 DEF Legal
    <3> QED BY <1>0, <1>2, <1>4, <3>1, <3>2
  <2>4. \A id : Synced(id) => Synced(id)'
    <3> SUFFICES ASSUME NEW id, NEW n \in 1..synced, journal[n] = Prepare(id)
                 PROVE  n \in 1..synced' /\ journal'[n] = Prepare(id)
      BY DEF Synced
    <3> QED BY <1>0, <1>1, <1>2, <1>4
  <2>5. synced' \in 0..Len(journal')
    BY <1>0, <1>1, <1>2, <1>4
  <2> QED BY <1>0, <1>1, <1>2, <1>4, <2>2, <2>3, <2>4, <2>5 DEF JournalTyped, Grows
<1> QED BY <1>1, <1>3, <1>4

(* What a power cut leaves of the journal is readable, and has every       *)
(* record that was synced.                                                 *)
LEMMA Cutting ==
  ASSUME JournalTyped, Readable, KeepsLines,
         \A line \in Writing : Legal(line) /\ torn = FALSE
  PROVE  /\ JournalTyped' /\ Readable' /\ lost \subseteq lost'
         /\ \A id \in Completed' :
              id \in Completed \/ \E l \in Writing : l.kind = "complete" /\ l.id = id
         /\ \A id \in Prepared : id \in Prepared' \/ Missed(id)'
         /\ \A id : Synced(id) => Synced(id)'
         /\ Len(journal') <= Len(journal)
              \/ (Writing # {} /\ Len(journal') <= Len(journal) + 1)
<1>0. /\ journal \in Seq(Line) /\ Len(journal) \in Nat /\ synced \in 0..Len(journal)
      /\ file \in {"none", "cached", "disk"}
      /\ lost \subseteq [id : Record, with : {"line", "file"}] /\ torn \in BOOLEAN
  BY DEF JournalTyped
<1>1. PICK lines \in {journal} \cup {Written(l) : l \in Writing} :
        \E n \in synced..Len(lines) :
          /\ journal' = SubSeq(lines, 1, n)
          /\ torn' \in IF n < Len(lines) \/ torn THEN BOOLEAN ELSE {FALSE}
          /\ synced' = n
          /\ file' = IF file = "none" /\ lines = journal THEN "none" ELSE "disk"
          /\ lost' = lost \cup {[id |-> id, with |-> "line"] : id \in Prepared \ Prepared'}
  BY DEF KeepsLines
<1>2. PICK n \in synced..Len(lines) :
          /\ journal' = SubSeq(lines, 1, n)
          /\ torn' \in IF n < Len(lines) \/ torn THEN BOOLEAN ELSE {FALSE}
          /\ synced' = n
          /\ file' = IF file = "none" /\ lines = journal THEN "none" ELSE "disk"
          /\ lost' = lost \cup {[id |-> id, with |-> "line"] : id \in Prepared \ Prepared'}
  BY <1>1
<1>3. ASSUME NEW l \in Writing, lines = Written(l)
      PROVE  /\ lines \in Seq(Line) /\ Len(lines) = Len(journal) + 1
             /\ \A m \in 1..Len(journal) : lines[m] = journal[m]
             /\ lines[Len(journal) + 1] = l /\ Legal(l)
             /\ l.kind = "complete" => \E m \in 1..Len(journal) : journal[m] = Prepare(l.id)
  BY <1>0, <1>3, OneMore
<1>4. /\ lines \in Seq(Line) /\ \A m \in 1..Len(journal) : lines[m] = journal[m]
      /\ Len(lines) \in {Len(journal), Len(journal) + 1}
      /\ Len(lines) = Len(journal) + 1 => Writing # {}
      /\ \A m \in 1..Len(lines) : m \notin 1..Len(journal) =>
           /\ m = Len(journal) + 1 /\ lines[m].kind # "garbage"
           /\ lines[m].kind = "complete" =>
                /\ \E k \in 1..Len(journal) : journal[k] = Prepare(lines[m].id)
                /\ \E l \in Writing : l.kind = "complete" /\ l.id = lines[m].id
  <2>1. CASE lines = journal
    BY <1>0, <2>1
  <2>2. ASSUME NEW l \in Writing, lines = Written(l)
        PROVE  /\ lines \in Seq(Line) /\ \A m \in 1..Len(journal) : lines[m] = journal[m]
               /\ Len(lines) = Len(journal) + 1 /\ Writing # {}
               /\ \A m \in 1..Len(lines) : m \notin 1..Len(journal) =>
                    /\ m = Len(journal) + 1 /\ lines[m] = l
                    /\ lines[m].kind # "garbage"
                    /\ lines[m].kind = "complete" =>
                         \E k \in 1..Len(journal) : journal[k] = Prepare(lines[m].id)
    BY <1>0, <1>3, <2>2 DEF Legal
  <2> QED BY <1>1, <2>1, <2>2
<1>5. /\ n \in Nat /\ n <= Len(lines) /\ synced <= n
      /\ journal' \in Seq(Line) /\ Len(journal') = n
      /\ \A m \in 1..n : journal'[m] = lines[m]
  BY <1>0, <1>2, <1>4
<1>6. Readable'
  <2> SUFFICES ASSUME NEW m \in 1..n
               PROVE  /\ journal'[m].kind # "garbage"
                      /\ journal'[m].kind = "complete" =>
                           \E k \in 1..(m - 1) : journal'[k] = Prepare(journal'[m].id)
    BY <1>5 DEF Readable
  <2>1. CASE m \in 1..Len(journal)
    <3>1. journal'[m] = journal[m] /\ \A k \in 1..(m - 1) : journal'[k] = journal[k]
      BY <1>0, <1>4, <1>5, <2>1
    <3> QED BY <2>1, <3>1 DEF Readable
  <2>2. CASE m \notin 1..Len(journal)
    <3>1. m = Len(journal) + 1 /\ \A k \in 1..(m - 1) : journal'[k] = journal[k]
      BY <1>0, <1>4, <1>5, <2>2
    <3> QED BY <1>0, <1>4, <1>5, <2>2, <3>1
  <2> QED BY <2>1, <2>2
<1>7. \A id \in Completed' :
        id \in Completed \/ \E l \in Writing : l.kind = "complete" /\ l.id = id
  <2> SUFFICES ASSUME NEW m \in 1..n, journal'[m].kind = "complete"
               PROVE  \/ journal'[m].id \in Completed
                      \/ \E l \in Writing : l.kind = "complete" /\ l.id = journal'[m].id
    BY <1>5 DEF Completed, Range
  <2>1. CASE m \in 1..Len(journal)
    BY <1>0, <1>4, <1>5, <2>1 DEF Completed, Range
  <2> QED BY <1>4, <1>5, <2>1
<1>8. \A id \in Prepared : id \in Prepared' \/ Missed(id)'
  <2> SUFFICES ASSUME NEW id \in Prepared, id \notin Prepared'
               PROVE  \E l \in lost' : l.id = id
    BY DEF Missed
  <2>1. [id |-> id, with |-> "line"] \in lost'
    BY <1>2
  <2> QED BY <2>1
<1>9. \A id : Synced(id) => Synced(id)'
  <2> SUFFICES ASSUME NEW id, NEW m \in 1..synced, journal[m] = Prepare(id)
               PROVE  m \in 1..synced' /\ journal'[m] = Prepare(id)
    BY DEF Synced
  <2> QED BY <1>0, <1>2, <1>4, <1>5
<1>10. JournalTyped'
  <2>1. Prepared \subseteq Record
    <3>1. Range(journal) \subseteq Line
      BY <1>0 DEF Range
    <3> QED BY <3>1 DEF Prepared, Line
  <2>2. lost' \subseteq [id : Record, with : {"line", "file"}]
    BY <1>0, <1>2, <2>1
  <2>3. torn' \in BOOLEAN /\ file' \in {"none", "cached", "disk"}
    BY <1>2
  <2> QED BY <1>2, <1>5, <2>2, <2>3 DEF JournalTyped
<1> QED BY <1>2, <1>4, <1>5, <1>6, <1>7, <1>8, <1>9, <1>10

(* No step makes the journal unreadable, a completion is only added for an *)
(* output that was placed, and only a power cut takes a record.            *)
Cut == /\ lost \subseteq lost'
       /\ \A id \in Prepared : id \in Prepared' \/ Missed(id)'
       /\ \A id : Synced(id) => Synced(id)' \/ Gone(id)'

LEMMA JournalStep ==
  ASSUME Inv, [Next]_vars
  PROVE  /\ JournalTyped' /\ Readable'
         /\ \A id \in Completed' : id \in Completed \/ Placed(id)
         /\ Grows \/ (PowerCut /\ Cut)
<1> DEFINE Goal == /\ JournalTyped' /\ Readable'
                   /\ \A id \in Completed' : id \in Completed \/ Placed(id)
                   /\ Grows \/ (PowerCut /\ Cut)
<1>1. /\ JournalTyped /\ Readable /\ run \in Run
      /\ worker \in [Items -> Worker] /\ plan \in [Items -> Plan]
      /\ SessionInv /\ \A i \in Items : WorkerInv(i) /\ PlaceInv(i)
  BY DEF Inv, TypeOK, JournalTyped
<1>2. ASSUME UNCHANGED <<journal, file, lost>>, torn' \in BOOLEAN,
             synced' \in {synced, Len(journal)}
      PROVE  Goal
  <2>1. /\ Prepared' = Prepared /\ Completed' = Completed /\ Readable'
        /\ \A id : Synced(id) => Synced(id)'
    BY <1>1, <1>2 DEF JournalTyped, Readable, Prepared, Completed, Synced
  <2>2. JournalTyped'
    BY <1>1, <1>2 DEF JournalTyped
  <2> QED BY <1>2, <2>1, <2>2 DEF Grows
<1>3. CASE UNCHANGED journalVars
  BY <1>1, <1>2, <1>3 DEF journalVars, JournalTyped
<1>4. ASSUME NEW line, Legal(line), torn = FALSE, Residue(line) \/ Append1(line),
             line.kind = "complete" => Placed(line.id)
      PROVE  Goal
  <2>1. /\ JournalTyped' /\ Readable' /\ Grows
        /\ Completed' \subseteq Completed \cup
               (IF line.kind = "complete" THEN {line.id} ELSE {})
    BY <1>1, <1>4, Appending
  <2> QED BY <1>4, <2>1
<1>5. ASSUME NEW i \in Items, Holder(i), run.resume
      PROVE  torn = FALSE /\ RecordOf(i) \in Record
  <2>1. phase = "active" /\ worker[i].stage \in Product
    BY <1>1, <1>5 DEF WorkerInv, Holder, Step
  <2> QED BY <1>1, <1>5, <2>1 DEF JournalTyped, SessionInv, RecordOf, Record
<1>6. ASSUME NEW i \in Items, worker[i].at = "gate", NeedsPrepare(i)
      PROVE  Legal(Prepare(RecordOf(i))) /\ torn = FALSE /\ Prepare(RecordOf(i)).kind = "prepare"
  <2>1. torn = FALSE /\ RecordOf(i) \in Record
    BY <1>5, <1>6 DEF Holder, NeedsPrepare
  <2> QED BY <2>1 DEF Prepare, Line, Legal
<1>7. ASSUME NEW i \in Items, worker[i].at = "committed", NeedsComplete(i)
      PROVE  /\ Legal(Complete(RecordOf(i))) /\ torn = FALSE
             /\ Complete(RecordOf(i)).id = RecordOf(i) /\ Placed(RecordOf(i))
  <2>1. torn = FALSE /\ RecordOf(i) \in Record /\ run.resume
    BY <1>5, <1>7 DEF Holder, NeedsComplete
  <2>2. RecordOf(i) \in Prepared /\ Placed(RecordOf(i))
    BY <1>1, <1>7, <2>1 DEF WorkerInv
  <2> QED BY <2>1, <2>2 DEF Complete, Line, Legal
<1>8. ASSUME phase = "recover", NEW id \in Recoveries
      PROVE  /\ Legal(Complete(id)) /\ torn = FALSE
             /\ Complete(id).id = id /\ Placed(id)
  <2>1. torn = FALSE
    BY <1>1, <1>8 DEF SessionInv, JournalTyped
  <2>2. id \in Prepared /\ id \in Record
    <3>1. PICK l \in Range(journal) : l.id = id /\ l.kind = "prepare"
      BY <1>8 DEF Recoveries, Prepared
    <3>2. l \in Line
      BY <1>1 DEF Range, JournalTyped
    <3> QED BY <1>8, <3>1, <3>2 DEF Recoveries, Line
  <2>3. Placed(id)
    <3>1. PICK i \in Items : id.item = i /\ id.output = plan[i].output
      BY <1>8 DEF Recoveries, Skipped, Matches
    <3>2. id = [item |-> i, output |-> plan[i].output] /\ plan[i].output.kind = "product"
      BY <2>2, <3>1 DEF Record, Product
    <3> QED BY <1>1, <3>2 DEF PlaceInv, Known
  <2> QED BY <2>1, <2>2, <2>3 DEF Complete, Line, Legal
<1>9. ASSUME NEW line \in Writing
      PROVE  Legal(line) /\ torn = FALSE /\ (line.kind = "complete" => Placed(line.id))
  <2>1. CASE \E i \in Items : /\ worker[i].at = "gate" /\ NeedsPrepare(i)
                              /\ line = Prepare(RecordOf(i))
    BY <1>6, <2>1
  <2>2. CASE \E i \in Items : /\ worker[i].at = "committed" /\ NeedsComplete(i)
                              /\ line = Complete(RecordOf(i))
    BY <1>7, <2>2
  <2>3. CASE phase = "recover" /\ \E id \in Recoveries : line = Complete(id)
    BY <1>8, <2>3
  <2> QED BY <2>1, <2>2, <2>3 DEF Writing
<1>10. HalfRepaired => Goal
  BY <1>1, <1>2 DEF HalfRepaired, JournalTyped
<1>11. ASSUME SessionStep PROVE Goal
  <2>1. CASE Repair
    <3>1. /\ UNCHANGED <<journal, file, lost>> /\ torn' \in BOOLEAN
          /\ synced' \in {synced, Len(journal)}
      BY <2>1 DEF Repair
    <3> QED BY <1>2, <3>1
  <2>2. CASE Recover
    BY <1>3, <1>4, <1>8, <2>2 DEF Recover
  <2> QED BY <1>3, <1>11, <2>1, <2>2
          DEF SessionStep, Activate, Leave, Verified, Finish, PlanItem, Recheck, Verify
<1>12. ASSUME NEW i \in Items, WorkerStep(i) PROVE Goal
  <2>1. CASE AppendPrepare(i)
    BY <1>3, <1>4, <1>6, <2>1 DEF AppendPrepare
  <2>2. CASE AppendComplete(i)
    BY <1>3, <1>4, <1>7, <2>2 DEF AppendComplete
  <2> QED BY <1>3, <1>12, <2>1, <2>2 DEF WorkerStep, Process, Queue, EnterGate, Commit
<1>13. ASSUME PowerCut PROVE Goal
  <2>1. CASE KeepsLines
    <3>1. /\ JournalTyped' /\ Readable' /\ lost \subseteq lost'
          /\ \A id \in Completed' :
               id \in Completed \/ \E l \in Writing : l.kind = "complete" /\ l.id = id
          /\ \A id \in Prepared : id \in Prepared' \/ Missed(id)'
          /\ \A id : Synced(id) => Synced(id)'
      BY <1>1, <1>9, <2>1, Cutting
    <3>2. \A id \in Completed' : id \in Completed \/ Placed(id)
      BY <1>9, <3>1
    <3> QED BY <1>13, <3>1, <3>2 DEF Cut
  <2>2. CASE LosesFile
    <3>1. /\ journal' = <<>> /\ torn' = FALSE /\ synced' = 0 /\ file' = "none"
          /\ lost' = lost \cup {[id |-> id, with |-> "file"] : id \in Prepared}
      BY <2>2 DEF LosesFile
    <3>2. Len(journal') = 0 /\ DOMAIN journal' = {} /\ journal' \in Seq(Line)
      BY <3>1
    <3>3. Readable' /\ Completed' = {}
      BY <3>2 DEF Readable, Completed, Range
    <3>4. \A id \in Prepared : Gone(id)' /\ Missed(id)'
      <4> SUFFICES ASSUME NEW id \in Prepared PROVE Gone(id)' /\ Missed(id)'
        OBVIOUS
      <4>1. [id |-> id, with |-> "file"] \in lost'
        BY <3>1
      <4>2. [id |-> id, with |-> "file"].id = id
        OBVIOUS
      <4> QED BY <4>1, <4>2 DEF Gone, Missed
    <3>5. \A id : Synced(id) => id \in Prepared
      <4> SUFFICES ASSUME NEW id, NEW n \in 1..synced, journal[n] = Prepare(id)
                   PROVE  id \in Prepared
        BY DEF Synced
      <4>1. n \in DOMAIN journal
        BY <1>1 DEF JournalTyped
      <4>2. Prepare(id) \in Range(journal)
        BY <4>1 DEF Range
      <4> QED BY <4>2 DEF Prepared, Prepare
    <3>6. Prepared \subseteq Record
      <4>1. Range(journal) \subseteq Line
        BY <1>1 DEF Range, JournalTyped
      <4> QED BY <4>1 DEF Prepared, Line
    <3>7. JournalTyped'
      <4>1. lost' \subseteq [id : Record, with : {"line", "file"}]
        BY <1>1, <3>1, <3>6 DEF JournalTyped
      <4>2. synced' \in 0..Len(journal')
        BY <3>1, <3>2
      <4>3. torn' \in BOOLEAN /\ file' \in {"none", "cached", "disk"}
        BY <3>1
      <4> QED BY <3>2, <4>1, <4>2, <4>3 DEF JournalTyped
    <3>8. lost \subseteq lost'
      BY <3>1
    <3> QED BY <1>13, <3>3, <3>4, <3>5, <3>7, <3>8 DEF Cut
  <2> QED BY <1>13, <2>1, <2>2 DEF PowerCut
<1>14. ASSUME Failure PROVE Goal
  <2>1. CASE RecoverFails
    BY <1>3, <1>4, <1>8, <1>10, <2>1 DEF RecoverFails
  <2>2. CASE Cancel
    BY <1>3, <2>2 DEF Cancel
  <2>3. CASE Kill
    BY <1>3, <1>4, <1>9, <1>10, <2>3 DEF Kill
  <2>4. ASSUME NEW i \in Items, AppendPrepareFails(i) \/ CommitFails(i) \/ AppendCompleteFails(i)
        PROVE  Goal
    BY <1>3, <1>4, <1>6, <1>7, <2>4 DEF AppendPrepareFails, CommitFails, AppendCompleteFails
  <2> QED BY <1>13, <1>14, <2>1, <2>2, <2>3, <2>4 DEF Failure
<1>15. Goal
  BY <1>3, <1>11, <1>12, <1>14
     DEF Next, Acquire, Others, EditInput, EditOutput, Edit, vars
<1> QED BY <1>15


(* Every step keeps the types.                                             *)
LEMMA BatchTypeStep == Inv /\ [Next]_vars => TypeOK'
<1> SUFFICES ASSUME Inv, [Next]_vars PROVE TypeOK'
  OBVIOUS
<1>1. TypeOK /\ JournalTyped'
  BY JournalStep DEF Inv
<1>2. Missing \in Content /\ Idle \in Worker /\ (Versions # {} => NoPlan \in Plan)
  BY DEF Content, Idle, Worker, NoPlan, Plan, Step, Decision
<1>3. \A i \in Items : Versions # {}
  BY <1>1 DEF TypeOK
<1>4. Quit => /\ phase' = "idle" /\ run' = run /\ cancelled' = FALSE
              /\ checked' = {} /\ touched' = {}
              /\ plan' \in [Items -> Plan] /\ worker' \in [Items -> Worker]
  BY <1>2, <1>3 DEF Quit
<1>5. \A i \in Items, at \in Step \cup Outcome : Enter(i, at) => worker' \in [Items -> Worker]
  <2> SUFFICES ASSUME NEW i \in Items, NEW at \in Step \cup Outcome, Enter(i, at)
               PROVE  worker' \in [Items -> Worker]
    OBVIOUS
  <2>1. [worker[i] EXCEPT !.at = at] \in Worker
    BY <1>1 DEF TypeOK, Worker
  <2>2. worker' = [worker EXCEPT ![i] = [worker[i] EXCEPT !.at = at]]
    BY DEF Enter
  <2> QED BY <1>1, <2>1, <2>2 DEF TypeOK
<1>6. \A i \in Items : Fail(i) => worker' \in [Items -> Worker]
  BY <1>5 DEF Fail, Outcome
<1> USE <1>1 DEF TypeOK, JournalTyped, checkVars
<1>7. ASSUME NEW r \in Runs, Acquire(r) PROVE TypeOK'
  <2>1. plan' \in [Items -> Plan]
    BY <1>2, <1>7 DEF Acquire, Plan, Decision
  <2>2. worker' \in [Items -> Worker] /\ run' \in Run
    BY <1>2, <1>7, RunsAssumption DEF Acquire
  <2> QED BY <1>7, <2>1, <2>2 DEF Acquire, fileVars, counters
<1>8. ASSUME SessionStep PROVE TypeOK'
  <2>1. CASE Activate
    BY <2>1 DEF Activate, fileVars, counters
  <2>2. CASE Leave \/ Finish
    BY <1>4, <2>2 DEF Leave, Finish, fileVars, counters
  <2>3. CASE Verified \/ Repair \/ Recover
    BY <1>4, <2>3 DEF Verified, Repair, Recover, fileVars, counters
  <2>4. ASSUME NEW i \in Items, PlanItem(i) PROVE TypeOK'
    <3>1. \A d \in Decision : Decide(i, d) => /\ plan' \in [Items -> Plan]
                                              /\ UNCHANGED <<phase, run, worker, cancelled, checkVars>>
      <4> SUFFICES ASSUME NEW d \in Decision, Decide(i, d)
                   PROVE  /\ plan' \in [Items -> Plan]
                          /\ UNCHANGED <<phase, run, worker, cancelled, checkVars>>
        OBVIOUS
      <4>1. plan' = [plan EXCEPT ![i] = [plan[i] EXCEPT !.decision = d, !.output = output[i]]]
        BY DEF Decide
      <4>2. [plan[i] EXCEPT !.decision = d, !.output = output[i]] \in Plan
        BY DEF Plan
      <4> QED BY <4>1, <4>2 DEF Decide
    <3> QED BY <1>4, <2>4, <3>1 DEF PlanItem, Decision, fileVars, counters
  <2>5. ASSUME NEW i \in Items, Recheck(i) \/ Verify(i) PROVE TypeOK'
    BY <1>4, <2>5 DEF Recheck, Verify, fileVars, counters
  <2> QED BY <1>8, <2>1, <2>2, <2>3, <2>4, <2>5 DEF SessionStep
<1>9. ASSUME NEW i \in Items, WorkerStep(i) PROVE TypeOK'
  <2> USE DEF gateFrame, fileVars, counters, Step, Outcome
  <2>1. CASE Process(i)
    <3>1. \A v \in Variants :
            [at |-> "staged", stage |-> [kind |-> "product", input |-> plan[i].input,
              recipe |-> run.recipe, variant |-> v]] \in Worker
      BY DEF Worker, Content, Product, Plan, Run
    <3>2. worker' \in [Items -> Worker]
      BY <1>5, <1>6, <2>1, <3>1 DEF Process
    <3> QED BY <2>1, <3>2 DEF Process
  <2>2. CASE Queue(i)
    BY <1>5, <2>2 DEF Queue
  <2>3. CASE EnterGate(i)
    BY <1>5, <1>6, <2>3 DEF EnterGate
  <2>4. CASE AppendPrepare(i) \/ AppendComplete(i)
    BY <1>5, <2>4 DEF AppendPrepare, AppendComplete
  <2>5. CASE Commit(i)
    <3>1. worker' \in [Items -> Worker]
      BY <1>5, <1>6, <2>5 DEF Commit
    <3>2. worker[i].stage \in Product
      BY <2>5 DEF Commit, Inv, WorkerInv
    <3>3. [output EXCEPT ![i] = worker[i].stage] \in [Items -> Content]
      BY <3>2 DEF Content
    <3>4. RecordOf(i) \in Record
      BY <3>2 DEF RecordOf, Record
    <3>5. placed' \subseteq [id : Record, by : {"synced", "unsynced", "plain", "other"}]
      BY <2>5, <3>4 DEF Commit
    <3> QED BY <2>5, <3>1, <3>3, <3>5 DEF Commit
  <2> QED BY <1>9, <2>1, <2>2, <2>3, <2>4, <2>5 DEF WorkerStep
<1>10. ASSUME Failure PROVE TypeOK'
  <2> USE DEF fileVars, gateFrame, counters, Fault
  <2>1. CASE RecoverFails
    <3>1. Quit /\ UNCHANGED <<fileVars, placed>> /\ Fault
      BY <2>1 DEF RecoverFails
    <3>2. faults' \in Nat
      BY <3>1
    <3> QED BY <1>4, <3>1, <3>2
  <2>2. CASE Cancel
    BY <2>2 DEF Cancel
  <2>3. CASE Kill
    <3>1. /\ Quit /\ crashes' \in Nat
          /\ UNCHANGED <<input, output, durable, placed, edits, faults>>
      BY <2>3 DEF Kill, Interrupt
    <3> QED BY <1>4, <3>1
  <2>4. CASE PowerCut
    <3>1. output' \in [Items -> Content] /\ durable' = output'
      BY <2>4 DEF PowerCut, Range
    <3>2. Quit /\ crashes' \in Nat /\ UNCHANGED <<input, placed, edits, faults>>
      BY <2>4 DEF PowerCut, Interrupt
    <3> QED BY <1>4, <3>1, <3>2
  <2>5. ASSUME NEW i \in Items, AppendPrepareFails(i) \/ CommitFails(i) \/ AppendCompleteFails(i)
        PROVE  TypeOK'
    BY <1>6, <2>5 DEF AppendPrepareFails, CommitFails, AppendCompleteFails, AfterFailedAppend
  <2> QED BY <1>10, <2>1, <2>2, <2>3, <2>4, <2>5 DEF Failure
<1>11. ASSUME Others PROVE TypeOK'
  <2> USE DEF sessionVars, Edit
  <2>1. ASSUME NEW i \in Items, EditInput(i) PROVE TypeOK'
    BY <2>1 DEF EditInput
  <2>2. ASSUME NEW i \in Items, EditOutput(i) PROVE TypeOK'
    <3>1. PICK c \in {Missing, Foreign} \cup {id.output : id \in {d \in Prepared : d.item = i}} :
            /\ output' = [output EXCEPT ![i] = c] /\ durable' = [durable EXCEPT ![i] = c]
            /\ placed' = IF c.kind = "product"
                           THEN placed \cup {[id |-> [item |-> i, output |-> c], by |-> "other"]}
                           ELSE placed
      BY <2>2 DEF EditOutput
    <3>2. Prepared \subseteq Record
      <4>1. Range(journal) \subseteq Line
        BY DEF Range
      <4> QED BY <4>1 DEF Prepared, Line
    <3>3. c \in Content
      BY <3>2 DEF Content, Record
    <3>4. c.kind = "product" => c \in Product
      BY <3>3 DEF Content, Missing, Foreign
    <3>5. placed' \subseteq [id : Record, by : {"synced", "unsynced", "plain", "other"}]
      BY <3>1, <3>4 DEF Record
    <3>6. touched' \subseteq Items /\ edits' \in Nat
      BY <2>2 DEF EditOutput
    <3> QED BY <2>2, <3>1, <3>3, <3>5, <3>6 DEF EditOutput
  <2> QED BY <1>11, <2>1, <2>2 DEF Others
<1>12. CASE UNCHANGED vars
  BY <1>12 DEF vars, fileVars, sessionVars, counters
<1> QED BY <1>7, <1>8, <1>9, <1>10, <1>11, <1>12 DEF Next


(* Every step keeps what stands between the steps of a publication.        *)
LEMMA BatchStep == Inv /\ [Next]_vars => Inv'
<1> SUFFICES ASSUME Inv, [Next]_vars PROVE Inv'
  OBVIOUS
<1> DEFINE New(p) == /\ p.by = "synced" => Synced(p.id)
                     /\ p.by = "unsynced" => p.id \in Prepared
<1> SUFFICES /\ SessionInv' /\ \A k \in Items : WorkerInv(k)' /\ PlaceInv(k)'
             /\ placed \subseteq placed' /\ \A p \in placed' \ placed : New(p)
  <2>1. CompletedWasPlaced'
    BY JournalStep DEF Inv, CompletedWasPlaced, Placed
  <2>2. /\ lost \subseteq lost'
        /\ \A id \in Prepared : id \in Prepared' \/ Missed(id)'
        /\ \A id : Synced(id) => Synced(id)' \/ Gone(id)'
    BY JournalStep DEF Grows, Cut
  <2>3. \A id : (Gone(id) => Gone(id)') /\ (Missed(id) => Missed(id)')
    BY <2>2 DEF Gone, Missed
  <2>4. ASSUME NEW p \in placed'
        PROVE  /\ p.by = "synced" => Synced(p.id) \/ Gone(p.id)
               /\ p.by = "unsynced" => p.id \in Prepared \/ Missed(p.id)
    BY DEF Inv, RecordInv
  <2>5. RecordInv'
    BY <2>2, <2>3, <2>4 DEF RecordInv
  <2> QED BY <2>1, <2>5, BatchTypeStep, JournalStep DEF Inv
<1> DEFINE Goal == /\ SessionInv' /\ \A k \in Items : WorkerInv(k)' /\ PlaceInv(k)'
                   /\ placed \subseteq placed'
                   /\ \A p \in placed' \ placed : New(p)
<1> USE DEF Holder
<1>1. /\ TypeOK /\ SessionInv /\ \A i \in Items : WorkerInv(i) /\ PlaceInv(i)
      /\ worker \in [Items -> Worker] /\ plan \in [Items -> Plan]
      /\ Grows \/ PowerCut
  BY JournalStep DEF Inv, TypeOK
<1> DEFINE Later(k, c) == c.kind = "product" =>
                            \E p \in placed' : p.id = [item |-> k, output |-> c]
<1>20. placed \subseteq placed' => \A k \in Items :
        \A c \in {output[k], durable[k], plan[k].output, Missing} : Later(k, c)
  <2> SUFFICES ASSUME placed \subseteq placed', NEW k \in Items
               PROVE  /\ Later(k, output[k]) /\ Later(k, durable[k])
                      /\ Later(k, plan[k].output) /\ Later(k, Missing)
    OBVIOUS
  <2>1. Missing.kind # "product"
    BY DEF Missing
  <2>2. /\ Known(k, output[k]) /\ Known(k, durable[k]) /\ Known(k, plan[k].output)
    BY <1>1 DEF PlaceInv
  <2> QED BY <2>1, <2>2 DEF Known, Placed
<1>21. \A k \in Items : Later(k, output'[k]) /\ Later(k, durable'[k]) /\ Later(k, plan'[k].output)
                       => PlaceInv(k)'
  BY DEF PlaceInv, Known, Placed
<1> HIDE DEF Later
<1>2. ASSUME Quit, placed \subseteq placed', placed' \subseteq placed,
             \A i \in Items : output'[i] \in {output[i], durable[i]}
                              /\ durable'[i] \in {output[i], durable[i]}
      PROVE  Goal
  <2>1. \A i \in Items : worker'[i].at = "todo" /\ plan'[i].output = Missing
    BY <1>2 DEF Quit, Idle, NoPlan
  <2>2. \A i \in Items : WorkerInv(i)'
    BY <2>1 DEF WorkerInv, Step
  <2>3. \A i \in Items : PlaceInv(i)'
    BY <1>20, <1>21, <1>2, <2>1
  <2>4. SessionInv'
    BY <1>2, <2>1 DEF SessionInv, Quit
  <2> QED BY <1>2, <2>2, <2>3, <2>4
<1>3. ASSUME Quit, UNCHANGED <<fileVars, placed>> PROVE Goal
  BY <1>2, <1>3 DEF fileVars
<1>30. ASSUME PowerCut PROVE Goal
  <2>1. \A i \in Items : output'[i] \in {output[i], durable[i]} /\ durable' = output'
    BY <1>30 DEF PowerCut
  <2>2. Quit /\ placed' = placed
    BY <1>30 DEF PowerCut, Interrupt
  <2> QED BY <1>2, <2>1, <2>2
<1> SUFFICES ASSUME Prepared \subseteq Prepared', Completed \subseteq Completed' PROVE Goal
  BY <1>1, <1>30 DEF Grows
<1>4. ASSUME UNCHANGED <<output, durable, run, worker, placed>>,
             \A i \in Items : plan'[i].output \in {plan[i].output, output[i], Missing},
             phase' = phase \/ GateFree,
             phase' \in {"verify", "repair", "recover"} => run.resume,
             torn' /\ run.resume => phase' \in {"idle", "planning", "verify", "repair", "poisoned"}
      PROVE  Goal
  <2>1. \A i \in Items : WorkerInv(i)'
    BY <1>1, <1>4 DEF WorkerInv, RecordOf, GateFree, Placed
  <2>2. \A i \in Items : PlaceInv(i)'
    BY <1>20, <1>21, <1>4
  <2>3. SessionInv'
    BY <1>1, <1>4 DEF SessionInv
  <2> QED BY <1>4, <2>1, <2>2, <2>3
<1>5. ASSUME NEW i \in Items, UNCHANGED <<fileVars, run, plan, placed>>,
             \A k \in Items \ {i} : worker'[k] = worker[k],
             worker'[i].at \in {"cancelled", "failed"}
               \/ (worker'[i].at \in {"staged", "queued"} /\ worker'[i].stage \in Product),
             phase' = phase
               \/ (phase' = "poisoned" /\ \A k \in Items : Holder(k) => k = i),
             phase' = phase => torn' = torn
      PROVE  Goal
  <2>1. \A k \in Items \ {i} : WorkerInv(k)'
    BY <1>1, <1>5 DEF WorkerInv, RecordOf, Placed
  <2>2. WorkerInv(i)'
    BY <1>5 DEF WorkerInv, Step
  <2>3. \A k \in Items : PlaceInv(k)'
    BY <1>20, <1>21, <1>5 DEF fileVars
  <2>4. SessionInv'
    BY <1>1, <1>5 DEF SessionInv
  <2> QED BY <1>5, <2>1, <2>2, <2>3, <2>4
<1>6. \A i \in Items : \A at : Enter(i, at) =>
         /\ worker'[i].at = at /\ worker'[i].stage = worker[i].stage
         /\ \A k \in Items \ {i} : worker'[k] = worker[k]
  BY <1>1 DEF Enter, Worker
<1>7. ASSUME NEW r \in Runs, Acquire(r) PROVE Goal
  <2>1. \A i \in Items : worker'[i].at = "todo" /\ plan'[i].output = Missing
    BY <1>7 DEF Acquire, Idle
  <2>2. \A i \in Items : WorkerInv(i)'
    BY <2>1 DEF WorkerInv, Step
  <2>3. \A i \in Items : PlaceInv(i)'
    BY <1>20, <1>21, <1>7, <2>1 DEF Acquire, fileVars
  <2>4. SessionInv'
    BY <1>7, <2>1 DEF SessionInv, Acquire
  <2> QED BY <1>7, <2>2, <2>3, <2>4 DEF Acquire
<1>8. ASSUME SessionStep PROVE Goal
  <2>1. phase # "active" => GateFree
    BY <1>1 DEF GateFree, WorkerInv
  <2>2. CASE Leave \/ Finish
    BY <1>3, <2>2 DEF Leave, Finish
  <2>3. CASE Activate \/ Verified
    <3>1. CASE Quit
      BY <1>3, <2>3, <3>1 DEF Activate, Verified
    <3>2. CASE ~Quit
      <4>1. /\ UNCHANGED <<fileVars, journalVars, run, plan, worker, placed>>
            /\ phase \in {"planning", "verify"} /\ phase' \in {"verify", "repair", "active"}
            /\ phase' \in {"verify", "repair"} <=> run.resume
        BY <1>1, <2>3, <3>2 DEF Activate, Verified, Planned, SessionInv
      <4> QED BY <1>1, <1>4, <2>1, <4>1 DEF fileVars, journalVars, SessionInv
    <3> QED BY <3>1, <3>2
  <2>4. CASE Repair
    BY <1>1, <1>4, <2>1, <2>4 DEF Repair, fileVars, SessionInv
  <2>5. CASE Recover
    <3>1. torn' = torn \/ torn' = FALSE
      BY <2>5 DEF Recover, Append1, journalVars
    <3>2. phase' \in {"recover", "active"} /\ run.resume
      BY <1>1, <2>5 DEF Recover, SessionInv
    <3>3. torn = FALSE
      BY <1>1, <2>5, <3>2 DEF Recover, SessionInv, TypeOK
    <3> QED BY <1>1, <1>4, <2>1, <2>5, <3>1, <3>2, <3>3 DEF Recover, fileVars
  <2>6. ASSUME NEW i \in Items, PlanItem(i) PROVE Goal
    <3>1. CASE Quit
      BY <1>3, <2>6, <3>1 DEF PlanItem
    <3>2. ASSUME NEW d, Decide(i, d) PROVE Goal
      <4>1. \A k \in Items : plan'[k].output \in {plan[k].output, output[k]}
        BY <1>1, <3>2 DEF Decide, Plan
      <4> QED BY <1>1, <1>4, <2>6, <3>2, <4>1
              DEF PlanItem, Decide, fileVars, journalVars, SessionInv
    <3> QED BY <2>6, <3>1, <3>2 DEF PlanItem
  <2>7. ASSUME NEW i \in Items, Recheck(i) \/ Verify(i) PROVE Goal
    <3>1. CASE Quit
      BY <1>3, <2>7, <3>1 DEF Recheck, Verify
    <3>2. CASE ~Quit
      BY <1>1, <1>4, <2>7, <3>2 DEF Recheck, Verify, fileVars, journalVars, SessionInv
    <3> QED BY <3>1, <3>2
  <2> QED BY <1>8, <2>2, <2>3, <2>4, <2>5, <2>6, <2>7 DEF SessionStep
<1>9. ASSUME NEW i \in Items, WorkerStep(i) PROVE Goal
  <2> USE DEF gateFrame, journalVars
  <2>1. CASE Process(i)
    <3>1. CASE cancelled \/ ~Current(i)
      BY <1>5, <1>6, <2>1, <3>1 DEF Process, Fail
    <3>2. CASE ~cancelled /\ Current(i)
      <4>1. PICK v \in Variants : worker' = [worker EXCEPT ![i] =
              [at |-> "staged",
               stage |-> [kind |-> "product", input |-> plan[i].input,
                          recipe |-> run.recipe, variant |-> v]]]
        BY <2>1, <3>2 DEF Process
      <4>2. worker'[i].at = "staged" /\ worker'[i].stage \in Product
        BY <1>1, <4>1 DEF TypeOK, Plan, Run, Product
      <4> QED BY <1>1, <1>5, <2>1, <4>1, <4>2 DEF Process
    <3> QED BY <3>1, <3>2
  <2>2. CASE Queue(i)
    <3>1. worker[i].stage \in Product
      BY <1>1, <2>2 DEF Queue, WorkerInv, Step
    <3> QED BY <1>5, <1>6, <2>2, <3>1 DEF Queue
  <2>3. CASE EnterGate(i)
    <3>1. CASE worker'[i].at = "gate"
      <4>1. /\ worker'[i].stage = worker[i].stage /\ phase' = phase /\ phase = "active"
            /\ \A k \in Items \ {i} : worker'[k] = worker[k] /\ ~Holder(k)
            /\ UNCHANGED <<fileVars, run, plan, placed, torn>>
        BY <1>1, <1>6, <2>3, <3>1 DEF EnterGate, Fail, GateFree
      <4>2. worker[i].stage \in Product
        BY <1>1, <2>3 DEF EnterGate, WorkerInv, Step
      <4>3. \A k \in Items : WorkerInv(k)' /\ PlaceInv(k)'
        BY <1>1, <3>1, <4>1, <4>2 DEF WorkerInv, RecordOf, PlaceInv, Known, Placed, fileVars
      <4>4. SessionInv'
        BY <1>1, <3>1, <4>1 DEF SessionInv
      <4> QED BY <4>1, <4>3, <4>4
    <3>2. CASE worker'[i].at # "gate"
      BY <1>5, <1>6, <2>3, <3>2 DEF EnterGate, Fail, GateFree
    <3> QED BY <3>1, <3>2
  <2>4. ASSUME worker[i].at \in {"gate", "prepared", "committed"},
               \E at \in {"prepared", "committed", "done"} : Enter(i, at),
               UNCHANGED <<durable, run, plan, phase>>,
               torn' \in {torn, FALSE}, placed \subseteq placed',
               \A p \in placed' \ placed : New(p),
               \A k \in Items : output'[k] = output[k] \/ Later(k, output'[k]),
               WorkerInv(i)'
        PROVE  Goal
    <3>1. \A k \in Items \ {i} : worker'[k] = worker[k] /\ ~Holder(k)
      BY <1>1, <1>6, <2>4 DEF SessionInv
    <3>2. \A k \in Items \ {i} : WorkerInv(k)'
      BY <1>1, <2>4, <3>1 DEF WorkerInv, RecordOf, Placed
    <3>3. \A k \in Items : PlaceInv(k)'
      BY <1>20, <1>21, <2>4
    <3>4. SessionInv'
      <4>1. \A k \in Items : Holder(k)' => k = i
        BY <3>1
      <4>2. /\ torn' \in {torn, FALSE} /\ run' = run /\ phase' = phase
            /\ torn /\ run.resume => phase \in {"idle", "planning", "verify", "repair", "poisoned"}
            /\ phase \in {"verify", "repair", "recover"} => run.resume
        BY <1>1, <2>4 DEF SessionInv
      <4>3. (\A j, k \in Items : Holder(j) /\ Holder(k) => j = k)'
        BY <4>1
      <4>4. (phase \in {"verify", "repair", "recover"} => run.resume)'
        BY <4>2
      <4>5. (torn /\ run.resume => phase \in {"idle", "planning", "verify", "repair", "poisoned"})'
        BY <4>2
      <4> QED BY <4>3, <4>4, <4>5 DEF SessionInv
    <3> QED BY <2>4, <3>2, <3>3, <3>4
  <2>5. ASSUME worker[i].at \in {"gate", "prepared", "committed"},
               NEW at, Enter(i, at), UNCHANGED <<run, phase>>
        PROVE  /\ worker'[i].at = at /\ worker'[i].stage \in Product /\ phase' = "active"
               /\ RecordOf(i)' = RecordOf(i)
    BY <1>1, <1>6, <2>5 DEF WorkerInv, Step, RecordOf
  <2>6. \A line : Append1(line) => torn' = FALSE
    BY DEF Append1
  <2>7. worker[i].at \in {"gate", "prepared", "committed"} /\ run.resume => torn = FALSE
    BY <1>1 DEF WorkerInv, SessionInv, TypeOK
  <2>8. CASE AppendPrepare(i)
    <3>1. run.resume => RecordOf(i) \in Prepared'
      <4>1. CASE NeedsPrepare(i)
        <5>1. RecordOf(i) \in Record /\ torn = FALSE
          BY <1>1, <2>7, <2>8, <4>1
             DEF AppendPrepare, WorkerInv, Step, RecordOf, Record, NeedsPrepare
        <5>2. /\ Legal(Prepare(RecordOf(i))) /\ Prepare(RecordOf(i)).kind = "prepare"
              /\ Prepare(RecordOf(i)).id = RecordOf(i)
          BY <5>1 DEF Prepare, Line, Legal
        <5> QED BY <1>1, <2>6, <2>8, <4>1, <5>1, <5>2, Appending
                DEF AppendPrepare, Inv, TypeOK, JournalTyped
      <4>2. CASE ~NeedsPrepare(i)
        BY <1>1, <4>2 DEF NeedsPrepare
      <4> QED BY <4>1, <4>2
    <3>2. WorkerInv(i)'
      BY <2>5, <2>8, <3>1 DEF AppendPrepare, WorkerInv
    <3> QED BY <1>1, <2>4, <2>6, <2>8, <3>2 DEF AppendPrepare, fileVars
  <2>9. CASE Commit(i) /\ MayCommit(i)
    <3>1. worker[i].stage \in Product
      BY <1>1, <2>9 DEF Commit, WorkerInv, Step
    <3>2. PICK d : /\ placed' = placed \cup {d} /\ d.id = RecordOf(i)
                   /\ d.by = IF ~run.resume THEN "plain"
                             ELSE IF Synced(RecordOf(i)) THEN "synced" ELSE "unsynced"
      <4> DEFINE e == [id |-> RecordOf(i),
                       by |-> IF ~run.resume THEN "plain"
                              ELSE IF Synced(RecordOf(i)) THEN "synced" ELSE "unsynced"]
      <4>1. placed' = placed \cup {e}
        BY <2>9 DEF Commit
      <4>2. /\ e.id = RecordOf(i)
            /\ e.by = IF ~run.resume THEN "plain"
                      ELSE IF Synced(RecordOf(i)) THEN "synced" ELSE "unsynced"
        OBVIOUS
      <4> HIDE DEF e
      <4> QED BY <4>1, <4>2
    <3>7. PICK o \in placed' : o.id = RecordOf(i)
      BY <3>2
    <3>3. Placed(RecordOf(i))'
      <4>1. RecordOf(i)' = RecordOf(i)
        BY <2>5, <2>9 DEF Commit
      <4>2. \E p \in placed' : p.id = RecordOf(i)
        BY <3>7
      <4> QED BY <4>1, <4>2 DEF Placed
    <3>4. WorkerInv(i)'
      BY <1>1, <2>5, <2>9, <3>3 DEF Commit, WorkerInv
    <3>5. \A k \in Items : output'[k] = output[k] \/ Later(k, output'[k])
      <4>1. output'[i] = worker[i].stage /\ \A k \in Items \ {i} : output'[k] = output[k]
        BY <1>1, <2>9 DEF Commit, TypeOK
      <4>2. Later(i, worker[i].stage)
        BY <3>7 DEF Later, RecordOf
      <4> QED BY <4>1, <4>2
    <3>6. \A p \in placed' \ placed : New(p)
      BY <1>1, <2>9, <3>2 DEF Commit, WorkerInv
    <3> QED BY <2>4, <2>9, <3>2, <3>4, <3>5, <3>6 DEF Commit
  <2>10. CASE Commit(i) /\ ~MayCommit(i)
    BY <1>5, <1>6, <2>10 DEF Commit, Fail, fileVars
  <2>11. CASE AppendComplete(i)
    <3>1. run.resume => RecordOf(i) \in Completed'
      <4>1. CASE NeedsComplete(i)
        <5>1. RecordOf(i) \in Record /\ torn = FALSE /\ RecordOf(i) \in Prepared
          BY <1>1, <2>7, <2>11, <4>1
             DEF AppendComplete, WorkerInv, Step, RecordOf, Record, NeedsComplete
        <5>2. /\ Legal(Complete(RecordOf(i))) /\ Complete(RecordOf(i)).kind = "complete"
              /\ Complete(RecordOf(i)).id = RecordOf(i)
          BY <5>1 DEF Complete, Line, Legal
        <5> QED BY <1>1, <2>6, <2>11, <4>1, <5>1, <5>2, Appending
                DEF AppendComplete, Inv, TypeOK, JournalTyped
      <4>2. CASE ~NeedsComplete(i)
        BY <1>1, <4>2 DEF NeedsComplete
      <4> QED BY <4>1, <4>2
    <3>2. WorkerInv(i)'
      BY <2>5, <2>11, <3>1 DEF AppendComplete, WorkerInv
    <3> QED BY <1>1, <2>4, <2>6, <2>11, <3>2 DEF AppendComplete, fileVars
  <2> QED BY <1>9, <2>1, <2>2, <2>3, <2>8, <2>9, <2>10, <2>11 DEF WorkerStep
<1>10. ASSUME Failure PROVE Goal
  <2>1. CASE RecoverFails
    BY <1>3, <2>1 DEF RecoverFails
  <2>2. CASE Cancel
    BY <1>1, <1>4, <2>2 DEF Cancel, fileVars, journalVars, SessionInv
  <2>3. CASE Kill
    BY <1>3, <2>3 DEF Kill, Interrupt, fileVars
  <2>5. ASSUME NEW i \in Items, AppendPrepareFails(i) \/ AppendCompleteFails(i) PROVE Goal
    <3>1. Holder(i) /\ Fail(i) /\ phase' = "poisoned" /\ UNCHANGED gateFrame
      BY <2>5 DEF AppendPrepareFails, AppendCompleteFails, AfterFailedAppend
    <3>2. \A k \in Items : Holder(k) => k = i
      BY <1>1, <3>1 DEF SessionInv
    <3>3. phase # "poisoned"
      BY <1>1, <3>1 DEF WorkerInv
    <3> QED BY <1>5, <1>6, <3>1, <3>2, <3>3 DEF Fail, gateFrame
  <2>6. ASSUME NEW i \in Items, CommitFails(i) PROVE Goal
    BY <1>5, <1>6, <2>6 DEF CommitFails, Fail, gateFrame, journalVars
  <2> QED BY <1>10, <1>30, <2>1, <2>2, <2>3, <2>5, <2>6 DEF Failure
<1>11. ASSUME Others PROVE Goal
  <2> USE DEF Edit, journalVars
  <2>1. ASSUME NEW i \in Items, EditInput(i) PROVE Goal
    BY <1>1, <1>4, <2>1 DEF EditInput, SessionInv
  <2>2. ASSUME NEW i \in Items, EditOutput(i) PROVE Goal
    <3>1. PICK c : /\ output' = [output EXCEPT ![i] = c] /\ durable' = [durable EXCEPT ![i] = c]
                   /\ placed' = IF c.kind = "product"
                        THEN placed \cup {[id |-> [item |-> i, output |-> c], by |-> "other"]}
                        ELSE placed
      BY <2>2 DEF EditOutput
    <3>2. placed \subseteq placed' /\ \A p \in placed' \ placed : p.by = "other" /\ New(p)
      BY <3>1
    <3>3. \A k \in Items : PlaceInv(k)'
      <4>1. Later(i, c)
        <5> SUFFICES ASSUME c.kind = "product"
                     PROVE  \E p \in placed' : p.id = [item |-> i, output |-> c]
          BY DEF Later
        <5>1. [id |-> [item |-> i, output |-> c], by |-> "other"] \in placed'
          BY <3>1
        <5> QED BY <5>1
      <4>2. \A k \in Items : /\ output'[k] \in {output[k], c}
                             /\ output'[k] = c => k = i \/ output'[k] = output[k]
        BY <1>1, <3>1 DEF TypeOK
      <4>3. \A k \in Items : /\ durable'[k] \in {durable[k], c}
                             /\ durable'[k] = c => k = i \/ durable'[k] = durable[k]
        BY <1>1, <3>1 DEF TypeOK
      <4>4. plan' = plan
        BY <2>2 DEF EditOutput
      <4> QED BY <1>20, <1>21, <3>2, <4>1, <4>2, <4>3, <4>4
    <3>4. \A k \in Items : WorkerInv(k)'
      BY <1>1, <2>2, <3>2 DEF EditOutput, WorkerInv, RecordOf, Placed
    <3>5. SessionInv'
      BY <1>1, <2>2 DEF EditOutput, SessionInv
    <3> QED BY <3>2, <3>3, <3>4, <3>5
  <2> QED BY <1>11, <2>1, <2>2 DEF Others
<1>12. CASE UNCHANGED vars
  BY <1>1, <1>4, <1>12 DEF vars, fileVars, journalVars, sessionVars, SessionInv
<1> QED BY <1>7, <1>8, <1>9, <1>10, <1>11, <1>12 DEF Next


(* The invariant holds in every state of every behaviour.                  *)
LEMMA BatchInvariance == Spec => []Inv
<1>1. Init => Inv
  <2> SUFFICES ASSUME Init PROVE Inv
    OBVIOUS
  <2>1. Missing \in Content /\ Idle \in Worker
    BY DEF Content, Idle, Worker, Step
  <2>2. \A i \in Items : NoPlan \in Plan
    BY <2>1 DEF Init, NoPlan, Plan, Decision
  <2>3. journal = <<>> /\ Len(journal) = 0 /\ DOMAIN journal = {} /\ journal \in Seq(Line)
    BY DEF Init
  <2>10. synced \in 0..Len(journal)
    BY <2>3 DEF Init
  <2>4. TypeOK
    BY <2>1, <2>2, <2>3, <2>10, RunsAssumption DEF Init, TypeOK
  <2>5. Readable /\ Completed = {}
    BY <2>3 DEF Readable, Prepared, Completed, Range
  <2>6. \A i \in Items : /\ worker[i].at = "todo" /\ plan[i].output.kind = "missing"
                         /\ output[i].kind = "missing" /\ durable[i].kind = "missing"
    BY DEF Init, Idle, NoPlan, Missing
  <2>7. \A i \in Items : WorkerInv(i) /\ PlaceInv(i)
    BY <2>6 DEF WorkerInv, Holder, Step, PlaceInv, Known
  <2>8. SessionInv
    BY <2>6 DEF Init, SessionInv, Holder
  <2>9. placed = {}
    BY DEF Init
  <2> QED
    BY <2>4, <2>5, <2>7, <2>8, <2>9 DEF Inv, RecordInv, CompletedWasPlaced
<1> QED BY <1>1, BatchStep, PTL DEF Spec

(* Every variable has its type.                                            *)
THEOREM BatchTyped == Spec => []TypeOK
  BY BatchInvariance, PTL DEF Inv

(* Whatever was interrupted or failed, the next run can read the journal.  *)
THEOREM JournalAlwaysReadable == Spec => []JournalReadable
  BY BatchInvariance, PTL DEF Inv, JournalReadable

(* What a resumable run put in place has its record, for ever, but for what*)
(* a power cut takes with the file or with a line that was never synced.   *)
THEOREM PublishedAlwaysRecorded == Spec => []PublishedIsRecorded
<1>1. ASSUME Inv PROVE PublishedIsRecorded
  <2>1. \A id : Synced(id) => id \in Prepared
    <3> SUFFICES ASSUME NEW id, NEW n \in 1..synced, journal[n] = Prepare(id)
                 PROVE  id \in Prepared
      BY DEF Synced
    <3>1. n \in DOMAIN journal
      BY <1>1 DEF Inv, TypeOK
    <3>2. Prepare(id) \in Range(journal)
      BY <3>1 DEF Range
    <3> QED BY <3>2 DEF Prepared, Prepare
  <2> QED BY <1>1, <2>1 DEF Inv, RecordInv, PublishedIsRecorded, Gone, Missed
<1> QED BY <1>1, BatchInvariance, PTL

(* No record is completed for an output that was never in place.           *)
THEOREM CompletedAlwaysPlaced == Spec => []CompletedWasPlaced
  BY BatchInvariance, PTL DEF Inv

(* What a run reports as done is complete in the journal.                  *)
THEOREM DoneAlwaysRecorded == Spec => []DoneIsRecorded
<1>1. Inv => DoneIsRecorded
  BY DEF Inv, WorkerInv, DoneIsRecorded
<1> QED BY <1>1, BatchInvariance, PTL

-----------------------------------------------------------------------------
(* The counting: the gate keeps room for the records a publication still   *)
(* has to add, and the activation for those of the outputs it recovers.    *)

RoomInv ==
  /\ Len(journal) <= MaxRecords
  /\ phase \in {"repair", "recover"} => HasRoom(Cardinality(Recoveries))
  /\ \A i \in Items : /\ worker[i].at = "gate" /\ run.resume => HasRoom(NewRecords(i))
                      /\ worker[i].at \in {"prepared", "committed"} /\ NeedsComplete(i)
                           => HasRoom(1)

(* Only finitely many records are prepared, so only finitely many outputs  *)
(* are to be recovered.                                                    *)
LEMMA RecoveriesFinite ==
  ASSUME journal \in Seq(Line)
  PROVE  IsFiniteSet(Recoveries) /\ Cardinality(Recoveries) \in Nat
<1> DEFINE n == Len(journal)
           T == {journal[m].id : m \in 1..n}
           f == [m \in 1..n |-> journal[m].id]
<1>1. f \in Surjection(1..n, T)
  BY DEF Surjection
<1>2. n \in Nat /\ IsFiniteSet(1..n)
  <2>1. n \in Nat /\ 1 \in Int /\ n \in Int
    OBVIOUS
  <2> QED BY <2>1, FS_Interval
<1> HIDE DEF f
<1>3. IsFiniteSet(T)
  BY <1>1, <1>2, FS_Surjection
<1>4. Recoveries \in SUBSET T
  BY DEF Recoveries, Prepared, Range
<1> HIDE DEF T
<1>5. IsFiniteSet(Recoveries)
  BY <1>3, <1>4, FS_Subset
<1> QED BY <1>5, FS_CardinalityType

(* A line that is appended, or cut short, is at most one more.             *)
LEMMA OneMoreLine ==
  ASSUME journal \in Seq(Line), NEW line, Residue(line) \/ Append1(line)
  PROVE  /\ Len(journal) \in Nat /\ Len(journal') \in Nat
         /\ Len(journal') <= Len(journal) + 1
  BY DEF Residue, Append1, Written, journalVars

(* A power cut adds the line that was being written, at most.              *)
LEMMA CutLength ==
  ASSUME JournalTyped, KeepsLines \/ LosesFile
  PROVE  Len(journal') <= Len(journal) + (IF Writing = {} THEN 0 ELSE 1)
<1>0. journal \in Seq(Line) /\ Len(journal) \in Nat /\ synced \in 0..Len(journal)
  BY DEF JournalTyped
<1>1. CASE LosesFile
  BY <1>0, <1>1 DEF LosesFile
<1>2. CASE KeepsLines
  <2>1. PICK lines \in {journal} \cup {Written(l) : l \in Writing} :
          \E n \in synced..Len(lines) : journal' = SubSeq(lines, 1, n)
    BY <1>2 DEF KeepsLines
  <2>2. PICK n \in synced..Len(lines) : journal' = SubSeq(lines, 1, n)
    BY <2>1
  <2>3. CASE lines = journal
    BY <1>0, <2>2, <2>3
  <2>4. ASSUME NEW l \in Writing, lines = Written(l)
        PROVE  Len(journal') <= Len(journal) + 1
    BY <1>0, <2>2, <2>4 DEF Written
  <2> QED BY <1>0, <2>1, <2>3, <2>4
<1> QED BY <1>1, <1>2

(* A step keeps the room that the records to come need.                    *)
LEMMA RoomStep == Inv /\ RoomInv /\ [Next]_vars => RoomInv'
<1> SUFFICES ASSUME Inv, RoomInv, [Next]_vars PROVE RoomInv'
  OBVIOUS
<1> DEFINE Goal == RoomInv'
<1>1. /\ journal \in Seq(Line) /\ Len(journal) \in Nat /\ MaxRecords \in Nat
      /\ worker \in [Items -> Worker] /\ run \in Run
      /\ SessionInv /\ \A i \in Items : WorkerInv(i)
      /\ Cardinality(Recoveries) \in Nat /\ IsFiniteSet(Recoveries)
  BY RecoveriesFinite, LimitAssumption DEF Inv, TypeOK
<1>2. \A i \in Items : /\ NewRecords(i) \in Nat
                       /\ NeedsPrepare(i) \/ (run.resume /\ NeedsComplete(i)) => NewRecords(i) >= 1
  BY DEF NewRecords, NeedsPrepare, NeedsComplete
<1>3. \A i \in Items : Holder(i) => \A k \in Items : Holder(k) => k = i
  BY <1>1 DEF SessionInv
<1>4. \A i \in Items : Holder(i) => phase = "active"
  BY <1>1 DEF WorkerInv
(* Every line that is written finds room for itself.                       *)
<1> DEFINE Writes == \/ \E i \in Items : worker[i].at = "gate" /\ NeedsPrepare(i)
                     \/ \E i \in Items : worker[i].at = "committed" /\ NeedsComplete(i)
                     \/ phase = "recover" /\ Recoveries # {}
<1>20. ASSUME Writes PROVE HasRoom(1)
  <2>1. Recoveries # {} => Cardinality(Recoveries) >= 1
    BY <1>1, FS_EmptySet
  <2> QED BY <1>1, <1>2, <1>20, <2>1 DEF RoomInv, HasRoom, NeedsPrepare
<1>5. ASSUME NEW line, Writes, Residue(line) \/ Append1(line)
      PROVE  Len(journal') <= MaxRecords
  BY <1>1, <1>5, <1>20, OneMoreLine DEF HasRoom
<1>6. ASSUME Len(journal') <= MaxRecords, phase' \notin {"repair", "recover"},
             \A i \in Items : worker'[i].at \notin {"gate", "prepared", "committed"}
      PROVE  Goal
  BY <1>6 DEF RoomInv
<1>7. ASSUME Quit, Len(journal') <= MaxRecords PROVE Goal
  BY <1>6, <1>7 DEF Quit, Idle
<1>8. Len(journal) <= MaxRecords
  BY DEF RoomInv
<1>9. ASSUME journal' = journal, run' = run, plan' = plan,
             phase' \in {"repair", "recover"} => phase \in {"repair", "recover"},
             \A i \in Items : \/ worker'[i] = worker[i]
                              \/ worker'[i].at \notin {"gate", "prepared", "committed"}
                              \/ /\ worker'[i].stage = worker[i].stage
                                 /\ worker[i].at = "prepared" /\ worker'[i].at = "committed"
      PROVE  Goal
  <2>1. /\ Recoveries' = Recoveries /\ Prepared' = Prepared /\ Completed' = Completed
        /\ \A k : HasRoom(k)' = HasRoom(k)
    BY <1>9 DEF Recoveries, Prepared, Completed, Skipped, Matches, HasRoom
  <2>2. ASSUME NEW i \in Items, worker'[i].stage = worker[i].stage
        PROVE  NewRecords(i)' = NewRecords(i) /\ NeedsComplete(i)' = NeedsComplete(i)
    BY <1>9, <2>1, <2>2 DEF NewRecords, NeedsComplete, RecordOf
  <2>3. \A i \in Items : /\ worker'[i].at = "gate" /\ run'.resume => HasRoom(NewRecords(i))'
                         /\ worker'[i].at \in {"prepared", "committed"} /\ NeedsComplete(i)'
                              => HasRoom(1)'
    BY <1>9, <2>1, <2>2 DEF RoomInv, HasRoom
  <2> QED BY <1>8, <1>9, <2>1, <2>3 DEF RoomInv, HasRoom
<1>10. \A i \in Items : \A at : Enter(i, at) =>
          /\ worker'[i].at = at /\ worker'[i].stage = worker[i].stage
          /\ \A k \in Items \ {i} : worker'[k] = worker[k]
  BY <1>1 DEF Enter, Worker
<1>18. \A i \in Items : AppendPrepare(i) => Completed \subseteq Completed'
  <2> SUFFICES ASSUME NEW i \in Items, AppendPrepare(i), PowerCut PROVE FALSE
    BY JournalStep DEF Grows
  <2>1. worker'[i].at = "prepared"
    BY <1>10 DEF AppendPrepare
  <2> QED BY <2>1 DEF PowerCut, Interrupt, Quit, Idle
<1>11. ASSUME NEW r \in Runs, Acquire(r) PROVE Goal
  BY <1>6, <1>8, <1>11 DEF Acquire, Idle, journalVars

<1>12. ASSUME SessionStep PROVE Goal
  <2>1. phase # "active" => \A i \in Items : ~Holder(i)
    BY <1>4
  <2>2. CASE Leave \/ Finish
    BY <1>7, <1>8, <2>2 DEF Leave, Finish, journalVars
  <2>3. CASE Activate
    <3>1. /\ journal' = journal /\ phase' \notin {"repair", "recover"} /\ worker' = worker
          /\ phase # "active"
      BY <2>3 DEF Activate, Planned, journalVars
    <3> QED BY <1>6, <1>8, <2>1, <3>1 DEF Holder
  <2>7. CASE Verified
    <3>1. CASE HasRoom(Cardinality(Recoveries))
      <4>1. /\ journal' = journal /\ plan' = plan /\ run' = run /\ worker' = worker
            /\ phase' = "repair" /\ \A i \in Items : ~Holder(i)
        BY <2>1, <2>7, <3>1 DEF Verified, journalVars
      <4>2. Recoveries' = Recoveries
        BY <4>1 DEF Recoveries, Prepared, Completed, Skipped, Matches
      <4>3. HasRoom(Cardinality(Recoveries))'
        BY <3>1, <4>1, <4>2 DEF HasRoom
      <4> QED BY <1>8, <4>1, <4>3 DEF RoomInv, Holder
    <3>2. CASE ~HasRoom(Cardinality(Recoveries))
      BY <1>7, <1>8, <2>7, <3>2 DEF Verified, journalVars
    <3> QED BY <3>1, <3>2
  <2>8. ASSUME NEW i \in Items, Recheck(i) \/ Verify(i) PROVE Goal
    <3>1. CASE Quit
      BY <1>7, <1>8, <2>8, <3>1 DEF Recheck, Verify, journalVars
    <3>2. CASE ~Quit
      BY <1>9, <2>8, <3>2 DEF Recheck, Verify, journalVars
    <3> QED BY <3>1, <3>2
  <2>4. CASE Repair
    BY <1>9, <2>4 DEF Repair
  <2>5. CASE Recover
    <3>1. CASE Recoveries = {}
      BY <1>9, <2>5, <3>1 DEF Recover, journalVars
    <3>2. CASE Recoveries # {}
      <4>1. PICK id \in Recoveries : Append1(Complete(id))
        BY <2>5, <3>2 DEF Recover
      <4>2. Len(journal') <= MaxRecords
        BY <1>5, <2>5, <3>2, <4>1 DEF Recover
      <4>3. \A i \in Items : worker'[i].at \notin {"gate", "prepared", "committed"}
        BY <2>1, <2>5 DEF Recover, Holder
      <4>4. Prepared' = Prepared /\ Completed' = Completed \cup {id}
        <5>1. /\ torn = FALSE
          BY <1>1, <2>5 DEF SessionInv, Recover, Inv, TypeOK
        <5>2. journal' = Append(journal, Complete(id))
          BY <4>1, <5>1 DEF Append1, Written
        <5>3. id \in Record
          <6>1. PICK l \in Range(journal) : l.id = id
            BY DEF Recoveries, Prepared
          <6>2. l \in Line
            BY <1>1 DEF Range
          <6> QED BY <6>1, <6>2 DEF Line
        <5>4. Complete(id) \in Line /\ Complete(id).kind = "complete" /\ Complete(id).id = id
          BY <5>3 DEF Complete, Line
        <5>5. Range(journal') = Range(journal) \cup {Complete(id)}
          BY <1>1, <5>2, <5>4 DEF Range
        <5> QED BY <5>4, <5>5 DEF Prepared, Completed
      <4>5. Recoveries' = Recoveries \ {id}
        BY <2>5, <4>4 DEF Recover, Recoveries, Skipped, Matches
      <4>6. Cardinality(Recoveries') = Cardinality(Recoveries) - 1
        BY <1>1, <4>5, FS_RemoveElement
      <4>7. HasRoom(Cardinality(Recoveries))'
        <5>1. HasRoom(Cardinality(Recoveries))
          BY <2>5 DEF RoomInv, Recover
        <5>2. Len(journal') <= Len(journal) + 1 /\ Len(journal') \in Nat
          BY <1>1, <4>1, OneMoreLine
        <5> QED BY <1>1, <4>6, <5>1, <5>2 DEF HasRoom
      <4> QED BY <4>2, <4>3, <4>7 DEF RoomInv
    <3> QED BY <3>1, <3>2
  <2>6. ASSUME NEW i \in Items, PlanItem(i) PROVE Goal
    <3>1. CASE Quit
      BY <1>7, <1>8, <2>6, <3>1 DEF PlanItem, journalVars
    <3>2. ASSUME NEW d, Decide(i, d) PROVE Goal
      <4>1. phase' = "planning" /\ worker' = worker /\ journal' = journal
        BY <2>6, <3>2 DEF PlanItem, Decide, journalVars
      <4>2. \A k \in Items : worker[k].at \notin {"gate", "prepared", "committed"}
        BY <2>1, <2>6 DEF PlanItem, Holder
      <4> QED BY <1>6, <1>8, <4>1, <4>2
    <3> QED BY <2>6, <3>1, <3>2 DEF PlanItem
  <2> QED BY <1>12, <2>2, <2>3, <2>4, <2>5, <2>6, <2>7, <2>8 DEF SessionStep
<1>13. ASSUME NEW i \in Items, WorkerStep(i) PROVE Goal
  <2> USE DEF gateFrame, journalVars
  <2>1. CASE Process(i)
    <3>1. /\ worker'[i].at \notin {"gate", "prepared", "committed"}
          /\ \A k \in Items \ {i} : worker'[k] = worker[k]
      BY <1>1, <1>10, <2>1 DEF Process, Fail
    <3> QED BY <1>9, <2>1, <3>1 DEF Process
  <2>2. CASE Queue(i)
    BY <1>9, <1>10, <2>2 DEF Queue
  <2>3. CASE EnterGate(i)
    <3>1. CASE worker'[i].at = "gate"
      <4>1. /\ journal' = journal /\ plan' = plan /\ run' = run /\ phase' = "active"
            /\ worker'[i].stage = worker[i].stage
            /\ \A k \in Items \ {i} : worker'[k] = worker[k] /\ ~Holder(k)
            /\ run.resume => HasRoom(NewRecords(i))
        BY <1>1, <1>10, <2>3, <3>1 DEF EnterGate, Fail, GateFree
      <4>2. NewRecords(i)' = NewRecords(i) /\ HasRoom(NewRecords(i))' = HasRoom(NewRecords(i))
        BY <4>1 DEF NewRecords, RecordOf, Prepared, Completed, HasRoom
      <4> QED BY <1>8, <3>1, <4>1, <4>2 DEF RoomInv, Holder
    <3>2. CASE worker'[i].at # "gate"
      <4>1. /\ worker'[i].at = "failed"
            /\ \A k \in Items \ {i} : worker'[k] = worker[k]
        BY <1>10, <2>3, <3>2 DEF EnterGate, Fail
      <4>2. /\ journal' = journal /\ run' = run /\ plan' = plan
            /\ phase' \in {"repair", "recover"} => phase \in {"repair", "recover"}
        BY <2>3 DEF EnterGate
      <4> QED BY <1>9, <4>1, <4>2
    <3> QED BY <3>1, <3>2
  <2>4. CASE AppendPrepare(i) /\ NeedsPrepare(i)
    <3>1. /\ worker'[i].at = "prepared" /\ worker'[i].stage = worker[i].stage
          /\ phase' = "active" /\ run' = run /\ Append1(Prepare(RecordOf(i)))
          /\ \A k \in Items \ {i} : worker'[k] = worker[k] /\ ~Holder(k)
      BY <1>3, <1>4, <1>10, <2>4 DEF AppendPrepare, Holder
    <3>2. Len(journal') <= Len(journal) + 1 /\ Len(journal') \in Nat
      BY <1>1, <3>1, OneMoreLine
    <3>3. Len(journal') <= MaxRecords
      BY <1>5, <2>4, <3>1 DEF AppendPrepare
    <3>4. NeedsComplete(i)' => HasRoom(1)'
      <4>1. RecordOf(i)' = RecordOf(i) /\ (NeedsComplete(i)' => NeedsComplete(i))
        BY <1>18, <2>4, <3>1 DEF NeedsComplete, RecordOf
      <4>2. NeedsComplete(i) => NewRecords(i) = 2
        BY <2>4 DEF NewRecords, NeedsPrepare, NeedsComplete
      <4>3. HasRoom(NewRecords(i))
        BY <2>4 DEF RoomInv, AppendPrepare, NeedsPrepare
      <4> QED BY <1>1, <3>2, <4>1, <4>2, <4>3 DEF HasRoom
    <3> QED BY <3>1, <3>3, <3>4 DEF RoomInv, Holder
  <2>5. CASE AppendPrepare(i) /\ ~NeedsPrepare(i)
    <3>1. /\ worker'[i].at = "prepared" /\ worker'[i].stage = worker[i].stage
          /\ phase' = "active" /\ run' = run /\ journal' = journal
          /\ \A k \in Items \ {i} : worker'[k] = worker[k] /\ ~Holder(k)
      BY <1>3, <1>4, <1>10, <2>5 DEF AppendPrepare, Holder
    <3>2. NeedsComplete(i)' = NeedsComplete(i) /\ HasRoom(1)' = HasRoom(1)
      BY <3>1 DEF NeedsComplete, RecordOf, Completed, HasRoom
    <3>3. NeedsComplete(i) => HasRoom(1)
      <4>1. run.resume => HasRoom(NewRecords(i))
        BY <2>5 DEF RoomInv, AppendPrepare
      <4> QED BY <1>1, <1>2, <4>1 DEF HasRoom, NeedsComplete
    <3> QED BY <1>8, <3>1, <3>2, <3>3 DEF RoomInv, Holder
  <2>6. CASE Commit(i)
    BY <1>9, <1>10, <2>6 DEF Commit, Fail
  <2>7. CASE AppendComplete(i)
    <3>1. /\ worker'[i].at = "done" /\ phase' = "active"
          /\ \A k \in Items \ {i} : worker'[k] = worker[k] /\ ~Holder(k)
      BY <1>3, <1>4, <1>10, <2>7 DEF AppendComplete, Holder
    <3>2. Len(journal') <= MaxRecords
      BY <1>5, <1>8, <2>7 DEF AppendComplete, journalVars
    <3> QED BY <1>6, <3>1, <3>2 DEF Holder
  <2> QED BY <1>13, <2>1, <2>2, <2>3, <2>4, <2>5, <2>6, <2>7 DEF WorkerStep
<1>14. Writing # {} => Writes
  BY DEF Writing
<1>15. ASSUME Failure PROVE Goal
  <2>1. CASE RecoverFails
    <3>1. Quit /\ Len(journal') <= MaxRecords
      BY <1>5, <1>8, <2>1 DEF RecoverFails, HalfRepaired, journalVars
    <3> QED BY <1>7, <3>1
  <2>2. CASE Cancel
    BY <1>9, <2>2 DEF Cancel, journalVars
  <2>3. CASE Kill
    <3>1. Quit /\ Len(journal') <= MaxRecords
      BY <1>5, <1>8, <1>14, <2>3 DEF Kill, Interrupt, HalfRepaired, journalVars
    <3> QED BY <1>7, <3>1
  <2>6. CASE PowerCut
    <3>1. Quit /\ Len(journal') <= Len(journal) + (IF Writing = {} THEN 0 ELSE 1)
      BY <2>6, CutLength DEF PowerCut, Interrupt, Inv, TypeOK, JournalTyped
    <3>2. Len(journal') \in Nat
      BY JournalStep DEF JournalTyped
    <3>3. Len(journal') <= MaxRecords
      BY <1>1, <1>8, <1>14, <1>20, <3>1, <3>2 DEF HasRoom
    <3> QED BY <1>7, <3>1, <3>3
  <2>4. ASSUME NEW i \in Items, AppendPrepareFails(i) \/ AppendCompleteFails(i) PROVE Goal
    <3>1. /\ Holder(i) /\ Fail(i) /\ phase' = "poisoned"
      BY <2>4 DEF AppendPrepareFails, AppendCompleteFails, AfterFailedAppend, Holder
    <3>2. Len(journal') <= MaxRecords
      BY <1>5, <2>4 DEF AppendPrepareFails, AppendCompleteFails
    <3>3. \A k \in Items : worker'[k].at \notin {"gate", "prepared", "committed"}
      BY <1>3, <1>10, <3>1 DEF Fail, Holder
    <3> QED BY <1>6, <3>1, <3>2, <3>3
  <2>5. ASSUME NEW i \in Items, CommitFails(i) PROVE Goal
    BY <1>9, <1>10, <2>5 DEF CommitFails, Fail, gateFrame, journalVars
  <2> QED BY <1>15, <2>1, <2>2, <2>3, <2>4, <2>5, <2>6 DEF Failure
<1>16. CASE Others \/ UNCHANGED vars
  BY <1>9, <1>16 DEF Others, EditInput, EditOutput, Edit, vars, journalVars, sessionVars
<1> QED BY <1>11, <1>12, <1>13, <1>15, <1>16 DEF Next

(* The journal never runs full between an output and its completion.       *)
THEOREM AlwaysRoomToComplete == Spec => []RoomToComplete
<1>1. Init => RoomInv
  <2> SUFFICES ASSUME Init PROVE RoomInv
    OBVIOUS
  <2>1. Len(journal) = 0 /\ phase = "idle" /\ \A i \in Items : worker[i].at = "todo"
    BY DEF Init, Idle
  <2> QED BY <2>1, LimitAssumption DEF RoomInv
<1>2. RoomInv => RoomToComplete
  BY DEF RoomInv, RoomToComplete
<1> QED BY <1>1, <1>2, BatchInvariance, RoomStep, PTL DEF Spec


-----------------------------------------------------------------------------
(* What the decisions of a plan are worth.                                 *)

Justified(i) ==
  /\ plan[i].decision = "skip" => run.resume /\ Exact(i, plan[i].output)
  /\ plan[i].decision = "replace" => run.force

PlanInv == \A i \in Items : Justified(i)

(* A decision stands on a record and on the way the run was started.       *)
LEMMA PlanStep == Inv /\ PlanInv /\ [Next]_vars => PlanInv'
<1> SUFFICES ASSUME Inv, \A i \in Items : Justified(i), [Next]_vars, NEW k \in Items
             PROVE  Justified(k)'
  BY DEF PlanInv
<1>1. plan \in [Items -> Plan]
  BY DEF Inv, TypeOK
<1>2. ASSUME plan'[k].decision \notin {"skip", "replace"} PROVE Justified(k)'
  BY <1>2 DEF Justified
<1>3. ASSUME Quit PROVE Justified(k)'
  BY <1>2, <1>3 DEF Quit, NoPlan
<1> SUFFICES ASSUME Prepared \subseteq Prepared' PROVE Justified(k)'
  BY <1>3, JournalStep DEF Grows, PowerCut, Interrupt
<1>4. ASSUME plan'[k] = plan[k], run' = run PROVE Justified(k)'
  BY <1>1, <1>4 DEF Justified, Exact, Matches
<1>5. ASSUME NEW r \in Runs, Acquire(r) PROVE Justified(k)'
  BY <1>2, <1>5 DEF Acquire
<1>6. ASSUME NEW i \in Items, PlanItem(i) PROVE Justified(k)'
  <2>1. CASE Quit
    BY <1>3, <2>1
  <2>2. ASSUME NEW d, Decide(i, d), d = "skip" => run.resume /\ Exact(i, output[i]),
               d = "replace" => run.force
        PROVE  Justified(k)'
    <3>1. run' = run
      BY <2>2 DEF Decide
    <3>2. CASE k = i
      <4>1. /\ plan'[i].decision = d /\ plan'[i].output = output[i]
            /\ plan'[i].input = plan[i].input
        BY <1>1, <2>2 DEF Decide, Plan
      <4> QED BY <1>1, <2>2, <3>1, <3>2, <4>1 DEF Justified, Exact, Matches
    <3>3. CASE k # i
      <4>1. plan'[k] = plan[k]
        BY <1>1, <2>2, <3>3 DEF Decide
      <4> QED BY <1>4, <3>1, <4>1
    <3> QED BY <3>2, <3>3
  <2> QED BY <1>6, <2>1, <2>2 DEF PlanItem
<1>7. ASSUME SessionStep PROVE Justified(k)'
  <2>1. CASE Leave \/ Finish
    BY <1>3, <2>1 DEF Leave, Finish
  <2>2. CASE Activate \/ Verified \/ \E i \in Items : Recheck(i) \/ Verify(i)
    BY <1>3, <1>4, <2>2 DEF Activate, Verified, Recheck, Verify
  <2>3. CASE Repair \/ Recover
    BY <1>4, <2>3 DEF Repair, Recover
  <2> QED BY <1>6, <1>7, <2>1, <2>2, <2>3 DEF SessionStep
<1>8. ASSUME NEW i \in Items, WorkerStep(i) PROVE Justified(k)'
  BY <1>4, <1>8
     DEF WorkerStep, Process, Queue, EnterGate, AppendPrepare, Commit, AppendComplete, gateFrame
<1>9. ASSUME Failure PROVE Justified(k)'
  <2>1. CASE RecoverFails \/ Kill \/ PowerCut
    BY <1>3, <2>1 DEF RecoverFails, Kill, PowerCut, Interrupt
  <2>2. CASE ~(RecoverFails \/ Kill \/ PowerCut)
    BY <1>4, <1>9, <2>2
       DEF Failure, Cancel, AppendPrepareFails, CommitFails, AppendCompleteFails, gateFrame
  <2> QED BY <2>1, <2>2
<1>10. CASE Others \/ UNCHANGED vars
  BY <1>4, <1>10 DEF Others, EditInput, EditOutput, Edit, vars, sessionVars
<1> QED BY <1>5, <1>7, <1>8, <1>9, <1>10 DEF Next

(* The decisions are justified in every state of every behaviour.          *)
LEMMA PlanInvariance == Spec => []PlanInv
<1>1. Init => PlanInv
  BY DEF Init, NoPlan, PlanInv, Justified
<1> QED BY <1>1, BatchInvariance, PlanStep, PTL DEF Spec

(* While the skips are verified, those that were, and were not edited      *)
(* since, are as the plan has them.                                        *)
SkipInv == phase = "verify" => \A i \in checked \ touched : Current(i) /\ StillExact(i)

LEMMA SkipStep == Inv /\ SkipInv /\ [Next]_vars => SkipInv'
<1> SUFFICES ASSUME Inv, SkipInv, [Next]_vars, phase' = "verify", NEW k \in (checked \ touched)'
             PROVE  Current(k)' /\ StillExact(k)'
  BY DEF SkipInv
<1>1. /\ input \in [Items -> Versions] /\ output \in [Items -> Content] /\ checked \subseteq Items
      /\ \A i \in Items : ~(phase = "verify" /\ Working(i))
  BY DEF Inv, TypeOK, Working
<1>2. ~Quit
  BY DEF Quit
<1>3. ~\E r \in Runs : Acquire(r)
  BY DEF Acquire
<1>4. ASSUME UNCHANGED <<input, output, plan, phase, checked, touched>>
      PROVE  Current(k)' /\ StillExact(k)'
  BY <1>4 DEF SkipInv, Current, StillExact
<1>5. ASSUME SessionStep PROVE Current(k)' /\ StillExact(k)'
  <2>1. ~(Leave \/ Verified \/ Repair \/ Recover \/ Finish)
    BY <1>2 DEF Leave, Verified, Repair, Recover, Finish
  <2>2. ~Activate
    BY DEF Activate
  <2>3. \A i \in Items : ~(PlanItem(i) \/ Recheck(i))
    BY <1>2 DEF PlanItem, Decide, Recheck
  <2>4. PICK i \in Items : Verify(i)
    BY <1>5, <2>1, <2>2, <2>3 DEF SessionStep
  <2>5. /\ UNCHANGED <<input, output, plan, phase, touched>> /\ checked' = checked \cup {i}
        /\ Current(i) /\ StillExact(i)
    BY <1>2, <2>4 DEF Verify, fileVars
  <2>6. Current(k) /\ StillExact(k)
    BY <2>5 DEF SkipInv
  <2> QED BY <2>5, <2>6 DEF Current, StillExact
<1>6. ~\E i \in Items : WorkerStep(i)
  BY DEF WorkerStep, Process, Queue, EnterGate, AppendPrepare, Commit, AppendComplete,
     Working
<1>7. ASSUME Failure PROVE Current(k)' /\ StillExact(k)'
  <2>1. Cancel
    BY <1>2, <1>7 DEF Failure, RecoverFails, Kill, PowerCut, Interrupt,
       AppendPrepareFails, CommitFails, AppendCompleteFails, AfterFailedAppend, Working, gateFrame
  <2> QED BY <1>4, <2>1 DEF Cancel, fileVars, checkVars
<1>8. ASSUME Others PROVE Current(k)' /\ StillExact(k)'
  <2>1. PICK i \in Items : EditInput(i) \/ EditOutput(i)
    BY <1>8 DEF Others
  <2>2. /\ UNCHANGED <<plan, phase, checked>> /\ touched' = touched \cup ({i} \cap checked)
    BY <2>1 DEF EditInput, EditOutput, Edit
  <2>3. k # i /\ k \in checked \ touched
    BY <2>2
  <2>4. input'[k] = input[k] /\ output'[k] = output[k]
    BY <1>1, <2>1, <2>3 DEF EditInput, EditOutput
  <2> QED BY <2>2, <2>3, <2>4 DEF SkipInv, Current, StillExact
<1>9. CASE UNCHANGED vars
  BY <1>4, <1>9 DEF vars, fileVars, sessionVars, checkVars
<1> QED BY <1>3, <1>5, <1>6, <1>7, <1>8, <1>9 DEF Next

LEMMA SkipInvariance == Spec => []SkipInv
<1>1. Init => SkipInv
  BY DEF Init, SkipInv
<1> QED BY <1>1, BatchInvariance, SkipStep, PTL DEF Spec

(* What a run skips is the output of the input and recipe it was asked for *)
(* when it goes on to work, but for an edit behind the item's last check.  *)
THEOREM SkipsStayExact == Spec => SkipsAreExact
<1> DEFINE Kept == phase' \in {"repair", "active"} /\ phase \in {"planning", "verify"} =>
                     \A i \in Skipped \ touched : /\ output[i].kind = "product"
                                                  /\ output[i].input = input[i]
                                                  /\ output[i].recipe = run.recipe
<1>1. ASSUME Inv, PlanInv, SkipInv, [Next]_vars PROVE Kept
  <2> SUFFICES ASSUME phase \in {"planning", "verify"}, phase' \in {"repair", "active"},
                      NEW i \in Skipped \ touched
               PROVE  /\ output[i].kind = "product"
                      /\ output[i].input = input[i]
                      /\ output[i].recipe = run.recipe
    OBVIOUS
  <2>1. i \in Items /\ run.resume /\ Exact(i, plan[i].output)
    BY <1>1 DEF Skipped, PlanInv, Justified
  <2>2. Verified
    <3>1. ~(Quit \/ phase' = phase \/ phase' = "poisoned")
      BY DEF Quit
    <3>2. ~\E r \in Runs : Acquire(r)
      BY DEF Acquire
    <3>3. ~(Others \/ UNCHANGED vars)
      BY <3>1 DEF Others, EditInput, EditOutput, Edit, sessionVars, vars
    <3>4. ~Failure
      BY <3>1 DEF Failure, RecoverFails, Cancel, Kill, PowerCut, Interrupt,
         AppendPrepareFails, CommitFails, AppendCompleteFails, AfterFailedAppend, gateFrame
    <3>5. ~\E k \in Items : WorkerStep(k)
      BY DEF WorkerStep, Process, Queue, EnterGate, AppendPrepare, Commit, AppendComplete,
         Working
    <3>6. ~\E k \in Items : PlanItem(k) \/ Recheck(k) \/ Verify(k)
      BY <3>1 DEF PlanItem, Decide, Recheck, Verify
    <3>7. ~(Leave \/ Repair \/ Recover \/ Finish)
      BY <3>1 DEF Leave, Repair, Recover, Finish
    <3>8. ~Activate
      BY <2>1 DEF Activate
    <3> QED BY <1>1, <3>2, <3>3, <3>4, <3>5, <3>6, <3>7, <3>8 DEF Next, SessionStep
  <2>3. i \in checked \ touched /\ phase = "verify"
    BY <2>2 DEF Verified
  <2>4. input[i] = plan[i].input /\ output[i] = plan[i].output
    BY <1>1, <2>3 DEF SkipInv, Current, StillExact
  <2>5. PICK id \in Prepared : Matches(id, i, plan[i].output)
    BY <2>1 DEF Exact
  <2>6. id \in Record
    <3>1. PICK l \in Range(journal) : l.id = id
      BY DEF Prepared
    <3>2. l \in Line
      BY <1>1 DEF Range, Inv, TypeOK
    <3> QED BY <3>1, <3>2 DEF Line
  <2> QED BY <2>4, <2>5, <2>6 DEF Matches, Record, Product
<1>2. Inv /\ PlanInv /\ SkipInv /\ [Next]_vars => [Kept]_vars
  BY <1>1
<1> QED BY <1>2, BatchInvariance, PlanInvariance, SkipInvariance, PTL DEF Spec, SkipsAreExact

(* Without force a run never replaces a file.                              *)
THEOREM NothingIsReplaced == Spec => NothingReplaced
<1> DEFINE Kept == \A i \in Items : phase' # "idle" /\ ~run.force /\ edits' = edits
                     /\ output'[i] # output[i] => output[i] = Missing
<1>1. ASSUME Inv, PlanInv, [Next]_vars PROVE Kept
  <2> SUFFICES ASSUME NEW i \in Items, phase' # "idle", ~run.force, edits' = edits,
                      output'[i] # output[i]
               PROVE  output[i] = Missing
    OBVIOUS
  <2>1. output \in [Items -> Content] /\ edits \in Nat
    BY <1>1 DEF Inv, TypeOK
  <2>2. output' # output
    OBVIOUS
  <2>3. ~Quit
    BY DEF Quit
  <2>4. PICK k \in Items : Commit(k)
    <3>1. ~((\E r \in Runs : Acquire(r)) \/ SessionStep \/ UNCHANGED vars)
      BY <2>2 DEF Acquire, SessionStep, Activate, Leave, Verified, Repair, Recover, Finish,
         PlanItem, Recheck, Verify, fileVars, vars
    <3>2. ~Others
      BY <2>1, <2>2 DEF Others, EditInput, EditOutput, Edit
    <3>3. ~Failure
      BY <2>2, <2>3 DEF Failure, RecoverFails, Cancel, Kill, PowerCut, Interrupt,
         AppendPrepareFails, CommitFails, AppendCompleteFails, gateFrame, fileVars
    <3>4. PICK k \in Items : WorkerStep(k)
      BY <1>1, <3>1, <3>2, <3>3 DEF Next
    <3> QED BY <2>2, <3>4 DEF WorkerStep, Process, Queue, EnterGate, AppendPrepare,
               AppendComplete, gateFrame, fileVars
  <2>5. k = i /\ MayCommit(i)
    BY <2>1, <2>4 DEF Commit
  <2> QED BY <1>1, <2>5 DEF MayCommit, PlanInv, Justified
<1>2. Inv /\ PlanInv /\ [Next]_vars => [Kept]_vars
  BY <1>1
<1> QED BY <1>2, BatchInvariance, PlanInvariance, PTL DEF Spec, NothingReplaced

=============================================================================
