---------------------------- MODULE ResumeProofs ----------------------------
(***************************************************************************)
(* Theorems about a resume next to any number of unsynchronised            *)
(* operations, failing writes and crashes.                                 *)
(*                                                                         *)
(* The state a resume has loaded may become arbitrarily old, but the       *)
(* reference in it stays as good as the one in current.md (Refers): no     *)
(* operation owns the checkpoint, so none will remove it.                  *)
(*                                                                         *)
(* The last part is about a failed finish, where the operations pass       *)
(* through one queue, with every fault: as long as nothing stays behind,   *)
(* what a finish has written of the active task is its own to remove.      *)
(***************************************************************************)
EXTENDS Resume, TaskStoreProofs

Reading == {"list", "stat", "read"}

\* What a resume knows at each of its steps
ReaderInv ==
    /\ reader.pc \in Reading => reader.task \in Tasks
    /\ reader.pc \in {"stat", "read"} => reader.cp \in Cps
    /\ reader.latest # 0 => reader.task \in Tasks
    /\ Refers(reader)
    /\ reader.request = 0 /\ reader.latest # 0 /\ reader.pc \in {"stat", "read"} =>
          reader.cp = reader.latest /\ reader.isLatest

ResumeInv == FilesInv /\ ResumeTypeOK /\ ReaderInv /\ RecordedIsFound

\* What the steps of a resume do to the store: nothing.
ReaderStep == ResumeLoad \/ ResumeList \/ ResumeStat \/ ResumeRead \/ ResumeReturn

----------------------------------------------------------------------------
\* Every step is one of TaskStore, or one of the resume that leaves the store alone.
LEMMA StoreSteps ==
  ASSUME [ResumeNext]_resumeVars
  PROVE  [Next]_vars /\ (ReaderStep \/ UNCHANGED reader)
  BY DEF ResumeNext, resumeVars, StoreStep, StoreCrash, Next, ReaderStep, ResumeLoad, ResumeList,
         ResumeStat, ResumeRead, ResumeReturn, vars

LEMMA NextFiles ==
  ASSUME NoLeftovers, FilesInv, [Next]_vars
  PROVE  FilesInv'
  BY NextType, NextPlan, NextHistory, NextArchive, NextReference, NextFiled, NextTasks
     DEF FilesInv, Owning

\* The state as it is loaded
LEMMA LoadKeeps ==
  ASSUME NoLeftovers, ResumeInv, ResumeLoad
  PROVE  reader' \in Readers /\ ReaderInv' /\ RecordedIsFound'
  <1>1. /\ current \in States
        /\ current = NoState \/ current.task \in Tasks
        /\ Refers(current)
    BY DEF ResumeInv, FilesInv, TypeOK, Owning, PlanInv, ReferenceInv
  <1>2. PICK c \in Requests :
          reader' = IF current = NoState
                    THEN [NoReader EXCEPT !.request = c, !.task = current.task,
                             !.latest = current.latest, !.latestFp = current.latestFp,
                             !.pc = "done", !.outcome = "missing-state"]
                    ELSE [NoReader EXCEPT !.request = c, !.task = current.task,
                             !.latest = current.latest, !.latestFp = current.latestFp, !.pc = "list"]
    BY DEF ResumeLoad, NoReader
  <1>3. /\ c \in 0..MaxCp /\ 0 \in 0..MaxCp /\ 0 \in 0..MaxTask
        /\ NoFingerprint \in Fingerprints /\ NoCheckpoint \in Checkpoints
    BY StoreAssumption, ResumeAssumption
       DEF NoFingerprint, Fingerprint, Fingerprints, Kinds, NoCheckpoint, Checkpoints
  <1>4. reader' = [pc |-> IF current = NoState THEN "done" ELSE "list",
                   request |-> c, task |-> current.task, latest |-> current.latest,
                   latestFp |-> current.latestFp, cp |-> 0, isLatest |-> FALSE,
                   packet |-> NoCheckpoint,
                   outcome |-> IF current = NoState THEN "missing-state" ELSE "pending"]
    BY <1>2 DEF NoReader
  <1>5. /\ current.task \in 0..MaxTask /\ current.latest \in 0..MaxCp
        /\ current.latestFp \in Fingerprints
    BY <1>1 DEF States
  <1>6. reader' \in Readers
    BY <1>3, <1>4, <1>5 DEF Readers, Outcomes
  <1>7. UNCHANGED vars
    BY DEF ResumeLoad
  <1>8. current = NoState => current.latest = 0
    BY DEF NoState, NewState
  <1>9. ReaderInv'
    <2>1. Refers(reader)'
      BY <1>1, <1>4, <1>7 DEF Refers, Owns, vars
    <2>2. reader'.pc \in Reading => reader'.task \in Tasks
      BY <1>1, <1>4 DEF Reading
    <2>3. reader'.latest # 0 => reader'.task \in Tasks
      BY <1>1, <1>4, <1>8
    <2> QED
      BY <1>4, <2>1, <2>2, <2>3 DEF ReaderInv, Tasks, Cps
  <1> QED
    BY <1>4, <1>6, <1>8, <1>9 DEF RecordedIsFound

\* The checkpoint it chooses: the recorded one, when it asks for the latest
LEMMA ListKeeps ==
  ASSUME ResumeInv, ResumeList
  PROVE  reader' \in Readers /\ ReaderInv' /\ RecordedIsFound'
  <1>1. reader \in Readers /\ reader.pc = "list" /\ UNCHANGED vars
    BY DEF ResumeInv, ResumeTypeOK, ResumeList
  <1>2. PICK latest \in LatestOf(CpsOf(reader.task)) :
          LET cp == IF reader.request = 0 THEN latest ELSE reader.request
          IN  IF latest = 0 THEN Answer("no-checkpoint")
              ELSE reader' = [reader EXCEPT !.pc = "stat", !.cp = cp, !.isLatest = (cp = latest)]
    BY DEF ResumeList
  <1> DEFINE cp == IF reader.request = 0 THEN latest ELSE reader.request
  <1>3. /\ latest \in 0..MaxCp
        /\ reader.latest # 0 => latest = reader.latest
    BY <1>1, <1>2, StoreAssumption DEF LatestOf, Highest, CpsOf, Cps, Readers
  <1>4. CASE latest = 0
    <2>1. reader' = [reader EXCEPT !.pc = "done", !.outcome = "no-checkpoint"]
      BY <1>2, <1>4 DEF Answer
    <2>2. reader' \in Readers
      BY <1>1, <2>1 DEF Readers, Outcomes
    <2>3. reader'.latest = 0 /\ reader'.pc = "done"
      BY <1>1, <1>3, <1>4, <2>1 DEF Readers
    <2> QED
      BY <2>2, <2>3 DEF ReaderInv, Refers, RecordedIsFound, Reading
  <1>5. CASE latest # 0
    <2>1. reader' = [reader EXCEPT !.pc = "stat", !.cp = cp, !.isLatest = (cp = latest)]
      BY <1>2, <1>5
    <2>2. cp \in Cps
      BY <1>1, <1>3, <1>5, StoreAssumption DEF Readers, Cps
    <2>3. cp \in 0..MaxCp /\ (cp = latest) \in BOOLEAN
      BY <2>2, StoreAssumption DEF Cps
    <2>4. reader.request = 0 => cp = latest
      OBVIOUS
    <2> HIDE DEF cp
    <2>5. reader' \in Readers
      BY <1>1, <2>1, <2>3 DEF Readers
    <2>6. /\ reader'.pc = "stat" /\ reader'.cp = cp /\ (reader'.isLatest <=> cp = latest)
          /\ reader'.request = reader.request /\ reader'.task = reader.task
          /\ reader'.latest = reader.latest /\ reader'.latestFp = reader.latestFp
      BY <1>1, <2>1 DEF Readers
    <2>7. Refers(reader)'
      BY <1>1, <2>6 DEF ResumeInv, ReaderInv, Refers, Owns, vars
    <2>8. reader.task \in Tasks
      BY <1>1 DEF ResumeInv, ReaderInv, Reading
    <2> QED
      BY <1>3, <2>2, <2>4, <2>5, <2>6, <2>7, <2>8 DEF ReaderInv, RecordedIsFound
  <1> QED
    BY <1>4, <1>5

\* The file is there, when it is the recorded one
LEMMA StatKeeps ==
  ASSUME ResumeInv, ResumeStat
  PROVE  reader' \in Readers /\ ReaderInv' /\ RecordedIsFound'
  <1>1. /\ reader \in Readers /\ reader.pc = "stat" /\ UNCHANGED vars
        /\ ReaderInv
    BY DEF ResumeInv, ResumeTypeOK, ResumeStat
  <1>2. CASE history[reader.task][reader.cp] = NoCheckpoint
    <2>1. reader' = [reader EXCEPT !.pc = "done", !.outcome = "missing-file"]
      BY <1>2 DEF ResumeStat, Answer
    <2>2. reader' \in Readers
      BY <1>1, <2>1 DEF Readers, Outcomes
    <2>3. /\ reader'.pc = "done"
          /\ reader'.request = reader.request /\ reader'.task = reader.task
          /\ reader'.latest = reader.latest /\ reader'.latestFp = reader.latestFp
      BY <1>1, <2>1 DEF Readers
    <2>4. ~(reader.request = 0 /\ reader.latest # 0)
      BY <1>1, <1>2 DEF ReaderInv, Refers
    <2>5. Refers(reader)'
      BY <1>1, <2>3 DEF ReaderInv, Refers, Owns, vars
    <2> QED
      BY <1>1, <2>2, <2>3, <2>4, <2>5 DEF ReaderInv, RecordedIsFound, Reading
  <1>3. CASE history[reader.task][reader.cp] # NoCheckpoint
    <2>1. reader' = [reader EXCEPT !.pc = "read"]
      BY <1>3 DEF ResumeStat
    <2>2. reader' \in Readers
      BY <1>1, <2>1 DEF Readers
    <2>3. /\ reader'.pc = "read" /\ reader'.cp = reader.cp /\ (reader'.isLatest <=> reader.isLatest)
          /\ reader'.request = reader.request /\ reader'.task = reader.task
          /\ reader'.latest = reader.latest /\ reader'.latestFp = reader.latestFp
      BY <1>1, <2>1 DEF Readers
    <2>4. Refers(reader)'
      BY <1>1, <2>3 DEF ReaderInv, Refers, Owns, vars
    <2> QED
      BY <1>1, <2>2, <2>3, <2>4 DEF ReaderInv, RecordedIsFound, Reading
  <1> QED
    BY <1>2, <1>3

\* and what is read is what the state recorded
LEMMA ReadKeeps ==
  ASSUME ResumeInv, ResumeRead
  PROVE  reader' \in Readers /\ ReaderInv' /\ RecordedIsFound'
  <1> DEFINE file == history[reader.task][reader.cp]
  <1>1. /\ reader \in Readers /\ reader.pc = "read" /\ UNCHANGED vars
        /\ ReaderInv /\ TypeOK
    BY DEF ResumeInv, ResumeTypeOK, ResumeRead
  <1>2. file \in Checkpoints
    BY <1>1 DEF ReaderInv, Reading, TypeOK
  <1>3. reader.request = 0 /\ reader.latest # 0 =>
          /\ reader.cp = reader.latest /\ reader.isLatest
          /\ file # NoCheckpoint /\ file.fp = reader.latestFp
    BY <1>1 DEF ReaderInv, Refers
  <1>4. \/ /\ file = NoCheckpoint
           /\ reader' = [reader EXCEPT !.pc = "done", !.outcome = "unreadable"]
        \/ /\ reader.cp = reader.latest /\ file.fp # reader.latestFp
           /\ reader' = [reader EXCEPT !.pc = "done", !.outcome = "mismatch"]
        \/ reader' = [reader EXCEPT !.pc = "done", !.outcome = "ready", !.packet = file]
    BY DEF ResumeRead, Answer
  <1> HIDE DEF file
  <1>5. reader' \in Readers
    BY <1>1, <1>2, <1>4 DEF Readers, Outcomes
  <1>6. /\ reader'.pc = "done" /\ (reader'.isLatest <=> reader.isLatest)
        /\ reader'.request = reader.request /\ reader'.task = reader.task
        /\ reader'.latest = reader.latest /\ reader'.latestFp = reader.latestFp
    BY <1>1, <1>4 DEF Readers
  <1>7. Refers(reader)'
    BY <1>1, <1>6 DEF ReaderInv, Refers, Owns, vars
  <1>8. ReaderInv'
    BY <1>1, <1>6, <1>7 DEF ReaderInv, Reading
  <1>9. RecordedIsFound'
    <2> SUFFICES ASSUME reader'.request = 0, reader'.latest # 0
                 PROVE  /\ reader'.outcome = "ready" /\ reader'.isLatest
                        /\ reader'.packet.fp = reader'.latestFp
                        /\ history'[reader'.task][reader'.latest] = reader'.packet
      BY DEF RecordedIsFound
    <2>1. reader' = [reader EXCEPT !.pc = "done", !.outcome = "ready", !.packet = file]
      BY <1>3, <1>4, <1>6
    <2>2. reader'.outcome = "ready" /\ reader'.packet = file
      BY <1>1, <2>1 DEF Readers
    <2>3. history' = history
      BY <1>1 DEF vars
    <2> QED
      BY <1>3, <1>6, <2>2, <2>3 DEF file
  <1> QED
    BY <1>5, <1>8, <1>9

\* Nothing the operations do disturbs a resume: they keep the file it refers to.
LEMMA StoreKeeps ==
  ASSUME NoLeftovers, ResumeInv, [Next]_vars, UNCHANGED reader
  PROVE  ReaderInv' /\ RecordedIsFound'
  <1>1. reader \in Readers /\ ReaderInv /\ RecordedIsFound /\ TypeOK /\ Owning
    BY DEF ResumeInv, ResumeTypeOK, FilesInv
  <1>2. ASSUME reader.latest # 0
        PROVE  /\ history'[reader.task][reader.latest] = history[reader.task][reader.latest]
               /\ \A q \in Procs : ~(/\ pc'[q] \in OwnsHistory
                                     /\ plan'[q].state.task = reader.task
                                     /\ plan'[q].cp = reader.latest)
    <2>1. reader.latest \in Cps /\ reader.task \in Tasks /\ Refers(reader)
      BY <1>1, <1>2, StoreAssumption DEF Readers, Cps, ReaderInv
    <2> QED
      BY <1>1, <1>2, <2>1, RefersKept
  <1>3. Refers(reader)'
    BY <1>1, <1>2 DEF Refers, Owns, ReaderInv
  <1>4. ReaderInv'
    BY <1>1, <1>3 DEF ReaderInv
  <1>5. RecordedIsFound'
    BY <1>1, <1>2 DEF RecordedIsFound
  <1> QED
    BY <1>4, <1>5

----------------------------------------------------------------------------
LEMMA ResumeStarts ==
  ASSUME ResumeInit
  PROVE  ResumeInv
  <1>1. FilesInv /\ reader = NoReader /\ remains \in BOOLEAN
    BY InitFiles DEF ResumeInit
  <1>2. NoFingerprint \in Fingerprints /\ NoCheckpoint \in Checkpoints
    BY DEF NoFingerprint, Fingerprint, Fingerprints, Kinds, NoCheckpoint, Checkpoints
  <1>3. NoReader \in Readers
    BY <1>2, StoreAssumption DEF NoReader, Readers, Outcomes
  <1>4. ReaderInv /\ RecordedIsFound
    BY <1>1 DEF NoReader, ReaderInv, RecordedIsFound, Refers, Reading
  <1> QED
    BY <1>1, <1>3, <1>4 DEF ResumeInv, ResumeTypeOK, FilesInv

LEMMA ResumeSteps ==
  ASSUME NoLeftovers, ResumeInv, [ResumeNext]_resumeVars
  PROVE  ResumeInv'
  <1>1. [Next]_vars /\ (ReaderStep \/ UNCHANGED reader)
    BY StoreSteps
  <1>2. FilesInv'
    BY <1>1, NextFiles DEF ResumeInv
  <1>3. reader' \in Readers /\ ReaderInv' /\ RecordedIsFound'
    <2>1. CASE UNCHANGED reader
      BY <1>1, <2>1, StoreKeeps DEF ResumeInv, ResumeTypeOK
    <2>2. CASE ResumeReturn
      <3>1. reader' = NoReader
        BY <2>2 DEF ResumeReturn
      <3>2. NoFingerprint \in Fingerprints /\ NoCheckpoint \in Checkpoints
        BY DEF NoFingerprint, Fingerprint, Fingerprints, Kinds, NoCheckpoint, Checkpoints
      <3>3. NoReader \in Readers
        BY <3>2, StoreAssumption DEF NoReader, Readers, Outcomes
      <3> QED
        BY <3>1, <3>3 DEF NoReader, ReaderInv, RecordedIsFound, Refers, Reading
    <2> QED
      BY <1>1, <2>1, <2>2, LoadKeeps, ListKeeps, StatKeeps, ReadKeeps DEF ReaderStep
  <1>4. remains' \in BOOLEAN
    BY DEF ResumeInv, ResumeTypeOK, ResumeNext, resumeVars, StoreStep, StoreCrash, ResumeLoad,
           ResumeList, ResumeStat, ResumeRead, ResumeReturn
  <1> QED
    BY <1>2, <1>3, <1>4 DEF ResumeInv, ResumeTypeOK, FilesInv

\* The state a resume has loaded, the checkpoint it has chosen and the packet keep their types.
THEOREM ResumeTypeCorrect == ASSUME NoLeftovers PROVE ResumeSpec => []ResumeTypeOK
  <1>1. ResumeInv => ResumeTypeOK
    BY DEF ResumeInv
  <1> QED
    BY ResumeStarts, ResumeSteps, <1>1, PTL DEF ResumeSpec

\* A resume of the latest checkpoint succeeds with the one its state records, however many
\* unsynchronised operations write, fail, roll back or die between any two of its reads.
THEOREM RecordedIsFoundHolds == ASSUME NoLeftovers PROVE ResumeSpec => []RecordedIsFound
  <1>1. ResumeInv => RecordedIsFound
    BY DEF ResumeInv
  <1> QED
    BY ResumeStarts, ResumeSteps, <1>1, PTL DEF ResumeSpec
----------------------------------------------------------------------------
(* A failed finish, while the operations pass through one queue *)

\* The steps at which a finish has its final checkpoint in the history
Committing == {"finArchive", "finReread", "finRemove", "finUnarchive", "finUnhistory"}

\* As long as nothing was left behind, the final checkpoint and the archive of the active
\* task are those of the finish under way.
FinalsOwned(t) ==
    \A c \in CpsOf(t) : history[t][c].fp.kind = "final" =>
        \E p \in Procs : pc[p] \in Committing /\ plan[p].state.task = t /\ plan[p].cp = c

ArchiveOwned(t) ==
    completed[t] # NoArchive =>
        \E p \in Procs : pc[p] \in OwnsArchive /\ plan[p].state.task = t

CleanInv ==
    ~remains /\ current # NoState => FinalsOwned(current.task) /\ ArchiveOwned(current.task)

\* What a step leaves of the artifacts of the task of its operation
LEMMA StepClean ==
  ASSUME OneQueue, QueueInv, NEW p \in Procs, NEW t \in Tasks,
         Start(p) \/ Report(p) \/ Checkpoint(p) \/ Finish(p) \/ PrepareFails(p),
         ~LeavesFiles(p), FinalsOwned(t), ArchiveOwned(t),
         pc[p] \in HasTask => plan[p].state.task = t,
         pc[p] = "finRemove" => current' # NoState
  PROVE  FinalsOwned(t)' /\ ArchiveOwned(t)'
  <1> USE DEF Committing, OwnsArchive
  <1>0. /\ TypeOK /\ PlanInv /\ Prepared(pc[p], plan[p]) /\ Solo(p) /\ Local(p)
        /\ pc[p] # "idle" => \A q \in Procs : pc[q] # "idle" => q = p
    BY StepSolo DEF QueueInv, PlanInv, Alone
  <1>1. ASSUME UNCHANGED <<history, completed>>,
               pc[p] \in Committing => pc'[p] \in Committing /\ plan'[p] = plan[p],
               pc[p] \in OwnsArchive => pc'[p] \in OwnsArchive
        PROVE  FinalsOwned(t)' /\ ArchiveOwned(t)'
    BY <1>0, <1>1 DEF FinalsOwned, ArchiveOwned, CpsOf, Solo
  <1>2. ASSUME NEW step, NEW prepared, Goto(p, step, prepared) \/ Return(p),
               pc[p] \notin Committing, UNCHANGED <<history, completed>>
        PROVE  FinalsOwned(t)' /\ ArchiveOwned(t)'
    BY <1>1, <1>2
  <1>3. ASSUME pc[p] \in HasTask \ Committing
        PROVE  /\ \A c \in CpsOf(t) : history[t][c].fp.kind # "final"
               /\ completed[t] = NoArchive
    BY <1>0, <1>3 DEF HasTask, FinalsOwned, ArchiveOwned
  <1>4. CASE Start(p) \/ Report(p) \/ PrepareFails(p)
    BY <1>2, <1>4 DEF Start, BeginStart, StartList, StartCreate, Report, BeginReport, ReportReplace,
                      PrepareFails, MayEnter, store
  <1>5. CASE BeginCheckpoint(p) \/ CheckpointSurvey(p) \/ CheckpointReplace(p)
    BY <1>2, <1>5 DEF BeginCheckpoint, CheckpointSurvey, CheckpointReplace, MayEnter, store
  <1>6. CASE CheckpointCreate(p) \/ CheckpointRollback(p)
    <2>1. /\ pc[p] \in {"cpCreate", "cpRollback"} /\ pc[p] \in HasTask \ Committing
          /\ pc[p] \in Checkpointing /\ UNCHANGED completed
      BY <1>6 DEF CheckpointCreate, CheckpointRollback, HasTask, Steps, Checkpointing
    <2>2. /\ plan[p].state.task = t /\ plan[p].cp \in Cps
          /\ plan[p].checkpoint.fp.kind = "progress"
      BY <1>0, <2>1 DEF Prepared
    <2>3. \/ UNCHANGED history
          \/ PutHistory(p, plan[p].checkpoint) \/ PutHistory(p, NoCheckpoint)
      BY <1>6 DEF CheckpointCreate, CheckpointRollback
    <2>4. \A c \in Cps : history'[t][c] # NoCheckpoint => history'[t][c].fp.kind # "final"
      BY <1>0, <1>3, <2>1, <2>2, <2>3, PutEffect DEF CpsOf
    <2> QED
      BY <1>3, <2>1, <2>4 DEF FinalsOwned, ArchiveOwned, CpsOf
  <1>7. CASE BeginFinish(p) \/ FinishSource(p) \/ FinishSurvey(p) \/ FinishCheck(p)
    BY <1>2, <1>7 DEF BeginFinish, FinishSource, FinishSurvey, FinishCheck, MayEnter, store
  <1>8. CASE FinishHistory(p)
    <2>1. /\ pc[p] = "finHistory" /\ pc[p] \in HasTask \ Committing /\ UNCHANGED completed
      BY <1>8 DEF FinishHistory, HasTask, Steps
    <2>2. /\ plan[p].state.task = t /\ plan[p].cp \in Cps
          /\ plan[p].checkpoint # NoCheckpoint
      BY <1>0, <2>1, OwnerPlans
    <2>3. CASE UNCHANGED history
      BY <1>1, <2>1, <2>3
    <2>4. CASE ~UNCHANGED history
      <3>1. HistoryFree(p) /\ PutHistory(p, plan[p].checkpoint)
        BY <1>8, <2>4 DEF FinishHistory
      <3>2. pc'[p] = "finArchive" /\ plan'[p] = plan[p]
        BY <1>0, <1>8, <2>1, <2>4, GotoLocal DEF FinishHistory, LeavesFiles
      <3>3. \A c \in Cps : c # plan[p].cp => history'[t][c] = history[t][c]
        BY <1>0, <2>2, <3>1, PutEffect
      <3> QED
        BY <1>3, <2>1, <2>2, <3>2, <3>3 DEF FinalsOwned, ArchiveOwned, CpsOf
    <2> QED
      BY <2>3, <2>4
  <1>9. CASE FinishArchive(p)
    <2>1. /\ pc[p] = "finArchive" /\ plan'[p] = plan[p] /\ UNCHANGED history
          /\ pc'[p] \in {"finReread", "finUnhistory"}
      BY <1>0, <1>9, GotoLocal DEF FinishArchive
    <2>2. CASE UNCHANGED completed
      BY <1>1, <2>1, <2>2
    <2>3. CASE ~UNCHANGED completed
      <3>1. pc'[p] = "finReread"
        BY <1>9, <2>1, <2>3 DEF LeavesFiles
      <3>2. FinalsOwned(t)'
        BY <1>0, <2>1 DEF FinalsOwned, CpsOf, Solo
      <3>3. plan[p].state.task = t
        BY <2>1 DEF HasTask, Steps
      <3> QED
        BY <2>1, <3>1, <3>2, <3>3 DEF ArchiveOwned
    <2> QED
      BY <2>2, <2>3
  <1>10. CASE FinishReread(p) \/ FinishRemove(p)
    <2>1. /\ plan'[p] = plan[p] /\ UNCHANGED <<history, completed>>
          /\ pc'[p] \in {"finRemove", "finUnarchive"}
      BY <1>0, <1>10, GotoLocal DEF FinishReread, FinishRemove, store
    <2> QED
      BY <1>1, <2>1
  <1>11. CASE FinishUnarchive(p)
    <2>1. /\ pc[p] = "finUnarchive" /\ plan'[p] = plan[p] /\ UNCHANGED history
          /\ pc'[p] = "finUnhistory"
      BY <1>0, <1>11, GotoLocal DEF FinishUnarchive
    <2>2. PutArchive(p, NoArchive) /\ plan[p].state.task = t
      BY <1>11, <2>1 DEF FinishUnarchive, LeavesFiles, HasTask, Steps
    <2>3. completed'[t] = NoArchive
      BY <1>0, <2>2 DEF PutArchive, TypeOK
    <2>4. FinalsOwned(t)'
      BY <1>0, <2>1 DEF FinalsOwned, CpsOf, Solo
    <2> QED
      BY <2>3, <2>4 DEF ArchiveOwned
  <1>12. CASE FinishUnhistory(p)
    <2>1. pc[p] = "finUnhistory" /\ PutHistory(p, NoCheckpoint) /\ UNCHANGED completed
      BY <1>12 DEF FinishUnhistory, LeavesFiles
    <2>2. plan[p].state.task = t /\ plan[p].cp \in Cps
      BY <1>0, <2>1, OwnerPlans DEF HasTask, Steps, OwnsHistory
    <2>3. completed[t] = NoArchive
      BY <1>0, <2>1 DEF ArchiveOwned
    <2>4. \A c \in CpsOf(t) : history[t][c].fp.kind = "final" => c = plan[p].cp
      BY <1>0, <2>1 DEF FinalsOwned
    <2>5. \A c \in Cps : history'[t][c] = IF c = plan[p].cp THEN NoCheckpoint ELSE history[t][c]
      BY <1>0, <2>1, <2>2, PutEffect
    <2> QED
      BY <2>1, <2>3, <2>4, <2>5 DEF FinalsOwned, ArchiveOwned, CpsOf
  <1> QED
    BY <1>4, <1>5, <1>6, <1>7, <1>8, <1>9, <1>10, <1>11, <1>12 DEF Checkpoint, Finish

LEMMA NextClean ==
  ASSUME OneQueue, QueueInv, CleanInv, [ResumeNext]_resumeVars
  PROVE  CleanInv'
  <1>0. /\ TypeOK /\ \A p \in Procs : UpToDate(p)
        /\ current # NoState => current.task \in Tasks
        /\ NoState.task = 0 /\ 0 \notin Tasks /\ \A t : NewState(t).task = t
        /\ current \in States
    BY StoreAssumption DEF QueueInv, PlanInv, TypeOK, NoState, NewState, Tasks
  <1>1. CASE StoreStep /\ ~remains' /\ current' # NoState
    <2>0. ~remains /\ \A q \in Procs : ~LeavesFiles(q)
      BY <1>1 DEF StoreStep
    <2>1. ASSUME NEW t \in Tasks, current'.task = t, FinalsOwned(t)', ArchiveOwned(t)'
          PROVE  CleanInv'
      <3>1. FinalsOwned(current.task)' /\ ArchiveOwned(current.task)'
        BY <2>1 DEF FinalsOwned, ArchiveOwned, CpsOf
      <3> QED
        BY <3>1 DEF CleanInv
    <2>2. ASSUME NEW p \in Procs,
                 Start(p) \/ Report(p) \/ Checkpoint(p) \/ Finish(p) \/ PrepareFails(p)
          PROVE  CleanInv'
      <3>1. ASSUME NEW t \in Tasks, pc[p] = "startCreate", current' = NewState(t),
                   plan[p].state.task = t, UNCHANGED <<history, completed>>
            PROVE  CleanInv'
        <4>1. completed[t] = NoArchive /\ CpsOf(t) = {}
          BY <1>0, <3>1 DEF UpToDate
        <4>2. FinalsOwned(t)' /\ ArchiveOwned(t)'
          BY <3>1, <4>1 DEF FinalsOwned, ArchiveOwned, CpsOf
        <4> QED
          BY <1>0, <2>1, <3>1, <4>2
      <3>2. ASSUME current # NoState, current'.task = current.task
            PROVE  CleanInv'
        <4>1. PICK t \in Tasks : t = current.task
          BY <1>0, <3>2
        <4>2. FinalsOwned(t) /\ ArchiveOwned(t)
          BY <2>0, <3>2, <4>1 DEF CleanInv
        <4>3. pc[p] \in HasTask => plan[p].state.task = t
          BY <1>0, <4>1 DEF UpToDate
        <4>4. FinalsOwned(t)' /\ ArchiveOwned(t)'
          BY <1>1, <2>0, <2>2, <4>2, <4>3, StepClean
        <4> QED
          BY <2>1, <3>2, <4>1, <4>4
      <3>3. \A r : MergeReport(current, r).task = current.task
        BY <1>0, StateTasks
      <3> QED
        BY <1>1, <2>2, <3>1, <3>2, <3>3, StepRevision, StepCurrent
    <2>3. CASE GitChange
      <3>1. UNCHANGED <<current, history, completed, pc, plan>>
        BY <2>3 DEF GitChange, store
      <3> QED
        BY <1>1, <2>0, <3>1 DEF CleanInv, FinalsOwned, ArchiveOwned, CpsOf
    <2> QED
      BY <1>1, <2>2, <2>3 DEF StoreStep
  <1>2. CASE ReaderStep \/ UNCHANGED resumeVars
    <2>1. UNCHANGED <<current, history, completed, pc, plan, remains>>
      BY <1>2 DEF ReaderStep, ResumeLoad, ResumeList, ResumeStat, ResumeRead, ResumeReturn,
                  resumeVars, vars
    <2> QED
      BY <2>1 DEF CleanInv, FinalsOwned, ArchiveOwned, CpsOf
  <1>3. CASE remains' \/ current' = NoState
    BY <1>3 DEF CleanInv
  <1> QED
    BY <1>1, <1>2, <1>3 DEF ResumeNext, StoreCrash, ReaderStep

\* Unless a crash, a cleanup or a rollback has left files behind, a task whose finish failed,
\* wherever it failed, has neither final checkpoint nor archive and can be finished again.
THEOREM FinishableAgainHolds == ASSUME OneQueue PROVE ResumeSpec => []FinishableAgain
  <1>1. ResumeInit => QueueInv /\ CleanInv
    BY InitQueue DEF ResumeInit, Init, CleanInv
  <1>2. QueueInv /\ CleanInv /\ [ResumeNext]_resumeVars => QueueInv' /\ CleanInv'
    BY StoreSteps, NextQueue, NextClean
  <1>3. QueueInv /\ CleanInv => FinishableAgain
    <2> SUFFICES ASSUME CleanInv, ~remains, current # NoState,
                        HasFinal(current.task) \/ completed[current.task] # NoArchive
                 PROVE  \E p \in Procs : /\ plan[p].state.task = current.task
                                         /\ pc[p] \in Committing
      BY DEF FinishableAgain, ActiveMeansFinishable, Committing
    <2> QED
      BY DEF CleanInv, FinalsOwned, ArchiveOwned, HasFinal, Committing, OwnsArchive
  <1> QED
    BY <1>1, <1>2, <1>3, PTL DEF ResumeSpec
=============================================================================
