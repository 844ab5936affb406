--------------------------- MODULE TaskStoreProofs ---------------------------
(***************************************************************************)
(* Theorems about the task store, for any number of processes, tasks,      *)
(* checkpoints and conclusions, and failing writes and crashes.            *)
(*                                                                         *)
(* The first part is about the files where processes run next to each      *)
(* other without synchronisation.  The argument is one of ownership: a     *)
(* file that an operation has created exclusively is that operation's      *)
(* alone until it returns, and only its owner removes it again.            *)
(*                                                                         *)
(* The second part is about what the state in current.md says of the       *)
(* files.  What it says of its latest checkpoint stays true of every copy  *)
(* of that state, however old.  Where the operations pass through one      *)
(* queue, one that is alone in the store holds a copy that is not old, and *)
(* the files implement the ledger.                                         *)
(***************************************************************************)
EXTENDS TaskStore, FiniteSetTheorems, TLAPS

----------------------------------------------------------------------------
(* Type correctness *)

\* The files of a task are finitely many.
LEMMA CpsOfFinite ==
  ASSUME NEW t
  PROVE  IsFiniteSet(CpsOf(t)) /\ Cardinality(CpsOf(t)) \in Nat
  <1>1. IsFiniteSet(Cps)
    BY StoreAssumption, FS_Interval DEF Cps
  <1>2. IsFiniteSet(CpsOf(t))
    BY <1>1, FS_Subset DEF CpsOf
  <1> QED
    BY <1>2, FS_CardinalityType

LEMMA CountType ==
  ASSUME NEW s \in States
  PROVE  NextCount(s) \in Nat /\ s.count < NextCount(s)
  <1>1. s.count \in Nat /\ Cardinality(CpsOf(s.task)) \in Nat
    BY CpsOfFinite DEF States
  <1> QED
    BY <1>1 DEF NextCount

LEMMA EmptyTypes ==
  /\ NoFingerprint \in Fingerprints
  /\ NoState \in States
  /\ NoCheckpoint \in Checkpoints
  /\ NoArchive \in Archives
  /\ NoPlan \in Plans
  /\ \A t \in Tasks : NewState(t) \in States
  BY StoreAssumption
     DEF NoFingerprint, Fingerprint, Fingerprints, Kinds, NoState, NewState, States,
         NoCheckpoint, Checkpoints, NoArchive, Archives, NoPlan, Plans, Tasks

LEMMA MergeType ==
  ASSUME NEW s \in States, NEW r \in SUBSET Entries
  PROVE  /\ MergeReport(s, r) \in States
         /\ \A resolved : Resolved(s, r, resolved) \in States
  <1>1. \A n \in Nat, e \in SUBSET Entries : [s EXCEPT !.entries = e, !.rev = n] \in States
    BY DEF States
  <1>2. s.rev \in Nat /\ s.entries \in SUBSET Entries
    BY DEF States
  <1>3. MergeReport(s, r) \in States
    <2> DEFINE n == IF r \subseteq s.entries THEN s.rev ELSE s.rev + 1
    <2>1. n \in Nat /\ s.entries \cup r \in SUBSET Entries
      BY <1>2
    <2>2. MergeReport(s, r) = [s EXCEPT !.entries = s.entries \cup r, !.rev = n]
      BY DEF MergeReport, States
    <2> HIDE DEF n
    <2> QED
      BY <1>1, <2>1, <2>2
  <1>4. ASSUME NEW resolved
        PROVE  Resolved(s, r, resolved) \in States
    <2> DEFINE m == MergeReport(s, r)
               n == IF r \subseteq s.entries /\ resolved = {} THEN s.rev ELSE s.rev + 1
    <2>1. n \in Nat
      BY <1>2
    <2>2. Resolved(s, r, resolved) = [m EXCEPT !.rev = n]
      BY DEF Resolved
    <2>3. m \in States
      BY <1>3
    <2> HIDE DEF m, n
    <2> QED
      BY <2>1, <2>2, <2>3 DEF States
  <1> QED
    BY <1>3, <1>4

LEMMA NewCpsType ==
  ASSUME NEW s, NEW c \in NewCps(s)
  PROVE  c \in Cps /\ c \in 0..MaxCp
  BY StoreAssumption DEF NewCps, Cps

LEMMA CheckpointType ==
  ASSUME TypeOK, NEW s \in States, NEW c \in 0..MaxCp
  PROVE  /\ Checkpointed(s, c) \in States
         /\ \A kind \in Kinds : Assemble(s, kind) \in Checkpoints
  <1>1. git \in Nat /\ s.rev \in Nat /\ s.entries \in SUBSET Entries
    BY StoreAssumption DEF TypeOK, States
  <1>2. \A kind \in Kinds : Fingerprint(kind, s.rev, git) \in Fingerprints
    BY <1>1 DEF Fingerprint, Fingerprints
  <1>3. Checkpointed(s, c) \in States
    <2> DEFINE n == NextCount(s)
               fp == Fingerprint("progress", s.rev, git)
    <2>1. n \in Nat /\ fp \in Fingerprints
      BY <1>2, CountType DEF Kinds
    <2>2. Checkpointed(s, c) = [s EXCEPT !.count = n, !.latest = c, !.latestFp = fp,
                                         !.latestRev = s.rev]
      BY DEF Checkpointed
    <2> HIDE DEF n, fp
    <2> QED
      BY <1>1, <2>1, <2>2 DEF States
  <1> QED
    BY <1>1, <1>2, <1>3 DEF Assemble, Checkpoints

LEMMA GotoType ==
  ASSUME TypeOK, NEW p \in Procs, NEW step \in Steps, NEW prepared \in Plans,
         Goto(p, step, prepared)
  PROVE  pc' \in [Procs -> Steps] /\ plan' \in [Procs -> Plans]
  BY DEF Goto, TypeOK

LEMMA ReturnType ==
  ASSUME TypeOK, NEW p \in Procs, Return(p)
  PROVE  pc' \in [Procs -> Steps] /\ plan' \in [Procs -> Plans]
  BY EmptyTypes, GotoType DEF Return, Steps

LEMMA PutType ==
  ASSUME TypeOK, NEW p \in Procs
  PROVE  /\ \A c \in Checkpoints :
               PutHistory(p, c) => history' \in [Tasks -> [Cps -> Checkpoints]]
         /\ \A a \in Archives : PutArchive(p, a) => completed' \in [Tasks -> Archives]
  BY DEF TypeOK, PutHistory, PutArchive

LEMMA InitType == Init => TypeOK
  BY StoreAssumption, EmptyTypes DEF Init, TypeOK, Steps

LEMMA StartType ==
  ASSUME TypeOK, NEW p \in Procs, Start(p)
  PROVE  TypeOK'
  <1>1. plan[p].state \in States
    BY DEF TypeOK, Plans
  <1>2. CASE BeginStart(p)
    BY <1>2, EmptyTypes, GotoType DEF BeginStart, TypeOK, Steps, store
  <1>3. CASE StartList(p)
    <2>1. CASE Return(p)
      BY <1>3, <2>1, ReturnType DEF StartList, TypeOK, store
    <2>2. CASE ~Return(p)
      <3>1. PICK t \in NewTasks : Goto(p, "startCreate", [NoPlan EXCEPT !.state = NewState(t)])
        BY <1>3, <2>2 DEF StartList
      <3>2. [NoPlan EXCEPT !.state = NewState(t)] \in Plans
        BY <3>1, EmptyTypes DEF NewTasks, Plans, NoPlan
      <3> QED
        BY <1>3, <3>1, <3>2, GotoType DEF StartList, TypeOK, Steps, store
    <2> QED
      BY <2>1, <2>2
  <1>4. CASE StartCreate(p)
    BY <1>1, <1>4, ReturnType DEF StartCreate, TypeOK
  <1> QED
    BY <1>2, <1>3, <1>4 DEF Start

LEMMA ReportType ==
  ASSUME TypeOK, NEW p \in Procs, Report(p)
  PROVE  TypeOK'
  <1>1. plan[p].state \in States /\ current \in States
    BY DEF TypeOK, Plans
  <1>2. CASE BeginReport(p)
    <2>1. PICK r \in Reports :
            Goto(p, "reportReplace", [NoPlan EXCEPT !.state = MergeReport(current, r)])
      BY <1>2 DEF BeginReport
    <2>2. [NoPlan EXCEPT !.state = MergeReport(current, r)] \in Plans
      BY <1>1, EmptyTypes, MergeType, StoreAssumption DEF Plans, NoPlan
    <2> QED
      BY <1>2, <2>1, <2>2, GotoType DEF BeginReport, TypeOK, Steps, store
  <1>3. CASE ReportReplace(p)
    BY <1>1, <1>3, ReturnType DEF ReportReplace, TypeOK
  <1> QED
    BY <1>2, <1>3 DEF Report

LEMMA CheckpointStepsType ==
  ASSUME TypeOK, NEW p \in Procs, Checkpoint(p)
  PROVE  TypeOK'
  <1>1. /\ plan[p] \in Plans /\ plan[p].state \in States /\ current \in States
        /\ plan[p].checkpoint \in Checkpoints /\ NoCheckpoint \in Checkpoints
    BY EmptyTypes DEF TypeOK, Plans
  <1>2. CASE BeginCheckpoint(p)
    <2>1. [NoPlan EXCEPT !.state = current] \in Plans
      BY <1>1, EmptyTypes DEF Plans, NoPlan
    <2> QED
      BY <1>2, <2>1, GotoType DEF BeginCheckpoint, TypeOK, Steps, store
  <1>3. CASE CheckpointSurvey(p)
    <2> DEFINE s == plan[p].state
    <2>1. CASE Return(p)
      BY <1>3, <2>1, ReturnType DEF CheckpointSurvey, TypeOK, store
    <2>2. CASE ~Return(p)
      <3>1. PICK c \in NewCps(s) :
              Goto(p, "cpCreate", [NoPlan EXCEPT !.state = Checkpointed(s, c), !.cp = c,
                                                 !.checkpoint = Assemble(s, "progress")])
        BY <1>3, <2>2 DEF CheckpointSurvey
      <3> DEFINE t == Checkpointed(s, c)
                 k == Assemble(s, "progress")
                 q == [NoPlan EXCEPT !.state = t, !.cp = c, !.checkpoint = k]
      <3>2. c \in 0..MaxCp /\ t \in States /\ k \in Checkpoints
        BY <1>1, NewCpsType, CheckpointType DEF Kinds
      <3>3. Goto(p, "cpCreate", q) /\ UNCHANGED <<store, git>>
        BY <1>3, <3>1 DEF CheckpointSurvey
      <3>4. q \in Plans
        <4> HIDE DEF t, k
        <4> QED
          BY <3>2, EmptyTypes DEF Plans
      <3> HIDE DEF q
      <3> QED
        BY <3>3, <3>4, GotoType DEF TypeOK, Steps, store
    <2> QED
      BY <2>1, <2>2
  <1>4. CASE CheckpointCreate(p)
    BY <1>1, <1>4, PutType, ReturnType, GotoType DEF CheckpointCreate, TypeOK, Steps
  <1>5. CASE CheckpointReplace(p)
    BY <1>1, <1>5, ReturnType, GotoType DEF CheckpointReplace, TypeOK, Steps
  <1>6. CASE CheckpointRollback(p)
    BY <1>1, <1>6, PutType, ReturnType DEF CheckpointRollback, TypeOK
  <1> QED
    BY <1>2, <1>3, <1>4, <1>5, <1>6 DEF Checkpoint

LEMMA FinishStepsType ==
  ASSUME TypeOK, NEW p \in Procs, Finish(p)
  PROVE  TypeOK'
  <1>1. /\ plan[p] \in Plans /\ plan[p].state \in States /\ current \in States
        /\ plan[p].checkpoint \in Checkpoints /\ NoCheckpoint \in Checkpoints
        /\ plan[p].archive \in Archives /\ NoArchive \in Archives /\ NoState \in States
    BY EmptyTypes DEF TypeOK, Plans
  <1>2. CASE BeginFinish(p)
    <2>1. [NoPlan EXCEPT !.state = current] \in Plans
      BY <1>1, EmptyTypes DEF Plans, NoPlan
    <2> QED
      BY <1>2, <2>1, GotoType DEF BeginFinish, TypeOK, Steps, store
  <1>3. CASE FinishSource(p)
    <2>1. [plan[p] EXCEPT !.source = current] \in Plans
      BY <1>1 DEF Plans
    <2> QED
      BY <1>3, <2>1, GotoType, ReturnType DEF FinishSource, TypeOK, Steps, store
  <1>4. CASE FinishSurvey(p)
    <2>1. CASE Return(p)
      BY <1>4, <2>1, ReturnType DEF FinishSurvey, TypeOK, store
    <2>2. CASE ~Return(p)
      <3> DEFINE s == plan[p].state
      <3>1. PICK c \in NewCps(s), r \in FinalReports, resolved \in SUBSET Work :
              LET f == Resolved(s, r, resolved)
              IN  Goto(p, "finCheck",
                       [state |-> f, source |-> plan[p].source, cp |-> c,
                        checkpoint |-> Assemble(f, "final"),
                        archive |-> [final |-> c, entries |-> f.entries, rev |-> f.rev]])
        BY <1>4, <2>2 DEF FinishSurvey
      <3> DEFINE f == Resolved(s, r, resolved)
                 q == [state |-> f, source |-> plan[p].source, cp |-> c,
                       checkpoint |-> Assemble(f, "final"),
                       archive |-> [final |-> c, entries |-> f.entries, rev |-> f.rev]]
      <3>2. UNCHANGED <<store, git>>
        BY <1>4 DEF FinishSurvey
      <3>3. f \in States
        BY <1>1, MergeType, StoreAssumption
      <3>4. f.rev \in Nat /\ f.entries \in SUBSET Entries
        BY <3>3 DEF States
      <3>5. Assemble(f, "final") \in Checkpoints
        BY <3>4, StoreAssumption
           DEF TypeOK, Assemble, Checkpoints, Fingerprint, Fingerprints, Kinds
      <3>6. q \in Plans
        <4>1. c \in 0..MaxCp
          BY NewCpsType
        <4>2. plan[p].source \in States
          BY <1>1 DEF Plans
        <4>3. [final |-> c, entries |-> f.entries, rev |-> f.rev] \in Archives
          BY <3>4, <4>1 DEF Archives
        <4> HIDE DEF f
        <4> QED
          BY <3>3, <3>5, <4>1, <4>2, <4>3 DEF Plans
      <3>7. Goto(p, "finCheck", q)
        BY <3>1
      <3> HIDE DEF q
      <3> QED
        BY <3>2, <3>6, <3>7, GotoType DEF TypeOK, Steps, store
    <2> QED
      BY <2>1, <2>2
  <1>5. CASE FinishCheck(p)
    BY <1>1, <1>5, GotoType, ReturnType DEF FinishCheck, TypeOK, Steps, store
  <1>6. CASE FinishHistory(p)
    BY <1>1, <1>6, PutType, GotoType, ReturnType DEF FinishHistory, TypeOK, Steps
  <1>7. CASE FinishArchive(p)
    BY <1>1, <1>7, PutType, GotoType DEF FinishArchive, TypeOK, Steps
  <1>8. CASE FinishReread(p)
    BY <1>1, <1>8, GotoType DEF FinishReread, TypeOK, Steps, store
  <1>9. CASE FinishRemove(p)
    BY <1>1, <1>9, GotoType, ReturnType DEF FinishRemove, TypeOK, Steps
  <1>10. CASE FinishUnarchive(p)
    BY <1>1, <1>10, PutType, GotoType DEF FinishUnarchive, TypeOK, Steps
  <1>11. CASE FinishUnhistory(p)
    BY <1>1, <1>11, PutType, ReturnType DEF FinishUnhistory, TypeOK
  <1> QED
    BY <1>2, <1>3, <1>4, <1>5, <1>6, <1>7, <1>8, <1>9, <1>10, <1>11 DEF Finish

LEMMA EnvironmentType ==
  ASSUME TypeOK
  PROVE  /\ \A p \in Procs : PrepareFails(p) \/ Crash(p) => TypeOK'
         /\ GitChange => TypeOK'
  <1>1. ASSUME NEW p \in Procs, PrepareFails(p)
        PROVE  TypeOK'
    BY <1>1, ReturnType DEF PrepareFails, TypeOK, store
  <1>2. ASSUME NEW p \in Procs, Crash(p)
        PROVE  TypeOK'
    BY <1>2, EmptyTypes DEF Crash, TypeOK, Steps, store
  <1>3. GitChange => TypeOK'
    BY DEF GitChange, TypeOK, store
  <1> QED
    BY <1>1, <1>2, <1>3

LEMMA NextType ==
  ASSUME TypeOK, [Next]_vars
  PROVE  TypeOK'
  <1>1. CASE UNCHANGED vars
    BY <1>1 DEF vars, TypeOK
  <1> QED
    BY <1>1, StartType, ReportType, CheckpointStepsType, FinishStepsType, EnvironmentType DEF Next

\* Every file and every prepared plan has the shape its schema allows, however
\* many processes run and whatever fails.
THEOREM TypeCorrect == Spec => []TypeOK
  <1>1. TypeOK /\ [Next]_vars => TypeOK'
    BY NextType
  <1> QED
    BY <1>1, InitType, PTL DEF Spec

----------------------------------------------------------------------------
(* Who owns which file *)

\* An archive or a checkpoint whose creation was reported as failed, or whose
\* removal failed, stays behind with no owner to set it right.
NoLeftovers == Faults \cap {"cleanup", "rollback"} = {}

HasTask == Steps \ {"idle", "startList", "startCreate"}

Checkpointing == {"cpCreate", "cpReplace", "cpRollback"}

Finishing == {"finCheck", "finHistory", "finArchive", "finReread", "finRemove",
              "finUnarchive", "finUnhistory"}

\* The steps at which an operation owns the checkpoint, or the archive, it created
OwnsHistory == {"cpReplace", "cpRollback", "finArchive", "finReread", "finRemove",
                "finUnarchive", "finUnhistory"}

OwnsArchive == {"finReread", "finRemove", "finUnarchive"}

Owns(p, t, c) == pc[p] \in OwnsHistory /\ plan[p].state.task = t /\ plan[p].cp = c

----------------------------------------------------------------------------
(* The inductive invariant *)

\* What an operation holds prepared at each of its steps
Prepared(step, q) ==
    /\ step = "startCreate" => \E t \in Tasks : q.state = NewState(t)
    /\ step \in HasTask => q.state.task \in Tasks
    /\ step \in Checkpointing =>
          /\ q.cp \in Cps
          /\ q.state.latest = q.cp
          /\ q.checkpoint.fp = q.state.latestFp
          /\ q.checkpoint.fp.kind = "progress"
    /\ step \in Finishing =>
          /\ q.cp \in Cps
          /\ q.archive.final = q.cp
          /\ q.checkpoint.fp.kind = "final"
          /\ q.checkpoint.fp.rev = q.archive.rev
          /\ q.checkpoint.entries = q.archive.entries

PlanInv ==
    /\ current = NoState \/ current.task \in Tasks
    /\ \A p \in Procs : Prepared(pc[p], plan[p])

\* The checkpoint an operation owns is the one it prepared, and has one owner.
HistoryInv ==
    \A p \in Procs : pc[p] \in OwnsHistory =>
        /\ history[plan[p].state.task][plan[p].cp] = plan[p].checkpoint
        /\ \A q \in Procs : Owns(q, plan[p].state.task, plan[p].cp) => q = p

ArchiveInv ==
    \A p \in Procs : pc[p] \in OwnsArchive =>
        /\ completed[plan[p].state.task] = plan[p].archive
        /\ \A q \in Procs :
              pc[q] \in OwnsArchive /\ plan[q].state.task = plan[p].state.task => q = p

\* A reference to a checkpoint is to a file that nobody will remove.
Refers(s) ==
    s.latest # 0 =>
        /\ history[s.task][s.latest] # NoCheckpoint
        /\ history[s.task][s.latest].fp = s.latestFp
        /\ \A q \in Procs : ~Owns(q, s.task, s.latest)

ReferenceInv ==
    /\ Refers(current)
    /\ \A p \in Procs : pc[p] = "reportReplace" => Refers(plan[p].state)

\* The final checkpoint of an archive is removed only after the archive.
FiledInv ==
    /\ ArchiveHasFinal
    /\ \A t \in Tasks : completed[t] # NoArchive =>
          \A q \in Procs : Owns(q, t, completed[t].final) => pc[q] \in OwnsArchive

\* A task is archived for good.
Settled(t) ==
    /\ completed[t] # NoArchive
    /\ \A p \in Procs : ~(pc[p] \in OwnsArchive /\ plan[p].state.task = t)

\* The task that operation p works on
WorksOn(p, t) == pc[p] \in HasTask /\ plan[p].state.task = t

\* Of all tasks that are still spoken of, the last one started is the only one
\* that need not be archived for good, and the only one being archived.
SettledBut(last) ==
    /\ \A p \in Procs : pc[p] \in OwnsArchive => plan[p].state.task = last
    /\ \A p \in Procs, t \in Tasks : WorksOn(p, t) => t = last \/ Settled(t)
    /\ \A t \in Tasks : current.task = t => t = last \/ Settled(t)
    /\ current = NoState => last = 0 \/ Settled(last)

TasksInv == \E last \in 0..MaxTask : SettledBut(last)

----------------------------------------------------------------------------
(* What a step does to the files and their owners *)

\* Only process p goes on.
Local(p) == \A q \in Procs : q # p => pc'[q] = pc[q] /\ plan'[q] = plan[q]

\* p creates and removes nothing, and owns nothing that it did not own before.
Keep(p) ==
    /\ Local(p)
    /\ UNCHANGED <<history, completed>>
    /\ pc'[p] \in OwnsHistory =>
          /\ pc[p] \in OwnsHistory
          /\ plan'[p] = plan[p]
          /\ pc'[p] \in OwnsArchive <=> pc[p] \in OwnsArchive

TakeHistory(p) ==
    /\ Local(p)
    /\ pc[p] \in {"cpCreate", "finHistory"} /\ pc'[p] \in {"cpReplace", "finArchive"}
    /\ plan'[p] = plan[p]
    /\ HistoryFree(p) /\ PutHistory(p, plan[p].checkpoint)
    /\ UNCHANGED completed

DropHistory(p) ==
    /\ Local(p)
    /\ pc[p] \in {"cpRollback", "finUnhistory"} /\ pc'[p] = "idle"
    /\ PutHistory(p, NoCheckpoint)
    /\ UNCHANGED completed

TakeArchive(p) ==
    /\ Local(p)
    /\ pc[p] = "finArchive" /\ pc'[p] = "finReread"
    /\ plan'[p] = plan[p]
    /\ ArchiveFree(p) /\ PutArchive(p, plan[p].archive)
    /\ UNCHANGED history

DropArchive(p) ==
    /\ Local(p)
    /\ pc[p] = "finUnarchive" /\ pc'[p] = "finUnhistory"
    /\ plan'[p] = plan[p]
    /\ PutArchive(p, NoArchive)
    /\ UNCHANGED history

\* The files stay as they are, and some operations may die.
Fewer ==
    /\ UNCHANGED store
    /\ \A q \in Procs : pc'[q] = "idle" \/ (pc'[q] = pc[q] /\ plan'[q] = plan[q])

Shape(p) == Keep(p) \/ TakeHistory(p) \/ DropHistory(p) \/ TakeArchive(p) \/ DropArchive(p)

LEMMA GotoLocal ==
  ASSUME TypeOK, NEW p \in Procs
  PROVE  /\ \A step, prepared : Goto(p, step, prepared) =>
               Local(p) /\ pc'[p] = step /\ plan'[p] = prepared
         /\ Return(p) => Local(p) /\ pc'[p] = "idle" /\ plan'[p] = NoPlan
  BY DEF Goto, Return, Local, TypeOK

LEMMA StepShape ==
  ASSUME NoLeftovers, TypeOK, HistoryInv, ArchiveInv, NEW p \in Procs,
         Start(p) \/ Report(p) \/ Checkpoint(p) \/ Finish(p) \/ PrepareFails(p)
  PROVE  Shape(p)
  <1> USE DEF Shape, OwnsHistory, OwnsArchive
  <1>0. ASSUME NEW step \in Steps \ OwnsHistory, NEW prepared,
               Goto(p, step, prepared) \/ Return(p), UNCHANGED <<history, completed>>
        PROVE  Keep(p)
    BY <1>0, GotoLocal DEF Keep
  <1>1. CASE Start(p) \/ Report(p) \/ PrepareFails(p)
    BY <1>0, <1>1
       DEF Start, BeginStart, StartList, StartCreate, Report, BeginReport, ReportReplace,
           PrepareFails, store, Steps
  <1>2. CASE BeginCheckpoint(p) \/ CheckpointSurvey(p)
    BY <1>0, <1>2 DEF BeginCheckpoint, CheckpointSurvey, store, Steps
  <1>11. CASE CheckpointReplace(p)
    BY <1>11, GotoLocal DEF Keep, CheckpointReplace
  <1>3. CASE CheckpointCreate(p)
    BY <1>3, GotoLocal DEF Keep, TakeHistory, CheckpointCreate, NoLeftovers
  <1>4. CASE CheckpointRollback(p)
    BY <1>4, GotoLocal DEF DropHistory, CheckpointRollback, NoLeftovers
  <1>5. CASE BeginFinish(p) \/ FinishSource(p) \/ FinishSurvey(p) \/ FinishCheck(p)
    <2>1. CASE FinishCheck(p)
      <3>1. Local(p) /\ pc'[p] \notin OwnsHistory
        BY <2>1, GotoLocal DEF FinishCheck
      <3> QED
        BY <2>1, <3>1 DEF FinishCheck, Keep, store
    <2> QED
      BY <1>0, <1>5, <2>1 DEF BeginFinish, FinishSource, FinishSurvey, store, Steps
  <1>6. CASE FinishHistory(p)
    BY <1>6, GotoLocal DEF Keep, TakeHistory, FinishHistory, NoLeftovers
  <1>7. CASE FinishArchive(p)
    BY <1>7, GotoLocal DEF Keep, TakeArchive, FinishArchive, NoLeftovers
  <1>8. CASE FinishReread(p) \/ FinishRemove(p)
    BY <1>8, GotoLocal DEF Keep, FinishReread, FinishRemove, store
  <1>9. CASE FinishUnarchive(p)
    <2>1. completed[plan[p].state.task] = plan[p].archive
      BY <1>9 DEF FinishUnarchive, ArchiveInv
    <2> QED
      BY <1>9, <2>1, GotoLocal DEF DropArchive, FinishUnarchive, NoLeftovers
  <1>10. CASE FinishUnhistory(p)
    <2>1. history[plan[p].state.task][plan[p].cp] = plan[p].checkpoint
      BY <1>10 DEF FinishUnhistory, HistoryInv
    <2> QED
      BY <1>10, <2>1, GotoLocal DEF DropHistory, FinishUnhistory, NoLeftovers
  <1> QED
    BY <1>1, <1>2, <1>3, <1>4, <1>5, <1>6, <1>7, <1>8, <1>9, <1>10, <1>11 DEF Checkpoint, Finish

LEMMA NextShape ==
  ASSUME NoLeftovers, TypeOK, HistoryInv, ArchiveInv, [Next]_vars
  PROVE  Fewer \/ \E p \in Procs : Shape(p)
  <1>1. CASE UNCHANGED vars \/ GitChange
    BY <1>1 DEF vars, GitChange, Fewer, store
  <1>2. ASSUME NEW p \in Procs, Crash(p)
        PROVE  Fewer
    BY <1>2 DEF Crash, Fewer
  <1> QED
    BY <1>1, <1>2, StepShape DEF Next

----------------------------------------------------------------------------
(* What is prepared *)

LEMMA StateTasks ==
  ASSUME NEW s \in States, NEW r, NEW resolved, NEW c
  PROVE  /\ MergeReport(s, r).task = s.task
         /\ MergeReport(s, r).latest = s.latest /\ MergeReport(s, r).latestFp = s.latestFp
         /\ Resolved(s, r, resolved).task = s.task
         /\ Checkpointed(s, c).task = s.task
         /\ Checkpointed(s, c).latest = c
         /\ Checkpointed(s, c).latestFp = Fingerprint("progress", s.rev, git)
  <1>1. /\ MergeReport(s, r).task = s.task
        /\ MergeReport(s, r).latest = s.latest /\ MergeReport(s, r).latestFp = s.latestFp
    BY DEF MergeReport, States
  <1>2. Resolved(s, r, resolved).task = s.task
    BY DEF Resolved, MergeReport, States
  <1>3. Checkpointed(s, c) = [s EXCEPT !.count = NextCount(s), !.latest = c,
                                       !.latestFp = Fingerprint("progress", s.rev, git),
                                       !.latestRev = s.rev]
    BY DEF Checkpointed
  <1>4. /\ Checkpointed(s, c).task = s.task
        /\ Checkpointed(s, c).latest = c
        /\ Checkpointed(s, c).latestFp = Fingerprint("progress", s.rev, git)
    BY <1>3 DEF States
  <1> QED
    BY <1>1, <1>2, <1>4

LEMMA StepPrepared ==
  ASSUME TypeOK, PlanInv, NEW p \in Procs,
         Start(p) \/ Report(p) \/ Checkpoint(p) \/ Finish(p) \/ PrepareFails(p)
  PROVE  Prepared(pc'[p], plan'[p])
  <1> USE DEF HasTask, Steps, Checkpointing, Finishing
  <1>0. /\ plan[p] \in Plans /\ plan[p].state \in States /\ current \in States
        /\ NoPlan \in Plans /\ Prepared(pc[p], plan[p])
    BY EmptyTypes DEF TypeOK, Plans, PlanInv
  <1>1. CASE pc'[p] \in {"idle", "startList"}
    BY <1>1 DEF Prepared
  <1>2. CASE plan'[p] = plan[p] /\ (\/ pc[p] \in Checkpointing /\ pc'[p] \in Checkpointing
                                    \/ pc[p] \in Finishing /\ pc'[p] \in Finishing)
    BY <1>0, <1>2 DEF Prepared
  <1>3. ASSUME pc'[p] \in {"reportReplace", "cpSurvey", "finSource", "finSurvey"},
               plan'[p].state.task \in Tasks
        PROVE  Prepared(pc'[p], plan'[p])
    BY <1>3 DEF Prepared
  <1>4. CASE Start(p)
    <2>1. CASE \E t \in NewTasks : Goto(p, "startCreate", [NoPlan EXCEPT !.state = NewState(t)])
      BY <1>0, <2>1, GotoLocal DEF Prepared, NewTasks, Plans
    <2> QED
      BY <1>1, <1>4, <2>1, GotoLocal DEF Start, BeginStart, StartList, StartCreate
  <1>5. CASE Report(p)
    <2>1. CASE ReportReplace(p)
      BY <1>1, <2>1, GotoLocal DEF ReportReplace
    <2>2. CASE BeginReport(p)
      <3>1. PICK r : Goto(p, "reportReplace", [NoPlan EXCEPT !.state = MergeReport(current, r)])
        BY <2>2 DEF BeginReport
      <3>2. pc'[p] = "reportReplace" /\ plan'[p].state = MergeReport(current, r)
        BY <1>0, <3>1, GotoLocal DEF Plans
      <3>3. current.task \in Tasks
        BY <2>2 DEF BeginReport, PlanInv
      <3> QED
        BY <1>0, <1>3, <3>2, <3>3, StateTasks
    <2> QED
      BY <1>5, <2>1, <2>2 DEF Report
  <1>6. CASE Checkpoint(p)
    <2>1. CASE BeginCheckpoint(p)
      <3>1. pc'[p] = "cpSurvey" /\ plan'[p].state = current /\ current.task \in Tasks
        BY <1>0, <2>1, GotoLocal DEF BeginCheckpoint, Plans, PlanInv
      <3> QED
        BY <1>3, <3>1
    <2>2. CASE CheckpointSurvey(p)
      <3> DEFINE s == plan[p].state
      <3>1. CASE Return(p)
        BY <1>1, <3>1, GotoLocal
      <3>2. CASE ~Return(p)
        <4>1. PICK c \in NewCps(s) :
                Goto(p, "cpCreate", [NoPlan EXCEPT !.state = Checkpointed(s, c), !.cp = c,
                                                   !.checkpoint = Assemble(s, "progress")])
          BY <2>2, <3>2 DEF CheckpointSurvey
        <4> DEFINE n == Checkpointed(s, c)
                   k == Assemble(s, "progress")
        <4>2. /\ n.task = s.task /\ n.latest = c /\ k.fp = n.latestFp /\ k.fp.kind = "progress"
          BY <1>0, StateTasks DEF Assemble, Fingerprint
        <4>3. c \in Cps /\ s.task \in Tasks
          BY <1>0, <2>2, NewCpsType DEF Prepared, CheckpointSurvey
        <4>4. /\ pc'[p] = "cpCreate"
              /\ plan'[p] = [NoPlan EXCEPT !.state = n, !.cp = c, !.checkpoint = k]
          BY <4>1, GotoLocal
        <4> HIDE DEF n, k
        <4>5. plan'[p].state = n /\ plan'[p].cp = c /\ plan'[p].checkpoint = k
          BY <1>0, <4>4 DEF Plans
        <4> QED
          BY <4>2, <4>3, <4>4, <4>5 DEF Prepared
      <3> QED
        BY <3>1, <3>2
    <2>3. CASE CheckpointCreate(p) \/ CheckpointReplace(p) \/ CheckpointRollback(p)
      BY <1>1, <1>2, <2>3, GotoLocal DEF CheckpointCreate, CheckpointReplace, CheckpointRollback
    <2> QED
      BY <1>6, <2>1, <2>2, <2>3 DEF Checkpoint
  <1>7. CASE Finish(p)
    <2>1. CASE BeginFinish(p)
      <3>1. pc'[p] = "finSource" /\ plan'[p].state = current /\ current.task \in Tasks
        BY <1>0, <2>1, GotoLocal DEF BeginFinish, Plans, PlanInv
      <3> QED
        BY <1>3, <3>1
    <2>2. CASE FinishSource(p)
      <3>1. CASE Return(p)
        BY <1>1, <3>1, GotoLocal
      <3>2. CASE ~Return(p)
        <4>1. pc'[p] = "finSurvey" /\ plan'[p].state = plan[p].state
          BY <1>0, <2>2, <3>2, GotoLocal DEF FinishSource, Plans
        <4>2. plan[p].state.task \in Tasks
          BY <1>0, <2>2 DEF FinishSource, Prepared
        <4> QED
          BY <1>3, <4>1, <4>2
      <3> QED
        BY <3>1, <3>2
    <2>3. CASE FinishSurvey(p)
      <3> DEFINE s == plan[p].state
      <3>1. CASE Return(p)
        BY <1>1, <3>1, GotoLocal
      <3>2. CASE ~Return(p)
        <4>1. PICK c \in NewCps(s), r \in FinalReports, resolved \in SUBSET Work :
                LET f == Resolved(s, r, resolved)
                IN  Goto(p, "finCheck",
                         [state |-> f, source |-> plan[p].source, cp |-> c,
                          checkpoint |-> Assemble(f, "final"),
                          archive |-> [final |-> c, entries |-> f.entries, rev |-> f.rev]])
          BY <2>3, <3>2 DEF FinishSurvey
        <4> DEFINE f == Resolved(s, r, resolved)
        <4>2. /\ pc'[p] = "finCheck"
              /\ plan'[p] = [state |-> f, source |-> plan[p].source, cp |-> c,
                             checkpoint |-> Assemble(f, "final"),
                             archive |-> [final |-> c, entries |-> f.entries, rev |-> f.rev]]
          BY <4>1, GotoLocal
        <4>3. c \in Cps /\ f.task \in Tasks
          BY <1>0, <2>3, NewCpsType, StateTasks DEF Prepared, FinishSurvey
        <4> HIDE DEF f
        <4> QED
          BY <4>2, <4>3 DEF Prepared, Assemble, Fingerprint
      <3> QED
        BY <3>1, <3>2
    <2>4. CASE FinishCheck(p) \/ FinishHistory(p) \/ FinishArchive(p) \/ FinishReread(p)
      BY <1>1, <1>2, <2>4, GotoLocal DEF FinishCheck, FinishHistory, FinishArchive, FinishReread
    <2>5. CASE FinishRemove(p) \/ FinishUnarchive(p) \/ FinishUnhistory(p)
      BY <1>1, <1>2, <2>5, GotoLocal DEF FinishRemove, FinishUnarchive, FinishUnhistory
    <2> QED
      BY <1>7, <2>1, <2>2, <2>3, <2>4, <2>5 DEF Finish
  <1>8. CASE PrepareFails(p)
    BY <1>1, <1>8, GotoLocal DEF PrepareFails
  <1> QED
    BY <1>4, <1>5, <1>6, <1>7, <1>8

\* What is in current.md was there before, was prepared, or is nothing.
LEMMA StepCurrent ==
  ASSUME NEW p \in Procs, Start(p) \/ Report(p) \/ Checkpoint(p) \/ Finish(p) \/ PrepareFails(p)
  PROVE  \/ UNCHANGED current
         \/ /\ pc[p] \in {"startCreate", "reportReplace", "cpReplace"} /\ Return(p)
            /\ current' = plan[p].state /\ UNCHANGED <<history, completed>>
            /\ pc[p] = "startCreate" => current = NoState
         \/ /\ pc[p] = "finRemove" /\ Return(p)
            /\ current' = NoState /\ UNCHANGED <<history, completed>>
  BY DEF Start, BeginStart, StartList, StartCreate, Report, BeginReport, ReportReplace, Checkpoint,
         BeginCheckpoint, CheckpointSurvey, CheckpointCreate, CheckpointReplace, CheckpointRollback,
         Finish, BeginFinish, FinishSource, FinishSurvey, FinishCheck, FinishHistory, FinishArchive,
         FinishReread, FinishRemove, FinishUnarchive, FinishUnhistory, PrepareFails, store

LEMMA NextPlan ==
  ASSUME NoLeftovers, TypeOK, PlanInv, HistoryInv, ArchiveInv, [Next]_vars
  PROVE  PlanInv'
  <1>1. CASE Fewer
    BY <1>1 DEF Fewer, PlanInv, Prepared, HasTask, Checkpointing, Finishing, store
  <1>2. ASSUME NEW p \in Procs,
               Start(p) \/ Report(p) \/ Checkpoint(p) \/ Finish(p) \/ PrepareFails(p)
        PROVE  PlanInv'
    <2>1. \A q \in Procs : Prepared(pc'[q], plan'[q])
      <3>1. Local(p)
        BY <1>2, StepShape DEF Shape, Keep, TakeHistory, DropHistory, TakeArchive, DropArchive
      <3> QED
        BY <1>2, <3>1, StepPrepared DEF Local, PlanInv
    <2>2. ASSUME pc[p] \in {"startCreate", "reportReplace", "cpReplace"}
          PROVE  plan[p].state.task \in Tasks
      <3>1. \A t : NewState(t).task = t
        BY DEF NewState
      <3> QED
        BY <2>2, <3>1 DEF PlanInv, Prepared, HasTask, Steps
    <2>3. current' = NoState \/ current'.task \in Tasks
      BY <1>2, <2>2, StepCurrent DEF PlanInv
    <2> QED
      BY <2>1, <2>3 DEF PlanInv
  <1>3. CASE \E p \in Procs : Crash(p)
    BY <1>1, <1>3, NextShape DEF Crash, Fewer
  <1> QED
    BY <1>1, <1>2, <1>3 DEF Next, Fewer, GitChange, vars, store

----------------------------------------------------------------------------
(* Owners of checkpoints and archives *)

Owning == PlanInv /\ HistoryInv /\ ArchiveInv

\* An owner knows what it owns.
LEMMA OwnerPlans ==
  ASSUME TypeOK, PlanInv, NEW p \in Procs
  PROVE  /\ pc[p] \in OwnsHistory \cup {"cpCreate", "finHistory"} =>
               /\ plan[p].state.task \in Tasks /\ plan[p].cp \in Cps
               /\ plan[p].checkpoint # NoCheckpoint
         /\ pc[p] \in OwnsArchive \cup {"finArchive"} =>
               /\ plan[p].archive # NoArchive
               /\ plan[p].archive.final = plan[p].cp
  <1>1. NoCheckpoint.fp.kind = "absent" /\ NoArchive.final = 0 /\ 0 \notin Cps
    BY DEF NoCheckpoint, NoFingerprint, Fingerprint, NoArchive, Cps
  <1> QED
    BY <1>1 DEF PlanInv, Prepared, HasTask, Steps, Checkpointing, Finishing, OwnsHistory, OwnsArchive

LEMMA PutEffect ==
  ASSUME TypeOK, NEW p \in Procs, plan[p].state.task \in Tasks, plan[p].cp \in Cps
  PROVE  /\ \A x : PutHistory(p, x) =>
               \A t \in Tasks, c \in Cps :
                  history'[t][c] = IF t = plan[p].state.task /\ c = plan[p].cp THEN x
                                   ELSE history[t][c]
         /\ \A a : PutArchive(p, a) =>
               \A t \in Tasks : completed'[t] = IF t = plan[p].state.task THEN a ELSE completed[t]
  BY DEF TypeOK, PutHistory, PutArchive

LEMMA NextHistory ==
  ASSUME NoLeftovers, TypeOK, Owning, [Next]_vars
  PROVE  HistoryInv'
  <1> USE DEF Owning
  <1>1. CASE Fewer
    BY <1>1 DEF Fewer, HistoryInv, Owns, OwnsHistory, store
  <1>2. ASSUME NEW p \in Procs, Keep(p)
        PROVE  HistoryInv'
    <2>1. \A q \in Procs : pc'[q] \in OwnsHistory => pc[q] \in OwnsHistory /\ plan'[q] = plan[q]
      BY <1>2 DEF Keep, Local
    <2> QED
      BY <1>2, <2>1 DEF Keep, HistoryInv, Owns
  <1>3. ASSUME NEW p \in Procs, TakeHistory(p)
        PROVE  HistoryInv'
    <2>1. \A q \in Procs : plan'[q] = plan[q] /\ (q # p => pc'[q] = pc[q])
      BY <1>3 DEF TakeHistory, Local
    <2>2. /\ plan[p].state.task \in Tasks /\ plan[p].cp \in Cps
          /\ history[plan[p].state.task][plan[p].cp] = NoCheckpoint
      BY <1>3, OwnerPlans DEF TakeHistory, HistoryFree
    <2>3. \A q \in Procs : q # p => ~Owns(q, plan[p].state.task, plan[p].cp)
      BY <2>2, OwnerPlans DEF HistoryInv, Owns
    <2>4. ASSUME NEW q \in Procs, pc'[q] \in OwnsHistory
          PROVE  /\ history'[plan[q].state.task][plan[q].cp] = plan[q].checkpoint
                 /\ \A o \in Procs :
                       o # q /\ pc'[o] \in OwnsHistory =>
                          ~(plan[o].state.task = plan[q].state.task /\ plan[o].cp = plan[q].cp)
      <3>1. CASE q = p
        <4>1. history'[plan[p].state.task][plan[p].cp] = plan[p].checkpoint
          BY <1>3, <2>2, PutEffect DEF TakeHistory
        <4>2. ASSUME NEW o \in Procs, o # p, pc'[o] \in OwnsHistory
              PROVE  ~(plan[o].state.task = plan[p].state.task /\ plan[o].cp = plan[p].cp)
          BY <2>1, <2>3, <4>2 DEF Owns
        <4> QED
          BY <3>1, <4>1, <4>2
      <3>2. CASE q # p
        <4>1. pc[q] \in OwnsHistory /\ plan[q].state.task \in Tasks /\ plan[q].cp \in Cps
          BY <2>1, <2>4, <3>2, OwnerPlans
        <4>2. ~(plan[q].state.task = plan[p].state.task /\ plan[q].cp = plan[p].cp)
          BY <2>3, <3>2, <4>1 DEF Owns
        <4>3. history'[plan[q].state.task][plan[q].cp] = plan[q].checkpoint
          BY <1>3, <2>2, <4>1, <4>2, PutEffect DEF TakeHistory, HistoryInv
        <4>4. ASSUME NEW o \in Procs, o # q, pc'[o] \in OwnsHistory
              PROVE  ~(plan[o].state.task = plan[q].state.task /\ plan[o].cp = plan[q].cp)
          <5>1. CASE o = p
            BY <4>2, <5>1
          <5>2. CASE o # p
            BY <2>1, <4>1, <4>4, <5>2 DEF HistoryInv, Owns
          <5> QED
            BY <5>1, <5>2
        <4> QED
          BY <4>3, <4>4
      <3> QED
        BY <3>1, <3>2
    <2> QED
      BY <2>1, <2>4 DEF HistoryInv, Owns
  <1>4. ASSUME NEW p \in Procs, DropHistory(p)
        PROVE  HistoryInv'
    <2>1. /\ pc[p] \in OwnsHistory /\ pc'[p] = "idle"
          /\ \A q \in Procs : q # p => pc'[q] = pc[q] /\ plan'[q] = plan[q]
      BY <1>4 DEF DropHistory, Local, OwnsHistory
    <2>2. ASSUME NEW q \in Procs, pc'[q] \in OwnsHistory
          PROVE  q # p
      BY <2>1, <2>2 DEF OwnsHistory
    <2>3. plan[p].state.task \in Tasks /\ plan[p].cp \in Cps
      BY <2>1, OwnerPlans
    <2>4. ASSUME NEW q \in Procs, pc'[q] \in OwnsHistory
          PROVE  history'[plan[q].state.task][plan[q].cp] = plan[q].checkpoint
      <3>1. q # p /\ pc[q] \in OwnsHistory /\ plan[q].state.task \in Tasks /\ plan[q].cp \in Cps
        BY <2>1, <2>2, <2>4, OwnerPlans
      <3>2. ~(plan[q].state.task = plan[p].state.task /\ plan[q].cp = plan[p].cp)
        BY <2>1, <3>1 DEF HistoryInv, Owns
      <3> QED
        BY <1>4, <2>3, <3>1, <3>2, PutEffect DEF DropHistory, HistoryInv
    <2> QED
      BY <2>1, <2>2, <2>4 DEF HistoryInv, Owns
  <1>5. ASSUME NEW p \in Procs, TakeArchive(p) \/ DropArchive(p)
        PROVE  HistoryInv'
    <2>1. \A q \in Procs : plan'[q] = plan[q] /\ (pc'[q] \in OwnsHistory => pc[q] \in OwnsHistory)
      BY <1>5 DEF TakeArchive, DropArchive, Local, OwnsHistory
    <2> QED
      BY <1>5, <2>1 DEF TakeArchive, DropArchive, HistoryInv, Owns
  <1> QED
    BY <1>1, <1>2, <1>3, <1>4, <1>5, NextShape DEF Shape

LEMMA NextArchive ==
  ASSUME NoLeftovers, TypeOK, Owning, [Next]_vars
  PROVE  ArchiveInv'
  <1> USE DEF Owning
  <1>1. CASE Fewer
    BY <1>1 DEF Fewer, ArchiveInv, OwnsArchive, store
  <1>2. ASSUME NEW p \in Procs, Keep(p) \/ TakeHistory(p) \/ DropHistory(p)
        PROVE  ArchiveInv'
    <2>1. \A q \in Procs : pc'[q] \in OwnsArchive => pc[q] \in OwnsArchive /\ plan'[q] = plan[q]
      BY <1>2 DEF Keep, TakeHistory, DropHistory, Local, OwnsHistory, OwnsArchive
    <2> QED
      BY <1>2, <2>1 DEF Keep, TakeHistory, DropHistory, ArchiveInv
  <1>3. ASSUME NEW p \in Procs, TakeArchive(p)
        PROVE  ArchiveInv'
    <2>1. /\ pc'[p] \in OwnsArchive
          /\ \A q \in Procs : plan'[q] = plan[q] /\ (q # p => pc'[q] = pc[q])
      BY <1>3 DEF TakeArchive, Local, OwnsArchive
    <2>2. /\ plan[p].state.task \in Tasks /\ plan[p].cp \in Cps
          /\ completed[plan[p].state.task] = NoArchive
      BY <1>3, OwnerPlans DEF TakeArchive, ArchiveFree, OwnsHistory
    <2>3. \A q \in Procs : pc[q] \in OwnsArchive => plan[q].state.task # plan[p].state.task
      BY <2>2, OwnerPlans DEF ArchiveInv
    <2>4. \A q \in Procs : pc[q] \in OwnsArchive => plan[q].state.task \in Tasks
      BY OwnerPlans DEF OwnsArchive, OwnsHistory
    <2>5. \A t \in Tasks : completed'[t] = IF t = plan[p].state.task THEN plan[p].archive
                                           ELSE completed[t]
      BY <1>3, <2>2, PutEffect DEF TakeArchive
    <2> QED
      BY <2>1, <2>2, <2>3, <2>4, <2>5 DEF ArchiveInv
  <1>4. ASSUME NEW p \in Procs, DropArchive(p)
        PROVE  ArchiveInv'
    <2>1. /\ pc[p] \in OwnsArchive /\ pc'[p] \notin OwnsArchive
          /\ \A q \in Procs : plan'[q] = plan[q] /\ (q # p => pc'[q] = pc[q])
      BY <1>4 DEF DropArchive, Local, OwnsArchive
    <2>2. plan[p].state.task \in Tasks /\ plan[p].cp \in Cps
      BY <2>1, OwnerPlans DEF OwnsArchive, OwnsHistory
    <2>3. \A q \in Procs : pc[q] \in OwnsArchive => plan[q].state.task \in Tasks
      BY OwnerPlans DEF OwnsArchive, OwnsHistory
    <2>4. \A t \in Tasks : t # plan[p].state.task => completed'[t] = completed[t]
      BY <1>4, <2>2, PutEffect DEF DropArchive
    <2>5. \A q \in Procs : pc[q] \in OwnsArchive /\ q # p => plan[q].state.task # plan[p].state.task
      BY <2>1 DEF ArchiveInv
    <2> QED
      BY <2>1, <2>3, <2>4, <2>5 DEF ArchiveInv
  <1> QED
    BY <1>1, <1>2, <1>3, <1>4, NextShape DEF Shape

----------------------------------------------------------------------------
(* References to checkpoints *)

\* What a step does to a reference that was good
LEMMA RefersKept ==
  ASSUME NoLeftovers, TypeOK, Owning, [Next]_vars, NEW s, Refers(s), s.latest # 0,
         s.task \in Tasks, s.latest \in Cps
  PROVE  /\ history'[s.task][s.latest] = history[s.task][s.latest]
         /\ \A q \in Procs : ~(/\ pc'[q] \in OwnsHistory
                               /\ plan'[q].state.task = s.task /\ plan'[q].cp = s.latest)
  <1> USE DEF Owning
  <1>0. history[s.task][s.latest] # NoCheckpoint /\ \A q \in Procs : ~Owns(q, s.task, s.latest)
    BY DEF Refers
  <1>1. CASE Fewer
    BY <1>0, <1>1 DEF Fewer, Owns, OwnsHistory, store
  <1>2. ASSUME NEW p \in Procs, Keep(p) \/ TakeArchive(p) \/ DropArchive(p)
        PROVE  /\ UNCHANGED history
               /\ \A q \in Procs : pc'[q] \in OwnsHistory =>
                     pc[q] \in OwnsHistory /\ plan'[q] = plan[q]
    BY <1>2 DEF Keep, TakeArchive, DropArchive, Local, OwnsHistory
  <1>3. ASSUME NEW p \in Procs, TakeHistory(p)
        PROVE  /\ history'[s.task][s.latest] = history[s.task][s.latest]
               /\ \A q \in Procs : ~(/\ pc'[q] \in OwnsHistory
                                     /\ plan'[q].state.task = s.task /\ plan'[q].cp = s.latest)
    <2>1. \A q \in Procs : plan'[q] = plan[q] /\ (q # p => pc'[q] = pc[q])
      BY <1>3 DEF TakeHistory, Local
    <2>2. /\ plan[p].state.task \in Tasks /\ plan[p].cp \in Cps
          /\ history[plan[p].state.task][plan[p].cp] = NoCheckpoint
      BY <1>3, OwnerPlans DEF TakeHistory, HistoryFree
    <2>3. ~(s.task = plan[p].state.task /\ s.latest = plan[p].cp)
      BY <1>0, <2>2
    <2>4. history'[s.task][s.latest] = history[s.task][s.latest]
      BY <1>3, <2>2, <2>3, PutEffect DEF TakeHistory
    <2> QED
      BY <1>0, <2>1, <2>3, <2>4 DEF Owns
  <1>4. ASSUME NEW p \in Procs, DropHistory(p)
        PROVE  /\ history'[s.task][s.latest] = history[s.task][s.latest]
               /\ \A q \in Procs : ~(/\ pc'[q] \in OwnsHistory
                                     /\ plan'[q].state.task = s.task /\ plan'[q].cp = s.latest)
    <2>1. /\ pc[p] \in OwnsHistory /\ pc'[p] \notin OwnsHistory
          /\ \A q \in Procs : q # p => pc'[q] = pc[q] /\ plan'[q] = plan[q]
      BY <1>4 DEF DropHistory, Local, OwnsHistory
    <2>2. plan[p].state.task \in Tasks /\ plan[p].cp \in Cps
      BY <2>1, OwnerPlans
    <2>3. ~(s.task = plan[p].state.task /\ s.latest = plan[p].cp)
      BY <1>0, <2>1 DEF Owns
    <2>4. history'[s.task][s.latest] = history[s.task][s.latest]
      BY <1>4, <2>2, <2>3, PutEffect DEF DropHistory
    <2> QED
      BY <1>0, <2>1, <2>4 DEF Owns
  <1> QED
    BY <1>0, <1>1, <1>2, <1>3, <1>4, NextShape DEF Shape, Owns

LEMMA NextReference ==
  ASSUME NoLeftovers, TypeOK, Owning, ReferenceInv, [Next]_vars
  PROVE  ReferenceInv'
  <1> USE DEF Owning
  <1>0. ASSUME NEW s \in States, Refers(s), s.task \in Tasks \/ s.latest = 0
        PROVE  /\ s.latest # 0 => /\ history'[s.task][s.latest] # NoCheckpoint
                                  /\ history'[s.task][s.latest].fp = s.latestFp
               /\ s.latest # 0 =>
                     \A q \in Procs : ~(/\ pc'[q] \in OwnsHistory
                                        /\ plan'[q].state.task = s.task /\ plan'[q].cp = s.latest)
    <2> SUFFICES ASSUME s.latest # 0
                 PROVE  /\ history'[s.task][s.latest] # NoCheckpoint
                        /\ history'[s.task][s.latest].fp = s.latestFp
                        /\ \A q \in Procs : ~(/\ pc'[q] \in OwnsHistory
                                              /\ plan'[q].state.task = s.task
                                              /\ plan'[q].cp = s.latest)
      OBVIOUS
    <2>1. s.latest \in Cps
      BY StoreAssumption DEF States, Cps
    <2> QED
      BY <1>0, <2>1, RefersKept DEF Refers
  <1>1. /\ current \in States /\ (current.task \in Tasks \/ current.latest = 0)
        /\ \A p \in Procs : plan[p].state \in States
        /\ \A t : NewState(t).latest = 0
    BY DEF TypeOK, Plans, PlanInv, NoState, NewState
  <1>2. current' = current => Refers(current)'
    BY <1>0, <1>1 DEF Refers, Owns, ReferenceInv
  <1>3. ASSUME NEW p \in Procs, pc[p] = "reportReplace"
        PROVE  plan[p].state.task \in Tasks
    BY <1>3 DEF PlanInv, Prepared, HasTask, Steps
  <1>4. ASSUME NEW p \in Procs, pc[p] = "reportReplace", pc'[p] = pc[p], plan'[p] = plan[p]
        PROVE  Refers(plan[p].state)'
    BY <1>0, <1>1, <1>3, <1>4 DEF Refers, Owns, ReferenceInv
  <1>5. CASE Fewer
    <2>1. \A p \in Procs : pc'[p] = "reportReplace" => pc'[p] = pc[p] /\ plan'[p] = plan[p]
      BY <1>5 DEF Fewer
    <2>2. current' = current
      BY <1>5 DEF Fewer, store
    <2> QED
      BY <1>2, <1>4, <2>1, <2>2 DEF ReferenceInv
  <1>6. ASSUME NEW p \in Procs,
               Start(p) \/ Report(p) \/ Checkpoint(p) \/ Finish(p) \/ PrepareFails(p)
        PROVE  ReferenceInv'
    <2>1. Local(p)
      BY <1>6, StepShape DEF Shape, Keep, TakeHistory, DropHistory, TakeArchive, DropArchive
    <2>2. Refers(current)'
      <3>1. CASE pc[p] = "startCreate" /\ current' = plan[p].state
        BY <1>1, <3>1 DEF PlanInv, Prepared, Refers
      <3>2. CASE pc[p] = "reportReplace" /\ current' = plan[p].state
        BY <1>0, <1>1, <1>3, <3>2 DEF Refers, Owns, ReferenceInv
      <3>3. CASE pc[p] = "cpReplace" /\ current' = plan[p].state /\ Return(p) /\ UNCHANGED history
        <4> DEFINE s == plan[p].state
        <4>1. /\ s.task \in Tasks /\ plan[p].cp = s.latest /\ s.latest \in Cps
              /\ plan[p].checkpoint # NoCheckpoint
              /\ plan[p].checkpoint.fp = s.latestFp
          BY <3>3, OwnerPlans DEF PlanInv, Prepared, Checkpointing, OwnsHistory
        <4>2. /\ history[s.task][s.latest] = plan[p].checkpoint
              /\ \A q \in Procs : Owns(q, s.task, s.latest) => q = p
          BY <3>3, <4>1 DEF HistoryInv, OwnsHistory
        <4>3. pc'[p] = "idle"
          BY <3>3, GotoLocal
        <4>4. ASSUME NEW q \in Procs
              PROVE  ~(/\ pc'[q] \in OwnsHistory
                       /\ plan'[q].state.task = s.task /\ plan'[q].cp = s.latest)
          <5>1. CASE q = p
            BY <4>3, <5>1 DEF OwnsHistory
          <5>2. CASE q # p
            BY <2>1, <4>2, <5>2 DEF Local, Owns
          <5> QED
            BY <5>1, <5>2
        <4> QED
          BY <3>3, <4>1, <4>2, <4>4 DEF Refers, Owns
      <3>4. CASE current' = NoState
        BY <1>1, <3>4 DEF NoState, Refers
      <3> QED
        BY <1>2, <1>6, <3>1, <3>2, <3>3, <3>4, StepCurrent
    <2>3. ASSUME NEW q \in Procs, pc'[q] = "reportReplace"
          PROVE  Refers(plan[q].state)'
      <3>1. CASE q # p
        BY <1>4, <2>1, <2>3, <3>1 DEF Local
      <3>2. CASE q = p
        <4>1. BeginReport(p)
          <5>1. ASSUME NEW step \in Steps \ {"reportReplace"}, NEW prepared,
                       Goto(p, step, prepared) \/ Return(p)
                PROVE  FALSE
            BY <2>3, <3>2, <5>1, GotoLocal
          <5> QED
            BY <1>6, <5>1
               DEF Start, BeginStart, StartList, StartCreate, Report, ReportReplace, Checkpoint,
                   BeginCheckpoint, CheckpointSurvey, CheckpointCreate, CheckpointReplace,
                   CheckpointRollback, Finish, BeginFinish, FinishSource, FinishSurvey, FinishCheck,
                   FinishHistory, FinishArchive, FinishReread, FinishRemove, FinishUnarchive,
                   FinishUnhistory, PrepareFails, Steps
        <4>2. PICK r : Goto(p, "reportReplace", [NoPlan EXCEPT !.state = MergeReport(current, r)])
          BY <4>1 DEF BeginReport
        <4>3. plan'[p].state = MergeReport(current, r)
          BY <4>2, GotoLocal, EmptyTypes DEF Plans
        <4>4. /\ plan'[p].state.task = current.task /\ plan'[p].state.latest = current.latest
              /\ plan'[p].state.latestFp = current.latestFp
          BY <1>1, <4>3, StateTasks
        <4>5. current' = current
          BY <4>1 DEF BeginReport, store
        <4> QED
          BY <1>2, <3>2, <4>4, <4>5 DEF Refers
      <3> QED
        BY <3>1, <3>2
    <2> QED
      BY <2>2, <2>3 DEF ReferenceInv
  <1>7. CASE \E p \in Procs : Crash(p)
    BY <1>5, <1>7 DEF Crash, Fewer
  <1> QED
    BY <1>5, <1>6, <1>7 DEF Next, Fewer, GitChange, vars, store

----------------------------------------------------------------------------
(* Archives and their final checkpoints *)

\* The archive of a task, and the final checkpoint that goes with it
Filed(t) ==
    completed[t] # NoArchive =>
        /\ completed[t].final \in Cps
        /\ history[t][completed[t].final].fp.kind = "final"
        /\ history[t][completed[t].final].fp.rev = completed[t].rev
        /\ history[t][completed[t].final].entries = completed[t].entries
        /\ \A q \in Procs : Owns(q, t, completed[t].final) => pc[q] \in OwnsArchive

LEMMA FiledTasks == FiledInv <=> \A t \in Tasks : Filed(t)
  BY DEF FiledInv, ArchiveHasFinal, Filed

LEMMA NextFiled ==
  ASSUME NoLeftovers, TypeOK, Owning, FiledInv, [Next]_vars
  PROVE  FiledInv'
  <1> USE DEF Owning
  <1> SUFFICES ASSUME NEW t \in Tasks
               PROVE  Filed(t)'
    BY FiledTasks DEF FiledInv, ArchiveHasFinal, Filed
  <1>0. Filed(t) /\ NoCheckpoint.fp.kind = "absent"
    BY FiledTasks DEF NoCheckpoint, NoFingerprint, Fingerprint
  <1>1. CASE Fewer
    BY <1>0, <1>1 DEF Fewer, Filed, Owns, OwnsHistory, store
  <1>2. ASSUME NEW p \in Procs, Keep(p)
        PROVE  Filed(t)'
    <2>1. \A q \in Procs : pc'[q] \in OwnsHistory =>
             /\ pc[q] \in OwnsHistory /\ plan'[q] = plan[q]
             /\ pc'[q] \in OwnsArchive <=> pc[q] \in OwnsArchive
      BY <1>2 DEF Keep, Local
    <2> QED
      BY <1>0, <1>2, <2>1 DEF Keep, Filed, Owns
  <1>3. ASSUME NEW p \in Procs, TakeHistory(p), completed[t] # NoArchive
        PROVE  Filed(t)'
    <2> DEFINE c == completed[t].final
    <2>1. /\ UNCHANGED completed
          /\ \A q \in Procs : plan'[q] = plan[q] /\ (q # p => pc'[q] = pc[q])
      BY <1>3 DEF TakeHistory, Local
    <2>2. /\ plan[p].state.task \in Tasks /\ plan[p].cp \in Cps
          /\ history[plan[p].state.task][plan[p].cp] = NoCheckpoint
      BY <1>3, OwnerPlans DEF TakeHistory, HistoryFree
    <2>3. c \in Cps /\ ~(t = plan[p].state.task /\ c = plan[p].cp)
      BY <1>0, <1>3, <2>2 DEF Filed
    <2>4. history'[t][c] = history[t][c]
      BY <1>3, <2>2, <2>3, PutEffect DEF TakeHistory
    <2> QED
      BY <1>0, <2>1, <2>3, <2>4 DEF Filed, Owns
  <1>4. ASSUME NEW p \in Procs, DropHistory(p), completed[t] # NoArchive
        PROVE  Filed(t)'
    <2> DEFINE c == completed[t].final
    <2>1. /\ UNCHANGED completed
          /\ pc[p] \in OwnsHistory /\ pc[p] \notin OwnsArchive /\ pc'[p] \notin OwnsHistory
          /\ \A q \in Procs : q # p => pc'[q] = pc[q] /\ plan'[q] = plan[q]
      BY <1>4 DEF DropHistory, Local, OwnsHistory, OwnsArchive
    <2>2. plan[p].state.task \in Tasks /\ plan[p].cp \in Cps
      BY <2>1, OwnerPlans
    <2>3. c \in Cps /\ ~(t = plan[p].state.task /\ c = plan[p].cp)
      BY <1>0, <1>4, <2>1 DEF Filed, Owns
    <2>4. history'[t][c] = history[t][c]
      BY <1>4, <2>2, <2>3, PutEffect DEF DropHistory
    <2> QED
      BY <1>0, <2>1, <2>4 DEF Filed, Owns
  <1>5. ASSUME NEW p \in Procs, TakeArchive(p)
        PROVE  Filed(t)'
    <2>1. /\ UNCHANGED history /\ pc'[p] \in OwnsArchive /\ pc[p] \in OwnsHistory
          /\ \A q \in Procs : plan'[q] = plan[q] /\ (q # p => pc'[q] = pc[q])
      BY <1>5 DEF TakeArchive, Local, OwnsArchive, OwnsHistory
    <2>2. plan[p].state.task \in Tasks /\ plan[p].cp \in Cps
      BY <2>1, OwnerPlans
    <2>3. CASE t = plan[p].state.task
      <3>1. completed'[t] = plan[p].archive
        BY <1>5, <2>2, <2>3, PutEffect DEF TakeArchive
      <3>2. /\ plan[p].archive.final = plan[p].cp /\ plan[p].checkpoint.fp.kind = "final"
            /\ plan[p].checkpoint.fp.rev = plan[p].archive.rev
            /\ plan[p].checkpoint.entries = plan[p].archive.entries
        BY <1>5 DEF TakeArchive, PlanInv, Prepared, Finishing
      <3>3. /\ history[t][plan[p].cp] = plan[p].checkpoint
            /\ \A q \in Procs : Owns(q, t, plan[p].cp) => q = p
        BY <2>1, <2>3 DEF HistoryInv
      <3>4. \A q \in Procs : Owns(q, t, plan[p].cp)' => q = p
        BY <2>1, <3>3 DEF Owns
      <3> QED
        BY <2>1, <2>2, <3>1, <3>2, <3>3, <3>4 DEF Filed
    <2>4. CASE t # plan[p].state.task
      <3>1. completed'[t] = completed[t]
        BY <1>5, <2>2, <2>4, PutEffect DEF TakeArchive
      <3> QED
        BY <1>0, <2>1, <3>1 DEF Filed, Owns
    <2> QED
      BY <2>3, <2>4
  <1>6. ASSUME NEW p \in Procs, DropArchive(p)
        PROVE  Filed(t)'
    <2>1. /\ UNCHANGED history /\ pc[p] \in OwnsHistory
          /\ \A q \in Procs : plan'[q] = plan[q] /\ (q # p => pc'[q] = pc[q])
      BY <1>6 DEF DropArchive, Local, OwnsHistory
    <2>2. plan[p].state.task \in Tasks /\ plan[p].cp \in Cps
      BY <2>1, OwnerPlans
    <2>3. completed'[t] = IF t = plan[p].state.task THEN NoArchive ELSE completed[t]
      BY <1>6, <2>2, PutEffect DEF DropArchive
    <2> QED
      BY <1>0, <2>1, <2>3 DEF Filed, Owns
  <1>7. ASSUME completed'[t] = NoArchive
        PROVE  Filed(t)'
    BY <1>7 DEF Filed
  <1> QED
    BY <1>1, <1>2, <1>3, <1>4, <1>5, <1>6, <1>7, NextShape DEF Shape, TakeHistory, DropHistory

----------------------------------------------------------------------------
(* Tasks that are archived for good *)

\* A task is archived for good until it is not spoken of any more.
LEMMA SettledKept ==
  ASSUME NoLeftovers, TypeOK, Owning, [Next]_vars, NEW t \in Tasks, Settled(t)
  PROVE  Settled(t)'
  <1> USE DEF Owning
  <1>1. CASE Fewer
    BY <1>1 DEF Fewer, Settled, OwnsArchive, store
  <1>2. ASSUME NEW p \in Procs, Keep(p) \/ TakeHistory(p) \/ DropHistory(p)
        PROVE  Settled(t)'
    <2>1. \A q \in Procs : pc'[q] \in OwnsArchive => pc[q] \in OwnsArchive /\ plan'[q] = plan[q]
      BY <1>2 DEF Keep, TakeHistory, DropHistory, Local, OwnsHistory, OwnsArchive
    <2> QED
      BY <1>2, <2>1 DEF Keep, TakeHistory, DropHistory, Settled
  <1>3. ASSUME NEW p \in Procs, TakeArchive(p) \/ DropArchive(p)
        PROVE  Settled(t)'
    <2>1. \A q \in Procs : plan'[q] = plan[q] /\ (q # p => pc'[q] = pc[q])
      BY <1>3 DEF TakeArchive, DropArchive, Local
    <2>2. t # plan[p].state.task
      BY <1>3 DEF TakeArchive, DropArchive, ArchiveFree, Settled, OwnsArchive
    <2>3. plan[p].state.task \in Tasks /\ plan[p].cp \in Cps
      BY <1>3, OwnerPlans DEF TakeArchive, DropArchive, OwnsHistory
    <2>4. completed'[t] = completed[t]
      BY <1>3, <2>2, <2>3, PutEffect DEF TakeArchive, DropArchive
    <2> QED
      BY <2>1, <2>2, <2>4 DEF Settled
  <1> QED
    BY <1>1, <1>2, <1>3, NextShape DEF Shape

\* An operation works on the task it worked on before, or on the active one.
LEMMA StepWorksOn ==
  ASSUME NoLeftovers, TypeOK, Owning, NEW p \in Procs,
         Start(p) \/ Report(p) \/ Checkpoint(p) \/ Finish(p) \/ PrepareFails(p),
         pc'[p] \in HasTask
  PROVE  \/ pc[p] \in HasTask /\ plan'[p].state.task = plan[p].state.task
         \/ plan'[p].state.task = current.task
  <1>1. ~Return(p)
    BY GotoLocal DEF HasTask
  <1>2. /\ plan[p] \in Plans /\ plan[p].state \in States /\ NoPlan \in Plans
        /\ current \in States
    BY EmptyTypes DEF TypeOK, Plans
  <1>3. CASE Start(p) \/ PrepareFails(p)
    BY <1>1, <1>3, GotoLocal DEF Start, BeginStart, StartList, StartCreate, PrepareFails, HasTask
  <1>4. CASE BeginReport(p)
    <2>1. PICK r : Goto(p, "reportReplace", [NoPlan EXCEPT !.state = MergeReport(current, r)])
      BY <1>4 DEF BeginReport
    <2>2. plan'[p].state = MergeReport(current, r)
      BY <1>2, <2>1, GotoLocal DEF Plans
    <2> QED
      BY <1>2, <2>2, StateTasks
  <1>5. CASE BeginCheckpoint(p) \/ BeginFinish(p)
    BY <1>2, <1>5, GotoLocal DEF BeginCheckpoint, BeginFinish, Plans
  <1>6. CASE CheckpointSurvey(p)
    <2> DEFINE s == plan[p].state
    <2>1. PICK c \in NewCps(s) :
            Goto(p, "cpCreate", [NoPlan EXCEPT !.state = Checkpointed(s, c), !.cp = c,
                                               !.checkpoint = Assemble(s, "progress")])
      BY <1>1, <1>6 DEF CheckpointSurvey
    <2> DEFINE n == Checkpointed(s, c)
               k == Assemble(s, "progress")
    <2>2. n.task = s.task
      BY <1>2, StateTasks
    <2>3. plan'[p] = [NoPlan EXCEPT !.state = n, !.cp = c, !.checkpoint = k]
      BY <2>1, GotoLocal
    <2>4. pc[p] \in HasTask
      BY <1>6 DEF CheckpointSurvey, HasTask, Steps
    <2> HIDE DEF n, k
    <2>5. plan'[p].state = n
      BY <1>2, <2>3 DEF Plans
    <2> QED
      BY <2>2, <2>4, <2>5
  <1>7. CASE FinishSource(p)
    <2>1. plan'[p] = [plan[p] EXCEPT !.source = current] /\ pc[p] = "finSource"
      BY <1>1, <1>7, GotoLocal DEF FinishSource
    <2> QED
      BY <1>2, <2>1 DEF Plans, HasTask, Steps
  <1>8. CASE FinishSurvey(p)
    <2> DEFINE s == plan[p].state
    <2>1. PICK c \in NewCps(s), r \in FinalReports, resolved \in SUBSET Work :
            LET f == Resolved(s, r, resolved)
            IN  Goto(p, "finCheck",
                     [state |-> f, source |-> plan[p].source, cp |-> c,
                      checkpoint |-> Assemble(f, "final"),
                      archive |-> [final |-> c, entries |-> f.entries, rev |-> f.rev]])
      BY <1>1, <1>8 DEF FinishSurvey
    <2> DEFINE f == Resolved(s, r, resolved)
    <2>2. plan'[p].state = f
      BY <2>1, GotoLocal
    <2>3. pc[p] \in HasTask
      BY <1>8 DEF FinishSurvey, HasTask, Steps
    <2> QED
      BY <1>2, <2>2, <2>3, StateTasks
  <1>9. CASE \/ ReportReplace(p) \/ CheckpointCreate(p) \/ CheckpointReplace(p)
             \/ CheckpointRollback(p)
    BY <1>1, <1>9, GotoLocal
       DEF ReportReplace, CheckpointCreate, CheckpointReplace, CheckpointRollback, HasTask, Steps
  <1>10. CASE FinishCheck(p) \/ FinishHistory(p) \/ FinishArchive(p)
    BY <1>1, <1>10, GotoLocal DEF FinishCheck, FinishHistory, FinishArchive, HasTask, Steps
  <1>11. CASE FinishReread(p) \/ FinishRemove(p) \/ FinishUnarchive(p) \/ FinishUnhistory(p)
    BY <1>1, <1>11, GotoLocal
       DEF FinishReread, FinishRemove, FinishUnarchive, FinishUnhistory, HasTask, Steps
  <1> QED
    BY <1>3, <1>4, <1>5, <1>6, <1>7, <1>8, <1>9, <1>10, <1>11 DEF Report, Checkpoint, Finish

\* Nobody begins to archive, or to work on, a task other than the last one
\* unless that task is archived for good.
LEMMA WorkKept ==
  ASSUME NoLeftovers, TypeOK, Owning, [Next]_vars, NEW p \in Procs,
         Start(p) \/ Report(p) \/ Checkpoint(p) \/ Finish(p) \/ PrepareFails(p),
         NEW last \in 0..MaxTask, SettledBut(last)
  PROVE  /\ \A q \in Procs : pc'[q] \in OwnsArchive => plan'[q].state.task = last
         /\ \A q \in Procs, t \in Tasks : WorksOn(q, t)' => t = last \/ Settled(t)'
  <1> USE DEF Owning
  <1>1. Shape(p) /\ Local(p)
    BY StepShape DEF Shape, Keep, TakeHistory, DropHistory, TakeArchive, DropArchive
  <1>2. ASSUME NEW q \in Procs, NEW t \in Tasks, WorksOn(q, t)'
        PROVE  t = last \/ Settled(t)'
    <2>1. WorksOn(q, t) \/ current.task = t
      BY <1>1, <1>2, StepWorksOn DEF WorksOn, Local
    <2> QED
      BY <2>1, SettledKept DEF SettledBut
  <1>3. ASSUME NEW q \in Procs, pc'[q] \in OwnsArchive
        PROVE  plan'[q].state.task = last
    <2>1. CASE pc[q] \in OwnsArchive /\ plan'[q] = plan[q]
      BY <2>1 DEF SettledBut
    <2>2. CASE q = p /\ TakeArchive(p)
      <3> DEFINE t == plan[p].state.task
      <3>1. t \in Tasks /\ WorksOn(p, t) /\ plan'[p] = plan[p]
        BY <2>2 DEF TakeArchive, PlanInv, Prepared, HasTask, Steps, WorksOn
      <3>2. ~Settled(t)
        BY <2>2 DEF TakeArchive, ArchiveFree, Settled
      <3> QED
        BY <2>2, <3>1, <3>2 DEF SettledBut
    <2>3. (pc[q] \in OwnsArchive /\ plan'[q] = plan[q]) \/ (q = p /\ TakeArchive(p))
      <3>1. CASE q # p
        BY <1>1, <1>3, <3>1 DEF Local
      <3>2. CASE q = p
        BY <1>1, <1>3, <3>2
           DEF Shape, Keep, TakeHistory, DropHistory, DropArchive, OwnsArchive, OwnsHistory
      <3> QED
        BY <3>1, <3>2
    <2> QED
      BY <2>1, <2>2, <2>3
  <1> QED
    BY <1>2, <1>3

LEMMA NextTasks ==
  ASSUME NoLeftovers, TypeOK, Owning, TasksInv, [Next]_vars
  PROVE  TasksInv'
  <1> USE DEF Owning
  <1>1. PICK last \in 0..MaxTask : SettledBut(last)
    BY DEF TasksInv
  <1>2. last # 0 => last \in Tasks
    BY StoreAssumption DEF Tasks
  <1>3. CASE Fewer
    <2>1. \A q \in Procs : /\ pc'[q] \in OwnsArchive => pc[q] \in OwnsArchive /\ plan'[q] = plan[q]
                          /\ \A t \in Tasks : WorksOn(q, t)' => WorksOn(q, t)
      BY <1>3 DEF Fewer, OwnsArchive, WorksOn, HasTask
    <2>2. SettledBut(last)'
      BY <1>1, <1>2, <1>3, <2>1, SettledKept DEF Fewer, store, SettledBut
    <2> QED
      BY <2>2 DEF TasksInv
  <1>4. ASSUME NEW p \in Procs,
               Start(p) \/ Report(p) \/ Checkpoint(p) \/ Finish(p) \/ PrepareFails(p)
        PROVE  TasksInv'
    <2>1. /\ \A q \in Procs : pc'[q] \in OwnsArchive => plan'[q].state.task = last
          /\ \A q \in Procs, t \in Tasks : WorksOn(q, t)' => t = last \/ Settled(t)'
      BY <1>1, <1>4, WorkKept
    <2>2. CASE UNCHANGED current
      <3>1. SettledBut(last)'
        BY <1>1, <1>2, <2>1, <2>2, SettledKept DEF SettledBut
      <3> QED
        BY <3>1 DEF TasksInv
    <2>3. CASE pc[p] = "startCreate" /\ current' = plan[p].state /\ current = NoState
      <3>1. PICK t \in Tasks : plan[p].state = NewState(t)
        BY <2>3 DEF PlanInv, Prepared
      <3>2. current'.task = t /\ current' # NoState /\ t \in 0..MaxTask
        BY <2>3, <3>1 DEF NewState, NoState, Tasks
      <3>3. last = 0 \/ Settled(last)'
        BY <1>1, <1>2, <2>3, SettledKept DEF SettledBut
      <3>4. \A q \in Procs : pc'[q] \notin OwnsArchive
        <4>1. PlanInv'
          BY NextPlan
        <4>2. \A q \in Procs : pc'[q] \in OwnsArchive => plan'[q].state.task \in Tasks
          BY <4>1 DEF PlanInv, Prepared, OwnsArchive, HasTask, Steps
        <4>3. 0 \notin Tasks
          BY DEF Tasks
        <4> QED
          BY <2>1, <3>3, <4>2, <4>3 DEF Settled
      <3>5. SettledBut(t)'
        <4>1. 0 \notin Tasks
          BY DEF Tasks
        <4> QED
          BY <2>1, <3>2, <3>3, <3>4, <4>1 DEF SettledBut
      <3> QED
        BY <3>2, <3>5 DEF TasksInv
    <2>4. CASE pc[p] \in {"reportReplace", "cpReplace"} /\ current' = plan[p].state
      <3>1. \A t \in Tasks : current'.task = t => t = last \/ Settled(t)'
        <4>1. \A t \in Tasks : current'.task = t => WorksOn(p, t)
          BY <2>4 DEF WorksOn, HasTask, Steps
        <4> QED
          BY <1>1, <4>1, SettledKept DEF SettledBut
      <3>2. current' # NoState
        BY <2>4 DEF PlanInv, Prepared, HasTask, Steps, Tasks, NoState, NewState
      <3>3. SettledBut(last)'
        BY <2>1, <3>1, <3>2 DEF SettledBut
      <3> QED
        BY <3>3 DEF TasksInv
    <2>5. CASE pc[p] = "finRemove" /\ Return(p) /\ current' = NoState /\ UNCHANGED completed
      <3>1. pc[p] \in OwnsArchive /\ plan[p].state.task = last
        BY <1>1, <2>5 DEF OwnsArchive, SettledBut
      <3>2. /\ completed[last] # NoArchive
            /\ \A q \in Procs : pc[q] \in OwnsArchive /\ plan[q].state.task = last => q = p
        BY <3>1, OwnerPlans DEF ArchiveInv
      <3>3. pc'[p] = "idle" /\ \A q \in Procs : q # p => pc'[q] = pc[q] /\ plan'[q] = plan[q]
        BY <2>5, GotoLocal DEF Local
      <3>4. Settled(last)'
        BY <2>5, <3>2, <3>3 DEF Settled, OwnsArchive
      <3>5. \A t \in Tasks : current'.task # t
        BY <2>5 DEF NoState, NewState, Tasks
      <3>6. SettledBut(last)'
        BY <2>1, <3>4, <3>5 DEF SettledBut
      <3> QED
        BY <3>6 DEF TasksInv
    <2> QED
      BY <1>4, <2>2, <2>3, <2>4, <2>5, StepCurrent
  <1>5. CASE \E p \in Procs : Crash(p)
    BY <1>3, <1>5 DEF Crash, Fewer
  <1>6. CASE GitChange \/ UNCHANGED vars
    BY <1>3, <1>6 DEF GitChange, Fewer, vars, store
  <1> QED
    BY <1>4, <1>5, <1>6 DEF Next

----------------------------------------------------------------------------
(* The theorems *)

FilesInv == TypeOK /\ Owning /\ ReferenceInv /\ FiledInv /\ TasksInv

LEMMA InitFiles ==
  ASSUME Init
  PROVE  FilesInv
  <1>1. TypeOK
    BY InitType
  <1>2. \A p \in Procs : pc[p] = "idle" /\ plan[p] = NoPlan
    BY DEF Init
  <1>3. PlanInv
    BY <1>2 DEF Init, PlanInv, Prepared, HasTask, Checkpointing, Finishing
  <1>4. Owning
    BY <1>2, <1>3 DEF Owning, HistoryInv, ArchiveInv, OwnsHistory, OwnsArchive
  <1>5. ReferenceInv
    BY <1>2 DEF Init, ReferenceInv, Refers, NoState, NewState
  <1>6. FiledInv
    BY DEF Init, FiledInv, ArchiveHasFinal
  <1>7. SettledBut(0)
    BY <1>2 DEF Init, SettledBut, WorksOn, HasTask, OwnsArchive, NoState, NewState, Tasks
  <1>8. TasksInv
    BY <1>7, StoreAssumption DEF TasksInv
  <1> QED
    BY <1>1, <1>4, <1>5, <1>6, <1>8 DEF FilesInv

\* Without leftovers, every file has the owner or the reference that the
\* invariant gives it, whatever runs unsynchronised and whatever crashes.
THEOREM FilesInvariant == ASSUME NoLeftovers PROVE Spec => []FilesInv
  <1>1. ASSUME FilesInv, [Next]_vars
        PROVE  FilesInv'
    BY <1>1, NextType, NextPlan, NextHistory, NextArchive, NextReference, NextFiled, NextTasks
       DEF FilesInv, Owning
  <1> QED
    BY InitFiles, <1>1, PTL DEF Spec

\* Resume never meets a dangling or a foreign checkpoint reference.
THEOREM LatestResumableHolds == ASSUME NoLeftovers PROVE Spec => []LatestResumable
  <1>1. FilesInv => LatestResumable
    BY DEF FilesInv, Owning, PlanInv, ReferenceInv, Refers, LatestResumable, NoState, NewState
  <1> QED
    BY FilesInvariant, <1>1, PTL

\* An archive stands next to its final checkpoint, with the same conclusions,
\* at every instant of every finish and of every rollback.
THEOREM ArchiveHasFinalHolds == ASSUME NoLeftovers PROVE Spec => []ArchiveHasFinal
  <1>1. FilesInv => ArchiveHasFinal
    BY DEF FilesInv, FiledInv
  <1> QED
    BY FilesInvariant, <1>1, PTL

\* What a step may do to one checkpoint file
Immutable(t, c) ==
    (history[t][c] # NoCheckpoint /\ history'[t][c] # history[t][c]) =>
        /\ history'[t][c] = NoCheckpoint
        /\ ~(current.task = t /\ current.latest = c)
        /\ completed[t].final # c

\* A checkpoint file is never rewritten, and never removed once the active
\* state or an archive refers to it.
THEOREM HistoryImmutableHolds == ASSUME NoLeftovers PROVE Spec => HistoryImmutable
  <1>1. ASSUME FilesInv, [Next]_vars, NEW t \in Tasks, NEW c \in Cps
        PROVE  Immutable(t, c)
    <2> USE DEF FilesInv, Owning
    <2>1. CASE Fewer \/ \E p \in Procs : Keep(p) \/ TakeArchive(p) \/ DropArchive(p)
      BY <1>1, <2>1 DEF Fewer, Keep, TakeArchive, DropArchive, Immutable, store
    <2>2. ASSUME NEW p \in Procs, TakeHistory(p)
          PROVE  Immutable(t, c)
      <3>1. plan[p].state.task \in Tasks /\ plan[p].cp \in Cps
        BY <1>1, <2>2, OwnerPlans DEF TakeHistory
      <3> QED
        BY <1>1, <2>2, <3>1, PutEffect DEF TakeHistory, HistoryFree, Immutable
    <2>3. ASSUME NEW p \in Procs, DropHistory(p)
          PROVE  Immutable(t, c)
      <3>1. pc[p] \in OwnsHistory \ OwnsArchive
        BY <2>3 DEF DropHistory, OwnsHistory, OwnsArchive
      <3>2. plan[p].state.task \in Tasks /\ plan[p].cp \in Cps
        BY <1>1, <3>1, OwnerPlans
      <3>3. history'[t][c] = IF Owns(p, t, c) THEN NoCheckpoint ELSE history[t][c]
        BY <1>1, <2>3, <3>1, <3>2, PutEffect DEF DropHistory, Owns
      <3>4. ASSUME Owns(p, t, c), current.latest = c
            PROVE  current.task # t
        BY <1>1, <3>4 DEF ReferenceInv, Refers, Cps
      <3>5. ASSUME Owns(p, t, c)
            PROVE  completed[t].final # c
        <4>1. NoArchive.final # c
          BY <1>1 DEF NoArchive, Cps
        <4> QED
          BY <1>1, <3>1, <3>5, <4>1 DEF FiledInv
      <3> QED
        BY <3>3, <3>4, <3>5 DEF Immutable
    <2> QED
      BY <1>1, <2>1, <2>2, <2>3, NextShape DEF Shape
  <1>2. FilesInv /\ [Next]_vars => [\A t \in Tasks, c \in Cps : Immutable(t, c)]_vars
    BY <1>1
  <1>3. [][\A t \in Tasks, c \in Cps : Immutable(t, c)]_vars => HistoryImmutable
    <2>1. (\A t \in Tasks, c \in Cps : Immutable(t, c)) =>
             \A t \in Tasks, c \in Cps :
               (history[t][c] # NoCheckpoint /\ history'[t][c] # history[t][c]) =>
                   /\ history'[t][c] = NoCheckpoint
                   /\ ~(current.task = t /\ current.latest = c)
                   /\ completed[t].final # c
      BY DEF Immutable
    <2> QED
      BY <2>1, PTL DEF HistoryImmutable
  <1> QED
    BY FilesInvariant, <1>2, <1>3, PTL DEF Spec

\* What the removal of current.md requires
Archived == completed[current.task] # NoArchive /\ HasFinal(current.task)

\* current.md disappears only when the task in it is archived, even when it
\* is not the task whose finish removes it.
THEOREM RemovedOnlyWhenArchivedHolds ==
    ASSUME NoLeftovers PROVE Spec => RemovedOnlyWhenArchived
  <1>1. ASSUME FilesInv, [Next]_vars, current # NoState, current' = NoState
        PROVE  Archived
    <2> USE DEF FilesInv, Owning
    <2>1. PICK p \in Procs : pc[p] = "finRemove"
      <3>1. PICK p \in Procs :
              Start(p) \/ Report(p) \/ Checkpoint(p) \/ Finish(p) \/ PrepareFails(p)
        BY <1>1 DEF Next, Crash, GitChange, store, vars
      <3>2. ASSUME pc[p] \in {"startCreate", "reportReplace", "cpReplace"}
            PROVE  plan[p].state # NoState
        <4>1. \A t \in Tasks : NewState(t) # NoState
          BY DEF NewState, NoState, Tasks
        <4>2. plan[p].state.task \in Tasks => plan[p].state # NoState
          BY DEF NoState, NewState, Tasks
        <4> QED
          BY <1>1, <3>2, <4>1, <4>2 DEF PlanInv, Prepared, HasTask, Steps
      <3> QED
        BY <1>1, <3>1, <3>2, StepCurrent
    <2>2. PICK last \in 0..MaxTask : SettledBut(last)
      BY <1>1 DEF TasksInv
    <2>3. current.task \in Tasks /\ (current.task = last \/ Settled(current.task))
      BY <1>1, <2>2 DEF PlanInv, SettledBut
    <2>4. completed[last] = plan[p].archive /\ plan[p].archive # NoArchive
      BY <1>1, <2>1, <2>2, OwnerPlans DEF SettledBut, ArchiveInv, OwnsArchive
    <2>5. completed[current.task] # NoArchive
      BY <2>3, <2>4 DEF Settled
    <2>6. HasFinal(current.task)
      <3>1. NoCheckpoint.fp.kind = "absent"
        BY DEF NoCheckpoint, NoFingerprint, Fingerprint
      <3> QED
        BY <1>1, <2>3, <2>5, <3>1 DEF FiledInv, ArchiveHasFinal, HasFinal, CpsOf
    <2> QED
      BY <2>5, <2>6 DEF Archived
  <1>2. FilesInv /\ [Next]_vars => [(current # NoState /\ current' = NoState) => Archived]_vars
    BY <1>1
  <1>3. [][(current # NoState /\ current' = NoState) => Archived]_vars => RemovedOnlyWhenArchived
    BY PTL DEF RemovedOnlyWhenArchived, Archived
  <1> QED
    BY FilesInvariant, <1>2, <1>3, PTL DEF Spec

----------------------------------------------------------------------------
(* Freshness *)

\* A state that is not newer than its latest checkpoint has the same conclusions.
Sound(s) ==
    /\ s.latestRev <= s.rev
    /\ s.rev = s.latestRev /\ s.rev # 0 =>
          s.latest # 0 /\ history[s.task][s.latest].entries = s.entries

SoundInv ==
    /\ Sound(current)
    /\ \A p \in Procs :
          /\ pc[p] \in {"reportReplace", "cpSurvey"} => Sound(plan[p].state)
          /\ pc[p] = "cpSurvey" => Refers(plan[p].state)
          /\ pc[p] \in {"cpCreate", "cpReplace"} =>
                /\ plan[p].state.latestRev = plan[p].state.rev
                /\ plan[p].checkpoint.entries = plan[p].state.entries

\* A reported state is newer than its latest checkpoint, or unchanged.
LEMMA MergeSound ==
  ASSUME NEW s \in States, NEW r \in SUBSET Entries, Sound(s)
  PROVE  Sound(MergeReport(s, r))
  <1>1. /\ s.rev \in Nat /\ s.latestRev \in Nat
        /\ MergeReport(s, r).task = s.task /\ MergeReport(s, r).latest = s.latest
        /\ MergeReport(s, r).latestRev = s.latestRev
        /\ MergeReport(s, r).entries = s.entries \cup r
        /\ MergeReport(s, r).rev = IF r \subseteq s.entries THEN s.rev ELSE s.rev + 1
    BY DEF MergeReport, States
  <1>2. CASE r \subseteq s.entries
    <2>1. s.entries \cup r = s.entries
      BY <1>2
    <2> QED
      BY <1>1, <1>2, <2>1 DEF Sound
  <1>3. CASE ~(r \subseteq s.entries)
    <2>1. MergeReport(s, r).rev = s.rev + 1
      BY <1>1, <1>3
    <2>2. s.latestRev <= s.rev
      BY DEF Sound
    <2>3. s.latestRev <= s.rev + 1 /\ s.rev + 1 # s.latestRev
      BY <1>1, <2>2
    <2> HIDE DEF Sound
    <2> QED
      BY <1>1, <2>1, <2>3 DEF Sound
  <1> QED
    BY <1>2, <1>3

\* The latest checkpoint of a copy of the state stays as it is.
LEMMA SoundKept ==
  ASSUME NoLeftovers, TypeOK, Owning, [Next]_vars, NEW s \in States,
         s.task \in Tasks \/ s.latest = 0, Refers(s)
  PROVE  /\ s.latest # 0 => history'[s.task][s.latest] = history[s.task][s.latest]
         /\ s.latest # 0 => \A q \in Procs : ~(/\ pc'[q] \in OwnsHistory
                                               /\ plan'[q].state.task = s.task
                                               /\ plan'[q].cp = s.latest)
  <1>1. s.latest # 0 => s.latest \in Cps
    BY StoreAssumption DEF States, Cps
  <1> QED
    BY <1>1, RefersKept

\* What a step prepares
LEMMA StepStates ==
  ASSUME TypeOK, NEW p \in Procs,
         Start(p) \/ Report(p) \/ Checkpoint(p) \/ Finish(p) \/ PrepareFails(p)
  PROVE  /\ pc'[p] = "reportReplace" => \E r \in Reports : plan'[p].state = MergeReport(current, r)
         /\ pc'[p] = "reportReplace" => UNCHANGED store
         /\ pc'[p] = "cpSurvey" => plan'[p].state = current /\ UNCHANGED store
         /\ pc'[p] = "cpCreate" => \E c \in NewCps(plan[p].state) :
               /\ pc[p] = "cpSurvey" /\ UNCHANGED store
               /\ plan'[p].state = Checkpointed(plan[p].state, c)
               /\ plan'[p].cp = c
               /\ plan'[p].checkpoint = Assemble(plan[p].state, "progress")
         /\ pc'[p] = "cpReplace" => /\ pc[p] = "cpCreate" /\ plan'[p] = plan[p]
                                    /\ HistoryFree(p) /\ PutHistory(p, plan[p].checkpoint)
                                    /\ UNCHANGED <<current, completed>>
         /\ pc'[p] = "cpRollback" => pc[p] = "cpReplace" /\ plan'[p] = plan[p]
  <1>0. plan[p] \in Plans /\ NoPlan \in Plans
    BY EmptyTypes DEF TypeOK
  <1>1. CASE BeginReport(p)
    BY <1>0, <1>1, GotoLocal DEF BeginReport, Plans, store
  <1>2. CASE BeginCheckpoint(p)
    BY <1>0, <1>2, GotoLocal DEF BeginCheckpoint, Plans, store
  <1>3. CASE CheckpointSurvey(p)
    <2> DEFINE s == plan[p].state
    <2>1. CASE Return(p)
      BY <2>1, GotoLocal
    <2>2. CASE ~Return(p)
      <3>1. PICK c \in NewCps(s) :
              Goto(p, "cpCreate", [NoPlan EXCEPT !.state = Checkpointed(s, c), !.cp = c,
                                                 !.checkpoint = Assemble(s, "progress")])
        BY <1>3, <2>2 DEF CheckpointSurvey
      <3> DEFINE n == Checkpointed(s, c)
                 k == Assemble(s, "progress")
      <3>2. /\ pc'[p] = "cpCreate"
            /\ plan'[p] = [NoPlan EXCEPT !.state = n, !.cp = c, !.checkpoint = k]
        BY <3>1, GotoLocal
      <3> HIDE DEF n, k
      <3>3. plan'[p].state = n /\ plan'[p].cp = c /\ plan'[p].checkpoint = k
        BY <1>0, <3>2 DEF Plans
      <3> QED
        BY <1>3, <3>2, <3>3 DEF n, k, CheckpointSurvey
    <2> QED
      BY <2>1, <2>2
  <1>4. CASE CheckpointCreate(p) \/ CheckpointReplace(p)
    BY <1>4, GotoLocal DEF CheckpointCreate, CheckpointReplace
  <1>5. ASSUME NEW step \in Steps \ {"reportReplace", "cpSurvey", "cpCreate", "cpReplace",
                                    "cpRollback"},
               NEW prepared, Goto(p, step, prepared) \/ Return(p)
        PROVE  pc'[p] \notin {"reportReplace", "cpSurvey", "cpCreate", "cpReplace", "cpRollback"}
    BY <1>5, GotoLocal
  <1>6. CASE Start(p) \/ ReportReplace(p) \/ CheckpointRollback(p) \/ PrepareFails(p)
    BY <1>5, <1>6 DEF Start, BeginStart, StartList, StartCreate, ReportReplace,
                      CheckpointRollback, PrepareFails, Steps
  <1>7. CASE Finish(p)
    BY <1>5, <1>7
       DEF Finish, BeginFinish, FinishSource, FinishSurvey, FinishCheck, FinishHistory,
           FinishArchive, FinishReread, FinishRemove, FinishUnarchive, FinishUnhistory, Steps
  <1> QED
    BY <1>1, <1>2, <1>3, <1>4, <1>6, <1>7 DEF Report, Checkpoint
\* What a step leaves in current.md
LEMMA NextSound ==
  ASSUME NoLeftovers, FilesInv, SoundInv, [Next]_vars
  PROVE  SoundInv'
  <1> USE DEF FilesInv, Owning
  <1>0. /\ current \in States /\ (current.task \in Tasks \/ current.latest = 0)
        /\ Refers(current)
        /\ \A p \in Procs : /\ plan[p].state \in States
                            /\ pc[p] \in {"reportReplace", "cpSurvey"} => Refers(plan[p].state)
                            /\ pc[p] \in HasTask => plan[p].state.task \in Tasks
    BY DEF TypeOK, Plans, PlanInv, Prepared, NoState, NewState, ReferenceInv, SoundInv
  <1>1. Sound(current) /\ (\A s : s = current' => Sound(s)' <=> Sound(current)')
    BY DEF SoundInv
  <1>2. ASSUME NEW s \in States, s.task \in Tasks \/ s.latest = 0, Refers(s), Sound(s),
               NEW t, t = s
        PROVE  /\ t.latestRev <= t.rev
               /\ t.rev = t.latestRev /\ t.rev # 0 =>
                     t.latest # 0 /\ history'[t.task][t.latest].entries = t.entries
    BY <1>2, SoundKept DEF Sound
  <1>3. current' = current => Sound(current)'
    BY <1>0, <1>1, <1>2 DEF Sound
  <1>4. ASSUME NEW q \in Procs, pc'[q] = pc[q], plan'[q] = plan[q]
        PROVE  /\ pc'[q] \in {"reportReplace", "cpSurvey"} => Sound(plan[q].state)'
               /\ pc'[q] = "cpSurvey" => Refers(plan[q].state)'
               /\ pc'[q] \in {"cpCreate", "cpReplace"} =>
                     /\ plan'[q].state.latestRev = plan'[q].state.rev
                     /\ plan'[q].checkpoint.entries = plan'[q].state.entries
    <2>1. CASE pc[q] \in {"reportReplace", "cpSurvey"}
      <3>1. /\ Refers(plan[q].state) /\ Sound(plan[q].state)
            /\ plan[q].state \in States /\ plan[q].state.task \in Tasks
        BY <1>0, <2>1 DEF SoundInv, HasTask, Steps
      <3>2. Sound(plan[q].state)'
        BY <1>2, <1>4, <3>1 DEF Sound
      <3>3. Refers(plan[q].state)'
        BY <1>4, <3>1, SoundKept DEF Refers, Owns
      <3> QED
        BY <1>4, <2>1, <3>2, <3>3
    <2> QED
      BY <1>4, <2>1 DEF SoundInv
  <1>5. CASE Fewer
    <2>1. current' = current
      BY <1>5 DEF Fewer, store
    <2>2. ASSUME NEW q \in Procs, pc'[q] # "idle"
          PROVE  pc'[q] = pc[q] /\ plan'[q] = plan[q]
      BY <1>5, <2>2 DEF Fewer
    <2> QED
      BY <1>3, <1>4, <2>1, <2>2 DEF SoundInv
  <1>6. ASSUME NEW p \in Procs,
               Start(p) \/ Report(p) \/ Checkpoint(p) \/ Finish(p) \/ PrepareFails(p)
        PROVE  SoundInv'
    <2>1. Local(p)
      BY <1>6, StepShape DEF Shape, Keep, TakeHistory, DropHistory, TakeArchive, DropArchive
    <2>2. Sound(current)'
      <3>1. ASSUME NEW t, current' = NewState(t)
            PROVE  Sound(current)'
        BY <3>1 DEF NewState, Sound
      <3>2. CASE pc[p] = "startCreate" /\ current' = plan[p].state
        BY <3>1, <3>2 DEF PlanInv, Prepared
      <3>3. CASE pc[p] = "reportReplace" /\ current' = plan[p].state
        <4>1. plan[p].state \in States /\ plan[p].state.task \in Tasks
              /\ Refers(plan[p].state) /\ Sound(plan[p].state)
          BY <1>0, <3>3 DEF SoundInv, HasTask, Steps
        <4> QED
          BY <1>2, <3>3, <4>1 DEF Sound
      <3>4. CASE pc[p] = "cpReplace" /\ current' = plan[p].state /\ UNCHANGED history
        <4> DEFINE s == plan[p].state
        <4>1. /\ s.latest = plan[p].cp /\ plan[p].cp \in Cps
              /\ history[s.task][s.latest] = plan[p].checkpoint
              /\ plan[p].checkpoint.entries = s.entries /\ s.latestRev = s.rev
          BY <3>4, OwnerPlans DEF PlanInv, Prepared, Checkpointing, HistoryInv, OwnsHistory, SoundInv
        <4>2. s.rev \in Nat /\ s.latest # 0
          BY <1>0, <4>1 DEF States, Cps
        <4> QED
          BY <3>4, <4>1, <4>2 DEF Sound
      <3> QED
        BY <1>3, <1>6, <3>1, <3>2, <3>3, <3>4, StepCurrent DEF NoState
    <2>3. ASSUME NEW q \in Procs
          PROVE  /\ pc'[q] \in {"reportReplace", "cpSurvey"} => Sound(plan[q].state)'
                 /\ pc'[q] = "cpSurvey" => Refers(plan[q].state)'
                 /\ pc'[q] \in {"cpCreate", "cpReplace"} =>
                       /\ plan'[q].state.latestRev = plan'[q].state.rev
                       /\ plan'[q].checkpoint.entries = plan'[q].state.entries
      <3>1. CASE q # p
        BY <1>4, <2>1, <3>1 DEF Local
      <3>2. CASE q = p /\ pc'[p] = "reportReplace"
        <4>1. PICK r \in Reports : plan'[p].state = MergeReport(current, r)
          BY <1>6, <3>2, StepStates
        <4>2. UNCHANGED <<history, current>>
          BY <1>6, <3>2, StepStates DEF store
        <4>3. Sound(MergeReport(current, r))
          BY <1>0, <1>1, MergeSound, StoreAssumption
        <4> HIDE DEF FilesInv, Owning
        <4> QED
          BY <3>2, <4>1, <4>2, <4>3 DEF Sound
      <3>3. CASE q = p /\ pc'[p] = "cpSurvey"
        <4>1. plan'[p].state = current
          BY <1>6, <3>3, StepStates
        <4>2. Sound(plan[p].state)'
          BY <1>0, <1>1, <1>2, <4>1 DEF Sound
        <4>3. Refers(plan[p].state)'
          BY <1>0, <4>1, SoundKept DEF Refers, Owns
        <4> QED
          BY <3>3, <4>2, <4>3
      <3>4. CASE q = p /\ pc'[p] = "cpCreate"
        <4> DEFINE s == plan[p].state
        <4>1. PICK c \in NewCps(s) :
                /\ plan'[p].state = Checkpointed(s, c)
                /\ plan'[p].checkpoint = Assemble(s, "progress")
          BY <1>6, <3>4, StepStates
        <4>2. s \in States
          BY <1>0
        <4>3. /\ Checkpointed(s, c).latestRev = s.rev /\ Checkpointed(s, c).rev = s.rev
              /\ Checkpointed(s, c).entries = s.entries
          BY <4>2 DEF Checkpointed, States
        <4>4. Assemble(s, "progress").entries = s.entries
          BY DEF Assemble
        <4> QED
          BY <3>4, <4>1, <4>3, <4>4
      <3>5. CASE q = p /\ pc'[p] = "cpReplace"
        <4>1. pc[p] = "cpCreate" /\ plan'[p] = plan[p]
          BY <1>6, <3>5, StepStates
        <4> QED
          BY <3>5, <4>1 DEF SoundInv
      <3> QED
        BY <3>1, <3>2, <3>3, <3>4, <3>5
    <2> QED
      BY <2>2, <2>3 DEF SoundInv
  <1>7. CASE \E p \in Procs : Crash(p)
    BY <1>5, <1>7 DEF Crash, Fewer
  <1> QED
    BY <1>5, <1>6, <1>7 DEF Next, Fewer, GitChange, vars, store

\* A checkpoint that is labelled reused, or suppressed as a duplicate, hides nothing, whatever
\* runs unsynchronised and however old the state that a checkpoint was prepared from.
THEOREM ReusedMeansUnchangedHolds == ASSUME NoLeftovers PROVE Spec => []ReusedMeansUnchanged
  <1>1. FilesInv /\ SoundInv => ReusedMeansUnchanged
    <2> SUFFICES ASSUME FilesInv, SoundInv,
                        NEW s \in {current} \cup
                               {plan[p].state : p \in {q \in Procs : pc[q] = "cpSurvey"}},
                        Freshness(s) = "reused"
                 PROVE  history[s.task][s.latest].entries = s.entries
      BY DEF ReusedMeansUnchanged
    <2>1. Sound(s) /\ s \in States
      BY DEF FilesInv, TypeOK, Plans, SoundInv
    <2>2. s.rev # 0 /\ ~(s.rev > s.latestRev) /\ s.rev \in Nat /\ s.latestRev \in Nat
      BY <2>1 DEF Freshness, States
    <2>3. s.rev = s.latestRev
      BY <2>1, <2>2 DEF Sound
    <2> QED
      BY <2>1, <2>2, <2>3 DEF Sound
  <1>2. Init => SoundInv
    BY DEF Init, SoundInv, Sound, NoState, NewState
  <1>3. FilesInv /\ SoundInv /\ [Next]_vars => SoundInv'
    BY NextSound
  <1> QED
    BY FilesInvariant, <1>1, <1>2, <1>3, PTL DEF Spec
----------------------------------------------------------------------------
(* Operations of one queue *)

OneQueue == Serialized = Procs

\* No two operations are under way.
Alone == \A p, q \in Procs : pc[p] # "idle" /\ pc[q] # "idle" => p = q

\* What an operation has read is still so.
UpToDate(p) ==
    LET s == plan[p].state
    IN  /\ pc[p] \in {"startList", "startCreate"} => current = NoState
        /\ pc[p] = "startCreate" => completed[s.task] = NoArchive /\ CpsOf(s.task) = {}
        /\ pc[p] \in HasTask => current # NoState /\ s.task = current.task
        /\ pc[p] = "reportReplace" => \E r \in Reports : s = MergeReport(current, r)
        /\ pc[p] \in {"cpSurvey", "finSource", "finSurvey"} => s = current
        /\ pc[p] \in Checkpointing => s.rev = current.rev /\ s.entries = current.entries
        /\ pc[p] \in {"cpCreate", "finHistory"} => HistoryFree(p)
        /\ pc[p] \in Finishing =>
              \E r \in FinalReports : plan[p].archive.entries = current.entries \cup r
        /\ pc[p] \in OwnsArchive => completed[s.task] = plan[p].archive

\* The checkpoints of a task that no operation owns
Kept(t) == {c \in CpsOf(t) : \A p \in Procs : ~Owns(p, t, c)}

\* The count of a state is covered by files that stay.
CountInv ==
    /\ current # NoState =>
          /\ current.count <= Cardinality(Kept(current.task))
          /\ current.count <= current.latest
    /\ \A p \in Procs :
          LET s == plan[p].state
          IN  /\ pc[p] = "cpCreate" => s.count <= Cardinality(CpsOf(s.task)) + 1
              /\ pc[p] = "cpReplace" => s.count <= Cardinality(CpsOf(s.task))
              /\ pc[p] \in Checkpointing => s.count <= s.latest

QueueInv == TypeOK /\ PlanInv /\ Alone /\ \A p \in Procs : UpToDate(p)

\* Every operation but p is at rest.
Solo(p) == \A q \in Procs \ {p} : pc[q] = "idle" /\ pc'[q] = "idle"

\* A step of an operation is one of that operation alone.
LEMMA StepSolo ==
  ASSUME OneQueue, TypeOK, Alone, NEW p \in Procs,
         Start(p) \/ Report(p) \/ Checkpoint(p) \/ Finish(p) \/ PrepareFails(p)
  PROVE  Local(p) /\ Solo(p)
  <1>1. ASSUME NEW step, NEW prepared, Goto(p, step, prepared) \/ Return(p)
        PROVE  Local(p)
    BY <1>1, GotoLocal
  <1>2. Local(p)
    <2>1. CASE Start(p) \/ Report(p) \/ Checkpoint(p) \/ PrepareFails(p)
      BY <1>1, <2>1
         DEF Start, BeginStart, StartList, StartCreate, Report, BeginReport, ReportReplace,
             Checkpoint, BeginCheckpoint, CheckpointSurvey, CheckpointCreate, CheckpointReplace,
             CheckpointRollback, PrepareFails
    <2>2. CASE Finish(p)
      BY <1>1, <2>2
         DEF Finish, BeginFinish, FinishSource, FinishSurvey, FinishCheck, FinishHistory,
             FinishArchive, FinishReread, FinishRemove, FinishUnarchive, FinishUnhistory
    <2> QED
      BY <2>1, <2>2
  <1>3. pc[p] # "idle" \/ MayEnter(p)
    BY DEF Start, BeginStart, StartList, StartCreate, Report, BeginReport, ReportReplace,
           Checkpoint, BeginCheckpoint, CheckpointSurvey, CheckpointCreate, CheckpointReplace,
           CheckpointRollback, PrepareFails, Finish, BeginFinish, FinishSource, FinishSurvey,
           FinishCheck, FinishHistory, FinishArchive, FinishReread, FinishRemove,
           FinishUnarchive, FinishUnhistory
  <1>4. \A q \in Procs \ {p} : pc[q] = "idle"
    BY <1>3 DEF Alone, MayEnter, OneQueue
  <1> QED
    BY <1>2, <1>4 DEF Local, Solo

\* What a step of an operation alone in the store has read stays so.
LEMMA StepUpToDate ==
  ASSUME OneQueue, QueueInv, NEW p \in Procs,
         Start(p) \/ Report(p) \/ Checkpoint(p) \/ Finish(p) \/ PrepareFails(p)
  PROVE  UpToDate(p)'
  <1> USE DEF HasTask, Steps, Checkpointing, Finishing, OwnsArchive
  <1>0. /\ plan[p] \in Plans /\ plan[p].state \in States /\ current \in States
        /\ NoPlan \in Plans /\ UpToDate(p) /\ TypeOK
        /\ pc[p] \in HasTask => plan[p].state.task \in Tasks
    BY EmptyTypes DEF QueueInv, TypeOK, Plans, PlanInv, Prepared
  <1>1. CASE pc'[p] = "idle"
    BY <1>1 DEF UpToDate
  <1>2. ASSUME UNCHANGED <<current, history, completed>>, plan'[p] = plan[p],
               \/ pc[p] \in Checkpointing /\ pc'[p] = "cpRollback"
               \/ /\ pc[p] \in {"finReread", "finRemove"}
                  /\ pc'[p] \in {"finReread", "finRemove", "finUnarchive"}
               \/ pc[p] = "finCheck" /\ pc'[p] = "finHistory" /\ HistoryFree(p)
        PROVE  UpToDate(p)'
    <2>1. CASE pc[p] \in Checkpointing
      BY <1>0, <1>2, <2>1 DEF UpToDate
    <2>2. CASE pc[p] \in {"finCheck", "finReread", "finRemove"}
      <3>1. pc'[p] = "finHistory" => HistoryFree(p)'
        BY <1>2, <2>2 DEF HistoryFree
      <3>2. /\ plan[p].state.task = current.task /\ current # NoState
            /\ \E r \in FinalReports : plan[p].archive.entries = current.entries \cup r
            /\ pc[p] \in OwnsArchive => completed[plan[p].state.task] = plan[p].archive
        BY <1>0, <2>2 DEF UpToDate
      <3> QED
        BY <1>2, <2>2, <3>1, <3>2 DEF UpToDate
    <2> QED
      BY <1>2, <2>1, <2>2
  <1>3. CASE Start(p)
    <2>1. CASE BeginStart(p)
      BY <1>0, <2>1, GotoLocal DEF BeginStart, UpToDate, store
    <2>2. ASSUME NEW t \in NewTasks, pc[p] = "startList", UNCHANGED store,
                 Goto(p, "startCreate", [NoPlan EXCEPT !.state = NewState(t)])
          PROVE  UpToDate(p)'
      <3>1. t \notin UsedTaskIds /\ t \in Tasks
        <4>1. IsNext(t, UsedTaskIds) /\ t \in Nat /\ t \in Tasks
          BY <2>2, StoreAssumption DEF NewTasks, Tasks
        <4> QED
          BY <4>1 DEF IsNext
      <3>2. completed[t] = NoArchive /\ CpsOf(t) = {}
        BY <3>1 DEF UsedTaskIds
      <3>3. pc'[p] = "startCreate" /\ plan'[p].state = NewState(t)
        BY <1>0, <2>2, GotoLocal DEF Plans
      <3>4. plan'[p].state.task = t
        BY <3>3 DEF NewState
      <3>5. current' = NoState /\ completed'[t] = NoArchive /\ (CpsOf(t))' = {}
        BY <1>0, <2>2, <3>2 DEF UpToDate, store, CpsOf
      <3> QED
        BY <3>3, <3>4, <3>5 DEF UpToDate, CpsOf
    <2> QED
      BY <1>0, <1>1, <1>3, <2>1, <2>2, GotoLocal DEF Start, StartList, StartCreate
  <1>5. CASE Report(p)
    <2>1. CASE BeginReport(p)
      <3>1. pc'[p] = "reportReplace" /\ current # NoState /\ UNCHANGED current
        BY <1>0, <2>1, GotoLocal DEF BeginReport, store
      <3>2. PICK r \in Reports : plan'[p].state = MergeReport(current, r)
        BY <1>0, <1>5, <3>1, StepStates
      <3>3. plan'[p].state.task = current.task
        BY <1>0, <3>2, StateTasks
      <3>4. MergeReport(current, r)' = MergeReport(current, r)
        BY <3>1 DEF MergeReport
      <3> QED
        BY <3>1, <3>2, <3>3, <3>4 DEF UpToDate
    <2> QED
      BY <1>0, <1>1, <1>5, <2>1, GotoLocal DEF Report, ReportReplace
  <1>6. CASE Checkpoint(p)
    <2>1. CASE BeginCheckpoint(p)
      <3>1. pc'[p] = "cpSurvey" /\ plan'[p].state = current /\ current' = current
        BY <1>0, <2>1, StepStates, GotoLocal, <1>6 DEF BeginCheckpoint, store
      <3> QED
        BY <2>1, <3>1 DEF UpToDate, BeginCheckpoint
    <2>2. CASE CheckpointSurvey(p) /\ pc'[p] = "cpCreate"
      <3> DEFINE s == plan[p].state
      <3>1. PICK c \in NewCps(s) :
              /\ plan'[p].state = Checkpointed(s, c) /\ plan'[p].cp = c
              /\ UNCHANGED store /\ pc[p] = "cpSurvey"
        BY <1>0, <1>6, <2>2, StepStates
      <3>2. /\ Checkpointed(s, c).rev = s.rev /\ Checkpointed(s, c).entries = s.entries
            /\ Checkpointed(s, c).task = s.task
        BY <1>0 DEF Checkpointed, States
      <3>3. history[s.task][c] = NoCheckpoint
        <4>1. IsNext(c, CpsOf(s.task) \cup {s.count, s.latest}) /\ c \in Nat /\ c \in Cps
          BY <3>1, StoreAssumption DEF NewCps, Cps
        <4> QED
          BY <4>1 DEF IsNext, CpsOf
      <3>4. s = current /\ current # NoState
        BY <1>0, <3>1 DEF UpToDate
      <3>5. /\ plan'[p].state.task = current.task /\ plan'[p].state.rev = current.rev
            /\ plan'[p].state.entries = current.entries
            /\ history'[plan'[p].state.task][plan'[p].cp] = NoCheckpoint
            /\ current' = current
        BY <3>1, <3>2, <3>3, <3>4 DEF store
      <3> QED
        BY <2>2, <3>4, <3>5 DEF UpToDate, HistoryFree
    <2>3. CASE CheckpointCreate(p) /\ pc'[p] = "cpReplace"
      <3>1. pc[p] = "cpCreate" /\ plan'[p] = plan[p] /\ UNCHANGED <<current, completed>>
        BY <1>0, <1>6, <2>3, StepStates
      <3> QED
        BY <1>0, <2>3, <3>1 DEF UpToDate
    <2>4. CASE CheckpointReplace(p)
      BY <1>0, <1>1, <1>2, <2>4, GotoLocal DEF CheckpointReplace
    <2> QED
      BY <1>0, <1>1, <1>6, <2>1, <2>2, <2>3, <2>4, GotoLocal
         DEF Checkpoint, CheckpointSurvey, CheckpointCreate, CheckpointRollback
  <1>7. CASE Finish(p)
    <2>1. CASE BeginFinish(p)
      <3>1. pc'[p] = "finSource" /\ plan'[p].state = current /\ current' = current
        BY <1>0, <2>1, GotoLocal DEF BeginFinish, Plans, store
      <3> QED
        BY <2>1, <3>1 DEF UpToDate, BeginFinish
    <2>2. CASE FinishSource(p) /\ pc'[p] # "idle"
      <3>1. /\ pc[p] = "finSource" /\ pc'[p] = "finSurvey"
            /\ plan'[p].state = plan[p].state /\ current' = current
        BY <1>0, <2>2, GotoLocal DEF FinishSource, Plans, store
      <3> QED
        BY <1>0, <3>1 DEF UpToDate
    <2>3. CASE FinishSurvey(p) /\ pc'[p] # "idle"
      <3> DEFINE s == plan[p].state
      <3>1. PICK c \in NewCps(s), r \in FinalReports, resolved \in SUBSET Work :
              LET f == Resolved(s, r, resolved)
              IN  Goto(p, "finCheck",
                       [state |-> f, source |-> plan[p].source, cp |-> c,
                        checkpoint |-> Assemble(f, "final"),
                        archive |-> [final |-> c, entries |-> f.entries, rev |-> f.rev]])
        BY <1>0, <2>3, GotoLocal DEF FinishSurvey
      <3> DEFINE f == Resolved(s, r, resolved)
      <3>2. /\ pc'[p] = "finCheck" /\ plan'[p].state = f
            /\ plan'[p].archive.entries = f.entries
        BY <1>0, <3>1, GotoLocal
      <3>3. f.task = s.task /\ f.entries = s.entries \cup r
        BY <1>0 DEF Resolved, MergeReport, States
      <3>4. s = current /\ current # NoState /\ current' = current
        BY <1>0, <2>3 DEF UpToDate, FinishSurvey, store
      <3> HIDE DEF f
      <3> QED
        BY <3>2, <3>3, <3>4 DEF UpToDate
    <2>4. CASE FinishCheck(p)
      BY <1>0, <1>1, <1>2, <2>4, GotoLocal DEF FinishCheck, store
    <2>5. CASE FinishHistory(p)
      <3>1. CASE pc'[p] = "finArchive"
        <4>1. pc[p] = "finHistory" /\ plan'[p] = plan[p] /\ current' = current
          BY <1>0, <2>5, <3>1, GotoLocal DEF FinishHistory
        <4> QED
          BY <1>0, <3>1, <4>1 DEF UpToDate
      <3> QED
        BY <1>0, <1>1, <2>5, <3>1, GotoLocal DEF FinishHistory
    <2>6. CASE FinishArchive(p)
      <3>1. pc[p] = "finArchive" /\ plan'[p] = plan[p] /\ current' = current
        BY <1>0, <2>6, GotoLocal DEF FinishArchive
      <3>2. CASE pc'[p] = "finReread"
        <4>1. completed'[plan[p].state.task] = plan[p].archive
          BY <1>0, <2>6, <3>1, <3>2, GotoLocal DEF FinishArchive, PutArchive, TypeOK
        <4> QED
          BY <1>0, <3>1, <3>2, <4>1 DEF UpToDate
      <3>3. CASE pc'[p] = "finUnhistory"
        BY <1>0, <3>1, <3>3 DEF UpToDate
      <3> QED
        BY <1>0, <2>6, <3>2, <3>3, GotoLocal DEF FinishArchive
    <2>7. CASE FinishReread(p)
      <3>1. /\ pc[p] = "finReread" /\ plan'[p] = plan[p] /\ UNCHANGED <<current, completed>>
            /\ pc'[p] \in {"finRemove", "finUnarchive"}
        BY <1>0, <2>7, GotoLocal DEF FinishReread, store
      <3> QED
        BY <1>0, <3>1 DEF UpToDate
    <2>8. CASE FinishRemove(p) /\ pc'[p] # "idle"
      <3>1. /\ pc[p] = "finRemove" /\ plan'[p] = plan[p] /\ UNCHANGED <<current, completed>>
            /\ pc'[p] = "finUnarchive"
        BY <1>0, <2>8, GotoLocal DEF FinishRemove
      <3> QED
        BY <1>0, <3>1 DEF UpToDate
    <2>9. CASE FinishUnarchive(p)
      <3>1. /\ pc[p] = "finUnarchive" /\ plan'[p] = plan[p] /\ UNCHANGED current
            /\ pc'[p] = "finUnhistory"
        BY <1>0, <2>9, GotoLocal DEF FinishUnarchive
      <3> QED
        BY <1>0, <3>1 DEF UpToDate
    <2> QED
      BY <1>0, <1>1, <1>7, <2>1, <2>2, <2>3, <2>4, <2>5, <2>6, <2>7, <2>8, <2>9, GotoLocal
         DEF Finish, FinishUnhistory
  <1>8. CASE PrepareFails(p)
    BY <1>0, <1>1, <1>8, GotoLocal DEF PrepareFails
  <1> QED
    BY <1>3, <1>5, <1>6, <1>7, <1>8
LEMMA NextQueue ==
  ASSUME OneQueue, QueueInv, [Next]_vars
  PROVE  QueueInv'
  <1>0. TypeOK' /\ TypeOK /\ PlanInv /\ Alone /\ \A p \in Procs : UpToDate(p)
    BY NextType DEF QueueInv
  <1>1. ASSUME NEW p \in Procs,
               Start(p) \/ Report(p) \/ Checkpoint(p) \/ Finish(p) \/ PrepareFails(p)
        PROVE  QueueInv'
    <2>1. Local(p) /\ Solo(p) /\ UpToDate(p)'
      BY <1>0, <1>1, StepSolo, StepUpToDate
    <2>2. \A q \in Procs : Prepared(pc'[q], plan'[q])
      BY <1>0, <1>1, <2>1, StepPrepared DEF Local, PlanInv
    <2>3. ASSUME pc[p] \in {"startCreate", "reportReplace", "cpReplace"}
          PROVE  plan[p].state.task \in Tasks
      <3>1. \A t : NewState(t).task = t
        BY DEF NewState
      <3> QED
        BY <1>0, <2>3, <3>1 DEF PlanInv, Prepared, HasTask, Steps
    <2>4. current' = NoState \/ current'.task \in Tasks
      BY <1>0, <1>1, <2>3, StepCurrent DEF PlanInv
    <2>5. Alone'
      BY <2>1 DEF Solo, Alone
    <2>6. ASSUME NEW q \in Procs
          PROVE  UpToDate(q)'
      <3>1. CASE q # p
        <4>1. pc'[q] = "idle"
          BY <2>1, <3>1 DEF Solo
        <4> QED
          BY <4>1 DEF UpToDate, HasTask, Steps, Checkpointing, Finishing, OwnsArchive
      <3> QED
        BY <2>1, <3>1
    <2> QED
      BY <1>0, <2>2, <2>4, <2>5, <2>6 DEF QueueInv, PlanInv
  <1>2. CASE \E p \in Procs : Crash(p)
    <2>1. UNCHANGED current /\ \A q \in Procs : pc'[q] = "idle"
      BY <1>2 DEF Crash, OneQueue, store
    <2>2. PlanInv'
      BY <1>0, <2>1 DEF PlanInv, Prepared, HasTask, Checkpointing, Finishing
    <2>3. \A q \in Procs : UpToDate(q)'
      BY <2>1 DEF UpToDate, HasTask, Steps, Checkpointing, Finishing, OwnsArchive
    <2> QED
      BY <1>0, <2>1, <2>2, <2>3 DEF QueueInv, Alone
  <1>3. CASE GitChange \/ UNCHANGED vars
    <2>1. UNCHANGED <<store, pc, plan>>
      BY <1>3 DEF GitChange, vars, store
    <2>2. PlanInv' /\ Alone'
      BY <1>0, <2>1 DEF PlanInv, Alone, store
    <2>3. ASSUME NEW q \in Procs
          PROVE  UpToDate(q)'
      <3>1. \A r : MergeReport(current, r)' = MergeReport(current, r)
        BY <2>1 DEF MergeReport, store
      <3>2. UpToDate(q) /\ CpsOf(plan[q].state.task)' = CpsOf(plan[q].state.task)
        BY <1>0, <2>1 DEF CpsOf, store
      <3> QED
        BY <2>1, <3>1, <3>2 DEF UpToDate, HistoryFree, store
    <2> QED
      BY <1>0, <2>2, <2>3 DEF QueueInv
  <1> QED
    BY <1>1, <1>2, <1>3 DEF Next

LEMMA InitQueue == Init => QueueInv
  <1> SUFFICES ASSUME Init PROVE QueueInv
    OBVIOUS
  <1>1. \A q \in Procs : pc[q] = "idle"
    BY DEF Init
  <1>2. PlanInv
    BY <1>1 DEF Init, PlanInv, Prepared, HasTask, Checkpointing, Finishing
  <1>3. \A q \in Procs : UpToDate(q)
    BY <1>1 DEF UpToDate, HasTask, Steps, Checkpointing, Finishing, OwnsArchive
  <1> QED
    BY <1>1, <1>2, <1>3, InitType DEF QueueInv, Alone

LEMMA QueueInvariant == ASSUME OneQueue PROVE Spec => []QueueInv
  BY InitQueue, NextQueue, PTL DEF Spec

\* Allocation skips the files that crashes and failed rollbacks left behind: an operation
\* of the queue never finds the number of its checkpoint taken, whatever has failed before.
THEOREM AllocatedIdFreeHolds == ASSUME OneQueue PROVE Spec => []AllocatedIdFree
  <1>1. QueueInv => AllocatedIdFree
    BY DEF QueueInv, UpToDate, AllocatedIdFree
  <1> QED
    BY <1>1, QueueInvariant, PTL
----------------------------------------------------------------------------
(* The report revision *)

LEMMA StepRevision ==
  ASSUME OneQueue, QueueInv, NEW p \in Procs,
         Start(p) \/ Report(p) \/ Checkpoint(p) \/ Finish(p) \/ PrepareFails(p)
  PROVE  \/ UNCHANGED current
         \/ /\ pc[p] = "startCreate" /\ current = NoState
            /\ \E t \in Tasks : current' = NewState(t) /\ plan[p].state.task = t
         \/ /\ pc[p] = "reportReplace" /\ current # NoState
            /\ \E r \in Reports : current' = MergeReport(current, r)
         \/ /\ pc[p] = "cpReplace" /\ current # NoState /\ current' = plan[p].state
            /\ current'.task = current.task
            /\ current'.rev = current.rev /\ current'.entries = current.entries
         \/ pc[p] = "finRemove" /\ current # NoState /\ current' = NoState
  <1>1. UpToDate(p) /\ Prepared(pc[p], plan[p])
    BY DEF QueueInv, PlanInv
  <1>2. \A t : NewState(t).task = t
    BY DEF NewState
  <1> QED
    BY <1>1, <1>2, StepCurrent DEF UpToDate, Prepared, HasTask, Steps, Checkpointing

\* The report revision of a task only grows, and grows with every new conclusion, whatever
\* fails between a report, its checkpoint and the next report.
THEOREM RevisionMonotoneHolds == ASSUME OneQueue PROVE Spec => RevisionMonotone
  <1> DEFINE Monotone == (current'.task = current.task /\ current' # current) =>
                            \/ current'.rev > current.rev
                            \/ current'.rev = current.rev /\ current'.entries = current.entries
  <1>1. QueueInv /\ [Next]_vars => [Monotone]_vars
    <2> SUFFICES ASSUME QueueInv, Next, current'.task = current.task, current' # current
                 PROVE  \/ current'.rev > current.rev
                        \/ current'.rev = current.rev /\ current'.entries = current.entries
      BY DEF vars
    <2>0. /\ current \in States /\ current.rev \in Nat /\ NoState.task = 0 /\ 0 \notin Tasks
          /\ current = NoState \/ current.task \in Tasks
          /\ \A t : NewState(t).task = t
      BY StoreAssumption DEF QueueInv, TypeOK, States, PlanInv, NoState, NewState, Tasks
    <2>1. ASSUME NEW p \in Procs,
                 Start(p) \/ Report(p) \/ Checkpoint(p) \/ Finish(p) \/ PrepareFails(p)
          PROVE  \/ current'.rev > current.rev
                 \/ current'.rev = current.rev /\ current'.entries = current.entries
      <3>1. ASSUME NEW r \in Reports, current' = MergeReport(current, r)
            PROVE  \/ current'.rev > current.rev
                   \/ current'.rev = current.rev /\ current'.entries = current.entries
        <4>1. /\ current'.entries = current.entries \cup r
              /\ current'.rev = IF r \subseteq current.entries THEN current.rev
                                ELSE current.rev + 1
          BY <2>0, <3>1 DEF MergeReport, States
        <4> QED
          BY <2>0, <4>1
      <3> QED
        BY <2>0, <2>1, <3>1, StepRevision
    <2>2. CASE (\E p \in Procs : Crash(p)) \/ GitChange
      BY <2>2 DEF Crash, GitChange, store
    <2> QED
      BY <2>1, <2>2 DEF Next
  <1>2. Spec => [][Monotone]_vars
    BY <1>1, QueueInvariant, PTL DEF Spec
  <1> QED
    BY <1>2 DEF RevisionMonotone

----------------------------------------------------------------------------
(* The ledger *)

\* Only the archive of the active task comes and goes.
LEMMA StepCompleted ==
  ASSUME TypeOK, NEW p \in Procs,
         Start(p) \/ Report(p) \/ Checkpoint(p) \/ Finish(p) \/ PrepareFails(p)
  PROVE  \/ UNCHANGED completed
         \/ /\ pc[p] \in HasTask /\ UNCHANGED current
            /\ \A t \in Tasks : t # plan[p].state.task => completed'[t] = completed[t]
  BY DEF Start, BeginStart, StartList, StartCreate, Report, BeginReport, ReportReplace, Checkpoint,
         BeginCheckpoint, CheckpointSurvey, CheckpointCreate, CheckpointReplace, CheckpointRollback,
         Finish, BeginFinish, FinishSource, FinishSurvey, FinishCheck, FinishHistory, FinishArchive,
         FinishReread, FinishRemove, FinishUnarchive, FinishUnhistory, PrepareFails, store,
         PutArchive, HasTask, Steps, TypeOK

\* A step on the files is a step of the ledger, or invisible in it.
LEMMA StepLedger ==
  ASSUME OneQueue, QueueInv, [Next]_vars
  PROVE  [Ledger!Next]_Ledger!vars
  <1> DEFINE Shown == {u \in Tasks : completed[u] # NoArchive /\ current.task # u}
             shown == [t \in Shown |-> completed[t].entries]
             Shown2 == {u \in Tasks : completed'[u] # NoArchive /\ current'.task # u}
             shown2 == [t \in Shown2 |-> completed'[t].entries]
  <1>0. /\ current \in States /\ NoState.task = 0 /\ NoState.entries = {} /\ 0 \notin Tasks
        /\ current # NoState => current.task \in Tasks /\ current.task # 0
        /\ \A t : NewState(t).task = t /\ NewState(t).entries = {}
        /\ TypeOK /\ \A p \in Procs : UpToDate(p)
    BY StoreAssumption DEF QueueInv, TypeOK, PlanInv, NoState, NewState, Tasks
  <1>1. ASSUME current'.task = current.task, current'.entries = current.entries,
               \A t \in Tasks : t # current.task => completed'[t] = completed[t]
        PROVE  UNCHANGED Ledger!vars
    <2>1. Shown2 = Shown
      BY <1>1
    <2>2. \A t \in Shown : completed'[t] = completed[t]
      BY <1>1
    <2>3. shown2 = shown
      BY <2>1, <2>2
    <2> QED
      BY <1>1, <2>3 DEF Ledger!vars
  <1>2. ASSUME NEW p \in Procs,
               Start(p) \/ Report(p) \/ Checkpoint(p) \/ Finish(p) \/ PrepareFails(p)
        PROVE  Ledger!Next \/ UNCHANGED Ledger!vars
    <2>0. UpToDate(p) /\ Prepared(pc[p], plan[p])
      BY DEF QueueInv, PlanInv
    <2>1. CASE UNCHANGED current
      BY <1>0, <1>1, <1>2, <2>0, <2>1, StepCompleted DEF UpToDate
    <2>2. ASSUME NEW t \in Tasks, pc[p] = "startCreate", current = NoState, current' = NewState(t),
                 plan[p].state.task = t, UNCHANGED completed
          PROVE  Ledger!Start(t)
      <3>1. completed[t] = NoArchive
        BY <2>0, <2>2 DEF UpToDate
      <3>2. Shown2 = Shown /\ t \notin Shown
        BY <1>0, <2>2, <3>1
      <3>3. shown2 = shown
        BY <2>2, <3>2
      <3>4. DOMAIN shown = Shown
        OBVIOUS
      <3> QED
        BY <1>0, <2>2, <3>2, <3>3, <3>4 DEF Ledger!Start
    <2>3. ASSUME NEW r \in Reports, current # NoState, current' = MergeReport(current, r),
                 UNCHANGED completed
          PROVE  Ledger!Report(r)
      <3>1. current'.task = current.task /\ current'.entries = current.entries \cup r
        BY <1>0, <2>3 DEF MergeReport, States
      <3>2. shown2 = shown
        BY <2>3, <3>1
      <3> QED
        BY <1>0, <2>3, <3>1, <3>2 DEF Ledger!Report
    <2>4. ASSUME pc[p] = "finRemove", current # NoState, current' = NoState, UNCHANGED completed
          PROVE  \E r \in FinalReports : Ledger!Finish(r)
      <3>1. PICK r \in FinalReports : plan[p].archive.entries = current.entries \cup r
        BY <2>0, <2>4 DEF UpToDate, Finishing
      <3>2. completed[current.task] = plan[p].archive /\ plan[p].archive # NoArchive
        <4>1. plan[p].archive.final # 0
          BY <2>0, <2>4, StoreAssumption DEF Prepared, Finishing, Cps
        <4> QED
          BY <2>0, <2>4, <4>1 DEF UpToDate, OwnsArchive, HasTask, Steps, NoArchive
      <3>3. Shown2 = Shown \cup {current.task}
        BY <1>0, <2>4, <3>2
      <3>4. shown2 = [t \in Shown \cup {current.task} |->
                        IF t = current.task THEN current.entries \cup r ELSE shown[t]]
        BY <2>4, <3>1, <3>2, <3>3
      <3>5. DOMAIN shown = Shown
        OBVIOUS
      <3> QED
        BY <1>0, <2>4, <3>4, <3>5 DEF Ledger!Finish
    <2>5. Reports \subseteq SUBSET Entries /\ FinalReports \subseteq SUBSET Entries
      BY StoreAssumption
    <2>6. CASE ~UNCHANGED current
      <3>1. UNCHANGED completed
        BY <1>2, <2>6, StepCurrent
      <3> QED
        BY <1>1, <1>2, <2>2, <2>3, <2>4, <2>5, <2>6, <3>1, StepRevision DEF Ledger!Next
    <2> QED
      BY <2>1, <2>6
  <1>3. CASE (\E p \in Procs : Crash(p)) \/ GitChange \/ UNCHANGED vars
    <2>1. UNCHANGED <<current, completed>>
      BY <1>3 DEF Crash, GitChange, vars, store
    <2> QED
      BY <1>1, <2>1
  <1> QED
    BY <1>2, <1>3 DEF Next

\* While one queue serialises the operations the files implement the ledger, whatever fails:
\* a start, a report or a finish takes effect when it replaces, creates or removes current.md,
\* and nothing that fails or dies on either side of that instant can be seen in the ledger.
THEOREM StoreImplementsLedger == ASSUME OneQueue PROVE Spec => ImplementsLedger
  <1>1. Init => Ledger!Init
    <2> SUFFICES ASSUME Init PROVE Ledger!Init
      OBVIOUS
    <2>1. current.task = 0 /\ current.entries = {}
      BY DEF Init, NoState, NewState
    <2>2. {u \in Tasks : completed[u] # NoArchive /\ current.task # u} = {}
      BY DEF Init
    <2> QED
      BY <2>1, <2>2 DEF Ledger!Init
  <1>2. QueueInv /\ [Next]_vars => [Ledger!Next]_Ledger!vars
    BY StepLedger
  <1> QED
    BY <1>1, <1>2, QueueInvariant, PTL DEF Spec, ImplementsLedger, Ledger!Spec
----------------------------------------------------------------------------
(* The checkpoint count *)

\* The checkpoints of a task before number c are fewer than c.
LEMMA FilesBelow ==
  ASSUME NEW t, NEW c \in Cps, \A x \in CpsOf(t) : x < c
  PROVE  Cardinality(CpsOf(t)) <= c - 1
  <1>1. c \in Nat \ {0} /\ \A x \in Cps : x \in Nat \ {0}
    BY StoreAssumption DEF Cps
  <1>2. ASSUME NEW x \in CpsOf(t)
        PROVE  x \in 1..(c - 1)
    <2>1. x \in Cps /\ x < c
      BY DEF CpsOf
    <2> QED
      BY <1>1, <2>1
  <1>3. IsFiniteSet(1..(c - 1)) /\ Cardinality(1..(c - 1)) = c - 1
    BY <1>1, FS_Interval
  <1> QED
    BY <1>2, <1>3, FS_Subset

LEMMA KeptCounted ==
  ASSUME NEW t
  PROVE  /\ IsFiniteSet(Kept(t)) /\ Cardinality(Kept(t)) \in Nat
         /\ Cardinality(Kept(t)) <= Cardinality(CpsOf(t))
  <1>1. Kept(t) \subseteq CpsOf(t)
    BY DEF Kept
  <1> QED
    BY <1>1, CpsOfFinite, FS_Subset, FS_CardinalityType

\* No step removes a checkpoint that no operation owns, or makes one its own.
LEMMA StepKept ==
  ASSUME OneQueue, QueueInv, [Next]_vars, NEW t \in Tasks
  PROVE  Kept(t) \subseteq Kept(t)' /\ Cardinality(Kept(t)) <= Cardinality(Kept(t)')
  <1>0. TypeOK /\ PlanInv
    BY DEF QueueInv
  <1>1. ASSUME NEW p \in Procs,
               Start(p) \/ Report(p) \/ Checkpoint(p) \/ Finish(p) \/ PrepareFails(p),
               NEW c \in Kept(t)
        PROVE  c \in Kept(t)'
    <2>0. /\ c \in Cps /\ history[t][c] # NoCheckpoint /\ ~Owns(p, t, c)
          /\ Solo(p) /\ Local(p)
      BY <1>0, <1>1, StepSolo DEF Kept, CpsOf, QueueInv
    <2>1. CASE UNCHANGED history /\ (pc'[p] \in OwnsHistory => /\ pc[p] \in OwnsHistory
                                                             /\ plan'[p] = plan[p])
      <3>1. \A q \in Procs : ~Owns(q, t, c)'
        BY <2>0, <2>1 DEF Owns, Solo, OwnsHistory
      <3> QED
        BY <2>0, <2>1, <3>1 DEF Kept, CpsOf
    <2>2. ASSUME HistoryFree(p), PutHistory(p, plan[p].checkpoint),
                 pc[p] \in {"cpCreate", "finHistory"},
                 pc'[p] \in OwnsHistory => plan'[p] = plan[p]
          PROVE  c \in Kept(t)'
      <3>1. ~(plan[p].state.task = t /\ plan[p].cp = c)
        BY <2>0, <2>2 DEF HistoryFree
      <3>2. history'[t][c] = history[t][c]
        BY <1>0, <2>0, <2>2, <3>1, PutEffect, OwnerPlans
      <3>3. \A q \in Procs : ~Owns(q, t, c)'
        BY <2>0, <2>2, <3>1 DEF Owns, Solo, OwnsHistory
      <3> QED
        BY <2>0, <3>2, <3>3 DEF Kept, CpsOf
    <2>3. ASSUME PutHistory(p, NoCheckpoint), pc[p] \in OwnsHistory, pc'[p] = "idle"
          PROVE  c \in Kept(t)'
      <3>1. ~(plan[p].state.task = t /\ plan[p].cp = c)
        BY <2>0, <2>3 DEF Owns
      <3>2. history'[t][c] = history[t][c]
        BY <1>0, <2>0, <2>3, <3>1, PutEffect, OwnerPlans
      <3>3. \A q \in Procs : ~Owns(q, t, c)'
        BY <2>0, <2>3 DEF Owns, Solo, OwnsHistory
      <3> QED
        BY <2>0, <3>2, <3>3 DEF Kept, CpsOf
    <2> DEFINE Ownless == Steps \ OwnsHistory
    <2>4. ASSUME NEW step \in Ownless, NEW prepared, Goto(p, step, prepared) \/ Return(p),
                 UNCHANGED history
          PROVE  c \in Kept(t)'
      <3>1. pc'[p] \notin OwnsHistory
        BY <1>0, <2>4, GotoLocal DEF OwnsHistory
      <3> QED
        BY <2>1, <2>4, <3>1
    <2>5. {"idle", "startList", "startCreate", "reportReplace", "cpSurvey", "cpCreate",
            "finSource", "finSurvey", "finCheck", "finHistory"} \subseteq Ownless
      BY DEF Steps, OwnsHistory
    <2> HIDE DEF Ownless
    <2>6. CASE Start(p) \/ Report(p) \/ PrepareFails(p)
      BY <2>6, <2>4, <2>5
         DEF Start, BeginStart, StartList, StartCreate, Report, BeginReport, ReportReplace,
             PrepareFails, store
    <2>7. CASE BeginCheckpoint(p) \/ CheckpointSurvey(p)
      BY <2>7, <2>4, <2>5 DEF BeginCheckpoint, CheckpointSurvey, store
    <2>8. CASE CheckpointReplace(p) \/ CheckpointRollback(p) \/ CheckpointCreate(p)
      BY <1>0, <2>1, <2>2, <2>3, <2>8, GotoLocal
         DEF CheckpointReplace, CheckpointCreate, CheckpointRollback, OwnsHistory
    <2>9. CASE BeginFinish(p) \/ FinishSource(p) \/ FinishSurvey(p) \/ FinishCheck(p)
      BY <2>9, <2>4, <2>5 DEF BeginFinish, FinishSource, FinishSurvey, FinishCheck, store
    <2>10. CASE FinishHistory(p) \/ FinishUnhistory(p)
      BY <1>0, <2>1, <2>2, <2>3, <2>10, GotoLocal
         DEF FinishHistory, FinishUnhistory, OwnsHistory
    <2>11. CASE FinishArchive(p) \/ FinishReread(p) \/ FinishRemove(p) \/ FinishUnarchive(p)
      BY <1>0, <2>1, <2>11, GotoLocal
         DEF FinishArchive, FinishReread, FinishRemove, FinishUnarchive, OwnsHistory, store
    <2> QED
      BY <1>1, <2>6, <2>7, <2>9, <2>10, <2>11, <2>8 DEF Checkpoint, Finish
  <1>2. ASSUME NEW c \in Kept(t), (\E p \in Procs : Crash(p)) \/ GitChange \/ UNCHANGED vars
        PROVE  c \in Kept(t)'
    <2>1. UNCHANGED history /\ \A q \in Procs : ~Owns(q, t, c)'
      <3>1. CASE \E p \in Procs : Crash(p)
        BY <3>1 DEF Crash, OneQueue, Owns, OwnsHistory, store
      <3> QED
        BY <1>2, <3>1 DEF GitChange, vars, store, Kept, Owns
    <2> QED
      BY <1>2, <2>1 DEF Kept, CpsOf
  <1>3. Kept(t) \subseteq Kept(t)'
    BY <1>1, <1>2 DEF Next
  <1>4. IsFiniteSet(Kept(t)')
    <2>1. IsFiniteSet(CpsOf(t)')
      <3>1. IsFiniteSet(Cps)
        BY StoreAssumption, FS_Interval DEF Cps
      <3> QED
        BY <3>1, FS_Subset DEF CpsOf
    <2> QED
      BY <2>1, FS_Subset DEF Kept
  <1> QED
    BY <1>3, <1>4, FS_Subset
\* What an operation prepares to count is in the files by the time it is counted.
LEMMA NextCounted ==
  ASSUME OneQueue, QueueInv, CountInv, [Next]_vars
  PROVE  CountInv'
  <1> DEFINE Counted(q) ==
               LET s == plan[q].state
               IN  /\ pc[q] = "cpCreate" => s.count <= Cardinality(CpsOf(s.task)) + 1
                   /\ pc[q] = "cpReplace" => s.count <= Cardinality(CpsOf(s.task))
                   /\ pc[q] \in Checkpointing => s.count <= s.latest
             Covered == current # NoState =>
                           /\ current.count <= Cardinality(Kept(current.task))
                           /\ current.count <= current.latest
  <1>0. /\ TypeOK /\ PlanInv /\ Covered /\ \A q \in Procs : UpToDate(q) /\ Counted(q)
        /\ current \in States /\ current.count \in Nat
        /\ current # NoState => current.task \in Tasks
        /\ \A t \in Tasks : NewState(t).count = 0 /\ NewState(t).latest = 0
                          /\ NewState(t).task = t
    BY DEF QueueInv, TypeOK, States, PlanInv, CountInv, NewState
  <1>1. ASSUME NEW t \in Tasks
        PROVE  /\ Cardinality(Kept(t)) <= Cardinality(Kept(t)')
               /\ Cardinality(Kept(t)) \in Nat /\ Cardinality(Kept(t)') \in Nat
               /\ t = current'.task => Kept(current.task)' = Kept(t)'
    <2>1. Kept(t)' \subseteq Cps /\ IsFiniteSet(Cps)
      BY StoreAssumption, FS_Interval DEF Kept, CpsOf, Cps
    <2>2. IsFiniteSet(Kept(t)')
      BY <2>1, FS_Subset
    <2>3. t = current'.task => Kept(current.task)' = Kept(t)'
      BY DEF Kept, CpsOf, Owns
    <2> QED
      BY <2>2, <2>3, StepKept, KeptCounted, FS_CardinalityType
  <1>2. ASSUME current'.task = current.task, current'.count = current.count,
               current'.latest = current.latest, current # NoState
        PROVE  Covered'
    <2>1. /\ current.count <= Cardinality(Kept(current.task))
          /\ current.count <= current.latest
          /\ current.task \in Tasks /\ current.count \in Nat
      BY <1>0, <1>2
    <2>2. PICK t \in Tasks : t = current.task
      BY <2>1
    <2>3. current.count <= Cardinality(Kept(t))
      BY <2>1, <2>2
    <2>4. current.count <= Cardinality(Kept(t)')
      BY <1>1, <2>1, <2>3
    <2> QED
      BY <1>1, <1>2, <2>1, <2>2, <2>4
  <1>3. ASSUME NEW p \in Procs,
               Start(p) \/ Report(p) \/ Checkpoint(p) \/ Finish(p) \/ PrepareFails(p)
        PROVE  CountInv'
    <2>0. Solo(p) /\ Local(p) /\ UpToDate(p) /\ Counted(p) /\ plan[p].state \in States
      BY <1>0, <1>3, StepSolo DEF QueueInv, TypeOK, Plans
    <2>1. Covered'
      <3>1. ASSUME NEW t \in Tasks, current' = NewState(t)
            PROVE  Covered'
        <4>1. /\ current'.count = 0 /\ current'.latest = 0
              /\ Cardinality(Kept(current.task)') \in Nat
          BY <1>0, <1>1, <3>1
        <4> QED
          BY <4>1
      <3>2. ASSUME NEW r \in Reports, current # NoState, current' = MergeReport(current, r)
            PROVE  Covered'
        <4>1. /\ current'.task = current.task /\ current'.count = current.count
              /\ current'.latest = current.latest
          BY <1>0, <3>2 DEF MergeReport, States
        <4> QED
          BY <1>2, <3>2, <4>1
      <3>3. ASSUME pc[p] = "cpReplace", current # NoState, current' = plan[p].state,
                   current' # current, current'.task = current.task, UNCHANGED history
            PROVE  Covered'
        <4>1. PICK t \in Tasks : t = current.task
          BY <1>0, <3>3
        <4>2. /\ plan[p].state.task = t /\ plan[p].state.count \in Nat
              /\ plan[p].state.count <= Cardinality(CpsOf(t))
              /\ plan[p].state.count <= plan[p].state.latest
          BY <2>0, <3>3, <4>1 DEF UpToDate, HasTask, Steps, Checkpointing, States
        <4>3. pc'[p] = "idle"
          BY <1>0, <1>3, <3>3, GotoLocal, StepCurrent DEF NoState
        <4>4. Kept(t)' = CpsOf(t)
          BY <2>0, <3>3, <4>3 DEF Kept, CpsOf, Owns, Solo, OwnsHistory
        <4> QED
          BY <1>1, <3>3, <4>1, <4>2, <4>4
      <3>4. current' = current => Covered'
        BY <1>2
      <3> QED
        BY <1>3, <3>1, <3>2, <3>3, <3>4, StepRevision, StepCurrent
    <2>2. ASSUME pc'[p] = "cpCreate"
          PROVE  Counted(p)'
      <3>1. PICK c \in NewCps(plan[p].state) :
              /\ pc[p] = "cpSurvey" /\ UNCHANGED store
              /\ plan'[p].state = Checkpointed(plan[p].state, c)
        BY <1>0, <1>3, <2>2, StepStates
      <3>2. plan[p].state = current /\ current # NoState
        BY <2>0, <3>1 DEF UpToDate, HasTask, Steps
      <3> DEFINE files == Cardinality(CpsOf(current.task))
      <3>3. files \in Nat /\ current.count <= files
        <4>1. current.count <= Cardinality(Kept(current.task))
          BY <1>0, <3>2
        <4> QED
          BY <1>0, <4>1, KeptCounted, CpsOfFinite
      <3>4. NextCount(current) = files + 1
        BY <1>0, <3>3 DEF NextCount
      <3>5. files <= c - 1
        <4>1. c \in Cps /\ \A x \in CpsOf(current.task) : x < c
          BY <3>1, <3>2, NewCpsType DEF NewCps, IsNext
        <4> QED
          BY <4>1, FilesBelow
      <3>6. /\ Checkpointed(current, c).task = current.task
            /\ Checkpointed(current, c).latest = c
            /\ Checkpointed(current, c).count = NextCount(current)
        BY <1>0, StateTasks DEF Checkpointed, States
      <3>7. CpsOf(plan[p].state.task)' = CpsOf(current.task)
        BY <3>1, <3>2, <3>6 DEF CpsOf, store
      <3>8. c \in Nat
        BY NewCpsType, StoreAssumption
      <3> HIDE DEF files
      <3>9. NextCount(current) <= files + 1 /\ NextCount(current) <= c
        BY <3>3, <3>4, <3>5, <3>8
      <3> QED
        BY <2>2, <3>1, <3>2, <3>6, <3>7, <3>9 DEF files
    <2>3. ASSUME pc'[p] = "cpReplace"
          PROVE  Counted(p)'
      <3> DEFINE t == plan[p].state.task
                 c == plan[p].cp
      <3>1. /\ pc[p] = "cpCreate" /\ plan'[p] = plan[p]
            /\ HistoryFree(p) /\ PutHistory(p, plan[p].checkpoint)
        BY <1>0, <1>3, <2>3, StepStates
      <3>2. t \in Tasks /\ c \in Cps /\ plan[p].checkpoint # NoCheckpoint
        BY <1>0, <3>1, OwnerPlans
      <3>3. CpsOf(plan[p].state.task)' = CpsOf(t) \cup {c}
        BY <1>0, <3>1, <3>2, PutEffect DEF CpsOf
      <3>4. Cardinality(CpsOf(t) \cup {c}) = Cardinality(CpsOf(t)) + 1
        <4>1. c \notin CpsOf(t)
          BY <3>1 DEF CpsOf, HistoryFree
        <4> QED
          BY <4>1, CpsOfFinite, FS_AddElement
      <3>5. /\ plan[p].state.count <= Cardinality(CpsOf(t)) + 1
            /\ plan[p].state.count <= plan[p].state.latest
        BY <2>0, <3>1 DEF Checkpointing
      <3> QED
        BY <2>3, <3>1, <3>3, <3>4, <3>5
    <2>4. ASSUME pc'[p] = "cpRollback"
          PROVE  Counted(p)'
      <3>1. pc[p] = "cpReplace" /\ plan'[p] = plan[p]
        BY <1>0, <1>3, <2>4, StepStates
      <3> QED
        BY <2>0, <2>4, <3>1 DEF Checkpointing
    <2>5. ASSUME NEW q \in Procs
          PROVE  Counted(q)'
      BY <2>0, <2>2, <2>3, <2>4 DEF Solo, Checkpointing
    <2> QED
      BY <2>1, <2>5 DEF CountInv
  <1>4. CASE (\E p \in Procs : Crash(p)) \/ GitChange \/ UNCHANGED vars
    <2>1. Covered'
      BY <1>2, <1>4 DEF Crash, GitChange, vars, store
    <2>2. ASSUME NEW q \in Procs
          PROVE  Counted(q)'
      <3>1. CASE pc'[q] = "idle"
        BY <3>1 DEF Checkpointing
      <3>2. CASE pc'[q] # "idle"
        <4>1. pc'[q] = pc[q] /\ plan'[q] = plan[q] /\ history' = history
          BY <1>4, <3>2 DEF Crash, OneQueue, GitChange, vars, store
        <4>2. CpsOf(plan[q].state.task)' = CpsOf(plan[q].state.task)
          BY <4>1 DEF CpsOf
        <4> QED
          BY <1>0, <4>1, <4>2
      <3> QED
        BY <3>1, <3>2
    <2> QED
      BY <2>1, <2>2 DEF CountInv
  <1> QED
    BY <1>3, <1>4 DEF Next
\* The checkpoint count of the active task never exceeds the files that stay, nor the number
\* of the latest checkpoint, whatever was left behind by a failed or a dead operation.
THEOREM CountCoveredHolds == ASSUME OneQueue PROVE Spec => []CountCovered
  <1>1. Init => CountInv
    BY DEF Init, CountInv, Checkpointing
  <1>2. QueueInv /\ CountInv /\ [Next]_vars => CountInv'
    BY NextCounted
  <1>3. QueueInv /\ CountInv => CountCovered
    <2> SUFFICES ASSUME QueueInv, CountInv, current # NoState
                 PROVE  /\ current.count <= Cardinality(CpsOf(current.task))
                        /\ current.count <= current.latest
      BY DEF CountCovered
    <2>1. current.count <= Cardinality(Kept(current.task)) /\ current.count <= current.latest
      BY DEF CountInv
    <2>2. current.count \in Nat
      BY DEF QueueInv, TypeOK, States
    <2> QED
      BY <2>1, <2>2, KeptCounted, CpsOfFinite
  <1> QED
    BY <1>1, <1>2, <1>3, QueueInvariant, PTL DEF Spec
==============================================================================
