----------------------- MODULE ServiceSessionsProofs -----------------------
(***************************************************************************)
(* Theorems about the sessions of the shared service, for any number of    *)
(* agents, sessions, tasks, restarts and recovery attempts.                *)
(***************************************************************************)
EXTENDS ServiceSessions, TLAPS

\* The snapshots on their way, and the history of the journal
SnapshotsOK ==
    /\ writes \in [Writers -> Snapshots \cup {NoWrite}]
    /\ newest \in Writers
    /\ saved \in BOOLEAN

USE DEF snapshots, Take, SnapshotsOK

----------------------------------------------------------------------------
(* Type correctness *)

\* A session.open that has started has room for the session it will open.
Room ==
    /\ worker.by = "recovery" \/ worker.step \in {"recoverNext", "switch", "openNew"} =>
          opened < MaxSessions
    /\ worker.step \in {"switch", "openNew"} => worker.by # "recovery"

TypeInv == TypeOK /\ Room

\* The methods of the registry turn records into records.
LEMMA RecordType ==
  ASSUME NEW s \in Sessions
  PROVE  /\ touch(s) \in Sessions
         /\ \A t \in 0..MaxTasks : attachTask(s, t) \in Sessions
         /\ clearTask(s) \in Sessions
         /\ \A state \in Ended : end(s, state) \in Sessions
         /\ markRecoveryPending(s) \in Sessions
         /\ scheduleRecoveryFailure(s) \in Sessions
         /\ Copy(s) \in Copies
  <1> USE SessionsAssumption
  <1>1. touch(s) \in Sessions
    BY DEF touch, Sessions
  <1>2. ASSUME NEW t \in 0..MaxTasks
        PROVE  attachTask(s, t) \in Sessions
    BY DEF attachTask, Sessions
  <1>3. clearTask(s) \in Sessions
    BY <1>2 DEF clearTask
  <1>4. ASSUME NEW state \in States
        PROVE  inState(s, state) \in Sessions
    BY DEF inState, Sessions
  <1>5. \A state \in Ended : end(s, state) \in Sessions
    BY <1>4 DEF end, States
  <1>6. markRecoveryPending(s) \in Sessions
    BY <1>4 DEF markRecoveryPending, States, Pending, Sessions
  <1>7. scheduleRecoveryFailure(s) \in Sessions
    <2> DEFINE n == IF s.attempts < RetryLimit THEN s.attempts + 1 ELSE RetryLimit
               r == IF n = RetryLimit THEN "none" ELSE "later"
               failed == [s EXCEPT !.state = "recovery_pending", !.attempts = n, !.retry = r]
    <2>1. n \in 0..RetryLimit
      BY DEF Sessions
    <2>2. r \in {"none", "later", "due"}
      OBVIOUS
    <2>3. scheduleRecoveryFailure(s) = IF s.state \in Pending THEN failed ELSE s
      BY DEF scheduleRecoveryFailure
    <2> HIDE DEF n, r
    <2>4. failed \in Sessions
      BY <2>1, <2>2 DEF Sessions, States, Pending
    <2> QED
      BY <2>3, <2>4
  <1>8. Copy(s) \in Copies
    BY DEF Copy, Copies, Sessions
  <1> QED
    BY <1>1, <1>2, <1>3, <1>5, <1>6, <1>7, <1>8

LEMMA ConstantTypes ==
  /\ Absent \in Sessions
  /\ \A a \in Agents : opensAs(a) \in Sessions
  /\ \A e \in Entries : restoreInterrupted(e) \in Sessions
  /\ NoEntry \in Entries
  /\ Nothing \in Copies
  /\ Idle \in Workers
  /\ 0 \in Writers
  <1> USE SessionsAssumption
  <1>1. 0 \in 0..RetryLimit /\ 0 \in 0..MaxTasks /\ 0 \in 0..MaxSessions
    OBVIOUS
  <1>2. Absent \in Sessions
    BY <1>1 DEF Absent, Sessions, States
  <1>3. ASSUME NEW a \in Agents
        PROVE  opensAs(a) \in Sessions
    BY <1>2 DEF opensAs, Sessions, States, Live
  <1>4. ASSUME NEW e \in Entries
        PROVE  restoreInterrupted(e) \in Sessions
    <2> DEFINE r == IF e.retry = "none" THEN "due" ELSE e.retry
    <2>1. r \in {"none", "later", "due"} /\ e.task \in 0..MaxTasks /\ e.attempts \in 0..RetryLimit
      BY DEF Entries
    <2> HIDE DEF r
    <2>2. [Absent EXCEPT !.state = "interrupted", !.task = e.task, !.attempts = e.attempts,
                         !.retry = r, !.reason = "restart"] \in Sessions
      BY <1>2, <2>1 DEF Sessions, States, Pending
    <2> QED
      BY <2>2 DEF restoreInterrupted, r
  <1>5. NoEntry \in Entries
    BY <1>1 DEF NoEntry, Entries
  <1>6. Nothing \in Copies
    BY <1>1 DEF Nothing, Copies, States
  <1>7. Idle \in Workers
    BY <1>1, <1>6 DEF Idle, Workers, Steps
  <1>8. 0 \in Writers
    BY DEF Writers
  <1> QED
    BY <1>2, <1>3, <1>4, <1>5, <1>6, <1>7, <1>8

LEMMA SnapshotType ==
  ASSUME NEW sessions \in [Ids -> Sessions]
  PROVE  Snapshot(sessions) \in Snapshots
  <1>1. ASSUME NEW id \in Ids
        PROVE  [known |-> TRUE, task |-> sessions[id].task, attempts |-> sessions[id].attempts,
                retry |-> sessions[id].retry] \in Entries
    <2>1. sessions[id] \in Sessions
      OBVIOUS
    <2> QED
      BY <2>1 DEF Sessions, Entries
  <1>2. NoEntry \in Entries
    BY ConstantTypes
  <1> QED
    BY <1>1, <1>2 DEF Snapshot, Snapshots

\* The worker may be at any step, and may have finished its work.
LEMMA WorkerType ==
  ASSUME TypeOK, NEW step \in Steps
  PROVE  /\ Proceed(step) => worker' \in Workers
         /\ Done(step) => worker' \in Workers
  <1>1. worker \in Workers /\ Nothing \in Copies /\ 0 \in 0..MaxTasks
    BY ConstantTypes, SessionsAssumption DEF TypeOK
  <1>2. [worker EXCEPT !.step = step] \in Workers
    BY <1>1 DEF Workers
  <1>3. [worker EXCEPT !.step = step, !.seen = Nothing, !.trigger = "none", !.took = 0] \in Workers
    BY <1>1 DEF Workers
  <1> QED
    BY <1>2, <1>3 DEF Proceed, Done

LEMMA UpdateType ==
  ASSUME TypeOK, NEW id, NEW s, id \in Ids => s \in Sessions, Update(id, s)
  PROVE  session' \in [Ids -> Sessions]
  BY DEF TypeOK, Update

LEMMA StartsType ==
  ASSUME TypeOK, NEW id \in Ids, NEW trigger \in {"restart", "timeout"}
  PROVE  /\ StartsRecovery(id, trigger) \in Workers
         /\ StartsRecovery(id, trigger).step \in {"expire", "load"}
         /\ StartsRecovery(id, trigger).by = worker.by
         /\ StartsRecovery(id, trigger).took = 0
  <1>1. session[id] \in Sessions /\ id \in 0..MaxSessions
    BY SessionsAssumption DEF TypeOK, Ids
  <1>2. Copy(session[id]) \in Copies
    BY <1>1, RecordType
  <1> DEFINE timedOut == trigger = "timeout" /\ session[id].state # "recovery_pending"
             step == IF timedOut THEN "expire" ELSE "load"
             copy == Copy(session[id])
  <1>3. step \in {"expire", "load"} /\ step \in Steps /\ 0 \in 0..MaxTasks /\ worker \in Workers
    BY SessionsAssumption DEF Steps, TypeOK
  <1>4. StartsRecovery(id, trigger) =
            [worker EXCEPT !.step = step, !.id = id, !.seen = copy, !.trigger = trigger, !.took = 0]
    BY DEF StartsRecovery
  <1> HIDE DEF step, copy
  <1>5. copy \in Copies
    BY <1>2 DEF copy
  <1> QED
    BY <1>1, <1>3, <1>4, <1>5 DEF Workers

LEMMA OthersType ==
  ASSUME TypeOK, UNCHANGED others, session' \in [Ids -> Sessions], worker' \in Workers,
         SnapshotsOK'
  PROVE  TypeOK'
  BY DEF TypeOK, others, tasks

LEMMA RoomKept ==
  ASSUME Room, UNCHANGED opened,
         worker'.by = "recovery" => worker.by = "recovery",
         worker'.step \in {"recoverNext", "switch", "openNew"} => opened < MaxSessions,
         worker'.step \in {"switch", "openNew"} => worker'.by # "recovery"
  PROVE  Room'
  BY DEF Room

\* Steps that leave the registry's other records alone, and go on to `step`.
LEMMA StepType ==
  ASSUME TypeInv, UNCHANGED <<others, snapshots>>, session' \in [Ids -> Sessions],
         NEW step \in Steps \ {"recoverNext", "switch", "openNew"}, Proceed(step) \/ Done(step)
  PROVE  TypeInv'
  <1>1. worker' \in Workers
    BY WorkerType DEF TypeInv
  <1>2. worker'.by = worker.by /\ worker'.step = step /\ opened' = opened
    BY DEF TypeInv, TypeOK, Workers, Proceed, Done, others
  <1>3. TypeOK'
    BY <1>1, OthersType DEF TypeInv, TypeOK
  <1> QED
    BY <1>2, <1>3, RoomKept DEF TypeInv

LEMMA PersistType ==
  ASSUME TypeInv, UNCHANGED others, session' \in [Ids -> Sessions], Persist(session')
  PROVE  TypeInv'
  <1>1. worker' \in Workers /\ worker'.by = worker.by /\ worker'.step = "saving"
    BY WorkerType DEF TypeInv, TypeOK, Workers, Persist, Done, Steps
  <1>2. SnapshotsOK'
    BY SnapshotType, ConstantTypes DEF TypeInv, TypeOK, Persist
  <1>3. TypeOK' /\ opened' = opened
    BY <1>1, <1>2, OthersType DEF TypeInv, others
  <1> QED
    BY <1>1, <1>3, RoomKept DEF TypeInv

LEMMA RecoveryStepsType == TypeInv /\ Recovery => TypeInv'
  <1> SUFFICES ASSUME TypeInv, Recovery
               PROVE  TypeInv'
    OBVIOUS
  <1> USE DEF TypeInv, Steps
  <1>0. \A id \in Ids : session[id] \in Sessions
    BY DEF TypeOK
  <1>1. CASE MarkPending
    BY <1>0, <1>1, RecordType, UpdateType, StepType DEF MarkPending
  <1>2. CASE LoadActive
    <2>1. PICK step \in {"resolve", "supersede", "checkpoint"} : Proceed(step)
      BY <1>2 DEF LoadActive
    <2>2. UNCHANGED <<others, session, snapshots>> /\ session \in [Ids -> Sessions]
      BY <1>2 DEF LoadActive, TypeOK
    <2> QED
      BY <2>1, <2>2, StepType
  <1>3. CASE RecoveryFails
    BY <1>0, <1>3, RecordType, UpdateType, StepType DEF RecoveryFails
  <1>4. CASE RecoveryCheckpoint
    <2>1. PICK took \in {0, task} : worker' = [worker EXCEPT !.step = "resolve", !.took = took]
      BY <1>4 DEF RecoveryCheckpoint
    <2>2. took \in 0..MaxTasks /\ worker \in Workers
      BY SessionsAssumption DEF TypeOK
    <2>3. worker' \in Workers /\ worker'.by = worker.by /\ worker'.step = "resolve"
      BY <2>1, <2>2 DEF Workers
    <2>4. UNCHANGED <<others, session, snapshots>>
      BY <1>4 DEF RecoveryCheckpoint
    <2>5. TypeOK' /\ opened' = opened
      BY <2>3, <2>4, OthersType DEF TypeOK, others
    <2> QED
      BY <2>3, <2>5, RoomKept
  <1>5. CASE Resolve
    BY <1>0, <1>5, RecordType, UpdateType, PersistType DEF Resolve
  <1> QED
    BY <1>1, <1>2, <1>3, <1>4, <1>5 DEF Recovery

LEMMA OpeningType == TypeInv /\ Opening => TypeInv'
  <1> SUFFICES ASSUME TypeInv, Opening
               PROVE  TypeInv'
    OBVIOUS
  <1> USE DEF TypeInv, Steps
  <1>0. /\ worker \in Workers /\ session \in [Ids -> Sessions] /\ Idle \in Workers
        /\ SnapshotsOK
        /\ \A id \in Ids : session[id] \in Sessions /\ id \in 0..MaxSessions
    BY ConstantTypes, SessionsAssumption DEF TypeOK, Ids
  <1>1. ASSUME NEW id \in Ids, RecoverNext(id)
        PROVE  TypeInv'
    <2> DEFINE wanted == /\ session[id].state = "interrupted" \/ session[id].reason = "restart"
                         /\ session[id].retry # "later"
               w == IF wanted THEN StartsRecovery(id, "restart") ELSE worker
    <2>1. worker' = [w EXCEPT !.todo = @ \ {id}] /\ UNCHANGED <<others, session, snapshots>>
      BY <1>1 DEF RecoverNext
    <2>2. w \in Workers /\ w.by = worker.by /\ w.step \in {"expire", "load", "recoverNext"}
      BY <1>0, <1>1, StartsType DEF RecoverNext, Busy
    <2>3. opened < MaxSessions
      BY <1>1 DEF RecoverNext, Busy, Room
    <2> HIDE DEF w
    <2>4. worker' \in Workers
      BY <2>1, <2>2 DEF Workers
    <2>5. TypeOK' /\ opened' = opened
      BY <1>0, <2>1, <2>4, OthersType DEF others
    <2>6. worker'.step \in {"expire", "load", "recoverNext"}
      BY <2>1, <2>2, <1>0 DEF Workers
    <2> QED
      BY <2>3, <2>5, <2>6 DEF Room
  <1>2. CASE DetectSwitch
    <2>1. opened < MaxSessions /\ UNCHANGED <<others, session, snapshots>>
      BY <1>2 DEF DetectSwitch, Busy, Room
    <2>2. PICK step \in {"switch", "openNew"}, id \in 0..MaxSessions :
             worker' = [worker EXCEPT !.step = step, !.by = "open", !.id = id]
      <3>1. 0 \in 0..MaxSessions
        BY SessionsAssumption
      <3> QED
        BY <1>0, <1>2, <3>1 DEF DetectSwitch
    <2>3. worker' \in Workers /\ worker'.by = "open"
      BY <1>0, <2>2 DEF Workers
    <2>4. TypeOK' /\ opened' = opened
      BY <1>0, <2>1, <2>3, OthersType DEF others
    <2> QED
      BY <2>1, <2>3, <2>4 DEF Room
  <1>3. CASE SwitchCheckpoint
    <2>1. opened < MaxSessions /\ UNCHANGED <<others, snapshots>>
      BY <1>3 DEF SwitchCheckpoint, Busy, Room
    <2>2. worker' = [worker EXCEPT !.step = "openNew", !.id = 0] /\ 0 \in 0..MaxSessions
      BY <1>3, SessionsAssumption DEF SwitchCheckpoint
    <2>3. worker' \in Workers /\ worker'.by = worker.by
      BY <1>0, <2>2 DEF Workers
    <2>4. worker.by # "recovery"
      BY <1>3 DEF SwitchCheckpoint, Busy, Room
    <2>5. session' \in [Ids -> Sessions]
      BY <1>0, <1>3, RecordType, UpdateType DEF SwitchCheckpoint, Ended
    <2>6. TypeOK' /\ opened' = opened
      BY <1>0, <2>1, <2>3, <2>5, OthersType DEF others
    <2> QED
      BY <2>1, <2>6, <2>3, <2>4 DEF Room
  <1>4. CASE OpenNew
    <2>1. opened < MaxSessions /\ opened \in 0..MaxSessions
      BY <1>4 DEF OpenNew, Busy, Room, TypeOK
    <2>2. opened' \in Ids /\ opened' \in 0..MaxSessions
      BY <1>4, <2>1, SessionsAssumption DEF OpenNew, Ids
    <2>3. worker' = [worker EXCEPT !.step = "attach", !.id = opened', !.agent = NoAgent]
      BY <1>4 DEF OpenNew
    <2>4. worker' \in Workers /\ worker'.step = "attach" /\ worker'.by = worker.by
      BY <1>0, <2>2, <2>3 DEF Workers
    <2>5. Absent.agent = NoAgent /\ worker.agent \in Agents \cup {NoAgent}
      BY <1>0 DEF Absent, Workers
    <2>6. opensAs(worker.agent) \in Sessions
      BY <2>5, ConstantTypes DEF opensAs, Absent, Sessions, States, Live
    <2>7. session' \in [Ids -> Sessions]
      BY <1>4, <2>6, UpdateType DEF OpenNew
    <2>8. TypeOK'
      BY <1>4, <2>2, <2>4, <2>7 DEF OpenNew, TypeOK, tasks
    <2>9. worker.by # "recovery"
      BY <1>4 DEF OpenNew, Busy, Room
    <2> QED
      BY <2>4, <2>8, <2>9 DEF Room
  <1>5. CASE OpenAttach
    <2>1. task \in 0..MaxTasks
      BY DEF TypeOK
    <2>2. session' \in [Ids -> Sessions]
      BY <1>0, <1>5, <2>1, RecordType, UpdateType DEF OpenAttach
    <2> QED
      BY <1>5, <2>2, StepType DEF OpenAttach
  <1> QED
    BY <1>1, <1>2, <1>3, <1>4, <1>5 DEF Opening

LEMMA HandlingType == TypeInv /\ Handling => TypeInv'
  <1> SUFFICES ASSUME TypeInv, Handling
               PROVE  TypeInv'
    OBVIOUS
  <1> USE DEF TypeInv, Steps
  <1>0. /\ worker \in Workers /\ session \in [Ids -> Sessions] /\ Idle \in Workers
        /\ SnapshotsOK
        /\ task \in 0..MaxTasks
        /\ \A id \in Ids : session[id] \in Sessions
    BY ConstantTypes DEF TypeOK
  <1>1. CASE RequestFails
    <2>1. TypeOK' /\ opened' = opened
      BY <1>0, <1>1, OthersType DEF RequestFails, others
    <2> QED
      BY <1>1, <2>1, RoomKept DEF RequestFails, Idle
  <1>2. CASE BeginTask
    <2>1. started' \in 0..MaxTasks /\ task' \in 0..MaxTasks
      BY <1>2, SessionsAssumption DEF BeginTask, TypeOK
    <2>2. session' \in [Ids -> Sessions]
      BY <1>0, <1>2, <2>1, RecordType, UpdateType DEF BeginTask
    <2>3. worker' \in Workers /\ worker'.by = worker.by /\ worker'.step = "save"
      BY <1>0, <1>2, WorkerType DEF BeginTask, Done, Workers
    <2>4. TypeOK' /\ opened' = opened
      BY <1>2, <2>1, <2>2, <2>3 DEF BeginTask, TypeOK
    <2> QED
      BY <2>3, <2>4, RoomKept
  <1>3. CASE Report
    <2>1. session' \in [Ids -> Sessions]
      BY <1>0, <1>3, RecordType, UpdateType DEF Report
    <2> QED
      BY <1>3, <2>1, StepType DEF Report
  <1>4. CASE FinishTask
    <2>1. task' \in 0..MaxTasks
      BY <1>4, SessionsAssumption DEF FinishTask
    <2>2. session' \in [Ids -> Sessions]
      BY <1>0, <1>4, RecordType, UpdateType DEF FinishTask
    <2>3. worker' \in Workers /\ worker'.by = worker.by /\ worker'.step = "save"
      BY <1>0, <1>4, WorkerType DEF FinishTask, Done, Workers
    <2>4. TypeOK' /\ opened' = opened
      BY <1>4, <2>1, <2>2, <2>3 DEF FinishTask, TypeOK
    <2> QED
      BY <2>3, <2>4, RoomKept
  <1>5. CASE CloseSession
    <2> DEFINE s == session[worker.id]
               attached == {attachTask(s, t) : t \in IF worker.seen.task # 0 /\ task # 0
                                                     THEN {task} ELSE {}}
    <2>1. PICK now \in {s} \cup attached :
             Update(worker.id, end(now, "closed")) \/ Update(worker.id, now)
      BY <1>5 DEF CloseSession
    <2>2. worker.id \in Ids => now \in Sessions
      BY <1>0, <2>1, RecordType
    <2>3. worker.id \in Ids => end(now, "closed") \in Sessions
      BY <2>2, RecordType DEF Ended
    <2>4. session' \in [Ids -> Sessions]
      BY <2>1, <2>2, <2>3, UpdateType
    <2> QED
      BY <1>5, <2>4, StepType DEF CloseSession
  <1> QED
    BY <1>1, <1>2, <1>3, <1>4, <1>5 DEF Handling

LEMMA WritingType ==
  TypeInv /\ (Save \/ \E w \in Writers : Written(w)) => TypeInv'
  <1> USE DEF TypeInv
  <1>1. ASSUME TypeInv, Save
        PROVE  TypeInv'
    <2>1. session \in [Ids -> Sessions] /\ session' = session
      BY <1>1 DEF Save, TypeOK
    <2> QED
      BY <1>1, <2>1, PersistType DEF Save
  <1>2. ASSUME TypeInv, NEW w \in Writers, Written(w)
        PROVE  TypeInv'
    <2>1. writes[w] \in Snapshots
      BY <1>2 DEF Written, TypeOK
    <2>2. journal' \in Snapshots /\ SnapshotsOK'
      BY <1>2, <2>1 DEF Written, TypeOK
    <2>3. /\ worker' \in Workers
          /\ worker'.by = "recovery" => worker.by = "recovery"
          /\ worker'.step \in {"recoverNext", "switch", "openNew"} => opened < MaxSessions
          /\ worker'.step \in {"switch", "openNew"} => worker'.by # "recovery"
      <3>1. CASE worker' = worker
        BY <1>2, <3>1 DEF TypeOK, Room
      <3>2. CASE worker.by = "recovery" /\ worker' = [worker EXCEPT !.step = "recoverNext", !.id = 0]
        <4>1. worker \in Workers /\ 0 \in 0..MaxSessions /\ opened < MaxSessions
          BY <1>2, <3>2, SessionsAssumption DEF TypeOK, Room
        <4> QED
          BY <3>2, <4>1 DEF Workers, Steps
      <3>3. CASE worker' = Idle
        BY <3>3, ConstantTypes DEF Idle
      <3> QED
        BY <1>2, <3>1, <3>2, <3>3 DEF Written
    <2>4. UNCHANGED <<up, stopping, session, opened, scan, reading, leaving, heard, tasks, restarts>>
      BY <1>2 DEF Written
    <2>5. TypeOK'
      BY <1>2, <2>2, <2>3, <2>4 DEF TypeOK, tasks
    <2> QED
      BY <1>2, <2>3, <2>4, <2>5, RoomKept
  <1> QED
    BY <1>1, <1>2

LEMMA RequestsType == TypeInv /\ Requests => TypeInv'
  <1> USE DEF TypeInv
  <1>0. Idle \in Workers
    BY ConstantTypes
  <1>1. ASSUME TypeInv, NEW a \in Agents, BeginOpen(a)
        PROVE  TypeInv'
    <2> DEFINE todo == {id \in Ids : session[id].state # "absent"}
    <2>1. worker' = [Idle EXCEPT !.step = "recoverNext", !.by = "recovery", !.agent = a,
                                 !.todo = todo]
      BY <1>1 DEF BeginOpen
    <2>2. todo \in SUBSET Ids
      OBVIOUS
    <2> HIDE DEF todo
    <2>3. worker' \in Workers
      BY <1>0, <2>1, <2>2 DEF Workers, Steps
    <2>4. /\ opened < MaxSessions /\ opened' = opened
          /\ worker'.step = "recoverNext"
      BY <1>1, <2>1 DEF BeginOpen, others, Idle
    <2>5. TypeOK'
      BY <1>1, <2>3, OthersType DEF BeginOpen, TypeOK
    <2> QED
      BY <2>4, <2>5 DEF Room
  <1>2. ASSUME TypeInv, NEW id \in Ids, NEW step \in {"begin", "report", "finish", "close"},
               BeginRequest(id, step)
        PROVE  TypeInv'
    <2> DEFINE copy == Copy(session[id])
    <2>1. copy \in Copies /\ id \in 0..MaxSessions
      BY <1>2, RecordType, SessionsAssumption DEF TypeOK, Ids
    <2>2. worker' = [Idle EXCEPT !.step = step, !.by = "client", !.id = id, !.seen = copy]
      BY <1>2 DEF BeginRequest, Enter
    <2> HIDE DEF copy
    <2>3. worker' \in Workers /\ worker'.by = "client" /\ worker'.step = step
      BY <1>0, <2>1, <2>2 DEF Workers, Steps
    <2>4. TypeOK' /\ opened' = opened
      BY <1>2, <2>3, OthersType DEF BeginRequest, TypeOK, others
    <2> QED
      BY <1>2, <2>3, <2>4, RoomKept
  <1>3. ASSUME TypeInv, RefuseClose
        PROVE  TypeInv'
    <2>1. worker' \in Workers /\ worker'.by = "client" /\ worker'.step = "save"
      BY <1>0, <1>3 DEF RefuseClose, Workers, Steps
    <2>2. TypeOK' /\ opened' = opened
      BY <1>3, <2>1, OthersType DEF RefuseClose, TypeOK, others
    <2> QED
      BY <1>3, <2>1, <2>2, RoomKept
  <1> QED
    BY <1>1, <1>2, <1>3 DEF Requests

LEMMA MonitorType ==
  TypeInv /\ (ScanLeases \/ \E id \in Ids : InspectStale(id)) => TypeInv'
  <1> USE DEF TypeInv
  <1>1. ASSUME TypeInv, ScanLeases
        PROVE  TypeInv'
    <2>1. scan' \in SUBSET Ids
      BY <1>1 DEF ScanLeases, staleSessions
    <2>2. TypeOK' /\ UNCHANGED <<opened, worker>>
      BY <1>1, <2>1 DEF ScanLeases, TypeOK, tasks
    <2> QED
      BY <1>1, <2>2 DEF Room
  <1>2. ASSUME TypeInv, NEW id \in Ids, InspectStale(id)
        PROVE  TypeInv'
    <2>1. scan' \in SUBSET Ids /\ heard' \in BOOLEAN
          /\ UNCHANGED <<up, stopping, session, opened, reading, leaving, snapshots, journal, tasks,
                         restarts>>
      BY <1>2 DEF InspectStale, TypeOK
    <2>2. PICK trigger \in {"restart", "timeout"} :
             worker' = worker \/ worker' = [StartsRecovery(id, trigger) EXCEPT !.by = "monitor"]
      BY <1>2 DEF InspectStale
    <2>3. CASE worker' = worker
      <3>1. TypeOK' /\ UNCHANGED <<opened, worker>>
        BY <1>2, <2>1, <2>3 DEF TypeOK, tasks
      <3> QED
        BY <1>2, <3>1 DEF Room
    <2>4. CASE worker' = [StartsRecovery(id, trigger) EXCEPT !.by = "monitor"]
      <3>1. StartsRecovery(id, trigger) \in Workers /\ StartsRecovery(id, trigger).step \in {"expire", "load"}
        BY <1>2, StartsType
      <3>2. worker' \in Workers /\ worker'.by = "monitor" /\ worker'.step \in {"expire", "load"}
        BY <2>4, <3>1 DEF Workers
      <3>3. TypeOK' /\ opened' = opened
        BY <1>2, <2>1, <3>2 DEF TypeOK, tasks
      <3> QED
        BY <1>2, <3>2, <3>3, RoomKept
    <2> QED
      BY <2>2, <2>3, <2>4
  <1> QED
    BY <1>1, <1>2

LEMMA OutsideType ==
  ASSUME TypeInv, NEW id \in Ids, OutsideQueue(id), ~Written(id)
  PROVE  TypeInv'
  <1> USE DEF TypeInv
  <1>1. /\ session \in [Ids -> Sessions] /\ session[id] \in Sessions
        /\ SnapshotsOK
        /\ worker \in Workers
    BY DEF TypeOK
  <1>2. ASSUME NEW sessions \in [Ids -> Sessions], Take(id, sessions)
        PROVE  SnapshotsOK'
    BY <1>1, <1>2, SnapshotType DEF Writers
  <1>3. /\ session' \in [Ids -> Sessions] /\ SnapshotsOK'
        /\ heard' \in BOOLEAN /\ leaving' \in SUBSET Ids /\ reading' \in [Ids -> 0..MaxTasks]
        /\ UNCHANGED <<up, stopping, opened, worker, scan, journal, tasks, restarts>>
    <2>1. CASE Heartbeat(id)
      <3>1. session' \in [Ids -> Sessions]
        BY <1>1, <2>1, RecordType, UpdateType DEF Heartbeat
      <3>2. SnapshotsOK'
        BY <1>1, <1>2, <2>1, <3>1 DEF Heartbeat
      <3> QED
        BY <2>1, <3>1, <3>2 DEF Heartbeat, Hears, TypeOK
    <2>2. CASE Detach(id)
      <3>1. [session[id] EXCEPT !.state = "detached"] \in Sessions
        BY <1>1 DEF Sessions, States, Live
      <3>2. session' \in [Ids -> Sessions]
        BY <2>2, <3>1, UpdateType DEF Detach
      <3> QED
        BY <2>2, <3>2 DEF Detach, TypeOK
    <2>3. CASE DetachSave(id)
      BY <1>1, <1>2, <2>3 DEF DetachSave, TypeOK
    <2>4. CASE BeginResume(id)
      BY <2>4 DEF BeginResume, TypeOK
    <2>5. CASE Resume(id)
      <3>1. reading[id] \in 0..MaxTasks /\ reading' \in [Ids -> 0..MaxTasks]
        BY <2>5, SessionsAssumption DEF Resume, Hears, TypeOK
      <3>2. session' \in [Ids -> Sessions]
        BY <1>1, <2>5, <3>1, RecordType, UpdateType DEF Resume
      <3>3. SnapshotsOK'
        BY <1>1, <1>2, <2>5, <3>2 DEF Resume
      <3> QED
        BY <2>5, <3>1, <3>2, <3>3 DEF Resume, Hears, TypeOK
    <2> QED
      BY <2>1, <2>2, <2>3, <2>4, <2>5 DEF OutsideQueue
  <1>4. TypeOK'
    BY <1>1, <1>3 DEF TypeOK, tasks
  <1> QED
    BY <1>3, <1>4 DEF Room

LEMMA CrashType ==
  ASSUME TypeInv, Crash
  PROVE  TypeInv'
  <1>1. worker' = Idle /\ Idle \in Workers /\ Absent \in Sessions /\ opened' = opened
    BY ConstantTypes DEF Crash
  <1>2. reading' \in [Ids -> 0..MaxTasks] /\ session' \in [Ids -> Sessions]
    BY <1>1, SessionsAssumption DEF Crash
  <1>3. SnapshotsOK' /\ scan' \in SUBSET Ids
        /\ leaving' \in SUBSET Ids
    BY DEF Crash, Writers
  <1>4. TypeOK'
    BY <1>1, <1>2, <1>3 DEF Crash, TypeInv, TypeOK, tasks
  <1> QED
    BY <1>1, <1>4, RoomKept DEF TypeInv, Idle

\* A shutdown leaves the registry and the worker alone.
LEMMA ShutdownAside ==
  ASSUME TypeOK, Shutdown
  PROVE  /\ UNCHANGED <<up, session, worker, opened, scan, reading, leaving, heard, tasks, restarts>>
         /\ writes'[0] = writes[0]
  <1>1. /\ ByShutdown # 0
        /\ SnapshotsOK
        /\ 0 \in Writers
    BY ConstantTypes, SessionsAssumption DEF ByShutdown, TypeOK
  <1>2. CASE BeginShutdown
    BY <1>2 DEF BeginShutdown
  <1>3. CASE ShutdownSave
    BY <1>1, <1>3 DEF ShutdownSave
  <1>4. CASE Written(ByShutdown)
    BY <1>1, <1>4 DEF Written
  <1> QED
    BY <1>2, <1>3, <1>4 DEF Shutdown

LEMMA ShutdownType ==
  ASSUME TypeInv, Shutdown, ~Written(ByShutdown)
  PROVE  TypeInv'
  <1>1. TypeOK
    BY DEF TypeInv
  <1>2. Snapshot(session) \in Snapshots
    BY <1>1, SnapshotType DEF TypeOK
  <1>3. SnapshotsOK' /\ stopping' \in {"no", "recording", "saved"}
        /\ journal' = journal
    BY <1>1, <1>2 DEF Shutdown, BeginShutdown, ShutdownSave, TypeOK, Writers
  <1>4. TypeOK'
    BY <1>1, <1>3, ShutdownAside DEF TypeOK, tasks
  <1> QED
    BY <1>1, <1>4, ShutdownAside DEF TypeInv, Room

LEMMA EnvironmentType == TypeInv /\ Environment => TypeInv'
  <1> USE DEF TypeInv
  <1>1. ASSUME TypeInv, NEW id \in Ids, LeaseExpires(id) \/ RetryComesDue(id)
        PROVE  TypeInv'
    <2>1. session[id] \in Sessions
      BY <1>1 DEF TypeOK
    <2>2. /\ [session[id] EXCEPT !.live = FALSE] \in Sessions
          /\ [session[id] EXCEPT !.retry = "due"] \in Sessions
      BY <2>1 DEF Sessions
    <2>3. session' \in [Ids -> Sessions] /\ UNCHANGED <<others, worker, snapshots>>
      BY <1>1, <2>2, UpdateType DEF LeaseExpires, RetryComesDue
    <2>4. TypeOK' /\ opened' = opened /\ worker' = worker
      BY <1>1, <2>3, OthersType DEF TypeOK, others
    <2> QED
      BY <1>1, <2>4 DEF Room
  <1>2. ASSUME TypeInv, CommandLine
        PROVE  TypeInv'
    <2>1. task' \in 0..MaxTasks /\ started' \in 0..MaxTasks
      BY <1>2, SessionsAssumption DEF CommandLine, TypeOK
    <2>2. TypeOK' /\ opened' = opened /\ worker' = worker
      BY <1>2, <2>1 DEF CommandLine, TypeOK, memory
    <2> QED
      BY <1>2, <2>2 DEF Room
  <1>3. ASSUME TypeInv, Crash
        PROVE  TypeInv'
    BY <1>3, CrashType
  <1>4. ASSUME TypeInv, Restart
        PROVE  TypeInv'
    <2>1. ASSUME NEW late, NEW id \in Ids
          PROVE  (IF ~journal[id].known \/ ~OnRestart THEN Absent
                  ELSE restoreInterrupted(IF id \in late THEN [journal[id] EXCEPT !.retry = "due"]
                                          ELSE journal[id])) \in Sessions
      <3>1. journal[id] \in Entries
        BY <1>4 DEF TypeOK, Snapshots
      <3>2. [journal[id] EXCEPT !.retry = "due"] \in Entries
        BY <3>1 DEF Entries
      <3> QED
        BY <3>1, <3>2, ConstantTypes
    <2>2. session' \in [Ids -> Sessions]
      BY <1>4, <2>1 DEF Restart
    <2>3. journal' \in Snapshots
      BY <1>4, <2>2, SnapshotType DEF Restart, TypeOK
    <2>4. restarts' \in 0..MaxRestarts
      BY <1>4, SessionsAssumption DEF Restart, TypeOK
    <2>5. TypeOK' /\ opened' = opened /\ worker' = worker
      BY <1>4, <2>2, <2>3, <2>4 DEF Restart, TypeOK, tasks
    <2> QED
      BY <1>4, <2>5 DEF Room
  <1> QED
    BY <1>1, <1>2, <1>3, <1>4 DEF Environment

LEMMA InitType == Init => TypeInv
  <1> SUFFICES ASSUME Init
               PROVE  TypeInv
    OBVIOUS
  <1>1. /\ Absent \in Sessions /\ NoEntry \in Entries /\ Idle \in Workers
        /\ 0 \in 0..MaxSessions /\ 0 \in 0..MaxTasks /\ 0 \in 0..MaxRestarts /\ 0 \in Writers
    BY ConstantTypes, SessionsAssumption
  <1>2. TypeOK
    BY <1>1 DEF Init, TypeOK, Snapshots
  <1> QED
    BY <1>2 DEF Init, TypeInv, Room, Idle

LEMMA NextType == TypeInv /\ [Next]_vars => TypeInv'
  <1> SUFFICES ASSUME TypeInv, [Next]_vars
               PROVE  TypeInv'
    OBVIOUS
  <1>1. CASE Working
    BY <1>1, RecoveryStepsType, OpeningType, HandlingType, WritingType DEF Working, Writers
  <1>2. CASE Requests
    BY <1>2, RequestsType
  <1>3. CASE ScanLeases \/ \E id \in Ids : InspectStale(id)
    BY <1>3, MonitorType
  <1>4. CASE \E id \in Ids : OutsideQueue(id)
    BY <1>4, OutsideType, WritingType DEF Writers
  <1>5. CASE Environment
    BY <1>5, EnvironmentType
  <1>6. CASE Shutdown
    BY <1>6, ShutdownType, WritingType DEF Writers
  <1>7. CASE UNCHANGED vars
    BY <1>7 DEF vars, memory, tasks, TypeInv, TypeOK, Room
  <1> QED
    BY <1>1, <1>2, <1>3, <1>4, <1>5, <1>6, <1>7 DEF Next

LEMMA TypeInvariant == Spec => []TypeInv
  BY InitType, NextType, PTL DEF Spec

\* Every record of a session, of the worker and of the journal has the shape
\* that the code's types and the journal's schema promise, after any number of
\* failures and restarts: in particular no session has more attempts than the
\* limit, and no session is opened without an identifier to give it.
THEOREM TypeCorrect == Spec => []TypeOK
  BY TypeInvariant, PTL DEF TypeInv

----------------------------------------------------------------------------
(* What a step does to the record of a session *)

\* A session whose recovery is pending, with attempts left but no time for one
Waiting(s) == s.state = "recovery_pending" /\ s.attempts < RetryLimit /\ s.retry = "none"

Keeps(s, t) == s.state \in Ended \cup {"absent"} => t.state = s.state

Calm(s, t) == Keeps(s, t) /\ (Waiting(t) => Waiting(s))

LEMMA MethodsCalm ==
  ASSUME NEW s \in Sessions
  PROVE  /\ Calm(s, s)
         /\ Calm(s, touch(s))
         /\ \A t : Calm(s, attachTask(s, t))
         /\ Calm(s, clearTask(s))
         /\ \A state \in Ended : Calm(s, end(s, state)) /\ ~Waiting(end(s, state))
         /\ Keeps(s, markRecoveryPending(s))
         /\ Calm(s, scheduleRecoveryFailure(s)) /\ ~Waiting(scheduleRecoveryFailure(s))
         /\ s.state = "open" => Calm(s, [s EXCEPT !.state = "detached"])
         /\ s.state \in Live => Calm(s, [s EXCEPT !.live = FALSE])
         /\ Calm(s, [s EXCEPT !.retry = "due"])
  <1> USE DEF Calm, Keeps, Waiting, Live, Pending, Ended
  <1>1. Calm(s, touch(s)) /\ Calm(s, s)
    BY DEF touch, Sessions
  <1>2. ASSUME NEW t
        PROVE  Calm(s, attachTask(s, t))
    BY DEF attachTask, Sessions
  <1>3. Calm(s, clearTask(s))
    BY <1>2 DEF clearTask
  <1>4. ASSUME NEW state
        PROVE  inState(s, state).state = state
    BY DEF inState, Sessions
  <1>5. ASSUME NEW state \in Ended
        PROVE  Calm(s, end(s, state)) /\ ~Waiting(end(s, state))
    BY <1>4 DEF end
  <1>6. Keeps(s, markRecoveryPending(s))
    BY DEF markRecoveryPending
  <1>7. Calm(s, scheduleRecoveryFailure(s)) /\ ~Waiting(scheduleRecoveryFailure(s))
    <2> DEFINE n == IF s.attempts < RetryLimit THEN s.attempts + 1 ELSE RetryLimit
               r == IF n = RetryLimit THEN "none" ELSE "later"
    <2>1. n \in Nat /\ (n < RetryLimit => r = "later")
      BY SessionsAssumption DEF Sessions
    <2>2. scheduleRecoveryFailure(s) =
             IF s.state \in Pending
             THEN [s EXCEPT !.state = "recovery_pending", !.attempts = n, !.retry = r] ELSE s
      BY DEF scheduleRecoveryFailure
    <2> HIDE DEF n, r
    <2> QED
      BY <2>1, <2>2 DEF Sessions
  <1>8. /\ s.state = "open" => Calm(s, [s EXCEPT !.state = "detached"])
        /\ s.state \in Live => Calm(s, [s EXCEPT !.live = FALSE])
        /\ Calm(s, [s EXCEPT !.retry = "due"])
    BY DEF Sessions
  <1> QED
    BY <1>1, <1>2, <1>3, <1>5, <1>6, <1>7, <1>8

LEMMA UpdateCalm ==
  ASSUME TypeOK, NEW id, NEW s, Update(id, s), id \in Ids => Calm(session[id], s)
  PROVE  \A other \in Ids : Calm(session[other], session'[other])
  <1>1. \A other \in Ids : Calm(session[other], session[other])
    BY MethodsCalm DEF TypeOK
  <1>2. \A other \in Ids : session'[other] = IF other = id THEN s ELSE session[other]
    BY DEF Update, TypeOK
  <1> QED
    BY <1>1, <1>2

Recovering == {"load", "checkpoint", "resolve", "supersede"}

\* A session that is left waiting was waiting before, and is still in the hands
\* of the worker if it was; or it is in the worker's hands now.
InHand(id) == worker.id = id /\ worker.step \in Recovering

RetryStep ==
    \A id \in Ids : Waiting(session'[id]) =>
        \/ Waiting(session[id]) /\ (InHand(id) => InHand(id)')
        \/ InHand(id)'

AllKept == \A id \in Ids : Keeps(session[id], session'[id])

LEMMA CalmStep ==
  ASSUME \A id \in Ids : Calm(session[id], session'[id]),
         worker.step \in Recovering => UNCHANGED worker
  PROVE  AllKept /\ RetryStep
  BY DEF AllKept, RetryStep, Calm, InHand

LEMMA RecoveryKeeps ==
  ASSUME TypeOK, Recovery
  PROVE  AllKept /\ RetryStep
  <1>0. /\ \A id \in Ids : session[id] \in Sessions
        /\ \A id \in Ids : Calm(session[id], session[id])
        /\ session \in [Ids -> Sessions] /\ worker \in Workers
    BY MethodsCalm DEF TypeOK
  <1>1. CASE MarkPending
    <2> DEFINE id == worker.id
    <2>1. worker'.id = worker.id /\ worker'.step \in Recovering
      BY <1>0, <1>1 DEF MarkPending, Proceed, Recovering, Workers
    <2>2. \A o \in Ids : session'[o] = IF o = id THEN markRecoveryPending(session[id])
                                       ELSE session[o]
      BY <1>0, <1>1 DEF MarkPending, Update
    <2>3. worker.step \notin Recovering
      BY <1>1 DEF MarkPending, Busy, Recovering
    <2>4. ASSUME NEW o \in Ids, o # id
          PROVE  Keeps(session[o], session'[o]) /\ (Waiting(session'[o]) => Waiting(session[o]))
      BY <1>0, <2>2, <2>4 DEF Calm
    <2>5. id \in Ids => Keeps(session[id], session'[id])
      BY <1>0, <2>2, MethodsCalm
    <2>6. \A o \in Ids : ~InHand(o)
      BY <2>3 DEF InHand
    <2>7. AllKept
      BY <2>4, <2>5 DEF AllKept
    <2>8. ASSUME NEW o \in Ids, Waiting(session'[o])
          PROVE  (Waiting(session[o]) /\ (InHand(o) => InHand(o)')) \/ InHand(o)'
      <3>1. CASE o = id
        BY <2>1, <3>1 DEF InHand
      <3>2. CASE o # id
        BY <2>4, <2>6, <2>8, <3>2
      <3> QED
        BY <3>1, <3>2
    <2> QED
      BY <2>7, <2>8 DEF RetryStep
  <1>2. CASE LoadActive \/ RecoveryCheckpoint
    <2>1. worker'.step \in Recovering /\ worker'.id = worker.id /\ session' = session
      BY <1>0, <1>2 DEF LoadActive, RecoveryCheckpoint, Proceed, Recovering, Workers
    <2> QED
      BY <1>0, <2>1 DEF AllKept, RetryStep, Calm, InHand
  <1>3. CASE RecoveryFails \/ Resolve
    <2> DEFINE id == worker.id
    <2>1. PICK s : Update(id, s) /\ (id \in Ids => Calm(session[id], s) /\ ~Waiting(s))
      BY <1>0, <1>3, MethodsCalm DEF RecoveryFails, Resolve
    <2>2. \A o \in Ids : Calm(session[o], session'[o])
      BY <2>1, UpdateCalm
    <2>3. \A o \in Ids : o = id => ~Waiting(session'[o])
      BY <1>0, <2>1 DEF Update
    <2> QED
      BY <2>2, <2>3 DEF AllKept, RetryStep, Calm, InHand
  <1> QED
    BY <1>1, <1>2, <1>3 DEF Recovery

LEMMA WorkerKeeps ==
  ASSUME TypeOK, (Opening /\ ~OpenNew) \/ Handling \/ Save \/ Requests
  PROVE  AllKept /\ RetryStep
  <1>0. /\ \A id \in Ids : session[id] \in Sessions
        /\ \A id \in Ids : Calm(session[id], session[id])
    BY MethodsCalm DEF TypeOK
  <1>1. worker.step \notin Recovering
    BY DEF Opening, RecoverNext, DetectSwitch, SwitchCheckpoint, OpenAttach, Handling,
           RequestFails, BeginTask, Report, FinishTask, CloseSession, Save, Requests, BeginOpen,
           BeginRequest, RefuseClose, Busy, Recovering
  <1>2. CASE Update(worker.id, attachTask(session[worker.id], task'))
    BY <1>0, <1>1, <1>2, MethodsCalm, UpdateCalm, CalmStep
  <1>3. CASE UNCHANGED session
    BY <1>0, <1>1, <1>3, CalmStep
  <1>4. CASE SwitchCheckpoint \/ FinishTask
    BY <1>0, <1>1, <1>3, <1>4, MethodsCalm, UpdateCalm, CalmStep
       DEF SwitchCheckpoint, FinishTask, Ended
  <1>5. CASE CloseSession
    <2> DEFINE s == session[worker.id]
    <2>1. PICK now : /\ now = s \/ \E t \in 0..MaxTasks : now = attachTask(s, t)
                     /\ Update(worker.id, end(now, "closed")) \/ Update(worker.id, now)
      BY <1>5 DEF CloseSession, TypeOK
    <2>2. worker.id \in Ids => now \in Sessions /\ Calm(s, now)
      BY <1>0, <2>1, RecordType, MethodsCalm
    <2>3. worker.id \in Ids => Calm(now, end(now, "closed"))
      BY <2>2, MethodsCalm DEF Ended
    <2>4. worker.id \in Ids => Calm(s, end(now, "closed"))
      BY <2>2, <2>3 DEF Calm, Keeps
    <2> QED
      BY <1>1, <2>1, <2>2, <2>4, UpdateCalm, CalmStep
  <1> QED
    BY <1>2, <1>3, <1>4, <1>5
       DEF Opening, RecoverNext, DetectSwitch, OpenAttach, Handling, RequestFails, BeginTask,
           Report, Save, Requests, BeginOpen, BeginRequest, RefuseClose, others, tasks

LEMMA OutsideKeeps ==
  ASSUME TypeOK, NEW id \in Ids, OutsideQueue(id) \/ LeaseExpires(id) \/ RetryComesDue(id)
  PROVE  AllKept /\ RetryStep
  <1>0. /\ \A o \in Ids : session[o] \in Sessions
        /\ \A o \in Ids : Calm(session[o], session[o])
    BY MethodsCalm DEF TypeOK
  <1>1. UNCHANGED worker
    <2>1. id # 0
      BY DEF Ids
    <2> QED
      BY <2>1 DEF OutsideQueue, Heartbeat, Detach, DetachSave, BeginResume, Resume, LeaseExpires,
                  RetryComesDue, others, Written
  <1>2. CASE UNCHANGED session
    BY <1>0, <1>1, <1>2, CalmStep
  <1>3. ASSUME NEW s, Update(id, s), Calm(session[id], s)
        PROVE  AllKept /\ RetryStep
    BY <1>1, <1>3, UpdateCalm, CalmStep
  <1> QED
    BY <1>0, <1>2, <1>3, MethodsCalm
       DEF OutsideQueue, Heartbeat, Detach, DetachSave, BeginResume, Resume, LeaseExpires,
           RetryComesDue, Written

\* Only a handler that waits for its snapshot to be written has one.
Stray == worker.step # "saving" => writes[0] = NoWrite

LEMMA NextStray == TypeOK /\ Stray /\ [Next]_vars => Stray'
  <1> SUFFICES ASSUME TypeOK, Stray, [Next]_vars
               PROVE  Stray'
    OBVIOUS
  <1>0. /\ 0 \in Writers /\ writes \in [Writers -> Snapshots \cup {NoWrite}]
        /\ worker \in Workers
    BY ConstantTypes DEF TypeOK
  <1>1. CASE writes'[0] = NoWrite
    BY <1>1 DEF Stray
  <1>2. CASE UNCHANGED <<worker, writes>>
    BY <1>2 DEF Stray
  <1>3. CASE worker'.step = "saving"
    BY <1>3 DEF Stray
  <1>4. CASE worker.step # "saving" /\ UNCHANGED writes
    BY <1>1, <1>4 DEF Stray
  <1>5. CASE Working
    <2>1. CASE Resolve \/ Save
      BY <1>0, <1>3, <2>1 DEF Resolve, Save, Persist, Done, Workers
    <2>2. CASE Written(0)
      BY <1>0, <1>1, <2>2 DEF Written
    <2> QED
      BY <1>4, <1>5, <2>1, <2>2
         DEF Working, Recovery, MarkPending, LoadActive, RecoveryFails, RecoveryCheckpoint, Opening,
             RecoverNext, DetectSwitch, SwitchCheckpoint, OpenNew, OpenAttach, Handling,
             RequestFails, BeginTask, Report, FinishTask, CloseSession, Busy
  <1>6. CASE Requests \/ ScanLeases \/ \E id \in Ids : InspectStale(id)
    BY <1>2, <1>4, <1>6
       DEF Requests, BeginOpen, BeginRequest, RefuseClose, ScanLeases, InspectStale, Busy
  <1>7. ASSUME NEW id \in Ids, OutsideQueue(id)
        PROVE  Stray'
    <2>1. id # 0
      BY DEF Ids
    <2>2. worker' = worker /\ writes'[0] = writes[0]
      BY <1>0, <1>7, <2>1
         DEF OutsideQueue, Heartbeat, Detach, DetachSave, BeginResume, Resume, Written, others
    <2> QED
      BY <2>2 DEF Stray
  <1>8. CASE Environment
    <2>1. CASE Crash
      BY <1>0, <1>1, <2>1 DEF Crash
    <2> QED
      BY <1>2, <1>8, <2>1
         DEF Environment, LeaseExpires, RetryComesDue, CommandLine, Restart, memory
  <1>9. CASE Shutdown
    BY <1>9, ShutdownAside DEF Stray
  <1>10. CASE UNCHANGED vars
    BY <1>2, <1>10 DEF vars, memory
  <1> QED
    BY <1>5, <1>6, <1>7, <1>8, <1>9, <1>10 DEF Next

LEMMA IdleKeeps ==
  ASSUME TypeOK, Stray,
         ScanLeases \/ CommandLine \/ (\E id \in Ids : InspectStale(id)) \/ Written(0)
            \/ Shutdown \/ UNCHANGED vars
  PROVE  AllKept /\ RetryStep
  <1>1. \A id \in Ids : Calm(session[id], session'[id])
    BY MethodsCalm, ShutdownAside
       DEF TypeOK, ScanLeases, CommandLine, InspectStale, Written, vars, memory
  <1>2. worker.step \in Recovering => UNCHANGED worker
    BY ShutdownAside
       DEF ScanLeases, CommandLine, InspectStale, Busy, Written, Stray, Recovering, vars, memory
  <1> QED
    BY <1>1, <1>2, CalmStep

----------------------------------------------------------------------------
(* Recovery attempts, and sessions that have ended *)

\* Identifiers that session.open has not issued yet are nowhere in use.
Unused ==
    \A id \in Ids : id > opened =>
        /\ session[id].state = "absent"
        /\ ~journal[id].known
        /\ \A w \in Writers : writes[w] # NoWrite => ~writes[w][id].known

SessionInv == TypeInv /\ Stray /\ RetryScheduled /\ Unused

Begins == OpenNew \/ Crash \/ Restart

LEMMA StepKeeps ==
  ASSUME TypeOK, Stray, [Next]_vars, ~Begins
  PROVE  AllKept /\ RetryStep
  BY RecoveryKeeps, WorkerKeeps, OutsideKeeps, IdleKeeps
     DEF Next, Working, Environment, Begins

LEMMA BeginsRetry ==
  ASSUME TypeOK, Begins
  PROVE  RetryStep
  <1>1. CASE OpenNew
    <2>1. \A id \in Ids : session'[id] = IF id = opened' THEN opensAs(worker.agent) ELSE session[id]
      BY <1>1 DEF OpenNew, Update, TypeOK
    <2>2. opensAs(worker.agent).state = "open"
      BY DEF opensAs, Absent
    <2>3. worker.step \notin Recovering
      BY <1>1 DEF OpenNew, Busy, Recovering
    <2> QED
      BY <2>1, <2>2, <2>3 DEF RetryStep, Waiting, InHand
  <1>2. CASE Crash
    BY <1>2 DEF Crash, RetryStep, Waiting, Absent
  <1>3. CASE Restart
    <2>1. \A e : restoreInterrupted(e).state = "interrupted"
      BY DEF restoreInterrupted, Absent
    <2>2. Absent.state = "absent"
      BY DEF Absent
    <2>3. \A id \in Ids : session'[id].state \in {"absent", "interrupted"}
      BY <1>3, <2>1, <2>2 DEF Restart
    <2> QED
      BY <2>3 DEF RetryStep, Waiting
  <1> QED
    BY <1>1, <1>2, <1>3 DEF Begins

LEMMA NextRetry == TypeOK /\ Stray /\ RetryScheduled /\ [Next]_vars => RetryScheduled'
  <1> SUFFICES ASSUME TypeOK, Stray, RetryScheduled, [Next]_vars
               PROVE  RetryScheduled'
    OBVIOUS
  <1>1. RetryStep
    BY StepKeeps, BeginsRetry
  <1>2. \A id \in Ids : Waiting(session[id]) => InHand(id)
    BY DEF RetryScheduled, Waiting, InHand, Recovering
  <1>3. \A id \in Ids : Waiting(session'[id]) => InHand(id)'
    BY <1>1, <1>2 DEF RetryStep
  <1> QED
    BY <1>3 DEF RetryScheduled, Waiting, InHand, Recovering

LEMMA RetryInvariant == Spec => [](TypeInv /\ Stray /\ RetryScheduled)
  <1>1. Init => TypeInv /\ Stray /\ RetryScheduled
    <2>1. Init => Stray
      BY ConstantTypes DEF Init, Stray
    <2>2. Init => RetryScheduled
      BY DEF Init, RetryScheduled, Absent
    <2> QED
      BY <2>1, <2>2, InitType
  <1>2. TypeInv /\ Stray /\ RetryScheduled /\ [Next]_vars => (TypeInv /\ Stray /\ RetryScheduled)'
    BY NextType, NextStray, NextRetry DEF TypeInv
  <1> QED
    BY <1>1, <1>2, PTL DEF Spec

\* Whatever fails, and in whatever order handlers, heartbeats and restarts
\* interleave, a session with recovery attempts left has a time for the next.
THEOREM RetryScheduledHolds == Spec => []RetryScheduled
  BY RetryInvariant, PTL

LEMMA SnapshotUnused ==
  ASSUME NEW sessions, NEW id \in Ids, sessions[id].state = "absent"
  PROVE  ~Snapshot(sessions)[id].known
  BY DEF Snapshot, NoEntry, Live, Pending

\* Snapshots are of the registry as it is, and the journal is one of them.
LEMMA SnapshotStep ==
  ASSUME TypeOK, [Next]_vars, ~Begins
  PROVE  /\ opened' = opened
         /\ \A w \in Writers : writes'[w] \in {writes[w], NoWrite, Snapshot(session')}
         /\ \/ journal' = journal
            \/ \E w \in Writers : writes[w] # NoWrite /\ journal' = writes[w]
  <1>0. writes \in [Writers -> Snapshots \cup {NoWrite}]
    BY DEF TypeOK
  <1>1. CASE UNCHANGED <<opened, journal>> /\ writes' = writes
    BY <1>1
  <1>2. CASE /\ UNCHANGED <<opened, journal>>
             /\ \E w \in Writers : writes' = [writes EXCEPT ![w] = Snapshot(session')]
    BY <1>0, <1>2
  <1>3. ASSUME NEW w \in Writers, Written(w)
        PROVE  /\ opened' = opened
               /\ \A v \in Writers : writes'[v] \in {writes[v], NoWrite, Snapshot(session')}
               /\ \/ journal' = journal
                  \/ \E v \in Writers : writes[v] # NoWrite /\ journal' = writes[v]
    BY <1>0, <1>3 DEF Written
  <1>4. CASE Working
    <2>1. CASE Resolve \/ Save
      BY <1>2, <2>1 DEF Resolve, Save, Persist, others, Writers
    <2>2. CASE Written(0)
      BY <1>3, <2>2 DEF Writers
    <2> QED
      BY <1>1, <1>4, <2>1, <2>2
         DEF Working, Recovery, MarkPending, LoadActive, RecoveryFails, RecoveryCheckpoint, Opening,
             RecoverNext, DetectSwitch, SwitchCheckpoint, OpenAttach, Handling, RequestFails,
             BeginTask, Report, FinishTask, CloseSession, others, Begins
  <1>5. CASE Requests \/ ScanLeases \/ \E id \in Ids : InspectStale(id)
    BY <1>1, <1>5
       DEF Requests, BeginOpen, BeginRequest, RefuseClose, ScanLeases, InspectStale, others
  <1>6. ASSUME NEW id \in Ids, OutsideQueue(id), ~Written(id)
        PROVE  \/ UNCHANGED <<opened, journal>> /\ writes' = writes
               \/ /\ UNCHANGED <<opened, journal>>
                  /\ writes' = [writes EXCEPT ![id] = Snapshot(session')]
    BY <1>6 DEF OutsideQueue, Heartbeat, Detach, DetachSave, BeginResume, Resume, others
  <1>7. CASE Environment
    BY <1>1, <1>7 DEF Environment, LeaseExpires, RetryComesDue, CommandLine, Begins, others, memory
  <1>8. CASE Shutdown /\ ~Written(ByShutdown)
    BY <1>1, <1>2, <1>8 DEF Shutdown, BeginShutdown, ShutdownSave, Writers
  <1>9. CASE UNCHANGED vars
    BY <1>1, <1>9 DEF vars, memory
  <1> QED
    BY <1>1, <1>2, <1>3, <1>4, <1>5, <1>6, <1>7, <1>8, <1>9 DEF Next, Writers

LEMMA NextUnused == TypeOK /\ Stray /\ Unused /\ [Next]_vars => Unused'
  <1> SUFFICES ASSUME TypeOK, Stray, Unused, [Next]_vars, NEW id \in Ids, id > opened'
               PROVE  /\ session'[id].state = "absent"
                      /\ ~journal'[id].known
                      /\ \A w \in Writers : writes'[w] # NoWrite => ~writes'[w][id].known
    BY DEF Unused
  <1>1. CASE ~Begins
    <2>1. id > opened /\ session[id].state = "absent"
      BY <1>1, SnapshotStep DEF Unused
    <2>2. session'[id].state = "absent"
      BY <1>1, <2>1, StepKeeps DEF AllKept, Keeps
    <2>3. ~Snapshot(session')[id].known
      BY <2>2, SnapshotUnused
    <2> QED
      BY <1>1, <2>1, <2>2, <2>3, SnapshotStep DEF Unused
  <1>2. CASE OpenNew
    <2>1. opened' = opened + 1 /\ opened \in Nat /\ id \in Nat /\ UNCHANGED <<journal, snapshots>>
      BY <1>2, SessionsAssumption DEF OpenNew, TypeOK, Ids
    <2>2. id > opened /\ session'[id] = session[id]
      BY <1>2, <2>1 DEF OpenNew, Update, TypeOK
    <2> QED
      BY <2>1, <2>2 DEF Unused
  <1>3. CASE Crash
    <2>1. id > opened /\ \A w \in Writers : writes'[w] = NoWrite
      BY <1>3 DEF Crash
    <2>2. session'[id].state = "absent"
      BY <1>3 DEF Crash, Absent
    <2>3. ~journal[id].known
      BY <2>1 DEF Unused
    <2> QED
      BY <1>3, <2>1, <2>2, <2>3 DEF Crash
  <1>4. CASE Restart
    <2>1. id > opened /\ UNCHANGED writes
      BY <1>4 DEF Restart
    <2>2. ~journal[id].known
      BY <2>1 DEF Unused
    <2>3. session'[id] = Absent
      BY <1>4, <2>2 DEF Restart
    <2>4. session'[id].state = "absent" /\ ~Snapshot(session')[id].known
      BY <2>3, SnapshotUnused DEF Absent
    <2> QED
      BY <1>4, <2>1, <2>2, <2>4 DEF Restart, Unused
  <1> QED
    BY <1>1, <1>2, <1>3, <1>4 DEF Begins

LEMMA SessionInvariant == Spec => []SessionInv
  <1>1. Init => Unused
    BY ConstantTypes DEF Init, Unused, Absent, NoEntry
  <1>2. TypeInv /\ Stray /\ RetryScheduled /\ Unused /\ [Next]_vars => Unused'
    BY NextUnused DEF TypeInv
  <1> QED
    BY <1>1, <1>2, RetryInvariant, PTL DEF Spec, SessionInv

\* Nothing brings a session back that has been closed or superseded: no handler
\* that was at an await, no failed recovery, no late heartbeat or detach.
THEOREM EndedForGoodHolds == Spec => EndedForGood
  <1> DEFINE Kept == up /\ up' => \A id \in Ids : session[id].state \in Ended =>
                                                   session'[id].state = session[id].state
  <1>1. SessionInv /\ [Next]_vars => Kept
    <2> SUFFICES ASSUME SessionInv, [Next]_vars, up, up', NEW id \in Ids, session[id].state \in Ended
                 PROVE  session'[id].state = session[id].state
      OBVIOUS
    <2>1. CASE ~Begins
      BY <2>1, StepKeeps DEF SessionInv, TypeInv, AllKept, Keeps
    <2>2. CASE OpenNew
      <3>1. opened' = opened + 1 /\ opened \in Nat
        BY <2>2, SessionsAssumption DEF OpenNew, SessionInv, TypeInv, TypeOK
      <3>2. id # opened'
        BY <3>1 DEF SessionInv, Unused, Ended
      <3> QED
        BY <2>2, <3>2 DEF OpenNew, Update, SessionInv, TypeInv, TypeOK
    <2>3. CASE Crash \/ Restart
      BY <2>3 DEF Crash, Restart
    <2> QED
      BY <2>1, <2>2, <2>3 DEF Begins
  <1>2. SessionInv /\ [Next]_vars => [Kept]_vars
    BY <1>1
  <1> QED
    BY <1>2, SessionInvariant, PTL DEF Spec, EndedForGood

----------------------------------------------------------------------------
(* Recovery checkpoints *)

\* Between the comparison of the tasks and the checkpoint, the queue keeps the
\* active task from changing.
OwnTask ==
    /\ worker.step = "checkpoint" /\ worker.seen.task # 0 => worker.seen.task = task
    /\ RecoveryOfOwnTask

LEMMA NextOwnTask ==
  ASSUME Cli = FALSE, TypeOK, OwnTask, [Next]_vars
  PROVE  OwnTask'
  <1> USE DEF OwnTask, RecoveryOfOwnTask
  <1>0. worker \in Workers
    BY DEF TypeOK
  <1>1. CASE worker'.took = 0 /\ worker'.step # "checkpoint"
    BY <1>1
  <1>2. CASE /\ worker'.took = worker.took /\ worker'.seen = worker.seen
             /\ worker'.step # "checkpoint" \/ (worker'.step = worker.step /\ task' = task)
    BY <1>2
  <1>3. \A step \in {"save", "saving"} : Done(step) => worker'.took = 0 /\ worker'.step # "checkpoint"
    BY <1>0 DEF Done, Workers
  <1>4. CASE Working
    <2>1. CASE MarkPending
      BY <1>0, <1>2, <2>1 DEF MarkPending, Proceed, Workers
    <2>2. CASE LoadActive
      <3>1. UNCHANGED <<worker.seen, worker.took, task>> /\ worker'.step \in Steps
        BY <1>0, <2>2 DEF LoadActive, Proceed, Workers, Steps, others, tasks
      <3>2. worker'.step = "checkpoint" /\ worker.seen.task # 0 => worker.seen.task = task
        BY <1>0, <2>2 DEF LoadActive, Proceed, Workers
      <3> QED
        BY <3>1, <3>2
    <2>3. CASE RecoveryCheckpoint
      BY <1>0, <2>3 DEF RecoveryCheckpoint, Busy, Workers, others, tasks
    <2>4. CASE RecoveryFails \/ OpenAttach \/ BeginTask \/ Report \/ FinishTask \/ CloseSession
      BY <1>1, <1>3, <2>4
         DEF RecoveryFails, OpenAttach, BeginTask, Report, FinishTask, CloseSession
    <2>5. CASE Resolve \/ Save
      BY <1>1, <1>3, <2>5 DEF Resolve, Save, Persist
    <2>6. ASSUME NEW id \in Ids, RecoverNext(id)
          PROVE  OwnTask'
      <3> DEFINE wanted == /\ session[id].state = "interrupted" \/ session[id].reason = "restart"
                           /\ session[id].retry # "later"
                 w == IF wanted THEN StartsRecovery(id, "restart") ELSE worker
      <3>1. StartsRecovery(id, "restart") \in Workers /\ StartsRecovery(id, "restart").took = 0
            /\ StartsRecovery(id, "restart").step \in {"expire", "load"}
        BY <2>6, StartsType
      <3>2. worker' = [w EXCEPT !.todo = @ \ {id}] /\ worker.step = "recoverNext"
        BY <2>6 DEF RecoverNext, Busy
      <3>3. w \in Workers /\ (w = worker \/ (w.took = 0 /\ w.step # "checkpoint"))
        BY <1>0, <3>1
      <3> HIDE DEF w
      <3>4. worker'.took = w.took /\ worker'.seen = w.seen /\ worker'.step = w.step
        BY <3>2, <3>3 DEF Workers
      <3> QED
        BY <1>1, <1>2, <3>2, <3>3, <3>4
    <2>7. CASE DetectSwitch \/ SwitchCheckpoint \/ OpenNew
      BY <1>0, <1>2, <2>7 DEF DetectSwitch, SwitchCheckpoint, OpenNew, Workers
    <2>8. CASE RequestFails
      BY <1>1, <2>8 DEF RequestFails, Idle
    <2>9. CASE Written(0)
      BY <1>0, <1>1, <1>2, <2>9 DEF Written, Idle, Workers
    <2> QED
      BY <1>4, <2>1, <2>2, <2>3, <2>4, <2>5, <2>6, <2>7, <2>8, <2>9
         DEF Working, Recovery, Opening, Handling
  <1>5. CASE Requests
    BY <1>1, <1>5 DEF Requests, BeginOpen, BeginRequest, RefuseClose, Enter, Idle
  <1>6. CASE ScanLeases
    BY <1>6 DEF ScanLeases, tasks
  <1>7. ASSUME NEW id \in Ids, InspectStale(id)
        PROVE  OwnTask'
    <2>1. UNCHANGED task
      BY <1>7 DEF InspectStale, tasks
    <2>2. PICK trigger \in {"restart", "timeout"} :
             worker' = worker \/ worker' = [StartsRecovery(id, trigger) EXCEPT !.by = "monitor"]
      BY <1>7 DEF InspectStale
    <2>3. /\ StartsRecovery(id, trigger) \in Workers /\ StartsRecovery(id, trigger).took = 0
          /\ StartsRecovery(id, trigger).step \in {"expire", "load"}
      BY <1>7, StartsType
    <2>4. worker' = worker \/ (worker'.took = 0 /\ worker'.step # "checkpoint")
      BY <2>2, <2>3 DEF Workers
    <2> QED
      BY <1>1, <2>1, <2>4
  <1>8. ASSUME NEW id \in Ids, OutsideQueue(id)
        PROVE  OwnTask'
    <2>1. id # 0
      BY DEF Ids
    <2>2. UNCHANGED <<worker, task>>
      BY <1>8, <2>1
         DEF OutsideQueue, Heartbeat, Detach, DetachSave, BeginResume, Resume, Written, others, tasks
    <2> QED
      BY <2>2
  <1>9. CASE Environment
    <2>1. CASE Crash
      BY <1>1, <2>1 DEF Crash, Idle
    <2>2. CASE ~Crash
      <3>1. UNCHANGED <<worker, task>>
        BY <1>9, <2>2
           DEF Environment, LeaseExpires, RetryComesDue, CommandLine, Restart, others, tasks
      <3> QED
        BY <3>1
    <2> QED
      BY <2>1, <2>2
  <1>10. CASE Shutdown
    BY <1>10, ShutdownAside DEF tasks
  <1>11. CASE UNCHANGED vars
    BY <1>11 DEF vars, memory, tasks
  <1> QED
    BY <1>4, <1>5, <1>6, <1>7, <1>8, <1>9, <1>10, <1>11 DEF Next

\* Where only the service starts and finishes tasks, a recovery checkpoint is
\* always one of the task that the silent session was attached to.
THEOREM RecoveryOfOwnTaskHolds ==
  ASSUME Cli = FALSE
  PROVE  Spec => []RecoveryOfOwnTask
  <1>1. Init => OwnTask
    BY DEF Init, OwnTask, RecoveryOfOwnTask, Idle
  <1>2. TypeInv /\ OwnTask /\ [Next]_vars => OwnTask'
    BY NextOwnTask DEF TypeInv
  <1>3. OwnTask => RecoveryOfOwnTask
    BY DEF OwnTask
  <1> QED
    BY <1>1, <1>2, <1>3, TypeInvariant, PTL DEF Spec

----------------------------------------------------------------------------
(* The journal *)

Alive == Live \cup Pending

\* What an entry of a snapshot says of a session, up to the retry time
Told(e, s) ==
    /\ e.known <=> s.state \in Alive
    /\ e.known => e.task = s.task /\ e.attempts = s.attempts

Current(snapshot) == \A id \in Ids : Told(snapshot[id], session[id])

\* Steps between a change of the registry and the snapshot that records it
Unsaved == {"openNew", "attach", "save"}

\* The latest snapshot is current, on its way and when it is in the file.
JournalInv ==
    up /\ worker.step \notin Unsaved =>
        /\ writes[newest] # NoWrite => Current(writes[newest])
        /\ saved => Current(journal)

LEMMA SnapshotTold ==
  ASSUME session' \in [Ids -> Sessions]
  PROVE  \A id \in Ids : Told(Snapshot(session')[id], session'[id])
  <1> SUFFICES ASSUME NEW id \in Ids
               PROVE  Told(Snapshot(session')[id], session'[id])
    OBVIOUS
  <1>1. CASE session'[id].state \in Alive
    BY <1>1 DEF Told, Snapshot, Alive
  <1>2. CASE session'[id].state \notin Alive
    <2>1. Snapshot(session')[id] = NoEntry
      BY <1>2 DEF Snapshot, Alive
    <2>2. NoEntry.known = FALSE
      BY DEF NoEntry
    <2> QED
      BY <1>2, <2>1, <2>2 DEF Told
  <1> QED
    BY <1>1, <1>2

\* A snapshot of the registry as the step leaves it
LEMMA TakeCurrent ==
  ASSUME TypeOK, TypeOK', NEW w \in Writers, Take(w, session')
  PROVE  JournalInv'
  <1>1. /\ session' \in [Ids -> Sessions] /\ newest' = w /\ ~saved'
        /\ writes' = [writes EXCEPT ![w] = Snapshot(session')]
        /\ writes \in [Writers -> Snapshots \cup {NoWrite}]
    BY DEF TypeOK
  <1>2. writes'[newest'] = Snapshot(session')
    BY <1>1
  <1> QED
    BY <1>1, <1>2, SnapshotTold DEF JournalInv, Current

\* Steps that leave the snapshots alone, and the task and attempts of every session
LEMMA StillCurrent ==
  ASSUME JournalInv, UNCHANGED <<up, journal, snapshots>>,
         \A id \in Ids : /\ (session'[id].state \in Alive) = (session[id].state \in Alive)
                        /\ session'[id].task = session[id].task
                        /\ session'[id].attempts = session[id].attempts,
         worker.step \in Unsaved => worker'.step \in Unsaved
  PROVE  JournalInv'
  BY DEF JournalInv, Current, Told

LEMMA WrittenCurrent ==
  ASSUME TypeOK, JournalInv, NEW w \in Writers, Written(w),
         worker.step \in Unsaved => worker'.step \in Unsaved
  PROVE  JournalInv'
  <1> SUFFICES ASSUME up', worker'.step \notin Unsaved
               PROVE  /\ writes'[newest'] # NoWrite => Current(writes[newest])'
                      /\ saved' => Current(journal)'
    BY DEF JournalInv
  <1>1. /\ writes \in [Writers -> Snapshots \cup {NoWrite}] /\ newest \in Writers
        /\ UNCHANGED <<up, session, newest>> /\ writes[w] # NoWrite
        /\ writes' = [writes EXCEPT ![w] = NoWrite]
    BY DEF TypeOK, Written
  <1>2. /\ writes[newest] # NoWrite => Current(writes[newest])
        /\ saved => Current(journal)
    BY <1>1 DEF JournalInv
  <1>3. writes'[newest'] # NoWrite => w # newest /\ writes'[newest'] = writes[newest]
    BY <1>1
  <1>4. saved' => \/ journal' = writes[newest] /\ writes[newest] # NoWrite
                  \/ saved /\ journal' = journal
    BY <1>1 DEF Written
  <1> QED
    BY <1>1, <1>2, <1>3, <1>4 DEF Current

\* A service that is not running does no work and has no snapshot on its way.
Down == up \/ (worker = Idle /\ ~saved /\ \A w \in Writers : writes[w] = NoWrite)

LEMMA NextDown == TypeOK /\ TypeOK' /\ Down /\ [Next]_vars => Down'
  <1> SUFFICES ASSUME TypeOK, TypeOK', Down, [Next]_vars
               PROVE  Down'
    OBVIOUS
  <1> USE DEF Down
  <1>0. up \in BOOLEAN /\ up' \in BOOLEAN
    BY DEF TypeOK
  <1>1. CASE Working
    BY <1>0, <1>1
       DEF Working, Recovery, MarkPending, LoadActive, RecoveryFails, RecoveryCheckpoint, Resolve,
           Opening, RecoverNext, DetectSwitch, SwitchCheckpoint, OpenNew, OpenAttach, Handling,
           RequestFails, BeginTask, Report, FinishTask, CloseSession, Save, Written, Busy, others
  <1>2. CASE Requests \/ ScanLeases \/ \E id \in Ids : InspectStale(id)
    BY <1>0, <1>2
       DEF Requests, BeginOpen, BeginRequest, RefuseClose, ScanLeases, InspectStale, Busy, others
  <1>3. ASSUME NEW id \in Ids, OutsideQueue(id)
        PROVE  Down'
    <2>1. CASE Heartbeat(id)
      BY <1>0, <2>1 DEF Heartbeat
    <2>2. CASE Detach(id) \/ DetachSave(id) \/ BeginResume(id) \/ Resume(id)
      BY <1>0, <2>2 DEF Detach, DetachSave, BeginResume, Resume
    <2>3. CASE Written(id)
      BY <1>0, <2>3 DEF Written
    <2> QED
      BY <1>3, <2>1, <2>2, <2>3 DEF OutsideQueue
  <1>4. CASE Environment
    BY <1>0, <1>4
       DEF Environment, LeaseExpires, RetryComesDue, CommandLine, Crash, Restart,
           others, memory
  <1>5. CASE Shutdown
    BY <1>0, <1>5 DEF Shutdown, BeginShutdown, ShutdownSave, Written
  <1>6. CASE UNCHANGED vars
    BY <1>0, <1>6 DEF vars, memory
  <1> QED
    BY <1>1, <1>2, <1>3, <1>4, <1>5, <1>6 DEF Next

LEMMA NextJournal ==
  ASSUME TypeInv, TypeInv', Stray, Down, JournalInv, [Next]_vars
  PROVE  JournalInv'
  <1>0. /\ worker \in Workers /\ session \in [Ids -> Sessions] /\ TypeOK /\ TypeOK'
        /\ 0 \in Writers /\ \A id \in Ids : id \in Writers /\ session[id] \in Sessions
    BY ConstantTypes DEF TypeInv, TypeOK, Writers
  <1>1. CASE worker'.step \in Unsaved
    BY <1>1 DEF JournalInv
  <1>2. CASE UNCHANGED <<up, session, journal, snapshots>> /\ worker.step \notin Unsaved
    BY <1>2, StillCurrent
  <1>3. CASE UNCHANGED <<up, session, journal, snapshots, worker>>
    BY <1>3, StillCurrent
  <1>4. ASSUME NEW id \in Ids, NEW s, Update(id, s), UNCHANGED <<up, journal, snapshots>>,
               (s.state \in Alive) = (session[id].state \in Alive),
               s.task = session[id].task, s.attempts = session[id].attempts,
               worker.step \in Unsaved => worker'.step \in Unsaved
        PROVE  JournalInv'
    <2>1. \A o \in Ids : session'[o] = IF o = id THEN s ELSE session[o]
      BY <1>0, <1>4 DEF Update
    <2> QED
      BY <1>4, <2>1, StillCurrent
  <1>5. CASE Working
    <2>1. CASE MarkPending
      <3>1. CASE worker.id \in Ids
        <4> DEFINE s == session[worker.id]
        <4>1. /\ (markRecoveryPending(s).state \in Alive) = (s.state \in Alive)
              /\ markRecoveryPending(s).task = s.task
              /\ markRecoveryPending(s).attempts = s.attempts
          BY <1>0, <3>1 DEF markRecoveryPending, inState, Alive, Pending, Sessions
        <4>2. worker.step \notin Unsaved /\ UNCHANGED <<up, journal, snapshots>>
              /\ Update(worker.id, markRecoveryPending(s))
          BY <2>1 DEF MarkPending, Busy, others, Unsaved
        <4> QED
          BY <1>4, <3>1, <4>1, <4>2
      <3>2. CASE worker.id \notin Ids
        <4>1. session' = session
          BY <1>0, <2>1, <3>2 DEF MarkPending, Update
        <4> QED
          BY <1>2, <2>1, <4>1 DEF MarkPending, Busy, others, Unsaved
      <3> QED
        BY <3>1, <3>2
    <2>2. CASE LoadActive \/ RecoveryCheckpoint \/ DetectSwitch \/ RequestFails
               \/ \E id \in Ids : RecoverNext(id)
      BY <1>2, <2>2
         DEF LoadActive, RecoveryCheckpoint, DetectSwitch, RequestFails, RecoverNext, Busy, others,
             Unsaved
    <2>3. CASE SwitchCheckpoint \/ OpenNew \/ OpenAttach \/ BeginTask \/ Report \/ FinishTask
               \/ CloseSession \/ RecoveryFails
      <3>1. worker'.step \in {"openNew", "attach", "save"}
        BY <1>0, <2>3
           DEF SwitchCheckpoint, OpenNew, OpenAttach, BeginTask, Report, FinishTask, CloseSession,
               RecoveryFails, Done, Workers
      <3> QED
        BY <1>1, <3>1 DEF Unsaved
    <2>4. CASE Resolve \/ Save
      <3>1. Take(0, session')
        BY <2>4 DEF Resolve, Save, Persist
      <3> QED
        BY <1>0, <3>1, TakeCurrent
    <2>5. CASE Written(0)
      <3>1. worker.step = "saving"
        BY <2>5 DEF Written, Stray
      <3> QED
        BY <1>0, <2>5, <3>1, WrittenCurrent DEF Unsaved
    <2> QED
      BY <1>5, <2>1, <2>2, <2>3, <2>4, <2>5 DEF Working, Recovery, Opening, Handling
  <1>6. CASE Requests \/ \E id \in Ids : InspectStale(id)
    BY <1>2, <1>6
       DEF Requests, BeginOpen, BeginRequest, RefuseClose, InspectStale, Busy, Unsaved, others
  <1>7. CASE ScanLeases \/ CommandLine \/ UNCHANGED vars
    BY <1>3, <1>7 DEF ScanLeases, CommandLine, vars, memory
  <1>8. ASSUME NEW id \in Ids, OutsideQueue(id)
        PROVE  JournalInv'
    <2>1. CASE Heartbeat(id)
      <3>1. CASE UNCHANGED snapshots
        <4>1. touch(session[id]).state = session[id].state
              /\ touch(session[id]).task = session[id].task
              /\ touch(session[id]).attempts = session[id].attempts
          BY <1>0 DEF touch, Sessions
        <4> QED
          BY <1>4, <2>1, <3>1, <4>1 DEF Heartbeat
      <3>2. CASE Take(id, session')
        BY <1>0, <3>2, TakeCurrent
      <3> QED
        BY <2>1, <3>1, <3>2 DEF Heartbeat
    <2>2. CASE Detach(id)
      <3> DEFINE s == [session[id] EXCEPT !.state = "detached"]
      <3>1. /\ (s.state \in Alive) = (session[id].state \in Alive)
            /\ s.task = session[id].task /\ s.attempts = session[id].attempts
        BY <1>0, <2>2 DEF Detach, Sessions, Alive, Live
      <3> QED
        BY <1>4, <2>2, <3>1 DEF Detach
    <2>3. CASE DetachSave(id)
      <3>1. Take(id, session')
        BY <2>3 DEF DetachSave
      <3> QED
        BY <1>0, <3>1, TakeCurrent
    <2>4. CASE BeginResume(id)
      BY <1>3, <2>4 DEF BeginResume
    <2>5. CASE Resume(id)
      <3>1. Take(id, session') \/ UNCHANGED <<up, session, journal, snapshots, worker>>
        BY <2>5 DEF Resume
      <3> QED
        BY <1>0, <1>3, <3>1, TakeCurrent
    <2>6. CASE Written(id)
      <3>1. worker' = worker
        BY <2>6 DEF Written, Ids
      <3> QED
        BY <1>0, <2>6, <3>1, WrittenCurrent
    <2> QED
      BY <1>8, <2>1, <2>2, <2>3, <2>4, <2>5, <2>6 DEF OutsideQueue
  <1>9. CASE Shutdown
    <2>0. ByShutdown \in Writers /\ ByShutdown # 0
      BY SessionsAssumption DEF Writers, ByShutdown
    <2>1. CASE BeginShutdown
      BY <1>3, <2>1 DEF BeginShutdown
    <2>2. CASE ShutdownSave
      <3>1. Take(ByShutdown, session')
        BY <2>2 DEF ShutdownSave
      <3> QED
        BY <1>0, <2>0, <3>1, TakeCurrent
    <2>3. CASE Written(ByShutdown)
      <3>1. worker' = worker
        BY <2>0, <2>3 DEF Written
      <3> QED
        BY <1>0, <2>0, <2>3, <3>1, WrittenCurrent
    <2> QED
      BY <1>9, <2>1, <2>2, <2>3 DEF Shutdown
  <1>10. ASSUME NEW id \in Ids, LeaseExpires(id) \/ RetryComesDue(id)
         PROVE  JournalInv'
    <2>1. PICK s : /\ s = [session[id] EXCEPT !.live = FALSE] \/ s = [session[id] EXCEPT !.retry = "due"]
                   /\ Update(id, s)
      BY <1>10 DEF LeaseExpires, RetryComesDue
    <2>2. s.state = session[id].state /\ s.task = session[id].task /\ s.attempts = session[id].attempts
      BY <1>0, <2>1 DEF Sessions
    <2>3. UNCHANGED <<up, journal, worker, snapshots>>
      BY <1>10 DEF LeaseExpires, RetryComesDue, others
    <2> QED
      BY <1>4, <2>1, <2>2, <2>3
  <1>11. CASE Crash
    BY <1>11 DEF Crash, JournalInv
  <1>12. CASE Restart
    <2>1. /\ writes'[newest'] = NoWrite
          /\ saved' => journal' = Snapshot(session')
      BY <1>12 DEF Restart, Down, TypeInv, TypeOK
    <2>2. session' \in [Ids -> Sessions]
      BY <1>0 DEF TypeOK
    <2> QED
      BY <2>1, <2>2, SnapshotTold DEF JournalInv, Current
  <1> QED
    BY <1>5, <1>6, <1>7, <1>8, <1>9, <1>10, <1>11, <1>12 DEF Next, Environment

\* At rest the journal is exact, with any requests outside the queue and any
\* failures, unless the write of the latest snapshot failed or an older snapshot
\* was renamed over it: every change of the registry is followed by a snapshot
\* that has it, whichever handlers were at an await meanwhile.
THEOREM JournalCurrentHolds == Spec => []JournalCurrent
  <1> DEFINE Inv == TypeInv /\ Stray /\ Down /\ JournalInv
  <1>1. Init => Inv
    <2> SUFFICES ASSUME Init
                 PROVE  Stray /\ Down /\ JournalInv
      BY InitType
    <2>1. Stray /\ Down
      BY ConstantTypes DEF Init, Stray, Down
    <2>2. Current(journal) /\ writes[newest] = NoWrite
      BY ConstantTypes DEF Init, Current, Told, Absent, NoEntry, Alive, Live, Pending
    <2> QED
      BY <2>1, <2>2 DEF JournalInv
  <1>2. Inv /\ [Next]_vars => Inv'
    <2> SUFFICES ASSUME Inv, [Next]_vars
                 PROVE  Inv'
      OBVIOUS
    <2>1. TypeInv' /\ TypeOK /\ TypeOK'
      BY NextType DEF TypeInv
    <2> QED
      BY <2>1, NextStray, NextDown, NextJournal
  <1>3. Inv => JournalCurrent
    <2> SUFFICES ASSUME Inv, AtRest, saved, NEW id \in Ids
                 PROVE  /\ journal[id].known = (session[id].state \in Live \cup Pending)
                        /\ journal[id].known => /\ journal[id].task = session[id].task
                                                /\ journal[id].attempts = session[id].attempts
      BY DEF JournalCurrent, Exact
    <2>1. Told(journal[id], session[id])
      BY DEF AtRest, JournalInv, Current, Idle, Unsaved
    <2>2. journal[id].known \in BOOLEAN
      BY DEF TypeInv, TypeOK, Snapshots, Entries
    <2> QED
      BY <2>1, <2>2 DEF Told, Alive
  <1> QED
    BY <1>1, <1>2, <1>3, PTL DEF Spec

----------------------------------------------------------------------------
(* Leases *)

\* A lease that had expired when the monitor began to recover its session is
\* still expired when the session is marked, unless the session was heard of.
Silent == worker.step = "expire" => worker.id \in Ids /\ (heard \/ ~Fresh(session[worker.id]))

LEMMA NextSilent ==
  ASSUME TypeOK, Down, Silent, [Next]_vars
  PROVE  Silent'
  <1>0. worker \in Workers /\ session \in [Ids -> Sessions]
    BY DEF TypeOK
  <1>1. CASE worker'.step # "expire"
    BY <1>1 DEF Silent
  <1>2. CASE UNCHANGED <<session, worker, heard>>
    BY <1>2 DEF Silent, Fresh
  <1>3. CASE Working
    <2>1. CASE Recovery \/ Save
      BY <1>0, <1>1, <2>1
         DEF Recovery, MarkPending, LoadActive, RecoveryFails, RecoveryCheckpoint, Resolve, Save,
             Persist, Done, Proceed, Workers
    <2>2. ASSUME NEW id \in Ids, RecoverNext(id)
          PROVE  Silent'
      <3> DEFINE wanted == /\ session[id].state = "interrupted" \/ session[id].reason = "restart"
                           /\ session[id].retry # "later"
                 r == StartsRecovery(id, "restart")
                 w == IF wanted THEN r ELSE worker
      <3>1. r \in Workers
        BY <2>2, StartsType
      <3>2. r.step = "load"
        BY <1>0 DEF StartsRecovery, Workers
      <3>3. worker' = [w EXCEPT !.todo = @ \ {id}] /\ worker.step = "recoverNext"
        BY <2>2 DEF RecoverNext, Busy
      <3>4. w \in Workers /\ w.step \in {"load", "recoverNext"}
        BY <1>0, <3>1, <3>2, <3>3
      <3> HIDE DEF w
      <3>5. worker'.step \in {"load", "recoverNext"}
        BY <3>3, <3>4 DEF Workers
      <3> QED
        BY <1>1, <3>5
    <2>3. CASE DetectSwitch \/ SwitchCheckpoint \/ OpenNew
      BY <1>0, <1>1, <2>3 DEF DetectSwitch, SwitchCheckpoint, OpenNew, Workers
    <2>4. CASE OpenAttach \/ BeginTask \/ Report \/ FinishTask \/ CloseSession
      BY <1>0, <1>1, <2>4
         DEF OpenAttach, BeginTask, Report, FinishTask, CloseSession, Done, Workers
    <2>5. CASE RequestFails
      BY <1>1, <2>5 DEF RequestFails, Idle
    <2>6. CASE Written(0)
      BY <1>0, <1>1, <2>6 DEF Written, Idle, Workers
    <2> QED
      BY <1>3, <2>1, <2>2, <2>3, <2>4, <2>5, <2>6 DEF Working, Opening, Handling
  <1>4. CASE Requests
    BY <1>0, <1>1, <1>4, ConstantTypes
       DEF Requests, BeginOpen, BeginRequest, RefuseClose, Enter, Workers
  <1>5. ASSUME NEW id \in Ids, InspectStale(id)
        PROVE  Silent'
    <2>1. CASE Fresh(session[id])
      BY <1>1, <1>5, <2>1 DEF InspectStale, Busy
    <2>2. CASE ~Fresh(session[id])
      <3>1. PICK trigger \in {"restart", "timeout"} :
               worker' = [StartsRecovery(id, trigger) EXCEPT !.by = "monitor"]
        BY <1>5, <2>2 DEF InspectStale
      <3>2. worker'.id = id
        BY <1>0, <3>1 DEF StartsRecovery, Workers
      <3> QED
        BY <1>5, <2>2, <3>2 DEF InspectStale, Silent, Fresh
    <2> QED
      BY <2>1, <2>2
  <1>6. ASSUME NEW id \in Ids, LeaseExpires(id) \/ RetryComesDue(id)
        PROVE  Silent'
    <2>1. \A o \in Ids : session[o] \in Sessions
      BY <1>0
    <2>2. UNCHANGED <<worker, heard>>
      BY <1>6 DEF LeaseExpires, RetryComesDue, others
    <2>3. CASE LeaseExpires(id)
      BY <1>0, <2>1, <2>2, <2>3 DEF LeaseExpires, Update, Silent, Fresh, Sessions
    <2>4. CASE RetryComesDue(id)
      BY <1>0, <2>1, <2>2, <2>4 DEF RetryComesDue, Update, Silent, Fresh, Sessions
    <2> QED
      BY <1>6, <2>3, <2>4
  <1>7. CASE Crash
    BY <1>1, <1>7 DEF Crash, Idle
  <1>8. CASE Restart
    BY <1>1, <1>8 DEF Restart, Down, Idle
  <1>9. CASE ScanLeases \/ CommandLine \/ UNCHANGED vars
    BY <1>2, <1>9 DEF ScanLeases, CommandLine, vars, memory
  <1>10. ASSUME NEW id \in Ids, OutsideQueue(id)
         PROVE  Silent'
    <2>1. CASE Heartbeat(id)
      BY <1>0, <2>1 DEF Heartbeat, Hears, Update, Silent
    <2>2. CASE Detach(id)
      <3>1. Fresh([session[id] EXCEPT !.state = "detached"]) => Fresh(session[id])
        BY <1>0, <2>2 DEF Detach, Fresh, Live, Sessions
      <3> QED
        BY <1>0, <2>2, <3>1 DEF Detach, Update, Silent
    <2>3. CASE DetachSave(id) \/ BeginResume(id)
      BY <1>2, <2>3 DEF DetachSave, BeginResume
    <2>4. CASE Resume(id)
      BY <1>0, <1>2, <2>4 DEF Resume, Hears, Update, Silent
    <2>5. CASE Written(id)
      <3>1. UNCHANGED <<session, worker, heard>>
        BY <2>5 DEF Written, Ids
      <3> QED
        BY <1>2, <3>1
    <2> QED
      BY <1>10, <2>1, <2>2, <2>3, <2>4, <2>5 DEF OutsideQueue
  <1>11. CASE Shutdown
    BY <1>2, <1>11, ShutdownAside
  <1> QED
    BY <1>0, <1>3, <1>4, <1>5, <1>6, <1>7, <1>8, <1>9, <1>10, <1>11 DEF Next, Environment

\* No method but markRecoveryPending marks a session whose lease is live.
Spared(s, t) == Fresh(s) => t.state # "recovery_pending"

LEMMA MethodsSpare ==
  ASSUME NEW s \in Sessions
  PROVE  /\ Spared(s, s)
         /\ \A t : Spared(s, attachTask(s, t)) /\ Spared(s, end(attachTask(s, t), "closed"))
         /\ Spared(s, clearTask(s)) /\ Spared(s, touch(s))
         /\ Spared(s, [s EXCEPT !.state = "detached"])
         /\ \A state \in Ended : Spared(s, end(s, state))
         /\ Spared(s, scheduleRecoveryFailure(s))
         /\ Spared(s, [s EXCEPT !.live = FALSE]) /\ Spared(s, [s EXCEPT !.retry = "due"])
  <1> USE DEF Spared, Fresh, Live, Pending, Ended
  <1>1. ASSUME NEW t
        PROVE  Spared(s, attachTask(s, t)) /\ attachTask(s, t).state = s.state
    BY DEF attachTask, Sessions
  <1>2. ASSUME NEW r, r.state = s.state, NEW state \in Ended
        PROVE  Spared(s, end(r, state))
    <2>1. inState(r, state).state = state \/ end(r, state) = r
      BY DEF inState, end
    <2> QED
      BY <1>2, <2>1 DEF end
  <1>3. Spared(s, scheduleRecoveryFailure(s))
    BY DEF scheduleRecoveryFailure
  <1>4. Spared(s, s) /\ Spared(s, [s EXCEPT !.live = FALSE]) /\ Spared(s, [s EXCEPT !.retry = "due"])
    BY DEF Sessions
  <1>5. Spared(s, touch(s)) /\ Spared(s, [s EXCEPT !.state = "detached"])
    BY DEF touch, Sessions
  <1> QED
    BY <1>1, <1>2, <1>3, <1>4, <1>5 DEF clearTask

LEMMA NextSpares ==
  ASSUME TypeOK, Silent, ~heard, [Next]_vars, NEW o \in Ids
  PROVE  Spared(session[o], session'[o])
  <1>0. /\ session \in [Ids -> Sessions] /\ worker \in Workers
        /\ \A id \in Ids : session[id] \in Sessions
    BY DEF TypeOK
  <1>1. CASE UNCHANGED session
    BY <1>0, <1>1, MethodsSpare
  <1>2. ASSUME NEW id, NEW s, Update(id, s), id \in Ids => Spared(session[id], s)
        PROVE  Spared(session[o], session'[o])
    BY <1>0, <1>2, MethodsSpare DEF Update
  <1>3. CASE MarkPending
    BY <1>0, <1>3, MethodsSpare DEF MarkPending, Update, Busy, Silent, Spared
  <1>4. CASE RecoveryFails \/ Resolve \/ SwitchCheckpoint \/ FinishTask
    BY <1>0, <1>1, <1>2, <1>4, MethodsSpare
       DEF RecoveryFails, Resolve, SwitchCheckpoint, FinishTask, Ended
  <1>5. CASE OpenNew
    <2>1. Spared(session[opened'], opensAs(worker.agent))
      BY DEF Spared, opensAs, Absent
    <2> QED
      BY <1>2, <1>5, <2>1 DEF OpenNew
  <1>6. CASE OpenAttach \/ BeginTask \/ Report
    BY <1>0, <1>1, <1>2, <1>6, MethodsSpare DEF OpenAttach, BeginTask, Report
  <1>7. CASE CloseSession
    <2> DEFINE s == session[worker.id]
    <2>1. PICK now : /\ now = s \/ \E t \in 0..MaxTasks : now = attachTask(s, t)
                     /\ Update(worker.id, end(now, "closed")) \/ Update(worker.id, now)
      BY <1>7 DEF CloseSession, TypeOK
    <2>2. worker.id \in Ids => Spared(s, now) /\ Spared(s, end(now, "closed"))
      BY <1>0, <2>1, MethodsSpare DEF Ended
    <2> QED
      BY <1>2, <2>1, <2>2
  <1>8. ASSUME NEW id \in Ids, LeaseExpires(id) \/ RetryComesDue(id)
        PROVE  Spared(session[o], session'[o])
    BY <1>0, <1>2, <1>8, MethodsSpare DEF LeaseExpires, RetryComesDue
  <1>9. CASE Crash
    BY <1>9 DEF Crash, Absent, Spared
  <1>10. CASE Restart
    <2>1. session'[o] = Absent \/ \E e : session'[o] = restoreInterrupted(e)
      <3> DEFINE e(late) == IF o \in late THEN [journal[o] EXCEPT !.retry = "due"] ELSE journal[o]
      <3>1. \E late : session'[o] = IF ~journal[o].known \/ ~OnRestart THEN Absent
                                    ELSE restoreInterrupted(e(late))
        BY <1>10 DEF Restart
      <3> HIDE DEF e
      <3> QED
        BY <3>1
    <2> QED
      <3>1. Absent.state = "absent" /\ \A e : restoreInterrupted(e).state = "interrupted"
        BY DEF Absent, restoreInterrupted
      <3> QED
        BY <2>1, <3>1 DEF Spared
  <1>11. CASE ScanLeases \/ CommandLine \/ Requests \/ \E id \in Ids : InspectStale(id)
    BY <1>1, <1>11
       DEF ScanLeases, CommandLine, Requests, BeginOpen, BeginRequest, RefuseClose, InspectStale,
           memory
  <1>12. CASE LoadActive \/ RecoveryCheckpoint \/ DetectSwitch \/ RequestFails \/ Save \/ Written(0)
    BY <1>1, <1>12
       DEF LoadActive, RecoveryCheckpoint, DetectSwitch, RequestFails, Save, Written
  <1>13. ASSUME NEW id \in Ids, RecoverNext(id)
         PROVE  Spared(session[o], session'[o])
    BY <1>1, <1>13 DEF RecoverNext
  <1>14. CASE UNCHANGED vars
    BY <1>1, <1>14 DEF vars, memory
  <1>15. ASSUME NEW id \in Ids, OutsideQueue(id)
         PROVE  Spared(session[o], session'[o])
    <2>1. CASE Heartbeat(id) \/ Detach(id)
      BY <1>0, <1>2, <2>1, MethodsSpare DEF Heartbeat, Detach
    <2>2. CASE Resume(id)
      BY <1>0, <1>1, <1>2, <2>2, MethodsSpare DEF Resume
    <2>3. CASE DetachSave(id) \/ BeginResume(id) \/ Written(id)
      BY <1>1, <2>3 DEF DetachSave, BeginResume, Written
    <2> QED
      BY <1>15, <2>1, <2>2, <2>3 DEF OutsideQueue
  <1>16. CASE Shutdown
    BY <1>1, <1>16, ShutdownAside
  <1> QED
    BY <1>0, <1>3, <1>4, <1>5, <1>6, <1>7, <1>8, <1>9, <1>10, <1>11, <1>12, <1>13, <1>14, <1>15,
       <1>16
       DEF Next, Working, Recovery, Opening, Handling, Environment

\* With any requests outside the queue, a session with a live lease is marked
\* recovery-pending only if it was heard of while its time-out was recorded: a
\* heartbeat or a resume request that is accepted before, also one that overtakes
\* the monitor while it waits in the queue, keeps the session.
THEOREM LiveNotTimedOutHolds == Spec => LiveNotTimedOut
  <1> DEFINE Inv == TypeInv /\ Stray /\ Down /\ Silent
             Spares == \A id \in Ids :
                          Fresh(session[id]) /\ session'[id].state = "recovery_pending" => heard
  <1>1. Init => Inv
    <2> SUFFICES ASSUME Init
                 PROVE  Stray /\ Down /\ Silent
      BY InitType
    <2> QED
      BY ConstantTypes DEF Init, Stray, Down, Silent, Idle
  <1>2. Inv /\ [Next]_vars => Inv'
    <2> SUFFICES ASSUME Inv, [Next]_vars
                 PROVE  Inv'
      OBVIOUS
    <2>1. TypeInv' /\ TypeOK /\ TypeOK'
      BY NextType DEF TypeInv
    <2> QED
      BY <2>1, NextStray, NextDown, NextSilent
  <1>3. Inv /\ [Next]_vars => [Spares]_vars
    BY NextSpares DEF TypeInv, Spared
  <1> QED
    BY <1>1, <1>2, <1>3, PTL DEF Spec, LiveNotTimedOut
=============================================================================
