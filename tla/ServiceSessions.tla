--------------------------- MODULE ServiceSessions ---------------------------
(***************************************************************************)
(* The sessions that the shared service keeps for one repository: the      *)
(* session registry, the coordinator's handlers, the lease monitor, the    *)
(* recovery of sessions that fell silent, and the journal from which a     *)
(* restarted service learns of the sessions of the one before.             *)
(*                                                                         *)
(* Handlers that use the repository's operation queue run one at a time:   *)
(* `worker` is the one that is running, at one of its awaits.  Heartbeats, *)
(* detaches and resume requests are answered outside the queue, between    *)
(* two steps of the worker.  A journal snapshot is taken synchronously and *)
(* written later: `writes` holds the snapshots on their way to the file.   *)
(*                                                                         *)
(* Identifiers of sessions and tasks are numbered in the order in which    *)
(* they are issued.  A lease is live until it expires, a retry time is     *)
(* later until it is due.  The task store is its active task only.         *)
(***************************************************************************)
EXTENDS Naturals, FiniteSets

CONSTANTS Agents,
          NoAgent,
          MaxSessions,   \* sessions opened, over all service instances
          MaxTasks,      \* tasks started
          MaxRestarts,   \* service instances after the first
          RetryLimit,    \* maximumAttempts, 3 in the code
          Outside,       \* what clients do outside the queue
          Cli,           \* whether the command line starts and finishes tasks
          Failures,      \* what can fail: checkpoints and the state file, the journal
          OnAgentSwitch, \* automation.enabled and checkpoints.on_agent_switch
          OnTimeout,     \* automation.enabled and checkpoints.recovery_on_timeout
          OnRestart      \* reliability.interrupted_recovery_enabled

OutsideKinds == {"heartbeat", "persistent heartbeat", "detach", "resume", "shutdown"}
FailureKinds == {"checkpoint", "journal"}

ASSUME SessionsAssumption ==
    /\ NoAgent \notin Agents
    /\ MaxSessions \in Nat
    /\ MaxTasks \in Nat
    /\ MaxRestarts \in Nat
    /\ RetryLimit \in Nat \ {0}
    /\ Outside \subseteq OutsideKinds
    /\ Failures \subseteq FailureKinds
    /\ {Cli, OnAgentSwitch, OnTimeout, OnRestart} \subseteq BOOLEAN

VARIABLES up,       \* the service is running
          session,  \* the registry: what the service knows of each session
          opened,   \* how many sessions have been opened
          worker,   \* the handler inside the operation queue
          scan,     \* stale sessions the lease monitor has still to look at
          reading,  \* the task of the resume packet being prepared for a session
          leaving,  \* detached sessions whose snapshot is still to be taken
          stopping, \* how far a shutdown is
          writes,   \* the snapshots being written: the worker's (0), a session's,
                    \* that of the shutdown
          newest,   \* history: the writer of the latest snapshot that was taken
          saved,    \* history: that snapshot is in the file, and no other came after it
          heard,    \* history: the session being timed out was heard of after the
                    \* monitor had looked at its lease
          journal,  \* the contents of session-journal.json
          task,     \* the active task, 0 when there is none
          started,  \* how many tasks have been started
          restarts

snapshots == <<writes, newest, saved>>
memory == <<session, opened, worker, scan, reading, leaving, stopping, snapshots, heard>>
tasks == <<task, started>>
vars == <<up, memory, journal, tasks, restarts>>

\* What a step of the worker that neither opens nor works on a task leaves alone.
others == <<up, stopping, opened, scan, reading, leaving, heard, journal, tasks, restarts>>

----------------------------------------------------------------------------
(* Data *)

Ids == 1..MaxSessions
Tasks == 1..MaxTasks

Live == {"open", "detached"}
Pending == {"interrupted", "recovery_pending"}
Ended == {"closed", "superseded"}

States == {"absent"} \cup Live \cup Pending \cup Ended

Sessions == [state : States,
             agent : Agents \cup {NoAgent}, live : BOOLEAN, task : 0..MaxTasks,
             retry : {"none", "later", "due"}, attempts : 0..RetryLimit,
             reason : {"none", "timeout", "restart"}]

Absent == [state |-> "absent", agent |-> NoAgent, live |-> FALSE, task |-> 0,
           retry |-> "none", attempts |-> 0, reason |-> "none"]

\* What a handler's copy of a record is used for after an await
Nothing == [state |-> "absent", task |-> 0, attempts |-> 0]

Copy(s) == [state |-> s.state, task |-> s.task, attempts |-> s.attempts]

Copies == [state : States, task : 0..MaxTasks, attempts : 0..RetryLimit]

\* What the journal keeps of a session that has not ended.
Entries == [known : BOOLEAN, task : 0..MaxTasks, attempts : 0..RetryLimit,
            retry : {"none", "later", "due"}]

NoEntry == [known |-> FALSE, task |-> 0, attempts |-> 0, retry |-> "none"]

Snapshots == [Ids -> Entries]

\* journalSessions, in the form the journal stores
Snapshot(sessions) ==
    [id \in Ids |-> IF sessions[id].state \in Live \cup Pending
                    THEN [known |-> TRUE, task |-> sessions[id].task,
                          attempts |-> sessions[id].attempts, retry |-> sessions[id].retry]
                    ELSE NoEntry]

NoWrite == [id \in {} |-> NoEntry]
ByShutdown == MaxSessions + 1
Writers == {0, ByShutdown} \cup Ids

Steps == {"idle", "recoverNext", "expire", "load", "checkpoint", "resolve", "supersede",
          "switch", "openNew", "attach", "begin", "report", "finish", "close",
          "save", "saving"}

\* id and seen: the session the handler works on and the record it has read;
\* todo: sessions of which session.open has to decide whether they need
\* recovery; took: the task of the recovery checkpoint, 0 when none was taken.
Workers == [step : Steps, by : {"nobody", "recovery", "open", "client", "monitor"},
            id : 0..MaxSessions, seen : Copies, trigger : {"none", "restart", "timeout"},
            todo : SUBSET Ids, agent : Agents \cup {NoAgent}, took : 0..MaxTasks]

Idle == [step |-> "idle", by |-> "nobody", id |-> 0, seen |-> Nothing, trigger |-> "none",
         todo |-> {}, agent |-> NoAgent, took |-> 0]

----------------------------------------------------------------------------
(* The session registry: what each of its methods does to a record *)

Fresh(s) == s.state \in Live /\ s.live

touch(s) == IF s.state = "open" THEN [s EXCEPT !.live = TRUE] ELSE s

attachTask(s, t) == IF s.state = "open" THEN [s EXCEPT !.live = TRUE, !.task = t] ELSE s

clearTask(s) == attachTask(s, 0)

\* Nothing reads the agent and the lease of a session that is not live.
inState(s, state) == [s EXCEPT !.state = state, !.agent = NoAgent, !.live = FALSE]

end(s, state) == IF s.state \in Live \cup Pending THEN inState(s, state) ELSE s

markRecoveryPending(s) ==
    IF s.state \in Live \cup Pending
    THEN [inState(s, "recovery_pending") EXCEPT !.reason = "timeout"] ELSE s

\* Mutant: the last attempt but one gets no retry time.
scheduleTooFew(s) ==
    LET n == IF s.attempts < RetryLimit THEN s.attempts + 1 ELSE RetryLimit
    IN  IF s.state \in Pending
        THEN [s EXCEPT !.state = "recovery_pending", !.attempts = n,
                       !.retry = IF n + 1 >= RetryLimit THEN "none" ELSE "later"]
        ELSE s

scheduleRecoveryFailure(s) ==
    LET n == IF s.attempts < RetryLimit THEN s.attempts + 1 ELSE RetryLimit
    IN  IF s.state \in Pending
        THEN [s EXCEPT !.state = "recovery_pending", !.attempts = n,
                       !.retry = IF n = RetryLimit THEN "none" ELSE "later"]
        ELSE s

\* nextRecoveryAt ?? now
restoreInterrupted(e) ==
    [Absent EXCEPT !.state = "interrupted", !.task = e.task, !.attempts = e.attempts,
                   !.retry = IF e.retry = "none" THEN "due" ELSE e.retry,
                   !.reason = "restart"]

opensAs(a) == [Absent EXCEPT !.state = "open", !.agent = a, !.live = TRUE]

\* The open or detached session with a live lease that was opened last.
freshActive(id) ==
    Fresh(session[id]) /\ \A other \in Ids : Fresh(session[other]) => other <= id

staleSessions ==
    {id \in Ids : \/ session[id].state \in Live /\ ~session[id].live
                  \/ session[id].state \in Pending /\ session[id].retry = "due"}

Update(id, s) == session' = [session EXCEPT ![id] = s]

----------------------------------------------------------------------------
(* The worker *)

Busy(step) == up /\ worker.step = step

Enter(step, by, id) ==
    worker' = [Idle EXCEPT !.step = step, !.by = by, !.id = id,
                           !.seen = Copy(session[id])]

Proceed(step) == worker' = [worker EXCEPT !.step = step]

\* The handler has done its work: what it has read is of no more use.
Done(step) ==
    worker' = [worker EXCEPT !.step = step, !.seen = Nothing, !.trigger = "none", !.took = 0]

\* persistJournal: the snapshot is built before the first await of the write.
Take(w, sessions) ==
    /\ writes' = [writes EXCEPT ![w] = Snapshot(sessions)]
    /\ newest' = w
    /\ saved' = FALSE

Persist(sessions) == Take(0, sessions) /\ Done("saving")

\* A client learns of its session when session.open answers.
Known(id) == ~(worker.by = "open" /\ worker.id = id /\ worker.step # "switch")

\* What resolveRecovery does before its first await.
StartsRecovery(id, trigger) ==
    [worker EXCEPT !.step = IF trigger = "timeout" /\ session[id].state # "recovery_pending"
                            THEN "expire" ELSE "load",
                   !.id = id, !.seen = Copy(session[id]), !.trigger = trigger, !.took = 0]

----------------------------------------------------------------------------
(* resolveRecovery *)

\* session_timed_out is recorded between the check of the lease and the mark.
MarkPending ==
    /\ Busy("expire")
    /\ Update(worker.id, markRecoveryPending(session[worker.id]))
    /\ Proceed("load")
    /\ UNCHANGED <<others, snapshots>>

\* Mutant: the task of the session is not compared with the active one.
LoadAnyActive ==
    /\ Busy("load")
    /\ task # 0
    /\ Proceed("checkpoint")
    /\ UNCHANGED <<others, session, snapshots>>

LoadActive ==
    /\ Busy("load")
    /\ LET disabled == \/ worker.trigger = "restart" /\ ~OnRestart
                       \/ worker.trigger = "timeout" /\ ~OnTimeout
           other == worker.seen.task # 0 /\ worker.seen.task # task
       IN  Proceed(IF task = 0 THEN "resolve"
                   ELSE IF other THEN "supersede"
                   ELSE IF disabled THEN "resolve" ELSE "checkpoint")
    /\ UNCHANGED <<others, session, snapshots>>

\* The active state cannot be read, or the automatic checkpoint fails.
RecoveryFails ==
    /\ "checkpoint" \in Failures
    /\ Busy("load") \/ Busy("checkpoint")
    /\ Update(worker.id, scheduleRecoveryFailure(session[worker.id]))
    /\ Done("save")
    /\ UNCHANGED <<others, snapshots>>

\* createAutomaticCheckpoint checkpoints whatever task is active by now; there
\* may be none, the checkpoint may be a duplicate or too soon after the last one.
RecoveryCheckpoint ==
    /\ Busy("checkpoint")
    /\ \E took \in {0, task} : worker' = [worker EXCEPT !.step = "resolve", !.took = took]
    /\ UNCHANGED <<others, session, snapshots>>

Resolve ==
    /\ \E state \in Ended :
          /\ Busy(IF state = "closed" THEN "resolve" ELSE "supersede")
          /\ Update(worker.id, end(session[worker.id], state))
    /\ Persist(session')
    /\ UNCHANGED others

----------------------------------------------------------------------------
(* The lease monitor *)

ScanLeases ==
    /\ up /\ stopping = "no"
    /\ scan = {} /\ worker.by # "monitor"
    /\ scan' = staleSessions
    /\ scan' # {}
    /\ UNCHANGED <<up, stopping, session, opened, worker, reading, leaving, snapshots, heard,
                   journal, tasks, restarts>>

\* Mutant: the session is not looked at again when the queue lets the monitor in.
InspectUnchecked(id) ==
    /\ Busy("idle")
    /\ id \in scan
    /\ scan' = scan \ {id}
    /\ heard' = FALSE
    /\ worker' = [StartsRecovery(id, IF \/ session[id].state = "interrupted"
                                        \/ session[id].reason = "restart"
                                     THEN "restart" ELSE "timeout") EXCEPT !.by = "monitor"]
    /\ UNCHANGED <<up, stopping, session, opened, reading, leaving, snapshots,
                   journal, tasks, restarts>>

InspectStale(id) ==
    /\ Busy("idle")
    /\ id \in scan
    /\ scan' = scan \ {id}
    /\ heard' = FALSE
    /\ IF Fresh(session[id])
       THEN UNCHANGED worker
       ELSE worker' = [StartsRecovery(id, IF \/ session[id].state = "interrupted"
                                             \/ session[id].reason = "restart"
                                          THEN "restart" ELSE "timeout")
                       EXCEPT !.by = "monitor"]
    /\ UNCHANGED <<up, stopping, session, opened, reading, leaving, snapshots,
                   journal, tasks, restarts>>

----------------------------------------------------------------------------
(* session.open: recover interrupted sessions, checkpoint for the agent that is
   replaced, open, attach the active task *)

BeginOpen(a) ==
    /\ Busy("idle")
    /\ opened < MaxSessions
    /\ worker' = [Idle EXCEPT !.step = "recoverNext", !.by = "recovery", !.agent = a,
                              !.todo = {id \in Ids : session[id].state # "absent"}]
    /\ UNCHANGED <<others, session, snapshots>>

\* recoverRepositoryInterruptions looks at every session of the repository, and
\* takes a missing retry time for one that has come.
RecoverNext(id) ==
    /\ Busy("recoverNext")
    /\ id \in worker.todo
    /\ LET wanted == /\ session[id].state = "interrupted" \/ session[id].reason = "restart"
                     /\ session[id].retry # "later"
       IN  worker' = [IF wanted THEN StartsRecovery(id, "restart") ELSE worker
                      EXCEPT !.todo = @ \ {id}]
    /\ UNCHANGED <<others, session, snapshots>>

DetectSwitch ==
    /\ Busy("recoverNext")
    /\ worker.todo = {}
    /\ \/ \E id \in Ids :
             /\ freshActive(id) /\ session[id].agent # worker.agent /\ OnAgentSwitch
             /\ worker' = [worker EXCEPT !.step = "switch", !.by = "open", !.id = id]
       \/ /\ \A id \in Ids : freshActive(id) => session[id].agent = worker.agent \/ ~OnAgentSwitch
          /\ worker' = [worker EXCEPT !.step = "openNew", !.by = "open", !.id = 0]
    /\ UNCHANGED <<others, session, snapshots>>

\* A failed checkpoint leaves the previous session as it is.
SwitchCheckpoint ==
    /\ Busy("switch")
    /\ \/ Update(worker.id, end(session[worker.id], "superseded"))
       \/ "checkpoint" \in Failures /\ UNCHANGED session
    /\ worker' = [worker EXCEPT !.step = "openNew", !.id = 0]
    /\ UNCHANGED <<others, snapshots>>

OpenNew ==
    /\ Busy("openNew")
    /\ opened' = opened + 1
    /\ Update(opened', opensAs(worker.agent))
    /\ worker' = [worker EXCEPT !.step = "attach", !.id = opened', !.agent = NoAgent]
    /\ UNCHANGED <<up, stopping, scan, reading, leaving, snapshots, heard, journal, tasks,
                   restarts>>

\* The context or the state may be unreadable: the session is open all the same.
OpenAttach ==
    /\ Busy("attach")
    /\ \/ task # 0 /\ Update(worker.id, attachTask(session[worker.id], task))
       \/ (task = 0 \/ "checkpoint" \in Failures) /\ UNCHANGED session
    /\ Done("save")
    /\ UNCHANGED <<others, snapshots>>

----------------------------------------------------------------------------
(* The other handlers that use the queue *)

\* requireOpen fails for a session that is not open: nothing happens then.
BeginRequest(id, step) ==
    /\ Busy("idle")
    /\ session[id].state = "open"
    /\ Enter(step, "client", id)
    /\ UNCHANGED <<others, session, snapshots>>

\* Except that a close that is refused saves the journal like any other.
RefuseClose ==
    /\ Busy("idle")
    /\ \E id \in Ids : session[id].state \notin {"absent", "open"}
    /\ worker' = [Idle EXCEPT !.step = "save", !.by = "client"]
    /\ UNCHANGED <<others, session, snapshots>>

RequestFails ==
    /\ Busy("begin") \/ Busy("report") \/ Busy("finish")
    /\ worker' = Idle
    /\ UNCHANGED <<others, session, snapshots>>

BeginTask ==
    /\ Busy("begin")
    /\ task = 0
    /\ started < MaxTasks
    /\ started' = started + 1
    /\ task' = started'
    /\ Update(worker.id, attachTask(session[worker.id], task'))
    /\ Done("save")
    /\ UNCHANGED <<up, stopping, opened, scan, reading, leaving, snapshots, heard, journal,
                   restarts>>

\* A report, or an explicit checkpoint
Report ==
    /\ Busy("report")
    /\ task # 0
    /\ Update(worker.id, attachTask(session[worker.id], task))
    /\ Done("save")
    /\ UNCHANGED <<others, snapshots>>

FinishTask ==
    /\ Busy("finish")
    /\ task # 0
    /\ worker.seen.task \in {0, task}
    /\ task' = 0
    /\ Update(worker.id, clearTask(session[worker.id]))
    /\ Done("save")
    /\ UNCHANGED <<up, stopping, opened, scan, reading, leaving, snapshots,
                   heard, journal, started, restarts>>

\* Mutant: a close that fails, or is refused, returns without saving the journal.
CloseUnsaved ==
    /\ Busy("close")
    /\ \/ Update(worker.id, end(session[worker.id], "closed"))
       \/ UNCHANGED session
    /\ worker' = Idle
    /\ UNCHANGED <<others, snapshots>>

\* With a task, the final report, the checkpoint and the resume packet are
\* options: each attaches the active task, and may fail after the one before.
CloseSession ==
    /\ Busy("close")
    /\ LET busy == worker.seen.task # 0
           s == session[worker.id]
       IN  \E now \in {s} \cup {attachTask(s, t) : t \in IF busy /\ task # 0 THEN {task} ELSE {}} :
              \/ Update(worker.id, end(now, "closed"))
              \/ busy /\ Update(worker.id, now)
    /\ Done("save")
    /\ UNCHANGED <<others, snapshots>>

\* Events are recorded before the journal is saved.
Save ==
    /\ Busy("save")
    /\ Persist(session)
    /\ UNCHANGED <<others, session>>

\* persistJournal catches a failed write; the handler goes on.
Written(w) ==
    /\ up
    /\ writes[w] # NoWrite
    /\ \/ journal' = writes[w] /\ saved' = (w = newest)
       \/ /\ "journal" \in Failures /\ UNCHANGED journal
          /\ saved' = (saved /\ w # newest)
    /\ writes' = [writes EXCEPT ![w] = NoWrite]
    /\ worker' = IF w # 0 THEN worker
                 ELSE IF worker.by = "recovery"
                      THEN [worker EXCEPT !.step = "recoverNext", !.id = 0]
                      ELSE Idle
    /\ UNCHANGED <<up, stopping, session, opened, scan, reading, leaving, newest, heard, tasks,
                   restarts>>

----------------------------------------------------------------------------
(* Requests answered outside the queue *)

\* The session that is being timed out shows that it is still there.
Hears(id) == heard' = (heard \/ (worker.step = "expire" /\ worker.id = id))

Heartbeat(id) ==
    /\ up /\ Known(id)
    /\ "heartbeat" \in Outside
    /\ session[id].state = "open"
    /\ Update(id, touch(session[id]))
    /\ \/ UNCHANGED snapshots
       \/ /\ "persistent heartbeat" \in Outside /\ writes[id] = NoWrite
          /\ Take(id, session')
    /\ Hears(id)
    /\ UNCHANGED <<up, stopping, opened, worker, scan, reading, leaving, journal, tasks, restarts>>

\* Mutant: a session that is not open any more is detached all the same.
DetachAny(id) ==
    /\ up /\ Known(id)
    /\ "detach" \in Outside
    /\ session[id].state # "absent"
    /\ Update(id, [session[id] EXCEPT !.state = "detached"])
    /\ leaving' = leaving \cup {id}
    /\ UNCHANGED <<up, stopping, opened, worker, scan, reading, snapshots, heard, journal, tasks,
                   restarts>>

Detach(id) ==
    /\ up /\ Known(id)
    /\ "detach" \in Outside
    /\ session[id].state = "open"
    /\ Update(id, [session[id] EXCEPT !.state = "detached"])
    /\ leaving' = leaving \cup {id}
    /\ UNCHANGED <<up, stopping, opened, worker, scan, reading, snapshots, heard, journal, tasks,
                   restarts>>

\* session_detached is recorded before the journal is saved.
DetachSave(id) ==
    /\ up
    /\ id \in leaving
    /\ writes[id] = NoWrite
    /\ leaving' = leaving \ {id}
    /\ Take(id, session)
    /\ UNCHANGED <<up, stopping, session, opened, worker, scan, reading, heard, journal, tasks,
                   restarts>>

BeginResume(id) ==
    /\ up /\ Known(id)
    /\ "resume" \in Outside
    /\ session[id].state = "open"
    /\ reading[id] = 0 /\ task # 0
    /\ reading' = [reading EXCEPT ![id] = task]
    /\ UNCHANGED <<up, stopping, session, opened, worker, scan, leaving, snapshots,
                   heard, journal, tasks, restarts>>

Resume(id) ==
    /\ up
    /\ reading[id] # 0
    /\ reading' = [reading EXCEPT ![id] = 0]
    /\ \/ /\ writes[id] = NoWrite
          /\ Update(id, attachTask(session[id], reading[id]))
          /\ Take(id, session')
          /\ Hears(id)
       \/ UNCHANGED <<session, snapshots, heard>>
    /\ UNCHANGED <<up, stopping, opened, worker, scan, leaving, journal, tasks, restarts>>

----------------------------------------------------------------------------
(* The environment: time, the command line, the end of a service and the next *)

LeaseExpires(id) ==
    /\ session[id].state \in Live /\ session[id].live
    /\ Update(id, [session[id] EXCEPT !.live = FALSE])
    /\ UNCHANGED <<others, worker, snapshots>>

RetryComesDue(id) ==
    /\ session[id].retry = "later"
    /\ Update(id, [session[id] EXCEPT !.retry = "due"])
    /\ UNCHANGED <<others, worker, snapshots>>

CommandLine ==
    /\ Cli
    /\ \/ task # 0 /\ task' = 0 /\ UNCHANGED started
       \/ task = 0 /\ started < MaxTasks /\ started' = started + 1 /\ task' = started'
    /\ UNCHANGED <<up, memory, journal, restarts>>

\* A shutdown stops the monitor, records service_stopped and saves the journal.
\* What has begun meanwhile is finished before the process ends.
BeginShutdown ==
    /\ up
    /\ "shutdown" \in Outside
    /\ stopping = "no"
    /\ stopping' = "recording"
    /\ UNCHANGED <<up, session, opened, worker, scan, reading, leaving, snapshots, heard, journal,
                   tasks, restarts>>

ShutdownSave ==
    /\ up
    /\ stopping = "recording"
    /\ stopping' = "saved"
    /\ Take(ByShutdown, session)
    /\ UNCHANGED <<up, session, opened, worker, scan, reading, leaving, heard, journal, tasks,
                   restarts>>

\* The service ends, orderly or not: the registry, the queue and the writes on
\* their way are gone.
Crash ==
    /\ up
    /\ up' = FALSE
    /\ session' = [id \in Ids |-> Absent]
    /\ worker' = Idle
    /\ scan' = {}
    /\ reading' = [id \in Ids |-> 0]
    /\ leaving' = {}
    /\ stopping' = "no"
    /\ writes' = [w \in Writers |-> NoWrite]
    /\ newest' = 0
    /\ saved' = FALSE
    /\ heard' = FALSE
    /\ UNCHANGED <<opened, journal, tasks, restarts>>

\* initialize ends before the service listens. Retry times may have come meanwhile.
Restart ==
    /\ ~up
    /\ restarts < MaxRestarts
    /\ up' = TRUE
    /\ restarts' = restarts + 1
    /\ \E late \in SUBSET {id \in Ids : journal[id].retry = "later"} :
          session' = [id \in Ids |->
              IF ~journal[id].known \/ ~OnRestart THEN Absent
              ELSE restoreInterrupted(IF id \in late THEN [journal[id] EXCEPT !.retry = "due"]
                                      ELSE journal[id])]
    /\ \/ journal' = Snapshot(session') /\ saved' = TRUE
       \/ "journal" \in Failures /\ UNCHANGED <<journal, saved>>
    /\ UNCHANGED <<opened, worker, scan, reading, leaving, stopping, writes, newest, heard, tasks>>

Init ==
    /\ up = TRUE
    /\ session = [id \in Ids |-> Absent]
    /\ opened = 0
    /\ worker = Idle
    /\ scan = {}
    /\ reading = [id \in Ids |-> 0]
    /\ leaving = {}
    /\ stopping = "no"
    /\ writes = [w \in Writers |-> NoWrite]
    /\ newest = 0
    /\ saved = TRUE
    /\ heard = FALSE
    /\ journal = [id \in Ids |-> NoEntry]
    /\ task = 0
    /\ started = 0
    /\ restarts = 0

Recovery == MarkPending \/ LoadActive \/ RecoveryFails \/ RecoveryCheckpoint \/ Resolve

Opening == \/ \E id \in Ids : RecoverNext(id)
           \/ DetectSwitch \/ SwitchCheckpoint \/ OpenNew \/ OpenAttach

Handling == RequestFails \/ BeginTask \/ Report \/ FinishTask \/ CloseSession

\* The worker goes on from an await.
Working == Recovery \/ Opening \/ Handling \/ Save \/ Written(0)

Requests == \/ \E a \in Agents : BeginOpen(a)
            \/ \E id \in Ids, step \in {"begin", "report", "finish", "close"} :
                  BeginRequest(id, step)
            \/ RefuseClose

OutsideQueue(id) == \/ Heartbeat(id) \/ Detach(id) \/ DetachSave(id)
                    \/ BeginResume(id) \/ Resume(id) \/ Written(id)

Environment == \/ \E id \in Ids : LeaseExpires(id) \/ RetryComesDue(id)
               \/ CommandLine \/ Crash \/ Restart

Shutdown == BeginShutdown \/ ShutdownSave \/ Written(ByShutdown)

Next == \/ Working
        \/ Requests
        \/ ScanLeases
        \/ \E id \in Ids : InspectStale(id) \/ OutsideQueue(id)
        \/ Shutdown
        \/ Environment

Spec == Init /\ [][Next]_vars

\* The event loop continues whatever is ready, the monitor's interval fires,
\* time passes, and the first-in first-out queue lets the monitor in although
\* clients keep it busy (OperationQueue!EveryCallRuns).
Fairness ==
    /\ WF_vars(Working)
    /\ WF_vars(ScanLeases)
    /\ \A id \in Ids : WF_vars(RetryComesDue(id)) /\ SF_vars(InspectStale(id))

FairSpec == Spec /\ Fairness

----------------------------------------------------------------------------
(* Properties *)

\* Every record has the shape that the registry, the journal's schema and the
\* coordinator's local variables allow.
TypeOK ==
    /\ up \in BOOLEAN
    /\ session \in [Ids -> Sessions]
    /\ opened \in 0..MaxSessions
    /\ worker \in Workers
    /\ scan \in SUBSET Ids
    /\ reading \in [Ids -> 0..MaxTasks]
    /\ leaving \in SUBSET Ids
    /\ stopping \in {"no", "recording", "saved"}
    /\ writes \in [Writers -> Snapshots \cup {NoWrite}]
    /\ newest \in Writers
    /\ saved \in BOOLEAN /\ heard \in BOOLEAN
    /\ journal \in Snapshots
    /\ task \in 0..MaxTasks
    /\ started \in 0..MaxTasks
    /\ restarts \in 0..MaxRestarts

\* A session that has ended is never brought back by the service that ended it,
\* whatever handler was at an await when it ended.
EndedForGood ==
    [][ up /\ up' =>
          \A id \in Ids : session[id].state \in Ended => session'[id].state = session[id].state ]_vars

\* A session that waits for recovery and has attempts left has a time for the
\* next one, unless it is being recovered: no failure leaves it waiting for good.
RetryScheduled ==
    \A id \in Ids :
        (/\ session[id].state = "recovery_pending"
         /\ session[id].attempts < RetryLimit
         /\ session[id].retry = "none") =>
            worker.id = id /\ worker.step \in {"load", "checkpoint", "resolve", "supersede"}

\* A recovery checkpoint is taken of the task that the silent session worked on.
RecoveryOfOwnTask ==
    worker.took # 0 /\ worker.seen.task # 0 => worker.took = worker.seen.task

\* The service is at rest: no handler is running and no snapshot is on its way.
AtRest == up /\ worker = Idle /\ leaving = {} /\ \A w \in Writers : writes[w] = NoWrite

\* The journal knows exactly the sessions that have not ended, with their tasks
\* and attempts.
Exact ==
    \A id \in Ids : /\ journal[id].known = (session[id].state \in Live \cup Pending)
                    /\ journal[id].known => /\ journal[id].task = session[id].task
                                            /\ journal[id].attempts = session[id].attempts

\* At rest the journal is exact, so that a crash forgets no session and revives
\* none, unless the write of the latest snapshot failed or an older snapshot, of
\* a heartbeat, a detach, a resume request or the shutdown, was renamed over it.
JournalCurrent == AtRest /\ saved => Exact

\* A session that fell silent, or was interrupted by a restart, is heard of
\* again, ends, or has used up its recovery attempts, unless the service stops.
SilenceResolved ==
    \A id \in Ids :
        (session[id].state \in Pending \/ (session[id].state \in Live /\ ~session[id].live)) ~>
            \/ session[id].state \in Ended
            \/ Fresh(session[id])
            \/ session[id].state \in Pending /\ session[id].attempts = RetryLimit
            \/ ~up \/ stopping # "no"

\* A session with a live lease is marked recovery-pending only if it was heard
\* of while its time-out was being recorded: a request that came before, while
\* the monitor waited for its turn in the queue, saves it.
LiveNotTimedOut ==
    [][ \A id \in Ids :
          Fresh(session[id]) /\ session'[id].state = "recovery_pending" => heard ]_vars
=============================================================================
