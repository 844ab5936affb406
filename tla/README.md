# BriefOnce in TLA+

BriefOnce (`src/`, TypeScript) keeps the state of one coding task per Git
repository in plain files, so that another agent can take the task over: agents
start a task, report progress, checkpoint, hand over and finish, through a
command line, an embedded MCP server, or a shared local service that owns
sessions with leases. This directory specifies the parts of it whose
correctness depends on order, concurrency and failure, model-checks them with
TLC, and proves what matters most with TLAPS.

    tlc -config TaskStoreMixed.cfg MCTaskStore.tla      # one configuration per run
    tlapm TaskStoreProofs.tla                           # proofs

Paths below are relative to the repository root; the implementation is under
`src/`, so `core/...` is `src/core/...`.

## 1. Inventory

| component | state it keeps | operations | correct when |
|---|---|---|---|
| **active task** `core/state` | `state/current.md`, one task or absent | `start` (exclusive create), `load-active-state` | one active task; an archived identity is never issued again |
| **agent reports** `core/reports` | semantic sections of `current.md`, report revision | prepare (load, redact, merge), commit (rename) | reports append, none is lost, the revision counts them |
| **checkpoints** `core/checkpoints` | `state/history/<task>-CP-NNN.md`, counters and latest reference in `current.md` | survey, allocate, suppress duplicates, create, replace the state, roll back | a file is immutable; `current.md` never names a missing or foreign file; `reused` hides nothing |
| **completion** `core/completion` | final checkpoint, `state/completed/<task>.md` | prepare, revalidate, write final checkpoint, write archive, remove `current.md`, roll back | the task is removed only when it is archived; the archive agrees with its final checkpoint; a failed finish leaves a finishable task |
| **atomic file writer** `core/filesystem` | temporary files | create by link, replace by rename, remove | all or nothing |
| **operation queue** `integrations/service/operation-queue.ts` | one promise chain per repository | `run` | first in, first out, one at a time, nothing leaked, nothing stuck |
| **sessions and coordinator** `integrations/service/{session-registry,service-coordinator,lease-monitor,automation-checkpoint}.ts` | sessions with leases, recovery states and retry times | open, heartbeat, attach, record, detach, close, lease timeout, recovery, restart | an ended session stays ended, a live one is not timed out, a silent one is recovered, with bounded retries |
| **session journal** `integrations/reliability/session-journal-*` | a snapshot of the sessions that have not ended | snapshot, restore | what a restart restores was true |
| **event store** `integrations/reliability/{event-store,observe-operation,recorder}.ts` | a bounded event log | observe an operation, read, append, compact, replace | the file always parses; events go only by retention, in order, under unique numbers |
| **reliability analysis** `core/reliability`, `load-report.ts` | – | select events, warn, rate | warnings, rating and percentages agree with each other and with the schema |
| **service lifecycle, client** `integrations/service/{run-service,service-lifecycle,service-client}.ts` | the token file `service.json`, the endpoint | run, start, status, stop, connect | a service that serves can be found; what a dead one leaves is got past |
| **MCP server and bridge** `integrations/mcp` | per host: its sessions, a heartbeat timer each | connect, open, beat, close, shut down | a session ends with its host, whatever is lost, late or fails; none is forgotten |
| **storage migration** `core/migration`, `core/storage` | `.briefonce` and the older `.agentfold` | look, stage a manifest, rename directory and manifest, roll back | one store at all times; no acknowledged state is lost |
| **initialization** `core/initialization` | the project directory | write aside, rename | all files or none, never beside another store |
| **resume** `core/resume` | – | load, list, choose a checkpoint, read it, assemble, cut, render | the packet is of the checkpoint the state names |
| **connectors** `integrations/connectors` | the host's configuration files, an instruction file per repository, a per-user ownership record | preview, connect, verify, roll back, disconnect | the user's text is kept, an entry stays while a repository depends on it, a rollback restores |
| **configuration, context, Git inspection, scanners, diagnostics, command line** | – | read, parse, print | – |

### How they interact

The command line and the embedded MCP server call the core operations
directly; each call is a process of its own as far as the files are concerned.
The service receives requests over a local socket; its coordinator looks the
session up, puts the operation into the repository's queue and calls the same
core operations. Nothing but the file system is shared between a service
request and a command-line call: the queue orders the service's requests only.
Core operations are split in a *prepare* (reads, validates, computes the text
to write) and a *commit* (writes). Every `await` between the two is a point
where another process, or the same service answering another repository, runs.

### What is hard

* Prepare and commit are not atomic: what commit writes was computed from files
  read earlier. `create` is exclusive (`link`), `replace` is not (`rename`).
* Checkpoint and finish write several files; each write can fail, the rollback
  can fail too, and the process can die between two of them.
* Identifiers, counts, fingerprints and revisions are stored next to the files
  they describe, and all of them are consulted later.
* In the service: lease expiry races heartbeats, recovery is retried after
  failures and restarts, snapshots of the sessions are written asynchronously.
* Around the service: starts, stops and clean-ups share two files that any of
  them may remove; a client gives a request up while the service carries it out.
* The event log, the ownership record and the configuration files are read,
  changed and replaced as a whole; the user edits some of them meanwhile.
* A migration renames the directory that other commands hold paths into.

`PROJECT.json` lists each hazard at its line with the properties that cover it.

## 2. Modules

| module | models | state and actions |
|---|---|---|
| `TaskStore` | active task, reports, checkpoints, completion, file writer | `current`, `history`, `completed` are the files; `pc[p]`, `plan[p]` are an operation in flight: where it is and what it has read and prepared. One action per file-system step: `BeginStart/StartList/StartCreate`, `BeginReport/ReportReplace`, `BeginCheckpoint/CheckpointSurvey/...Create/...Replace/...Rollback`, `BeginFinish/FinishSource/...Survey/...Check/...History/...Archive/...Reread/...Remove/...Unarchive/...Unhistory`; environment: `PrepareFails`, `Crash`, `GitChange` |
| `TaskLedger` | what the store promises | `active`, `conclusions`, `finished`; `Start`, `Report`, `Finish`, each atomic |
| `OperationQueue` | `RepositoryOperationQueue` | `tails` (the map), `previous`, `settled` (promises), `status`; `Run`, `Proceed`, `Release`, `SettleTail` |
| `FifoMutex` | what the queue promises | `status`, `ahead`; `Submit`, `Enter`, `Leave` |
| `ServiceSessions` | the session registry, the coordinator, the lease monitor and the session journal, for one repository | `session` is the registry, `worker` the handler inside the queue at one of its awaits, `scan` what the monitor has still to look at, `reading`, `leaving` requests outside the queue that are at an await, `writes` the snapshots on their way to `journal`, `newest`, `saved` and `heard` what the properties need to remember, `task` the active task, `up` whether a service runs; actions below |
| `Resume` (extends `TaskStore`) | `b1 resume`, `get_resume_packet` | `reader` is the resume in progress; `ResumeLoad`, `ResumeList`, `ResumeStat`, `ResumeRead`, `ResumeReturn`; any step of the store comes between |
| `ServiceLifecycle` | `service run`, start, status, stop, the first connection of every client | `metadata` and `socket` name the process whose token and listener they are; `proc` and `cli` where each process and command is; one action per call on the files or the endpoint |
| `McpHost` (extends `ServiceLifecycle`) | bridge, heartbeats, shutdown of an MCP host, requests given up; the leases and recoveries of its sessions | `call` is the request of a host, `timers` its heartbeats, `beats`, `detaches` what is under way, `stdio` how far a shutdown is; `session` the service's record, `recovering` what it recovers; `CallOpen`, `CallClose`, `HandleOpen`, `HandleClose`, `Answer`, `CallFails`, `Abandoned`, `Beat`, `HandleBeat`, `LoseBeat`, `HandleDetach`, `LoseDetach`, `LeaseExpires`, `Inspect`, `MarkPending`, `Resolve`, `RetryDue`, `Shutdown`, `CloseStdio`, `HostExits`, `HostDies` |
| `ReliabilityReport` | selection, warnings, percentages and rating of a report | operators on a sequence of events |
| `EventStore` (extends `ReliabilityReport`) | the event log and its recorders | `store` is the file; `flow` what each session or command has still to record and has read; `ReadStore`, `CheckExists`, `WriteStore`, `WriteFails`, `CreateRefused` are its accesses |
| `ConnectorFiles` | what both connectors share: a plan, the steps that apply and undo it, the user | `config`, `instructions`, `record` are the files, `command` a command in a repository, `strays` the entries whose creation took effect and was reported as failed; `Begin`, `Write`, `Verify`, `Undo`, `Crash`, `UserEdit`, `Upgrade` |
| `CodexConnector`, `AntigravityConnector` | the plans, checks and orders of each host | `Prepare...`, `Apply...`, `Verify...` |
| `Connectors` | the composition | a behaviour uses one host: they share no file |
| `ProjectStorage` | `init`, `migrate`, and the directory an operation writes in | `store` is what is at the two paths, `command` what each process has seen and where it is; one action per rename, check, write or removal |
| `MC...` | values of the constants for TLC | – |
| `OperationQueueProofs`, `TaskStoreProofs`, `ResumeProofs`, `ServiceSessionsProofs`, `McpHostProofs`, `EventStoreProofs`, `ProjectStorageProofs`, `ConnectorsProofs` | theorems | – |

`OperationQueue` and `TaskStore` compose through the constant `Serialized`:
`TaskStore!MayEnter` lets a serialized process in only when no other is inside,
which is what `OperationQueue!MutualExclusion` proves of the queue.
`ServiceSessions` uses the same fact in another form: it has one `worker`. What
it needs of the queue for its liveness, that a call which waits is let in, is
`OperationQueue!EveryCallRuns`. `McpHost` takes the other side: what a service
does inside a request is one step there, and of a session it keeps the lease and
the recovery, with the same rules.

### How `TaskStore` abstracts the code

* **Conclusions.** A member of `Entries` is one semantic conclusion that a task
  keeps to its end: work, a decision, a failed attempt, a validation, an
  assumption. `Work` is the part that is in progress and that finish must
  resolve. Blockers and next actions, which finish drops from the archive, are
  left out, and so is everything that is text: Markdown, timestamps, agents,
  redaction. Parsing what was serialized gives the same state back.
* **Fingerprints** hash, within one task, the kind, the report revision (which
  determines the conclusions, see `ReusedMeansUnchanged`) and the Git
  observation.
* **Reads.** Loading `current.md` is one read. The listing of `history/` and
  the test whether an archive exists are one step. The existence tests that
  prepare makes before commit's own exclusive create are folded into it: they
  fail in the same way.
* **The compare before a finish** is on text. A rewrite that moved only a
  timestamp changes the text and not the state, so `FinishReread` may take its
  failure branch even when the states are equal; `FinishCheck` may because of
  `PrepareFails`.
* **Faults** are a constant: a write that fails (`create`, `replace`), a link
  that succeeds while the removal of its temporary file fails (`cleanup`: the
  code reports a failure although the file is there), `remove`, `rollback` and
  `crash`. Removing a missing `current.md` succeeds, as `rm` with `force` does.
  A crash of the service ends every serialized operation.
* **Limits.** `MaxTask` and `MaxCp` are the 999 identifiers a day and a task
  have; running out is an early return. `MaxGit` bounds the distinct Git
  observations. `rev` and `count` are not bounded by guards: `rev` grows only
  with a new conclusion and `count` with a new file, both finite.

### How `ServiceSessions` abstracts the code

| code | actions |
|---|---|
| `recoverStaleSessions`, `LeaseMonitor.inspect` | `ScanLeases`, `InspectStale` |
| `resolveRecovery`, `recoveryFailed` | `MarkPending`, `LoadActive`, `RecoveryCheckpoint`, `RecoveryFails`, `Resolve` |
| `openSession` | `BeginOpen`, `RecoverNext`, `DetectSwitch`, `SwitchCheckpoint`, `OpenNew`, `OpenAttach` |
| `beginTask`, `reportProgress` and `createCheckpoint`, `finishTask`, `closeSession` | `BeginRequest`, then `BeginTask`, `Report`, `FinishTask`, `CloseSession`, `RequestFails`; `RefuseClose` |
| `persistJournal` | `Save` (or `Resolve`), then `Written(0)` |
| `heartbeat`, `detach`, `getResumePacket` | `Heartbeat`; `Detach`, `DetachSave`; `BeginResume`, `Resume`; then `Written(id)` |
| `initialize` | `Restart` |
| `shutdown` in `run-service.ts` and in the coordinator | `BeginShutdown`, `ShutdownSave`, then `Written(ByShutdown)`; the end of the process is `Crash` |
| outside the program | `LeaseExpires`, `RetryComesDue`, `CommandLine`, `Crash` |

* **Awaits are the interleaving points.** What a handler does between two awaits
  is one action; what it has read before an await is in `worker.seen`. Recording
  an event is an await and nothing else.
* **Time** is two Booleans in effect: a lease is live or has expired, a retry
  time is later or due. Each may change at any moment; the order of two times is
  not kept. Sessions are numbered in the order they are opened, which is what
  `freshActive` sorts by (two sessions opened in the same millisecond apart).
* **The journal** keeps of a session its task, its attempts and its retry time.
  The state is not read back (every entry is restored as interrupted), and the
  agent is not needed afterwards: it only names the author of a checkpoint.
  For the same reason a session that is not live forgets its agent and lease.
* **Snapshots** are built before the first await of a write, so `Persist` takes
  them and `Written` lets them reach the file. One write of a session's own
  requests is in flight at a time; writes of two sessions, or of a session and
  the worker, overlap freely. The heartbeat's debounce is a choice: any
  heartbeat may write. `newest` is the writer of the latest snapshot and `saved`
  says that it, and none after it, is in the file; `heard` that the session which is
  being timed out was heard of after its lease was looked at. No guard reads them.
* **Restart.** `initialize` ends before the service listens, hence one action.
  The journal's write in `initialize` may fail.
* **Shutdown** stops the monitor, records an event, and takes a snapshot, which
  is written beside those of the handlers that have begun: nothing waits for the
  queue. The process ends some time later, possibly before all of this is done;
  that is `Crash`, which forgets everything but the files.
* **Limits.** `MaxSessions`, `MaxTasks` and `MaxRestarts` bound what TLC
  explores and nothing else; `RetryLimit` is the code's 3.
* **Left out**: several repositories in one journal, records whose repository
  cannot be restored, a journal that is corrupt or unsafe (the service then does
  not write it), and the journal's limit of 1,000 records.

### How the other modules abstract the code

* **`Resume`.** The packet is the checkpoint it is assembled from. Its fields
  are those of the loaded state, which is read once; a crash of a reader is
  forgotten, since it writes nothing. Reading the latest completed task to word
  the answer, the secret scan, and the output file are left out. `remains`
  records that a crash or a failed removal has left files behind.
* **`ServiceLifecycle`.** A token is the process that wrote it. The endpoint is
  a Unix socket, whose path outlives its owner, or a pipe, which does not; the
  initial state chooses. Closing a listener removes the path it was bound to,
  whoever is bound there now, as Node does. `Overlap` lets commands run into
  each other, `SlowPing` lets a ping of a live service time out.
* **`McpHost`.** A request has its answer withheld, late or given up, and goes on
  in the service (`Abandoned`). Heartbeats and detaches pass by the queue, one of
  each under way per session; any of them may be lost, refused or late. A lease
  may run out at any moment. That a session operation renews it, the events, the
  journal and restarts are `ServiceSessions`' part. `Inspect` looks at the lease and
  takes the queue, `MarkPending` does not look again, `Resolve` fails up to three
  times. Closing standard input is taken to call `onclose`, which is the SDK's.
  `LateOpen` lets a host shut down while an open is under way.
* **`EventStore`.** An event is its type, task, session, host and freshness;
  `by` and `nth` mark whose and which it is, for the properties only. A flow is
  a session or a command; `turns` says whether two flows can record at once.
  A filter is written as the positions it leaves (`Among`). What an operation
  observes is enumerated from `observe-operation.ts` and the coordinator. Time is
  left out: which sessions lasted a minute is an argument.
* **Connectors.** A file is what the user wrote and the part the connector owns;
  a fingerprint is that part itself. The format-preserving editors are modelled
  by what they decide (add, keep, replace, refuse) and leave. `Antigravity`'s
  surfaces `ide` and `desktop` read the same file and are one. Backups are
  written once and never read. A write that fails leaves the file as it was, or,
  when it creates the file, may leave it there (`stray`): the link has been made and
  the temporary name cannot be removed.
* **`ProjectStorage`.** A store is whether its canonical files are there, which
  directory its manifest names, whether a staged manifest is in it, and the
  version of the task's state and whether a task is active. The two directories are
  looked at one after the other, in either order. Operations take turns among
  themselves only; each replaces the state, or, being a finish, reads it again and
  removes it, by a path in the directory it found at first. A fault of a migration
  may last through the removal or the rename that should undo it: both failing calls
  then count as one.

## 3. Runs

| run | instance | distinct states | asks |
|---|---|---|---|
| `store_mixed` | 2 unsynchronised processes, 2 checkpoints, failing writes and crashes; a second task, observation or conclusion, not two of them (`OneSecond`) | 1,423,701 | do resume, duplicate suppression, `reused` labels and archives ever meet a missing or foreign file? Can `current.md` disappear without its task being archived? (no) |
| `store_serialized` | 2 service requests, 2 tasks, 3 checkpoints, all faults | 416,342 | do the files implement `TaskLedger`? are allocated numbers free, counts covered by files, revisions monotone? (yes) |
| `resume` | a resume beside one service request, 2 tasks, 2 checkpoints, all faults | 2,664,160 | is the recorded checkpoint found as recorded, however old the state read? does a failed finish leave a task that can be finished? (yes) |
| `operation_queue` | 4 calls for one repository, 1 for another | 24,385 | is the chain a first-in first-out lock, does it forget its tails, does every call run? (yes) |
| `sessions_outside` | 1 session, 2 tasks, heartbeats, detaches, resume requests and a shutdown beside the queue, all failures, a restart | 2,482,957 | does an ended session stay ended, is a recovery checkpoint of the silent session's task, is the journal at rest exact unless its latest snapshot was overtaken or failed, does a request heard in time save a session? (yes) |
| `sessions_silence` | 2 sessions, no request outside the queue, failing checkpoints, the command line active, a restart | 257,817 | is a silent session renewed, ended or out of attempts? (yes) |
| `mcp_host` | 2 processes, a user who may run or stop the service, a host with `--ensure-service`, one death; a session where only the host and one service have acted (`HostAloneOpens`), no shutdown during an open | 125,185 | can a service that serves be found, is nothing left behind, does a start succeed whatever is found? is a session that lost its host ended, or kept after three failed recoveries? is none that is pending forgotten? (yes) |
| `reliability` | 2 sessions and a command, a log of 3 events keeping 1 closed session; 4 operations in turn, or 2 overlapping with a failing write; no file or a corrupt one at first | 350,649 | does the file parse, is an event lost only by retention, are numbers unique, do warnings and rating agree, does work ever lower a rating? (yes, yes, yes, yes, no) |
| `reliability_percent` | 4 operations in turn, 2 closed sessions kept | – | `PercentAlwaysFits`: violated |
| `connectors` | 2 worktrees, 2 versions, one command at a time, at most two of an edit, an upgrade and a fault or kill | 446,550 | is a shared entry kept while depended on and proven by the record, does a rollback restore, but for a file whose creation was reported as failed, is the user's text kept, does an installed repository stay verified? (yes) |
| `connectors_update` | 2 worktrees, an upgrade | – | `AntigravityConnectSucceeds`: violated |
| `project_storage` | 3 commands, 3 versions, one fault and one kill | 3,934,390 | is there one store, does a migration leave nothing of itself, is every change that was made and reported kept, does a task whose finish was reported stay removed, whatever is started after it? (yes) |

**Bounds.** Every race in the store is between one read and one write of
another operation, so two processes suffice to produce it; a process that
returns starts again, so any number of operations follow each other. Two
conclusions, one of them work, tell apart "kept", "lost" and "resolved". Two
checkpoints let one be the latest and the next collide; three let an orphan lie
between two that are referenced; two tasks let a step prepared for the first
land on the second. `OneSecond` bounds the product of the three, not their
interleavings. Four calls put two calls between a first and a last one,
so the tail can be replaced while its owner runs and while it waits. In
`resume` one operation is enough beside the reader: the proof is for any number.

In `ServiceSessions` two sessions are what an agent switch, an overtaken write
and a recovery on behalf of another session need; one session has all the races
between one handler and the requests outside the queue. Two tasks let the active
one change under a session. One restart is what the journal is for; a second
adds nothing that `RetryLimit` does not already bound. With three attempts there
is a first, a middle and a last.

In `mcp_host` two processes are a service and its successor, one death reaches
every state that a crashed start or stop leaves, and each command begins when
the others have settled (`Overlap = FALSE`). One session has every race of
heartbeats, detaches, a close, the lease, the monitor and the queue; what a second
one adds is another holder of the queue, which `ServiceSessions` has. The
constraint `HostAloneOpens` leaves out the states in which there is a session and
the user, or a second service process, has acted as well: starts and stops are
explored without a session, sessions with one service that may die. The
behaviours it cuts are those in which one more `session.open`, command or service
process begins, none of which has to (`CallOpen`, `Begin`, `Run`).
In `EventStore` a log of three
events is shorter than what two operations record, so retention by number and by
session both happen; corrupt files are refused from the start. In `Connectors`
the second worktree is the one that depends on the shared entry, the second
version the one an upgrade installs, `TwoDisturbances` lets an upgrade meet a
fault, or an edit a kill. In `ProjectStorage` three commands are two migrations
and an operation or an initialization between their steps.

**Symmetry** is over processes, worktrees or commands, which are
interchangeable in every run that uses it (`Serialized` is all or none); no
temporal property with fairness is checked under it.

**Deadlock** is checked in the runs of the store, of resume and of the project
storage. The other instances stop when what is bounded is used up: calls,
sessions, restarts, processes, operations, faults.

**Fairness** is assumed of `Proceed`, `Release` and `SettleTail`: the event loop
runs every continuation that is ready, and an operation put in the queue
returns or throws, since it awaits only file-system and Git calls, the latter
with a timeout. `Run` is a caller's choice and has none. In `ServiceSessions`
`Working` is fair for the same reason, `ScanLeases` because the monitor runs on
an interval, `RetryComesDue` because time passes. `InspectStale` needs strong
fairness: clients may keep the queue busy, and it is the queue's first-in
first-out order that lets the monitor in. In `McpHost` the operating system runs
every process that is not dead (`ProcessStep`, `ClientStep`, `HostWork`,
`Recovery`), a request that is under way arrives or is lost (`Arrives`), the
lease monitor looks again and again (`Inspect`, where the queue is free), and
time passes: a retry comes due, and a lease runs out where no heartbeat is left to
renew it (`Quiet`). Where one is, nothing is assumed of leases. Nothing is assumed
of users, signals, timeouts, deaths, or of the end of a service and the start of
the next.

**What the two violated runs say.**

* `reliability_percent`: a report looks at the events that a limit, a task or
  the retention leaves. `hostSummary` divides the sessions that closed or
  finished in them by those that opened in them, so the quotient can exceed 100;
  the report's own schema then refuses it and `b1 reliability` throws
  (`analyze-reliability.ts:98`, `report-schema.ts:67`).
* `connectors_update`: two Antigravity surfaces share the entry of one file, and
  the record keeps a fingerprint for each. After an upgrade a connect of one of
  them rewrites the entry and updates its own fingerprint only; the verification
  compares all of them, fails and rolls the update back
  (`antigravity-connector.ts:435`, `antigravity-verification.ts:155`). Codex
  updates every surface of its one region.

**Where a property has a condition, what the code does without it.**

* A report of another process than the service, between another's read and
  rename, is lost (`apply-report.ts:259`), although reports are said to append
  (`docs/getting-started.md:170`); from the same cause a report prepared before a
  finish makes the finished task active again. `RevisionMonotone` and
  `ImplementsLedger` are for the requests of one queue.
* `RecoveryOfOwnTask` needs a command line that does not finish and start tasks:
  they are compared at `service-coordinator.ts:839`, and the checkpoint asked for at
  886 loads the active one again.
* An absent retry time means "no more" where it is removed and "now" where it is
  read (`session-registry.ts:278`, `service-coordinator.ts:999`): a restart gives
  a session whose three attempts are used up another one, and a session
  recovered after a restart is recovered again by each later `session.open`.
* A crash, or a rollback that fails, inside a finish leaves a final checkpoint
  of the active task behind; prepare then refuses every later finish (AFF006).
  `FinishableAgain` therefore speaks of histories without leftovers
  (`remains`); `store_serialized` shows that the ledger is intact with them.
* Before a first checkpoint is recorded, a resume takes the highest file of the
  task, which may be one whose operation has not recorded it yet and rolls it
  back: the packet is then of a checkpoint that ceases to exist.
* `JournalCurrent` asks that the latest snapshot is in the file (`saved`). A journal
  write is not waited for by the next: a heartbeat's snapshot is taken, a request's
  is taken and renamed into place, the heartbeat's is renamed over it. Nothing
  failed, and the journal does not know the task that was begun until the next
  snapshot (`service-coordinator.ts:248`, `docs/reliability.md:131`).
* `LiveNotTimedOut` excepts a session that was heard of while its time-out was being
  recorded (`heard`): the lease is checked, `session_timed_out` is recorded, and the
  session is marked without another look. A heartbeat in between is accepted, and the
  session is timed out with the new lease (`service-coordinator.ts:818`).
* `DisconnectedEnds` needs `LateOpen = FALSE`: a host whose standard input closes
  clears its timers; the answer of a `session.open` that was under way starts another
  (`heartbeat-manager.ts:25` does not ask whether the host is shutting down), which
  keeps the process and the session alive for good.
* Two starts, or a start and a clean-up, that run into each other
  (`Overlap = TRUE`) break `Discoverable`: each reads, checks and removes the
  metadata in separate steps.
* Recorders that overlap lose events and repeat numbers; `OwnOrder` and `TypeOK`
  are what is left.
* Two connector commands at once (`MaxRunning = 2`) break
  `RetainedWhileDepended`: the record is replaced without being compared.
* `RolledBackRestores` and `OwnEntryProven` except the entries whose creation took
  effect and was reported as failed (`strays`). A created file is noted as changed
  after its write has returned; a write that links the file and then cannot remove its
  temporary name throws (`atomic-binary-file-writer.ts:54-65`), the rollback skips the
  file and is reported as complete (`codex-connector.ts:531`,
  `antigravity-connector.ts:565`), and an entry stays that no record proves.
* An operation that holds a path in a directory that is renamed creates the
  directory again for its file, and later commands find two (`overlapped`). A
  migration that is killed, or cannot remove the manifest it staged, leaves one that
  stops every later migration (`interrupted`); nothing in the code removes it.
* `FinishedRemoved` needs `~overlapped` too: a finish removes `current.md` by its path,
  and the removal of a path that is gone succeeds. When `b1 migrate` renames the
  directory after the last read, the finish is reported as a success and the task,
  archived, is still active in the new directory (`finish-task.ts:767-770`). The state
  is not lost, which is why `AcknowledgedKept` has no such condition.

## 4. Proofs

`OperationQueueProofs`: for every set of calls and repositories, `TypeCorrect`,
`MutualExclusionHolds`, `TailsForgottenHolds` and `QueueImplementsMutex`, all
from `ChainInv`. Mutual exclusion is not inductive: a call waits for one tail
only, so the invariant has to say that this tail covers everything in front of
the call (`PreviousInv`), that it settles only when all of that is done
(`SettledInv`), that calls of a repository are totally ordered (`OrderInv`), and
that a forgotten tail leaves nothing in progress (`TailsInv`).

`TaskStoreProofs`, on the files: for any number of unsynchronised processes, tasks and
checkpoints, with crashes and failing writes, `TypeCorrect`, `LatestResumableHolds`,
`ArchiveHasFinalHolds`, `HistoryImmutableHolds` and
`RemovedOnlyWhenArchivedHolds`, the latter four from `FilesInvariant`. None of them is
inductive: that `current.md` refers to an existing file says nothing of a
rollback about to remove it. The invariant is one of ownership.

* `HistoryInv`, `ArchiveInv`: a file that an operation created exclusively holds
  what it wrote and has no other owner until the operation returns. This is what
  the exclusive link gives, and why the comparison in `safeRollback` succeeds.
* `ReferenceInv`, `FiledInv`: a reference, in `current.md` or in a report that is
  about to be written there, is to a file without an owner; the final
  checkpoint of an archive has no owner, or one that removes the archive first.
* `TasksInv`: of all tasks that an operation or `current.md` speaks of, only the
  last one started may be not archived for good, and only that one is being
  archived. A late report can make a finished task active again, and the finish
  of another may then remove it; by this invariant it is archived all the same.

`StepShape` reduces every step to six shapes (nothing owned changes, a
checkpoint or an archive is taken or dropped, operations die), and each part of
the invariant is proved over these. The hypothesis is `NoLeftovers`: no file
stays behind when its creation was reported as failed ("cleanup") or because it
could not be removed ("rollback"). With such a leftover an archive loses its
final checkpoint: an archive that was reported as not created (the link succeeded,
removing the temporary file failed), or that could not be removed, stays while
the rollback goes on to the checkpoint it names. This is why `store_mixed` has
`RecoverableFaults`.

The rest of `TaskStoreProofs` says what a state is worth as a description of the
files. `ReusedMeansUnchangedHolds` has the hypotheses above. A state that an unsynchronised operation carries may
be old, but what it says of its latest checkpoint stays true (`Sound`): merging
raises the revision exactly when it adds a conclusion, and the file it names has
no owner who could replace it.

The last part is for `OneQueue`, every operation being a request of the queue,
and for every fault, leftovers and crashes included: `AllocatedIdFreeHolds`,
`RevisionMonotoneHolds`, `CountCoveredHolds` and the refinement
`StoreImplementsLedger`.

* `Alone` says that one operation is under way, which is what the queue gives;
  `UpToDate` what that is worth: at each place the files are still as the
  operation has read them. Neither holds without the other.
* For the refinement every action is mapped by the place where it takes effect:
  `StartCreate` to `Start`, `ReportReplace` to `Report`, `FinishRemove` to
  `Finish`, where `UpToDate` is what makes the merged state the old one with the
  reported conclusions, and the archive the active task's. Everything else
  changes no conclusion, and no archive but that of the active task
  (`StepCompleted`), which the ledger does not show until the task is removed.
* `CountCovered` counts files, some of which a rollback removes. `CountInv`
  counts only those no operation owns (`Kept`), whose number no step lowers.

Without the queue the ledger is not implemented (section 3).

`ResumeProofs`, for any number of unsynchronised operations and with
`NoLeftovers`: `ResumeTypeCorrect` and `RecordedIsFoundHolds`. What a resume has
loaded grows old, but the reference in it stays as good as the one in
`current.md`: no operation owns the checkpoint (`Refers`, kept by every step of
the store by `RefersKept`), so none removes it before it is read. For `OneQueue`
and every fault: `FinishableAgainHolds`, from `CleanInv`: while nothing was left
behind, a final checkpoint or an archive of the active task belongs to a finish
that has still to remove either it or `current.md`.

`ProjectStorageProofs`: for any number of commands, versions, faults and kills,
`StorageTypeCorrect`, `OneStoreAlways`, `MigrationsLeaveNothing`,
`AcknowledgedAlwaysKept` and `FinishedStaysRemoved`, all from `StorageInv`. One store is not inductive: an
initialization that looked before a rename would create a second one, hence
`SeenInv`, that what a command saw is still so unless a rename has overlapped
it. That nothing is left of a migration needs to know whose it would be:
`LateInv` says that of all migrations only one has moved the directory and not
settled its manifest, `RemainsInv` that a staged or an old manifest where it
should not be is that one's. For the finish, `TasksInv` orders the versions: no
state is older than the last finish, none as old as it is active, and an operation
that no rename has overlapped still holds the version that is in its directory,
since operations take turns (`TurnInv`).

`ServiceSessionsProofs`: for any number of agents, sessions, tasks, restarts and
attempts,

* `TypeCorrect`, with `Room`: a `session.open` that is under way has an
  identifier left;
* `RetryScheduledHolds` and `EndedForGoodHolds`, with every failure and every
  request outside the queue. Both rest on what a step does to one record
  (`AllKept`, `RetryStep`), on `Stray` (a handler that does not wait for its
  snapshot has none in flight, so `Written(0)` returns to the right place) and
  on `Unused` (the next identifier names no session, so opening overwrites
  none);
* `RecoveryOfOwnTaskHolds`, where `Cli = FALSE`: a step of the worker is the only
  one that changes the active task, so the comparison is still true when the
  checkpoint is taken;
* `JournalCurrentHolds` and `LiveNotTimedOutHolds`, with every failure and every
  request outside the queue. `JournalInv` says where the latest snapshot is current:
  on its way and, if nothing came after it, in the file, except between a change of
  the registry and the snapshot that follows it; of older snapshots, of which any
  number may be on their way, it says nothing. The lease of a session that is being
  timed out is over until it is marked, unless it was heard of since the monitor
  looked; a handler that renews a lease in the queue cannot run then.

`McpHostProofs`, for any number of processes, clients and hosts:

* `PendingTrackedHolds`, with overlapping commands, late pings, deaths, shutdowns
  at any time and any number of sessions. `MarkPending` sets no time for a retry and
  takes the session out of the monitor's sight, so the invariant (`RecoveryInv`)
  says of what a process holds the queue for that it is a session of its own with an
  attempt left: the mark and the failure of a recovery then leave it tracked.
* `DiscoverableHolds` and `NothingLeftHolds`, for `OneAfterAnother`: a command
  begins when the others have settled and a living service answers a ping, as in
  the run. `FilesInv` gives the meaning of each place of a start and a stop: which
  of the two files is gone (`FilesOf`), and that another process lives only to
  find out that the first one serves (`Sole`). Commands that overlap remove the
  files of a live service (section 3).

`ConnectorsProofs`, for any number of worktrees, upgrades, edits, faults and
kills, with one command at a time (`OneCommand`: two at once break
`RetainedWhileDepended`, section 3): `OwnEntryProvenHolds`,
`InstalledStaysVerifiedHolds`, `RetainedWhileDependedHolds`,
`RolledBackRestoresHolds` and `UserContentKeptHolds`, all from `ConnectorsInv`,
with writes that take effect and are reported as failed.
The properties speak of the files between two commands, and a command leaves
them in up to six writes and as many of its rollback, so the invariant has to
say what holds on the way.

* `Sound`: between two commands the record is of one mind about every entry of a
  connector (`Owned`; for this `Recorded` says that a connection has a surface),
  and what was reported as connected is there (`Depended`, `VerifiedIn`).
* `Sensible`, of the plan: it keeps what the user wrote (`Considerate`), and when
  all of it is applied the files are sound again: a connect writes entries the
  new record proves (`Connects`), a disconnect removes what no surface of the new
  record uses (`Disconnects`). These are the lemmas about the two connectors;
  most of the proof is in them.
* `Foreseen`: between the preview and the apply the user may only have taken
  entries of the connector away, and the apply refuses when he did.
* `InFlight`: until the command ends, every file is what it was or what the plan
  makes of it, and where it is not what it was the command has noted it as
  changed, or as one whose creation was reported as failed. A rollback therefore
  finds all of it but that one, which stays (`strays`), and a kill or a rollback that
  fails leaves only entries of the one descriptor it notes as interrupted.

`EventStoreProofs`, for any number of sessions, commands and operations and any
limits of the log: `EventStoreTypeCorrect`, `OwnOrderHolds`,
`NumbersUniqueHolds`, `LostByRetentionOnlyHolds`, `RatingAgreesHolds` and
`WorkKeepsRatingHolds`, the first four and the last from `EventsInv`.

* A compaction, a filter and a limit leave the elements at some positions in
  their order (`Picks`, `AmongPicks`, `NewestPicks`). The positions are
  enumerated by counting (`Place`), so no recursion over sequences has to be
  reasoned about, and what is picked from a pick is picked from the whole.
* Whatever holds of the order of two events is therefore kept: `Sound` says that
  numbers, and those of one flow's own events, ascend in the file and in what each
  flow has read of it. `Past` adds that a flow has not recorded the event it is
  at. Neither needs turns.
* With turns, what a flow has read is still the file, and the next number is above
  every one that was ever given (`NextAbove`): the log alone does not tell, since
  its last event may have been dropped. `Accounts` says of each event that is not in
  the log why it was dropped, and the two reasons, so many later events or so many
  sessions closed later, only become more true.
* The rating is a matter of the report alone: which warnings it lists decides
  it (`RatingCases`), and an event of ordinary work adds none of those that count.

The assumptions are those of the modules (`QueueAssumption`, the two
`StoreAssumption`s, `ResumeAssumption`, `SessionsAssumption`, `StorageAssumption`,
`ConnectorAssumption` and those of `ServiceLifecycle` and `McpHost`), which TLC
evaluates in each run. A hypothesis that only some theorems need
(`NoLeftovers`, `OneQueue`, `OneAfterAnother`, `OneCommand`, `Cli = FALSE`) is in their statement, and holds in the run that
checks the same property (the run of `RecordedIsFound` has one operation and
every fault instead). Type invariants that are proved are not checked again, but for that of
`EventStore`, which says that the file can be parsed.

Only model-checked: `EveryCallRuns`, `SilenceResolved`, `StartSucceeds` and
`DisconnectedEnds`, since liveness under fairness is out of the prover's reach. Every
other property of a passing run is a theorem.
`PercentAlwaysFits` and `AntigravityConnectSucceeds`, the properties of the violated
runs, do not hold.

## 5. Plan

Done: the task store with its ledger, the operation queue with its lock, the
sessions with their journal, resume, the lifecycle of the service and its MCP
hosts, the event log and the report on it, both connectors, initialization and
migration.

Left, in this order:

1. proofs: `UserContentKept` for several connector commands at once, which
   compare every file with what they have read before they replace it;
2. an abstract specification of a session's life that `ServiceSessions` and
   `McpHost` both implement; several repositories in one journal;
3. the cutting of a resume packet to its budget, as a function on the sizes of
   its sections;
4. the embedded MCP mode after its start, and the MCP tools beside open and
   close.

## 6. Not modelled

Git inspection, configuration and context parsing, scanners, diagnostics and
argument parsing are text processing or pure reads; where an operation of the
store calls one of them, its failure is the `PrepareFails` step. Of a resume
packet the assembly, the cutting and the rendering are left out: its budget
counts characters of JSON while the rendering escapes Markdown and throws beyond
a limit of its own (`render-resume-markdown.ts:282`), which a model without the
text cannot tell. Of the connectors, the text the editors preserve, backups and
paths; of the service, the wire format, authentication and the permissions of
its directory; of the event log, timestamps and the fields no report reads.
