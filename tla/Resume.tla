------------------------------- MODULE Resume -------------------------------
(***************************************************************************)
(* b1 resume and the get_resume_packet tool, next to the operations of     *)
(* TaskStore.  A resume takes no turn in the service's queue: between any  *)
(* two of its reads the operations may write, fail, roll back or die.      *)
(*                                                                         *)
(* It loads current.md, lists the history, looks whether the checkpoint it *)
(* has chosen is there, and reads it.  The text of the packet is left out: *)
(* the packet is the checkpoint it is assembled from.                      *)
(***************************************************************************)
EXTENDS TaskStore

CONSTANTS Requests     \* the checkpoint numbers a resume may ask for, 0 for the latest

ASSUME ResumeAssumption == Requests \subseteq 0..MaxCp

VARIABLES
    reader,     \* the resume in progress
    remains     \* history: a crash, a cleanup or a rollback has left files behind

resumeVars == <<vars, reader, remains>>

Outcomes == {"pending",
             "missing-state",    \* AFR002, no active task
             "no-checkpoint",    \* AFR004, no file of the task in the history
             "missing-file",     \* AFR005 and AFR006, the chosen file is not there
             "mismatch",         \* AFR008, another fingerprint than the recorded one
             "unreadable",       \* AFR018, the file vanished before it was read
             "ready"}

\* task, latest, latestFp: of the state that was loaded; cp: the checkpoint chosen;
\* packet: the one the packet is made of.
Readers == [pc : {"idle", "list", "stat", "read", "done"},
            request : 0..MaxCp, task : 0..MaxTask, latest : 0..MaxCp, latestFp : Fingerprints,
            cp : 0..MaxCp, isLatest : BOOLEAN, packet : Checkpoints, outcome : Outcomes]

NoReader == [pc |-> "idle", request |-> 0, task |-> 0, latest |-> 0,
             latestFp |-> NoFingerprint, cp |-> 0, isLatest |-> FALSE,
             packet |-> NoCheckpoint, outcome |-> "pending"]

Answer(outcome) == reader' = [reader EXCEPT !.pc = "done", !.outcome = outcome]

\* The active state is loaded once; all that follows goes by it.
ResumeLoad ==
    /\ reader.pc = "idle"
    /\ \E c \in Requests :
          LET loaded == [NoReader EXCEPT !.request = c, !.task = current.task,
                            !.latest = current.latest, !.latestFp = current.latestFp]
          IN  reader' = IF current = NoState
                        THEN [loaded EXCEPT !.pc = "done", !.outcome = "missing-state"]
                        ELSE [loaded EXCEPT !.pc = "list"]
    /\ UNCHANGED <<vars, remains>>

\* Math.max(0, ...listed), as a set of one number
Highest(listed) == {c \in {0} \cup listed : \A x \in listed : x <= c}

\* Mutant: the highest file is taken for the latest checkpoint, whatever the state records.
LatestByFile(listed) == Highest(listed)

\* The latest checkpoint: the one the state records, or else the highest file of the task.
LatestOf(listed) == IF reader.latest # 0 THEN {reader.latest} ELSE Highest(listed)

ResumeList ==
    /\ reader.pc = "list"
    /\ \E latest \in LatestOf(CpsOf(reader.task)) :
          LET cp == IF reader.request = 0 THEN latest ELSE reader.request
          IN  IF latest = 0 THEN Answer("no-checkpoint")
              ELSE reader' = [reader EXCEPT !.pc = "stat", !.cp = cp, !.isLatest = cp = latest]
    /\ UNCHANGED <<vars, remains>>

ResumeStat ==
    /\ reader.pc = "stat"
    /\ IF history[reader.task][reader.cp] = NoCheckpoint
       THEN Answer("missing-file") ELSE reader' = [reader EXCEPT !.pc = "read"]
    /\ UNCHANGED <<vars, remains>>

\* Only the checkpoint the state records can be compared with its fingerprint.
ResumeRead ==
    /\ reader.pc = "read"
    /\ LET file == history[reader.task][reader.cp]
       IN IF file = NoCheckpoint THEN Answer("unreadable")
          ELSE IF reader.cp = reader.latest /\ file.fp # reader.latestFp THEN Answer("mismatch")
          ELSE reader' = [reader EXCEPT !.pc = "done", !.outcome = "ready", !.packet = file]
    /\ UNCHANGED <<vars, remains>>

ResumeReturn ==
    /\ reader.pc = "done"
    /\ reader' = NoReader
    /\ UNCHANGED <<vars, remains>>

\* The temporary file of an artifact, or the artifact itself, cannot be removed.
LeavesFiles(p) ==
    \/ pc[p] \in {"cpCreate", "finHistory"} /\ history' # history /\ pc'[p] = "idle"
    \/ pc[p] = "finArchive" /\ completed' # completed /\ pc'[p] = "finUnhistory"
    \/ pc[p] \in {"cpRollback", "finUnhistory"} /\ history' = history
    \/ pc[p] = "finUnarchive" /\ completed' = completed

StoreStep ==
    /\ \/ \E p \in Procs : Start(p) \/ Report(p) \/ Checkpoint(p) \/ Finish(p) \/ PrepareFails(p)
       \/ GitChange
    /\ remains' = (remains \/ \E p \in Procs : LeavesFiles(p))
    /\ UNCHANGED reader

StoreCrash ==
    /\ \E p \in Procs : Crash(p)
    /\ remains' = TRUE
    /\ UNCHANGED reader

ResumeInit == Init /\ reader = NoReader /\ remains = FALSE

ResumeNext ==
    \/ StoreStep \/ StoreCrash
    \/ ResumeLoad \/ ResumeList \/ ResumeStat \/ ResumeRead \/ ResumeReturn

ResumeSpec == ResumeInit /\ [][ResumeNext]_resumeVars

-----------------------------------------------------------------------------
ResumeTypeOK == TypeOK /\ reader \in Readers /\ remains \in BOOLEAN

\* A resume of the latest checkpoint finds the one its state records, however old the state
\* has become meanwhile and whatever failed or died: it never answers that it is missing,
\* another or unreadable (AFR005, AFR008, AFR018), and its packet is and stays history.
RecordedIsFound ==
    reader.request = 0 /\ reader.latest # 0 /\ reader.pc = "done" =>
        /\ reader.outcome = "ready" /\ reader.isLatest
        /\ reader.packet.fp = reader.latestFp
        /\ history[reader.task][reader.latest] = reader.packet

\* Unless a crash, a cleanup or a rollback has left files behind, a failed finish leaves a
\* task that can still be finished.
FinishableAgain == ~remains => ActiveMeansFinishable
=============================================================================
