----------------------------- MODULE TaskStore -----------------------------
(***************************************************************************)
(* The durable task store of one repository: the files under               *)
(*     state/current.md                  the single active task,           *)
(*     state/history/<task>-CP-NNN.md    immutable checkpoints, and        *)
(*     state/completed/<task>.md         archives of finished tasks,       *)
(* and the four operations that write them (start, report, checkpoint and  *)
(* finish), each split at the file-system calls between which another      *)
(* process can run.                                                        *)
(*                                                                         *)
(* A process is one operation in flight.  The requests of the shared       *)
(* service (Serialized) pass through its per-repository operation queue,   *)
(* so at most one of them is inside an operation; the other processes (the *)
(* command line, an embedded MCP server) run next to them unsynchronised.  *)
(*                                                                         *)
(* A member of Entries is a conclusion of a report that a task keeps to    *)
(* its end: completed or in-progress work (Work), a decision, a failed     *)
(* attempt, a validation or an assumption.  Finish must resolve the work,  *)
(* which moves it to the completed entries.  Blockers and next actions,    *)
(* which the archive drops, are left out.  Git is abstracted to an         *)
(* observation in 1 .. MaxGit.  MaxTask and MaxCp stand for the 999        *)
(* identifiers a day and a task have.                                      *)
(***************************************************************************)
EXTENDS Naturals, FiniteSets

CONSTANTS Procs,        \* operations in flight, across every OS process
          Serialized,   \* those that run inside the service's queue
          Entries,      \* semantic conclusions an agent can report
          Work,         \* the conclusions that are work in progress
          Reports,      \* the reports that report_progress may carry
          FinalReports, \* the final reports that finish may carry
          MaxTask,      \* last task number (the code's 999 a day)
          MaxCp,        \* last checkpoint number (the code's CP-999)
          MaxGit,       \* number of distinct Git observations
          Faults        \* the failures that may happen

FaultKinds == {"create",   \* a temporary file cannot be written or linked
               "cleanup",  \* the link succeeds, removing the temporary file fails
               "replace",  \* the rename onto current.md fails
               "remove",   \* current.md cannot be removed
               "rollback", \* an artifact cannot be removed while rolling back
               "crash"}    \* the operating-system process dies

ASSUME StoreAssumption ==
    /\ Serialized \subseteq Procs
    /\ Work \subseteq Entries
    /\ Reports \subseteq SUBSET Entries
    /\ FinalReports \subseteq SUBSET Entries
    /\ MaxTask \in Nat
    /\ MaxCp \in Nat
    /\ MaxGit \in Nat \ {0}
    /\ Faults \subseteq FaultKinds

VARIABLES current,    \* the contents of current.md, NoState when it is missing
          history,    \* the checkpoint files
          completed,  \* the archive files
          git,        \* what the Git inspector observes
          pc,         \* where each operation is
          plan        \* what each operation has read and prepared

store == <<current, history, completed>>
vars == <<current, history, completed, git, pc, plan>>

----------------------------------------------------------------------------
(* Data *)

Tasks == 1..MaxTask
Cps == 1..MaxCp
Kinds == {"absent", "progress", "final"}

\* What createCheckpointFingerprint hashes, within one task: timestamps,
\* identifiers and agents are left out of it.
Fingerprint(kind, rev, obs) == [kind |-> kind, rev |-> rev, git |-> obs]

NoFingerprint == Fingerprint("absent", 0, 0)

Fingerprints == [kind : Kinds, rev : Nat, git : Nat]

States == [task : 0..MaxTask, entries : SUBSET Entries, rev : Nat, count : Nat,
           latest : 0..MaxCp, latestFp : Fingerprints, latestRev : Nat]

NewState(t) == [task |-> t, entries |-> {}, rev |-> 0, count |-> 0,
                latest |-> 0, latestFp |-> NoFingerprint, latestRev |-> 0]

NoState == NewState(0)

Checkpoints == [fp : Fingerprints, entries : SUBSET Entries]

NoCheckpoint == [fp |-> NoFingerprint, entries |-> {}]

Archives == [final : 0..MaxCp, entries : SUBSET Entries, rev : Nat]

NoArchive == [final |-> 0, entries |-> {}, rev |-> 0]

\* state: the state loaded, and later the one to write; source: the text of
\* current.md that finish compares with; cp, checkpoint: the history file to
\* create; archive: the completed-task record to create.
Plans == [state : States, source : States, cp : 0..MaxCp,
          checkpoint : Checkpoints, archive : Archives]

NoPlan == [state |-> NoState, source |-> NoState, cp |-> 0,
           checkpoint |-> NoCheckpoint, archive |-> NoArchive]

Steps == {"idle", "startList", "startCreate", "reportReplace",
          "cpSurvey", "cpCreate", "cpReplace", "cpRollback",
          "finSource", "finSurvey", "finCheck", "finHistory", "finArchive",
          "finReread", "finRemove", "finUnarchive", "finUnhistory"}

\* n = Math.max(0, ...S) + 1
IsNext(n, S) == n - 1 \in S \cup {0} /\ \A x \in S : x < n

----------------------------------------------------------------------------
(* What the operations compute *)

CpsOf(t) == {c \in Cps : history[t][c] # NoCheckpoint}

HasFinal(t) == \E c \in CpsOf(t) : history[t][c].fp.kind = "final"

\* The task identities prepareTaskStart sees in history/ and completed/.
UsedTaskIds == {t \in Tasks : CpsOf(t) # {} \/ completed[t] # NoArchive}

\* The identity generateTaskId allocates; none when the numbers are used up.
NewTasks == {t \in Tasks : IsNext(t, UsedTaskIds)}

\* Mutant: the revision says only that something was reported.
MergeUncounted(s, r) == [s EXCEPT !.entries = @ \cup r, !.rev = 1]

\* Appends what is new; the revision counts the reports that added something.
MergeReport(s, r) ==
    [s EXCEPT !.entries = @ \cup r,
              !.rev = IF r \subseteq s.entries THEN @ ELSE @ + 1]

\* Mutant: allocation trusts the state and does not look at the files.
NewCpsOfState(s) == {c \in Cps : IsNext(c, {s.count, s.latest})}

\* The number allocateCheckpointId takes, after every file of the task and
\* after the state's own counters; none when the numbers are used up.
NewCps(s) == {c \in Cps : IsNext(c, CpsOf(s.task) \cup {s.count, s.latest})}

\* Mutant: the files are counted on top of the state's count.
NextCountTwice(s) == s.count + Cardinality(CpsOf(s.task)) + 1

NextCount(s) ==
    LET files == Cardinality(CpsOf(s.task))
    IN  (IF s.count < files THEN files ELSE s.count) + 1

Assemble(s, kind) == [fp |-> Fingerprint(kind, s.rev, git), entries |-> s.entries]

Checkpointed(s, c) ==
    [s EXCEPT !.count = NextCount(s), !.latest = c,
              !.latestFp = Fingerprint("progress", s.rev, git), !.latestRev = s.rev]

\* The semantic freshness a checkpoint of s is labelled with.
Freshness(s) == IF s.rev = 0 THEN "none"
                ELSE IF s.rev > s.latestRev THEN "new" ELSE "reused"

IsDuplicate(s) ==
    /\ s.latest # 0
    /\ s.latestFp = Fingerprint("progress", s.rev, git)
    /\ history[s.task][s.latest] # NoCheckpoint

\* Mutant: resolved work is dropped instead of moved to the completed entries.
ResolvedDropped(s, r, resolved) ==
    [MergeReport(s, r) EXCEPT !.rev = s.rev + 1, !.entries = @ \ resolved]

\* Final semantic state: the report merged, and one revision for the finish
\* if it reports or resolves anything.
Resolved(s, r, resolved) ==
    [MergeReport(s, r) EXCEPT
        !.rev = IF r \subseteq s.entries /\ resolved = {} THEN s.rev ELSE s.rev + 1]

\* Every resolution names unresolved work of the merged state and no work is left.
ReadyToFinish(s, r, resolved) == (s.entries \cup r) \cap Work = resolved

----------------------------------------------------------------------------
(* Control *)

\* A request of the service enters an operation only when no other one is in it.
MayEnter(p) ==
    /\ pc[p] = "idle"
    /\ p \in Serialized => \A q \in Serialized : pc[q] = "idle"

Goto(p, step, prepared) ==
    /\ pc' = [pc EXCEPT ![p] = step]
    /\ plan' = [plan EXCEPT ![p] = prepared]

Return(p) == Goto(p, "idle", NoPlan)

PutHistory(p, c) ==
    history' = [history EXCEPT ![plan[p].state.task][plan[p].cp] = c]

PutArchive(p, a) == completed' = [completed EXCEPT ![plan[p].state.task] = a]

\* Mutant: the file is renamed into place instead of linked exclusively.
HistoryAlwaysFree(p) == TRUE

HistoryFree(p) == history[plan[p].state.task][plan[p].cp] = NoCheckpoint

ArchiveFree(p) == completed[plan[p].state.task] = NoArchive

Init ==
    /\ current = NoState
    /\ history = [t \in Tasks |-> [c \in Cps |-> NoCheckpoint]]
    /\ completed = [t \in Tasks |-> NoArchive]
    /\ git = 1
    /\ pc = [p \in Procs |-> "idle"]
    /\ plan = [p \in Procs |-> NoPlan]

----------------------------------------------------------------------------
(* start: load, list the used identifiers, create current.md exclusively *)

BeginStart(p) ==
    /\ MayEnter(p)
    /\ current = NoState
    /\ Goto(p, "startList", NoPlan)
    /\ UNCHANGED <<store, git>>

StartList(p) ==
    /\ pc[p] = "startList"
    /\ \/ \E t \in NewTasks : Goto(p, "startCreate", [NoPlan EXCEPT !.state = NewState(t)])
       \/ NewTasks = {} /\ Return(p)
    /\ UNCHANGED <<store, git>>

StartCreate(p) ==
    /\ pc[p] = "startCreate"
    /\ \/ current = NoState /\ current' = plan[p].state
       \/ current # NoState /\ UNCHANGED current
       \/ "create" \in Faults /\ UNCHANGED current
    /\ Return(p)
    /\ UNCHANGED <<history, completed, git>>

----------------------------------------------------------------------------
(* report: load and merge, then replace current.md *)

BeginReport(p) ==
    /\ MayEnter(p)
    /\ current # NoState
    /\ \E r \in Reports :
          Goto(p, "reportReplace", [NoPlan EXCEPT !.state = MergeReport(current, r)])
    /\ UNCHANGED <<store, git>>

\* The rename puts the prepared text in place whatever is there by now.
ReportReplace(p) ==
    /\ pc[p] = "reportReplace"
    /\ \/ current' = plan[p].state
       \/ "replace" \in Faults /\ UNCHANGED current
    /\ Return(p)
    /\ UNCHANGED <<history, completed, git>>

----------------------------------------------------------------------------
(* checkpoint: load, survey history and Git, create the history file, replace
   current.md, and remove the history file again when that fails *)

BeginCheckpoint(p) ==
    /\ MayEnter(p)
    /\ current # NoState
    /\ Goto(p, "cpSurvey", [NoPlan EXCEPT !.state = current])
    /\ UNCHANGED <<store, git>>

CheckpointSurvey(p) ==
    /\ pc[p] = "cpSurvey"
    /\ LET s == plan[p].state
       IN  \/ \E c \in NewCps(s) :
                /\ ~IsDuplicate(s)
                /\ Goto(p, "cpCreate",
                        [NoPlan EXCEPT !.state = Checkpointed(s, c), !.cp = c,
                                       !.checkpoint = Assemble(s, "progress")])
           \/ (NewCps(s) = {} \/ IsDuplicate(s)) /\ Return(p)
    /\ UNCHANGED <<store, git>>

CheckpointCreate(p) ==
    /\ pc[p] = "cpCreate"
    /\ \/ /\ HistoryFree(p)
          /\ PutHistory(p, plan[p].checkpoint)
          /\ \/ Goto(p, "cpReplace", plan[p])
             \/ "cleanup" \in Faults /\ Return(p)
       \/ /\ ~HistoryFree(p) \/ "create" \in Faults
          /\ Return(p)
          /\ UNCHANGED history
    /\ UNCHANGED <<current, completed, git>>

CheckpointReplace(p) ==
    /\ pc[p] = "cpReplace"
    /\ \/ current' = plan[p].state /\ Return(p)
       \/ "replace" \in Faults /\ Goto(p, "cpRollback", plan[p]) /\ UNCHANGED current
    /\ UNCHANGED <<history, completed, git>>

CheckpointRollback(p) ==
    /\ pc[p] = "cpRollback"
    /\ \/ PutHistory(p, NoCheckpoint)
       \/ "rollback" \in Faults /\ UNCHANGED history
    /\ Return(p)
    /\ UNCHANGED <<current, completed, git>>

----------------------------------------------------------------------------
(* finish: load, read the text to compare with, survey, revalidate, create the
   final checkpoint and the archive, compare again, remove current.md; on any
   failure remove the artifacts this finish created, the last one first *)

BeginFinish(p) ==
    /\ MayEnter(p)
    /\ current # NoState
    /\ Goto(p, "finSource", [NoPlan EXCEPT !.state = current])
    /\ UNCHANGED <<store, git>>

\* The text of current.md is read a second time, after the state was parsed.
FinishSource(p) ==
    /\ pc[p] = "finSource"
    /\ IF current = NoState
       THEN Return(p)
       ELSE Goto(p, "finSurvey", [plan[p] EXCEPT !.source = current])
    /\ UNCHANGED <<store, git>>

FinishSurvey(p) ==
    /\ pc[p] = "finSurvey"
    /\ LET s == plan[p].state
       IN  \/ /\ ~HasFinal(s.task) /\ ArchiveFree(p)
              /\ \E c \in NewCps(s), r \in FinalReports, resolved \in SUBSET Work :
                    /\ ReadyToFinish(s, r, resolved)
                    /\ LET f == Resolved(s, r, resolved)
                       IN  Goto(p, "finCheck",
                                [state |-> f, source |-> plan[p].source, cp |-> c,
                                 checkpoint |-> Assemble(f, "final"),
                                 archive |-> [final |-> c, entries |-> f.entries,
                                              rev |-> f.rev]])
           \/ Return(p)  \* a conflict, or a final report that leaves work open
    /\ UNCHANGED <<store, git>>

FinishCheck(p) ==
    /\ pc[p] = "finCheck"
    /\ IF current = plan[p].source /\ HistoryFree(p) /\ ArchiveFree(p)
       THEN Goto(p, "finHistory", plan[p])
       ELSE Return(p)
    /\ UNCHANGED <<store, git>>

\* Mutant: the archive is not written.
FinishHistoryOnly(p) ==
    /\ pc[p] = "finHistory"
    /\ HistoryFree(p)
    /\ PutHistory(p, plan[p].checkpoint)
    /\ Goto(p, "finReread", plan[p])
    /\ UNCHANGED <<current, completed, git>>

FinishHistory(p) ==
    /\ pc[p] = "finHistory"
    /\ \/ /\ HistoryFree(p)
          /\ PutHistory(p, plan[p].checkpoint)
          /\ \/ Goto(p, "finArchive", plan[p])
             \/ "cleanup" \in Faults /\ Return(p)
       \/ /\ ~HistoryFree(p) \/ "create" \in Faults
          /\ Return(p)
          /\ UNCHANGED history
    /\ UNCHANGED <<current, completed, git>>

FinishArchive(p) ==
    /\ pc[p] = "finArchive"
    /\ \/ /\ ArchiveFree(p)
          /\ PutArchive(p, plan[p].archive)
          /\ \/ Goto(p, "finReread", plan[p])
             \/ "cleanup" \in Faults /\ Goto(p, "finUnhistory", plan[p])
       \/ /\ ~ArchiveFree(p) \/ "create" \in Faults
          /\ Goto(p, "finUnhistory", plan[p])
          /\ UNCHANGED completed
    /\ UNCHANGED <<current, history, git>>

\* Mutant: the archive is not among the artifacts to roll back.
FinishRereadLeaksArchive(p) ==
    /\ pc[p] = "finReread"
    /\ \/ current = plan[p].source /\ Goto(p, "finRemove", plan[p])
       \/ Goto(p, "finUnhistory", plan[p])
    /\ UNCHANGED <<store, git>>

\* A rewrite that only moved a timestamp changes the text too, so the
\* comparison may fail although the semantic state is the one read before.
FinishReread(p) ==
    /\ pc[p] = "finReread"
    /\ \/ current = plan[p].source /\ Goto(p, "finRemove", plan[p])
       \/ Goto(p, "finUnarchive", plan[p])
    /\ UNCHANGED <<store, git>>

\* Mutant: a failed removal is reported without rolling back.
FinishRemoveGivesUp(p) ==
    /\ pc[p] = "finRemove"
    /\ \/ current' = NoState
       \/ "remove" \in Faults /\ UNCHANGED current
    /\ Return(p)
    /\ UNCHANGED <<history, completed, git>>

FinishRemove(p) ==
    /\ pc[p] = "finRemove"
    /\ \/ current' = NoState /\ Return(p)
       \/ "remove" \in Faults /\ Goto(p, "finUnarchive", plan[p]) /\ UNCHANGED current
    /\ UNCHANGED <<history, completed, git>>

\* safeRollback removes an artifact only while it holds what finish wrote,
\* and goes on to the next one when a removal fails.
FinishUnarchive(p) ==
    /\ pc[p] = "finUnarchive"
    /\ \/ completed[plan[p].state.task] = plan[p].archive /\ PutArchive(p, NoArchive)
       \/ /\ completed[plan[p].state.task] # plan[p].archive \/ "rollback" \in Faults
          /\ UNCHANGED completed
    /\ Goto(p, "finUnhistory", plan[p])
    /\ UNCHANGED <<current, history, git>>

FinishUnhistory(p) ==
    /\ pc[p] = "finUnhistory"
    /\ \/ /\ history[plan[p].state.task][plan[p].cp] = plan[p].checkpoint
          /\ PutHistory(p, NoCheckpoint)
       \/ /\ \/ history[plan[p].state.task][plan[p].cp] # plan[p].checkpoint
             \/ "rollback" \in Faults
          /\ UNCHANGED history
    /\ Return(p)
    /\ UNCHANGED <<current, completed, git>>

----------------------------------------------------------------------------
(* The environment *)

\* An operation ends before it writes: invalid input, a Git error, a file that
\* cannot be read, content that is withheld.
PrepareFails(p) ==
    /\ pc[p] \in {"startList", "cpSurvey", "finSource", "finSurvey", "finCheck"}
    /\ Return(p)
    /\ UNCHANGED <<store, git>>

\* The requests of the service share one operating-system process.
Crash(p) ==
    /\ "crash" \in Faults
    /\ pc[p] # "idle"
    /\ LET dead == IF p \in Serialized THEN Serialized ELSE {p}
       IN  /\ pc' = [q \in Procs |-> IF q \in dead THEN "idle" ELSE pc[q]]
           /\ plan' = [q \in Procs |-> IF q \in dead THEN NoPlan ELSE plan[q]]
    /\ UNCHANGED <<store, git>>

GitChange ==
    /\ git' \in 1..MaxGit
    /\ git' # git
    /\ UNCHANGED <<store, pc, plan>>

Start(p) == BeginStart(p) \/ StartList(p) \/ StartCreate(p)

Report(p) == BeginReport(p) \/ ReportReplace(p)

Checkpoint(p) == \/ BeginCheckpoint(p) \/ CheckpointSurvey(p) \/ CheckpointCreate(p)
                 \/ CheckpointReplace(p) \/ CheckpointRollback(p)

Finish(p) == \/ BeginFinish(p) \/ FinishSource(p) \/ FinishSurvey(p) \/ FinishCheck(p)
             \/ FinishHistory(p) \/ FinishArchive(p) \/ FinishReread(p) \/ FinishRemove(p)
             \/ FinishUnarchive(p) \/ FinishUnhistory(p)

Next ==
    \/ \E p \in Procs : Start(p) \/ Report(p) \/ Checkpoint(p) \/ Finish(p)
    \/ \E p \in Procs : PrepareFails(p) \/ Crash(p)
    \/ GitChange

Spec == Init /\ [][Next]_vars
----------------------------------------------------------------------------
(* Properties that hold whatever runs next to the service *)

\* Every file holds what its schema allows, and every operation holds a
\* prepared plan of the shape its step needs.
TypeOK ==
    /\ current \in States
    /\ history \in [Tasks -> [Cps -> Checkpoints]]
    /\ completed \in [Tasks -> Archives]
    /\ git \in 1..MaxGit
    /\ pc \in [Procs -> Steps]
    /\ plan \in [Procs -> Plans]

\* Resume never meets a dangling or a foreign reference (AFR005, AFR008): the
\* checkpoint that current.md names exists and has the fingerprint recorded.
LatestResumable ==
    current.latest # 0 =>
        /\ current.task \in Tasks
        /\ history[current.task][current.latest] # NoCheckpoint
        /\ history[current.task][current.latest].fp = current.latestFp

\* A checkpoint labelled reused, or suppressed as a duplicate, hides nothing:
\* the latest checkpoint already holds every conclusion of the state.
ReusedMeansUnchanged ==
    \A s \in {current} \cup {plan[p].state : p \in {q \in Procs : pc[q] = "cpSurvey"}} :
        Freshness(s) = "reused" => history[s.task][s.latest].entries = s.entries

\* An archive always stands next to the final checkpoint it names, with the
\* same conclusions, at every instant of a finish and of its rollback.
ArchiveHasFinal ==
    \A t \in Tasks : completed[t] # NoArchive =>
        /\ completed[t].final \in Cps
        /\ history[t][completed[t].final].fp.kind = "final"
        /\ history[t][completed[t].final].fp.rev = completed[t].rev
        /\ history[t][completed[t].final].entries = completed[t].entries

\* current.md disappears only after the final checkpoint and the archive of
\* the task in it exist, whoever removes it.
RemovedOnlyWhenArchived ==
    [][ (current # NoState /\ current' = NoState) =>
            /\ completed[current.task] # NoArchive
            /\ HasFinal(current.task) ]_vars

\* A checkpoint file is never rewritten, and never removed once the active
\* state or an archive refers to it.
HistoryImmutable ==
    [][ \A t \in Tasks, c \in Cps :
            (history[t][c] # NoCheckpoint /\ history'[t][c] # history[t][c]) =>
                /\ history'[t][c] = NoCheckpoint
                /\ ~(current.task = t /\ current.latest = c)
                /\ completed[t].final # c ]_vars

----------------------------------------------------------------------------
(* Properties that hold while every operation passes through one queue *)

\* The report revision of a task only grows, and grows with every new conclusion.
RevisionMonotone ==
    [][ (current'.task = current.task /\ current' # current) =>
            \/ current'.rev > current.rev
            \/ current'.rev = current.rev /\ current'.entries = current.entries ]_vars

\* While one queue serialises the operations the files implement the ledger: an
\* operation takes effect when it replaces, creates or removes current.md, and
\* a failure or a crash on either side of that instant leaves no trace in it.
Ledger == INSTANCE TaskLedger
    WITH None <- 0,
         active <- current.task,
         conclusions <- current.entries,
         finished <- [t \in {u \in Tasks : completed[u] # NoArchive /\ current.task # u}
                         |-> completed[t].entries]

ImplementsLedger == Ledger!Spec

\* Allocation skips the files that crashes and failed rollbacks left behind: an
\* operation alone in the store never finds its checkpoint number taken.
AllocatedIdFree ==
    \A p \in Procs : pc[p] \in {"cpCreate", "finHistory"} => HistoryFree(p)

\* The checkpoint count of the active task never exceeds its files, nor the
\* number of its latest checkpoint.
CountCovered ==
    current # NoState =>
        /\ current.count <= Cardinality(CpsOf(current.task))
        /\ current.count <= current.latest

\* A failed finish leaves a task that can still be finished: without a finish
\* in its commit, the active task has neither final checkpoint nor archive.
ActiveMeansFinishable ==
    current # NoState /\ (HasFinal(current.task) \/ completed[current.task] # NoArchive) =>
        \E p \in Procs : /\ plan[p].state.task = current.task
                        /\ pc[p] \in {"finArchive", "finReread", "finRemove",
                                      "finUnarchive", "finUnhistory"}
=============================================================================
