---------------------------- MODULE ProjectStorage ----------------------------
(***************************************************************************)
(* The project directory of a repository: b1 init creates .briefonce, b1   *)
(* migrate renames the .agentfold of earlier versions to .briefonce, and   *)
(* the operations on the task write in whichever of the two they found.    *)
(* Commands are processes of their own; the operations take turns, as in   *)
(* the queue of the service.                                               *)
(*                                                                         *)
(* A store is the canonical files (complete), the manifest, whose keys     *)
(* name the old or the new directory, the staged manifest of a migration,  *)
(* the version of the task's state, and whether the last of its changes    *)
(* has left a task (active) or ended it.  A command looks at the two       *)
(* directories one after the other, in either order; what it reads inside  *)
(* the one it selects is read at one instant.                              *)
(***************************************************************************)
EXTENDS Naturals, FiniteSets

CONSTANTS
    Commands,       \* the processes
    MaxVersion,     \* bound on the versions of the state
    MaxFaults,      \* bound on failing calls of the file system
    MaxCrashes      \* bound on processes killed

ASSUME StorageAssumption ==
    /\ IsFiniteSet(Commands)
    /\ MaxVersion \in Nat \ {0} /\ MaxFaults \in Nat /\ MaxCrashes \in Nat

VARIABLES
    store,          \* what is at each of the two paths
    command,        \* the step of each process, and what it has seen
    acknowledged,   \* history: the version of the last change an operation made and reported
    finished,       \* history: the version of the task the last reported finish has ended
    overlapped,     \* history: a directory was renamed under a running init or operation
    interrupted,    \* history: a migration was killed, or failed to undo what it did
    faults, crashes

vars == <<store, command, acknowledged, finished, overlapped, interrupted, faults, crashes>>

Directories == {"preferred", "legacy"}
Store == [complete : BOOLEAN, manifest : {"none", "old", "new"}, staged : BOOLEAN,
          version : 0 .. MaxVersion, active : BOOLEAN, present : BOOLEAN]
Absent == [complete |-> FALSE, manifest |-> "none", staged |-> FALSE, version |-> 0,
           active |-> FALSE, present |-> FALSE]

Initialized == [Absent EXCEPT !.present = TRUE, !.complete = TRUE, !.manifest = "new"]
Existing(manifest) == [Initialized EXCEPT !.manifest = manifest, !.version = 1,
                                           !.active = TRUE]

Command == [pc : {"idle", "looking", "init", "populated", "migrate", "stage", "renameDirectory",
                  "renameManifest", "unstage", "restoreDirectory", "operation", "replace",
                  "remove"},
            kind : {"none", "init", "migrate", "operation"},
            first : Directories \cup {"none"}, saw : SUBSET Directories,
            directory : Directories \cup {"none"}, version : 0 .. MaxVersion]
Idle == [pc |-> "idle", kind |-> "none", first |-> "none", saw |-> {}, directory |-> "none",
         version |-> 0]

At(p, pc) == command[p].pc = pc
Step(p, pc) == command' = [command EXCEPT ![p].pc = pc]
End(p) == command' = [command EXCEPT ![p] = Idle]
Fault == faults < MaxFaults /\ faults' = faults + 1

history == <<acknowledged, finished, overlapped, interrupted>>

-----------------------------------------------------------------------------
\* The first of the two directories a command looks at; the operations take turns.
Look(p) ==
    /\ At(p, "idle")
    /\ \E kind \in {"init", "migrate", "operation"}, d \in Directories :
          /\ kind = "operation" => \A q \in Commands : command[q].kind # "operation"
          /\ command' = [command EXCEPT ![p] =
                [Idle EXCEPT !.pc = "looking", !.kind = kind, !.first = d,
                             !.saw = {x \in {d} : store[x].present}]]
    /\ UNCHANGED <<store, history, faults, crashes>>

\* The directories a command takes to exist once it has looked at the other one too.
Seen(p) ==
    command[p].saw \cup {d \in Directories \ {command[p].first} : store[d].present}

\* Mutant: a legacy directory is not taken for an installation.
InitReadyWithoutLegacy(p) == "preferred" \notin Seen(p)

\* Initialization is prepared where there is neither directory.
InitReady(p) == Seen(p) = {}

\* A migration is prepared for a legacy directory alone, with all its files.
MigrationReady(p) ==
    Seen(p) = {"legacy"} /\ store["legacy"].complete /\ store["legacy"].manifest # "none"

\* An operation works in the one directory there is, if its context can be loaded.
Selected(p) == {d \in Directories : Seen(p) = {d} /\ store[d].complete}

Resolve(p) ==
    LET kind == command[p].kind
        Planned(d) == command' = [command EXCEPT ![p].pc = kind, ![p].directory = d,
                                                 ![p].version = store[d].version]
    IN /\ At(p, "looking")
       /\ \/ kind = "init" /\ InitReady(p) /\ Planned("preferred")
          \/ kind = "migrate" /\ MigrationReady(p) /\ Planned("legacy")
          \/ kind = "operation" /\ \E d \in Selected(p) : Planned(d)
          \/ /\ CASE kind = "init" -> ~InitReady(p)
                  [] kind = "migrate" -> ~MigrationReady(p)
                  [] OTHER -> Selected(p) = {}
             /\ End(p)
       /\ UNCHANGED <<store, history, faults, crashes>>

-----------------------------------------------------------------------------
(* init: the files are written in a temporary directory, which is renamed. *)

CheckDestination(p) ==
    /\ At(p, "init")
    /\ \/ ~store["preferred"].present /\ Step(p, "populated")
       \/ store["preferred"].present /\ End(p)
    /\ UNCHANGED <<store, history, faults, crashes>>

\* A directory is not renamed over one that is not empty.
PublishInstallation(p) ==
    /\ At(p, "populated") /\ End(p)
    /\ \/ ~store["preferred"].present /\ UNCHANGED faults
          /\ store' = [store EXCEPT !["preferred"] = Initialized]
       \/ store["preferred"].present /\ UNCHANGED <<store, faults>>
       \/ Fault /\ UNCHANGED store
    /\ UNCHANGED <<history, crashes>>

-----------------------------------------------------------------------------
(* migrate: a staged manifest, the rename of the directory, the rename of  *)
(* the manifest.                                                           *)

\* Every field compared with the plan; the plan reads a legacy manifest only.
CheckUnchanged(p) ==
    /\ At(p, "migrate")
    /\ LET source == store["legacy"]
       IN IF /\ source.present /\ ~store["preferred"].present /\ ~source.staged
             /\ source.manifest = "old"
          THEN Step(p, "stage") ELSE End(p)
    /\ UNCHANGED <<store, history, faults, crashes>>

Unstaged(d) == IF store[d].staged THEN [store EXCEPT ![d].staged = FALSE] ELSE store

\* A fault of the migration that lasts through the removal or the rename that undoes it
RollbackFails(p) == Fault /\ End(p) /\ interrupted' = TRUE

\* The staged manifest is created exclusively; whatever fails, the path is removed.
StageManifest(p) ==
    /\ At(p, "stage")
    /\ \/ /\ store["legacy"].present /\ ~store["legacy"].staged
          /\ store' = [store EXCEPT !["legacy"].staged = TRUE]
          /\ Step(p, "renameDirectory") /\ UNCHANGED <<faults, interrupted>>
       \/ /\ (~store["legacy"].present \/ store["legacy"].staged) /\ UNCHANGED faults
          /\ store' = Unstaged("legacy") /\ End(p) /\ UNCHANGED interrupted
       \/ Fault /\ store' = Unstaged("legacy") /\ End(p) /\ UNCHANGED interrupted
       \/ /\ RollbackFails(p)
          /\ store' = IF store["legacy"].present THEN [store EXCEPT !["legacy"].staged = TRUE]
                      ELSE store
    /\ UNCHANGED <<acknowledged, finished, overlapped, crashes>>

\* Another command between its look at the directories and its last write.
InFlight(p) == \E q \in Commands \ {p} : command[q].kind \in {"init", "operation"}

Rename(p, from, to) ==
    /\ store[from].present /\ ~store[to].present
    /\ store' = [store EXCEPT ![to] = store[from], ![from] = Absent]
    /\ overlapped' = (overlapped \/ InFlight(p))

\* Mutant: the staged manifest stays when the directory cannot be renamed.
RenameDirectoryOnly(p) ==
    /\ At(p, "renameDirectory")
    /\ \/ Rename(p, "legacy", "preferred") /\ Step(p, "renameManifest") /\ UNCHANGED faults
       \/ /\ (~store["legacy"].present \/ store["preferred"].present) /\ UNCHANGED faults
          /\ UNCHANGED <<store, overlapped>> /\ End(p)
       \/ Fault /\ UNCHANGED <<store, overlapped>> /\ End(p)
    /\ UNCHANGED <<acknowledged, finished, interrupted, crashes>>

RenameDirectory(p) ==
    /\ At(p, "renameDirectory")
    /\ \/ /\ Rename(p, "legacy", "preferred") /\ Step(p, "renameManifest")
          /\ UNCHANGED <<faults, interrupted>>
       \/ /\ (~store["legacy"].present \/ store["preferred"].present) /\ UNCHANGED faults
          /\ store' = Unstaged("legacy") /\ End(p) /\ UNCHANGED <<overlapped, interrupted>>
       \/ /\ Fault /\ store' = Unstaged("legacy") /\ End(p)
          /\ UNCHANGED <<overlapped, interrupted>>
       \/ RollbackFails(p) /\ UNCHANGED <<store, overlapped>>
    /\ UNCHANGED <<acknowledged, finished, crashes>>

RenameManifest(p) ==
    /\ At(p, "renameManifest")
    /\ \/ /\ store["preferred"].staged /\ UNCHANGED faults
          /\ store' = [store EXCEPT !["preferred"].manifest = "new", !["preferred"].staged = FALSE]
          /\ End(p)
       \/ ~store["preferred"].staged /\ UNCHANGED <<store, faults>> /\ Step(p, "unstage")
       \/ Fault /\ UNCHANGED store /\ Step(p, "unstage")
    /\ UNCHANGED <<history, crashes>>

UnstageManifest(p) ==
    /\ At(p, "unstage")
    /\ \/ store' = Unstaged("preferred") /\ Step(p, "restoreDirectory")
          /\ UNCHANGED <<faults, interrupted>>
       \/ RollbackFails(p) /\ UNCHANGED store
    /\ UNCHANGED <<acknowledged, finished, overlapped, crashes>>

\* Mutant: what an operation has created meanwhile is removed to make room.
RestoreDirectoryByForce(p) ==
    /\ At(p, "restoreDirectory")
    /\ store' = [store EXCEPT !["legacy"] = store["preferred"], !["preferred"] = Absent]
    /\ End(p)
    /\ overlapped' = (overlapped \/ InFlight(p))
    /\ UNCHANGED <<acknowledged, finished, interrupted, faults, crashes>>

RestoreDirectory(p) ==
    /\ At(p, "restoreDirectory")
    /\ \/ Rename(p, "preferred", "legacy") /\ End(p) /\ UNCHANGED <<faults, interrupted>>
       \/ /\ (~store["preferred"].present \/ store["legacy"].present) /\ UNCHANGED faults
          /\ End(p) /\ interrupted' = TRUE /\ UNCHANGED <<store, overlapped>>
       \/ RollbackFails(p) /\ UNCHANGED <<store, overlapped>>
    /\ UNCHANGED <<acknowledged, finished, crashes>>

-----------------------------------------------------------------------------
(* An operation: its directory is created if need be, then its file; a     *)
(* finish removes the state instead, once its artifacts are written.       *)

\* The temporary file, or an artifact, is written in directories that are created.
WriteTemporary(p) ==
    /\ At(p, "operation")
    /\ command[p].version < MaxVersion
    /\ LET d == command[p].directory
       IN store' = IF store[d].present THEN store
                   ELSE [store EXCEPT ![d] = [Absent EXCEPT !.present = TRUE]]
    /\ Step(p, "replace")
    /\ UNCHANGED <<history, faults, crashes>>

\* The state a command has loaded is still the one in its directory.
Unchanged(p) ==
    LET loaded == store[command[p].directory]
    IN loaded.active /\ loaded.version = command[p].version

\* The rename fails when the temporary file has gone with its directory.
ReplaceState(p) ==
    LET d == command[p].directory
    IN /\ At(p, "replace") /\ End(p)
       /\ \/ /\ store[d].present /\ UNCHANGED faults
             /\ store' = [store EXCEPT ![d].version = command[p].version + 1,
                                       ![d].active = TRUE]
             /\ acknowledged' = command[p].version + 1
          \/ ~store[d].present /\ UNCHANGED <<store, acknowledged, faults>>
          \/ Fault /\ UNCHANGED <<store, acknowledged>>
       /\ UNCHANGED <<finished, overlapped, interrupted, crashes>>

\* A finish reads the state once more before it removes it.
RecheckState(p) ==
    /\ At(p, "replace")
    /\ \/ Unchanged(p) /\ Step(p, "remove") /\ UNCHANGED faults
       \/ ~Unchanged(p) /\ End(p) /\ UNCHANGED faults
       \/ Fault /\ End(p)
    /\ UNCHANGED <<store, history, crashes>>

\* Mutant: a removal that fails is not told to the caller.
RemoveStateUnchecked(p) ==
    LET d == command[p].directory
    IN /\ At(p, "remove") /\ End(p) /\ finished' = command[p].version
       /\ \/ /\ Unchanged(p) /\ UNCHANGED faults
             /\ store' = [store EXCEPT ![d].version = command[p].version + 1,
                                       ![d].active = FALSE]
             /\ acknowledged' = command[p].version + 1
          \/ ~Unchanged(p) /\ UNCHANGED <<store, acknowledged, faults>>
          \/ Fault /\ UNCHANGED <<store, acknowledged>>
       /\ UNCHANGED <<overlapped, interrupted, crashes>>

\* The removal of a file that is not there, or whose directory is not, succeeds.
RemoveState(p) ==
    LET d == command[p].directory
    IN /\ At(p, "remove") /\ End(p)
       /\ \/ /\ Unchanged(p) /\ UNCHANGED faults
             /\ store' = [store EXCEPT ![d].version = command[p].version + 1,
                                       ![d].active = FALSE]
             /\ acknowledged' = command[p].version + 1 /\ finished' = command[p].version
          \/ /\ ~Unchanged(p) /\ UNCHANGED <<store, acknowledged, faults>>
             /\ finished' = command[p].version
          \/ Fault /\ UNCHANGED <<store, acknowledged, finished>>
       /\ UNCHANGED <<overlapped, interrupted, crashes>>

\* The process is killed.
Crash(p) ==
    /\ ~At(p, "idle") /\ crashes < MaxCrashes /\ crashes' = crashes + 1
    /\ End(p)
    /\ interrupted' = (interrupted \/ command[p].kind = "migrate")
    /\ UNCHANGED <<store, acknowledged, finished, overlapped, faults>>

Init ==
    /\ store \in {[preferred |-> Absent, legacy |-> Absent],
                  [preferred |-> Existing("new"), legacy |-> Absent],
                  [preferred |-> Absent, legacy |-> Existing("old")]}
    /\ command = [p \in Commands |-> Idle]
    /\ acknowledged = IF \E d \in Directories : store[d].present THEN 1 ELSE 0
    /\ finished = 0 /\ overlapped = FALSE /\ interrupted = FALSE
    /\ faults = 0 /\ crashes = 0

Next == \E p \in Commands :
    \/ Look(p) \/ Resolve(p)
    \/ CheckDestination(p) \/ PublishInstallation(p)
    \/ CheckUnchanged(p) \/ StageManifest(p) \/ RenameDirectory(p) \/ RenameManifest(p)
    \/ UnstageManifest(p) \/ RestoreDirectory(p)
    \/ WriteTemporary(p) \/ ReplaceState(p) \/ RecheckState(p) \/ RemoveState(p)
    \/ Crash(p)

Spec == Init /\ [][Next]_vars

-----------------------------------------------------------------------------
\* Where there is no directory there is nothing of one.
TypeOK ==
    /\ store \in [Directories -> Store] /\ command \in [Commands -> Command]
    /\ acknowledged \in 0 .. MaxVersion /\ finished \in 0 .. MaxVersion
    /\ \A d \in Directories : ~store[d].present => store[d] = Absent

\* Unless a directory was renamed under a running init or operation, there are never two
\* stores, which every later command would refuse: whatever fails or is killed in a
\* migration, and however many run at once, the project stays open in one place.
OneStore == ~overlapped =>
    /\ ~(store["preferred"].present /\ store["legacy"].present)
    /\ \A d \in Directories : store[d].present => store[d].complete

\* When no migration is running, and none was killed or has failed to undo what it did, nothing
\* is left of one: the manifest is that of its directory and no staged manifest stands in the
\* way of the next migration.
MigrationLeavesNothing ==
    (\A p \in Commands : command[p].kind # "migrate") /\ ~interrupted /\ ~overlapped =>
        /\ store["legacy"].manifest # "new" /\ store["preferred"].manifest # "old"
        /\ \A d \in Directories : ~store[d].staged

\* The state an operation has acknowledged is in one of the two directories, whatever
\* migrations, rollbacks and initializations do, crash or fail at around it.
AcknowledgedKept == \E d \in Directories : store[d].version = acknowledged

\* Unless a directory was renamed under a running operation, the task of a finish that was
\* reported as a success is no longer active, in either directory, and no later operation,
\* migration or rollback brings it back.
FinishedRemoved == ~overlapped =>
    \A d \in Directories : ~(store[d].active /\ store[d].version = finished)
===============================================================================
