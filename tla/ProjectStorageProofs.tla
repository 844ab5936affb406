------------------------- MODULE ProjectStorageProofs -------------------------
(***************************************************************************)
(* The project directory stays in one place and loses no acknowledged      *)
(* state, for any number of commands, faults and kills.                    *)
(*                                                                         *)
(* The argument: an operation or an initialization that no rename has      *)
(* overlapped still finds what it saw when it looked, so neither creates a *)
(* second directory; and of the migrations that reach the renames only one *)
(* can have moved the directory, so its staged and its old manifest are    *)
(* never without a command that will settle them.                          *)
(***************************************************************************)
EXTENDS ProjectStorage, TLAPS

\* The steps of a migration that has moved the directory
Late == {"renameManifest", "unstage", "restoreDirectory"}
Migrating == {"migrate", "stage", "renameDirectory"} \cup Late
Initializing == {"init", "populated"}
Operating == {"operation", "replace", "remove"}

PCs == {"idle", "looking"} \cup Initializing \cup Migrating \cup Operating

-----------------------------------------------------------------------------
(* The inductive invariant *)

\* Each step is one of the command's kind.
KindInv == \A p \in Commands :
    /\ command[p].pc \in Migrating => command[p].kind = "migrate"
    /\ command[p].pc \in Initializing => command[p].kind = "init"
    /\ command[p].pc \in Operating =>
          command[p].kind = "operation" /\ command[p].directory \in Directories
    /\ command[p].pc \in {"replace", "remove"} => command[p].version < MaxVersion

\* There is one store, with all its files.
Single ==
    /\ ~(store["preferred"].present /\ store["legacy"].present)
    /\ \A d \in Directories : store[d].present => store[d].complete

\* What a command saw is still so.
SeenInv == \A p \in Commands :
    /\ command[p].pc \in Operating => store[command[p].directory].present
    /\ command[p].pc = "looking" /\ command[p].kind = "init" /\ command[p].first = "legacy"
          /\ command[p].saw = {} => ~store["legacy"].present
    /\ command[p].pc \in Initializing => ~store["legacy"].present

StoresInv == ~overlapped => Single /\ SeenInv

\* A directory that was moved, and whose manifest was not yet, is one command's.
LateInv ==
    /\ \A p, q \in Commands : command[p].pc \in Late /\ command[q].pc \in Late => p = q
    /\ \A p \in Commands :
          /\ command[p].pc \in Late =>
                store["preferred"].present /\ store["preferred"].manifest = "old"
          /\ command[p].pc = "restoreDirectory" => ~store["preferred"].staged

\* Whatever is left of a migration is left to a command that is still running.
RemainsInv ==
    /\ store["preferred"].staged \/ store["preferred"].manifest = "old" =>
          \E p \in Commands : command[p].pc \in Late
    /\ store["legacy"].staged => \E p \in Commands : command[p].pc = "renameDirectory"
    /\ store["legacy"].present => store["legacy"].manifest = "old"

MigrationInv == ~overlapped /\ ~interrupted => LateInv /\ RemainsInv

\* The operations take turns.
TurnInv == \A p, q \in Commands :
    command[p].kind = "operation" /\ command[q].kind = "operation" => p = q

\* The state of an operation is the one it has loaded, and no state is older than a finish.
TasksInv ==
    /\ \A d \in Directories : store[d].present =>
          /\ finished <= store[d].version
          /\ store[d].active => finished < store[d].version
    /\ (\A d \in Directories : ~store[d].present) => finished = 0
    /\ \A p \in Commands :
          /\ command[p].pc \in Operating =>
                store[command[p].directory].version = command[p].version
          /\ command[p].pc = "remove" => store[command[p].directory].active

FinishInv == TurnInv /\ (~overlapped => TasksInv)

StorageInv ==
    TypeOK /\ KindInv /\ StoresInv /\ MigrationInv /\ AcknowledgedKept /\ FinishInv

\* The disjuncts of Next
Act(p) ==
    \/ Look(p) \/ Resolve(p)
    \/ CheckDestination(p) \/ PublishInstallation(p)
    \/ CheckUnchanged(p) \/ StageManifest(p) \/ RenameDirectory(p) \/ RenameManifest(p)
    \/ UnstageManifest(p) \/ RestoreDirectory(p)
    \/ WriteTemporary(p) \/ ReplaceState(p) \/ RecheckState(p) \/ RemoveState(p)
    \/ Crash(p)

-----------------------------------------------------------------------------
(* What is at the two paths *)

LEMMA AbsentType ==
    /\ Absent \in Store /\ ~Absent.present /\ ~Absent.complete /\ ~Absent.staged
    /\ Absent.manifest = "none" /\ Absent.version = 0 /\ ~Absent.active
  BY StorageAssumption DEF Absent, Store

LEMMA OpenedType ==
  LET opened == [Absent EXCEPT !.present = TRUE]
  IN /\ opened \in Store /\ opened.present /\ ~opened.staged
     /\ opened.manifest = "none" /\ opened.version = 0
  BY AbsentType DEF Store

LEMMA InitializedType ==
    /\ Initialized \in Store /\ Initialized.present /\ Initialized.complete
    /\ ~Initialized.staged /\ Initialized.manifest = "new" /\ Initialized.version = 0
    /\ ~Initialized.active
  BY AbsentType DEF Initialized, Store

LEMMA ExistingType ==
  ASSUME NEW manifest \in {"old", "new"}
  PROVE  LET there == Existing(manifest)
         IN /\ there \in Store /\ there.present /\ there.complete /\ ~there.staged
            /\ there.manifest = manifest /\ there.version = 1
  <1>1. 1 \in 0 .. MaxVersion
    BY StorageAssumption
  <1> QED
    BY <1>1, InitializedType DEF Existing, Store

\* Removing the staged manifest changes nothing else, and nothing where none is.
LEMMA UnstagedType ==
  ASSUME TypeOK, NEW d \in Directories
  PROVE  /\ Unstaged(d) \in [Directories -> Store]
         /\ \A x \in Directories :
               /\ Unstaged(d)[x].present <=> store[x].present
               /\ Unstaged(d)[x].complete <=> store[x].complete
               /\ Unstaged(d)[x].manifest = store[x].manifest
               /\ Unstaged(d)[x].version = store[x].version
               /\ Unstaged(d)[x].active <=> store[x].active
               /\ Unstaged(d)[x].staged => store[x].staged /\ x # d
               /\ ~store[x].present => Unstaged(d)[x] = Absent
  <1>1. CASE ~store[d].staged
    BY <1>1 DEF Unstaged, TypeOK
  <1>2. CASE store[d].staged
    <2>1. store[d].present
      BY <1>2, AbsentType DEF TypeOK
    <2>2. [store[d] EXCEPT !.staged = FALSE] \in Store
      BY DEF TypeOK, Store
    <2>3. /\ Unstaged(d)[d] = [store[d] EXCEPT !.staged = FALSE]
          /\ \A x \in Directories \ {d} : Unstaged(d)[x] = store[x]
      BY <1>2 DEF Unstaged, TypeOK
    <2>4. Unstaged(d) \in [Directories -> Store]
      BY <1>2, <2>2 DEF Unstaged, TypeOK
    <2> QED
      BY <2>1, <2>2, <2>3, <2>4 DEF TypeOK, Store
  <1> QED
    BY <1>1, <1>2

-----------------------------------------------------------------------------
(* Types and kinds *)

LEMMA InitTypes == Init => TypeOK /\ KindInv
  <1> SUFFICES ASSUME Init PROVE TypeOK /\ KindInv
    OBVIOUS
  <1>1. /\ store \in [Directories -> Store]
        /\ \A d \in Directories : ~store[d].present => store[d] = Absent
    BY AbsentType, ExistingType DEF Init, Directories
  <1>2. acknowledged \in 0 .. MaxVersion /\ finished \in 0 .. MaxVersion
    BY StorageAssumption DEF Init
  <1>3. Idle \in Command
    BY StorageAssumption DEF Idle, Command
  <1>4. command \in [Commands -> Command]
    BY <1>3 DEF Init
  <1>5. KindInv
    BY DEF Init, KindInv, Idle, Migrating, Late, Initializing, Operating
  <1> QED
    BY <1>1, <1>2, <1>4, <1>5 DEF TypeOK

\* A step of a command changes nothing else about it.
LEMMA StepType ==
  ASSUME TypeOK, NEW p \in Commands, NEW pc \in PCs, Step(p, pc)
  PROVE  /\ command' \in [Commands -> Command]
         /\ command'[p].pc = pc /\ command'[p].kind = command[p].kind
         /\ command'[p].first = command[p].first /\ command'[p].saw = command[p].saw
         /\ command'[p].directory = command[p].directory
         /\ command'[p].version = command[p].version
         /\ \A q \in Commands \ {p} : command'[q] = command[q]
  <1> DEFINE new == [command[p] EXCEPT !.pc = pc]
  <1>1. /\ new \in Command /\ new.pc = pc /\ new.kind = command[p].kind
        /\ new.first = command[p].first /\ new.saw = command[p].saw
        /\ new.directory = command[p].directory /\ new.version = command[p].version
    BY DEF TypeOK, Command, PCs, Initializing, Migrating, Late, Operating
  <1>2. command' = [command EXCEPT ![p] = new]
    BY DEF Step
  <1> HIDE DEF new
  <1> QED
    BY <1>1, <1>2 DEF TypeOK

LEMMA EndType ==
  ASSUME TypeOK, NEW p \in Commands, End(p)
  PROVE  /\ command' \in [Commands -> Command]
         /\ command'[p].pc = "idle" /\ command'[p].kind = "none"
         /\ \A q \in Commands \ {p} : command'[q] = command[q]
  <1>1. Idle \in Command /\ Idle.pc = "idle" /\ Idle.kind = "none"
    BY StorageAssumption DEF Idle, Command
  <1> QED
    BY <1>1 DEF End, TypeOK

LEMMA LookType ==
  ASSUME TypeOK, NEW p \in Commands, Look(p)
  PROVE  /\ command' \in [Commands -> Command]
         /\ command'[p].pc = "looking"
         /\ command'[p].first \in Directories
         /\ command'[p].saw = {x \in {command'[p].first} : store[x].present}
         /\ command'[p].kind = "operation" => \A q \in Commands : command[q].kind # "operation"
         /\ \A q \in Commands \ {p} : command'[q] = command[q]
  <1> PICK kind \in {"init", "migrate", "operation"}, d \in Directories :
        /\ kind = "operation" => \A q \in Commands : command[q].kind # "operation"
        /\ command' = [command EXCEPT ![p] = [Idle EXCEPT !.pc = "looking", !.kind = kind,
                          !.first = d, !.saw = {x \in {d} : store[x].present}]]
    BY DEF Look
  <1> DEFINE new == [Idle EXCEPT !.pc = "looking", !.kind = kind, !.first = d,
                                 !.saw = {x \in {d} : store[x].present}]
  <1>1. Idle \in Command
    BY StorageAssumption DEF Idle, Command
  <1>2. /\ new \in Command /\ new.pc = "looking" /\ new.first = d /\ new.kind = kind
        /\ new.saw = {x \in {d} : store[x].present}
    BY <1>1 DEF Command
  <1>3. command' = [command EXCEPT ![p] = new]
    OBVIOUS
  <1> HIDE DEF new
  <1> QED
    BY <1>2, <1>3 DEF TypeOK

\* A command whose look has ended well works at the directory it has settled on.
LEMMA ResolveType ==
  ASSUME TypeOK, NEW p \in Commands, Resolve(p)
  PROVE  \/ End(p)
         \/ \E d \in Directories :
              /\ command' \in [Commands -> Command]
              /\ command'[p].pc = command[p].kind /\ command'[p].kind = command[p].kind
              /\ command'[p].directory = d /\ command'[p].version = store[d].version
              /\ \A q \in Commands \ {p} : command'[q] = command[q]
              /\ \/ command[p].kind = "init" /\ InitReady(p)
                 \/ command[p].kind = "migrate" /\ MigrationReady(p)
                 \/ command[p].kind = "operation" /\ d \in Selected(p)
  <1>1. ASSUME NEW d \in Directories,
               command' = [command EXCEPT ![p].pc = command[p].kind, ![p].directory = d,
                                          ![p].version = store[d].version],
               command[p].kind \in {"init", "migrate", "operation"}
        PROVE  /\ command' \in [Commands -> Command]
               /\ command'[p].pc = command[p].kind /\ command'[p].kind = command[p].kind
               /\ command'[p].directory = d /\ command'[p].version = store[d].version
               /\ \A q \in Commands \ {p} : command'[q] = command[q]
    <2> DEFINE new == [command[p] EXCEPT !.pc = command[p].kind, !.directory = d,
                                         !.version = store[d].version]
    <2>1. store[d].version \in 0 .. MaxVersion
      BY DEF TypeOK, Store
    <2>2. command[p] \in Command
      BY DEF TypeOK
    <2>3. /\ new \in Command /\ new.pc = command[p].kind /\ new.kind = command[p].kind
          /\ new.directory = d /\ new.version = store[d].version
      BY <1>1, <2>1, <2>2 DEF Command
    <2>4. command' = [command EXCEPT ![p] = new]
      BY <1>1
    <2> HIDE DEF new
    <2> QED
      BY <2>3, <2>4 DEF TypeOK
  <1>2. "preferred" \in Directories /\ "legacy" \in Directories
    BY DEF Directories
  <1>3. \/ End(p)
        \/ /\ command[p].kind = "init" /\ InitReady(p)
           /\ command' = [command EXCEPT ![p].pc = command[p].kind, ![p].directory = "preferred",
                                         ![p].version = store["preferred"].version]
        \/ /\ command[p].kind = "migrate" /\ MigrationReady(p)
           /\ command' = [command EXCEPT ![p].pc = command[p].kind, ![p].directory = "legacy",
                                         ![p].version = store["legacy"].version]
        \/ \E d \in Selected(p) :
              /\ command[p].kind = "operation"
              /\ command' = [command EXCEPT ![p].pc = command[p].kind, ![p].directory = d,
                                            ![p].version = store[d].version]
    BY DEF Resolve
  <1>4. Selected(p) \subseteq Directories
    BY DEF Selected
  <1> QED
    BY <1>1, <1>2, <1>3, <1>4

LEMMA NextOthers ==
  ASSUME TypeOK, NEW p \in Commands, Act(p)
  PROVE  \A q \in Commands \ {p} : command'[q] = command[q]
  <1> USE DEF PCs, Migrating, Late, Initializing, Operating
  <1>1. ASSUME End(p) PROVE \A q \in Commands \ {p} : command'[q] = command[q]
    BY <1>1, EndType
  <1>2. ASSUME NEW pc \in PCs, Step(p, pc) PROVE \A q \in Commands \ {p} : command'[q] = command[q]
    BY <1>2, StepType
  <1>3. ASSUME Look(p) \/ Resolve(p) PROVE \A q \in Commands \ {p} : command'[q] = command[q]
    BY <1>1, <1>3, LookType, ResolveType
  <1> QED
    BY <1>1, <1>2, <1>3 DEF Act, CheckDestination, PublishInstallation, CheckUnchanged,
       StageManifest, RenameDirectory, RenameManifest, UnstageManifest, RestoreDirectory,
       WriteTemporary, ReplaceState, RecheckState, RemoveState, Crash, RollbackFails

LEMMA NextCommands ==
  ASSUME TypeOK, KindInv, NEW p \in Commands, Act(p)
  PROVE  command' \in [Commands -> Command] /\ KindInv'
  <1> USE DEF KindInv, Migrating, Late, Initializing, Operating, PCs
  <1>e. ASSUME End(p) PROVE command' \in [Commands -> Command] /\ KindInv'
    BY <1>e, EndType
  <1>1. CASE Look(p)
    BY <1>1, LookType
  <1>2. CASE Resolve(p)
    BY <1>2, <1>e, ResolveType
  <1>3. CASE CheckDestination(p)
    BY <1>3, <1>e, StepType DEF CheckDestination, At
  <1>4. CASE PublishInstallation(p)
    BY <1>4, <1>e DEF PublishInstallation
  <1>5. CASE CheckUnchanged(p)
    BY <1>5, <1>e, StepType DEF CheckUnchanged, At
  <1>6. CASE StageManifest(p)
    BY <1>6, <1>e, StepType DEF StageManifest, RollbackFails, At
  <1>7. CASE RenameDirectory(p)
    BY <1>7, <1>e, StepType DEF RenameDirectory, RollbackFails, At
  <1>8. CASE RenameManifest(p)
    BY <1>8, <1>e, StepType DEF RenameManifest, At
  <1>9. CASE UnstageManifest(p)
    BY <1>9, <1>e, StepType DEF UnstageManifest, RollbackFails, At
  <1>10. CASE RestoreDirectory(p)
    BY <1>10, <1>e DEF RestoreDirectory, RollbackFails
  <1>11. CASE WriteTemporary(p)
    BY <1>11, StepType DEF WriteTemporary, At
  <1>12. CASE ReplaceState(p)
    BY <1>12, <1>e DEF ReplaceState
  <1>13. CASE Crash(p)
    BY <1>13, <1>e DEF Crash
  <1>14. CASE RecheckState(p)
    BY <1>14, <1>e, StepType DEF RecheckState, At
  <1>15. CASE RemoveState(p)
    BY <1>15, <1>e DEF RemoveState
  <1> QED
    BY <1>1, <1>2, <1>3, <1>4, <1>5, <1>6, <1>7, <1>8, <1>9, <1>10, <1>11, <1>12, <1>13, <1>14,
       <1>15 DEF Act

-----------------------------------------------------------------------------
(* What the steps do to the two paths *)

LEMMA RenameType ==
  ASSUME TypeOK, NEW p \in Commands, NEW from \in Directories, NEW to \in Directories \ {from},
         Rename(p, from, to)
  PROVE  /\ store[from].present /\ ~store[to].present
         /\ store' \in [Directories -> Store]
         /\ store'[to] = store[from] /\ store'[from] = Absent
         /\ Directories = {from, to}
  BY AbsentType DEF Rename, TypeOK, Directories

\* The successful end of each of the steps that write something
Published(d) == store' = [store EXCEPT ![d] = Initialized]
Opened(d) == store' = [store EXCEPT ![d] = [Absent EXCEPT !.present = TRUE]]
Staged(d) == store' = [store EXCEPT ![d].staged = TRUE]
Settled(d) == store' = [store EXCEPT ![d].manifest = "new", ![d].staged = FALSE]
Written(d, version, active) ==
    store' = [store EXCEPT ![d].version = version, ![d].active = active]

LEMMA PublishedType ==
  ASSUME TypeOK, NEW d \in Directories, Published(d)
  PROVE  /\ store' \in [Directories -> Store]
         /\ store'[d].present /\ store'[d].complete /\ ~store'[d].staged
         /\ store'[d].manifest = "new" /\ store'[d].version = 0 /\ ~store'[d].active
         /\ \A x \in Directories \ {d} : store'[x] = store[x]
  BY InitializedType DEF Published, TypeOK

LEMMA OpenType ==
  ASSUME TypeOK, NEW d \in Directories, Opened(d)
  PROVE  /\ store' \in [Directories -> Store]
         /\ store'[d].present /\ ~store'[d].staged
         /\ store'[d].manifest = "none" /\ store'[d].version = 0
         /\ \A x \in Directories \ {d} : store'[x] = store[x]
  BY OpenedType DEF Opened, TypeOK

LEMMA StagedType ==
  ASSUME TypeOK, NEW d \in Directories, Staged(d)
  PROVE  /\ store' \in [Directories -> Store]
         /\ store'[d].staged
         /\ store'[d].present <=> store[d].present
         /\ store'[d].complete <=> store[d].complete
         /\ store'[d].manifest = store[d].manifest
         /\ store'[d].version = store[d].version
         /\ store'[d].active <=> store[d].active
         /\ \A x \in Directories \ {d} : store'[x] = store[x]
  <1> DEFINE new == [store[d] EXCEPT !.staged = TRUE]
  <1>1. /\ new \in Store /\ new.staged /\ (new.present <=> store[d].present)
        /\ (new.complete <=> store[d].complete)
        /\ new.manifest = store[d].manifest /\ new.version = store[d].version
        /\ (new.active <=> store[d].active)
    BY DEF TypeOK, Store
  <1>2. store' = [store EXCEPT ![d] = new]
    BY DEF Staged
  <1> HIDE DEF new
  <1> QED
    BY <1>1, <1>2 DEF TypeOK

LEMMA SettledType ==
  ASSUME TypeOK, NEW d \in Directories, Settled(d)
  PROVE  /\ store' \in [Directories -> Store]
         /\ ~store'[d].staged /\ store'[d].manifest = "new"
         /\ store'[d].present <=> store[d].present
         /\ store'[d].complete <=> store[d].complete
         /\ store'[d].version = store[d].version
         /\ store'[d].active <=> store[d].active
         /\ \A x \in Directories \ {d} : store'[x] = store[x]
  <1> DEFINE new == [store[d] EXCEPT !.manifest = "new", !.staged = FALSE]
  <1>0. store[d] \in Store
    BY DEF TypeOK
  <1>1. /\ new \in Store /\ ~new.staged /\ (new.present <=> store[d].present)
        /\ (new.complete <=> store[d].complete)
        /\ new.manifest = "new" /\ new.version = store[d].version
        /\ (new.active <=> store[d].active)
    BY <1>0 DEF Store
  <1>2. store' = [store EXCEPT ![d] = new]
    BY DEF Settled
  <1> HIDE DEF new
  <1> QED
    BY <1>1, <1>2 DEF TypeOK

LEMMA WrittenType ==
  ASSUME TypeOK, NEW d \in Directories, NEW version \in 0 .. MaxVersion,
         NEW active \in BOOLEAN, Written(d, version, active)
  PROVE  /\ store' \in [Directories -> Store]
         /\ store'[d].version = version /\ (store'[d].active <=> active)
         /\ store'[d].staged <=> store[d].staged
         /\ store'[d].present <=> store[d].present
         /\ store'[d].complete <=> store[d].complete
         /\ store'[d].manifest = store[d].manifest
         /\ \A x \in Directories \ {d} : store'[x] = store[x]
  <1> DEFINE new == [store[d] EXCEPT !.version = version, !.active = active]
  <1>0. store[d] \in Store
    BY DEF TypeOK
  <1>1. /\ new \in Store /\ (new.staged <=> store[d].staged)
        /\ (new.present <=> store[d].present) /\ (new.complete <=> store[d].complete)
        /\ new.manifest = store[d].manifest /\ new.version = version
        /\ (new.active <=> active)
    BY <1>0 DEF Store
  <1>2. store' = [store EXCEPT ![d] = new]
    BY DEF Written
  <1> HIDE DEF new
  <1> QED
    BY <1>1, <1>2 DEF TypeOK

\* Everything a step can do to the two directories, by the step it is at.
Effect(p) ==
    \/ UNCHANGED <<store, acknowledged>>
    \/ command[p].pc = "populated" /\ ~store["preferred"].present /\ Published("preferred")
    \/ /\ command[p].pc = "stage" /\ (command'[p].pc = "renameDirectory" \/ interrupted')
       /\ store["legacy"].present /\ Staged("legacy")
    \/ command[p].pc \in {"stage", "renameDirectory"} /\ store' = Unstaged("legacy")
    \/ /\ command[p].pc = "renameDirectory" /\ command'[p].pc = "renameManifest"
       /\ Rename(p, "legacy", "preferred")
    \/ /\ command[p].pc = "renameManifest" /\ command'[p].pc = "idle"
       /\ store["preferred"].staged /\ Settled("preferred")
    \/ command[p].pc = "unstage" /\ store' = Unstaged("preferred")
    \/ /\ command[p].pc = "restoreDirectory" /\ command'[p].pc = "idle"
       /\ Rename(p, "preferred", "legacy")
    \/ /\ command[p].pc = "operation" /\ ~store[command[p].directory].present
       /\ Opened(command[p].directory)
    \/ /\ command[p].pc \in {"replace", "remove"} /\ store[command[p].directory].present
       /\ \E active \in BOOLEAN :
             Written(command[p].directory, command[p].version + 1, active)
       /\ acknowledged' = command[p].version + 1

LEMMA NextEffect ==
  ASSUME TypeOK, KindInv, NEW p \in Commands, Act(p)
  PROVE  Effect(p) /\ (acknowledged' = acknowledged \/ command[p].pc \in {"replace", "remove"})
  <1> USE DEF Effect, At, history
  <1>1. CASE Look(p)
    BY <1>1 DEF Look
  <1>2. CASE Resolve(p)
    BY <1>2 DEF Resolve
  <1>3. CASE CheckDestination(p)
    BY <1>3 DEF CheckDestination
  <1>4. CASE PublishInstallation(p)
    BY <1>4 DEF PublishInstallation, Published
  <1>5. CASE CheckUnchanged(p)
    BY <1>5 DEF CheckUnchanged
  <1>6. CASE StageManifest(p)
    <2>1. Step(p, "renameDirectory") => command'[p].pc = "renameDirectory"
      BY StepType DEF PCs, Migrating
    <2> QED
      BY <1>6, <2>1 DEF StageManifest, Staged, RollbackFails
  <1>7. CASE RenameDirectory(p)
    <2>1. Step(p, "renameManifest") => command'[p].pc = "renameManifest"
      BY StepType DEF PCs, Migrating, Late
    <2> QED
      BY <1>7, <2>1 DEF RenameDirectory
  <1>8. CASE RenameManifest(p)
    BY <1>8, EndType DEF RenameManifest, Settled
  <1>9. CASE UnstageManifest(p)
    BY <1>9 DEF UnstageManifest
  <1>10. CASE RestoreDirectory(p)
    BY <1>10, EndType DEF RestoreDirectory
  <1>11. CASE WriteTemporary(p)
    BY <1>11 DEF WriteTemporary, Opened
  <1>12. CASE ReplaceState(p)
    BY <1>12 DEF ReplaceState, Written
  <1>13. CASE Crash(p)
    BY <1>13 DEF Crash
  <1>14. CASE RecheckState(p)
    BY <1>14 DEF RecheckState
  <1>15. CASE RemoveState(p)
    <2>1. ASSUME Unchanged(p) PROVE store[command[p].directory].present
      <3>1. command[p].directory \in Directories
        BY <1>15 DEF KindInv, Operating, RemoveState
      <3> QED
        BY <2>1, <3>1, AbsentType DEF Unchanged, TypeOK
    <2> QED
      BY <1>15, <2>1 DEF RemoveState, Written
  <1> QED
    BY <1>1, <1>2, <1>3, <1>4, <1>5, <1>6, <1>7, <1>8, <1>9, <1>10, <1>11, <1>12, <1>13, <1>14,
       <1>15 DEF Act

\* The types are kept, and with them the state last acknowledged.
LEMMA NextTypes ==
  ASSUME TypeOK, KindInv, AcknowledgedKept, NEW p \in Commands, Act(p)
  PROVE  TypeOK' /\ KindInv' /\ AcknowledgedKept'
  <1> DEFINE Kept ==
        /\ store' \in [Directories -> Store]
        /\ \A d \in Directories : ~store'[d].present => store'[d] = Absent
        /\ acknowledged' \in 0 .. MaxVersion
        /\ \E d \in Directories : store'[d].version = acknowledged'
  <1>1. Effect(p) /\ (acknowledged' = acknowledged \/ command[p].pc \in {"replace", "remove"})
    BY NextEffect
  <1>2. "preferred" \in Directories /\ "legacy" \in Directories
    BY DEF Directories
  <1>3. command[p].pc \in Operating => command[p].directory \in Directories
    BY DEF KindInv
  <1>4. PICK k \in Directories : store[k].version = acknowledged
    BY DEF AcknowledgedKept
  <1>5. \A d \in Directories : ~store[d].present => store[d].version = 0
    BY AbsentType DEF TypeOK
  <1>6. acknowledged \in 0 .. MaxVersion
    BY DEF TypeOK
  <1>7. ASSUME UNCHANGED <<store, acknowledged>> PROVE Kept
    BY <1>4, <1>7 DEF TypeOK
  <1>8. ASSUME NEW d \in Directories, ~store[d].present, Published(d) \/ Opened(d),
               acknowledged' = acknowledged
        PROVE  Kept
    <2>1. /\ store' \in [Directories -> Store] /\ store'[d].present /\ store'[d].version = 0
          /\ \A x \in Directories \ {d} : store'[x] = store[x]
      BY <1>8, PublishedType, OpenType
    <2>2. \A x \in Directories : ~store'[x].present => store'[x] = Absent
      BY <2>1 DEF TypeOK
    <2>3. store'[k].version = acknowledged
      BY <1>4, <1>5, <1>8, <2>1
    <2> QED
      BY <1>4, <1>6, <1>8, <2>1, <2>2, <2>3
  <1>9. ASSUME NEW d \in Directories, Staged(d) \/ Settled(d), store[d].present,
               acknowledged' = acknowledged
        PROVE  Kept
    <2>1. /\ store' \in [Directories -> Store] /\ store'[d].present
          /\ store'[d].version = store[d].version
          /\ \A x \in Directories \ {d} : store'[x] = store[x]
      BY <1>9, StagedType, SettledType
    <2>2. \A x \in Directories : ~store'[x].present => store'[x] = Absent
      BY <2>1 DEF TypeOK
    <2>3. store'[k].version = acknowledged
      BY <1>4, <2>1
    <2> QED
      BY <1>4, <1>6, <1>9, <2>1, <2>2, <2>3
  <1>10. ASSUME NEW d \in Directories, store' = Unstaged(d), acknowledged' = acknowledged
         PROVE  Kept
    <2>1. /\ store' \in [Directories -> Store]
          /\ \A x \in Directories :
                /\ store'[x].version = store[x].version
                /\ store'[x].present <=> store[x].present
                /\ ~store[x].present => store'[x] = Absent
      BY <1>10, UnstagedType
    <2> QED
      BY <1>4, <1>6, <1>10, <2>1
  <1>11. ASSUME NEW from \in Directories, NEW to \in Directories \ {from}, Rename(p, from, to),
                acknowledged' = acknowledged
         PROVE  Kept
    <2>1. /\ store[from].present /\ ~store[to].present
          /\ store' \in [Directories -> Store]
          /\ store'[to] = store[from] /\ store'[from] = Absent
          /\ Directories = {from, to}
      BY <1>11, RenameType
    <2>2. \A x \in Directories : ~store'[x].present => store'[x] = Absent
      BY <2>1
    <2>3. \E d \in Directories : store'[d].version = acknowledged
      <3>1. CASE k = from
        BY <1>4, <2>1, <3>1
      <3>2. CASE k = to
        BY <1>4, <1>5, <2>1, <3>2, AbsentType
      <3> QED
        BY <2>1, <3>1, <3>2
    <2> QED
      BY <1>6, <1>11, <2>1, <2>2, <2>3
  <1>12. ASSUME NEW d \in Directories, NEW version \in 0 .. MaxVersion,
                NEW active \in BOOLEAN, Written(d, version, active),
                store[d].present, acknowledged' = version
         PROVE  Kept
    <2>1. /\ store' \in [Directories -> Store] /\ store'[d].present
          /\ store'[d].version = version
          /\ \A x \in Directories \ {d} : store'[x] = store[x]
      BY <1>12, WrittenType
    <2>2. \A x \in Directories : ~store'[x].present => store'[x] = Absent
      BY <2>1 DEF TypeOK
    <2> QED
      BY <1>12, <2>1, <2>2
  <1>13. command' \in [Commands -> Command] /\ KindInv'
    BY NextCommands
  <1>14. command[p].pc \in {"replace", "remove"} => command[p].version + 1 \in 0 .. MaxVersion
    BY StorageAssumption DEF KindInv, TypeOK, Command
  <1>15. store["preferred"].staged => store["preferred"].present
    BY <1>2, AbsentType DEF TypeOK
  <1>16. Kept
    <2> HIDE DEF Kept
    <2> QED
      BY <1>1, <1>2, <1>3, <1>7, <1>8, <1>9, <1>10, <1>11, <1>12, <1>14, <1>15
         DEF Effect, Operating, Directories
  <1>17. finished' \in 0 .. MaxVersion
    <2>1. command[p].version \in 0 .. MaxVersion /\ finished \in 0 .. MaxVersion
      BY DEF TypeOK, Command
    <2> QED
      BY <2>1 DEF Act, Look, Resolve, CheckDestination, PublishInstallation, CheckUnchanged,
         StageManifest, RenameDirectory, RenameManifest, UnstageManifest, RestoreDirectory,
         WriteTemporary, ReplaceState, RecheckState, RemoveState, Crash, history
  <1> QED
    BY <1>13, <1>16, <1>17 DEF TypeOK, AcknowledgedKept

-----------------------------------------------------------------------------
(* One store *)

LEMMA InitStores == Init => StoresInv
  <1> SUFFICES ASSUME Init PROVE Single /\ SeenInv
    BY DEF StoresInv
  <1>1. Single
    BY AbsentType, ExistingType DEF Init, Single, Directories
  <1>2. SeenInv
    BY DEF Init, SeenInv, Idle, Operating, Initializing
  <1> QED
    BY <1>1, <1>2

\* A rename that is not yet known to overlap anything finds no init and no operation.
LEMMA RenameAlone ==
  ASSUME KindInv, NEW p \in Commands, NEW from, NEW to, Rename(p, from, to), ~overlapped'
  PROVE  \A q \in Commands \ {p} :
            /\ command[q].pc \notin Operating \cup Initializing
            /\ command[q].kind # "init"
  BY DEF Rename, InFlight, KindInv

\* What a command sees in the other directory is what it has seen in the first.
LEMMA SeenNothing ==
  ASSUME NEW p \in Commands, InitReady(p)
  PROVE  /\ command[p].saw = {}
         /\ command[p].first # "legacy" => ~store["legacy"].present
  BY DEF InitReady, Seen, Directories

LEMMA NextStores ==
  ASSUME TypeOK, KindInv, StoresInv, NEW p \in Commands, Act(p), TypeOK', ~overlapped'
  PROVE  Single' /\ SeenInv'
  <1>0. ~overlapped
    BY DEF Act, Look, Resolve, CheckDestination, PublishInstallation, CheckUnchanged,
       StageManifest, RenameDirectory, RenameManifest, UnstageManifest, RestoreDirectory,
       WriteTemporary, ReplaceState, RecheckState, RemoveState, Crash, Rename, history
  <1>1. Single /\ SeenInv
    BY <1>0 DEF StoresInv
  <1>2. "preferred" \in Directories /\ "legacy" \in Directories
    BY DEF Directories
  <1>3. Effect(p)
    BY NextEffect
  <1>4. command[p].pc \in Operating =>
           command[p].directory \in Directories /\ store[command[p].directory].present
    BY <1>1 DEF KindInv, SeenInv
  <1>5. command[p].pc \in Initializing => ~store["legacy"].present
    BY <1>1 DEF SeenInv
  \* The same two directories as before, and all that was in them
  <1> DEFINE Same == \A d \in Directories :
        (store'[d].present <=> store[d].present) /\ (store'[d].complete <=> store[d].complete)
  <1>6. \/ Same
        \/ command[p].pc = "populated" /\ Published("preferred")
        \/ command[p].pc = "renameDirectory" /\ Rename(p, "legacy", "preferred")
        \/ command[p].pc = "restoreDirectory" /\ Rename(p, "preferred", "legacy")
    <2>1. ASSUME UNCHANGED store PROVE Same
      BY <2>1
    <2>2. ASSUME NEW d \in Directories, store' = Unstaged(d) PROVE Same
      BY <2>2, UnstagedType
    <2>3. ASSUME NEW d \in Directories, Staged(d) \/ Settled(d) PROVE Same
      BY <2>3, StagedType, SettledType
    <2>4. ASSUME command[p].pc \in {"replace", "remove"}, NEW active \in BOOLEAN,
                 Written(command[p].directory, command[p].version + 1, active)
          PROVE  Same
      <3>1. command[p].directory \in Directories /\ command[p].version + 1 \in 0 .. MaxVersion
        BY <2>4, <1>4, StorageAssumption DEF KindInv, TypeOK, Command, Operating
      <3> QED
        BY <2>4, <3>1, WrittenType
    <2> HIDE DEF Same
    <2> QED
      BY <1>2, <1>3, <1>4, <2>1, <2>2, <2>3, <2>4 DEF Effect, Operating
  <1>7. Single'
    <2>1. CASE Same
      BY <1>1, <1>2, <2>1 DEF Single
    <2>2. CASE command[p].pc = "populated" /\ Published("preferred")
      BY <1>1, <1>2, <1>5, <2>2, PublishedType DEF Single, Initializing, Directories
    <2>3. CASE Rename(p, "legacy", "preferred")
      BY <1>1, <1>2, <2>3, RenameType, AbsentType DEF Single, Directories
    <2>4. CASE Rename(p, "preferred", "legacy")
      BY <1>1, <1>2, <2>4, RenameType, AbsentType DEF Single, Directories
    <2> QED
      BY <1>6, <2>1, <2>2, <2>3, <2>4
  \* What the others have seen stays so.
  <1> DEFINE Sound(q) ==
        /\ command[q].pc \in Operating => store[command[q].directory].present
        /\ command[q].pc = "looking" /\ command[q].kind = "init" /\ command[q].first = "legacy"
              /\ command[q].saw = {} => ~store["legacy"].present
        /\ command[q].pc \in Initializing => ~store["legacy"].present
  <1>8. ASSUME NEW q \in Commands \ {p}
        PROVE  /\ command[q].pc \in Operating => store'[command[q].directory].present
               /\ command[q].pc = "looking" /\ command[q].kind = "init"
                     /\ command[q].first = "legacy" /\ command[q].saw = {} =>
                     ~store'["legacy"].present
               /\ command[q].pc \in Initializing => ~store'["legacy"].present
    <2>1. command[q].pc \in Operating => command[q].directory \in Directories
      BY DEF KindInv
    <2>2. Sound(q)
      BY <1>1 DEF SeenInv
    <2>3. CASE Same
      BY <1>2, <2>1, <2>2, <2>3
    <2>4. CASE Published("preferred")
      BY <1>2, <2>1, <2>2, <2>4, PublishedType DEF Directories
    <2>5. ASSUME NEW from, NEW to, Rename(p, from, to)
          PROVE  /\ command[q].pc \notin Operating \cup Initializing
                 /\ command[q].kind # "init"
      BY <2>5, RenameAlone
    <2> QED
      BY <1>6, <2>3, <2>4, <2>5
  <1>9. \A q \in Commands \ {p} : command'[q] = command[q]
    BY NextOthers
  <1>10. Sound(p)'
    <2> USE DEF PCs, Migrating, Late, Initializing, Operating
    <2>1. ASSUME End(p) PROVE Sound(p)'
      BY <2>1, EndType
    <2>2. ASSUME NEW pc \in Migrating, Step(p, pc) PROVE Sound(p)'
      BY <2>2, StepType
    <2>3. CASE Look(p)
      <3>1. store' = store
        BY <2>3 DEF Look
      <3> QED
        BY <2>3, <3>1, <1>2, LookType
    <2>4. CASE Resolve(p)
      <3>1. store' = store /\ command[p].pc = "looking"
        BY <2>4 DEF Resolve, At
      <3>2. ASSUME command[p].kind = "init", InitReady(p) PROVE ~store["legacy"].present
        BY <3>1, <3>2, <1>1, SeenNothing DEF SeenInv
      <3>3. ASSUME NEW d \in Selected(p) PROVE store[d].present
        BY AbsentType DEF Selected, TypeOK
      <3> QED
        BY <2>1, <2>4, <3>1, <3>2, <3>3, ResolveType
    <2>5. CASE CheckDestination(p)
      <3>1. store' = store /\ command[p].pc = "init"
        BY <2>5 DEF CheckDestination, At
      <3>2. Step(p, "populated") => Sound(p)'
        BY <3>1, <1>5, StepType
      <3> QED
        BY <2>1, <2>5, <3>2 DEF CheckDestination
    <2>6. CASE WriteTemporary(p)
      <3>1. command[p].pc = "operation" /\ Step(p, "replace")
        BY <2>6 DEF WriteTemporary, At
      <3>2. Same
        BY <1>6, <3>1
      <3> QED
        BY <3>1, <3>2, <1>4, StepType
    <2>7. CASE RecheckState(p)
      <3>1. store' = store /\ command[p].pc = "replace"
        BY <2>7 DEF RecheckState, At
      <3>2. Step(p, "remove") => Sound(p)'
        BY <3>1, <1>4, StepType
      <3> QED
        BY <2>1, <2>7, <3>2 DEF RecheckState
    <2> HIDE DEF Sound
    <2> QED
      BY <2>1, <2>2, <2>3, <2>4, <2>5, <2>6, <2>7 DEF Act, PublishInstallation, CheckUnchanged,
         StageManifest, RenameDirectory, RenameManifest, UnstageManifest, RestoreDirectory,
         ReplaceState, RemoveState, Crash, RollbackFails
  <1> QED
    BY <1>7, <1>8, <1>9, <1>10 DEF SeenInv

-----------------------------------------------------------------------------
(* What is left of a migration *)

LEMMA InitMigration == Init => LateInv /\ RemainsInv
  <1> SUFFICES ASSUME Init PROVE LateInv /\ RemainsInv
    OBVIOUS
  <1>1. \A p \in Commands : command[p].pc = "idle"
    BY DEF Init, Idle
  <1>2. \A d \in Directories : ~store[d].staged
    BY AbsentType, ExistingType DEF Init, Directories
  <1>3. store["preferred"].manifest # "old"
    BY AbsentType, ExistingType DEF Init
  <1>4. store["legacy"].present => store["legacy"].manifest = "old"
    BY AbsentType, ExistingType DEF Init
  <1> QED
    BY <1>1, <1>2, <1>3, <1>4 DEF LateInv, RemainsInv, Late, Directories

\* How a migration comes to and leaves the steps after its renames.
LEMMA NextMoves ==
  ASSUME TypeOK, KindInv, NEW p \in Commands, Act(p)
  PROVE  /\ command'[p].pc \in Late =>
               \/ command[p].pc \in Late
               \/ command[p].pc = "renameDirectory" /\ Rename(p, "legacy", "preferred")
         /\ command[p].pc \in Late /\ command'[p].pc \notin Late =>
               \/ Settled("preferred") \/ Rename(p, "preferred", "legacy") \/ interrupted'
         /\ command'[p].pc = "restoreDirectory" => store' = Unstaged("preferred")
         /\ command[p].pc = "renameDirectory" =>
               \/ Rename(p, "legacy", "preferred") /\ command'[p].pc \in Late
               \/ store' = Unstaged("legacy") \/ interrupted'
  <1> DEFINE Goal ==
         /\ command'[p].pc \in Late =>
               \/ command[p].pc \in Late
               \/ command[p].pc = "renameDirectory" /\ Rename(p, "legacy", "preferred")
         /\ command[p].pc \in Late /\ command'[p].pc \notin Late =>
               \/ Settled("preferred") \/ Rename(p, "preferred", "legacy") \/ interrupted'
         /\ command'[p].pc = "restoreDirectory" => store' = Unstaged("preferred")
         /\ command[p].pc = "renameDirectory" =>
               \/ Rename(p, "legacy", "preferred") /\ command'[p].pc \in Late
               \/ store' = Unstaged("legacy") \/ interrupted'
  <1> USE DEF At, Late
  <1>1. ASSUME NEW pc \in {"populated", "stage", "renameDirectory", "renameManifest", "unstage",
                           "restoreDirectory", "replace", "remove"}, Step(p, pc)
        PROVE  command'[p].pc = pc
    BY <1>1, StepType DEF PCs, Migrating, Initializing, Operating
  <1>2. End(p) => command'[p].pc = "idle"
    BY EndType
  <1>3. CASE Look(p)
    BY <1>3, LookType DEF Look
  <1>4. CASE Resolve(p)
    BY <1>2, <1>4, ResolveType DEF Resolve
  <1>5. CASE CheckDestination(p)
    BY <1>1, <1>2, <1>5 DEF CheckDestination
  <1>6. CASE PublishInstallation(p)
    BY <1>2, <1>6 DEF PublishInstallation
  <1>7. CASE CheckUnchanged(p)
    BY <1>1, <1>2, <1>7 DEF CheckUnchanged
  <1>8. CASE StageManifest(p)
    BY <1>1, <1>2, <1>8 DEF StageManifest, RollbackFails
  <1>9. CASE RenameDirectory(p)
    BY <1>1, <1>2, <1>9 DEF RenameDirectory, RollbackFails
  <1>10. CASE RenameManifest(p)
    BY <1>1, <1>2, <1>10 DEF RenameManifest, Settled
  <1>11. CASE UnstageManifest(p)
    BY <1>1, <1>2, <1>11 DEF UnstageManifest, RollbackFails
  <1>12. CASE RestoreDirectory(p)
    BY <1>2, <1>12 DEF RestoreDirectory, RollbackFails
  <1>13. CASE WriteTemporary(p)
    BY <1>1, <1>13 DEF WriteTemporary
  <1>14. CASE ReplaceState(p)
    BY <1>2, <1>14 DEF ReplaceState
  <1>15. CASE Crash(p)
    BY <1>2, <1>15 DEF Crash, KindInv, Migrating
  <1>16. CASE RecheckState(p)
    BY <1>1, <1>2, <1>16 DEF RecheckState
  <1>17. CASE RemoveState(p)
    BY <1>2, <1>17 DEF RemoveState
  <1> QED
    BY <1>3, <1>4, <1>5, <1>6, <1>7, <1>8, <1>9, <1>10, <1>11, <1>12, <1>13, <1>14, <1>15, <1>16,
       <1>17 DEF Act

LEMMA NextMigration ==
  ASSUME TypeOK, KindInv, Single, SeenInv, LateInv, RemainsInv, NEW p \in Commands, Act(p),
         ~interrupted'
  PROVE  LateInv' /\ RemainsInv'
  <1>1. "preferred" \in Directories /\ "legacy" \in Directories
    BY DEF Directories
  <1>2. \A q \in Commands \ {p} : command'[q] = command[q]
    BY NextOthers
  <1>3. /\ command'[p].pc \in Late =>
               \/ command[p].pc \in Late
               \/ command[p].pc = "renameDirectory" /\ Rename(p, "legacy", "preferred")
        /\ command[p].pc \in Late /\ command'[p].pc \notin Late =>
               \/ Settled("preferred") \/ Rename(p, "preferred", "legacy")
        /\ command'[p].pc = "restoreDirectory" => store' = Unstaged("preferred")
        /\ command[p].pc = "renameDirectory" =>
               \/ Rename(p, "legacy", "preferred") /\ command'[p].pc \in Late
               \/ store' = Unstaged("legacy")
    BY NextMoves
  <1>4. \A q \in Commands : command[q].pc \in Late => store["preferred"].present
    BY DEF LateInv
  \* The cases of Effect, without the creation of a directory that is known to be there
  <1>5. \/ UNCHANGED store
        \/ /\ command[p].pc = "populated" /\ ~store["preferred"].present
           /\ ~store["legacy"].present /\ Published("preferred")
        \/ command'[p].pc = "renameDirectory" /\ store["legacy"].present /\ Staged("legacy")
        \/ store' = Unstaged("legacy")
        \/ command'[p].pc = "renameManifest" /\ Rename(p, "legacy", "preferred")
        \/ /\ command[p].pc = "renameManifest" /\ command'[p].pc = "idle"
           /\ Settled("preferred")
        \/ store' = Unstaged("preferred")
        \/ /\ command[p].pc = "restoreDirectory" /\ command'[p].pc = "idle"
           /\ Rename(p, "preferred", "legacy")
        \/ \E d \in Directories, version \in 0 .. MaxVersion, active \in BOOLEAN :
              Written(d, version, active)
    <2>1. Effect(p)
      BY NextEffect
    <2>2. command[p].pc \in Operating =>
            command[p].directory \in Directories /\ store[command[p].directory].present
      BY DEF KindInv, SeenInv
    <2>3. command[p].pc \in {"replace", "remove"} => command[p].version + 1 \in 0 .. MaxVersion
      BY StorageAssumption DEF KindInv, TypeOK, Command
    <2>4. command[p].pc = "populated" => ~store["legacy"].present
      BY DEF SeenInv, Initializing
    <2> QED
      BY <2>1, <2>2, <2>3, <2>4 DEF Effect, Operating
  <1> DEFINE AsBefore == \A d \in Directories :
        /\ store'[d].present <=> store[d].present
        /\ store'[d].manifest = store[d].manifest
        /\ store'[d].staged => store[d].staged
  <1>6. ASSUME UNCHANGED store PROVE AsBefore
    BY <1>6
  <1>7. ASSUME NEW d \in Directories, store' = Unstaged(d)
        PROVE  AsBefore /\ ~store'[d].staged
    BY <1>7, UnstagedType
  <1>8. ASSUME NEW d \in Directories, NEW version \in 0 .. MaxVersion, NEW active \in BOOLEAN,
               Written(d, version, active)
        PROVE  AsBefore
    BY <1>8, WrittenType
  <1>9. CASE AsBefore
    <2>1. command'[p].pc \in Late => command[p].pc \in Late
      BY <1>1, <1>3, <1>9, RenameType, AbsentType DEF Rename
    <2>2. LateInv'
      <3>1. \A q, r \in Commands : command'[q].pc \in Late /\ command'[r].pc \in Late => q = r
        BY <1>2, <2>1 DEF LateInv
      <3>2. \A q \in Commands : command'[q].pc \in Late =>
               store'["preferred"].present /\ store'["preferred"].manifest = "old"
        BY <1>1, <1>2, <1>9, <2>1 DEF LateInv
      <3>3. \A q \in Commands : command'[q].pc = "restoreDirectory" => ~store'["preferred"].staged
        BY <1>1, <1>2, <1>3, <1>7, <1>9 DEF LateInv
      <3> QED
        BY <3>1, <3>2, <3>3 DEF LateInv
    <2>3. command[p].pc \in Late =>
             command'[p].pc \in Late \/ store'["preferred"].manifest # "old"
      BY <1>1, <1>3, SettledType, RenameType, AbsentType
    <2>4. command[p].pc = "renameDirectory" => ~store'["legacy"].staged
      BY <1>1, <1>3, <1>7, RenameType, AbsentType
    <2>5. RemainsInv'
      <3>1. store'["preferred"].staged \/ store'["preferred"].manifest = "old" =>
               \E q \in Commands : command'[q].pc \in Late
        <4>1. (\E q \in Commands : command[q].pc \in Late) /\ store["preferred"].manifest = "old" =>
                 \E q \in Commands : command'[q].pc \in Late
          BY <1>1, <1>2, <1>9, <2>3
        <4> QED
          BY <1>1, <1>9, <4>1 DEF RemainsInv, LateInv
      <3>2. store'["legacy"].staged => \E q \in Commands : command'[q].pc = "renameDirectory"
        BY <1>1, <1>2, <1>9, <2>4 DEF RemainsInv
      <3>3. store'["legacy"].present => store'["legacy"].manifest = "old"
        BY <1>1, <1>9 DEF RemainsInv
      <3> QED
        BY <3>1, <3>2, <3>3 DEF RemainsInv
    <2> QED
      BY <2>2, <2>5
  <1>10. CASE /\ command[p].pc = "populated" /\ ~store["preferred"].present
              /\ ~store["legacy"].present /\ Published("preferred")
    <2>1. /\ store'["legacy"] = store["legacy"] /\ ~store["legacy"].staged
          /\ ~store'["preferred"].staged /\ store'["preferred"].manifest = "new"
      BY <1>1, <1>10, PublishedType, AbsentType DEF Directories, TypeOK
    <2>2. command'[p].pc \notin Late
      BY <1>3, <1>10 DEF Late
    <2>3. \A q \in Commands : command'[q].pc \notin Late
      BY <1>2, <1>4, <1>10, <2>2
    <2> QED
      BY <1>10, <2>1, <2>3 DEF LateInv, RemainsInv, Late
  <1>11. CASE command'[p].pc = "renameDirectory" /\ store["legacy"].present /\ Staged("legacy")
    <2>1. /\ store'["preferred"] = store["preferred"]
          /\ store'["legacy"].manifest = store["legacy"].manifest
      BY <1>1, <1>11, StagedType DEF Directories
    <2>2. ~store["preferred"].present
      BY <1>11 DEF Single
    <2>3. \A q \in Commands : command[q].pc \notin Late
      BY <1>4, <2>2
    <2>4. \A q \in Commands : command'[q].pc \notin Late
      BY <1>2, <1>11, <2>3 DEF Late
    <2> QED
      BY <1>11, <2>1, <2>3, <2>4 DEF LateInv, RemainsInv, Late
  <1>12. CASE command'[p].pc = "renameManifest" /\ Rename(p, "legacy", "preferred")
    <2>1. /\ store["legacy"].present /\ ~store["preferred"].present
          /\ store'["preferred"] = store["legacy"] /\ store'["legacy"] = Absent
      BY <1>1, <1>12, RenameType
    <2>2. \A q \in Commands : command[q].pc \notin Late
      BY <1>4, <2>1
    <2>3. \A q \in Commands \ {p} : command'[q].pc \notin Late
      BY <1>2, <2>2
    <2> QED
      BY <1>12, <2>1, <2>3, AbsentType DEF LateInv, RemainsInv, Late
  <1>13. CASE command[p].pc = "renameManifest" /\ command'[p].pc = "idle" /\ Settled("preferred")
    <2>1. /\ store'["legacy"] = store["legacy"]
          /\ ~store'["preferred"].staged /\ store'["preferred"].manifest = "new"
      BY <1>1, <1>13, SettledType DEF Directories
    <2>2. \A q \in Commands : command'[q].pc \notin Late
      BY <1>2, <1>13 DEF LateInv, Late
    <2>3. store["legacy"].staged => \E q \in Commands \ {p} : command[q].pc = "renameDirectory"
      BY <1>13 DEF RemainsInv
    <2> QED
      BY <1>2, <2>1, <2>2, <2>3 DEF LateInv, RemainsInv, Late
  <1>14. CASE /\ command[p].pc = "restoreDirectory" /\ command'[p].pc = "idle"
              /\ Rename(p, "preferred", "legacy")
    <2>1. store'["legacy"] = store["preferred"] /\ store'["preferred"] = Absent
      BY <1>1, <1>14, RenameType
    <2>2. store["preferred"].manifest = "old" /\ ~store["preferred"].staged
      BY <1>14 DEF LateInv, Late
    <2>3. \A q \in Commands : command'[q].pc \notin Late
      BY <1>2, <1>14 DEF LateInv, Late
    <2> QED
      BY <2>1, <2>2, <2>3, AbsentType DEF LateInv, RemainsInv, Late
  <1> QED
    BY <1>1, <1>5, <1>6, <1>7, <1>8, <1>9, <1>10, <1>11, <1>12, <1>13, <1>14

-----------------------------------------------------------------------------
(* A finished task stays finished *)

LEMMA InitFinish == Init => FinishInv
  <1> SUFFICES ASSUME Init PROVE TurnInv /\ TasksInv
    BY DEF FinishInv
  <1>1. \A p \in Commands : command[p].pc = "idle" /\ command[p].kind = "none"
    BY DEF Init, Idle
  <1>2. finished = 0 /\ \A d \in Directories : store[d].present => store[d].version \in {0, 1}
    BY AbsentType, ExistingType DEF Init, Directories
  <1>3. \A d \in Directories : store[d].present => store[d].version = 1
    BY AbsentType, ExistingType DEF Init, Directories
  <1> QED
    BY <1>1, <1>2, <1>3 DEF TurnInv, TasksInv, Operating

LEMMA NextTurn ==
  ASSUME TypeOK, TurnInv, NEW p \in Commands, Act(p)
  PROVE  TurnInv'
  <1> USE DEF PCs, Migrating, Late, Initializing, Operating
  <1> DEFINE Turn == command'[p].kind = "operation" =>
        \/ command[p].kind = "operation"
        \/ \A q \in Commands : command[q].kind # "operation"
  <1>1. End(p) => Turn
    BY EndType
  <1>2. ASSUME NEW pc \in PCs, Step(p, pc) PROVE Turn
    BY <1>2, StepType
  <1>3. Look(p) \/ Resolve(p) => Turn
    BY <1>1, LookType, ResolveType
  <1>4. Turn
    <2> HIDE DEF Turn
    <2> QED
      BY <1>1, <1>2, <1>3 DEF Act, CheckDestination, PublishInstallation, CheckUnchanged,
         StageManifest, RenameDirectory, RenameManifest, UnstageManifest, RestoreDirectory,
         WriteTemporary, ReplaceState, RecheckState, RemoveState, Crash, RollbackFails
  <1> QED
    BY <1>4, NextOthers DEF TurnInv

\* Only a removal reports a finish, and the state it removes is the one it has loaded.
LEMMA NextFinished ==
  ASSUME TypeOK, KindInv, TasksInv, NEW p \in Commands, Act(p), finished' # finished
  PROVE  /\ command[p].pc = "remove" /\ finished' = command[p].version
         /\ Written(command[p].directory, command[p].version + 1, FALSE)
  <1>1. RemoveState(p)
    BY DEF Act, Look, Resolve, CheckDestination, PublishInstallation, CheckUnchanged,
       StageManifest, RenameDirectory, RenameManifest, UnstageManifest, RestoreDirectory,
       WriteTemporary, ReplaceState, RecheckState, Crash, history
  <1>2. Unchanged(p)
    BY <1>1 DEF RemoveState, Unchanged, TasksInv, At, Operating
  <1> QED
    BY <1>1, <1>2 DEF RemoveState, Written, At

\* A command begins at the version it finds, and rechecks it before it removes the state.
LEMMA NextLoaded ==
  ASSUME TypeOK, KindInv, TasksInv, NEW p \in Commands, Act(p)
  PROVE  /\ command'[p].pc \in Operating =>
               /\ UNCHANGED store \/ command[p].pc = "operation"
               /\ store[command'[p].directory].version = command'[p].version
               /\ command'[p].directory \in Directories
         /\ command'[p].pc = "remove" => store[command'[p].directory].active /\ UNCHANGED store
  <1> USE DEF PCs, Migrating, Late, Initializing, Operating, At
  <1> DEFINE Loaded ==
        /\ command'[p].pc \in Operating =>
               /\ UNCHANGED store \/ command[p].pc = "operation"
               /\ store[command'[p].directory].version = command'[p].version
               /\ command'[p].directory \in Directories
        /\ command'[p].pc = "remove" => store[command'[p].directory].active /\ UNCHANGED store
  <1>1. End(p) => Loaded
    BY EndType
  <1>2. ASSUME NEW pc \in Migrating \cup Initializing, Step(p, pc) PROVE Loaded
    BY <1>2, StepType
  <1>3. Look(p) => Loaded
    BY LookType
  <1>4. ASSUME Resolve(p) PROVE Loaded
    BY <1>1, <1>4, ResolveType DEF Resolve
  <1>5. ASSUME WriteTemporary(p) PROVE Loaded
    BY <1>5, StepType DEF WriteTemporary, TasksInv, KindInv
  <1>6. ASSUME RecheckState(p) PROVE Loaded
    BY <1>1, <1>6, StepType DEF RecheckState, Unchanged, TasksInv, KindInv
  <1> HIDE DEF Loaded
  <1>7. Loaded
    <2>1. ASSUME CheckDestination(p) \/ PublishInstallation(p) \/ CheckUnchanged(p) PROVE Loaded
      BY <1>1, <1>2, <2>1 DEF CheckDestination, PublishInstallation, CheckUnchanged
    <2>2. ASSUME StageManifest(p) \/ RenameDirectory(p) \/ RenameManifest(p) PROVE Loaded
      BY <1>1, <1>2, <2>2 DEF StageManifest, RenameDirectory, RenameManifest, RollbackFails
    <2>3. ASSUME UnstageManifest(p) \/ RestoreDirectory(p) PROVE Loaded
      BY <1>1, <1>2, <2>3 DEF UnstageManifest, RestoreDirectory, RollbackFails
    <2>4. ASSUME ReplaceState(p) \/ RemoveState(p) \/ Crash(p) PROVE Loaded
      BY <1>1, <2>4 DEF ReplaceState, RemoveState, Crash
    <2> QED
      BY <1>3, <1>4, <1>5, <1>6, <2>1, <2>2, <2>3, <2>4 DEF Act
  <1> QED
    BY <1>7 DEF Loaded

LEMMA NextTasks ==
  ASSUME TypeOK, KindInv, TurnInv, Single, SeenInv, TasksInv, NEW p \in Commands, Act(p),
         TypeOK', ~overlapped'
  PROVE  TasksInv'
  <1>1. "preferred" \in Directories /\ "legacy" \in Directories
    BY DEF Directories
  <1>2. Effect(p)
    BY NextEffect
  <1>3. command[p].pc \in Operating =>
           /\ command[p].directory \in Directories /\ store[command[p].directory].present
           /\ store[command[p].directory].version = command[p].version
    BY DEF KindInv, SeenInv, TasksInv
  <1>4. /\ finished \in Nat /\ finished' \in Nat
        /\ \A d \in Directories : store[d].version \in Nat /\ store'[d].version \in Nat
    BY DEF TypeOK, Store
  \* The same two directories as before, at the same versions
  <1> DEFINE Same == \A d \in Directories :
        /\ store'[d].present <=> store[d].present
        /\ store'[d].active <=> store[d].active
        /\ store'[d].version = store[d].version
  <1> DEFINE Write == \E active \in BOOLEAN :
        /\ command[p].pc \in {"replace", "remove"}
        /\ Written(command[p].directory, command[p].version + 1, active)
  <1>5. \/ Same
        \/ /\ command[p].pc = "populated" /\ ~store["preferred"].present
           /\ Published("preferred")
        \/ Rename(p, "legacy", "preferred")
        \/ Rename(p, "preferred", "legacy")
        \/ Write
    <2>1. ASSUME UNCHANGED store PROVE Same
      BY <2>1
    <2>2. ASSUME NEW d \in Directories, store' = Unstaged(d) PROVE Same
      BY <2>2, UnstagedType
    <2>3. ASSUME NEW d \in Directories, Staged(d) \/ Settled(d) PROVE Same
      BY <2>3, StagedType, SettledType
    <2> HIDE DEF Same
    <2> QED
      BY <1>1, <1>2, <1>3, <2>1, <2>2, <2>3 DEF Effect, Operating
  <1>6. ASSUME Write
        PROVE  \E active \in BOOLEAN :
                 LET d == command[p].directory
                 IN /\ d \in Directories /\ store[d].present /\ store'[d].present
                    /\ store[d].version = command[p].version
                    /\ store'[d].version = store[d].version + 1
                    /\ store'[d].active <=> active
                    /\ Written(d, command[p].version + 1, active)
                    /\ \A x \in Directories \ {d} : store'[x] = store[x]
    <2>1. PICK active \in BOOLEAN :
            /\ command[p].pc \in {"replace", "remove"}
            /\ Written(command[p].directory, command[p].version + 1, active)
      BY <1>6
    <2>2. command[p].version + 1 \in 0 .. MaxVersion
      BY <2>1, StorageAssumption DEF KindInv, TypeOK, Command
    <2> QED
      BY <1>3, <2>1, <2>2, WrittenType DEF Operating
  <1>7. finished' # finished =>
           /\ command[p].pc = "remove" /\ finished' = command[p].version
           /\ Written(command[p].directory, command[p].version + 1, FALSE)
    BY NextFinished
  <1>8. finished' # finished =>
           LET d == command[p].directory
           IN /\ d \in Directories /\ store[d].present /\ store'[d].present /\ ~store'[d].active
              /\ finished' = store[d].version /\ store'[d].version = store[d].version + 1
              /\ \A x \in Directories \ {d} : store'[x] = store[x]
    <2> SUFFICES ASSUME finished' # finished
                 PROVE  LET d == command[p].directory
                        IN /\ d \in Directories /\ store[d].present /\ store'[d].present
                           /\ ~store'[d].active
                           /\ finished' = store[d].version
                           /\ store'[d].version = store[d].version + 1
                           /\ \A x \in Directories \ {d} : store'[x] = store[x]
      OBVIOUS
    <2>1. command[p].version + 1 \in 0 .. MaxVersion
      BY <1>7, StorageAssumption DEF KindInv, TypeOK, Command
    <2> QED
      BY <1>3, <1>7, <2>1, WrittenType DEF Operating
  <1>9. /\ \A d \in Directories : store'[d].present =>
              /\ finished' <= store'[d].version
              /\ store'[d].active => finished' < store'[d].version
        /\ (\A d \in Directories : ~store'[d].present) => finished' = 0
    <2>1. CASE finished' # finished
      BY <1>4, <1>8, <2>1 DEF Single, Directories
    <2>2. CASE finished' = finished /\ Same
      BY <1>4, <2>2 DEF TasksInv
    <2>3. CASE /\ finished' = finished /\ command[p].pc = "populated"
               /\ ~store["preferred"].present /\ Published("preferred")
      <3>1. ~store["legacy"].present
        BY <2>3 DEF SeenInv, Initializing
      <3> QED
        BY <1>1, <2>3, <3>1, PublishedType DEF TasksInv, Directories
    <2>4. ASSUME finished' = finished, NEW from \in Directories, NEW to \in Directories \ {from},
                 Rename(p, from, to)
          PROVE  /\ \A d \in Directories : store'[d].present =>
                       /\ finished' <= store'[d].version
                       /\ store'[d].active => finished' < store'[d].version
                 /\ (\A d \in Directories : ~store'[d].present) => finished' = 0
      BY <2>4, RenameType, AbsentType DEF TasksInv
    <2>5. CASE finished' = finished /\ Write
      BY <1>4, <1>6, <2>5 DEF TasksInv
    <2> QED
      BY <1>1, <1>5, <2>1, <2>2, <2>3, <2>4, <2>5
  <1>10. \A q \in Commands \ {p} : command'[q] = command[q]
    BY NextOthers
  <1>11. ASSUME NEW q \in Commands \ {p}
         PROVE  /\ command[q].pc \in Operating =>
                      store'[command[q].directory].version = command[q].version
                /\ command[q].pc = "remove" => store'[command[q].directory].active
    <2>1. /\ command[q].pc \in Operating =>
                /\ command[q].directory \in Directories /\ store[command[q].directory].present
                /\ store[command[q].directory].version = command[q].version
                /\ command[q].kind = "operation"
          /\ command[q].pc = "remove" =>
                command[q].pc \in Operating /\ store[command[q].directory].active
      BY DEF KindInv, SeenInv, TasksInv, Operating
    <2>2. ASSUME NEW from, NEW to, Rename(p, from, to) PROVE command[q].pc \notin Operating
      BY <2>2, RenameAlone
    <2>3. Write => command[q].pc \notin Operating
      BY <2>1 DEF TurnInv, KindInv, Operating
    <2>4. CASE Same
      BY <2>1, <2>4
    <2>5. CASE ~store["preferred"].present /\ Published("preferred")
      BY <1>1, <2>1, <2>5, PublishedType
    <2> HIDE DEF Same, Write
    <2> QED
      BY <1>5, <2>1, <2>2, <2>3, <2>4, <2>5
  <1>12. /\ command'[p].pc \in Operating =>
               store'[command'[p].directory].version = command'[p].version
         /\ command'[p].pc = "remove" => store'[command'[p].directory].active
    <2>1. command[p].pc = "operation" => Same
      <3>1. command[p].pc = "operation" => UNCHANGED store
        BY <1>2, <1>3 DEF Effect, Operating
      <3> QED
        BY <3>1
    <2> QED
      BY <2>1, NextLoaded
  <1> QED
    BY <1>9, <1>10, <1>11, <1>12 DEF TasksInv

-----------------------------------------------------------------------------
(* The theorems *)

LEMMA InitStorage == Init => StorageInv
  <1> SUFFICES ASSUME Init PROVE StorageInv
    OBVIOUS
  <1>1. TypeOK /\ KindInv
    BY InitTypes
  <1>2. AcknowledgedKept
    BY AbsentType, ExistingType DEF Init, AcknowledgedKept, Directories
  <1> QED
    BY <1>1, <1>2, InitStores, InitMigration, InitFinish DEF StorageInv, MigrationInv

LEMMA NextStorage == StorageInv /\ [Next]_vars => StorageInv'
  <1> SUFFICES ASSUME StorageInv, [Next]_vars PROVE StorageInv'
    OBVIOUS
  <1>1. CASE UNCHANGED vars
    BY <1>1 DEF vars, StorageInv, TypeOK, KindInv, StoresInv, Single, SeenInv, MigrationInv,
       LateInv, RemainsInv, AcknowledgedKept, FinishInv, TurnInv, TasksInv
  <1>2. ASSUME NEW p \in Commands, Act(p)
        PROVE  StorageInv'
    <2>1. TypeOK' /\ KindInv' /\ AcknowledgedKept'
      BY <1>2, NextTypes DEF StorageInv
    <2>2. ~overlapped' => ~overlapped
      BY <1>2 DEF Act, Look, Resolve, CheckDestination, PublishInstallation, CheckUnchanged,
         StageManifest, RenameDirectory, RenameManifest, UnstageManifest, RestoreDirectory,
         WriteTemporary, ReplaceState, RecheckState, RemoveState, Crash, Rename, RollbackFails,
         history
    <2>3. ~interrupted' => ~interrupted
      BY <1>2 DEF Act, Look, Resolve, CheckDestination, PublishInstallation, CheckUnchanged,
         StageManifest, RenameDirectory, RenameManifest, UnstageManifest, RestoreDirectory,
         WriteTemporary, ReplaceState, RecheckState, RemoveState, Crash, RollbackFails, history
    <2>4. StoresInv'
      BY <1>2, <2>1, NextStores DEF StorageInv, StoresInv
    <2>5. MigrationInv'
      BY <1>2, <2>2, <2>3, NextMigration DEF StorageInv, StoresInv, MigrationInv
    <2>6. FinishInv'
      BY <1>2, <2>1, <2>2, NextTurn, NextTasks DEF StorageInv, StoresInv, FinishInv
    <2> QED
      BY <2>1, <2>4, <2>5, <2>6 DEF StorageInv
  <1>3. Next => \E p \in Commands : Act(p)
    BY DEF Next, Act
  <1> QED
    BY <1>1, <1>2, <1>3

\* The variables have their types, and where there is no directory there is nothing of one.
THEOREM StorageTypeCorrect == Spec => []TypeOK
  <1>1. StorageInv => TypeOK
    BY DEF StorageInv
  <1> QED
    BY <1>1, InitStorage, NextStorage, PTL DEF Spec

\* Unless a directory was renamed under a running init or operation there are never two
\* stores, and never one without its files, for any number of commands, faults and kills.
THEOREM OneStoreAlways == Spec => []OneStore
  <1>1. StorageInv => OneStore
    BY DEF StorageInv, StoresInv, Single, OneStore
  <1> QED
    BY <1>1, InitStorage, NextStorage, PTL DEF Spec

\* Migrations that were not killed and could roll back leave nothing of themselves, however
\* many run at once.
THEOREM MigrationsLeaveNothing == Spec => []MigrationLeavesNothing
  <1>1. StorageInv => MigrationLeavesNothing
    <2> SUFFICES ASSUME StorageInv, \A p \in Commands : command[p].kind # "migrate",
                        ~interrupted, ~overlapped
                 PROVE  /\ store["legacy"].manifest # "new" /\ store["preferred"].manifest # "old"
                        /\ \A d \in Directories : ~store[d].staged
      BY DEF MigrationLeavesNothing
    <2>1. \A p \in Commands : command[p].pc \notin Migrating
      BY DEF StorageInv, KindInv
    <2>2. RemainsInv
      BY DEF StorageInv, MigrationInv
    <2>3. ~store["legacy"].present => store["legacy"].manifest = "none"
      BY AbsentType DEF StorageInv, TypeOK, Directories
    <2> QED
      BY <2>1, <2>2, <2>3 DEF RemainsInv, Migrating, Directories
  <1> QED
    BY <1>1, InitStorage, NextStorage, PTL DEF Spec

\* The state an operation has acknowledged is never lost to a migration, its rollback, an
\* initialization, a fault or a kill.
THEOREM AcknowledgedAlwaysKept == Spec => []AcknowledgedKept
  <1>1. StorageInv => AcknowledgedKept
    BY DEF StorageInv
  <1> QED
    BY <1>1, InitStorage, NextStorage, PTL DEF Spec

\* A task whose finish was reported as a success is in no directory again, unless a directory
\* was renamed under a running command: no state is older than the last finish, and none as
\* old as it is active.
THEOREM FinishedStaysRemoved == Spec => []FinishedRemoved
  <1>1. StorageInv => FinishedRemoved
    <2> SUFFICES ASSUME StorageInv, ~overlapped, NEW d \in Directories, store[d].active
                 PROVE  store[d].version # finished
      BY DEF FinishedRemoved
    <2>1. store[d].present
      BY AbsentType DEF StorageInv, TypeOK
    <2>2. store[d].version \in Nat /\ finished \in Nat
      BY DEF StorageInv, TypeOK, Store
    <2> QED
      BY <2>1, <2>2 DEF StorageInv, FinishInv, TasksInv
  <1> QED
    BY <1>1, InitStorage, NextStorage, PTL DEF Spec
===============================================================================
