--------------------------- MODULE ConnectorsProofs ---------------------------
(***************************************************************************)
(* Theorems about the connectors, for any number of worktrees, versions,   *)
(* edits of the user, faults and upgrades, one command at a time.          *)
(*                                                                         *)
(* What a command finds when it begins is sound (Sound); what the command  *)
(* has in mind is sound too (Sensible), and until it ends the files are    *)
(* what it found but for what it has noted as changed (InFlight).  So they *)
(* are sound again when it has ended, in whichever way.                    *)
(***************************************************************************)
EXTENDS Connectors, FiniteSetTheorems, TLAPS

OneCommand == MaxRunning = 1

----------------------------------------------------------------------------
(* Types *)

Managed == Descriptor \cup {"none", "user", "edited", "legacy", "current", "previous"}
FileRecords == [present : BOOLEAN, other : Nat, managed : Managed]
ConfigFiles == [Configs -> FileRecords]
Instructions == [Repository -> FileRecords]
Workspaces == [connections : SUBSET Keys, fingerprint : {"none", "current"}]
Records == [surfaces : [Keys -> Descriptor \cup {"none"}],
            workspaces : [Repository -> Workspaces], descriptor : Descriptor \cup {"none"}]
Edits == [from : FileRecords, to : FileRecords]
Plans == [op : {"none", "connect", "disconnect"},
          configs : UNION {[D -> Edits] : D \in SUBSET Configs},
          instruction : Edits, record : Records, updated : Records]
Snapshots == {<<>>} \cup (ConfigFiles \X FileRecords \X Records)
Commands == [pc : {"idle", "planned", "writing", "verifying", "undoing"}, plan : Plans,
             changed : SUBSET Targets, before : Snapshots, stray : SUBSET Targets]

ConnectorsType ==
    /\ host \in {"codex", "antigravity"}
    /\ descriptor \in Descriptor
    /\ config \in ConfigFiles /\ instructions \in Instructions /\ record \in Records
    /\ command \in [Repository -> Commands]
    /\ installed \in [Repository -> SUBSET Keys]
    /\ interrupted \subseteq Descriptor /\ strays \subseteq Configs \X Managed
    /\ edits \in Nat /\ faults \in Nat /\ upgrades \in Nat

----------------------------------------------------------------------------
(* What the files are between two commands *)

\* A file that is absent is empty, the files of the other host are not there, and the rule of
\* Antigravity is a file of its own.
Tidy(h, cfg, ins) ==
    /\ \A c \in Configs : cfg[c].present \/ cfg[c] = Absent
    /\ \A r \in Repository : ins[r].present \/ ins[r] = Absent
    /\ \A c \in Configs : (c = Toml) # (h = "codex") => cfg[c] = Absent
    /\ h = "antigravity" => \A r \in Repository : ins[r].other = 0

\* A connection of a worktree is on record as a surface, a surface of the host of the record.
Recorded(h, rec) ==
    /\ \A r \in Repository : \A k \in rec.workspaces[r].connections : rec.surfaces[k] # "none"
    /\ \A k \in Keys : rec.surfaces[k] # "none" => (k[1] = Toml <=> h = "codex")
    /\ \A r \in Repository :
          rec.workspaces[r].connections # {} => rec.workspaces[r].fingerprint # "none"

\* What the record need not prove: entries of commands that ended half-way, and entries whose
\* creation took effect and was reported as failed.
Gone == <<interrupted, strays>>
Counted(gone, c, entry) == entry \in Descriptor \ gone[1] /\ <<c, entry>> \notin gone[2]

\* The record is of one mind about every other entry of the connector.
Owned(cfg, rec, gone) ==
    \A c \in Configs : Counted(gone, c, cfg[c].managed) => Proven(rec, c) = {cfg[c].managed}

\* What has been reported as connected is on record, its entries are there, and as long as no
\* command has ended half-way it would be verified.
Depended(cfg, rec, reported) ==
    \A r \in Repository : \A k \in reported[r] :
        k \in rec.workspaces[r].connections /\ cfg[k[1]].managed \in Descriptor

VerifiedIn(h, cfg, ins, rec, r) ==
    /\ rec.workspaces[r].connections # {}
    /\ IF h = "codex"
       THEN \A k \in rec.workspaces[r].connections : rec.surfaces[k] = cfg[Toml].managed
       ELSE \A k \in Keys : rec.surfaces[k] # "none" => cfg[k[1]].managed = rec.surfaces[k]
    /\ ins[r].managed = rec.workspaces[r].fingerprint

Sound(h, cfg, ins, rec, reported, gone) ==
    /\ Tidy(h, cfg, ins) /\ Recorded(h, rec) /\ Owned(cfg, rec, gone) /\ Depended(cfg, rec, reported)
    /\ gone[1] = {} => \A r \in Repository : reported[r] # {} => VerifiedIn(h, cfg, ins, rec, r)

----------------------------------------------------------------------------
(* What a plan is *)

\* An edit keeps what the user wrote.
Considerate(edit) ==
    /\ edit.to.other = edit.from.other
    /\ edit.to.present \/ edit.to = Absent
    /\ {edit.from.managed, edit.to.managed} \cap {"user", "edited"} # {} =>
          edit.to = edit.from

Changes(edit) == edit.from # edit.to

\* A connect writes the descriptor, and the record proves it.
Connects(h, r, plan) ==
    /\ DOMAIN plan.configs # {}
    /\ \A c \in DOMAIN plan.configs :
          plan.configs[c].to.managed \in Proven(plan.updated, c)
    /\ \A k \in Keys :
          IF k[1] \in DOMAIN plan.configs
          THEN h = "codex" => plan.updated.surfaces[k] \in {"none", plan.configs[k[1]].to.managed}
          ELSE plan.updated.surfaces[k] = plan.record.surfaces[k]
    /\ plan.record.workspaces[r].connections \subseteq plan.updated.workspaces[r].connections
    /\ \A q \in Repository \ {r} : plan.updated.workspaces[q] = plan.record.workspaces[q]

\* A disconnect removes what no recorded surface uses any more, and nothing else.
Disconnects(r, plan) ==
    /\ \A c \in DOMAIN plan.configs : Changes(plan.configs[c]) =>
          plan.configs[c].from.managed \in Descriptor /\ plan.configs[c].to.managed = "none"
    /\ \A c \in Configs : (Proven(plan.updated, c) = {} /\ Proven(plan.record, c) # {}) =>
          c \in DOMAIN plan.configs /\ plan.configs[c].to.managed = "none"
    /\ \A k \in Keys : plan.updated.surfaces[k] # "none" =>
          /\ plan.updated.surfaces[k] = plan.record.surfaces[k]
          /\ k[1] \in DOMAIN plan.configs => ~Changes(plan.configs[k[1]])
    /\ plan.updated.workspaces[r].connections # {} =>
          /\ ~Changes(plan.instruction)
          /\ plan.updated.workspaces[r].fingerprint = plan.record.workspaces[r].fingerprint
    /\ plan.updated.workspaces[r].connections \subseteq plan.record.workspaces[r].connections
    /\ \A q \in Repository \ {r} : plan.record.workspaces[q].connections # {} =>
          plan.updated.workspaces[q] = plan.record.workspaces[q]

Sensible(h, r, plan) ==
    /\ h = "codex" => DOMAIN plan.configs = {Toml}
    /\ h = "antigravity" => /\ DOMAIN plan.configs \subseteq AntigravityConfigs
                            /\ plan.instruction.to.other = 0
    /\ \A c \in DOMAIN plan.configs : Considerate(plan.configs[c])
    /\ Considerate(plan.instruction)
    /\ Recorded(h, plan.updated)
    /\ \/ plan.op = "connect" /\ Connects(h, r, plan)
       \/ plan.op = "disconnect" /\ Disconnects(r, plan)

\* Since the preview the user has at most removed entries of the connector.
Foreseen(plan, cfg) ==
    \A c \in DOMAIN plan.configs : cfg[c].managed \in Descriptor =>
        cfg[c].managed = plan.configs[c].from.managed

\* A command under way: the files are what it found, but for what it has noted as changed.
Found(plan, changed, before, cfg, ins, rec) ==
    /\ \A c \in Configs :
          IF c \in changed THEN /\ c \in DOMAIN plan.configs /\ Changes(plan.configs[c])
                                /\ before[1][c] = plan.configs[c].from
                                /\ cfg[c] = plan.configs[c].to
          ELSE cfg[c] = before[1][c]
    /\ IF "instructions" \in changed THEN /\ Changes(plan.instruction)
                                          /\ before[2] = plan.instruction.from
                                          /\ ins = plan.instruction.to
       ELSE ins = before[2]
    /\ before[3] = plan.record
    /\ IF "record" \in changed THEN rec \in {plan.record, plan.updated} ELSE rec = plan.record

\* Whether a file may still have changed since the preview
Compared(h, plan, before) ==
    /\ plan.op = "connect" => \A c \in DOMAIN plan.configs : before[1][c] = plan.configs[c].from
    /\ h = "antigravity" => \A c \in DOMAIN plan.configs :
          Changes(plan.configs[c]) => before[1][c] = plan.configs[c].from
    /\ (plan.op = "connect" \/ (h = "antigravity" /\ Changes(plan.instruction))) =>
          before[2] = plan.instruction.from

\* A creation that took effect and was reported as failed; the rollback does not know of it.
Left(cmd, odd) ==
    /\ cmd.stray \cap cmd.changed = {} /\ "record" \notin cmd.stray
    /\ cmd.stray # {} => cmd.pc = "undoing"
    /\ \A x \in cmd.stray : ~EditOf(cmd.plan, x).from.present
    /\ \A c \in cmd.stray \cap Configs : <<c, cmd.plan.configs[c].to.managed>> \in odd

InFlight(r) ==
    LET plan == command[r].plan
        before == command[r].before
        changed == command[r].changed
    IN /\ before # <<>> /\ Sensible(host, r, plan) /\ Foreseen(plan, before[1])
       /\ Sound(host, before[1], [instructions EXCEPT ![r] = before[2]], before[3],
             installed, Gone)
       /\ Found(plan, changed \cup command[r].stray, before, config, instructions[r], record)
       /\ Left(command[r], strays)
       /\ command[r].pc = "writing" =>
             Compared(host, plan, before) /\ "record" \notin changed /\ Pending(plan, changed) # {}
       /\ command[r].pc = "verifying" =>
             Compared(host, plan, before) /\ Pending(plan, changed) = {} /\ plan.op = "connect"
             /\ record = plan.updated

AtWork(r) == command[r].pc \in {"writing", "verifying", "undoing"}

SoundNow == Sound(host, config, instructions, record, installed, Gone)

Planned(r) ==
    /\ command[r].changed = {} /\ command[r].stray = {} /\ command[r].plan.record = record
    /\ Sensible(host, r, command[r].plan) /\ Foreseen(command[r].plan, config)

Alone == \A q, r \in Running : q = r

ConnectorsInv ==
    /\ ConnectorsType /\ Alone
    /\ (\A r \in Repository : ~AtWork(r)) => SoundNow
    /\ \A r \in Repository : command[r].pc = "planned" => Planned(r)
    /\ \A r \in Repository : AtWork(r) => InFlight(r)

----------------------------------------------------------------------------
(* Names and types *)

LEMMA KeyFacts ==
  /\ Configs = {"config.toml", "central", "transition"} /\ Toml \in Configs
  /\ \A k \in Keys : k[1] \in Configs /\ (k[1] = Toml \/ k[1] \in AntigravityConfigs)
  /\ AntigravityConfigs = Configs \ {Toml}
  /\ "instructions" \notin Configs /\ "record" \notin Configs
  BY DEF Configs, Keys, Toml, AntigravityConfigs

LEMMA Fingerprints ==
  /\ Descriptor \cap {"none", "user", "edited", "legacy"} = {} /\ FirstDescriptor \in Descriptor
  BY ConnectorAssumption

LEMMA FirstTypes ==
  Absent \in FileRecords /\ NoRecord \in Records /\ NoPlan \in Plans /\ Idle \in Commands
  <1>1. Absent \in FileRecords
    BY DEF Absent, FileRecords, Managed
  <1>2. NoRecord \in Records
    BY DEF NoRecord, Records, NoWorkspace, Workspaces
  <1>3. [c \in {} |-> Edit(Absent, Absent)] \in [{} -> Edits] /\ {} \in SUBSET Configs
    OBVIOUS
  <1>4. Edit(Absent, Absent) \in Edits
    BY <1>1 DEF Edit, Edits
  <1>5. NoPlan \in Plans
    BY <1>2, <1>3, <1>4 DEF NoPlan, Plans
  <1>6. Idle \in Commands
    BY <1>5 DEF Idle, Commands, Snapshots
  <1> QED
    BY <1>1, <1>2, <1>5, <1>6

LEMMA PlanTypes ==
  ASSUME NEW plan \in Plans
  PROVE  /\ DOMAIN plan.configs \subseteq Configs
         /\ \A c \in DOMAIN plan.configs : /\ plan.configs[c].from \in FileRecords
                                           /\ plan.configs[c].to \in FileRecords
         /\ plan.instruction.from \in FileRecords /\ plan.instruction.to \in FileRecords
         /\ plan.record \in Records /\ plan.updated \in Records
         /\ plan.op \in {"none", "connect", "disconnect"}
  <1>1. PICK D \in SUBSET Configs : plan.configs \in [D -> Edits]
    BY DEF Plans
  <1>2. \A c \in D : plan.configs[c] \in Edits
    BY <1>1
  <1>3. DOMAIN plan.configs = D
    BY <1>1
  <1>4. plan.instruction \in Edits /\ plan.record \in Records /\ plan.updated \in Records
        /\ plan.op \in {"none", "connect", "disconnect"}
    BY DEF Plans
  <1> QED
    BY <1>2, <1>3, <1>4 DEF Edits

\* The fingerprints a record proves are descriptors.
LEMMA ProvenTypes ==
  ASSUME NEW rec \in Records
  PROVE  /\ \A c : Proven(rec, c) \subseteq Descriptor
         /\ \A c, f : f \in Proven(rec, c) <=>
               \E k \in Keys : k[1] = c /\ rec.surfaces[k] = f /\ f # "none"
         /\ \A k \in Keys : rec.surfaces[k] # "none" => rec.surfaces[k] \in Proven(rec, k[1])
         /\ \A k \in Keys : rec.surfaces[k] \in Descriptor \cup {"none"}
         /\ \A r \in Repository : /\ rec.workspaces[r].connections \subseteq Keys
                                  /\ rec.workspaces[r].fingerprint \in {"none", "current"}
  <1>1. rec.surfaces \in [Keys -> Descriptor \cup {"none"}] /\ rec.workspaces \in [Repository -> Workspaces]
    BY DEF Records
  <1>2. \A k \in Keys : rec.surfaces[k] \in Descriptor \cup {"none"}
    BY <1>1
  <1>3. \A c, f : f \in Proven(rec, c) <=>
               \E k \in Keys : k[1] = c /\ rec.surfaces[k] = f /\ f # "none"
    BY DEF Proven
  <1>4. \A r \in Repository : rec.workspaces[r] \in Workspaces
    BY <1>1
  <1> QED
    BY <1>2, <1>3, <1>4 DEF Workspaces

LEMMA CommandTypes ==
  ASSUME ConnectorsType, NEW r \in Repository
  PROVE  /\ command[r].pc \in {"idle", "planned", "writing", "verifying", "undoing"}
         /\ command[r].plan \in Plans /\ command[r].changed \subseteq Targets
         /\ command[r].before \in Snapshots
         /\ command[r].before # <<>> =>
               /\ command[r].before[1] \in ConfigFiles
               /\ command[r].before[2] \in FileRecords
               /\ command[r].before[3] \in Records
         /\ \A c \in Configs : config[c] \in FileRecords
         /\ instructions[r] \in FileRecords /\ record \in Records
  <1>1. command[r] \in Commands
    BY DEF ConnectorsType
  <1>2. /\ command[r].pc \in {"idle", "planned", "writing", "verifying", "undoing"}
        /\ command[r].plan \in Plans /\ command[r].changed \subseteq Targets
        /\ command[r].before \in Snapshots
    BY <1>1 DEF Commands
  <1>3. \A c \in Configs : config[c] \in FileRecords
    BY DEF ConnectorsType, ConfigFiles
  <1>4. instructions[r] \in FileRecords /\ record \in Records
    BY DEF ConnectorsType, Instructions
  <1>5. ASSUME command[r].before # <<>>
        PROVE  /\ command[r].before[1] \in ConfigFiles
               /\ command[r].before[2] \in FileRecords
               /\ command[r].before[3] \in Records
    <2>1. command[r].before \in ConfigFiles \X FileRecords \X Records
      BY <1>2, <1>5 DEF Snapshots
    <2> QED
      BY <2>1
  <1> QED
    BY <1>2, <1>3, <1>4, <1>5

\* A file as the connector leaves it
LEMMA FileShapes ==
  ASSUME NEW f \in FileRecords, NEW m \in Managed
  PROVE  /\ With(f, m) \in FileRecords /\ Without(f) \in FileRecords
         /\ With(f, m).present /\ With(f, m).other = f.other /\ With(f, m).managed = m
         /\ Without(f).present = f.present /\ Without(f).other = f.other
         /\ Without(f).managed = "none"
         /\ f.present \in BOOLEAN /\ f.other \in Nat /\ f.managed \in Managed
         /\ f.managed = "none" => Without(f) = f
  BY DEF With, Without, FileRecords, Managed
----------------------------------------------------------------------------
(* What the steps write *)

\* One file or the record is written.
LEMMA PutFiles ==
  ASSUME ConnectorsType, NEW r \in Repository, NEW x, NEW edit \in FileRecords,
         NEW rec \in Records, Put(r, x, edit, rec)
  PROVE  /\ config' \in ConfigFiles /\ instructions' \in Instructions /\ record' \in Records
         /\ \A c \in Configs : config'[c] = IF x = c THEN edit ELSE config[c]
         /\ \A q \in Repository :
               instructions'[q] = IF x = "instructions" /\ q = r THEN edit ELSE instructions[q]
         /\ record' = IF x = "record" THEN rec ELSE record
  <1>1. config \in ConfigFiles /\ instructions \in Instructions /\ record \in Records
    BY DEF ConnectorsType
  <1>2. /\ config' \in ConfigFiles
        /\ \A c \in Configs : config'[c] = IF x = c THEN edit ELSE config[c]
    BY <1>1 DEF Put, ConfigFiles
  <1>3. /\ instructions' \in Instructions
        /\ \A q \in Repository :
              instructions'[q] = IF x = "instructions" /\ q = r THEN edit ELSE instructions[q]
    BY <1>1 DEF Put, Instructions
  <1> QED
    BY <1>1, <1>2, <1>3 DEF Put

\* What is left to write
LEMMA PendingFacts ==
  ASSUME NEW plan \in Plans, NEW changed
  PROVE  /\ \A x \in Pending(plan, changed) :
               /\ x \notin changed
               /\ \/ x \in DOMAIN plan.configs /\ Changes(plan.configs[x])
                  \/ x = "instructions" /\ Changes(plan.instruction)
                  \/ x = "record"
         /\ Pending(plan, changed) = {} =>
               /\ \A c \in DOMAIN plan.configs : Changes(plan.configs[c]) => c \in changed
               /\ Changes(plan.instruction) => "instructions" \in changed
               /\ plan.record # plan.updated => "record" \in changed
         /\ "record" \in Pending(plan, changed) => Pending(plan, changed \cup {"record"}) = {}
  <1> DEFINE left == {c \in DOMAIN plan.configs : Changes(plan.configs[c])} \ changed
             first == {c \in left : c = "transition" => left = {"transition"}}
  <1>1. Pending(plan, changed) =
          IF left # {} THEN first
          ELSE IF Changes(plan.instruction) /\ "instructions" \notin changed THEN {"instructions"}
          ELSE IF plan.record # plan.updated /\ "record" \notin changed THEN {"record"} ELSE {}
    BY DEF Pending, Changes
  <1>2. ASSUME left # {} PROVE first # {}
    <2>1. PICK c : c \in left
      BY <1>2
    <2>2. CASE \E d \in left : d # "transition"
      BY <2>2
    <2>3. CASE \A d \in left : d = "transition"
      <3>1. left = {"transition"}
        BY <2>1, <2>3
      <3> QED
        BY <2>1, <3>1
    <2> QED
      BY <2>2, <2>3
  <1>3. \A x \in first : x \in DOMAIN plan.configs /\ Changes(plan.configs[x]) /\ x \notin changed
    OBVIOUS
  <1>4. \A c \in DOMAIN plan.configs : Changes(plan.configs[c]) /\ c \notin changed => c \in left
    OBVIOUS
  <1>5. "record" \notin first
    BY <1>3, PlanTypes, KeyFacts
  <1>6. ASSUME "record" \in Pending(plan, changed)
        PROVE  Pending(plan, changed \cup {"record"}) = {}
    <2>1. left = {} /\ ~(Changes(plan.instruction) /\ "instructions" \notin changed)
      BY <1>1, <1>5, <1>6
    <2>2. {c \in DOMAIN plan.configs : Changes(plan.configs[c])} \ (changed \cup {"record"}) = {}
      BY <2>1
    <2>3. ~(Changes(plan.instruction) /\ "instructions" \notin changed \cup {"record"})
      BY <2>1
    <2> QED
      BY <2>2, <2>3 DEF Pending, Changes
  <1> HIDE DEF left, first
  <1> QED
    BY <1>1, <1>2, <1>3, <1>4, <1>6

\* Every file a plan writes is one it has an edit for.
LEMMA EditTypes ==
  ASSUME NEW plan \in Plans, NEW x,
         x \in DOMAIN plan.configs \/ x = "instructions" \/ x = "record"
  PROVE  EditOf(plan, x).from \in FileRecords /\ EditOf(plan, x).to \in FileRecords
  BY PlanTypes, KeyFacts DEF EditOf

----------------------------------------------------------------------------
(* One command at a time *)

LEMMA CommandStep ==
  ASSUME ConnectorsType, NEW r \in Repository, NEW next \in Commands,
         command' = [command EXCEPT ![r] = next]
  PROVE  /\ command' \in [Repository -> Commands] /\ command'[r] = next
         /\ \A q \in Repository \ {r} : command'[q] = command[q]
  BY DEF ConnectorsType

LEMMA CommandFields ==
  ASSUME ConnectorsType, NEW r \in Repository
  PROVE  /\ \A pc \in {"idle", "planned", "writing", "verifying", "undoing"} :
               LET next == [command[r] EXCEPT !.pc = pc]
               IN  /\ [command EXCEPT ![r].pc = pc] = [command EXCEPT ![r] = next]
                   /\ next \in Commands /\ next.pc = pc /\ next.plan = command[r].plan
                   /\ next.changed = command[r].changed /\ next.before = command[r].before
                   /\ next.stray = command[r].stray
         /\ \A changed \in SUBSET Targets :
               LET next == [command[r] EXCEPT !.changed = changed]
               IN  /\ [command EXCEPT ![r].changed = changed] = [command EXCEPT ![r] = next]
                   /\ next \in Commands /\ next.pc = command[r].pc /\ next.plan = command[r].plan
                   /\ next.changed = changed /\ next.before = command[r].before
                   /\ next.stray = command[r].stray
  <1>1. command[r] \in Commands
    BY DEF ConnectorsType
  <1> QED
    BY <1>1 DEF Commands

\* While a command runs every other one is idle.
LEMMA OthersIdle ==
  ASSUME ConnectorsInv, NEW r \in Repository, command[r].pc # "idle", NEW q \in Repository \ {r}
  PROVE  command[q].pc = "idle"
  BY DEF ConnectorsInv, Alone, Running

LEMMA AfterStep ==
  ASSUME ConnectorsType', NEW r \in Repository,
         \A q \in Repository \ {r} : command'[q].pc = "idle",
         command'[r].pc \in {"idle", "planned"} => SoundNow',
         command'[r].pc = "planned" => Planned(r)', AtWork(r)' => InFlight(r)'
  PROVE  ConnectorsInv'
  <1>1. Alone'
    BY DEF Alone, Running
  <1>2. (\A q \in Repository : ~AtWork(q))' => SoundNow'
    <2>1. command'[r].pc \in {"idle", "planned", "writing", "verifying", "undoing"}
      BY DEF ConnectorsType, Commands
    <2> QED
      BY <2>1 DEF AtWork
  <1>3. \A q \in Repository : command'[q].pc = "planned" => Planned(q)'
    BY DEF Planned
  <1>4. \A q \in Repository : AtWork(q)' => InFlight(q)'
    <2>1. \A q \in Repository : AtWork(q)' => q = r
      BY DEF AtWork
    <2> QED
      BY <2>1
  <1> QED
    BY <1>1, <1>2, <1>3, <1>4 DEF ConnectorsInv

\* A step of one command, as it changes the commands
LEMMA OneMoves ==
  ASSUME ConnectorsInv, NEW r \in Repository, command[r].pc # "idle", NEW next \in Commands,
         command' = [command EXCEPT ![r] = next]
  PROVE  /\ command' \in [Repository -> Commands] /\ command'[r] = next
         /\ \A q \in Repository \ {r} : command'[q].pc = "idle"
  BY CommandStep, OthersIdle DEF ConnectorsInv

LEMMA InitInv == Init => ConnectorsInv
  <1> SUFFICES ASSUME Init PROVE ConnectorsInv
    OBVIOUS
  <1>0. ASSUME NEW others \in SUBSET {0}, NEW content \in SUBSET Managed,
               NEW f \in File(content, others)
        PROVE  /\ f \in FileRecords /\ f.managed \in content \cup {"none"} /\ f.other = 0
               /\ f.present \/ f = Absent
    <2>1. CASE f = Absent
      BY <2>1, FirstTypes DEF Absent
    <2>2. CASE f \in [present : {TRUE}, other : others, managed : content]
      <3>1. PICK o \in others, m \in content : f = [present |-> TRUE, other |-> o, managed |-> m]
        BY <2>2
      <3>2. o = 0 /\ m \in Managed
        BY <1>0
      <3>3. f \in FileRecords
        BY <3>1, <3>2 DEF FileRecords
      <3> QED
        BY <3>1, <3>2, <3>3
    <2> QED
      BY <1>0, <2>1, <2>2 DEF File
  <1>1. \A c \in Configs : /\ config[c] \in FileRecords /\ config[c].managed \notin Descriptor
                           /\ config[c].present \/ config[c] = Absent
    <2>1. \A c \in Configs : config[c] \in File({"none", "user", "legacy"}, {0})
                                        \cup File({"none", "user"}, {0})
      BY DEF Init, CodexInit, AntigravityInit
    <2>2. {"none", "user", "legacy"} \in SUBSET Managed /\ {"none", "user"} \in SUBSET Managed
      BY DEF Managed
    <2> QED
      BY <1>0, <2>1, <2>2, Fingerprints
  <1>2. \A r \in Repository : /\ instructions[r] \in FileRecords
                              /\ instructions[r].present \/ instructions[r] = Absent
                              /\ instructions[r].other = 0
    <2>1. \A r \in Repository :
             instructions[r] \in File({"none", "current", "previous"}, {0})
                                \cup File({"current", "previous", "edited"}, {0})
      BY DEF Init, CodexInit, AntigravityInit
    <2>2. /\ {"none", "current", "previous"} \in SUBSET Managed
          /\ {"current", "previous", "edited"} \in SUBSET Managed
      BY DEF Managed
    <2> QED
      BY <1>0, <2>1, <2>2
  <1>3. config \in ConfigFiles
    <2>1. config = [c \in Configs |-> config[c]]
      BY DEF Init, CodexInit, AntigravityInit
    <2> QED
      BY <1>1, <2>1 DEF ConfigFiles
  <1>4. instructions \in Instructions
    <2>1. instructions = [r \in Repository |-> instructions[r]]
      BY DEF Init, CodexInit, AntigravityInit
    <2> QED
      BY <1>2, <2>1 DEF Instructions
  <1>5. ConnectorsType
    BY <1>3, <1>4, FirstTypes, Fingerprints
       DEF ConnectorsType, Init, CodexInit, AntigravityInit
  <1>6. \A r \in Repository : command[r].pc = "idle" /\ installed[r] = {}
    BY DEF Init, Idle
  <1>7. Tidy(host, config, instructions)
    <2>1. \A c \in Configs : (c = Toml) # (host = "codex") => config[c] = Absent
      BY KeyFacts DEF Init, CodexInit, AntigravityInit, Toml
    <2> QED
      BY <1>1, <1>2, <2>1 DEF Tidy
  <1>8. Recorded(host, record)
    BY DEF Init, Recorded, NoRecord, NoWorkspace
  <1>9. SoundNow
    BY <1>1, <1>6, <1>7, <1>8 DEF SoundNow, Sound, Owned, Counted, Depended
  <1> QED
    BY <1>5, <1>6, <1>9 DEF ConnectorsInv, Alone, Running, AtWork

----------------------------------------------------------------------------
(* The preview and the start of a command *)

LEMMA NoneRuns ==
  ASSUME OneCommand, ConnectorsInv, Cardinality(Running) < MaxRunning
  PROVE  \A r \in Repository : command[r].pc = "idle"
  <1>1. ASSUME NEW r \in Running PROVE FALSE
    <2>1. Running = {r}
      BY <1>1 DEF ConnectorsInv, Alone
    <2> QED
      BY <2>1, FS_Singleton DEF OneCommand
  <1> QED
    BY <1>1 DEF Running

\* What a plan of the previewing command means
LEMMA PreviewKeeps ==
  ASSUME OneCommand, ConnectorsInv, NEW r \in Repository, NEW plan \in Plans, Preview(r, plan),
         Sensible(host, r, plan), plan.record = record,
         \A c \in DOMAIN plan.configs : plan.configs[c].from = config[c]
  PROVE  ConnectorsInv'
  <1> DEFINE next == [Idle EXCEPT !.pc = "planned", !.plan = plan]
  <1>1. /\ next \in Commands /\ next.pc = "planned" /\ next.plan = plan /\ next.changed = {}
        /\ next.stray = {}
    BY DEF Idle, Commands, Snapshots
  <1>2. \A q \in Repository : command[q].pc = "idle"
    BY NoneRuns DEF Preview
  <1>3. /\ command' \in [Repository -> Commands] /\ command'[r] = next
        /\ \A q \in Repository \ {r} : command'[q] = command[q]
    BY <1>1, CommandStep DEF Preview, ConnectorsInv
  <1>4. ConnectorsType'
    BY <1>3 DEF Preview, ConnectorsInv, ConnectorsType, files
  <1>5. SoundNow'
    <2>1. SoundNow
      BY <1>2 DEF ConnectorsInv, AtWork
    <2> QED
      BY <2>1 DEF Preview, files, SoundNow, Gone
  <1>6. Planned(r)'
    BY <1>1, <1>3 DEF Preview, files, Planned, Foreseen
  <1>7. \A q \in Repository \ {r} : command'[q].pc = "idle"
    BY <1>2, <1>3
  <1>8. command'[r].pc = "planned" /\ ~AtWork(r)'
    BY <1>1, <1>3 DEF AtWork
  <1> QED
    BY <1>4, <1>5, <1>6, <1>7, <1>8, AfterStep

\* What an apply finds when it begins
LEMMA BeginKeeps ==
  ASSUME ConnectorsInv, NEW r \in Repository, NEW unchanged \in BOOLEAN, Begin(r, unchanged),
         unchanged => Compared(host, command[r].plan, <<config, instructions[r], record>>)
  PROVE  ConnectorsInv'
  <1> DEFINE plan == command[r].plan
             before == <<config, instructions[r], record>>
  <1>0. /\ command[r] \in Commands /\ plan \in Plans /\ command[r].pc = "planned"
        /\ before \in Snapshots /\ Planned(r) /\ ConnectorsType
        /\ plan.op \in {"connect", "disconnect"}
    BY CommandTypes DEF Begin, ConnectorsInv, ConnectorsType, Snapshots, Planned, Sensible
  <1>1. SoundNow
    BY <1>0, OthersIdle DEF ConnectorsInv, AtWork
  <1>2. PICK pc \in {"idle", "writing", "verifying", "undoing"} :
          /\ command' = [command EXCEPT ![r].before = before, ![r].pc = pc]
          /\ pc = "undoing" \/ (unchanged /\ pc = IF Pending(plan, {}) = {} THEN Finished(plan)
                                                  ELSE "writing")
    BY DEF Begin, Finished
  <1> DEFINE next == [command[r] EXCEPT !.before = before, !.pc = pc]
  <1>3. /\ next \in Commands /\ next.pc = pc /\ next.plan = plan /\ next.changed = {}
        /\ next.stray = {}
        /\ next.before = before /\ command' = [command EXCEPT ![r] = next]
    BY <1>0, <1>2 DEF Commands, Planned
  <1>4. /\ command' \in [Repository -> Commands] /\ command'[r] = next
        /\ \A q \in Repository \ {r} : command'[q].pc = "idle"
    BY <1>0, <1>3, OneMoves
  <1>5. ConnectorsType'
    <2>1. UNCHANGED <<host, descriptor, files, installed, interrupted, strays, edits, upgrades>>
      BY DEF Begin
    <2>2. faults' \in Nat
      BY <1>0 DEF Begin, Fault, ConnectorsType
    <2> HIDE DEF next
    <2> QED
      BY <1>0, <1>4, <2>1, <2>2 DEF ConnectorsType, files
  <1>6. UNCHANGED <<host, config, instructions, record, installed, interrupted, strays>>
    BY DEF Begin, files
  <1>7. SoundNow'
    BY <1>1, <1>6 DEF SoundNow, Gone
  <1>8. ASSUME pc # "idle" PROVE InFlight(r)'
    <2>1. Sensible(host, r, plan) /\ Foreseen(plan, config) /\ plan.record = record
      BY <1>0 DEF Planned
    <2>2. [instructions EXCEPT ![r] = instructions[r]] = instructions
      BY <1>0 DEF ConnectorsType, Instructions
    <2>3. Found(plan, {}, before, config, instructions[r], record)
      BY <2>1 DEF Found
    <2>6. before # <<>> /\ before[1] = config /\ before[2] = instructions[r] /\ before[3] = record
      OBVIOUS
    <2>7. Sound(host, before[1], [instructions EXCEPT ![r] = before[2]], before[3],
                installed, Gone)
      BY <1>1, <2>2 DEF SoundNow
    <2>4. pc = "writing" => Pending(plan, {}) # {} /\ Compared(host, plan, before)
      BY <1>2 DEF Finished
    <2>5. pc = "verifying" => /\ Pending(plan, {}) = {} /\ Compared(host, plan, before)
                              /\ plan.op = "connect" /\ record = plan.updated
      BY <1>0, <1>2, <2>1, PendingFacts DEF Finished
    <2>8. Left(next, strays) /\ next.changed \cup next.stray = {}
      BY <1>3 DEF Left
    <2> HIDE DEF next, before, plan
    <2> QED
      BY <1>3, <1>4, <1>6, <2>1, <2>3, <2>4, <2>5, <2>6, <2>7, <2>8 DEF InFlight, Gone
  <1> QED
    BY <1>2, <1>3, <1>4, <1>5, <1>7, <1>8, AfterStep DEF AtWork

----------------------------------------------------------------------------
(* What the files are when a command has ended *)

\* Some of the changes of a plan are made.
Partly(plan, cfg, cfg2) ==
    \A c \in Configs : \/ cfg2[c] = cfg[c]
                       \/ /\ c \in DOMAIN plan.configs /\ Changes(plan.configs[c])
                          /\ cfg2[c] = plan.configs[c].to

\* The files lie between those a command has found and those of its plan.
Between(r, plan, cfg, ins, cfg2, ins2) ==
    /\ \A c \in Configs : \/ cfg2[c] = cfg[c]
                          \/ c \in DOMAIN plan.configs /\ cfg2[c] = plan.configs[c].to
    /\ ins2[r] = ins[r] \/ ins2[r] = plan.instruction.to
    /\ \A q \in Repository \ {r} : ins2[q] = ins[q]

LEMMA TidyKept ==
  ASSUME NEW h \in {"codex", "antigravity"}, NEW r \in Repository, NEW plan,
         NEW cfg, NEW ins, NEW cfg2, NEW ins2,
         Sensible(h, r, plan), Tidy(h, cfg, ins), Between(r, plan, cfg, ins, cfg2, ins2)
  PROVE  Tidy(h, cfg2, ins2)
  <1>1. \A c \in DOMAIN plan.configs : /\ (c = Toml) = (h = "codex")
                                       /\ \/ plan.configs[c].to.present
                                          \/ plan.configs[c].to = Absent
    BY KeyFacts DEF Sensible, Considerate
  <1>2. /\ plan.instruction.to.present \/ plan.instruction.to = Absent
        /\ h = "antigravity" => plan.instruction.to.other = 0
    BY DEF Sensible, Considerate
  <1>3. \A c \in Configs : /\ cfg2[c].present \/ cfg2[c] = Absent
                           /\ (c = Toml) # (h = "codex") => cfg2[c] = Absent
    BY <1>1 DEF Tidy, Between
  <1>4. \A q \in Repository : /\ ins2[q].present \/ ins2[q] = Absent
                              /\ h = "antigravity" => ins2[q].other = 0
    BY <1>2 DEF Tidy, Between
  <1> QED
    BY <1>3, <1>4 DEF Tidy

\* A connect that has been verified
LEMMA ConnectDone ==
  ASSUME NEW h \in {"codex", "antigravity"}, NEW r \in Repository, NEW plan \in Plans,
         NEW cfg, NEW ins, NEW cfg2 \in ConfigFiles, NEW ins2,
         NEW reported \in [Repository -> SUBSET Keys], NEW gone,
         Sensible(h, r, plan), plan.op = "connect",
         Sound(h, cfg, ins, plan.record, reported, gone),
         Between(r, plan, cfg, ins, cfg2, ins2),
         \A c \in DOMAIN plan.configs : cfg2[c] = plan.configs[c].to,
         \A c \in Configs \ DOMAIN plan.configs : cfg2[c] = cfg[c],
         VerifiedIn(h, cfg2, ins2, plan.updated, r)
  PROVE  Sound(h, cfg2, ins2, plan.updated,
               [reported EXCEPT ![r] = plan.updated.workspaces[r].connections], gone)
  <1> DEFINE old == plan.record
             new == plan.updated
             reported2 == [reported EXCEPT ![r] = new.workspaces[r].connections]
  <1>0. /\ old \in Records /\ new \in Records /\ DOMAIN plan.configs \subseteq Configs
        /\ Connects(h, r, plan) /\ Recorded(h, new) /\ Recorded(h, old)
        /\ h = "codex" => DOMAIN plan.configs = {Toml}
        /\ Owned(cfg, old, gone) /\ Depended(cfg, old, reported)
    BY PlanTypes DEF Sensible, Sound
  <1>1. Tidy(h, cfg2, ins2)
    BY TidyKept DEF Sound
  <1>2. \A c \in DOMAIN plan.configs :
           /\ cfg2[c].managed \in Descriptor
           /\ Proven(new, c) = {cfg2[c].managed}
    <2> SUFFICES ASSUME NEW c \in DOMAIN plan.configs
                 PROVE  cfg2[c].managed \in Descriptor /\ Proven(new, c) = {cfg2[c].managed}
      OBVIOUS
    <2>1. cfg2[c].managed \in Proven(new, c)
      BY <1>0 DEF Connects
    <2>2. \A k \in Keys : k[1] = c /\ new.surfaces[k] # "none" => new.surfaces[k] = cfg2[c].managed
      BY <1>0 DEF Connects, VerifiedIn
    <2>3. \A f \in Proven(new, c) : f = cfg2[c].managed
      BY <1>0, <2>2, ProvenTypes
    <2>4. Proven(new, c) \subseteq Descriptor
      BY <1>0, ProvenTypes
    <2> QED
      BY <2>1, <2>3, <2>4
  <1>3. \A c \in Configs \ DOMAIN plan.configs : Proven(new, c) = Proven(old, c)
    <2> SUFFICES ASSUME NEW c \in Configs \ DOMAIN plan.configs
                 PROVE  Proven(new, c) = Proven(old, c)
      OBVIOUS
    <2>1. \A k \in Keys : k[1] = c => new.surfaces[k] = old.surfaces[k]
      BY <1>0 DEF Connects
    <2>2. \A f : f \in Proven(new, c) <=> f \in Proven(old, c)
      BY <1>0, <2>1, ProvenTypes
    <2> QED
      BY <2>2
  <1>4. Owned(cfg2, new, gone)
    BY <1>0, <1>2, <1>3 DEF Owned
  <1>5. \A q \in Repository \ {r} : /\ new.workspaces[q] = old.workspaces[q]
                                    /\ reported2[q] = reported[q]
    BY <1>0 DEF Connects
  <1>6. reported2[r] = new.workspaces[r].connections
    OBVIOUS
  <1>7. \A k \in new.workspaces[r].connections : cfg2[k[1]].managed \in Descriptor
    <2> SUFFICES ASSUME NEW k \in new.workspaces[r].connections
                 PROVE  cfg2[k[1]].managed \in Descriptor
      OBVIOUS
    <2>1. k \in Keys /\ new.surfaces[k] \in Descriptor
      BY <1>0, ProvenTypes DEF Recorded
    <2>2. new.surfaces[k] # "none" /\ (k[1] = Toml <=> h = "codex")
      BY <1>0, <2>1 DEF Recorded
    <2> QED
      BY <2>1, <2>2 DEF VerifiedIn
  <1>8. Depended(cfg2, new, reported2)
    <2> SUFFICES ASSUME NEW q \in Repository, NEW k \in reported2[q]
                 PROVE  k \in new.workspaces[q].connections /\ cfg2[k[1]].managed \in Descriptor
      BY DEF Depended
    <2>1. CASE q = r
      BY <1>6, <1>7, <2>1
    <2>2. CASE q # r
      <3>1. k \in old.workspaces[q].connections /\ cfg[k[1]].managed \in Descriptor /\ k[1] \in Configs
        BY <1>0, <1>5, <2>2, KeyFacts DEF Depended
      <3> QED
        BY <1>2, <1>5, <2>2, <3>1
    <2> QED
      BY <2>1, <2>2
  <1>9. ASSUME gone[1] = {}, NEW q \in Repository, reported2[q] # {}
        PROVE  VerifiedIn(h, cfg2, ins2, new, q)
    <2>1. CASE q = r
      BY <2>1
    <2>2. CASE q # r
      <3>1. VerifiedIn(h, cfg, ins, old, q)
        BY <1>5, <1>9, <2>2 DEF Sound
      <3>2. new.workspaces[q] = old.workspaces[q] /\ ins2[q] = ins[q]
        BY <1>5, <2>2 DEF Between
      <3>3. ASSUME h = "codex", NEW k \in new.workspaces[q].connections
            PROVE  new.surfaces[k] = cfg2[Toml].managed
        <4>1. k \in Keys /\ new.surfaces[k] # "none" /\ k[1] = Toml
          BY <1>0, <3>3, ProvenTypes DEF Recorded
        <4>2. new.surfaces[k] \in Proven(new, Toml)
          BY <1>0, <4>1, ProvenTypes
        <4> QED
          BY <1>0, <1>2, <3>3, <4>2
      <3> QED
        BY <3>1, <3>2, <3>3 DEF VerifiedIn
    <2> QED
      BY <2>1, <2>2
  <1> HIDE DEF old, new, reported2
  <1> QED
    BY <1>0, <1>1, <1>4, <1>8, <1>9 DEF Sound, reported2, new

\* What a disconnect leaves in a file it has no reason to change
LEMMA DisconnectKeeps ==
  ASSUME NEW h \in {"codex", "antigravity"}, NEW r \in Repository, NEW plan \in Plans,
         NEW cfg, NEW gone, NEW c \in Configs,
         Sensible(h, r, plan), plan.op = "disconnect", Owned(cfg, plan.record, gone),
         Counted(gone, c, cfg[c].managed),
         c \in DOMAIN plan.configs => plan.configs[c].to.managed # "none"
  PROVE  Proven(plan.updated, c) = {cfg[c].managed}
  <1>0. /\ plan.record \in Records /\ plan.updated \in Records /\ Disconnects(r, plan)
        /\ Proven(plan.record, c) = {cfg[c].managed}
    BY PlanTypes DEF Sensible, Owned
  <1>1. \A f \in Proven(plan.updated, c) : f = cfg[c].managed
    <2>1. \A f \in Proven(plan.updated, c) : f \in Proven(plan.record, c)
      BY <1>0, ProvenTypes DEF Disconnects
    <2> QED
      BY <1>0, <2>1
  <1>2. Proven(plan.updated, c) # {}
    BY <1>0 DEF Disconnects
  <1> QED
    BY <1>1, <1>2

\* The changes of a plan are made, and nothing else.
Applied(r, plan, cfg, ins, cfg2, ins2) ==
    /\ \A c \in Configs : cfg2[c] = IF c \in DOMAIN plan.configs /\ Changes(plan.configs[c])
                                    THEN plan.configs[c].to ELSE cfg[c]
    /\ ins2[r] = IF Changes(plan.instruction) THEN plan.instruction.to ELSE ins[r]
    /\ \A q \in Repository \ {r} : ins2[q] = ins[q]

\* A disconnect that has written everything
LEMMA DisconnectDone ==
  ASSUME NEW h \in {"codex", "antigravity"}, NEW r \in Repository, NEW plan \in Plans,
         NEW cfg, NEW ins, NEW cfg2 \in ConfigFiles, NEW ins2,
         NEW reported \in [Repository -> SUBSET Keys], NEW gone,
         Sensible(h, r, plan), plan.op = "disconnect", Foreseen(plan, cfg),
         Sound(h, cfg, ins, plan.record, reported, gone),
         Applied(r, plan, cfg, ins, cfg2, ins2)
  PROVE  Sound(h, cfg2, ins2, plan.updated,
               [reported EXCEPT ![r] = @ \cap plan.updated.workspaces[r].connections], gone)
  <1> DEFINE old == plan.record
             new == plan.updated
             reported2 == [reported EXCEPT ![r] = @ \cap new.workspaces[r].connections]
  <1>0. /\ old \in Records /\ new \in Records /\ DOMAIN plan.configs \subseteq Configs
        /\ Disconnects(r, plan) /\ Recorded(h, new) /\ Recorded(h, old)
        /\ Owned(cfg, old, gone) /\ Depended(cfg, old, reported)
    BY PlanTypes DEF Sensible, Sound
  <1>1. Tidy(h, cfg2, ins2)
    <2>1. Between(r, plan, cfg, ins, cfg2, ins2)
      BY DEF Applied, Between
    <2>2. Tidy(h, cfg, ins)
      BY DEF Sound
    <2> QED
      BY <2>1, <2>2, TidyKept
  <1>2. Owned(cfg2, new, gone)
    <2> SUFFICES ASSUME NEW c \in Configs, Counted(gone, c, cfg2[c].managed)
                 PROVE  Proven(new, c) = {cfg2[c].managed}
      BY DEF Owned
    <2>1. cfg2[c] = cfg[c] /\ (c \in DOMAIN plan.configs => ~Changes(plan.configs[c]))
          /\ cfg2[c].managed \in Descriptor
      BY <1>0, Fingerprints DEF Disconnects, Applied, Counted
    <2>2. ASSUME c \in DOMAIN plan.configs
          PROVE  plan.configs[c].to.managed # "none"
      <3>1. plan.configs[c].from.managed = cfg[c].managed
        BY <2>1, <2>2 DEF Foreseen
      <3> QED
        BY <2>1, <2>2, <3>1, Fingerprints DEF Changes
    <2>3. Counted(gone, c, cfg[c].managed)
      BY <2>1
    <2> QED
      BY <1>0, <2>1, <2>2, <2>3, DisconnectKeeps DEF Counted
  <1>3. \A q \in Repository : reported2[q] \subseteq reported[q]
    OBVIOUS
  <1>4. ASSUME NEW q \in Repository, NEW k \in reported2[q]
        PROVE  /\ k \in Keys /\ k \in new.workspaces[q].connections /\ k[1] \in Configs
               /\ new.surfaces[k] # "none" /\ cfg2[k[1]] = cfg[k[1]]
               /\ cfg[k[1]].managed \in Descriptor
    <2>1. k \in reported[q] /\ k \in Keys /\ k[1] \in Configs
      BY <1>3, <1>4, KeyFacts
    <2>2. k \in old.workspaces[q].connections /\ cfg[k[1]].managed \in Descriptor
      BY <1>0, <2>1 DEF Depended
    <2>3. k \in new.workspaces[q].connections
      <3>1. CASE q = r
        BY <1>4, <3>1
      <3>2. CASE q # r
        BY <1>0, <2>2, <3>2 DEF Disconnects
      <3> QED
        BY <3>1, <3>2
    <2>4. new.surfaces[k] # "none"
      BY <1>0, <2>3 DEF Recorded
    <2> QED
      BY <1>0, <2>1, <2>2, <2>3, <2>4 DEF Disconnects, Applied
  <1>5. Depended(cfg2, new, reported2)
    BY <1>4 DEF Depended
  <1>6. ASSUME gone[1] = {}, NEW q \in Repository, reported2[q] # {}
        PROVE  VerifiedIn(h, cfg2, ins2, new, q)
    <2>1. PICK k \in reported2[q] : TRUE
      BY <1>6
    <2>2. reported[q] # {} /\ VerifiedIn(h, cfg, ins, old, q)
      BY <1>3, <1>6 DEF Sound
    <2>3. new.workspaces[q].connections # {} /\ k \in old.workspaces[q].connections
      BY <1>0, <1>3, <1>4, <2>1 DEF Depended
    <2>4. ins2[q] = ins[q] /\ new.workspaces[q].fingerprint = old.workspaces[q].fingerprint
      BY <1>0, <2>3 DEF Disconnects, Applied
    <2>5. ASSUME h = "codex", NEW n \in new.workspaces[q].connections
          PROVE  new.surfaces[n] = cfg2[Toml].managed
      <3>1. n \in Keys /\ new.surfaces[n] # "none" /\ n[1] = Toml
        BY <1>0, <2>5, ProvenTypes DEF Recorded
      <3>2. k[1] = Toml /\ cfg2[Toml] = cfg[Toml]
        BY <1>0, <1>4, <1>6, <2>1, <2>5 DEF Recorded
      <3>3. n \in old.workspaces[q].connections /\ new.surfaces[n] = old.surfaces[n]
        BY <1>0, <2>3, <2>5, <3>1 DEF Disconnects
      <3> QED
        BY <2>2, <2>5, <3>2, <3>3 DEF VerifiedIn
    <2>6. ASSUME h = "antigravity", NEW n \in Keys, new.surfaces[n] # "none"
          PROVE  cfg2[n[1]].managed = new.surfaces[n]
      <3>1. new.surfaces[n] = old.surfaces[n] /\ cfg2[n[1]] = cfg[n[1]]
        BY <1>0, <2>6, KeyFacts DEF Disconnects, Applied
      <3> QED
        BY <2>2, <2>6, <3>1 DEF VerifiedIn
    <2> QED
      BY <2>2, <2>3, <2>4, <2>5, <2>6 DEF VerifiedIn
  <1> HIDE DEF old, new, reported2
  <1> QED
    BY <1>0, <1>1, <1>2, <1>5, <1>6 DEF Sound, reported2, new

\* What another worktree depends on while a command is under way
LEMMA OthersDepend ==
  ASSUME NEW h \in {"codex", "antigravity"}, NEW r \in Repository, NEW plan \in Plans,
         NEW cfg, NEW ins, NEW cfg2, NEW ins2, NEW rec2 \in {plan.record, plan.updated},
         NEW reported \in [Repository -> SUBSET Keys],
         Sensible(h, r, plan), Recorded(h, plan.record), Depended(cfg, plan.record, reported),
         Partly(plan, cfg, cfg2),
         NEW q \in Repository, q # r \/ plan.op = "connect", NEW k \in reported[q]
  PROVE  k \in rec2.workspaces[q].connections /\ cfg2[k[1]].managed \in Descriptor
  <1>0. /\ plan.record \in Records /\ plan.updated \in Records /\ DOMAIN plan.configs \subseteq Configs
        /\ plan.op \in {"connect", "disconnect"}
        /\ plan.op = "connect" => Connects(h, r, plan)
        /\ plan.op = "disconnect" => Disconnects(r, plan)
    BY PlanTypes DEF Sensible
  <1>1. /\ k \in Keys /\ k[1] \in Configs /\ k \in plan.record.workspaces[q].connections
        /\ cfg[k[1]].managed \in Descriptor
    BY KeyFacts DEF Depended
  <1>2. k \in plan.updated.workspaces[q].connections
    BY <1>0, <1>1 DEF Connects, Disconnects
  <1>3. plan.updated.surfaces[k] # "none"
    BY <1>2 DEF Sensible, Recorded
  <1>4. cfg2[k[1]].managed \in Descriptor
    <2>1. CASE plan.op = "connect"
      <3>1. \A c \in DOMAIN plan.configs : plan.configs[c].to.managed \in Proven(plan.updated, c)
        BY <1>0, <2>1 DEF Connects
      <3>2. \A c \in DOMAIN plan.configs : plan.configs[c].to.managed \in Descriptor
        BY <1>0, <3>1, ProvenTypes
      <3> QED
        BY <1>1, <3>2 DEF Partly
    <2>2. CASE plan.op = "disconnect"
      BY <1>0, <1>1, <1>3, <2>2 DEF Disconnects, Partly
    <2> QED
      BY <1>0, <2>1, <2>2
  <1> QED
    BY <1>1, <1>2, <1>4

\* What is no longer counted on
Forgotten(r, plan, reported, gone, reported2, gone2) ==
    /\ gone2 = <<gone[1] \cup Descriptors(plan), gone[2]>>
    /\ reported2 = IF plan.op = "disconnect" THEN [reported EXCEPT ![r] = {}] ELSE reported

\* A command that ended half-way: of what it touched the record proves nothing.
LEMMA AbandonedSound ==
  ASSUME NEW h \in {"codex", "antigravity"}, NEW r \in Repository, NEW plan \in Plans,
         NEW cfg, NEW ins, NEW cfg2, NEW ins2, NEW rec2 \in {plan.record, plan.updated},
         NEW reported \in [Repository -> SUBSET Keys],
         NEW reported2 \in [Repository -> SUBSET Keys], NEW gone, NEW gone2,
         Sensible(h, r, plan), Foreseen(plan, cfg),
         Sound(h, cfg, ins, plan.record, reported, gone),
         Partly(plan, cfg, cfg2),
         Between(r, plan, cfg, ins, cfg2, ins2), Forgotten(r, plan, reported, gone, reported2, gone2)
  PROVE  Sound(h, cfg2, ins2, rec2, reported2, gone2)
  <1> DEFINE old == plan.record
             new == plan.updated
  <1>0. /\ old \in Records /\ new \in Records /\ DOMAIN plan.configs \subseteq Configs
        /\ rec2 \in Records /\ Recorded(h, old) /\ Recorded(h, new) /\ Recorded(h, rec2)
        /\ Owned(cfg, old, gone) /\ Depended(cfg, old, reported)
        /\ plan.op \in {"connect", "disconnect"}
        /\ plan.op = "connect" => Connects(h, r, plan)
        /\ plan.op = "disconnect" => Disconnects(r, plan)
    BY PlanTypes DEF Sensible, Sound
  <1>1. Tidy(h, cfg2, ins2)
    <2>1. Tidy(h, cfg, ins)
      BY DEF Sound
    <2> QED
      BY <2>1, TidyKept
  <1>2. \A c \in DOMAIN plan.configs :
           /\ plan.configs[c].from.managed \in Descriptor => plan.configs[c].from.managed \in gone2[1]
           /\ plan.configs[c].to.managed \in Descriptor => plan.configs[c].to.managed \in gone2[1]
    BY DEF Descriptors, Forgotten
  <1>3. Owned(cfg2, rec2, gone2)
    <2> SUFFICES ASSUME NEW c \in Configs, Counted(gone2, c, cfg2[c].managed)
                 PROVE  Proven(rec2, c) = {cfg2[c].managed}
      BY DEF Owned
    <2>0. cfg2[c].managed \in Descriptor \ gone2[1]
      BY DEF Counted
    <2>1. c \notin DOMAIN plan.configs /\ cfg2[c] = cfg[c]
      BY <1>2, <2>0 DEF Foreseen, Partly
    <2>2. Counted(gone, c, cfg[c].managed)
      BY <2>1 DEF Forgotten, Counted
    <2>3. Proven(old, c) = {cfg[c].managed}
      BY <1>0, <2>2 DEF Owned
    <2>4. CASE plan.op = "connect"
      <3>1. \A k \in Keys : k[1] = c => new.surfaces[k] = old.surfaces[k]
        BY <1>0, <2>1, <2>4 DEF Connects
      <3>2. \A f : f \in Proven(new, c) <=> f \in Proven(old, c)
        BY <1>0, <3>1, ProvenTypes
      <3>3. Proven(new, c) = Proven(old, c)
        BY <3>2
      <3> QED
        BY <2>1, <2>3, <3>3
    <2>5. CASE plan.op = "disconnect"
      <3>2. Proven(plan.updated, c) = {cfg[c].managed}
        <4>1. \A f \in Proven(new, c) : f \in Proven(old, c)
          BY <1>0, <2>5, ProvenTypes DEF Disconnects
        <4>2. Proven(new, c) # {}
          BY <1>0, <2>1, <2>3, <2>5 DEF Disconnects
        <4> QED
          BY <2>3, <4>1, <4>2
      <3> QED
        BY <2>1, <2>3, <3>2
    <2> QED
      BY <1>0, <2>4, <2>5
  <1>4. \A q \in Repository : reported2[q] \subseteq reported[q]
    BY DEF Forgotten
  <1>5. \A q \in Repository : reported2[q] # {} => q # r \/ plan.op = "connect"
    BY <1>0 DEF Forgotten
  <1>6. Depended(cfg2, rec2, reported2)
    <2> SUFFICES ASSUME NEW q \in Repository, NEW k \in reported2[q]
                 PROVE  k \in rec2.workspaces[q].connections /\ cfg2[k[1]].managed \in Descriptor
      BY DEF Depended
    <2>1. k \in reported[q] /\ (q # r \/ plan.op = "connect")
      BY <1>4, <1>5
    <2> QED
      BY <1>0, <2>1, OthersDepend
  <1>7. ASSUME gone2[1] = {}, NEW q \in Repository, reported2[q] # {}
        PROVE  VerifiedIn(h, cfg2, ins2, rec2, q)
    <2>1. plan.op = "disconnect" /\ q # r
      <3>1. ASSUME plan.op = "connect" PROVE FALSE
        <4>1. PICK c \in DOMAIN plan.configs : plan.configs[c].to.managed \in Proven(new, c)
          BY <1>0, <3>1 DEF Connects
        <4>2. plan.configs[c].to.managed \in Descriptor
          BY <1>0, <4>1, ProvenTypes
        <4> QED
          BY <1>2, <1>7, <4>2
      <3> QED
        BY <1>0, <1>5, <1>7, <3>1
    <2>2. gone[1] = {} /\ reported[q] # {} /\ VerifiedIn(h, cfg, ins, old, q) /\ ins2[q] = ins[q]
      BY <1>4, <1>7, <2>1 DEF Sound, Between, Forgotten
    <2>3. \A c \in Configs : cfg2[c] = cfg[c]
      <3>1. \A c \in DOMAIN plan.configs : ~Changes(plan.configs[c])
        BY <1>0, <1>2, <1>7, <2>1 DEF Disconnects
      <3> QED
        BY <3>1 DEF Partly
    <2>4. new.workspaces[q] = old.workspaces[q]
      BY <1>0, <2>1, <2>2 DEF Disconnects, VerifiedIn
    <2>5. \A k \in Keys : new.surfaces[k] # "none" => new.surfaces[k] = old.surfaces[k]
      BY <1>0, <2>1 DEF Disconnects
    <2>6. \A k \in old.workspaces[q].connections : k \in Keys /\ new.surfaces[k] # "none"
      BY <1>0, <2>4, ProvenTypes DEF Recorded
    <2>7. \A k \in Keys : cfg2[k[1]] = cfg[k[1]] /\ cfg2[Toml] = cfg[Toml]
      BY <2>3, KeyFacts
    <2>8. VerifiedIn(h, cfg2, ins2, old, q)
      BY <2>2, <2>7, <1>0, ProvenTypes DEF VerifiedIn
    <2>9. VerifiedIn(h, cfg2, ins2, new, q)
      BY <2>4, <2>5, <2>6, <2>8 DEF VerifiedIn
    <2> QED
      BY <2>8, <2>9
  <1> QED
    BY <1>0, <1>1, <1>3, <1>6, <1>7 DEF Sound

\* More that the record need not prove
LEMMA GoneGrows ==
  ASSUME NEW h, NEW cfg, NEW ins, NEW rec, NEW reported, NEW gone, NEW gone2,
         Sound(h, cfg, ins, rec, reported, gone), gone2[1] = gone[1], gone[2] \subseteq gone2[2]
  PROVE  Sound(h, cfg, ins, rec, reported, gone2)
  BY DEF Sound, Owned, Counted

\* A file that was not there and is left behind is a file nobody depends on.
LEMMA StraySound ==
  ASSUME NEW h \in {"codex", "antigravity"}, NEW rec \in Records, NEW r \in Repository,
         NEW cfg, NEW ins, NEW cfg2, NEW ins2, NEW reported \in [Repository -> SUBSET Keys],
         NEW gone, Sound(h, cfg, ins, rec, reported, gone), Tidy(h, cfg2, ins2),
         \A c \in Configs : \/ cfg2[c] = cfg[c]
                            \/ ~cfg[c].present /\ <<c, cfg2[c].managed>> \in gone[2],
         ins2[r] = ins[r] \/ ~ins[r].present,
         \A q \in Repository \ {r} : ins2[q] = ins[q]
  PROVE  Sound(h, cfg2, ins2, rec, reported, gone)
  <1>0. /\ Tidy(h, cfg, ins) /\ Recorded(h, rec) /\ Owned(cfg, rec, gone)
        /\ Depended(cfg, rec, reported) /\ Absent.managed = "none" /\ "none" \notin Descriptor
    BY Fingerprints DEF Sound, Absent
  <1>1. \A c \in Configs : cfg[c].managed # "none" => cfg2[c] = cfg[c]
    BY <1>0 DEF Tidy
  <1>2. \A q \in Repository : ins[q].managed # "none" => ins2[q] = ins[q]
    BY <1>0 DEF Tidy
  <1>3. Owned(cfg2, rec, gone)
    BY <1>0 DEF Owned, Counted
  <1>4. Depended(cfg2, rec, reported)
    <2> SUFFICES ASSUME NEW q \in Repository, NEW k \in reported[q]
                 PROVE  k \in rec.workspaces[q].connections /\ cfg2[k[1]].managed \in Descriptor
      BY DEF Depended
    <2>1. k \in rec.workspaces[q].connections /\ cfg[k[1]].managed \in Descriptor
          /\ k[1] \in Configs
      BY <1>0, KeyFacts DEF Depended
    <2> QED
      BY <1>0, <1>1, <2>1
  <1>5. ASSUME gone[1] = {}, NEW q \in Repository, reported[q] # {}
        PROVE  VerifiedIn(h, cfg2, ins2, rec, q)
    <2>1. VerifiedIn(h, cfg, ins, rec, q)
      BY <1>5 DEF Sound
    <2>2. ins2[q] = ins[q]
      BY <1>0, <1>2, <2>1 DEF VerifiedIn, Recorded
    <2>3. ASSUME h = "codex"
          PROVE  cfg2[Toml] = cfg[Toml]
      <3>1. PICK k \in rec.workspaces[q].connections : rec.surfaces[k] = cfg[Toml].managed
        BY <2>1, <2>3 DEF VerifiedIn
      <3> QED
        BY <1>0, <1>1, <3>1, KeyFacts DEF Recorded
    <2>4. ASSUME h # "codex", NEW k \in Keys, rec.surfaces[k] # "none"
          PROVE  cfg2[k[1]].managed = rec.surfaces[k]
      BY <1>1, <2>1, <2>4, KeyFacts DEF VerifiedIn
    <2> QED
      BY <2>1, <2>2, <2>3, <2>4 DEF VerifiedIn
  <1> QED
    BY <1>0, <1>3, <1>4, <1>5 DEF Sound

----------------------------------------------------------------------------
(* The steps of a command under way *)

\* What is known while a command is under way
LEMMA FlightFacts ==
  ASSUME ConnectorsInv, NEW r \in Repository, AtWork(r)
  PROVE  /\ InFlight(r) /\ ConnectorsType /\ command[r] \in Commands
         /\ command[r].plan \in Plans /\ command[r].changed \in SUBSET Targets
         /\ command[r].stray \in SUBSET Targets
         /\ command[r].before \in Snapshots /\ command[r].before # <<>>
         /\ command[r].before[1] \in ConfigFiles /\ command[r].before[2] \in FileRecords
         /\ command[r].before[3] = command[r].plan.record
         /\ \A q \in Repository \ {r} : command[q].pc = "idle"
         /\ command[r].plan.op \in {"connect", "disconnect"}
         /\ command[r].pc # "undoing" =>
               /\ command[r].stray = {}
               /\ Found(command[r].plan, command[r].changed, command[r].before,
                        config, instructions[r], record)
  <1>1. InFlight(r) /\ ConnectorsType /\ command[r] \in Commands
    BY DEF ConnectorsInv, ConnectorsType
  <1>2. command[r].before # <<>> /\ command[r].plan.op \in {"connect", "disconnect"}
        /\ command[r].before[3] = command[r].plan.record
    BY <1>1 DEF InFlight, Found, Sensible
  <1>3. \A q \in Repository \ {r} : command[q].pc = "idle"
    BY OthersIdle DEF AtWork
  <1>4. ASSUME command[r].pc # "undoing"
        PROVE  /\ command[r].stray = {}
               /\ Found(command[r].plan, command[r].changed, command[r].before,
                        config, instructions[r], record)
    <2>1. command[r].stray = {}
      BY <1>1, <1>4 DEF InFlight, Left
    <2>2. command[r].changed \cup command[r].stray = command[r].changed
      BY <2>1
    <2> QED
      BY <1>1, <2>1, <2>2 DEF InFlight
  <1>5. command[r].stray \in SUBSET Targets
    BY <1>1 DEF Commands
  <1> QED
    BY <1>1, <1>2, <1>3, <1>4, <1>5, CommandTypes

\* The files of a command under way lie between what it found and what it planned.
LEMMA FlightFiles ==
  ASSUME ConnectorsInv, NEW r \in Repository, AtWork(r)
  PROVE  LET plan == command[r].plan
             cfg == command[r].before[1]
             ins == [instructions EXCEPT ![r] = command[r].before[2]]
         IN  /\ ins \in Instructions /\ ins[r] = command[r].before[2]
             /\ \A q \in Repository \ {r} : instructions[q] = ins[q]
             /\ Partly(plan, cfg, config)
             /\ instructions[r] = ins[r] \/ instructions[r] = plan.instruction.to
             /\ record \in {plan.record, plan.updated}
             /\ Between(r, plan, cfg, ins, config, instructions)
             /\ Sensible(host, r, plan) /\ Foreseen(plan, cfg)
             /\ Sound(host, cfg, ins, plan.record, installed, Gone)
  <1> DEFINE ins == [instructions EXCEPT ![r] = command[r].before[2]]
  <1>1. InFlight(r) /\ ConnectorsType /\ command[r].before[2] \in FileRecords
        /\ command[r].before[3] = command[r].plan.record
    BY FlightFacts
  <1>2. /\ ins \in Instructions /\ ins[r] = command[r].before[2]
        /\ \A q \in Repository \ {r} : instructions[q] = ins[q]
    BY <1>1 DEF ConnectorsType, Instructions
  <1> HIDE DEF ins
  <1>3. Sound(host, command[r].before[1], ins, command[r].plan.record, installed, Gone)
    BY <1>1 DEF InFlight, ins
  <1>4. Found(command[r].plan, command[r].changed \cup command[r].stray, command[r].before,
              config, instructions[r], record)
    BY <1>1 DEF InFlight
  <1>5. \/ instructions[r] = ins[r]
        \/ instructions[r] = command[r].plan.instruction.to
    BY <1>2, <1>4 DEF Found
  <1>6. /\ Partly(command[r].plan, command[r].before[1], config)
        /\ Between(r, command[r].plan, command[r].before[1], ins, config, instructions)
        /\ record \in {command[r].plan.record, command[r].plan.updated}
    BY <1>2, <1>4 DEF Found, Partly, Between
  <1> QED
    BY <1>1, <1>2, <1>3, <1>5, <1>6 DEF InFlight, ins

\* A step after which the command is still under way
LEMMA UnderWay ==
  ASSUME ConnectorsInv, NEW r \in Repository, AtWork(r), ConnectorsType', NEW next \in Commands,
         command' = [command EXCEPT ![r] = next], next.plan = command[r].plan,
         next.before = command[r].before, next.pc \in {"writing", "verifying", "undoing"},
         UNCHANGED <<host, installed, interrupted>>, strays \subseteq strays',
         \A q \in Repository \ {r} : instructions'[q] = instructions[q],
         Found(next.plan, next.changed \cup next.stray, next.before,
               config', instructions'[r], record'),
         Left(next, strays'),
         next.pc = "writing" =>
            /\ Compared(host, next.plan, next.before) /\ "record" \notin next.changed
            /\ Pending(next.plan, next.changed) # {},
         next.pc = "verifying" =>
            /\ Compared(host, next.plan, next.before) /\ Pending(next.plan, next.changed) = {}
            /\ next.plan.op = "connect" /\ record' = next.plan.updated
  PROVE  ConnectorsInv'
  <1>1. /\ command' \in [Repository -> Commands] /\ command'[r] = next
        /\ \A q \in Repository \ {r} : command'[q].pc = "idle"
    BY OneMoves DEF AtWork
  <1>2. /\ InFlight(r) /\ next.before # <<>> /\ next.before[2] \in FileRecords
    BY FlightFacts
  <1>3. [instructions' EXCEPT ![r] = next.before[2]] = [instructions EXCEPT ![r] = next.before[2]]
    <2>1. instructions \in Instructions /\ instructions' \in Instructions
      BY DEF ConnectorsInv, ConnectorsType
    <2> QED
      BY <2>1 DEF Instructions
  <1>4. /\ Sensible(host, r, next.plan) /\ Foreseen(next.plan, next.before[1])
        /\ Sound(host, next.before[1], [instructions EXCEPT ![r] = next.before[2]],
                 next.before[3], installed, Gone)
    BY <1>2 DEF InFlight
  <1>6. Gone'[1] = Gone[1] /\ Gone[2] \subseteq Gone'[2]
    BY DEF Gone
  <1>7. Sound(host, next.before[1], [instructions EXCEPT ![r] = next.before[2]],
              next.before[3], installed, Gone')
    <2> DEFINE gone == Gone
               gone2 == Gone'
    <2>1. gone2[1] = gone[1] /\ gone[2] \subseteq gone2[2]
      BY <1>6
    <2> HIDE DEF gone, gone2
    <2>2. Sound(host, next.before[1], [instructions EXCEPT ![r] = next.before[2]],
                next.before[3], installed, gone2)
      BY <1>4, <2>1, GoneGrows DEF gone
    <2> QED
      BY <2>2 DEF gone2
  <1>5. InFlight(r)'
    BY <1>1, <1>2, <1>3, <1>4, <1>7 DEF InFlight
  <1> QED
    BY <1>1, <1>5, AfterStep

\* A step with which the command ends
LEMMA Ended ==
  ASSUME ConnectorsInv, NEW r \in Repository, AtWork(r), ConnectorsType',
         command' = [command EXCEPT ![r] = Idle], SoundNow'
  PROVE  ConnectorsInv'
  <1>1. Idle \in Commands /\ Idle.pc = "idle"
    BY FirstTypes DEF Idle
  <1>2. /\ command'[r] = Idle
        /\ \A q \in Repository \ {r} : command'[q].pc = "idle"
    BY <1>1, OneMoves DEF AtWork
  <1> QED
    BY <1>1, <1>2, AfterStep DEF AtWork

\* A command that goes on to its rollback, or to its verification
LEMMA GotoKeeps ==
  ASSUME ConnectorsInv, NEW r \in Repository, AtWork(r), Goto(r, "undoing"), faults' \in Nat,
         UNCHANGED <<host, descriptor, files, installed, interrupted, strays, edits, upgrades>>
  PROVE  ConnectorsInv'
  <1> DEFINE next == [command[r] EXCEPT !.pc = "undoing"]
  <1>0. InFlight(r) /\ ConnectorsType /\ command[r] \in Commands
    BY FlightFacts
  <1>1. /\ next \in Commands /\ next.pc = "undoing" /\ next.plan = command[r].plan
        /\ next.changed = command[r].changed /\ next.before = command[r].before
        /\ next.stray = command[r].stray /\ command' = [command EXCEPT ![r] = next]
    BY <1>0, CommandFields DEF Goto
  <1> HIDE DEF next
  <1>2. command' \in [Repository -> Commands]
    BY <1>1, CommandStep DEF ConnectorsInv
  <1>3. ConnectorsType'
    BY <1>0, <1>2 DEF ConnectorsType, files
  <1>4. Found(next.plan, next.changed \cup next.stray, next.before,
              config', instructions'[r], record')
    BY <1>0, <1>1 DEF InFlight, files
  <1>5. Left(next, strays')
    BY <1>0, <1>1 DEF InFlight, Left
  <1> QED
    BY <1>1, <1>3, <1>4, <1>5, UnderWay DEF files

\* A file that is written
LEMMA WriteFound ==
  ASSUME ConnectorsInv, NEW r \in Repository, AtWork(r), command[r].pc # "undoing",
         NEW x \in Pending(command[r].plan, command[r].changed),
         x \in Configs => command[r].before[1][x] = command[r].plan.configs[x].from,
         x = "instructions" => command[r].before[2] = command[r].plan.instruction.from,
         "record" \notin command[r].changed,
         Put(r, x, EditOf(command[r].plan, x).to, command[r].plan.updated)
  PROVE  /\ config' \in ConfigFiles /\ instructions' \in Instructions /\ record' \in Records
         /\ \A q \in Repository \ {r} : instructions'[q] = instructions[q]
         /\ Found(command[r].plan, command[r].changed \cup {x}, command[r].before,
                  config', instructions'[r], record')
         /\ record' = IF x = "record" THEN command[r].plan.updated ELSE command[r].plan.record
         /\ x \in Targets /\ x \notin command[r].changed
  <1> DEFINE plan == command[r].plan
             changed == command[r].changed
             before == command[r].before
  <1>0. /\ plan \in Plans /\ ConnectorsType /\ before[3] = plan.record
        /\ Found(plan, changed, before, config, instructions[r], record)
    BY FlightFacts DEF InFlight
  <1>1. /\ x \notin changed
        /\ \/ x \in DOMAIN plan.configs /\ x \in Configs /\ Changes(plan.configs[x])
           \/ x = "instructions" /\ Changes(plan.instruction)
           \/ x = "record"
    <2>1. /\ x \notin changed
          /\ \/ x \in DOMAIN plan.configs /\ Changes(plan.configs[x])
             \/ x = "instructions" /\ Changes(plan.instruction)
             \/ x = "record"
      BY <1>0, PendingFacts
    <2>2. DOMAIN plan.configs \subseteq Configs
      BY <1>0, PlanTypes
    <2> QED
      BY <2>1, <2>2
  <1>2. EditOf(plan, x).to \in FileRecords /\ plan.updated \in Records
    BY <1>0, <1>1, EditTypes, PlanTypes
  <1>3. /\ config' \in ConfigFiles /\ instructions' \in Instructions /\ record' \in Records
        /\ \A c \in Configs : config'[c] = IF x = c THEN EditOf(plan, x).to ELSE config[c]
        /\ \A q \in Repository : instructions'[q] =
              IF x = "instructions" /\ q = r THEN EditOf(plan, x).to ELSE instructions[q]
        /\ record' = IF x = "record" THEN plan.updated ELSE record
    BY <1>0, <1>2, PutFiles
  <1>4. /\ x \in Configs => EditOf(plan, x).to = plan.configs[x].to
        /\ x = "instructions" => EditOf(plan, x).to = plan.instruction.to
    BY KeyFacts DEF EditOf
  <1> HIDE DEF plan, changed, before
  <1>5. record = plan.record
    BY <1>0 DEF Found, changed
  <1>6. \A c \in Configs :
          IF c \in changed \cup {x}
          THEN /\ c \in DOMAIN plan.configs /\ Changes(plan.configs[c])
               /\ before[1][c] = plan.configs[c].from /\ config'[c] = plan.configs[c].to
          ELSE config'[c] = before[1][c]
    BY <1>0, <1>1, <1>3, <1>4, KeyFacts DEF Found, plan, before
  <1>7. IF "instructions" \in changed \cup {x}
        THEN /\ Changes(plan.instruction) /\ before[2] = plan.instruction.from
             /\ instructions'[r] = plan.instruction.to
        ELSE instructions'[r] = before[2]
    BY <1>0, <1>1, <1>3, <1>4, KeyFacts DEF Found, plan, before
  <1>8. Found(plan, changed \cup {x}, before, config', instructions'[r], record')
    BY <1>0, <1>1, <1>3, <1>5, <1>6, <1>7, KeyFacts DEF Found
  <1>9. \A q \in Repository \ {r} : instructions'[q] = instructions[q]
    BY <1>3
  <1>10. x \in Targets
    BY <1>1 DEF Targets
  <1> QED
    BY <1>1, <1>3, <1>5, <1>8, <1>9, <1>10 DEF plan, changed, before

\* What Write requires of the files it writes: they are as the command has found them.
Trusted(r, unchanged) ==
    \A x \in Pending(command[r].plan, command[r].changed) \cap unchanged :
        /\ x \in Configs => command[r].before[1][x] = command[r].plan.configs[x].from
        /\ x = "instructions" => command[r].before[2] = command[r].plan.instruction.from

\* Everything a disconnect has to write is written.
LEMMA DisconnectEnds ==
  ASSUME ConnectorsInv, NEW r \in Repository, AtWork(r), NEW done,
         command[r].plan.op = "disconnect", Pending(command[r].plan, done) = {},
         config' \in ConfigFiles, instructions' \in Instructions,
         \A q \in Repository \ {r} : instructions'[q] = instructions[q],
         Found(command[r].plan, done, command[r].before, config', instructions'[r], record'),
         record' = command[r].plan.updated, Report(r, command[r].plan),
         UNCHANGED <<host, interrupted, strays>>
  PROVE  SoundNow' /\ installed' \in [Repository -> SUBSET Keys]
  <1> DEFINE plan == command[r].plan
             cfg == command[r].before[1]
             ins == [instructions EXCEPT ![r] = command[r].before[2]]
             reported == [installed EXCEPT ![r] = @ \cap plan.updated.workspaces[r].connections]
  <1>0. /\ plan \in Plans /\ ConnectorsType
        /\ ins \in Instructions /\ ins[r] = command[r].before[2]
        /\ \A q \in Repository \ {r} : instructions[q] = ins[q]
        /\ Sensible(host, r, plan) /\ Foreseen(plan, cfg)
        /\ Sound(host, cfg, ins, plan.record, installed, Gone)
    BY FlightFacts, FlightFiles
  <1>1. /\ host \in {"codex", "antigravity"} /\ installed \in [Repository -> SUBSET Keys]
    BY <1>0 DEF ConnectorsType
  <1>2. installed' = reported /\ reported \in [Repository -> SUBSET Keys]
    BY <1>1 DEF Report
  <1>3. /\ \A c \in DOMAIN plan.configs : Changes(plan.configs[c]) => c \in done
        /\ Changes(plan.instruction) => "instructions" \in done
    BY <1>0, PendingFacts
  <1> HIDE DEF plan, cfg, ins, reported
  <1>4. Applied(r, plan, cfg, ins, config', instructions')
    BY <1>0, <1>3 DEF Found, Applied, plan, cfg
  <1>5. Sound(host, cfg, ins, plan.record, installed, Gone) /\ plan.op = "disconnect"
    BY <1>0 DEF plan
  <1>6. Sound(host, config', instructions', plan.updated,
              [installed EXCEPT ![r] = @ \cap plan.updated.workspaces[r].connections], Gone)
    BY <1>0, <1>1, <1>4, <1>5, DisconnectDone
  <1> QED
    BY <1>2, <1>6 DEF SoundNow, Gone, reported, plan

\* A change the plan makes
Changed(plan, x) ==
    \/ x \in DOMAIN plan.configs /\ Changes(plan.configs[x])
    \/ x = "instructions" /\ Changes(plan.instruction)
    \/ x = "record"

LEMMA WriteKeeps ==
  ASSUME ConnectorsInv, NEW r \in Repository, NEW unchanged \in SUBSET Targets,
         Write(r, unchanged), Trusted(r, unchanged)
  PROVE  ConnectorsInv'
  <1> DEFINE plan == command[r].plan
             changed == command[r].changed
             before == command[r].before
  <1>0. /\ AtWork(r) /\ command[r].pc = "writing" /\ ConnectorsType /\ InFlight(r)
        /\ command[r] \in Commands /\ plan \in Plans /\ changed \in SUBSET Targets
        /\ plan.op \in {"connect", "disconnect"} /\ "record" \notin changed
        /\ Compared(host, plan, before) /\ faults \in Nat
        /\ Found(plan, changed, before, config, instructions[r], record)
        /\ command[r].stray = {} /\ strays \subseteq Configs \X Managed
    <2>1. AtWork(r) /\ command[r].pc = "writing"
      BY DEF Write, AtWork
    <2> QED
      BY <2>1, FlightFacts DEF InFlight, ConnectorsType
  <1>1. UNCHANGED <<host, descriptor, interrupted, edits, upgrades>>
    BY DEF Write
  <1>2. PICK x \in Pending(plan, changed) :
          LET done == changed \cup {x}
              Written == Put(r, x, EditOf(plan, x).to, plan.updated)
              expected == x \in unchanged /\ Creatable(r, x)
          IN  \/ /\ expected /\ Written /\ UNCHANGED <<faults, strays>>
                 /\ command' = IF Pending(plan, done) # {}
                       THEN [command EXCEPT ![r].changed = done]
                       ELSE IF Finished(plan) = "idle" THEN [command EXCEPT ![r] = Idle]
                       ELSE [command EXCEPT ![r].changed = done, ![r].pc = Finished(plan)]
                 /\ IF Pending(plan, done) = {} /\ Finished(plan) = "idle"
                    THEN Report(r, plan) ELSE UNCHANGED installed
              \/ /\ ~expected /\ UNCHANGED <<files, faults, installed, strays>>
                 /\ Goto(r, "undoing")
              \/ /\ expected /\ Fault /\ UNCHANGED installed
                 /\ \E stray \in {{}, {x}} :
                       /\ \/ stray = {} /\ UNCHANGED files
                          \/ stray = {} /\ x = "record" /\ Written
                          \/ stray = {x} /\ Creates(plan, x) /\ Written
                       /\ strays' = strays \cup {<<c, EditOf(plan, c).to.managed>> :
                                                    c \in stray \cap Configs}
                       /\ command' = [command EXCEPT ![r].pc = "undoing", ![r].stray = stray,
                                                     ![r].changed = Attempt(@, x)]
    BY DEF Write
  <1> DEFINE done == changed \cup {x}
             Written == Put(r, x, EditOf(plan, x).to, plan.updated)
             expected == x \in unchanged /\ Creatable(r, x)
  <1>3. ASSUME expected, Written
        PROVE  /\ config' \in ConfigFiles /\ instructions' \in Instructions /\ record' \in Records
               /\ \A q \in Repository \ {r} : instructions'[q] = instructions[q]
               /\ Found(plan, done, before, config', instructions'[r], record')
               /\ record' = IF x = "record" THEN plan.updated ELSE plan.record
               /\ done \in SUBSET Targets
    <2>1. /\ x \in Configs => before[1][x] = plan.configs[x].from
          /\ x = "instructions" => before[2] = plan.instruction.from
      BY <1>3 DEF Trusted
    <2> QED
      BY <1>0, <1>3, <2>1, WriteFound
  <1>4. Pending(plan, done) # {} => x # "record"
    <2>1. "record" \in Pending(plan, changed) => Pending(plan, changed \cup {"record"}) = {}
      BY <1>0, PendingFacts
    <2>2. x = "record" => done = changed \cup {"record"}
      OBVIOUS
    <2> QED
      BY <2>1, <2>2
  <1>5. Pending(plan, done) = {} /\ x # "record" => plan.record = plan.updated
    <2>1. "record" \notin changed /\ (x # "record" => "record" \notin done)
      BY <1>0
    <2> HIDE DEF plan, changed, done
    <2>2. plan \in Plans
      BY <1>0
    <2>3. Pending(plan, done) = {} /\ plan.record # plan.updated => "record" \in done
      BY <2>2, PendingFacts
    <2> QED
      BY <2>1, <2>3
  <1>6. CASE /\ expected /\ Written /\ UNCHANGED <<faults, installed, strays>>
             /\ Pending(plan, done) # {}
             /\ command' = [command EXCEPT ![r].changed = done]
    <2> DEFINE next == [command[r] EXCEPT !.changed = done]
    <2>1. /\ next \in Commands /\ next.pc = "writing" /\ next.plan = plan
          /\ next.changed = done /\ next.before = before /\ next.stray = {}
          /\ command' = [command EXCEPT ![r] = next]
      BY <1>0, <1>3, <1>6 DEF Commands
    <2>4. Left(next, strays') /\ next.changed \cup next.stray = done
      BY <2>1 DEF Left
    <2> HIDE DEF next, plan, changed, before, done, Written, expected
    <2>2. ConnectorsType'
      BY <1>0, <1>1, <1>3, <1>6, <2>1, CommandStep DEF ConnectorsType
    <2>3. "record" \notin done
      BY <1>0, <1>4, <1>6 DEF done
    <2> QED
      BY <1>0, <1>1, <1>3, <1>6, <2>1, <2>2, <2>3, <2>4, UnderWay DEF plan, before
  <1>7. CASE /\ expected /\ Written /\ UNCHANGED <<faults, strays>> /\ Pending(plan, done) = {}
             /\ Finished(plan) = "idle" /\ command' = [command EXCEPT ![r] = Idle]
             /\ Report(r, plan)
    <2>1. plan.op = "disconnect" /\ record' = plan.updated
      BY <1>0, <1>3, <1>5, <1>7 DEF Finished
    <2> HIDE DEF done, Written, expected
    <2>2. SoundNow' /\ installed' \in [Repository -> SUBSET Keys]
      BY <1>0, <1>1, <1>3, <1>7, <2>1, DisconnectEnds
    <2>3. command' \in [Repository -> Commands]
      BY <1>0, <1>7, FirstTypes, CommandStep
    <2>4. ConnectorsType'
      BY <1>0, <1>1, <1>3, <1>7, <2>2, <2>3 DEF ConnectorsType
    <2> QED
      BY <1>0, <1>7, <2>2, <2>4, Ended
  <1>8. CASE /\ expected /\ Written /\ UNCHANGED <<faults, installed, strays>>
             /\ Pending(plan, done) = {}
             /\ Finished(plan) # "idle"
             /\ command' = [command EXCEPT ![r].changed = done, ![r].pc = Finished(plan)]
    <2> DEFINE next == [command[r] EXCEPT !.changed = done, !.pc = "verifying"]
    <2>0. plan.op = "connect" /\ Finished(plan) = "verifying" /\ record' = plan.updated
      BY <1>0, <1>3, <1>5, <1>8 DEF Finished
    <2>1. /\ next \in Commands /\ next.pc = "verifying" /\ next.plan = plan
          /\ next.changed = done /\ next.before = before /\ next.stray = {}
          /\ command' = [command EXCEPT ![r] = next]
      BY <1>0, <1>3, <1>8, <2>0 DEF Commands
    <2>4. Left(next, strays') /\ next.changed \cup next.stray = done
      BY <2>1 DEF Left
    <2> HIDE DEF next, plan, changed, before, done, Written, expected
    <2>2. ConnectorsType'
      BY <1>0, <1>1, <1>3, <1>8, <2>1, CommandStep DEF ConnectorsType
    <2> QED
      BY <1>0, <1>1, <1>3, <1>8, <2>0, <2>1, <2>2, <2>4, UnderWay DEF plan, before
  <1>9. CASE UNCHANGED <<files, faults, installed, strays>> /\ Goto(r, "undoing")
    BY <1>0, <1>1, <1>9, GotoKeeps
  <1> DEFINE Effect(stray) == \/ stray = {} /\ UNCHANGED files
                              \/ stray = {} /\ x = "record" /\ Written
                              \/ stray = {x} /\ Creates(plan, x) /\ Written
  <1>10. ASSUME NEW stray \in {{}, {x}}, expected, Fault, UNCHANGED installed, Effect(stray),
                strays' = strays \cup {<<c, EditOf(plan, c).to.managed>> : c \in stray \cap Configs},
                command' = [command EXCEPT ![r].pc = "undoing", ![r].stray = stray,
                                           ![r].changed = Attempt(@, x)]
         PROVE  ConnectorsInv'
    <2> DEFINE tried == Attempt(changed, x)
               next == [command[r] EXCEPT !.pc = "undoing", !.stray = stray, !.changed = tried]
    <2>1. /\ config' \in ConfigFiles /\ instructions' \in Instructions /\ record' \in Records
          /\ \A q \in Repository \ {r} : instructions'[q] = instructions[q]
          /\ Found(plan, tried \cup stray, before, config', instructions'[r], record')
          /\ tried \in SUBSET Targets
      <3>1. CASE stray = {} /\ UNCHANGED files
        <4>1. tried = changed \/ tried = changed \cup {"record"}
          BY DEF Attempt
        <4>2. Found(plan, tried, before, config, instructions[r], record)
          BY <1>0, <4>1, KeyFacts DEF Found
        <4>3. tried \in SUBSET Targets /\ tried \cup stray = tried
          BY <1>0, <3>1, <4>1 DEF Targets
        <4> QED
          BY <1>0, <3>1, <4>2, <4>3 DEF ConnectorsType, files
      <3>2. CASE Written /\ ((stray = {} /\ x = "record") \/ (stray = {x} /\ Creates(plan, x)))
        <4>1. tried \cup stray = done /\ tried \subseteq done
          BY <3>2 DEF Attempt, Creates
        <4>2. /\ config' \in ConfigFiles /\ instructions' \in Instructions /\ record' \in Records
              /\ \A q \in Repository \ {r} : instructions'[q] = instructions[q]
              /\ Found(plan, done, before, config', instructions'[r], record')
              /\ done \in SUBSET Targets
          BY <1>3, <1>10, <3>2
        <4> HIDE DEF tried, done, plan, before
        <4> QED
          BY <4>1, <4>2
      <3>3. \/ stray = {} /\ UNCHANGED files
            \/ Written /\ ((stray = {} /\ x = "record") \/ (stray = {x} /\ Creates(plan, x)))
        <4> HIDE DEF Effect, Written
        <4>1. Effect(stray)
          BY <1>10
        <4> QED
          BY <4>1 DEF Effect
      <3> HIDE DEF tried, done, plan, before, changed, Written
      <3> QED
        BY <3>1, <3>2, <3>3
    <2>2. stray \subseteq Targets /\ x \notin changed /\ Changed(plan, x)
      <3>1. x \notin changed /\ Changed(plan, x)
        <4>1. plan \in Plans /\ x \in Pending(plan, changed)
          BY <1>0
        <4> HIDE DEF plan, changed
        <4> QED
          BY <4>1, PendingFacts DEF Changed
      <3> QED
        BY <1>0, <1>10, <3>1, PlanTypes DEF Targets, Changed
    <2>3. /\ next \in Commands /\ next.pc = "undoing" /\ next.plan = plan
          /\ next.changed = tried /\ next.before = before /\ next.stray = stray
          /\ command' = [command EXCEPT ![r] = next]
      BY <1>0, <1>10, <2>1, <2>2 DEF Commands
    <2>4. faults' \in Nat
      BY <1>0, <1>10 DEF Fault
    <2>5. strays' \subseteq Configs \X Managed /\ strays \subseteq strays'
      <3>1. \A c \in stray \cap Configs : EditOf(plan, c).to \in FileRecords
        BY <1>0, <1>10, <2>2, EditTypes, KeyFacts DEF Changed
      <3> QED
        BY <1>0, <1>10, <3>1 DEF FileRecords
    <2>6. Left(next, strays')
      <3>1. stray \cap tried = {} /\ "record" \notin stray
        BY <1>0, <1>10, <2>2 DEF Attempt, Creates
      <3>2. \A y \in stray : ~EditOf(plan, y).from.present
        BY <1>10 DEF Creates
      <3>3. \A c \in stray \cap Configs : <<c, plan.configs[c].to.managed>> \in strays'
        BY <1>10 DEF EditOf
      <3> QED
        BY <2>3, <3>1, <3>2, <3>3 DEF Left
    <2> HIDE DEF tried, next, plan, changed, before, done, Written, expected
    <2>7. ConnectorsType'
      BY <1>0, <1>1, <1>10, <2>1, <2>3, <2>4, <2>5, CommandStep DEF ConnectorsType
    <2> QED
      BY <1>0, <1>1, <1>10, <2>1, <2>3, <2>5, <2>6, <2>7, UnderWay DEF plan, before
  <1> QED
    BY <1>2, <1>6, <1>7, <1>8, <1>9, <1>10

\* A verification: what it checks makes the connection one that stays verified.
LEMMA VerifyKeeps ==
  ASSUME ConnectorsInv, NEW r \in Repository, NEW valid \in BOOLEAN, Verify(r, valid),
         valid => VerifiedIn(host, config, instructions, record, r)
  PROVE  ConnectorsInv'
  <1> DEFINE plan == command[r].plan
             cfg == command[r].before[1]
             ins == [instructions EXCEPT ![r] = command[r].before[2]]
  <1>0. AtWork(r) /\ command[r].pc = "verifying"
    BY DEF Verify, AtWork
  <1>1. /\ ConnectorsType /\ InFlight(r) /\ plan \in Plans
        /\ Between(r, plan, cfg, ins, config, instructions)
        /\ Sensible(host, r, plan)
        /\ Sound(host, cfg, ins, plan.record, installed, Gone)
    BY <1>0, FlightFacts, FlightFiles
  <1>2. /\ plan.op = "connect" /\ record = plan.updated
        /\ Found(plan, command[r].changed, command[r].before, config, instructions[r], record)
        /\ Compared(host, plan, command[r].before) /\ Pending(plan, command[r].changed) = {}
    BY <1>0, <1>1, FlightFacts DEF InFlight
  <1>3. \A c \in DOMAIN plan.configs : Changes(plan.configs[c]) => c \in command[r].changed
    <2> DEFINE changed == command[r].changed
    <2> HIDE DEF plan, changed
    <2>1. plan \in Plans /\ Pending(plan, changed) = {}
      BY <1>1, <1>2 DEF changed
    <2> QED
      BY <2>1, PendingFacts DEF changed
  <1>4. DOMAIN plan.configs \subseteq Configs /\ plan.updated \in Records
    BY <1>1, PlanTypes
  <1>5. /\ \A c \in DOMAIN plan.configs : config[c] = plan.configs[c].to
        /\ \A c \in Configs \ DOMAIN plan.configs : config[c] = cfg[c]
    BY <1>2, <1>3, <1>4 DEF Found, Compared, Changes
  <1>6. UNCHANGED <<host, descriptor, config, instructions, record, interrupted, strays,
                    edits, upgrades>>
    BY DEF Verify, files
  <1>7. CASE valid /\ UNCHANGED faults /\ command' = [command EXCEPT ![r] = Idle] /\ Report(r, plan)
    <2>1. /\ installed' = [installed EXCEPT ![r] = plan.updated.workspaces[r].connections]
          /\ installed \in [Repository -> SUBSET Keys] /\ config \in ConfigFiles
          /\ host \in {"codex", "antigravity"}
      BY <1>1, <1>2, <1>7 DEF Report, ConnectorsType
    <2>2. installed' \in [Repository -> SUBSET Keys]
      BY <1>4, <2>1, ProvenTypes
    <2> HIDE DEF plan, cfg, ins
    <2>3. VerifiedIn(host, config, instructions, plan.updated, r)
      BY <1>2, <1>7
    <2>4. Sound(host, config, instructions, plan.updated, installed', Gone)
      BY <1>1, <1>2, <1>5, <2>1, <2>3, ConnectDone
    <2>5. SoundNow'
      BY <1>2, <1>6, <2>4 DEF SoundNow, Gone
    <2>6. command' \in [Repository -> Commands]
      BY <1>1, <1>7, FirstTypes, CommandStep
    <2>7. ConnectorsType'
      BY <1>1, <1>6, <1>7, <2>2, <2>6 DEF ConnectorsType
    <2> QED
      BY <1>0, <1>7, <2>5, <2>7, Ended
  <1>8. CASE UNCHANGED faults \/ Fault
    <2>1. faults' \in Nat
      BY <1>1, <1>8 DEF Fault, ConnectorsType
    <2>2. CASE Goto(r, "undoing") /\ UNCHANGED installed
      BY <1>0, <1>6, <2>1, <2>2, GotoKeeps DEF files
    <2> QED
      BY <1>7, <2>2 DEF Verify
  <1> QED
    BY <1>8 DEF Verify

\* A command that is killed, or cannot undo what it has done
LEMMA AbandonKeeps ==
  ASSUME ConnectorsInv, NEW r \in Repository, AtWork(r), Abandon(r), faults' \in Nat,
         UNCHANGED <<host, descriptor, strays, edits, upgrades>>, NEW written,
         config' \in ConfigFiles, instructions' \in Instructions, record' \in Records,
         \A q \in Repository \ {r} : instructions'[q] = instructions[q],
         Found(command[r].plan, written, command[r].before, config', instructions'[r], record')
  PROVE  ConnectorsInv'
  <1> DEFINE plan == command[r].plan
             cfg == command[r].before[1]
             ins == [instructions EXCEPT ![r] = command[r].before[2]]
  <1>1. /\ ConnectorsType /\ InFlight(r) /\ plan \in Plans
        /\ ins[r] = command[r].before[2] /\ \A q \in Repository \ {r} : instructions[q] = ins[q]
        /\ Sensible(host, r, plan) /\ Foreseen(plan, cfg)
        /\ Sound(host, cfg, ins, plan.record, installed, Gone)
    BY FlightFacts, FlightFiles
  <1>2. /\ host \in {"codex", "antigravity"} /\ installed \in [Repository -> SUBSET Keys]
        /\ interrupted \subseteq Descriptor
    BY <1>1 DEF ConnectorsType
  <1>3. /\ interrupted' = interrupted \cup Descriptors(plan)
        /\ installed' = IF plan.op = "disconnect" THEN [installed EXCEPT ![r] = {}] ELSE installed
        /\ command' = [command EXCEPT ![r] = Idle]
    BY DEF Abandon
  <1>4. interrupted' \subseteq Descriptor /\ installed' \in [Repository -> SUBSET Keys]
    BY <1>2, <1>3 DEF Descriptors
  <1>9. /\ Partly(plan, cfg, config') /\ Between(r, plan, cfg, ins, config', instructions')
        /\ record' \in {plan.record, plan.updated}
    <2> HIDE DEF ins
    <2> QED
      BY <1>1 DEF Found, Partly, Between
  <1> HIDE DEF plan, cfg, ins
  <1>5. Sound(host, config', instructions', record', installed', Gone')
    <2>1. Forgotten(r, plan, installed, Gone, installed', Gone')
      BY <1>3 DEF Forgotten, Gone
    <2> QED
      BY <1>1, <1>2, <1>4, <1>9, <2>1, AbandonedSound
  <1>6. SoundNow'
    BY <1>5 DEF SoundNow
  <1>7. command' \in [Repository -> Commands]
    BY <1>1, <1>3, FirstTypes, CommandStep
  <1>8. ConnectorsType'
    BY <1>1, <1>4, <1>7 DEF ConnectorsType
  <1> QED
    BY <1>3, <1>6, <1>8, Ended

LEMMA CrashKeeps ==
  ASSUME ConnectorsInv, NEW r \in Repository, Crash(r)
  PROVE  ConnectorsInv'
  <1>1. AtWork(r)
    BY DEF Crash, AtWork
  <1>2. /\ InFlight(r) /\ ConnectorsType /\ faults' \in Nat
        /\ UNCHANGED <<host, descriptor, files, strays, edits, upgrades>> /\ Abandon(r)
    BY <1>1, FlightFacts DEF Crash, Fault, ConnectorsType
  <1>3. Found(command[r].plan, command[r].changed \cup command[r].stray, command[r].before,
              config', instructions'[r], record')
    BY <1>2 DEF InFlight, files
  <1>4. config' \in ConfigFiles /\ instructions' \in Instructions /\ record' \in Records
    BY <1>2 DEF files, ConnectorsType
  <1> QED
    BY <1>1, <1>2, <1>3, <1>4, AbandonKeeps DEF files

\* With nothing left to undo, the files are those the command has found, but for a creation
\* that was reported as failed.
LEMMA NothingChanged ==
  ASSUME ConnectorsInv, NEW r \in Repository, AtWork(r), command[r].changed = {}
  PROVE  /\ \A c \in Configs :
               IF c \in command[r].stray THEN config[c] = command[r].plan.configs[c].to
               ELSE config[c] = command[r].before[1][c]
         /\ IF "instructions" \in command[r].stray
            THEN instructions[r] = command[r].plan.instruction.to
            ELSE instructions[r] = command[r].before[2]
         /\ record = command[r].before[3] /\ SoundNow
  <1> DEFINE plan == command[r].plan
             stray == command[r].stray
             before == command[r].before
             cfg == before[1]
             ins == [instructions EXCEPT ![r] = before[2]]
  <1>1. /\ ConnectorsType /\ Left(command[r], strays) /\ before[3] = plan.record
        /\ plan \in Plans /\ ins[r] = before[2]
        /\ \A q \in Repository \ {r} : instructions[q] = ins[q]
        /\ Between(r, plan, cfg, ins, config, instructions) /\ Sensible(host, r, plan)
        /\ Sound(host, cfg, ins, plan.record, installed, Gone)
    BY FlightFacts, FlightFiles DEF InFlight
  <1>2. Found(plan, stray, before, config, instructions[r], record)
    <2>1. Found(plan, command[r].changed \cup stray, before, config, instructions[r], record)
      BY FlightFacts DEF InFlight
    <2>2. command[r].changed = {}
      OBVIOUS
    <2> HIDE DEF plan, stray, before
    <2> QED
      BY <2>1, <2>2
  <1>3. /\ "record" \notin stray /\ \A x \in stray : ~EditOf(plan, x).from.present
        /\ \A c \in stray \cap Configs : <<c, plan.configs[c].to.managed>> \in strays
    BY <1>1 DEF Left
  <1>4. /\ host \in {"codex", "antigravity"} /\ installed \in [Repository -> SUBSET Keys]
        /\ plan.record \in Records
    BY <1>1, PlanTypes DEF ConnectorsType
  <1> HIDE DEF plan, stray, before, cfg, ins
  <1>5. \A c \in Configs : \/ config[c] = cfg[c]
                           \/ ~cfg[c].present /\ <<c, config[c].managed>> \in strays
    <2> SUFFICES ASSUME NEW c \in Configs, config[c] # cfg[c]
                 PROVE  ~cfg[c].present /\ <<c, config[c].managed>> \in strays
      OBVIOUS
    <2>1. /\ c \in stray /\ cfg[c] = plan.configs[c].from /\ config[c] = plan.configs[c].to
      BY <1>2 DEF Found, cfg
    <2> QED
      BY <1>3, <2>1 DEF EditOf
  <1>6. instructions[r] = ins[r] \/ ~ins[r].present
    BY <1>1, <1>2, <1>3, KeyFacts DEF Found, EditOf
  <1>7. Tidy(host, config, instructions)
    <2>1. Tidy(host, cfg, ins)
      BY <1>1 DEF Sound
    <2> QED
      BY <1>1, <1>4, <2>1, TidyKept
  <1>8. Sound(host, config, instructions, plan.record, installed, Gone)
    <2> DEFINE gone == Gone
    <2>1. gone[2] = strays
      BY DEF Gone
    <2>2. Sound(host, cfg, ins, plan.record, installed, gone)
      BY <1>1
    <2> HIDE DEF gone
    <2>3. \A c \in Configs : \/ config[c] = cfg[c]
                             \/ ~cfg[c].present /\ <<c, config[c].managed>> \in gone[2]
      BY <1>5, <2>1
    <2>4. \A q \in Repository \ {r} : instructions[q] = ins[q]
      BY <1>1
    <2>5. Sound(host, config, instructions, plan.record, installed, gone)
      BY <1>4, <1>6, <1>7, <2>2, <2>3, <2>4, StraySound
    <2> QED
      BY <2>5 DEF gone
  <1>9. record = plan.record
    BY <1>2, <1>3 DEF Found
  <1> QED
    BY <1>1, <1>2, <1>3, <1>8, <1>9 DEF Found, SoundNow, plan, stray, before

\* A change that is put back
LEMMA UndoFound ==
  ASSUME ConnectorsInv, NEW r \in Repository, AtWork(r), NEW x \in command[r].changed,
         Put(r, x, EditOf(command[r].plan, x).from, command[r].before[3])
  PROVE  /\ config' \in ConfigFiles /\ instructions' \in Instructions /\ record' \in Records
         /\ \A q \in Repository \ {r} : instructions'[q] = instructions[q]
         /\ Found(command[r].plan, (command[r].changed \ {x}) \cup command[r].stray,
                  command[r].before, config', instructions'[r], record')
  <1> DEFINE plan == command[r].plan
             changed == command[r].changed \cup command[r].stray
             before == command[r].before
  <1>0. /\ plan \in Plans /\ ConnectorsType /\ before[3] = plan.record
        /\ changed \in SUBSET Targets
        /\ Found(plan, changed, before, config, instructions[r], record)
    BY FlightFacts DEF InFlight
  <1>8. x \in changed /\ (command[r].changed \ {x}) \cup command[r].stray = changed \ {x}
    BY FlightFacts DEF InFlight, Left
  <1>1. x \in DOMAIN plan.configs \/ x = "instructions" \/ x = "record"
    BY <1>0, <1>8 DEF Found, Targets
  <1>2. /\ EditOf(plan, x).from \in FileRecords /\ plan.record \in Records
        /\ Put(r, x, EditOf(plan, x).from, plan.record)
    BY <1>0, <1>1, EditTypes, PlanTypes
  <1> DEFINE edit == EditOf(plan, x).from
  <1>3. /\ x \in Configs => edit = plan.configs[x].from
        /\ x = "instructions" => edit = plan.instruction.from
    BY KeyFacts DEF EditOf
  <1> HIDE DEF edit
  <1>4. /\ config' \in ConfigFiles /\ instructions' \in Instructions /\ record' \in Records
        /\ \A c \in Configs : config'[c] = IF x = c THEN edit ELSE config[c]
        /\ \A q \in Repository : instructions'[q] =
              IF x = "instructions" /\ q = r THEN edit ELSE instructions[q]
        /\ record' = IF x = "record" THEN plan.record ELSE record
    <2>1. Put(r, x, edit, plan.record) /\ edit \in FileRecords
      BY <1>2 DEF edit
    <2> QED
      BY <1>0, <1>2, <2>1, PutFiles
  <1>5. x \in changed
    BY <1>8
  <1> HIDE DEF plan, changed, before
  <1>6. Found(plan, changed \ {x}, before, config', instructions'[r], record')
    BY <1>0, <1>3, <1>4, <1>5, KeyFacts DEF Found
  <1>7. \A q \in Repository \ {r} : instructions'[q] = instructions[q]
    BY <1>4
  <1> QED
    BY <1>4, <1>6, <1>7, <1>8 DEF plan, before

LEMMA UndoKeeps ==
  ASSUME ConnectorsInv, NEW r \in Repository, NEW first, Undo(r, first),
         command[r].changed # {} => first \in command[r].changed
  PROVE  ConnectorsInv'
  <1> DEFINE plan == command[r].plan
             left == command[r].changed
  <1>0. AtWork(r) /\ command[r].pc = "undoing"
    BY DEF Undo, AtWork
  <1>1. /\ ConnectorsType /\ InFlight(r) /\ command[r] \in Commands /\ left \in SUBSET Targets
        /\ faults \in Nat
    BY <1>0, FlightFacts DEF ConnectorsType
  <1>2. UNCHANGED <<host, descriptor, strays, edits, upgrades>>
    BY DEF Undo
  <1>3. CASE left = {} /\ command' = [command EXCEPT ![r] = Idle]
             /\ UNCHANGED <<files, faults, installed, interrupted>>
    <2>1. SoundNow'
      BY <1>0, <1>2, <1>3, NothingChanged DEF SoundNow, Gone, files
    <2>2. command' \in [Repository -> Commands]
      BY <1>1, <1>3, FirstTypes, CommandStep
    <2>3. ConnectorsType'
      BY <1>1, <1>2, <1>3, <2>2 DEF ConnectorsType, files
    <2> QED
      BY <1>0, <1>3, <2>1, <2>3, Ended
  <1>4. CASE /\ left # {} /\ UNCHANGED <<faults, installed, interrupted>>
             /\ Put(r, first, EditOf(plan, first).from, command[r].before[3])
             /\ command' = [command EXCEPT ![r].changed = left \ {first}]
    <2> DEFINE next == [command[r] EXCEPT !.changed = left \ {first}]
    <2>1. /\ next \in Commands /\ next.pc = "undoing" /\ next.plan = plan
          /\ next.changed = left \ {first} /\ next.before = command[r].before
          /\ next.stray = command[r].stray /\ command' = [command EXCEPT ![r] = next]
      <3>1. left \ {first} \in SUBSET Targets
        BY <1>1
      <3> HIDE DEF left
      <3> QED
        BY <1>0, <1>1, <1>4, <3>1, CommandFields
    <2>2. /\ config' \in ConfigFiles /\ instructions' \in Instructions /\ record' \in Records
          /\ \A q \in Repository \ {r} : instructions'[q] = instructions[q]
          /\ Found(plan, (left \ {first}) \cup command[r].stray, command[r].before,
                   config', instructions'[r], record')
      BY <1>0, <1>4, UndoFound
    <2>4. Left(next, strays')
      BY <1>0, <1>1, <1>2, <2>1 DEF InFlight, Left
    <2> HIDE DEF next, plan, left
    <2>3. ConnectorsType'
      BY <1>1, <1>2, <1>4, <2>1, <2>2, CommandStep DEF ConnectorsType
    <2> QED
      BY <1>0, <1>2, <1>4, <2>1, <2>2, <2>3, <2>4, UnderWay DEF plan
  <1>5. CASE /\ left # {} /\ Fault /\ Abandon(r)
             /\ \/ UNCHANGED files
                \/ Put(r, first, EditOf(plan, first).from, command[r].before[3])
    <2>1. faults' \in Nat
      BY <1>1, <1>5 DEF Fault
    <2>2. CASE UNCHANGED files
      <3>1. Found(plan, left \cup command[r].stray, command[r].before,
                  config', instructions'[r], record')
        BY <1>1, <2>2 DEF InFlight, files
      <3>2. config' \in ConfigFiles /\ instructions' \in Instructions /\ record' \in Records
        BY <1>1, <2>2 DEF files, ConnectorsType
      <3> QED
        BY <1>0, <1>2, <1>5, <2>1, <2>2, <3>1, <3>2, AbandonKeeps DEF files
    <2>3. CASE Put(r, first, EditOf(plan, first).from, command[r].before[3])
      <3>1. /\ config' \in ConfigFiles /\ instructions' \in Instructions /\ record' \in Records
            /\ \A q \in Repository \ {r} : instructions'[q] = instructions[q]
            /\ Found(plan, (left \ {first}) \cup command[r].stray, command[r].before,
                     config', instructions'[r], record')
        BY <1>0, <1>5, <2>3, UndoFound
      <3> QED
        BY <1>0, <1>2, <1>5, <2>1, <3>1, AbandonKeeps
    <2> QED
      BY <1>5, <2>2, <2>3
  <1> QED
    BY <1>3, <1>4, <1>5 DEF Undo

----------------------------------------------------------------------------
(* The user *)

\* The files are as sound as they were if an entry has at most been taken from them, and
\* whoever had it is no longer counted on.
LEMMA UserSound ==
  ASSUME NEW h, NEW cfg, NEW ins, NEW cfg2, NEW ins2, NEW rec,
         NEW reported, NEW reported2, NEW gone,
         Sound(h, cfg, ins, rec, reported, gone), Tidy(h, cfg2, ins2),
         \A c \in Configs : cfg2[c].managed \in Descriptor => cfg2[c].managed = cfg[c].managed,
         \A q \in Repository : \/ reported2[q] = {}
                               \/ /\ reported2[q] = reported[q]
                                  /\ \A c \in Configs : cfg2[c].managed = cfg[c].managed
                                  /\ ins2[q].managed = ins[q].managed,
         \A q \in Repository : reported[q] \subseteq Keys
  PROVE  Sound(h, cfg2, ins2, rec, reported2, gone)
  <1>1. Owned(cfg2, rec, gone)
    BY DEF Sound, Owned, Counted
  <1>2. Depended(cfg2, rec, reported2)
    BY KeyFacts DEF Sound, Depended
  <1>3. ASSUME gone[1] = {}, NEW q \in Repository, reported2[q] # {}
        PROVE  VerifiedIn(h, cfg2, ins2, rec, q)
    <2>1. /\ reported[q] # {} /\ ins2[q].managed = ins[q].managed
          /\ \A c \in Configs : cfg2[c].managed = cfg[c].managed
      BY <1>3
    <2>2. VerifiedIn(h, cfg, ins, rec, q)
      BY <1>3, <2>1 DEF Sound
    <2> QED
      BY <2>1, <2>2, KeyFacts DEF VerifiedIn
  <1> QED
    BY <1>1, <1>2, <1>3 DEF Sound

\* What the user makes of a file: the user writes no entry of the connector.
LEMMA ReworkedFacts ==
  ASSUME NEW file \in FileRecords, file.present \/ file = Absent, edits \in Nat,
         NEW f \in ReworkedConfig(file) \cup ReworkedRule(file)
  PROVE  /\ f \in FileRecords
         /\ f.present \/ f = Absent
         /\ f.managed \in Descriptor => f.managed = file.managed
         /\ f \in ReworkedRule(file) => f.other = 0
  <1>0. /\ Absent.managed = "none" /\ Absent.other = 0 /\ Absent \in FileRecords
        /\ edits + 1 \in Nat
    BY FirstTypes DEF Absent
  <1>1. /\ "edited" \in Managed /\ "user" \in Managed
        /\ {"edited", "user", "none"} \cap Descriptor = {}
    BY Fingerprints DEF Managed
  <1> DEFINE Fine(g) == /\ g \in FileRecords
                        /\ g.present \/ g = Absent
                        /\ g.managed \in Descriptor => g.managed = file.managed
  <1>3. ASSUME f = [file EXCEPT !.present = TRUE, !.other = edits + 1] PROVE Fine(f)
    <2>1. f \in FileRecords
      BY <1>0, <1>3 DEF FileRecords
    <2>2. f.present /\ f.managed = file.managed
      BY <1>3 DEF FileRecords
    <2> QED
      BY <2>1, <2>2
  <1>4. ASSUME file.managed # "none", f \in {With(file, "edited"), Without(file), Absent}
        PROVE  Fine(f)
    <2>1. CASE f = With(file, "edited")
      BY <1>1, <2>1, FileShapes
    <2>2. CASE f = Without(file)
      <3>1. file.present
        BY <1>0, <1>4
      <3>2. Without(file) \in FileRecords /\ Without(file).present /\ Without(file).managed = "none"
        BY <1>1, <3>1, FileShapes
      <3> QED
        BY <1>1, <2>2, <3>2
    <2>3. CASE f = Absent
      BY <1>0, <1>1, <2>3
    <2> QED
      BY <1>4, <2>1, <2>2, <2>3
  <1>5. ASSUME f = With(file, "user") PROVE Fine(f)
    BY <1>1, <1>5, FileShapes
  <1>6. ASSUME f \in {With(Absent, "edited"), Absent}
        PROVE  Fine(f) /\ f.other = 0
    <2>1. CASE f = With(Absent, "edited")
      <3>1. /\ With(Absent, "edited") \in FileRecords /\ With(Absent, "edited").present
            /\ With(Absent, "edited").managed = "edited" /\ With(Absent, "edited").other = 0
        BY <1>0, <1>1, FileShapes
      <3> QED
        BY <1>1, <2>1, <3>1
    <2>2. CASE f = Absent
      BY <1>0, <1>1, <2>2
    <2> QED
      BY <1>6, <2>1, <2>2
  <1>7. f \in ReworkedRule(file) => f \in {With(Absent, "edited"), Absent}
    BY DEF ReworkedRule
  <1>8. f \in ReworkedConfig(file) =>
          \/ f = [file EXCEPT !.present = TRUE, !.other = edits + 1]
          \/ file.managed # "none" /\ f \in {With(file, "edited"), Without(file), Absent}
          \/ f = With(file, "user")
    BY DEF ReworkedConfig, Reworked
  <1>9. Fine(f)
    BY <1>3, <1>4, <1>5, <1>6, <1>7, <1>8
  <1> QED
    BY <1>6, <1>7, <1>9

\* What an edit of the user leaves as it was
UserLeaves(cfg, ins, cfg2, ins2, reported, reported2) ==
    /\ \A c \in Configs : cfg2[c].managed \in Descriptor => cfg2[c].managed = cfg[c].managed
    /\ \A q \in Repository : \/ reported2[q] = {}
                             \/ /\ reported2[q] = reported[q]
                                /\ \A c \in Configs : cfg2[c].managed = cfg[c].managed
                                /\ ins2[q].managed = ins[q].managed

LEMMA UserKeeps ==
  ASSUME ConnectorsInv, UserEdit
  PROVE  ConnectorsInv'
  <1>0. /\ ConnectorsType /\ edits \in Nat /\ edits' \in Nat /\ \A r \in Repository : ~AtWork(r)
        /\ config \in ConfigFiles /\ instructions \in Instructions
        /\ host \in {"codex", "antigravity"}
        /\ UNCHANGED <<host, descriptor, record, command, interrupted, strays, faults, upgrades>>
        /\ installed \in [Repository -> SUBSET Keys]
    BY DEF ConnectorsInv, ConnectorsType, UserEdit, AtRest, AtWork
  <1>1. SoundNow /\ Tidy(host, config, instructions)
    BY <1>0 DEF ConnectorsInv, SoundNow, Sound
  <1>2. /\ \A c \in Configs : config[c] \in FileRecords /\ (config[c].present \/ config[c] = Absent)
        /\ \A r \in Repository : /\ instructions[r] \in FileRecords
                                 /\ (instructions[r].present \/ instructions[r] = Absent)
    BY <1>0, <1>1 DEF ConfigFiles, Instructions, Tidy
  <1> DEFINE goal == /\ config' \in ConfigFiles /\ instructions' \in Instructions
                     /\ installed' \in [Repository -> SUBSET Keys]
                     /\ Tidy(host, config', instructions')
                     /\ UserLeaves(config, instructions, config', instructions', installed, installed')
  <1>3. ASSUME NEW c \in Configs, NEW f \in ReworkedConfig(config[c]),
               (c = Toml) = (host = "codex"), config' = [config EXCEPT ![c] = f],
               installed' = IF f.managed = config[c].managed THEN installed
                            ELSE [r \in Repository |-> {}],
               UNCHANGED instructions
        PROVE  goal
    <2>1. /\ f \in FileRecords
          /\ f.present \/ f = Absent
          /\ f.managed \in Descriptor => f.managed = config[c].managed
      BY <1>0, <1>2, <1>3, ReworkedFacts
    <2>2. /\ config' \in ConfigFiles /\ config'[c] = f
          /\ \A d \in Configs \ {c} : config'[d] = config[d]
      BY <1>0, <1>3, <2>1 DEF ConfigFiles
    <2>3. Tidy(host, config', instructions')
      BY <1>1, <1>3, <2>1, <2>2 DEF Tidy
    <2>4. \A d \in Configs : config'[d].managed \in Descriptor => config'[d].managed = config[d].managed
      BY <2>1, <2>2
    <2>5. CASE f.managed = config[c].managed
      <3>1. \A d \in Configs : config'[d].managed = config[d].managed
        BY <2>2, <2>5
      <3> QED
        BY <1>0, <1>3, <2>2, <2>3, <2>4, <2>5, <3>1 DEF UserLeaves
    <2>6. CASE f.managed # config[c].managed
      BY <1>0, <1>3, <2>2, <2>3, <2>4, <2>6 DEF UserLeaves
    <2> QED
      BY <2>5, <2>6
  <1>4. ASSUME NEW r \in Repository,
               NEW f \in IF host = "codex" THEN Reworked(instructions[r])
                         ELSE ReworkedRule(instructions[r]),
               instructions' = [instructions EXCEPT ![r] = f],
               installed' = IF f.managed = instructions[r].managed THEN installed
                            ELSE [installed EXCEPT ![r] = {}],
               UNCHANGED config
        PROVE  goal
    <2>1. /\ f \in FileRecords
          /\ f.present \/ f = Absent
          /\ host = "antigravity" => f.other = 0
      <3>1. f \in ReworkedConfig(instructions[r]) \cup ReworkedRule(instructions[r])
        BY <1>4 DEF ReworkedConfig
      <3>2. host = "antigravity" => f \in ReworkedRule(instructions[r])
        BY <1>4
      <3> QED
        BY <1>0, <1>2, <3>1, <3>2, ReworkedFacts
    <2>2. /\ instructions' \in Instructions /\ instructions'[r] = f
          /\ \A q \in Repository \ {r} : instructions'[q] = instructions[q]
      BY <1>0, <1>4, <2>1 DEF Instructions
    <2>3. Tidy(host, config', instructions')
      BY <1>1, <1>4, <2>1, <2>2 DEF Tidy
    <2>4. CASE f.managed = instructions[r].managed
      <3>1. \A q \in Repository : instructions'[q].managed = instructions[q].managed
        BY <2>2, <2>4
      <3> QED
        BY <1>0, <1>4, <2>2, <2>3, <2>4, <3>1 DEF UserLeaves
    <2>5. CASE f.managed # instructions[r].managed
      <3>1. /\ installed' \in [Repository -> SUBSET Keys] /\ installed'[r] = {}
            /\ \A q \in Repository \ {r} : installed'[q] = installed[q]
        BY <1>0, <1>4, <2>5
      <3> QED
        BY <1>0, <1>4, <2>2, <2>3, <3>1 DEF UserLeaves
    <2> QED
      BY <2>4, <2>5
  <1>5. goal
    <2>1. CASE \E c \in Configs : \E f \in ReworkedConfig(config[c]) :
             /\ (c = Toml) = (host = "codex")
             /\ config' = [config EXCEPT ![c] = f]
             /\ installed' = IF f.managed = config[c].managed THEN installed
                             ELSE [r \in Repository |-> {}]
             /\ UNCHANGED instructions
      <3> HIDE DEF goal
      <3> QED
        BY <2>1, <1>3
    <2>2. CASE \E r \in Repository : \E f \in IF host = "codex" THEN Reworked(instructions[r])
                                         ELSE ReworkedRule(instructions[r]) :
             /\ instructions' = [instructions EXCEPT ![r] = f]
             /\ installed' = IF f.managed = instructions[r].managed THEN installed
                             ELSE [installed EXCEPT ![r] = {}]
             /\ UNCHANGED config
      <3> HIDE DEF goal
      <3> QED
        BY <2>2, <1>4
    <2> HIDE DEF goal
    <2> QED
      BY <2>1, <2>2 DEF UserEdit, Toml
  <1>6. ConnectorsType'
    BY <1>0, <1>5 DEF ConnectorsType
  <1>7. SoundNow'
    <2>1. Sound(host, config, instructions, record, installed, Gone)
      BY <1>1 DEF SoundNow
    <2>2. \A q \in Repository : installed[q] \subseteq Keys
      BY <1>0
    <2>3. Sound(host, config', instructions', record, installed', Gone)
      BY <1>5, <2>1, <2>2, UserSound DEF UserLeaves
    <2> QED
      BY <1>0, <2>3 DEF SoundNow, Gone
  <1>8. ASSUME NEW r \in Repository, command'[r].pc = "planned" PROVE Planned(r)'
    <2>1. Planned(r) /\ command[r].plan \in Plans
      BY <1>0, <1>8, CommandTypes DEF ConnectorsInv
    <2>2. Foreseen(command[r].plan, config')
      BY <1>5, <2>1, PlanTypes DEF Planned, Foreseen, UserLeaves
    <2> QED
      BY <1>0, <2>1, <2>2 DEF Planned
  <1>9. Alone' /\ \A r \in Repository : ~AtWork(r)'
    BY <1>0 DEF ConnectorsInv, Alone, Running, AtWork
  <1> QED
    BY <1>6, <1>7, <1>8, <1>9 DEF ConnectorsInv

\* Another version of the program
LEMMA UpgradeKeeps ==
  ASSUME ConnectorsInv, Upgrade
  PROVE  ConnectorsInv'
  <1>1. /\ UNCHANGED <<host, config, instructions, record, command, installed,
                       interrupted, strays>>
        /\ ConnectorsType'
    BY DEF Upgrade, files, ConnectorsInv, ConnectorsType
  <1>2. \A r \in Repository : (AtWork(r)' <=> AtWork(r)) /\ (InFlight(r) => InFlight(r)')
                              /\ (Planned(r) => Planned(r)')
    BY <1>1 DEF AtWork, InFlight, Planned, Gone
  <1>3. Alone' /\ (SoundNow => SoundNow')
    BY <1>1 DEF ConnectorsInv, Alone, Running, SoundNow, Gone
  <1> QED
    BY <1>1, <1>2, <1>3 DEF ConnectorsInv

----------------------------------------------------------------------------
(* The records of the plans *)

LEMMA WorkspaceTypes ==
  ASSUME NEW old \in Records, NEW r \in Repository,
         NEW connections \in SUBSET Keys, NEW fingerprint \in {"none", "current"}
  PROVE  /\ [old.workspaces EXCEPT ![r].connections = connections, ![r].fingerprint = fingerprint]
               \in [Repository -> Workspaces]
         /\ \A w \in Workspaces : [old.workspaces EXCEPT ![r] = w] \in [Repository -> Workspaces]
         /\ NoWorkspace \in Workspaces
         /\ [old.workspaces[r] EXCEPT !.connections = connections] \in Workspaces
  <1>1. old.workspaces \in [Repository -> Workspaces]
    BY DEF Records
  <1>2. old.workspaces[r] \in Workspaces
    BY <1>1
  <1>3. /\ [old.workspaces[r] EXCEPT !.connections = connections, !.fingerprint = fingerprint]
             \in Workspaces
        /\ [old.workspaces[r] EXCEPT !.connections = connections] \in Workspaces
        /\ NoWorkspace \in Workspaces
    BY <1>2 DEF Workspaces, NoWorkspace
  <1> QED
    BY <1>1, <1>2, <1>3

\* The record of a connect, whichever surfaces the host's connector refreshes
Merged(old, r, keys, d, surfaces) ==
    [surfaces |-> surfaces,
     workspaces |-> [old.workspaces EXCEPT ![r].connections = @ \cup keys,
                                           ![r].fingerprint = "current"],
     descriptor |-> d]

Mergeable(h, old, keys, d, surfaces) ==
    /\ old \in Records /\ Recorded(h, old) /\ d \in Descriptor
    /\ keys \in SUBSET Keys /\ \A k \in keys : (k[1] = Toml <=> h = "codex")
    /\ surfaces \in [Keys -> Descriptor \cup {"none"}]
    /\ \A k \in keys : surfaces[k] = d
    /\ \A k \in Keys \ keys :
          surfaces[k] = old.surfaces[k] \/ (old.surfaces[k] # "none" /\ surfaces[k] = d)

Merges(h, r, old, surfaces, new) ==
    /\ new \in Records /\ Recorded(h, new) /\ new.surfaces = surfaces
    /\ old.workspaces[r].connections \subseteq new.workspaces[r].connections
    /\ \A q \in Repository \ {r} : new.workspaces[q] = old.workspaces[q]

LEMMA MergedRecord ==
  ASSUME NEW h, NEW old, NEW r \in Repository, NEW keys, NEW d, NEW surfaces,
         Mergeable(h, old, keys, d, surfaces)
  PROVE  Merges(h, r, old, surfaces, Merged(old, r, keys, d, surfaces))
  <1> DEFINE new == Merged(old, r, keys, d, surfaces)
  <1> USE DEF Mergeable
  <1> DEFINE connections == old.workspaces[r].connections \cup keys
             workspaces == [old.workspaces EXCEPT ![r].connections = connections,
                                                  ![r].fingerprint = "current"]
  <1>1. /\ old.workspaces \in [Repository -> Workspaces] /\ connections \in SUBSET Keys
        /\ d # "none"
    BY ProvenTypes, Fingerprints DEF Records
  <1>2. /\ new.workspaces = workspaces /\ new.surfaces = surfaces
        /\ new = [surfaces |-> surfaces, workspaces |-> workspaces, descriptor |-> d]
    BY <1>1 DEF Workspaces, Merged
  <1> HIDE DEF new
  <1>3. workspaces \in [Repository -> Workspaces]
    <2> HIDE DEF connections
    <2> QED
      BY <1>1, WorkspaceTypes
  <1>4. /\ workspaces[r].connections = connections
        /\ \A q \in Repository \ {r} : workspaces[q] = old.workspaces[q]
    BY <1>1 DEF Workspaces
  <1>5. new \in Records
    <2> HIDE DEF workspaces
    <2> QED
      BY <1>2, <1>3 DEF Records
  <1>6. Recorded(h, new)
    <2>1. \A k \in Keys : old.surfaces[k] # "none" => surfaces[k] # "none"
      BY <1>1
    <2>2. \A k \in Keys : surfaces[k] # "none" => k \in keys \/ old.surfaces[k] # "none"
      OBVIOUS
    <2>3. \A q \in Repository : old.workspaces[q].connections \subseteq Keys
      BY ProvenTypes
    <2> HIDE DEF workspaces
    <2>4. ASSUME NEW q \in Repository, NEW k \in new.workspaces[q].connections
          PROVE  new.surfaces[k] # "none"
      <3>1. k \in keys \/ k \in old.workspaces[q].connections
        BY <1>2, <1>4, <2>4
      <3> QED
        BY <1>1, <1>2, <2>1, <2>3, <3>1 DEF Recorded
    <2>5. ASSUME NEW q \in Repository, new.workspaces[q].connections # {}
          PROVE  new.workspaces[q].fingerprint # "none"
      <3>1. CASE q = r
        BY <1>1, <1>2, <3>1 DEF workspaces, Workspaces
      <3>2. CASE q # r
        BY <1>2, <1>4, <2>5, <3>2 DEF Recorded
      <3> QED
        BY <3>1, <3>2
    <2> QED
      BY <1>2, <2>2, <2>4, <2>5 DEF Recorded
  <1> QED
    BY <1>2, <1>4, <1>5, <1>6 DEF new, Merges

\* The record of a disconnect: left is what the worktrees still use, new what is written.
Remains(h, r, remaining, left, new) ==
    /\ left \in Records /\ new \in Records /\ Recorded(h, new)
    /\ \A k \in Keys : new.surfaces[k] = left.surfaces[k]
    /\ \A c : Proven(new, c) = Proven(left, c)
    /\ \A k \in Keys : new.surfaces[k] # "none" => new.surfaces[k] = record.surfaces[k]
    /\ new.workspaces[r].connections # {} =>
          /\ remaining # {}
          /\ new.workspaces[r].fingerprint = record.workspaces[r].fingerprint
    /\ new.workspaces[r].connections \subseteq record.workspaces[r].connections
    /\ \A q \in Repository \ {r} : record.workspaces[q].connections # {} =>
          new.workspaces[q] = record.workspaces[q]

LEMMA RemainingRecord ==
  ASSUME NEW h, NEW r \in Repository, record \in Records, Recorded(h, record),
         NEW remaining \in SUBSET record.workspaces[r].connections,
         NEW left, left = CodexRemaining(r, remaining),
         NEW new, new = IF UsedKeys(left.workspaces) = {} THEN NoRecord ELSE left
  PROVE  Remains(h, r, remaining, left, new)
  <1> DEFINE workspace == IF remaining = {} THEN NoWorkspace
                          ELSE [record.workspaces[r] EXCEPT !.connections = remaining]
             workspaces == [record.workspaces EXCEPT ![r] = workspace]
             surfaces == [k \in Keys |-> IF k \in UsedKeys(workspaces) THEN record.surfaces[k]
                                         ELSE "none"]
  <1>1. /\ record.workspaces \in [Repository -> Workspaces] /\ remaining \in SUBSET Keys
        /\ \A k \in Keys : record.surfaces[k] \in Descriptor \cup {"none"}
        /\ \A q \in Repository : record.workspaces[q].connections \subseteq Keys
        /\ record.descriptor \in Descriptor \cup {"none"}
    BY ProvenTypes DEF Records
  <1>2. workspace \in Workspaces /\ workspace.connections = remaining
        /\ (remaining # {} => workspace.fingerprint = record.workspaces[r].fingerprint)
    <2>1. record.workspaces[r] \in Workspaces
      BY <1>1
    <2> QED
      BY <1>1, <2>1 DEF Workspaces, NoWorkspace
  <1>3. left.workspaces = workspaces /\ left.surfaces = surfaces
        /\ left = [surfaces |-> surfaces, workspaces |-> workspaces, descriptor |-> record.descriptor]
    BY DEF CodexRemaining, Records
  <1> HIDE DEF workspace
  <1>4. /\ workspaces \in [Repository -> Workspaces] /\ workspaces[r] = workspace
        /\ \A q \in Repository \ {r} : workspaces[q] = record.workspaces[q]
    BY <1>1, <1>2
  <1> HIDE DEF workspaces
  <1>5. /\ surfaces \in [Keys -> Descriptor \cup {"none"}]
        /\ \A k \in Keys : surfaces[k] = IF k \in UsedKeys(workspaces) THEN record.surfaces[k]
                                         ELSE "none"
    BY <1>1
  <1> HIDE DEF surfaces
  <1>6. left \in Records
    BY <1>1, <1>3, <1>4, <1>5 DEF Records
  <1>7. \A q \in Repository : \A k \in workspaces[q].connections :
           /\ k \in record.workspaces[q].connections /\ k \in Keys
           /\ k \in UsedKeys(workspaces)
    <2>1. \A q \in Repository : \A k \in workspaces[q].connections : k \in UsedKeys(workspaces)
      BY DEF UsedKeys
    <2> QED
      BY <1>1, <1>2, <1>4, <2>1
  <1>8. Recorded(h, left)
    <2>1. ASSUME NEW q \in Repository, workspaces[q].connections # {}
          PROVE  workspaces[q].fingerprint # "none"
      <3>1. CASE q = r
        BY <1>2, <1>4, <2>1, <3>1 DEF Recorded
      <3>2. CASE q # r
        BY <1>4, <2>1, <3>2 DEF Recorded
      <3> QED
        BY <3>1, <3>2
    <2> QED
      BY <1>3, <1>5, <1>7, <2>1 DEF Recorded
  <1>9. CASE UsedKeys(workspaces) # {}
    <2>1. new = left
      BY <1>3, <1>9
    <2> QED
      BY <1>2, <1>3, <1>4, <1>5, <1>6, <1>8, <2>1 DEF Remains
  <1>10. CASE UsedKeys(workspaces) = {}
    <2>1. new = NoRecord /\ \A k \in Keys : left.surfaces[k] = "none"
      BY <1>3, <1>5, <1>10
    <2>2. \A q \in Repository : workspaces[q].connections = {}
      BY <1>7, <1>10
    <2>3. /\ new \in Records /\ \A k \in Keys : new.surfaces[k] = "none"
          /\ \A q \in Repository : new.workspaces[q].connections = {}
      <3>1. new \in Records
        BY <2>1, FirstTypes
      <3>2. \A k \in Keys : NoRecord.surfaces[k] = "none"
        BY DEF NoRecord
      <3>3. \A q \in Repository : NoRecord.workspaces[q].connections = {}
        BY DEF NoRecord, NoWorkspace
      <3> QED
        BY <2>1, <3>1, <3>2, <3>3
    <2>4. Recorded(h, new)
      BY <2>3 DEF Recorded
    <2>5. \A q \in Repository \ {r} : record.workspaces[q].connections = {}
      BY <1>4, <2>2
    <2>6. \A c : Proven(new, c) = Proven(left, c)
      <3>1. \A c, f : f \notin Proven(new, c) /\ f \notin Proven(left, c)
        BY <1>6, <2>1, <2>3, ProvenTypes
      <3> QED
        BY <3>1
    <2> QED
      BY <1>6, <2>1, <2>3, <2>4, <2>5, <2>6 DEF Remains
  <1> QED
    BY <1>9, <1>10

----------------------------------------------------------------------------
(* What the connectors plan *)

\* What is known at a preview
LEMMA AtPreview ==
  ASSUME OneCommand, ConnectorsInv, Cardinality(Running) < MaxRunning
  PROVE  /\ ConnectorsType /\ record \in Records /\ descriptor \in Descriptor
         /\ Tidy(host, config, instructions) /\ Recorded(host, record)
         /\ \A c \in Configs : config[c] \in FileRecords
         /\ \A r \in Repository : instructions[r] \in FileRecords
         /\ \A c : Proven(record, c) \subseteq Descriptor
         /\ \A r \in Repository : /\ record.workspaces[r].connections \subseteq Keys
                                  /\ record.workspaces[r].fingerprint \in {"none", "current"}
  <1>1. \A r \in Repository : command[r].pc = "idle"
    BY NoneRuns
  <1>2. SoundNow /\ ConnectorsType
    BY <1>1 DEF ConnectorsInv, AtWork
  <1> QED
    BY <1>2, ProvenTypes DEF SoundNow, Sound, ConnectorsType, ConfigFiles, Instructions

\* A plan of the right type
LEMMA PlanShape ==
  ASSUME record \in Records, NEW op \in {"connect", "disconnect"}, NEW D \in SUBSET Configs,
         NEW configs \in [D -> Edits],
         NEW from \in FileRecords, NEW instruction \in FileRecords, NEW updated \in Records,
         NEW plan,
         plan = Plan(op, configs, Edit(from, instruction), updated)
  PROVE  /\ plan \in Plans /\ plan.op = op /\ plan.record = record /\ plan.updated = updated
         /\ plan.configs = configs /\ DOMAIN plan.configs = D
         /\ plan.instruction.from = from /\ plan.instruction.to = instruction
  <1>1. Edit(from, instruction) \in Edits
    BY DEF Edit, Edits
  <1> QED
    BY <1>1 DEF Plan, Plans, Edit


\* A preview of a plan that makes sense of the files it has read
Previews(r, plan) ==
    /\ Preview(r, plan) /\ Sensible(host, r, plan) /\ plan.record = record
    /\ \A c \in DOMAIN plan.configs : plan.configs[c].from = config[c]

LEMMA CodexConnectPlan ==
  ASSUME OneCommand, ConnectorsInv, NEW r \in Repository, PrepareCodexConnection(r)
  PROVE  \E p \in Plans : Previews(r, p)
  <1>1. PICK keys \in SelectCodexTarget :
          LET target == CodexTargets(r)
          IN  /\ host = "codex" /\ target.toml.ready /\ target.agents.ready
              /\ Preview(r, Plan("connect", [c \in {Toml} |-> Edit(config[c], target.toml.file)],
                                 Edit(instructions[r], target.agents.file),
                                 CodexMergeOwnership(r, keys, descriptor)))
    BY DEF PrepareCodexConnection
  <1> DEFINE toml == With(config[Toml], descriptor)
             agents == With(instructions[r], "current")
             configs == [c \in {Toml} |-> Edit(config[c], toml)]
             updated == CodexMergeOwnership(r, keys, descriptor)
             plan == Plan("connect", configs, Edit(instructions[r], agents), updated)
  <1>2. host = "codex" /\ Preview(r, plan)
    BY <1>1 DEF CodexTargets, CodexTomlEdit, CodexAgentsEdit, Outcome
  <1>3. /\ record \in Records /\ descriptor \in Descriptor /\ Recorded(host, record)
        /\ Tidy(host, config, instructions) /\ Toml \in Configs
        /\ config[Toml] \in FileRecords /\ instructions[r] \in FileRecords
        /\ Proven(record, Toml) \subseteq Descriptor
        /\ record.workspaces[r].fingerprint \in {"none", "current"}
    BY <1>2, AtPreview, KeyFacts DEF Preview
  <1>4. /\ config[Toml].managed \in {"none", "legacy"} \cup Descriptor
        /\ instructions[r].managed \in {"none", "current", "previous"}
    BY <1>1, <1>3 DEF CodexTargets, CodexTomlEdit, CodexAgentsEdit, Outcome, LegacyRegion
  <1>5. keys \in SUBSET Keys /\ keys # {} /\ \A k \in keys : k[1] = Toml
    <2>1. <<Toml, "cli">> \in CodexKeys /\ CodexKeys \in SUBSET Keys
      BY DEF CodexKeys, Keys, Toml
    <2>2. keys \in SUBSET CodexKeys /\ keys # {}
      BY <2>1 DEF SelectCodexTarget
    <2> QED
      BY <2>1, <2>2 DEF CodexKeys
  <1>6. /\ updated \in Records /\ Recorded(host, updated)
        /\ \A k \in Keys : updated.surfaces[k] =
              IF k \in keys \/ (k[1] = Toml /\ record.surfaces[k] # "none")
              THEN descriptor ELSE record.surfaces[k]
        /\ record.workspaces[r].connections \subseteq updated.workspaces[r].connections
        /\ \A q \in Repository \ {r} : updated.workspaces[q] = record.workspaces[q]
    <2> DEFINE surfaces == [k \in Keys |->
                   IF k \in keys \/ (k[1] = Toml /\ record.surfaces[k] # "none")
                   THEN descriptor ELSE record.surfaces[k]]
    <2>1. /\ surfaces \in [Keys -> Descriptor \cup {"none"}]
          /\ \A k \in keys : surfaces[k] = descriptor
          /\ \A k \in Keys \ keys : surfaces[k] = record.surfaces[k]
                                \/ (record.surfaces[k] # "none" /\ surfaces[k] = descriptor)
      BY <1>3, <1>5, ProvenTypes
    <2>2. updated = Merged(record, r, keys, descriptor, surfaces)
      BY DEF CodexMergeOwnership, Merged
    <2> HIDE DEF updated
    <2>3. \A k \in keys : (k[1] = Toml <=> host = "codex")
      BY <1>2, <1>5
    <2>4. /\ updated \in Records /\ Recorded(host, updated) /\ updated.surfaces = surfaces
          /\ record.workspaces[r].connections \subseteq updated.workspaces[r].connections
          /\ \A q \in Repository \ {r} : updated.workspaces[q] = record.workspaces[q]
      <3> HIDE DEF surfaces
      <3>1. Mergeable(host, record, keys, descriptor, surfaces)
        BY <1>3, <1>5, <2>1, <2>3 DEF Mergeable
      <3>2. Merges(host, r, record, surfaces, updated)
        BY <2>2, <3>1, MergedRecord
      <3> QED
        BY <3>2 DEF Merges
    <2> QED
      BY <2>4
  <1>7. /\ toml \in FileRecords /\ toml.present /\ toml.other = config[Toml].other
        /\ toml.managed = descriptor
        /\ agents \in FileRecords /\ agents.present /\ agents.other = instructions[r].other
        /\ agents.managed = "current"
    <2>1. descriptor \in Managed /\ "current" \in Managed
      BY <1>3 DEF Managed
    <2>2. /\ toml \in FileRecords /\ toml.present /\ toml.other = config[Toml].other
          /\ toml.managed = descriptor
      BY <1>3, <2>1, FileShapes
    <2>3. /\ agents \in FileRecords /\ agents.present /\ agents.other = instructions[r].other
          /\ agents.managed = "current"
      BY <1>3, <2>1, FileShapes
    <2> QED
      BY <2>2, <2>3
  <1>8. configs \in [{Toml} -> Edits]
    BY <1>3, <1>7 DEF Edit, Edits
  <1> HIDE DEF toml, agents, updated
  <1>9. /\ plan \in Plans /\ plan.op = "connect" /\ plan.record = record /\ plan.updated = updated
        /\ plan.configs = configs /\ DOMAIN plan.configs = {Toml}
        /\ plan.instruction.from = instructions[r] /\ plan.instruction.to = agents
    <2> HIDE DEF configs
    <2> QED
      BY <1>3, <1>6, <1>7, <1>8, PlanShape
  <1>10. plan.configs[Toml].from = config[Toml] /\ plan.configs[Toml].to = toml
    BY <1>9 DEF Edit
  <1> HIDE DEF plan, configs
  <1>11. Considerate(plan.configs[Toml]) /\ Considerate(plan.instruction)
    BY <1>3, <1>4, <1>7, <1>9, <1>10, Fingerprints DEF Considerate
  <1>12. Connects(host, r, plan)
    <2>1. descriptor \in Proven(updated, Toml)
      <3>1. PICK k \in keys : k \in Keys /\ k[1] = Toml
        BY <1>5
      <3>2. updated.surfaces[k] = descriptor /\ descriptor # "none"
        BY <1>3, <1>6, <3>1, Fingerprints
      <3> QED
        BY <1>6, <3>1, <3>2, ProvenTypes
    <2>2. \A k \in Keys : k[1] = Toml => updated.surfaces[k] \in {"none", descriptor}
      BY <1>6
    <2>3. \A k \in Keys : k[1] # Toml => updated.surfaces[k] = record.surfaces[k]
      BY <1>5, <1>6
    <2> QED
      BY <1>6, <1>7, <1>9, <1>10, <2>1, <2>2, <2>3 DEF Connects
  <1>13. Sensible(host, r, plan)
    BY <1>2, <1>6, <1>9, <1>11, <1>12 DEF Sensible
  <1> QED
    BY <1>2, <1>9, <1>10, <1>13 DEF Previews

\* A proven fingerprint is there to be chosen when there is one.
LEMMA ChosenProven ==
  ASSUME NEW rec \in Records, NEW c, Proven(rec, c) # {}
  PROVE  (CHOOSE f \in Proven(rec, c) : TRUE) \in Descriptor
  <1>1. \E f \in Proven(rec, c) : TRUE
    OBVIOUS
  <1>2. (CHOOSE f \in Proven(rec, c) : TRUE) \in Proven(rec, c)
    BY <1>1
  <1> QED
    BY <1>2, ProvenTypes

\* A file from which an entry is removed
LEMMA RemovedFile ==
  ASSUME NEW file \in FileRecords, file.present, NEW expected \in Managed \ {"user", "edited"},
         file.managed \in {"none", expected}
  PROVE  /\ Without(file) \in FileRecords /\ Without(file).managed = "none"
         /\ Considerate(Edit(file, Without(file)))
         /\ Without(file) # file => file.managed = expected
  <1>1. /\ Without(file) \in FileRecords /\ Without(file).present
        /\ Without(file).other = file.other /\ Without(file).managed = "none"
        /\ file.managed = "none" => Without(file) = file
    <2>1. "none" \in Managed
      BY DEF Managed
    <2> QED
      BY <2>1, FileShapes
  <1>2. {file.managed, Without(file).managed} \cap {"user", "edited"} = {}
    BY <1>1
  <1> QED
    BY <1>1, <1>2 DEF Considerate, Edit

LEMMA KeptFile ==
  ASSUME NEW file, file.present \/ file = Absent
  PROVE  Considerate(Edit(file, file)) /\ ~Changes(Edit(file, file))
  BY DEF Considerate, Changes, Edit

LEMMA CodexDisconnectPlan ==
  ASSUME OneCommand, ConnectorsInv, NEW r \in Repository, PrepareCodexDisconnect(r)
  PROVE  \E p \in Plans : Previews(r, p)
  <1>1. PICK selected \in {{k} : k \in CodexKeys} \cup {CodexKeys} :
          LET connections == record.workspaces[r].connections
              removals == CodexRemovals(r, connections \ selected)
          IN  /\ host = "codex"
              /\ removals.consistent /\ removals.toml.ready /\ removals.agents.ready
              /\ Preview(r, Plan("disconnect", [c \in {Toml} |-> Edit(config[c], removals.toml.file)],
                          Edit(instructions[r], removals.agents.file),
                          OrNone(CodexRemaining(r, connections \ selected))))
    BY DEF PrepareCodexDisconnect
  <1> DEFINE remaining == record.workspaces[r].connections \ selected
             left == CodexRemaining(r, remaining)
             updated == OrNone(left)
             last == Proven(record, Toml) # {} /\ Proven(left, Toml) = {}
             toml == CodexRemovals(r, remaining).toml.file
             agents == CodexRemovals(r, remaining).agents.file
             configs == [c \in {Toml} |-> Edit(config[c], toml)]
             plan == Plan("disconnect", configs, Edit(instructions[r], agents), updated)
  <1>2. /\ host = "codex" /\ Preview(r, plan)
        /\ CodexRemovals(r, remaining).toml.ready /\ CodexRemovals(r, remaining).agents.ready
    BY <1>1
  <1>3. /\ record \in Records /\ Recorded(host, record)
        /\ Tidy(host, config, instructions) /\ Toml \in Configs
        /\ config[Toml] \in FileRecords /\ instructions[r] \in FileRecords
        /\ record.workspaces[r].fingerprint \in {"none", "current"}
        /\ config[Toml].present \/ config[Toml] = Absent
        /\ instructions[r].present \/ instructions[r] = Absent
    BY <1>2, AtPreview, KeyFacts DEF Preview, Tidy
  <1>4. /\ left \in Records /\ updated \in Records /\ Recorded(host, updated)
        /\ \A c : Proven(updated, c) = Proven(left, c)
        /\ \A k \in Keys : updated.surfaces[k] # "none" => updated.surfaces[k] = record.surfaces[k]
        /\ updated.workspaces[r].connections # {} =>
              /\ remaining # {}
              /\ updated.workspaces[r].fingerprint = record.workspaces[r].fingerprint
        /\ updated.workspaces[r].connections \subseteq record.workspaces[r].connections
        /\ \A q \in Repository \ {r} : record.workspaces[q].connections # {} =>
              updated.workspaces[q] = record.workspaces[q]
    <2>1. remaining \in SUBSET record.workspaces[r].connections
      OBVIOUS
    <2>2. updated = IF UsedKeys(left.workspaces) = {} THEN NoRecord ELSE left
      BY DEF OrNone
    <2> HIDE DEF remaining, left, updated
    <2>3. left = CodexRemaining(r, remaining)
      BY DEF left
    <2>4. Remains(host, r, remaining, left, updated)
      BY <1>3, <2>1, <2>2, <2>3, RemainingRecord
    <2> QED
      BY <2>4 DEF Remains
  <1> DEFINE expected == CHOOSE f \in Proven(record, Toml) : TRUE
  <1>5. /\ toml = IF ~last \/ ~config[Toml].present THEN config[Toml] ELSE Without(config[Toml])
        /\ last /\ config[Toml].present => config[Toml].managed \in {"none", expected}
        /\ agents = IF remaining # {} \/ ~instructions[r].present THEN instructions[r]
                    ELSE Without(instructions[r])
        /\ remaining = {} /\ instructions[r].present =>
              instructions[r].managed \in {"none", record.workspaces[r].fingerprint}
    BY <1>2 DEF CodexRemovals, CodexTomlRemoval, CodexAgentsRemoval, Outcome
  <1> HIDE DEF remaining, left, updated, toml, agents, last, expected
  <1>6. /\ toml \in FileRecords /\ Considerate(Edit(config[Toml], toml))
        /\ last => toml.managed = "none"
        /\ toml # config[Toml] => last /\ config[Toml].managed \in Descriptor
    <2>1. CASE ~last \/ ~config[Toml].present
      BY <1>3, <1>5, <2>1, KeptFile DEF Absent
    <2>2. CASE last /\ config[Toml].present
      <3>1. expected \in Descriptor
        BY <1>3, <2>2, ChosenProven DEF last, expected
      <3>2. expected \in Managed \ {"user", "edited"}
        BY <3>1, Fingerprints DEF Managed
      <3> QED
        BY <1>3, <1>5, <2>2, <3>1, <3>2, RemovedFile
    <2> QED
      BY <2>1, <2>2
  <1>7. /\ agents \in FileRecords /\ Considerate(Edit(instructions[r], agents))
        /\ remaining # {} => agents = instructions[r]
    <2>1. CASE remaining # {} \/ ~instructions[r].present
      BY <1>3, <1>5, <2>1, KeptFile
    <2>2. CASE remaining = {} /\ instructions[r].present
      <3>1. record.workspaces[r].fingerprint \in Managed \ {"user", "edited"}
        BY <1>3 DEF Managed
      <3> QED
        BY <1>3, <1>5, <2>2, <3>1, RemovedFile
    <2> QED
      BY <2>1, <2>2
  <1>8. configs \in [{Toml} -> Edits]
    BY <1>3, <1>6 DEF Edit, Edits
  <1>9. /\ plan \in Plans /\ plan.op = "disconnect" /\ plan.record = record /\ plan.updated = updated
        /\ plan.configs = configs /\ DOMAIN plan.configs = {Toml}
        /\ plan.instruction = Edit(instructions[r], agents)
    <2>1. plan.instruction = Edit(instructions[r], agents)
      BY DEF Plan
    <2> HIDE DEF configs, plan
    <2>2. plan = Plan("disconnect", configs, Edit(instructions[r], agents), updated)
      BY DEF plan
    <2> QED
      BY <1>3, <1>4, <1>7, <1>8, <2>1, <2>2, PlanShape
  <1>10. plan.configs[Toml] = Edit(config[Toml], toml)
    BY <1>9
  <1> HIDE DEF plan, configs
  <1>11. Considerate(plan.configs[Toml]) /\ Considerate(plan.instruction)
    BY <1>6, <1>7, <1>9, <1>10
  <1>12. Disconnects(r, plan)
    <2>1. Changes(plan.configs[Toml]) => /\ last /\ plan.configs[Toml].from.managed \in Descriptor
                                         /\ plan.configs[Toml].to.managed = "none"
      BY <1>6, <1>10 DEF Changes, Edit
    <2>2. ASSUME NEW c \in Configs, Proven(updated, c) = {}, Proven(record, c) # {}
          PROVE  c = Toml /\ plan.configs[c].to.managed = "none"
      <3>1. PICK k \in Keys : k[1] = c /\ record.surfaces[k] # "none"
        BY <1>3, <2>2, ProvenTypes
      <3>2. c = Toml
        BY <1>2, <1>3, <3>1 DEF Recorded
      <3>3. last
        BY <1>4, <2>2, <3>2 DEF last
      <3> QED
        BY <1>6, <1>10, <3>2, <3>3 DEF Edit
    <2>3. ASSUME NEW k \in Keys, updated.surfaces[k] # "none"
          PROVE  /\ updated.surfaces[k] = record.surfaces[k]
                 /\ k[1] = Toml => ~Changes(plan.configs[Toml])
      <3>1. k[1] = Toml => Proven(left, Toml) # {}
        BY <1>4, <2>3, ProvenTypes
      <3> QED
        BY <1>4, <2>1, <2>3, <3>1 DEF last
    <2>4. updated.workspaces[r].connections # {} =>
            /\ ~Changes(plan.instruction)
            /\ updated.workspaces[r].fingerprint = record.workspaces[r].fingerprint
      BY <1>4, <1>7, <1>9 DEF Changes, Edit
    <2>5. /\ updated.workspaces[r].connections \subseteq record.workspaces[r].connections
          /\ \A q \in Repository \ {r} : record.workspaces[q].connections # {} =>
                updated.workspaces[q] = record.workspaces[q]
      BY <1>4
    <2> QED
      BY <1>9, <2>1, <2>2, <2>3, <2>4, <2>5 DEF Disconnects
  <1>13. Sensible(host, r, plan)
    BY <1>2, <1>4, <1>9, <1>11, <1>12 DEF Sensible
  <1> QED
    BY <1>2, <1>9, <1>10, <1>13 DEF Previews, Edit

\* Every request of the user that is not ambiguous selects a configuration file.
LEMMA SelectedKeys ==
  ASSUME NEW keys \in SelectAntigravityTargets
  PROVE  keys \in SUBSET AntigravityKeys /\ keys # {}
  <1> DEFINE Explicit(s) == {<<c, s>> : c \in SelectedForSurface(s)}
             auto == IF Present # {} THEN {k \in AntigravityKeys : k[1] \in Present}
                     ELSE Explicit("ide") \cup Explicit("cli")
             all == {k \in AntigravityKeys : k[1] \in
                    IF Cardinality(SelectedForSurface(k[2])) > 1 THEN Present \cup HostDirectories
                    ELSE SelectedForSurface(k[2])}
  <1>1. AntigravityKeys = {<<"central", "ide">>, <<"central", "cli">>, <<"transition", "cli">>}
    BY DEF AntigravityKeys, AntigravityConfigs, Keys
  <1>2. /\ Candidates("ide") = {"central"} /\ Candidates("cli") = {"central", "transition"}
    <2>1. /\ {q \in AntigravityKeys : q[2] = "ide"} = {<<"central", "ide">>}
          /\ {q \in AntigravityKeys : q[2] = "cli"} = {<<"central", "cli">>, <<"transition", "cli">>}
      BY <1>1
    <2>2. /\ {k[1] : k \in {<<"central", "ide">>}} = {"central"}
          /\ {k[1] : k \in {<<"central", "cli">>, <<"transition", "cli">>}}
                = {"central", "transition"}
      OBVIOUS
    <2> QED
      BY <2>1, <2>2 DEF Candidates
  <1>3. /\ SelectedForSurface("ide") = {"central"}
        /\ SelectedForSurface("cli") \subseteq {"central", "transition"}
    BY <1>2 DEF SelectedForSurface
  <1>4. Explicit("ide") \subseteq AntigravityKeys /\ Explicit("cli") \subseteq AntigravityKeys
    BY <1>1, <1>3
  <1>5. all \subseteq AntigravityKeys /\ all # {}
    <2>1. Cardinality({"central"}) = 1
      BY FS_Singleton
    <2>2. <<"central", "ide">> \in all
      BY <1>1, <1>3, <2>1
    <2> QED
      BY <2>2
  <1>6. keys = all \/ (keys \in {Explicit("ide"), Explicit("cli"), auto}
                       /\ Cardinality({k[1] : k \in keys}) = 1)
    BY DEF SelectAntigravityTargets
  <1>7. auto \subseteq AntigravityKeys
    BY <1>4
  <1>8. ASSUME keys = {} PROVE Cardinality({k[1] : k \in keys}) = 0
    <2>1. {k[1] : k \in keys} = {}
      BY <1>8
    <2> QED
      BY <2>1, FS_EmptySet
  <1> HIDE DEF Explicit, auto, all
  <1> QED
    BY <1>4, <1>5, <1>6, <1>7, <1>8

LEMMA AntigravityConnectPlan ==
  ASSUME OneCommand, ConnectorsInv, NEW r \in Repository, PrepareAntigravityConnection(r)
  PROVE  \E p \in Plans : Previews(r, p)
  <1>1. PICK keys \in SelectAntigravityTargets :
          LET target == AntigravityTargets(r, keys)
              written == DOMAIN target.configs
          IN  /\ host = "antigravity"
              /\ target.rule.ready /\ \A c \in written : target.configs[c].ready
              /\ Preview(r, Plan("connect",
                     [c \in written |-> Edit(config[c], target.configs[c].file)],
                     Edit(instructions[r], target.rule.file),
                     AntigravityMergeOwnership(r, keys, descriptor)))
    BY DEF PrepareAntigravityConnection
  <1> DEFINE written == {k[1] : k \in keys}
             entry == [c \in written |-> With(config[c], descriptor)]
             rule == With(instructions[r], "current")
             configs == [c \in written |-> Edit(config[c], entry[c])]
             updated == AntigravityMergeOwnership(r, keys, descriptor)
             plan == Plan("connect", configs, Edit(instructions[r], rule), updated)
  <1>2. /\ host = "antigravity"
        /\ \A c \in written : config[c].managed \in {"none", descriptor} \cup Proven(record, c)
        /\ \/ ~instructions[r].present
           \/ instructions[r].managed \in {"current", "previous"}
                \cup ({record.workspaces[r].fingerprint} \ {"none"})
    BY <1>1 DEF AntigravityTargets, AntigravityConfigEdit, AntigravityRule, Result
  <1>3. Preview(r, plan)
    <2>1. /\ DOMAIN AntigravityTargets(r, keys).configs = written
          /\ AntigravityTargets(r, keys).rule.file = rule
          /\ \A c \in written : AntigravityTargets(r, keys).configs[c].file = entry[c]
      BY DEF AntigravityTargets, AntigravityConfigEdit, AntigravityRule, Result
    <2>2. [c \in DOMAIN AntigravityTargets(r, keys).configs |->
              Edit(config[c], AntigravityTargets(r, keys).configs[c].file)] = configs
      BY <2>1
    <2> HIDE DEF configs, updated, rule
    <2> QED
      BY <1>1, <2>1, <2>2 DEF updated
  <1>4. /\ record \in Records /\ descriptor \in Descriptor /\ Recorded(host, record)
        /\ Tidy(host, config, instructions)
        /\ \A c \in Configs : config[c] \in FileRecords
        /\ instructions[r] \in FileRecords
        /\ \A c : Proven(record, c) \subseteq Descriptor
        /\ record.workspaces[r].fingerprint \in {"none", "current"}
    BY <1>3, AtPreview DEF Preview
  <1>5. /\ keys \in SUBSET Keys /\ keys # {} /\ \A k \in keys : k[1] \in AntigravityConfigs
        /\ written \in SUBSET AntigravityConfigs /\ AntigravityConfigs = Configs \ {Toml}
    BY SelectedKeys, KeyFacts DEF AntigravityKeys
  <1>6. /\ updated \in Records /\ Recorded(host, updated)
        /\ \A k \in Keys : updated.surfaces[k] = IF k \in keys THEN descriptor
                                                 ELSE record.surfaces[k]
        /\ record.workspaces[r].connections \subseteq updated.workspaces[r].connections
        /\ \A q \in Repository \ {r} : updated.workspaces[q] = record.workspaces[q]
    <2> DEFINE surfaces == [k \in Keys |-> IF k \in keys THEN descriptor ELSE record.surfaces[k]]
               m == Merged(record, r, keys, descriptor, surfaces)
    <2>1. /\ surfaces \in [Keys -> Descriptor \cup {"none"}]
          /\ \A k \in keys : surfaces[k] = descriptor
          /\ \A k \in Keys \ keys : surfaces[k] = record.surfaces[k]
      BY <1>4, <1>5, ProvenTypes
    <2>2. updated = m
      BY DEF AntigravityMergeOwnership, Merged
    <2>3. \A k \in keys : (k[1] = Toml <=> host = "codex")
      BY <1>2, <1>5
    <2> HIDE DEF surfaces, updated
    <2>4. Mergeable(host, record, keys, descriptor, surfaces)
      BY <1>4, <1>5, <2>1, <2>3 DEF Mergeable
    <2>5. Merges(host, r, record, surfaces, updated)
      BY <2>2, <2>4, MergedRecord
    <2> QED
      BY <2>5 DEF surfaces, Merges
  <1>7. /\ \A c \in written : /\ entry[c] \in FileRecords /\ entry[c].present
                              /\ entry[c].other = config[c].other
                              /\ entry[c].managed = descriptor
        /\ rule \in FileRecords /\ rule.present /\ rule.other = instructions[r].other
        /\ rule.managed = "current"
    <2>1. descriptor \in Managed /\ "current" \in Managed
      BY <1>4 DEF Managed
    <2>2. \A c \in written : config[c] \in FileRecords
      BY <1>4, <1>5
    <2>3. \A c \in written : /\ entry[c] \in FileRecords /\ entry[c].present
                             /\ entry[c].other = config[c].other
                             /\ entry[c].managed = descriptor
      BY <2>1, <2>2, FileShapes
    <2>4. /\ rule \in FileRecords /\ rule.present /\ rule.other = instructions[r].other
          /\ rule.managed = "current"
      BY <1>4, <2>1, FileShapes
    <2> QED
      BY <2>3, <2>4
  <1> HIDE DEF entry, rule, updated
  <1>8. configs \in [written -> Edits]
    BY <1>4, <1>5, <1>7 DEF Edit, Edits
  <1>9. /\ plan \in Plans /\ plan.op = "connect" /\ plan.record = record /\ plan.updated = updated
        /\ plan.configs = configs /\ DOMAIN plan.configs = written
        /\ plan.instruction.from = instructions[r] /\ plan.instruction.to = rule
    <2> HIDE DEF configs, plan, written
    <2>1. plan = Plan("connect", configs, Edit(instructions[r], rule), updated)
          /\ written \in SUBSET Configs
      BY <1>5 DEF plan
    <2> QED
      BY <1>4, <1>6, <1>7, <1>8, <2>1, PlanShape
  <1>10. \A c \in written : plan.configs[c].from = config[c] /\ plan.configs[c].to = entry[c]
    BY <1>9 DEF Edit
  <1> HIDE DEF plan, configs
  <1>11. \A c \in written : Considerate(plan.configs[c])
    BY <1>2, <1>4, <1>7, <1>10, Fingerprints DEF Considerate
  <1>12. Considerate(plan.instruction) /\ plan.instruction.to.other = 0
    <2>1. instructions[r].managed \in {"none", "current", "previous"}
      BY <1>2, <1>4 DEF Tidy, Absent
    <2> QED
      BY <1>2, <1>4, <1>7, <1>9, <2>1 DEF Considerate, Tidy
  <1>13. Connects(host, r, plan)
    <2>1. \A c \in written : descriptor \in Proven(updated, c)
      <3> SUFFICES ASSUME NEW c \in written PROVE descriptor \in Proven(updated, c)
        OBVIOUS
      <3>1. PICK k \in keys : k \in Keys /\ k[1] = c
        BY <1>5
      <3>2. updated.surfaces[k] = descriptor /\ descriptor # "none"
        BY <1>4, <1>6, <3>1, Fingerprints
      <3> QED
        BY <1>6, <3>1, <3>2, ProvenTypes
    <2>2. \A k \in Keys : k[1] \notin written => updated.surfaces[k] = record.surfaces[k]
      BY <1>6
    <2>3. written # {}
      BY <1>5
    <2> HIDE DEF written
    <2> QED
      BY <1>2, <1>6, <1>7, <1>9, <1>10, <2>1, <2>2, <2>3 DEF Connects
  <1> HIDE DEF written
  <1>14. Sensible(host, r, plan)
    BY <1>2, <1>5, <1>6, <1>9, <1>11, <1>12, <1>13 DEF Sensible
  <1> QED
    BY <1>3, <1>9, <1>10, <1>14 DEF Previews

LEMMA AntigravityDisconnectPlan ==
  ASSUME OneCommand, ConnectorsInv, NEW r \in Repository, PrepareAntigravityDisconnect(r)
  PROVE  \E p \in Plans : Previews(r, p)
  <1>1. PICK selected \in (SUBSET {"ide", "cli"}) \ {{}} :
          LET connections == record.workspaces[r].connections
              remaining == {k \in connections : k[2] \notin selected}
              removals == AntigravityRemovals(r, remaining)
              updated == AntigravityRemaining(r, remaining)
          IN  /\ host = "antigravity" /\ removals.ready
              /\ Preview(r, Plan("disconnect", removals.configs, removals.rule,
                     IF UsedKeys(updated.workspaces) = {} THEN NoRecord ELSE updated))
    BY DEF PrepareAntigravityDisconnect
  <1> DEFINE remaining == {k \in record.workspaces[r].connections : k[2] \notin selected}
             left == AntigravityRemaining(r, remaining)
             updated == IF UsedKeys(left.workspaces) = {} THEN NoRecord ELSE left
             dropped == {c \in AntigravityConfigs : Proven(record, c) # {} /\ Proven(left, c) = {}}
             configs == [c \in dropped |-> Edit(config[c], Without(config[c]))]
             rule == IF remaining = {} THEN Absent ELSE instructions[r]
             plan == Plan("disconnect", configs, Edit(instructions[r], rule), updated)
             Expected(c) == CHOOSE f \in Proven(record, c) : TRUE
  <1>2. /\ host = "antigravity" /\ Preview(r, plan)
        /\ \A c \in dropped : /\ config[c].present
                              /\ config[c].managed \in {"none", Expected(c)}
        /\ remaining = {} /\ instructions[r].present =>
              instructions[r].managed = record.workspaces[r].fingerprint
    <2>1. AntigravityRemovals(r, remaining).configs = configs
          /\ AntigravityRemovals(r, remaining).rule = Edit(instructions[r], rule)
      BY DEF AntigravityRemovals, AntigravityConfigRemoval, Result
    <2>2. AntigravityRemovals(r, remaining).ready =>
            /\ \A c \in dropped : /\ config[c].present
                                  /\ config[c].managed \in {"none", Expected(c)}
            /\ remaining = {} /\ instructions[r].present =>
                  instructions[r].managed = record.workspaces[r].fingerprint
      BY DEF AntigravityRemovals, AntigravityConfigRemoval, Result
    <2>3. /\ host = "antigravity" /\ AntigravityRemovals(r, remaining).ready
          /\ Preview(r, Plan("disconnect", AntigravityRemovals(r, remaining).configs,
                             AntigravityRemovals(r, remaining).rule, updated))
      BY <1>1
    <2> HIDE DEF remaining, configs, rule, updated, dropped, Expected
    <2> QED
      BY <2>1, <2>2, <2>3
  <1>3. /\ record \in Records /\ Recorded(host, record)
        /\ Tidy(host, config, instructions)
        /\ \A c \in Configs : config[c] \in FileRecords
        /\ instructions[r] \in FileRecords
        /\ record.workspaces[r].fingerprint \in {"none", "current"}
        /\ AntigravityConfigs = Configs \ {Toml}
        /\ instructions[r].present \/ instructions[r] = Absent
        /\ instructions[r].other = 0
    BY <1>2, AtPreview, KeyFacts DEF Preview, Tidy
  <1>4. Remains(host, r, remaining, left, updated)
    <2>1. remaining \in SUBSET record.workspaces[r].connections
      OBVIOUS
    <2> HIDE DEF remaining
    <2>2. left = CodexRemaining(r, remaining)
      BY DEF CodexRemaining, AntigravityRemaining
    <2> HIDE DEF left
    <2> QED
      BY <1>3, <2>1, <2>2, RemainingRecord
  <1> HIDE DEF remaining, left, updated
  <1>5. \A c \in dropped : /\ c \in Configs /\ c \in AntigravityConfigs
                           /\ Proven(record, c) # {} /\ Proven(left, c) = {}
    BY <1>3
  <1>6. \A c \in dropped : /\ Without(config[c]) \in FileRecords
                           /\ Without(config[c]).managed = "none"
                           /\ Considerate(Edit(config[c], Without(config[c])))
                           /\ Without(config[c]) # config[c] => config[c].managed \in Descriptor
    <2> SUFFICES ASSUME NEW c \in dropped
                 PROVE  /\ Without(config[c]) \in FileRecords
                        /\ Without(config[c]).managed = "none"
                        /\ Considerate(Edit(config[c], Without(config[c])))
                        /\ Without(config[c]) # config[c] => config[c].managed \in Descriptor
      OBVIOUS
    <2>1. Expected(c) \in Descriptor
      BY <1>3, <1>5, ChosenProven
    <2>2. Expected(c) \in Managed \ {"user", "edited"}
      BY <2>1, Fingerprints DEF Managed
    <2>3. config[c] \in FileRecords /\ config[c].present
          /\ config[c].managed \in {"none", Expected(c)}
      BY <1>2, <1>3, <1>5
    <2> HIDE DEF Expected, dropped
    <2> QED
      BY <2>1, <2>2, <2>3, RemovedFile
  <1>7. /\ rule \in FileRecords /\ Considerate(Edit(instructions[r], rule)) /\ rule.other = 0
        /\ remaining # {} => rule = instructions[r]
    <2>1. CASE remaining # {}
      BY <1>3, <2>1, KeptFile
    <2>2. CASE remaining = {}
      <3>1. rule = Absent /\ Absent \in FileRecords /\ Absent.other = 0 /\ Absent.managed = "none"
        BY <2>2, FirstTypes DEF Absent
      <3>2. instructions[r].managed \in {"none", "current"}
        BY <1>2, <1>3, <2>2, <3>1
      <3>3. Considerate(Edit(instructions[r], Absent))
        BY <1>3, <3>1, <3>2 DEF Considerate, Edit
      <3> QED
        BY <2>2, <3>1, <3>3
    <2> QED
      BY <2>1, <2>2
  <1> HIDE DEF rule
  <1>8. configs \in [dropped -> Edits] /\ dropped \in SUBSET Configs
    BY <1>3, <1>5, <1>6 DEF Edit, Edits
  <1>9. /\ plan \in Plans /\ plan.op = "disconnect" /\ plan.record = record /\ plan.updated = updated
        /\ plan.configs = configs /\ DOMAIN plan.configs = dropped
        /\ plan.instruction = Edit(instructions[r], rule)
    <2>1. plan.instruction = Edit(instructions[r], rule)
      BY DEF Plan
    <2>0. updated \in Records
      BY <1>4 DEF Remains
    <2> HIDE DEF configs, plan, dropped
    <2>2. plan = Plan("disconnect", configs, Edit(instructions[r], rule), updated)
      BY DEF plan
    <2> QED
      BY <1>3, <1>7, <1>8, <2>0, <2>1, <2>2, PlanShape
  <1>10. \A c \in dropped : plan.configs[c] = Edit(config[c], Without(config[c]))
    BY <1>9
  <1> HIDE DEF plan, configs
  <1>11. (\A c \in dropped : Considerate(plan.configs[c])) /\ Considerate(plan.instruction)
         /\ plan.instruction.to.other = 0
    <2> HIDE DEF dropped
    <2>1. \A c \in dropped : Considerate(plan.configs[c])
      BY <1>6, <1>10
    <2>2. Considerate(plan.instruction) /\ plan.instruction.to.other = 0
      BY <1>7, <1>9 DEF Edit
    <2> QED
      BY <2>1, <2>2
  <1>12. Disconnects(r, plan)
    <2>1. \A c \in dropped :
            /\ plan.configs[c].to.managed = "none"
            /\ Changes(plan.configs[c]) => plan.configs[c].from.managed \in Descriptor
      <3> HIDE DEF dropped
      <3>1. \A c \in dropped : /\ plan.configs[c].from = config[c]
                               /\ plan.configs[c].to = Without(config[c])
        <4> SUFFICES ASSUME NEW c \in dropped
                     PROVE  /\ plan.configs[c].from = config[c]
                            /\ plan.configs[c].to = Without(config[c])
          OBVIOUS
        <4>1. plan.configs[c] = Edit(config[c], Without(config[c]))
          BY <1>10
        <4> QED
          BY <4>1 DEF Edit
      <3> QED
        BY <1>6, <3>1 DEF Changes
    <2>2. ASSUME NEW c \in Configs, Proven(updated, c) = {}, Proven(record, c) # {}
          PROVE  c \in dropped
      <3>1. PICK k \in Keys : k[1] = c /\ record.surfaces[k] # "none"
        BY <1>3, <2>2, ProvenTypes
      <3>2. c # Toml
        BY <1>2, <1>3, <3>1 DEF Recorded
      <3>3. Proven(left, c) = {}
        BY <1>4, <2>2 DEF Remains
      <3> QED
        BY <1>3, <2>2, <3>2, <3>3
    <2>3. ASSUME NEW k \in Keys, updated.surfaces[k] # "none"
          PROVE  /\ updated.surfaces[k] = record.surfaces[k]
                 /\ k[1] \notin dropped
      <3>1. updated.surfaces[k] \in Proven(updated, k[1])
        BY <1>4, <2>3, ProvenTypes DEF Remains
      <3>2. Proven(left, k[1]) # {}
        BY <1>4, <3>1 DEF Remains
      <3> QED
        BY <1>4, <1>5, <2>3, <3>2 DEF Remains
    <2> HIDE DEF dropped
    <2>4. updated.workspaces[r].connections # {} =>
            /\ ~Changes(plan.instruction)
            /\ updated.workspaces[r].fingerprint = record.workspaces[r].fingerprint
      BY <1>4, <1>7, <1>9 DEF Remains, Changes, Edit
    <2>5. \A q \in Repository \ {r} : record.workspaces[q].connections # {} =>
              updated.workspaces[q] = record.workspaces[q]
      BY <1>4 DEF Remains
    <2> QED
      BY <1>4, <1>9, <2>1, <2>2, <2>3, <2>4, <2>5 DEF Disconnects, Remains
  <1>13. Sensible(host, r, plan)
    <2>1. dropped \subseteq AntigravityConfigs /\ Recorded(host, updated)
      BY <1>4 DEF Remains
    <2> HIDE DEF dropped
    <2> QED
      BY <1>2, <1>9, <1>11, <1>12, <2>1 DEF Sensible
  <1> HIDE DEF dropped
  <1> QED
    BY <1>2, <1>9, <1>10, <1>13 DEF Previews, Edit

----------------------------------------------------------------------------
(* How the connectors apply their plans *)

\* A step of the command of a worktree, with what the connectors' checks give it
CommandMoves(r) ==
    \/ \E plan \in Plans : Previews(r, plan)
    \/ \E unchanged \in BOOLEAN :
          /\ Begin(r, unchanged)
          /\ unchanged => Compared(host, command[r].plan, <<config, instructions[r], record>>)
    \/ \E unchanged \in SUBSET Targets : Write(r, unchanged) /\ Trusted(r, unchanged)
    \/ \E valid \in BOOLEAN :
          /\ Verify(r, valid)
          /\ valid => VerifiedIn(host, config, instructions, record, r)
    \/ \E first : /\ Undo(r, first)
                  /\ command[r].changed # {} => first \in command[r].changed
    \/ Crash(r)

\* The files a command has written are those of its host.
LEMMA ChangedFiles ==
  ASSUME ConnectorsInv, NEW r \in Repository, AtWork(r)
  PROVE  /\ host = "codex" => command[r].changed \subseteq {Toml, "instructions", "record"}
         /\ host = "antigravity" =>
               command[r].changed \subseteq {"central", "transition", "instructions", "record"}
  <1>1. /\ command[r].changed \in SUBSET Targets /\ Sensible(host, r, command[r].plan)
        /\ Found(command[r].plan, command[r].changed \cup command[r].stray, command[r].before,
                 config, instructions[r], record)
    BY FlightFacts DEF InFlight
  <1>2. \A c \in Configs \cap command[r].changed : c \in DOMAIN command[r].plan.configs
    BY <1>1 DEF Found
  <1>3. /\ host = "codex" => DOMAIN command[r].plan.configs = {Toml}
        /\ host = "antigravity" => DOMAIN command[r].plan.configs \subseteq {"central", "transition"}
    BY <1>1 DEF Sensible, AntigravityConfigs
  <1> QED
    BY <1>1, <1>2, <1>3 DEF Targets

\* What is left to write of a file has been compared with the preview.
LEMMA WritesTrusted ==
  ASSUME ConnectorsInv, NEW r \in Repository, command[r].pc = "writing",
         host = "antigravity" \/ command[r].plan.op = "connect"
  PROVE  Trusted(r, Targets)
  <1>1. AtWork(r)
    BY DEF AtWork
  <1>2. /\ command[r].plan \in Plans /\ command[r].plan.op \in {"connect", "disconnect"}
        /\ Compared(host, command[r].plan, command[r].before)
    BY <1>1, FlightFacts DEF InFlight
  <1> DEFINE plan == command[r].plan
             changed == command[r].changed
  <1>3. \A x \in Pending(plan, changed) :
               \/ x \in DOMAIN plan.configs /\ x \in Configs /\ Changes(plan.configs[x])
               \/ x = "instructions" /\ Changes(plan.instruction)
               \/ x = "record"
    <2> HIDE DEF changed
    <2> QED
      BY <1>2, PendingFacts, PlanTypes
  <1> QED
    BY <1>2, <1>3, KeyFacts DEF Compared, Trusted

LEMMA CodexMoves ==
  ASSUME OneCommand, ConnectorsInv, NEW r \in Repository, CodexCommand(r)
  PROVE  CommandMoves(r)
  <1>0. \A q \in Repository : command[q].pc = "planned" =>
            /\ Sensible(host, q, command[q].plan)
    BY DEF ConnectorsInv, Planned
  <1>1. CASE PrepareCodexConnection(r)
    BY <1>1, CodexConnectPlan DEF CommandMoves
  <1>2. CASE PrepareCodexDisconnect(r)
    BY <1>2, CodexDisconnectPlan DEF CommandMoves
  <1>3. ASSUME host = "codex", NEW unchanged \in BOOLEAN, Begin(r, unchanged),
               unchanged /\ command[r].plan.op = "connect" =>
                  ConfigUnchanged(r, Toml) /\ InstructionsUnchanged(r)
        PROVE  CommandMoves(r)
    <2>1. Sensible(host, r, command[r].plan)
      BY <1>0, <1>3 DEF Begin
    <2>2. unchanged => Compared(host, command[r].plan, <<config, instructions[r], record>>)
      BY <1>3, <2>1 DEF Compared, Sensible, ConfigUnchanged, InstructionsUnchanged
    <2> QED
      BY <1>3, <2>2 DEF CommandMoves
  <1>4. ASSUME host = "codex", Undo(r, CodexUndoFirst(command[r].changed))
        PROVE  CommandMoves(r)
    <2>1. AtWork(r)
      BY <1>4 DEF Undo, AtWork
    <2>2. command[r].changed # {} => CodexUndoFirst(command[r].changed) \in command[r].changed
      BY <1>4, <2>1, ChangedFiles DEF CodexUndoFirst
    <2> QED
      BY <1>4, <2>2 DEF CommandMoves
  <1>5. CASE ApplyCodexConnection(r)
    <2>1. host = "codex" /\ command[r].plan.op = "connect"
      BY <1>5 DEF ApplyCodexConnection
    <2>2. CASE Begin(r, ConfigUnchanged(r, Toml) /\ InstructionsUnchanged(r))
      <3>1. (ConfigUnchanged(r, Toml) /\ InstructionsUnchanged(r)) \in BOOLEAN
        BY DEF ConfigUnchanged, InstructionsUnchanged
      <3> QED
        BY <1>3, <2>1, <2>2, <3>1
    <2>3. CASE Write(r, Targets)
      <3>1. command[r].pc = "writing"
        BY <2>3 DEF Write
      <3>2. Trusted(r, Targets)
        BY <2>1, <3>1, WritesTrusted
      <3> QED
        BY <2>3, <3>2 DEF CommandMoves
    <2>4. CASE Verify(r, VerifyCodexConnection(r))
      <3>1. VerifyCodexConnection(r) \in BOOLEAN
        BY DEF VerifyCodexConnection, CodexFilesVerified
      <3>2. VerifyCodexConnection(r) => VerifiedIn(host, config, instructions, record, r)
        BY <2>1 DEF VerifyCodexConnection, CodexFilesVerified, VerifiedIn
      <3> QED
        BY <2>4, <3>1, <3>2 DEF CommandMoves
    <2> QED
      BY <1>4, <1>5, <2>1, <2>2, <2>3, <2>4 DEF ApplyCodexConnection
  <1>6. CASE ApplyCodexDisconnect(r)
    <2> DEFINE same == {x \in Targets : \/ x = Toml /\ ConfigUnchanged(r, Toml)
                                        \/ x = "instructions" /\ InstructionsUnchanged(r)
                                        \/ x = "record"}
    <2>1. host = "codex" /\ command[r].plan.op = "disconnect"
      BY <1>6 DEF ApplyCodexDisconnect
    <2>2. CASE Begin(r, record = command[r].plan.record)
      BY <1>3, <2>1, <2>2
    <2>3. CASE Write(r, same)
      <3>1. AtWork(r) /\ command[r].pc # "undoing"
        BY <2>3 DEF Write, AtWork
      <3>2. Found(command[r].plan, command[r].changed, command[r].before,
                  config, instructions[r], record) /\ command[r].plan \in Plans
        BY <3>1, FlightFacts
      <3>3. \A x \in Pending(command[r].plan, command[r].changed) : x \notin command[r].changed
        BY <3>2, PendingFacts
      <3>4. Trusted(r, same)
        BY <3>2, <3>3, KeyFacts DEF Trusted, Found, ConfigUnchanged, InstructionsUnchanged
      <3>5. same \in SUBSET Targets
        OBVIOUS
      <3> HIDE DEF same
      <3> QED
        BY <2>3, <3>4, <3>5 DEF CommandMoves
    <2> QED
      BY <1>4, <1>6, <2>1, <2>2, <2>3 DEF ApplyCodexDisconnect
  <1> QED
    BY <1>1, <1>2, <1>5, <1>6 DEF CodexCommand

LEMMA AntigravityMoves ==
  ASSUME OneCommand, ConnectorsInv, NEW r \in Repository, AntigravityCommand(r)
  PROVE  CommandMoves(r)
  <1>1. CASE PrepareAntigravityConnection(r)
    BY <1>1, AntigravityConnectPlan DEF CommandMoves
  <1>2. CASE PrepareAntigravityDisconnect(r)
    BY <1>2, AntigravityDisconnectPlan DEF CommandMoves
  <1>3. ASSUME host = "antigravity", command[r].plan.op \in {"connect", "disconnect"},
               Begin(r, Unmoved(r))
        PROVE  CommandMoves(r)
    <2>1. Unmoved(r) \in BOOLEAN
      BY DEF Unmoved
    <2>2. Unmoved(r) => Compared(host, command[r].plan, <<config, instructions[r], record>>)
      BY <1>3 DEF Unmoved, Compared, Changes, ConfigUnchanged, InstructionsUnchanged
    <2> QED
      BY <1>3, <2>1, <2>2 DEF CommandMoves
  <1>4. ASSUME host = "antigravity", Write(r, Targets)
        PROVE  CommandMoves(r)
    <2>1. command[r].pc = "writing"
      BY <1>4 DEF Write
    <2>2. Trusted(r, Targets)
      BY <1>4, <2>1, WritesTrusted
    <2> QED
      BY <1>4, <2>2 DEF CommandMoves
  <1>5. ASSUME host = "antigravity", Verify(r, VerifyAntigravityConnection(r))
        PROVE  CommandMoves(r)
    <2>1. VerifyAntigravityConnection(r) \in BOOLEAN
      BY DEF VerifyAntigravityConnection, AntigravityFilesVerified
    <2>2. VerifyAntigravityConnection(r) => VerifiedIn(host, config, instructions, record, r)
      BY <1>5 DEF VerifyAntigravityConnection, AntigravityFilesVerified, VerifiedIn
    <2> QED
      BY <1>5, <2>1, <2>2 DEF CommandMoves
  <1>6. ASSUME host = "antigravity", Undo(r, AntigravityUndoFirst(command[r].changed))
        PROVE  CommandMoves(r)
    <2>1. AtWork(r)
      BY <1>6 DEF Undo, AtWork
    <2>2. command[r].changed # {} => AntigravityUndoFirst(command[r].changed) \in command[r].changed
      BY <1>6, <2>1, ChangedFiles DEF AntigravityUndoFirst
    <2> QED
      BY <1>6, <2>2 DEF CommandMoves
  <1> QED
    BY <1>1, <1>2, <1>3, <1>4, <1>5, <1>6
       DEF AntigravityCommand, ApplyAntigravityConnection, ApplyAntigravityDisconnect

LEMMA MovesKeep ==
  ASSUME OneCommand, ConnectorsInv, NEW r \in Repository, CommandMoves(r)
  PROVE  ConnectorsInv'
  <1>1. CASE \E plan \in Plans : Previews(r, plan)
    BY <1>1, PreviewKeeps DEF Previews
  <1>2. CASE \E unchanged \in BOOLEAN :
          /\ Begin(r, unchanged)
          /\ unchanged => Compared(host, command[r].plan, <<config, instructions[r], record>>)
    BY <1>2, BeginKeeps
  <1>3. CASE \E unchanged \in SUBSET Targets : Write(r, unchanged) /\ Trusted(r, unchanged)
    BY <1>3, WriteKeeps
  <1>4. CASE \E valid \in BOOLEAN :
          /\ Verify(r, valid)
          /\ valid => VerifiedIn(host, config, instructions, record, r)
    BY <1>4, VerifyKeeps
  <1>5. CASE \E first : /\ Undo(r, first)
                        /\ command[r].changed # {} => first \in command[r].changed
    BY <1>5, UndoKeeps
  <1>6. CASE Crash(r)
    BY <1>6, CrashKeeps
  <1> QED
    BY <1>1, <1>2, <1>3, <1>4, <1>5, <1>6 DEF CommandMoves

----------------------------------------------------------------------------
(* The invariant *)

LEMMA StutterKeeps ==
  ASSUME ConnectorsInv, UNCHANGED vars
  PROVE  ConnectorsInv'
  <1>1. UNCHANGED <<host, descriptor, config, instructions, record, command, installed,
                    interrupted, strays, edits, faults, upgrades>>
    BY DEF vars
  <1>2. ConnectorsType' /\ Alone' /\ (SoundNow <=> SoundNow')
    BY <1>1 DEF ConnectorsInv, ConnectorsType, Alone, Running, SoundNow, Gone
  <1>3. \A r \in Repository : (AtWork(r)' <=> AtWork(r)) /\ (InFlight(r) => InFlight(r)')
                              /\ (Planned(r) => Planned(r)')
    BY <1>1 DEF AtWork, InFlight, Planned, Gone
  <1> QED
    BY <1>1, <1>2, <1>3 DEF ConnectorsInv

\* Every step keeps the invariant.
LEMMA NextKeeps ==
  ASSUME OneCommand, ConnectorsInv, [Next]_vars
  PROVE  ConnectorsInv'
  <1>1. ASSUME NEW r \in Repository, CodexCommand(r) \/ AntigravityCommand(r) \/ Crash(r)
        PROVE  ConnectorsInv'
    BY <1>1, CodexMoves, AntigravityMoves, MovesKeep, CrashKeeps
  <1> QED
    BY <1>1, UserKeeps, UpgradeKeeps, StutterKeeps DEF Next

LEMMA Invariant ==
  ASSUME OneCommand
  PROVE  Spec => []ConnectorsInv
  <1>1. ConnectorsInv /\ [Next]_vars => ConnectorsInv'
    BY NextKeeps
  <1> QED
    BY InitInv, <1>1, PTL DEF Spec

\* Between two commands the files are sound.
LEMMA SoundAtRest ==
  ASSUME ConnectorsInv, AtRest
  PROVE  SoundNow /\ ConnectorsType
  BY DEF ConnectorsInv, AtRest, AtWork

\* What a connector left in a configuration file is on record as its own, so that a later
\* connect may replace it and a disconnect remove it, unless a command ended half-way or the
\* creation of that file took effect and was reported as failed.
THEOREM OwnEntryProvenHolds ==
  ASSUME OneCommand
  PROVE  Spec => []OwnEntryProven
  <1>1. ConnectorsInv => OwnEntryProven
    <2> SUFFICES ASSUME ConnectorsInv, AtRest, NEW c \in Configs, config[c].managed \in Descriptor,
                        config[c].managed \notin interrupted,
                        <<c, config[c].managed>> \notin strays
                 PROVE  config[c].managed \in Proven(record, c)
      BY DEF OwnEntryProven
    <2>1. Owned(config, record, Gone)
      BY SoundAtRest DEF SoundNow, Sound
    <2> QED
      BY <2>1 DEF Owned, Counted, Gone
  <1> QED
    BY Invariant, <1>1, PTL

\* A repository that was reported as connected would be verified again, whatever the commands
\* of the other repositories did in the meantime, as long as none of them ended half-way.
THEOREM InstalledStaysVerifiedHolds ==
  ASSUME OneCommand
  PROVE  Spec => []InstalledStaysVerified
  <1>1. ConnectorsInv => InstalledStaysVerified
    <2> SUFFICES ASSUME ConnectorsInv, AtRest, interrupted = {},
                        NEW r \in Repository, installed[r] # {}
                 PROVE  FilesVerified(r)
      BY DEF InstalledStaysVerified
    <2>1. /\ VerifiedIn(host, config, instructions, record, r)
          /\ Depended(config, record, installed) /\ Recorded(host, record)
          /\ record \in Records
      BY SoundAtRest DEF SoundNow, Sound, ConnectorsType, Gone
    <2>2. CASE host = "codex"
      <3>1. PICK k \in installed[r] : TRUE
        OBVIOUS
      <3>2. k \in record.workspaces[r].connections /\ config[k[1]].managed \in Descriptor
        BY <2>1 DEF Depended
      <3>3. k \in Keys /\ record.surfaces[k] # "none"
        BY <2>1, <3>2, ProvenTypes DEF Recorded
      <3>4. k[1] = Toml
        BY <2>1, <2>2, <3>3 DEF Recorded
      <3>5. config[Toml].managed # "none"
        BY <3>2, <3>4, Fingerprints
      <3> QED
        BY <2>1, <2>2, <3>5 DEF VerifiedIn, FilesVerified, CodexFilesVerified
    <2>3. CASE host # "codex"
      BY <2>1, <2>3 DEF VerifiedIn, FilesVerified, AntigravityFilesVerified
    <2> QED
      BY <2>2, <2>3
  <1> QED
    BY Invariant, <1>1, PTL

\* The shared entry a repository that was reported as connected depends on stays in the file
\* while other repositories connect, disconnect, fail at it or are killed in it.
THEOREM RetainedWhileDependedHolds ==
  ASSUME OneCommand
  PROVE  Spec => []RetainedWhileDepended
  <1>1. ConnectorsInv => RetainedWhileDepended
    <2> SUFFICES ASSUME ConnectorsInv, NEW r \in Repository, command[r].pc \in {"idle", "planned"},
                        NEW k \in installed[r]
                 PROVE  config[k[1]].managed \in Descriptor
      BY DEF RetainedWhileDepended
    <2>1. CASE \A q \in Repository : ~AtWork(q)
      <3>1. Depended(config, record, installed)
        BY <2>1 DEF ConnectorsInv, SoundNow, Sound
      <3> QED
        BY <3>1 DEF Depended
    <2>2. CASE \E q \in Repository : AtWork(q)
      <3>1. PICK q \in Repository : AtWork(q)
        BY <2>2
      <3>2. r # q /\ ConnectorsType /\ command[q].plan \in Plans
        BY <3>1, FlightFacts DEF AtWork
      <3> DEFINE plan == command[q].plan
                 cfg == command[q].before[1]
                 ins == [instructions EXCEPT ![q] = command[q].before[2]]
      <3>3. /\ Partly(plan, cfg, config) /\ record \in {plan.record, plan.updated}
            /\ Sensible(host, q, plan)
            /\ Sound(host, cfg, ins, plan.record, installed, Gone)
        BY <3>1, FlightFiles
      <3>4. /\ host \in {"codex", "antigravity"} /\ installed \in [Repository -> SUBSET Keys]
            /\ plan \in Plans
        BY <3>2 DEF ConnectorsType
      <3> HIDE DEF plan, cfg, ins
      <3>5. Recorded(host, plan.record) /\ Depended(cfg, plan.record, installed)
        BY <3>3 DEF Sound
      <3> QED
        BY <3>2, <3>3, <3>4, <3>5, OthersDepend
    <2> QED
      BY <2>1, <2>2
  <1> QED
    BY Invariant, <1>1, PTL

----------------------------------------------------------------------------
(* What a step does to the files *)

\* A command that reports its changes as rolled back leaves files and record as they were when
\* it began to apply its plan, but for a file whose creation was reported as failed.
THEOREM RolledBackRestoresHolds ==
  ASSUME OneCommand
  PROVE  Spec => RolledBackRestores
  <1> DEFINE After(r, x, was) == IF x \in command[r].stray THEN EditOf(command[r].plan, x).to
                                 ELSE was
             Restored(r) ==
               /\ \A c \in Configs : config'[c] = After(r, c, command[r].before[1][c])
               /\ instructions'[r] = After(r, "instructions", command[r].before[2])
               /\ record' = command[r].before[3]
             Restores == \A r \in Repository : RolledBack(r) => Restored(r)
  <1>1. ConnectorsInv /\ [Next]_vars => [Restores]_vars
    <2> SUFFICES ASSUME ConnectorsInv, Next, NEW r \in Repository,
                        command[r].pc = "undoing", command'[r].pc = "idle", faults' = faults
                 PROVE  Restored(r)
      BY DEF vars, RolledBack
    <2>1. AtWork(r) /\ faults \in Nat /\ ConnectorsType
      BY DEF ConnectorsInv, ConnectorsType, AtWork
    <2>2. \A q \in Repository \ {r} : command[q].pc = "idle"
      BY <2>1, FlightFacts
    <2>3. PICK q \in Repository : CommandMoves(q) \/ Crash(q)
      <3>1. ~UserEdit /\ ~Upgrade
        BY DEF UserEdit, Upgrade, AtRest
      <3> QED
        BY <3>1, CodexMoves, AntigravityMoves DEF Next
    <2>4. ~Fault
      BY <2>1 DEF Fault
    <2>5. ~(Cardinality(Running) < MaxRunning)
      BY NoneRuns
    <2>6. q = r
      BY <2>2, <2>3, <2>5
         DEF CommandMoves, Previews, Preview, Begin, Write, Verify, Undo, Crash
    <2>7. PICK first : Undo(r, first)
      BY <2>3, <2>4, <2>5, <2>6
         DEF CommandMoves, Previews, Preview, Begin, Write, Verify, Crash
    <2>8. command[r].changed = {} /\ UNCHANGED files
      <3>1. \A s : [command[r] EXCEPT !.changed = s].pc = "undoing"
        BY <2>1 DEF ConnectorsType, Commands
      <3>2. \A s : [command EXCEPT ![r].changed = s][r].pc = "undoing"
        BY <2>1, <3>1 DEF ConnectorsType
      <3> QED
        BY <2>4, <2>7, <3>2 DEF Undo
    <2>9. /\ \A c \in Configs :
                IF c \in command[r].stray THEN config'[c] = command[r].plan.configs[c].to
                ELSE config'[c] = command[r].before[1][c]
          /\ IF "instructions" \in command[r].stray
             THEN instructions'[r] = command[r].plan.instruction.to
             ELSE instructions'[r] = command[r].before[2]
          /\ record' = command[r].before[3]
      BY <2>1, <2>8, NothingChanged DEF files
    <2> QED
      BY <2>9, KeyFacts DEF EditOf
  <1> QED
    BY Invariant, <1>1, PTL DEF Spec, RolledBackRestores

\* One write keeps what the user wrote if the edit of the file it is made of does.
LEMMA PutKeeps ==
  ASSUME ConnectorsType, NEW r \in Repository, NEW x, NEW file \in FileRecords,
         NEW rec \in Records, Put(r, x, file, rec),
         x \in Configs => Kept(config[x], file),
         x = "instructions" => Kept(instructions[r], file)
  PROVE  /\ \A c \in Configs : Kept(config[c], config'[c])
         /\ \A q \in Repository : Kept(instructions[q], instructions'[q])
  <1>1. /\ \A c \in Configs : config'[c] = IF x = c THEN file ELSE config[c]
        /\ \A q \in Repository :
              instructions'[q] = IF x = "instructions" /\ q = r THEN file ELSE instructions[q]
    BY PutFiles
  <1>2. \A f : Kept(f, f)
    BY DEF Kept
  <1> QED
    BY <1>1, <1>2

\* A considerate edit keeps what the user wrote, made or undone.
LEMMA ConsiderateKeeps ==
  ASSUME NEW edit, Considerate(edit)
  PROVE  Kept(edit.from, edit.to) /\ Kept(edit.to, edit.from)
  BY DEF Considerate, Kept

\* No step of a command changes what the user wrote: neither the rest of the files nor an entry,
\* a region or a rule the user has made or modified.
THEOREM UserContentKeptHolds ==
  ASSUME OneCommand
  PROVE  Spec => UserContentKept
  <1> DEFINE Keeps == edits' = edits =>
               /\ \A c \in Configs : Kept(config[c], config'[c])
               /\ \A r \in Repository : Kept(instructions[r], instructions'[r])
  <1>1. ConnectorsInv /\ [Next]_vars => [Keeps]_vars
    <2> SUFFICES ASSUME ConnectorsInv, Next, edits' = edits
                 PROVE  /\ \A c \in Configs : Kept(config[c], config'[c])
                        /\ \A r \in Repository : Kept(instructions[r], instructions'[r])
      OBVIOUS
    <2>1. ConnectorsType /\ edits \in Nat
      BY DEF ConnectorsInv, ConnectorsType
    <2>2. ASSUME UNCHANGED <<config, instructions>>
          PROVE  /\ \A c \in Configs : Kept(config[c], config'[c])
                 /\ \A r \in Repository : Kept(instructions[r], instructions'[r])
      BY <2>2 DEF Kept
    <2>3. ASSUME NEW r \in Repository, AtWork(r), NEW x \in command[r].changed,
                 Put(r, x, EditOf(command[r].plan, x).from, command[r].before[3])
          PROVE  /\ \A c \in Configs : Kept(config[c], config'[c])
                 /\ \A q \in Repository : Kept(instructions[q], instructions'[q])
      <3> DEFINE plan == command[r].plan
      <3>1. /\ plan \in Plans /\ Sensible(host, r, plan) /\ command[r].before[3] = plan.record
            /\ Found(plan, command[r].changed \cup command[r].stray, command[r].before,
                     config, instructions[r], record)
            /\ command[r].changed \in SUBSET Targets
        BY <2>3, FlightFacts DEF InFlight
      <3>2. x \in DOMAIN plan.configs \/ x = "instructions" \/ x = "record"
        BY <3>1 DEF Found, Targets
      <3>3. EditOf(plan, x).from \in FileRecords /\ plan.record \in Records
        BY <3>1, <3>2, EditTypes, PlanTypes
      <3>4. x \in Configs => Kept(config[x], EditOf(plan, x).from)
        BY <3>1, <3>2, ConsiderateKeeps DEF Found, Sensible, EditOf
      <3>5. x = "instructions" => Kept(instructions[r], EditOf(plan, x).from)
        BY <3>1, <3>2, ConsiderateKeeps, KeyFacts DEF Found, Sensible, EditOf
      <3> QED
        BY <2>1, <2>3, <3>1, <3>3, <3>4, <3>5, PutKeeps
    <2>4. ASSUME NEW r \in Repository, NEW unchanged, Write(r, unchanged), Trusted(r, unchanged)
          PROVE  /\ \A c \in Configs : Kept(config[c], config'[c])
                 /\ \A q \in Repository : Kept(instructions[q], instructions'[q])
      <3> DEFINE plan == command[r].plan
      <3>1. AtWork(r) /\ command[r].pc # "undoing"
        BY <2>4 DEF Write, AtWork
      <3>2. /\ plan \in Plans /\ Sensible(host, r, plan)
            /\ Found(plan, command[r].changed, command[r].before, config, instructions[r], record)
        BY <3>1, FlightFacts DEF InFlight
      <3>3. \/ UNCHANGED files
            \/ \E x \in Pending(plan, command[r].changed) \cap unchanged :
                  Put(r, x, EditOf(plan, x).to, plan.updated)
        BY <2>4 DEF Write
      <3>4. CASE UNCHANGED files
        BY <2>2, <3>4 DEF files
      <3>5. ASSUME NEW x \in Pending(plan, command[r].changed) \cap unchanged,
                   Put(r, x, EditOf(plan, x).to, plan.updated)
            PROVE  /\ \A c \in Configs : Kept(config[c], config'[c])
                   /\ \A q \in Repository : Kept(instructions[q], instructions'[q])
        <4>1. /\ x \notin command[r].changed
              /\ x \in DOMAIN plan.configs \/ x = "instructions" \/ x = "record"
          <5> DEFINE changed == command[r].changed
          <5>1. plan \in Plans /\ x \in Pending(plan, changed)
            BY <3>2, <3>5
          <5> HIDE DEF plan, changed
          <5>2. /\ x \notin changed
                /\ x \in DOMAIN plan.configs \/ x = "instructions" \/ x = "record"
            BY <5>1, PendingFacts
          <5> QED
            BY <5>2 DEF changed
        <4>2. EditOf(plan, x).to \in FileRecords /\ plan.updated \in Records
          BY <3>2, <4>1, EditTypes, PlanTypes
        <4>3. x \in Configs => config[x] = EditOf(plan, x).from
                               /\ Kept(EditOf(plan, x).from, EditOf(plan, x).to)
          <5>1. ASSUME x \in Configs
                PROVE  /\ config[x] = plan.configs[x].from /\ EditOf(plan, x) = plan.configs[x]
                       /\ Considerate(plan.configs[x])
            BY <2>4, <3>2, <3>5, <4>1, <5>1, KeyFacts DEF Found, Sensible, EditOf, Trusted
          <5> QED
            BY <5>1, ConsiderateKeeps
        <4>4. x = "instructions" => instructions[r] = EditOf(plan, x).from
                                    /\ Kept(EditOf(plan, x).from, EditOf(plan, x).to)
          <5>1. ASSUME x = "instructions"
                PROVE  /\ instructions[r] = plan.instruction.from /\ EditOf(plan, x) = plan.instruction
                       /\ Considerate(plan.instruction)
            BY <2>4, <3>2, <3>5, <4>1, <5>1, KeyFacts DEF Found, Sensible, EditOf, Trusted
          <5> QED
            BY <5>1, ConsiderateKeeps
        <4> QED
          BY <2>1, <3>5, <4>2, <4>3, <4>4, PutKeeps
      <3> QED
        BY <3>3, <3>4, <3>5
    <2>5. ASSUME NEW r \in Repository, CommandMoves(r)
          PROVE  /\ \A c \in Configs : Kept(config[c], config'[c])
                 /\ \A q \in Repository : Kept(instructions[q], instructions'[q])
      <3>1. CASE \E unchanged \in SUBSET Targets : Write(r, unchanged) /\ Trusted(r, unchanged)
        BY <2>4, <3>1
      <3>2. CASE \E first : /\ Undo(r, first)
                            /\ command[r].changed # {} => first \in command[r].changed
        <4>1. PICK first : /\ Undo(r, first)
                           /\ command[r].changed # {} => first \in command[r].changed
          BY <3>2
        <4>2. AtWork(r)
          BY <4>1 DEF Undo, AtWork
        <4>3. \/ UNCHANGED files
              \/ /\ first \in command[r].changed
                 /\ Put(r, first, EditOf(command[r].plan, first).from, command[r].before[3])
          BY <4>1 DEF Undo
        <4> QED
          BY <2>2, <2>3, <4>2, <4>3 DEF files
      <3>3. CASE UNCHANGED files
        BY <2>2, <3>3 DEF files
      <3> QED
        BY <2>5, <3>1, <3>2, <3>3 DEF CommandMoves, Previews, Preview, Begin, Verify, Crash
    <2>6. CASE \E r \in Repository : CodexCommand(r) \/ AntigravityCommand(r) \/ Crash(r)
      BY <2>5, <2>6, CodexMoves, AntigravityMoves DEF CommandMoves
    <2>7. CASE UserEdit
      BY <2>1, <2>7 DEF UserEdit
    <2>8. CASE Upgrade
      BY <2>2, <2>8 DEF Upgrade, files
    <2> QED
      BY <2>6, <2>7, <2>8 DEF Next
  <1> QED
    BY Invariant, <1>1, PTL DEF Spec, UserContentKept
============================================================================
