---------------------------- MODULE ConnectorFiles ----------------------------
(***************************************************************************)
(* What the connectors of the two hosts share: the files a connect or a    *)
(* disconnect command works on, the plan it previews, and the steps in     *)
(* which it applies the plan and undoes what it has changed.  The modules  *)
(* CodexConnector and AntigravityConnector supply the plans, the checks    *)
(* and the orders; Connectors is the whole.                                *)
(*                                                                         *)
(* A file is what the user wrote in it (other) and the part the connector  *)
(* owns (managed).  A fingerprint is the managed part itself: the launch   *)
(* descriptor rendered into a configuration entry, the template of an      *)
(* instruction.  Paths, surfaces the models do not tell apart, encodings,  *)
(* backups (written once, never read) and diagnostics are left out.        *)
(***************************************************************************)
EXTENDS Naturals, FiniteSets

CONSTANTS
    Repository,     \* the worktrees with an initialized repository
    Descriptor,     \* the launch descriptors of the installed versions
    FirstDescriptor,
    MaxRunning,     \* the commands that run at the same time
    MaxEdits,       \* bound on what the user changes
    MaxFaults,      \* bound on failing writes, failing launches and crashes
    MaxUpgrades     \* bound on the upgrades of the program

ASSUME ConnectorAssumption ==
    /\ FirstDescriptor \in Descriptor /\ Descriptor \cap {"none", "user", "edited", "legacy"} = {}
    /\ MaxRunning \in Nat \ {0} /\ MaxEdits \in Nat /\ MaxFaults \in Nat /\ MaxUpgrades \in Nat

VARIABLES
    host,           \* the host whose connector the behaviour uses
    descriptor,     \* the descriptor of the installed program
    config,         \* the host's configuration files, shared by the repositories
    instructions,   \* AGENTS.md or the rule file of each repository
    record,         \* the user's ownership record of the host
    command,        \* the command running in each repository
    installed,      \* history: what commands have reported as connected and the user
                    \* has left in place
    interrupted,    \* history: descriptors of commands that ended half-way
    strays,         \* history: entries whose creation took effect and was reported as failed
    edits, faults, upgrades

files == <<config, instructions, record>>
vars == <<host, descriptor, config, instructions, record, command, installed, interrupted,
          strays, edits, faults, upgrades>>

Absent == [present |-> FALSE, other |-> 0, managed |-> "none"]
File(content, others) == [present : {TRUE}, other : others, managed : content] \cup {Absent}
With(file, content) == [file EXCEPT !.present = TRUE, !.managed = content]
Without(file) == [file EXCEPT !.managed = "none"]

\* A connection: a configuration file and a surface of the host that reads it.
Keys == {<<"config.toml", "cli">>, <<"config.toml", "ide">>, <<"central", "ide">>,
         <<"central", "cli">>, <<"transition", "cli">>}
Configs == {k[1] : k \in Keys}
NoWorkspace == [connections |-> {}, fingerprint |-> "none"]
NoRecord == [surfaces |-> [k \in Keys |-> "none"],
             workspaces |-> [r \in Repository |-> NoWorkspace], descriptor |-> "none"]

\* The fingerprints the record holds of a configuration file.
Proven(rec, c) == {rec.surfaces[k] : k \in {q \in Keys : q[1] = c}} \ {"none"}
UsedKeys(workspaces) == UNION {workspaces[r].connections : r \in Repository}

(***************************************************************************)
(* A plan: the edit of every configuration file, of the instructions, and  *)
(* the record to write; "from" is what the preview has read.               *)
(***************************************************************************)
Edit(from, to) == [from |-> from, to |-> to]
Plan(op, configs, instruction, updated) ==
    [op |-> op, configs |-> configs, instruction |-> instruction,
     record |-> record, updated |-> updated]
NoPlan == [op |-> "none", configs |-> [c \in {} |-> Edit(Absent, Absent)],
           instruction |-> Edit(Absent, Absent), record |-> NoRecord, updated |-> NoRecord]
Idle == [pc |-> "idle", plan |-> NoPlan, changed |-> {}, before |-> <<>>, stray |-> {}]

Running == {r \in Repository : command[r].pc # "idle"}
AtRest == \A r \in Repository : command[r].pc \in {"idle", "planned"}
Is(r, pc, op) == command[r].pc = pc /\ command[r].plan.op = op
Goto(r, pc) == command' = [command EXCEPT ![r].pc = pc]

Preview(r, plan) ==
    /\ command[r].pc = "idle" /\ Cardinality(Running) < MaxRunning
    /\ command' = [command EXCEPT ![r] = [Idle EXCEPT !.pc = "planned", !.plan = plan]]
    /\ UNCHANGED <<host, descriptor, files, installed, interrupted, strays, edits, faults, upgrades>>

ConfigUnchanged(r, c) == config[c] = command[r].plan.configs[c].from
InstructionsUnchanged(r) == instructions[r] = command[r].plan.instruction.from

\* What is left to write, in the order of the writes: the files, then the record.
Pending(plan, changed) ==
    LET Left == {c \in DOMAIN plan.configs : plan.configs[c].from # plan.configs[c].to} \ changed
    IN IF Left # {} THEN {c \in Left : c = "transition" => Left = {"transition"}}
       ELSE IF plan.instruction.from # plan.instruction.to /\ "instructions" \notin changed
            THEN {"instructions"}
       ELSE IF plan.record # plan.updated /\ "record" \notin changed THEN {"record"} ELSE {}

\* A fault the code meets with an exception: a write or a launch that fails.
Fault == faults < MaxFaults /\ faults' = faults + 1

\* Where a command goes once everything is written: a connection is verified, a
\* removal is reported.
Finished(plan) == IF plan.op = "connect" THEN "verifying" ELSE "idle"
Report(r, plan) == installed' = [installed EXCEPT ![r] =
    IF plan.op = "connect" THEN plan.updated.workspaces[r].connections
    ELSE @ \cap plan.updated.workspaces[r].connections]

\* Mutant: the files are written as previewed, whatever they hold now.
UncheckedBegin(r, unchanged) ==
    LET plan == command[r].plan
    IN /\ command[r].pc = "planned"
       /\ command' = [command EXCEPT ![r].before = <<config, instructions[r], record>>,
             ![r].pc = IF Pending(plan, {}) = {} THEN Finished(plan) ELSE "writing"]
       /\ UNCHANGED <<host, descriptor, files, installed, interrupted, strays, edits, faults, upgrades>>

\* The start of apply: what has changed since the preview fails the command, so does a
\* state directory or a backup that cannot be written.
Begin(r, unchanged) ==
    LET plan == command[r].plan
    IN /\ command[r].pc = "planned"
       /\ \/ unchanged /\ UNCHANGED faults
             /\ command' = [command EXCEPT ![r].before = <<config, instructions[r], record>>,
                   ![r].pc = IF Pending(plan, {}) = {} THEN Finished(plan) ELSE "writing"]
          \/ /\ (~unchanged /\ UNCHANGED faults) \/ (unchanged /\ Fault)
             /\ command' = [command EXCEPT ![r].before = <<config, instructions[r], record>>,
                                           ![r].pc = "undoing"]
       /\ UNCHANGED <<host, descriptor, files, installed, interrupted, strays, edits, upgrades>>

Put(r, x, edit, rec) ==
    /\ config' = IF x \in Configs THEN [config EXCEPT ![x] = edit] ELSE config
    /\ instructions' = IF x = "instructions" THEN [instructions EXCEPT ![r] = edit]
                       ELSE instructions
    /\ record' = IF x = "record" THEN rec ELSE record

EditOf(plan, x) == IF x \in Configs THEN plan.configs[x] ELSE plan.instruction

\* Mutant: a write is noted only once it has returned.
UnnotedAttempt(changed, x) == changed

\* What a failed write leaves noted as changed.  Only the record's write is taken for done
\* before it is tried: it may fail after the file is replaced, when its mode is set.
Attempt(changed, x) == IF x = "record" THEN changed \cup {x} ELSE changed

\* A file the plan creates is linked into place and then loses its temporary name; it must
\* not have appeared meanwhile.
Creates(plan, x) == x # "record" /\ ~EditOf(plan, x).from.present
Creatable(r, x) ==
    LET now == IF x \in Configs THEN config[x] ELSE instructions[r]
    IN Creates(command[r].plan, x) => ~now.present

\* What a command writes.
Targets == Configs \cup {"instructions", "record"}

\* One atomic write of the plan, if the file is among the unchanged ones.
Write(r, unchanged) ==
    LET plan == command[r].plan
    IN /\ command[r].pc = "writing"
       /\ \E x \in Pending(plan, command[r].changed) :
             LET done == command[r].changed \cup {x}
                 Written == Put(r, x, EditOf(plan, x).to, plan.updated)
                 expected == x \in unchanged /\ Creatable(r, x)
             IN \/ /\ expected /\ Written /\ UNCHANGED <<faults, strays>>
                   /\ command' = IF Pending(plan, done) # {}
                         THEN [command EXCEPT ![r].changed = done]
                         ELSE IF Finished(plan) = "idle" THEN [command EXCEPT ![r] = Idle]
                         ELSE [command EXCEPT ![r].changed = done, ![r].pc = Finished(plan)]
                   /\ IF Pending(plan, done) = {} /\ Finished(plan) = "idle"
                      THEN Report(r, plan) ELSE UNCHANGED installed
                \/ /\ ~expected /\ UNCHANGED <<files, faults, installed, strays>>
                   /\ Goto(r, "undoing")
                \/ /\ expected /\ Fault /\ UNCHANGED installed
                   /\ \E stray \in {{}, {x}} :
                         /\ \/ stray = {} /\ UNCHANGED files
                            \/ stray = {} /\ x = "record" /\ Written
                            \/ stray = {x} /\ Creates(plan, x) /\ Written
                         /\ strays' = strays \cup {<<c, EditOf(plan, c).to.managed>> :
                                                      c \in stray \cap Configs}
                         /\ command' = [command EXCEPT ![r].pc = "undoing", ![r].stray = stray,
                                                       ![r].changed = Attempt(@, x)]
       /\ UNCHANGED <<host, descriptor, interrupted, edits, upgrades>>

\* The verification that ends a connect: its checks and the launch of the server.
Verify(r, valid) ==
    /\ command[r].pc = "verifying"
    /\ \/ /\ valid /\ UNCHANGED faults
          /\ command' = [command EXCEPT ![r] = Idle] /\ Report(r, command[r].plan)
       \/ /\ (~valid /\ UNCHANGED faults) \/ (valid /\ Fault)
          /\ Goto(r, "undoing") /\ UNCHANGED installed
    /\ UNCHANGED <<host, descriptor, files, interrupted, strays, edits, upgrades>>

Descriptors(plan) ==
    ({plan.configs[c].from.managed : c \in DOMAIN plan.configs}
     \cup {plan.configs[c].to.managed : c \in DOMAIN plan.configs}) \cap Descriptor

\* A command that ends with its changes half made: nothing it leaves is reported as
\* connected once it was being removed.
Abandon(r) ==
    /\ command' = [command EXCEPT ![r] = Idle]
    /\ interrupted' = interrupted \cup Descriptors(command[r].plan)
    /\ installed' = IF command[r].plan.op = "disconnect"
                    THEN [installed EXCEPT ![r] = {}] ELSE installed

\* Rollback: what was changed is put back one at a time; a failure leaves the rest as
\* it is.  A removed rule is created again, which may take effect and fail.
Undo(r, first) ==
    LET plan == command[r].plan
        left == command[r].changed
    IN /\ command[r].pc = "undoing"
       /\ \/ /\ left = {} /\ command' = [command EXCEPT ![r] = Idle]
             /\ UNCHANGED <<files, faults, installed, interrupted>>
          \/ /\ left # {} /\ UNCHANGED <<faults, installed, interrupted>>
             /\ Put(r, first, EditOf(plan, first).from, command[r].before[3])
             /\ command' = [command EXCEPT ![r].changed = left \ {first}]
          \/ /\ left # {} /\ Fault /\ Abandon(r)
             /\ \/ UNCHANGED files
                \/ /\ first # "record" /\ ~EditOf(plan, first).to.present
                   /\ Put(r, first, EditOf(plan, first).from, command[r].before[3])
       /\ UNCHANGED <<host, descriptor, strays, edits, upgrades>>

\* The process is killed between two of its writes.
Crash(r) ==
    /\ command[r].pc \in {"writing", "verifying", "undoing"}
    /\ Fault /\ Abandon(r)
    /\ UNCHANGED <<host, descriptor, files, strays, edits, upgrades>>

(***************************************************************************)
(* The user works on the files between two commands, or between the        *)
(* preview and the apply of one, and installs another version.             *)
(***************************************************************************)
Reworked(file) == {[file EXCEPT !.present = TRUE, !.other = edits + 1]}
    \cup (IF file.managed = "none" THEN {}
          ELSE {With(file, "edited"), Without(file), Absent})
ReworkedConfig(file) ==
    Reworked(file) \cup (IF file.managed = "none" THEN {With(file, "user")} ELSE {})
ReworkedRule(file) == {With(Absent, "edited"), Absent} \ {file}

UserEdit ==
    /\ AtRest /\ edits < MaxEdits /\ edits' = edits + 1
    /\ \/ \E c \in Configs : \E f \in ReworkedConfig(config[c]) :
             /\ (c = "config.toml") = (host = "codex")
             /\ config' = [config EXCEPT ![c] = f]
             /\ installed' = IF f.managed = config[c].managed THEN installed
                             ELSE [r \in Repository |-> {}]
             /\ UNCHANGED instructions
       \/ \E r \in Repository : \E f \in IF host = "codex" THEN Reworked(instructions[r])
                                         ELSE ReworkedRule(instructions[r]) :
             /\ instructions' = [instructions EXCEPT ![r] = f]
             /\ installed' = IF f.managed = instructions[r].managed THEN installed
                             ELSE [installed EXCEPT ![r] = {}]
             /\ UNCHANGED config
    /\ UNCHANGED <<host, descriptor, record, command, interrupted, strays, faults, upgrades>>

Upgrade ==
    /\ AtRest /\ upgrades < MaxUpgrades /\ upgrades' = upgrades + 1
    /\ descriptor' \in Descriptor \ {descriptor}
    /\ UNCHANGED <<host, files, command, installed, interrupted, strays, edits, faults>>
===============================================================================
