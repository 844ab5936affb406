---------------------------- MODULE CodexConnector ----------------------------
(***************************************************************************)
(* The Codex connector: one user-level config.toml with one managed region *)
(* for all surfaces, a managed region in the AGENTS.md of each worktree,   *)
(* and codex-ownership.json.                                               *)
(***************************************************************************)
EXTENDS ConnectorFiles

Toml == "config.toml"
CodexKeys == {k \in Keys : k[1] = Toml}
\* The region of schema 0, recognized when it names the descriptor of the program.
LegacyRegion(d) == IF d = FirstDescriptor THEN {"legacy"} ELSE {}

Outcome(ready, file) == [ready |-> ready, file |-> file]

\* A region is added, kept or replaced; what is not proven to be the connector's is not.
CodexTomlEdit(file, d, proven) ==
    Outcome(file.managed \in {"none", d} \cup proven \cup LegacyRegion(d), With(file, d))

CodexTomlRemoval(file, expected) ==
    Outcome(file.managed \in {"none", expected}, Without(file))

CodexAgentsEdit(file, proven) ==
    Outcome(file.managed \in {"none", "current", "previous"} \cup proven, With(file, "current"))

CodexAgentsRemoval(file, expected) ==
    Outcome(file.managed \in {"none", expected}, Without(file))

\* auto and all take the surfaces that are found: all of them once the configuration
\* exists, those with an executable of their own before.
SelectCodexTarget ==
    {{k} : k \in CodexKeys}
    \cup (IF config[Toml].present THEN {CodexKeys} ELSE (SUBSET CodexKeys) \ {{}})

\* Mutant: only the selected surfaces are recorded with the region now in the file.
ForgetfulCodexMergeOwnership(r, keys, d) ==
    [surfaces |-> [k \in Keys |-> IF k \in keys THEN d ELSE record.surfaces[k]],
     workspaces |-> [record.workspaces EXCEPT ![r].connections = @ \cup keys,
                                              ![r].fingerprint = "current"],
     descriptor |-> d]

\* The region is shared: every recorded surface of the file gets its new fingerprint.
CodexMergeOwnership(r, keys, d) ==
    [surfaces |-> [k \in Keys |->
        IF k \in keys \/ (k[1] = Toml /\ record.surfaces[k] # "none")
        THEN d ELSE record.surfaces[k]],
     workspaces |-> [record.workspaces EXCEPT ![r].connections = @ \cup keys,
                                              ![r].fingerprint = "current"],
     descriptor |-> d]

\* The configuration and AGENTS.md a connect would write; it is refused when one of them
\* holds something else under the connector's name.
CodexTargets(r) ==
    [toml |-> CodexTomlEdit(config[Toml], descriptor, Proven(record, Toml)),
     agents |-> CodexAgentsEdit(instructions[r],
                                {record.workspaces[r].fingerprint} \ {"none"})]

PrepareCodexConnection(r) == \E keys \in SelectCodexTarget :
    LET target == CodexTargets(r)
    IN /\ host = "codex"
       /\ target.toml.ready /\ target.agents.ready
       /\ Preview(r, Plan("connect", [c \in {Toml} |-> Edit(config[c], target.toml.file)],
                          Edit(instructions[r], target.agents.file),
                          CodexMergeOwnership(r, keys, descriptor)))

\* Mutant: the region is dropped with the last connection of this worktree.
SelfishCodexRemaining(r, remaining) ==
    LET workspaces == [record.workspaces EXCEPT ![r] =
            IF remaining = {} THEN NoWorkspace ELSE [@ EXCEPT !.connections = remaining]]
    IN [record EXCEPT !.workspaces = workspaces,
          !.surfaces = [k \in Keys |-> IF k \in remaining THEN @[k] ELSE "none"]]

\* The record once the connections of the worktree are those remaining: a surface no
\* worktree uses is dropped, and the record itself when nothing is left.
CodexRemaining(r, remaining) ==
    LET workspaces == [record.workspaces EXCEPT ![r] =
            IF remaining = {} THEN NoWorkspace ELSE [@ EXCEPT !.connections = remaining]]
    IN [record EXCEPT !.workspaces = workspaces,
          !.surfaces = [k \in Keys |-> IF k \in UsedKeys(workspaces) THEN @[k] ELSE "none"]]

\* Mutant: the record goes with the first worktree that is disconnected.
EagerOrNone(rec) ==
    IF \E r \in Repository : rec.workspaces[r] = NoWorkspace THEN NoRecord ELSE rec

OrNone(rec) == IF UsedKeys(rec.workspaces) = {} THEN NoRecord ELSE rec

\* The region goes only with the last surface recorded for it, and when the record is of
\* one mind about it; AGENTS.md only with the last connection of the worktree.
CodexRemovals(r, remaining) ==
    LET last == Proven(record, Toml) # {} /\ Proven(CodexRemaining(r, remaining), Toml) = {}
    IN [toml |-> IF ~last \/ ~config[Toml].present THEN Outcome(TRUE, config[Toml])
                 ELSE CodexTomlRemoval(config[Toml], CHOOSE f \in Proven(record, Toml) : TRUE),
        agents |-> IF remaining # {} \/ ~instructions[r].present
                   THEN Outcome(TRUE, instructions[r])
                   ELSE CodexAgentsRemoval(instructions[r], record.workspaces[r].fingerprint),
        consistent |-> last => Cardinality(Proven(record, Toml)) = 1]

PrepareCodexDisconnect(r) == \E selected \in {{k} : k \in CodexKeys} \cup {CodexKeys} :
    LET connections == record.workspaces[r].connections
        removals == CodexRemovals(r, connections \ selected)
    IN /\ host = "codex"
       /\ connections \cap selected # {}
       /\ removals.consistent /\ removals.toml.ready /\ removals.agents.ready
       /\ Preview(r, Plan("disconnect", [c \in {Toml} |-> Edit(config[c], removals.toml.file)],
                          Edit(instructions[r], removals.agents.file),
                          OrNone(CodexRemaining(r, connections \ selected))))

\* The checks of the record against the files in a verification.
CodexFilesVerified(r) ==
    LET workspace == record.workspaces[r]
    IN /\ workspace.connections # {}
       /\ config[Toml].managed # "none"
       /\ \A k \in workspace.connections : record.surfaces[k] = config[Toml].managed
       /\ instructions[r].managed = workspace.fingerprint

VerifyCodexConnection(r) ==
    /\ CodexFilesVerified(r)
    /\ record.descriptor = command[r].plan.updated.descriptor

CodexUndoFirst(changed) ==
    IF "instructions" \in changed THEN "instructions"
    ELSE IF Toml \in changed THEN Toml ELSE "record"

\* Both files are compared with the preview before anything is written; the record is not.
ApplyCodexConnection(r) ==
    /\ host = "codex" /\ command[r].plan.op = "connect"
    /\ \/ Begin(r, ConfigUnchanged(r, Toml) /\ InstructionsUnchanged(r))
       \/ Write(r, Targets)
       \/ Verify(r, VerifyCodexConnection(r))
       \/ Undo(r, CodexUndoFirst(command[r].changed))

\* The record is compared first, each file when its turn comes, and only one that changes.
ApplyCodexDisconnect(r) ==
    /\ host = "codex" /\ command[r].plan.op = "disconnect"
    /\ \/ Begin(r, record = command[r].plan.record)
       \/ Write(r, {x \in Targets : \/ x = Toml /\ ConfigUnchanged(r, Toml)
                                    \/ x = "instructions" /\ InstructionsUnchanged(r)
                                    \/ x = "record"})
       \/ Undo(r, CodexUndoFirst(command[r].changed))

CodexInit ==
    /\ host = "codex"
    /\ config \in [Configs -> File({"none", "user", "legacy"}, {0})]
    /\ \A c \in Configs \ {Toml} : config[c] = Absent
    /\ instructions \in [Repository -> File({"none", "current", "previous"}, {0})]

CodexCommand(r) ==
    \/ PrepareCodexConnection(r) \/ ApplyCodexConnection(r)
    \/ PrepareCodexDisconnect(r) \/ ApplyCodexDisconnect(r)
===============================================================================
