------------------------- MODULE AntigravityConnector -------------------------
(***************************************************************************)
(* The Antigravity connector: an entry in each selected configuration      *)
(* file, a whole rule file in each repository, and                         *)
(* antigravity-ownership.json.  The surface ide stands for desktop too:    *)
(* both read the central file only; cli may read a transition file.        *)
(***************************************************************************)
EXTENDS ConnectorFiles

CONSTANT HostDirectories    \* the configuration directories the host has created

AntigravityConfigs == {"central", "transition"}
AntigravityKeys == {k \in Keys : k[1] \in AntigravityConfigs}

Result(ready, file) == [ready |-> ready, file |-> file]

\* An entry is inserted, kept or, when proven, replaced.
AntigravityConfigEdit(file, d, proven) ==
    Result(file.managed \in {"none", d} \cup proven, With(file, d))

AntigravityConfigRemoval(file, expected) ==
    Result(file.managed \in {"none", expected}, Without(file))

\* The rule is a file of its own; the exact templates of earlier versions are recognized.
AntigravityRule(file, proven) ==
    Result(~file.present \/ file.managed \in {"current", "previous"} \cup proven,
           With(file, "current"))

Present == {c \in AntigravityConfigs : config[c].present}
Candidates(surface) == {k[1] : k \in {q \in AntigravityKeys : q[2] = surface}}

\* The file of a surface: one that exists, else one whose directory does, else the
\* central one; several are ambiguous.
SelectedForSurface(surface) ==
    LET existing == Candidates(surface) \cap Present
        parents == Candidates(surface) \cap HostDirectories
    IN IF existing # {} THEN existing ELSE IF parents # {} THEN parents ELSE {"central"}

\* The targets of each request; an ambiguous request has none.
SelectAntigravityTargets ==
    LET Explicit(s) == {<<c, s>> : c \in SelectedForSurface(s)}
        auto == IF Present # {} THEN {k \in AntigravityKeys : k[1] \in Present}
                ELSE Explicit("ide") \cup Explicit("cli")
        all == {k \in AntigravityKeys : k[1] \in
                    IF Cardinality(SelectedForSurface(k[2])) > 1 THEN Present \cup HostDirectories
                    ELSE SelectedForSurface(k[2])}
    IN {keys \in {Explicit("ide"), Explicit("cli"), auto} :
            Cardinality({k[1] : k \in keys}) = 1} \cup {all}

\* Only the selected surfaces are recorded with the entry now in the file.
AntigravityMergeOwnership(r, keys, d) ==
    [surfaces |-> [k \in Keys |-> IF k \in keys THEN d ELSE record.surfaces[k]],
     workspaces |-> [record.workspaces EXCEPT ![r].connections = @ \cup keys,
                                              ![r].fingerprint = "current"],
     descriptor |-> d]

AntigravityTargets(r, keys) ==
    [configs |-> [c \in {k[1] : k \in keys} |->
        AntigravityConfigEdit(config[c], descriptor, Proven(record, c))],
     rule |-> AntigravityRule(instructions[r], {record.workspaces[r].fingerprint} \ {"none"})]

PrepareAntigravityConnection(r) == \E keys \in SelectAntigravityTargets :
    LET target == AntigravityTargets(r, keys)
        written == DOMAIN target.configs
    IN /\ host = "antigravity"
       /\ target.rule.ready /\ \A c \in written : target.configs[c].ready
       /\ Preview(r, Plan("connect",
              [c \in written |-> Edit(config[c], target.configs[c].file)],
              Edit(instructions[r], target.rule.file),
              AntigravityMergeOwnership(r, keys, descriptor)))

\* The record once the connections of the repository are those remaining.
AntigravityRemaining(r, remaining) ==
    LET workspaces == [record.workspaces EXCEPT ![r] =
            IF remaining = {} THEN NoWorkspace ELSE [@ EXCEPT !.connections = remaining]]
    IN [record EXCEPT !.workspaces = workspaces,
          !.surfaces = [k \in Keys |-> IF k \in UsedKeys(workspaces) THEN @[k] ELSE "none"]]

\* Every file no recorded surface uses any more must hold the one recorded entry, and the
\* rule what is recorded for it.
AntigravityRemovals(r, remaining) ==
    LET updated == AntigravityRemaining(r, remaining)
        dropped == {c \in AntigravityConfigs : Proven(record, c) # {} /\ Proven(updated, c) = {}}
        Removal(c) == AntigravityConfigRemoval(config[c], CHOOSE f \in Proven(record, c) : TRUE)
        rule == instructions[r]
    IN [configs |-> [c \in dropped |-> Edit(config[c], Removal(c).file)],
        rule |-> Edit(rule, IF remaining = {} THEN Absent ELSE rule),
        ready |-> /\ \A c \in dropped : /\ Cardinality(Proven(record, c)) = 1
                                        /\ config[c].present /\ Removal(c).ready
                  /\ remaining = {} /\ rule.present
                        => rule.managed = record.workspaces[r].fingerprint]

PrepareAntigravityDisconnect(r) == \E selected \in (SUBSET {"ide", "cli"}) \ {{}} :
    LET connections == record.workspaces[r].connections
        remaining == {k \in connections : k[2] \notin selected}
        removals == AntigravityRemovals(r, remaining)
        updated == AntigravityRemaining(r, remaining)
    IN /\ host = "antigravity"
       /\ remaining # connections /\ removals.ready
       /\ Preview(r, Plan("disconnect", removals.configs, removals.rule,
              IF UsedKeys(updated.workspaces) = {} THEN NoRecord ELSE updated))

\* The verification looks at every recorded surface, whichever repository connected it.
AntigravityFilesVerified(r) ==
    /\ record.workspaces[r].connections # {}
    /\ \A k \in Keys : record.surfaces[k] # "none" => config[k[1]].managed = record.surfaces[k]
    /\ instructions[r].managed = record.workspaces[r].fingerprint

VerifyAntigravityConnection(r) ==
    /\ AntigravityFilesVerified(r)
    /\ record.descriptor = command[r].plan.updated.descriptor

AntigravityUndoFirst(changed) ==
    IF "transition" \in changed THEN "transition"
    ELSE IF "central" \in changed THEN "central"
    ELSE IF "instructions" \in changed THEN "instructions" ELSE "record"

\* What a disconnect does not change it does not compare, neither does it the record.
Unmoved(r) ==
    LET plan == command[r].plan
        Same(x) == plan.op = "disconnect" /\ x.from = x.to
    IN /\ \A c \in DOMAIN plan.configs : Same(plan.configs[c]) \/ ConfigUnchanged(r, c)
       /\ Same(plan.instruction) \/ InstructionsUnchanged(r)

ApplyAntigravityConnection(r) ==
    /\ host = "antigravity" /\ command[r].plan.op = "connect"
    /\ \/ Begin(r, Unmoved(r))
       \/ Write(r, Targets)
       \/ Verify(r, VerifyAntigravityConnection(r))
       \/ Undo(r, AntigravityUndoFirst(command[r].changed))

ApplyAntigravityDisconnect(r) ==
    /\ host = "antigravity" /\ command[r].plan.op = "disconnect"
    /\ \/ Begin(r, Unmoved(r))
       \/ Write(r, Targets)
       \/ Undo(r, AntigravityUndoFirst(command[r].changed))

AntigravityInit ==
    /\ host = "antigravity"
    /\ config \in [Configs -> File({"none", "user"}, {0})]
    /\ config["config.toml"] = Absent
    /\ instructions \in [Repository -> File({"current", "previous", "edited"}, {0})]

AntigravityCommand(r) ==
    \/ PrepareAntigravityConnection(r) \/ ApplyAntigravityConnection(r)
    \/ PrepareAntigravityDisconnect(r) \/ ApplyAntigravityDisconnect(r)
===============================================================================
