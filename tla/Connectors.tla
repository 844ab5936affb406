------------------------------ MODULE Connectors ------------------------------
(***************************************************************************)
(* The connectors of BriefOnce with the hosts Codex and Antigravity        *)
(* (integrations/connectors): connect and disconnect commands run in the   *)
(* worktrees of a user while the user edits the same files and upgrades    *)
(* the program, writes fail and processes are killed.  The connectors      *)
(* share no file, so a behaviour uses one of them.                         *)
(***************************************************************************)
EXTENDS CodexConnector, AntigravityConnector

Init ==
    /\ CodexInit \/ AntigravityInit
    /\ descriptor = FirstDescriptor
    /\ record = NoRecord
    /\ command = [r \in Repository |-> Idle]
    /\ installed = [r \in Repository |-> {}]
    /\ interrupted = {} /\ strays = {} /\ edits = 0 /\ faults = 0 /\ upgrades = 0

Next ==
    \/ \E r \in Repository : CodexCommand(r) \/ AntigravityCommand(r) \/ Crash(r)
    \/ UserEdit
    \/ Upgrade

Spec == Init /\ [][Next]_vars

-----------------------------------------------------------------------------
\* What a connector left in a configuration file the record proves to be its own, so that a
\* later connect may replace it and a disconnect remove it; after the last disconnect there is
\* nothing.  Only commands that ended half-way leave more, by a kill or a failed rollback, and
\* a creation that took effect and was reported as failed, in the file it created.
OwnEntryProven ==
    AtRest => \A c \in Configs : config[c].managed \in Descriptor =>
        \/ config[c].managed \in Proven(record, c) \cup interrupted
        \/ <<c, config[c].managed>> \in strays

\* The shared entry is retained while a repository that was reported as connected depends on
\* it, whatever other repositories connect, disconnect, fail at or are killed in.
RetainedWhileDepended == \A r \in Repository : command[r].pc \in {"idle", "planned"} =>
    \A k \in installed[r] : config[k[1]].managed \in Descriptor

FilesVerified(r) ==
    IF host = "codex" THEN CodexFilesVerified(r) ELSE AntigravityFilesVerified(r)

\* A repository that was reported as connected would be verified again: the other
\* repositories' commands, done or rolled back, keep record and files in step for it too.
InstalledStaysVerified ==
    AtRest /\ interrupted = {} =>
        \A r \in Repository : installed[r] # {} => FilesVerified(r)

\* A command that reports its changes as rolled back leaves the files and the record as they
\* were when it began to apply its plan, but for the one file whose creation took effect and
\* was reported as failed: that file is left as planned.
RolledBack(r) == command[r].pc = "undoing" /\ command'[r].pc = "idle" /\ faults' = faults
RolledBackRestores == [][\A r \in Repository : RolledBack(r) =>
    LET before == command[r].before
        Left(x, was) == IF x \in command[r].stray THEN EditOf(command[r].plan, x).to ELSE was
    IN /\ \A c \in Configs : config'[c] = Left(c, before[1][c])
       /\ instructions'[r] = Left("instructions", before[2])
       /\ record' = before[3]]_vars

\* No step of a command changes what the user wrote: neither the rest of the files nor an
\* entry, a region or a rule the user has made or modified.
Kept(old, new) == new.other = old.other /\ (old.managed \in {"user", "edited"} => new = old)
UserContentKept == [][edits' = edits =>
    /\ \A c \in Configs : Kept(config[c], config'[c])
    /\ \A r \in Repository : Kept(instructions[r], instructions'[r])]_vars

\* A connect that was previewed as safe, and that no fault disturbs, does not fail its own
\* verification.
Succeeds == \A r \in Repository :
    command[r].pc = "verifying" /\ faults' = faults => command'[r].pc # "undoing"
AntigravityConnectSucceeds == [][host = "antigravity" => Succeeds]_vars
===============================================================================
