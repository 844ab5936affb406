------------------------- MODULE MCServiceSessions -------------------------
(* Small instances of ServiceSessions: two agents that share a repository. *)
EXTENDS ServiceSessions

CONSTANTS codex, antigravity

TwoAgents == {codex, antigravity}

NoneOutside == {}
AllOutside == OutsideKinds
Heartbeats == {"heartbeat", "persistent heartbeat"}

NoFailures == {}
CheckpointFailures == {"checkpoint"}
AllFailures == FailureKinds
=============================================================================
