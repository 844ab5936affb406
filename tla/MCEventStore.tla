----------------------------- MODULE MCEventStore -----------------------------
(* A small instance: two sessions of one host and a command line. *)
EXTENDS EventStore, TLC

CONSTANTS s1, s2, cli

TwoSessions == {s1, s2}
OneHost == [s \in {s1, s2} |-> "codex"]
CurrentOrReused == {"current", "reused"}
===============================================================================
