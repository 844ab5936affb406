------------------------------ MODULE MCMcpHost ------------------------------
(* A small instance: two processes that may run the service, a user who runs *)
(* or stops it, and an MCP host that ensures it runs.                        *)
EXTENDS McpHost, TLC

CONSTANTS p1, p2, user, host

TwoProcesses == {p1, p2}
UserAndHost == {user, host}
StopAndHost == (user :> {"stop"}) @@ (host :> {"mcp"})
OneMajor == [x \in {p1, p2, user, host} |-> 0]

\* Sessions are asked for where there is one host and one service; the rest of the instance
\* is about starts and stops.
HostAloneOpens ==
    \/ /\ \A h \in HostClients : call[h].op # "open"
       /\ \A n \in Sessions : session[n] = Unopened
    \/ proc[p2].pc = "idle" /\ cli[user].pc = "idle"
=============================================================================
