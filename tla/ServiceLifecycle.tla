-------------------------- MODULE ServiceLifecycle --------------------------
(***************************************************************************)
(* The processes of the shared local service and the clients that look for *)
(* one: `service run` (integrations/service/run-service.ts), the commands  *)
(* start, status and stop (service-lifecycle.ts) and the connection every  *)
(* client makes first (service-client.ts).  They share service.json, which *)
(* holds the token of a service, and the endpoint.  One action is one call *)
(* on the file system or the endpoint.                                     *)
(***************************************************************************)
EXTENDS Naturals, FiniteSets

CONSTANTS
    Processes,      \* the processes that may run the service, each once
    Clients,        \* the commands and MCP hosts, each runs once
    Nobody,         \* no process
    KindsOf,        \* what each client may do: a set of Kinds
    Major,          \* the major version of the package of a process or a client
    Overlap,        \* commands and starts may run at the same time
    SlowPing,       \* a service that lives may miss the time limit of a ping
    MaxCrashes      \* bound on the processes and commands that die

\* "mcp" is an MCP host with --ensure-service, "attach" is one without
Hosts == {"mcp", "attach"}
Kinds == {"status", "stop", "start"} \cup Hosts

ASSUME ConstantsAssumption ==
    /\ Nobody \notin Processes
    /\ KindsOf \in [Clients -> SUBSET Kinds]
    /\ Major \in [Processes \cup Clients -> Nat]
    /\ Overlap \in BOOLEAN /\ SlowPing \in BOOLEAN /\ MaxCrashes \in Nat

VARIABLES
    unix,       \* the endpoint is a Unix socket, a path that outlives its owner
    metadata,   \* the process whose token is in service.json, or Nobody
    socket,     \* the process whose listener the endpoint names, or Nobody
    listening,  \* the processes whose listener is open
    proc,       \* each process: where it is, what it read, what it has done
    cli,        \* each client: what it does, where it is, what it read
    crashes,    \* how many processes and commands have died
    leftovers   \* a death may have left files, and no service has started since

lvars == <<unix, metadata, socket, listening, proc, cli, crashes, leftovers>>
files == <<metadata, socket, listening>>

At(p, place) == proc[p].pc = place
NoProcess == [pc |-> "idle", seen |-> Nobody, started |-> FALSE, written |-> FALSE]
\* a process that ends forgets what it read
Goes(p, place) ==
    proc' = [proc EXCEPT ![p] = IF place = "gone" THEN [NoProcess EXCEPT !.pc = "gone"]
                                ELSE [@ EXCEPT !.pc = place, !.seen = Nobody]]
Is(c, place) == cli[c].pc = place

(***************************************************************************)
(* A ping with the token of t: it reaches whoever the endpoint names.      *)
(***************************************************************************)
Ping(t, major) ==
    (IF socket \notin listening THEN {"AFSV013"}
     ELSE IF socket # t THEN {"AFSV009"}
     ELSE IF Major[t] # major THEN {"incompatible"} ELSE {"connected"})
    \cup (IF SlowPing THEN {"AFSV013"} ELSE {})

(***************************************************************************)
(* Commands given one after another in one terminal begin when the former  *)
(* has returned and every process has settled; Overlap lets them run into  *)
(* each other.                                                             *)
(***************************************************************************)
Settled ==
    /\ \A p \in Processes : proc[p].pc \in {"idle", "serving", "gone"}
    /\ \A c \in Clients : cli[c].pc \in {"idle", "bridged", "embedded", "done"}
MayBegin == Overlap \/ Settled

-----------------------------------------------------------------------------
(* service run *)

Launch(p) == At(p, "idle") /\ Goes(p, "read")

(* A user runs the service in the foreground. *)
Run(p) ==
    /\ MayBegin
    /\ Launch(p)
    /\ UNCHANGED <<unix, files, cli, crashes, leftovers>>

ReadMetadata(p) ==
    /\ At(p, "read")
    /\ proc' = [proc EXCEPT ![p].seen = metadata, ![p].pc = IF metadata = Nobody THEN "reread" ELSE "ping"]
    /\ UNCHANGED <<unix, files, cli, crashes, leftovers>>

\* Mutant: whatever answers, the metadata counts as stale.
PingIgnored(p) ==
    /\ At(p, "ping")
    /\ Goes(p, "reread")
    /\ UNCHANGED <<unix, files, cli, crashes, leftovers>>

(* Only a service that cannot be reached counts as stale; any other answer ends this process. *)
PingExisting(p) ==
    /\ At(p, "ping")
    /\ \E answer \in Ping(proc[p].seen, Major[p]) :
          Goes(p, IF answer = "AFSV013" THEN "reread" ELSE "gone")
    /\ UNCHANGED <<unix, files, cli, crashes, leftovers>>

\* Mutant: a socket without metadata is not looked for.
ReadStaleMetadataOnly(p) ==
    /\ At(p, "reread")
    /\ Goes(p, IF metadata # Nobody THEN "clearMetadata" ELSE "load")
    /\ UNCHANGED <<unix, files, cli, crashes, leftovers>>

ReadStale(p) ==
    /\ At(p, "reread")
    /\ Goes(p, IF metadata # Nobody THEN "clearMetadata"
               ELSE IF unix /\ socket # Nobody THEN "probe" ELSE "load")
    /\ UNCHANGED <<unix, files, cli, crashes, leftovers>>

ClearMetadata(p) ==
    /\ At(p, "clearMetadata")
    /\ metadata' = Nobody
    /\ Goes(p, IF unix THEN "clearSocket" ELSE "load")
    /\ UNCHANGED <<unix, socket, listening, cli, crashes, leftovers>>

Probe(p) ==
    /\ At(p, "probe")
    /\ \/ socket \in listening /\ Goes(p, "gone")
       \/ (socket \notin listening \/ SlowPing) /\ Goes(p, "clearSocket")
    /\ UNCHANGED <<unix, files, cli, crashes, leftovers>>

ClearSocket(p) ==
    /\ At(p, "clearSocket")
    /\ socket' = Nobody
    /\ Goes(p, "load")
    /\ UNCHANGED <<unix, metadata, listening, cli, crashes, leftovers>>

(* The directory of the journal is prepared and its sessions are restored. *)
LoadSessions(p) ==
    /\ At(p, "load")
    /\ Goes(p, "listen")
    /\ UNCHANGED <<unix, files, cli, crashes, leftovers>>

(* A path or a pipe name that exists is an address in use, whoever owns it. *)
Listen(p) ==
    /\ At(p, "listen")
    /\ IF socket = Nobody
       THEN /\ socket' = p
            /\ listening' = listening \cup {p}
            /\ proc' = [proc EXCEPT ![p].started = TRUE, ![p].pc = IF unix THEN "restrict" ELSE "publish"]
       ELSE Goes(p, "save") /\ UNCHANGED <<socket, listening>>
    /\ UNCHANGED <<unix, metadata, cli, crashes, leftovers>>

(* chmod of the socket path, whoever it names by now. *)
Restrict(p) ==
    /\ At(p, "restrict")
    /\ Goes(p, IF socket = Nobody THEN "save" ELSE "publish")
    /\ UNCHANGED <<unix, files, cli, crashes, leftovers>>

ChooseMode(p) ==
    /\ At(p, "publish")
    /\ proc' = [proc EXCEPT ![p].seen = metadata, ![p].pc = "write"]
    /\ UNCHANGED <<unix, files, cli, crashes, leftovers>>

Serves(p) ==
    proc' = [proc EXCEPT ![p].written = TRUE, ![p].pc = "serving", ![p].seen = Nobody] /\ leftovers' = FALSE

(* Created exclusively if there was none when it looked, else replaced. *)
WriteMetadata(p) ==
    /\ At(p, "write")
    /\ IF proc[p].seen = Nobody /\ metadata # Nobody
       THEN Goes(p, "save") /\ UNCHANGED <<metadata, leftovers>>
       ELSE /\ metadata' = p
            /\ IF unix THEN Goes(p, "protect") /\ UNCHANGED leftovers ELSE Serves(p)
    /\ UNCHANGED <<unix, socket, listening, cli, crashes>>

Protect(p) ==
    /\ At(p, "protect")
    /\ IF metadata = Nobody THEN Goes(p, "save") /\ UNCHANGED leftovers ELSE Serves(p)
    /\ UNCHANGED <<unix, files, cli, crashes>>

(* A signal stops the service. *)
Signal(p) ==
    /\ At(p, "serving") /\ MayBegin
    /\ Goes(p, "save")
    /\ UNCHANGED <<unix, files, cli, crashes, leftovers>>

SaveSessions(p) ==
    /\ At(p, "save")
    /\ Goes(p, "close")
    /\ UNCHANGED <<unix, files, cli, crashes, leftovers>>

(* Closing a listener removes the path it was bound to, whoever is bound there now. *)
CloseServer(p) ==
    /\ At(p, "close")
    /\ listening' = listening \ {p}
    /\ socket' = IF p \in listening /\ (unix \/ socket = p) THEN Nobody ELSE socket
    /\ Goes(p, IF proc[p].written THEN "own"
               ELSE IF proc[p].started /\ unix THEN "dropSocket" ELSE "gone")
    /\ UNCHANGED <<unix, metadata, cli, crashes, leftovers>>

CheckOwn(p) ==
    /\ At(p, "own")
    /\ Goes(p, IF metadata # p THEN "gone" ELSE IF unix THEN "dropSocket" ELSE "dropMetadata")
    /\ UNCHANGED <<unix, files, cli, crashes, leftovers>>

\* Mutant: the metadata is left to the next start.
DropSocketOnly(p) ==
    /\ At(p, "dropSocket")
    /\ socket' = Nobody
    /\ Goes(p, "gone")
    /\ UNCHANGED <<unix, metadata, listening, cli, crashes, leftovers>>

DropSocket(p) ==
    /\ At(p, "dropSocket")
    /\ socket' = Nobody
    /\ Goes(p, IF proc[p].written THEN "dropMetadata" ELSE "gone")
    /\ UNCHANGED <<unix, metadata, listening, cli, crashes, leftovers>>

DropMetadata(p) ==
    /\ At(p, "dropMetadata")
    /\ metadata' = Nobody
    /\ Goes(p, "gone")
    /\ UNCHANGED <<unix, socket, listening, cli, crashes, leftovers>>

(* The process dies: a pipe goes with it, a socket path stays. *)
Crash(p) ==
    /\ proc[p].pc \notin {"idle", "gone"} /\ crashes < MaxCrashes
    /\ crashes' = crashes + 1
    /\ leftovers' = TRUE
    /\ listening' = listening \ {p}
    /\ socket' = IF ~unix /\ socket = p THEN Nobody ELSE socket
    /\ Goes(p, "gone")
    /\ UNCHANGED <<unix, metadata, cli>>

-----------------------------------------------------------------------------
(* start, status, stop, and the start of an MCP host *)

\* only a host that is connected uses what it read again
Turn(r, place) == [r EXCEPT !.pc = place, !.seen = IF place \in {"request", "bridged"} THEN @ ELSE Nobody]
Moves(c, place) == cli' = [cli EXCEPT ![c] = Turn(@, place)]
UNCHANGED_BUT_CLI == UNCHANGED <<unix, files, proc, crashes, leftovers>>

Begin(c, kind) ==
    /\ Is(c, "idle") /\ kind \in KindsOf[c] /\ MayBegin
    /\ cli' = [cli EXCEPT ![c].kind = kind, ![c].pc = "read",
                          ![c].stage = IF kind = "start" THEN "start" ELSE "first"]
    /\ UNCHANGED_BUT_CLI

Finished(r) == IF r.kind \in Hosts THEN "embedded" ELSE "done"

(* What a client does with the answer to a connection.  A host that ensures the service  *)
(* connects, connects again inside the start, and a last time once the start has ended. *)
After(r, answer) ==
    IF answer = "incompatible" THEN Turn(r, Finished(r))
    ELSE IF r.stage = "start" /\ answer # "connected" THEN Turn(r, "spawn")
    ELSE IF r.stage = "start" /\ r.kind = "mcp" THEN Turn([r EXCEPT !.stage = "last"], "read")
    ELSE IF r.stage = "first" /\ r.kind = "mcp" /\ answer # "connected"
         THEN Turn([r EXCEPT !.stage = "start"], "read")
    ELSE IF r.kind \in Hosts THEN Turn(r, IF answer = "connected" THEN "bridged" ELSE "embedded")
    ELSE IF r.kind = "stop" /\ answer = "connected" THEN Turn(r, "request")
    ELSE IF r.kind # "start" /\ answer = "AFSV013" THEN Turn(r, "clean")
    ELSE Turn(r, "done")

ReadToken(c) ==
    /\ Is(c, "read")
    /\ LET r == [cli[c] EXCEPT !.seen = metadata] IN
       cli' = [cli EXCEPT ![c] = IF metadata = Nobody THEN After(r, "AFSV004") ELSE [r EXCEPT !.pc = "ping"]]
    /\ UNCHANGED_BUT_CLI

PingService(c) ==
    /\ Is(c, "ping")
    /\ \E answer \in Ping(cli[c].seen, Major[c]) : cli' = [cli EXCEPT ![c] = After(cli[c], answer)]
    /\ UNCHANGED_BUT_CLI

(* cleanConfirmedStaleMetadata reads service.json again and removes what it finds. *)
FindStale(c) ==
    /\ Is(c, "clean")
    /\ Moves(c, IF metadata = Nobody THEN "done" ELSE "cleanMetadata")
    /\ UNCHANGED_BUT_CLI

CleanMetadata(c) ==
    /\ Is(c, "cleanMetadata")
    /\ metadata' = Nobody
    /\ Moves(c, IF unix THEN "cleanSocket" ELSE "done")
    /\ UNCHANGED <<unix, socket, listening, proc, crashes, leftovers>>

CleanSocket(c) ==
    /\ Is(c, "cleanSocket")
    /\ socket' = Nobody
    /\ Moves(c, "done")
    /\ UNCHANGED <<unix, metadata, listening, proc, crashes, leftovers>>

Spawn(c, p) ==
    /\ Is(c, "spawn")
    /\ Launch(p)
    /\ Moves(c, "poll")
    /\ UNCHANGED <<unix, files, crashes, leftovers>>

(* A starter waits for a connection, a stopper for its absence. *)
Waits(r, connected) ==
    IF r.kind = "stop" THEN Turn(r, IF connected THEN "poll" ELSE "done")
    ELSE IF ~connected THEN Turn(r, "poll")
    ELSE IF r.kind = "mcp" THEN Turn([r EXCEPT !.stage = "last"], "read")
    ELSE Turn(r, "done")

PollToken(c) ==
    /\ Is(c, "poll")
    /\ LET r == [cli[c] EXCEPT !.seen = metadata] IN
       cli' = [cli EXCEPT ![c] = IF metadata = Nobody THEN Waits(r, FALSE) ELSE [r EXCEPT !.pc = "pollPing"]]
    /\ UNCHANGED_BUT_CLI

PollPing(c) ==
    /\ Is(c, "pollPing")
    /\ \E answer \in Ping(cli[c].seen, Major[c]) :
          cli' = [cli EXCEPT ![c] =
                    IF answer # "incompatible" THEN Waits(cli[c], answer = "connected")
                    ELSE Turn(cli[c], IF cli[c].kind = "stop" THEN "poll" ELSE Finished(cli[c]))]
    /\ UNCHANGED_BUT_CLI

(* The deadline of a start or a stop passes. *)
GiveUp(c) ==
    /\ Is(c, "poll")
    /\ Moves(c, Finished(cli[c]))
    /\ UNCHANGED_BUT_CLI

(* The service stops after it has answered; one that already stops does nothing more. *)
RequestShutdown(c) ==
    /\ Is(c, "request")
    /\ LET p == cli[c].seen IN
       \/ /\ "connected" \in Ping(p, Major[p])
          /\ proc[p].pc \in {"serving", "save", "close"}
          /\ Goes(p, IF At(p, "serving") THEN "save" ELSE proc[p].pc)
          /\ Moves(c, "poll")
       \/ /\ "connected" \notin Ping(p, Major[p]) \/ SlowPing
          /\ Moves(c, "done")
          /\ UNCHANGED proc
    /\ UNCHANGED <<unix, files, crashes, leftovers>>

(* A command is interrupted between two calls. *)
Interrupt(c) ==
    /\ ~Is(c, "idle") /\ ~Is(c, "done") /\ crashes < MaxCrashes
    /\ crashes' = crashes + 1
    /\ leftovers' = TRUE
    /\ Moves(c, "done")
    /\ UNCHANGED <<unix, files, proc>>

-----------------------------------------------------------------------------

Init ==
    /\ unix \in BOOLEAN
    /\ metadata = Nobody /\ socket = Nobody /\ listening = {}
    /\ proc = [p \in Processes |-> NoProcess]
    /\ cli = [c \in Clients |-> [kind |-> "start", stage |-> "first", pc |-> "idle",
                            seen |-> Nobody]]
    /\ crashes = 0 /\ leftovers = FALSE

ProcessStep(p) ==
    \/ ReadMetadata(p) \/ PingExisting(p) \/ ReadStale(p) \/ ClearMetadata(p) \/ Probe(p)
    \/ ClearSocket(p) \/ LoadSessions(p) \/ Listen(p) \/ Restrict(p)
    \/ ChooseMode(p) \/ WriteMetadata(p) \/ Protect(p)
    \/ SaveSessions(p) \/ CloseServer(p) \/ CheckOwn(p) \/ DropSocket(p) \/ DropMetadata(p)

ClientStep(c) ==
    \/ ReadToken(c) \/ PingService(c) \/ FindStale(c) \/ CleanMetadata(c) \/ CleanSocket(c)
    \/ \E p \in Processes : Spawn(c, p)
    \/ PollToken(c) \/ PollPing(c) \/ RequestShutdown(c)

Environment ==
    \/ \E p \in Processes : Run(p) \/ Signal(p) \/ Crash(p)
    \/ \E c \in Clients : GiveUp(c) \/ Interrupt(c) \/ \E kind \in Kinds : Begin(c, kind)

Next ==
    \/ \E p \in Processes : ProcessStep(p)
    \/ \E c \in Clients : ClientStep(c)
    \/ Environment

Spec == Init /\ [][Next]_lvars

-----------------------------------------------------------------------------

(* A service that serves can be found: service.json holds its token and    *)
(* the endpoint is its own, whatever a service that died before it, at any *)
(* point, left in the directory (run-service.ts:82-123 clears it).         *)
Discoverable ==
    \A p \in Processes : At(p, "serving") => metadata = p /\ socket = p /\ p \in listening

(* After an orderly stop no runtime file is left, also when an earlier     *)
(* service had died (the finally block of run-service.ts:205-232).         *)
NothingLeft ==
    (Settled /\ ~leftovers /\ ~\E p \in Processes : At(p, "serving"))
        => metadata = Nobody /\ socket = Nobody

(* A process that starts while nobody serves comes to serve, unless it is  *)
(* killed, whatever files it finds (run-service.ts:82-123, 178-203).       *)
StartSucceeds ==
    \A p \in Processes, n \in 0..MaxCrashes :
        (At(p, "read") /\ listening = {} /\ crashes = n) ~> (At(p, "serving") \/ crashes > n)
=============================================================================
