------------------------------ MODULE McpHost ------------------------------
(***************************************************************************)
(* MCP hosts that delegate to the shared service: the bridge               *)
(* (integrations/mcp/service-bridge.ts), its heartbeat timers              *)
(* (heartbeat-manager.ts), the shutdown when stdio closes or a signal      *)
(* comes (run-mcp-server.ts), and the requests of the client, which it may *)
(* give up while the service still works on them (service-client.ts).  Of  *)
(* the service there is what decides how long a session lasts: its lease,  *)
(* and the recovery once the lease has run out (session-registry.ts,       *)
(* service-coordinator.ts), with the sessions of one repository, whose     *)
(* queue recovers one at a time.  The rest is in ServiceSessions.          *)
(***************************************************************************)
EXTENDS ServiceLifecycle

CONSTANTS
    Sessions,       \* the sessions a service may open
    NoSession,
    LateOpen        \* a host may shut down while an open is under way, or open one meanwhile

ASSUME SessionsAssumption == NoSession \notin Sessions /\ LateOpen \in BOOLEAN

VARIABLES
    session,    \* each session: its state, its service, its host, its lease and its recovery
    recovering, \* the session each process recovers in the queue of the repository
    call,       \* the request of each host: what, to whom, how far, and whether it still waits
    timers,     \* the sessions each host has a heartbeat timer for
    beats,      \* the sessions with a heartbeat under way, one at a time
    detaches,   \* the sessions with a detach under way
    stdio       \* each host's stdio: open, closing while a signal is obeyed, or closed
svars == <<session, recovering>>
bvars == <<call, timers, beats, detaches, stdio>>
hvars == <<svars, bvars>>
allvars == <<lvars, hvars>>

RetryLimit == 3
NoCall == [op |-> "none", at |-> Nobody, name |-> NoSession, ok |-> FALSE, handled |-> FALSE, waiting |-> FALSE]
Unopened == [state |-> "none", at |-> Nobody, by |-> Nobody, lease |-> FALSE, attempts |-> 0, retry |-> "none"]
Opened(p, h) == [Unopened EXCEPT !.state = "open", !.at = p, !.by = h, !.lease = TRUE]

HostClients == {h \in Clients : KindsOf[h] \cap Hosts # {}}
Bridged(h) == Is(h, "bridged")
Alive(p) == proc[p].pc \notin {"idle", "gone"}
Active(n) == session[n].state \in {"open", "detached"}
\* The lease of a session has run out, or the time of a retry has come.
Stale(n) == (Active(n) /\ ~session[n].lease) \/ (session[n].state = "pending" /\ session[n].retry = "due")
\* No heartbeat of a session is under way, and none will be sent.
Quiet(n) == n \notin beats /\ \A h \in HostClients : n \notin timers[h]
Free(p) == recovering[p] = NoSession

-----------------------------------------------------------------------------
(* The requests of a host *)

(* A request with the token the host read when it started: another service refuses it. *)
Sends(h, op, n) ==
    /\ Bridged(h) /\ call[h] = NoCall /\ "connected" \in Ping(cli[h].seen, Major[h])
    /\ call' = [call EXCEPT ![h] = [NoCall EXCEPT !.op = op, !.at = cli[h].seen, !.name = n, !.waiting = TRUE]]
    /\ UNCHANGED <<lvars, svars, timers, beats, detaches, stdio>>

CallOpen(h) ==
    /\ stdio[h] = "open" \/ (stdio[h] = "closing" /\ LateOpen)
    /\ Sends(h, "open", NoSession)

CallClose(h, n) ==
    /\ stdio[h] # "closed" /\ n \in timers[h]
    /\ Sends(h, "close", n)

Handled(h, n, ok) == call' = [call EXCEPT ![h].handled = TRUE, ![h].name = n, ![h].ok = ok]

\* Another agent opens a session: a fresh one may be superseded.
Switched(s, p) ==
    {s} \cup {[s EXCEPT ![m].state = "ended"] : m \in {k \in Sessions : Active(k) /\ s[k].at = p /\ s[k].lease}}

(* The service carries the request out, whether or not the client still waits; an open *)
(* may fail, and the answer of one that did not may be withheld (sanitizeResult).       *)
HandleOpen(h) ==
    LET p == call[h].at IN
    /\ call[h].op = "open" /\ ~call[h].handled /\ Alive(p) /\ Free(p)
    /\ \E s \in Switched(session, p) :
          \/ session' = s /\ Handled(h, NoSession, FALSE)
          \/ \E n \in Sessions, ok \in BOOLEAN :
                /\ s[n] = Unopened
                /\ session' = [s EXCEPT ![n] = Opened(p, h)]
                /\ Handled(h, n, ok)
    /\ UNCHANGED <<lvars, recovering, timers, beats, detaches, stdio>>

(* Only an open session is closed. *)
HandleClose(h) ==
    LET n == call[h].name IN
    /\ call[h].op = "close" /\ ~call[h].handled /\ Alive(call[h].at) /\ Free(call[h].at)
    /\ \/ session[n].state = "open" /\ session' = [session EXCEPT ![n].state = "ended"] /\ Handled(h, n, TRUE)
       \/ UNCHANGED session /\ Handled(h, n, FALSE)
    /\ UNCHANGED <<lvars, recovering, timers, beats, detaches, stdio>>

(* The answer arrives: a successful open starts a timer, whether or not the *)
(* host has shut down; a successful close stops one.                        *)
Answer(h) ==
    /\ call[h].handled /\ call[h].waiting
    /\ timers' = [timers EXCEPT ![h] = IF ~call[h].ok THEN @
                                       ELSE IF call[h].op = "open" THEN @ \cup {call[h].name}
                                       ELSE @ \ {call[h].name}]
    /\ call' = [call EXCEPT ![h] = NoCall]
    /\ UNCHANGED <<lvars, svars, beats, detaches, stdio>>

(* Two seconds without an answer, or a service that died: the tool call fails. *)
CallFails(h) ==
    /\ call[h].waiting
    /\ call' = [call EXCEPT ![h] = IF @.handled \/ ~Alive(@.at) THEN NoCall ELSE [@ EXCEPT !.waiting = FALSE]]
    /\ UNCHANGED <<lvars, svars, timers, beats, detaches, stdio>>

(* What was given up is carried out, or dies with the service. *)
Abandoned(h) ==
    /\ call[h].op # "none" /\ ~call[h].waiting
    /\ call[h].handled \/ ~Alive(call[h].at)
    /\ call' = [call EXCEPT ![h] = NoCall]
    /\ UNCHANGED <<lvars, svars, timers, beats, detaches, stdio>>

-----------------------------------------------------------------------------
(* Heartbeats and detaches, which do not pass the queue *)

(* A timer fires, also after heartbeats that failed. *)
Beat(h, n) ==
    /\ n \in timers[h] /\ n \notin beats
    /\ beats' = beats \cup {n}
    /\ UNCHANGED <<lvars, svars, call, timers, detaches, stdio>>

(* touch: only an open session is renewed, be its lease over or not. *)
HandleBeat(n) ==
    /\ n \in beats /\ Alive(session[n].at)
    /\ beats' = beats \ {n}
    /\ session' = [session EXCEPT ![n].lease = @ \/ session[n].state = "open"]
    /\ UNCHANGED <<lvars, recovering, call, timers, detaches, stdio>>

LoseBeat(n) ==
    /\ n \in beats
    /\ beats' = beats \ {n}
    /\ UNCHANGED <<lvars, svars, call, timers, detaches, stdio>>

HandleDetach(n) ==
    /\ n \in detaches /\ Alive(session[n].at)
    /\ detaches' = detaches \ {n}
    /\ session' = [session EXCEPT ![n].state = IF @ = "open" THEN "detached" ELSE @]
    /\ UNCHANGED <<lvars, recovering, call, timers, beats, stdio>>

LoseDetach(n) ==
    /\ n \in detaches
    /\ detaches' = detaches \ {n}
    /\ UNCHANGED <<lvars, svars, call, timers, beats, stdio>>

-----------------------------------------------------------------------------
(* The lease of a session and its recovery *)

LeaseExpires(n) ==
    /\ Active(n) /\ session[n].lease
    /\ session' = [session EXCEPT ![n].lease = FALSE]
    /\ UNCHANGED <<lvars, recovering, bvars>>

RetryDue(n) ==
    /\ session[n].retry = "set"
    /\ session' = [session EXCEPT ![n].retry = "due"]
    /\ UNCHANGED <<lvars, recovering, bvars>>

(* The monitor finds a stale session and takes the queue; it looks at the lease once more there. *)
Inspect(p, n) ==
    /\ At(p, "serving") /\ Free(p)
    /\ session[n].at = p /\ Stale(n)
    /\ recovering' = [recovering EXCEPT ![p] = n]
    /\ UNCHANGED <<lvars, session, bvars>>

(* It is marked once its time-out is recorded, without another look at the lease. *)
MarkPending(p) ==
    LET n == recovering[p] IN
    /\ ~Free(p) /\ Alive(p) /\ Active(n)
    /\ session' = [session EXCEPT ![n].state = "pending"]
    /\ UNCHANGED <<lvars, recovering, bvars>>

RecoverySucceeds(n) == session' = [session EXCEPT ![n].state = "ended", ![n].retry = "none"]

\* Mutant: a failed recovery is not tried again.
RecoveryFailsOnce(n) ==
    session' = [session EXCEPT ![n].attempts = @ + 1, ![n].retry = "none"]

(* scheduleRecoveryFailure: after the last attempt no time is set for another. *)
RecoveryFails(n) ==
    LET attempts == session[n].attempts + 1 IN
    session' = [session EXCEPT ![n].attempts = attempts,
                               ![n].retry = IF attempts < RetryLimit THEN "set" ELSE "none"]

Resolve(p) ==
    LET n == recovering[p] IN
    /\ ~Free(p) /\ Alive(p) /\ session[n].state = "pending"
    /\ RecoverySucceeds(n) \/ RecoveryFails(n)
    /\ recovering' = [recovering EXCEPT ![p] = NoSession]
    /\ UNCHANGED <<lvars, bvars>>

-----------------------------------------------------------------------------
(* The end of a host *)

\* Mutant: a shutdown detaches the sessions and leaves their timers.
ShutdownDetaching(h) ==
    /\ Bridged(h) /\ stdio[h] = "open"
    /\ LateOpen \/ ~(call[h].op = "open" /\ call[h].waiting)
    /\ stdio' = [stdio EXCEPT ![h] = "closed"]
    /\ detaches' = detaches \cup timers[h]
    /\ UNCHANGED <<lvars, svars, call, timers, beats>>

(* Standard input ends, or a signal comes, which closes it last: every timer *)
(* is cleared and every session that had one is asked to be detached.        *)
Shutdown(h) ==
    /\ Bridged(h) /\ stdio[h] = "open"
    /\ LateOpen \/ ~(call[h].op = "open" /\ call[h].waiting)
    /\ \E place \in {"closing", "closed"} : stdio' = [stdio EXCEPT ![h] = place]
    /\ timers' = [timers EXCEPT ![h] = {}]
    /\ detaches' = detaches \cup timers[h]
    /\ UNCHANGED <<lvars, svars, call, beats>>

(* The detaches are answered or have failed. *)
CloseStdio(h) ==
    /\ stdio[h] = "closing"
    /\ stdio' = [stdio EXCEPT ![h] = "closed"]
    /\ UNCHANGED <<lvars, svars, call, timers, beats, detaches>>

(* With no timer and no request left, the process of the host ends. *)
HostExits(h) ==
    /\ Bridged(h) /\ stdio[h] = "closed" /\ timers[h] = {} /\ ~call[h].waiting
    /\ Moves(h, "done")
    /\ UNCHANGED_BUT_CLI
    /\ UNCHANGED hvars

HostDies(h) ==
    /\ Bridged(h) /\ Interrupt(h)
    /\ timers' = [timers EXCEPT ![h] = {}]
    /\ stdio' = [stdio EXCEPT ![h] = "closed"]
    /\ call' = [call EXCEPT ![h].waiting = FALSE]
    /\ UNCHANGED <<svars, beats, detaches>>

-----------------------------------------------------------------------------

HostInit ==
    /\ Init
    /\ session = [n \in Sessions |-> Unopened]
    /\ recovering = [p \in Processes |-> NoSession]
    /\ call = [h \in HostClients |-> NoCall]
    /\ timers = [h \in HostClients |-> {}]
    /\ beats = {} /\ detaches = {}
    /\ stdio = [h \in HostClients |-> "open"]

HostWork(h) ==
    HandleOpen(h) \/ HandleClose(h) \/ Answer(h) \/ CallFails(h) \/ Abandoned(h) \/ CloseStdio(h) \/ HostExits(h)
HostChoice(h) ==
    \/ CallOpen(h) \/ Shutdown(h) \/ HostDies(h)
    \/ \E n \in Sessions : CallClose(h, n) \/ Beat(h, n)
Arrives(n) == HandleBeat(n) \/ LoseBeat(n) \/ HandleDetach(n) \/ LoseDetach(n)
Recovery(p) == MarkPending(p) \/ Resolve(p)

LifecycleNext ==
    /\ \/ \E p \in Processes : ProcessStep(p) \/ Run(p) \/ Signal(p) \/ Crash(p)
       \/ \E c \in Clients : ClientStep(c) \/ GiveUp(c) \/ (~Bridged(c) /\ Interrupt(c))
       \/ \E c \in Clients, kind \in Kinds : Begin(c, kind)
    /\ UNCHANGED hvars

HostNext ==
    \/ LifecycleNext
    \/ \E h \in HostClients : HostWork(h) \/ HostChoice(h)
    \/ \E n \in Sessions : Arrives(n) \/ LeaseExpires(n) \/ RetryDue(n)
    \/ \E p \in Processes : Recovery(p) \/ \E n \in Sessions : Inspect(p, n)

(* The operating system runs every process, a request ends within its limit, the monitor  *)
(* looks at its sessions again and again.  A lease is sure to run out once nothing renews  *)
(* it.  A user, a signal, a heartbeat or a death need not come.                             *)
HostFairness ==
    /\ \A p \in Processes : WF_allvars(ProcessStep(p) /\ UNCHANGED hvars)
    /\ \A c \in Clients : WF_allvars(ClientStep(c) /\ UNCHANGED hvars)
    /\ \A h \in HostClients : WF_allvars(HostWork(h))
    /\ \A n \in Sessions : WF_allvars(Arrives(n))
    /\ \A n \in Sessions : WF_allvars(Quiet(n) /\ LeaseExpires(n)) /\ WF_allvars(RetryDue(n))
    /\ \A p \in Processes : WF_allvars(Recovery(p)) /\ \A n \in Sessions : WF_allvars(Inspect(p, n))

HostSpec == HostInit /\ [][HostNext]_allvars /\ HostFairness

-----------------------------------------------------------------------------

Served(n) == session[n].state # "none" /\ At(session[n].at, "serving")

(* A session whose recovery is pending is being recovered or has its next   *)
(* attempt set, until it has had three: none is forgotten by the service    *)
(* that holds it, though the mark itself sets no time (session-registry.ts: *)
(* 178-202, 283-332, service-coordinator.ts:818, 946-958).                  *)
PendingTracked ==
    \A n \in Sessions : Served(n) /\ session[n].state = "pending" =>
        \/ session[n].attempts = RetryLimit
        \/ session[n].retry # "none"
        \/ \E p \in Processes : recovering[p] = n

\* The stdio of its host has closed, or the host has never heard of it or closed it.
Disconnected(n) ==
    LET h == session[n].by IN
    stdio[h] = "closed" \/ (n \notin timers[h] /\ ~(call[h].name = n /\ call[h].waiting))

Resolved(n) ==
    session[n].state = "ended" \/ (session[n].state = "pending" /\ session[n].attempts = RetryLimit)

(* A session that lost its host, because stdio closed, the host died or it *)
(* gave the open up, is ended, or kept for inspection after three failed    *)
(* recoveries, while its service serves: no heartbeat that is late, lost    *)
(* or renews a lease found stale keeps it alive, and no failed recovery is  *)
(* the last before the third (heartbeat-manager.ts:43-58,                   *)
(* session-registry.ts:283-332, service-coordinator.ts:790-1031).           *)
DisconnectedEnds ==
    \A n \in Sessions :
        (Served(n) /\ Disconnected(n)) ~> (Resolved(n) \/ ~Served(n))
=============================================================================
