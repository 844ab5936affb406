--------------------------- MODULE McpHostProofs ---------------------------
(***************************************************************************)
(* Theorems about the service processes, their clients and the MCP hosts,  *)
(* for any number of each.                                                 *)
(*                                                                         *)
(* One part is about the recovery of the sessions, whatever the hosts and  *)
(* the processes do; the other about service.json and the endpoint, while  *)
(* commands are given one after another and no ping of a service that      *)
(* lives is late.                                                          *)
(***************************************************************************)
EXTENDS McpHost, TLAPS

----------------------------------------------------------------------------
(* Types *)

ProcessPlaces == {"idle", "read", "ping", "reread", "clearMetadata", "probe", "clearSocket", "load",
                  "listen", "restrict", "publish", "write", "protect", "serving", "save", "close",
                  "own", "dropSocket", "dropMetadata", "gone"}

ClientPlaces == {"idle", "read", "ping", "clean", "cleanMetadata", "cleanSocket", "spawn", "poll",
                 "pollPing", "request", "bridged", "embedded", "done"}

Stages == {"first", "start", "last"}

Tokens == Processes \cup {Nobody}

ProcessRecords == [pc : ProcessPlaces, seen : Tokens, started : BOOLEAN, written : BOOLEAN]

ClientRecords == [kind : Kinds, stage : Stages, pc : ClientPlaces, seen : Tokens]

LifeType ==
    /\ unix \in BOOLEAN /\ leftovers \in BOOLEAN
    /\ metadata \in Tokens /\ socket \in Tokens
    /\ listening \subseteq Processes
    /\ proc \in [Processes -> ProcessRecords]
    /\ cli \in [Clients -> ClientRecords]

\* A client that asks or delegates to a service has read its token.
Addressed ==
    \A c \in Clients : cli[c].pc \in {"ping", "pollPing", "request", "bridged"} =>
        cli[c].seen \in Processes

Busy(p) == proc[p].pc \notin {"idle", "serving", "gone"}

Moving(c) == cli[c].pc \notin {"idle", "bridged", "embedded", "done"}

\* A client that runs next to a process that starts or stops has nothing to do but to wait for it.
Waiting(c) ==
    \/ cli[c].pc \in {"poll", "pollPing"}
    \/ cli[c].pc \in {"read", "ping"} /\ cli[c].stage = "last" /\ cli[c].kind = "mcp"

\* Where a process goes
LEMMA GoesTo ==
  ASSUME LifeType, NEW p \in Processes, NEW place \in ProcessPlaces, Goes(p, place)
  PROVE  /\ proc' \in [Processes -> ProcessRecords]
         /\ proc'[p].pc = place /\ proc'[p].seen = Nobody
         /\ place # "gone" => proc'[p].written = proc[p].written
         /\ \A q \in Processes : q # p => proc'[q] = proc[q]
  <1> DEFINE none == [NoProcess EXCEPT !.pc = "gone"]
             next == [proc[p] EXCEPT !.pc = place, !.seen = Nobody]
  <1>1. proc[p] \in ProcessRecords /\ proc \in [Processes -> ProcessRecords]
    BY DEF LifeType
  <1>2. NoProcess \in ProcessRecords /\ NoProcess.seen = Nobody
    BY DEF NoProcess, ProcessRecords, ProcessPlaces, Tokens
  <1>3. none \in ProcessRecords /\ none.pc = "gone" /\ none.seen = Nobody
    BY <1>2 DEF ProcessRecords, ProcessPlaces
  <1>4. /\ next \in ProcessRecords /\ next.pc = place /\ next.seen = Nobody
        /\ next.written = proc[p].written
    BY <1>1 DEF ProcessRecords, Tokens
  <1>5. proc' = [proc EXCEPT ![p] = IF place = "gone" THEN none ELSE next]
    BY DEF Goes
  <1> HIDE DEF none, next
  <1> QED
    BY <1>1, <1>3, <1>4, <1>5

\* Where a client turns
LEMMA TurnTo ==
  ASSUME NEW r \in ClientRecords, NEW place \in ClientPlaces
  PROVE  /\ Turn(r, place) \in ClientRecords
         /\ Turn(r, place).pc = place
         /\ Turn(r, place).kind = r.kind /\ Turn(r, place).stage = r.stage
         /\ place \in {"request", "bridged"} => Turn(r, place).seen = r.seen
  BY DEF Turn, ClientRecords, Tokens

LEMMA StageTo ==
  ASSUME NEW r \in ClientRecords, NEW stage \in Stages
  PROVE  /\ [r EXCEPT !.stage = stage] \in ClientRecords
         /\ [r EXCEPT !.stage = stage].kind = r.kind
         /\ [r EXCEPT !.stage = stage].stage = stage
  BY DEF ClientRecords

\* What a client may do after it has tried to connect
LEMMA AfterTo ==
  ASSUME NEW r \in ClientRecords, NEW answer
  PROVE  /\ After(r, answer) \in ClientRecords
         /\ After(r, answer).pc \in {"spawn", "read", "bridged", "embedded", "request", "clean", "done"}
         /\ After(r, answer).pc \in {"request", "bridged"} => After(r, answer).seen = r.seen
         /\ After(r, answer).pc \in {"request", "bridged"} => answer = "connected"
         /\ After(r, answer).pc = "clean" => answer = "AFSV013"
         /\ r.stage = "last" /\ r.kind = "mcp" => After(r, answer).pc \in {"bridged", "embedded"}
  <1> DEFINE Places == {"spawn", "read", "bridged", "embedded", "request", "clean", "done"}
             Good(x) == /\ x \in ClientRecords
                        /\ x.pc \in Places
                        /\ x.pc \in {"request", "bridged"} => x.seen = r.seen
                        /\ x.pc \in {"request", "bridged"} => answer = "connected"
                        /\ x.pc = "clean" => answer = "AFSV013"
                        /\ r.stage = "last" /\ r.kind = "mcp" => x.pc \in {"bridged", "embedded"}
  <1>0. Places \subseteq ClientPlaces /\ Finished(r) \in {"embedded", "done"}
        /\ (r.kind = "mcp" => Finished(r) = "embedded") /\ "mcp" \in Hosts
        /\ "start" \notin Hosts /\ "stop" \notin Hosts
    BY DEF ClientPlaces, Finished, Hosts
  <1>1. ASSUME NEW place \in Places \ {"request", "bridged", "clean"},
               r.stage = "last" /\ r.kind = "mcp" => place = "embedded"
        PROVE  Good(Turn(r, place))
    BY <1>0, <1>1, TurnTo
  <1>2. ASSUME answer = "connected", NEW place \in {"request", "bridged"},
               r.kind = "mcp" => place = "bridged"
        PROVE  Good(Turn(r, place))
    BY <1>0, <1>2, TurnTo
  <1>3. ASSUME NEW stage \in Stages, r.stage # "last" \/ r.kind # "mcp"
        PROVE  Good(Turn([r EXCEPT !.stage = stage], "read"))
    <2> DEFINE t == [r EXCEPT !.stage = stage]
    <2>1. t \in ClientRecords
      BY <1>3, StageTo
    <2> HIDE DEF t
    <2>2. Turn(t, "read") \in ClientRecords /\ Turn(t, "read").pc = "read"
      BY <1>0, <2>1, TurnTo
    <2> QED
      BY <1>3, <2>2 DEF t
  <1>4. ASSUME answer = "AFSV013", r.kind # "mcp"
        PROVE  Good(Turn(r, "clean"))
    BY <1>0, <1>4, TurnTo
  <1> HIDE DEF Good
  <1>5. Good(After(r, answer))
    BY <1>0, <1>1, <1>2, <1>3, <1>4 DEF After, Stages
  <1> QED
    BY <1>5 DEF Good

\* What a client that waits does next
LEMMA WaitsTo ==
  ASSUME NEW r \in ClientRecords, NEW connected \in BOOLEAN
  PROVE  /\ Waits(r, connected) \in ClientRecords
         /\ \/ Waits(r, connected).pc \in {"poll", "done"}
            \/ /\ Waits(r, connected).pc = "read" /\ Waits(r, connected).kind = "mcp"
               /\ Waits(r, connected).stage = "last"
  <1> DEFINE t == [r EXCEPT !.stage = "last"]
  <1>1. t \in ClientRecords /\ t.kind = r.kind /\ t.stage = "last"
    BY StageTo DEF Stages
  <1>2. \/ Waits(r, connected) = Turn(r, "poll")
        \/ Waits(r, connected) = Turn(r, "done")
        \/ Waits(r, connected) = Turn(t, "read") /\ r.kind = "mcp"
    <2>1. CASE connected
      BY <2>1, Zenon DEF Waits
    <2>2. CASE ~connected
      BY <2>2, Zenon DEF Waits
    <2> QED
      BY <2>1, <2>2
  <1> HIDE DEF t
  <1> QED
    BY <1>1, <1>2, TurnTo DEF ClientPlaces

\* A step of a process is one of that process alone.
LEMMA ProcessType ==
  ASSUME LifeType, NEW p \in Processes, ProcessStep(p) \/ Run(p) \/ Signal(p) \/ Crash(p)
  PROVE  /\ LifeType' /\ cli' = cli /\ unix' = unix
         /\ \A q \in Processes : q # p => proc'[q] = proc[q]
  <1> USE DEF ProcessPlaces
  <1>0. /\ proc \in [Processes -> ProcessRecords] /\ proc[p] \in ProcessRecords
        /\ metadata \in Tokens /\ socket \in Tokens /\ listening \subseteq Processes
        /\ unix \in BOOLEAN /\ leftovers \in BOOLEAN /\ cli \in [Clients -> ClientRecords]
        /\ p \in Tokens /\ Nobody \in Tokens
    BY DEF LifeType, Tokens
  <1>1. ASSUME NEW place \in ProcessPlaces, Goes(p, place), UNCHANGED <<unix, cli>>,
               metadata' \in Tokens, socket' \in Tokens, listening' \subseteq Processes,
               leftovers' \in BOOLEAN
        PROVE  LifeType' /\ \A q \in Processes : q # p => proc'[q] = proc[q]
    BY <1>0, <1>1, GoesTo DEF LifeType
  <1>2. ASSUME NEW r \in ProcessRecords, proc' = [proc EXCEPT ![p] = r], UNCHANGED <<unix, cli>>,
               metadata' \in Tokens, socket' \in Tokens, listening' \subseteq Processes,
               leftovers' \in BOOLEAN
        PROVE  LifeType' /\ \A q \in Processes : q # p => proc'[q] = proc[q]
    BY <1>0, <1>2 DEF LifeType
  <1>3. ASSUME NEW place \in ProcessPlaces, NEW seen \in Tokens, NEW started \in BOOLEAN,
               NEW written \in BOOLEAN
        PROVE  /\ [proc[p] EXCEPT !.seen = seen, !.pc = place] \in ProcessRecords
               /\ [proc[p] EXCEPT !.started = started, !.pc = place] \in ProcessRecords
               /\ [proc[p] EXCEPT !.written = written, !.pc = place, !.seen = seen] \in ProcessRecords
    BY <1>0 DEF ProcessRecords
  <1>4. CASE ReadMetadata(p)
    BY <1>0, <1>2, <1>3, <1>4 DEF ReadMetadata, files
  <1>5. CASE PingExisting(p) \/ ReadStale(p) \/ Probe(p) \/ LoadSessions(p) \/ Restrict(p)
             \/ Signal(p) \/ SaveSessions(p) \/ CheckOwn(p)
    BY <1>0, <1>1, <1>5 DEF PingExisting, ReadStale, Probe, LoadSessions, Restrict, Signal,
                            SaveSessions, CheckOwn, files
  <1>6. CASE ClearMetadata(p) \/ ClearSocket(p) \/ CloseServer(p) \/ DropSocket(p)
             \/ DropMetadata(p) \/ Crash(p)
    BY <1>0, <1>1, <1>6 DEF ClearMetadata, ClearSocket, CloseServer, DropSocket, DropMetadata, Crash
  <1>7. CASE Listen(p)
    <2>1. CASE socket = Nobody
      BY <1>0, <1>2, <1>3, <1>7, <2>1 DEF Listen
    <2>2. CASE socket # Nobody
      BY <1>0, <1>1, <1>7, <2>2 DEF Listen
    <2> QED
      BY <1>7, <2>1, <2>2 DEF Listen
  <1>8. CASE ChooseMode(p)
    BY <1>0, <1>2, <1>3, <1>8 DEF ChooseMode, files
  <1>9. Serves(p) => /\ leftovers' = FALSE
                     /\ \E r \in ProcessRecords : proc' = [proc EXCEPT ![p] = r]
    BY <1>0, <1>3 DEF Serves
  <1>10. CASE WriteMetadata(p)
    <2>1. CASE Goes(p, "save") \/ Goes(p, "protect")
      BY <1>0, <1>1, <1>10, <2>1 DEF WriteMetadata, Serves
    <2>2. CASE Serves(p)
      BY <1>0, <1>2, <1>9, <1>10, <2>2 DEF WriteMetadata
    <2> QED
      BY <1>10, <2>1, <2>2 DEF WriteMetadata
  <1>11. CASE Protect(p)
    <2>1. CASE Goes(p, "save")
      BY <1>0, <1>1, <1>11, <2>1 DEF Protect, files, Serves
    <2>2. CASE Serves(p)
      BY <1>0, <1>2, <1>9, <1>11, <2>2 DEF Protect, files
    <2> QED
      BY <1>11, <2>1, <2>2 DEF Protect
  <1>12. CASE Run(p)
    BY <1>0, <1>1, <1>12 DEF Run, Launch, files
  <1>13. cli' = cli /\ unix' = unix
    BY DEF ProcessStep, ReadMetadata, PingExisting, ReadStale, ClearMetadata, Probe, ClearSocket,
           LoadSessions, Listen, Restrict, ChooseMode, WriteMetadata, Protect, SaveSessions,
           CloseServer, CheckOwn, DropSocket, DropMetadata, Run, Signal, Crash
  <1> QED
    BY <1>4, <1>5, <1>6, <1>7, <1>8, <1>10, <1>11, <1>12, <1>13 DEF ProcessStep

\* What becomes of a client
LEMMA BecomesTo ==
  ASSUME LifeType, Addressed, NEW c \in Clients, NEW r \in ClientRecords,
         r.pc \in {"ping", "pollPing", "request", "bridged"} => r.seen \in Processes,
         cli' = [cli EXCEPT ![c] = r]
  PROVE  /\ cli' \in [Clients -> ClientRecords] /\ Addressed'
         /\ cli'[c] = r /\ \A d \in Clients : d # c => cli'[d] = cli[d]
  BY DEF LifeType, Addressed

LEMMA MovesTo ==
  ASSUME LifeType, Addressed, NEW c \in Clients, NEW place \in ClientPlaces,
         place \notin {"ping", "pollPing", "request", "bridged"}, Moves(c, place)
  PROVE  /\ cli' \in [Clients -> ClientRecords] /\ Addressed'
         /\ cli'[c].pc = place /\ \A d \in Clients : d # c => cli'[d] = cli[d]
  <1>1. cli[c] \in ClientRecords /\ cli' = [cli EXCEPT ![c] = Turn(cli[c], place)]
    BY DEF LifeType, Moves
  <1> DEFINE r == Turn(cli[c], place)
  <1>2. r \in ClientRecords /\ r.pc = place
    BY <1>1, TurnTo
  <1> HIDE DEF r
  <1> QED
    BY <1>1, <1>2, BecomesTo DEF r

\* What a step of a client does to the clients: no other one is concerned, one that is connected
\* stays so, and one that waits for a process goes on waiting, or ends.
LEMMA ClientType ==
  ASSUME LifeType, Addressed, NEW c \in Clients,
         \/ ClientStep(c) \/ GiveUp(c) \/ Interrupt(c) \/ \E kind \in Kinds : Begin(c, kind)
  PROVE  /\ cli' \in [Clients -> ClientRecords] /\ Addressed'
         /\ \A d \in Clients : d # c => cli'[d] = cli[d]
         /\ ~Interrupt(c) => ~Bridged(c)
         /\ Moving(c) \/ Interrupt(c) \/ \E kind \in Kinds : Begin(c, kind)
         /\ Waiting(c) => Waiting(c)' \/ ~Moving(c)'
  <1>0. cli[c] \in ClientRecords /\ metadata \in Tokens /\ Finished(cli[c]) \in {"embedded", "done"}
    BY DEF LifeType, Finished
  <1> DEFINE Fine == /\ cli' \in [Clients -> ClientRecords] /\ Addressed'
                     /\ \A d \in Clients : d # c => cli'[d] = cli[d]
                     /\ Waiting(c) => Waiting(c)' \/ ~Moving(c)'
  <1>1. ASSUME NEW place \in ClientPlaces \ {"ping", "pollPing", "request", "bridged"},
               Moves(c, place), Waiting(c) => place \in {"embedded", "done"}
        PROVE  Fine
    BY <1>1, MovesTo DEF Moving
  <1>2. ASSUME NEW r \in ClientRecords, cli' = [cli EXCEPT ![c] = r],
               r.pc \in {"ping", "pollPing", "request", "bridged"} => r.seen \in Processes,
               Waiting(c) => \/ r.pc \in {"poll", "pollPing", "bridged", "embedded", "done"}
                             \/ r.pc \in {"read", "ping"} /\ r.stage = "last" /\ r.kind = "mcp"
        PROVE  Fine
    BY <1>2, BecomesTo DEF Moving, Waiting
  <1>3. ASSUME metadata # Nobody
        PROVE  metadata \in Processes
    BY <1>0, <1>3 DEF Tokens
  <1>4. ASSUME NEW place \in ClientPlaces
        PROVE  LET r == [cli[c] EXCEPT !.seen = metadata]
               IN  /\ r \in ClientRecords /\ r.stage = cli[c].stage /\ r.kind = cli[c].kind
                   /\ r.seen = metadata
                   /\ [r EXCEPT !.pc = place] \in ClientRecords
                   /\ [r EXCEPT !.pc = place].pc = place
                   /\ [r EXCEPT !.pc = place].seen = metadata
                   /\ [r EXCEPT !.pc = place].stage = cli[c].stage
                   /\ [r EXCEPT !.pc = place].kind = cli[c].kind
    BY <1>0 DEF ClientRecords
  <1>12. /\ ~Interrupt(c) => ~Bridged(c)
         /\ Moving(c) \/ Interrupt(c) \/ \E kind \in Kinds : Begin(c, kind)
    BY DEF ClientStep, ReadToken, PingService, FindStale, CleanMetadata, CleanSocket, Spawn,
           PollToken, PollPing, RequestShutdown, GiveUp, Begin, Bridged, Is, Moving
  <1> SUFFICES Fine
    BY <1>12
  <1> HIDE DEF Fine
  <1> USE DEF ClientPlaces
  <1>5. CASE ReadToken(c)
    <2> DEFINE r == [cli[c] EXCEPT !.seen = metadata]
               n == [r EXCEPT !.pc = "ping"]
    <2>1. cli' = [cli EXCEPT ![c] = IF metadata = Nobody THEN After(r, "AFSV004") ELSE n]
      BY <1>5 DEF ReadToken
    <2>2. Is(c, "read") /\ (Waiting(c) => cli[c].stage = "last" /\ cli[c].kind = "mcp")
      BY <1>5 DEF ReadToken, Is, Waiting
    <2>3. /\ r \in ClientRecords /\ r.stage = cli[c].stage /\ r.kind = cli[c].kind
          /\ n \in ClientRecords /\ n.pc = "ping" /\ n.seen = metadata
          /\ n.stage = cli[c].stage /\ n.kind = cli[c].kind
      BY <1>4
    <2> HIDE DEF r, n
    <2>4. CASE metadata = Nobody
      <3> DEFINE w == After(r, "AFSV004")
      <3>1. /\ w \in ClientRecords
            /\ w.pc \in {"spawn", "read", "bridged", "embedded", "request", "clean", "done"}
            /\ w.pc \notin {"request", "bridged"}
            /\ r.stage = "last" /\ r.kind = "mcp" => w.pc \in {"bridged", "embedded"}
        BY <2>3, AfterTo
      <3>2. cli' = [cli EXCEPT ![c] = w]
        BY <2>1, <2>4
      <3> HIDE DEF w
      <3> QED
        BY <1>2, <2>2, <2>3, <3>1, <3>2
    <2>5. CASE metadata # Nobody
      BY <1>2, <1>3, <2>1, <2>2, <2>3, <2>5
    <2> QED
      BY <2>4, <2>5
  <1>6. CASE PingService(c)
    <2>1. PICK answer : cli' = [cli EXCEPT ![c] = After(cli[c], answer)]
      BY <1>6 DEF PingService
    <2>2. /\ Is(c, "ping") /\ cli[c].seen \in Processes
          /\ Waiting(c) => cli[c].stage = "last" /\ cli[c].kind = "mcp"
      BY <1>6 DEF PingService, Is, Waiting, Addressed
    <2> QED
      BY <1>0, <1>2, <2>1, <2>2, AfterTo
  <1>7. CASE FindStale(c) \/ CleanMetadata(c) \/ CleanSocket(c) \/ \E p \in Processes : Spawn(c, p)
    BY <1>1, <1>7 DEF FindStale, CleanMetadata, CleanSocket, Spawn, Is, Waiting
  <1>8. CASE PollToken(c)
    <2> DEFINE r == [cli[c] EXCEPT !.seen = metadata]
               n == [r EXCEPT !.pc = "pollPing"]
    <2>1. cli' = [cli EXCEPT ![c] = IF metadata = Nobody THEN Waits(r, FALSE) ELSE n]
      BY <1>8 DEF PollToken
    <2>2. /\ r \in ClientRecords /\ n \in ClientRecords /\ n.pc = "pollPing" /\ n.seen = metadata
      BY <1>4
    <2> HIDE DEF r, n
    <2>3. CASE metadata = Nobody
      BY <1>2, <2>1, <2>2, <2>3, WaitsTo
    <2>4. CASE metadata # Nobody
      BY <1>2, <1>3, <2>1, <2>2, <2>4
    <2> QED
      BY <2>3, <2>4
  <1>9. CASE PollPing(c)
    <2>1. PICK answer : cli' = [cli EXCEPT ![c] =
                                  IF answer # "incompatible" THEN Waits(cli[c], answer = "connected")
                                  ELSE Turn(cli[c], IF cli[c].kind = "stop" THEN "poll"
                                                    ELSE Finished(cli[c]))]
      BY <1>9 DEF PollPing
    <2>2. CASE answer # "incompatible"
      <3> DEFINE w == Waits(cli[c], answer = "connected")
      <3>1. w \in ClientRecords /\ \/ w.pc \in {"poll", "done"}
                                   \/ w.pc = "read" /\ w.kind = "mcp" /\ w.stage = "last"
        BY <1>0, WaitsTo
      <3>2. cli' = [cli EXCEPT ![c] = w]
        BY <2>1, <2>2
      <3> HIDE DEF w
      <3> QED
        BY <1>2, <3>1, <3>2
    <2>3. CASE answer = "incompatible"
      <3>1. ASSUME NEW place \in {"poll", "embedded", "done"},
                   cli' = [cli EXCEPT ![c] = Turn(cli[c], place)]
            PROVE  Fine
        <4> DEFINE w == Turn(cli[c], place)
        <4>1. w \in ClientRecords /\ w.pc = place
          BY <1>0, TurnTo
        <4> HIDE DEF w
        <4> QED
          BY <1>2, <3>1, <4>1 DEF w
      <3> QED
        BY <1>0, <2>1, <2>3, <3>1
    <2> QED
      BY <2>2, <2>3
  <1>10. CASE RequestShutdown(c) \/ GiveUp(c) \/ Interrupt(c)
    <2>1. CASE RequestShutdown(c)
      BY <1>1, <2>1 DEF RequestShutdown, Is, Waiting
    <2> QED
      BY <1>0, <1>1, <1>10, <2>1 DEF GiveUp, Interrupt
  <1>11. ASSUME NEW kind \in Kinds, Begin(c, kind)
         PROVE  Fine
    <2>1. PICK stage \in Stages : cli' = [cli EXCEPT ![c].kind = kind, ![c].pc = "read",
                                                     ![c].stage = stage]
      BY <1>11 DEF Begin, Stages
    <2> DEFINE r == [cli[c] EXCEPT !.kind = kind, !.pc = "read", !.stage = stage]
    <2>2. r \in ClientRecords /\ r.pc = "read"
      BY <1>0 DEF ClientRecords
    <2>3. cli' = [cli EXCEPT ![c] = r]
      BY <2>1
    <2>4. ~Waiting(c)
      BY <1>11 DEF Begin, Is, Waiting
    <2> HIDE DEF r
    <2> QED
      BY <1>2, <2>2, <2>3, <2>4
  <1> QED
    BY <1>5, <1>6, <1>7, <1>8, <1>9, <1>10, <1>11 DEF ClientStep

----------------------------------------------------------------------------
(* Processes, clients and hosts *)

\* A step of a process or of a client that is no bridge is none of a host.
LEMMA LifecycleType ==
  ASSUME LifeType, Addressed, LifecycleNext
  PROVE  /\ LifeType' /\ Addressed' /\ UNCHANGED hvars
         /\ \A h \in Clients : Bridged(h) => cli'[h] = cli[h]
  <1>1. ASSUME NEW p \in Processes, ProcessStep(p) \/ Run(p) \/ Signal(p) \/ Crash(p)
        PROVE  /\ LifeType' /\ Addressed'
               /\ \A h \in Clients : Bridged(h) => cli'[h] = cli[h]
    BY <1>1, ProcessType DEF Addressed
  <1>2. ASSUME NEW c \in Clients,
               \/ ClientStep(c) \/ GiveUp(c) \/ (Interrupt(c) /\ ~Bridged(c))
               \/ \E kind \in Kinds : Begin(c, kind)
        PROVE  /\ LifeType' /\ Addressed'
               /\ \A h \in Clients : Bridged(h) => cli'[h] = cli[h]
    <2>1. /\ cli' \in [Clients -> ClientRecords] /\ Addressed' /\ ~Bridged(c)
          /\ \A d \in Clients : d # c => cli'[d] = cli[d]
      <3>1. ClientStep(c) \/ GiveUp(c) \/ Interrupt(c) \/ \E kind \in Kinds : Begin(c, kind)
        BY <1>2
      <3>2. CASE Interrupt(c)
        <4>1. ~Bridged(c)
          BY <1>2, <3>2 DEF ClientStep, ReadToken, PingService, FindStale, CleanMetadata,
             CleanSocket, Spawn, PollToken, PollPing, RequestShutdown, GiveUp, Begin, Bridged, Is
        <4> QED
          BY <3>1, <4>1, ClientType
      <3>3. CASE ~Interrupt(c)
        BY <3>1, <3>3, ClientType
      <3> QED
        BY <3>2, <3>3
    <2>2. /\ proc \in [Processes -> ProcessRecords] /\ metadata \in Tokens /\ socket \in Tokens
          /\ listening \subseteq Processes /\ unix \in BOOLEAN /\ leftovers \in BOOLEAN
          /\ Nobody \in Tokens
      BY DEF LifeType, Tokens
    <2>3. proc' \in [Processes -> ProcessRecords]
      <3>1. ASSUME NEW p \in Processes, NEW place \in ProcessPlaces, Goes(p, place)
            PROVE  proc' \in [Processes -> ProcessRecords]
        BY <3>1, GoesTo
      <3>2. CASE RequestShutdown(c)
        <4>1. cli[c].seen \in Processes
          BY <3>2 DEF RequestShutdown, Is, Addressed
        <4>2. "save" \in ProcessPlaces /\ proc[cli[c].seen].pc \in ProcessPlaces
          BY <2>2, <4>1 DEF ProcessPlaces, ProcessRecords
        <4>3. \/ proc' = proc
              \/ Goes(cli[c].seen, IF At(cli[c].seen, "serving") THEN "save" ELSE proc[cli[c].seen].pc)
          BY <3>2 DEF RequestShutdown
        <4> QED
          BY <2>2, <3>1, <4>1, <4>2, <4>3
      <3>3. CASE \E p \in Processes : Spawn(c, p)
        BY <3>1, <3>3 DEF Spawn, Launch, ProcessPlaces
      <3>4. proc' = proc \/ RequestShutdown(c) \/ \E p \in Processes : Spawn(c, p)
        BY <1>2 DEF ClientStep, ReadToken, PingService, FindStale, CleanMetadata, CleanSocket,
                    PollToken, PollPing, GiveUp, Interrupt, Begin, UNCHANGED_BUT_CLI
      <3> QED
        BY <2>2, <3>2, <3>3, <3>4
    <2>4. /\ metadata' \in Tokens /\ socket' \in Tokens /\ listening' = listening
          /\ unix' = unix /\ leftovers' \in BOOLEAN
      BY <1>2, <2>2
      DEF ClientStep, ReadToken, PingService, FindStale, CleanMetadata, CleanSocket, Spawn,
          PollToken, PollPing, RequestShutdown, GiveUp, Interrupt, Begin, UNCHANGED_BUT_CLI, files
    <2> QED
      BY <2>1, <2>2, <2>3, <2>4 DEF LifeType
  <1>3. UNCHANGED hvars
    BY DEF LifecycleNext
  <1>4. CASE \E p \in Processes : ProcessStep(p) \/ Run(p) \/ Signal(p) \/ Crash(p)
    BY <1>1, <1>3, <1>4
  <1>5. CASE \E c \in Clients : ClientStep(c) \/ GiveUp(c) \/ (~Bridged(c) /\ Interrupt(c))
    <2>1. PICK c \in Clients : ClientStep(c) \/ GiveUp(c) \/ (~Bridged(c) /\ Interrupt(c))
      BY <1>5
    <2> QED
      BY <1>2, <1>3, <2>1
  <1>6. CASE \E c \in Clients, kind \in Kinds : Begin(c, kind)
    BY <1>2, <1>3, <1>6
  <1> QED
    BY <1>4, <1>5, <1>6 DEF LifecycleNext


LifeInv == LifeType /\ Addressed

LEMMA InitLife == HostInit => LifeInv
  <1> SUFFICES ASSUME HostInit PROVE LifeInv
    OBVIOUS
  <1> USE DEF HostInit, Init
  <1>1. LifeType
    BY DEF LifeType, NoProcess, ProcessRecords, ClientRecords, Tokens, ProcessPlaces, ClientPlaces,
           Stages, Kinds
  <1>2. Addressed
    BY DEF Addressed
  <1> QED
    BY <1>1, <1>2 DEF LifeInv

\* Of the steps of a host and of its sessions, only those that end it are seen by the others.
LEMMA HostStays ==
  ASSUME NEW h \in HostClients, HostWork(h) \/ HostChoice(h)
  PROVE  UNCHANGED lvars \/ HostDies(h) \/ HostExits(h)
  BY DEF HostWork, HostChoice, Sends, HandleOpen, HandleClose, Answer, Abandoned, CallOpen,
         CallClose, CallFails, Beat, CloseStdio, Shutdown

LEMMA SessionsStay ==
  ASSUME \/ \E n \in Sessions : Arrives(n) \/ LeaseExpires(n) \/ RetryDue(n)
         \/ \E p \in Processes : Recovery(p) \/ \E n \in Sessions : Inspect(p, n)
  PROVE  UNCHANGED lvars
  BY DEF Arrives, HandleBeat, LoseBeat, HandleDetach, LoseDetach, LeaseExpires, RetryDue, Recovery,
         MarkPending, Resolve, Inspect

LEMMA NextLife ==
  ASSUME LifeInv, [HostNext]_allvars
  PROVE  LifeInv'
  <1>1. LifeType /\ Addressed
    BY DEF LifeInv
  <1>2. CASE UNCHANGED lvars
    BY <1>1, <1>2 DEF LifeInv, lvars, LifeType, Addressed
  <1>3. CASE LifecycleNext
    BY <1>1, <1>3, LifecycleType DEF LifeInv
  <1>4. ASSUME NEW h \in HostClients, HostExits(h) \/ HostDies(h)
        PROVE  LifeInv'
    <2>1. h \in Clients
      BY DEF HostClients
    <2>2. Moves(h, "done") /\ UNCHANGED <<unix, files, proc>> /\ leftovers' \in BOOLEAN
      BY <1>1, <1>4 DEF HostExits, HostDies, Interrupt, UNCHANGED_BUT_CLI, LifeType
    <2>3. cli' \in [Clients -> ClientRecords] /\ Addressed'
      BY <1>1, <2>1, <2>2, MovesTo DEF ClientPlaces
    <2> QED
      BY <1>1, <2>2, <2>3 DEF LifeInv, LifeType, files
  <1>5. CASE \E h \in HostClients : HostWork(h) \/ HostChoice(h)
    BY <1>2, <1>4, <1>5, HostStays
  <1>6. CASE UNCHANGED allvars
    BY <1>2, <1>6 DEF allvars
  <1> QED
    BY <1>2, <1>3, <1>5, <1>6, SessionsStay DEF HostNext

LEMMA LifeInvariant == HostSpec => []LifeInv
  BY InitLife, NextLife, PTL DEF HostSpec

----------------------------------------------------------------------------
(* The recovery of the sessions *)

SessionStates == {"none", "open", "detached", "pending", "ended"}

SessionRecords ==
    [state : SessionStates, at : Tokens, by : HostClients \cup {Nobody}, lease : BOOLEAN,
     attempts : 0..RetryLimit, retry : {"none", "set", "due"}]

CallRecords ==
    [op : {"none", "open", "close"}, at : Tokens, name : Sessions \cup {NoSession},
     ok : BOOLEAN, handled : BOOLEAN, waiting : BOOLEAN]

\* A time is set only for a recovery that is pending, and only while attempts are left; one that
\* is pending without is being carried out.
Tracked(n) ==
    LET s == session[n] IN
    /\ s.state \notin {"pending", "ended"} => s.attempts = 0
    /\ s.retry # "none" => s.state = "pending" /\ s.attempts < RetryLimit
    /\ s.state = "pending" => \/ s.attempts = RetryLimit
                              \/ s.retry # "none"
                              \/ \E p \in Processes : recovering[p] = n

RecoveryInv ==
    /\ session \in [Sessions -> SessionRecords]
    /\ recovering \in [Processes -> Sessions \cup {NoSession}]
    /\ call \in [HostClients -> CallRecords]
    /\ \A n \in Sessions : Tracked(n)
    /\ \A p \in Processes, n \in Sessions : recovering[p] = n =>
          session[n].at = p /\ session[n].attempts < RetryLimit

LEMMA Records ==
  /\ Unopened \in SessionRecords /\ NoCall \in CallRecords
  /\ Unopened.state = "none" /\ Unopened.at = Nobody /\ Unopened.retry = "none"
  /\ Unopened.attempts = 0 /\ NoCall.at = Nobody
  /\ NoSession \notin Sessions /\ Nobody \notin Processes
  BY SessionsAssumption, ConstantsAssumption
  DEF Unopened, NoCall, SessionRecords, SessionStates, CallRecords, Tokens, RetryLimit

LEMMA HandledType ==
  ASSUME call \in [HostClients -> CallRecords], NEW h \in HostClients,
         NEW n \in Sessions \cup {NoSession}, NEW ok \in BOOLEAN, Handled(h, n, ok)
  PROVE  call' \in [HostClients -> CallRecords]
  <1> DEFINE r == [call[h] EXCEPT !.handled = TRUE, !.name = n, !.ok = ok]
  <1>1. r \in CallRecords
    BY DEF CallRecords
  <1>2. call' = [call EXCEPT ![h] = r]
    BY DEF Handled
  <1> QED
    BY <1>1, <1>2

LEMMA FailedType ==
  ASSUME NEW s \in SessionRecords, s.state = "pending", s.attempts < RetryLimit,
         NEW failed, failed = [s EXCEPT !.attempts = s.attempts + 1,
                                        !.retry = IF s.attempts + 1 < RetryLimit THEN "set" ELSE "none"]
  PROVE  /\ failed \in SessionRecords /\ failed.state = "pending" /\ failed.at = s.at
         /\ \/ failed.attempts = RetryLimit /\ failed.retry = "none"
            \/ failed.attempts < RetryLimit /\ failed.retry = "set"
  <1>1. s.attempts \in 0..2 /\ RetryLimit = 3
    BY DEF SessionRecords, RetryLimit
  <1>2. s.attempts + 1 \in 0..RetryLimit
    BY <1>1
  <1>3. failed \in SessionRecords
    BY <1>2 DEF SessionRecords
  <1>4. /\ failed.state = "pending" /\ failed.at = s.at /\ failed.attempts = s.attempts + 1
        /\ failed.retry = IF s.attempts + 1 < RetryLimit THEN "set" ELSE "none"
    BY DEF SessionRecords
  <1> QED
    BY <1>1, <1>3, <1>4

LEMMA InitRecovery == HostInit => RecoveryInv
  BY Records DEF HostInit, RecoveryInv, Tracked

\* A step that leaves the attempts and the times as they are, and the states but for the end of
\* sessions that are open or detached
LEMMA RecoveryStays ==
  ASSUME RecoveryInv, UNCHANGED recovering,
         session' \in [Sessions -> SessionRecords], call' \in [HostClients -> CallRecords],
         \A n \in Sessions :
            /\ session'[n].attempts = session[n].attempts
            /\ session'[n].at = session[n].at
            /\ session[n].state = "pending" =>
                  session'[n].state = "pending" /\ (session[n].retry # "none" => session'[n].retry # "none")
            /\ session'[n].retry # "none" => session[n].retry # "none"
            /\ session[n].state # "pending" => session'[n].state # "pending"
            /\ session[n].state = "ended" => session'[n].state = "ended"
  PROVE  RecoveryInv'
  <1>1. \A n \in Sessions : Tracked(n)'
    BY DEF RecoveryInv, Tracked
  <1> QED
    BY <1>1 DEF RecoveryInv

LEMMA StepHandleOpen ==
  ASSUME LifeInv, RecoveryInv, NEW h \in HostClients, HandleOpen(h)
  PROVE  RecoveryInv'
  <1> DEFINE p == call[h].at
             Ended(k) == [session EXCEPT ![k].state = "ended"]
  <1>1. /\ session \in [Sessions -> SessionRecords] /\ call \in [HostClients -> CallRecords]
        /\ p \in Tokens
    BY DEF RecoveryInv, CallRecords
  <1>2. PICK s \in Switched(session, p) :
           \/ session' = s /\ Handled(h, NoSession, FALSE)
           \/ \E n \in Sessions, ok \in BOOLEAN :
                 s[n] = Unopened /\ session' = [s EXCEPT ![n] = Opened(p, h)] /\ Handled(h, n, ok)
    BY DEF HandleOpen
  <1>3. call' \in [HostClients -> CallRecords]
    BY <1>1, <1>2, HandledType
  <1>4. /\ s \in [Sessions -> SessionRecords]
        /\ \A n \in Sessions : \/ s[n] = session[n]
                               \/ /\ Active(n) /\ s[n].state = "ended"
                                  /\ s[n].attempts = session[n].attempts
                                  /\ s[n].at = session[n].at /\ s[n].retry = session[n].retry
    <2>1. CASE s = session
      BY <1>1, <2>1
    <2>2. ASSUME NEW k \in Sessions, Active(k), s = Ended(k)
          PROVE  /\ s \in [Sessions -> SessionRecords]
                 /\ \A n \in Sessions : n # k => s[n] = session[n]
                 /\ s[k].state = "ended" /\ s[k].attempts = session[k].attempts
                 /\ s[k].at = session[k].at /\ s[k].retry = session[k].retry
      BY <1>1, <2>2 DEF SessionRecords, SessionStates
    <2>3. s = session \/ \E k \in Sessions : Active(k) /\ s = Ended(k)
      BY DEF Switched
    <2> QED
      BY <2>1, <2>2, <2>3
  <1>5. UNCHANGED recovering
    BY DEF HandleOpen
  <1>6. CASE session' = s
    BY <1>3, <1>4, <1>5, <1>6, RecoveryStays DEF Active, RecoveryInv, Tracked
  <1>7. ASSUME NEW n \in Sessions, s[n] = Unopened, session' = [s EXCEPT ![n] = Opened(p, h)]
        PROVE  RecoveryInv'
    <2> DEFINE r == Opened(p, h)
    <2>1. /\ r \in SessionRecords /\ r.state = "open" /\ r.attempts = 0 /\ r.retry = "none"
      BY <1>1, Records DEF Opened, SessionRecords, SessionStates
    <2>2. session' \in [Sessions -> SessionRecords] /\ session'[n] = r
          /\ \A m \in Sessions : m # n => session'[m] = s[m]
      BY <1>4, <1>7, <2>1
    <2>3. session[n].at = Nobody
      BY <1>4, <1>7, Records
    <2> HIDE DEF r
    <2>4. \A q \in Processes : recovering[q] # n
      BY <2>3, Records DEF RecoveryInv
    <2>5. \A m \in Sessions : Tracked(m)'
      BY <1>4, <1>5, <2>1, <2>2 DEF RecoveryInv, Tracked, Active
    <2>6. \A q \in Processes, m \in Sessions : recovering'[q] = m =>
             session'[m].at = q /\ session'[m].attempts < RetryLimit
      BY <1>4, <1>5, <2>2, <2>4 DEF RecoveryInv
    <2> QED
      BY <1>3, <1>5, <2>2, <2>5, <2>6 DEF RecoveryInv
  <1> QED
    BY <1>2, <1>6, <1>7

LEMMA StepHost ==
  ASSUME LifeInv, RecoveryInv, NEW h \in HostClients, HostWork(h) \/ HostChoice(h)
  PROVE  RecoveryInv'
  <1>1. /\ session \in [Sessions -> SessionRecords] /\ call \in [HostClients -> CallRecords]
        /\ cli \in [Clients -> ClientRecords] /\ h \in Clients
    BY DEF RecoveryInv, LifeInv, LifeType, HostClients
  <1>2. CASE HandleOpen(h)
    BY <1>2, StepHandleOpen
  <1>3. CASE HandleClose(h)
    <2>1. call' \in [HostClients -> CallRecords]
      <3>1. call[h].name \in Sessions \cup {NoSession}
        BY <1>1 DEF CallRecords
      <3> QED
        BY <1>1, <1>3, <3>1, HandledType DEF HandleClose
    <2>2. CASE UNCHANGED session
      BY <1>1, <1>3, <2>1, <2>2, RecoveryStays DEF HandleClose
    <2>3. CASE /\ session[call[h].name].state = "open"
               /\ session' = [session EXCEPT ![call[h].name].state = "ended"]
      <3>1. /\ session' \in [Sessions -> SessionRecords]
            /\ \A n \in Sessions : /\ session'[n].attempts = session[n].attempts
                                   /\ session'[n].at = session[n].at
                                   /\ session'[n].retry = session[n].retry
                                   /\ \/ session'[n].state = session[n].state
                                      \/ session[n].state = "open" /\ session'[n].state = "ended"
        <4> DEFINE n == call[h].name
                   r == [session[n] EXCEPT !.state = "ended"]
        <4>1. CASE n \in Sessions
          <5>1. /\ r \in SessionRecords /\ r.state = "ended" /\ r.attempts = session[n].attempts
                /\ r.at = session[n].at /\ r.retry = session[n].retry
            BY <1>1, <4>1 DEF SessionRecords, SessionStates
          <5>2. session' = [session EXCEPT ![n] = r] /\ session[n].state = "open"
            BY <2>3
          <5> HIDE DEF n, r
          <5> QED
            BY <1>1, <4>1, <5>1, <5>2
        <4>2. CASE n \notin Sessions
          <5>1. session' = session
            BY <1>1, <2>3, <4>2
          <5> QED
            BY <1>1, <5>1
        <4> QED
          BY <4>1, <4>2
      <3>2. UNCHANGED recovering
        BY <1>3 DEF HandleClose
      <3> QED
        BY <2>1, <3>1, <3>2, RecoveryStays
    <2> QED
      BY <1>3, <2>2, <2>3 DEF HandleClose
  <1>4. CASE UNCHANGED svars /\ \/ UNCHANGED call
                                \/ \E r \in CallRecords : call' = [call EXCEPT ![h] = r]
    <2>1. call' \in [HostClients -> CallRecords]
      BY <1>1, <1>4
    <2> QED
      BY <1>1, <1>4, <2>1, RecoveryStays DEF svars
  <1>5. ASSUME NEW op \in {"open", "close"}, NEW n \in Sessions \cup {NoSession}, Sends(h, op, n)
        PROVE  RecoveryInv'
    <2> DEFINE r == [NoCall EXCEPT !.op = op, !.at = cli[h].seen, !.name = n, !.waiting = TRUE]
    <2>1. r \in CallRecords
      BY <1>1 DEF NoCall, CallRecords, ClientRecords
    <2> QED
      BY <1>4, <1>5, <2>1 DEF Sends
  <1>6. ASSUME CallFails(h) \/ HostDies(h)
        PROVE  RecoveryInv'
    <2> DEFINE r == [call[h] EXCEPT !.waiting = FALSE]
    <2>1. r \in CallRecords /\ NoCall \in CallRecords
      BY <1>1, Records DEF CallRecords
    <2>2. call' = [call EXCEPT ![h] = r] \/ call' = [call EXCEPT ![h] = NoCall]
      BY <1>1, <1>6 DEF CallFails, HostDies
    <2>3. UNCHANGED svars
      BY <1>6 DEF CallFails, HostDies
    <2> QED
      BY <1>4, <2>1, <2>2, <2>3
  <1>7. CASE Answer(h) \/ Abandoned(h)
    BY <1>4, <1>7, Records DEF Answer, Abandoned
  <1>8. CASE CloseStdio(h) \/ HostExits(h) \/ Shutdown(h) \/ \E n \in Sessions : Beat(h, n)
    BY <1>4, <1>8 DEF CloseStdio, HostExits, Shutdown, Beat, hvars, bvars
  <1>9. CASE CallOpen(h) \/ \E n \in Sessions : CallClose(h, n)
    BY <1>5, <1>9 DEF CallOpen, CallClose
  <1> QED
    BY <1>2, <1>3, <1>6, <1>7, <1>8, <1>9 DEF HostWork, HostChoice

\* Heartbeats, detaches and the time that passes
LEMMA StepTime ==
  ASSUME RecoveryInv, NEW n \in Sessions, Arrives(n) \/ LeaseExpires(n) \/ RetryDue(n)
  PROVE  RecoveryInv'
  <1>1. /\ session \in [Sessions -> SessionRecords] /\ call \in [HostClients -> CallRecords]
        /\ UNCHANGED <<recovering, call>>
    BY DEF RecoveryInv, Arrives, HandleBeat, LoseBeat, HandleDetach, LoseDetach, LeaseExpires, RetryDue, bvars, svars
  <1>2. CASE UNCHANGED session
    BY <1>1, <1>2, RecoveryStays
  <1>3. ASSUME NEW r \in SessionRecords, session' = [session EXCEPT ![n] = r],
               r.attempts = session[n].attempts, r.at = session[n].at,
               \/ r.state = session[n].state
               \/ session[n].state = "open" /\ r.state = "detached",
               r.retry = session[n].retry \/ (r.retry = "due" /\ session[n].retry = "set")
        PROVE  RecoveryInv'
    BY <1>1, <1>3, RecoveryStays
  <1>4. CASE HandleBeat(n)
    <2> DEFINE r == [session[n] EXCEPT !.lease = session[n].lease \/ session[n].state = "open"]
    <2>1. session' = [session EXCEPT ![n] = r] /\ r \in SessionRecords
      BY <1>1, <1>4 DEF HandleBeat, SessionRecords
    <2> QED
      BY <1>1, <1>3, <2>1 DEF SessionRecords
  <1>5. CASE HandleDetach(n)
    <2> DEFINE r == [session[n] EXCEPT !.state = IF session[n].state = "open" THEN "detached" ELSE session[n].state]
    <2>1. session' = [session EXCEPT ![n] = r] /\ r \in SessionRecords
      BY <1>1, <1>5 DEF HandleDetach, SessionRecords, SessionStates
    <2> QED
      BY <1>1, <1>3, <2>1 DEF SessionRecords
  <1>6. CASE LeaseExpires(n)
    <2> DEFINE r == [session[n] EXCEPT !.lease = FALSE]
    <2>1. session' = [session EXCEPT ![n] = r] /\ r \in SessionRecords
      BY <1>1, <1>6 DEF LeaseExpires, SessionRecords
    <2> QED
      BY <1>1, <1>3, <2>1 DEF SessionRecords
  <1>7. CASE RetryDue(n)
    <2> DEFINE r == [session[n] EXCEPT !.retry = "due"]
    <2>1. session' = [session EXCEPT ![n] = r] /\ r \in SessionRecords /\ session[n].retry = "set"
      BY <1>1, <1>7 DEF RetryDue, SessionRecords
    <2> QED
      BY <1>1, <1>3, <2>1 DEF SessionRecords
  <1>8. CASE LoseBeat(n) \/ LoseDetach(n)
    BY <1>2, <1>8 DEF LoseBeat, LoseDetach, svars
  <1> QED
    BY <1>4, <1>5, <1>6, <1>7, <1>8 DEF Arrives

\* The monitor takes a session up, marks it, and ends its recovery one way or the other.
LEMMA StepRecovery ==
  ASSUME RecoveryInv, NEW p \in Processes, Recovery(p) \/ \E n \in Sessions : Inspect(p, n)
  PROVE  RecoveryInv'
  <1>1. /\ session \in [Sessions -> SessionRecords] /\ call \in [HostClients -> CallRecords]
        /\ recovering \in [Processes -> Sessions \cup {NoSession}] /\ UNCHANGED call
        /\ RetryLimit = 3
    BY DEF RecoveryInv, Recovery, MarkPending, Resolve, Inspect, bvars, RetryLimit
  <1>2. ASSUME NEW n \in Sessions, Inspect(p, n)
        PROVE  RecoveryInv'
    <2>1. session[n].at = p /\ session[n].attempts < RetryLimit
      BY <1>1, <1>2 DEF Inspect, Stale, Active, RecoveryInv, Tracked
    <2>2. /\ recovering' \in [Processes -> Sessions \cup {NoSession}] /\ recovering'[p] = n
          /\ \A q \in Processes : q # p => recovering'[q] = recovering[q]
          /\ recovering[p] = NoSession /\ UNCHANGED session
      BY <1>1, <1>2 DEF Inspect, Free
    <2>3. \A m \in Sessions : Tracked(m)'
      BY <2>2, Records DEF RecoveryInv, Tracked
    <2> QED
      BY <1>1, <2>1, <2>2, <2>3 DEF RecoveryInv
  <1>3. CASE MarkPending(p)
    <2> DEFINE n == recovering[p]
               r == [session[n] EXCEPT !.state = "pending"]
    <2>1. n \in Sessions /\ session' = [session EXCEPT ![n] = r] /\ UNCHANGED recovering /\ Active(n)
      BY <1>1, <1>3 DEF MarkPending, Free
    <2>2. /\ r \in SessionRecords /\ r.state = "pending" /\ r.at = session[n].at
          /\ r.attempts = session[n].attempts /\ r.retry = session[n].retry
      BY <1>1, <2>1 DEF SessionRecords, SessionStates
    <2>3. session'[n] = r /\ \A m \in Sessions : m # n => session'[m] = session[m]
      BY <1>1, <2>1
    <2>4. session' \in [Sessions -> SessionRecords]
      BY <1>1, <2>1, <2>2
    <2>5. recovering'[p] = n
      BY <2>1
    <2> HIDE DEF r, n
    <2>6. \A m \in Sessions : Tracked(m)'
      BY <2>1, <2>2, <2>3, <2>5 DEF RecoveryInv, Tracked, Active
    <2> QED
      BY <1>1, <2>1, <2>2, <2>3, <2>4, <2>6 DEF RecoveryInv
  <1>4. CASE Resolve(p)
    <2> DEFINE n == recovering[p]
               s == session[n]
               over == [s EXCEPT !.state = "ended", !.retry = "none"]
               failed == [s EXCEPT !.attempts = s.attempts + 1,
                                   !.retry = IF s.attempts + 1 < RetryLimit THEN "set" ELSE "none"]
    <2>1. n \in Sessions /\ s.state = "pending" /\ recovering' = [recovering EXCEPT ![p] = NoSession]
      BY <1>1, <1>4 DEF Resolve, Free
    <2>2. s \in SessionRecords /\ s.attempts < RetryLimit
      BY <1>1, <2>1 DEF RecoveryInv
    <2>3. session' = [session EXCEPT ![n] = over] \/ session' = [session EXCEPT ![n] = failed]
      BY <1>1, <1>4, <2>1 DEF Resolve, RecoverySucceeds, RecoveryFails
    <2>4. /\ over \in SessionRecords /\ over.state = "ended" /\ over.retry = "none"
      BY <2>2 DEF SessionRecords, SessionStates
    <2>5. /\ failed \in SessionRecords /\ failed.state = "pending" /\ failed.at = s.at
          /\ \/ failed.attempts = RetryLimit /\ failed.retry = "none"
             \/ failed.attempts < RetryLimit /\ failed.retry = "set"
      <3> HIDE DEF n, s
      <3> QED
        BY <2>1, <2>2, FailedType
    <2> HIDE DEF over, failed
    <2>6. PICK r \in {over, failed} : session' = [session EXCEPT ![n] = r]
      BY <2>3
    <2>7. /\ session' \in [Sessions -> SessionRecords] /\ session'[n] = r
          /\ \A m \in Sessions : m # n => session'[m] = session[m]
      BY <1>1, <2>1, <2>4, <2>5, <2>6
    <2>8. /\ recovering' \in [Processes -> Sessions \cup {NoSession}] /\ recovering'[p] = NoSession
          /\ \A q \in Processes : q # p => recovering'[q] = recovering[q] /\ recovering'[q] # n
      <3>1. session[n].at = p
        BY <2>1 DEF RecoveryInv
      <3>2. \A q \in Processes : recovering[q] = n => q = p
        BY <2>1, <3>1 DEF RecoveryInv
      <3> HIDE DEF n
      <3> QED
        BY <1>1, <2>1, <3>2
    <2>9. recovering[p] = n
      OBVIOUS
    <2> HIDE DEF n, s
    <2>10. \A m \in Sessions : Tracked(m)'
      BY <1>1, <2>4, <2>5, <2>6, <2>7, <2>8, <2>9 DEF RecoveryInv, Tracked
    <2>11. \A q \in Processes, m \in Sessions : recovering'[q] = m =>
              session'[m].at = q /\ session'[m].attempts < RetryLimit
      BY <2>7, <2>8, Records DEF RecoveryInv
    <2> QED
      BY <1>1, <2>7, <2>8, <2>10, <2>11 DEF RecoveryInv
  <1> QED
    BY <1>2, <1>3, <1>4 DEF Recovery

LEMMA NextRecovery ==
  ASSUME LifeInv, RecoveryInv, [HostNext]_allvars
  PROVE  RecoveryInv'
  <1>1. CASE UNCHANGED hvars
    BY <1>1, RecoveryStays DEF RecoveryInv, hvars, svars, bvars
  <1>2. CASE LifecycleNext \/ UNCHANGED allvars
    BY <1>1, <1>2 DEF LifecycleNext, allvars
  <1> QED
    BY <1>2, StepHost, StepTime, StepRecovery DEF HostNext

(* A session whose recovery is pending is being recovered or has its next   *)
(* attempt set, until it has had three (session-registry.ts:178-202,        *)
(* 283-332, service-coordinator.ts:818, 946-958): for any number of hosts,  *)
(* services and sessions, whatever heartbeats and detaches arrive, also     *)
(* when commands overlap, pings are late and hosts shut down at any time.   *)
THEOREM PendingTrackedHolds == HostSpec => []PendingTracked
  <1>1. RecoveryInv => PendingTracked
    BY DEF RecoveryInv, Tracked, PendingTracked
  <1>2. LifeInv /\ RecoveryInv /\ [HostNext]_allvars => RecoveryInv'
    BY NextRecovery
  <1> QED
    BY <1>1, <1>2, InitRecovery, LifeInvariant, PTL DEF HostSpec

----------------------------------------------------------------------------
(* The files of the service *)

OneAfterAnother == ~Overlap /\ ~SlowPing

\* The places of a process whose listener is open
Open == {"restrict", "publish", "write", "protect", "serving", "save", "close"}

\* The places of a process that keeps files
Keeping == Open \cup {"own", "dropSocket", "dropMetadata"}

\* What a process finds, or has made of the files, at each of its places
FilesOf(p) ==
    /\ p \in listening => proc[p].pc \in Open
    /\ proc[p].pc \in {"reread", "clearMetadata", "probe", "clearSocket", "load", "listen"} =>
          listening = {}
    /\ proc[p].pc \in {"probe", "clearSocket", "load", "listen", "restrict", "publish", "write"} =>
          metadata = Nobody
    /\ proc[p].pc \in {"load", "listen", "own", "dropSocket", "dropMetadata"} => socket = Nobody
    /\ proc[p].pc \in Open => socket = p /\ p \in listening
    /\ proc[p].pc \in Keeping \ {"restrict", "publish", "write"} => metadata = p
    /\ proc[p].pc \in {"serving", "save", "close", "own", "dropSocket", "dropMetadata"} =>
          proc[p].written

\* A second process lives only to find out that the first one serves.
Sole ==
    \A p, q \in Processes : Alive(p) /\ Alive(q) /\ p # q =>
        \/ At(p, "serving") /\ proc[q].pc \in {"read", "ping"}
        \/ At(q, "serving") /\ proc[p].pc \in {"read", "ping"}

OneClient ==
    /\ \A c, d \in Clients : Moving(c) /\ Moving(d) => c = d
    /\ \A c \in Clients, p \in Processes : Moving(c) /\ Busy(p) => Waiting(c)
    /\ \A c \in Clients : cli[c].pc \in {"clean", "cleanMetadata", "cleanSocket"} =>
          \A p \in Processes : ~At(p, "serving")

FilesInv ==
    /\ LifeType
    /\ \A p \in Processes : FilesOf(p)
    /\ Sole
    /\ OneClient
    /\ ~unix => socket \in listening \cup {Nobody}
    /\ ~leftovers /\ (\A p \in Processes : proc[p].pc \notin Keeping) =>
          metadata = Nobody /\ socket = Nobody

LEMMA InitFiles == HostInit => FilesInv
  <1> SUFFICES ASSUME HostInit PROVE FilesInv
    OBVIOUS
  <1>1. LifeType
    BY InitLife DEF LifeInv
  <1> USE DEF HostInit, Init
  <1>2. \A p \in Processes : FilesOf(p) /\ proc[p].pc = "idle"
    BY DEF FilesOf, NoProcess, Open, Keeping
  <1>3. Sole /\ OneClient
    BY <1>2 DEF Sole, OneClient, Alive, Moving
  <1> QED
    BY <1>1, <1>2, <1>3 DEF FilesInv

\* A process that has gone beyond asking for a service is alone, and every client waits.
LEMMA AloneThen ==
  ASSUME FilesInv, NEW p \in Processes, Busy(p), ~At(p, "read"), ~At(p, "ping")
  PROVE  /\ \A q \in Processes : q # p => ~Alive(q)
         /\ listening \subseteq {p}
         /\ FilesOf(p)
         /\ ~leftovers /\ proc[p].pc \notin Keeping => metadata = Nobody /\ socket = Nobody
  <1>1. \A q \in Processes : q # p => ~Alive(q)
    BY DEF FilesInv, Sole, Alive, Busy, At
  <1>2. \A q \in Processes : q # p => q \notin listening /\ proc[q].pc \notin Keeping
    BY <1>1 DEF FilesInv, FilesOf, Alive, Open, Keeping
  <1> QED
    BY <1>1, <1>2 DEF FilesInv, LifeType

\* A step of a process that is alone
LEMMA AloneKeeps ==
  ASSUME FilesInv, LifeType', NEW p \in Processes, Busy(p),
         \A q \in Processes : q # p => proc'[q] = proc[q] /\ ~Alive(q),
         UNCHANGED <<unix, cli>>, listening' \subseteq {p}, FilesOf(p)',
         ~unix => socket' \in listening' \cup {Nobody},
         ~leftovers' /\ proc'[p].pc \notin Keeping => metadata' = Nobody /\ socket' = Nobody
  PROVE  FilesInv'
  <1>1. \A q \in Processes : FilesOf(q)'
    BY DEF FilesOf, Alive, Open, Keeping
  <1>2. Sole'
    BY DEF Sole, Alive
  <1>3. OneClient'
    <2>1. OneClient
      BY DEF FilesInv
    <2>2. \A c \in Clients : (Moving(c)' <=> Moving(c)) /\ (Waiting(c)' <=> Waiting(c))
      BY DEF Moving, Waiting
    <2>3. \A c \in Clients : Moving(c) => Waiting(c)
      BY <2>1 DEF OneClient
    <2>4. \A c \in Clients : cli'[c].pc \notin {"clean", "cleanMetadata", "cleanSocket"}
      BY <2>3 DEF Moving, Waiting
    <2> QED
      BY <2>1, <2>2, <2>3, <2>4 DEF OneClient
  <1> QED
    BY <1>1, <1>2, <1>3 DEF FilesInv

\* A step of a process that asks for a service, next to one that serves
LEMMA AskerKeeps ==
  ASSUME FilesInv, LifeType', NEW p \in Processes, proc[p].pc \in {"idle", "read", "ping"},
         proc'[p].pc \in {"read", "ping", "gone"}, OneClient',
         \A q \in Processes : q # p => proc'[q] = proc[q],
         At(p, "idle") => \A q \in Processes : ~Busy(q),
         UNCHANGED <<unix, files, leftovers>>
  PROVE  FilesInv'
  <1>1. \A q \in Processes : FilesOf(q)'
    BY DEF FilesInv, FilesOf, files, Open, Keeping
  <1>2. Sole'
    BY DEF FilesInv, Sole, Alive, Busy, At
  <1>3. \A q \in Processes : proc'[q].pc \notin Keeping <=> proc[q].pc \notin Keeping
    BY DEF Keeping, Open
  <1> QED
    BY <1>1, <1>2, <1>3 DEF FilesInv, files

\* A service stops while no other process is on its way.
LEMMA StopKeeps ==
  ASSUME FilesInv, LifeType', NEW p \in Processes, At(p, "serving"), \A q \in Processes : ~Busy(q),
         proc'[p].pc = "save", proc'[p].written = proc[p].written, OneClient',
         \A q \in Processes : q # p => proc'[q] = proc[q],
         UNCHANGED <<unix, files, leftovers>>
  PROVE  FilesInv'
  <1>1. \A q \in Processes : FilesOf(q)'
    BY DEF FilesInv, FilesOf, files, Open, Keeping, At
  <1>2. \A q \in Processes : q # p => ~Alive(q)
    BY DEF FilesInv, Sole, Alive, Busy, At
  <1>3. Sole'
    BY <1>2 DEF Sole, Alive
  <1>4. proc[p].pc \in Keeping /\ proc'[p].pc \in Keeping
    BY DEF Keeping, Open, At
  <1> QED
    BY <1>1, <1>3, <1>4 DEF FilesInv, files

\* The clients while a process takes a step and none begins to serve
LEMMA ClientsStay ==
  ASSUME FilesInv, NEW p \in Processes, UNCHANGED cli,
         \A q \in Processes : q # p => proc'[q] = proc[q],
         Busy(p) \/ \A c \in Clients : ~Moving(c), At(p, "serving")' => At(p, "serving")
  PROVE  OneClient'
  <1>1. OneClient
    BY DEF FilesInv
  <1>2. /\ \A c \in Clients : (Moving(c)' <=> Moving(c)) /\ (Waiting(c)' <=> Waiting(c))
        /\ \A q \in Processes : At(q, "serving")' => At(q, "serving")
    BY DEF Moving, Waiting, At
  <1>3. \A c \in Clients, q \in Processes : Moving(c)' /\ Busy(q)' => Waiting(c)'
    BY <1>1, <1>2 DEF OneClient, Busy
  <1> QED
    BY <1>1, <1>2, <1>3 DEF OneClient, At

\* How a process looks for a service that runs
LEMMA StepAsk ==
  ASSUME OneAfterAnother, FilesInv, NEW p \in Processes,
         Run(p) \/ ReadMetadata(p) \/ PingExisting(p)
  PROVE  FilesInv'
  <1> USE DEF ProcessPlaces
  <1>1. LifeType /\ proc[p] \in ProcessRecords
    BY DEF FilesInv, LifeType
  <1>2. LifeType' /\ UNCHANGED <<cli, unix>> /\ \A q \in Processes : q # p => proc'[q] = proc[q]
    BY <1>1, ProcessType DEF FilesInv, ProcessStep
  <1>3. UNCHANGED <<files, leftovers>>
    BY DEF Run, ReadMetadata, PingExisting
  <1>4. ASSUME At(p, "read") \/ At(p, "ping"), listening = {}, \A q \in Processes : ~At(q, "serving"),
               proc'[p].pc = "reread"
        PROVE  FilesInv'
    <2>1. Busy(p) /\ \A q \in Processes : q # p => ~Alive(q)
      BY <1>4 DEF FilesInv, Sole, Alive, Busy, At
    <2>2. FilesOf(p)'
      BY <1>3, <1>4 DEF FilesOf, files, Open, Keeping
    <2>3. /\ ~unix => socket \in listening \cup {Nobody}
          /\ ~leftovers /\ (\A q \in Processes : proc[q].pc \notin Keeping) =>
                metadata = Nobody /\ socket = Nobody
      BY DEF FilesInv
    <2>4. proc[p].pc \notin Keeping => \A q \in Processes : proc[q].pc \notin Keeping
      BY <2>1 DEF Alive, Keeping, Open
    <2>5. proc[p].pc \notin Keeping
      BY <1>4 DEF At, Keeping, Open
    <2> QED
      BY <1>2, <1>3, <1>4, <2>5, <2>1, <2>2, <2>3, <2>4, AloneKeeps DEF files
  <1>5. CASE Run(p)
    <2>1. /\ At(p, "idle") /\ Goes(p, "read") /\ Settled
      BY <1>5 DEF Run, Launch, MayBegin, OneAfterAnother
    <2>2. proc'[p].pc = "read"
      BY <1>1, <2>1, GoesTo
    <2>3. (\A q \in Processes : ~Busy(q)) /\ \A c \in Clients : ~Moving(c)
      BY <2>1 DEF Settled, Busy, Moving
    <2>4. OneClient'
      BY <1>2, <2>2, <2>3, ClientsStay DEF At
    <2> QED
      BY <1>2, <1>3, <2>1, <2>2, <2>3, <2>4, AskerKeeps DEF At
  <1>6. CASE ReadMetadata(p)
    <2>1. At(p, "read") /\ Busy(p)
      BY <1>6 DEF ReadMetadata, At, Busy
    <2>2. proc'[p].pc = IF metadata = Nobody THEN "reread" ELSE "ping"
      BY <1>1, <1>6 DEF ReadMetadata, LifeType, ProcessRecords
    <2>3. CASE metadata = Nobody
      <3>1. \A q \in Processes : ~At(q, "serving")
        BY <2>3, ConstantsAssumption DEF FilesInv, FilesOf, At, Keeping, Open
      <3>2. listening = {}
        <4> SUFFICES ASSUME NEW q \in listening PROVE FALSE
          OBVIOUS
        <4>1. q \in Processes
          BY <1>1 DEF LifeType
        <4>2. proc[q].pc \in Open /\ q # p
          BY <2>1, <4>1 DEF FilesInv, FilesOf, At, Open
        <4> QED
          BY <2>1, <3>1, <4>1, <4>2 DEF FilesInv, Sole, Alive, At, Open
      <3> QED
        BY <1>4, <2>1, <2>2, <2>3, <3>1, <3>2 DEF At
    <2>4. CASE metadata # Nobody
      <3>1. OneClient'
        BY <1>2, <2>1, <2>2, <2>4, ClientsStay DEF At
      <3> QED
        BY <1>2, <1>3, <2>1, <2>2, <2>4, <3>1, AskerKeeps DEF At
    <2> QED
      BY <2>3, <2>4
  <1>7. CASE PingExisting(p)
    <2>1. At(p, "ping") /\ Busy(p)
      BY <1>7 DEF PingExisting, At, Busy
    <2>2. PICK answer \in Ping(proc[p].seen, Major[p]) :
             Goes(p, IF answer = "AFSV013" THEN "reread" ELSE "gone")
      BY <1>7 DEF PingExisting
    <2>3. CASE answer = "AFSV013"
      <3>1. socket \notin listening /\ proc'[p].pc = "reread"
        BY <1>1, <2>2, <2>3, GoesTo DEF Ping, OneAfterAnother
      <3>2. \A q \in Processes : ~At(q, "serving")
        BY <3>1 DEF FilesInv, FilesOf, At, Open
      <3>3. listening = {}
        <4> SUFFICES ASSUME NEW q \in listening PROVE FALSE
          OBVIOUS
        <4>1. q \in Processes
          BY <1>1 DEF LifeType
        <4> QED
          BY <3>1, <4>1 DEF FilesInv, FilesOf
      <3> QED
        BY <1>4, <2>1, <3>1, <3>2, <3>3
    <2>4. CASE answer # "AFSV013"
      <3>1. proc'[p].pc = "gone"
        BY <1>1, <2>2, <2>4, GoesTo
      <3>2. OneClient'
        BY <1>2, <2>1, <3>1, ClientsStay DEF At
      <3> QED
        BY <1>2, <1>3, <2>1, <3>1, <3>2, AskerKeeps DEF At
    <2> QED
      BY <2>3, <2>4
  <1> QED
    BY <1>5, <1>6, <1>7

\* How a process that is alone clears what it finds, starts, and stops
LEMMA StepAlone ==
  ASSUME OneAfterAnother, FilesInv, NEW p \in Processes,
         \/ ReadStale(p) \/ ClearMetadata(p) \/ Probe(p) \/ ClearSocket(p) \/ LoadSessions(p)
         \/ Listen(p) \/ Restrict(p) \/ ChooseMode(p) \/ WriteMetadata(p) \/ Protect(p)
         \/ SaveSessions(p) \/ CloseServer(p) \/ CheckOwn(p) \/ DropSocket(p) \/ DropMetadata(p)
  PROVE  FilesInv'
  <1> USE DEF ProcessPlaces
  <1>1. /\ LifeType /\ proc \in [Processes -> ProcessRecords] /\ proc[p] \in ProcessRecords
        /\ unix \in BOOLEAN /\ p # Nobody
        /\ ~unix => socket \in listening \cup {Nobody}
    BY ConstantsAssumption DEF FilesInv, LifeType
  <1>2. LifeType' /\ UNCHANGED <<cli, unix>> /\ \A q \in Processes : q # p => proc'[q] = proc[q]
    BY <1>1, ProcessType DEF FilesInv, ProcessStep
  <1>3. /\ Busy(p) /\ ~At(p, "read") /\ ~At(p, "ping")
        /\ proc[p].pc \notin {"serving"}
    BY DEF ReadStale, ClearMetadata, Probe, ClearSocket, LoadSessions, Listen, Restrict, ChooseMode,
           WriteMetadata, Protect, SaveSessions, CloseServer, CheckOwn, DropSocket, DropMetadata,
           At, Busy
  <1>4. /\ \A q \in Processes : q # p => ~Alive(q)
        /\ listening \subseteq {p} /\ FilesOf(p)
        /\ ~leftovers /\ proc[p].pc \notin Keeping => metadata = Nobody /\ socket = Nobody
    BY <1>3, AloneThen
  <1>5. ASSUME listening' \subseteq {p}, FilesOf(p)',
               ~unix => socket' \in listening' \cup {Nobody},
               ~leftovers' /\ proc'[p].pc \notin Keeping => metadata' = Nobody /\ socket' = Nobody
        PROVE  FilesInv'
    BY <1>2, <1>3, <1>4, <1>5, AloneKeeps
  <1>6. ASSUME NEW place \in ProcessPlaces, Goes(p, place)
        PROVE  proc'[p].pc = place /\ (place # "gone" => proc'[p].written = proc[p].written)
    BY <1>1, <1>6, GoesTo
  <1> USE DEF FilesOf, At, Open, Keeping
  <1>7. CASE ReadStale(p)
    <2>1. /\ UNCHANGED <<metadata, socket, listening, leftovers>>
          /\ \/ metadata # Nobody /\ proc'[p].pc = "clearMetadata"
             \/ metadata = Nobody /\ unix /\ proc'[p].pc = "probe"
             \/ metadata = Nobody /\ (~unix \/ socket = Nobody) /\ proc'[p].pc = "load"
      BY <1>6, <1>7 DEF ReadStale, files
    <2> QED
      BY <1>1, <1>4, <1>5, <1>7, <2>1 DEF ReadStale
  <1>8. CASE ClearMetadata(p)
    <2>1. /\ UNCHANGED <<socket, listening, leftovers>> /\ metadata' = Nobody
          /\ proc'[p].pc = IF unix THEN "clearSocket" ELSE "load"
      BY <1>6, <1>8 DEF ClearMetadata
    <2> QED
      BY <1>1, <1>4, <1>5, <1>8, <2>1 DEF ClearMetadata
  <1>9. CASE Probe(p)
    <2>1. /\ UNCHANGED <<metadata, socket, listening, leftovers>>
          /\ proc'[p].pc = "clearSocket"
      BY <1>4, <1>6, <1>9 DEF Probe, files
    <2> QED
      BY <1>1, <1>4, <1>5, <1>9, <2>1 DEF Probe
  <1>10. CASE ClearSocket(p)
    <2>1. /\ UNCHANGED <<metadata, listening, leftovers>> /\ socket' = Nobody
          /\ proc'[p].pc = "load"
      BY <1>6, <1>10 DEF ClearSocket
    <2> QED
      BY <1>1, <1>4, <1>5, <1>10, <2>1 DEF ClearSocket
  <1>11. CASE LoadSessions(p)
    <2>1. /\ UNCHANGED <<metadata, socket, listening, leftovers>> /\ proc'[p].pc = "listen"
      BY <1>6, <1>11 DEF LoadSessions, files
    <2> QED
      BY <1>1, <1>4, <1>5, <1>11, <2>1 DEF LoadSessions
  <1>12. CASE Listen(p)
    <2>1. socket = Nobody
      BY <1>4, <1>12 DEF Listen
    <2>2. /\ UNCHANGED <<metadata, leftovers>> /\ socket' = p /\ listening' = listening \cup {p}
          /\ proc'[p].pc = IF unix THEN "restrict" ELSE "publish"
      BY <1>1, <1>12, <2>1 DEF Listen, ProcessRecords
    <2> QED
      BY <1>1, <1>4, <1>5, <1>12, <2>2 DEF Listen
  <1>13. CASE Restrict(p)
    <2>1. /\ UNCHANGED <<metadata, socket, listening, leftovers>> /\ proc'[p].pc = "publish"
      BY <1>1, <1>4, <1>6, <1>13 DEF Restrict, files
    <2> QED
      BY <1>1, <1>4, <1>5, <1>13, <2>1 DEF Restrict
  <1>14. CASE ChooseMode(p)
    <2>1. /\ UNCHANGED <<metadata, socket, listening, leftovers>> /\ proc'[p].pc = "write"
      BY <1>1, <1>14 DEF ChooseMode, files, ProcessRecords
    <2> QED
      BY <1>1, <1>4, <1>5, <1>14, <2>1 DEF ChooseMode
  <1>15. Serves(p) => proc'[p].pc = "serving" /\ proc'[p].written
    BY <1>1 DEF Serves, ProcessRecords
  <1>16. CASE WriteMetadata(p)
    <2>1. /\ UNCHANGED <<socket, listening>> /\ metadata' = p
          /\ proc'[p].pc = IF unix THEN "protect" ELSE "serving"
          /\ ~unix => proc'[p].written
      BY <1>4, <1>6, <1>15, <1>16 DEF WriteMetadata
    <2> QED
      BY <1>1, <1>4, <1>5, <1>16, <2>1 DEF WriteMetadata
  <1>17. CASE Protect(p)
    <2>1. /\ UNCHANGED <<metadata, socket, listening>>
          /\ proc'[p].pc = "serving" /\ proc'[p].written
      BY <1>1, <1>4, <1>15, <1>17 DEF Protect, files
    <2> QED
      BY <1>1, <1>4, <1>5, <1>17, <2>1 DEF Protect
  <1>18. CASE SaveSessions(p)
    <2>1. /\ UNCHANGED <<metadata, socket, listening, leftovers>>
          /\ proc'[p].pc = "close" /\ proc'[p].written = proc[p].written
      BY <1>6, <1>18 DEF SaveSessions, files
    <2> QED
      BY <1>1, <1>4, <1>5, <1>18, <2>1 DEF SaveSessions
  <1>19. CASE CloseServer(p)
    <2>1. proc[p].written /\ p \in listening /\ socket = p
      BY <1>4, <1>19 DEF CloseServer
    <2>2. /\ UNCHANGED <<metadata, leftovers>> /\ listening' = {} /\ socket' = Nobody
          /\ proc'[p].pc = "own" /\ proc'[p].written
      BY <1>4, <1>6, <1>19, <2>1 DEF CloseServer
    <2> QED
      BY <1>1, <1>4, <1>5, <1>19, <2>2 DEF CloseServer
  <1>20. CASE CheckOwn(p)
    <2>1. /\ UNCHANGED <<metadata, socket, listening, leftovers>>
          /\ proc'[p].pc = IF unix THEN "dropSocket" ELSE "dropMetadata"
          /\ proc'[p].written = proc[p].written
      BY <1>4, <1>6, <1>20 DEF CheckOwn, files
    <2> QED
      BY <1>1, <1>4, <1>5, <1>20, <2>1 DEF CheckOwn
  <1>21. CASE DropSocket(p)
    <2>1. /\ UNCHANGED <<metadata, listening, leftovers>> /\ socket' = Nobody
          /\ proc'[p].pc = "dropMetadata" /\ proc'[p].written = proc[p].written
      BY <1>4, <1>6, <1>21 DEF DropSocket
    <2> QED
      BY <1>1, <1>4, <1>5, <1>21, <2>1 DEF DropSocket
  <1>22. CASE DropMetadata(p)
    <2>1. /\ UNCHANGED <<socket, listening, leftovers>> /\ metadata' = Nobody
          /\ proc'[p].pc = "gone"
      BY <1>6, <1>22 DEF DropMetadata
    <2> QED
      BY <1>1, <1>4, <1>5, <1>22, <2>1 DEF DropMetadata
  <1> QED
    BY <1>7, <1>8, <1>9, <1>10, <1>11, <1>12, <1>13, <1>14, <1>16, <1>17, <1>18, <1>19, <1>20,
       <1>21, <1>22

\* A process that dies leaves its files; the next one clears them.
LEMMA StepCrash ==
  ASSUME FilesInv, NEW p \in Processes, Crash(p)
  PROVE  FilesInv'
  <1>1. LifeType /\ p # Nobody /\ p \in Processes /\ proc'[p].pc = "gone" /\ Alive(p)
    BY ConstantsAssumption, GoesTo DEF FilesInv, LifeType, Crash, ProcessPlaces, Alive
  <1>2. LifeType' /\ UNCHANGED <<cli, unix>> /\ \A q \in Processes : q # p => proc'[q] = proc[q]
    BY <1>1, ProcessType DEF FilesInv, ProcessStep
  <1>3. /\ leftovers' = TRUE /\ metadata' = metadata /\ listening' = listening \ {p}
        /\ socket' = IF ~unix /\ socket = p THEN Nobody ELSE socket
    BY DEF Crash
  <1>4. \A q \in Processes : FilesOf(q)'
    <2> SUFFICES ASSUME NEW q \in Processes PROVE FilesOf(q)'
      OBVIOUS
    <2>1. CASE q = p
      BY <1>1, <1>3, <2>1 DEF FilesOf, Open, Keeping
    <2>2. CASE q # p
      <3>1. proc'[q] = proc[q] /\ FilesOf(q)
        BY <1>2, <2>2 DEF FilesInv
      <3>2. Alive(q) => \/ At(q, "serving") /\ proc[p].pc \in {"read", "ping"}
                        \/ At(p, "serving") /\ proc[q].pc \in {"read", "ping"}
        BY <1>1, <2>2 DEF FilesInv, Sole
      <3> QED
        BY <1>3, <2>2, <3>1, <3>2 DEF FilesOf, Open, Keeping, At, Alive
    <2> QED
      BY <2>1, <2>2
  <1>5. Sole'
    BY <1>1, <1>2 DEF FilesInv, Sole, Alive, At
  <1>6. OneClient'
    <2>1. OneClient
      BY DEF FilesInv
    <2>2. \A q \in Processes : (Busy(q)' => Busy(q)) /\ (At(q, "serving")' => At(q, "serving"))
      BY <1>1, <1>2 DEF Busy, At
    <2>3. \A c \in Clients : (Moving(c)' <=> Moving(c)) /\ (Waiting(c)' <=> Waiting(c))
      BY <1>2 DEF Moving, Waiting
    <2> QED
      BY <1>2, <2>1, <2>2, <2>3 DEF OneClient
  <1>7. ~unix => socket' \in listening' \cup {Nobody}
    BY <1>3 DEF FilesInv
  <1> QED
    BY <1>2, <1>3, <1>4, <1>5, <1>6, <1>7 DEF FilesInv

\* The clients while one of them takes a step and no process begins to serve
LEMMA ClientMoves ==
  ASSUME FilesInv, NEW c \in Clients, \A d \in Clients : d # c => cli'[d] = cli[d],
         Moving(c)' => \/ Moving(c)
                       \/ (\A d \in Clients : ~Moving(d)) /\ \A p \in Processes : ~Busy(p),
         Waiting(c) => Waiting(c)' \/ ~Moving(c)',
         \A p \in Processes : /\ At(p, "serving")' => At(p, "serving")
                              /\ Busy(p)' => \/ Busy(p)
                                             \/ /\ \A d \in Clients : Moving(d) => d = c
                                                /\ Waiting(c)',
         cli'[c].pc \in {"clean", "cleanMetadata", "cleanSocket"} =>
            \A p \in Processes : ~At(p, "serving")
  PROVE  OneClient'
  <1>1. OneClient
    BY DEF FilesInv
  <1>2. \A d \in Clients : d # c => (Moving(d)' <=> Moving(d)) /\ (Waiting(d)' <=> Waiting(d))
    BY DEF Moving, Waiting
  <1>3. \A d, e \in Clients : Moving(d)' /\ Moving(e)' => d = e
    BY <1>1, <1>2 DEF OneClient
  <1>4. \A d \in Clients, p \in Processes : Moving(d)' /\ Busy(p)' => Waiting(d)'
    BY <1>1, <1>2 DEF OneClient
  <1>5. \A d \in Clients : cli'[d].pc \in {"clean", "cleanMetadata", "cleanSocket"} =>
            \A p \in Processes : ~At(p, "serving")'
    BY <1>1 DEF OneClient
  <1> QED
    BY <1>3, <1>4, <1>5 DEF OneClient

\* What a client does
LEMMA StepClient ==
  ASSUME OneAfterAnother, FilesInv, Addressed, LifeType', NEW c \in Clients,
         \/ ClientStep(c) \/ GiveUp(c) \/ Interrupt(c) \/ \E kind \in Kinds : Begin(c, kind)
  PROVE  FilesInv'
  <1>1. LifeType /\ OneClient /\ cli[c] \in ClientRecords /\ cli \in [Clients -> ClientRecords]
    BY DEF FilesInv, LifeType
  <1>2. /\ \A d \in Clients : d # c => cli'[d] = cli[d]
        /\ Moving(c) \/ Interrupt(c) \/ \E kind \in Kinds : Begin(c, kind)
        /\ Waiting(c) => Waiting(c)' \/ ~Moving(c)'
    BY <1>1, ClientType
  <1>3. ASSUME NEW place \in ClientPlaces, Moves(c, place)
        PROVE  cli'[c].pc = place
    BY <1>1, <1>3, TurnTo DEF Moves
  <1>4. ASSUME UNCHANGED <<unix, proc, files>>, leftovers' = leftovers \/ leftovers' = TRUE,
               Moving(c)' => \/ Moving(c)
                             \/ (\A d \in Clients : ~Moving(d)) /\ \A p \in Processes : ~Busy(p),
               cli'[c].pc \in {"clean", "cleanMetadata", "cleanSocket"} =>
                  \A p \in Processes : ~At(p, "serving")
        PROVE  FilesInv'
    <2>1. OneClient'
      <3>1. \A p \in Processes : (At(p, "serving")' <=> At(p, "serving")) /\ (Busy(p)' <=> Busy(p))
        BY <1>4 DEF At, Busy
      <3> QED
        BY <1>2, <1>4, <3>1, ClientMoves
    <2>2. (\A p \in Processes : FilesOf(p)') /\ Sole'
      BY <1>4 DEF FilesInv, FilesOf, Sole, Alive, At, files
    <2> QED
      BY <1>4, <2>1, <2>2 DEF FilesInv, files
  <1> USE DEF ClientPlaces
  <1>5. CASE ReadToken(c)
    <2>1. Is(c, "read") /\ UNCHANGED_BUT_CLI
      BY <1>5 DEF ReadToken
    <2> DEFINE r == [cli[c] EXCEPT !.seen = metadata]
               w == After(r, "AFSV004")
               n == [r EXCEPT !.pc = "ping"]
    <2>2. r \in ClientRecords /\ n.pc = "ping"
      BY <1>1 DEF LifeType, ClientRecords
    <2>3. w.pc # "clean" /\ w.pc \notin {"cleanMetadata", "cleanSocket"}
      <3> HIDE DEF r
      <3> QED
        BY <2>2, AfterTo
    <2>4. cli'[c] = w \/ cli'[c] = n
      BY <1>1, <1>5 DEF ReadToken
    <2> HIDE DEF w, n
    <2> QED
      BY <1>4, <2>1, <2>2, <2>3, <2>4 DEF UNCHANGED_BUT_CLI, Is, Moving
  <1>6. CASE PingService(c)
    <2>1. Is(c, "ping") /\ UNCHANGED_BUT_CLI
      BY <1>6 DEF PingService
    <2>2. PICK answer \in Ping(cli[c].seen, Major[c]) : cli' = [cli EXCEPT ![c] = After(cli[c], answer)]
      BY <1>6 DEF PingService
    <2> DEFINE w == After(cli[c], answer)
    <2>3. /\ w.pc \notin {"cleanMetadata", "cleanSocket"}
          /\ w.pc = "clean" => answer = "AFSV013"
      BY <1>1, AfterTo
    <2>4. cli'[c] = w
      BY <1>1, <2>2
    <2>5. answer = "AFSV013" => socket \notin listening
      BY <2>2 DEF Ping, OneAfterAnother
    <2>6. socket \notin listening => \A p \in Processes : ~At(p, "serving")
      BY DEF FilesInv, FilesOf, At, Open
    <2> HIDE DEF w
    <2> QED
      BY <1>4, <2>1, <2>3, <2>4, <2>5, <2>6 DEF UNCHANGED_BUT_CLI, Is, Moving
  <1>7. CASE FindStale(c)
    <2>1. Is(c, "clean") /\ UNCHANGED_BUT_CLI
      BY <1>7 DEF FindStale
    <2>2. Moving(c) /\ \A p \in Processes : ~At(p, "serving")
      BY <1>1, <2>1 DEF OneClient, Is, Moving
    <2> QED
      BY <1>4, <2>1, <2>2 DEF UNCHANGED_BUT_CLI
  <1>8. CASE CleanMetadata(c) \/ CleanSocket(c)
    <2>1. /\ Moving(c) /\ ~Waiting(c) /\ \A p \in Processes : ~At(p, "serving")
      BY <1>1, <1>8 DEF OneClient, CleanMetadata, CleanSocket, Is, Moving, Waiting
    <2>2. \A p \in Processes : proc[p].pc \in {"idle", "gone"}
      BY <1>1, <2>1 DEF OneClient, Busy, At
    <2>3. /\ UNCHANGED <<unix, listening, proc, leftovers>>
          /\ metadata' \in {metadata, Nobody} /\ socket' \in {socket, Nobody}
          /\ cli'[c].pc \in {"cleanSocket", "done"}
      BY <1>3, <1>8 DEF CleanMetadata, CleanSocket
    <2>4. (\A p \in Processes : FilesOf(p)') /\ Sole'
      BY <2>2, <2>3 DEF FilesInv, FilesOf, Sole, Alive, At, Open, Keeping
    <2>5. OneClient'
      <3>1. \A p \in Processes : (At(p, "serving")' <=> At(p, "serving")) /\ (Busy(p)' <=> Busy(p))
        BY <2>3 DEF At, Busy
      <3> QED
        BY <1>2, <2>1, <3>1, ClientMoves
    <2> QED
      BY <2>3, <2>4, <2>5 DEF FilesInv
  <1>9. ASSUME NEW p \in Processes, Spawn(c, p)
        PROVE  FilesInv'
    <2>1. /\ Is(c, "spawn") /\ At(p, "idle") /\ Goes(p, "read") /\ Moves(c, "poll")
          /\ UNCHANGED <<unix, files, leftovers>>
      BY <1>9 DEF Spawn, Launch
    <2>2. Moving(c) /\ \A q \in Processes : ~Busy(q)
      BY <1>1, <2>1 DEF OneClient, Is, Moving, Waiting
    <2>3. proc'[p].pc = "read" /\ \A q \in Processes : q # p => proc'[q] = proc[q]
      BY <1>1, <2>1, GoesTo DEF ProcessPlaces
    <2>4. OneClient'
      <3>1. cli'[c].pc = "poll" /\ \A d \in Clients : Moving(d) => d = c
        BY <1>1, <1>3, <2>1, <2>2 DEF OneClient
      <3>2. \A q \in Processes : At(q, "serving")' => At(q, "serving")
        BY <2>3 DEF At
      <3> QED
        BY <1>2, <2>2, <3>1, <3>2, ClientMoves DEF Waiting
    <2> QED
      BY <2>1, <2>2, <2>3, <2>4, AskerKeeps DEF At
  <1>10. CASE PollToken(c) \/ PollPing(c)
    <2>1. Is(c, "poll") \/ Is(c, "pollPing")
      BY <1>10 DEF PollToken, PollPing
    <2>2. UNCHANGED_BUT_CLI
      BY <1>10 DEF PollToken, PollPing
    <2>3. Waiting(c) /\ Moving(c)
      BY <2>1 DEF Is, Waiting, Moving
    <2>4. cli'[c].pc \notin {"clean", "cleanMetadata", "cleanSocket"}
      BY <1>2, <2>3 DEF Waiting, Moving
    <2> QED
      BY <1>4, <2>2, <2>3, <2>4 DEF UNCHANGED_BUT_CLI
  <1>11. CASE RequestShutdown(c)
    <2>1. Is(c, "request") /\ UNCHANGED <<unix, files, leftovers>>
      BY <1>11 DEF RequestShutdown
    <2>2. Moving(c) /\ \A q \in Processes : ~Busy(q)
      BY <1>1, <2>1 DEF OneClient, Is, Moving, Waiting
    <2>3. CASE proc' = proc /\ Moves(c, "done")
      <3>1. cli'[c].pc = "done"
        BY <1>3, <2>3
      <3> QED
        BY <1>4, <2>1, <2>2, <2>3, <3>1
    <2>4. CASE /\ proc[cli[c].seen].pc \in {"serving", "save", "close"}
               /\ Goes(cli[c].seen, IF At(cli[c].seen, "serving") THEN "save"
                                    ELSE proc[cli[c].seen].pc)
               /\ Moves(c, "poll")
      <3> DEFINE p == cli[c].seen
      <3>1. p \in Processes
        BY <2>1 DEF Addressed, Is
      <3>2. At(p, "serving") /\ Goes(p, "save")
        BY <2>2, <2>4, <3>1 DEF Busy, At
      <3> HIDE DEF p
      <3>3. /\ proc'[p].pc = "save" /\ proc'[p].written = proc[p].written
            /\ \A q \in Processes : q # p => proc'[q] = proc[q]
        BY <1>1, <3>1, <3>2, GoesTo DEF ProcessPlaces
      <3>4. OneClient'
        <4>1. cli'[c].pc = "poll" /\ \A d \in Clients : Moving(d) => d = c
          BY <1>1, <1>3, <2>2, <2>4 DEF OneClient
        <4>2. \A q \in Processes : At(q, "serving")' => At(q, "serving")
          BY <3>3 DEF At
        <4> QED
          BY <1>2, <2>2, <4>1, <4>2, ClientMoves DEF Waiting
      <3> QED
        BY <2>1, <2>2, <3>1, <3>2, <3>3, <3>4, StopKeeps
    <2> QED
      BY <1>11, <2>3, <2>4 DEF RequestShutdown
  <1>12. CASE GiveUp(c)
    <2>1. Is(c, "poll") /\ UNCHANGED_BUT_CLI /\ Moves(c, Finished(cli[c]))
      BY <1>12 DEF GiveUp
    <2>2. cli'[c].pc \in {"embedded", "done"}
      BY <1>3, <2>1 DEF Finished
    <2> QED
      BY <1>4, <2>1, <2>2 DEF UNCHANGED_BUT_CLI, Moving
  <1>13. CASE Interrupt(c)
    <2>1. cli'[c].pc = "done"
      BY <1>3, <1>13 DEF Interrupt
    <2> QED
      BY <1>4, <1>13, <2>1 DEF Interrupt, Moving
  <1>14. ASSUME NEW kind \in Kinds, Begin(c, kind)
         PROVE  FilesInv'
    <2>1. Settled /\ UNCHANGED_BUT_CLI
      BY <1>14 DEF Begin, MayBegin, OneAfterAnother
    <2>2. (\A d \in Clients : ~Moving(d)) /\ \A p \in Processes : ~Busy(p)
      BY <2>1 DEF Settled, Moving, Busy
    <2>3. cli'[c].pc = "read"
      BY <1>1, <1>14 DEF Begin, ClientRecords
    <2> QED
      BY <1>4, <2>1, <2>2, <2>3 DEF UNCHANGED_BUT_CLI
  <1> QED
    BY <1>5, <1>6, <1>7, <1>8, <1>9, <1>10, <1>11, <1>12, <1>13, <1>14 DEF ClientStep

LEMMA StepSignal ==
  ASSUME OneAfterAnother, FilesInv, NEW p \in Processes, Signal(p)
  PROVE  FilesInv'
  <1>1. /\ LifeType /\ At(p, "serving") /\ Settled /\ Goes(p, "save")
        /\ UNCHANGED <<unix, files, cli, leftovers>>
    BY DEF FilesInv, Signal, MayBegin, OneAfterAnother
  <1>2. /\ LifeType' /\ proc'[p].pc = "save" /\ proc'[p].written = proc[p].written
        /\ \A q \in Processes : q # p => proc'[q] = proc[q]
    BY <1>1, ProcessType, GoesTo DEF ProcessPlaces
  <1>3. (\A q \in Processes : ~Busy(q)) /\ \A c \in Clients : ~Moving(c)
    BY <1>1 DEF Settled, Busy, Moving
  <1>4. OneClient'
    BY <1>1, <1>2, <1>3, ClientsStay DEF At
  <1> QED
    BY <1>1, <1>2, <1>3, <1>4, StopKeeps

LEMMA NextFiles ==
  ASSUME OneAfterAnother, FilesInv, LifeInv, [HostNext]_allvars
  PROVE  FilesInv'
  <1>1. LifeType /\ Addressed /\ LifeType'
    BY NextLife DEF LifeInv
  <1>2. ASSUME UNCHANGED lvars
        PROVE  FilesInv'
    BY <1>2 DEF lvars, FilesInv, LifeType, FilesOf, Sole, OneClient, Alive, Busy, Moving, Waiting, At
  <1>3. CASE LifecycleNext
    <2>1. ASSUME NEW p \in Processes, ProcessStep(p) \/ Run(p) \/ Signal(p) \/ Crash(p)
          PROVE  FilesInv'
      BY <2>1, StepAsk, StepAlone, StepSignal, StepCrash DEF ProcessStep
    <2>2. CASE \E c \in Clients : ClientStep(c) \/ GiveUp(c) \/ (~Bridged(c) /\ Interrupt(c))
      BY <1>1, <2>2, StepClient
    <2>3. CASE \E c \in Clients, kind \in Kinds : Begin(c, kind)
      BY <1>1, <2>3, StepClient
    <2> QED
      BY <1>3, <2>1, <2>2, <2>3 DEF LifecycleNext
  <1>4. ASSUME NEW h \in HostClients, HostWork(h) \/ HostChoice(h)
        PROVE  FilesInv'
    <2>1. h \in Clients
      BY DEF HostClients
    <2>2. CASE HostDies(h)
      BY <1>1, <2>1, <2>2, StepClient DEF HostDies
    <2>3. CASE HostExits(h)
      <3>1. Bridged(h) /\ Moves(h, "done") /\ UNCHANGED <<unix, files, proc, leftovers>>
        BY <2>3 DEF HostExits, UNCHANGED_BUT_CLI
      <3>2. cli'[h].pc = "done" /\ \A d \in Clients : d # h => cli'[d] = cli[d]
        BY <1>1, <2>1, <3>1, MovesTo DEF ClientPlaces
      <3>3. OneClient'
        <4>1. \A p \in Processes : (At(p, "serving")' <=> At(p, "serving")) /\ (Busy(p)' <=> Busy(p))
          BY <3>1 DEF At, Busy
        <4>2. ~Moving(h)'
          BY <3>2 DEF Moving
        <4> QED
          BY <2>1, <3>2, <4>1, <4>2, ClientMoves
      <3>4. (\A p \in Processes : FilesOf(p)') /\ Sole'
        BY <3>1 DEF FilesInv, FilesOf, Sole, Alive, At, files
      <3> QED
        BY <1>1, <3>1, <3>3, <3>4 DEF FilesInv, files
    <2>4. UNCHANGED lvars \/ HostDies(h) \/ HostExits(h)
      BY <1>4, HostStays
    <2> QED
      BY <1>2, <2>2, <2>3, <2>4
  <1>6. CASE UNCHANGED allvars
    BY <1>2, <1>6 DEF allvars
  <1> QED
    BY <1>2, <1>3, <1>4, <1>6, SessionsStay DEF HostNext

LEMMA FilesInvariant == ASSUME OneAfterAnother PROVE HostSpec => []FilesInv
  <1>1. LifeInv /\ FilesInv /\ [HostNext]_allvars => FilesInv'
    BY NextFiles
  <1> QED
    BY <1>1, InitFiles, LifeInvariant, PTL DEF HostSpec

(* A service that serves can be found: service.json holds its token and    *)
(* the endpoint is its own, whatever a service that died before it, at any *)
(* point, left in the directory (run-service.ts:82-123 clears it), on a    *)
(* Unix socket and on a pipe.                                              *)
THEOREM DiscoverableHolds == ASSUME OneAfterAnother PROVE HostSpec => []Discoverable
  <1>1. FilesInv => Discoverable
    BY DEF FilesInv, FilesOf, Discoverable, At, Open, Keeping
  <1> QED
    BY <1>1, FilesInvariant, PTL

(* After an orderly stop no runtime file is left, also when an earlier     *)
(* service had died (the finally block of run-service.ts:205-232).         *)
THEOREM NothingLeftHolds == ASSUME OneAfterAnother PROVE HostSpec => []NothingLeft
  <1>1. FilesInv => NothingLeft
    BY DEF FilesInv, NothingLeft, Settled, At, Keeping, Open
  <1> QED
    BY <1>1, FilesInvariant, PTL

=============================================================================
