------------------------------ MODULE EventStore ------------------------------
(***************************************************************************)
(* The private event log of a repository (integrations/reliability): MCP   *)
(* processes, the service and the commands observe their operations and    *)
(* record the events, each by reading the file, appending one event,       *)
(* compacting and replacing the file.  Nothing locks the file.  One action *)
(* is one access to it.                                                    *)
(***************************************************************************)
EXTENDS ReliabilityReport

CONSTANTS
    Sessions,       \* the sessions, each served by a flow of its own
    Commands,       \* the command lines, a flow each
    HostOf,         \* the host of each session: "codex", "antigravity" or "mcp"
    Task,           \* the task of the events that name one
    Freshnesses,    \* the semantic freshness of the checkpoints that occur
    Maximum,        \* maximum_events_per_repository
    Retain,         \* retain_closed_sessions
    MaxOperations,  \* bound on the operations that are observed
    MaxOverlapping  \* the same where flows may overlap

ASSUME StoreAssumption ==
    /\ Maximum \in Nat \ {0} /\ Retain \in Nat \ {0}
    /\ MaxOperations \in Nat /\ MaxOverlapping \in Nat
    /\ Freshnesses \subseteq {"current", "reused", "absent"}
    /\ Sessions \cap Commands = {} /\ None \notin Sessions \cup Freshnesses \cup {Task}
    /\ HostOf \in [Sessions -> {"codex", "antigravity", "mcp"}]

VARIABLES
    turns,      \* no two flows record at the same time
    store,      \* the file: no file, a log, or one that does not parse
    flow,       \* each flow: its phase, what it has to record, what it has read
    recorded,   \* history: the events recorded, in the order of their writes
    faulty,     \* history: a write has failed
    operations  \* the operations observed so far

vars == <<turns, store, flow, recorded, faulty, operations>>

Flows == Sessions \cup Commands
NoFile == [kind |-> "none", next |-> 1, events |-> <<>>]
Corrupt == [kind |-> "corrupt", next |-> 1, events |-> <<>>]
Log == store.events

(***************************************************************************)
(* What an observed operation of a session records; id is its own mark.    *)
(***************************************************************************)
Input(f, type, task, fresh) ==
    [type |-> type, task |-> task, fresh |-> fresh, checked |-> FALSE,
     host |-> IF f \in Sessions THEN HostOf[f] ELSE "cli",
     session |-> IF f \in Sessions THEN f ELSE None]
Plain(f, type) == Input(f, type, Task, None)

Opens(f) == {<<Input(f, "session_opened", None, None)>>,
             <<Plain(f, "session_opened"), Plain(f, "task_continued")>>}
Checkpoints(f) == {<<Input(f, type, Task, fresh)>> :
    type \in {"checkpoint_created", "checkpoint_duplicate"}, fresh \in Freshnesses}
Finishes(f) == {<<[Plain(f, "task_finished") EXCEPT !.checked = c]>> : c \in BOOLEAN}
Resumes(f) ==
    {LET packet == CASE fresh = "current" -> "resume_packet_current"
                     [] fresh = "reused" -> "resume_packet_reused"
                     [] OTHER -> "resume_packet_absent"
     IN <<Input(f, "resume_packet_requested", Task, fresh), Input(f, packet, Task, fresh)>>
        : fresh \in Freshnesses}
\* what the close has done itself is recorded without its freshness
Closes(f) ==
    {report \o checkpoint \o <<Plain(f, "session_closed")>> :
        report \in {<<>>, <<Plain(f, "progress_report_submitted")>>},
        checkpoint \in {<<>>, <<Plain(f, "checkpoint_created")>>,
                        <<Plain(f, "checkpoint_duplicate")>>}}
Works(f) ==
    {<<Plain(f, "task_started")>>, <<Plain(f, "progress_report_submitted")>>}
    \cup Checkpoints(f) \cup Finishes(f)

\* The service finds a session silent, or interrupted by its own end
Loses(f) ==
    {<<Plain(f, "session_timed_out")>>,
     <<Plain(f, "session_interrupted"), Plain(f, "recovery_pending")>>}
Failure(f) == <<Plain(f, "recovery_checkpoint_failed"), Plain(f, "recovery_pending")>>
Recovers(f) ==
    {<<Plain(f, "recovery_checkpoint_not_needed")>>} \cup
    {<<Input(f, type, Task, fresh)>> :
        type \in {"recovery_checkpoint_created", "recovery_checkpoint_duplicate"},
        fresh \in Freshnesses}

(***************************************************************************)
(* The file.                                                               *)
(***************************************************************************)
Parses(s) ==
    /\ \A i, j \in DOMAIN s.events : i < j => s.events[i].seq < s.events[j].seq
    /\ s.events # <<>> => s.next > Last(s.events).seq

Newest(events, n) == SubSeq(events, IF Len(events) > n THEN Len(events) - n + 1 ELSE 1, Len(events))

\* Mutant: the oldest closed sessions are kept.
CompactNewest(events) ==
    LET closed == With(events, "session_closed")
        kept == SessionsIn(SubSeq(closed, 1, IF Len(closed) > Retain THEN Retain ELSE Len(closed)))
        expired == SessionsIn(closed) \ kept
    IN Newest(Among(events, {i \in DOMAIN events : events[i].session \notin expired}), Maximum)
\* compactReliabilityEventStore: closed sessions beyond the newest expire whole
Compact(events) ==
    LET closed == With(events, "session_closed")
        kept == SessionsIn(Newest(closed, Retain))
        expired == SessionsIn(closed) \ kept
    IN Newest(Among(events, {i \in DOMAIN events : events[i].session \notin expired}), Maximum)

\* Mutant: the next number is the number of events.
ExtendedByLength(f, seen) ==
    LET event == flow[f].todo[1]
        stamped == [type |-> event.type, task |-> event.task, fresh |-> event.fresh,
                    checked |-> event.checked, host |-> event.host, session |-> event.session,
                    seq |-> Len(seen.events) + 1, by |-> f, nth |-> flow[f].nth]
    IN [kind |-> "log", next |-> Len(seen.events) + 2,
        events |-> Compact(Newest(Append(seen.events, stamped), Maximum))]
Extended(f, seen) ==
    LET event == flow[f].todo[1]
        stamped == [type |-> event.type, task |-> event.task, fresh |-> event.fresh,
                    checked |-> event.checked, host |-> event.host, session |-> event.session,
                    seq |-> seen.next, by |-> f, nth |-> flow[f].nth]
    IN [kind |-> "log", next |-> seen.next + 1,
        events |-> Compact(Newest(Append(seen.events, stamped), Maximum))]

(***************************************************************************)
(* Steps of a flow.                                                        *)
(***************************************************************************)
MayStart(f) ==
    /\ flow[f].pc = "idle"
    /\ operations < IF turns THEN MaxOperations ELSE MaxOverlapping
    /\ turns => \A g \in Flows : flow[g].pc = "idle"

Observe(f, from, to, inputs) ==
    /\ MayStart(f) /\ flow[f].phase = from
    /\ \E todo \in inputs :
         flow' = [flow EXCEPT ![f].phase = to, ![f].todo = todo,
                              ![f].pc = IF todo = <<>> THEN "idle" ELSE "read"]
    /\ operations' = operations + 1
    /\ UNCHANGED <<turns, store, recorded, faulty>>

Open(f) == f \in Sessions /\ Observe(f, "new", "open", Opens(f))
Work(f) == f \in Sessions /\ Observe(f, "open", "open", Works(f))
Resume(f) == f \in Sessions /\ Observe(f, "open", "open", Resumes(f))
Refused(f) == f \in Sessions /\ Observe(f, "open", "open", {<<>>})    \* not ok, or a dry run
Close(f) == f \in Sessions /\ Observe(f, "open", "ended", Closes(f))
Detach(f) == f \in Sessions /\ Observe(f, "open", "detached", {<<Plain(f, "session_detached")>>})
Lose(f) == f \in Sessions /\ \E from \in {"open", "detached"} : Observe(f, from, "pending", Loses(f))
Recover(f) == f \in Sessions /\ Observe(f, "pending", "ended", Recovers(f))
FailRecovery(f) == f \in Sessions /\ Observe(f, "pending", "pending", {Failure(f)})
Command(f) == f \in Commands /\ Observe(f, "new", "ended", Works(f))

\* Mutant: an operation's events are recorded latest first.
LeaveReversed(f, events) ==
    [flow EXCEPT ![f].pc = IF Len(events) > 1 THEN "read" ELSE "idle",
                 ![f].todo = Tail(events), ![f].seen = NoFile, ![f].mode = "none",
                 ![f].nth = IF Len(events) > 1 THEN @ - 1 ELSE @ + 2]
\* The recorder goes on to the next event, or the operation returns
Leave(f, events) ==
    [flow EXCEPT ![f].pc = IF Len(events) > 1 THEN "read" ELSE "idle",
                 ![f].todo = Tail(events), ![f].seen = NoFile, ![f].mode = "none",
                 ![f].nth = @ + 1]

\* The recorder turns a file that does not parse into a warning
ReadStore(f) ==
    /\ flow[f].pc = "read"
    /\ IF store.kind = "corrupt" THEN flow' = Leave(f, flow[f].todo)
       ELSE flow' = [flow EXCEPT ![f].pc = "check", ![f].seen = store]
    /\ UNCHANGED <<turns, store, recorded, faulty, operations>>
CheckExists(f) ==
    /\ flow[f].pc = "check"
    /\ flow' = [flow EXCEPT ![f].pc = "write",
                            ![f].mode = IF store.kind = "none" THEN "create" ELSE "replace"]
    /\ UNCHANGED <<turns, store, recorded, faulty, operations>>
\* Mutant: the file is extended as it is now, numbered as it was read.
WriteMerged(f) ==
    /\ flow[f].pc = "write" /\ (flow[f].mode = "create" => store.kind = "none")
    /\ store' = [Extended(f, flow[f].seen) EXCEPT
                   !.events = Newest(Append(Log, Last(Extended(f, flow[f].seen).events)), Maximum)]
    /\ recorded' = Append(recorded, [by |-> f, nth |-> flow[f].nth, session |-> flow[f].todo[1].session,
                                     type |-> flow[f].todo[1].type, seq |-> flow[f].seen.next])
    /\ flow' = Leave(f, flow[f].todo)
    /\ UNCHANGED <<turns, faulty, operations>>
WriteStore(f) ==
    /\ flow[f].pc = "write" /\ (flow[f].mode = "create" => store.kind = "none")
    /\ store' = Extended(f, flow[f].seen)
    /\ recorded' = Append(recorded, [by |-> f, nth |-> flow[f].nth, session |-> flow[f].todo[1].session,
                                     type |-> flow[f].todo[1].type, seq |-> flow[f].seen.next])
    /\ flow' = Leave(f, flow[f].todo)
    /\ UNCHANGED <<turns, faulty, operations>>
\* At most one write fails, and none where the flows take turns
WriteFails(f) ==
    /\ flow[f].pc = "write" /\ ~faulty /\ ~turns
    /\ flow' = Leave(f, flow[f].todo) /\ faulty' = TRUE
    /\ UNCHANGED <<turns, store, recorded, operations>>
\* "create" links the new file: it fails when another flow's has come first
CreateRefused(f) ==
    /\ flow[f].pc = "write" /\ flow[f].mode = "create" /\ store.kind # "none"
    /\ flow' = Leave(f, flow[f].todo)
    /\ UNCHANGED <<turns, store, recorded, faulty, operations>>

Record(f) == ReadStore(f) \/ CheckExists(f) \/ WriteStore(f) \/ WriteFails(f) \/ CreateRefused(f)

Init ==
    /\ turns \in BOOLEAN /\ store \in {NoFile, Corrupt}
    /\ flow = [f \in Flows |-> [pc |-> "idle", phase |-> "new", todo |-> <<>>, seen |-> NoFile,
                                mode |-> "none", nth |-> 0]]
    /\ recorded = <<>> /\ faulty = FALSE /\ operations = 0

Next == \E f \in Flows :
    \/ Open(f) \/ Work(f) \/ Resume(f) \/ Refused(f) \/ Close(f) \/ Detach(f) \/ Lose(f)
    \/ Recover(f) \/ FailRecovery(f) \/ Command(f) \/ Record(f)

Spec == Init /\ [][Next]_vars

(***************************************************************************)
(* Properties.                                                             *)
(***************************************************************************)
\* The file always parses: whatever the writers overwrite, its numbers increase
\* and stay below nextSequence, and its length within the limit (event-schema.ts).
TypeOK ==
    /\ store.kind \in {"none", "log", "corrupt"} /\ Parses(store) /\ Len(Log) <= Maximum
    /\ operations \in 0..(IF turns THEN MaxOperations ELSE MaxOverlapping)
    /\ \A f \in Flows : /\ flow[f].pc \in {"idle", "read", "check", "write"}
                        /\ flow[f].pc = "idle" <=> flow[f].todo = <<>>

\* The events of one flow stand in the log in the order it recorded them, each
\* once, whatever the others overwrite or bring back (observe-operation.ts).
OwnOrder ==
    \A i, j \in DOMAIN Log : i < j /\ Log[i].by = Log[j].by => Log[i].nth < Log[j].nth

\* Where the flows take turns, an event is missing from the log only for one of the
\* two reasons of compaction: as many events as the log holds came after it, or as
\* many closed sessions as are retained closed after its own (serialize-events.ts).
LostByRetentionOnly ==
    turns => \A i \in DOMAIN recorded :
        \/ \E j \in DOMAIN Log : Log[j].by = recorded[i].by /\ Log[j].nth = recorded[i].nth
        \/ Len(recorded) - i >= Maximum
        \/ \E k \in DOMAIN recorded :
             /\ recorded[k].type = "session_closed" /\ recorded[k].session = recorded[i].session
             /\ Cardinality({l \in DOMAIN recorded : l > k /\ recorded[l].type = "session_closed"})
                  >= Retain

\* Where the flows take turns, no number is ever given to two events, compacted or
\* not (docs/reliability.md: "sequence numbers remain monotonic").
NumbersUnique ==
    turns => \A i, j \in DOMAIN recorded : i < j => recorded[i].seq < recorded[j].seq

Journal == {[session |-> s, host |-> HostOf[s], task |-> Task]
              : s \in {t \in Sessions : flow[t].phase = "pending"}}
Everything == [task |-> None, session |-> None, host |-> None, limit |-> Maximum]
Requests == [task : {None, Task}, session : Sessions \cup {None},
             host : {HostOf[s] : s \in Sessions} \cup {"cli", None}, limit : 1..Maximum]

\* Whatever a report is asked for, its rating and its warnings agree: an error is
\* rated poor, a warning of recovery or of missing freshness never excellent
\* (analyze-reliability.ts computes the two separately).  Where a lone flow is about
\* to write, the log is still that of the state before.
RatingAgrees ==
    \/ turns /\ \E f \in Flows : flow[f].pc \in {"check", "write"}
    \/ \A view \in {<<Selected(Log, req), SelectedPending(Journal, req)>> : req \in Requests} :
        LET warnings == Warnings(view[1], view[2], Sessions)
            rating == Quality(view[1], warnings, view[2])
        IN /\ warnings \cap ErrorWarnings # {} => rating = "poor"
           /\ rating = "excellent" =>
                 warnings \cap {"W004", "W005", "W006", "W008"} = {}

\* Ordinary work never lowers the rating of the whole history: only an event of a
\* loss, of a recovery or of semantics that are not current does.
Rank == [unknown |-> 0, poor |-> 1, degraded |-> 2, good |-> 3, excellent |-> 4]
Ordinary(e) ==
    /\ e.type \in TaskActivity \cup {"session_opened", "session_closed", "checkpoint_duplicate"}
    /\ e.fresh \in {None, "current"}
WorkKeepsRating ==
    [][LET before == Selected(Log, Everything)
           after == Selected(store'.events, Everything)
           pending == SelectedPending(Journal, Everything)
       IN after # <<>> /\ Front(after) = before /\ Ordinary(Last(after)) =>
            Rank[RatingOf(after, pending, {})] >= Rank[RatingOf(before, pending, {})]]_store

\* Every report the command can be asked for satisfies its schema.
PercentAlwaysFits ==
    \A req \in Requests : LET events == Selected(Log, req) IN
        \A i \in DOMAIN events : CompletionPercent(events, events[i].host) \in 0..100 \cup {None}
================================================================================
