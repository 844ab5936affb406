--------------------------- MODULE ReliabilityReport ---------------------------
(***************************************************************************)
(* The report of `b1 reliability`: which recorded events it considers      *)
(* (integrations/reliability/load-report.ts) and what it says of them      *)
(* (core/reliability/analyze-reliability.ts), as operators on a sequence   *)
(* of events and the sessions the journal keeps as pending.                *)
(***************************************************************************)
EXTENDS Integers, Sequences, FiniteSets, SequencesExt

CONSTANT None       \* an optional field that is absent

\* The events at some positions, in their order: what SelectSeq does for a test.
Among(events, at) ==
    [n \in 1..Cardinality(at) |-> events[CHOOSE k \in at : Cardinality({j \in at : j <= k}) = n]]
Types(events) == {events[i].type : i \in DOMAIN events}
Of(events, session) == SelectSeq(events, LAMBDA e : e.session = session)
SessionsIn(events) == {events[i].session : i \in DOMAIN events} \ {None}
With(events, type) == Among(events, {i \in DOMAIN events : events[i].type = type})

(***************************************************************************)
(* A request for a report: a task, a session and a host to keep, or None,  *)
(* and the number of latest events it looks at.                            *)
(***************************************************************************)
Selected(events, req) ==
    LET matching == {events[i].session : i \in {j \in DOMAIN events : events[j].task = req.task}}
        found == Among(events, {j \in DOMAIN events :
            /\ \/ req.task \in {None, events[j].task}
               \/ events[j].session \in matching \ {None}
            /\ req.session \in {None, events[j].session}
            /\ req.host \in {None, events[j].host}})
        from == Len(found) - req.limit + 1
    IN SubSeq(found, IF from < 1 THEN 1 ELSE from, Len(found))

\* The pending sessions of the journal, an entry [session, host, task] each
SelectedPending(journal, req) ==
    {p.session : p \in {q \in journal : /\ req.host \in {None, q.host}
                                        /\ req.task \in {None, q.task}
                                        /\ req.session \in {None, q.session}}}

(***************************************************************************)
(* The completion of the sessions of a host: of every hundred opened ones, *)
(* how many closed or finished a task; Math.round of the quotient.         *)
(***************************************************************************)
CompletionPercent(events, host) ==
    LET own == SelectSeq(events, LAMBDA e : e.host = host)
        observed == Len(With(own, "session_opened"))
        completed == Cardinality(SessionsIn(With(own, "session_closed"))
                                 \cup SessionsIn(With(own, "task_finished")))
    IN IF observed = 0 THEN None ELSE (200 * completed + observed) \div (2 * observed)

Freshness(events) ==
    LET known == {i \in DOMAIN events : events[i].fresh # None}
    IN IF known = {} THEN "unknown" ELSE events[Max(known)].fresh

(***************************************************************************)
(* The warnings; "long" holds the sessions whose events span a minute.     *)
(***************************************************************************)
TaskActivity == {"task_started", "task_continued", "progress_report_submitted",
                 "checkpoint_created", "task_finished"}
Disappeared == {"session_detached", "session_timed_out", "session_interrupted"}
SessionEnds == Disappeared \cup {"session_closed", "session_superseded"}

SessionWarnings(events, long) ==
    UNION {LET types == Types(Of(events, s))
               durable == types \cap {"checkpoint_created", "task_finished"} # {}
               unreported == durable /\ "progress_report_submitted" \notin types
           IN {w \in {"W001", "W002", "W003", "W009"} :
                 CASE w = "W001" -> /\ "session_opened" \in types /\ s \in long
                                    /\ types \cap SessionEnds # {} /\ types \cap TaskActivity = {}
                   [] w = "W002" -> unreported
                   [] w = "W003" -> types \cap Disappeared # {}
                   [] w = "W009" -> unreported /\ "session_closed" \notin types}
           : s \in SessionsIn(events)}

Warnings(events, pending, long) ==
    SessionWarnings(events, long) \cup
    {w \in {"W004", "W005", "W006", "W007", "W008"} :
        CASE w = "W004" -> "recovery_checkpoint_created" \in Types(events)
          [] w = "W005" -> Freshness(events) = "reused"
          [] w = "W006" -> Freshness(events) = "absent"
          [] w = "W007" -> \E i \in DOMAIN events :
                                events[i].type = "task_finished" /\ ~events[i].checked
          [] w = "W008" -> pending # {} /\ events # <<>>}
ErrorWarnings == {"W008"}

(***************************************************************************)
(* The rating of the continuity.                                           *)
(***************************************************************************)
HasCheckpoint(events) ==
    \/ Types(events) \cap {"checkpoint_created", "recovery_checkpoint_created"} # {}
    \/ \E i \in DOMAIN events : events[i].type = "task_finished"    \* with its final checkpoint
Completed(events) == Types(events) \cap {"session_closed", "task_finished"} # {}

\* Mutant: the rating is that of the latest event.
QualityOfLatest(events, warnings, pending) ==
    IF /\ events # <<>> /\ pending = {}
       /\ Last(events).type \in {"session_closed", "task_finished", "checkpoint_created"}
    THEN "good" ELSE IF pending # {} THEN "poor" ELSE "degraded"
\* Mutant: a recovery that succeeded does not count.
QualityForgiving(events, warnings, pending) ==
    IF pending # {} /\ events # <<>> THEN "poor"
    ELSE IF /\ Completed(events) /\ Freshness(events) = "current" /\ HasCheckpoint(events)
         THEN "excellent" ELSE "degraded"
Quality(events, warnings, pending) ==
    LET types == Types(events)
        fresh == Freshness(events)
    IN IF events = <<>> THEN "unknown"
       ELSE IF \/ pending # {} \/ "recovery_checkpoint_failed" \in types
               \/ warnings \cap ErrorWarnings # {}
               \/ fresh = "absent" /\ ~HasCheckpoint(events)
            THEN "poor"
       ELSE IF \/ types \cap {"session_interrupted", "session_timed_out",
                             "recovery_checkpoint_created"} # {}
               \/ fresh \in {"reused", "absent"}
            THEN "degraded"
       ELSE IF /\ Completed(events) /\ fresh = "current" /\ HasCheckpoint(events)
               /\ "progress_report_submitted" \in types
            THEN "excellent"
       ELSE IF HasCheckpoint(events) \/ Completed(events) THEN "good" ELSE "degraded"

RatingOf(events, pending, long) == Quality(events, Warnings(events, pending, long), pending)
================================================================================
