----------------------------- MODULE TaskLedger -----------------------------
(***************************************************************************)
(* What the task store promises the agents that share a repository: one    *)
(* active task at a time, conclusions that only accumulate, and a finish   *)
(* that files everything concluded, at once and for good.                  *)
(*                                                                         *)
(* Checkpoints, revisions, files and failures are not visible here: an     *)
(* operation takes effect in one step or not at all.                       *)
(***************************************************************************)

CONSTANTS Tasks,    \* task identities
          Entries,  \* semantic conclusions
          None      \* no task

VARIABLES active,      \* the active task, None when there is none
          conclusions, \* what has been concluded about the active task
          finished     \* what was filed: a function on the finished tasks

vars == <<active, conclusions, finished>>

Init ==
    /\ active = None
    /\ conclusions = {}
    /\ finished = [t \in {} |-> {}]

\* The identity of a finished task is never issued again.
Start(t) ==
    /\ active = None
    /\ t \notin DOMAIN finished
    /\ active' = t
    /\ conclusions' = {}
    /\ UNCHANGED finished

Report(new) ==
    /\ active # None
    /\ conclusions' = conclusions \cup new
    /\ UNCHANGED <<active, finished>>

Finish(new) ==
    /\ active # None
    /\ finished' = [t \in DOMAIN finished \cup {active} |->
                        IF t = active THEN conclusions \cup new ELSE finished[t]]
    /\ active' = None
    /\ conclusions' = {}

Next ==
    \/ \E t \in Tasks : Start(t)
    \/ \E new \in SUBSET Entries : Report(new) \/ Finish(new)

Spec == Init /\ [][Next]_vars
=============================================================================
