---------------------------- MODULE MCTaskStore ----------------------------
(***************************************************************************)
(* Small instances of TaskStore: two operations in flight, two conclusions *)
(* of which one is work in progress.                                       *)
(***************************************************************************)
EXTENDS TaskStore, TLC

CONSTANTS a, b, p1, p2

OneEntryReports == {{a}, {b}}
NoOrOneEntry == {{}, {a}}
JustEmpty == {{}}
TwoProcs == {p1, p2}
AllEntries == {a, b}
HalfWork == {b}
WriteFaults == {"create", "replace", "remove"}
RecoverableFaults == WriteFaults \cup {"crash"}
EveryFault == FaultKinds

Symmetric == Permutations(Procs)

\* The checkpoints of either task.
Taken == {history[t][c] : <<t, c>> \in Tasks \X Cps}

\* A behaviour may have a second task, a second observation or a second conclusion: each is
\* explored with every interleaving, failure and crash, but not their product.
OneSecond ==
    LET second == {x \in {"task", "observation", "conclusion"} :
            CASE x = "task" -> current.task = 2 \/ CpsOf(2) # {}
              [] x = "observation" -> git = 2 \/ \E k \in Taken : k.fp.git = 2
              [] OTHER -> a \in current.entries \/ \E k \in Taken : a \in k.entries}
    IN Cardinality(second) <= 1
=============================================================================
