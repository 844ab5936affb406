----------------------------- MODULE FifoMutex -----------------------------
(***************************************************************************)
(* What RepositoryOperationQueue promises its callers: the operations of   *)
(* one repository run one at a time, in the order in which they were       *)
(* submitted, and operations of different repositories do not wait for     *)
(* each other.                                                             *)
(*                                                                         *)
(* ahead[c] is the set of calls for the same repository that were          *)
(* submitted before c.                                                     *)
(***************************************************************************)

CONSTANTS Calls,         \* submitted operations
          Repositories,  \* canonical repository identities
          RepositoryOf   \* the repository each call is for

VARIABLES status,  \* idle, waiting, running or done
          ahead    \* the calls each call has to wait for

vars == <<status, ahead>>

Peers(c) == {d \in Calls : RepositoryOf[d] = RepositoryOf[c]}

Init ==
    /\ status = [c \in Calls |-> "idle"]
    /\ ahead = [c \in Calls |-> {}]

Submit(c) ==
    /\ status[c] = "idle"
    /\ status' = [status EXCEPT ![c] = "waiting"]
    /\ ahead' = [ahead EXCEPT ![c] = {d \in Peers(c) : status[d] # "idle"}]

Enter(c) ==
    /\ status[c] = "waiting"
    /\ \A d \in ahead[c] : status[d] = "done"
    /\ status' = [status EXCEPT ![c] = "running"]
    /\ UNCHANGED ahead

Leave(c) ==
    /\ status[c] = "running"
    /\ status' = [status EXCEPT ![c] = "done"]
    /\ UNCHANGED ahead

Next == \E c \in Calls : Submit(c) \/ Enter(c) \/ Leave(c)

Spec == Init /\ [][Next]_vars
=============================================================================
