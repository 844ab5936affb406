--------------------------- MODULE OperationQueue ---------------------------
(***************************************************************************)
(* RepositoryOperationQueue: one promise chain per repository.             *)
(*                                                                         *)
(* run(repository, operation) executes synchronously up to its first await *)
(* (Run): it takes the repository's tail promise, or a resolved one, as    *)
(* `previous`, creates `current`, and registers as the new tail            *)
(*     previous.catch().then(() => current).                               *)
(* It then awaits `previous` (Proceed), runs the operation, and in its     *)
(* finally block resolves `current` and forgets its tail if no later call  *)
(* replaced it (Release), whether the operation returned or threw.         *)
(* A tail settles in a microtask of its own (SettleTail).                  *)
(***************************************************************************)
EXTENDS FiniteSets

CONSTANTS Calls, Repositories, RepositoryOf,
          NoCall  \* the resolved promise: nothing registered for a repository

ASSUME QueueAssumption ==
    /\ RepositoryOf \in [Calls -> Repositories]
    /\ NoCall \notin Calls

VARIABLES tails,     \* the map of registered tails: which call's tail
          previous,  \* the call whose tail each call waits for
          status,    \* where each call is
          settled,   \* calls whose tail promise has settled
          ahead      \* history: calls of the repository submitted earlier

vars == <<tails, previous, status, settled, ahead>>

Statuses == {"idle", "waiting", "running", "done"}

Peers(c) == {d \in Calls : RepositoryOf[d] = RepositoryOf[c]}

\* Mutant: the predecessor is looked up again among the registered tails.
SettledRegistered(c) ==
    \/ c = NoCall
    \/ c \in settled /\ \E r \in Repositories : tails[r] = c

Settled(c) == c = NoCall \/ c \in settled

Init ==
    /\ tails = [r \in Repositories |-> NoCall]
    /\ previous = [c \in Calls |-> NoCall]
    /\ status = [c \in Calls |-> "idle"]
    /\ settled = {}
    /\ ahead = [c \in Calls |-> {}]

\* tails.get(...) ?? Promise.resolve(), new Promise, tails.set(...)
Run(c) ==
    /\ status[c] = "idle"
    /\ previous' = [previous EXCEPT ![c] = tails[RepositoryOf[c]]]
    /\ tails' = [tails EXCEPT ![RepositoryOf[c]] = c]
    /\ status' = [status EXCEPT ![c] = "waiting"]
    /\ ahead' = [ahead EXCEPT ![c] = {d \in Peers(c) : status[d] # "idle"}]
    /\ UNCHANGED settled

\* Mutant: the predecessor is not awaited.
ProceedAtOnce(c) ==
    /\ status[c] = "waiting"
    /\ status' = [status EXCEPT ![c] = "running"]
    /\ UNCHANGED <<tails, previous, settled, ahead>>

\* await previous.catch(...)
Proceed(c) ==
    /\ status[c] = "waiting"
    /\ Settled(previous[c])
    /\ status' = [status EXCEPT ![c] = "running"]
    /\ UNCHANGED <<tails, previous, settled, ahead>>

\* Mutant: the tail is forgotten although a later call has replaced it.
ReleaseForgetting(c) ==
    /\ status[c] = "running"
    /\ status' = [status EXCEPT ![c] = "done"]
    /\ tails' = [tails EXCEPT ![RepositoryOf[c]] = NoCall]
    /\ UNCHANGED <<previous, settled, ahead>>

\* Mutant: the tail is never forgotten.
ReleaseKeeping(c) ==
    /\ status[c] = "running"
    /\ status' = [status EXCEPT ![c] = "done"]
    /\ UNCHANGED <<tails, previous, settled, ahead>>

\* finally { release(); if (tails.get(id) === tail) tails.delete(id) }
Release(c) ==
    /\ status[c] = "running"
    /\ status' = [status EXCEPT ![c] = "done"]
    /\ tails' = IF tails[RepositoryOf[c]] = c
                THEN [tails EXCEPT ![RepositoryOf[c]] = NoCall]
                ELSE tails
    /\ UNCHANGED <<previous, settled, ahead>>

\* previous.catch(...).then(() => current) settles once both have.
SettleTail(c) ==
    /\ status[c] = "done"
    /\ c \notin settled
    /\ Settled(previous[c])
    /\ settled' = settled \cup {c}
    /\ UNCHANGED <<tails, previous, status, ahead>>

Next == \E c \in Calls : Run(c) \/ Proceed(c) \/ Release(c) \/ SettleTail(c)

Spec == Init /\ [][Next]_vars

\* The event loop runs every ready continuation, and the operations handed to
\* the queue return or throw: they await bounded file-system and Git calls.
\* Whether a caller submits another operation is up to the caller.
Fairness == \A c \in Calls : WF_vars(Proceed(c)) /\ WF_vars(Release(c)) /\ WF_vars(SettleTail(c))

FairSpec == Spec /\ Fairness

----------------------------------------------------------------------------
(* Properties *)

\* Each variable holds what the code can store in it.
TypeOK ==
    /\ tails \in [Repositories -> Calls \cup {NoCall}]
    /\ previous \in [Calls -> Calls \cup {NoCall}]
    /\ status \in [Calls -> Statuses]
    /\ settled \in SUBSET Calls
    /\ ahead \in [Calls -> SUBSET Calls]

\* The promise chain implements the abstract queue: operations of a repository
\* run one at a time in submission order, and never wait for another repository.
Mutex == INSTANCE FifoMutex

ImplementsMutex == Mutex!Spec

\* Two operations of one repository are never in progress together.
MutualExclusion ==
    \A c, d \in Calls :
        (c # d /\ RepositoryOf[c] = RepositoryOf[d]) =>
            ~(status[c] = "running" /\ status[d] = "running")

\* The map does not grow with the repositories ever used: a repository with no
\* call waiting or running has no registered tail.
TailsForgotten ==
    \A r \in Repositories :
        (\A c \in Calls : RepositoryOf[c] = r => status[c] \in {"idle", "done"}) =>
            tails[r] = NoCall

\* A call never waits for a tail that was already forgotten and lost: every
\* submitted operation starts.
EveryCallRuns == \A c \in Calls : (status[c] = "waiting") ~> (status[c] = "running")
=============================================================================
