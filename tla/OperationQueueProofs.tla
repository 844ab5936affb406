------------------------ MODULE OperationQueueProofs ------------------------
(***************************************************************************)
(* The promise chain of RepositoryOperationQueue is a FIFO mutex for any   *)
(* set of calls and repositories.                                          *)
(*                                                                         *)
(* The argument: a call waits for one tail only, that of the call directly *)
(* in front of it.  ChainInv says that this is enough: everything else in  *)
(* front of a call is in front of its predecessor too, a tail settles only *)
(* when everything up to it has been released, and a repository whose tail *)
(* was forgotten has nothing in progress.                                  *)
(***************************************************************************)
EXTENDS OperationQueue, TLAPS

Submitted(c) == status[c] # "idle"

AllDone(S) == \A d \in S : status[d] = "done"

\* A registered tail belongs to the last call of its repository, which is not
\* over; without one, nothing of the repository is in progress.
TailsInv ==
    \A r \in Repositories :
        /\ tails[r] = NoCall =>
              \A c \in Calls : RepositoryOf[c] = r => status[c] \in {"idle", "done"}
        /\ tails[r] # NoCall =>
              /\ RepositoryOf[tails[r]] = r
              /\ status[tails[r]] \in {"waiting", "running"}
              /\ \A c \in Calls :
                    (RepositoryOf[c] = r /\ c # tails[r] /\ Submitted(c)) =>
                        c \in ahead[tails[r]]

\* The calls in front of a call are submitted calls of the same repository, and
\* of two submitted calls of a repository one is in front of the other.
OrderInv ==
    \A c \in Calls :
        /\ \A d \in ahead[c] : RepositoryOf[d] = RepositoryOf[c] /\ Submitted(d)
        /\ \A d \in Calls :
              (d # c /\ RepositoryOf[d] = RepositoryOf[c] /\ Submitted(c) /\ Submitted(d)) =>
                  c \in ahead[d] \/ d \in ahead[c]

\* What is in front of a submitted call is done, or is covered by the tail that
\* the call waits for, which is that of a call in front of it.
PreviousInv ==
    \A c \in Calls : Submitted(c) =>
        /\ previous[c] # NoCall => previous[c] \in ahead[c]
        /\ \A d \in ahead[c] :
              \/ status[d] = "done"
              \/ /\ previous[c] # NoCall
                 /\ d = previous[c] \/ d \in ahead[previous[c]]

\* A settled tail, a running call and a finished call have everything in front
\* of them done.
SettledInv ==
    /\ \A c \in settled : status[c] = "done" /\ AllDone(ahead[c])
    /\ \A c \in Calls : status[c] \in {"running", "done"} => AllDone(ahead[c])

ChainInv == TypeOK /\ TailsInv /\ OrderInv /\ PreviousInv /\ SettledInv

----------------------------------------------------------------------------

LEMMA InitChain == Init => ChainInv
  BY QueueAssumption
     DEF Init, ChainInv, TypeOK, TailsInv, OrderInv, PreviousInv, SettledInv,
         Submitted, AllDone, Statuses

\* A call whose predecessor has settled has nothing in progress in front of it.
LEMMA PredecessorSettled ==
  ASSUME ChainInv, NEW c \in Calls, Submitted(c), Settled(previous[c])
  PROVE  AllDone(ahead[c])
  <1> SUFFICES ASSUME NEW d \in ahead[c], status[d] # "done"
               PROVE  FALSE
    BY DEF AllDone
  <1>1. previous[c] # NoCall /\ (d = previous[c] \/ d \in ahead[previous[c]])
    BY DEF ChainInv, PreviousInv
  <1>2. previous[c] \in settled
    BY <1>1 DEF Settled
  <1> QED
    BY <1>1, <1>2 DEF ChainInv, SettledInv, AllDone

LEMMA RunChain ==
  ASSUME ChainInv, NEW c \in Calls, Run(c)
  PROVE  ChainInv'
  <1> USE QueueAssumption DEF ChainInv, Submitted
  <1> DEFINE r == RepositoryOf[c]
  <1>1. /\ status[c] = "idle"
        /\ previous' = [previous EXCEPT ![c] = tails[r]]
        /\ tails' = [tails EXCEPT ![r] = c]
        /\ status' = [status EXCEPT ![c] = "waiting"]
        /\ ahead' = [ahead EXCEPT ![c] = {d \in Peers(c) : status[d] # "idle"}]
        /\ settled' = settled
    BY DEF Run
  <1>2. r \in Repositories /\ TypeOK
    OBVIOUS
  <1>3. TypeOK'
    BY <1>1, <1>2 DEF TypeOK, Statuses, Peers
  <1>4. /\ status'[c] = "waiting"
        /\ ahead'[c] = {d \in Peers(c) : status[d] # "idle"}
        /\ previous'[c] = tails[r]
        /\ tails'[r] = c
        /\ \A d \in Calls : d # c => /\ status'[d] = status[d]
                                     /\ ahead'[d] = ahead[d]
                                     /\ previous'[d] = previous[d]
        /\ \A q \in Repositories : q # r => tails'[q] = tails[q]
        /\ \A d \in Calls : c \notin ahead[d] /\ ahead[d] \subseteq Calls
    BY <1>1, <1>2 DEF TypeOK, OrderInv
  <1>5. TailsInv'
    BY <1>2, <1>4 DEF TailsInv, TypeOK, Peers
  <1>6. OrderInv'
    BY <1>2, <1>4 DEF OrderInv, Peers
  <1>7. PreviousInv'
    <2>1. ASSUME NEW d \in Calls, status'[d] # "idle", previous'[d] # NoCall
          PROVE  previous'[d] \in ahead'[d]
      <3>1. CASE d = c
        <4>1. tails[r] \in Calls /\ RepositoryOf[tails[r]] = r /\ status[tails[r]] # "idle"
          BY <2>1, <3>1, <1>2, <1>4 DEF TailsInv, TypeOK
        <4> QED
          BY <3>1, <4>1, <1>4 DEF Peers
      <3>2. CASE d # c
        BY <2>1, <3>2, <1>4 DEF PreviousInv
      <3> QED
        BY <3>1, <3>2
    <2>2. ASSUME NEW d \in Calls, status'[d] # "idle", NEW e \in ahead'[d],
                 status'[e] # "done"
          PROVE  /\ previous'[d] # NoCall
                 /\ e = previous'[d] \/ e \in ahead'[previous'[d]]
      <3>1. CASE d = c
        <4>1. e \in Calls /\ e # c /\ RepositoryOf[e] = r /\ status[e] \notin {"idle", "done"}
          BY <1>1, <1>4, <2>2, <3>1 DEF Peers
        <4>2. tails[r] # NoCall /\ tails[r] \in Calls /\ tails[r] # c
          BY <4>1, <1>1, <1>2 DEF TailsInv, TypeOK
        <4> QED
          BY <4>1, <4>2, <1>2, <1>4, <3>1 DEF TailsInv
      <3>2. CASE d # c
        <4>1. e \in ahead[d] /\ e \in Calls /\ e # c
          BY <1>4, <2>2, <3>2
        <4>2. previous[d] # NoCall /\ (e = previous[d] \/ e \in ahead[previous[d]])
          BY <2>2, <4>1, <1>4, <3>2 DEF PreviousInv
        <4>3. previous[d] \in Calls /\ previous[d] # c
          BY <2>2, <4>2, <1>2, <1>4, <3>2 DEF TypeOK, PreviousInv
        <4> QED
          BY <4>2, <4>3, <1>4, <3>2
      <3> QED
        BY <3>1, <3>2
    <2> QED
      BY <2>1, <2>2 DEF PreviousInv
  <1>8. SettledInv'
    BY <1>1, <1>2, <1>4 DEF SettledInv, AllDone, TypeOK
  <1> QED
    BY <1>3, <1>5, <1>6, <1>7, <1>8

LEMMA ProceedChain ==
  ASSUME ChainInv, NEW c \in Calls, Proceed(c)
  PROVE  ChainInv'
  <1> USE QueueAssumption DEF Submitted
  <1>1. AllDone(ahead[c])
    BY PredecessorSettled DEF Proceed
  <1>2. /\ status[c] = "waiting"
        /\ status' = [status EXCEPT ![c] = "running"]
        /\ UNCHANGED <<tails, previous, settled, ahead>>
    BY DEF Proceed
  <1>3. TypeOK'
    BY <1>2 DEF ChainInv, TypeOK, Statuses
  <1>4. TailsInv'
    BY <1>2 DEF ChainInv, TypeOK, TailsInv
  <1>5. OrderInv'
    BY <1>2 DEF ChainInv, TypeOK, OrderInv
  <1>6. PreviousInv'
    BY <1>2 DEF ChainInv, TypeOK, PreviousInv
  <1>7. SettledInv'
    BY <1>1, <1>2 DEF ChainInv, TypeOK, SettledInv, AllDone
  <1> QED
    BY <1>3, <1>4, <1>5, <1>6, <1>7 DEF ChainInv

LEMMA ReleaseChain ==
  ASSUME ChainInv, NEW c \in Calls, Release(c)
  PROVE  ChainInv'
  <1> USE QueueAssumption DEF Submitted
  <1> DEFINE r == RepositoryOf[c]
  <1>1. /\ status[c] = "running"
        /\ status' = [status EXCEPT ![c] = "done"]
        /\ UNCHANGED <<previous, settled, ahead>>
        /\ r \in Repositories
    BY DEF Release
  <1>2. AllDone(ahead[c])
    BY <1>1 DEF ChainInv, SettledInv
  <1>3. TypeOK'
    BY <1>1 DEF Release, ChainInv, TypeOK, Statuses
  <1>4. TailsInv'
    <2>1. CASE tails[r] = c
      <3>1. tails' = [tails EXCEPT ![r] = NoCall]
        BY <2>1 DEF Release
      <3>2. \A d \in Calls : RepositoryOf[d] = r => status'[d] \in {"idle", "done"}
        BY <1>1, <1>2, <2>1 DEF ChainInv, TailsInv, TypeOK, AllDone
      <3> QED
        BY <1>1, <2>1, <3>1, <3>2 DEF ChainInv, TailsInv, TypeOK
    <2>2. CASE tails[r] # c
      <3>1. tails' = tails
        BY <2>2 DEF Release
      <3> QED
        BY <1>1, <2>2, <3>1 DEF ChainInv, TailsInv, TypeOK
    <2> QED
      BY <2>1, <2>2
  <1>5. OrderInv'
    BY <1>1 DEF ChainInv, TypeOK, OrderInv
  <1>6. PreviousInv'
    BY <1>1 DEF ChainInv, TypeOK, PreviousInv
  <1>7. SettledInv'
    BY <1>1, <1>2 DEF ChainInv, TypeOK, SettledInv, AllDone
  <1> QED
    BY <1>3, <1>4, <1>5, <1>6, <1>7 DEF ChainInv

LEMMA SettleTailChain ==
  ASSUME ChainInv, NEW c \in Calls, SettleTail(c)
  PROVE  ChainInv'
  <1>1. AllDone(ahead[c])
    BY PredecessorSettled DEF SettleTail, Submitted
  <1> QED
    BY <1>1 DEF SettleTail, ChainInv, TypeOK, TailsInv, OrderInv, PreviousInv,
                SettledInv, Submitted, AllDone

LEMMA NextChain == ChainInv /\ [Next]_vars => ChainInv'
  <1> SUFFICES ASSUME ChainInv, [Next]_vars
               PROVE  ChainInv'
    OBVIOUS
  <1>1. ASSUME NEW c \in Calls, Run(c) \/ Proceed(c) \/ Release(c) \/ SettleTail(c)
        PROVE  ChainInv'
    BY <1>1, RunChain, ProceedChain, ReleaseChain, SettleTailChain
  <1>2. CASE UNCHANGED vars
    BY <1>2 DEF vars, ChainInv, TypeOK, TailsInv, OrderInv, PreviousInv, SettledInv,
                Submitted, AllDone
  <1> QED
    BY <1>1, <1>2 DEF Next

\* Every reachable state of the queue satisfies the chain invariant.
THEOREM ChainInvariant == Spec => []ChainInv
  BY InitChain, NextChain, PTL DEF Spec

\* The queue's variables always hold values of their types.
THEOREM TypeCorrect == Spec => []TypeOK
  <1>1. ChainInv => TypeOK
    BY DEF ChainInv
  <1> QED
    BY <1>1, ChainInvariant, PTL

\* RepositoryOperationQueue never has two operations of a repository in progress.
THEOREM MutualExclusionHolds == Spec => []MutualExclusion
  <1>1. ChainInv => MutualExclusion
    BY DEF ChainInv, OrderInv, SettledInv, AllDone, Submitted, MutualExclusion
  <1> QED
    BY <1>1, ChainInvariant, PTL

\* The map of tails holds nothing for a repository without pending operations.
THEOREM TailsForgottenHolds == Spec => []TailsForgotten
  <1>1. ChainInv => TailsForgotten
    <2> SUFFICES ASSUME ChainInv, NEW r \in Repositories, tails[r] # NoCall,
                        \A c \in Calls : RepositoryOf[c] = r => status[c] \in {"idle", "done"}
                 PROVE  FALSE
      BY DEF TailsForgotten
    <2> QED
      BY DEF ChainInv, TypeOK, TailsInv
  <1> QED
    BY <1>1, ChainInvariant, PTL

\* The promise chain implements the abstract FIFO mutex, step by step.
THEOREM QueueImplementsMutex == Spec => ImplementsMutex
  <1>1. Init => Mutex!Init
    BY DEF Init, Mutex!Init
  <1>2. ChainInv /\ [Next]_vars => [Mutex!Next]_Mutex!vars
    <2> SUFFICES ASSUME ChainInv, [Next]_vars
                 PROVE  [Mutex!Next]_Mutex!vars
      OBVIOUS
    <2>1. ASSUME NEW c \in Calls, Run(c)
          PROVE  Mutex!Submit(c)
      BY <2>1 DEF Run, Mutex!Submit, Peers, Mutex!Peers
    <2>2. ASSUME NEW c \in Calls, Proceed(c)
          PROVE  Mutex!Enter(c)
      <3>1. AllDone(ahead[c])
        BY <2>2, PredecessorSettled DEF Proceed, Submitted
      <3> QED
        BY <2>2, <3>1 DEF Proceed, Mutex!Enter, AllDone
    <2>3. ASSUME NEW c \in Calls, Release(c)
          PROVE  Mutex!Leave(c)
      BY <2>3 DEF Release, Mutex!Leave
    <2>4. ASSUME NEW c \in Calls, SettleTail(c)
          PROVE  UNCHANGED Mutex!vars
      BY <2>4 DEF SettleTail, Mutex!vars
    <2>5. CASE UNCHANGED vars
      BY <2>5 DEF vars, Mutex!vars
    <2> QED
      BY <2>1, <2>2, <2>3, <2>4, <2>5 DEF Next, Mutex!Next
  <1> QED
    BY <1>1, <1>2, ChainInvariant, PTL DEF Spec, ImplementsMutex, Mutex!Spec
=============================================================================
