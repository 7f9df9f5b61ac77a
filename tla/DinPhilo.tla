------------------------------ MODULE DinPhilo ------------------------------
(***************************************************************************)
(* OS/SemaphoreDinPhilo.c: philosopher i takes fork i, then fork i+1, both *)
(* while holding one global semaphore, so that only one philosopher at a   *)
(* time reaches for forks.  A step is one semaphore call; thinking and     *)
(* dining (the sleeps) lie between steps.                                  *)
(***************************************************************************)
EXTENDS LabConstants     \* N

Phil == 0 .. N - 1
Right(i) == (i + 1) % N    \* the fork on the other side of philosopher i

VARIABLES mutex, forks, pc

vars == <<mutex, forks, pc>>

Init == mutex = 1 /\ forks = [k \in Phil |-> 1] /\ pc = [i \in Phil |-> "think"]

Goto(i, from, to) == pc[i] = from /\ pc' = [pc EXCEPT ![i] = to]
Take(k) == forks[k] > 0 /\ forks' = [forks EXCEPT ![k] = @ - 1]
Put(k) == forks' = [forks EXCEPT ![k] = @ + 1]

WaitMutex(i) == /\ Goto(i, "think", "waitLeft")
                /\ mutex > 0 /\ mutex' = mutex - 1 /\ UNCHANGED forks

WaitLeft(i) == Goto(i, "waitLeft", "waitRight") /\ Take(i) /\ UNCHANGED mutex

WaitRight_Same(i) ==     \* the second fork not waited for
    Goto(i, "waitRight", "postMutex") /\ UNCHANGED <<mutex, forks>>
WaitRight(i) == /\ Goto(i, "waitRight", "postMutex")
                /\ Take(Right(i)) /\ UNCHANGED mutex

PostMutex(i) == /\ Goto(i, "postMutex", "dine")
                /\ mutex' = mutex + 1 /\ UNCHANGED forks

PutLeft(i) == Goto(i, "dine", "putRight") /\ Put(i) /\ UNCHANGED mutex

PutRight(i) == Goto(i, "putRight", "think") /\ Put(Right(i)) /\ UNCHANGED mutex

philosophers(i) == \/ WaitMutex(i) \/ WaitLeft(i) \/ WaitRight(i)
                   \/ PostMutex(i) \/ PutLeft(i) \/ PutRight(i)

Next == \E i \in Phil : philosophers(i)

\* Every thread that can run is scheduled; sem_post is not assumed to wake
\* the thread that has waited longest.
Spec == Init /\ [][Next]_vars
FairSpec == Spec /\ \A i \in Phil : WF_vars(philosophers(i))

-----------------------------------------------------------------------------
PC == {"think", "waitLeft", "waitRight", "postMutex", "dine", "putRight"}

(* Every variable has its type: no semaphore is ever above 1.              *)
TypeOK == mutex \in 0 .. 1 /\ forks \in [Phil -> 0 .. 1] /\ pc \in [Phil -> PC]

HasLeft(i) == pc[i] \in {"waitRight", "postMutex", "dine"}
HasRight(i) == pc[i] \in {"postMutex", "dine", "putRight"}
Reaching(i) == pc[i] \in {"waitLeft", "waitRight", "postMutex"}

\* A fork is in at most one hand: the left fork of a philosopher is never
\* held while its other neighbour holds it as a right fork.
ForkExclusion == \A i \in Phil : ~(HasRight(i) /\ HasLeft(Right(i)))

\* "Using this mutex to prevent deadlock" (SemaphoreDinPhilo.c:8): whoever
\* got hold of the mutex ends up dining, even if both forks were in use.
HolderDines == \A i \in Phil : pc[i] = "waitLeft" ~> pc[i] = "dine"

\* The table as a whole never starves: somebody dines again and again.
SomeoneDines == []<>(\E i \in Phil : pc[i] = "dine")
=============================================================================
