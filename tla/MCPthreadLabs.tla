---------------------------- MODULE MCPthreadLabs ----------------------------
(***************************************************************************)
(* The five pthread programs model-checked in one run: `lab' is the one    *)
(* that is executed, the others rest in their initial states.  Nothing is  *)
(* shared between the programs.  SemProdCons is extended, the others are   *)
(* instantiated, and a variable whose name is taken has a prefix here      *)
(* (m: MonitorProdCons, p: DinPhilo, r: ReadWrite, t: ThreadPool).         *)
(***************************************************************************)
EXTENDS SemProdCons

VARIABLES lab,
          mBffr, mCount, mMutex, mPc, mItem, mGot, spurious,
          pMutex, forks, pPc,
          rMutex, writing, readCount, rPc,
          mtx, threadCount, tPc, started, joined, tSpurious

Mon == INSTANCE MonitorProdCons
         WITH bffr <- mBffr, count <- mCount, mutex <- mMutex, pc <- mPc,
              item <- mItem, got <- mGot
Philo == INSTANCE DinPhilo WITH mutex <- pMutex, pc <- pPc
RW == INSTANCE ReadWrite WITH mutex <- rMutex, pc <- rPc
Pool == INSTANCE ThreadPool WITH pc <- tPc, spurious <- tSpurious

monVars == <<mBffr, mCount, mMutex, mPc, mItem, mGot, spurious>>
philoVars == <<pMutex, forks, pPc>>
rwVars == <<rMutex, writing, readCount, rPc>>
poolVars == <<mtx, threadCount, tPc, started, joined, tSpurious>>
labVars == <<lab, vars, monVars, philoVars, rwVars, poolVars>>

LabInit ==
     /\ lab \in {"sem", "monitor", "philosophers", "readers", "pool"}
     /\ Init /\ Mon!Init /\ Philo!Init /\ RW!Init /\ Pool!Init

SemStep == /\ lab = "sem" /\ Next
           /\ UNCHANGED <<lab, monVars, philoVars, rwVars, poolVars>>
MonStep == /\ lab = "monitor" /\ Mon!Next
           /\ UNCHANGED <<lab, vars, philoVars, rwVars, poolVars>>
PhiloStep == /\ lab = "philosophers" /\ Philo!Next
             /\ UNCHANGED <<lab, vars, monVars, rwVars, poolVars>>
RWStep == /\ lab = "readers" /\ RW!Next
          /\ UNCHANGED <<lab, vars, monVars, philoVars, poolVars>>
PoolStep == /\ lab = "pool" /\ Pool!Next
            /\ UNCHANGED <<lab, vars, monVars, philoVars, rwVars>>

LabNext == SemStep \/ MonStep \/ PhiloStep \/ RWStep \/ PoolStep

\* The fairness of each program, on the steps of the one that is executed.
LabSpec ==
    /\ LabInit /\ [][LabNext]_labVars
    /\ WF_vars(lab = "sem" /\ producer)
    /\ WF_vars(lab = "sem" /\ consumer)
    /\ WF_monVars(lab = "monitor" /\ Mon!producer)
    /\ WF_monVars(lab = "monitor" /\ Mon!consumer)
    /\ \A p \in Philo!Phil :
           WF_philoVars(lab = "philosophers" /\ Philo!philosophers(p))
    /\ \A w \in Writers : WF_rwVars(lab = "readers" /\ RW!writer(w))
    /\ \A r \in Readers : WF_rwVars(lab = "readers" /\ RW!reader(r))
    /\ WF_poolVars(lab = "pool" /\ Pool!main)
    /\ \A w \in Pool!Ids : WF_poolVars(lab = "pool" /\ Pool!worker(w))

-----------------------------------------------------------------------------
\* IndexInBounds and ImplementsLifo are those of SemProdCons; the type
\* invariants of the other programs are checked with their first property.

\* MonitorProdCons.c:29 and 47: bffr is used only when the predicate that the
\* thread waited for holds, however it was woken.
PredicateHolds == Mon!TypeOK /\ Mon!IndexInBounds

\* MonitorProdCons.c: a thread sleeps only while its predicate is false, or
\* while the other has changed count and is about to signal.
NoLostWakeup == Mon!NoLostWakeup

\* SemaphoreDinPhilo.c: no fork is in the hands of two neighbours.
ForkExclusion == Philo!TypeOK /\ Philo!ForkExclusion

\* SemaphoreReadWrite.c: a writer shares the resource with nobody.
WriterAlone == RW!TypeOK /\ RW!WriterAlone

\* deadThreadPool.cpp: threadCount counts the workers that hold a place, and
\* they never reach maxThreads.
Throttled == Pool!TypeOK /\ Pool!Throttled

\* No program stops short: both ends of both buffers keep working, somebody
\* dines again and again and whoever got hold of the mutex does (it is there
\* "to prevent deadlock", SemaphoreDinPhilo.c:8), somebody reads or writes
\* again and again, and main of the pool joins every worker, with threads
\* scheduled fairly but no semaphore or mutex fair.
Progress == /\ lab = "sem" => BothProgress
            /\ lab = "monitor" => Mon!BothProgress
            /\ lab = "philosophers" => Philo!SomeoneDines /\ Philo!HolderDines
            /\ lab = "readers" => RW!SomeoneGetsIn
            /\ lab = "pool" => Pool!Completes
=============================================================================
