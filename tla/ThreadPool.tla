----------------------------- MODULE ThreadPool -----------------------------
(***************************************************************************)
(* CppDump/deadThreadPool.cpp: main starts one thread per task; a worker   *)
(* runs its task only while fewer than maxThreads - 1 others do, waiting   *)
(* on a condition variable otherwise, and main joins them all.             *)
(* cv.wait(lock, pred) is `while (!pred()) wait', with spurious wakeups.   *)
(***************************************************************************)
EXTENDS LabConstants     \* Workers, maxThreads, MaxSpurious

Ids == 0 .. Workers - 1
NoOne == -1

VARIABLES mtx,          \* the worker holding the mutex, or NoOne
          threadCount,
          pc,           \* where each worker is
          started,      \* threads main has created so far
          joined,       \* threads main has joined so far
          spurious

vars == <<mtx, threadCount, pc, started, joined, spurious>>

Init == /\ mtx = NoOne /\ threadCount = 0
        /\ pc = [w \in Ids |-> "unborn"]
        /\ started = 0 /\ joined = 0 /\ spurious = 0

(* main                                                                    *)
Start == /\ started < Workers
         /\ started' = started + 1
         /\ pc' = [pc EXCEPT ![started] = "lockIn"]
         /\ UNCHANGED <<mtx, threadCount, joined, spurious>>

Join == /\ started = Workers /\ joined < Workers
        /\ pc[joined] = "done"
        /\ joined' = joined + 1
        /\ UNCHANGED <<mtx, threadCount, pc, started, spurious>>

(* worker(id)                                                              *)
Goto(w, to) == pc' = [pc EXCEPT ![w] = to]

Lock(w) == /\ pc[w] \in {"lockIn", "lockOut"} /\ mtx = NoOne
           /\ mtx' = w
           /\ Goto(w, IF pc[w] = "lockIn" THEN "test" ELSE "release")
           /\ UNCHANGED <<threadCount, started, joined, spurious>>

\* The lambda of cv.wait fails: the mutex is released and the worker sleeps.
Sleep(w) == /\ pc[w] = "test" /\ threadCount + 1 >= maxThreads
            /\ mtx' = NoOne /\ Goto(w, "asleep")
            /\ UNCHANGED <<threadCount, started, joined, spurious>>

\* It holds: the worker is counted and leaves the block, releasing the mutex.
Claim_NoTest(w) ==       \* the predicate forgotten
    /\ pc[w] = "test"
    /\ threadCount' = threadCount + 1
    /\ mtx' = NoOne /\ Goto(w, "run")
    /\ UNCHANGED <<started, joined, spurious>>
Claim(w) == /\ pc[w] = "test" /\ threadCount + 1 < maxThreads
            /\ threadCount' = threadCount + 1
            /\ mtx' = NoOne /\ Goto(w, "run")
            /\ UNCHANGED <<started, joined, spurious>>

Run(w) == /\ pc[w] = "run" /\ Goto(w, "lockOut")
          /\ UNCHANGED <<mtx, threadCount, started, joined, spurious>>

\* notify_all sends every sleeper back to the mutex and to the predicate.
Release(w) == /\ pc[w] = "release"
              /\ threadCount' = threadCount - 1 /\ mtx' = NoOne
              /\ pc' = [v \in Ids |-> IF v = w THEN "done"
                                      ELSE IF pc[v] = "asleep" THEN "lockIn" ELSE pc[v]]
              /\ UNCHANGED <<started, joined, spurious>>

Spurious(w) == /\ pc[w] = "asleep" /\ spurious < MaxSpurious
               /\ spurious' = spurious + 1 /\ Goto(w, "lockIn")
               /\ UNCHANGED <<mtx, threadCount, started, joined>>

main == Start \/ Join
worker(w) == Lock(w) \/ Sleep(w) \/ Claim(w) \/ Run(w) \/ Release(w)
Complete == joined = Workers /\ UNCHANGED vars     \* main has returned

Next == main \/ Complete \/ \E w \in Ids : worker(w) \/ Spurious(w)

Spec == Init /\ [][Next]_vars
FairSpec == Spec /\ WF_vars(main) /\ \A w \in Ids : WF_vars(worker(w))

-----------------------------------------------------------------------------
PC == {"unborn", "lockIn", "test", "asleep", "run", "lockOut", "release", "done"}

Counted == {w \in Ids : pc[w] \in {"run", "lockOut", "release"}}

(* Every variable has its type.                                            *)
TypeOK == /\ mtx \in Ids \cup {NoOne} /\ threadCount \in 0 .. Workers
          /\ pc \in [Ids -> PC]
          /\ started \in 0 .. Workers /\ joined \in 0 .. started
          /\ spurious \in 0 .. MaxSpurious

\* threadCount is the number of workers between the two blocks, and they
\* never reach maxThreads: the predicate admits maxThreads - 1 of them.
Throttled == threadCount = Cardinality(Counted) /\ threadCount < maxThreads

\* Every thread that was started gets its turn and main returns.
Completes == <>(joined = Workers)
=============================================================================
