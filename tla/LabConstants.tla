---------------------------- MODULE LabConstants ----------------------------
(***************************************************************************)
(* The parameters of the five pthread programs (OS/Semaphore*.c,           *)
(* OS/MonitorProdCons.c, CppDump/deadThreadPool.cpp): the #defines and the *)
(* thread counts of their mains, kept in one module so that the programs   *)
(* can be checked together (MCPthreadLabs).                                *)
(***************************************************************************)
EXTENDS Integers, FiniteSets

\* The two producer/consumer programs.
CONSTANTS BS,          \* #define BS 5
          IntRange,    \* an item is an int counter that wraps modulo IntRange
          MaxSpurious  \* bound on the spurious wakeups of a behaviour

ASSUME BSAssumption == BS \in Nat \ {0}
ASSUME IntRangeAssumption == IntRange \in Nat \ {0}
ASSUME MaxSpuriousAssumption == MaxSpurious \in Nat

\* The dining philosophers.
CONSTANT N             \* #define PHILOSOPHERS 5

ASSUME NAssumption == N \in Nat /\ N >= 2

\* The readers and writers: main creates 5 and 2 threads.
CONSTANTS Readers, Writers

ASSUME ThreadsAssumption == IsFiniteSet(Readers) /\ Readers \cap Writers = {}

\* The thread pool.
CONSTANTS Workers,     \* how many threads main starts: 50
          maxThreads   \* const int maxThreads = 20

ASSUME WorkersAssumption == Workers \in Nat \ {0}
ASSUME maxThreadsAssumption == maxThreads \in Nat /\ maxThreads >= 2
=============================================================================
