----------------------------- MODULE SemProdCons -----------------------------
(***************************************************************************)
(* OS/SemaphoreProdCons.c: one producer thread and one consumer thread     *)
(* share bffr[BS] and count, guarded by three POSIX semaphores.  A step is *)
(* one semaphore call or one access to the shared memory, so that          *)
(* bffr[count++] and bffr[--count] are each two steps (the load of count   *)
(* and the store of its new value) and only the semaphores keep them from  *)
(* interleaving.                                                           *)
(***************************************************************************)
EXTENDS LabConstants, Sequences     \* BS, IntRange

VARIABLES bffr, count,          \* the shared buffer and its fill
          mutex, full, empty,   \* the semaphores
          pcP, pcC,             \* where the producer and the consumer are
          i, item,              \* the producer's locals
          got,                  \* the consumer's local item, as printed
          regP, regC            \* count as each thread loaded it

vars == <<bffr, count, mutex, full, empty, pcP, pcC, i, item, got, regP, regC>>
shared == <<bffr, count>>

Items == 0 .. IntRange - 1

Init == /\ bffr = [k \in 0 .. BS - 1 |-> 0] /\ count = 0
        /\ mutex = 1 /\ full = 0 /\ empty = BS
        /\ pcP = "waitEmpty" /\ pcC = "waitFull"
        /\ i = 0 /\ item = 0 /\ got = 0
        /\ regP = 0 /\ regC = 0

SemWait(s) == s > 0 /\ s' = s - 1
SemPost(s) == s' = s + 1

(***************************************************************************)
(* The producer.                                                           *)
(***************************************************************************)
ProdGo(from, to) == pcP = from /\ pcP' = to /\ UNCHANGED <<pcC, got, regC>>

ProdWaitEmpty_Unguarded ==     \* the sem_wait(&empty) forgotten
    /\ ProdGo("waitEmpty", "waitMutex")
    /\ item' = i /\ i' = (i + 1) % IntRange
    /\ UNCHANGED <<shared, mutex, full, empty, regP>>
ProdWaitEmpty ==
    /\ ProdGo("waitEmpty", "waitMutex")
    /\ item' = i /\ i' = (i + 1) % IntRange
    /\ SemWait(empty)
    /\ UNCHANGED <<shared, mutex, full, regP>>

ProdWaitMutex ==
    /\ ProdGo("waitMutex", "store")
    /\ SemWait(mutex)
    /\ UNCHANGED <<shared, full, empty, i, item, regP>>

ProdStore ==
    /\ ProdGo("store", "increment")
    /\ regP' = count
    /\ bffr' = [bffr EXCEPT ![count] = item]
    /\ UNCHANGED <<count, mutex, full, empty, i, item>>

ProdIncrement ==
    /\ ProdGo("increment", "postMutex")
    /\ count' = regP + 1
    /\ UNCHANGED <<bffr, mutex, full, empty, i, item, regP>>

ProdPostMutex_Forgotten ==     \* the mutex never given back
    /\ ProdGo("postMutex", "postFull")
    /\ UNCHANGED <<shared, mutex, full, empty, i, item, regP>>
ProdPostMutex ==
    /\ ProdGo("postMutex", "postFull")
    /\ SemPost(mutex)
    /\ UNCHANGED <<shared, full, empty, i, item, regP>>

ProdPostFull ==
    /\ ProdGo("postFull", "waitEmpty")
    /\ SemPost(full)
    /\ UNCHANGED <<shared, mutex, empty, i, item, regP>>

producer == \/ ProdWaitEmpty \/ ProdWaitMutex \/ ProdStore
            \/ ProdIncrement \/ ProdPostMutex \/ ProdPostFull

(***************************************************************************)
(* The consumer.                                                           *)
(***************************************************************************)
ConsGo(from, to) == pcC = from /\ pcC' = to /\ UNCHANGED <<pcP, i, item, regP>>

ConsWaitFull ==
    /\ ConsGo("waitFull", "waitMutex")
    /\ SemWait(full)
    /\ UNCHANGED <<shared, mutex, empty, got, regC>>

ConsWaitMutex ==
    /\ ConsGo("waitMutex", "decrement")
    /\ SemWait(mutex)
    /\ UNCHANGED <<shared, full, empty, got, regC>>

ConsDecrement ==
    /\ ConsGo("decrement", "load")
    /\ regC' = count - 1
    /\ UNCHANGED <<shared, mutex, full, empty, got>>

ConsLoad_Top ==                \* bffr[count--], the monitor version's line
    /\ ConsGo("load", "postMutex")
    /\ got' = bffr[(regC + 1) % BS]
    /\ count' = regC
    /\ UNCHANGED <<bffr, mutex, full, empty, regC>>
ConsLoad ==
    /\ ConsGo("load", "postMutex")
    /\ got' = bffr[regC]
    /\ count' = regC
    /\ UNCHANGED <<bffr, mutex, full, empty, regC>>

ConsPostMutex ==
    /\ ConsGo("postMutex", "postEmpty")
    /\ SemPost(mutex)
    /\ UNCHANGED <<shared, full, empty, got, regC>>

ConsPostEmpty ==
    /\ ConsGo("postEmpty", "waitFull")
    /\ SemPost(empty)
    /\ UNCHANGED <<shared, mutex, full, got, regC>>

consumer == \/ ConsWaitFull \/ ConsWaitMutex \/ ConsDecrement
            \/ ConsLoad \/ ConsPostMutex \/ ConsPostEmpty

Next == producer \/ consumer

\* A thread that can run is eventually scheduled; nothing is assumed of the
\* order in which sem_post wakes the threads waiting on a semaphore.
Spec == Init /\ [][Next]_vars
FairSpec == Spec /\ WF_vars(producer) /\ WF_vars(consumer)

-----------------------------------------------------------------------------
ProdPC == {"waitEmpty", "waitMutex", "store", "increment", "postMutex", "postFull"}
ConsPC == {"waitFull", "waitMutex", "decrement", "load", "postMutex", "postEmpty"}

(* Every variable has its type: count never leaves 0..BS and no semaphore  *)
(* exceeds the count it was created with or for.                           *)
TypeOK == /\ bffr \in [0 .. BS - 1 -> Items] /\ count \in 0 .. BS
          /\ mutex \in 0 .. 1 /\ full \in 0 .. BS /\ empty \in 0 .. BS
          /\ pcP \in ProdPC /\ pcC \in ConsPC
          /\ i \in Items /\ item \in Items /\ got \in Items
          /\ regP \in 0 .. BS /\ regC \in -1 .. BS

ProdInside == pcP \in {"store", "increment", "postMutex"}
ConsInside == pcC \in {"decrement", "load", "postMutex"}

\* The two threads are never between sem_wait(&mutex) and sem_post(&mutex)
\* at once (SemaphoreProdCons.c:21-26 and 38-43, "Critical Section").
MutualExclusion == ~(ProdInside /\ ConsInside)

\* The index of bffr[count++] and of bffr[--count] is inside the array: the
\* counting semaphores alone bound it, the code never tests count.
IndexInBounds == /\ pcP = "store" => count < BS
                 /\ pcC = "decrement" => count > 0

\* The detailed program implements the bounded LIFO buffer: the item leaves
\* the producer when count is stored, and the buffer when it is loaded.
Lifo == INSTANCE BoundedLifo
          WITH stack <- [k \in 1 .. count |-> bffr[k - 1]],
               next  <- IF pcP \in {"waitMutex", "store", "increment"} THEN item ELSE i
ImplementsLifo == Lifo!Spec

\* Neither thread is locked out: as long as both are scheduled, items keep
\* being produced and consumed, with no fairness of the semaphores.
BothProgress == []<>(pcP = "postFull") /\ []<>(pcC = "postEmpty")
=============================================================================
