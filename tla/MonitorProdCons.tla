--------------------------- MODULE MonitorProdCons ---------------------------
(***************************************************************************)
(* OS/MonitorProdCons.c: the producer and the consumer share bffr[BS] and  *)
(* count under one pthread mutex; each waits on a condition variable that  *)
(* the other signals.  pthread_cond_wait releases the mutex and sleeps in  *)
(* one step; a sleeper is woken by a signal or, as the comment at line 19  *)
(* insists, spuriously, and must take the mutex again.                     *)
(***************************************************************************)
EXTENDS LabConstants     \* BS, IntRange, MaxSpurious

Threads == {"prod", "cons"}
Free == "free"
Items == 0 .. IntRange - 1
Outside == -1           \* whatever int lies after the end of bffr

VARIABLES bffr, count,  \* the shared buffer and its fill
          mutex,        \* the thread that holds the mutex, or Free
          pc,           \* where each thread is
          item, got,    \* the producer's and the consumer's local item
          spurious      \* spurious wakeups so far

vars == <<bffr, count, mutex, pc, item, got, spurious>>
data == <<bffr, count, item, got>>

Init == /\ bffr = [k \in 0 .. BS - 1 |-> 0] /\ count = 0
        /\ mutex = Free /\ pc = [t \in Threads |-> "lock"]
        /\ item = 0 /\ got = 0 /\ spurious = 0

\* The predicate each thread waits for: count >= BS, count <= 0.
MustWait(t) == IF t = "prod" THEN count >= BS ELSE count <= 0

Other(t) == IF t = "prod" THEN "cons" ELSE "prod"

\* pthread_mutex_lock, on entry and inside pthread_cond_wait ("relock").
Lock_If(t) ==       \* if instead of while: no second look after waking up
    /\ pc[t] \in {"lock", "relock"} /\ mutex = Free
    /\ mutex' = t
    /\ pc' = [pc EXCEPT ![t] = IF @ = "relock" THEN "use" ELSE "test"]
    /\ UNCHANGED <<data, spurious>>
Lock(t) == /\ pc[t] \in {"lock", "relock"} /\ mutex = Free
           /\ mutex' = t /\ pc' = [pc EXCEPT ![t] = "test"]
           /\ UNCHANGED <<data, spurious>>

Wait(t) == /\ pc[t] = "test" /\ MustWait(t) /\ mutex' = Free
           /\ pc' = [pc EXCEPT ![t] = "asleep"]
           /\ UNCHANGED <<data, spurious>>

Pass(t) == /\ pc[t] = "test" /\ ~MustWait(t)
           /\ pc' = [pc EXCEPT ![t] = "use"]
           /\ UNCHANGED <<data, mutex, spurious>>

Spurious(t) == /\ pc[t] = "asleep" /\ spurious < MaxSpurious
               /\ spurious' = spurious + 1 /\ pc' = [pc EXCEPT ![t] = "relock"]
               /\ UNCHANGED <<data, mutex>>

Produce == /\ pc["prod"] = "use"
           /\ bffr' = [bffr EXCEPT ![count] = item] /\ count' = count + 1
           /\ item' = (item + 1) % IntRange
           /\ pc' = [pc EXCEPT !["prod"] = "signal"]
           /\ UNCHANGED <<got, mutex, spurious>>

\* item = bffr[count--]: the index is count before the decrement, one above
\* the item stored last, and outside the array when the buffer is full.
Consume == /\ pc["cons"] = "use"
           /\ got' \in IF count < BS THEN {bffr[count]} ELSE Items \cup {Outside}
           /\ count' = count - 1
           /\ pc' = [pc EXCEPT !["cons"] = "signal"]
           /\ UNCHANGED <<bffr, item, mutex, spurious>>

\* pthread_cond_signal wakes the other thread if it sleeps; else it is lost.
Signal_Own(t) ==    \* the thread's own condition variable signalled
    /\ pc[t] = "signal" /\ pc' = [pc EXCEPT ![t] = "unlock"]
    /\ UNCHANGED <<data, mutex, spurious>>
Signal(t) ==
    /\ pc[t] = "signal"
    /\ pc' = [pc EXCEPT ![t] = "unlock",
                        ![Other(t)] = IF @ = "asleep" THEN "relock" ELSE @]
    /\ UNCHANGED <<data, mutex, spurious>>

Unlock(t) == /\ pc[t] = "unlock" /\ mutex' = Free
             /\ pc' = [pc EXCEPT ![t] = "lock"]
             /\ UNCHANGED <<data, spurious>>

Step(t) == Lock(t) \/ Wait(t) \/ Pass(t) \/ Signal(t) \/ Unlock(t)
producer == Step("prod") \/ Produce
consumer == Step("cons") \/ Consume

Next == producer \/ consumer \/ \E t \in Threads : Spurious(t)

\* Threads that can run are scheduled; a spurious wakeup never has to happen
\* and the mutex is not assumed fair.
Spec == Init /\ [][Next]_vars
FairSpec == Spec /\ WF_vars(producer) /\ WF_vars(consumer)

-----------------------------------------------------------------------------
PC == {"lock", "test", "asleep", "relock", "use", "signal", "unlock"}

(* Every variable has its type; in particular count stays in 0..BS.        *)
TypeOK == /\ bffr \in [0 .. BS - 1 -> Items] /\ count \in 0 .. BS
          /\ mutex \in Threads \cup {Free} /\ pc \in [Threads -> PC]
          /\ item \in Items /\ got \in Items \cup {Outside}
          /\ spurious \in 0 .. MaxSpurious

Inside(t) == pc[t] \in {"test", "use", "signal", "unlock"}

\* The producer never writes past the array and the consumer never takes
\* from an empty buffer, although both may be woken with their predicate
\* false (MonitorProdCons.c:29 and 47, the two while loops).
IndexInBounds == \A t \in Threads : pc[t] = "use" => ~MustWait(t)

\* No wakeup is lost: a thread sleeps only while its predicate is false, or
\* while the other has changed count and is about to signal.
NoLostWakeup == \A t, o \in Threads :
    t # o /\ pc[t] = "asleep" => MustWait(t) \/ pc[o] = "signal"

\* Both threads go on forever, whatever spurious wakeups happen.
BothProgress == \A t \in Threads : []<>(pc[t] = "signal")

\* What the consumer prints as "Consumed" (line 52) is an item that the
\* producer printed as "Produced" (line 34) and that is still in the buffer.
ConsumesStoredItem ==
    [][Consume => got' \in {bffr[k] : k \in 0 .. count - 1}]_vars
=============================================================================
