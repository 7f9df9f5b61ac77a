------------------------------ MODULE ReadWrite ------------------------------
(***************************************************************************)
(* OS/SemaphoreReadWrite.c: the first reader in locks the writers out with *)
(* the semaphore `writing', the last reader out lets them in again;        *)
(* `mutex' guards readCount.  A step is one semaphore call or one update   *)
(* of readCount; reading and writing (the sleeps) lie between steps.       *)
(***************************************************************************)
EXTENDS LabConstants     \* Readers, Writers

VARIABLES mutex, writing, readCount, pc

vars == <<mutex, writing, readCount, pc>>

Init == /\ mutex = 1 /\ writing = 1 /\ readCount = 0
        /\ pc = [t \in Readers \cup Writers |-> "out"]

Goto(t, from, to) == pc[t] = from /\ pc' = [pc EXCEPT ![t] = to]
SemWait(s) == s > 0 /\ s' = s - 1
SemPost(s) == s' = s + 1

(* writer                                                                  *)
Write(w) == Goto(w, "out", "in") /\ SemWait(writing) /\ UNCHANGED <<mutex, readCount>>
EndWrite(w) == Goto(w, "in", "out") /\ SemPost(writing) /\ UNCHANGED <<mutex, readCount>>

(* reader: entry                                                           *)
Enter(r) == Goto(r, "out", "count") /\ SemWait(mutex) /\ UNCHANGED <<writing, readCount>>

CountIn_OffByOne(r) ==   \* ++readCount == 0
    /\ Goto(r, "count", "entered")
    /\ readCount' = readCount + 1 /\ UNCHANGED <<mutex, writing>>
CountIn(r) == /\ Goto(r, "count", IF readCount = 0 THEN "lockOut" ELSE "entered")
              /\ readCount' = readCount + 1 /\ UNCHANGED <<mutex, writing>>

LockOut(r) == /\ Goto(r, "lockOut", "entered")
              /\ SemWait(writing) /\ UNCHANGED <<mutex, readCount>>

StartRead(r) == /\ Goto(r, "entered", "in")
                /\ SemPost(mutex) /\ UNCHANGED <<writing, readCount>>

(* reader: exit                                                            *)
EndRead(r) == /\ Goto(r, "in", "leave")
              /\ SemWait(mutex) /\ UNCHANGED <<writing, readCount>>

CountOut(r) == /\ Goto(r, "leave", IF readCount - 1 = 0 THEN "letIn" ELSE "left")
               /\ readCount' = readCount - 1 /\ UNCHANGED <<mutex, writing>>

LetIn(r) == Goto(r, "letIn", "left") /\ SemPost(writing) /\ UNCHANGED <<mutex, readCount>>

Leave(r) == Goto(r, "left", "out") /\ SemPost(mutex) /\ UNCHANGED <<writing, readCount>>

writer(w) == Write(w) \/ EndWrite(w)
reader(r) == \/ Enter(r) \/ CountIn(r) \/ LockOut(r) \/ StartRead(r)
             \/ EndRead(r) \/ CountOut(r) \/ LetIn(r) \/ Leave(r)

Next == (\E w \in Writers : writer(w)) \/ (\E r \in Readers : reader(r))

\* A thread that can run is scheduled; the semaphores are not assumed fair,
\* so a writer may wait for ever behind an unbroken chain of readers.
Spec == Init /\ [][Next]_vars
FairSpec == /\ Spec
            /\ \A w \in Writers : WF_vars(writer(w))
            /\ \A r \in Readers : WF_vars(reader(r))

-----------------------------------------------------------------------------
ReaderPC == {"out", "count", "lockOut", "entered", "in", "leave", "letIn", "left"}

(* Every variable has its type; both semaphores are binary.                *)
TypeOK == /\ mutex \in 0 .. 1 /\ writing \in 0 .. 1
          /\ readCount \in 0 .. Cardinality(Readers)
          /\ pc \in [Readers \cup Writers -> ReaderPC]
          /\ \A w \in Writers : pc[w] \in {"out", "in"}

Reading(r) == pc[r] \in {"entered", "in", "leave", "letIn"}
Counted == {r \in Readers : pc[r] \in {"lockOut", "entered", "in", "leave"}}
HoldsMutex(r) == pc[r] \in ReaderPC \ {"out", "in"}

\* A writer is alone: no other writer and no reader is in while it writes,
\* even while a reader is between its two critical sections.
WriterAlone == \A w \in Writers : pc[w] = "in" =>
    /\ \A v \in Writers \ {w} : pc[v] # "in"
    /\ \A r \in Readers : ~Reading(r)

\* readCount is the number of readers in (or on their way in): the readers
\* that lock the writers out and let them in are the first and the last.
CountExact == readCount = Cardinality(Counted)

\* Readers do not wait for one another: a reader waits for the writers only
\* when no other reader is in, so the one holding the mutex is the first.
OnlyFirstWaits == \A r \in Readers : pc[r] = "lockOut" =>
                      \A q \in Readers : ~Reading(q)

\* Readers and writers are never all stuck: somebody gets in for ever.
SomeoneGetsIn == []<>(\E t \in Readers \cup Writers : pc[t] = "in")
=============================================================================
