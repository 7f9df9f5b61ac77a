------------------------------- MODULE SchedSim -------------------------------
(***************************************************************************)
(* OS/SchedSim.cpp: a tick-driven simulation of one CPU and one IO device  *)
(* under the schedulers sjf, srtf, rr and vrr.  Processes are values: they *)
(* move between the list of pending arrivals, the ready queue, the         *)
(* auxiliary queue of vrr, the IO queue, the two devices and the list of   *)
(* completed ones.  One step is one iteration of the loop in Processor().  *)
(***************************************************************************)
EXTENDS Integers, Sequences, SequencesExt

CONSTANTS Workloads,    \* the process lists that procs.proc may hold
          Arguments,    \* the scheduler lists that the command line may hold
          timeQuantum,  \* the q = 5 of main
          Word,         \* size_t counts modulo this
          MaxTicks      \* bound on the ticks of one simulation

ASSUME WordAssumption == Word \in Nat /\ MaxTicks \in 0 .. Word - 1
ASSUME QuantumAssumption == timeQuantum \in Nat \ {0}

\* Every process has an identity, which is not that of the idle device.
ASSUME WorkloadsAssumption ==
    \A procs \in Workloads : procs \in Seq([id : Nat \ {0}, arr : Nat, cpu : Nat, io : Nat,
        rate : Nat, rem : Nat, last : {0}, saved : {0}, start : {Word - 1}, done : {0}])
ASSUME ArgumentsAssumption ==
    \A args \in Arguments : args \in Seq({"sjf", "srtf", "rr", "vrr"}) \ {<<>>}

VARIABLES input,        \* the process list of this execution
          todo,         \* the schedulers left to run, the present one first
          dev           \* the Device

vars == <<input, todo, dev>>

NoProc == [id |-> 0]    \* execProc of an idle device
SIZE_MAX == Word - 1

\* Process(name, arrivalTime, burstTimeCPU, burstTimeIO, burstTimeRate)
Process(id, arr, cpu, io, rate) ==
    [id |-> id, arr |-> arr, cpu |-> cpu, io |-> io, rate |-> rate,
     rem |-> cpu, last |-> 0, saved |-> 0, start |-> SIZE_MAX, done |-> 0]

scheduler == Head(todo)

\* init and CleanUp, before the loop of Processor is entered.
Device(procs) ==
    [procs |-> procs, ready |-> <<>>, aux |-> <<>>, io |-> <<>>,
     exec |-> NoProc, execIO |-> NoProc, countIO |-> 0, completed |-> <<>>,
     total |-> Len(procs), q |-> 0, ticks |-> 0, idle |-> 0]

Init == /\ input \in Workloads /\ todo \in Arguments /\ dev = Device(input)

-----------------------------------------------------------------------------
(* FreshArrivals erases from the vector it is iterating over: the loop     *)
(* visits every position the vector had at first, while an erasure moves   *)
(* the later elements up by one and leaves the last one behind its end.    *)
At(d, v, i) ==      \* one iteration, at the position i
    LET p == v.mem[i] IN
    IF p.arr # d.ticks THEN [v EXCEPT !.index = @ + 1]
    ELSE [mem |-> [j \in DOMAIN v.mem |->
                     IF j \in v.index .. v.len - 1 THEN v.mem[j + 1] ELSE v.mem[j]],
          len |-> v.len - 1, index |-> v.index, ready |-> Append(v.ready, p)]
Visited(d) ==       \* after each of them
    LET v[i \in 0 .. Len(d.procs)] ==
          IF i = 0 THEN [mem |-> d.procs, len |-> Len(d.procs), index |-> 1, ready |-> d.ready]
          ELSE At(d, v[i - 1], i)
    IN v
FreshArrivals(d) ==
    LET end == Visited(d)[Len(d.procs)]
    IN [d EXCEPT !.procs = SubSeq(end.mem, 1, end.len), !.ready = end.ready]

\* Process::exec and what the caller does with the state it returns; saved is
\* what a process that blocks keeps of its quantum.
Execute(d, saved) ==
    LET p == [d.exec EXCEPT !.rem = (@ - 1) % Word, !.last = @ + 1] IN
    IF p.rem = 0
    THEN [d EXCEPT !.exec = NoProc, !.total = @ - 1,
                   !.completed = Append(@, [p EXCEPT !.last = @ - 1, !.done = d.ticks])]
    ELSE IF p.last >= p.rate
    THEN [d EXCEPT !.exec = NoProc, !.io = Append(@, [p EXCEPT !.last = 0, !.saved = saved])]
    ELSE [d EXCEPT !.exec = p]

ExecCPU(d) == Execute(d, (d.q + 1) % timeQuantum)

ExecIO(d) ==
    LET n == d.countIO + 1
        s == [d EXCEPT !.countIO = n]
    IN IF n < d.execIO.io THEN s
       ELSE IF scheduler = "vrr"
       THEN [s EXCEPT !.execIO = NoProc, !.aux = Append(@, d.execIO)]
       ELSE [s EXCEPT !.execIO = NoProc, !.ready = Append(@, d.execIO)]

IODevice(d) ==
    LET s == IF d.execIO = NoProc THEN d ELSE ExecIO(d) IN
    IF s.execIO = NoProc /\ s.io # <<>>
    THEN [s EXCEPT !.execIO = Head(s.io), !.io = Tail(s.io), !.countIO = 0]
    ELSE s

-----------------------------------------------------------------------------
(* The ready queue: first come first served, or a priority queue by total  *)
(* or by remaining burst and then by arrival; equals in any order.         *)
Key_Remaining(p) == p.rem       \* sjf, too, compares what remains
Key(p) == IF scheduler = "sjf" THEN p.cpu ELSE p.rem
Before(p, r) == Key(p) < Key(r) \/ (Key(p) = Key(r) /\ p.arr < r.arr)

\* The positions of q that top() may return.
Firsts(q) == {k \in DOMAIN q : \A j \in DOMAIN q : ~Before(q[j], q[k])}
Tops(d) == IF scheduler \in {"rr", "vrr"} THEN {1} \cap DOMAIN d.ready ELSE Firsts(d.ready)

Expired_Late(d) == d.q >= timeQuantum     \* one tick too many
Expired(d) == d.q + 1 >= timeQuantum

ToSchedule_NoAux(d) ==       \* the auxiliary queue forgotten
    LET idle == d.exec = NoProc IN
    CASE scheduler = "sjf" -> idle /\ d.ready # <<>>
      [] scheduler = "srtf" -> /\ d.ready # <<>>
                               /\ idle \/ \E k \in Tops(d) : d.ready[k].rem < d.exec.rem
      [] OTHER -> d.ready # <<>> /\ (idle \/ Expired(d))
ToSchedule(d) ==
    LET idle == d.exec = NoProc IN
    CASE scheduler = "sjf" -> idle /\ d.ready # <<>>
      [] scheduler = "srtf" -> /\ d.ready # <<>>
                               /\ idle \/ \E k \in Tops(d) : d.ready[k].rem < d.exec.rem
      [] scheduler = "rr" -> d.ready # <<>> /\ (idle \/ Expired(d))
      [] scheduler = "vrr" -> (d.ready # <<>> \/ d.aux # <<>>) /\ (idle \/ Expired(d))

\* The running process goes back to the ready queue, behind whoever arrived
\* or came back from IO in the same tick.
ScheduleProc_Dropped(d, k) ==    \* the preempted process not put back
    LET p == IF d.aux # <<>> THEN Head(d.aux) ELSE d.ready[k] IN
    [d EXCEPT !.exec = [p EXCEPT !.start = IF d.ticks < @ THEN d.ticks ELSE @],
              !.q = IF d.aux # <<>> THEN p.saved - 1 ELSE -1,
              !.aux = IF @ # <<>> THEN Tail(@) ELSE @,
              !.ready = IF d.aux # <<>> THEN @ ELSE RemoveAt(@, k)]
ScheduleProc_NoStart(d, k) ==    \* startTime overwritten at every dispatch
    LET p == IF d.aux # <<>> THEN Head(d.aux) ELSE d.ready[k]
        ready == IF d.aux # <<>> THEN d.ready ELSE RemoveAt(d.ready, k)
    IN [d EXCEPT !.exec = [p EXCEPT !.start = d.ticks],
                 !.q = IF d.aux # <<>> THEN p.saved - 1 ELSE -1,
                 !.aux = IF @ # <<>> THEN Tail(@) ELSE @,
                 !.ready = IF d.exec = NoProc THEN ready ELSE Append(ready, d.exec)]
ScheduleProc(d, k) ==
    LET p == IF d.aux # <<>> THEN Head(d.aux) ELSE d.ready[k]
        ready == IF d.aux # <<>> THEN d.ready ELSE RemoveAt(d.ready, k)
    IN [d EXCEPT !.exec = [p EXCEPT !.start = IF d.ticks < @ THEN d.ticks ELSE @],
                 !.q = IF d.aux # <<>> THEN p.saved - 1 ELSE -1,
                 !.aux = IF @ # <<>> THEN Tail(@) ELSE @,
                 !.ready = IF d.exec = NoProc THEN ready ELSE Append(ready, d.exec)]

-----------------------------------------------------------------------------
Served(d) == IODevice(IF d.exec = NoProc THEN d ELSE ExecCPU(d))

Count(d) == [d EXCEPT !.idle = IF d.exec = NoProc THEN @ + 1 ELSE @,
                      !.ticks = @ + 1, !.q = @ + 1]

\* The Devices that one iteration may lead to.
Iteration(dd) ==
    UNION {IF ToSchedule(d)
           THEN {Count(ScheduleProc(d, k)) : k \in IF d.aux # <<>> THEN {1} ELSE Tops(d)}
           ELSE {Count(d)} : d \in {Served(FreshArrivals(dd))}}
Processor ==
    /\ dev.total > 0 /\ dev.ticks < MaxTicks
    /\ dev' \in Iteration(dev) /\ UNCHANGED <<input, todo>>

NextScheduler_Reference ==   \* the list of arrivals is main's, not a copy
    /\ dev.total = 0 /\ Len(todo) > 1
    /\ todo' = Tail(todo) /\ UNCHANGED input
    /\ dev' = [Device(input) EXCEPT !.procs = dev.procs]
\* main goes on to the next scheduler with the same Device and process list.
NextScheduler ==
    /\ dev.total = 0 /\ Len(todo) > 1
    /\ todo' = Tail(todo) /\ UNCHANGED input
    /\ dev' = Device(input)

\* main returns; or the bound on the simulation is reached.
Finish == /\ (dev.total = 0 /\ Len(todo) = 1) \/ dev.ticks = MaxTicks
          /\ UNCHANGED vars

Next == Processor \/ NextScheduler \/ Finish

Spec == Init /\ [][Next]_vars
FairSpec == Spec /\ WF_vars(Processor) /\ WF_vars(NextScheduler)

-----------------------------------------------------------------------------
On(p) == IF p = NoProc THEN <<>> ELSE <<p>>      \* who is on a device
Everywhere(d) ==
    d.procs \o d.ready \o d.aux \o d.io \o d.completed \o On(d.exec) \o On(d.execIO)

\* Two processes of one tick: FreshArrivals may skip one or take one twice.
Distinct == \A i, j \in DOMAIN input : i # j => input[i].arr # input[j].arr

(* Every variable has its type; the fields of a process stay in range.     *)
TypeOK == /\ dev.total \in 0 .. Len(input) /\ dev.ticks \in 0 .. MaxTicks
          /\ dev.idle \in 0 .. dev.ticks /\ dev.q \in 0 .. MaxTicks
          /\ \A p \in ToSet(Everywhere(dev)) :
                /\ p.rem \in 0 .. p.cpu /\ p.last \in 0 .. p.rate
                /\ p.saved \in 0 .. timeQuantum - 1 /\ p.done \in 0 .. MaxTicks

\* Every process of the list is in exactly one place, never among the
\* arrivals past its time (it would not be taken any more, and the loop
\* `while (totalProc)' would not end), and total counts the unfinished.
Conservation == Distinct =>
    /\ Len(Everywhere(dev)) = Len(input)
    /\ {p.id : p \in ToSet(Everywhere(dev))} = {p.id : p \in ToSet(input)}
    /\ \A p \in ToSet(dev.procs) : p.arr >= dev.ticks
    /\ dev.total = Len(input) - Len(dev.completed)

\* The CPU does not idle at the end of a tick while somebody could run.
WorkConserving == dev.exec = NoProc => dev.ready = <<>> /\ dev.aux = <<>>

\* sjf gives the CPU to a process with the shortest burst of those that are
\* then ready, however much each has had of it, and takes it from nobody who has
\* neither ended nor asked for IO; srtf has a process with the least left run at
\* the end of every tick.  Of equals the one that arrived first is taken.
Dispatched == dev'.exec # NoProc /\ (dev.exec = NoProc \/ dev'.exec.id # dev.exec.id)
Ends(p) == (p.rem - 1) % Word = 0 \/ p.last + 1 >= p.rate      \* or blocks
Shorter(r, p) ==
    CASE scheduler = "sjf" -> r.cpu < p.cpu \/ (r.cpu = p.cpu /\ r.arr <= p.arr)
      [] scheduler = "srtf" -> r.rem < p.rem \/ (r.rem = p.rem /\ r.arr <= p.arr)
      [] OTHER -> TRUE
ShortestRuns ==
    [][todo' = todo =>
          /\ Dispatched => \A p \in ToSet(dev'.ready) : Shorter(dev'.exec, p)
          /\ scheduler = "sjf" /\ Dispatched /\ dev.exec # NoProc => Ends(dev.exec)
          /\ scheduler = "srtf" /\ dev'.exec # NoProc =>
                \A p \in ToSet(dev'.ready) : dev'.exec.rem <= p.rem]_vars

\* rr and vrr: while others are ready, the running process has not used up
\* its quantum at the end of a tick.
QuantumKept == scheduler \in {"rr", "vrr"} /\ dev.exec # NoProc /\ dev.ready # <<>> =>
    dev.q < timeQuantum

\* What the processes of a sequence had of their bursts.
Spent(p) == p.cpu - p.rem
Sums(s) == LET n[k \in 0 .. Len(s)] == IF k = 0 THEN 0 ELSE n[k - 1] + Spent(s[k]) IN n
Sum(s) == Sums(s)[Len(s)]

\* A burst of 0 wraps around at its first tick, and a simulation of nobody
\* ends before the first: ticksCPUIdle-- makes that wrap around.
Computable == input # <<>> /\ \A i \in DOMAIN input :
    input[i].cpu \in 1 .. Word - 1 /\ input[i].rem = input[i].cpu

\* What debug() reports adds up: the ticks that are not idle are the bursts
\* executed so far and the one about to be, and none of the unsigned
\* differences (turnaround, waiting, response, ticksCPUIdle--) wraps below 0,
\* nor does a remaining burst or a saved part of a quantum (TypeOK).
Accounting == Computable =>
    /\ TypeOK
    /\ dev.ticks - dev.idle =
           Sum(Everywhere(dev)) + (IF dev.exec = NoProc THEN 0 ELSE 1)
    /\ \A p \in ToSet(dev.completed) : /\ p.arr <= p.start
                                       /\ p.done - p.arr >= p.cpu
                                       /\ p.start + p.cpu <= p.done
    /\ dev.total = 0 => dev.idle > 0

\* Every scheduler comes to an end and completes every process.
Terminates == Distinct => <>(dev.total = 0 /\ Len(todo) = 1)
=============================================================================
