------------------------------ MODULE Schedulers ------------------------------
(***************************************************************************)
(* OS/SJF.cpp, SRTF.cpp, RR.cpp and VRR.cpp: four programs of one          *)
(* scheduler each, from which SchedSim was made.  They run on the state of *)
(* SchedSim: todo holds the one scheduler, and dev.idle, which they do not *)
(* count, is a history variable.  Their queue and device classes are       *)
(* verbatim copies except for what the operators below say.                *)
(***************************************************************************)
EXTENDS SchedSim

VARIABLE standalone     \* one of the four programs, not SchedSim

allVars == <<vars, standalone>>

\* The scheduled process takes the CPU from the running one, if any.
Dispatch(d, p, ready) ==
    [d EXCEPT !.exec = [p EXCEPT !.start = IF d.ticks < @ THEN d.ticks ELSE @],
              !.ready = IF d.exec = NoProc THEN ready ELSE Append(ready, d.exec)]

\* ioDevice: back is the queue that a process returns to.
Returned(d, back) ==
    IF d.execIO = NoProc THEN d
    ELSE IF d.countIO + 1 < d.execIO.io THEN [d EXCEPT !.countIO = @ + 1]
    ELSE [d EXCEPT !.countIO = @ + 1, !.execIO = NoProc, ![back] = Append(@, d.execIO)]
Started(d, k) == [d EXCEPT !.execIO = d.io[k], !.io = RemoveAt(@, k), !.countIO = 0]

\* Neither SJF nor SRTF counts the ticks of a quantum.
CountTicks(d) == [Count(d) EXCEPT !.q = 0]

-----------------------------------------------------------------------------
(* SJF.cpp: the IO queue is a priority queue, too.                         *)
SJFMain == <<Process(1, 0, 24, 2, 5), Process(2, 3, 17, 3, 6),
             Process(3, 8, 50, 2, 5), Process(4, 15, 10, 3, 6)>>
SJFProcess(d) == IF d.exec = NoProc THEN d ELSE Execute(d, 0)
SJFCmp(q) == Firsts(q)
SJFArrivals(d) == FreshArrivals(d)
SJFIoDevice(d) ==
    UNION {IF s.execIO = NoProc /\ s.io # <<>> THEN {Started(s, k) : k \in SJFCmp(s.io)}
           ELSE {s} : s \in {Returned(d, "ready")}}
SJFProcessor(dd) ==
    UNION {IF d.exec = NoProc /\ d.ready # <<>>
           THEN {CountTicks(Dispatch(d, d.ready[k], RemoveAt(d.ready, k))) : k \in SJFCmp(d.ready)}
           ELSE {CountTicks(d)} : d \in SJFIoDevice(SJFProcess(SJFArrivals(dd)))}

-----------------------------------------------------------------------------
(* SRTF.cpp: the same, by what remains, and with preemption.               *)
SRTFMain == SJFMain
SRTFProcess(d) == IF d.exec = NoProc THEN d ELSE Execute(d, 0)
SRTFCmp(q) == Firsts(q)
SRTFArrivals(d) == FreshArrivals(d)
SRTFIoDevice(d) ==
    UNION {IF s.execIO = NoProc /\ s.io # <<>> THEN {Started(s, k) : k \in SRTFCmp(s.io)}
           ELSE {s} : s \in {Returned(d, "ready")}}
SRTFProcessor(dd) ==
    UNION {(IF d.ready = <<>> THEN {CountTicks(d)} ELSE {})
           \cup UNION {IF d.exec = NoProc \/ d.ready[k].rem < d.exec.rem
                       THEN {CountTicks(Dispatch(d, d.ready[k], RemoveAt(d.ready, k)))}
                       ELSE {CountTicks(d)} : k \in SRTFCmp(d.ready)}
           : d \in SRTFIoDevice(SRTFProcess(SRTFArrivals(dd)))}

-----------------------------------------------------------------------------
(* RR.cpp: plain queues; a process that blocks gives its quantum up.       *)
RRMain == SJFMain
RRProcess(d) == IF d.exec = NoProc THEN d ELSE Execute(d, 0)
RRArrivals(d) == FreshArrivals(d)
RRIoDevice(d) ==
    LET s == Returned(d, "ready") IN
    IF s.execIO = NoProc /\ s.io # <<>> THEN Started(s, 1) ELSE s
RRProcessor(dd) ==
    {IF d.ready # <<>> /\ (d.exec = NoProc \/ d.q + 1 >= timeQuantum)
     THEN Count([Dispatch(d, Head(d.ready), Tail(d.ready)) EXCEPT !.q = -1])
     ELSE Count(d) : d \in {RRIoDevice(RRProcess(RRArrivals(dd)))}}

-----------------------------------------------------------------------------
(* VRR.cpp: back from IO a process goes before the ready ones, for the     *)
(* rest of its quantum.                                                    *)
VRRMain == SJFMain
VRRProcess(d) == IF d.exec = NoProc THEN d ELSE Execute(d, (d.q + 1) % timeQuantum)
VRRArrivals(d) == FreshArrivals(d)
VRRIoDevice(d) ==
    LET s == Returned(d, "aux") IN
    IF s.execIO = NoProc /\ s.io # <<>> THEN Started(s, 1) ELSE s
VRRProcessor_Fresh(dd) ==       \* a whole quantum after IO
    {IF ~((d.ready # <<>> \/ d.aux # <<>>) /\ (d.exec = NoProc \/ d.q + 1 >= timeQuantum))
     THEN Count(d)
     ELSE IF d.aux # <<>>
     THEN Count([Dispatch(d, Head(d.aux), d.ready) EXCEPT !.q = -1, !.aux = Tail(@)])
     ELSE Count([Dispatch(d, Head(d.ready), Tail(d.ready)) EXCEPT !.q = -1])
         : d \in {VRRIoDevice(VRRProcess(VRRArrivals(dd)))}}
VRRProcessor(dd) ==
    {IF ~((d.ready # <<>> \/ d.aux # <<>>) /\ (d.exec = NoProc \/ d.q + 1 >= timeQuantum))
     THEN Count(d)
     ELSE IF d.aux # <<>>
     THEN Count([Dispatch(d, Head(d.aux), d.ready) EXCEPT !.q = Head(d.aux).saved - 1, !.aux = Tail(@)])
     ELSE Count([Dispatch(d, Head(d.ready), Tail(d.ready)) EXCEPT !.q = -1])
         : d \in {VRRIoDevice(VRRProcess(VRRArrivals(dd)))}}

-----------------------------------------------------------------------------
Programs == {"sjf", "srtf", "rr", "vrr"}
Main(program) == CASE program = "sjf" -> SJFMain [] program = "srtf" -> SRTFMain
                   [] program = "rr" -> RRMain [] program = "vrr" -> VRRMain

\* The lists of the four programs, and all that their Device may be given.
AllInit ==
    \/ Init /\ standalone = FALSE
    \/ /\ \E p \in Programs : todo = <<p>> /\ input \in Workloads \cup {Main(p)}
       /\ dev = Device(input) /\ standalone = TRUE

SJF == scheduler = "sjf" /\ dev' \in SJFProcessor(dev)
SRTF == scheduler = "srtf" /\ dev' \in SRTFProcessor(dev)
RR == scheduler = "rr" /\ dev' \in RRProcessor(dev)
VRR == scheduler = "vrr" /\ dev' \in VRRProcessor(dev)

Standalone == /\ standalone /\ dev.total > 0 /\ dev.ticks < MaxTicks
              /\ SJF \/ SRTF \/ RR \/ VRR
              /\ UNCHANGED <<input, todo, standalone>>

AllNext == \/ Standalone
           \/ Finish /\ UNCHANGED standalone
           \/ ~standalone /\ (Processor \/ NextScheduler) /\ UNCHANGED standalone

AllSpec == /\ AllInit /\ [][AllNext]_allVars /\ WF_allVars(Standalone)
           /\ WF_allVars(~standalone /\ Processor /\ UNCHANGED standalone)
           /\ WF_allVars(~standalone /\ NextScheduler /\ UNCHANGED standalone)

-----------------------------------------------------------------------------
\* What of a Device decides the schedule: only vrr reads what is saved of a
\* quantum, and sjf and srtf have none.
Schedule(d) ==
    LET Bare(q) == [k \in DOMAIN q |-> [q[k] EXCEPT !.saved = 0]]
        Bared(p) == IF p = NoProc THEN p ELSE [p EXCEPT !.saved = 0]
    IN IF scheduler = "vrr" THEN d
       ELSE [d EXCEPT !.ready = Bare(@), !.io = Bare(@), !.completed = Bare(@), !.procs = Bare(@),
                      !.exec = Bared(@), !.execIO = Bared(@), !.q = IF scheduler = "rr" THEN @ ELSE 0]

\* RR.cpp and VRR.cpp make, tick for tick, the schedule of SchedSim's rr and
\* vrr; SJF.cpp and SRTF.cpp do so while nobody waits for the IO device, for
\* their IO queue is ordered and that of SchedSim is not.
SameSchedule ==
    [][standalone /\ dev' # dev /\ (scheduler \in {"rr", "vrr"} \/ dev.io = <<>>)
         => \E d \in Iteration(dev) : Schedule(d) = Schedule(dev')]_allVars
=============================================================================
