------------------------------- MODULE RingBfr -------------------------------
(***************************************************************************)
(* Kernel/ringBfr/ringBfr.c: one device of the ring-buffer driver and the  *)
(* processes that call its ioctl (config, filler and reader).  The handler *)
(* is registered as unlocked_ioctl and takes no lock, so calls interleave  *)
(* wherever one can sleep: in copy_from_user, copy_to_user and in a        *)
(* GFP_KERNEL allocation.  Those are the boundaries of the steps below.    *)
(*                                                                         *)
(* A slot of q_data is what its pointer leads to: Null after kzalloc, the  *)
(* caller's own memory after the shallow copy of the struct, a kernel      *)
(* buffer once the string itself was copied.                               *)
(***************************************************************************)
EXTENDS Integers, Sequences

CONSTANTS Procs,        \* the calling processes
          Strings,      \* what can be pushed
          Capacities,   \* the arguments of SET_SIZE_OF_QUEUE
          AllocLimit    \* largest q_data array that kzalloc can provide

ASSUME CapacitiesAssumption == Capacities \subseteq Int
ASSUME AllocLimitAssumption == AllocLimit \in Nat

Null == [at |-> "null"]
User(s) == [at |-> "user", str |-> s]
Kernel(s) == [at |-> "kernel", str |-> s]
Slots == {Null} \cup {User(s) : s \in Strings} \cup {Kernel(s) : s \in Strings}

VARIABLES q,            \* ddata->q: "null", "live", or "freed" but still pointed to
          capacity, size, front,
          q_data,       \* the slots, from index -1: the bytes before the array
          call,         \* per process: the step its call has reached
          arg,          \* per process: the string pushed, the capacity set
          rear,         \* per process: the local rear of PUSH_DATA
          out,          \* per process: the slot delivered by the last POP_DATA
          queued,       \* history: what a ring buffer would hold, oldest first
          since         \* history: the strings of all pushes since SET_SIZE

ringVars == <<q, capacity, size, front, q_data, call, arg, rear, out, queued, since>>
queue == <<q, capacity, size, front, q_data>>
locals == <<arg, rear, out>>
history == <<queued, since>>

RingInit ==
    /\ q = "null" /\ capacity = 0 /\ size = 0 /\ front = 0 /\ q_data = <<>>
    /\ call = [p \in Procs |-> "idle"] /\ arg = [p \in Procs |-> 0]
    /\ rear = [p \in Procs |-> 0] /\ out = [p \in Procs |-> Null]
    /\ queued = <<>> /\ since = {}

Reaches(p, from, to) == call[p] = from /\ call' = [call EXCEPT ![p] = to]

\* C's remainder: the sign of the dividend.
CMod(a, b) == IF a >= 0 THEN a % b ELSE -((-a) % b)

\* An access through a freed or missing queue, or a division by zero: the
\* kernel kills the caller in the middle of its call.
Oops(p) == call' = [call EXCEPT ![p] = "oops"] /\ UNCHANGED <<queue, locals, history>>

-----------------------------------------------------------------------------
(* SET_SIZE_OF_QUEUE.  A capacity of 0 or less is refused; otherwise the   *)
(* old queue is freed, string by string, and a new one allocated.          *)

\* The slots whose data the loop of SET_SIZE_OF_QUEUE passes to kfree.
Freed == IF q = "live" THEN {q_data[(front + k) % capacity] : k \in 0 .. size - 1} ELSE {}

SetSize(p) ==
    \E c \in Capacities :
        /\ c > 0 /\ q # "freed" /\ Reaches(p, "idle", "setAlloc")
        /\ \A slot \in Freed : slot.at # "user"
        /\ arg' = [arg EXCEPT ![p] = c]
        /\ q' = (IF q = "live" THEN "freed" ELSE q)
        /\ queued' = <<>> /\ since' = {}
        /\ UNCHANGED <<capacity, size, front, q_data, rear, out>>

SetAlloc(p) ==
    /\ Reaches(p, "setAlloc", "setData")
    /\ q' = "live" /\ front' = 0 /\ size' = 0 /\ capacity' = arg[p] /\ q_data' = <<>>
    /\ UNCHANGED <<locals, history>>

\* -ENOMEM: no queue until the next SET_SIZE_OF_QUEUE.
SetAllocFail(p) ==
    /\ Reaches(p, "setAlloc", "idle")
    /\ q' = "null" /\ front' = 0 /\ size' = 0 /\ capacity' = 0 /\ q_data' = <<>>
    /\ UNCHANGED <<locals, history>>

SetData_NotZeroed(p) ==     \* kmalloc: the memory of the old array comes back
    /\ Reaches(p, "setData", "idle")
    /\ q_data' = [i \in -1 .. arg[p] - 1 |-> out[p]]
    /\ UNCHANGED <<q, capacity, size, front, locals, history>>
SetData(p) ==
    /\ Reaches(p, "setData", "idle")
    /\ q_data' = (IF arg[p] <= AllocLimit THEN [i \in -1 .. arg[p] - 1 |-> Null] ELSE <<>>)
    /\ UNCHANGED <<q, capacity, size, front, locals, history>>

-----------------------------------------------------------------------------
(* PUSH_DATA: the struct is copied into the slot at rear first, and then   *)
(* the string it points to.  A fault in the first copy leaves the slot     *)
(* zeroed, a fault in the second leaves the caller's pointer in it.  The   *)
(* allocation for the string and the copying of it are one step.           *)
CanPush == q = "live" /\ size # capacity

Push(p) ==
    \E s \in Strings, fault \in BOOLEAN :
        LET r == CMod(front + size - 1, capacity) IN
        /\ CanPush /\ r \in DOMAIN q_data
        /\ Reaches(p, "idle", IF fault THEN "idle" ELSE "pushString")
        /\ arg' = [arg EXCEPT ![p] = s] /\ rear' = [rear EXCEPT ![p] = r]
        /\ q_data' = [q_data EXCEPT ![r] = IF fault THEN Null ELSE User(s)]
        /\ since' = since \cup {s}
        /\ UNCHANGED <<q, capacity, size, front, out, queued>>

PushString(p) ==
    /\ Reaches(p, "pushString", "idle") /\ q = "live" /\ rear[p] \in DOMAIN q_data
    /\ q_data' = [q_data EXCEPT ![rear[p]] = Kernel(arg[p])]
    /\ size' = size + 1
    /\ queued' = Append(queued, arg[p])
    /\ UNCHANGED <<q, capacity, front, locals, since>>

PushFault(p) ==
    Reaches(p, "pushString", "idle") /\ UNCHANGED <<queue, locals, history>>

-----------------------------------------------------------------------------
(* POP_DATA: the string at front is copied out, then front and size move;  *)
(* a fault in any of the three copies leaves the queue as it was.          *)
CanPop == q = "live" /\ size # 0

Pop(p) ==
    /\ CanPop /\ front \in DOMAIN q_data
    /\ Reaches(p, "idle", "popAdvance")
    /\ out' = [out EXCEPT ![p] = q_data[front]]
    /\ UNCHANGED <<queue, arg, rear, history>>

PopFault(p) == CanPop /\ Reaches(p, "idle", "idle") /\ UNCHANGED <<queue, locals, history>>

PopAdvance_NoWrap(p) ==     \* front never taken modulo anything
    /\ size # 0 /\ Reaches(p, "popAdvance", "idle")
    /\ front' = front + 1 /\ size' = size - 1
    /\ queued' = Tail(queued)
    /\ UNCHANGED <<q, capacity, q_data, locals, since>>
PopAdvance(p) ==
    /\ q = "live" /\ size # 0 /\ Reaches(p, "popAdvance", "idle")
    /\ front' = CMod(front + 1, size) /\ size' = size - 1
    /\ queued' = (IF queued = <<>> THEN queued ELSE Tail(queued))
    /\ UNCHANGED <<q, capacity, q_data, locals, since>>

\* ddata->q->q_data was never allocated, or another caller freed the queue,
\* replaced it by a smaller one or emptied it (front + 1 modulo a size of 0)
\* since this caller last looked; SET_SIZE_OF_QUEUE frees what a failed push
\* has left, which is not the kernel's; or there is no memory for the string
\* of a push, which is copied all the same.
Crash(p) ==
    /\ \/ call[p] = "idle" /\ (q = "freed" \/ ((CanPush \/ CanPop) /\ q_data = <<>>))
       \/ call[p] = "idle" /\ \E slot \in Freed : slot.at = "user"
       \/ call[p] = "pushString"
       \/ call[p] = "popAdvance" /\ (q # "live" \/ size = 0)
    /\ Oops(p)

def3r_ioctl(p) == \/ SetSize(p) \/ SetAlloc(p) \/ SetAllocFail(p) \/ SetData(p)
                  \/ Push(p) \/ PushString(p) \/ PushFault(p)
                  \/ Pop(p) \/ PopFault(p) \/ PopAdvance(p) \/ Crash(p)

RingNext == \E p \in Procs : def3r_ioctl(p)

RingSpec == RingInit /\ [][RingNext]_ringVars

-----------------------------------------------------------------------------
Calls == {"idle", "setAlloc", "setData", "pushString", "popAdvance", "oops"}

(* Every variable has its type: the fill stays between 0 and the capacity. *)
TypeOK == /\ q \in {"null", "live", "freed"}
          /\ capacity \in Capacities \cup {0} /\ size \in 0 .. capacity
          /\ front \in 0 .. capacity
          /\ \A i \in DOMAIN q_data : i \in -1 .. capacity - 1 /\ q_data[i] \in Slots
          /\ call \in [Procs -> Calls] /\ out \in [Procs -> Slots]
          /\ queued \in Seq(Strings) /\ since \subseteq Strings

\* POP_DATA reads inside the array although front is reduced modulo size and
\* not modulo capacity (line 135): front never gets ahead of the fill, and
\* the fill stays between 0 and the capacity (TypeOK).
PopReadsInside == TypeOK /\ (q = "live" /\ size > 0 => front \in 0 .. capacity - 1)

\* A pop hands out nothing from before the last SET_SIZE_OF_QUEUE.
DeliversRecent == \A p \in Procs : call[p] = "popAdvance" /\ out[p] # Null =>
                                     out[p].str \in since

\* The driver is a "Ring Buffer in kernel space" (line 190): what a pop
\* hands out is the string pushed first among those not popped yet.
PopsOldest == [][\A p \in Procs : Pop(p) => out'[p] = Kernel(Head(queued))]_ringVars

\* A reader past the test of size has an item to pop; one that comes too late
\* is told "no item to pop" (reader.c:29) instead.
PopHasItem == \A p \in Procs : call[p] = "popAdvance" /\ q = "live" => size > 0
=============================================================================
