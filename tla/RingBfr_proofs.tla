--------------------------- MODULE RingBfr_proofs ---------------------------
(***************************************************************************)
(* What the ring-buffer driver keeps to for one calling process, for every *)
(* set of strings and of capacities and whatever kzalloc can provide.  The *)
(* driver takes no lock, and TLC refutes both invariants for two callers:  *)
(* one call at a time is what its users owe it, and the hypothesis here.   *)
(***************************************************************************)
EXTENDS RingBfr, TLAPS

OneCaller == \A p, r \in Procs : p = r

(* A live queue has room for a string, its front is a slot of the array,   *)
(* and its fill is what was pushed and not popped.                         *)
LiveOK == q = "live" => /\ capacity > 0 /\ front \in 0 .. capacity - 1
                        /\ size = Len(queued)

(* Where the caller is, q is what its step expects.                        *)
CallOK == \A p \in Procs :
    /\ call[p] = "setAlloc" => arg[p] \in Capacities /\ arg[p] > 0 /\ since = {}
                             /\ q # "live" /\ queued = <<>>
    /\ call[p] # "setAlloc" => q # "freed"
    /\ call[p] = "setData" => q = "live" /\ capacity = arg[p] /\ size = 0 /\ since = {}
    /\ call[p] = "pushString" => q = "live" /\ size < capacity /\ arg[p] \in since
    /\ call[p] = "popAdvance" => q = "live" /\ size > 0

(* What lies in the array was pushed since it was allocated; only while it *)
(* waits to be allocated again does it still hold what was in it before.   *)
SlotsRecent == (\A p \in Procs : call[p] # "setAlloc") =>
    \A i \in DOMAIN q_data : q_data[i] # Null => q_data[i].str \in since

Locals == /\ arg \in [Procs -> Capacities \cup Strings \cup {0}]
          /\ rear \in [Procs -> Int]

IInv == TypeOK /\ Locals /\ LiveOK /\ CallOK /\ SlotsRecent /\ DeliversRecent

-----------------------------------------------------------------------------
(* front + 1 modulo size is an index among the first size slots.           *)
LEMMA CModRange ==
  ASSUME NEW a \in Nat, NEW b \in Nat \ {0}
  PROVE  CMod(a, b) \in 0 .. b - 1
  BY DEF CMod

LEMMA SlotTypes == /\ Null \in Slots
                   /\ \A s \in Strings : User(s) \in Slots /\ Kernel(s) \in Slots
                   /\ \A s \in Strings : User(s).str = s /\ Kernel(s).str = s
  BY DEF Slots, User, Kernel

LEMMA RingInitIInv == RingInit => IInv
  <1> SUFFICES ASSUME RingInit PROVE IInv
    OBVIOUS
  <1> USE DEF RingInit
  <1>1. TypeOK
    BY SlotTypes DEF TypeOK, Calls
  <1>2. Locals /\ LiveOK /\ CallOK /\ SlotsRecent /\ DeliversRecent
    BY DEF Locals, LiveOK, CallOK, SlotsRecent, DeliversRecent
  <1>3. QED BY <1>1, <1>2 DEF IInv

-----------------------------------------------------------------------------
(* The steps of the only caller.                                           *)
LEMMA SetIInv ==
  ASSUME OneCaller, NEW p \in Procs, IInv,
         SetSize(p) \/ SetAlloc(p) \/ SetAllocFail(p) \/ SetData(p)
  PROVE  IInv'
  <1> USE CapacitiesAssumption, AllocLimitAssumption, SlotTypes
      DEF OneCaller, IInv, TypeOK, Locals, LiveOK, CallOK, SlotsRecent, DeliversRecent,
          Reaches, Calls, queue, locals, history
  <1>1. CASE SetSize(p)
    BY <1>1 DEF SetSize
  <1>2. CASE SetAlloc(p)
    <2>1. DOMAIN q_data' = {}
      BY <1>2 DEF SetAlloc
    <2>2. /\ arg[p] \in Capacities /\ arg[p] \in Int /\ arg[p] > 0
          /\ since = {} /\ queued = <<>>
      BY <1>2 DEF SetAlloc
    <2>3. 0 \in 0 .. arg[p] /\ 0 \in 0 .. arg[p] - 1
      BY <2>2
    <2>4. (TypeOK /\ Locals)'
      BY <1>2, <2>1, <2>2, <2>3 DEF SetAlloc
    <2>5. (LiveOK /\ CallOK)'
      BY <1>2, <2>2, <2>3 DEF SetAlloc
    <2>6. (SlotsRecent /\ DeliversRecent)'
      BY <1>2, <2>1 DEF SetAlloc
    <2>7. QED BY <2>4, <2>5, <2>6
  <1>3. CASE SetAllocFail(p)
    BY <1>3 DEF SetAllocFail
  <1>4. CASE SetData(p)
    BY <1>4 DEF SetData
  <1>5. QED BY <1>1, <1>2, <1>3, <1>4

LEMMA PushIInv ==
  ASSUME OneCaller, NEW p \in Procs, IInv, Push(p) \/ PushString(p) \/ PushFault(p)
  PROVE  IInv'
  <1> USE CapacitiesAssumption, SlotTypes
      DEF OneCaller, IInv, TypeOK, Locals, LiveOK, CallOK, SlotsRecent, DeliversRecent,
          Reaches, Calls, queue, locals, history, CanPush
  <1>1. CASE Push(p)
    <2>1. PICK s \in Strings, fault \in BOOLEAN :
            LET r == CMod(front + size - 1, capacity) IN
            /\ CanPush /\ r \in DOMAIN q_data
            /\ Reaches(p, "idle", IF fault THEN "idle" ELSE "pushString")
            /\ arg' = [arg EXCEPT ![p] = s] /\ rear' = [rear EXCEPT ![p] = r]
            /\ q_data' = [q_data EXCEPT ![r] = IF fault THEN Null ELSE User(s)]
            /\ since' = since \cup {s}
            /\ UNCHANGED <<q, capacity, size, front, out, queued>>
      BY <1>1 DEF Push
    <2> DEFINE r == CMod(front + size - 1, capacity)
    <2>2. r \in -1 .. capacity - 1 /\ r \in Int
      BY <2>1
    <2>3. /\ DOMAIN q_data' = DOMAIN q_data
          /\ \A i \in DOMAIN q_data : q_data'[i] \in {q_data[i], Null, User(s)}
      BY <2>1
    <2> HIDE DEF r
    <2>4. (TypeOK /\ Locals)'
      BY <2>1, <2>2, <2>3 DEF r
    <2>5. LiveOK'
      BY <2>1
    <2>6. CallOK'
      <3>1. /\ call' = [call EXCEPT ![p] = IF fault THEN "idle" ELSE "pushString"]
            /\ call[p] = "idle"
        BY <2>1
      <3>2. s \in since' /\ arg'[p] = s
        BY <2>1
      <3>3. q = "live" /\ size < capacity
        BY <2>1
      <3>4. QED BY <2>1, <3>1, <3>2, <3>3
    <2>7. (SlotsRecent /\ DeliversRecent)'
      BY <2>1, <2>3
    <2>8. QED BY <2>4, <2>5, <2>6, <2>7
  <1>2. CASE PushString(p)
    BY <1>2 DEF PushString
  <1>3. CASE PushFault(p)
    BY <1>3 DEF PushFault
  <1>4. QED BY <1>1, <1>2, <1>3

LEMMA PopIInv ==
  ASSUME OneCaller, NEW p \in Procs, IInv,
         Pop(p) \/ PopFault(p) \/ PopAdvance(p) \/ Crash(p)
  PROVE  IInv'
  <1> USE CapacitiesAssumption, SlotTypes
      DEF OneCaller, IInv, TypeOK, Locals, LiveOK, CallOK, SlotsRecent, DeliversRecent,
          Reaches, Calls, queue, locals, history, CanPop, Oops
  <1>1. CASE Pop(p)
    BY <1>1 DEF Pop
  <1>2. CASE PopFault(p)
    BY <1>2 DEF PopFault
  <1>3. CASE PopAdvance(p)
    <2>1. q = "live" /\ size \in Nat \ {0} /\ front + 1 \in Nat
      BY <1>3 DEF PopAdvance
    <2>2. front' \in 0 .. size - 1 /\ size' = size - 1
      BY <1>3, <2>1, CModRange DEF PopAdvance
    <2>3. queued' = Tail(queued) /\ Len(queued) = size
      BY <1>3, <2>1 DEF PopAdvance
    <2>4. queued' \in Seq(Strings) /\ Len(queued') = size'
      BY <2>1, <2>2, <2>3
    <2>5. (TypeOK /\ Locals)'
      BY <1>3, <2>2, <2>4 DEF PopAdvance
    <2>6. (LiveOK /\ CallOK)'
      BY <1>3, <2>2, <2>4 DEF PopAdvance
    <2>7. (SlotsRecent /\ DeliversRecent)'
      BY <1>3 DEF PopAdvance
    <2>8. QED BY <2>5, <2>6, <2>7
  <1>4. CASE Crash(p)
    BY <1>4 DEF Crash
  <1>5. QED BY <1>1, <1>2, <1>3, <1>4

LEMMA Inductive == OneCaller => (RingSpec => []IInv)
  <1> SUFFICES ASSUME OneCaller PROVE RingSpec => []IInv
    OBVIOUS
  <1>1. IInv /\ [RingNext]_ringVars => IInv'
    <2>1. CASE UNCHANGED ringVars
      BY <2>1 DEF ringVars, IInv, TypeOK, Locals, LiveOK, CallOK, SlotsRecent, DeliversRecent
    <2>2. QED BY <2>1, SetIInv, PushIInv, PopIInv DEF RingNext, def3r_ioctl
  <1>2. QED BY RingInitIInv, <1>1, PTL DEF RingSpec

(* For one caller every variable keeps its type, size never leaves 0 to    *)
(* capacity, and a pop reads a slot of the array, although front is        *)
(* reduced modulo the fill.                                                *)
THEOREM ReadsInside == ASSUME OneCaller PROVE RingSpec => []PopReadsInside
  <1>1. IInv => PopReadsInside
    BY DEF IInv, LiveOK, PopReadsInside
  <1>2. QED BY <1>1, Inductive, PTL

(* For one caller a pop hands out nothing from before the last             *)
(* SET_SIZE_OF_QUEUE, whatever a failed push has left in its slot.         *)
THEOREM Recent == ASSUME OneCaller PROVE RingSpec => []DeliversRecent
  BY Inductive, PTL DEF IInv
=============================================================================
