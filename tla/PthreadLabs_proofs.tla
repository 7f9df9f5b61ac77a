--------------------------- MODULE PthreadLabs_proofs ---------------------------
(***************************************************************************)
(* Safety of the five pthread programs for every value of the constants,   *)
(* first each for itself and then for MCPthreadLabs, which executes one of *)
(* them: its steps are steps of that program.                              *)
(***************************************************************************)
EXTENDS MCPthreadLabs, FiniteSetTheorems, TLAPS

(***************************************************************************)
(* Safety of the semaphore producer/consumer for every buffer size BS and  *)
(* every item range: one inductive invariant, IInv, relates the semaphores *)
(* to count and to where the two threads are; the invariants and the       *)
(* refinement of the bounded LIFO buffer follow from it.                   *)
(***************************************************************************)

(* How many units of each semaphore a thread holds at its present step.    *)
HasRoom  == IF pcP \in {"waitMutex", "store", "increment"} THEN 1 ELSE 0
OwesFull == IF pcP \in {"postMutex", "postFull"} THEN 1 ELSE 0
HasItem  == IF pcC \in {"waitMutex", "decrement", "load"} THEN 1 ELSE 0
OwesRoom == IF pcC \in {"postMutex", "postEmpty"} THEN 1 ELSE 0

Accounting == /\ mutex = 1 - (IF ProdInside THEN 1 ELSE 0) - (IF ConsInside THEN 1 ELSE 0)
              /\ empty = BS - count - HasRoom - OwesRoom
              /\ full = count - OwesFull - HasItem

Registers == /\ pcP = "increment" => regP = count /\ count < BS /\ bffr[count] = item
             /\ pcC = "load" => regC = count - 1 /\ count > 0
             /\ pcP \in {"waitMutex", "store", "increment"} => i = (item + 1) % IntRange

IInv == TypeOK /\ Accounting /\ Registers

-----------------------------------------------------------------------------
(* What IInv says of the two critical sections and of the indices used.    *)
LEMMA Consequences == IInv => MutualExclusion /\ IndexInBounds
  BY BSAssumption DEF IInv, TypeOK, Accounting, MutualExclusion, IndexInBounds,
     HasRoom, OwesFull, HasItem, OwesRoom, ProdInside, ConsInside

LEMMA InitIInv == Init => IInv
  <1> SUFFICES ASSUME Init PROVE IInv
    OBVIOUS
  <1> USE BSAssumption, IntRangeAssumption DEF Init
  <1>1. TypeOK
    <2>1. 0 \in Items /\ 0 \in 0 .. BS
      BY DEF Items
    <2>2. bffr \in [0 .. BS - 1 -> Items]
      BY <2>1
    <2>3. QED BY <2>1, <2>2 DEF TypeOK, ProdPC, ConsPC
  <1>2. Accounting
    <2>1. BS \in Int
      OBVIOUS
    <2>2. ~ProdInside /\ ~ConsInside
      BY DEF ProdInside, ConsInside
    <2>3. HasRoom = 0 /\ OwesFull = 0 /\ HasItem = 0 /\ OwesRoom = 0
      BY DEF HasRoom, OwesFull, HasItem, OwesRoom
    <2>4. QED BY <2>1, <2>2, <2>3 DEF Accounting
  <1>3. Registers
    BY DEF Registers
  <1>4. QED BY <1>1, <1>2, <1>3 DEF IInv

(* A step of the producer keeps the invariant.                             *)
LEMMA ProducerIInv == IInv /\ producer => IInv'
  <1> SUFFICES ASSUME IInv, producer PROVE IInv'
    OBVIOUS
  <1> USE BSAssumption, IntRangeAssumption
      DEF IInv, TypeOK, Accounting, Registers, HasRoom, OwesFull, HasItem, OwesRoom,
          ProdInside, ConsInside, ProdPC, ConsPC, Items, ProdGo, SemWait, SemPost, shared
  <1>1. CASE ProdWaitEmpty
    <2>1. (i + 1) % IntRange \in Items
      OBVIOUS
    <2>2. QED BY <1>1, <2>1 DEF ProdWaitEmpty
  <1>2. CASE ProdWaitMutex BY <1>2 DEF ProdWaitMutex
  <1>3. CASE ProdStore     BY <1>3 DEF ProdStore
  <1>4. CASE ProdIncrement BY <1>4 DEF ProdIncrement
  <1>5. CASE ProdPostMutex BY <1>5 DEF ProdPostMutex
  <1>6. CASE ProdPostFull  BY <1>6 DEF ProdPostFull
  <1>7. QED BY <1>1, <1>2, <1>3, <1>4, <1>5, <1>6 DEF producer

(* A step of the consumer keeps the invariant.                             *)
LEMMA ConsumerIInv == IInv /\ consumer => IInv'
  <1> SUFFICES ASSUME IInv, consumer PROVE IInv'
    OBVIOUS
  <1> USE BSAssumption, IntRangeAssumption
      DEF IInv, TypeOK, Accounting, Registers, HasRoom, OwesFull, HasItem, OwesRoom,
          ProdInside, ConsInside, ProdPC, ConsPC, Items, ConsGo, SemWait, SemPost, shared
  <1>1. CASE ConsWaitFull  BY <1>1 DEF ConsWaitFull
  <1>2. CASE ConsWaitMutex BY <1>2 DEF ConsWaitMutex
  <1>3. CASE ConsDecrement BY <1>3 DEF ConsDecrement
  <1>4. CASE ConsLoad      BY <1>4 DEF ConsLoad
  <1>5. CASE ConsPostMutex BY <1>5 DEF ConsPostMutex
  <1>6. CASE ConsPostEmpty BY <1>6 DEF ConsPostEmpty
  <1>7. QED BY <1>1, <1>2, <1>3, <1>4, <1>5, <1>6 DEF consumer

LEMMA Inductive == Spec => []IInv
  <1>1. IInv /\ [Next]_vars => IInv'
    <2>1. CASE UNCHANGED vars
      BY <2>1 DEF vars, IInv, TypeOK, Accounting, Registers, HasRoom, OwesFull, HasItem,
                  OwesRoom, ProdInside, ConsInside
    <2>2. QED BY <2>1, ProducerIInv, ConsumerIInv DEF Next
  <1>2. QED BY InitIInv, <1>1, PTL DEF Spec

-----------------------------------------------------------------------------
(* Every variable of the program keeps its type: count stays within the    *)
(* buffer and no semaphore exceeds what it was created for.                *)
THEOREM TypeCorrect == Spec => []TypeOK
  BY Inductive, PTL DEF IInv

(* The producer and the consumer are never in the critical section at once.*)
THEOREM Exclusion == Spec => []MutualExclusion
  BY Inductive, Consequences, PTL

(* Both array accesses are in bounds although the code never tests count.  *)
THEOREM InBounds == Spec => []IndexInBounds
  BY Inductive, Consequences, PTL

-----------------------------------------------------------------------------
(* The refinement.  Contents(b, n) is the sequence held by the first n     *)
(* slots of b: the two lemmas say how it grows and shrinks.                *)
Contents(b, n) == [k \in 1 .. n |-> b[k - 1]]

LEMMA ContentsGrow ==
  ASSUME NEW b, NEW n \in Nat, NEW x, b[n] = x
  PROVE  /\ Contents(b, n + 1) = Append(Contents(b, n), x)
         /\ Len(Contents(b, n)) = n
  BY DEF Contents

LEMMA ContentsShrink ==
  ASSUME NEW b, NEW n \in Nat \ {0}
  PROVE  /\ Contents(b, n - 1) = SubSeq(Contents(b, n), 1, n - 1)
         /\ Len(Contents(b, n)) = n
         /\ Contents(b, n)[n] = b[n - 1]
  BY DEF Contents

LEMMA ProducerRefines == IInv /\ producer => [Lifo!Next]_(Lifo!vars)
  <1> SUFFICES ASSUME IInv, producer PROVE [Lifo!Next]_(Lifo!vars)
    OBVIOUS
  <1> USE BSAssumption, IntRangeAssumption DEF IInv, ProdGo, SemWait, SemPost, shared
  <1>1. CASE ProdWaitEmpty BY <1>1 DEF ProdWaitEmpty, Lifo!vars
  <1>2. CASE ProdWaitMutex BY <1>2 DEF ProdWaitMutex, Lifo!vars
  <1>3. CASE ProdStore
    <2>1. \A k \in 1 .. count : bffr'[k - 1] = bffr[k - 1]
      BY <1>3 DEF ProdStore, TypeOK
    <2>2. QED BY <1>3, <2>1 DEF ProdStore, Lifo!vars
  <1>4. CASE ProdIncrement
    <2>1. count \in Nat /\ count < BS /\ bffr[count] = item /\ count' = count + 1 /\ bffr' = bffr
      BY <1>4 DEF ProdIncrement, TypeOK, Registers
    <2>2. /\ Contents(bffr, count)' = Append(Contents(bffr, count), item)
          /\ Len(Contents(bffr, count)) = count
      BY <2>1, ContentsGrow DEF Contents
    <2>3. Lifo!Put
      BY <1>4, <2>1, <2>2 DEF ProdIncrement, Registers, Lifo!Put, Contents
    <2>4. QED BY <2>3 DEF Lifo!Next
  <1>5. CASE ProdPostMutex BY <1>5 DEF ProdPostMutex, Lifo!vars
  <1>6. CASE ProdPostFull  BY <1>6 DEF ProdPostFull, Lifo!vars
  <1>7. QED BY <1>1, <1>2, <1>3, <1>4, <1>5, <1>6 DEF producer

LEMMA ConsumerRefines == IInv /\ consumer => [Lifo!Next]_(Lifo!vars)
  <1> SUFFICES ASSUME IInv, consumer PROVE [Lifo!Next]_(Lifo!vars)
    OBVIOUS
  <1> USE BSAssumption, IntRangeAssumption DEF IInv, ConsGo, SemWait, SemPost, shared
  <1>1. CASE ConsWaitFull  BY <1>1 DEF ConsWaitFull, Lifo!vars
  <1>2. CASE ConsWaitMutex BY <1>2 DEF ConsWaitMutex, Lifo!vars
  <1>3. CASE ConsDecrement BY <1>3 DEF ConsDecrement, Lifo!vars
  <1>4. CASE ConsLoad
    <2>1. count \in Nat \ {0} /\ count' = count - 1 /\ bffr' = bffr /\ got' = bffr[count - 1]
      BY <1>4 DEF ConsLoad, TypeOK, Registers
    <2>2. /\ Contents(bffr, count)' = SubSeq(Contents(bffr, count), 1, count - 1)
          /\ Len(Contents(bffr, count)) = count
          /\ Contents(bffr, count)[count] = bffr[count - 1]
      BY <2>1, ContentsShrink DEF Contents
    <2>3. Lifo!Take
      BY <1>4, <2>1, <2>2 DEF ConsLoad, Lifo!Take, Contents
    <2>4. QED BY <2>3 DEF Lifo!Next
  <1>5. CASE ConsPostMutex BY <1>5 DEF ConsPostMutex, Lifo!vars
  <1>6. CASE ConsPostEmpty BY <1>6 DEF ConsPostEmpty, Lifo!vars
  <1>7. QED BY <1>1, <1>2, <1>3, <1>4, <1>5, <1>6 DEF consumer

LEMMA InitRefines == Init => Lifo!Init
  BY DEF Init, Lifo!Init

(* The program implements the bounded LIFO buffer: nothing is lost,        *)
(* duplicated or taken out of LIFO order, for every BS and item range.     *)
THEOREM RefinesLifo == Spec => ImplementsLifo
  <1>1. IInv /\ [Next]_vars => [Lifo!Next]_(Lifo!vars)
    <2>1. CASE UNCHANGED vars
      BY <2>1 DEF vars, Lifo!vars
    <2>2. QED BY <2>1, ProducerRefines, ConsumerRefines DEF Next
  <1>2. QED BY <1>1, InitRefines, Inductive, PTL DEF Spec, Lifo!Spec, ImplementsLifo

-----------------------------------------------------------------------------
(***************************************************************************)
(* Safety of the monitor version for every buffer size, item range and     *)
(* number of spurious wakeups.  The invariant adds to the type that the    *)
(* thread inside holds the mutex, so that what it learnt from its test of  *)
(* count still holds when it uses it.                                      *)
(***************************************************************************)

MonHolds == \A t \in Mon!Threads : mMutex = t <=> Mon!Inside(t)

MonIInv == Mon!TypeOK /\ MonHolds /\ Mon!IndexInBounds /\ Mon!NoLostWakeup

LEMMA MonInitIInv == Mon!Init => MonIInv
  <1> SUFFICES ASSUME Mon!Init PROVE MonIInv
    OBVIOUS
  <1> USE BSAssumption, IntRangeAssumption, MaxSpuriousAssumption
      DEF Mon!Threads, Mon!Free, Mon!PC, Mon!Inside, Mon!Other, Mon!MustWait, Mon!data,
          Mon!Items, Mon!Outside, Mon!Init
  <1>1. 0 \in Mon!Items /\ 0 \in 0 .. BS
    OBVIOUS
  <1>2. Mon!TypeOK
    <2>1. mBffr \in [0 .. BS - 1 -> Mon!Items]
      BY <1>1
    <2>2. mPc \in [Mon!Threads -> Mon!PC]
      OBVIOUS
    <2>3. QED BY <1>1, <2>1, <2>2 DEF Mon!TypeOK
  <1>3. MonHolds /\ Mon!IndexInBounds /\ Mon!NoLostWakeup
    BY DEF MonHolds, Mon!IndexInBounds, Mon!NoLostWakeup
  <1>4. QED BY <1>2, <1>3 DEF MonIInv

(* The five steps that leave the data alone.                               *)
LEMMA MonStepIInv == ASSUME NEW t \in Mon!Threads, MonIInv, Mon!Step(t) PROVE MonIInv'
  <1> USE BSAssumption, IntRangeAssumption, MaxSpuriousAssumption
      DEF Mon!Threads, Mon!Free, Mon!PC, Mon!Inside, Mon!Other, Mon!MustWait, Mon!data,
          Mon!Items, Mon!Outside, MonIInv, Mon!TypeOK, MonHolds, Mon!IndexInBounds,
          Mon!NoLostWakeup
  <1>1. CASE Mon!Lock(t)   BY <1>1 DEF Mon!Lock
  <1>2. CASE Mon!Wait(t)   BY <1>2 DEF Mon!Wait
  <1>3. CASE Mon!Pass(t)   BY <1>3 DEF Mon!Pass
  <1>4. CASE Mon!Signal(t) BY <1>4 DEF Mon!Signal
  <1>5. CASE Mon!Unlock(t) BY <1>5 DEF Mon!Unlock
  <1>6. QED BY <1>1, <1>2, <1>3, <1>4, <1>5 DEF Mon!Step

LEMMA MonProduceIInv == MonIInv /\ Mon!Produce => MonIInv'
  <1> SUFFICES ASSUME MonIInv, Mon!Produce PROVE MonIInv'
    OBVIOUS
  <1> USE BSAssumption, IntRangeAssumption, MaxSpuriousAssumption
      DEF Mon!Threads, Mon!Free, Mon!PC, Mon!Inside, Mon!Other, Mon!MustWait, Mon!data,
          Mon!Items, Mon!Outside, MonIInv, Mon!TypeOK, MonHolds, Mon!IndexInBounds,
          Mon!NoLostWakeup, Mon!Produce
  <1>1. mCount \in 0 .. BS - 1
    OBVIOUS
  <1>2. (mItem + 1) % IntRange \in Mon!Items
    OBVIOUS
  <1>3. Mon!TypeOK'
    BY <1>1, <1>2
  <1>4. mPc["cons"] # "use" /\ mPc["cons"] # "test"
    OBVIOUS
  <1>5. (MonHolds /\ Mon!IndexInBounds /\ Mon!NoLostWakeup)'
    BY <1>1, <1>4
  <1>6. QED BY <1>3, <1>5

LEMMA MonConsumeIInv == MonIInv /\ Mon!Consume => MonIInv'
  <1> SUFFICES ASSUME MonIInv, Mon!Consume PROVE MonIInv'
    OBVIOUS
  <1> USE BSAssumption, IntRangeAssumption, MaxSpuriousAssumption
      DEF Mon!Threads, Mon!Free, Mon!PC, Mon!Inside, Mon!Other, Mon!MustWait, Mon!data,
          Mon!Items, Mon!Outside, MonIInv, Mon!TypeOK, MonHolds, Mon!IndexInBounds,
          Mon!NoLostWakeup, Mon!Consume
  <1>1. mCount \in 1 .. BS
    OBVIOUS
  <1>2. mGot' \in Mon!Items \cup {Mon!Outside}
    BY <1>1
  <1>3. Mon!TypeOK'
    BY <1>1, <1>2
  <1>4. mPc["prod"] # "use" /\ mPc["prod"] # "test"
    OBVIOUS
  <1>5. (MonHolds /\ Mon!IndexInBounds /\ Mon!NoLostWakeup)'
    BY <1>1, <1>4
  <1>6. QED BY <1>3, <1>5

LEMMA MonInductive == Mon!Spec => []MonIInv
  <1>1. MonIInv /\ [Mon!Next]_(Mon!vars) => MonIInv'
    <2> SUFFICES ASSUME MonIInv, [Mon!Next]_(Mon!vars) PROVE MonIInv'
      OBVIOUS
    <2> USE MaxSpuriousAssumption DEF Mon!Threads, Mon!Free, Mon!PC, Mon!Inside, Mon!Other,
            Mon!MustWait, Mon!data, Mon!Items, Mon!Outside
    <2>1. ASSUME NEW t \in Mon!Threads, Mon!Spurious(t) PROVE MonIInv'
      BY <2>1 DEF Mon!Spurious, MonIInv, Mon!TypeOK, MonHolds, Mon!IndexInBounds,
                  Mon!NoLostWakeup
    <2>2. CASE UNCHANGED Mon!vars
      BY <2>2 DEF Mon!vars, MonIInv, Mon!TypeOK, MonHolds, Mon!IndexInBounds,
                  Mon!NoLostWakeup
    <2>3. QED BY <2>1, <2>2, MonStepIInv, MonProduceIInv, MonConsumeIInv
              DEF Mon!Next, Mon!producer, Mon!consumer
  <1>2. QED BY MonInitIInv, <1>1, PTL DEF Mon!Spec

-----------------------------------------------------------------------------
(* Every variable keeps its type: count never leaves 0..BS.                *)
THEOREM MonTypeCorrect == Mon!Spec => []Mon!TypeOK
  BY MonInductive, PTL DEF MonIInv

(* Neither thread uses the buffer with its waiting predicate true, however *)
(* it was woken: what the comment on the while loop asks for.              *)
THEOREM MonInBounds == Mon!Spec => []Mon!IndexInBounds
  BY MonInductive, PTL DEF MonIInv

(* A sleeping thread really has to wait, or is about to be signalled.      *)
THEOREM MonWakeupsKept == Mon!Spec => []Mon!NoLostWakeup
  BY MonInductive, PTL DEF MonIInv

-----------------------------------------------------------------------------
(***************************************************************************)
(* Fork exclusion for every number of philosophers from two up.  A fork in *)
(* a hand has its semaphore at 0; the converse is not needed.              *)
(***************************************************************************)

PhiloForkInv == \A h \in Philo!Phil :
                    /\ Philo!HasLeft(h) => forks[h] = 0
                    /\ Philo!HasRight(h) => forks[Philo!Right(h)] = 0

PhiloMutexInv == \A h \in Philo!Phil : Philo!Reaching(h) =>
                /\ pMutex = 0
                /\ \A k \in Philo!Phil : Philo!Reaching(k) => h = k

PhiloIInv == Philo!TypeOK /\ PhiloForkInv /\ PhiloMutexInv /\ Philo!ForkExclusion

-----------------------------------------------------------------------------
(* (i + 1) % N is a neighbour's index, and no two philosophers share it.   *)
LEMMA PhiloRightIs == ASSUME NEW h \in Philo!Phil
                 PROVE  Philo!Right(h) = IF h = N - 1 THEN 0 ELSE h + 1
  <1> USE NAssumption DEF Philo!Phil, Philo!Right
  <1>1. CASE h = N - 1
    BY <1>1
  <1>2. CASE h # N - 1
    <2>1. h + 1 \in 0 .. N - 1
      BY <1>2
    <2>2. QED BY <1>2, <2>1
  <1>3. QED BY <1>1, <1>2

LEMMA PhiloRightInPhil == \A h \in Philo!Phil : Philo!Right(h) \in Philo!Phil
  BY PhiloRightIs, NAssumption DEF Philo!Phil

LEMMA PhiloRightInjective ==
  \A h, k \in Philo!Phil : Philo!Right(h) = Philo!Right(k) => h = k
  BY PhiloRightIs, NAssumption DEF Philo!Phil

-----------------------------------------------------------------------------
LEMMA PhiloInitIInv == Philo!Init => PhiloIInv
  BY PhiloRightInPhil DEF Philo!Init, PhiloIInv, Philo!TypeOK, PhiloForkInv,
                          PhiloMutexInv, Philo!ForkExclusion, Philo!PC,
                     Philo!HasLeft, Philo!HasRight, Philo!Reaching

LEMMA PhiloStepIInv ==
  ASSUME NEW p \in Philo!Phil, PhiloIInv, Philo!philosophers(p)
  PROVE  PhiloIInv'
  <1> USE PhiloRightInPhil
      DEF PhiloIInv, Philo!TypeOK, PhiloForkInv, PhiloMutexInv, Philo!ForkExclusion,
          Philo!PC,
          Philo!HasLeft, Philo!HasRight, Philo!Reaching, Philo!Goto, Philo!Take, Philo!Put
  <1>1. CASE Philo!WaitMutex(p) BY <1>1 DEF Philo!WaitMutex
  <1>2. CASE Philo!WaitLeft(p)  BY <1>2 DEF Philo!WaitLeft
  <1>3. CASE Philo!WaitRight(p) BY <1>3, PhiloRightInjective DEF Philo!WaitRight
  <1>4. CASE Philo!PostMutex(p) BY <1>4 DEF Philo!PostMutex
  <1>5. CASE Philo!PutLeft(p)   BY <1>5 DEF Philo!PutLeft
  <1>6. CASE Philo!PutRight(p)  BY <1>6, PhiloRightInjective DEF Philo!PutRight
  <1>7. QED BY <1>1, <1>2, <1>3, <1>4, <1>5, <1>6 DEF Philo!philosophers

LEMMA PhiloInductive == Philo!Spec => []PhiloIInv
  <1>1. PhiloIInv /\ [Philo!Next]_(Philo!vars) => PhiloIInv'
    <2>1. CASE UNCHANGED Philo!vars
      BY <2>1 DEF Philo!vars, PhiloIInv, Philo!TypeOK, PhiloForkInv, PhiloMutexInv,
                  Philo!ForkExclusion, Philo!PC,
                  Philo!HasLeft, Philo!HasRight, Philo!Reaching
    <2>2. QED BY <2>1, PhiloStepIInv DEF Philo!Next
  <1>2. QED BY PhiloInitIInv, <1>1, PTL DEF Philo!Spec

(* Every semaphore stays binary for any number of philosophers.            *)
THEOREM PhiloTypeCorrect == Philo!Spec => []Philo!TypeOK
  BY PhiloInductive, PTL DEF PhiloIInv

(* No fork is ever in two hands, for any number of philosophers.           *)
THEOREM PhiloForks == Philo!Spec => []Philo!ForkExclusion
  BY PhiloInductive, PTL DEF PhiloIInv

-----------------------------------------------------------------------------
(***************************************************************************)
(* Writers write alone, for any finite set of readers and any writers.     *)
(* The readers together own the semaphore `writing' from LockOut to LetIn; *)
(* the invariant says who owns it and that readCount counts exactly the    *)
(* readers that are in, so that first and last are told right.             *)
(***************************************************************************)

RWOwner == \A r \in Readers : RW!HoldsMutex(r) =>
            /\ rMutex = 0
            /\ \A q \in Readers : RW!HoldsMutex(q) => q = r

RWLocked == /\ \A r \in Readers : RW!Reading(r) => writing = 0
            /\ \A w \in Writers : rPc[w] = "in" => writing = 0
            /\ \A r \in Readers : rPc[r] = "letIn" => RW!Counted = {}

RWIInv == /\ RW!TypeOK /\ RW!CountExact /\ RWOwner /\ RWLocked
          /\ RW!WriterAlone /\ RW!OnlyFirstWaits

(* The Cardinality that ReadWrite brings along is the usual one.           *)
LEMMA RWCardinality == \A S : RW!Cardinality(S) = Cardinality(S)
  BY DEF RW!Cardinality, Cardinality

-----------------------------------------------------------------------------
(* A set of readers is finite, so its cardinality is a natural number,     *)
(* which is 0 only when it is empty and moves by one with one reader.      *)
LEMMA RWFinite ==
  ASSUME NEW S \in SUBSET Readers
  PROVE  /\ IsFiniteSet(S)
         /\ RW!Cardinality(S) \in Nat /\ RW!Cardinality(Readers) \in Nat
         /\ RW!Cardinality(S) <= RW!Cardinality(Readers)
         /\ RW!Cardinality(S) = 0 <=> S = {}
  <1>1. IsFiniteSet(S) /\ Cardinality(S) <= Cardinality(Readers)
    BY ThreadsAssumption, FS_Subset
  <1>2. Cardinality(S) \in Nat /\ Cardinality(Readers) \in Nat
    BY <1>1, ThreadsAssumption, FS_CardinalityType
  <1>3. Cardinality(S) = 0 <=> S = {}
    BY <1>1, FS_EmptySet
  <1>4. RW!Cardinality(S) = Cardinality(S) /\ RW!Cardinality(Readers) = Cardinality(Readers)
    BY RWCardinality
  <1>5. QED BY <1>1, <1>2, <1>3, <1>4

LEMMA RWCountedFinite ==
  /\ RW!Counted \in SUBSET Readers /\ IsFiniteSet(RW!Counted)
  /\ RW!Cardinality(RW!Counted) \in Nat /\ RW!Cardinality(Readers) \in Nat
  /\ RW!Cardinality(RW!Counted) <= RW!Cardinality(Readers)
  /\ RW!Cardinality(RW!Counted) = 0 <=> RW!Counted = {}
  <1>1. RW!Counted \in SUBSET Readers
    BY DEF RW!Counted
  <1>2. QED BY <1>1, RWFinite

LEMMA RWCountJoin ==
  ASSUME NEW S, IsFiniteSet(S), NEW r, r \notin S
  PROVE  RW!Cardinality(S \cup {r}) = RW!Cardinality(S) + 1
  BY RWCardinality, FS_AddElement

LEMMA RWCountLeave ==
  ASSUME NEW S, IsFiniteSet(S), NEW r \in S
  PROVE  RW!Cardinality(S \ {r}) = RW!Cardinality(S) - 1
  BY RWCardinality, FS_RemoveElement

LEMMA RWInitIInv == RW!Init => RWIInv
  <1> SUFFICES ASSUME RW!Init PROVE RWIInv
    OBVIOUS
  <1>1. RW!Counted = {}
    BY DEF RW!Init, RW!Counted
  <1>2. RW!CountExact
    BY <1>1, FS_EmptySet, RWCardinality DEF RW!Init, RW!CountExact
  <1>3. RW!TypeOK
    BY <1>2, RWCountedFinite, RWCardinality DEF RW!Init, RW!TypeOK, RW!ReaderPC,
                                                RW!CountExact
  <1>4. RWOwner /\ RWLocked /\ RW!WriterAlone /\ RW!OnlyFirstWaits
    BY DEF RW!Init, RWOwner, RWLocked, RW!WriterAlone, RW!OnlyFirstWaits, RW!HoldsMutex,
           RW!Reading, RW!ReaderPC
  <1>5. QED BY <1>2, <1>3, <1>4 DEF RWIInv

(* A writer's step.                                                        *)
LEMMA RWWriterIInv == ASSUME NEW w \in Writers, RWIInv, RW!writer(w) PROVE RWIInv'
  <1> USE ThreadsAssumption
  <1>1. \A r \in Readers : rPc'[r] = rPc[r]
    BY DEF RWIInv, RW!TypeOK, RW!writer, RW!Write, RW!EndWrite, RW!Goto
  <1>2. RW!Counted' = RW!Counted /\ RW!CountExact'
    BY <1>1 DEF RW!Counted, RW!CountExact, RWIInv, RW!writer, RW!Write, RW!EndWrite
  <1>3. RW!TypeOK'
    BY DEF RWIInv, RW!TypeOK, RW!ReaderPC, RW!writer, RW!Write, RW!EndWrite, RW!Goto,
           RW!SemWait, RW!SemPost,
           RW!WriterAlone, RWLocked
  <1>4. RWOwner' /\ RW!OnlyFirstWaits'
    BY <1>1 DEF RWIInv, RWOwner, RW!OnlyFirstWaits, RW!HoldsMutex, RW!Reading, RW!writer,
                RW!Write, RW!EndWrite
  <1>5. RWLocked' /\ RW!WriterAlone'
    BY <1>1, <1>2 DEF RWIInv, RW!TypeOK, RWLocked, RW!WriterAlone, RW!Reading, RW!writer,
                      RW!Write, RW!EndWrite,
                      RW!Goto, RW!SemWait, RW!SemPost
  <1>6. QED BY <1>2, <1>3, <1>4, <1>5 DEF RWIInv

(* A reader's step that leaves the set of counted readers as it is.        *)
LEMMA RWQuietReaderIInv ==
  ASSUME NEW r \in Readers, RWIInv,
         \/ RW!Enter(r) \/ RW!LockOut(r) \/ RW!StartRead(r)
         \/ RW!EndRead(r) \/ RW!LetIn(r) \/ RW!Leave(r)
  PROVE  RWIInv'
  <1> USE ThreadsAssumption DEF RWIInv, RW!TypeOK, RW!ReaderPC, RW!Goto, RW!SemWait,
                                RW!SemPost, RW!Enter, RW!LockOut, RW!StartRead,
              RW!EndRead, RW!LetIn, RW!Leave
  <1>1. RW!Counted' = RW!Counted
    BY DEF RW!Counted
  <1>2. RW!CountExact'
    BY <1>1 DEF RW!CountExact
  <1>3. RWOwner'
    BY DEF RWOwner, RW!HoldsMutex
  <1>4. \A q \in Readers : rPc[q] \in {"entered", "in", "leave", "lockOut"} => q \in RW!Counted
    BY DEF RW!Counted
  <1>5. RWLocked' /\ RW!WriterAlone' /\ RW!OnlyFirstWaits'
    BY <1>1, <1>4 DEF RWLocked, RW!WriterAlone, RW!OnlyFirstWaits, RW!Reading, RWOwner,
                      RW!HoldsMutex
  <1>6. RW!TypeOK'
    BY DEF RWOwner, RW!HoldsMutex, RWLocked, RW!Reading
  <1>7. QED BY <1>2, <1>3, <1>5, <1>6

(* readCount++ and its test.                                               *)
LEMMA RWCountInIInv == ASSUME NEW r \in Readers, RWIInv, RW!CountIn(r) PROVE RWIInv'
  <1> USE ThreadsAssumption DEF RWIInv, RW!TypeOK, RW!ReaderPC, RW!Goto, RW!CountIn
  <1>1. r \notin RW!Counted /\ RW!Counted' = RW!Counted \cup {r}
    BY DEF RW!Counted
  <1>2. RW!CountExact'
    BY <1>1, RWCountedFinite, RWCountJoin DEF RW!CountExact
  <1>3. RW!TypeOK'
    <2>1. readCount' \in 0 .. RW!Cardinality(Readers)
      <3>1. RW!Counted' \in SUBSET Readers
        BY <1>1 DEF RW!Counted
      <3>2. /\ RW!Cardinality(RW!Counted') <= RW!Cardinality(Readers)
            /\ RW!Cardinality(RW!Counted') = RW!Cardinality(RW!Counted) + 1
        BY <1>1, <3>1, RWFinite, RWCountedFinite, RWCountJoin
      <3>3. QED BY <1>2, <3>2, RWCountedFinite DEF RW!CountExact
    <2>2. QED BY <2>1
  <1>4. RWOwner'
    BY DEF RWOwner, RW!HoldsMutex
  <1>5. CASE readCount = 0
    <2>1. RW!Counted = {}
      BY <1>5, RWCountedFinite DEF RW!CountExact
    <2>2. \A q \in Readers : ~RW!Reading(q)
      BY <2>1 DEF RW!Counted, RW!Reading, RWOwner, RW!HoldsMutex
    <2>3. (RWLocked /\ RW!WriterAlone /\ RW!OnlyFirstWaits)'
      BY <1>5, <2>2 DEF RWLocked, RW!WriterAlone, RW!OnlyFirstWaits, RW!Reading
    <2>4. QED BY <1>2, <1>3, <1>4, <2>3
  <1>6. CASE readCount # 0
    <2>1. PICK q \in Readers : q \in RW!Counted
      BY <1>6, RWCountedFinite DEF RW!CountExact, RW!Counted
    <2>2. RW!Reading(q)
      BY <2>1 DEF RW!Counted, RW!Reading, RWOwner, RW!HoldsMutex
    <2>3. \A p \in Readers : rPc[p] # "lockOut" /\ rPc[p] # "letIn"
      BY DEF RWOwner, RW!HoldsMutex
    <2>4. (RWLocked /\ RW!WriterAlone /\ RW!OnlyFirstWaits)'
      BY <1>6, <2>2, <2>3 DEF RWLocked, RW!WriterAlone, RW!OnlyFirstWaits, RW!Reading
    <2>5. QED BY <1>2, <1>3, <1>4, <2>4
  <1>7. QED BY <1>5, <1>6

(* --readCount and its test.                                               *)
LEMMA RWCountOutIInv == ASSUME NEW r \in Readers, RWIInv, RW!CountOut(r) PROVE RWIInv'
  <1> USE ThreadsAssumption DEF RWIInv, RW!TypeOK, RW!ReaderPC, RW!Goto, RW!CountOut
  <1>1. r \in RW!Counted /\ RW!Counted' = RW!Counted \ {r}
    BY DEF RW!Counted
  <1>2. RW!CountExact'
    BY <1>1, RWCountLeave, RWCountedFinite DEF RW!CountExact
  <1>3. RW!TypeOK'
    <2>1. readCount # 0
      BY <1>1, RWCountedFinite DEF RW!CountExact
    <2>2. RW!Cardinality(Readers) \in Nat
      BY RWCountedFinite
    <2>3. readCount \in 1 .. RW!Cardinality(Readers) /\ readCount' = readCount - 1
      BY <2>1, <2>2
    <2>4. QED BY <2>2, <2>3
  <1>4. RWOwner'
    BY DEF RWOwner, RW!HoldsMutex
  <1>5. readCount - 1 = 0 => RW!Counted' = {}
    <2>1. /\ RW!Counted \ {r} \in SUBSET Readers
          /\ RW!Cardinality(RW!Counted \ {r}) = RW!Cardinality(RW!Counted) - 1
      BY <1>1, RWCountedFinite, RWCountLeave
    <2>2. RW!Cardinality(RW!Counted \ {r}) = 0 => RW!Counted \ {r} = {}
      BY <2>1, RWFinite
    <2>3. QED BY <1>1, <2>1, <2>2 DEF RW!CountExact
  <1>6. \A p \in Readers : rPc[p] # "lockOut" /\ rPc[p] # "letIn"
    BY DEF RWOwner, RW!HoldsMutex
  <1>7. (RWLocked /\ RW!WriterAlone /\ RW!OnlyFirstWaits)'
    BY <1>5, <1>6 DEF RWLocked, RW!WriterAlone, RW!OnlyFirstWaits, RW!Reading
  <1>8. QED BY <1>2, <1>3, <1>4, <1>7

LEMMA RWInductive == RW!Spec => []RWIInv
  <1>1. RWIInv /\ [RW!Next]_(RW!vars) => RWIInv'
    <2>1. CASE UNCHANGED RW!vars
      BY <2>1 DEF RW!vars, RWIInv, RW!TypeOK, RW!CountExact, RW!Counted, RWOwner,
                  RWLocked, RW!WriterAlone,
                  RW!OnlyFirstWaits, RW!HoldsMutex, RW!Reading
    <2>2. QED BY <2>1, RWWriterIInv, RWQuietReaderIInv, RWCountInIInv,
    RWCountOutIInv DEF RW!Next, RW!reader
  <1>2. QED BY RWInitIInv, <1>1, PTL DEF RW!Spec

-----------------------------------------------------------------------------
(* Every variable keeps its type, whatever the numbers of threads.         *)
THEOREM RWTypeCorrect == RW!Spec => []RW!TypeOK
  BY RWInductive, PTL DEF RWIInv

(* A writer excludes all other writers and all readers.                    *)
THEOREM RWAlone == RW!Spec => []RW!WriterAlone
  BY RWInductive, PTL DEF RWIInv

(* readCount is exact, and only the first reader ever waits for writers.   *)
THEOREM RWCounting == RW!Spec => [](RW!CountExact /\ RW!OnlyFirstWaits)
  BY RWInductive, PTL DEF RWIInv

-----------------------------------------------------------------------------
(***************************************************************************)
(* The limit of the thread pool for every number of workers and every      *)
(* maxThreads from two up.  The workers that Start has still to create are *)
(* not counted: without that a Start could take one out of the count.      *)
(***************************************************************************)

PoolToCome == \A w \in Pool!Ids : w >= started => tPc[w] = "unborn"

PoolIInv == Pool!TypeOK /\ PoolToCome /\ Pool!Throttled

-----------------------------------------------------------------------------
(* The Cardinality that ThreadPool brings along is the usual one.          *)
LEMMA PoolCardinality == \A S : Pool!Cardinality(S) = Cardinality(S)
  BY DEF Pool!Cardinality, Cardinality

LEMMA PoolWithinWorkers ==
  ASSUME NEW S \in SUBSET Pool!Ids
  PROVE  IsFiniteSet(S) /\ Pool!Cardinality(S) \in 0 .. Workers
  <1>1. IsFiniteSet(Pool!Ids) /\ Cardinality(Pool!Ids) = Workers
    BY FS_Interval, WorkersAssumption DEF Pool!Ids
  <1>2. IsFiniteSet(S) /\ Cardinality(S) <= Workers
    BY <1>1, FS_Subset
  <1>3. Cardinality(S) \in Nat
    BY <1>2, FS_CardinalityType
  <1>4. Pool!Cardinality(S) = Cardinality(S)
    BY PoolCardinality
  <1>5. QED BY <1>2, <1>3, <1>4, WorkersAssumption

(* One worker more, or one less, is counted.                               *)
LEMMA PoolJoins ==
  ASSUME NEW S \in SUBSET Pool!Ids, NEW w \in Pool!Ids, w \notin S
  PROVE  Pool!Cardinality(S \cup {w}) = Pool!Cardinality(S) + 1
  BY PoolCardinality, PoolWithinWorkers, FS_AddElement

LEMMA PoolLeaves ==
  ASSUME NEW S \in SUBSET Pool!Ids, NEW w \in S
  PROVE  Pool!Cardinality(S \ {w}) = Pool!Cardinality(S) - 1
  BY PoolCardinality, PoolWithinWorkers, FS_RemoveElement

(* A step that moves no worker in or out of the count keeps it.            *)
LEMMA PoolUncounted ==
  ASSUME Pool!Throttled, Pool!Counted' = Pool!Counted, threadCount' = threadCount
  PROVE  Pool!Throttled'
  BY DEF Pool!Throttled

-----------------------------------------------------------------------------
LEMMA PoolInitIInv == Pool!Init => PoolIInv
  <1> SUFFICES ASSUME Pool!Init PROVE PoolIInv
    OBVIOUS
  <1> USE WorkersAssumption, maxThreadsAssumption, MaxSpuriousAssumption DEF Pool!Init
  <1>1. Pool!Counted = {}
    BY DEF Pool!Counted
  <1>2. Pool!Throttled
    <2>1. Pool!Cardinality({}) = 0
      BY PoolCardinality, FS_EmptySet
    <2>2. QED BY <1>1, <2>1 DEF Pool!Throttled
  <1>3. Pool!TypeOK /\ PoolToCome
    BY DEF Pool!TypeOK, PoolToCome, Pool!PC, Pool!Ids, Pool!NoOne
  <1>4. QED BY <1>2, <1>3 DEF PoolIInv

LEMMA PoolMainIInv == ASSUME PoolIInv, Pool!main PROVE PoolIInv'
  <1> USE WorkersAssumption DEF PoolIInv, Pool!TypeOK, PoolToCome, Pool!PC, Pool!Ids
  <1>1. CASE Pool!Start
    <2>1. started \in Pool!Ids /\ tPc[started] = "unborn"
      BY <1>1 DEF Pool!Start
    <2>2. Pool!Counted' = Pool!Counted
      BY <1>1, <2>1 DEF Pool!Start, Pool!Counted
    <2>3. Pool!Throttled'
      BY <1>1, <2>2, PoolUncounted DEF Pool!Start
    <2>4. QED BY <1>1, <2>1, <2>3 DEF Pool!Start
  <1>2. CASE Pool!Join
    <2>1. Pool!Throttled'
      BY <1>2, PoolUncounted DEF Pool!Join, Pool!Counted
    <2>2. QED BY <1>2, <2>1 DEF Pool!Join
  <1>3. QED BY <1>1, <1>2 DEF Pool!main

(* What a worker does without being counted or discounted.                 *)
LEMMA PoolWaitingIInv ==
  ASSUME NEW w \in Pool!Ids, PoolIInv,
         Pool!Lock(w) \/ Pool!Sleep(w) \/ Pool!Run(w) \/ Pool!Spurious(w)
  PROVE  PoolIInv'
  <1> USE MaxSpuriousAssumption DEF PoolIInv, Pool!TypeOK, PoolToCome, Pool!PC,
                                    Pool!Goto, Pool!Lock, Pool!Sleep, Pool!Run,
                                    Pool!Spurious
  <1>1. Pool!Counted' = Pool!Counted /\ threadCount' = threadCount
    BY DEF Pool!Counted
  <1>2. Pool!Throttled'
    BY <1>1, PoolUncounted
  <1>3. Pool!TypeOK'
    BY <1>1
  <1>4. PoolToCome'
    OBVIOUS
  <1>5. QED BY <1>2, <1>3, <1>4

LEMMA PoolClaimIInv == ASSUME NEW w \in Pool!Ids, PoolIInv, Pool!Claim(w) PROVE PoolIInv'
  <1> USE DEF PoolIInv, Pool!TypeOK, PoolToCome, Pool!PC, Pool!Goto, Pool!Claim
  <1>1. /\ Pool!Counted \in SUBSET Pool!Ids /\ Pool!Counted' \in SUBSET Pool!Ids
        /\ w \notin Pool!Counted /\ Pool!Counted' = Pool!Counted \cup {w}
    BY DEF Pool!Counted
  <1>2. Pool!Cardinality(Pool!Counted') = Pool!Cardinality(Pool!Counted) + 1
    BY <1>1, PoolJoins
  <1>3. Pool!Throttled'
    BY <1>2 DEF Pool!Throttled
  <1>4. threadCount' \in 0 .. Workers
    BY <1>1, <1>3, PoolWithinWorkers DEF Pool!Throttled
  <1>5. QED BY <1>3, <1>4

LEMMA PoolReleaseIInv ==
  ASSUME NEW w \in Pool!Ids, PoolIInv, Pool!Release(w)
  PROVE  PoolIInv'
  <1> USE DEF PoolIInv, Pool!TypeOK, PoolToCome, Pool!PC, Pool!Release
  <1>1. /\ Pool!Counted \in SUBSET Pool!Ids /\ Pool!Counted' \in SUBSET Pool!Ids
        /\ w \in Pool!Counted /\ Pool!Counted' = Pool!Counted \ {w}
    BY DEF Pool!Counted
  <1>2. Pool!Cardinality(Pool!Counted') = Pool!Cardinality(Pool!Counted) - 1
    BY <1>1, PoolLeaves
  <1>3. Pool!Throttled'
    <2>1. Pool!Cardinality(Pool!Counted) \in Nat
      BY <1>1, PoolWithinWorkers
    <2>2. QED BY <1>2, <2>1, maxThreadsAssumption DEF Pool!Throttled
  <1>4. threadCount' \in 0 .. Workers
    BY <1>1, <1>3, PoolWithinWorkers DEF Pool!Throttled
  <1>5. QED BY <1>3, <1>4

LEMMA PoolInductive == Pool!Spec => []PoolIInv
  <1>1. PoolIInv /\ [Pool!Next]_(Pool!vars) => PoolIInv'
    <2> SUFFICES ASSUME PoolIInv, [Pool!Next]_(Pool!vars) PROVE PoolIInv'
      OBVIOUS
    <2>1. ASSUME NEW w \in Pool!Ids, Pool!worker(w) \/ Pool!Spurious(w) PROVE PoolIInv'
      BY <2>1, PoolWaitingIInv, PoolClaimIInv, PoolReleaseIInv DEF Pool!worker
    <2>2. CASE UNCHANGED Pool!vars
      BY <2>2 DEF Pool!vars, PoolIInv, Pool!TypeOK, PoolToCome, Pool!Throttled, Pool!Counted
    <2>3. QED BY <2>1, <2>2, PoolMainIInv DEF Pool!Next, Pool!Complete
  <1>2. QED BY PoolInitIInv, <1>1, PTL DEF Pool!Spec

(* threadCount counts the workers that hold a place, and they never reach  *)
(* maxThreads, for any number of workers.                                  *)
THEOREM PoolLimited == Pool!Spec => []Pool!Throttled
  BY PoolInductive, PTL DEF PoolIInv

(* Every variable keeps its type for any number of workers.                *)
THEOREM PoolTypeCorrect == Pool!Spec => []Pool!TypeOK
  BY PoolInductive, PTL DEF PoolIInv
-----------------------------------------------------------------------------
(* In MCPthreadLabs a step of the program that is executed is its own, and *)
(* the other programs stutter: every behaviour is one of each program, so  *)
(* what was proved of each of them holds there.                            *)
LEMMA LabIsSem == LabSpec => Spec
  <1>1. LabInit => Init
    BY DEF LabInit
  <1>2. [LabNext]_labVars => [Next]_vars
    BY DEF LabNext, SemStep, MonStep, PhiloStep, RWStep, PoolStep, labVars, vars
  <1>3. QED BY <1>1, <1>2, PTL DEF LabSpec, Spec

LEMMA LabIsMon == LabSpec => Mon!Spec
  <1>1. LabInit => Mon!Init
    BY DEF LabInit
  <1>2. [LabNext]_labVars => [Mon!Next]_(Mon!vars)
    BY DEF LabNext, SemStep, MonStep, PhiloStep, RWStep, PoolStep, labVars, monVars,
           Mon!vars
  <1>3. QED BY <1>1, <1>2, PTL DEF LabSpec, Mon!Spec

LEMMA LabIsPhilo == LabSpec => Philo!Spec
  <1>1. LabInit => Philo!Init
    BY DEF LabInit
  <1>2. [LabNext]_labVars => [Philo!Next]_(Philo!vars)
    BY DEF LabNext, SemStep, MonStep, PhiloStep, RWStep, PoolStep, labVars, philoVars,
           Philo!vars
  <1>3. QED BY <1>1, <1>2, PTL DEF LabSpec, Philo!Spec

LEMMA LabIsRW == LabSpec => RW!Spec
  <1>1. LabInit => RW!Init
    BY DEF LabInit
  <1>2. [LabNext]_labVars => [RW!Next]_(RW!vars)
    BY DEF LabNext, SemStep, MonStep, PhiloStep, RWStep, PoolStep, labVars, rwVars, RW!vars
  <1>3. QED BY <1>1, <1>2, PTL DEF LabSpec, RW!Spec

LEMMA LabIsPool == LabSpec => Pool!Spec
  <1>1. LabInit => Pool!Init
    BY DEF LabInit
  <1>2. [LabNext]_labVars => [Pool!Next]_(Pool!vars)
    BY DEF LabNext, SemStep, MonStep, PhiloStep, RWStep, PoolStep, labVars, poolVars,
           Pool!vars
  <1>3. QED BY <1>1, <1>2, PTL DEF LabSpec, Pool!Spec

(* Each bound on the buffer holds and it is a LIFO, whatever is executed.  *)
THEOREM LabBuffer == LabSpec => []IndexInBounds /\ ImplementsLifo
  BY LabIsSem, InBounds, RefinesLifo, PTL

(* The monitor's buffer is used only with the predicate waited for true.   *)
THEOREM LabPredicateHolds == LabSpec => []PredicateHolds
  BY LabIsMon, MonInductive, PTL DEF PredicateHolds, MonIInv

(* A thread of the monitor sleeps only for a reason, or is about to be     *)
(* signalled.                                                              *)
THEOREM LabNoLostWakeup == LabSpec => []NoLostWakeup
  BY LabIsMon, MonWakeupsKept, PTL DEF NoLostWakeup

(* No fork is in the hands of two neighbours.                              *)
THEOREM LabForkExclusion == LabSpec => []ForkExclusion
  BY LabIsPhilo, PhiloInductive, PTL DEF ForkExclusion, PhiloIInv

(* A writer shares the resource with nobody.                               *)
THEOREM LabWriterAlone == LabSpec => []WriterAlone
  BY LabIsRW, RWInductive, PTL DEF WriterAlone, RWIInv

(* threadCount is exact and stays below maxThreads.                        *)
THEOREM LabThrottled == LabSpec => []Throttled
  BY LabIsPool, PoolInductive, PTL DEF Throttled, PoolIInv
=============================================================================
