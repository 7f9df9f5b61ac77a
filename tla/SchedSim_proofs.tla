---------------------------- MODULE SchedSim_proofs ----------------------------
(***************************************************************************)
(* The rules of the schedulers, for any lists of processes, any arguments, *)
(* any quantum and any width of size_t.                                    *)
(***************************************************************************)
EXTENDS Schedulers, SequenceTheorems, WellFoundedInduction, TLAPS

ProcType == [id : Nat \ {0}, arr : Nat, cpu : Nat, io : Nat, rate : Nat, rem : Nat, last : Nat,
             saved : 0 .. timeQuantum - 1, start : Nat, done : Nat]

Occupant == ProcType \cup {NoProc}

DeviceType == [procs : Seq(ProcType), ready : Seq(ProcType), aux : Seq(ProcType),
               io : Seq(ProcType), exec : Occupant, execIO : Occupant, countIO : Nat,
               completed : Seq(ProcType), total : Int, q : Int, ticks : Nat, idle : Nat]

-----------------------------------------------------------------------------
(* Induction, by the least number that has not a property.                 *)

\* A set of numbers that is not empty has a least one.
LEMMA LeastNumber ==
  ASSUME NEW Q \in SUBSET Nat, Q # {}
  PROVE  \E x \in Q : \A y \in Q : x <= y
<1>1. PICK lt : IsWellFoundedOn(lt, Nat) /\ \A x, y \in Nat : x < y => <<x, y>> \in lt
  <2>1. IsWellFoundedOn(OpToRel(<, Nat), Nat)
    BY NatLessThanWellFounded
  <2>2. \A x, y \in Nat : x < y => <<x, y>> \in OpToRel(<, Nat)
    BY DEF OpToRel
  <2> QED
    BY <2>1, <2>2, Zenon
<1>2. PICK x \in Q : \A y \in Q : ~ (<<y, x>> \in lt)
  <2>1. IsWellFoundedOn(lt, Nat)
    BY <1>1
  <2>2. Q \subseteq Nat /\ Q # {}
    OBVIOUS
  <2>3. \E x \in Q : \A y \in Q : ~ (<<y, x>> \in lt)
    BY <2>1, <2>2, WFMin, Zenon
  <2> QED
    BY <2>3
<1>3. \A y \in Q : ~ (y < x)
  BY <1>1, <1>2
<1> QED
  BY <1>3

\* A set of numbers with 0 and with the successor of each of them up to a
\* bound has all numbers up to that.
LEMMA Induction ==
  ASSUME NEW n \in Nat, NEW Known, 0 \in Known,
         \A i \in 0 .. n - 1 : i \in Known => i + 1 \in Known
  PROVE  \A i \in 0 .. n : i \in Known
<1> SUFFICES ASSUME NEW i \in 0 .. n, i \notin Known
             PROVE  FALSE
  OBVIOUS
<1> DEFINE Q == (0 .. n) \ Known
<1>1. PICK x \in Q : \A y \in Q : x <= y
  <2>1. Q \in SUBSET Nat /\ Q # {}
    OBVIOUS
  <2> HIDE DEF Q
  <2> QED
    BY <2>1, LeastNumber, Zenon
<1>2. x # 0 /\ x - 1 \in 0 .. n - 1 /\ x - 1 \in Known
  BY <1>1
<1> QED
  BY <1>1, <1>2

\* A queue without its k-th process.
LEMMA RemoveAtProperties ==
  ASSUME NEW S, NEW q \in Seq(S), NEW k \in DOMAIN q
  PROVE  /\ RemoveAt(q, k) \in Seq(S)
         /\ Len(RemoveAt(q, k)) = Len(q) - 1
         /\ \A j \in 1 .. Len(q) - 1 : RemoveAt(q, k)[j] = IF j < k THEN q[j] ELSE q[j + 1]
         /\ \A j \in DOMAIN RemoveAt(q, k) : \E i \in DOMAIN q : RemoveAt(q, k)[j] = q[i]
<1> DEFINE front == SubSeq(q, 1, k - 1)
           back == SubSeq(q, k + 1, Len(q))
<1>1. Len(q) \in Nat /\ k \in 1 .. Len(q) /\ \A i \in 1 .. Len(q) : q[i] \in S
  OBVIOUS
<1>2. front \in Seq(S) /\ Len(front) = k - 1 /\ \A j \in 1 .. k - 1 : front[j] = q[j]
  BY <1>1, SubSeqProperties
<1>3. /\ back \in Seq(S) /\ Len(back) = Len(q) - k
      /\ \A j \in 1 .. Len(q) - k : back[j] = q[k + j]
  <2>1. \A i \in k + 1 .. Len(q) : q[i] \in S
    BY <1>1
  <2>2. /\ back \in Seq(S)
        /\ Len(back) = IF k + 1 <= Len(q) THEN Len(q) - (k + 1) + 1 ELSE 0
        /\ \A j \in 1 .. Len(q) - (k + 1) + 1 : back[j] = q[k + 1 + j - 1]
    BY <1>1, <2>1, SubSeqProperties
  <2> HIDE DEF back
  <2> QED
    BY <1>1, <2>2
<1>4. RemoveAt(q, k) = front \o back
  BY DEF RemoveAt
<1> HIDE DEF front, back
<1>5. /\ front \o back \in Seq(S)
      /\ Len(front \o back) = Len(q) - 1 /\ Len(front) + Len(back) = Len(q) - 1
  <2>1. front \o back \in Seq(S) /\ Len(front \o back) = Len(front) + Len(back)
    BY <1>2, <1>3, ConcatProperties
  <2>2. \A n, m \in Nat : (m - 1) + (n - m) = n - 1
    OBVIOUS
  <2>3. Len(front) + Len(back) = Len(q) - 1
    BY <1>1, <1>2, <1>3, <2>2
  <2> QED
    BY <2>1, <2>3, Zenon
<1>6. ASSUME NEW j \in 1 .. Len(q) - 1
      PROVE  (front \o back)[j] = IF j < k THEN q[j] ELSE q[j + 1]
  <2>1. (front \o back)[j] = IF j <= Len(front) THEN front[j] ELSE back[j - Len(front)]
    <3>1. \A i \in 1 .. Len(front) + Len(back) :
              (front \o back)[i] = IF i <= Len(front) THEN front[i] ELSE back[i - Len(front)]
      BY <1>2, <1>3, ConcatProperties, Zenon
    <3>2. j \in 1 .. Len(front) + Len(back)
      BY <1>5, Zenon
    <3> QED
      BY <3>1, <3>2, Zenon
  <2>2. CASE j < k
    BY <1>1, <1>2, <2>1, <2>2
  <2>3. CASE j >= k
    <3>1. j - (k - 1) \in 1 .. Len(q) - k /\ k + (j - (k - 1)) = j + 1
      BY <1>1, <2>3
    <3>2. back[j - (k - 1)] = q[j + 1]
      BY <1>3, <3>1
    <3>3. ~(j <= Len(front))
      BY <1>1, <1>2, <2>3
    <3>4. (front \o back)[j] = q[j + 1]
      BY <1>2, <2>1, <3>2, <3>3, Zenon
    <3> QED
      BY <1>1, <2>3, <3>4
  <2>4. j < k \/ j >= k
    BY <1>1
  <2> QED
    BY <2>2, <2>3, <2>4, Zenon
<1>7. DOMAIN (front \o back) = 1 .. Len(q) - 1
  BY <1>5
<1>8. ASSUME NEW j \in 1 .. Len(q) - 1
      PROVE  \E i \in DOMAIN q : (front \o back)[j] = q[i]
  <2>1. j \in DOMAIN q /\ j + 1 \in DOMAIN q
    BY <1>1
  <2> QED
    BY <1>6, <2>1
<1> QED
  BY <1>4, <1>5, <1>6, <1>7, <1>8

-----------------------------------------------------------------------------
(* Where the processes are.                                                *)

IdsOf(q) == {q[k].id : k \in DOMAIN q}

Size(d) == Len(d.procs) + Len(d.ready) + Len(d.aux) + Len(d.io) + Len(d.completed)
           + Len(On(d.exec)) + Len(On(d.execIO))
Ids(d) == IdsOf(d.procs) \cup IdsOf(d.ready) \cup IdsOf(d.aux) \cup IdsOf(d.io)
          \cup IdsOf(d.completed) \cup IdsOf(On(d.exec)) \cup IdsOf(On(d.execIO))

LEMMA IdsOfQueue ==
  ASSUME NEW q \in Seq(ProcType)
  PROVE  /\ \A p \in ProcType : /\ IdsOf(Append(q, p)) = IdsOf(q) \cup {p.id}
                                /\ Len(Append(q, p)) = Len(q) + 1
         /\ q # <<>> => /\ IdsOf(q) = IdsOf(Tail(q)) \cup {Head(q).id}
                        /\ Len(q) = Len(Tail(q)) + 1
         /\ \A k \in DOMAIN q : /\ IdsOf(q) = IdsOf(RemoveAt(q, k)) \cup {q[k].id}
                                /\ Len(q) = Len(RemoveAt(q, k)) + 1
<1>1. ASSUME NEW p \in ProcType
      PROVE  IdsOf(Append(q, p)) = IdsOf(q) \cup {p.id} /\ Len(Append(q, p)) = Len(q) + 1
  <2>1. /\ Len(Append(q, p)) = Len(q) + 1 /\ DOMAIN Append(q, p) = 1 .. Len(q) + 1
        /\ DOMAIN q = 1 .. Len(q) /\ Len(q) \in Nat
        /\ \A i \in 1 .. Len(q) : Append(q, p)[i] = q[i]
        /\ Append(q, p)[Len(q) + 1] = p
    BY AppendProperties, LenProperties
  <2>2. 1 .. Len(q) + 1 = (1 .. Len(q)) \cup {Len(q) + 1}
    BY <2>1
  <2> QED
    BY <2>1, <2>2 DEF IdsOf
<1>2. ASSUME q # <<>>
      PROVE  IdsOf(q) = IdsOf(Tail(q)) \cup {Head(q).id} /\ Len(q) = Len(Tail(q)) + 1
  <2>1. /\ Len(Tail(q)) = Len(q) - 1 /\ DOMAIN Tail(q) = 1 .. Len(q) - 1
        /\ DOMAIN q = 1 .. Len(q) /\ Len(q) \in Nat \ {0} /\ Head(q) = q[1]
        /\ \A i \in 1 .. Len(q) - 1 : Tail(q)[i] = q[i + 1]
    BY <1>2, HeadTailProperties, LenProperties, EmptySeq
  <2>2. \A i \in 1 .. Len(q) : i = 1 \/ (i - 1 \in 1 .. Len(q) - 1 /\ (i - 1) + 1 = i)
    BY <2>1
  <2>3. \A i \in 1 .. Len(q) - 1 : i + 1 \in 1 .. Len(q)
    BY <2>1
  <2>4. 1 \in 1 .. Len(q)
    BY <2>1
  <2>5. \A i \in 1 .. Len(q) : q[i] = Head(q) \/ \E j \in 1 .. Len(q) - 1 : q[i] = Tail(q)[j]
    BY <2>1, <2>2
  <2> DEFINE r == Tail(q)
             h == Head(q)
  <2>6. \A j \in DOMAIN r : \E i \in DOMAIN q : q[i] = r[j]
    BY <2>1, <2>3
  <2>7. (\E i \in DOMAIN q : q[i] = h) /\ \A i \in DOMAIN q : q[i] = h \/ \E j \in DOMAIN r : q[i] = r[j]
    BY <2>1, <2>4, <2>5
  <2>8. Len(q) = Len(r) + 1
    BY <2>1
  <2> HIDE DEF r, h
  <2>9. IdsOf(q) = IdsOf(r) \cup {h.id}
    BY <2>6, <2>7 DEF IdsOf
  <2> QED
    BY <2>8, <2>9 DEF r, h
<1>3. ASSUME NEW k \in DOMAIN q
      PROVE  IdsOf(q) = IdsOf(RemoveAt(q, k)) \cup {q[k].id} /\ Len(q) = Len(RemoveAt(q, k)) + 1
  <2> DEFINE r == RemoveAt(q, k)
  <2>1. /\ r \in Seq(ProcType) /\ Len(r) = Len(q) - 1
        /\ \A j \in 1 .. Len(q) - 1 : r[j] = IF j < k THEN q[j] ELSE q[j + 1]
        /\ \A j \in DOMAIN r : \E i \in DOMAIN q : r[j] = q[i]
    BY RemoveAtProperties
  <2> HIDE DEF r
  <2>2. DOMAIN r = 1 .. Len(q) - 1 /\ DOMAIN q = 1 .. Len(q) /\ Len(q) \in Nat /\ k \in 1 .. Len(q)
    BY <2>1, LenProperties
  <2>3. ASSUME NEW i \in DOMAIN q, i # k
        PROVE  \E j \in DOMAIN r : r[j] = q[i]
    <3>1. CASE i < k
      <4>1. i \in 1 .. Len(q) - 1 /\ r[i] = q[i]
        BY <2>1, <2>2, <3>1
      <4> QED
        BY <2>2, <4>1
    <3>2. CASE i > k
      <4>1. i - 1 \in 1 .. Len(q) - 1 /\ ~(i - 1 < k) /\ (i - 1) + 1 = i
        BY <2>2, <3>2
      <4>2. r[i - 1] = q[i]
        BY <2>1, <4>1
      <4> QED
        BY <2>2, <4>1, <4>2
    <3> QED
      BY <2>2, <2>3, <3>1, <3>2
  <2>4. IdsOf(q) = IdsOf(r) \cup {q[k].id}
    BY <2>1, <2>3 DEF IdsOf
  <2> QED
    BY <2>1, <2>2, <2>4 DEF r
<1> QED
  BY <1>1, <1>2, <1>3

\* A device that takes a process, or gives it back.
LEMMA IdsOfDevice ==
  /\ On(NoProc) = <<>> /\ Len(<<>>) = 0 /\ IdsOf(<<>>) = {}
  /\ \A p \in ProcType : On(p) = <<p>> /\ Len(On(p)) = 1 /\ IdsOf(On(p)) = {p.id}
<1>1. On(NoProc) = <<>> /\ Len(<<>>) = 0 /\ IdsOf(<<>>) = {}
  BY DEF On, IdsOf
<1>2. ASSUME NEW p \in ProcType
      PROVE  On(p) = <<p>> /\ Len(On(p)) = 1 /\ IdsOf(On(p)) = {p.id}
  <2>1. p # NoProc
    BY DEF ProcType, NoProc
  <2> QED
    BY <2>1 DEF On, IdsOf
<1> QED
  BY <1>1, <1>2

\* The places that are counted have a number of processes each.
LEMMA SizeType ==
  ASSUME NEW d \in DeviceType
  PROVE  \E a, b, c, g, h, x, y \in Nat :
             /\ a = Len(d.procs) /\ b = Len(d.ready) /\ c = Len(d.aux) /\ g = Len(d.io)
             /\ h = Len(d.completed) /\ x = Len(On(d.exec)) /\ y = Len(On(d.execIO))
             /\ Size(d) = a + b + c + g + h + x + y
<1>1. Len(On(d.exec)) \in Nat /\ Len(On(d.execIO)) \in Nat
  BY IdsOfDevice DEF DeviceType, Occupant
<1>2. /\ Len(d.procs) \in Nat /\ Len(d.ready) \in Nat /\ Len(d.aux) \in Nat
      /\ Len(d.io) \in Nat /\ Len(d.completed) \in Nat
  BY DEF DeviceType
<1> QED
  BY <1>1, <1>2 DEF Size

-----------------------------------------------------------------------------
(* What the processes of a queue had of their bursts.                      *)

LEMMA SpentType ==
  ASSUME NEW p \in ProcType
  PROVE  Spent(p) \in Int
<1> QED
  BY DEF Spent, ProcType

\* The recursion of Sums defines a function.
LEMMA SumsFunction ==
  ASSUME NEW s \in Seq(ProcType)
  PROVE  Sums(s) = [k \in 0 .. Len(s) |-> IF k = 0 THEN 0 ELSE Sums(s)[k - 1] + Spent(s[k])]
<1> DEFINE n == Len(s)
           Fits(f, k) == f = [i \in 0 .. k |-> IF i = 0 THEN 0 ELSE f[i - 1] + Spent(s[i])]
           Known == {k \in 0 .. n : \E f : Fits(f, k)}
<1>1. n \in Nat
  OBVIOUS
<1>2. 0 \in Known
  <2>1. Fits([i \in 0 .. 0 |-> 0], 0)
    OBVIOUS
  <2> HIDE DEF Fits, n
  <2> QED
    BY <2>1, <1>1
<1>3. ASSUME NEW k \in 0 .. n - 1, k \in Known
      PROVE  k + 1 \in Known
  <2>1. PICK f : Fits(f, k)
    BY <1>3
  <2> DEFINE g == [i \in 0 .. k + 1 |-> IF i = k + 1 THEN f[k] + Spent(s[k + 1]) ELSE f[i]]
  <2>2. \A i \in 0 .. k + 1 : g[i] = IF i = 0 THEN 0 ELSE g[i - 1] + Spent(s[i])
    <3> TAKE i \in 0 .. k + 1
    <3>1. CASE i = k + 1
      BY <3>1, <1>1
    <3>2. CASE i # k + 1
      <4>1. i \in 0 .. k /\ (i # 0 => i - 1 \in 0 .. k)
        BY <3>2, <1>1
      <4>2. f[i] = IF i = 0 THEN 0 ELSE f[i - 1] + Spent(s[i])
        BY <2>1, <4>1
      <4> QED
        BY <3>2, <4>1, <4>2, <1>1
    <3> QED
      BY <3>1, <3>2
  <2>3. Fits(g, k + 1)
    BY <2>2
  <2> HIDE DEF Fits, g
  <2> QED
    BY <2>3, <1>1
<1>4. \E f : Fits(f, n)
  <2> HIDE DEF Fits, n
  <2>1. n \in 0 .. n
    BY <1>1
  <2> QED
    BY <1>1, <1>2, <1>3, <2>1, Induction
<1>5. Sums(s) = CHOOSE f : Fits(f, n)
  BY DEF Sums
<1>6. Fits(Sums(s), n)
  <2> HIDE DEF Fits, n
  <2> QED
    BY <1>4, <1>5, Zenon
<1> QED
  BY <1>6

\* From one position to the next.
LEMMA SumsStep ==
  ASSUME NEW s \in Seq(ProcType)
  PROVE  /\ Len(s) \in Nat /\ Sums(s)[0] = 0
         /\ \A k \in 1 .. Len(s) : Sums(s)[k] = Sums(s)[k - 1] + Spent(s[k])
         /\ \A k \in 0 .. Len(s) : Sums(s)[k] \in Int
<1> DEFINE n == Len(s)
           f == Sums(s)
           Known == {k \in 0 .. n : f[k] \in Int}
<1>1. n \in Nat /\ \A k \in 1 .. n : Spent(s[k]) \in Int
  BY SpentType
<1>2. f = [k \in 0 .. n |-> IF k = 0 THEN 0 ELSE f[k - 1] + Spent(s[k])]
  BY SumsFunction
<1> HIDE DEF n, f
<1>3. f[0] = 0
  <2>1. 0 \in 0 .. n
    BY <1>1
  <2> QED
    BY <1>2, <2>1
<1>4. \A k \in 1 .. n : f[k] = f[k - 1] + Spent(s[k])
  <2>1. \A k \in 1 .. n : k \in 0 .. n /\ k # 0
    BY <1>1
  <2> QED
    BY <1>2, <2>1
<1>5. \A k \in 0 .. n : k \in Known
  <2>1. 0 \in Known
    BY <1>1, <1>3
  <2>2. ASSUME NEW k \in 0 .. n - 1, k \in Known
        PROVE  k + 1 \in Known
    <3>1. k + 1 \in 1 .. n /\ k + 1 \in 0 .. n /\ (k + 1) - 1 = k
      BY <1>1
    <3>2. f[k + 1] = f[k] + Spent(s[k + 1])
      BY <1>4, <3>1
    <3> QED
      BY <1>1, <2>2, <3>1, <3>2
  <2> HIDE DEF Known
  <2> QED
    BY <1>1, <2>1, <2>2, Induction
<1> QED
  BY <1>1, <1>3, <1>4, <1>5 DEF n, f

\* The sum of two queues, one behind the other.
LEMMA SumConcat ==
  ASSUME NEW s \in Seq(ProcType), NEW t \in Seq(ProcType)
  PROVE  /\ s \o t \in Seq(ProcType) /\ Sum(s) \in Int /\ Sum(t) \in Int
         /\ Sum(s \o t) = Sum(s) + Sum(t)
<1> DEFINE c == s \o t
<1>1. PICK m, n \in Nat : m = Len(s) /\ n = Len(t)
  OBVIOUS
<1>2. /\ c \in Seq(ProcType) /\ Len(c) = m + n
      /\ \A i \in 1 .. m + n : c[i] = IF i <= m THEN s[i] ELSE t[i - m]
  BY <1>1, ConcatProperties
<1> HIDE DEF c
<1> DEFINE f == Sums(s)
           g == Sums(t)
           h == Sums(c)
<1>3. /\ f[0] = 0 /\ \A k \in 1 .. m : f[k] = f[k - 1] + Spent(s[k])
      /\ \A k \in 0 .. m : f[k] \in Int
  BY <1>1, SumsStep
<1>4. /\ g[0] = 0 /\ \A k \in 1 .. n : g[k] = g[k - 1] + Spent(t[k])
      /\ \A k \in 0 .. n : g[k] \in Int
  BY <1>1, SumsStep
<1>5. h[0] = 0 /\ \A k \in 1 .. m + n : h[k] = h[k - 1] + Spent(c[k])
  BY <1>2, SumsStep
<1> HIDE DEF f, g, h
<1>6. h[m] = f[m]
  <2> DEFINE Known == {k \in 0 .. m : h[k] = f[k]}
  <2>1. 0 \in Known
    BY <1>3, <1>5
  <2>2. ASSUME NEW k \in 0 .. m - 1, k \in Known
        PROVE  k + 1 \in Known
    <3>1. k + 1 \in 1 .. m /\ k + 1 \in 1 .. m + n /\ k + 1 <= m /\ (k + 1) - 1 = k
      OBVIOUS
    <3>2. c[k + 1] = s[k + 1]
      BY <1>2, <3>1
    <3>3. h[k + 1] = h[k] + Spent(c[k + 1]) /\ f[k + 1] = f[k] + Spent(s[k + 1])
      BY <1>3, <1>5, <3>1
    <3>4. h[k + 1] = f[k + 1]
      BY <2>2, <3>2, <3>3
    <3> QED
      BY <3>1, <3>4
  <2>3. m \in 0 .. m
    OBVIOUS
  <2> HIDE DEF Known
  <2>4. m \in Known
    BY <2>1, <2>2, <2>3, Induction
  <2> QED
    BY <2>4 DEF Known
<1>7. h[m + n] = f[m] + g[n]
  <2> DEFINE Known == {k \in 0 .. n : h[m + k] = f[m] + g[k]}
  <2>1. 0 \in Known
    <3>1. f[m] \in Int /\ m + 0 = m
      BY <1>3
    <3> QED
      BY <1>4, <1>6, <3>1
  <2>2. ASSUME NEW k \in 0 .. n - 1, k \in Known
        PROVE  k + 1 \in Known
    <3>1. /\ k + 1 \in 1 .. n /\ m + (k + 1) \in 1 .. m + n /\ (m + (k + 1)) - 1 = m + k
          /\ ~(m + (k + 1) <= m) /\ (m + (k + 1)) - m = k + 1 /\ (k + 1) - 1 = k
      OBVIOUS
    <3>2. c[m + (k + 1)] = t[k + 1]
      BY <1>2, <3>1
    <3>3. h[m + (k + 1)] = h[m + k] + Spent(t[k + 1])
      BY <1>5, <3>1, <3>2
    <3>4. g[k + 1] = g[k] + Spent(t[k + 1])
      BY <1>4, <3>1
    <3>5. h[m + k] = f[m] + g[k]
      BY <2>2
    <3>6. f[m] \in Int /\ g[k] \in Int /\ Spent(t[k + 1]) \in Int
      <4>1. t[k + 1] \in ProcType
        BY <1>1, <3>1
      <4> QED
        BY <1>3, <1>4, <4>1, SpentType
    <3>7. h[m + (k + 1)] = f[m] + g[k + 1]
      BY <3>3, <3>4, <3>5, <3>6
    <3> QED
      BY <3>1, <3>7
  <2>3. n \in 0 .. n
    OBVIOUS
  <2> HIDE DEF Known
  <2>4. n \in Known
    BY <2>1, <2>2, <2>3, Induction
  <2> QED
    BY <2>4 DEF Known
<1>8. Sum(c) = h[m + n] /\ Sum(s) = f[m] /\ Sum(t) = g[n]
  BY <1>1, <1>2 DEF Sum, f, g, h
<1>9. f[m] \in Int /\ g[n] \in Int
  BY <1>3, <1>4
<1> QED
  BY <1>2, <1>7, <1>8, <1>9 DEF c

LEMMA SumOne ==
  /\ Sum(<<>>) = 0
  /\ \A p \in ProcType : Sum(<<p>>) = Spent(p) /\ <<p>> \in Seq(ProcType)
<1>1. Sum(<<>>) = 0
  <2>1. <<>> \in Seq(ProcType) /\ Len(<<>>) = 0
    OBVIOUS
  <2> QED
    BY <2>1, SumsStep DEF Sum
<1>2. ASSUME NEW p \in ProcType
      PROVE  Sum(<<p>>) = Spent(p) /\ <<p>> \in Seq(ProcType)
  <2> DEFINE s == <<p>>
  <2>1. s \in Seq(ProcType) /\ Len(s) = 1 /\ s[1] = p
    OBVIOUS
  <2> HIDE DEF s
  <2>2. Sums(s)[1] = Sums(s)[1 - 1] + Spent(p) /\ Sums(s)[0] = 0
    <3>1. 1 \in 1 .. 1
      OBVIOUS
    <3> QED
      BY <2>1, <3>1, SumsStep
  <2>3. Spent(p) \in Int
    BY SpentType
  <2>4. Sum(s) = Spent(p)
    BY <2>1, <2>2, <2>3 DEF Sum
  <2> QED
    BY <2>1, <2>4 DEF s
<1> QED
  BY <1>1, <1>2

\* What a queue gains and loses with a process.
LEMMA SumOfQueue ==
  ASSUME NEW q \in Seq(ProcType)
  PROVE  /\ Sum(q) \in Int
         /\ \A p \in ProcType : Sum(Append(q, p)) = Sum(q) + Spent(p)
         /\ q # <<>> => /\ Head(q) \in ProcType /\ Sum(Tail(q)) \in Int
                        /\ Sum(q) = Sum(Tail(q)) + Spent(Head(q))
         /\ \A k \in DOMAIN q : /\ q[k] \in ProcType /\ Sum(RemoveAt(q, k)) \in Int
                                /\ Sum(q) = Sum(RemoveAt(q, k)) + Spent(q[k])
<1>1. Sum(q) \in Int
  BY SumConcat
<1>2. ASSUME NEW p \in ProcType
      PROVE  Sum(Append(q, p)) = Sum(q) + Spent(p)
  <2>1. Append(q, p) = q \o <<p>>
    OBVIOUS
  <2> QED
    BY <2>1, SumConcat, SumOne
<1>3. ASSUME q # <<>>
      PROVE  /\ Head(q) \in ProcType /\ Sum(Tail(q)) \in Int
             /\ Sum(q) = Sum(Tail(q)) + Spent(Head(q))
  <2> DEFINE h == Head(q)
             r == Tail(q)
  <2>1. h \in ProcType /\ r \in Seq(ProcType) /\ q = <<h>> \o r
    BY <1>3
  <2> HIDE DEF h, r
  <2>2. Sum(<<h>>) = Spent(h) /\ <<h>> \in Seq(ProcType) /\ Spent(h) \in Int
    BY <2>1, SumOne, SpentType
  <2>3. Sum(r) \in Int /\ Sum(q) = Sum(<<h>>) + Sum(r)
    BY <2>1, <2>2, SumConcat
  <2>4. Sum(q) = Sum(r) + Spent(h)
    BY <2>2, <2>3
  <2> QED
    BY <2>1, <2>3, <2>4 DEF h, r
<1>4. ASSUME NEW k \in DOMAIN q
      PROVE  /\ q[k] \in ProcType /\ Sum(RemoveAt(q, k)) \in Int
             /\ Sum(q) = Sum(RemoveAt(q, k)) + Spent(q[k])
  <2> DEFINE front == SubSeq(q, 1, k - 1)
             back == SubSeq(q, k + 1, Len(q))
             p == q[k]
  <2>1. PICK n \in Nat : n = Len(q)
    OBVIOUS
  <2>2. k \in 1 .. n /\ \A i \in 1 .. n : q[i] \in ProcType
    BY <2>1
  <2>3. front \in Seq(ProcType) /\ Len(front) = k - 1 /\ \A j \in 1 .. k - 1 : front[j] = q[j]
    BY <2>2, SubSeqProperties
  <2>4. /\ back \in Seq(ProcType) /\ Len(back) = n - k
        /\ \A j \in 1 .. n - k : back[j] = q[k + j]
    <3>1. \A i \in k + 1 .. n : q[i] \in ProcType
      BY <2>2
    <3>2. /\ back \in Seq(ProcType)
          /\ Len(back) = IF k + 1 <= n THEN n - (k + 1) + 1 ELSE 0
          /\ \A j \in 1 .. n - (k + 1) + 1 : back[j] = q[k + 1 + j - 1]
      BY <2>1, <2>2, <3>1, SubSeqProperties
    <3> HIDE DEF back
    <3> QED
      BY <2>2, <3>2
  <2>5. p \in ProcType /\ <<p>> \in Seq(ProcType) /\ Len(<<p>>) = 1 /\ <<p>>[1] = p
    BY <2>2
  <2>6. RemoveAt(q, k) = front \o back
    BY DEF RemoveAt
  <2> HIDE DEF front, back, p
  <2> DEFINE a == front \o <<p>>
             c == a \o back
  <2>7. /\ a \in Seq(ProcType) /\ Len(a) = k
        /\ \A i \in 1 .. k : a[i] = IF i <= k - 1 THEN front[i] ELSE <<p>>[i - (k - 1)]
    <3>1. Len(front) + Len(<<p>>) = k
      BY <2>2, <2>3, <2>5
    <3>2. /\ a \in Seq(ProcType) /\ Len(a) = Len(front) + Len(<<p>>)
          /\ \A i \in 1 .. Len(front) + Len(<<p>>) :
                 a[i] = IF i <= Len(front) THEN front[i] ELSE <<p>>[i - Len(front)]
      BY <2>3, <2>5, ConcatProperties, Zenon
    <3> QED
      BY <2>3, <3>1, <3>2, Zenon
  <2>8. \A i \in 1 .. k : a[i] = q[i]
    <3> TAKE i \in 1 .. k
    <3>1. CASE i = k
      <4>1. i \in 1 .. k /\ ~(i <= k - 1) /\ i - (k - 1) = 1
        BY <2>2, <3>1
      <4>2. a[i] = <<p>>[1]
        BY <2>7, <4>1
      <4> QED
        BY <2>5, <3>1, <4>2 DEF p
    <3>2. CASE i # k
      <4>1. i \in 1 .. k /\ i <= k - 1 /\ i \in 1 .. k - 1
        BY <2>2, <3>2
      <4> QED
        BY <2>3, <2>7, <4>1
    <3> QED
      BY <3>1, <3>2
  <2> HIDE DEF a
  <2>9. /\ c \in Seq(ProcType) /\ Len(c) = n
        /\ \A i \in 1 .. n : c[i] = IF i <= k THEN a[i] ELSE back[i - k]
    <3>1. Len(a) + Len(back) = n
      BY <2>2, <2>4, <2>7
    <3>2. a \in Seq(ProcType) /\ back \in Seq(ProcType)
      BY <2>4, <2>7
    <3>3. /\ c \in Seq(ProcType) /\ Len(c) = Len(a) + Len(back)
          /\ \A i \in 1 .. Len(a) + Len(back) :
                 c[i] = IF i <= Len(a) THEN a[i] ELSE back[i - Len(a)]
      BY <3>2, ConcatProperties, Zenon
    <3> QED
      BY <2>7, <3>1, <3>3, Zenon
  <2> HIDE DEF c
  <2>10. \A i \in 1 .. n : c[i] = q[i]
    <3> TAKE i \in 1 .. n
    <3>1. CASE i <= k
      <4>1. i \in 1 .. k
        BY <2>2, <3>1
      <4> QED
        BY <2>8, <2>9, <3>1, <4>1
    <3>2. CASE ~(i <= k)
      <4>1. i - k \in 1 .. n - k /\ k + (i - k) = i
        BY <2>2, <3>2
      <4> QED
        BY <2>4, <2>9, <3>2, <4>1
    <3> QED
      BY <3>1, <3>2
  <2>11. c = q
    <3>1. q \in Seq(ProcType) /\ Len(c) = Len(q) /\ \A i \in 1 .. Len(c) : c[i] = q[i]
      BY <2>1, <2>9, <2>10
    <3>2. c \in Seq(ProcType)
      BY <2>9
    <3> QED
      BY <3>1, <3>2, SeqEqual, Zenon
  <2>12. Sum(a) = Sum(front) + Spent(p)
    <3>1. Sum(front \o <<p>>) = Sum(front) + Sum(<<p>>)
      BY <2>3, <2>5, SumConcat, Zenon
    <3>2. Sum(<<p>>) = Spent(p)
      BY <2>5, SumOne, Zenon
    <3> QED
      BY <3>1, <3>2, Zenon DEF a
  <2>13. Sum(c) = Sum(a) + Sum(back)
    BY <2>4, <2>7, SumConcat, Zenon DEF c
  <2>14. /\ Sum(RemoveAt(q, k)) = Sum(front) + Sum(back)
         /\ Sum(front) \in Int /\ Sum(back) \in Int /\ Spent(p) \in Int
    BY <2>3, <2>4, <2>5, <2>6, SumConcat, SpentType
  <2>15. Sum(q) = Sum(RemoveAt(q, k)) + Spent(p) /\ Sum(RemoveAt(q, k)) \in Int
    BY <2>11, <2>12, <2>13, <2>14
  <2> QED
    BY <2>5, <2>15 DEF p
<1> QED
  BY <1>1, <1>2, <1>3, <1>4

-----------------------------------------------------------------------------
(* The books.  At a time t a process of a Computable list is new; or waits *)
(* in a queue or for a device, and either has not run or had no more of    *)
(* its burst than the ticks since it began; or has come to its end.  The   *)
(* one that the CPU runs has a tick more, which it is about to be given.   *)

NewProc == {p \in ProcType : /\ p.cpu \in 1 .. Word - 1 /\ p.rem = p.cpu /\ p.last = 0
                             /\ p.saved = 0 /\ p.done = 0 /\ p.start = Word - 1}

Waiting(t) == {p \in ProcType :
    /\ p.cpu \in 1 .. Word - 1 /\ p.rem \in 1 .. p.cpu /\ p.last <= p.rate
    /\ p.saved <= t + 1 /\ p.done = 0 /\ p.arr <= t
    /\ \/ p.start = Word - 1 /\ p.rem = p.cpu
       \/ p.start < Word - 1 /\ p.arr <= p.start /\ p.start + Spent(p) <= t}
Begun(t) == {p \in Waiting(t) : p.start < Word - 1}
Running(t) == {p \in Begun(t) : p.start + Spent(p) + 1 <= t}
Ended(t) == {p \in ProcType :
    /\ p.cpu \in 1 .. Word - 1 /\ p.rem = 0 /\ p.last <= p.rate
    /\ p.arr <= p.start /\ p.start + p.cpu <= p.done /\ p.done <= t}

\* Who is where; and what those who have arrived had of their bursts.
Queued(d) ==
    /\ d.procs \in Seq(NewProc) /\ d.ready \in Seq(Waiting(d.ticks))
    /\ d.aux \in Seq(Waiting(d.ticks)) /\ d.io \in Seq(Waiting(d.ticks))
    /\ d.completed \in Seq(Ended(d.ticks)) /\ d.execIO \in Waiting(d.ticks) \cup {NoProc}
Work(d) == Sum(d.ready) + Sum(d.aux) + Sum(d.io) + Sum(d.completed)
           + Sum(On(d.exec)) + Sum(On(d.execIO))

\* Between two ticks.
Settled(d) ==
    /\ Queued(d) /\ d.exec \in Running(d.ticks) \cup {NoProc}
    /\ d.q \in 0 .. d.ticks /\ d.idle \in 0 .. d.ticks /\ d.ticks <= Word - 1
    /\ d.ticks - d.idle = Work(d) + Len(On(d.exec))
    /\ d.exec = NoProc /\ d.ticks > 0 => d.idle > 0

\* In a tick, once the CPU has had its turn.
Booked(d) ==
    /\ Queued(d) /\ d.exec \in Begun(d.ticks) \cup {NoProc}
    /\ d.q \in -1 .. d.ticks /\ d.idle \in 0 .. d.ticks /\ d.ticks < Word - 1
    /\ d.ticks - d.idle = Work(d)

\* A tick makes those who wait no younger, and the one who has begun a tick
\* late.
LEMMA LaterToo ==
  ASSUME NEW t \in Nat
  PROVE  /\ Waiting(t) \subseteq Waiting(t + 1) /\ Ended(t) \subseteq Ended(t + 1)
         /\ Begun(t) \subseteq Running(t + 1)
<1>1. ASSUME NEW p \in Waiting(t)
      PROVE  p \in Waiting(t + 1)
  <2>1. /\ p \in ProcType /\ p.saved \in Int /\ p.arr \in Int /\ p.start \in Int /\ Spent(p) \in Int
    BY SpentType DEF Waiting, ProcType
  <2>2. p.saved <= t + 1 + 1 /\ p.arr <= t + 1 /\ (p.start + Spent(p) <= t => p.start + Spent(p) <= t + 1)
    BY <2>1 DEF Waiting
  <2> QED
    BY <2>1, <2>2 DEF Waiting
<1>2. ASSUME NEW p \in Ended(t)
      PROVE  p \in Ended(t + 1)
  <2>1. p.done \in Int /\ p.done <= t
    BY DEF Ended, ProcType
  <2>2. p.done <= t + 1
    BY <2>1
  <2> QED
    BY <2>2 DEF Ended
<1>3. ASSUME NEW p \in Begun(t)
      PROVE  p \in Running(t + 1)
  <2>1. p \in Waiting(t) /\ p.start < Word - 1 /\ p \in ProcType
    BY DEF Begun, Waiting
  <2>2. p.start \in Int /\ Spent(p) \in Int /\ p.start + Spent(p) <= t
    BY <2>1, WordAssumption, SpentType DEF Waiting, ProcType
  <2>3. p.start + Spent(p) + 1 <= t + 1
    BY <2>2
  <2> QED
    BY <1>1, <2>1, <2>3 DEF Begun, Running
<1> QED
  BY <1>1, <1>2, <1>3

\* The sums have a number each.
LEMMA WorkType ==
  ASSUME NEW d \in DeviceType
  PROVE  \E b, c, g, h, x, y \in Int :
             /\ b = Sum(d.ready) /\ c = Sum(d.aux) /\ g = Sum(d.io) /\ h = Sum(d.completed)
             /\ x = Sum(On(d.exec)) /\ y = Sum(On(d.execIO))
             /\ Work(d) = b + c + g + h + x + y
<1>1. /\ Sum(d.ready) \in Int /\ Sum(d.aux) \in Int /\ Sum(d.io) \in Int
      /\ Sum(d.completed) \in Int
  BY SumOfQueue DEF DeviceType
<1>2. \A p \in Occupant : Sum(On(p)) \in Int
  BY IdsOfDevice, SumOne, SpentType DEF Occupant
<1>3. Sum(On(d.exec)) \in Int /\ Sum(On(d.execIO)) \in Int
  BY <1>2 DEF DeviceType
<1> QED
  BY <1>1, <1>3 DEF Work

\* Those to come had nothing yet.
LEMMA SumNew ==
  ASSUME NEW s \in Seq(NewProc)
  PROVE  Sum(s) = 0
<1>1. NewProc \subseteq ProcType
  BY DEF NewProc
<1>2. s \in Seq(ProcType)
  BY <1>1, SeqMonotonic
<1>3. PICK n \in Nat : n = Len(s)
  OBVIOUS
<1> DEFINE f == Sums(s)
           Known == {k \in 0 .. n : f[k] = 0}
<1>4. f[0] = 0 /\ \A k \in 1 .. n : f[k] = f[k - 1] + Spent(s[k])
  BY <1>2, <1>3, SumsStep
<1>5. \A k \in 1 .. n : Spent(s[k]) = 0
  <2>1. \A p \in NewProc : Spent(p) = 0
    BY DEF NewProc, Spent, ProcType
  <2> QED
    BY <1>3, <2>1
<1> HIDE DEF f
<1>6. 0 \in Known
  BY <1>4
<1>7. ASSUME NEW k \in 0 .. n - 1, k \in Known
      PROVE  k + 1 \in Known
  <2>1. k + 1 \in 1 .. n /\ k + 1 \in 0 .. n /\ (k + 1) - 1 = k
    OBVIOUS
  <2>2. f[k + 1] = 0
    BY <1>4, <1>5, <1>7, <2>1
  <2> QED
    BY <2>1, <2>2
<1>8. n \in Known
  <2>1. n \in 0 .. n
    OBVIOUS
  <2> HIDE DEF Known
  <2> QED
    BY <1>6, <1>7, <2>1, Induction
<1> QED
  BY <1>3, <1>8 DEF f, Sum

\* From d to e processes have only moved, and none has arrived.
Stays(d, e) ==
    /\ Size(e) = Size(d) /\ Ids(e) = Ids(d)
    /\ e.total + Len(e.completed) = d.total + Len(d.completed)
    /\ e.procs = d.procs /\ e.ticks = d.ticks

\* And the books are kept.
Same(d, e) == Stays(d, e) /\ (Booked(d) => Booked(e))

\* The CPU has had its turn in between.
Serves(d, e) == Stays(d, e) /\ (Settled(d) /\ d.ticks < Word - 1 => Booked(e))

-----------------------------------------------------------------------------
(* What FreshArrivals computes.                                            *)

\* The recursion of Visited defines a function.
LEMMA VisitedFunction ==
  ASSUME NEW d \in DeviceType
  PROVE  Visited(d) = [i \in 0 .. Len(d.procs) |->
             IF i = 0 THEN [mem |-> d.procs, len |-> Len(d.procs), index |-> 1, ready |-> d.ready]
             ELSE At(d, Visited(d)[i - 1], i)]
<1> DEFINE n == Len(d.procs)
           First == [mem |-> d.procs, len |-> Len(d.procs), index |-> 1, ready |-> d.ready]
           Fits(f, k) == f = [i \in 0 .. k |-> IF i = 0 THEN First ELSE At(d, f[i - 1], i)]
           Known == {k \in 0 .. n : \E f : Fits(f, k)}
<1>1. n \in Nat
  BY DEF DeviceType
<1>2. 0 \in Known
  <2>1. Fits([i \in 0 .. 0 |-> First], 0)
    OBVIOUS
  <2> HIDE DEF Fits, n
  <2> QED
    BY <2>1, <1>1
<1>3. ASSUME NEW k \in 0 .. n - 1, k \in Known
      PROVE  k + 1 \in Known
  <2>1. PICK f : Fits(f, k)
    BY <1>3
  <2> DEFINE g == [i \in 0 .. k + 1 |-> IF i = k + 1 THEN At(d, f[k], k + 1) ELSE f[i]]
  <2>2. \A i \in 0 .. k + 1 : g[i] = IF i = 0 THEN First ELSE At(d, g[i - 1], i)
    <3> TAKE i \in 0 .. k + 1
    <3>1. CASE i = k + 1
      BY <3>1, <1>1
    <3>2. CASE i # k + 1
      <4>1. i \in 0 .. k /\ (i # 0 => i - 1 \in 0 .. k)
        BY <3>2, <1>1
      <4>2. f[i] = IF i = 0 THEN First ELSE At(d, f[i - 1], i)
        BY <2>1, <4>1
      <4> QED
        BY <3>2, <4>1, <4>2, <1>1
    <3> QED
      BY <3>1, <3>2
  <2>3. Fits(g, k + 1)
    BY <2>2
  <2> HIDE DEF Fits, g
  <2> QED
    BY <2>3, <1>1
<1>4. \E f : Fits(f, n)
  <2> HIDE DEF Fits, n
  <2>1. n \in 0 .. n
    BY <1>1
  <2> QED
    BY <1>1, <1>2, <1>3, <2>1, Induction
<1>5. Visited(d) = CHOOSE f : Fits(f, n)
  BY DEF Visited
<1>6. Fits(Visited(d), n)
  <2> HIDE DEF Fits, n
  <2> QED
    BY <1>4, <1>5, Zenon
<1> QED
  BY <1>6

\* After each visit there is a vector of processes, of which len are left.
LEMMA VisitedType ==
  ASSUME NEW d \in DeviceType, NEW i \in 0 .. Len(d.procs)
  PROVE  LET n == Len(d.procs) IN
         /\ Visited(d)[i] \in [mem : [1 .. n -> ProcType], len : 0 .. n, index : 1 .. n + 1,
                               ready : Seq(ProcType)]
         /\ Visited(d)[i].len + i + 1 = n + Visited(d)[i].index
<1> DEFINE n == Len(d.procs)
           V == Visited(d)
           Good(k) == /\ V[k] \in [mem : [1 .. n -> ProcType], len : 0 .. n, index : 1 .. n + 1,
                                   ready : Seq(ProcType)]
                      /\ V[k].len + k + 1 = n + V[k].index
           Known == {k \in 0 .. n : Good(k)}
<1>1. n \in Nat /\ d.procs \in [1 .. n -> ProcType] /\ d.ready \in Seq(ProcType)
  BY DEF DeviceType
<1>2. 0 \in Known
  <2>1. V[0] = [mem |-> d.procs, len |-> n, index |-> 1, ready |-> d.ready]
    BY <1>1, VisitedFunction
  <2> HIDE DEF n, V
  <2>2. Good(0)
    BY <1>1, <2>1
  <2> QED
    BY <2>2, <1>1
<1>3. ASSUME NEW k \in 0 .. n - 1, k \in Known
      PROVE  k + 1 \in Known
  <2>1. V[k + 1] = At(d, V[k], k + 1)
    BY <1>1, VisitedFunction
  <2> DEFINE v == V[k]
             p == v.mem[k + 1]
             kept == [j \in DOMAIN v.mem |->
                         IF j \in v.index .. v.len - 1 THEN v.mem[j + 1] ELSE v.mem[j]]
  <2>2. /\ v \in [mem : [1 .. n -> ProcType], len : 0 .. n, index : 1 .. n + 1,
                  ready : Seq(ProcType)]
        /\ v.len + k + 1 = n + v.index
    BY <1>3
  <2> HIDE DEF n, V, v
  <2>3. p \in ProcType /\ k + 1 \in 0 .. n
    BY <1>1, <2>2
  <2>4. CASE p.arr # d.ticks
    <3>1. V[k + 1] = [v EXCEPT !.index = @ + 1]
      BY <2>1, <2>4 DEF At, v
    <3>2. v.index + 1 \in 1 .. n + 1
      BY <2>2, <2>3, <1>1
    <3>3. [v EXCEPT !.index = @ + 1] \in [mem : [1 .. n -> ProcType], len : 0 .. n,
              index : 1 .. n + 1, ready : Seq(ProcType)]
      BY <3>2, <2>2
    <3>4. V[k + 1].len = v.len /\ V[k + 1].index = v.index + 1
      BY <3>1, <2>2
    <3>5. V[k + 1] \in [mem : [1 .. n -> ProcType], len : 0 .. n, index : 1 .. n + 1,
                         ready : Seq(ProcType)]
      BY <3>1, <3>3, Zenon
    <3>6. v.len \in Int /\ v.index \in Int /\ v.len + k + 1 = n + v.index /\ k \in Int /\ n \in Int
      BY <2>2, <1>1
    <3>7. V[k + 1].len + (k + 1) + 1 = n + V[k + 1].index
      <4>1. PICK l, x, j, m \in Int : l = v.len /\ x = v.index /\ j = k /\ m = n
        BY <3>6, Zenon
      <4>2. l + j + 1 = m + x
        BY <3>6, <4>1, Zenon
      <4>3. l + (j + 1) + 1 = m + (x + 1)
        BY <4>2
      <4> QED
        BY <3>4, <4>1, <4>3, Zenon
    <3>8. Good(k + 1)
      BY <3>5, <3>7, Zenon
    <3> QED
      BY <3>8, <2>3
  <2>5. CASE p.arr = d.ticks
    <3>1. V[k + 1] = [mem |-> kept, len |-> v.len - 1, index |-> v.index,
                      ready |-> Append(v.ready, p)]
      BY <2>1, <2>5 DEF At, v
    <3>2. kept \in [1 .. n -> ProcType]
      BY <2>2, <1>1
    <3>3. v.len - 1 \in 0 .. n /\ Append(v.ready, p) \in Seq(ProcType)
      <4>1. v.len - 1 \in 0 .. n
        BY <2>2, <2>3, <1>1
      <4>2. v.ready \in Seq(ProcType)
        BY <2>2
      <4> DEFINE queue == v.ready
      <4>3. queue \in Seq(ProcType) /\ p \in ProcType
        BY <2>3, <4>2, Zenon
      <4> HIDE DEF queue, p
      <4>4. Append(queue, p) \in Seq(ProcType)
        BY <4>3
      <4> QED
        BY <4>1, <4>4 DEF queue
    <3> HIDE DEF kept, p
    <3>4. V[k + 1] \in [mem : [1 .. n -> ProcType], len : 0 .. n, index : 1 .. n + 1,
                         ready : Seq(ProcType)]
      BY <3>1, <3>2, <3>3, <2>2
    <3>5. V[k + 1].len = v.len - 1 /\ V[k + 1].index = v.index
      BY <3>1
    <3>6. v.len \in Int /\ v.index \in Int /\ v.len + k + 1 = n + v.index /\ k \in Int /\ n \in Int
      BY <2>2, <1>1
    <3>7. V[k + 1].len + (k + 1) + 1 = n + V[k + 1].index
      <4> DEFINE len == v.len
                 index == v.index
      <4>1. len \in Int /\ index \in Int /\ len + k + 1 = n + index /\ k \in Int /\ n \in Int
        BY <3>6, Zenon
      <4> HIDE DEF len, index
      <4>2. (len - 1) + (k + 1) + 1 = n + index
        BY <4>1
      <4>3. V[k + 1].len = len - 1 /\ V[k + 1].index = index
        BY <3>5, Zenon DEF len, index
      <4> QED
        BY <4>2, <4>3, Zenon
    <3>8. Good(k + 1)
      BY <3>4, <3>7, Zenon
    <3> QED
      BY <3>8, <2>3
  <2> QED
    BY <2>4, <2>5
<1>4. i \in Known
  <2>1. i \in 0 .. n
    OBVIOUS
  <2> HIDE DEF Known, n
  <2> QED
    BY <1>1, <1>2, <1>3, <2>1, Induction
<1> QED
  BY <1>4

\* FreshArrivals moves processes to the ready queue.
LEMMA FreshArrivalsType ==
  ASSUME NEW d \in DeviceType
  PROVE  /\ FreshArrivals(d) \in DeviceType
         /\ \E procs, ready \in Seq(ProcType) :
               FreshArrivals(d) = [d EXCEPT !.procs = procs, !.ready = ready]
<1> DEFINE n == Len(d.procs)
           end == Visited(d)[n]
           procs == SubSeq(end.mem, 1, end.len)
<1>1. n \in Nat /\ n \in 0 .. n
  BY DEF DeviceType
<1>2. end \in [mem : [1 .. n -> ProcType], len : 0 .. n, index : 1 .. n + 1,
               ready : Seq(ProcType)]
  BY <1>1, VisitedType
<1>3. procs \in Seq(ProcType) /\ end.ready \in Seq(ProcType)
  <2> HIDE DEF n, end
  <2>1. end.len \in Int /\ \A j \in 1 .. end.len : end.mem[j] \in ProcType
    BY <1>1, <1>2
  <2> QED
    BY <1>2, <2>1, SubSeqProperties
<1>4. FreshArrivals(d) = [d EXCEPT !.procs = procs, !.ready = end.ready]
  BY DEF FreshArrivals
<1> HIDE DEF procs, end
<1>5. [d EXCEPT !.procs = procs, !.ready = end.ready] \in DeviceType
  BY <1>3 DEF DeviceType
<1> QED
  BY <1>3, <1>4, <1>5

\* It leaves the rest of the Device alone.
LEMMA FreshArrivalsKeeps ==
  ASSUME NEW d \in DeviceType
  PROVE  LET f == FreshArrivals(d) IN
         /\ f \in DeviceType /\ f.aux = d.aux /\ f.io = d.io /\ f.exec = d.exec
         /\ f.execIO = d.execIO /\ f.completed = d.completed /\ f.total = d.total
         /\ f.q = d.q /\ f.ticks = d.ticks /\ f.idle = d.idle
<1> DEFINE f == FreshArrivals(d)
<1>1. f \in DeviceType
  BY FreshArrivalsType
<1>2. PICK procs, ready \in Seq(ProcType) : f = [d EXCEPT !.procs = procs, !.ready = ready]
  BY FreshArrivalsType
<1> HIDE DEF f
<1>3. /\ f.aux = d.aux /\ f.io = d.io /\ f.exec = d.exec
      /\ f.execIO = d.execIO /\ f.completed = d.completed /\ f.total = d.total
      /\ f.q = d.q /\ f.ticks = d.ticks /\ f.idle = d.idle
  BY <1>2 DEF DeviceType
<1> QED
  BY <1>1, <1>3 DEF f

\* The visits only move processes, which are new and wait from now on.
LEMMA VisitedBooks ==
  ASSUME NEW d \in DeviceType, Queued(d), NEW i \in 0 .. Len(d.procs)
  PROVE  LET n == Len(d.procs) IN
         /\ Visited(d)[i].mem \in [1 .. n -> NewProc]
         /\ Visited(d)[i].ready \in Seq(Waiting(d.ticks))
         /\ Sum(Visited(d)[i].ready) = Sum(d.ready)
         /\ Visited(d)[i].len + Len(Visited(d)[i].ready) = n + Len(d.ready)
<1> DEFINE n == Len(d.procs)
           V == Visited(d)
           W == Waiting(d.ticks)
           Good(k) == /\ V[k].mem \in [1 .. n -> NewProc] /\ V[k].ready \in Seq(W)
                      /\ Sum(V[k].ready) = Sum(d.ready)
                      /\ V[k].len + Len(V[k].ready) = n + Len(d.ready)
           Known == {k \in 0 .. n : Good(k)}
<1>1. n \in Nat /\ d.procs \in [1 .. n -> NewProc] /\ d.ready \in Seq(W)
  BY DEF DeviceType, Queued
<1>2. \A k \in 0 .. n : V[k] \in [mem : [1 .. n -> ProcType], len : 0 .. n, index : 1 .. n + 1,
                                  ready : Seq(ProcType)]
  BY VisitedType
<1>3. \A p \in NewProc : /\ p \in ProcType /\ Spent(p) = 0
                         /\ p.arr = d.ticks => p \in W
  <2> SUFFICES ASSUME NEW p \in NewProc
               PROVE  p \in ProcType /\ Spent(p) = 0 /\ (p.arr = d.ticks => p \in W)
    OBVIOUS
  <2>1. /\ p \in ProcType /\ p.cpu \in 1 .. Word - 1 /\ p.rem = p.cpu /\ p.last = 0
        /\ p.saved = 0 /\ p.done = 0 /\ p.start = Word - 1
    BY DEF NewProc
  <2>2. p.rate \in Nat /\ d.ticks \in Nat /\ p.cpu \in Nat
    BY <2>1 DEF ProcType, DeviceType
  <2>3. Spent(p) = 0
    BY <2>1, <2>2 DEF Spent
  <2>4. p.rem \in 1 .. p.cpu /\ p.last <= p.rate /\ p.saved <= d.ticks + 1
    BY <2>1, <2>2
  <2>5. ASSUME p.arr = d.ticks
        PROVE  p \in W
    <3>1. p.arr <= d.ticks
      BY <2>2, <2>5
    <3> QED
      BY <2>1, <2>4, <3>1 DEF Waiting
  <2> QED
    BY <2>1, <2>3, <2>5
<1> HIDE DEF W
<1>4. 0 \in Known
  <2>1. V[0] = [mem |-> d.procs, len |-> n, index |-> 1, ready |-> d.ready]
    BY <1>1, VisitedFunction
  <2> HIDE DEF n, V
  <2>2. Good(0)
    BY <1>1, <2>1
  <2> QED
    BY <2>2, <1>1
<1>5. ASSUME NEW k \in 0 .. n - 1, k \in Known
      PROVE  k + 1 \in Known
  <2>1. V[k + 1] = At(d, V[k], k + 1) /\ k \in 0 .. n /\ k + 1 \in 0 .. n /\ k + 1 \in 1 .. n
    BY <1>1, VisitedFunction
  <2> DEFINE v == V[k]
             p == v.mem[k + 1]
             kept == [j \in DOMAIN v.mem |->
                         IF j \in v.index .. v.len - 1 THEN v.mem[j + 1] ELSE v.mem[j]]
  <2>2. /\ v \in [mem : [1 .. n -> ProcType], len : 0 .. n, index : 1 .. n + 1,
                  ready : Seq(ProcType)]
        /\ Good(k)
    BY <1>2, <1>5, <2>1
  <2>3. v.mem \in [1 .. n -> NewProc] /\ v.ready \in Seq(W) /\ Sum(v.ready) = Sum(d.ready)
    BY <2>2
  <2>4. v.len + Len(v.ready) = n + Len(d.ready)
    BY <2>2
  <2> HIDE DEF n, V, v
  <2>5. p \in NewProc
    BY <2>1, <2>3
  <2>6. CASE p.arr # d.ticks
    <3>1. V[k + 1] = [v EXCEPT !.index = @ + 1]
      BY <2>1, <2>6 DEF At, v
    <3>2. V[k + 1].mem = v.mem /\ V[k + 1].ready = v.ready /\ V[k + 1].len = v.len
      BY <2>2, <3>1
    <3> QED
      BY <2>1, <2>3, <2>4, <3>2
  <2>7. CASE p.arr = d.ticks
    <3>1. V[k + 1] = [mem |-> kept, len |-> v.len - 1, index |-> v.index,
                      ready |-> Append(v.ready, p)]
      BY <2>1, <2>7 DEF At, v
    <3>2. kept \in [1 .. n -> NewProc]
      <4>1. v.len \in 0 .. n /\ v.index \in 1 .. n + 1 /\ DOMAIN v.mem = 1 .. n
        BY <2>2, <2>3
      <4>2. \A j \in 1 .. n : j \in v.index .. v.len - 1 => j + 1 \in 1 .. n
        BY <1>1, <4>1
      <4> QED
        BY <2>3, <4>1, <4>2
    <3>3. p \in W /\ p \in ProcType /\ Spent(p) = 0
      BY <1>3, <2>5, <2>7
    <3> HIDE DEF kept, p
    <3>4. V[k + 1].mem = kept /\ V[k + 1].len = v.len - 1 /\ V[k + 1].ready = Append(v.ready, p)
      BY <3>1
    <3>5. v.ready \in Seq(ProcType) /\ Append(v.ready, p) \in Seq(W)
      <4>1. v.ready \in Seq(ProcType)
        BY <2>2
      <4> DEFINE queue == v.ready
      <4>2. queue \in Seq(W) /\ p \in W
        BY <2>3, <3>3
      <4> HIDE DEF W, queue
      <4>3. Append(queue, p) \in Seq(W)
        BY <4>2
      <4> QED
        BY <4>1, <4>3 DEF queue
    <3>6. Sum(Append(v.ready, p)) = Sum(v.ready)
      <4>1. Sum(Append(v.ready, p)) = Sum(v.ready) + Spent(p) /\ Sum(v.ready) \in Int
        BY <3>3, <3>5, SumOfQueue
      <4> QED
        BY <3>3, <4>1
    <3>7. (v.len - 1) + Len(Append(v.ready, p)) = v.len + Len(v.ready)
      <4>1. PICK m \in Nat : m = Len(v.ready) /\ Len(Append(v.ready, p)) = m + 1
        <5>1. v.ready \in Seq(ProcType)
          BY <3>5
        <5> DEFINE queue == v.ready
        <5> HIDE DEF queue
        <5>2. queue \in Seq(ProcType)
          BY <5>1 DEF queue
        <5>3. Len(Append(queue, p)) = Len(queue) + 1 /\ Len(queue) \in Nat
          BY <3>3, <5>2
        <5> QED
          BY <5>3 DEF queue
      <4>2. PICK l \in Int : l = v.len
        BY <2>2
      <4>3. (l - 1) + (m + 1) = l + m
        OBVIOUS
      <4> QED
        BY <4>1, <4>2, <4>3, Zenon
    <3>8. V[k + 1].mem \in [1 .. n -> NewProc] /\ V[k + 1].ready \in Seq(W)
      BY <3>2, <3>4, <3>5, Zenon
    <3>9. Sum(V[k + 1].ready) = Sum(d.ready)
      BY <2>3, <3>4, <3>6, Zenon
    <3>10. V[k + 1].len + Len(V[k + 1].ready) = n + Len(d.ready)
      BY <2>4, <3>4, <3>7, Zenon
    <3>11. Good(k + 1)
      BY <3>8, <3>9, <3>10, Zenon
    <3> QED
      BY <2>1, <3>11
  <2> QED
    BY <2>6, <2>7
<1>6. i \in Known
  <2>1. i \in 0 .. n
    OBVIOUS
  <2> HIDE DEF Known, n
  <2> QED
    BY <1>1, <1>4, <1>5, <2>1, Induction
<1> QED
  BY <1>6 DEF W

\* So the books are kept, and everybody is somewhere, whatever a list with
\* two arrivals in one tick loses and doubles.
LEMMA FreshArrivalsBooks ==
  ASSUME NEW d \in DeviceType, Settled(d)
  PROVE  Settled(FreshArrivals(d)) /\ Size(FreshArrivals(d)) = Size(d)
<1> DEFINE n == Len(d.procs)
           end == Visited(d)[n]
           procs == SubSeq(end.mem, 1, end.len)
           f == FreshArrivals(d)
           W == Waiting(d.ticks)
<1>1. n \in Nat /\ n \in 0 .. n /\ Queued(d)
  BY DEF DeviceType, Settled
<1>2. end \in [mem : [1 .. n -> ProcType], len : 0 .. n, index : 1 .. n + 1,
               ready : Seq(ProcType)]
  BY <1>1, VisitedType
<1>3. /\ end.mem \in [1 .. n -> NewProc] /\ end.ready \in Seq(W)
      /\ Sum(end.ready) = Sum(d.ready) /\ end.len + Len(end.ready) = n + Len(d.ready)
  BY <1>1, VisitedBooks
<1>4. f = [d EXCEPT !.procs = procs, !.ready = end.ready]
  BY DEF FreshArrivals
<1>5. procs \in Seq(NewProc) /\ Len(procs) = end.len
  <2> HIDE DEF n, end
  <2>1. end.len \in Nat /\ \A j \in 1 .. end.len : end.mem[j] \in NewProc
    BY <1>1, <1>2, <1>3
  <2>2. procs \in Seq(NewProc) /\ Len(procs) = IF 1 <= end.len THEN end.len - 1 + 1 ELSE 0
    BY <2>1, SubSeqProperties
  <2> HIDE DEF procs
  <2> QED
    BY <2>1, <2>2
<1> HIDE DEF procs, end, f
<1>6. /\ f.procs = procs /\ f.ready = end.ready /\ f.aux = d.aux /\ f.io = d.io
      /\ f.exec = d.exec /\ f.execIO = d.execIO /\ f.completed = d.completed
      /\ f.q = d.q /\ f.ticks = d.ticks /\ f.idle = d.idle
  BY <1>4 DEF DeviceType
<1>7. Queued(f)
  BY <1>1, <1>3, <1>5, <1>6 DEF Queued
<1>8. Work(f) = Work(d)
  BY <1>3, <1>6 DEF Work
<1>9. Settled(f)
  BY <1>6, <1>7, <1>8 DEF Settled
<1>10. Size(f) = Size(d)
  <2>1. PICK a, b, c, g, h, x, y \in Nat :
             /\ a = Len(d.procs) /\ b = Len(d.ready) /\ c = Len(d.aux) /\ g = Len(d.io)
             /\ h = Len(d.completed) /\ x = Len(On(d.exec)) /\ y = Len(On(d.execIO))
             /\ Size(d) = a + b + c + g + h + x + y
    BY SizeType
  <2>2. PICK l, r \in Int : l = Len(procs) /\ r = Len(end.ready)
    <3>1. Len(procs) \in Int /\ Len(end.ready) \in Int
      BY <1>3, <1>5
    <3> QED
      BY <3>1
  <2>3. l + r = a + b
    BY <1>3, <1>5, <2>1, <2>2, Zenon
  <2>4. Size(f) = l + r + c + g + h + x + y
    BY <1>6, <2>1, <2>2 DEF Size
  <2> QED
    BY <2>1, <2>3, <2>4
<1> QED
  BY <1>9, <1>10 DEF f

\* Whoever waits for the IO device, somebody is the first.
LEMMA SomebodyFirst ==
  ASSUME NEW d \in DeviceType, d.io # <<>>
  PROVE  1 \in DOMAIN d.io
<1>1. d.io \in Seq(ProcType)
  BY DEF DeviceType
<1> QED
  BY <1>1

\* Those to come arrive at different times, and are not late.
Expected(d) ==
    /\ \A i, j \in DOMAIN d.procs : i # j => d.procs[i].arr # d.procs[j].arr
    /\ \A i \in DOMAIN d.procs : d.procs[i].arr >= d.ticks

\* After the visits up to k there was no process of this tick, or one.
LEMMA VisitedDistinct ==
  ASSUME NEW d \in DeviceType, Expected(d), NEW i \in 0 .. Len(d.procs)
  PROVE  LET n == Len(d.procs)
             Without(m) == [j \in 1 .. n |-> IF j \in m .. n - 1 THEN d.procs[j + 1] ELSE d.procs[j]]
         IN \/ /\ \A m \in 1 .. i : d.procs[m].arr # d.ticks
               /\ Visited(d)[i] = [mem |-> d.procs, len |-> n, index |-> i + 1, ready |-> d.ready]
            \/ \E m \in 1 .. i :
                   /\ d.procs[m].arr = d.ticks
                   /\ Visited(d)[i] = [mem |-> Without(m), len |-> n - 1, index |-> i,
                                       ready |-> Append(d.ready, d.procs[m])]
<1> DEFINE n == Len(d.procs)
           V == Visited(d)
           P == d.procs
           Without(m) == [j \in 1 .. n |-> IF j \in m .. n - 1 THEN P[j + 1] ELSE P[j]]
           Nobody(k) == /\ \A m \in 1 .. k : P[m].arr # d.ticks
                        /\ V[k] = [mem |-> P, len |-> n, index |-> k + 1, ready |-> d.ready]
           One(k, m) == /\ P[m].arr = d.ticks
                        /\ V[k] = [mem |-> Without(m), len |-> n - 1, index |-> k,
                                   ready |-> Append(d.ready, P[m])]
           Known == {k \in 0 .. n : Nobody(k) \/ \E m \in 1 .. k : One(k, m)}
<1>1. n \in Nat /\ P \in [1 .. n -> ProcType] /\ DOMAIN P = 1 .. n
  BY DEF DeviceType
<1>2. \A a, b \in 1 .. n : a # b => P[a].arr # P[b].arr
  BY <1>1 DEF Expected
<1>3. 0 \in Known
  <2>1. V[0] = [mem |-> P, len |-> n, index |-> 1, ready |-> d.ready]
    BY <1>1, VisitedFunction
  <2> HIDE DEF V, P
  <2>2. Nobody(0)
    BY <1>1, <2>1
  <2> HIDE DEF Nobody, One, n
  <2> QED
    BY <2>2, <1>1
<1>4. ASSUME NEW k \in 0 .. n - 1, k \in Known
      PROVE  k + 1 \in Known
  <2>1. V[k + 1] = At(d, V[k], k + 1)
    BY <1>1, VisitedFunction
  <2>2. k + 1 \in 1 .. n /\ k + 1 \in 0 .. n
    BY <1>1
  <2> HIDE DEF V, P, n
  <2>3. CASE Nobody(k) /\ P[k + 1].arr # d.ticks
    <3>1. V[k + 1] = [mem |-> P, len |-> n, index |-> (k + 1) + 1, ready |-> d.ready]
      BY <2>1, <2>3 DEF At
    <3>2. \A m \in 1 .. k + 1 : P[m].arr # d.ticks
      BY <2>3, <2>2, <1>1
    <3>3. Nobody(k + 1)
      BY <3>1, <3>2
    <3> HIDE DEF Nobody, One
    <3> QED
      BY <2>2, <3>3
  <2>4. CASE Nobody(k) /\ P[k + 1].arr = d.ticks
    <3>1. V[k + 1] = [mem |-> [j \in 1 .. n |-> IF j \in k + 1 .. n - 1 THEN P[j + 1] ELSE P[j]],
                      len |-> n - 1, index |-> k + 1, ready |-> Append(d.ready, P[k + 1])]
      BY <1>1, <2>1, <2>4 DEF At
    <3>2. One(k + 1, k + 1)
      BY <2>4, <3>1
    <3>3. k + 1 \in 1 .. k + 1
      BY <2>2
    <3> HIDE DEF Nobody, One
    <3> QED
      BY <2>2, <3>2, <3>3
  <2>5. CASE \E m \in 1 .. k : One(k, m)
    <3>1. PICK m \in 1 .. k : One(k, m)
      BY <2>5
    <3>2. Without(m)[k + 1] = IF k + 1 < n THEN P[k + 2] ELSE P[n]
      BY <1>1, <2>2
    <3>3. Without(m)[k + 1].arr # d.ticks
      <4>1. CASE k + 1 < n
        <5>1. k + 2 \in 1 .. n /\ m \in 1 .. n /\ m # k + 2
          BY <1>1, <4>1
        <5> QED
          BY <1>2, <3>1, <3>2, <4>1, <5>1
      <4>2. CASE k + 1 = n
        <5>1. n \in 1 .. n /\ m \in 1 .. n /\ m # n
          BY <1>1, <4>2
        <5> QED
          BY <1>2, <3>1, <3>2, <4>2, <5>1
      <4> QED
        BY <1>1, <4>1, <4>2
    <3>4. V[k].mem[k + 1].arr # d.ticks
      <4> HIDE DEF Without
      <4> QED
        BY <3>1, <3>3
    <3>5. V[k + 1] = [V[k] EXCEPT !.index = @ + 1]
      BY <2>1, <3>4 DEF At
    <3>6. V[k + 1] = [mem |-> Without(m), len |-> n - 1, index |-> k + 1,
                      ready |-> Append(d.ready, P[m])]
      <4>1. \A a, b, c, x : [[mem |-> a, len |-> b, index |-> x, ready |-> c] EXCEPT !.index = @ + 1]
                             = [mem |-> a, len |-> b, index |-> x + 1, ready |-> c]
        OBVIOUS
      <4>2. PICK w, l, r : w = Without(m) /\ l = n - 1 /\ r = Append(d.ready, P[m])
        OBVIOUS
      <4>3. V[k] = [mem |-> w, len |-> l, index |-> k, ready |-> r]
        BY <3>1, <4>2
      <4>4. V[k + 1] = [mem |-> w, len |-> l, index |-> k + 1, ready |-> r]
        BY <3>5, <4>1, <4>3
      <4> QED
        BY <4>2, <4>4
    <3>7. One(k + 1, m) /\ m \in 1 .. k + 1
      <4> HIDE DEF Without
      <4> QED
        BY <3>1, <3>6, <2>2
    <3> HIDE DEF Nobody, One
    <3> QED
      BY <2>2, <3>7
  <2>6. Nobody(k) \/ \E m \in 1 .. k : One(k, m)
    <3> HIDE DEF Nobody, One
    <3> QED
      BY <1>4
  <2> QED
    BY <2>3, <2>4, <2>5, <2>6
<1>5. i \in Known
  <2>1. i \in 0 .. n
    OBVIOUS
  <2> HIDE DEF Known, n
  <2> QED
    BY <1>1, <1>3, <1>4, <2>1, Induction
<1>6. Nobody(i) \/ \E m \in 1 .. i : One(i, m)
  <2> HIDE DEF Nobody, One
  <2> QED
    BY <1>5
<1> QED
  BY <1>6

\* The process of this tick, if there is one, goes to the ready queue; those
\* that are left come later.
LEMMA FreshArrivalsMoves ==
  ASSUME NEW d \in DeviceType, Expected(d)
  PROVE  LET e == FreshArrivals(d) IN
         /\ \/ e = d
            \/ \E m \in DOMAIN d.procs : e = [d EXCEPT !.procs = RemoveAt(d.procs, m),
                                                      !.ready = Append(@, d.procs[m])]
         /\ \A i \in DOMAIN e.procs : e.procs[i].arr # d.ticks
<1> DEFINE n == Len(d.procs)
           end == Visited(d)[n]
           Without(m) == [j \in 1 .. n |-> IF j \in m .. n - 1 THEN d.procs[j + 1] ELSE d.procs[j]]
           e == FreshArrivals(d)
<1>1. n \in Nat /\ d.procs \in Seq(ProcType) /\ DOMAIN d.procs = 1 .. n /\ n \in 0 .. n
  BY DEF DeviceType
<1>2. e = [d EXCEPT !.procs = SubSeq(end.mem, 1, end.len), !.ready = end.ready]
  BY DEF FreshArrivals
<1>3. \/ /\ \A m \in 1 .. n : d.procs[m].arr # d.ticks
         /\ end = [mem |-> d.procs, len |-> n, index |-> n + 1, ready |-> d.ready]
      \/ \E m \in 1 .. n :
             /\ d.procs[m].arr = d.ticks
             /\ end = [mem |-> Without(m), len |-> n - 1, index |-> n,
                       ready |-> Append(d.ready, d.procs[m])]
  BY <1>1, VisitedDistinct
<1> HIDE DEF e, end
<1>4. CASE /\ \A m \in 1 .. n : d.procs[m].arr # d.ticks
           /\ end = [mem |-> d.procs, len |-> n, index |-> n + 1, ready |-> d.ready]
  <2>1. SubSeq(d.procs, 1, n) = d.procs
    BY <1>1, SubSeqFull
  <2>2. e = [d EXCEPT !.procs = d.procs, !.ready = d.ready]
    BY <1>2, <1>4, <2>1
  <2>3. e = d
    BY <2>2 DEF DeviceType
  <2> QED
    BY <1>1, <1>4, <2>3 DEF e
<1>5. ASSUME NEW m \in 1 .. n, d.procs[m].arr = d.ticks,
             end = [mem |-> Without(m), len |-> n - 1, index |-> n,
                    ready |-> Append(d.ready, d.procs[m])]
      PROVE  /\ e = [d EXCEPT !.procs = RemoveAt(d.procs, m), !.ready = Append(@, d.procs[m])]
             /\ \A i \in DOMAIN e.procs : e.procs[i].arr # d.ticks
  <2> DEFINE r == RemoveAt(d.procs, m)
             s == SubSeq(Without(m), 1, n - 1)
  <2>1. /\ r \in Seq(ProcType) /\ Len(r) = n - 1
        /\ \A j \in 1 .. n - 1 : r[j] = IF j < m THEN d.procs[j] ELSE d.procs[j + 1]
    <3>1. m \in DOMAIN d.procs
      BY <1>1
    <3> QED
      BY <1>1, <3>1, RemoveAtProperties
  <2>2. \A j \in 1 .. n - 1 : /\ Without(m)[j] = IF j < m THEN d.procs[j] ELSE d.procs[j + 1]
                              /\ Without(m)[j] \in ProcType
    BY <1>1
  <2>3. /\ s \in Seq(ProcType) /\ Len(s) = n - 1
        /\ \A j \in 1 .. n - 1 : s[j] = Without(m)[j]
    <3> HIDE DEF Without
    <3>1. /\ s \in Seq(ProcType) /\ Len(s) = IF 1 <= n - 1 THEN (n - 1) - 1 + 1 ELSE 0
          /\ \A j \in 1 .. (n - 1) - 1 + 1 : s[j] = Without(m)[1 + j - 1]
      BY <1>1, <2>2, SubSeqProperties
    <3> HIDE DEF s
    <3> QED
      BY <1>1, <3>1
  <2> HIDE DEF r, s, Without
  <2>4. \A j \in 1 .. n - 1 : s[j] = r[j]
    BY <2>1, <2>2, <2>3
  <2>5. s = r
    BY <2>1, <2>3, <2>4, SeqEqual
  <2>6. e = [d EXCEPT !.procs = r, !.ready = Append(d.ready, d.procs[m])]
    <3>1. end.mem = Without(m) /\ end.len = n - 1 /\ end.ready = Append(d.ready, d.procs[m])
      BY <1>5
    <3> QED
      BY <1>2, <2>5, <3>1 DEF s
  <2>7. e.procs = r
    BY <2>6 DEF DeviceType
  <2>8. \A j \in 1 .. n - 1 : \E i \in 1 .. n : i # m /\ r[j] = d.procs[i]
    <3> TAKE j \in 1 .. n - 1
    <3>1. j \in 1 .. n /\ j + 1 \in 1 .. n
      BY <1>1
    <3>2. CASE j < m
      BY <2>1, <3>1, <3>2
    <3>3. CASE j >= m
      BY <2>1, <3>1, <3>3
    <3> QED
      BY <1>1, <3>2, <3>3
  <2>9. \A j \in DOMAIN r : r[j].arr # d.ticks
    <3> TAKE j \in DOMAIN r
    <3>1. j \in 1 .. n - 1
      BY <1>1, <2>1
    <3>2. PICK i \in 1 .. n : i # m /\ r[j] = d.procs[i]
      BY <2>8, <3>1
    <3>3. d.procs[i].arr # d.procs[m].arr
      BY <1>1, <3>2 DEF Expected
    <3> QED
      BY <1>5, <3>2, <3>3
  <2> QED
    BY <2>6, <2>7, <2>9 DEF r
<1> QED
  BY <1>1, <1>3, <1>4, <1>5 DEF e

-----------------------------------------------------------------------------
(* The other steps of an iteration.                                        *)

LEMMA SameTransitive ==
  ASSUME NEW d, NEW e, NEW f, Same(d, e), Same(e, f)
  PROVE  Same(d, f)
<1> QED
  BY DEF Same, Stays

LEMMA ServesTransitive ==
  ASSUME NEW d, NEW e, NEW f, Serves(d, e), Same(e, f)
  PROVE  Serves(d, f)
<1> QED
  BY DEF Serves, Same, Stays

\* The IO device counts a tick.
LEMMA CountIOSame ==
  ASSUME NEW d \in DeviceType, NEW n \in Nat
  PROVE  Same(d, [d EXCEPT !.countIO = n]) /\ Same(d, d)
<1> DEFINE e == [d EXCEPT !.countIO = n]
<1>1. /\ e.procs = d.procs /\ e.ready = d.ready /\ e.aux = d.aux /\ e.io = d.io
      /\ e.exec = d.exec /\ e.execIO = d.execIO /\ e.completed = d.completed
      /\ e.total = d.total /\ e.q = d.q /\ e.ticks = d.ticks /\ e.idle = d.idle
  BY DEF DeviceType
<1> HIDE DEF e
<1>2. Size(e) = Size(d) /\ Ids(e) = Ids(d)
  BY <1>1 DEF Size, Ids
<1>3. Queued(d) => Queued(e)
  BY <1>1 DEF Queued
<1>4. Work(e) = Work(d)
  BY <1>1 DEF Work
<1>5. Booked(d) => Booked(e)
  BY <1>1, <1>3, <1>4 DEF Booked
<1> QED
  BY <1>1, <1>2, <1>5 DEF Same, Stays, e

\* The IO device gives its process back to one of two queues.
LEMMA GivenBack ==
  ASSUME NEW d \in DeviceType, NEW e, d.execIO # NoProc, e.execIO = NoProc,
         e.procs = d.procs, e.io = d.io, e.completed = d.completed, e.exec = d.exec,
         e.total = d.total, e.ticks = d.ticks, e.q = d.q, e.idle = d.idle,
         \/ e.ready = Append(d.ready, d.execIO) /\ e.aux = d.aux
         \/ e.aux = Append(d.aux, d.execIO) /\ e.ready = d.ready
  PROVE  Same(d, e)
<1>1. d.execIO \in ProcType /\ d.ready \in Seq(ProcType) /\ d.aux \in Seq(ProcType)
  BY DEF DeviceType, Occupant
<1>2. /\ IdsOf(On(d.execIO)) = {d.execIO.id} /\ Len(On(d.execIO)) = 1
      /\ IdsOf(On(e.execIO)) = {} /\ Len(On(e.execIO)) = 0
  BY <1>1, IdsOfDevice
<1>3. /\ IdsOf(e.ready) \cup IdsOf(e.aux) = IdsOf(d.ready) \cup IdsOf(d.aux) \cup {d.execIO.id}
      /\ \/ Len(e.ready) = Len(d.ready) + 1 /\ Len(e.aux) = Len(d.aux)
         \/ Len(e.ready) = Len(d.ready) /\ Len(e.aux) = Len(d.aux) + 1
  <2>1. /\ IdsOf(Append(d.ready, d.execIO)) = IdsOf(d.ready) \cup {d.execIO.id}
        /\ Len(Append(d.ready, d.execIO)) = Len(d.ready) + 1
        /\ IdsOf(Append(d.aux, d.execIO)) = IdsOf(d.aux) \cup {d.execIO.id}
        /\ Len(Append(d.aux, d.execIO)) = Len(d.aux) + 1
    BY <1>1, IdsOfQueue
  <2>2. CASE e.ready = Append(d.ready, d.execIO) /\ e.aux = d.aux
    BY <2>1, <2>2
  <2>3. CASE e.aux = Append(d.aux, d.execIO) /\ e.ready = d.ready
    BY <2>1, <2>3
  <2> QED
    BY <2>2, <2>3
<1>4. Ids(e) = Ids(d)
  BY <1>2, <1>3 DEF Ids
<1>5. PICK a, b, c, g, h, x, y \in Nat :
          /\ a = Len(d.procs) /\ b = Len(d.ready) /\ c = Len(d.aux) /\ g = Len(d.io)
          /\ h = Len(d.completed) /\ x = Len(On(d.exec)) /\ y = Len(On(d.execIO))
          /\ Size(d) = a + b + c + g + h + x + y
  BY SizeType
<1>6. /\ Size(d) = a + b + c + g + h + x + 1
      /\ \/ Size(e) = a + (b + 1) + c + g + h + x + 0
         \/ Size(e) = a + b + (c + 1) + g + h + x + 0
  BY <1>2, <1>3, <1>5 DEF Size
<1>7. Size(e) = Size(d)
  BY <1>6
<1>8. Work(e) = Work(d)
  <2>1. /\ Sum(Append(d.ready, d.execIO)) = Sum(d.ready) + Spent(d.execIO)
        /\ Sum(Append(d.aux, d.execIO)) = Sum(d.aux) + Spent(d.execIO)
    BY <1>1, SumOfQueue
  <2>2. PICK k, l, m, n, u, v \in Int :
            /\ k = Sum(d.ready) /\ l = Sum(d.aux) /\ m = Sum(d.io) /\ n = Sum(d.completed)
            /\ u = Sum(On(d.exec)) /\ v = Sum(On(d.execIO))
            /\ Work(d) = k + l + m + n + u + v
    BY WorkType
  <2>3. v = Spent(d.execIO) /\ Sum(On(e.execIO)) = 0
    BY <1>1, <2>2, IdsOfDevice, SumOne
  <2>4. \/ Sum(e.ready) = k + v /\ Sum(e.aux) = l
        \/ Sum(e.ready) = k /\ Sum(e.aux) = l + v
    BY <2>1, <2>2, <2>3
  <2>5. \/ Work(e) = (k + v) + l + m + n + u + 0
        \/ Work(e) = k + (l + v) + m + n + u + 0
    BY <2>2, <2>3, <2>4 DEF Work
  <2>6. /\ (k + v) + l + m + n + u + 0 = k + l + m + n + u + v
        /\ k + (l + v) + m + n + u + 0 = k + l + m + n + u + v
    OBVIOUS
  <2> QED
    BY <2>2, <2>5, <2>6, Zenon
<1>9. ASSUME Booked(d)
      PROVE  Booked(e)
  <2>1. Queued(d) /\ d.execIO \in Waiting(d.ticks)
    BY <1>9 DEF Booked, Queued
  <2>2. e.ready \in Seq(Waiting(d.ticks)) /\ e.aux \in Seq(Waiting(d.ticks))
    <3>1. d.ready \in Seq(Waiting(d.ticks)) /\ d.aux \in Seq(Waiting(d.ticks))
      BY <2>1 DEF Queued
    <3>2. /\ Append(d.ready, d.execIO) \in Seq(Waiting(d.ticks))
          /\ Append(d.aux, d.execIO) \in Seq(Waiting(d.ticks))
      BY <2>1, <3>1
    <3> QED
      BY <3>1, <3>2
  <2>3. Queued(e)
    BY <2>1, <2>2 DEF Queued
  <2> QED
    BY <1>8, <1>9, <2>3 DEF Booked
<1> QED
  BY <1>4, <1>7, <1>9 DEF Same, Stays

\* The IO device takes a process from its queue.
LEMMA TakenForIO ==
  ASSUME NEW d \in DeviceType, NEW e, d.execIO = NoProc, NEW p \in ProcType, e.execIO = p,
         e.procs = d.procs, e.ready = d.ready, e.aux = d.aux, e.completed = d.completed,
         e.exec = d.exec, e.total = d.total, e.ticks = d.ticks, e.q = d.q, e.idle = d.idle,
         IdsOf(d.io) = IdsOf(e.io) \cup {p.id}, Len(d.io) = Len(e.io) + 1, Len(e.io) \in Nat,
         Sum(d.io) = Sum(e.io) + Spent(p), Sum(e.io) \in Int,
         Queued(d) => e.io \in Seq(Waiting(d.ticks)) /\ p \in Waiting(d.ticks)
  PROVE  Same(d, e)
<1>1. /\ IdsOf(On(d.execIO)) = {} /\ Len(On(d.execIO)) = 0
      /\ IdsOf(On(e.execIO)) = {p.id} /\ Len(On(e.execIO)) = 1
  BY IdsOfDevice
<1>2. Ids(e) = Ids(d)
  BY <1>1 DEF Ids
<1>3. PICK a, b, c, g, h, x, y \in Nat :
          /\ a = Len(d.procs) /\ b = Len(d.ready) /\ c = Len(d.aux) /\ g = Len(d.io)
          /\ h = Len(d.completed) /\ x = Len(On(d.exec)) /\ y = Len(On(d.execIO))
          /\ Size(d) = a + b + c + g + h + x + y
  BY SizeType
<1>4. PICK l \in Nat : l = Len(e.io)
  OBVIOUS
<1>5. g = l + 1 /\ y = 0
  BY <1>1, <1>3, <1>4
<1>6. Size(e) = a + b + c + l + h + x + 1
  BY <1>1, <1>3, <1>4, Zenon DEF Size
<1>7. Size(e) = Size(d)
  <2>1. a + b + c + l + h + x + 1 = a + b + c + g + h + x + y
    BY <1>5
  <2> QED
    BY <1>3, <1>6, <2>1, Zenon
<1>8. Work(e) = Work(d)
  <2>1. PICK k, m, n, o, u, v \in Int :
            /\ k = Sum(d.ready) /\ m = Sum(d.aux) /\ n = Sum(d.io) /\ o = Sum(d.completed)
            /\ u = Sum(On(d.exec)) /\ v = Sum(On(d.execIO))
            /\ Work(d) = k + m + n + o + u + v
    BY WorkType
  <2>2. PICK r, s \in Int : r = Sum(e.io) /\ s = Spent(p)
    BY SpentType
  <2>3. v = 0 /\ Sum(On(e.execIO)) = s /\ n = r + s
    BY <2>1, <2>2, IdsOfDevice, SumOne
  <2>4. Work(e) = k + m + r + o + u + s
    BY <2>1, <2>2, <2>3 DEF Work
  <2>5. k + m + r + o + u + s = k + m + (r + s) + o + u + 0
    OBVIOUS
  <2>6. Work(d) = k + m + (r + s) + o + u + 0
    BY <2>1, <2>3, Zenon
  <2> QED
    BY <2>4, <2>5, <2>6, Zenon
<1>9. ASSUME Booked(d)
      PROVE  Booked(e)
  <2>1. Queued(d)
    BY <1>9 DEF Booked
  <2>2. Queued(e)
    BY <2>1 DEF Queued
  <2> QED
    BY <1>8, <1>9, <2>2 DEF Booked
<1> QED
  BY <1>2, <1>7, <1>9 DEF Same, Stays

\* Who is taken from a queue of waiting ones waits.
LEMMA WaitingTaken ==
  ASSUME NEW t, NEW q \in Seq(Waiting(t))
  PROVE  /\ \A k \in DOMAIN q : q[k] \in Waiting(t) /\ RemoveAt(q, k) \in Seq(Waiting(t))
         /\ q # <<>> => Head(q) \in Waiting(t) /\ Tail(q) \in Seq(Waiting(t))
<1>1. \A k \in DOMAIN q : q[k] \in Waiting(t) /\ RemoveAt(q, k) \in Seq(Waiting(t))
  BY RemoveAtProperties
<1>2. q # <<>> => Head(q) \in Waiting(t) /\ Tail(q) \in Seq(Waiting(t))
  OBVIOUS
<1> QED
  BY <1>1, <1>2

\* A tick of the CPU: the running process goes on, or to where it has to go.
LEMMA ExecuteType ==
  ASSUME NEW d \in DeviceType, d.exec # NoProc, NEW saved \in 0 .. timeQuantum - 1
  PROVE  /\ Execute(d, saved) \in DeviceType
         /\ Execute(d, saved).ready = d.ready /\ Execute(d, saved).aux = d.aux
         /\ Stays(d, Execute(d, saved))
<1> DEFINE p == [d.exec EXCEPT !.rem = (@ - 1) % Word, !.last = @ + 1]
<1>1. d.exec \in ProcType /\ d.exec.rem \in Nat /\ d.exec.last \in Nat
  BY DEF DeviceType, Occupant, ProcType
<1>2. (d.exec.rem - 1) % Word \in Nat /\ d.exec.last + 1 \in Nat
  BY <1>1, WordAssumption
<1>3. p \in ProcType
  BY <1>1, <1>2 DEF ProcType
<1>4. p.last = d.exec.last + 1
  BY <1>1 DEF ProcType
<1>5. /\ [p EXCEPT !.last = @ - 1, !.done = d.ticks] \in ProcType
      /\ [p EXCEPT !.last = 0, !.saved = saved] \in ProcType
  <2> HIDE DEF p
  <2>1. p.last - 1 \in Nat
    BY <1>1, <1>4
  <2>2. d.ticks \in Nat
    BY DEF DeviceType
  <2> QED
    BY <1>3, <2>1, <2>2 DEF ProcType
<1> HIDE DEF p
<1> DEFINE ended == [p EXCEPT !.last = @ - 1, !.done = d.ticks]
           blocked == [p EXCEPT !.last = 0, !.saved = saved]
           e == Execute(d, saved)
<1>6. \/ e = [d EXCEPT !.exec = NoProc, !.total = @ - 1, !.completed = Append(@, ended)]
      \/ e = [d EXCEPT !.exec = NoProc, !.io = Append(@, blocked)]
      \/ e = [d EXCEPT !.exec = p]
  BY DEF Execute, p
<1> HIDE DEF ended, blocked, e
<1>7. NoProc \in Occupant /\ p \in Occupant /\ d.total - 1 \in Int
  BY <1>3 DEF Occupant, DeviceType
<1>8. Append(d.completed, ended) \in Seq(ProcType) /\ Append(d.io, blocked) \in Seq(ProcType)
  BY <1>5 DEF DeviceType, ended, blocked
<1>9. /\ p.id = d.exec.id /\ ended.id = d.exec.id /\ blocked.id = d.exec.id
      /\ ended \in ProcType /\ blocked \in ProcType
  <2>1. p.id = d.exec.id
    BY <1>1 DEF p, ProcType
  <2> QED
    BY <1>3, <1>5, <2>1 DEF ended, blocked, ProcType
<1>10. /\ d.completed \in Seq(ProcType) /\ d.io \in Seq(ProcType) /\ d.total \in Int
       /\ \A s \in Seq(ProcType) : Len(s) \in Nat
  BY DEF DeviceType
<1>11. /\ IdsOf(On(d.exec)) = {d.exec.id} /\ Len(On(d.exec)) = 1
       /\ IdsOf(On(p)) = {d.exec.id} /\ Len(On(p)) = 1
       /\ IdsOf(On(NoProc)) = {} /\ Len(On(NoProc)) = 0
  BY <1>1, <1>3, <1>9, IdsOfDevice
<1>12. e \in DeviceType /\ e.ready = d.ready /\ e.aux = d.aux /\ Stays(d, e)
  <2>1. CASE e = [d EXCEPT !.exec = NoProc, !.total = @ - 1, !.completed = Append(@, ended)]
    <3>1. e \in DeviceType
      BY <1>7, <1>8, <2>1 DEF DeviceType
    <3>2. /\ e.procs = d.procs /\ e.ready = d.ready /\ e.aux = d.aux /\ e.io = d.io
          /\ e.execIO = d.execIO /\ e.ticks = d.ticks /\ e.exec = NoProc
          /\ e.total = d.total - 1 /\ e.completed = Append(d.completed, ended)
      BY <2>1 DEF DeviceType
    <3>3. /\ IdsOf(e.completed) = IdsOf(d.completed) \cup {d.exec.id}
          /\ Len(e.completed) = Len(d.completed) + 1
      BY <1>9, <1>10, <3>2, IdsOfQueue
    <3>4. Ids(e) = Ids(d)
      BY <1>11, <3>2, <3>3 DEF Ids
    <3>5. /\ Len(e.completed) = Len(d.completed) + 1
          /\ Len(On(e.exec)) = 0 /\ Len(On(d.exec)) = 1
      BY <1>11, <3>2, <3>3
    <3>6. PICK a, b, c, g, h, x, y \in Nat :
             /\ a = Len(d.procs) /\ b = Len(d.ready) /\ c = Len(d.aux) /\ g = Len(d.io)
             /\ h = Len(d.completed) /\ x = Len(On(d.exec)) /\ y = Len(On(d.execIO))
             /\ Size(d) = a + b + c + g + h + x + y
      BY SizeType
    <3>7. /\ Size(d) = a + b + c + g + h + 1 + y
          /\ Size(e) = a + b + c + g + (h + 1) + 0 + y
      BY <3>2, <3>5, <3>6 DEF Size
    <3>8. /\ e.total + Len(e.completed) = (d.total - 1) + (h + 1) /\ d.total \in Int
          /\ d.total + Len(d.completed) = d.total + h
      BY <1>10, <3>2, <3>5, <3>6
    <3>9. Size(e) = Size(d) /\ e.total + Len(e.completed) = d.total + Len(d.completed)
      BY <3>7, <3>8
    <3> QED
      BY <3>1, <3>2, <3>4, <3>9 DEF Stays
  <2>2. CASE e = [d EXCEPT !.exec = NoProc, !.io = Append(@, blocked)]
    <3>1. e \in DeviceType
      BY <1>7, <1>8, <2>2 DEF DeviceType
    <3>2. /\ e.procs = d.procs /\ e.ready = d.ready /\ e.aux = d.aux
          /\ e.execIO = d.execIO /\ e.ticks = d.ticks /\ e.exec = NoProc
          /\ e.total = d.total /\ e.completed = d.completed /\ e.io = Append(d.io, blocked)
      BY <2>2 DEF DeviceType
    <3>3. IdsOf(e.io) = IdsOf(d.io) \cup {d.exec.id} /\ Len(e.io) = Len(d.io) + 1
      BY <1>9, <1>10, <3>2, IdsOfQueue
    <3>4. Ids(e) = Ids(d)
      BY <1>11, <3>2, <3>3 DEF Ids
    <3>5. Len(e.io) = Len(d.io) + 1 /\ Len(On(e.exec)) = 0 /\ Len(On(d.exec)) = 1
      BY <1>11, <3>2, <3>3
    <3>6. PICK a, b, c, g, h, x, y \in Nat :
             /\ a = Len(d.procs) /\ b = Len(d.ready) /\ c = Len(d.aux) /\ g = Len(d.io)
             /\ h = Len(d.completed) /\ x = Len(On(d.exec)) /\ y = Len(On(d.execIO))
             /\ Size(d) = a + b + c + g + h + x + y
      BY SizeType
    <3>7. /\ Size(d) = a + b + c + g + h + 1 + y
          /\ Size(e) = a + b + c + (g + 1) + h + 0 + y
      BY <3>2, <3>5, <3>6 DEF Size
    <3>8. Size(e) = Size(d)
      BY <3>7
    <3> QED
      BY <3>1, <3>2, <3>4, <3>8 DEF Stays
  <2>3. CASE e = [d EXCEPT !.exec = p]
    <3>1. e \in DeviceType
      BY <1>7, <2>3 DEF DeviceType
    <3>2. /\ e.procs = d.procs /\ e.ready = d.ready /\ e.aux = d.aux /\ e.io = d.io
          /\ e.execIO = d.execIO /\ e.ticks = d.ticks /\ e.exec = p
          /\ e.total = d.total /\ e.completed = d.completed
      BY <2>3 DEF DeviceType
    <3>3. Ids(e) = Ids(d) /\ Size(e) = Size(d)
      BY <1>11, <3>2 DEF Ids, Size
    <3> QED
      BY <3>1, <3>2, <3>3 DEF Stays
  <2> QED
    BY <1>6, <2>1, <2>2, <2>3
<1> QED
  BY <1>12 DEF e

\* In the books, that tick is one of its burst and no longer one to come.
LEMMA ExecuteBooks ==
  ASSUME NEW d \in DeviceType, d.exec # NoProc, NEW saved \in 0 .. timeQuantum - 1,
         saved <= d.q + 1, Settled(d), d.ticks < Word - 1
  PROVE  Booked(Execute(d, saved))
<1> DEFINE p == [d.exec EXCEPT !.rem = (@ - 1) % Word, !.last = @ + 1]
           ended == [p EXCEPT !.last = @ - 1, !.done = d.ticks]
           blocked == [p EXCEPT !.last = 0, !.saved = saved]
           e == Execute(d, saved)
           W == Waiting(d.ticks)
<1> SUFFICES Booked(e)
  OBVIOUS
<1>1. /\ d.exec \in Running(d.ticks) /\ Queued(d) /\ d.q \in 0 .. d.ticks
      /\ d.idle \in 0 .. d.ticks /\ d.ticks \in Nat
      /\ d.ticks - d.idle = Work(d) + Len(On(d.exec))
  BY DEF Settled, DeviceType
<1>2. /\ d.exec \in ProcType /\ d.exec.cpu \in 1 .. Word - 1 /\ d.exec.rem \in 1 .. d.exec.cpu
      /\ d.exec.last <= d.exec.rate /\ d.exec.saved <= d.ticks + 1 /\ d.exec.done = 0
      /\ d.exec.arr <= d.ticks /\ d.exec.start < Word - 1 /\ d.exec.arr <= d.exec.start
      /\ d.exec.start + Spent(d.exec) + 1 <= d.ticks
  <2>1. d.exec \in Waiting(d.ticks) /\ d.exec.start < Word - 1 /\ d.exec.start + Spent(d.exec) + 1 <= d.ticks
    BY <1>1 DEF Running, Begun
  <2>2. d.exec \in ProcType /\ d.exec.start \in Int
    BY <2>1 DEF Waiting, ProcType
  <2>3. d.exec.start # Word - 1
    BY <2>1, <2>2, WordAssumption
  <2> QED
    BY <2>1, <2>2, <2>3 DEF Waiting
<1>3. PICK cpu, rem, last, rate, start \in Nat :
          /\ cpu = d.exec.cpu /\ rem = d.exec.rem /\ last = d.exec.last /\ rate = d.exec.rate
          /\ start = d.exec.start
  <2>1. /\ d.exec.cpu \in Nat /\ d.exec.rem \in Nat /\ d.exec.last \in Nat /\ d.exec.rate \in Nat
        /\ d.exec.start \in Nat
    BY <1>2 DEF ProcType
  <2> QED
    BY <2>1
<1>4. /\ cpu \in 1 .. Word - 1 /\ rem \in 1 .. cpu /\ last <= rate
      /\ start < Word - 1 /\ start + (cpu - rem) + 1 <= d.ticks
  BY <1>2, <1>3 DEF Spent
<1>5. (rem - 1) % Word = rem - 1 /\ rem - 1 \in Nat /\ last + 1 \in Nat
  BY <1>4, WordAssumption
<1>6. p = [d.exec EXCEPT !.rem = rem - 1, !.last = last + 1]
  BY <1>3, <1>5
<1>7. /\ p \in ProcType /\ p.rem = rem - 1 /\ p.last = last + 1 /\ p.cpu = cpu /\ p.rate = rate
      /\ p.start = start /\ p.arr = d.exec.arr /\ p.saved = d.exec.saved /\ p.done = 0
  <2> HIDE DEF p
  <2> QED
    BY <1>2, <1>3, <1>5, <1>6 DEF ProcType
<1>8. \/ p.rem = 0 /\ e = [d EXCEPT !.exec = NoProc, !.total = @ - 1, !.completed = Append(@, ended)]
      \/ p.rem # 0 /\ e = [d EXCEPT !.exec = NoProc, !.io = Append(@, blocked)]
      \/ p.rem # 0 /\ ~(p.last >= p.rate) /\ e = [d EXCEPT !.exec = p]
  BY DEF Execute, p
<1> HIDE DEF p, e
<1>9. Spent(p) = Spent(d.exec) + 1 /\ Spent(d.exec) = cpu - rem
  BY <1>3, <1>7 DEF Spent
<1>10. PICK k, l, m, n, u, v \in Int :
            /\ k = Sum(d.ready) /\ l = Sum(d.aux) /\ m = Sum(d.io) /\ n = Sum(d.completed)
            /\ u = Sum(On(d.exec)) /\ v = Sum(On(d.execIO))
            /\ Work(d) = k + l + m + n + u + v
  BY WorkType
<1>11. u = cpu - rem /\ Len(On(d.exec)) = 1 /\ Sum(On(NoProc)) = 0
  BY <1>2, <1>9, <1>10, IdsOfDevice, SumOne
<1>12. d.ticks - d.idle = k + l + m + n + (cpu - rem) + v + 1
  BY <1>1, <1>10, <1>11
<1>13. start + (cpu - (rem - 1)) <= d.ticks
  BY <1>1, <1>4
<1>14. CASE p.rem = 0 /\ e = [d EXCEPT !.exec = NoProc, !.total = @ - 1, !.completed = Append(@, ended)]
  <2>1. ended.rem = 0 /\ ended.last = last /\ ended.done = d.ticks /\ ended.cpu = cpu
    BY <1>7, <1>14 DEF ProcType
  <2>2. /\ ended \in ProcType /\ ended.rate = rate /\ ended.start = start
        /\ ended.arr = d.exec.arr
    <3>1. p.last - 1 = last
      BY <1>7
    <3> QED
      BY <1>1, <1>7, <3>1 DEF ProcType
  <2> HIDE DEF ended
  <2>3. start + cpu <= d.ticks
    BY <1>7, <1>13, <1>14
  <2>4. ended \in Ended(d.ticks)
    <3>1. /\ ended.cpu \in 1 .. Word - 1 /\ ended.last <= ended.rate
          /\ ended.arr <= ended.start /\ ended.start + ended.cpu <= ended.done
      BY <1>2, <1>3, <1>4, <2>1, <2>2, <2>3, Zenon
    <3>2. ended.done <= d.ticks
      BY <1>1, <2>1
    <3> QED
      BY <2>1, <2>2, <3>1, <3>2 DEF Ended
  <2>5. Spent(ended) = cpu
    BY <2>1 DEF Spent
  <2>6. /\ e.procs = d.procs /\ e.ready = d.ready /\ e.aux = d.aux /\ e.io = d.io
        /\ e.execIO = d.execIO /\ e.ticks = d.ticks /\ e.exec = NoProc /\ e.q = d.q
        /\ e.idle = d.idle /\ e.completed = Append(d.completed, ended)
    BY <1>14 DEF DeviceType
  <2>7. Sum(e.completed) = n + cpu
    BY <1>10, <2>2, <2>5, <2>6, SumOfQueue DEF DeviceType
  <2>8. Work(e) = k + l + m + (n + cpu) + 0 + v
    BY <1>10, <1>11, <2>6, <2>7 DEF Work
  <2>9. rem = 1
    BY <1>7, <1>14
  <2>10. e.ticks - e.idle = Work(e)
    BY <1>12, <2>6, <2>8, <2>9
  <2>11. Append(d.completed, ended) \in Seq(Ended(d.ticks))
    BY <1>1, <2>4 DEF Queued
  <2>12. Queued(e)
    BY <1>1, <2>6, <2>11 DEF Queued
  <2> QED
    BY <1>1, <2>6, <2>10, <2>12 DEF Booked
<1>15. CASE p.rem # 0 /\ e = [d EXCEPT !.exec = NoProc, !.io = Append(@, blocked)]
  <2>1. /\ blocked \in ProcType /\ blocked.rem = rem - 1 /\ blocked.last = 0
        /\ blocked.saved = saved /\ blocked.cpu = cpu
    BY <1>7 DEF ProcType
  <2>2. /\ blocked.rate = rate /\ blocked.start = start /\ blocked.done = 0
        /\ blocked.arr = d.exec.arr
    BY <1>7 DEF ProcType
  <2> HIDE DEF blocked
  <2>3. Spent(blocked) = cpu - (rem - 1)
    BY <2>1 DEF Spent
  <2>4. blocked \in W
    <3>1. rem - 1 \in 1 .. cpu /\ 0 <= rate /\ saved <= d.ticks + 1
      <4>1. rem - 1 # 0
        BY <1>7, <1>15
      <4>2. rem - 1 \in 1 .. cpu /\ 0 <= rate
        BY <1>4, <4>1
      <4>3. saved <= d.ticks + 1
        BY <1>1, QuantumAssumption
      <4> QED
        BY <4>2, <4>3
    <3> QED
      BY <1>2, <1>3, <1>4, <1>13, <2>1, <2>2, <2>3, <3>1 DEF Waiting
  <2>5. /\ e.procs = d.procs /\ e.ready = d.ready /\ e.aux = d.aux
        /\ e.io = Append(d.io, blocked)
        /\ e.execIO = d.execIO /\ e.ticks = d.ticks /\ e.exec = NoProc /\ e.q = d.q
        /\ e.idle = d.idle /\ e.completed = d.completed
    BY <1>15 DEF DeviceType
  <2>6. Sum(e.io) = m + (cpu - (rem - 1))
    BY <1>10, <2>1, <2>3, <2>5, SumOfQueue DEF DeviceType
  <2>7. Work(e) = k + l + (m + (cpu - (rem - 1))) + n + 0 + v
    BY <1>10, <1>11, <2>5, <2>6 DEF Work
  <2>8. e.ticks - e.idle = Work(e)
    BY <1>12, <2>5, <2>7
  <2>9. Append(d.io, blocked) \in Seq(W)
    BY <1>1, <2>4 DEF Queued
  <2>10. Queued(e)
    BY <1>1, <2>5, <2>9 DEF Queued
  <2> QED
    BY <1>1, <2>5, <2>8, <2>10 DEF Booked
<1>16. CASE p.rem # 0 /\ ~(p.last >= p.rate) /\ e = [d EXCEPT !.exec = p]
  <2>1. p \in Begun(d.ticks)
    <3>1. rem - 1 \in 1 .. cpu /\ last + 1 <= rate /\ Spent(p) = cpu - (rem - 1)
      BY <1>4, <1>7, <1>9, <1>16
    <3> QED
      BY <1>2, <1>3, <1>4, <1>7, <1>13, <3>1 DEF Waiting, Begun
  <2>2. /\ e.procs = d.procs /\ e.ready = d.ready /\ e.aux = d.aux /\ e.io = d.io
        /\ e.execIO = d.execIO /\ e.ticks = d.ticks /\ e.exec = p /\ e.q = d.q
        /\ e.idle = d.idle /\ e.completed = d.completed
    BY <1>16 DEF DeviceType
  <2>3. Sum(On(p)) = (cpu - rem) + 1
    BY <1>7, <1>9, IdsOfDevice, SumOne
  <2>4. Work(e) = k + l + m + n + ((cpu - rem) + 1) + v
    BY <1>10, <2>2, <2>3 DEF Work
  <2>5. e.ticks - e.idle = Work(e)
    BY <1>12, <2>2, <2>4
  <2>6. Queued(e)
    BY <1>1, <2>2 DEF Queued
  <2> QED
    BY <1>1, <2>1, <2>2, <2>5, <2>6 DEF Booked
<1> QED
  BY <1>8, <1>14, <1>15, <1>16

\* The process that the IO device gives back.
LEMMA ExecIOType ==
  ASSUME NEW d \in DeviceType, d.execIO # NoProc
  PROVE  /\ ExecIO(d) \in DeviceType /\ ExecIO(d).exec = d.exec
         /\ scheduler # "vrr" => ExecIO(d).aux = d.aux
         /\ Same(d, ExecIO(d))
<1>1. d.execIO \in ProcType /\ d.countIO + 1 \in Nat /\ NoProc \in Occupant
  BY DEF DeviceType, Occupant
<1>2. Append(d.aux, d.execIO) \in Seq(ProcType) /\ Append(d.ready, d.execIO) \in Seq(ProcType)
  BY <1>1 DEF DeviceType
<1> DEFINE s == [d EXCEPT !.countIO = d.countIO + 1]
<1>3. s \in DeviceType /\ s.aux = d.aux /\ s.ready = d.ready /\ s.exec = d.exec
  BY <1>1 DEF DeviceType
<1>4. Same(d, s)
  BY <1>1, CountIOSame
<1> DEFINE x == [s EXCEPT !.execIO = NoProc, !.aux = Append(@, d.execIO)]
           r == [s EXCEPT !.execIO = NoProc, !.ready = Append(@, d.execIO)]
<1>5. /\ x \in DeviceType /\ x.exec = d.exec
      /\ r \in DeviceType /\ r.exec = d.exec /\ r.aux = d.aux
  <2> HIDE DEF s
  <2> QED
    BY <1>1, <1>2, <1>3 DEF DeviceType
<1>6. Same(d, x)
  <2>1. /\ x.execIO = NoProc /\ x.procs = d.procs /\ x.io = d.io /\ x.completed = d.completed
        /\ x.exec = d.exec /\ x.total = d.total /\ x.ticks = d.ticks /\ x.q = d.q
        /\ x.idle = d.idle
        /\ x.aux = Append(d.aux, d.execIO) /\ x.ready = d.ready
    BY DEF DeviceType
  <2> HIDE DEF x
  <2> QED
    BY <2>1, GivenBack
<1>7. Same(d, r)
  <2>1. /\ r.execIO = NoProc /\ r.procs = d.procs /\ r.io = d.io /\ r.completed = d.completed
        /\ r.exec = d.exec /\ r.total = d.total /\ r.ticks = d.ticks /\ r.q = d.q
        /\ r.idle = d.idle
        /\ r.ready = Append(d.ready, d.execIO) /\ r.aux = d.aux
    BY DEF DeviceType
  <2> HIDE DEF r
  <2> QED
    BY <2>1, GivenBack
<1>8. \/ ExecIO(d) = s
      \/ scheduler = "vrr" /\ ExecIO(d) = x
      \/ ExecIO(d) = r
  BY DEF ExecIO
<1> HIDE DEF s, x, r
<1> QED
  BY <1>3, <1>4, <1>5, <1>6, <1>7, <1>8

\* A waiting process gets the IO device.
LEMMA StartedType ==
  ASSUME NEW d \in DeviceType, NEW k \in DOMAIN d.io
  PROVE  /\ Started(d, k) \in DeviceType
         /\ Started(d, k).exec = d.exec /\ Started(d, k).aux = d.aux
         /\ Started(d, k).ready = d.ready
         /\ d.execIO = NoProc => Same(d, Started(d, k))
<1> DEFINE p == d.io[k]
           e == Started(d, k)
<1>1. d.io \in Seq(ProcType) /\ p \in ProcType
  BY DEF DeviceType
<1>2. p \in Occupant /\ RemoveAt(d.io, k) \in Seq(ProcType) /\ Len(RemoveAt(d.io, k)) \in Nat
  BY <1>1, RemoveAtProperties DEF Occupant
<1>3. /\ e \in DeviceType /\ e.exec = d.exec /\ e.aux = d.aux /\ e.ready = d.ready
      /\ e.execIO = p /\ e.io = RemoveAt(d.io, k) /\ e.procs = d.procs
      /\ e.completed = d.completed /\ e.total = d.total /\ e.ticks = d.ticks
      /\ e.q = d.q /\ e.idle = d.idle
  BY <1>2 DEF Started, DeviceType
<1>4. IdsOf(d.io) = IdsOf(e.io) \cup {p.id} /\ Len(d.io) = Len(e.io) + 1
  BY <1>1, <1>3, IdsOfQueue
<1>5. Sum(d.io) = Sum(e.io) + Spent(p) /\ Sum(e.io) \in Int
  BY <1>1, <1>3, SumOfQueue
<1>6. Queued(d) => e.io \in Seq(Waiting(d.ticks)) /\ p \in Waiting(d.ticks)
  BY <1>3, WaitingTaken DEF Queued
<1> HIDE DEF p, e
<1>7. ASSUME d.execIO = NoProc
      PROVE  Same(d, e)
  <2>1. Len(e.io) \in Nat
    BY <1>2, <1>3
  <2> QED
    BY <1>1, <1>3, <1>4, <1>5, <1>6, <1>7, <2>1, TakenForIO
<1> QED
  BY <1>3, <1>7 DEF e

\* A tick of the IO device.
LEMMA IODeviceType ==
  ASSUME NEW d \in DeviceType
  PROVE  /\ IODevice(d) \in DeviceType /\ IODevice(d).exec = d.exec
         /\ scheduler # "vrr" => IODevice(d).aux = d.aux
         /\ Same(d, IODevice(d))
<1> DEFINE s == IF d.execIO = NoProc THEN d ELSE ExecIO(d)
<1>1. /\ s \in DeviceType /\ s.exec = d.exec /\ (scheduler # "vrr" => s.aux = d.aux)
      /\ Same(d, s)
  BY ExecIOType, CountIOSame, 0 \in Nat
<1>2. IODevice(d) = IF s.execIO = NoProc /\ s.io # <<>>
                    THEN [s EXCEPT !.execIO = Head(s.io), !.io = Tail(s.io), !.countIO = 0]
                    ELSE s
  BY DEF IODevice
<1> HIDE DEF s
<1> DEFINE e == [s EXCEPT !.execIO = Head(s.io), !.io = Tail(s.io), !.countIO = 0]
           p == Head(s.io)
<1>3. ASSUME s.io # <<>>, s.execIO = NoProc
      PROVE  e \in DeviceType /\ e.exec = s.exec /\ e.aux = s.aux /\ Same(s, e)
  <2>1. s.io \in Seq(ProcType)
    BY <1>1 DEF DeviceType
  <2>2. /\ p \in ProcType /\ p \in Occupant
        /\ Tail(s.io) \in Seq(ProcType) /\ Len(Tail(s.io)) \in Nat
    BY <1>3, <2>1 DEF Occupant
  <2>3. /\ e \in DeviceType /\ e.exec = s.exec /\ e.aux = s.aux /\ e.ready = s.ready
        /\ e.execIO = p /\ e.io = Tail(s.io) /\ e.procs = s.procs
        /\ e.completed = s.completed /\ e.total = s.total /\ e.ticks = s.ticks
        /\ e.q = s.q /\ e.idle = s.idle
    BY <1>1, <2>2 DEF DeviceType
  <2>4. IdsOf(s.io) = IdsOf(e.io) \cup {p.id} /\ Len(s.io) = Len(e.io) + 1
    BY <1>3, <2>1, <2>3, IdsOfQueue
  <2>5. Sum(s.io) = Sum(e.io) + Spent(p) /\ Sum(e.io) \in Int
    BY <1>3, <2>1, <2>3, SumOfQueue
  <2>6. Queued(s) => e.io \in Seq(Waiting(s.ticks)) /\ p \in Waiting(s.ticks)
    BY <1>3, <2>3, WaitingTaken DEF Queued
  <2> HIDE DEF p, e
  <2>7. Len(e.io) \in Nat
    BY <2>2, <2>3
  <2>8. Same(s, e)
    BY <1>1, <1>3, <2>2, <2>3, <2>4, <2>5, <2>6, <2>7, TakenForIO
  <2> QED
    BY <2>3, <2>8
<1> HIDE DEF e
<1> QED
  BY <1>1, <1>2, <1>3, SameTransitive DEF e

-----------------------------------------------------------------------------
(* The rules at the end of a tick.                                         *)

Rules(d) ==
    /\ d.exec = NoProc => d.ready = <<>> /\ d.aux = <<>>
    /\ scheduler = "srtf" /\ d.exec # NoProc => \A p \in ToSet(d.ready) : d.exec.rem <= p.rem
    /\ scheduler \in {"rr", "vrr"} /\ d.exec # NoProc /\ d.ready # <<>> => d.q < timeQuantum

\* Only vrr has an auxiliary queue.
AuxOfVrr(d) == scheduler # "vrr" => d.aux = <<>>

Kept(d) == d \in DeviceType /\ AuxOfVrr(d) /\ Rules(d)

\* In a queue that is not empty somebody is the first.
LEMMA FirstsExist ==
  ASSUME NEW q \in Seq(ProcType), q # <<>>
  PROVE  Firsts(q) # {}
<1>1. \A k \in DOMAIN q : q[k] \in ProcType /\ Key(q[k]) \in Nat /\ q[k].arr \in Nat
  <2>1. \A k \in DOMAIN q : q[k] \in ProcType
    OBVIOUS
  <2>2. \A p \in ProcType : Key(p) \in Nat /\ p.arr \in Nat
    BY DEF Key, ProcType
  <2> QED
    BY <2>1, <2>2
<1> DEFINE Keys == {Key(q[k]) : k \in DOMAIN q}
<1>2. PICK key \in Keys : \A other \in Keys : key <= other
  <2>1. Keys \in SUBSET Nat
    BY <1>1
  <2>2. 1 \in DOMAIN q
    OBVIOUS
  <2>3. Keys # {}
    BY <2>2
  <2> HIDE DEF Keys
  <2> QED
    BY <2>1, <2>3, LeastNumber, Zenon
<1> DEFINE Arrivals == {q[k].arr : k \in {j \in DOMAIN q : Key(q[j]) = key}}
<1>3. PICK arr \in Arrivals : \A other \in Arrivals : arr <= other
  <2>1. Arrivals \in SUBSET Nat
    BY <1>1
  <2>2. Arrivals # {}
    BY <1>2
  <2> HIDE DEF Arrivals
  <2> QED
    BY <2>1, <2>2, LeastNumber, Zenon
<1>4. PICK k \in DOMAIN q : Key(q[k]) = key /\ q[k].arr = arr
  BY <1>3
<1>5. ASSUME NEW j \in DOMAIN q
      PROVE  ~Before(q[j], q[k])
  <2>1. key <= Key(q[j]) /\ (Key(q[j]) = key => arr <= q[j].arr)
    BY <1>2, <1>3
  <2> QED
    BY <1>1, <1>4, <2>1 DEF Before
<1> QED
  BY <1>4, <1>5 DEF Firsts

\* Under srtf the first has the least left.
LEMMA FirstIsShortest ==
  ASSUME scheduler = "srtf", NEW q \in Seq(ProcType), NEW k \in Firsts(q)
  PROVE  k \in DOMAIN q /\ \A j \in DOMAIN q : q[k].rem <= q[j].rem
<1>1. \A j \in DOMAIN q : q[j] \in ProcType /\ q[j].rem \in Nat
  <2>1. \A j \in DOMAIN q : q[j] \in ProcType
    OBVIOUS
  <2>2. \A p \in ProcType : p.rem \in Nat
    BY DEF ProcType
  <2> QED
    BY <2>1, <2>2
<1>2. k \in DOMAIN q /\ \A j \in DOMAIN q : ~(q[j].rem < q[k].rem)
  BY DEF Firsts, Before, Key
<1> QED
  BY <1>1, <1>2

\* The process p takes the CPU: the running one goes behind the ready ones.
Run(d, p, ready, aux, q) ==
    [d EXCEPT !.exec = [p EXCEPT !.start = IF d.ticks < @ THEN d.ticks ELSE @],
              !.q = q, !.aux = aux,
              !.ready = IF d.exec = NoProc THEN ready ELSE Append(ready, d.exec)]

LEMMA CountType ==
  ASSUME NEW d \in DeviceType
  PROVE  /\ Count(d) \in DeviceType /\ CountTicks(d) \in DeviceType
         /\ Count(d).exec = d.exec /\ CountTicks(d).exec = d.exec
         /\ Count(d).ready = d.ready /\ CountTicks(d).ready = d.ready
         /\ Count(d).aux = d.aux /\ CountTicks(d).aux = d.aux
         /\ Count(d).q = d.q + 1
<1>1. d.ticks + 1 \in Nat /\ d.q + 1 \in Int /\ d.idle + 1 \in Nat
  <2>1. d.ticks \in Nat /\ d.q \in Int /\ d.idle \in Nat
    BY DEF DeviceType
  <2> QED
    BY <2>1
<1> DEFINE c == [d EXCEPT !.idle = IF d.exec = NoProc THEN @ + 1 ELSE @,
                          !.ticks = @ + 1, !.q = @ + 1]
<1>2. c \in DeviceType
  BY <1>1 DEF DeviceType
<1>3. /\ c.exec = d.exec /\ c.ready = d.ready /\ c.aux = d.aux /\ c.q = d.q + 1
  BY DEF DeviceType
<1>4. Count(d) = c /\ CountTicks(d) = [c EXCEPT !.q = 0]
  BY DEF Count, CountTicks
<1> HIDE DEF c
<1>5. \A e \in DeviceType, n \in Int : LET f == [e EXCEPT !.q = n] IN
          f \in DeviceType /\ f.exec = e.exec /\ f.ready = e.ready /\ f.aux = e.aux
  BY DEF DeviceType
<1> QED
  BY <1>2, <1>3, <1>4, <1>5

\* What a tick counts, and what it leaves alone.
LEMMA CountFields ==
  ASSUME NEW d \in DeviceType, NEW e \in {Count(d), CountTicks(d)}
  PROVE  /\ e.procs = d.procs /\ e.ready = d.ready /\ e.aux = d.aux /\ e.io = d.io
         /\ e.exec = d.exec /\ e.execIO = d.execIO /\ e.completed = d.completed
         /\ e.total = d.total /\ e.ticks = d.ticks + 1 /\ e.q \in {0, d.q + 1}
         /\ e.idle = IF d.exec = NoProc THEN d.idle + 1 ELSE d.idle
<1> DEFINE c == Count(d)
           f == [c EXCEPT !.q = 0]
<1>1. /\ c.procs = d.procs /\ c.ready = d.ready /\ c.aux = d.aux /\ c.io = d.io
      /\ c.exec = d.exec /\ c.execIO = d.execIO /\ c.completed = d.completed
  BY DEF Count, DeviceType
<1>2. /\ c.total = d.total /\ c.ticks = d.ticks + 1 /\ c.q = d.q + 1
      /\ c.idle = IF d.exec = NoProc THEN d.idle + 1 ELSE d.idle
  BY DEF Count, DeviceType
<1>3. c \in DeviceType /\ CountTicks(d) = f
  BY CountType DEF CountTicks
<1> HIDE DEF c
<1>4. /\ f.procs = c.procs /\ f.ready = c.ready /\ f.aux = c.aux /\ f.io = c.io
      /\ f.exec = c.exec /\ f.execIO = c.execIO /\ f.completed = c.completed
      /\ f.total = c.total /\ f.ticks = c.ticks /\ f.idle = c.idle /\ f.q = 0
  BY <1>3 DEF DeviceType
<1> HIDE DEF f
<1>5. CASE e = c
  BY <1>1, <1>2, <1>5
<1>6. CASE e = f
  BY <1>1, <1>2, <1>4, <1>6
<1>7. e = c \/ e = f
  BY <1>3 DEF c
<1> QED
  BY <1>5, <1>6, <1>7

\* A process that takes the CPU keeps the rules, if it is a shortest one of
\* srtf, and its quantum is not used up already.
LEMMA RunKept ==
  ASSUME NEW d \in DeviceType, NEW p \in ProcType, NEW ready \in Seq(ProcType),
         NEW aux \in Seq(ProcType), NEW q \in Int,
         scheduler # "vrr" => aux = <<>>,
         scheduler = "srtf" => /\ \A j \in DOMAIN ready : p.rem <= ready[j].rem
                               /\ d.exec # NoProc => p.rem <= d.exec.rem,
         scheduler \in {"rr", "vrr"} => q + 1 < timeQuantum
  PROVE  /\ Run(d, p, ready, aux, q) \in DeviceType
         /\ Kept(Count(Run(d, p, ready, aux, q)))
         /\ scheduler \in {"sjf", "srtf"} => Kept(CountTicks(Run(d, p, ready, aux, q)))
<1> DEFINE x == [p EXCEPT !.start = IF d.ticks < @ THEN d.ticks ELSE @]
           back == IF d.exec = NoProc THEN ready ELSE Append(ready, d.exec)
           e == Run(d, p, ready, aux, q)
<1>1. x \in ProcType /\ x.rem = p.rem /\ x # NoProc
  BY DEF ProcType, DeviceType, NoProc
<1>2. back \in Seq(ProcType)
  BY DEF DeviceType, Occupant
<1>3. e = [d EXCEPT !.exec = x, !.q = q, !.aux = aux, !.ready = back]
  BY DEF Run
<1>4. scheduler = "srtf" => \A j \in DOMAIN back : p.rem <= back[j].rem
  BY DEF DeviceType, Occupant
<1> HIDE DEF x, back, e
<1>5. e \in DeviceType /\ e.exec = x /\ e.aux = aux /\ e.ready = back /\ e.q = q
  BY <1>1, <1>2, <1>3 DEF DeviceType, Occupant
<1>6. Rules(Count(e))
  BY <1>1, <1>4, <1>5, CountType DEF Rules, ToSet
<1>7. scheduler \in {"sjf", "srtf"} => Rules(CountTicks(e))
  BY <1>1, <1>4, <1>5, CountType DEF Rules, ToSet
<1> QED
  BY <1>5, <1>6, <1>7, CountType DEF Kept, AuxOfVrr, e

\* The process p is one of those who wait for the CPU; these are the others.
Chosen(d, p, ready, aux) ==
    /\ IdsOf(d.ready) \cup IdsOf(d.aux) = IdsOf(ready) \cup IdsOf(aux) \cup {p.id}
    /\ \/ Len(d.ready) = Len(ready) + 1 /\ Len(d.aux) = Len(aux)
       \/ Len(d.ready) = Len(ready) /\ Len(d.aux) = Len(aux) + 1
    /\ Sum(d.ready) + Sum(d.aux) = Sum(ready) + Sum(aux) + Spent(p)
    /\ Queued(d) => /\ p \in Waiting(d.ticks) /\ ready \in Seq(Waiting(d.ticks))
                    /\ aux \in Seq(Waiting(d.ticks))

LEMMA FromReady ==
  ASSUME NEW d \in DeviceType, NEW k \in DOMAIN d.ready
  PROVE  Chosen(d, d.ready[k], RemoveAt(d.ready, k), d.aux)
<1> DEFINE p == d.ready[k]
           r == RemoveAt(d.ready, k)
<1>1. d.ready \in Seq(ProcType) /\ d.aux \in Seq(ProcType)
  BY DEF DeviceType
<1>2. IdsOf(d.ready) = IdsOf(r) \cup {p.id} /\ Len(d.ready) = Len(r) + 1
  BY <1>1, IdsOfQueue
<1>3. /\ Sum(d.ready) = Sum(r) + Spent(p) /\ Sum(r) \in Int /\ p \in ProcType
      /\ Sum(d.aux) \in Int
  BY <1>1, SumOfQueue
<1>4. Queued(d) => /\ p \in Waiting(d.ticks) /\ r \in Seq(Waiting(d.ticks))
                   /\ d.aux \in Seq(Waiting(d.ticks))
  BY WaitingTaken DEF Queued
<1> HIDE DEF p, r
<1>5. Spent(p) \in Int
  BY <1>3, SpentType
<1>6. Sum(d.ready) + Sum(d.aux) = Sum(r) + Sum(d.aux) + Spent(p)
  BY <1>3, <1>5
<1>7. Chosen(d, p, r, d.aux)
  BY <1>2, <1>4, <1>6 DEF Chosen
<1> QED
  BY <1>7 DEF p, r

LEMMA FromHead ==
  ASSUME NEW d \in DeviceType, d.ready # <<>>
  PROVE  Chosen(d, Head(d.ready), Tail(d.ready), d.aux)
<1> DEFINE p == Head(d.ready)
           r == Tail(d.ready)
<1>1. d.ready \in Seq(ProcType) /\ d.aux \in Seq(ProcType)
  BY DEF DeviceType
<1>2. IdsOf(d.ready) = IdsOf(r) \cup {p.id} /\ Len(d.ready) = Len(r) + 1
  BY <1>1, IdsOfQueue
<1>3. /\ Sum(d.ready) = Sum(r) + Spent(p) /\ Sum(r) \in Int /\ p \in ProcType
      /\ Sum(d.aux) \in Int
  BY <1>1, SumOfQueue
<1>4. Queued(d) => /\ p \in Waiting(d.ticks) /\ r \in Seq(Waiting(d.ticks))
                   /\ d.aux \in Seq(Waiting(d.ticks))
  BY WaitingTaken DEF Queued
<1> HIDE DEF p, r
<1>5. Spent(p) \in Int
  BY <1>3, SpentType
<1>6. Sum(d.ready) + Sum(d.aux) = Sum(r) + Sum(d.aux) + Spent(p)
  BY <1>3, <1>5
<1>7. Chosen(d, p, r, d.aux)
  BY <1>2, <1>4, <1>6 DEF Chosen
<1> QED
  BY <1>7 DEF p, r

LEMMA FromAux ==
  ASSUME NEW d \in DeviceType, d.aux # <<>>
  PROVE  Chosen(d, Head(d.aux), d.ready, Tail(d.aux))
<1> DEFINE p == Head(d.aux)
           r == Tail(d.aux)
<1>1. d.ready \in Seq(ProcType) /\ d.aux \in Seq(ProcType)
  BY DEF DeviceType
<1>2. IdsOf(d.aux) = IdsOf(r) \cup {p.id} /\ Len(d.aux) = Len(r) + 1
  BY <1>1, IdsOfQueue
<1>3. /\ Sum(d.aux) = Sum(r) + Spent(p) /\ Sum(r) \in Int /\ p \in ProcType
      /\ Sum(d.ready) \in Int
  BY <1>1, SumOfQueue
<1>4. Queued(d) => /\ p \in Waiting(d.ticks) /\ r \in Seq(Waiting(d.ticks))
                   /\ d.ready \in Seq(Waiting(d.ticks))
  BY WaitingTaken DEF Queued
<1> HIDE DEF p, r
<1>5. Spent(p) \in Int
  BY <1>3, SpentType
<1>6. Sum(d.ready) + Sum(d.aux) = Sum(d.ready) + Sum(r) + Spent(p)
  BY <1>3, <1>5
<1>7. Chosen(d, p, d.ready, r)
  BY <1>2, <1>4, <1>6 DEF Chosen
<1> QED
  BY <1>7 DEF p, r

\* Whoever takes the CPU has begun from now on.
LEMMA NowBegun ==
  ASSUME NEW t \in Nat, t < Word - 1, NEW p \in Waiting(t)
  PROVE  LET x == [p EXCEPT !.start = IF t < @ THEN t ELSE @] IN
         x \in Begun(t) /\ Spent(x) = Spent(p)
<1> DEFINE x == [p EXCEPT !.start = IF t < @ THEN t ELSE @]
<1>1. /\ p \in ProcType /\ p.cpu \in 1 .. Word - 1 /\ p.rem \in 1 .. p.cpu /\ p.last <= p.rate
      /\ p.saved <= t + 1 /\ p.done = 0 /\ p.arr <= t
      /\ \/ p.start = Word - 1 /\ p.rem = p.cpu
         \/ p.start < Word - 1 /\ p.arr <= p.start /\ p.start + Spent(p) <= t
  BY DEF Waiting
<1>2. /\ p.start \in Nat /\ p.cpu \in Nat /\ p.rem \in Nat /\ p.rem <= p.cpu /\ p.arr \in Nat
      /\ Word - 1 \in Int
  BY <1>1, WordAssumption DEF ProcType
<1>3. x.start = (IF t < p.start THEN t ELSE p.start) /\ x \in ProcType
  BY <1>1 DEF ProcType
<1>4. /\ x.cpu = p.cpu /\ x.rem = p.rem /\ x.last = p.last /\ x.rate = p.rate
      /\ x.saved = p.saved /\ x.done = p.done /\ x.arr = p.arr
  BY <1>1 DEF ProcType
<1> HIDE DEF x
<1>5. Spent(x) = Spent(p) /\ Spent(p) = p.cpu - p.rem
  BY <1>4 DEF Spent
<1>6. x.start < Word - 1 /\ x.arr <= x.start /\ x.start + Spent(x) <= t
  <2>1. PICK cpu, rem, start, arr \in Nat : cpu = p.cpu /\ rem = p.rem /\ start = p.start /\ arr = p.arr
    BY <1>2
  <2>2. \/ start = Word - 1 /\ rem = cpu
        \/ start < Word - 1 /\ arr <= start /\ start + (cpu - rem) <= t
    BY <1>1, <1>5, <2>1, Zenon
  <2>3. arr <= t /\ rem <= cpu
    BY <1>1, <1>2, <2>1
  <2>4. CASE start = Word - 1 /\ rem = cpu
    <3>1. t < start /\ cpu - rem = 0 /\ t + (cpu - rem) <= t
      BY <1>2, <2>4
    <3>2. x.start = t
      BY <1>3, <2>1, <3>1
    <3> QED
      BY <1>4, <1>5, <2>1, <2>3, <3>1, <3>2, Zenon
  <2>5. CASE start < Word - 1 /\ arr <= start /\ start + (cpu - rem) <= t
    <3>1. ~(t < start)
      BY <2>3, <2>5
    <3>2. x.start = start
      BY <1>3, <2>1, <3>1
    <3> QED
      BY <1>4, <1>5, <2>1, <2>5, <3>2, Zenon
  <2> QED
    BY <2>2, <2>4, <2>5
<1>7. x \in Waiting(t)
  BY <1>1, <1>3, <1>4, <1>6 DEF Waiting
<1>8. x \in Begun(t)
  BY <1>6, <1>7 DEF Begun
<1> QED
  BY <1>5, <1>8 DEF x

\* And it has only moved, from the queue in which it waited.
LEMMA RunMoves ==
  ASSUME NEW d \in DeviceType, NEW p \in ProcType, NEW ready \in Seq(ProcType),
         NEW aux \in Seq(ProcType), NEW q \in Int, Chosen(d, p, ready, aux),
         Booked(d) => q \in -1 .. d.ticks
  PROVE  Same(d, Run(d, p, ready, aux, q))
<1> DEFINE x == [p EXCEPT !.start = IF d.ticks < @ THEN d.ticks ELSE @]
           back == IF d.exec = NoProc THEN ready ELSE Append(ready, d.exec)
           e == Run(d, p, ready, aux, q)
<1>1. x \in ProcType /\ x.id = p.id
  BY DEF ProcType, DeviceType
<1>2. e = [d EXCEPT !.exec = x, !.q = q, !.aux = aux, !.ready = back]
  BY DEF Run
<1>3. \/ /\ IdsOf(On(d.exec)) = {} /\ Len(On(d.exec)) = 0
         /\ IdsOf(back) = IdsOf(ready) /\ Len(back) = Len(ready)
      \/ /\ IdsOf(On(d.exec)) = {d.exec.id} /\ Len(On(d.exec)) = 1
         /\ IdsOf(back) = IdsOf(ready) \cup {d.exec.id} /\ Len(back) = Len(ready) + 1
  <2>1. CASE d.exec = NoProc
    BY <2>1, IdsOfDevice
  <2>2. CASE d.exec # NoProc
    <3>1. d.exec \in ProcType
      BY <2>2 DEF DeviceType, Occupant
    <3> QED
      BY <2>2, <3>1, IdsOfDevice, IdsOfQueue
  <2> QED
    BY <2>1, <2>2
<1>4. IdsOf(On(x)) = {p.id} /\ Len(On(x)) = 1
  BY <1>1, IdsOfDevice
<1> HIDE DEF x, back
<1>5. /\ e.exec = x /\ e.aux = aux /\ e.ready = back /\ e.procs = d.procs /\ e.io = d.io
      /\ e.completed = d.completed /\ e.execIO = d.execIO /\ e.total = d.total /\ e.ticks = d.ticks
      /\ e.q = q /\ e.idle = d.idle
  BY <1>2 DEF DeviceType
<1> HIDE DEF e
<1>6. Ids(e) = Ids(d)
  <2>1. IdsOf(d.ready) \cup IdsOf(d.aux) = IdsOf(ready) \cup IdsOf(aux) \cup {p.id}
    BY DEF Chosen
  <2> QED
    BY <1>3, <1>4, <1>5, <2>1 DEF Ids
<1>7. PICK a, b, c, g, h, y, z \in Nat :
          /\ a = Len(d.procs) /\ b = Len(d.ready) /\ c = Len(d.aux) /\ g = Len(d.io)
          /\ h = Len(d.completed) /\ y = Len(On(d.exec)) /\ z = Len(On(d.execIO))
          /\ Size(d) = a + b + c + g + h + y + z
  BY SizeType
<1>8. PICK l, m \in Nat : l = Len(ready) /\ m = Len(aux)
  OBVIOUS
<1>9. PICK k \in Nat : k = Len(back) /\ ((y = 0 /\ k = l) \/ (y = 1 /\ k = l + 1))
  <2>1. \/ y = 0 /\ Len(back) = l
        \/ y = 1 /\ Len(back) = l + 1
    BY <1>3, <1>7, <1>8
  <2>2. Len(back) \in Nat
    BY <2>1
  <2>3. \E k \in Nat : k = Len(back)
    BY <2>2
  <2>4. PICK k \in Nat : k = Len(back)
    BY <2>3
  <2>5. (y = 0 /\ k = l) \/ (y = 1 /\ k = l + 1)
    BY <2>1, <2>4
  <2> QED
    BY <2>4, <2>5
<1>10. Size(e) = a + k + m + g + h + 1 + z
  BY <1>4, <1>5, <1>7, <1>8, <1>9 DEF Size
<1>11. \/ b = l + 1 /\ c = m
       \/ b = l /\ c = m + 1
  <2>1. CASE Len(d.ready) = Len(ready) + 1 /\ Len(d.aux) = Len(aux)
    <3>1. b = Len(d.ready) /\ c = Len(d.aux) /\ l = Len(ready) /\ m = Len(aux)
      BY <1>7, <1>8
    <3>2. b = l + 1 /\ c = m
      BY <2>1, <3>1, Zenon
    <3> QED
      BY <3>2
  <2>2. CASE Len(d.ready) = Len(ready) /\ Len(d.aux) = Len(aux) + 1
    BY <1>7, <1>8, <2>2, Zenon
  <2>3. \/ Len(d.ready) = Len(ready) + 1 /\ Len(d.aux) = Len(aux)
        \/ Len(d.ready) = Len(ready) /\ Len(d.aux) = Len(aux) + 1
    BY DEF Chosen
  <2> QED
    BY <2>1, <2>2, <2>3
<1>12. a + b + c + g + h + y + z = a + k + m + g + h + 1 + z
  BY <1>9, <1>11
<1>13. Size(e) = Size(d)
  BY <1>7, <1>10, <1>12
<1>14. Stays(d, e)
  BY <1>5, <1>6, <1>13 DEF Stays
<1>15. ASSUME Booked(d)
       PROVE  Booked(e)
  <2>1. /\ Queued(d) /\ d.ticks \in Nat /\ d.ticks < Word - 1
        /\ d.exec \in Begun(d.ticks) \cup {NoProc}
    BY <1>15 DEF Booked, DeviceType
  <2>2. /\ p \in Waiting(d.ticks) /\ ready \in Seq(Waiting(d.ticks))
        /\ aux \in Seq(Waiting(d.ticks))
    BY <2>1 DEF Chosen
  <2>3. x \in Begun(d.ticks) /\ Spent(x) = Spent(p)
    BY <2>1, <2>2, NowBegun DEF x
  <2>4. back \in Seq(Waiting(d.ticks))
    <3>1. d.exec # NoProc => d.exec \in Waiting(d.ticks)
      BY <2>1 DEF Begun
    <3> DEFINE W == Waiting(d.ticks)
    <3>2. ready \in Seq(W) /\ (d.exec # NoProc => d.exec \in W)
      BY <2>2, <3>1
    <3> HIDE DEF W
    <3>3. d.exec # NoProc => Append(ready, d.exec) \in Seq(W)
      BY <3>2
    <3>4. back \in Seq(W)
      BY <3>2, <3>3, Zenon DEF back
    <3> QED
      BY <3>4 DEF W
  <2>5. Queued(e)
    BY <1>5, <2>1, <2>2, <2>4 DEF Queued
  <2>6. PICK i, j, k0, l0, u, v \in Int :
            /\ i = Sum(d.ready) /\ j = Sum(d.aux) /\ k0 = Sum(d.io) /\ l0 = Sum(d.completed)
            /\ u = Sum(On(d.exec)) /\ v = Sum(On(d.execIO))
            /\ Work(d) = i + j + k0 + l0 + u + v
    BY WorkType
  <2>7. PICK r, s, w \in Int : r = Sum(ready) /\ s = Sum(aux) /\ w = Spent(p)
    <3>1. Sum(ready) \in Int /\ Sum(aux) \in Int /\ Spent(p) \in Int
      BY SumOfQueue, SpentType
    <3> QED
      BY <3>1
  <2>8. i + j = r + s + w
    BY <2>6, <2>7, Zenon DEF Chosen
  <2>9. Sum(back) = r + u
    <3>1. CASE d.exec = NoProc
      <4>1. u = 0 /\ back = ready
        BY <2>6, <3>1, IdsOfDevice, SumOne DEF back
      <4> QED
        BY <2>7, <4>1
    <3>2. CASE d.exec # NoProc
      <4>1. d.exec \in ProcType
        BY <3>2 DEF DeviceType, Occupant
      <4>2. u = Spent(d.exec) /\ back = Append(ready, d.exec)
        BY <2>6, <3>2, <4>1, IdsOfDevice, SumOne DEF back
      <4> QED
        BY <2>7, <4>1, <4>2, SumOfQueue
    <3> QED
      BY <3>1, <3>2
  <2>10. Sum(On(x)) = w
    BY <1>1, <2>3, <2>7, IdsOfDevice, SumOne DEF x
  <2>11. Work(e) = (r + u) + s + k0 + l0 + w + v
    BY <1>5, <2>6, <2>7, <2>9, <2>10 DEF Work
  <2>12. (r + u) + s + k0 + l0 + w + v = (r + s + w) + k0 + l0 + u + v
    OBVIOUS
  <2>13. i + j + k0 + l0 + u + v = (r + s + w) + k0 + l0 + u + v
    BY <2>8, Zenon
  <2>14. Work(e) = Work(d)
    BY <2>6, <2>11, <2>12, <2>13, Zenon
  <2> QED
    BY <1>5, <1>15, <2>3, <2>5, <2>14 DEF Booked
<1> QED
  BY <1>14, <1>15 DEF Same, e

\* From d to e a tick has passed, in which processes arrived and moved.
Ticked(d, e) ==
    \E s \in DeviceType : Serves(FreshArrivals(d), s) /\ (e = Count(s) \/ e = CountTicks(s))

-----------------------------------------------------------------------------
(* An iteration of SchedSim.                                               *)

\* The turn of the CPU.
LEMMA TurnServes ==
  ASSUME NEW d \in DeviceType, NEW saved \in {0, (d.q + 1) % timeQuantum}
  PROVE  /\ d.exec = NoProc => Serves(d, d)
         /\ d.exec # NoProc => /\ Execute(d, saved) \in DeviceType
                               /\ Execute(d, saved).aux = d.aux
                               /\ Serves(d, Execute(d, saved))
<1>1. d.exec = NoProc => Serves(d, d)
  <2>1. ASSUME d.exec = NoProc, Settled(d), d.ticks < Word - 1
        PROVE  Booked(d)
    <3>1. Len(On(d.exec)) = 0
      BY <2>1, IdsOfDevice
    <3>2. /\ Queued(d) /\ d.q \in -1 .. d.ticks /\ d.idle \in 0 .. d.ticks
          /\ d.ticks - d.idle = Work(d) + Len(On(d.exec))
      BY <2>1 DEF Settled, DeviceType
    <3>3. Work(d) \in Int
      BY WorkType
    <3>4. d.ticks - d.idle = Work(d)
      BY <3>1, <3>2, <3>3
    <3> QED
      BY <2>1, <3>2, <3>4 DEF Booked
  <2>2. Stays(d, d)
    BY DEF Stays
  <2> QED
    BY <2>1, <2>2 DEF Serves
<1>2. ASSUME d.exec # NoProc
      PROVE  /\ Execute(d, saved) \in DeviceType /\ Execute(d, saved).aux = d.aux
             /\ Serves(d, Execute(d, saved))
  <2>1. saved \in 0 .. timeQuantum - 1
    <3>1. d.q \in Int
      BY DEF DeviceType
    <3> QED
      BY <3>1, QuantumAssumption
  <2>2. ASSUME Settled(d), d.ticks < Word - 1
        PROVE  Booked(Execute(d, saved))
    <3>1. d.q \in Nat
      BY <2>2 DEF Settled, DeviceType
    <3>2. (d.q + 1) % timeQuantum <= d.q + 1 /\ 0 <= d.q + 1
      BY <3>1, QuantumAssumption
    <3>3. saved <= d.q + 1
      BY <3>2
    <3> QED
      BY <1>2, <2>1, <2>2, <3>3, ExecuteBooks
  <2> QED
    BY <1>2, <2>1, <2>2, ExecuteType DEF Serves
<1> QED
  BY <1>1, <1>2

\* Whom the CPU and the devices leave to be scheduled.
LEMMA ServedType ==
  ASSUME NEW d \in DeviceType
  PROVE  /\ Served(d) \in DeviceType
         /\ AuxOfVrr(d) => AuxOfVrr(Served(d))
         /\ Serves(d, Served(d))
<1>1. (d.q + 1) % timeQuantum \in 0 .. timeQuantum - 1
  <2>1. d.q \in Int
    BY DEF DeviceType
  <2>2. d.q + 1 \in Int
    BY <2>1
  <2>3. \A q \in Int : q % timeQuantum \in 0 .. timeQuantum - 1
    BY QuantumAssumption
  <2> QED
    BY <2>2, <2>3, Zenon
<1> DEFINE s == IF d.exec = NoProc THEN d ELSE ExecCPU(d)
<1>2. s \in DeviceType /\ s.aux = d.aux /\ Serves(d, s)
  <2>1. d.exec # NoProc => s = Execute(d, (d.q + 1) % timeQuantum)
    BY DEF ExecCPU
  <2>2. d.exec = NoProc => s = d
    OBVIOUS
  <2> HIDE DEF s
  <2>3. (d.q + 1) % timeQuantum \in {0, (d.q + 1) % timeQuantum}
    OBVIOUS
  <2> QED
    BY <1>1, <2>1, <2>2, <2>3, TurnServes
<1>3. Served(d) = IODevice(s)
  BY DEF Served
<1> HIDE DEF s
<1> QED
  BY <1>2, <1>3, IODeviceType, ServesTransitive DEF AuxOfVrr

\* Nobody is scheduled: the rules ask for nobody.
LEMMA NotScheduled ==
  ASSUME NEW d \in DeviceType, AuxOfVrr(d), scheduler \in Programs, ~ToSchedule(d)
  PROVE  Kept(Count(d))
<1>1. Count(d).exec = NoProc => Count(d).ready = <<>> /\ Count(d).aux = <<>>
  BY CountType DEF ToSchedule, AuxOfVrr, Programs
<1>2. ASSUME scheduler = "srtf", d.exec # NoProc, NEW p \in ToSet(d.ready)
      PROVE  d.exec.rem <= p.rem
  <2>1. d.ready \in Seq(ProcType) /\ d.ready # <<>> /\ d.exec \in ProcType
    BY <1>2 DEF DeviceType, Occupant, ToSet
  <2>2. PICK k \in Firsts(d.ready) : TRUE
    BY <2>1, FirstsExist
  <2>3. PICK j \in DOMAIN d.ready : p = d.ready[j]
    BY DEF ToSet
  <2>4. k \in DOMAIN d.ready /\ d.ready[k].rem <= p.rem
    BY <1>2, <2>1, <2>2, <2>3, FirstIsShortest
  <2>5. ~(d.ready[k].rem < d.exec.rem)
    BY <1>2, <2>1, <2>2 DEF ToSchedule, Tops
  <2>6. d.ready[k] \in ProcType /\ p \in ProcType
    BY <2>1, <2>3, <2>4
  <2>7. \A r \in ProcType : r.rem \in Nat
    BY DEF ProcType
  <2> QED
    BY <2>1, <2>4, <2>5, <2>6, <2>7
<1>3. ASSUME scheduler \in {"rr", "vrr"}, d.exec # NoProc, d.ready # <<>>
      PROVE  d.q + 1 < timeQuantum
  <2>1. ~(d.q + 1 >= timeQuantum)
    BY <1>3 DEF ToSchedule, Expired
  <2>2. d.q + 1 \in Int
    BY DEF DeviceType
  <2> QED
    BY <2>1, <2>2, QuantumAssumption
<1>4. Rules(Count(d))
  BY <1>1, <1>2, <1>3, CountType DEF Rules
<1> QED
  BY <1>4, CountType DEF Kept, AuxOfVrr

\* What a quantum begins with.
LEMMA RestOfQuantum ==
  ASSUME NEW d \in DeviceType, Booked(d)
  PROVE  /\ -1 \in -1 .. d.ticks /\ d.q \in -1 .. d.ticks
         /\ d.aux # <<>> => Head(d.aux).saved - 1 \in -1 .. d.ticks
<1>1. d.ticks \in Nat /\ d.q \in -1 .. d.ticks /\ d.aux \in Seq(Waiting(d.ticks))
  BY DEF DeviceType, Booked, Queued
<1>2. -1 \in -1 .. d.ticks
  BY <1>1
<1>3. ASSUME d.aux # <<>>
      PROVE  Head(d.aux).saved - 1 \in -1 .. d.ticks
  <2>1. Head(d.aux) \in Waiting(d.ticks)
    BY <1>1, <1>3, WaitingTaken
  <2>2. Head(d.aux).saved \in Nat /\ Head(d.aux).saved <= d.ticks + 1
    BY <2>1, QuantumAssumption DEF Waiting, ProcType
  <2> QED
    BY <1>1, <2>2
<1> QED
  BY <1>1, <1>2, <1>3

\* Somebody is scheduled: the first of the auxiliary queue, or a first one of
\* the ready queue.
LEMMA Scheduled ==
  ASSUME NEW d \in DeviceType, AuxOfVrr(d), scheduler \in Programs, ToSchedule(d),
         NEW k \in IF d.aux # <<>> THEN {1} ELSE Tops(d)
  PROVE  /\ Kept(Count(ScheduleProc(d, k)))
         /\ ScheduleProc(d, k) \in DeviceType /\ Same(d, ScheduleProc(d, k))
<1>1. d.ready \in Seq(ProcType) /\ d.aux \in Seq(ProcType)
  BY DEF DeviceType
<1>2. CASE d.aux # <<>>
  <2> DEFINE p == Head(d.aux)
  <2>1. p \in ProcType /\ Tail(d.aux) \in Seq(ProcType) /\ scheduler = "vrr"
    BY <1>1, <1>2 DEF AuxOfVrr
  <2>2. p.saved - 1 \in Int /\ p.saved - 1 + 1 < timeQuantum
    <3>1. p.saved \in 0 .. timeQuantum - 1
      BY <2>1 DEF ProcType
    <3> QED
      BY <3>1, QuantumAssumption
  <2>3. ScheduleProc(d, k) = Run(d, p, d.ready, Tail(d.aux), p.saved - 1)
    BY <1>2 DEF ScheduleProc, Run
  <2>4. Chosen(d, p, d.ready, Tail(d.aux)) /\ (Booked(d) => p.saved - 1 \in -1 .. d.ticks)
    BY <1>2, FromAux, RestOfQuantum
  <2> HIDE DEF p
  <2>5. Kept(Count(ScheduleProc(d, k))) /\ ScheduleProc(d, k) \in DeviceType
    BY <1>1, <2>1, <2>2, <2>3, RunKept
  <2>6. Same(d, ScheduleProc(d, k))
    BY <1>1, <2>1, <2>2, <2>3, <2>4, RunMoves
  <2> QED
    BY <2>5, <2>6
<1>3. CASE d.aux = <<>>
  <2> DEFINE p == d.ready[k]
             ready == RemoveAt(d.ready, k)
  <2>1. k \in DOMAIN d.ready
    BY <1>3 DEF Tops, Firsts
  <2>2. p \in ProcType /\ ready \in Seq(ProcType)
    BY <1>1, <2>1, RemoveAtProperties
  <2>3. ScheduleProc(d, k) = Run(d, p, ready, d.aux, -1)
    BY <1>3 DEF ScheduleProc, Run
  <2>4. ASSUME scheduler = "srtf"
        PROVE  /\ \A j \in DOMAIN ready : p.rem <= ready[j].rem
               /\ d.exec # NoProc => p.rem <= d.exec.rem
    <3>1. k \in Firsts(d.ready) /\ Tops(d) = Firsts(d.ready)
      BY <1>3, <2>4 DEF Tops
    <3>2. \A j \in DOMAIN d.ready : p.rem <= d.ready[j].rem
      BY <1>1, <2>4, <3>1, FirstIsShortest
    <3>3. \A j \in DOMAIN ready : \E i \in DOMAIN d.ready : ready[j] = d.ready[i]
      BY <1>1, <2>1, RemoveAtProperties
    <3>4. ASSUME d.exec # NoProc
          PROVE  p.rem <= d.exec.rem
      <4>1. PICK i \in Firsts(d.ready) : d.ready[i].rem < d.exec.rem
        BY <2>4, <3>1, <3>4 DEF ToSchedule
      <4>2. i \in DOMAIN d.ready /\ d.ready[i] \in ProcType /\ d.exec \in ProcType
        BY <1>1, <3>4 DEF Firsts, DeviceType, Occupant
      <4>3. p.rem <= d.ready[i].rem
        BY <3>2, <4>2
      <4>4. \A r \in ProcType : r.rem \in Nat
        BY DEF ProcType
      <4> QED
        BY <2>2, <4>1, <4>2, <4>3, <4>4
    <3> HIDE DEF p, ready
    <3> QED
      BY <3>2, <3>3, <3>4
  <2>5. -1 \in Int /\ -1 + 1 < timeQuantum
    BY QuantumAssumption
  <2>6. Chosen(d, p, ready, d.aux) /\ (Booked(d) => -1 \in -1 .. d.ticks)
    BY <2>1, FromReady, RestOfQuantum
  <2> HIDE DEF p, ready
  <2>7. /\ Kept(Count(Run(d, p, ready, d.aux, -1)))
        /\ Run(d, p, ready, d.aux, -1) \in DeviceType
    BY <1>1, <1>3, <2>2, <2>4, <2>5, RunKept
  <2>8. Same(d, Run(d, p, ready, d.aux, -1))
    BY <1>1, <2>2, <2>5, <2>6, RunMoves
  <2> QED
    BY <2>3, <2>7, <2>8
<1> QED
  BY <1>2, <1>3

\* An iteration of the loop of Processor.
LEMMA IterationKept ==
  ASSUME NEW d \in DeviceType, AuxOfVrr(d), scheduler \in Programs, NEW e \in Iteration(d)
  PROVE  Kept(e) /\ Ticked(d, e)
<1> DEFINE f == FreshArrivals(d)
           s == Served(f)
<1>1. f \in DeviceType /\ f.aux = d.aux
  BY FreshArrivalsKeeps
<1>2. s \in DeviceType /\ AuxOfVrr(s) /\ Serves(f, s)
  BY <1>1, ServedType DEF AuxOfVrr
<1>3. \/ /\ ToSchedule(s)
         /\ \E k \in IF s.aux # <<>> THEN {1} ELSE Tops(s) : e = Count(ScheduleProc(s, k))
      \/ ~ToSchedule(s) /\ e = Count(s)
  BY DEF Iteration
<1> HIDE DEF s
<1>4. CASE ~ToSchedule(s) /\ e = Count(s)
  BY <1>2, <1>4, NotScheduled DEF Ticked
<1>5. ASSUME ToSchedule(s), NEW k \in IF s.aux # <<>> THEN {1} ELSE Tops(s),
             e = Count(ScheduleProc(s, k))
      PROVE  Kept(e) /\ Ticked(d, e)
  <2>1. /\ Kept(e) /\ ScheduleProc(s, k) \in DeviceType
        /\ Serves(f, ScheduleProc(s, k))
    BY <1>2, <1>5, Scheduled, ServesTransitive
  <2> QED
    BY <1>5, <2>1 DEF Ticked
<1> QED
  BY <1>3, <1>4, <1>5

-----------------------------------------------------------------------------
(* An iteration of the four programs before it.                            *)

\* The process that their IO device gives back.
LEMMA ReturnedType ==
  ASSUME NEW d \in DeviceType, NEW back \in {"ready", "aux"}
  PROVE  /\ Returned(d, back) \in DeviceType /\ Returned(d, back).exec = d.exec
         /\ back = "ready" => Returned(d, back).aux = d.aux
         /\ Same(d, Returned(d, back))
<1> DEFINE n == [d EXCEPT !.countIO = @ + 1]
           r == [d EXCEPT !.countIO = @ + 1, !.execIO = NoProc, !.ready = Append(@, d.execIO)]
           a == [d EXCEPT !.countIO = @ + 1, !.execIO = NoProc, !.aux = Append(@, d.execIO)]
<1>1. d.countIO + 1 \in Nat /\ NoProc \in Occupant
  BY DEF DeviceType, Occupant
<1>2. n \in DeviceType /\ n.exec = d.exec /\ n.aux = d.aux /\ Same(d, n) /\ Same(d, d)
  <2>1. n \in DeviceType /\ n.exec = d.exec /\ n.aux = d.aux
    BY <1>1 DEF DeviceType
  <2>2. Same(d, n) /\ Same(d, d)
    BY <1>1, CountIOSame
  <2> QED
    BY <2>1, <2>2
<1>3. ASSUME d.execIO # NoProc
      PROVE  /\ r \in DeviceType /\ r.exec = d.exec /\ r.aux = d.aux /\ Same(d, r)
             /\ a \in DeviceType /\ a.exec = d.exec /\ Same(d, a)
  <2>1. Append(d.ready, d.execIO) \in Seq(ProcType) /\ Append(d.aux, d.execIO) \in Seq(ProcType)
    BY <1>3 DEF DeviceType, Occupant
  <2>2. /\ r \in DeviceType /\ r.execIO = NoProc /\ r.procs = d.procs /\ r.io = d.io
        /\ r.completed = d.completed /\ r.exec = d.exec /\ r.total = d.total /\ r.ticks = d.ticks
        /\ r.q = d.q /\ r.idle = d.idle
        /\ r.ready = Append(d.ready, d.execIO) /\ r.aux = d.aux
    BY <1>1, <2>1 DEF DeviceType
  <2>3. /\ a \in DeviceType /\ a.execIO = NoProc /\ a.procs = d.procs /\ a.io = d.io
        /\ a.completed = d.completed /\ a.exec = d.exec /\ a.total = d.total /\ a.ticks = d.ticks
        /\ a.q = d.q /\ a.idle = d.idle
        /\ a.aux = Append(d.aux, d.execIO) /\ a.ready = d.ready
    BY <1>1, <2>1 DEF DeviceType
  <2> HIDE DEF r, a
  <2>4. Same(d, r)
    BY <1>3, <2>2, GivenBack
  <2>5. Same(d, a)
    BY <1>3, <2>3, GivenBack
  <2> QED
    BY <2>2, <2>3, <2>4, <2>5
<1>4. \/ Returned(d, back) = d \/ Returned(d, back) = n
      \/ d.execIO # NoProc /\ back = "ready" /\ Returned(d, back) = r
      \/ d.execIO # NoProc /\ back = "aux" /\ Returned(d, back) = a
  BY DEF Returned, DeviceType
<1> HIDE DEF n, r, a
<1> QED
  BY <1>2, <1>3, <1>4

\* A tick of the CPU and one of the IO device.
LEMMA StandaloneType ==
  ASSUME NEW d \in DeviceType, NEW saved \in {0, (d.q + 1) % timeQuantum},
         NEW back \in {"ready", "aux"}, AuxOfVrr(d), scheduler # "vrr" => back = "ready"
  PROVE  LET f == FreshArrivals(d)
             s == Returned(IF f.exec = NoProc THEN f ELSE Execute(f, saved), back)
         IN /\ s \in DeviceType /\ AuxOfVrr(s) /\ Serves(f, s)
            /\ \A k \in DOMAIN s.io :
                   /\ Started(s, k) \in DeviceType /\ AuxOfVrr(Started(s, k))
                   /\ s.execIO = NoProc => Serves(f, Started(s, k))
<1> DEFINE f == FreshArrivals(d)
           x == IF f.exec = NoProc THEN f ELSE Execute(f, saved)
           s == Returned(x, back)
<1>1. f \in DeviceType /\ f.aux = d.aux /\ f.q = d.q
  BY FreshArrivalsKeeps
<1> HIDE DEF f
<1>2. x \in DeviceType /\ x.aux = f.aux /\ Serves(f, x)
  <2>1. saved \in {0, (f.q + 1) % timeQuantum}
    BY <1>1
  <2> QED
    BY <1>1, <2>1, TurnServes
<1> HIDE DEF x
<1>3. s \in DeviceType /\ (scheduler # "vrr" => s.aux = x.aux) /\ Serves(f, s)
  BY <1>2, ReturnedType, ServesTransitive
<1> HIDE DEF s
<1>4. AuxOfVrr(s)
  BY <1>1, <1>2, <1>3 DEF AuxOfVrr
<1>5. \A k \in DOMAIN s.io :
          /\ Started(s, k) \in DeviceType /\ AuxOfVrr(Started(s, k))
          /\ s.execIO = NoProc => Serves(f, Started(s, k))
  BY <1>3, <1>4, StartedType, ServesTransitive DEF AuxOfVrr
<1> QED
  BY <1>3, <1>4, <1>5 DEF s, x, f

\* SJF.cpp
LEMMA SJFKept ==
  ASSUME NEW d \in DeviceType, AuxOfVrr(d), scheduler = "sjf", NEW e \in SJFProcessor(d)
  PROVE  Kept(e) /\ Ticked(d, e)
<1>1. 0 \in {0, (d.q + 1) % timeQuantum}
  OBVIOUS
<1> DEFINE x == SJFProcess(SJFArrivals(d))
<1>2. PICK s \in SJFIoDevice(x) :
          e \in IF s.exec = NoProc /\ s.ready # <<>>
                THEN {CountTicks(Dispatch(s, s.ready[k], RemoveAt(s.ready, k))) : k \in SJFCmp(s.ready)}
                ELSE {CountTicks(s)}
  BY DEF SJFProcessor
<1>3. s \in DeviceType /\ AuxOfVrr(s) /\ Serves(FreshArrivals(d), s)
  <2> DEFINE r == Returned(x, "ready")
  <2>1. /\ r \in DeviceType /\ AuxOfVrr(r) /\ Serves(FreshArrivals(d), r)
        /\ \A k \in DOMAIN r.io :
               /\ Started(r, k) \in DeviceType /\ AuxOfVrr(Started(r, k))
               /\ r.execIO = NoProc => Serves(FreshArrivals(d), Started(r, k))
    BY <1>1, StandaloneType DEF SJFProcess, SJFArrivals
  <2> HIDE DEF x
  <2>2. s = r \/ (r.execIO = NoProc /\ \E k \in Firsts(r.io) : s = Started(r, k))
    BY <1>2 DEF SJFIoDevice, SJFCmp
  <2> HIDE DEF r
  <2> QED
    BY <2>1, <2>2 DEF Firsts
<1> HIDE DEF x
<1>4. CASE s.exec = NoProc /\ s.ready # <<>>
  <2>1. PICK k \in Firsts(s.ready) : e = CountTicks(Dispatch(s, s.ready[k], RemoveAt(s.ready, k)))
    BY <1>2, <1>4 DEF SJFCmp
  <2>2. /\ s.ready \in Seq(ProcType) /\ s.aux \in Seq(ProcType) /\ s.q \in Int /\ s.aux = <<>>
    BY <1>3 DEF DeviceType, AuxOfVrr
  <2>3. k \in DOMAIN s.ready
    BY DEF Firsts
  <2>4. s.ready[k] \in ProcType /\ RemoveAt(s.ready, k) \in Seq(ProcType)
    BY <2>2, <2>3, RemoveAtProperties
  <2>5. Dispatch(s, s.ready[k], RemoveAt(s.ready, k))
            = Run(s, s.ready[k], RemoveAt(s.ready, k), s.aux, s.q)
    BY <1>3 DEF Dispatch, Run, DeviceType
  <2> DEFINE u == Run(s, s.ready[k], RemoveAt(s.ready, k), s.aux, s.q)
  <2>6. u \in DeviceType /\ Kept(CountTicks(u))
    BY <1>3, <2>2, <2>4, RunKept
  <2>7. Same(s, u)
    BY <1>3, <2>2, <2>3, <2>4, FromReady, RestOfQuantum, RunMoves
  <2> HIDE DEF u
  <2>8. e = CountTicks(u) /\ Serves(FreshArrivals(d), u)
    BY <1>3, <2>1, <2>5, <2>7, ServesTransitive DEF u
  <2> QED
    BY <2>6, <2>8 DEF Ticked
<1>5. CASE ~(s.exec = NoProc /\ s.ready # <<>>)
  <2>1. e = CountTicks(s)
    BY <1>2, <1>5
  <2> QED
    BY <1>3, <1>5, <2>1, CountType DEF Kept, Rules, AuxOfVrr, Ticked
<1> QED
  BY <1>4, <1>5

\* The turn of SRTF.cpp: one of those with the least left, if that is less.
SRTFTurn(s, e) ==
    \/ s.ready = <<>> /\ e = CountTicks(s)
    \/ \E k \in SRTFCmp(s.ready) :
           e \in IF s.exec = NoProc \/ s.ready[k].rem < s.exec.rem
                 THEN {CountTicks(Dispatch(s, s.ready[k], RemoveAt(s.ready, k)))}
                 ELSE {CountTicks(s)}

LEMMA SRTFTurns ==
  ASSUME NEW d, NEW e \in SRTFProcessor(d)
  PROVE  \E s \in SRTFIoDevice(SRTFProcess(SRTFArrivals(d))) : SRTFTurn(s, e)
<1> DEFINE x == SRTFProcess(SRTFArrivals(d))
           Choice(s, k) == IF s.exec = NoProc \/ s.ready[k].rem < s.exec.rem
                          THEN {CountTicks(Dispatch(s, s.ready[k], RemoveAt(s.ready, k)))}
                          ELSE {CountTicks(s)}
           Outcomes(s) == (IF s.ready = <<>> THEN {CountTicks(s)} ELSE {})
                          \cup UNION {Choice(s, k) : k \in SRTFCmp(s.ready)}
<1>1. SRTFProcessor(d) = UNION {Outcomes(s) : s \in SRTFIoDevice(x)}
  BY DEF SRTFProcessor
<1> HIDE DEF x, Choice
<1>2. PICK s \in SRTFIoDevice(x) : e \in Outcomes(s)
  BY <1>1
<1>3. \/ s.ready = <<>> /\ e = CountTicks(s)
      \/ \E k \in SRTFCmp(s.ready) : e \in Choice(s, k)
  <2>1. CASE e \in UNION {Choice(s, k) : k \in SRTFCmp(s.ready)}
    BY <2>1, Zenon
  <2>2. CASE e \in IF s.ready = <<>> THEN {CountTicks(s)} ELSE {}
    BY <2>2
  <2> QED
    BY <1>2, <2>1, <2>2
<1> QED
  BY <1>2, <1>3 DEF Choice, SRTFTurn, x

\* SRTF.cpp
LEMMA SRTFKept ==
  ASSUME NEW d \in DeviceType, AuxOfVrr(d), scheduler = "srtf", NEW e \in SRTFProcessor(d)
  PROVE  Kept(e) /\ Ticked(d, e)
<1>1. 0 \in {0, (d.q + 1) % timeQuantum}
  OBVIOUS
<1> DEFINE x == SRTFProcess(SRTFArrivals(d))
<1>2. PICK s \in SRTFIoDevice(x) :
          \/ s.ready = <<>> /\ e = CountTicks(s)
          \/ \E k \in SRTFCmp(s.ready) :
                 e \in IF s.exec = NoProc \/ s.ready[k].rem < s.exec.rem
                       THEN {CountTicks(Dispatch(s, s.ready[k], RemoveAt(s.ready, k)))}
                       ELSE {CountTicks(s)}
  BY SRTFTurns DEF SRTFTurn
<1>3. s \in DeviceType /\ AuxOfVrr(s) /\ Serves(FreshArrivals(d), s)
  <2> DEFINE r == Returned(x, "ready")
  <2>1. /\ r \in DeviceType /\ AuxOfVrr(r) /\ Serves(FreshArrivals(d), r)
        /\ \A k \in DOMAIN r.io :
               /\ Started(r, k) \in DeviceType /\ AuxOfVrr(Started(r, k))
               /\ r.execIO = NoProc => Serves(FreshArrivals(d), Started(r, k))
    BY <1>1, StandaloneType DEF SRTFProcess, SRTFArrivals
  <2> HIDE DEF x
  <2>2. s = r \/ (r.execIO = NoProc /\ \E k \in Firsts(r.io) : s = Started(r, k))
    BY <1>2 DEF SRTFIoDevice, SRTFCmp
  <2> HIDE DEF r
  <2> QED
    BY <2>1, <2>2 DEF Firsts
<1> HIDE DEF x
<1>4. CASE s.ready = <<>> /\ e = CountTicks(s)
  <2>1. s.aux = <<>>
    BY <1>3 DEF AuxOfVrr
  <2> QED
    BY <1>3, <1>4, <2>1, CountType DEF Kept, Rules, AuxOfVrr, ToSet, Ticked
<1>5. ASSUME NEW k \in Firsts(s.ready),
             e \in IF s.exec = NoProc \/ s.ready[k].rem < s.exec.rem
                   THEN {CountTicks(Dispatch(s, s.ready[k], RemoveAt(s.ready, k)))}
                   ELSE {CountTicks(s)}
      PROVE  Kept(e) /\ Ticked(d, e)
  <2> DEFINE p == s.ready[k]
             ready == RemoveAt(s.ready, k)
  <2>1. /\ s.ready \in Seq(ProcType) /\ s.aux \in Seq(ProcType) /\ s.q \in Int /\ s.aux = <<>>
    BY <1>3 DEF DeviceType, AuxOfVrr
  <2>2. k \in DOMAIN s.ready /\ \A j \in DOMAIN s.ready : p.rem <= s.ready[j].rem
    BY <2>1, FirstIsShortest
  <2>3. /\ p \in ProcType /\ ready \in Seq(ProcType)
        /\ \A j \in DOMAIN ready : \E i \in DOMAIN s.ready : ready[j] = s.ready[i]
    BY <2>1, <2>2, RemoveAtProperties
  <2>4. \A j \in DOMAIN ready : p.rem <= ready[j].rem
    <3> HIDE DEF p, ready
    <3> QED
      BY <2>2, <2>3
  <2>5. p.rem \in Nat /\ (s.exec # NoProc => s.exec.rem \in Nat)
    <3>1. \A r \in ProcType : r.rem \in Nat
      BY DEF ProcType
    <3>2. s.exec # NoProc => s.exec \in ProcType
      BY <1>3 DEF DeviceType, Occupant
    <3> QED
      BY <2>3, <3>1, <3>2
  <2>6. CASE s.exec = NoProc \/ p.rem < s.exec.rem
    <3>1. e = CountTicks(Dispatch(s, p, ready))
      BY <1>5, <2>6
    <3>2. Dispatch(s, p, ready) = Run(s, p, ready, s.aux, s.q)
      BY <1>3 DEF Dispatch, Run, DeviceType
    <3>3. s.exec # NoProc => p.rem <= s.exec.rem
      BY <2>5, <2>6
    <3>4. Chosen(s, p, ready, s.aux) /\ (Booked(s) => s.q \in -1 .. s.ticks)
      BY <1>3, <2>2, FromReady, RestOfQuantum
    <3> HIDE DEF p, ready
    <3> DEFINE u == Run(s, p, ready, s.aux, s.q)
    <3>5. u \in DeviceType /\ Kept(CountTicks(u))
      BY <1>3, <2>1, <2>3, <2>4, <3>3, RunKept
    <3>6. Same(s, u)
      BY <1>3, <2>1, <2>3, <3>4, RunMoves
    <3> HIDE DEF u
    <3>7. e = CountTicks(u) /\ Serves(FreshArrivals(d), u)
      BY <1>3, <3>1, <3>2, <3>6, ServesTransitive DEF u
    <3> QED
      BY <3>5, <3>7 DEF Ticked
  <2>7. CASE ~(s.exec = NoProc \/ p.rem < s.exec.rem)
    <3>1. e = CountTicks(s) /\ s.exec # NoProc
      BY <1>5, <2>7
    <3>2. \A r \in ToSet(s.ready) : s.exec.rem <= r.rem
      <4> TAKE r \in ToSet(s.ready)
      <4>1. PICK j \in DOMAIN s.ready : r = s.ready[j]
        BY DEF ToSet
      <4>2. s.ready[j] \in ProcType
        BY <2>1
      <4>3. r.rem \in Nat
        BY <4>1, <4>2 DEF ProcType
      <4>4. p.rem <= r.rem
        BY <2>2, <4>1
      <4> HIDE DEF p
      <4> QED
        BY <2>5, <2>7, <4>3, <4>4
    <3> QED
      BY <1>3, <2>1, <3>1, <3>2, CountType DEF Kept, Rules, AuxOfVrr, Ticked
  <2> QED
    BY <2>6, <2>7
<1> QED
  BY <1>2, <1>4, <1>5 DEF SRTFCmp

\* RR.cpp
LEMMA RRKept ==
  ASSUME NEW d \in DeviceType, AuxOfVrr(d), scheduler = "rr", NEW e \in RRProcessor(d)
  PROVE  Kept(e) /\ Ticked(d, e)
<1>1. 0 \in {0, (d.q + 1) % timeQuantum}
  OBVIOUS
<1> DEFINE x == RRProcess(RRArrivals(d))
           s == RRIoDevice(x)
           expired == s.ready # <<>> /\ (s.exec = NoProc \/ s.q + 1 >= timeQuantum)
<1>2. e = IF expired THEN Count([Dispatch(s, Head(s.ready), Tail(s.ready)) EXCEPT !.q = -1])
          ELSE Count(s)
  BY DEF RRProcessor
<1>3. s \in DeviceType /\ AuxOfVrr(s) /\ Serves(FreshArrivals(d), s)
  <2> DEFINE r == Returned(x, "ready")
  <2>1. /\ r \in DeviceType /\ AuxOfVrr(r) /\ Serves(FreshArrivals(d), r)
        /\ \A k \in DOMAIN r.io :
               /\ Started(r, k) \in DeviceType /\ AuxOfVrr(Started(r, k))
               /\ r.execIO = NoProc => Serves(FreshArrivals(d), Started(r, k))
    BY <1>1, StandaloneType DEF RRProcess, RRArrivals
  <2> HIDE DEF x
  <2>2. s = IF r.execIO = NoProc /\ r.io # <<>> THEN Started(r, 1) ELSE r
    BY DEF RRIoDevice
  <2> HIDE DEF r, s
  <2>3. r.io # <<>> => 1 \in DOMAIN r.io
    BY <2>1, SomebodyFirst
  <2> QED
    BY <2>1, <2>2, <2>3
<1> HIDE DEF s
<1>4. s.ready \in Seq(ProcType) /\ s.aux \in Seq(ProcType) /\ s.q \in Int /\ s.aux = <<>>
  BY <1>3 DEF DeviceType, AuxOfVrr
<1>5. CASE expired
  <2> DEFINE p == Head(s.ready)
             ready == Tail(s.ready)
  <2>1. p \in ProcType /\ ready \in Seq(ProcType)
    BY <1>4, <1>5
  <2>2. [Dispatch(s, p, ready) EXCEPT !.q = -1] = Run(s, p, ready, s.aux, -1)
    BY <1>3 DEF Dispatch, Run, DeviceType
  <2>3. -1 \in Int /\ -1 + 1 < timeQuantum
    BY QuantumAssumption
  <2>4. e = Count(Run(s, p, ready, s.aux, -1))
    BY <1>2, <1>5, <2>2
  <2>5. Chosen(s, p, ready, s.aux) /\ (Booked(s) => -1 \in -1 .. s.ticks)
    BY <1>3, <1>5, FromHead, RestOfQuantum
  <2> HIDE DEF p, ready
  <2> DEFINE u == Run(s, p, ready, s.aux, -1)
  <2>6. u \in DeviceType /\ Kept(Count(u))
    BY <1>3, <1>4, <2>1, <2>3, RunKept
  <2>7. Same(s, u)
    BY <1>3, <1>4, <2>1, <2>3, <2>5, RunMoves
  <2> HIDE DEF u
  <2>8. e = Count(u) /\ Serves(FreshArrivals(d), u)
    BY <1>3, <2>4, <2>7, ServesTransitive DEF u
  <2> QED
    BY <2>6, <2>8 DEF Ticked
<1>6. CASE ~expired
  <2>1. e = Count(s)
    BY <1>2, <1>6
  <2>2. s.ready # <<>> => s.exec # NoProc /\ s.q + 1 < timeQuantum
    BY <1>4, <1>6, QuantumAssumption
  <2> QED
    BY <1>3, <1>4, <2>1, <2>2, CountType DEF Kept, Rules, AuxOfVrr, Ticked
<1> QED
  BY <1>5, <1>6

\* VRR.cpp
LEMMA VRRKept ==
  ASSUME NEW d \in DeviceType, AuxOfVrr(d), scheduler = "vrr", NEW e \in VRRProcessor(d)
  PROVE  Kept(e) /\ Ticked(d, e)
<1>1. FreshArrivals(d) \in DeviceType /\ FreshArrivals(d).q = d.q
  BY FreshArrivalsKeeps
<1> DEFINE x == VRRProcess(VRRArrivals(d))
           s == VRRIoDevice(x)
           expired == /\ s.ready # <<>> \/ s.aux # <<>>
                      /\ s.exec = NoProc \/ s.q + 1 >= timeQuantum
<1>2. e = IF ~expired THEN Count(s)
          ELSE IF s.aux # <<>>
          THEN Count([Dispatch(s, Head(s.aux), s.ready)
                        EXCEPT !.q = Head(s.aux).saved - 1, !.aux = Tail(@)])
          ELSE Count([Dispatch(s, Head(s.ready), Tail(s.ready)) EXCEPT !.q = -1])
  BY DEF VRRProcessor
<1>3. s \in DeviceType /\ Serves(FreshArrivals(d), s)
  <2> DEFINE f == FreshArrivals(d)
             saved == (f.q + 1) % timeQuantum
             y == IF f.exec = NoProc THEN f ELSE Execute(f, saved)
             r == Returned(y, "aux")
  <2>1. f \in DeviceType
    BY <1>1
  <2>2. x = y
    BY DEF VRRProcess, VRRArrivals
  <2>3. saved \in {0, (d.q + 1) % timeQuantum}
    BY <1>1
  <2> HIDE DEF saved
  <2>4. /\ r \in DeviceType /\ Serves(f, r)
        /\ \A k \in DOMAIN r.io : /\ Started(r, k) \in DeviceType
                                  /\ r.execIO = NoProc => Serves(f, Started(r, k))
    BY <2>3, StandaloneType
  <2>5. s = IF r.execIO = NoProc /\ r.io # <<>> THEN Started(r, 1) ELSE r
    BY <2>2 DEF VRRIoDevice
  <2> HIDE DEF f, r, s, x, y
  <2>6. r.io # <<>> => 1 \in DOMAIN r.io
    BY <2>4, SomebodyFirst
  <2>7. s \in DeviceType
    BY <2>4, <2>5, <2>6
  <2>8. Serves(f, s)
    BY <2>4, <2>5, <2>6
  <2> QED
    BY <2>7, <2>8 DEF f
<1> HIDE DEF s
<1>4. s.ready \in Seq(ProcType) /\ s.aux \in Seq(ProcType) /\ s.q \in Int
  BY <1>3 DEF DeviceType
<1>5. CASE expired /\ s.aux # <<>>
  <2> DEFINE p == Head(s.aux)
             aux == Tail(s.aux)
  <2>1. p \in ProcType /\ aux \in Seq(ProcType)
    BY <1>4, <1>5
  <2>2. [Dispatch(s, p, s.ready) EXCEPT !.q = p.saved - 1, !.aux = Tail(@)]
            = Run(s, p, s.ready, aux, p.saved - 1)
    BY <1>3 DEF Dispatch, Run, DeviceType
  <2>3. p.saved - 1 \in Int /\ p.saved - 1 + 1 < timeQuantum
    <3>1. p.saved \in 0 .. timeQuantum - 1
      BY <2>1 DEF ProcType
    <3> QED
      BY <3>1, QuantumAssumption
  <2>4. e = Count(Run(s, p, s.ready, aux, p.saved - 1))
    BY <1>2, <1>5, <2>2
  <2>5. Chosen(s, p, s.ready, aux) /\ (Booked(s) => p.saved - 1 \in -1 .. s.ticks)
    BY <1>3, <1>5, FromAux, RestOfQuantum
  <2> HIDE DEF p, aux
  <2> DEFINE u == Run(s, p, s.ready, aux, p.saved - 1)
  <2>6. u \in DeviceType /\ Kept(Count(u))
    BY <1>3, <1>4, <2>1, <2>3, RunKept
  <2>7. Same(s, u)
    BY <1>3, <1>4, <2>1, <2>3, <2>5, RunMoves
  <2> HIDE DEF u
  <2>8. e = Count(u) /\ Serves(FreshArrivals(d), u)
    BY <1>3, <2>4, <2>7, ServesTransitive DEF u
  <2> QED
    BY <2>6, <2>8 DEF Ticked
<1>6. CASE expired /\ s.aux = <<>>
  <2> DEFINE p == Head(s.ready)
             ready == Tail(s.ready)
  <2>1. p \in ProcType /\ ready \in Seq(ProcType)
    BY <1>4, <1>6
  <2>2. [Dispatch(s, p, ready) EXCEPT !.q = -1] = Run(s, p, ready, s.aux, -1)
    BY <1>3 DEF Dispatch, Run, DeviceType
  <2>3. -1 \in Int /\ -1 + 1 < timeQuantum
    BY QuantumAssumption
  <2>4. e = Count(Run(s, p, ready, s.aux, -1))
    BY <1>2, <1>6, <2>2
  <2>5. Chosen(s, p, ready, s.aux) /\ (Booked(s) => -1 \in -1 .. s.ticks)
    BY <1>3, <1>6, FromHead, RestOfQuantum
  <2> HIDE DEF p, ready
  <2> DEFINE u == Run(s, p, ready, s.aux, -1)
  <2>6. u \in DeviceType /\ Kept(Count(u))
    BY <1>3, <1>4, <2>1, <2>3, RunKept
  <2>7. Same(s, u)
    BY <1>3, <1>4, <2>1, <2>3, <2>5, RunMoves
  <2> HIDE DEF u
  <2>8. e = Count(u) /\ Serves(FreshArrivals(d), u)
    BY <1>3, <2>4, <2>7, ServesTransitive DEF u
  <2> QED
    BY <2>6, <2>8 DEF Ticked
<1>7. CASE ~expired
  <2>1. e = Count(s)
    BY <1>2, <1>7
  <2>2. s.ready # <<>> \/ s.aux # <<>> => s.exec # NoProc /\ s.q + 1 < timeQuantum
    BY <1>4, <1>7, QuantumAssumption
  <2> QED
    BY <1>3, <1>4, <2>1, <2>2, CountType DEF Kept, Rules, AuxOfVrr, Ticked
<1> QED
  BY <1>5, <1>6, <1>7

-----------------------------------------------------------------------------
(* No process is lost or doubled.                                          *)

\* One queue behind another.
LEMMA IdsOfConcat ==
  ASSUME NEW q \in Seq(ProcType), NEW r \in Seq(ProcType)
  PROVE  /\ q \o r \in Seq(ProcType) /\ Len(q \o r) = Len(q) + Len(r)
         /\ IdsOf(q \o r) = IdsOf(q) \cup IdsOf(r)
<1>1. PICK m, n \in Nat : m = Len(q) /\ n = Len(r)
  OBVIOUS
<1> DEFINE c == q \o r
<1>2. /\ c \in Seq(ProcType) /\ Len(c) = m + n
      /\ \A i \in 1 .. m + n : c[i] = IF i <= m THEN q[i] ELSE r[i - m]
  BY <1>1, ConcatProperties
<1>3. DOMAIN c = 1 .. m + n /\ DOMAIN q = 1 .. m /\ DOMAIN r = 1 .. n
  BY <1>1, <1>2, LenProperties
<1> HIDE DEF c
<1>4. \A i \in DOMAIN c : (\E j \in DOMAIN q : c[i] = q[j]) \/ \E j \in DOMAIN r : c[i] = r[j]
  <2> SUFFICES ASSUME NEW i \in 1 .. m + n
               PROVE  (\E j \in 1 .. m : c[i] = q[j]) \/ \E j \in 1 .. n : c[i] = r[j]
    BY <1>3
  <2>1. CASE i <= m
    BY <1>2, <2>1
  <2>2. CASE i > m
    <3>1. i - m \in 1 .. n /\ ~(i <= m)
      BY <2>2
    <3> QED
      BY <1>2, <3>1
  <2> QED
    BY <2>1, <2>2
<1>5. \A j \in DOMAIN q : \E i \in DOMAIN c : c[i] = q[j]
  <2>1. \A j \in 1 .. m : j \in 1 .. m + n /\ j <= m
    OBVIOUS
  <2> QED
    BY <1>2, <1>3, <2>1
<1>6. \A j \in DOMAIN r : \E i \in DOMAIN c : c[i] = r[j]
  <2>1. \A j \in 1 .. n : j + m \in 1 .. m + n /\ ~(j + m <= m) /\ (j + m) - m = j
    OBVIOUS
  <2>2. \A j \in 1 .. n : c[j + m] = r[j]
    BY <1>2, <2>1
  <2> QED
    BY <1>3, <2>1, <2>2
<1>7. IdsOf(c) = IdsOf(q) \cup IdsOf(r)
  BY <1>4, <1>5, <1>6 DEF IdsOf
<1> QED
  BY <1>1, <1>2, <1>7 DEF c

\* What Conservation looks at.
LEMMA EverywhereSize ==
  ASSUME NEW d \in DeviceType
  PROVE  /\ Len(Everywhere(d)) = Size(d)
         /\ {p.id : p \in ToSet(Everywhere(d))} = Ids(d)
<1>1. On(d.exec) \in Seq(ProcType) /\ On(d.execIO) \in Seq(ProcType)
  <2>1. \A p \in ProcType : <<p>> \in Seq(ProcType)
    OBVIOUS
  <2>2. \A p \in Occupant : On(p) \in Seq(ProcType)
    BY <2>1, IdsOfDevice, EmptySeq DEF Occupant
  <2> QED
    BY <2>2 DEF DeviceType
<1>2. /\ d.procs \in Seq(ProcType) /\ d.ready \in Seq(ProcType) /\ d.aux \in Seq(ProcType)
      /\ d.io \in Seq(ProcType) /\ d.completed \in Seq(ProcType)
  BY DEF DeviceType
<1> DEFINE q2 == d.procs \o d.ready
           q3 == q2 \o d.aux
           q4 == q3 \o d.io
           q5 == q4 \o d.completed
           q6 == q5 \o On(d.exec)
           q7 == q6 \o On(d.execIO)
<1>3. Everywhere(d) = q7
  BY DEF Everywhere
<1>4. /\ q2 \in Seq(ProcType) /\ Len(q2) = Len(d.procs) + Len(d.ready)
      /\ IdsOf(q2) = IdsOf(d.procs) \cup IdsOf(d.ready)
  BY <1>2, IdsOfConcat
<1> HIDE DEF q2
<1>5. /\ q3 \in Seq(ProcType) /\ Len(q3) = Len(q2) + Len(d.aux)
      /\ IdsOf(q3) = IdsOf(q2) \cup IdsOf(d.aux)
  BY <1>2, <1>4, IdsOfConcat
<1> HIDE DEF q3
<1>6. /\ q4 \in Seq(ProcType) /\ Len(q4) = Len(q3) + Len(d.io)
      /\ IdsOf(q4) = IdsOf(q3) \cup IdsOf(d.io)
  BY <1>2, <1>5, IdsOfConcat
<1> HIDE DEF q4
<1>7. /\ q5 \in Seq(ProcType) /\ Len(q5) = Len(q4) + Len(d.completed)
      /\ IdsOf(q5) = IdsOf(q4) \cup IdsOf(d.completed)
  BY <1>2, <1>6, IdsOfConcat
<1> HIDE DEF q5
<1>8. /\ q6 \in Seq(ProcType) /\ Len(q6) = Len(q5) + Len(On(d.exec))
      /\ IdsOf(q6) = IdsOf(q5) \cup IdsOf(On(d.exec))
  BY <1>1, <1>7, IdsOfConcat
<1> HIDE DEF q6
<1>9. /\ q7 \in Seq(ProcType) /\ Len(q7) = Len(q6) + Len(On(d.execIO))
      /\ IdsOf(q7) = IdsOf(q6) \cup IdsOf(On(d.execIO))
  BY <1>1, <1>8, IdsOfConcat
<1> HIDE DEF q7
<1>10. Len(q7) = Size(d)
  BY <1>4, <1>5, <1>6, <1>7, <1>8, <1>9 DEF Size
<1>11. IdsOf(q7) = Ids(d)
  BY <1>4, <1>5, <1>6, <1>7, <1>8, <1>9 DEF Ids
<1>12. {p.id : p \in ToSet(q7)} = IdsOf(q7)
  BY DEF ToSet, IdsOf
<1> QED
  BY <1>3, <1>10, <1>11, <1>12

\* What a tick keeps of the processes of a list without two of one tick.
Conserved(d) ==
    /\ Size(d) = Len(input) /\ Ids(d) = IdsOf(input)
    /\ d.total + Len(d.completed) = Len(input)
    /\ Expected(d)

\* The arrivals of a tick move one process at most.
LEMMA ArrivalsConserved ==
  ASSUME NEW d \in DeviceType, Conserved(d)
  PROVE  LET e == FreshArrivals(d) IN
         /\ Size(e) = Len(input) /\ Ids(e) = IdsOf(input)
         /\ e.total + Len(e.completed) = Len(input) /\ e.ticks = d.ticks
         /\ \A i, j \in DOMAIN e.procs : i # j => e.procs[i].arr # e.procs[j].arr
         /\ \A i \in DOMAIN e.procs : e.procs[i].arr >= d.ticks + 1
<1> DEFINE e == FreshArrivals(d)
<1>1. /\ e = d \/ \E m \in DOMAIN d.procs : e = [d EXCEPT !.procs = RemoveAt(d.procs, m),
                                                       !.ready = Append(@, d.procs[m])]
      /\ \A i \in DOMAIN e.procs : e.procs[i].arr # d.ticks
  BY FreshArrivalsMoves DEF Conserved
<1>2. Expected(d) /\ d.procs \in Seq(ProcType) /\ d.ready \in Seq(ProcType) /\ d.ticks \in Nat
  BY DEF Conserved, DeviceType
<1>3. e \in DeviceType
  BY FreshArrivalsType
<1> HIDE DEF e
<1>4. CASE e = d
  <2>1. \A i \in DOMAIN e.procs : e.procs[i].arr \in Nat
    <3>1. \A p \in ProcType : p.arr \in Nat
      BY DEF ProcType
    <3>2. \A i \in DOMAIN e.procs : e.procs[i] \in ProcType
      BY <1>2, <1>4
    <3> QED
      BY <3>1, <3>2
  <2>2. \A i \in DOMAIN e.procs : e.procs[i].arr >= d.ticks /\ e.procs[i].arr # d.ticks
    BY <1>1, <1>2, <1>4 DEF Expected
  <2>3. \A i \in DOMAIN e.procs : e.procs[i].arr >= d.ticks + 1
    BY <1>2, <2>1, <2>2
  <2> QED
    BY <1>4, <2>3 DEF Conserved, Expected, e
<1>5. ASSUME NEW m \in DOMAIN d.procs,
             e = [d EXCEPT !.procs = RemoveAt(d.procs, m), !.ready = Append(@, d.procs[m])]
      PROVE  /\ Size(e) = Len(input) /\ Ids(e) = IdsOf(input)
             /\ e.total + Len(e.completed) = Len(input) /\ e.ticks = d.ticks
             /\ \A i, j \in DOMAIN e.procs : i # j => e.procs[i].arr # e.procs[j].arr
             /\ \A i \in DOMAIN e.procs : e.procs[i].arr >= d.ticks + 1
  <2> DEFINE p == d.procs[m]
             left == RemoveAt(d.procs, m)
             ready == Append(d.ready, p)
  <2>1. p \in ProcType
    BY <1>2
  <2>2. /\ IdsOf(d.procs) = IdsOf(left) \cup {p.id} /\ Len(d.procs) = Len(left) + 1
        /\ IdsOf(ready) = IdsOf(d.ready) \cup {p.id} /\ Len(ready) = Len(d.ready) + 1
    BY <1>2, <2>1, IdsOfQueue
  <2>3. /\ left \in Seq(ProcType) /\ Len(left) = Len(d.procs) - 1
        /\ \A j \in 1 .. Len(d.procs) - 1 : left[j] = IF j < m THEN d.procs[j] ELSE d.procs[j + 1]
    BY <1>2, RemoveAtProperties
  <2> HIDE DEF p, left, ready
  <2>4. /\ e.procs = left /\ e.ready = ready /\ e.aux = d.aux /\ e.io = d.io /\ e.exec = d.exec
        /\ e.execIO = d.execIO /\ e.completed = d.completed /\ e.total = d.total /\ e.ticks = d.ticks
    BY <1>5 DEF DeviceType, left, ready, p
  <2>5. Ids(e) = Ids(d)
    BY <2>2, <2>4 DEF Ids
  <2>6. Size(e) = Size(d)
    <3>1. PICK a, b, c, g, h, y, z \in Nat :
              /\ a = Len(d.procs) /\ b = Len(d.ready) /\ c = Len(d.aux) /\ g = Len(d.io)
              /\ h = Len(d.completed) /\ y = Len(On(d.exec)) /\ z = Len(On(d.execIO))
              /\ Size(d) = a + b + c + g + h + y + z
      BY SizeType
    <3>2. PICK l \in Nat : l = Len(left) /\ a = l + 1
      <4>1. \E l \in Nat : l = Len(left)
        BY <2>3
      <4> QED
        BY <2>2, <3>1, <4>1, Zenon
    <3>3. Len(ready) = b + 1
      BY <2>2, <3>1
    <3>4. Size(e) = l + (b + 1) + c + g + h + y + z
      BY <2>4, <3>1, <3>2, <3>3 DEF Size
    <3>5. l + (b + 1) + c + g + h + y + z = a + b + c + g + h + y + z
      BY <3>2
    <3> QED
      BY <3>1, <3>4, <3>5
  <2>7. PICK n \in Nat : n = Len(d.procs)
    BY <1>2
  <2>8. DOMAIN d.procs = 1 .. n /\ DOMAIN left = 1 .. n - 1 /\ m \in 1 .. n
    BY <1>2, <2>3, <2>7, LenProperties
  <2>9. \A i, j \in 1 .. n - 1 : i # j => left[i].arr # left[j].arr
    <3> DEFINE at(i) == IF i < m THEN i ELSE i + 1
    <3>1. \A i \in 1 .. n - 1 : at(i) \in 1 .. n /\ left[i] = d.procs[at(i)]
      BY <2>3, <2>7, <2>8
    <3>2. \A i, j \in 1 .. n - 1 : i # j => at(i) # at(j)
      BY <2>8
    <3> HIDE DEF at
    <3>3. \A i, j \in 1 .. n : i # j => d.procs[i].arr # d.procs[j].arr
      BY <1>2, <2>8 DEF Expected
    <3> QED
      BY <3>1, <3>2, <3>3
  <2>10. \A i \in 1 .. n - 1 : left[i].arr >= d.ticks + 1
    <3> TAKE i \in 1 .. n - 1
    <3>1. PICK k \in 1 .. n : left[i] = d.procs[k]
      BY <2>3, <2>7, <2>8
    <3>2. d.procs[k].arr >= d.ticks /\ d.procs[k] \in ProcType
      <4>1. k \in DOMAIN d.procs
        BY <2>8, Zenon
      <4>2. d.procs[k].arr >= d.ticks
        BY <1>2, <4>1, Zenon DEF Expected
      <4>3. d.procs[k] \in ProcType
        BY <1>2, <4>1
      <4> QED
        BY <4>2, <4>3, Zenon
    <3>3. d.procs[k].arr \in Nat
      BY <3>2 DEF ProcType
    <3>4. left[i].arr # d.ticks
      BY <1>1, <2>4, <2>8
    <3>5. d.procs[k].arr # d.ticks
      BY <3>1, <3>4
    <3> QED
      BY <1>2, <3>1, <3>2, <3>3, <3>5
  <2> QED
    BY <2>4, <2>5, <2>6, <2>8, <2>9, <2>10 DEF Conserved
<1> HIDE DEF e
<1> QED
  BY <1>1, <1>4, <1>5 DEF e

\* And nothing else in it does more than to move them.
LEMMA TickConserves ==
  ASSUME NEW d \in DeviceType, Conserved(d), NEW e \in DeviceType, Ticked(d, e)
  PROVE  Conserved(e)
<1> DEFINE f == FreshArrivals(d)
<1>1. PICK s \in DeviceType : Serves(f, s) /\ (e = Count(s) \/ e = CountTicks(s))
  BY DEF Ticked
<1>2. /\ Size(f) = Len(input) /\ Ids(f) = IdsOf(input)
      /\ f.total + Len(f.completed) = Len(input) /\ f.ticks = d.ticks
      /\ \A i, j \in DOMAIN f.procs : i # j => f.procs[i].arr # f.procs[j].arr
      /\ \A i \in DOMAIN f.procs : f.procs[i].arr >= d.ticks + 1
  BY ArrivalsConserved
<1> HIDE DEF f
<1>3. /\ e.procs = s.procs /\ e.ready = s.ready /\ e.aux = s.aux /\ e.io = s.io
      /\ e.exec = s.exec /\ e.execIO = s.execIO /\ e.completed = s.completed
      /\ e.total = s.total /\ e.ticks = s.ticks + 1
  BY <1>1, CountFields
<1>4. Size(e) = Size(s) /\ Ids(e) = Ids(s)
  BY <1>3 DEF Size, Ids
<1>5. /\ Size(e) = Len(input) /\ Ids(e) = IdsOf(input) /\ e.total + Len(e.completed) = Len(input)
      /\ e.procs = f.procs /\ e.ticks = d.ticks + 1
  BY <1>1, <1>2, <1>3, <1>4 DEF Serves, Stays
<1>6. Expected(e)
  BY <1>2, <1>5 DEF Expected
<1> QED
  BY <1>5, <1>6 DEF Conserved

\* The Device that a scheduler begins with has all of the list.
LEMMA DeviceConserved ==
  ASSUME input \in Seq(ProcType), Distinct
  PROVE  Conserved(Device(input))
<1> DEFINE d == Device(input)
<1>1. /\ d.procs = input /\ d.ready = <<>> /\ d.aux = <<>> /\ d.io = <<>> /\ d.completed = <<>>
      /\ d.exec = NoProc /\ d.execIO = NoProc /\ d.total = Len(input) /\ d.ticks = 0
  BY DEF Device
<1> HIDE DEF d
<1>2. Len(input) \in Nat
  OBVIOUS
<1>3. Size(d) = Len(input)
  BY <1>1, <1>2, IdsOfDevice DEF Size
<1>4. Ids(d) = IdsOf(input)
  BY <1>1, IdsOfDevice DEF Ids
<1>5. d.total + Len(d.completed) = Len(input)
  BY <1>1, <1>2, IdsOfDevice
<1>6. \A i \in DOMAIN input : input[i].arr >= 0
  <2>1. \A i \in DOMAIN input : input[i].arr \in Nat
    <3>1. \A p \in ProcType : p.arr \in Nat
      BY DEF ProcType
    <3>2. \A i \in DOMAIN input : input[i] \in ProcType
      OBVIOUS
    <3> QED
      BY <3>1, <3>2
  <2> QED
    BY <2>1
<1>7. Expected(d)
  BY <1>1, <1>6 DEF Expected, Distinct
<1> QED
  BY <1>3, <1>4, <1>5, <1>7 DEF Conserved, d

-----------------------------------------------------------------------------
(* The books of a Computable list.                                         *)

\* A tick settles them.
LEMMA CountSettles ==
  ASSUME NEW d \in DeviceType, Booked(d), NEW e \in {Count(d), CountTicks(d)}
  PROVE  /\ Settled(e) /\ Size(e) = Size(d)
         /\ e.total + Len(e.completed) = d.total + Len(d.completed)
<1>1. /\ e.procs = d.procs /\ e.ready = d.ready /\ e.aux = d.aux /\ e.io = d.io
      /\ e.exec = d.exec /\ e.execIO = d.execIO /\ e.completed = d.completed
      /\ e.total = d.total /\ e.ticks = d.ticks + 1 /\ e.q \in {0, d.q + 1}
      /\ e.idle = IF d.exec = NoProc THEN d.idle + 1 ELSE d.idle
  BY CountFields
<1>2. PICK t \in Nat : t = d.ticks
  BY DEF DeviceType
<1>3. /\ Waiting(t) \subseteq Waiting(t + 1) /\ Ended(t) \subseteq Ended(t + 1)
      /\ Begun(t) \subseteq Running(t + 1)
  BY LaterToo
<1>4. Queued(e)
  <2>1. /\ d.procs \in Seq(NewProc) /\ d.ready \in Seq(Waiting(t)) /\ d.aux \in Seq(Waiting(t))
        /\ d.io \in Seq(Waiting(t)) /\ d.completed \in Seq(Ended(t))
        /\ d.execIO \in Waiting(t) \cup {NoProc}
    BY <1>2 DEF Booked, Queued
  <2>2. /\ d.ready \in Seq(Waiting(t + 1)) /\ d.aux \in Seq(Waiting(t + 1))
        /\ d.io \in Seq(Waiting(t + 1))
    BY <1>3, <2>1, SeqMonotonic
  <2>3. d.completed \in Seq(Ended(t + 1)) /\ d.execIO \in Waiting(t + 1) \cup {NoProc}
    BY <1>3, <2>1, SeqMonotonic
  <2> QED
    BY <1>1, <1>2, <2>1, <2>2, <2>3 DEF Queued
<1>5. e.exec \in Running(e.ticks) \cup {NoProc}
  BY <1>1, <1>2, <1>3 DEF Booked
<1>6. PICK i, q \in Int : i = d.idle /\ q = d.q
  BY DEF DeviceType
<1>7. q \in -1 .. t /\ i \in 0 .. t /\ t < Word - 1
  BY <1>2, <1>6 DEF Booked
<1>8. e.q \in 0 .. e.ticks /\ e.idle \in 0 .. e.ticks /\ e.ticks <= Word - 1
  <2>1. q + 1 \in 0 .. t + 1 /\ 0 \in 0 .. t + 1 /\ i \in 0 .. t + 1 /\ i + 1 \in 0 .. t + 1
    BY <1>7
  <2>2. t + 1 <= Word - 1
    BY <1>7, WordAssumption
  <2> QED
    BY <1>1, <1>2, <1>6, <2>1, <2>2
<1>9. PICK w \in Int : w = Work(d) /\ w = Work(e) /\ t - i = w
  <2>1. Work(d) \in Int
    BY WorkType
  <2>2. Work(e) = Work(d)
    BY <1>1 DEF Work
  <2>3. t - i = Work(d)
    BY <1>2, <1>6 DEF Booked
  <2> QED
    BY <2>1, <2>2, <2>3
<1>10. e.ticks - e.idle = Work(e) + Len(On(e.exec))
  <2>1. CASE d.exec = NoProc
    <3>1. Len(On(e.exec)) = 0 /\ e.idle = i + 1
      BY <1>1, <1>6, <2>1, IdsOfDevice
    <3>2. (t + 1) - (i + 1) = w + 0
      BY <1>9
    <3> QED
      BY <1>1, <1>2, <1>9, <3>1, <3>2, Zenon
  <2>2. CASE d.exec # NoProc
    <3>1. Len(On(e.exec)) = 1 /\ e.idle = i
      BY <1>1, <1>6, <2>2, IdsOfDevice DEF DeviceType, Occupant
    <3>2. (t + 1) - i = w + 1
      BY <1>9
    <3> QED
      BY <1>1, <1>2, <1>9, <3>1, <3>2, Zenon
  <2> QED
    BY <2>1, <2>2
<1>11. e.exec = NoProc => e.idle > 0
  BY <1>1, <1>6, <1>7
<1>12. Settled(e)
  BY <1>4, <1>5, <1>8, <1>10, <1>11 DEF Settled
<1>13. Size(e) = Size(d)
  BY <1>1 DEF Size
<1> QED
  BY <1>1, <1>12, <1>13

\* The books are right, and nobody is missing in them.
Reckoned(d) ==
    Settled(d) /\ Size(d) = Len(input) /\ d.total + Len(d.completed) = Len(input)

LEMMA TickCounts ==
  ASSUME NEW d \in DeviceType, NEW e \in DeviceType, Ticked(d, e)
  PROVE  e.ticks = d.ticks + 1
<1>1. PICK s \in DeviceType : Serves(FreshArrivals(d), s) /\ (e = Count(s) \/ e = CountTicks(s))
  BY DEF Ticked
<1>2. e.ticks = s.ticks + 1
  BY <1>1, CountFields
<1>3. s.ticks = d.ticks
  BY <1>1, FreshArrivalsKeeps DEF Serves, Stays
<1> QED
  BY <1>2, <1>3

LEMMA TickReckons ==
  ASSUME NEW d \in DeviceType, Reckoned(d), d.ticks < Word - 1, NEW e \in DeviceType, Ticked(d, e)
  PROVE  Reckoned(e)
<1> DEFINE f == FreshArrivals(d)
<1>1. PICK s \in DeviceType : Serves(f, s) /\ (e = Count(s) \/ e = CountTicks(s))
  BY DEF Ticked
<1>2. /\ f \in DeviceType /\ f.completed = d.completed /\ f.total = d.total /\ f.ticks = d.ticks
  BY FreshArrivalsKeeps
<1>3. Settled(f) /\ Size(f) = Size(d)
  BY FreshArrivalsBooks DEF Reckoned
<1> HIDE DEF f
<1>4. Booked(s)
  BY <1>1, <1>2, <1>3 DEF Serves
<1>5. Size(s) = Size(f) /\ s.total + Len(s.completed) = f.total + Len(f.completed)
  BY <1>1 DEF Serves, Stays
<1>6. /\ Settled(e) /\ Size(e) = Size(s)
      /\ e.total + Len(e.completed) = s.total + Len(s.completed)
  BY <1>1, <1>4, CountSettles
<1> QED
  BY <1>2, <1>3, <1>5, <1>6 DEF Reckoned

\* A scheduler begins with books in which nothing is.
LEMMA DeviceReckoned ==
  ASSUME input \in Seq(NewProc)
  PROVE  Reckoned(Device(input))
<1> DEFINE d == Device(input)
<1>1. /\ d.procs = input /\ d.ready = <<>> /\ d.aux = <<>> /\ d.io = <<>> /\ d.completed = <<>>
      /\ d.exec = NoProc /\ d.execIO = NoProc /\ d.total = Len(input) /\ d.q = 0 /\ d.ticks = 0
      /\ d.idle = 0
  BY DEF Device
<1> HIDE DEF d
<1>2. Len(input) \in Nat
  OBVIOUS
<1>3. On(NoProc) = <<>> /\ Len(<<>>) = 0 /\ Sum(<<>>) = 0
  BY IdsOfDevice, SumOne
<1>4. Size(d) = Len(input) /\ d.total + Len(d.completed) = Len(input)
  BY <1>1, <1>2, <1>3 DEF Size
<1>5. Work(d) = 0
  BY <1>1, <1>3 DEF Work
<1>6. Queued(d)
  BY <1>1 DEF Queued
<1>7. Settled(d)
  BY <1>1, <1>3, <1>5, <1>6, WordAssumption DEF Settled
<1> QED
  BY <1>4, <1>7 DEF Reckoned, d

\* All the processes of a Device, if those of each place are of a kind; and
\* what they had of their bursts.
LEMMA EverywhereSum ==
  ASSUME NEW d \in DeviceType, NEW S \in SUBSET ProcType,
         d.procs \in Seq(S), d.ready \in Seq(S), d.aux \in Seq(S), d.io \in Seq(S),
         d.completed \in Seq(S), On(d.exec) \in Seq(S), On(d.execIO) \in Seq(S)
  PROVE  /\ Everywhere(d) \in Seq(S)
         /\ Sum(Everywhere(d)) = Sum(d.procs) + Work(d) /\ Sum(d.procs) \in Int
<1>1. \A s, t \in Seq(S) : /\ s \o t \in Seq(S) /\ Sum(s) \in Int /\ Sum(t) \in Int
                           /\ Sum(s \o t) = Sum(s) + Sum(t)
  <2> SUFFICES ASSUME NEW s \in Seq(S), NEW t \in Seq(S)
               PROVE  /\ s \o t \in Seq(S) /\ Sum(s) \in Int /\ Sum(t) \in Int
                      /\ Sum(s \o t) = Sum(s) + Sum(t)
    OBVIOUS
  <2>1. s \in Seq(ProcType) /\ t \in Seq(ProcType)
    BY SeqMonotonic
  <2>2. s \o t \in Seq(S)
    BY ConcatProperties
  <2> QED
    BY <2>1, <2>2, SumConcat
<1> DEFINE q2 == d.procs \o d.ready
           q3 == q2 \o d.aux
           q4 == q3 \o d.io
           q5 == q4 \o d.completed
           q6 == q5 \o On(d.exec)
           q7 == q6 \o On(d.execIO)
<1>2. Everywhere(d) = q7
  BY DEF Everywhere
<1>3. q2 \in Seq(S) /\ Sum(q2) = Sum(d.procs) + Sum(d.ready)
  BY <1>1
<1> HIDE DEF q2
<1>4. q3 \in Seq(S) /\ Sum(q3) = Sum(q2) + Sum(d.aux)
  BY <1>1, <1>3
<1> HIDE DEF q3
<1>5. q4 \in Seq(S) /\ Sum(q4) = Sum(q3) + Sum(d.io)
  BY <1>1, <1>4
<1> HIDE DEF q4
<1>6. q5 \in Seq(S) /\ Sum(q5) = Sum(q4) + Sum(d.completed)
  BY <1>1, <1>5
<1> HIDE DEF q5
<1>7. q6 \in Seq(S) /\ Sum(q6) = Sum(q5) + Sum(On(d.exec))
  BY <1>1, <1>6
<1> HIDE DEF q6
<1>8. q7 \in Seq(S) /\ Sum(q7) = Sum(q6) + Sum(On(d.execIO))
  BY <1>1, <1>7
<1> HIDE DEF q7
<1>9. PICK a \in Int : a = Sum(d.procs)
  BY <1>1
<1>10. PICK b, c, g, h, x, y \in Int :
           /\ b = Sum(d.ready) /\ c = Sum(d.aux) /\ g = Sum(d.io) /\ h = Sum(d.completed)
           /\ x = Sum(On(d.exec)) /\ y = Sum(On(d.execIO))
           /\ Work(d) = b + c + g + h + x + y
  BY WorkType
<1>11. Sum(q7) = a + b + c + g + h + x + y
  <2>1. Sum(q3) = a + b + c
    BY <1>3, <1>4, <1>9, <1>10, Zenon
  <2>2. Sum(q5) = a + b + c + g + h
    BY <1>5, <1>6, <1>10, <2>1, Zenon
  <2> QED
    BY <1>7, <1>8, <1>10, <2>2, Zenon
<1>12. a + b + c + g + h + x + y = a + (b + c + g + h + x + y)
  OBVIOUS
<1>13. Sum(q7) = Sum(d.procs) + Work(d)
  BY <1>9, <1>10, <1>11, <1>12, Zenon
<1> QED
  BY <1>2, <1>8, <1>9, <1>13

-----------------------------------------------------------------------------
(* The schedules of the four programs are those of SchedSim.               *)

\* A queue and a device, without what their processes have saved of a quantum.
Bare(q) == [k \in DOMAIN q |-> [q[k] EXCEPT !.saved = 0]]
Bared(p) == IF p = NoProc THEN p ELSE [p EXCEPT !.saved = 0]

\* Two Devices that only what is saved sets apart, and then only at the IO
\* device: this is where a process goes that blocks.  A quantum is of rr.
Twins(a, b) ==
    /\ a.procs = b.procs /\ a.ready = b.ready /\ a.aux = b.aux /\ a.exec = b.exec
    /\ a.countIO = b.countIO /\ a.completed = b.completed /\ a.total = b.total
    /\ a.ticks = b.ticks /\ a.idle = b.idle /\ (scheduler = "rr" => a.q = b.q)
    /\ Bare(a.io) = Bare(b.io) /\ Bared(a.execIO) = Bared(b.execIO)

\* They have the same schedule.
LEMMA TwinsSchedule ==
  ASSUME NEW a \in DeviceType, NEW b \in DeviceType, Twins(a, b), scheduler # "vrr"
  PROVE  Schedule(a) = Schedule(b)
<1> DEFINE Shown(d) ==
             [procs |-> Bare(d.procs), ready |-> Bare(d.ready), aux |-> d.aux, io |-> Bare(d.io),
              exec |-> Bared(d.exec), execIO |-> Bared(d.execIO), countIO |-> d.countIO,
              completed |-> Bare(d.completed), total |-> d.total,
              q |-> IF scheduler = "rr" THEN d.q ELSE 0, ticks |-> d.ticks, idle |-> d.idle]
<1>1. \A d \in DeviceType : Schedule(d) = Shown(d)
  <2> TAKE d \in DeviceType
  <2>1. Schedule(d) = [d EXCEPT !.ready = Bare(@), !.io = Bare(@), !.completed = Bare(@),
                                !.procs = Bare(@), !.exec = Bared(@), !.execIO = Bared(@),
                                !.q = IF scheduler = "rr" THEN @ ELSE 0]
    BY DEF Schedule, Bare, Bared
  <2> QED
    BY <2>1 DEF DeviceType
<1>2. Shown(a) = Shown(b)
  BY DEF Twins
<1> QED
  BY <1>1, <1>2

\* The first of a queue and the others.
LEMMA BareQueues ==
  ASSUME NEW q \in Seq(ProcType), NEW r \in Seq(ProcType), Bare(q) = Bare(r)
  PROVE  /\ q = <<>> <=> r = <<>>
         /\ q # <<>> => /\ Bared(q[1]) = Bared(Head(r))
                        /\ Bare(RemoveAt(q, 1)) = Bare(Tail(r))
         /\ \A p, s \in ProcType : Bared(p) = Bared(s) => Bare(Append(q, p)) = Bare(Append(r, s))
<1>1. PICK n \in Nat : n = Len(q) /\ n = Len(r) /\ DOMAIN q = 1 .. n /\ DOMAIN r = 1 .. n
  <2>1. PICK m, n \in Nat : m = Len(q) /\ n = Len(r) /\ DOMAIN q = 1 .. m /\ DOMAIN r = 1 .. n
    BY LenProperties
  <2>2. DOMAIN Bare(q) = DOMAIN q /\ DOMAIN Bare(r) = DOMAIN r
    BY DEF Bare
  <2>3. 1 .. m = 1 .. n
    BY <2>1, <2>2
  <2>4. m = n
    BY <2>3
  <2> QED
    BY <2>1, <2>4
<1>2. \A k \in 1 .. n : [q[k] EXCEPT !.saved = 0] = [r[k] EXCEPT !.saved = 0]
  <2> TAKE k \in 1 .. n
  <2>1. Bare(q)[k] = [q[k] EXCEPT !.saved = 0] /\ Bare(r)[k] = [r[k] EXCEPT !.saved = 0]
    BY <1>1 DEF Bare
  <2> QED
    BY <2>1
<1>3. q = <<>> <=> n = 0
  BY <1>1, EmptySeq
<1>4. r = <<>> <=> n = 0
  BY <1>1, EmptySeq
<1>5. \A p \in ProcType : p # NoProc
  BY DEF ProcType, NoProc
<1>6. ASSUME q # <<>>
      PROVE  /\ Bared(q[1]) = Bared(Head(r))
             /\ Bare(RemoveAt(q, 1)) = Bare(Tail(r))
  <2>1. n # 0 /\ 1 \in 1 .. n /\ r # <<>>
    BY <1>3, <1>4, <1>6
  <2>2. Bared(q[1]) = Bared(Head(r))
    <3>1. q[1] \in ProcType /\ r[1] \in ProcType /\ Head(r) = r[1]
      BY <1>1, <2>1
    <3> QED
      BY <1>2, <1>5, <2>1, <3>1 DEF Bared
  <2> DEFINE x == RemoveAt(q, 1)
             y == Tail(r)
  <2>3. x \in Seq(ProcType) /\ Len(x) = n - 1 /\ \A j \in 1 .. n - 1 : x[j] = q[j + 1]
    <3>1. /\ x \in Seq(ProcType) /\ Len(x) = n - 1
          /\ \A j \in 1 .. n - 1 : x[j] = IF j < 1 THEN q[j] ELSE q[j + 1]
      BY <1>1, <2>1, RemoveAtProperties
    <3> HIDE DEF x
    <3> QED
      BY <3>1
  <2>4. y \in Seq(ProcType) /\ Len(y) = n - 1 /\ \A j \in 1 .. n - 1 : y[j] = r[j + 1]
    BY <1>1, <2>1, HeadTailProperties
  <2> HIDE DEF x, y
  <2>5. DOMAIN x = 1 .. n - 1 /\ DOMAIN y = 1 .. n - 1
    BY <2>3, <2>4, LenProperties
  <2>6. \A j \in 1 .. n - 1 : [x[j] EXCEPT !.saved = 0] = [y[j] EXCEPT !.saved = 0]
    <3> TAKE j \in 1 .. n - 1
    <3>1. j + 1 \in 1 .. n
      OBVIOUS
    <3> QED
      BY <1>2, <2>3, <2>4, <3>1
  <2>7. Bare(x) = Bare(y)
    BY <2>5, <2>6 DEF Bare
  <2> QED
    BY <2>2, <2>7 DEF x, y
<1>7. ASSUME NEW p \in ProcType, NEW s \in ProcType, Bared(p) = Bared(s)
      PROVE  Bare(Append(q, p)) = Bare(Append(r, s))
  <2> DEFINE x == Append(q, p)
             y == Append(r, s)
  <2>1. DOMAIN x = 1 .. n + 1 /\ x[n + 1] = p /\ \A k \in 1 .. n : x[k] = q[k]
    BY <1>1, AppendProperties, LenProperties
  <2>2. DOMAIN y = 1 .. n + 1 /\ y[n + 1] = s /\ \A k \in 1 .. n : y[k] = r[k]
    BY <1>1, AppendProperties, LenProperties
  <2> HIDE DEF x, y
  <2>3. [p EXCEPT !.saved = 0] = [s EXCEPT !.saved = 0]
    BY <1>5, <1>7 DEF Bared
  <2>4. \A k \in 1 .. n + 1 : [x[k] EXCEPT !.saved = 0] = [y[k] EXCEPT !.saved = 0]
    <3> TAKE k \in 1 .. n + 1
    <3>1. k \in 1 .. n \/ k = n + 1
      OBVIOUS
    <3>2. CASE k \in 1 .. n
      BY <1>2, <2>1, <2>2, <3>2
    <3>3. CASE k = n + 1
      BY <2>1, <2>2, <2>3, <3>3
    <3> QED
      BY <3>1, <3>2, <3>3
  <2>5. Bare(x) = Bare(y)
    BY <2>1, <2>2, <2>4 DEF Bare
  <2> QED
    BY <2>5 DEF x, y
<1> QED
  BY <1>3, <1>4, <1>6, <1>7

\* A tick of the CPU: what a process that blocks keeps of its quantum is all
\* that the programs differ in.
LEMMA TwinsExecute ==
  ASSUME NEW d \in DeviceType, d.exec # NoProc, NEW saved \in 0 .. timeQuantum - 1
  PROVE  LET a == Execute(d, 0)
             b == Execute(d, saved)
         IN /\ Twins(a, b) /\ a.execIO = b.execIO
            /\ d.io = <<>> => DOMAIN a.io \subseteq {1}
<1> DEFINE p == [d.exec EXCEPT !.rem = (@ - 1) % Word, !.last = @ + 1]
           done == [d EXCEPT !.exec = NoProc, !.total = @ - 1,
                             !.completed = Append(@, [p EXCEPT !.last = @ - 1, !.done = d.ticks])]
           late(s) == [p EXCEPT !.last = 0, !.saved = s]
           blocked(s) == [d EXCEPT !.exec = NoProc, !.io = Append(@, late(s))]
           on == [d EXCEPT !.exec = p]
<1>1. \A s \in Nat : Execute(d, s) = IF p.rem = 0 THEN done
                                     ELSE IF p.last >= p.rate THEN blocked(s) ELSE on
  BY DEF Execute
<1>2. saved \in Nat /\ 0 \in Nat /\ 0 \in 0 .. timeQuantum - 1
  BY QuantumAssumption
<1>3. d.exec \in ProcType /\ d.io \in Seq(ProcType)
  BY DEF DeviceType, Occupant
<1>4. \A s \in 0 .. timeQuantum - 1 : late(s) \in ProcType
  <2>1. d.exec.rem \in Nat /\ d.exec.last \in Nat
    BY <1>3 DEF ProcType
  <2>2. (d.exec.rem - 1) % Word \in Nat /\ d.exec.last + 1 \in Nat
    BY <2>1, WordAssumption
  <2>3. p \in ProcType
    BY <1>3, <2>2 DEF ProcType
  <2> HIDE DEF p
  <2> QED
    BY <2>3 DEF ProcType
<1>5. Bared(late(0)) = Bared(late(saved))
  <2>1. \A x \in ProcType : x # NoProc
    BY DEF ProcType, NoProc
  <2>2. late(0) # NoProc /\ late(saved) # NoProc
    BY <1>2, <1>4, <2>1
  <2>3. [late(0) EXCEPT !.saved = 0] = [late(saved) EXCEPT !.saved = 0]
    OBVIOUS
  <2> HIDE DEF late
  <2> QED
    BY <2>2, <2>3 DEF Bared
<1>6. \A e \in {d, done, on} : Twins(e, e)
  BY DEF Twins
<1>7. /\ Twins(blocked(0), blocked(saved)) /\ blocked(0).execIO = blocked(saved).execIO
      /\ blocked(0).io = Append(d.io, late(0))
  <2> HIDE DEF late
  <2>1. Bare(Append(d.io, late(0))) = Bare(Append(d.io, late(saved)))
    BY <1>2, <1>3, <1>4, <1>5, BareQueues
  <2> QED
    BY <2>1 DEF Twins, DeviceType
<1>8. done.io = d.io /\ on.io = d.io
  BY DEF DeviceType
<1>9. ASSUME d.io = <<>>
      PROVE  DOMAIN d.io \subseteq {1} /\ DOMAIN Append(d.io, late(0)) \subseteq {1}
  <2> HIDE DEF late
  <2> QED
    BY <1>9
<1> HIDE DEF p, done, late, blocked, on
<1>10. \/ Execute(d, 0) = Execute(d, saved) /\ Execute(d, 0) \in {done, on}
       \/ Execute(d, 0) = blocked(0) /\ Execute(d, saved) = blocked(saved)
  BY <1>1, <1>2
<1> QED
  BY <1>6, <1>7, <1>8, <1>9, <1>10

\* The IO device takes the first of a queue.
FirstStarted(d) == IF d.execIO = NoProc /\ d.io # <<>> THEN Started(d, 1) ELSE d

\* The device of sjf, srtf and rr.
LEMMA TwinsIO ==
  ASSUME NEW a \in DeviceType, NEW b \in DeviceType, Twins(a, b), a.execIO = b.execIO,
         scheduler # "vrr"
  PROVE  Twins(FirstStarted(Returned(a, "ready")), IODevice(b))
<1> DEFINE r == Returned(a, "ready")
           s == IF b.execIO = NoProc THEN b ELSE ExecIO(b)
<1>1. r \in DeviceType /\ s \in DeviceType
  BY ReturnedType, ExecIOType
<1>2. Twins(r, s) /\ r.execIO = s.execIO
  <2>1. CASE a.execIO = NoProc
    BY <2>1 DEF Returned
  <2>2. CASE a.execIO # NoProc /\ a.countIO + 1 < a.execIO.io
    <3>1. r = [a EXCEPT !.countIO = @ + 1] /\ s = [b EXCEPT !.countIO = @ + 1]
      BY <2>2 DEF Returned, ExecIO, Twins
    <3> HIDE DEF r, s
    <3> QED
      BY <3>1 DEF Twins, DeviceType
  <2>3. CASE a.execIO # NoProc /\ ~(a.countIO + 1 < a.execIO.io)
    <3>1. /\ r = [a EXCEPT !.countIO = @ + 1, !.execIO = NoProc, !.ready = Append(@, a.execIO)]
          /\ s = [b EXCEPT !.countIO = @ + 1, !.execIO = NoProc, !.ready = Append(@, b.execIO)]
      BY <2>3 DEF Returned, ExecIO, Twins, DeviceType
    <3> HIDE DEF r, s
    <3> QED
      BY <3>1 DEF Twins, DeviceType
  <2> QED
    BY <2>1, <2>2, <2>3
<1>3. IODevice(b) = IF s.execIO = NoProc /\ s.io # <<>>
                    THEN [s EXCEPT !.execIO = Head(s.io), !.io = Tail(s.io), !.countIO = 0]
                    ELSE s
  BY DEF IODevice
<1> HIDE DEF r, s
<1>4. /\ r.io = <<>> <=> s.io = <<>>
      /\ r.io # <<>> => /\ Bared(r.io[1]) = Bared(Head(s.io))
                        /\ Bare(RemoveAt(r.io, 1)) = Bare(Tail(s.io))
  <2>1. r.io \in Seq(ProcType) /\ s.io \in Seq(ProcType) /\ Bare(r.io) = Bare(s.io)
    BY <1>1, <1>2 DEF DeviceType, Twins
  <2> QED
    BY <2>1, BareQueues
<1>5. CASE r.execIO = NoProc /\ r.io # <<>>
  <2>1. /\ FirstStarted(r) = Started(r, 1)
        /\ IODevice(b) = [s EXCEPT !.execIO = Head(s.io), !.io = Tail(s.io), !.countIO = 0]
    BY <1>2, <1>3, <1>4, <1>5 DEF FirstStarted
  <2> DEFINE u == Started(r, 1)
             v == [s EXCEPT !.execIO = Head(s.io), !.io = Tail(s.io), !.countIO = 0]
  <2>2. /\ u.procs = r.procs /\ u.ready = r.ready /\ u.aux = r.aux /\ u.exec = r.exec
        /\ u.countIO = 0 /\ u.completed = r.completed /\ u.total = r.total
        /\ u.ticks = r.ticks /\ u.idle = r.idle /\ u.q = r.q
        /\ u.io = RemoveAt(r.io, 1) /\ u.execIO = r.io[1]
    BY <1>1 DEF Started, DeviceType
  <2>3. /\ v.procs = s.procs /\ v.ready = s.ready /\ v.aux = s.aux /\ v.exec = s.exec
        /\ v.countIO = 0 /\ v.completed = s.completed /\ v.total = s.total
        /\ v.ticks = s.ticks /\ v.idle = s.idle /\ v.q = s.q
        /\ v.io = Tail(s.io) /\ v.execIO = Head(s.io)
    BY <1>1 DEF DeviceType
  <2> HIDE DEF u, v
  <2>4. Twins(u, v)
    BY <1>2, <1>4, <1>5, <2>2, <2>3 DEF Twins
  <2> QED
    BY <2>1, <2>4 DEF u, v, r
<1>6. CASE ~(r.execIO = NoProc /\ r.io # <<>>)
  BY <1>2, <1>3, <1>4, <1>6 DEF FirstStarted, r
<1> QED
  BY <1>5, <1>6

\* To take the first of a queue is to take its head.
LEMMA FirstRemoved ==
  ASSUME NEW q \in Seq(ProcType), q # <<>>
  PROVE  RemoveAt(q, 1) = Tail(q) /\ q[1] = Head(q) /\ 1 \in DOMAIN q
<1>1. PICK n \in Nat : n = Len(q) /\ DOMAIN q = 1 .. n /\ n # 0
  BY LenProperties, EmptySeq
<1>2. 1 \in 1 .. n
  BY <1>1
<1> DEFINE x == RemoveAt(q, 1)
           y == Tail(q)
<1>3. x \in Seq(ProcType) /\ Len(x) = n - 1 /\ \A j \in 1 .. n - 1 : x[j] = q[j + 1]
  <2>1. /\ x \in Seq(ProcType) /\ Len(x) = n - 1
        /\ \A j \in 1 .. n - 1 : x[j] = IF j < 1 THEN q[j] ELSE q[j + 1]
    BY <1>1, <1>2, RemoveAtProperties
  <2> HIDE DEF x
  <2> QED
    BY <2>1
<1>4. /\ y \in Seq(ProcType) /\ Len(y) = n - 1 /\ \A j \in 1 .. n - 1 : y[j] = q[j + 1]
      /\ Head(q) = q[1]
  BY <1>1, HeadTailProperties
<1> HIDE DEF x, y
<1>5. Len(x) = Len(y) /\ \A j \in 1 .. Len(x) : x[j] = y[j]
  BY <1>3, <1>4
<1>6. x = y
  BY <1>3, <1>4, <1>5, SeqEqual
<1> QED
  BY <1>1, <1>2, <1>4, <1>6 DEF x, y

\* The device of vrr.
LEMMA SameIO ==
  ASSUME NEW d \in DeviceType, scheduler = "vrr"
  PROVE  FirstStarted(Returned(d, "aux")) = IODevice(d)
<1> DEFINE s == IF d.execIO = NoProc THEN d ELSE ExecIO(d)
<1>1. s \in DeviceType
  BY ExecIOType
<1>2. Returned(d, "aux") = s
  <2>1. CASE d.execIO = NoProc
    BY <2>1 DEF Returned
  <2>2. CASE d.execIO # NoProc /\ d.countIO + 1 < d.execIO.io
    BY <2>2 DEF Returned, ExecIO
  <2>3. CASE d.execIO # NoProc /\ ~(d.countIO + 1 < d.execIO.io)
    BY <2>3 DEF Returned, ExecIO, DeviceType
  <2> QED
    BY <2>1, <2>2, <2>3
<1>3. IODevice(d) = IF s.execIO = NoProc /\ s.io # <<>>
                    THEN [s EXCEPT !.execIO = Head(s.io), !.io = Tail(s.io), !.countIO = 0]
                    ELSE s
  BY DEF IODevice
<1> HIDE DEF s
<1>4. s.io # <<>> => RemoveAt(s.io, 1) = Tail(s.io) /\ s.io[1] = Head(s.io)
  <2>1. s.io \in Seq(ProcType)
    BY <1>1 DEF DeviceType
  <2> QED
    BY <2>1, FirstRemoved
<1> QED
  BY <1>2, <1>3, <1>4 DEF FirstStarted, Started

\* What the turn of the CPU and that of the IO device come to.
LEMMA TwinsServed ==
  ASSUME NEW d \in DeviceType, AuxOfVrr(d), scheduler # "vrr"
  PROVE  LET f == FreshArrivals(d)
             r == Returned(IF f.exec = NoProc THEN f ELSE Execute(f, 0), "ready")
             s == FirstStarted(r)
             t == Served(f)
         IN /\ s \in DeviceType /\ t \in DeviceType /\ Twins(s, t) /\ s.aux = <<>>
            /\ d.io = <<>> => Firsts(r.io) \subseteq {1} /\ (r.io # <<>> => Firsts(r.io) = {1})
<1> DEFINE f == FreshArrivals(d)
           x == IF f.exec = NoProc THEN f ELSE Execute(f, 0)
           y == IF f.exec = NoProc THEN f ELSE ExecCPU(f)
           r == Returned(x, "ready")
           s == FirstStarted(r)
           t == Served(f)
<1>1. f \in DeviceType /\ f.aux = <<>> /\ f.io = d.io
  BY FreshArrivalsKeeps DEF AuxOfVrr
<1> HIDE DEF f
<1>2. /\ 0 \in 0 .. timeQuantum - 1
      /\ (f.q + 1) % timeQuantum \in 0 .. timeQuantum - 1
  <2>1. f.q \in Int
    BY <1>1 DEF DeviceType
  <2>2. f.q + 1 \in Int
    BY <2>1
  <2>3. \A q \in Int : q % timeQuantum \in 0 .. timeQuantum - 1
    BY QuantumAssumption
  <2>4. 0 \in 0 .. timeQuantum - 1
    BY QuantumAssumption
  <2> QED
    BY <2>2, <2>3, <2>4
<1>3. /\ x \in DeviceType /\ y \in DeviceType /\ Twins(x, y) /\ x.execIO = y.execIO
      /\ d.io = <<>> => DOMAIN x.io \subseteq {1}
  <2>1. CASE f.exec = NoProc
    <3>1. x = f /\ y = f
      BY <2>1
    <3> QED
      BY <1>1, <3>1 DEF Twins
  <2>2. CASE f.exec # NoProc
    <3>1. x = Execute(f, 0) /\ y = Execute(f, (f.q + 1) % timeQuantum)
      BY <2>2 DEF ExecCPU
    <3> HIDE DEF x, y
    <3>2. x \in DeviceType /\ y \in DeviceType
      BY <1>1, <1>2, <2>2, <3>1, ExecuteType
    <3>3. Twins(x, y) /\ x.execIO = y.execIO /\ (f.io = <<>> => DOMAIN x.io \subseteq {1})
      BY <1>1, <1>2, <2>2, <3>1, TwinsExecute
    <3> QED
      BY <1>1, <3>2, <3>3
  <2> QED
    BY <2>1, <2>2
<1>4. t = IODevice(y)
  BY DEF Served
<1> HIDE DEF x, y
<1>5. t \in DeviceType /\ Twins(s, t)
  <2> HIDE DEF t
  <2> QED
    BY <1>3, <1>4, IODeviceType, TwinsIO
<1>6. r \in DeviceType /\ r.io = x.io
  <2>1. r \in DeviceType
    BY <1>3, ReturnedType
  <2>2. \/ r = x \/ r = [x EXCEPT !.countIO = @ + 1]
        \/ r = [x EXCEPT !.countIO = @ + 1, !.execIO = NoProc, !.ready = Append(@, x.execIO)]
    BY <1>3 DEF Returned, DeviceType
  <2> HIDE DEF r
  <2> QED
    BY <1>3, <2>1, <2>2 DEF DeviceType
<1> HIDE DEF r
<1>7. s \in DeviceType
  <2>1. r.io # <<>> => 1 \in DOMAIN r.io
    BY <1>6, SomebodyFirst
  <2> QED
    BY <1>6, <2>1, StartedType DEF FirstStarted
<1>8. s.aux = <<>>
  <2>1. t.aux = <<>>
    <3>1. AuxOfVrr(f) /\ f \in DeviceType
      BY <1>1 DEF AuxOfVrr
    <3> QED
      BY <3>1, ServedType DEF AuxOfVrr
  <2> QED
    BY <1>5, <2>1 DEF Twins
<1>9. ASSUME d.io = <<>>
      PROVE  Firsts(r.io) \subseteq {1} /\ (r.io # <<>> => Firsts(r.io) = {1})
  <2>1. DOMAIN r.io \subseteq {1} /\ r.io \in Seq(ProcType)
    BY <1>3, <1>6, <1>9 DEF DeviceType
  <2>2. Firsts(r.io) \subseteq {1}
    BY <2>1 DEF Firsts
  <2>3. r.io # <<>> => Firsts(r.io) # {}
    BY <2>1, FirstsExist
  <2> QED
    BY <2>2, <2>3
<1> HIDE DEF s, t
<1> QED
  BY <1>5, <1>7, <1>8, <1>9 DEF s, t, r, x, f

\* What an iteration of SchedSim may lead to.
LEMMA IterationOf ==
  ASSUME NEW d
  PROVE  LET s == Served(FreshArrivals(d)) IN
         /\ ~ToSchedule(s) => Count(s) \in Iteration(d)
         /\ ToSchedule(s) => \A k \in IF s.aux # <<>> THEN {1} ELSE Tops(s) :
                                 Count(ScheduleProc(s, k)) \in Iteration(d)
BY DEF Iteration

\* Nobody is scheduled in the one nor in the other.
LEMMA TwinsCount ==
  ASSUME NEW s \in DeviceType, NEW t \in DeviceType, Twins(s, t)
  PROVE  Twins(Count(s), Count(t)) /\ (scheduler # "rr" => Twins(CountTicks(s), Count(t)))
<1> DEFINE c(d) == Count(d)
<1>1. \A d \in DeviceType :
          /\ c(d).procs = d.procs /\ c(d).ready = d.ready /\ c(d).aux = d.aux /\ c(d).exec = d.exec
          /\ c(d).countIO = d.countIO /\ c(d).completed = d.completed /\ c(d).total = d.total
          /\ c(d).io = d.io /\ c(d).execIO = d.execIO
          /\ c(d).ticks = d.ticks + 1 /\ c(d).q = d.q + 1
          /\ c(d).idle = IF d.exec = NoProc THEN d.idle + 1 ELSE d.idle
  BY DEF Count, DeviceType
<1>2. \A d \in DeviceType : c(d) \in DeviceType /\ CountTicks(d) = [c(d) EXCEPT !.q = 0]
  BY CountType DEF CountTicks
<1> HIDE DEF c
<1>3. Twins(c(s), c(t))
  BY <1>1 DEF Twins
<1>4. scheduler # "rr" => Twins(CountTicks(s), c(t))
  <2> DEFINE e == [c(s) EXCEPT !.q = 0]
  <2>1. /\ e.procs = c(s).procs /\ e.ready = c(s).ready /\ e.aux = c(s).aux /\ e.exec = c(s).exec
        /\ e.countIO = c(s).countIO /\ e.completed = c(s).completed /\ e.total = c(s).total
        /\ e.io = c(s).io /\ e.execIO = c(s).execIO /\ e.ticks = c(s).ticks /\ e.idle = c(s).idle
    BY <1>2 DEF DeviceType
  <2>2. CountTicks(s) = e
    BY <1>2
  <2> HIDE DEF e
  <2> QED
    BY <1>3, <2>1, <2>2 DEF Twins
<1> QED
  BY <1>3, <1>4 DEF c

\* The same process is scheduled in both.
LEMMA TwinsRun ==
  ASSUME NEW s \in DeviceType, NEW t \in DeviceType, Twins(s, t),
         NEW p \in ProcType, NEW ready \in Seq(ProcType), NEW q \in Int,
         scheduler = "rr" => q = -1
  PROVE  Twins(Run(s, p, ready, s.aux, q), Run(t, p, ready, t.aux, -1))
<1> DEFINE u == Run(s, p, ready, s.aux, q)
           v == Run(t, p, ready, t.aux, -1)
<1>1. /\ u.procs = s.procs /\ u.aux = s.aux /\ u.countIO = s.countIO
      /\ u.completed = s.completed /\ u.total = s.total /\ u.io = s.io /\ u.execIO = s.execIO
      /\ u.ticks = s.ticks /\ u.idle = s.idle /\ u.q = q
      /\ u.exec = [p EXCEPT !.start = IF s.ticks < @ THEN s.ticks ELSE @]
      /\ u.ready = IF s.exec = NoProc THEN ready ELSE Append(ready, s.exec)
  BY DEF Run, DeviceType
<1>2. /\ v.procs = t.procs /\ v.aux = t.aux /\ v.countIO = t.countIO
      /\ v.completed = t.completed /\ v.total = t.total /\ v.io = t.io /\ v.execIO = t.execIO
      /\ v.ticks = t.ticks /\ v.idle = t.idle /\ v.q = -1
      /\ v.exec = [p EXCEPT !.start = IF t.ticks < @ THEN t.ticks ELSE @]
      /\ v.ready = IF t.exec = NoProc THEN ready ELSE Append(ready, t.exec)
  BY DEF Run, DeviceType
<1> HIDE DEF u, v
<1>3. Twins(u, v)
  BY <1>1, <1>2 DEF Twins
<1> QED
  BY <1>3 DEF u, v

\* Whoever takes the CPU, a Device is left.
LEMMA RunType ==
  ASSUME NEW d \in DeviceType, NEW p \in ProcType, NEW ready \in Seq(ProcType),
         NEW aux \in Seq(ProcType), NEW q \in Int
  PROVE  Run(d, p, ready, aux, q) \in DeviceType
<1> DEFINE x == [p EXCEPT !.start = IF d.ticks < @ THEN d.ticks ELSE @]
           back == IF d.exec = NoProc THEN ready ELSE Append(ready, d.exec)
<1>1. x \in Occupant
  BY DEF ProcType, DeviceType, Occupant
<1>2. back \in Seq(ProcType)
  BY DEF DeviceType, Occupant
<1>3. Run(d, p, ready, aux, q) = [d EXCEPT !.exec = x, !.q = q, !.aux = aux, !.ready = back]
  BY DEF Run
<1> HIDE DEF x, back
<1> DEFINE e == [d EXCEPT !.exec = x, !.q = q]
<1>4. e \in DeviceType
  BY <1>1 DEF DeviceType
<1>5. Run(d, p, ready, aux, q) = [e EXCEPT !.aux = aux, !.ready = back]
  BY <1>3
<1> HIDE DEF e
<1> QED
  BY <1>2, <1>4, <1>5 DEF DeviceType

\* Nor does Dispatch differ from the scheduling of SchedSim.
LEMMA TwinsDispatch ==
  ASSUME NEW s \in DeviceType, NEW t \in DeviceType, Twins(s, t), s.aux = <<>>,
         NEW k \in DOMAIN s.ready
  PROVE  LET u == Dispatch(s, s.ready[k], RemoveAt(s.ready, k))
             v == Count(ScheduleProc(t, k))
         IN /\ scheduler # "rr" => Twins(CountTicks(u), v)
            /\ Twins(Count([u EXCEPT !.q = -1]), v)
<1> DEFINE p == s.ready[k]
           ready == RemoveAt(s.ready, k)
           u == Dispatch(s, p, ready)
<1>1. p \in ProcType /\ ready \in Seq(ProcType) /\ s.q \in Int
  <2>1. s.ready \in Seq(ProcType) /\ s.q \in Int
    BY DEF DeviceType
  <2>2. p \in ProcType
    BY <2>1
  <2>3. ready \in Seq(ProcType)
    BY <2>1, RemoveAtProperties
  <2> QED
    BY <2>1, <2>2, <2>3
<1>2. t.aux = <<>> /\ t.ready = s.ready
  BY DEF Twins
<1>3. ScheduleProc(t, k) = Run(t, p, ready, t.aux, -1)
  BY <1>2 DEF ScheduleProc, Run
<1>4. u = Run(s, p, ready, s.aux, s.q) /\ [u EXCEPT !.q = -1] = Run(s, p, ready, s.aux, -1)
  BY DEF Dispatch, Run, DeviceType
<1> HIDE DEF p, ready, u
<1> DEFINE a == Run(s, p, ready, s.aux, s.q)
           b == Run(s, p, ready, s.aux, -1)
           c == Run(t, p, ready, t.aux, -1)
<1>5. Twins(b, c) /\ (scheduler # "rr" => Twins(a, c))
  BY <1>1, TwinsRun
<1>6. a \in DeviceType /\ b \in DeviceType /\ c \in DeviceType
  <2>1. s.aux \in Seq(ProcType) /\ t.aux \in Seq(ProcType) /\ -1 \in Int
    BY DEF DeviceType
  <2> QED
    BY <1>1, <2>1, RunType
<1> HIDE DEF a, b, c
<1>7. Twins(Count(b), Count(c)) /\ (scheduler # "rr" => Twins(CountTicks(a), Count(c)))
  BY <1>5, <1>6, TwinsCount
<1> QED
  BY <1>3, <1>4, <1>7 DEF a, b, c, u, p, ready

\* SJF.cpp, while nobody waits for the IO device
LEMMA SameSJF ==
  ASSUME NEW d \in DeviceType, AuxOfVrr(d), scheduler = "sjf", d.io = <<>>,
         NEW e \in SJFProcessor(d)
  PROVE  \E u \in Iteration(d) : Schedule(u) = Schedule(e)
<1> DEFINE x == SJFProcess(SJFArrivals(d))
           r == Returned(x, "ready")
           t == Served(FreshArrivals(d))
<1>1. PICK s \in SJFIoDevice(x) :
          e \in IF s.exec = NoProc /\ s.ready # <<>>
                THEN {CountTicks(Dispatch(s, s.ready[k], RemoveAt(s.ready, k))) : k \in SJFCmp(s.ready)}
                ELSE {CountTicks(s)}
  BY DEF SJFProcessor
<1>2. /\ FirstStarted(r) \in DeviceType /\ t \in DeviceType /\ Twins(FirstStarted(r), t)
      /\ FirstStarted(r).aux = <<>>
      /\ Firsts(r.io) \subseteq {1} /\ (r.io # <<>> => Firsts(r.io) = {1})
  BY TwinsServed DEF SJFProcess, SJFArrivals
<1>3. s \in DeviceType /\ Twins(s, t) /\ s.aux = <<>>
  <2> HIDE DEF x, t
  <2>1. \/ r.execIO = NoProc /\ r.io # <<>> /\ \E k \in Firsts(r.io) : s = Started(r, k)
        \/ ~(r.execIO = NoProc /\ r.io # <<>>) /\ s = r
    BY DEF SJFIoDevice, SJFCmp
  <2> HIDE DEF r
  <2>2. s = FirstStarted(r)
    BY <1>2, <2>1 DEF FirstStarted
  <2> QED
    BY <1>2, <2>2
<1>4. e \in DeviceType /\ Iteration(d) \subseteq DeviceType
  BY SJFKept, IterationKept DEF Kept, Programs
<1>5. \A u \in Iteration(d) : Twins(e, u) => Schedule(e) = Schedule(u)
  BY <1>4, TwinsSchedule
<1> HIDE DEF x, r
<1>6. /\ ~ToSchedule(t) => Count(t) \in Iteration(d)
      /\ ToSchedule(t) => \A k \in IF t.aux # <<>> THEN {1} ELSE Tops(t) :
                              Count(ScheduleProc(t, k)) \in Iteration(d)
  BY IterationOf
<1> HIDE DEF t
<1>7. /\ t.ready = s.ready /\ t.aux = <<>> /\ t.exec = s.exec
      /\ ToSchedule(t) = (s.exec = NoProc /\ s.ready # <<>>)
      /\ Tops(t) = Firsts(s.ready)
  BY <1>3 DEF Twins, ToSchedule, Tops
<1>8. CASE s.exec = NoProc /\ s.ready # <<>>
  <2>1. PICK k \in Firsts(s.ready) : e = CountTicks(Dispatch(s, s.ready[k], RemoveAt(s.ready, k)))
    BY <1>1, <1>8 DEF SJFCmp
  <2>2. Twins(e, Count(ScheduleProc(t, k)))
    BY <1>2, <1>3, <1>7, <2>1, TwinsDispatch DEF Firsts
  <2>3. Count(ScheduleProc(t, k)) \in Iteration(d)
    BY <1>6, <1>7, <1>8
  <2> QED
    BY <1>5, <2>2, <2>3
<1>9. CASE ~(s.exec = NoProc /\ s.ready # <<>>)
  <2>1. e = CountTicks(s)
    BY <1>1, <1>9
  <2>2. Twins(e, Count(t)) /\ Count(t) \in Iteration(d)
    BY <1>2, <1>3, <1>6, <1>7, <1>9, <2>1, TwinsCount
  <2> QED
    BY <1>5, <2>2
<1> QED
  BY <1>8, <1>9

\* SRTF.cpp, while nobody waits for the IO device
LEMMA SameSRTF ==
  ASSUME NEW d \in DeviceType, AuxOfVrr(d), scheduler = "srtf", d.io = <<>>,
         NEW e \in SRTFProcessor(d)
  PROVE  \E u \in Iteration(d) : Schedule(u) = Schedule(e)
<1> DEFINE x == SRTFProcess(SRTFArrivals(d))
           r == Returned(x, "ready")
           t == Served(FreshArrivals(d))
<1>1. PICK s \in SRTFIoDevice(x) : SRTFTurn(s, e)
  BY SRTFTurns
<1>2. /\ FirstStarted(r) \in DeviceType /\ t \in DeviceType /\ Twins(FirstStarted(r), t)
      /\ FirstStarted(r).aux = <<>>
      /\ Firsts(r.io) \subseteq {1} /\ (r.io # <<>> => Firsts(r.io) = {1})
  BY TwinsServed DEF SRTFProcess, SRTFArrivals
<1>3. s \in DeviceType /\ Twins(s, t) /\ s.aux = <<>>
  <2> HIDE DEF x, t
  <2>1. \/ r.execIO = NoProc /\ r.io # <<>> /\ \E k \in Firsts(r.io) : s = Started(r, k)
        \/ ~(r.execIO = NoProc /\ r.io # <<>>) /\ s = r
    BY DEF SRTFIoDevice, SRTFCmp
  <2> HIDE DEF r
  <2>2. s = FirstStarted(r)
    BY <1>2, <2>1 DEF FirstStarted
  <2> QED
    BY <1>2, <2>2
<1>4. e \in DeviceType /\ Iteration(d) \subseteq DeviceType
  BY SRTFKept, IterationKept DEF Kept, Programs
<1>5. \A u \in Iteration(d) : Twins(e, u) => Schedule(e) = Schedule(u)
  BY <1>4, TwinsSchedule
<1> HIDE DEF x, r
<1>6. /\ ~ToSchedule(t) => Count(t) \in Iteration(d)
      /\ ToSchedule(t) => \A k \in IF t.aux # <<>> THEN {1} ELSE Tops(t) :
                              Count(ScheduleProc(t, k)) \in Iteration(d)
  BY IterationOf
<1> HIDE DEF t
<1>7. /\ t.ready = s.ready /\ t.aux = <<>> /\ t.exec = s.exec /\ Tops(t) = Firsts(s.ready)
      /\ ToSchedule(t) = /\ s.ready # <<>>
                         /\ \/ s.exec = NoProc
                            \/ \E k \in Firsts(s.ready) : s.ready[k].rem < s.exec.rem
  BY <1>3 DEF Twins, ToSchedule, Tops
<1>8. CASE s.ready = <<>> /\ e = CountTicks(s)
  <2>1. Twins(e, Count(t)) /\ Count(t) \in Iteration(d)
    BY <1>2, <1>3, <1>6, <1>7, <1>8, TwinsCount
  <2> QED
    BY <1>5, <2>1
<1>9. ASSUME NEW k \in Firsts(s.ready),
             e \in IF s.exec = NoProc \/ s.ready[k].rem < s.exec.rem
                   THEN {CountTicks(Dispatch(s, s.ready[k], RemoveAt(s.ready, k)))}
                   ELSE {CountTicks(s)}
      PROVE  \E u \in Iteration(d) : Schedule(u) = Schedule(e)
  <2>1. s.ready \in Seq(ProcType) /\ k \in DOMAIN s.ready /\ s.ready # <<>>
    BY <1>3 DEF DeviceType, Firsts
  <2>2. CASE s.exec = NoProc \/ s.ready[k].rem < s.exec.rem
    <3>1. Twins(e, Count(ScheduleProc(t, k)))
      BY <1>2, <1>3, <1>7, <1>9, <2>1, <2>2, TwinsDispatch
    <3>2. Count(ScheduleProc(t, k)) \in Iteration(d)
      BY <1>6, <1>7, <2>1, <2>2
    <3> QED
      BY <1>5, <3>1, <3>2
  <2>3. CASE ~(s.exec = NoProc \/ s.ready[k].rem < s.exec.rem)
    <3>1. ASSUME NEW j \in Firsts(s.ready)
          PROVE  ~(s.ready[j].rem < s.exec.rem)
      <4>1. j \in DOMAIN s.ready /\ s.ready[k].rem <= s.ready[j].rem
        BY <2>1, <3>1, FirstIsShortest
      <4>2. s.ready[k] \in ProcType /\ s.ready[j] \in ProcType
        BY <2>1, <4>1
      <4>3. s.exec \in ProcType
        BY <1>3, <2>3 DEF DeviceType, Occupant
      <4>4. \A p \in ProcType : p.rem \in Nat
        BY DEF ProcType
      <4> QED
        BY <2>3, <4>1, <4>2, <4>3, <4>4
    <3>2. ~ToSchedule(t)
      BY <1>7, <2>3, <3>1
    <3>3. e = CountTicks(s)
      BY <1>9, <2>3
    <3>4. Twins(e, Count(t)) /\ Count(t) \in Iteration(d)
      BY <1>2, <1>3, <1>6, <3>2, <3>3, TwinsCount
    <3> QED
      BY <1>5, <3>4
  <2> QED
    BY <2>2, <2>3
<1> QED
  BY <1>1, <1>8, <1>9 DEF SRTFTurn, SRTFCmp

\* RR.cpp
LEMMA SameRR ==
  ASSUME NEW d \in DeviceType, AuxOfVrr(d), scheduler = "rr", NEW e \in RRProcessor(d)
  PROVE  \E u \in Iteration(d) : Schedule(u) = Schedule(e)
<1> DEFINE x == RRProcess(RRArrivals(d))
           s == RRIoDevice(x)
           t == Served(FreshArrivals(d))
           expired == s.ready # <<>> /\ (s.exec = NoProc \/ s.q + 1 >= timeQuantum)
<1>1. e = IF expired THEN Count([Dispatch(s, Head(s.ready), Tail(s.ready)) EXCEPT !.q = -1])
          ELSE Count(s)
  BY DEF RRProcessor
<1>2. s \in DeviceType /\ t \in DeviceType /\ Twins(s, t) /\ s.aux = <<>>
  <2>1. s = FirstStarted(Returned(x, "ready"))
    BY DEF RRIoDevice, FirstStarted
  <2> HIDE DEF s
  <2> QED
    BY <2>1, TwinsServed DEF RRProcess, RRArrivals
<1>3. e \in DeviceType /\ Iteration(d) \subseteq DeviceType
  BY RRKept, IterationKept DEF Kept, Programs
<1>4. \A u \in Iteration(d) : Twins(e, u) => Schedule(e) = Schedule(u)
  BY <1>3, TwinsSchedule
<1>5. /\ ~ToSchedule(t) => Count(t) \in Iteration(d)
      /\ ToSchedule(t) => \A k \in IF t.aux # <<>> THEN {1} ELSE Tops(t) :
                              Count(ScheduleProc(t, k)) \in Iteration(d)
  BY IterationOf
<1> HIDE DEF s, t
<1>6. /\ t.ready = s.ready /\ t.aux = <<>> /\ ToSchedule(t) = expired
      /\ Tops(t) = {1} \cap DOMAIN s.ready
  BY <1>2 DEF Twins, ToSchedule, Expired, Tops
<1>7. CASE expired
  <2>1. s.ready \in Seq(ProcType) /\ s.ready # <<>>
    BY <1>2, <1>7 DEF DeviceType
  <2>2. RemoveAt(s.ready, 1) = Tail(s.ready) /\ s.ready[1] = Head(s.ready) /\ 1 \in DOMAIN s.ready
    BY <2>1, FirstRemoved
  <2>3. e = Count([Dispatch(s, s.ready[1], RemoveAt(s.ready, 1)) EXCEPT !.q = -1])
    BY <1>1, <1>7, <2>2
  <2>4. Twins(e, Count(ScheduleProc(t, 1)))
    BY <1>2, <2>2, <2>3, TwinsDispatch
  <2>5. Count(ScheduleProc(t, 1)) \in Iteration(d)
    BY <1>5, <1>6, <1>7, <2>2
  <2> QED
    BY <1>4, <2>4, <2>5
<1>8. CASE ~expired
  <2>1. Twins(e, Count(t)) /\ Count(t) \in Iteration(d)
    BY <1>1, <1>2, <1>5, <1>6, <1>8, TwinsCount
  <2> QED
    BY <1>4, <2>1
<1> QED
  BY <1>7, <1>8

\* VRR.cpp: nothing at all sets it apart.
LEMMA SameVRR ==
  ASSUME NEW d \in DeviceType, scheduler = "vrr", NEW e \in VRRProcessor(d)
  PROVE  \E u \in Iteration(d) : Schedule(u) = Schedule(e)
<1> DEFINE f == FreshArrivals(d)
           y == IF f.exec = NoProc THEN f ELSE ExecCPU(f)
           t == Served(f)
           expired == (t.ready # <<>> \/ t.aux # <<>>) /\ (t.exec = NoProc \/ t.q + 1 >= timeQuantum)
<1>1. f \in DeviceType
  BY FreshArrivalsKeeps
<1>2. t \in DeviceType
  BY <1>1, ServedType
<1>3. VRRIoDevice(VRRProcess(VRRArrivals(d))) = t
  <2>1. VRRProcess(VRRArrivals(d)) = y
    BY DEF VRRProcess, VRRArrivals, ExecCPU
  <2>2. t = IODevice(y)
    BY DEF Served
  <2>3. (f.q + 1) % timeQuantum \in {0, (f.q + 1) % timeQuantum}
    OBVIOUS
  <2>4. y \in DeviceType
    BY <1>1, <2>3, TurnServes DEF ExecCPU
  <2> HIDE DEF t, y
  <2>5. VRRIoDevice(y) = FirstStarted(Returned(y, "aux"))
    BY DEF VRRIoDevice, FirstStarted
  <2> QED
    BY <2>1, <2>2, <2>4, <2>5, SameIO
<1>4. e = IF ~expired THEN Count(t)
          ELSE IF t.aux # <<>>
          THEN Count([Dispatch(t, Head(t.aux), t.ready)
                        EXCEPT !.q = Head(t.aux).saved - 1, !.aux = Tail(@)])
          ELSE Count([Dispatch(t, Head(t.ready), Tail(t.ready)) EXCEPT !.q = -1])
  <2> HIDE DEF t
  <2> QED
    BY <1>3 DEF VRRProcessor
<1>5. /\ ~ToSchedule(t) => Count(t) \in Iteration(d)
      /\ ToSchedule(t) => \A k \in IF t.aux # <<>> THEN {1} ELSE Tops(t) :
                              Count(ScheduleProc(t, k)) \in Iteration(d)
  BY IterationOf
<1> HIDE DEF t
<1>6. ToSchedule(t) = expired /\ Tops(t) = {1} \cap DOMAIN t.ready
  BY DEF ToSchedule, Expired, Tops
<1>7. e \in Iteration(d)
  <2>1. CASE ~expired
    BY <1>4, <1>5, <1>6, <2>1
  <2>2. CASE expired /\ t.aux # <<>>
    <3>1. [Dispatch(t, Head(t.aux), t.ready) EXCEPT !.q = Head(t.aux).saved - 1, !.aux = Tail(@)]
              = ScheduleProc(t, 1)
      <4> DEFINE p == Head(t.aux)
                 aux == Tail(t.aux)
      <4>1. ScheduleProc(t, 1) = Run(t, p, t.ready, aux, p.saved - 1)
        BY <2>2 DEF ScheduleProc, Run
      <4> HIDE DEF p
      <4>2. [Dispatch(t, p, t.ready) EXCEPT !.q = p.saved - 1, !.aux = Tail(@)]
                = Run(t, p, t.ready, aux, p.saved - 1)
        BY <1>2 DEF Dispatch, Run, DeviceType
      <4> QED
        BY <4>1, <4>2 DEF p
    <3>2. e = Count(ScheduleProc(t, 1))
      BY <1>4, <2>2, <3>1
    <3> QED
      BY <1>5, <1>6, <2>2, <3>2
  <2>3. CASE expired /\ t.aux = <<>>
    <3>1. t.ready \in Seq(ProcType) /\ t.ready # <<>>
      BY <1>2, <2>3 DEF DeviceType
    <3>2. RemoveAt(t.ready, 1) = Tail(t.ready) /\ t.ready[1] = Head(t.ready) /\ 1 \in DOMAIN t.ready
      BY <3>1, FirstRemoved
    <3>3. [Dispatch(t, Head(t.ready), Tail(t.ready)) EXCEPT !.q = -1] = ScheduleProc(t, 1)
      <4> DEFINE p == Head(t.ready)
                 ready == Tail(t.ready)
      <4>1. ScheduleProc(t, 1) = Run(t, p, ready, t.aux, -1)
        BY <2>3, <3>2 DEF ScheduleProc, Run
      <4> HIDE DEF p, ready
      <4>2. [Dispatch(t, p, ready) EXCEPT !.q = -1] = Run(t, p, ready, t.aux, -1)
        BY <1>2 DEF Dispatch, Run, DeviceType
      <4> QED
        BY <4>1, <4>2 DEF p, ready
    <3>4. e = Count(ScheduleProc(t, 1))
      BY <1>4, <2>3, <3>3
    <3> QED
      BY <1>5, <1>6, <2>3, <3>2, <3>4
  <2> QED
    BY <2>1, <2>2, <2>3
<1> QED
  BY <1>7

-----------------------------------------------------------------------------
(* Who takes the CPU under sjf and srtf.                                   *)

\* What ShortestRuns says of the dispatch in a tick from d to e.
Chooses(d, e) ==
    e.exec # NoProc /\ (d.exec = NoProc \/ e.exec.id # d.exec.id) =>
        /\ \A p \in ToSet(e.ready) : Shorter(e.exec, p)
        /\ scheduler = "sjf" /\ d.exec # NoProc => Ends(d.exec)

\* s is d after the turn of its running process, if it has one.
Left(d, s) ==
    IF s.exec = NoProc THEN d.exec # NoProc => Ends(d.exec)
    ELSE d.exec # NoProc /\ s.exec.id = d.exec.id

\* The first of a queue is the shortest, by the scheduler's measure.
LEMMA ShortestFirst ==
  ASSUME scheduler \in {"sjf", "srtf"}, NEW q \in Seq(ProcType), NEW k \in Firsts(q)
  PROVE  k \in DOMAIN q /\ \A j \in DOMAIN q : Shorter(q[k], q[j])
<1>1. k \in DOMAIN q /\ \A j \in DOMAIN q : ~Before(q[j], q[k])
  BY DEF Firsts
<1>2. \A p \in ProcType : p.cpu \in Nat /\ p.rem \in Nat /\ p.arr \in Nat
  BY DEF ProcType
<1>3. ASSUME NEW j \in DOMAIN q
      PROVE  Shorter(q[k], q[j])
  <2>1. q[k] \in ProcType /\ q[j] \in ProcType
    BY <1>1
  <2>2. ~Before(q[j], q[k])
    BY <1>1
  <2>3. CASE scheduler = "sjf"
    BY <1>2, <2>1, <2>2, <2>3 DEF Before, Key, Shorter
  <2>4. CASE scheduler = "srtf"
    BY <1>2, <2>1, <2>2, <2>4 DEF Before, Key, Shorter
  <2> QED
    BY <2>3, <2>4
<1> QED
  BY <1>1, <1>3

\* A process that has not ended and not blocked stays on the CPU.
LEMMA TurnLeaves ==
  ASSUME NEW d \in DeviceType, NEW saved
  PROVE  Left(d, IF d.exec = NoProc THEN d ELSE Execute(d, saved))
<1>1. CASE d.exec = NoProc
  BY <1>1 DEF Left
<1>2. CASE d.exec # NoProc
  <2> DEFINE p == [d.exec EXCEPT !.rem = (@ - 1) % Word, !.last = @ + 1]
  <2>1. d.exec \in ProcType
    BY <1>2 DEF DeviceType, Occupant
  <2>2. p.id = d.exec.id /\ p.rem = (d.exec.rem - 1) % Word /\ p.last = d.exec.last + 1
    BY <2>1 DEF ProcType
  <2>3. p.rate = d.exec.rate
    BY <2>1 DEF ProcType
  <2> HIDE DEF p
  <2> DEFINE a == [d EXCEPT !.exec = NoProc, !.total = @ - 1,
                 !.completed = Append(@, [p EXCEPT !.last = @ - 1, !.done = d.ticks])]
             b == [d EXCEPT !.exec = NoProc, !.io = Append(@, [p EXCEPT !.last = 0, !.saved = saved])]
             c == [d EXCEPT !.exec = p]
  <2>4. a.exec = NoProc /\ b.exec = NoProc /\ c.exec = p
    BY DEF DeviceType
  <2>5. Execute(d, saved) = IF p.rem = 0 THEN a ELSE IF p.last >= p.rate THEN b ELSE c
    BY DEF Execute, p
  <2> HIDE DEF a, b, c
  <2>6. CASE p.rem = 0 \/ p.last >= p.rate
    <3>1. Execute(d, saved).exec = NoProc
      BY <2>4, <2>5, <2>6
    <3>2. Ends(d.exec)
      BY <2>2, <2>3, <2>6 DEF Ends
    <3> QED
      BY <1>2, <3>1, <3>2 DEF Left
  <2>7. CASE ~(p.rem = 0 \/ p.last >= p.rate)
    <3>1. Execute(d, saved).exec = p
      BY <2>4, <2>5, <2>7
    <3>2. p # NoProc
      <4>1. p.id # 0
        BY <2>1, <2>2 DEF ProcType
      <4>2. NoProc.id = 0
        BY DEF NoProc
      <4> QED
        BY <4>1, <4>2
    <3> QED
      BY <1>2, <2>2, <3>1, <3>2 DEF Left
  <2> QED
    BY <2>6, <2>7
<1> QED
  BY <1>1, <1>2

\* Nobody is dispatched.
LEMMA StaysOn ==
  ASSUME NEW d, NEW s \in DeviceType, Left(d, s), NEW e \in {Count(s), CountTicks(s)}
  PROVE  Chooses(d, e)
<1>1. e.exec = s.exec
  BY CountType
<1> QED
  BY <1>1 DEF Chooses, Left

\* A shortest one of the ready queue is dispatched.
LEMMA ShortestTaken ==
  ASSUME NEW d, NEW s \in DeviceType, Left(d, s), scheduler \in {"sjf", "srtf"},
         NEW k \in Firsts(s.ready), NEW q \in Int,
         s.exec # NoProc => scheduler = "srtf" /\ s.ready[k].rem < s.exec.rem,
         LET u == Run(s, s.ready[k], RemoveAt(s.ready, k), s.aux, q)
         IN u \in DeviceType,
         NEW e, LET u == Run(s, s.ready[k], RemoveAt(s.ready, k), s.aux, q)
                IN e \in {Count(u), CountTicks(u)}
  PROVE  Chooses(d, e)
<1> DEFINE p == s.ready[k]
           ready == RemoveAt(s.ready, k)
           u == Run(s, p, ready, s.aux, q)
           x == [p EXCEPT !.start = IF s.ticks < @ THEN s.ticks ELSE @]
           back == IF s.exec = NoProc THEN ready ELSE Append(ready, s.exec)
<1>1. /\ k \in DOMAIN s.ready /\ s.ready \in Seq(ProcType)
      /\ \A j \in DOMAIN s.ready : Shorter(p, s.ready[j])
  BY ShortestFirst DEF DeviceType
<1>2. /\ p \in ProcType /\ ready \in Seq(ProcType)
      /\ \A j \in DOMAIN ready : \E i \in DOMAIN s.ready : ready[j] = s.ready[i]
  BY <1>1, RemoveAtProperties
<1>3. e.exec = u.exec /\ e.ready = u.ready
  <2>1. u \in DeviceType /\ e \in {Count(u), CountTicks(u)}
    OBVIOUS
  <2> HIDE DEF u
  <2> QED
    BY <2>1, CountType
<1>4. u.exec = x /\ u.ready = back
  BY DEF Run, DeviceType
<1> HIDE DEF p, ready, u
<1>5. x.cpu = p.cpu /\ x.rem = p.rem /\ x.arr = p.arr
  BY <1>2 DEF ProcType
<1>6. \A j \in DOMAIN ready : Shorter(x, ready[j])
  BY <1>1, <1>2, <1>5 DEF Shorter
<1>7. s.exec # NoProc => s.exec \in ProcType /\ Shorter(x, s.exec)
  <2>1. s.exec # NoProc => s.exec \in ProcType
    BY DEF DeviceType, Occupant
  <2>2. s.exec # NoProc => scheduler = "srtf" /\ x.rem < s.exec.rem
    BY <1>5 DEF p
  <2> QED
    BY <2>1, <2>2 DEF Shorter
<1> HIDE DEF x
<1>8. \A r \in ToSet(back) : Shorter(x, r)
  <2>1. CASE s.exec = NoProc
    BY <1>6, <2>1 DEF ToSet
  <2>2. CASE s.exec # NoProc
    <3>1. back = Append(ready, s.exec) /\ ready \in Seq(ProcType) /\ s.exec \in ProcType
      BY <1>2, <1>7, <2>2
    <3> HIDE DEF back
    <3>2. \A j \in DOMAIN back : back[j] = s.exec \/ \E i \in DOMAIN ready : back[j] = ready[i]
      BY <3>1
    <3> QED
      BY <1>6, <1>7, <2>2, <3>2 DEF ToSet
  <2> QED
    BY <2>1, <2>2
<1>9. scheduler = "sjf" /\ d.exec # NoProc => Ends(d.exec)
  BY DEF Left
<1> HIDE DEF back
<1> QED
  BY <1>3, <1>4, <1>8, <1>9 DEF Chooses

\* An iteration of SchedSim's loop.
LEMMA IterationChooses ==
  ASSUME NEW d \in DeviceType, AuxOfVrr(d), scheduler \in {"sjf", "srtf"},
         NEW e \in Iteration(d)
  PROVE  Chooses(d, e)
<1> DEFINE f == FreshArrivals(d)
           x == IF f.exec = NoProc THEN f ELSE ExecCPU(f)
           s == Served(f)
<1>1. f \in DeviceType /\ f.aux = d.aux /\ f.exec = d.exec
  BY FreshArrivalsKeeps
<1>2. s \in DeviceType /\ AuxOfVrr(s)
  BY <1>1, ServedType DEF AuxOfVrr
<1>3. \/ /\ ToSchedule(s)
         /\ \E k \in IF s.aux # <<>> THEN {1} ELSE Tops(s) : e = Count(ScheduleProc(s, k))
      \/ ~ToSchedule(s) /\ e = Count(s)
  BY DEF Iteration
<1>4. Left(d, s)
  <2>1. x = IF f.exec = NoProc THEN f ELSE Execute(f, (f.q + 1) % timeQuantum)
    BY DEF ExecCPU
  <2>2. s = IODevice(x)
    BY DEF Served
  <2> HIDE DEF f, x, s
  <2>3. Left(f, x)
    BY <1>1, <2>1, TurnLeaves
  <2>4. x \in DeviceType
    <3>1. CASE f.exec = NoProc
      BY <1>1, <2>1, <3>1
    <3>2. CASE f.exec # NoProc
      <4>0. f.q \in Int
        BY <1>1 DEF DeviceType
      <4>1. f.q + 1 \in Int
        BY <4>0
      <4>2. (f.q + 1) % timeQuantum \in 0 .. timeQuantum - 1
        BY <4>1, QuantumAssumption
      <4> QED
        BY <1>1, <2>1, <3>2, <4>2, ExecuteType
    <3> QED
      BY <3>1, <3>2
  <2>5. s.exec = x.exec
    BY <2>2, <2>4, IODeviceType
  <2> QED
    BY <1>1, <2>3, <2>5 DEF Left
<1> HIDE DEF f, x, s
<1>5. CASE ~ToSchedule(s) /\ e = Count(s)
  BY <1>2, <1>4, <1>5, StaysOn
<1>6. ASSUME ToSchedule(s), NEW k \in IF s.aux # <<>> THEN {1} ELSE Tops(s),
             e = Count(ScheduleProc(s, k))
      PROVE  Chooses(d, e)
  <2>1. s.aux = <<>> /\ k \in Firsts(s.ready) /\ Tops(s) = Firsts(s.ready)
    BY <1>2, <1>6 DEF AuxOfVrr, Tops
  <2>2. s.ready \in Seq(ProcType)
    BY <1>2 DEF DeviceType
  <2>3. s.exec # NoProc => scheduler = "srtf" /\ s.ready[k].rem < s.exec.rem
    <3>1. ASSUME s.exec # NoProc
          PROVE  scheduler = "srtf" /\ \E i \in Firsts(s.ready) : s.ready[i].rem < s.exec.rem
      BY <1>6, <2>1, <3>1 DEF ToSchedule
    <3>2. ASSUME s.exec # NoProc, scheduler = "srtf", NEW i \in Firsts(s.ready),
                 s.ready[i].rem < s.exec.rem
          PROVE  s.ready[k].rem < s.exec.rem
      <4>1. k \in DOMAIN s.ready /\ i \in DOMAIN s.ready /\ s.ready[k].rem <= s.ready[i].rem
        BY <2>1, <2>2, <3>2, FirstIsShortest
      <4>2. s.ready[k] \in ProcType /\ s.ready[i] \in ProcType /\ s.exec \in ProcType
        <5>1. s.ready[k] \in ProcType /\ s.ready[i] \in ProcType
          BY <2>2, <4>1
        <5>2. s.exec \in Occupant
          BY <1>2 DEF DeviceType
        <5> QED
          BY <3>2, <5>1, <5>2 DEF Occupant
      <4>3. \A r \in ProcType : r.rem \in Nat
        BY DEF ProcType
      <4> QED
        BY <3>2, <4>1, <4>2, <4>3
    <3> QED
      BY <3>1, <3>2
  <2> DEFINE u == Run(s, s.ready[k], RemoveAt(s.ready, k), s.aux, -1)
  <2>4. ScheduleProc(s, k) = u
    BY <2>1 DEF ScheduleProc, Run
  <2>5. ScheduleProc(s, k) \in DeviceType
    BY <1>2, <1>6, Scheduled DEF Programs
  <2>6. u \in DeviceType /\ e \in {Count(u), CountTicks(u)} /\ -1 \in Int
    BY <1>6, <2>4, <2>5
  <2> QED
    BY <1>2, <1>4, <2>1, <2>3, <2>6, ShortestTaken
<1> QED
  BY <1>3, <1>5, <1>6

\* The IO devices of SJF.cpp and SRTF.cpp leave the CPU alone.
LEMMA OnlyIO ==
  ASSUME NEW d \in DeviceType, AuxOfVrr(d), scheduler \in {"sjf", "srtf"},
         NEW s, LET x == IF FreshArrivals(d).exec = NoProc THEN FreshArrivals(d)
                         ELSE Execute(FreshArrivals(d), 0)
                    r == Returned(x, "ready")
                IN s = r \/ \E k \in Firsts(r.io) : s = Started(r, k)
  PROVE  s \in DeviceType /\ AuxOfVrr(s) /\ Left(d, s)
<1> DEFINE f == FreshArrivals(d)
           x == IF f.exec = NoProc THEN f ELSE Execute(f, 0)
           r == Returned(x, "ready")
<1>1. f \in DeviceType /\ f.aux = d.aux /\ f.exec = d.exec
  BY FreshArrivalsKeeps
<1>2. s = r \/ \E k \in Firsts(r.io) : s = Started(r, k)
  OBVIOUS
<1> HIDE DEF f
<1>3. x \in DeviceType /\ x.aux = f.aux /\ Left(f, x)
  <2>1. 0 \in 0 .. timeQuantum - 1
    BY QuantumAssumption
  <2> QED
    BY <1>1, <2>1, ExecuteType, TurnLeaves
<1> HIDE DEF x
<1>4. r \in DeviceType /\ r.exec = x.exec /\ r.aux = x.aux
  BY <1>3, ReturnedType
<1> HIDE DEF r
<1>5. s \in DeviceType /\ s.exec = r.exec /\ s.aux = r.aux
  BY <1>2, <1>4, StartedType DEF Firsts
<1> QED
  BY <1>1, <1>3, <1>4, <1>5 DEF Left, AuxOfVrr

\* The turns of SJF.cpp and SRTF.cpp: Dispatch is Run with the quantum left alone.
LEMMA DispatchChooses ==
  ASSUME NEW d, NEW s \in DeviceType, AuxOfVrr(s), Left(d, s), scheduler \in {"sjf", "srtf"},
         NEW k \in Firsts(s.ready),
         s.exec # NoProc => scheduler = "srtf" /\ s.ready[k].rem < s.exec.rem
  PROVE  Chooses(d, CountTicks(Dispatch(s, s.ready[k], RemoveAt(s.ready, k))))
<1> DEFINE p == s.ready[k]
           ready == RemoveAt(s.ready, k)
           u == Run(s, p, ready, s.aux, s.q)
<1>1. s.ready \in Seq(ProcType) /\ s.q \in Int /\ s.aux \in Seq(ProcType) /\ s.aux = <<>>
  BY DEF DeviceType, AuxOfVrr
<1>2. k \in DOMAIN s.ready /\ \A j \in DOMAIN s.ready : Shorter(p, s.ready[j])
  BY <1>1, ShortestFirst
<1>3. p \in ProcType /\ ready \in Seq(ProcType)
  BY <1>1, <1>2, RemoveAtProperties
<1>4. Dispatch(s, p, ready) = u
  BY DEF Dispatch, Run, DeviceType
<1>5. u \in DeviceType
  <2> DEFINE x == [p EXCEPT !.start = IF s.ticks < @ THEN s.ticks ELSE @]
             back == IF s.exec = NoProc THEN ready ELSE Append(ready, s.exec)
  <2> HIDE DEF p, ready
  <2>1. x \in ProcType
    BY <1>3 DEF ProcType, DeviceType
  <2>2. back \in Seq(ProcType)
    BY <1>3 DEF DeviceType, Occupant
  <2>3. u = [s EXCEPT !.exec = x, !.q = s.q, !.aux = s.aux, !.ready = back]
    BY DEF Run
  <2> HIDE DEF x, back, u
  <2> QED
    BY <1>1, <2>1, <2>2, <2>3 DEF DeviceType, Occupant
<1>6. CountTicks(u) \in {Count(u), CountTicks(u)}
  OBVIOUS
<1>7. Chooses(d, CountTicks(u))
  BY <1>1, <1>5, <1>6, ShortestTaken
<1> QED
  BY <1>4, <1>7

LEMMA SJFChooses ==
  ASSUME NEW d \in DeviceType, AuxOfVrr(d), scheduler = "sjf", NEW e \in SJFProcessor(d)
  PROVE  Chooses(d, e)
<1> DEFINE x == SJFProcess(SJFArrivals(d))
<1>1. PICK s \in SJFIoDevice(x) :
          e \in IF s.exec = NoProc /\ s.ready # <<>>
                THEN {CountTicks(Dispatch(s, s.ready[k], RemoveAt(s.ready, k))) : k \in SJFCmp(s.ready)}
                ELSE {CountTicks(s)}
  BY DEF SJFProcessor
<1>2. s \in DeviceType /\ AuxOfVrr(s) /\ Left(d, s)
  <2> DEFINE r == Returned(x, "ready")
  <2>1. s = r \/ \E k \in Firsts(r.io) : s = Started(r, k)
    BY <1>1 DEF SJFIoDevice, SJFCmp
  <2> QED
    BY <2>1, OnlyIO DEF SJFProcess, SJFArrivals
<1> HIDE DEF x
<1>3. ASSUME s.exec = NoProc, NEW k \in Firsts(s.ready),
             e = CountTicks(Dispatch(s, s.ready[k], RemoveAt(s.ready, k)))
      PROVE  Chooses(d, e)
  BY <1>2, <1>3, DispatchChooses
<1>4. CASE e = CountTicks(s)
  BY <1>2, <1>4, StaysOn
<1> QED
  BY <1>1, <1>3, <1>4 DEF SJFCmp

LEMMA SRTFChooses ==
  ASSUME NEW d \in DeviceType, AuxOfVrr(d), scheduler = "srtf", NEW e \in SRTFProcessor(d)
  PROVE  Chooses(d, e)
<1> DEFINE x == SRTFProcess(SRTFArrivals(d))
<1>1. PICK s \in SRTFIoDevice(x) : SRTFTurn(s, e)
  BY SRTFTurns
<1>2. s \in DeviceType /\ AuxOfVrr(s) /\ Left(d, s)
  <2> DEFINE r == Returned(x, "ready")
  <2>1. s = r \/ \E k \in Firsts(r.io) : s = Started(r, k)
    BY <1>1 DEF SRTFIoDevice, SRTFCmp
  <2> QED
    BY <2>1, OnlyIO DEF SRTFProcess, SRTFArrivals
<1> HIDE DEF x
<1>3. ASSUME NEW k \in Firsts(s.ready), s.exec = NoProc \/ s.ready[k].rem < s.exec.rem,
             e = CountTicks(Dispatch(s, s.ready[k], RemoveAt(s.ready, k)))
      PROVE  Chooses(d, e)
  BY <1>2, <1>3, DispatchChooses
<1>4. CASE e = CountTicks(s)
  BY <1>2, <1>4, StaysOn
<1> QED
  BY <1>1, <1>3, <1>4 DEF SRTFTurn, SRTFCmp

-----------------------------------------------------------------------------
(* The theorems.                                                           *)

\* The Device is one, and what comes after it can be loaded into it.
Inv == /\ Kept(dev)
       /\ input \in Seq(ProcType) /\ (Distinct => Conserved(dev))
       /\ dev.ticks <= MaxTicks
       /\ (Computable => input \in Seq(NewProc) /\ Reckoned(dev))
       /\ Device(input) \in DeviceType
       /\ todo \in Seq(Programs) /\ todo # <<>>

\* A Device that a scheduler begins with.
LEMMA DeviceKept ==
  ASSUME NEW procs \in Seq(ProcType)
  PROVE  Device(procs) \in DeviceType /\ Kept(Device(procs))
<1>1. Device(procs) \in DeviceType
  BY DEF Device, DeviceType, Occupant
<1> QED
  BY <1>1 DEF Device, Kept, Rules, AuxOfVrr

\* The lists that main may have.
FreshProc == {p \in ProcType : p.last = 0 /\ p.saved = 0 /\ p.done = 0 /\ p.start = Word - 1}

LEMMA InputType ==
  AllInit => input \in Seq(ProcType) /\ (Computable => input \in Seq(NewProc))
<1> SUFFICES ASSUME AllInit
             PROVE  input \in Seq(ProcType) /\ (Computable => input \in Seq(NewProc))
  OBVIOUS
<1>1. 0 \in 0 .. timeQuantum - 1 /\ Word - 1 \in Nat
  BY QuantumAssumption, WordAssumption
<1>2. \A procs \in Workloads : procs \in Seq(FreshProc)
  <2> DEFINE Fresh == [id : Nat \ {0}, arr : Nat, cpu : Nat, io : Nat, rate : Nat, rem : Nat,
                       last : {0}, saved : {0}, start : {Word - 1}, done : {0}]
  <2>1. Fresh \subseteq FreshProc
    BY <1>1 DEF ProcType, FreshProc
  <2>2. \A procs \in Workloads : procs \in Seq(Fresh)
    BY WorkloadsAssumption
  <2> HIDE DEF Fresh
  <2> QED
    BY <2>1, <2>2, SeqMonotonic
<1>3. \A program \in Programs : Main(program) \in Seq(FreshProc)
  <2>1. \A id \in Nat \ {0}, arr, cpu, io, rate \in Nat : Process(id, arr, cpu, io, rate) \in FreshProc
    BY <1>1 DEF Process, FreshProc, ProcType, SIZE_MAX
  <2>2. SJFMain \in Seq(FreshProc)
    <3>1. \A a, b, c, g \in FreshProc : <<a, b, c, g>> \in Seq(FreshProc)
      OBVIOUS
    <3>2. Process(1, 0, 24, 2, 5) \in FreshProc
      BY <2>1, 0 \in Nat, 1 \in Nat \ {0}, 24 \in Nat, 2 \in Nat, 5 \in Nat, Zenon
    <3>3. Process(2, 3, 17, 3, 6) \in FreshProc
      BY <2>1, 2 \in Nat \ {0}, 3 \in Nat, 17 \in Nat, 6 \in Nat, Zenon
    <3>4. Process(3, 8, 50, 2, 5) \in FreshProc
      BY <2>1, 3 \in Nat \ {0}, 8 \in Nat, 50 \in Nat, 2 \in Nat, 5 \in Nat, Zenon
    <3>5. Process(4, 15, 10, 3, 6) \in FreshProc
      BY <2>1, 4 \in Nat \ {0}, 15 \in Nat, 10 \in Nat, 3 \in Nat, 6 \in Nat, Zenon
    <3> QED
      BY <3>1, <3>2, <3>3, <3>4, <3>5, Zenon DEF SJFMain
  <2> QED
    BY <2>2 DEF Main, SRTFMain, RRMain, VRRMain, Programs
<1>4. input \in Seq(FreshProc)
  BY <1>2, <1>3 DEF AllInit, Init
<1>5. input \in Seq(ProcType)
  <2>1. FreshProc \subseteq ProcType
    BY DEF FreshProc
  <2> QED
    BY <1>4, <2>1, SeqMonotonic
<1>6. ASSUME Computable
      PROVE  input \in Seq(NewProc)
  <2>1. PICK n \in Nat : n = Len(input)
    BY <1>4
  <2>2. DOMAIN input = 1 .. n
    BY <1>4, <2>1, LenProperties
  <2>3. \A i \in 1 .. n : input[i] \in NewProc
    <3> TAKE i \in 1 .. n
    <3>1. input[i] \in FreshProc
      BY <1>4, <2>2
    <3>2. input[i].cpu \in 1 .. Word - 1 /\ input[i].rem = input[i].cpu
      BY <1>6, <2>2 DEF Computable
    <3> QED
      BY <3>1, <3>2 DEF FreshProc, NewProc
  <2> QED
    BY <1>5, <2>1, <2>2, <2>3
<1> QED
  BY <1>5, <1>6

LEMMA InvInit == AllInit => Inv
<1> SUFFICES ASSUME AllInit
             PROVE  Inv
  OBVIOUS
<1>1. dev = Device(input)
  BY DEF AllInit, Init
<1>2. input \in Seq(ProcType) /\ Device(input) \in DeviceType /\ Kept(Device(input))
  BY InputType, DeviceKept
<1>3. Distinct => Conserved(Device(input))
  BY <1>2, DeviceConserved
<1>4. todo \in Seq(Programs) /\ todo # <<>>
  <2>1. CASE todo \in Arguments
    BY <2>1, ArgumentsAssumption DEF Programs
  <2>2. CASE \E p \in Programs : todo = <<p>>
    BY <2>2
  <2> QED
    BY <2>1, <2>2 DEF AllInit, Init
<1>5. Computable => input \in Seq(NewProc) /\ Reckoned(Device(input))
  BY InputType, DeviceReckoned
<1>6. Device(input).ticks <= MaxTicks
  BY WordAssumption DEF Device
<1> HIDE DEF AllInit
<1> QED
  BY <1>1, <1>2, <1>3, <1>4, <1>5, <1>6 DEF Inv

\* What a tick does, whoever makes it.
LEMMA TickKept ==
  Inv /\ (Standalone \/ Processor) => Kept(dev') /\ Ticked(dev, dev')
<1> SUFFICES ASSUME Inv, Standalone \/ Processor
             PROVE  Kept(dev') /\ Ticked(dev, dev')
  OBVIOUS
<1>1. scheduler \in Programs /\ dev \in DeviceType /\ AuxOfVrr(dev)
  BY DEF Inv, scheduler, Kept
<1>2. CASE SJF
  BY <1>1, <1>2, SJFKept DEF SJF
<1>3. CASE SRTF
  BY <1>1, <1>3, SRTFKept DEF SRTF
<1>4. CASE RR
  BY <1>1, <1>4, RRKept DEF RR
<1>5. CASE VRR
  BY <1>1, <1>5, VRRKept DEF VRR
<1>6. CASE Processor
  BY <1>1, <1>6, IterationKept DEF Processor
<1> QED
  BY <1>2, <1>3, <1>4, <1>5, <1>6 DEF Standalone

LEMMA InvNext == Inv /\ [AllNext]_allVars => Inv'
<1> SUFFICES ASSUME Inv, [AllNext]_allVars
             PROVE  Inv'
  OBVIOUS
<1>1. CASE Standalone \/ Processor
  <2>1. UNCHANGED <<input, todo>>
    BY <1>1 DEF Standalone, Processor
  <2>2. Kept(dev') /\ Ticked(dev, dev')
    BY <1>1, TickKept
  <2>3. dev \in DeviceType /\ dev' \in DeviceType
    BY <2>2 DEF Inv, Kept
  <2>4. Distinct => Conserved(dev')
    BY <2>2, <2>3, TickConserves DEF Inv
  <2>5. Kept(dev)'
    BY <2>1, <2>2 DEF Kept, Rules, AuxOfVrr, scheduler
  <2>6. (Distinct => Conserved(dev))'
    BY <2>1, <2>4 DEF Distinct, Conserved, Expected
  <2>7. Device(input)' = Device(input)
    BY <2>1 DEF Device
  <2>8. dev.ticks < MaxTicks /\ dev'.ticks = dev.ticks + 1
    BY <1>1, <2>2, <2>3, TickCounts DEF Standalone, Processor
  <2>9. dev'.ticks <= MaxTicks /\ dev.ticks < Word - 1
    <3>1. PICK t \in Nat : t = dev.ticks
      BY <2>3 DEF DeviceType
    <3>2. MaxTicks \in Int /\ MaxTicks <= Word - 1 /\ Word \in Nat
      BY WordAssumption
    <3>3. t < MaxTicks => t + 1 <= MaxTicks /\ t < Word - 1
      BY <3>2
    <3> QED
      BY <2>8, <3>1, <3>3
  <2>10. Computable => Reckoned(dev')
    BY <2>2, <2>3, <2>9, TickReckons DEF Inv
  <2>11. (Computable => input \in Seq(NewProc) /\ Reckoned(dev))'
    <3>1. (Computable => input \in Seq(NewProc)) /\ (Reckoned(dev') => Reckoned(dev)')
      BY <2>1 DEF Inv, Reckoned
    <3> QED
      BY <2>1, <2>10, <3>1 DEF Computable
  <2> QED
    BY <2>1, <2>5, <2>6, <2>7, <2>9, <2>11 DEF Inv
<1>2. CASE NextScheduler
  <2>1. todo' = Tail(todo) /\ input' = input /\ dev' = Device(input) /\ Len(todo) > 1
    BY <1>2 DEF NextScheduler
  <2>2. todo' \in Seq(Programs) /\ todo' # <<>>
    <3>0. todo \in Seq(Programs) /\ todo # <<>>
      BY DEF Inv
    <3>1. /\ Tail(todo) \in Seq(Programs) /\ Len(Tail(todo)) = Len(todo) - 1
      BY <3>0, HeadTailProperties, Zenon
    <3>2. Len(Tail(todo)) # 0 /\ Len(<<>>) = 0
      <4>1. PICK n \in Nat : n = Len(todo)
        BY <3>0
      <4>2. n > 1
        BY <2>1, <4>1, Zenon
      <4>3. n - 1 # 0
        BY <4>2
      <4>4. Len(Tail(todo)) = n - 1
        BY <3>1, <4>1, Zenon
      <4>5. Len(<<>>) = 0
        OBVIOUS
      <4> QED
        BY <4>3, <4>4, <4>5, Zenon
    <3> QED
      BY <2>1, <3>1, <3>2
  <2>3. Device(input)' = Device(input) /\ Device(input) \in DeviceType
    BY <2>1 DEF Device, Inv
  <2>4. Kept(dev)'
    BY <2>1, <2>3 DEF Kept, Rules, AuxOfVrr, Device
  <2>5. Distinct => Conserved(Device(input))
    BY DeviceConserved DEF Inv
  <2>6. (Distinct => Conserved(dev))'
    <3> DEFINE d == Device(input)
    <3>1. dev' = d /\ (Distinct => Conserved(d))
      BY <2>1, <2>5
    <3> HIDE DEF d
    <3> QED
      BY <2>1, <3>1 DEF Distinct, Conserved, Expected
  <2>7. dev'.ticks <= MaxTicks
    BY <2>1, WordAssumption DEF Device
  <2>8. (Computable => input \in Seq(NewProc) /\ Reckoned(dev))'
    <3> DEFINE d == Device(input)
    <3>1. dev' = d /\ (Computable => input \in Seq(NewProc) /\ Reckoned(d))
      BY <2>1, DeviceReckoned DEF Inv
    <3> HIDE DEF d
    <3> QED
      BY <2>1, <3>1 DEF Computable, Reckoned
  <2> QED
    BY <2>1, <2>2, <2>3, <2>4, <2>6, <2>7, <2>8 DEF Inv
<1>3. CASE Finish \/ UNCHANGED allVars
  <2>1. UNCHANGED vars
    BY <1>3 DEF Finish, allVars
  <2>2. Kept(dev)' = Kept(dev) /\ (Distinct => Conserved(dev))' = (Distinct => Conserved(dev))
    BY <2>1 DEF vars, Kept, Rules, AuxOfVrr, scheduler, Distinct, Conserved, Expected
  <2>3. Device(input)' = Device(input)
    BY <2>1 DEF vars, Device
  <2>4. Computable' = Computable /\ Reckoned(dev)' = Reckoned(dev)
    BY <2>1 DEF vars, Computable, Reckoned
  <2> QED
    BY <2>1, <2>2, <2>3, <2>4 DEF vars, Inv
<1> QED
  BY <1>1, <1>2, <1>3 DEF AllNext

LEMMA Invariance == AllSpec => []Inv
<1> QED
  BY InvInit, InvNext, PTL DEF AllSpec

\* At the end of every tick somebody runs if anybody could, under each of the
\* schedulers of SchedSim and in each of the four programs.
THEOREM NeverIdles == AllSpec => []WorkConserving
<1>1. Inv => WorkConserving
  BY DEF Inv, Kept, Rules, WorkConserving
<1> QED
  BY <1>1, Invariance, PTL

\* sjf and SJF.cpp give the CPU to a shortest process, and only after the last
\* one has ended or asked for IO; srtf and SRTF.cpp run one that has the least left.
THEOREM RunsShortest == AllSpec => ShortestRuns
<1>1. ASSUME Inv, AllNext, todo' = todo, vars' # vars
      PROVE  /\ Dispatched => \A p \in ToSet(dev'.ready) : Shorter(dev'.exec, p)
             /\ scheduler = "sjf" /\ Dispatched /\ dev.exec # NoProc => Ends(dev.exec)
             /\ scheduler = "srtf" /\ dev'.exec # NoProc =>
                   \A p \in ToSet(dev'.ready) : dev'.exec.rem <= p.rem
  <2>1. scheduler \in Programs /\ dev \in DeviceType /\ AuxOfVrr(dev)
    BY <1>1 DEF Inv, scheduler, Kept
  <2>2. Standalone \/ Processor
    <3>1. ~NextScheduler
      <4>1. CASE NextScheduler
        <5>1. todo \in Seq(Programs) /\ todo # <<>> /\ todo' = Tail(todo)
          BY <1>1, <4>1 DEF Inv, NextScheduler
        <5>2. Len(Tail(todo)) = Len(todo) - 1 /\ Len(todo) \in Nat
          BY <5>1, HeadTailProperties
        <5>3. Len(todo) # Len(todo) - 1
          BY <5>2
        <5> QED
          BY <1>1, <5>1, <5>2, <5>3
      <4> QED
        BY <4>1
    <3> QED
      BY <1>1, <3>1 DEF AllNext, Finish, vars
  <2>3. Kept(dev')
    BY <1>1, <2>2, TickKept
  <2>4. scheduler = "sjf" \/ scheduler = "srtf" => Chooses(dev, dev')
    <3>1. CASE SJF
      BY <2>1, <3>1, SJFChooses DEF SJF
    <3>2. CASE SRTF
      BY <2>1, <3>2, SRTFChooses DEF SRTF
    <3>3. CASE Processor
      BY <2>1, <3>3, IterationChooses DEF Processor
    <3>4. CASE RR \/ VRR
      BY <3>4 DEF RR, VRR
    <3> QED
      BY <2>2, <3>1, <3>2, <3>3, <3>4 DEF Standalone
  <2>5. scheduler \in {"rr", "vrr"} => \A p \in ToSet(dev'.ready) : Shorter(dev'.exec, p)
    BY DEF Shorter
  <2> QED
    BY <2>1, <2>3, <2>4, <2>5 DEF Dispatched, Chooses, Kept, Rules, Programs
<1>2. Inv /\ [AllNext]_allVars
        => [todo' = todo =>
              /\ Dispatched => \A p \in ToSet(dev'.ready) : Shorter(dev'.exec, p)
              /\ scheduler = "sjf" /\ Dispatched /\ dev.exec # NoProc => Ends(dev.exec)
              /\ scheduler = "srtf" /\ dev'.exec # NoProc =>
                    \A p \in ToSet(dev'.ready) : dev'.exec.rem <= p.rem]_vars
  BY <1>1 DEF allVars
<1> QED
  BY <1>2, Invariance, PTL DEF AllSpec, ShortestRuns

\* rr, vrr, RR.cpp and VRR.cpp take the CPU from a process at the end of its
\* quantum, also of what vrr has left it of one, if others are ready.
THEOREM KeepsQuantum == AllSpec => []QuantumKept
<1>1. Inv => QuantumKept
  BY DEF Inv, Kept, Rules, QuantumKept
<1> QED
  BY <1>1, Invariance, PTL

\* While no two processes of a list arrive in the same tick, each of them is
\* in exactly one place all the way, none misses its tick, and the loop counts
\* those that have not come to their end.
THEOREM NobodyLost == AllSpec => []Conservation
<1>1. Inv => Conservation
  <2> SUFFICES ASSUME Inv, Distinct
               PROVE  /\ Len(Everywhere(dev)) = Len(input)
                      /\ {p.id : p \in ToSet(Everywhere(dev))} = {p.id : p \in ToSet(input)}
                      /\ \A p \in ToSet(dev.procs) : p.arr >= dev.ticks
                      /\ dev.total = Len(input) - Len(dev.completed)
    BY DEF Conservation
  <2>1. /\ dev \in DeviceType /\ Conserved(dev) /\ input \in Seq(ProcType)
    BY DEF Inv, Kept
  <2>2. Len(Everywhere(dev)) = Size(dev) /\ {p.id : p \in ToSet(Everywhere(dev))} = Ids(dev)
    BY <2>1, EverywhereSize
  <2>3. {p.id : p \in ToSet(input)} = IdsOf(input)
    BY DEF ToSet, IdsOf
  <2>4. \A p \in ToSet(dev.procs) : p.arr >= dev.ticks
    BY <2>1 DEF Conserved, Expected, ToSet
  <2>5. dev.total = Len(input) - Len(dev.completed)
    <3>1. dev.total \in Int /\ Len(dev.completed) \in Nat /\ Len(input) \in Nat
      BY <2>1 DEF DeviceType
    <3> QED
      BY <2>1, <3>1 DEF Conserved
  <2> QED
    BY <2>1, <2>2, <2>3, <2>4, <2>5 DEF Conserved
<1> QED
  BY <1>1, Invariance, PTL
\* A process at any time: of its burst nothing is left over or owed.
Sound(t) == {p \in ProcType : p.rem <= p.cpu /\ p.last <= p.rate /\ p.done <= t}

LEMMA SoundEverywhere ==
  ASSUME NEW d \in DeviceType, Settled(d)
  PROVE  /\ Everywhere(d) \in Seq(Sound(d.ticks))
         /\ d.ticks - d.idle = Sum(Everywhere(d)) + Len(On(d.exec))
<1> DEFINE S == Sound(d.ticks)
<1>1. PICK t \in Nat : t = d.ticks
  BY DEF DeviceType
<1>2. NewProc \subseteq S
  BY <1>1 DEF NewProc, Sound, ProcType
<1>3. Waiting(d.ticks) \subseteq S
  BY <1>1 DEF Waiting, Sound, ProcType
<1>4. Ended(d.ticks) \subseteq S
  BY <1>1 DEF Ended, Sound, ProcType
<1>5. S \in SUBSET ProcType
  BY DEF Sound
<1> HIDE DEF S
<1>6. /\ d.procs \in Seq(NewProc) /\ d.ready \in Seq(Waiting(d.ticks))
      /\ d.aux \in Seq(Waiting(d.ticks)) /\ d.io \in Seq(Waiting(d.ticks))
      /\ d.completed \in Seq(Ended(d.ticks))
  BY DEF Settled, Queued
<1>7. /\ d.procs \in Seq(S) /\ d.ready \in Seq(S) /\ d.aux \in Seq(S) /\ d.io \in Seq(S)
      /\ d.completed \in Seq(S)
  BY <1>2, <1>3, <1>4, <1>6, SeqMonotonic
<1>8. On(d.exec) \in Seq(S) /\ On(d.execIO) \in Seq(S)
  <2>1. d.exec \in Waiting(d.ticks) \cup {NoProc} /\ d.execIO \in Waiting(d.ticks) \cup {NoProc}
    BY DEF Settled, Queued, Running, Begun
  <2>2. \A p \in S : <<p>> \in Seq(S)
    OBVIOUS
  <2>3. \A p \in Waiting(d.ticks) : p \in S /\ p \in ProcType
    BY <1>3, <1>5
  <2>4. \A p \in Waiting(d.ticks) \cup {NoProc} : On(p) \in Seq(S)
    BY <2>2, <2>3, IdsOfDevice, EmptySeq
  <2> QED
    BY <2>1, <2>4
<1>9. /\ Everywhere(d) \in Seq(S)
      /\ Sum(Everywhere(d)) = Sum(d.procs) + Work(d)
  BY <1>5, <1>7, <1>8, EverywhereSum
<1>10. Sum(Everywhere(d)) = Work(d)
  <2>1. Sum(d.procs) = 0
    BY <1>6, SumNew
  <2>2. Work(d) \in Int
    BY WorkType
  <2> QED
    BY <1>9, <2>1, <2>2
<1>11. d.ticks - d.idle = Work(d) + Len(On(d.exec))
  BY DEF Settled
<1> QED
  BY <1>9, <1>10, <1>11 DEF S

\* What debug() reports adds up, whichever scheduler runs, for every list with
\* a process in it whose bursts are neither 0 nor wider than size_t: the busy
\* ticks are the bursts, and no difference of unsigned numbers, be it of the
\* table or of its last line, wraps around.
THEOREM AddsUp == AllSpec => []Accounting
<1>1. Inv => Accounting
  <2> SUFFICES ASSUME Inv, Computable
               PROVE  /\ TypeOK
                      /\ dev.ticks - dev.idle =
                             Sum(Everywhere(dev)) + (IF dev.exec = NoProc THEN 0 ELSE 1)
                      /\ \A p \in ToSet(dev.completed) : /\ p.arr <= p.start
                                                         /\ p.done - p.arr >= p.cpu
                                                         /\ p.start + p.cpu <= p.done
                      /\ dev.total = 0 => dev.idle > 0
    BY DEF Accounting
  <2>1. dev \in DeviceType /\ Settled(dev) /\ dev.ticks <= MaxTicks
    BY DEF Inv, Kept, Reckoned
  <2>2. PICK t, m \in Nat : t = dev.ticks /\ m = MaxTicks /\ t <= m
    BY <2>1, WordAssumption DEF DeviceType
  <2>3. dev.idle \in 0 .. t /\ dev.q \in 0 .. t
    BY <2>1, <2>2 DEF Settled
  <2>4. PICK a, b, c, g, h, x, y \in Nat :
            /\ a = Len(dev.procs) /\ b = Len(dev.ready) /\ c = Len(dev.aux) /\ g = Len(dev.io)
            /\ h = Len(dev.completed) /\ x = Len(On(dev.exec)) /\ y = Len(On(dev.execIO))
            /\ Size(dev) = a + b + c + g + h + x + y
    BY <2>1, SizeType
  <2>5. PICK u \in Int : u = dev.total
    BY <2>1 DEF DeviceType
  <2>6. PICK n \in Nat : n = Len(input) /\ n > 0
    <3>1. input \in Seq(ProcType) /\ input # <<>>
      BY DEF Inv, Computable
    <3> QED
      BY <3>1, EmptySeq
  <2>7. a + b + c + g + h + x + y = n /\ u + h = n
    BY <2>4, <2>5, <2>6 DEF Inv, Reckoned
  <2>8. \A p \in ToSet(Everywhere(dev)) : p \in Sound(t)
    BY <2>1, <2>2, SoundEverywhere DEF ToSet
  <2>9. TypeOK
    <3>1. u \in 0 .. n
      BY <2>7
    <3>2. dev.ticks \in 0 .. MaxTicks /\ dev.idle \in 0 .. dev.ticks /\ dev.q \in 0 .. MaxTicks
      BY <2>2, <2>3
    <3>3. \A p \in Sound(t) :
              /\ p.rem \in 0 .. p.cpu /\ p.last \in 0 .. p.rate
              /\ p.saved \in 0 .. timeQuantum - 1 /\ p.done \in 0 .. m
      BY <2>2 DEF Sound, ProcType
    <3> QED
      BY <2>2, <2>5, <2>6, <2>8, <3>1, <3>2, <3>3 DEF TypeOK
  <2>10. Len(On(dev.exec)) = IF dev.exec = NoProc THEN 0 ELSE 1
    BY <2>1, IdsOfDevice DEF DeviceType, Occupant
  <2>11. \A p \in Ended(t) : /\ p.arr <= p.start /\ p.done - p.arr >= p.cpu
                             /\ p.start + p.cpu <= p.done /\ t > 0
    BY <2>2, WordAssumption DEF Ended, ProcType
  <2>12. \A p \in ToSet(dev.completed) : p \in Ended(t)
    BY <2>1, <2>2 DEF Settled, Queued, ToSet
  <2>13. ASSUME dev.total = 0
         PROVE  dev.idle > 0
    <3>1. h > 0 /\ x = 0
      BY <2>5, <2>6, <2>7, <2>13
    <3>2. dev.exec = NoProc
      BY <2>4, <2>10, <3>1
    <3>3. t > 0
      <4>1. 1 \in DOMAIN dev.completed
        BY <2>1, <2>4, <3>1 DEF DeviceType
      <4>2. dev.completed[1] \in ToSet(dev.completed)
        BY <4>1 DEF ToSet
      <4> QED
        BY <2>11, <2>12, <4>2
    <3> QED
      BY <2>1, <2>2, <3>2, <3>3 DEF Settled
  <2> QED
    BY <2>1, <2>9, <2>10, <2>11, <2>12, <2>13, SoundEverywhere
<1> QED
  BY <1>1, Invariance, PTL
\* Tick for tick, the older programs make the schedule of the scheduler of
\* SchedSim that was made from them: RR.cpp and VRR.cpp always, SJF.cpp and
\* SRTF.cpp while nobody waits for the IO device.
THEOREM MakesTheSchedule == AllSpec => SameSchedule
<1>1. ASSUME Inv, [AllNext]_allVars, standalone, dev' # dev,
             scheduler \in {"rr", "vrr"} \/ dev.io = <<>>
      PROVE  \E d \in Iteration(dev) : Schedule(d) = Schedule(dev')
  <2>1. dev \in DeviceType /\ AuxOfVrr(dev)
    BY <1>1 DEF Inv, Kept
  <2>2. SJF \/ SRTF \/ RR \/ VRR
    BY <1>1 DEF AllNext, Standalone, Finish, vars, allVars
  <2>3. CASE SJF
    BY <1>1, <2>1, <2>3, SameSJF DEF SJF
  <2>4. CASE SRTF
    BY <1>1, <2>1, <2>4, SameSRTF DEF SRTF
  <2>5. CASE RR
    BY <2>1, <2>5, SameRR DEF RR
  <2>6. CASE VRR
    BY <2>1, <2>6, SameVRR DEF VRR
  <2> QED
    BY <2>2, <2>3, <2>4, <2>5, <2>6
<1>2. Inv /\ [AllNext]_allVars
        => [standalone /\ dev' # dev /\ (scheduler \in {"rr", "vrr"} \/ dev.io = <<>>)
              => \E d \in Iteration(dev) : Schedule(d) = Schedule(dev')]_allVars
  BY <1>1
<1> QED
  BY <1>2, Invariance, PTL DEF AllSpec, SameSchedule
=============================================================================
