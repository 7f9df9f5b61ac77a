-------------------------- MODULE EchoServer_proofs --------------------------
(***************************************************************************)
(* The map of connections, the WaitGroup and the order of the echoes, for  *)
(* any finite set of clients, any room in the buffers and any number of    *)
(* chunks.  The argument: a goroutine is started once for a connection     *)
(* (Newborn, Accepted), so the WaitGroup counts goroutines (Counted); an   *)
(* open connection has a goroutine that still has to close it, or is about *)
(* to get one (Kept); so when the count is 0 nothing is open.  And while a *)
(* client is there, its goroutine has answered all it has read (Answered). *)
(***************************************************************************)
EXTENDS EchoServer, FiniteSetTheorems, TLAPS

Active == {c \in Clients : pc[c] \notin {None, "ended"}}

\* The connection that main has accepted and given no goroutine yet.
Held(c) == main \in {"insert", "add"} /\ c = cur

Accepted == main \in {"insert", "add"} =>
                cur \in Clients /\ pc[cur] = None /\ client[cur] \in {"here", "left"}

Newborn == \A c \in Clients : client[c] \in {"away", "pending"} => pc[c] = None

Kept == \A c \in open : pc[c] \in {"greet", "read", "write", "close"} \/ Held(c)

Answered == \A c \in Clients :
    /\ pc[c] \in {None, "greet"} => heard[c] = <<>> /\ read[c] = 0
    /\ Reachable(c) /\ pc[c] = "read" => Len(heard[c]) = read[c] + 1
    /\ Reachable(c) /\ pc[c] = "write" => Len(heard[c]) = read[c]

Empty == main = "returned" => wg = 0

IInv == /\ TypeOK /\ Registered /\ Counted /\ EchoesInOrder
        /\ Accepted /\ Newborn /\ Kept /\ Answered /\ Empty

USE ClientsAssumption, RoomAssumption DEF None, Greeting

-----------------------------------------------------------------------------
(* The active connections are finitely many; their number moves by one     *)
(* when a goroutine starts or ends, and it is 0 only when there are none.  *)
LEMMA ActiveFinite == /\ IsFiniteSet(Active) /\ Cardinality(Active) \in Nat
                      /\ Cardinality(Active) = 0 <=> Active = {}
  <1>1. Active \in SUBSET Clients
    BY DEF Active
  <1>2. IsFiniteSet(Active)
    BY <1>1, FS_Subset
  <1>3. QED BY <1>2, FS_CardinalityType, FS_EmptySet

LEMMA CountedActive == Counted <=> wg = Cardinality(Active)
  BY DEF Counted, Active

LEMMA Starts ==
  ASSUME NEW c \in Clients, c \notin Active, Active' = Active \cup {c}
  PROVE  Cardinality(Active') = Cardinality(Active) + 1
  BY ActiveFinite, FS_AddElement

LEMMA Ends ==
  ASSUME NEW c \in Clients, c \in Active, Active' = Active \ {c}
  PROVE  Cardinality(Active') = Cardinality(Active) - 1
  BY ActiveFinite, FS_RemoveElement

\* A step that moves no goroutine into or out of the active ones.
LEMMA SameCount ==
  ASSUME Counted, wg' = wg, Active' = Active
  PROVE  Counted'
  BY DEF Counted, Active

LEMMA InitIInv == Init => IInv
  <1> SUFFICES ASSUME Init PROVE IInv
    OBVIOUS
  <1>1. Active = {}
    BY DEF Init, Active
  <1>2. Counted
    BY <1>1, FS_EmptySet, CountedActive DEF Init
  <1>3. TypeOK
    <2>1. ServerTypes
      <3>1. pc \in [Clients -> {None, "greet", "read", "write",
                                "close", "delete", "done", "ended"}]
        BY DEF Init
      <3>2. /\ main = "accept" /\ cur = None /\ sig = "wait" /\ saying = None /\ wg = 0
            /\ todo = {} /\ conns = {} /\ open = {}
            /\ shutdown \in BOOLEAN /\ listening \in BOOLEAN /\ locked \in BOOLEAN
        BY DEF Init
      <3>3. QED BY <3>1, <3>2 DEF ServerTypes
    <2>2. NetTypes
      BY DEF Init, NetTypes
    <2>3. QED BY <2>1, <2>2 DEF TypeOK
  <1>4. Registered /\ Accepted /\ Newborn /\ Kept /\ Empty
    BY DEF Init, Registered, Accepted, Newborn, Kept, Empty
  <1>5. EchoesInOrder /\ Answered
    BY DEF Init, EchoesInOrder, Answered, Reachable
  <1>6. QED BY <1>2, <1>3, <1>4, <1>5 DEF IInv

-----------------------------------------------------------------------------
(* What a write does to the buffers and to what the client hears.          *)
LEMMA MoreUnread ==
  ASSUME NEW c \in Clients, unread \in [Clients -> 0 .. Room], HasRoom(c),
         unread' = [unread EXCEPT ![c] = @ + 1]
  PROVE  unread' \in [Clients -> 0 .. Room]
  <1>1. unread[c] + 1 \in 0 .. Room
    BY DEF HasRoom
  <1>2. QED BY <1>1

LEMMA WriteTypes ==
  ASSUME NEW c \in Clients, NEW what \in Nat, NetTypes, Write(c, what)
  PROVE  unread' \in [Clients -> 0 .. Room] /\ heard' \in [Clients -> Seq(Nat)]
  <1> USE DEF NetTypes, Write
  <1>1. unread' \in [Clients -> 0 .. Room]
    BY MoreUnread
  <1>2. heard' \in [Clients -> Seq(Nat)]
    <2>1. Append(heard[c], what) \in Seq(Nat)
      OBVIOUS
    <2>2. QED BY <2>1
  <1>3. QED BY <1>1, <1>2

\* A step that writes nothing to a client and lets nobody read or write who
\* did not do so before.
LEMMA Unheard ==
  ASSUME Answered, EchoesInOrder, UNCHANGED <<heard, read>>,
         \A d \in Clients :
            /\ pc'[d] \in {None, "greet"} => pc[d] \in {None, "greet"}
            /\ Reachable(d)' /\ pc'[d] \in {"read", "write"} => Reachable(d) /\ pc'[d] = pc[d]
  PROVE  Answered' /\ EchoesInOrder'
  <1>1. EchoesInOrder'
    BY DEF EchoesInOrder
  <1>2. Answered'
    BY DEF Answered
  <1>3. QED BY <1>1, <1>2

\* A step of the goroutine of c that leaves the goroutines of the others alone.
LEMMA OneAnswers ==
  ASSUME NEW c \in Clients, Answered, EchoesInOrder, UNCHANGED <<open, client>>,
         \A d \in Clients \ {c} : pc'[d] = pc[d] /\ heard'[d] = heard[d] /\ read'[d] = read[d],
         \A i \in DOMAIN heard'[c] : heard'[c][i] = i - 1,
         Len(heard'[c]) <= read'[c] + 1,
         pc'[c] \notin {None, "greet"},
         Reachable(c) /\ pc'[c] = "read" => Len(heard'[c]) = read'[c] + 1,
         Reachable(c) /\ pc'[c] = "write" => Len(heard'[c]) = read'[c]
  PROVE  Answered' /\ EchoesInOrder'
  <1>1. EchoesInOrder'
    BY DEF EchoesInOrder
  <1>2. Answered'
    BY DEF Answered, Reachable
  <1>3. QED BY <1>1, <1>2

-----------------------------------------------------------------------------
(* A client's step moves neither main nor a goroutine.                     *)
LEMMA ClientIInv ==
  ASSUME NEW c \in Clients, IInv, Client(c)
  PROVE  IInv'
  <1> USE DEF IInv, Client, Connect, Send, Take, Leave, mainVars, sigVars
  <1>1. TypeOK'
    <2>1. ServerTypes'
      BY DEF TypeOK, ServerTypes
    <2>2. NetTypes'
      <3> USE DEF TypeOK, NetTypes
      <3>1. CASE Connect(c)
        BY <3>1
      <3>2. CASE Send(c)
        BY <3>2
      <3>3. CASE Take(c)
        BY <3>3
      <3>4. CASE Leave(c)
        <4>1. unread' \in [Clients -> 0 .. Room]
          BY <3>4
        <4>2. QED BY <3>4, <4>1
      <3>5. QED BY <3>1, <3>2, <3>3, <3>4
    <2>3. QED BY <2>1, <2>2 DEF TypeOK
  <1>2. Counted'
    BY SameCount DEF Active
  <1>3. Registered' /\ Empty'
    BY DEF Registered, Empty
  <1>4. Accepted' /\ Newborn'
    <2>1. client \in [Clients -> {"away", "pending", "here", "left"}] /\ UNCHANGED <<main, cur, pc>>
      BY DEF TypeOK, NetTypes
    <2>2. CASE Connect(c)
      BY <2>1, <2>2 DEF Accepted, Newborn
    <2>3. CASE Leave(c)
      BY <2>1, <2>3 DEF Accepted, Newborn, Reachable
    <2>4. CASE UNCHANGED client
      BY <2>1, <2>4 DEF Accepted, Newborn
    <2>5. QED BY <2>2, <2>3, <2>4
  <1>5. Kept'
    BY DEF Kept, Held
  <1>6. EchoesInOrder' /\ Answered'
    <2>1. UNCHANGED <<heard, read, pc, open>> /\ client \in [Clients -> {"away", "pending", "here", "left"}]
      BY DEF TypeOK, NetTypes
    <2>2. \A d \in Clients : client'[d] = "here" => client[d] = "here"
      BY <2>1
    <2>3. QED BY <2>1, <2>2, Unheard DEF Reachable
  <1>7. QED BY <1>1, <1>2, <1>3, <1>4, <1>5, <1>6

(* Nor does a step of the signal's goroutine: it may close a connection.   *)
LEMMA SignalIInv ==
  ASSUME IInv, Interrupt \/ Signal
  PROVE  IInv'
  <1> USE DEF IInv, Interrupt, Signal, CloseListener, LockConns, CloseConn, UnlockConns,
              NextConn, SayFarewell, mainVars, netVars
  <1>1. TypeOK'
    <2>1. ServerTypes'
      <3> USE DEF TypeOK, ServerTypes
      <3>1. CASE Interrupt \/ CloseListener \/ LockConns \/ UnlockConns
        BY <3>1
      <3>2. CASE CloseConn \/ \E c \in Clients : NextConn(c) \/ SayFarewell(c)
        BY <3>2
      <3>3. QED BY <3>1, <3>2
    <2>2. NetTypes'
      <3> USE DEF TypeOK, NetTypes
      <3>1. CASE \E c \in Clients : SayFarewell(c)
        <4>1. unread' \in [Clients -> 0 .. Room] /\ told' \in SUBSET Clients
          BY <3>1, MoreUnread
        <4>2. QED BY <3>1, <4>1
      <3>2. CASE CloseListener
        BY <3>2
      <3>3. CASE Interrupt \/ LockConns \/ CloseConn \/ UnlockConns \/ \E c \in Clients : NextConn(c)
        BY <3>3
      <3>4. QED BY <3>1, <3>2, <3>3
    <2>3. QED BY <2>1, <2>2 DEF TypeOK
  <1>2. Counted'
    BY SameCount DEF Active
  <1>3. Registered' /\ Empty'
    BY DEF Registered, Empty
  <1>4. Accepted' /\ Newborn'
    BY DEF TypeOK, ServerTypes, NetTypes, Accepted, Newborn
  <1>5. Kept'
    BY DEF Kept, Held
  <1>6. EchoesInOrder' /\ Answered'
    <2>1. UNCHANGED <<heard, read, pc>> /\ open' \in SUBSET open
      OBVIOUS
    <2>2. \A d \in Clients : client'[d] = "here" => client[d] = "here"
      OBVIOUS
    <2>3. QED BY <2>1, <2>2, Unheard DEF Reachable
  <1>7. QED BY <1>1, <1>2, <1>3, <1>4, <1>5, <1>6

(* main: a connection is accepted, put into the map and given a goroutine. *)
LEMMA MainIInv ==
  ASSUME IInv, Main
  PROVE  IInv'
  <1> USE DEF IInv, Main, AcceptError, Insert, Go, Return, Accept, sigVars, netVars
  <1>1. TypeOK'
    <2>1. ServerTypes'
      BY DEF TypeOK, ServerTypes, Accepted
    <2>2. NetTypes'
      BY DEF TypeOK, ServerTypes, NetTypes
    <2>3. QED BY <2>1, <2>2 DEF TypeOK
  <1>2. Counted'
    <2>1. CASE Go
      <3>1. cur \in Clients /\ cur \notin Active /\ Active' = Active \cup {cur}
        BY <2>1 DEF TypeOK, ServerTypes, NetTypes, Accepted, Active
      <3>2. QED BY <2>1, <3>1, Starts, CountedActive DEF Counted, Active
    <2>2. CASE ~Go
      BY <2>2, SameCount DEF Active
    <2>3. QED BY <2>1, <2>2
  <1>3. Registered'
    BY DEF TypeOK, ServerTypes, NetTypes, Registered, Accepted
  <1>4. Empty'
    BY DEF Empty
  <1>5. Accepted' /\ Newborn'
    <2> USE DEF TypeOK, ServerTypes, NetTypes, Accepted, Newborn
    <2>1. CASE Go
      BY <2>1
    <2>2. CASE \E c \in Clients : Accept(c)
      BY <2>2
    <2>3. CASE AcceptError \/ Insert \/ Return
      BY <2>3
    <2>4. QED BY <2>1, <2>2, <2>3
  <1>6. Kept'
    <2> USE DEF Kept, Held
    <2>1. CASE Go
      BY <2>1 DEF TypeOK, ServerTypes, Accepted
    <2>2. CASE \E c \in Clients : Accept(c)
      BY <2>2
    <2>3. CASE AcceptError \/ Insert \/ Return
      BY <2>3
    <2>4. QED BY <2>1, <2>2, <2>3
  <1>7. EchoesInOrder'
    BY DEF EchoesInOrder
  <1>8. Answered'
    <2> USE DEF Answered, Reachable, TypeOK, ServerTypes, NetTypes
    <2>1. CASE Go
      BY <2>1 DEF Accepted
    <2>2. CASE \E c \in Clients : Accept(c)
      BY <2>2 DEF Newborn
    <2>3. CASE AcceptError \/ Insert \/ Return
      BY <2>3
    <2>4. QED BY <2>1, <2>2, <2>3
  <1>9. QED BY <1>1, <1>2, <1>3, <1>4, <1>5, <1>6, <1>7, <1>8

-----------------------------------------------------------------------------
(* The goroutine of a connection, up to the end of its loop.               *)
LEMMA ServeIInv ==
  ASSUME NEW c \in Clients, IInv, Running, Greet(c) \/ Read(c) \/ ReadError(c) \/ Echo(c)
  PROVE  IInv'
  <1> USE DEF IInv, Greet, Read, ReadError, Echo, Becomes, mainVars, sigVars, netVars
  <1>1. TypeOK'
    <2>1. ServerTypes'
      BY DEF TypeOK, ServerTypes
    <2>2. NetTypes'
      <3> USE DEF TypeOK, NetTypes
      <3>1. CASE Read(c)
        BY <3>1
      <3>2. CASE ReadError(c)
        BY <3>2
      <3>3. CASE Greet(c)
        <4>1. unread' \in [Clients -> 0 .. Room] /\ heard' \in [Clients -> Seq(Nat)]
          BY <3>3, WriteTypes
        <4>2. QED BY <3>3, <4>1
      <3>4. CASE Echo(c)
        <4>1. unread' \in [Clients -> 0 .. Room] /\ heard' \in [Clients -> Seq(Nat)]
          BY <3>4, WriteTypes
        <4>2. QED BY <3>4, <4>1
      <3>5. QED BY <3>1, <3>2, <3>3, <3>4
    <2>3. QED BY <2>1, <2>2 DEF TypeOK
  <1>2. Counted'
    BY SameCount DEF Active, TypeOK, ServerTypes, NetTypes
  <1>3. Registered' /\ Empty'
    BY DEF Registered, Empty, TypeOK, ServerTypes
  <1>4. Accepted' /\ Newborn'
    <2>1. /\ pc[c] # None /\ \A d \in Clients \ {c} : pc'[d] = pc[d]
          /\ UNCHANGED <<main, cur, client>>
      BY DEF TypeOK, ServerTypes
    <2>2. QED BY <2>1 DEF Accepted, Newborn
  <1>5. Kept'
    BY DEF TypeOK, ServerTypes, NetTypes, Kept, Held
  <1>6. EchoesInOrder' /\ Answered'
    <2>1. heard[c] \in Seq(Nat) /\ read[c] \in Nat
      BY DEF TypeOK, NetTypes
    <2>2. /\ UNCHANGED <<open, client>> /\ pc'[c] \notin {None, "greet"}
          /\ \A d \in Clients \ {c} : pc'[d] = pc[d] /\ heard'[d] = heard[d] /\ read'[d] = read[d]
      <3>1. UNCHANGED <<open, client>>
        OBVIOUS
      <3>2. pc'[c] \notin {None, "greet"} /\ \A d \in Clients \ {c} : pc'[d] = pc[d]
        BY DEF TypeOK, ServerTypes
      <3>3. \A d \in Clients \ {c} : heard'[d] = heard[d] /\ read'[d] = read[d]
        BY DEF TypeOK, NetTypes, Write
      <3>4. QED BY <3>1, <3>2, <3>3
    <2>3. CASE Greet(c) \/ Echo(c)
      <3>1. read'[c] = read[c] /\ pc'[c] \in {"read", "close"}
        BY <2>3 DEF TypeOK, ServerTypes, NetTypes
      <3>2. CASE Reachable(c)
        <4>1. Len(heard[c]) = read[c] /\ heard'[c] = Append(heard[c], read[c])
          BY <2>3, <3>2 DEF Answered, Write, TypeOK, NetTypes
        <4>2. \A i \in DOMAIN heard[c] : heard[c][i] = i - 1
          BY DEF EchoesInOrder
        <4>3. Len(heard'[c]) = read[c] + 1 /\ DOMAIN heard'[c] = 1 .. read[c] + 1
          BY <2>1, <4>1
        <4>4. \A i \in DOMAIN heard'[c] : heard'[c][i] = i - 1
          BY <2>1, <4>1, <4>2, <4>3
        <4>5. Len(heard'[c]) <= read'[c] + 1 /\ pc'[c] # "write"
          BY <2>1, <3>1, <4>3
        <4>6. QED BY <2>2, <3>1, <4>3, <4>4, <4>5, OneAnswers
      <3>3. CASE ~Reachable(c)
        <4>1. heard' = heard
          BY <2>3, <3>3 DEF Write
        <4>2. QED BY <2>1, <2>2, <3>1, <3>3, <4>1, OneAnswers DEF EchoesInOrder
      <3>4. QED BY <3>2, <3>3
    <2>4. CASE Read(c) \/ ReadError(c)
      <3>1. heard' = heard
        BY <2>4
      <3>2. \/ read'[c] = read[c] + 1 /\ pc'[c] = "write" /\ pc[c] = "read"
            \/ read'[c] = read[c] /\ pc'[c] = "close"
        BY <2>4 DEF TypeOK, ServerTypes, NetTypes
      <3>3. /\ Len(heard'[c]) <= read'[c] + 1
            /\ \A i \in DOMAIN heard'[c] : heard'[c][i] = i - 1
        BY <2>1, <3>1, <3>2 DEF EchoesInOrder
      <3>4. Reachable(c) /\ pc'[c] = "write" => Len(heard'[c]) = read'[c]
        BY <2>1, <3>1, <3>2 DEF Answered
      <3>5. pc'[c] # "read"
        BY <3>2
      <3>6. QED BY <2>2, <3>3, <3>4, <3>5, OneAnswers
    <2>5. QED BY <2>3, <2>4
  <1>7. QED BY <1>1, <1>2, <1>3, <1>4, <1>5, <1>6

(* Its deferred calls: the connection is closed before it is deleted, and  *)
(* deleted before the WaitGroup is told.                                   *)
LEMMA DeferredIInv ==
  ASSUME NEW c \in Clients, IInv, Running, Close(c) \/ Delete(c) \/ Done(c)
  PROVE  IInv'
  <1> USE DEF IInv, Close, Delete, Done, Becomes, mainVars, sigVars, netVars
  <1>1. TypeOK'
    <2>1. ServerTypes'
      BY DEF TypeOK, ServerTypes
    <2>2. NetTypes'
      BY DEF TypeOK, ServerTypes, NetTypes, NetTypes
    <2>3. QED BY <2>1, <2>2 DEF TypeOK
  <1>2. Counted'
    <2>1. CASE Done(c)
      <3>1. c \in Active /\ Active' = Active \ {c}
        BY <2>1 DEF TypeOK, ServerTypes, NetTypes, Active
      <3>2. QED BY <2>1, <3>1, Ends, CountedActive DEF Counted, Active
    <2>2. CASE Close(c) \/ Delete(c)
      BY <2>2, SameCount DEF Active, TypeOK, ServerTypes, NetTypes
    <2>3. QED BY <2>1, <2>2
  <1>3. Registered'
    BY DEF Registered, TypeOK, ServerTypes, NetTypes, Accepted
  <1>4. Empty'
    BY DEF Empty, Running
  <1>5. Accepted' /\ Newborn'
    <2>1. /\ pc[c] # None /\ \A d \in Clients \ {c} : pc'[d] = pc[d]
          /\ UNCHANGED <<main, cur, client>>
      BY DEF TypeOK, ServerTypes
    <2>2. QED BY <2>1 DEF Accepted, Newborn
  <1>6. Kept'
    BY DEF TypeOK, ServerTypes, NetTypes, Kept, Held
  <1>7. EchoesInOrder' /\ Answered'
    <2>1. UNCHANGED <<heard, read, client>> /\ open' \in SUBSET open
      OBVIOUS
    <2>2. \A d \in Clients : pc'[d] = pc[d] \/ pc'[d] \in {"delete", "done", "ended"}
      BY DEF TypeOK, ServerTypes
    <2>3. QED BY <2>1, <2>2, Unheard DEF Reachable
  <1>8. QED BY <1>1, <1>2, <1>3, <1>4, <1>5, <1>6, <1>7

-----------------------------------------------------------------------------
LEMMA NextIInv == IInv /\ [Next]_vars => IInv'
  <1> SUFFICES ASSUME IInv, [Next]_vars PROVE IInv'
    OBVIOUS
  <1>1. ASSUME Running, Main PROVE IInv'
    BY <1>1, MainIInv
  <1>2. ASSUME Interrupt \/ Signal PROVE IInv'
    BY <1>2, SignalIInv
  <1>3. ASSUME NEW c \in Clients, Running, EchoConn(c) PROVE IInv'
    BY <1>3, ServeIInv, DeferredIInv DEF EchoConn
  <1>4. ASSUME NEW c \in Clients, Client(c) PROVE IInv'
    BY <1>4, ClientIInv
  <1>5. CASE UNCHANGED vars
    BY <1>5 DEF vars, mainVars, sigVars, netVars, IInv, TypeOK, ServerTypes, NetTypes,
                Registered, Counted, EchoesInOrder, Accepted, Newborn, Kept, Held,
                Answered, Reachable, Empty
  <1>6. QED BY <1>1, <1>2, <1>3, <1>4, <1>5 DEF Next

THEOREM SpecIInv == Spec => []IInv
  BY InitIInv, NextIInv, PTL DEF Spec

-----------------------------------------------------------------------------
(* Every variable keeps its type; in particular no goroutine echoes more   *)
(* than it was sent, and no buffer holds more than Room writes.            *)
THEOREM TypeCorrect == Spec => []TypeOK
  <1>1. IInv => TypeOK
    BY DEF IInv
  <1>2. QED BY SpecIInv, <1>1, PTL

(* The map of connections that the sweep of the interrupt ranges over      *)
(* holds exactly the connections not yet deleted by their goroutine.       *)
THEOREM MapExact == Spec => []Registered
  <1>1. IInv => Registered
    BY DEF IInv
  <1>2. QED BY SpecIInv, <1>1, PTL

(* wg.Wait: the WaitGroup counts the goroutines that have not finished, so *)
(* that main does not return while an echo or a deferred close is due.     *)
THEOREM WaitGroupExact == Spec => [](Counted /\ NoneCutOff)
  <1>1. IInv => Counted
    BY DEF IInv
  <1>2. IInv => NoneCutOff
    <2> SUFFICES ASSUME IInv, main = "returned" PROVE open = {} /\ conns = {}
      BY DEF NoneCutOff
    <2>1. Active = {}
      BY ActiveFinite, CountedActive DEF IInv, Empty
    <2>2. \A c \in Clients : pc[c] \in {None, "ended"}
      BY <2>1 DEF Active
    <2>3. open = {}
      BY <2>2 DEF IInv, TypeOK, ServerTypes, Kept, Held
    <2>4. conns = {}
      BY <2>2 DEF IInv, Registered
    <2>5. QED BY <2>3, <2>4
  <1>3. QED BY SpecIInv, <1>1, <1>2, PTL

(* What a client hears is the greeting and then its chunks, in the order   *)
(* it sent them, whatever the interrupt closes meanwhile.                  *)
THEOREM EchoOrder == Spec => []EchoesInOrder
  <1>1. IInv => EchoesInOrder
    BY DEF IInv
  <1>2. QED BY SpecIInv, <1>1, PTL
=============================================================================
