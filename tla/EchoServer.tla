------------------------------ MODULE EchoServer ------------------------------
(***************************************************************************)
(* GoDump/echoServer/main.go: an echo server with one goroutine for each   *)
(* connection, and a goroutine that waits for an interrupt, closes the     *)
(* listener, says goodbye on every registered connection and closes it.    *)
(* main returns when the WaitGroup of the connections is empty.            *)
(*                                                                         *)
(* A client connects at most once.  It numbers the chunks it sends; a      *)
(* chunk is what one Read of the server returns.  heard is what the        *)
(* goroutine of a connection has written to its client, the greeting and   *)
(* the echoes, and told the clients that were told goodbye; unread counts  *)
(* what is still in the socket buffers, which hold Room writes.            *)
(***************************************************************************)
EXTENDS Integers, Sequences, FiniteSets

CONSTANTS Clients,
          Room,       \* chunks that fit into a socket's buffers
          MaxChunks   \* bound on the chunks that each client sends

ASSUME ClientsAssumption == IsFiniteSet(Clients)
ASSUME RoomAssumption == Room \in Nat \ {0} /\ MaxChunks \in [Clients -> Nat]

VARIABLES
    main,       \* where main is: accept, insert, add, wait, returned
    cur,        \* the connection main has accepted
    sig,        \* where the goroutine of the signal is
    todo,       \* the connections its loop has not come to yet
    saying,     \* the connection it has come to
    shutdown, listening, locked,
    conns,      \* the map of connections
    wg,         \* the WaitGroup
    pc,         \* where EchoServer is, for each client
    open,       \* the connections open on the server's side
    client,     \* away, pending, here or left
    sent, read, \* chunks sent by the client, and read by the server
    heard, told, unread

mainVars == <<main, cur>>
sigVars == <<sig, todo, saying, shutdown, listening, locked>>
netVars == <<client, sent, heard, told, unread>>
vars == <<mainVars, sigVars, conns, wg, pc, open, read, netVars>>

None == "none"
Greeting == 0

Init == /\ main = "accept" /\ cur = None
        /\ sig = "wait" /\ todo = {} /\ saying = None
        /\ shutdown = FALSE /\ listening = TRUE /\ locked = FALSE
        /\ conns = {} /\ wg = 0 /\ open = {}
        /\ pc = [c \in Clients |-> None]
        /\ client = [c \in Clients |-> "away"]
        /\ sent = [c \in Clients |-> 0] /\ read = [c \in Clients |-> 0]
        /\ heard = [c \in Clients |-> <<>>] /\ unread = [c \in Clients |-> 0]
        /\ told = {}

Running == main # "returned"
Reachable(c) == c \in open /\ client[c] = "here"
HasRoom(c) == unread[c] < Room

-----------------------------------------------------------------------------
(* The clients and the operating system.                                   *)

Connect(c) == /\ client[c] = "away" /\ listening
              /\ client' = [client EXCEPT ![c] = "pending"]
              /\ UNCHANGED <<mainVars, sigVars, conns, wg, pc, open, read, sent, heard, told, unread>>

\* What a client does once the server has closed the connection has no effect.
Send(c) == /\ client[c] = "pending" \/ Reachable(c)
           /\ sent[c] < MaxChunks[c]
           /\ sent' = [sent EXCEPT ![c] = @ + 1]
           /\ UNCHANGED <<mainVars, sigVars, conns, wg, pc, open, read,
                          client, heard, told, unread>>

Take(c) == /\ Reachable(c) /\ unread[c] > 0
           /\ unread' = [unread EXCEPT ![c] = @ - 1]
           /\ UNCHANGED <<mainVars, sigVars, conns, wg, pc, open, read,
                          client, sent, heard, told>>

Leave(c) == /\ Reachable(c)
            /\ client' = [client EXCEPT ![c] = "left"]
            /\ unread' = [unread EXCEPT ![c] = 0]
            /\ UNCHANGED <<mainVars, sigVars, conns, wg, pc, open, read, sent, heard, told>>

-----------------------------------------------------------------------------
(* main: the accept loop.                                                  *)

Accept(c) ==
    /\ main = "accept" /\ listening /\ client[c] = "pending"
    /\ main' = "insert" /\ cur' = c
    /\ client' = [client EXCEPT ![c] = "here"] /\ open' = open \cup {c}
    /\ UNCHANGED <<sigVars, conns, wg, pc, read, sent, heard, told, unread>>

\* Accept fails, for good once the listener is closed, and for a while when
\* the process is out of descriptors, say.
AcceptError_Ignored ==     \* main returns without waiting
    /\ main = "accept"
    /\ main' = IF shutdown THEN "returned" ELSE "accept"
    /\ UNCHANGED <<cur, sigVars, conns, wg, pc, open, read, netVars>>
AcceptError ==
    /\ main = "accept"
    /\ main' = IF shutdown THEN "wait" ELSE "accept"
    /\ UNCHANGED <<cur, sigVars, conns, wg, pc, open, read, netVars>>

Insert == /\ main = "insert" /\ ~locked
          /\ conns' = conns \cup {cur} /\ main' = "add"
          /\ UNCHANGED <<cur, sigVars, wg, pc, open, read, netVars>>

\* wg.Add(1) and the go statement.
Go_Early ==      \* the goroutine is started before the insertion
    /\ main = "insert" /\ pc[cur] = None
    /\ wg' = wg + 1 /\ pc' = [pc EXCEPT ![cur] = "greet"]
    /\ UNCHANGED <<mainVars, sigVars, conns, open, read, netVars>>
Go == /\ main = "add"
      /\ wg' = wg + 1 /\ pc' = [pc EXCEPT ![cur] = "greet"]
      /\ main' = "accept" /\ cur' = None
      /\ UNCHANGED <<sigVars, conns, open, read, netVars>>

\* The process ends, and with it every goroutine and every connection.
Return == /\ main = "wait" /\ wg = 0
          /\ main' = "returned"
          /\ UNCHANGED <<cur, sigVars, conns, wg, pc, open, read, netVars>>

-----------------------------------------------------------------------------
(* The goroutine of the signal.                                            *)

\* The signal is received and close(shutdown) announces it to main.
Interrupt == /\ sig = "wait" /\ shutdown' = TRUE /\ sig' = "listener"
             /\ UNCHANGED <<mainVars, todo, saying, listening, locked,
                            conns, wg, pc, open, read, netVars>>

\* Clients that have not been accepted are turned away.
CloseListener ==
    /\ sig = "listener" /\ listening' = FALSE /\ sig' = "lock"
    /\ client' = [c \in Clients |-> IF client[c] = "pending" THEN "left" ELSE client[c]]
    /\ UNCHANGED <<mainVars, todo, saying, shutdown, locked,
                   conns, wg, pc, open, read, sent, heard, told, unread>>

LockConns == /\ sig = "lock" /\ locked' = TRUE /\ todo' = conns /\ sig' = "sweep"
             /\ UNCHANGED <<mainVars, saying, shutdown, listening,
                            conns, wg, pc, open, read, netVars>>

\* The loop takes the connections of the map in any order.
NextConn(c) ==
    /\ sig = "sweep" /\ c \in todo
    /\ todo' = todo \ {c} /\ saying' = c /\ sig' = "say"
    /\ UNCHANGED <<mainVars, shutdown, listening, locked,
                   conns, wg, pc, open, read, netVars>>

\* c.Write waits for room in the buffers of an open connection.
SayFarewell(c) ==
    /\ sig = "say" /\ c = saying /\ sig' = "close"
    /\ IF Reachable(c)
       THEN /\ HasRoom(c) /\ unread' = [unread EXCEPT ![c] = @ + 1]
            /\ told' = told \cup {c}
       ELSE UNCHANGED <<unread, told>>
    /\ UNCHANGED <<mainVars, todo, saying, shutdown, listening, locked,
                   conns, wg, pc, open, read, client, sent, heard>>

CloseConn_Not ==      \* the connection is left to its client
    /\ sig = "close" /\ saying' = None /\ sig' = "sweep"
    /\ UNCHANGED <<mainVars, todo, shutdown, listening, locked,
                   conns, wg, pc, open, read, netVars>>
CloseConn == /\ sig = "close" /\ open' = open \ {saying} /\ saying' = None /\ sig' = "sweep"
             /\ UNCHANGED <<mainVars, todo, shutdown, listening, locked,
                            conns, wg, pc, read, netVars>>

UnlockConns == /\ sig = "sweep" /\ todo = {} /\ locked' = FALSE /\ sig' = "done"
               /\ UNCHANGED <<mainVars, todo, saying, shutdown, listening,
                              conns, wg, pc, open, read, netVars>>

-----------------------------------------------------------------------------
(* EchoServer: one goroutine for each connection.                          *)

Becomes(c, where) == pc' = [pc EXCEPT ![c] = where]

\* A write to the client: of no effect on a closed connection or when the
\* client has left, waiting for room otherwise.
Write(c, what) ==
    IF Reachable(c)
    THEN /\ HasRoom(c) /\ unread' = [unread EXCEPT ![c] = @ + 1]
         /\ heard' = [heard EXCEPT ![c] = Append(@, what)]
    ELSE UNCHANGED <<unread, heard>>

\* The greeting, and SetReadDeadline, which fails on a closed connection.
Greet(c) == /\ pc[c] = "greet" /\ Write(c, Greeting)
            /\ Becomes(c, IF c \in open THEN "read" ELSE "close")
            /\ UNCHANGED <<mainVars, sigVars, conns, wg, open, read, client, sent, told>>

Read(c) == /\ pc[c] = "read" /\ c \in open /\ read[c] < sent[c]
           /\ read' = [read EXCEPT ![c] = @ + 1] /\ Becomes(c, "write")
           /\ UNCHANGED <<mainVars, sigVars, conns, wg, open, netVars>>

\* The end of the stream, a reset by the client, or the connection closed by
\* the sweep.
ReadError_Retried(c) ==      \* every error is taken for a deadline
    /\ pc[c] = "read" /\ (c \notin open \/ client[c] = "left")
    /\ Becomes(c, IF c \in open THEN "read" ELSE "close")
    /\ UNCHANGED <<mainVars, sigVars, conns, wg, open, read, netVars>>
ReadError(c) ==
    /\ pc[c] = "read" /\ (c \notin open \/ client[c] = "left")
    /\ Becomes(c, "close")
    /\ UNCHANGED <<mainVars, sigVars, conns, wg, open, read, netVars>>

\* A write to a client that has left may still succeed.
Echo_Newest(c) ==      \* of a buffer that is filled again meanwhile
    /\ pc[c] = "write" /\ Write(c, sent[c])
    /\ \/ c \in open /\ Becomes(c, "read")
       \/ (c \notin open \/ client[c] = "left") /\ Becomes(c, "close")
    /\ UNCHANGED <<mainVars, sigVars, conns, wg, open, read, client, sent, told>>
Echo(c) ==
    /\ pc[c] = "write" /\ Write(c, read[c])
    /\ \/ c \in open /\ Becomes(c, "read")
       \/ (c \notin open \/ client[c] = "left") /\ Becomes(c, "close")
    /\ UNCHANGED <<mainVars, sigVars, conns, wg, open, read, client, sent, told>>

\* The deferred calls, last first.
Close(c) == /\ pc[c] = "close" /\ open' = open \ {c} /\ Becomes(c, "delete")
            /\ UNCHANGED <<mainVars, sigVars, conns, wg, read, netVars>>

Delete(c) == /\ pc[c] = "delete" /\ ~locked
             /\ conns' = conns \ {c} /\ Becomes(c, "done")
             /\ UNCHANGED <<mainVars, sigVars, wg, open, read, netVars>>

Done(c) == /\ pc[c] = "done" /\ wg' = wg - 1 /\ Becomes(c, "ended")
           /\ UNCHANGED <<mainVars, sigVars, conns, open, read, netVars>>

-----------------------------------------------------------------------------
EchoConn(c) == \/ Greet(c) \/ Read(c) \/ ReadError(c)
               \/ Echo(c) \/ Close(c) \/ Delete(c) \/ Done(c)

Signal == \/ CloseListener \/ LockConns \/ CloseConn \/ UnlockConns
          \/ \E c \in Clients : NextConn(c) \/ SayFarewell(c)

Main == \/ AcceptError \/ Insert \/ Go \/ Return
        \/ \E c \in Clients : Accept(c)

Client(c) == Connect(c) \/ Send(c) \/ Take(c) \/ Leave(c)

Next == \/ Running /\ \/ Main \/ Interrupt \/ Signal
                       \/ \E c \in Clients : EchoConn(c) \/ Client(c)
        \/ ~Running /\ UNCHANGED vars     \* the process has ended

Spec == Init /\ [][Next]_vars

\* The Go scheduler runs every goroutine that can run; nothing is assumed of
\* the clients or of the signal.
Fairness == /\ WF_vars(Running /\ Main)
            /\ WF_vars(Running /\ Signal)
            /\ \A c \in Clients : WF_vars(Running /\ EchoConn(c))
FairSpec == Spec /\ Fairness

-----------------------------------------------------------------------------
(* Every variable has its type.                                            *)
ServerTypes == /\ main \in {"accept", "insert", "add", "wait", "returned"}
               /\ cur \in Clients \cup {None}
               /\ sig \in {"wait", "listener", "lock", "sweep", "say", "close", "done"}
               /\ todo \in SUBSET Clients /\ saying \in Clients \cup {None}
               /\ shutdown \in BOOLEAN /\ listening \in BOOLEAN /\ locked \in BOOLEAN
               /\ conns \in SUBSET Clients /\ open \in SUBSET Clients /\ wg \in Int
               /\ pc \in [Clients -> {None, "greet", "read", "write",
                                      "close", "delete", "done", "ended"}]
NetTypes == /\ client \in [Clients -> {"away", "pending", "here", "left"}]
            /\ sent \in [Clients -> Nat] /\ read \in [Clients -> Nat]
            /\ \A c \in Clients : read[c] <= sent[c] /\ sent[c] <= MaxChunks[c]
            /\ heard \in [Clients -> Seq(Nat)] /\ told \in SUBSET Clients
            /\ unread \in [Clients -> 0 .. Room]
TypeOK == ServerTypes /\ NetTypes

\* The map holds exactly the connections whose goroutine has not deleted
\* them, from main's insertion on: the sweep misses none of those and
\* touches no other.
Registered == conns =
    {c \in Clients : pc[c] \notin {None, "done", "ended"}}
    \cup IF main = "add" THEN {cur} ELSE {}

\* The WaitGroup counts the goroutines that have not finished.
Counted == wg = Cardinality({c \in Clients : pc[c] \notin {None, "ended"}})

\* main returns only when every connection has been closed and deleted: no
\* echo is cut off by the end of the process.
NoneCutOff == main = "returned" => open = {} /\ conns = {}

\* A client hears the greeting, then its chunks in order, none skipped and
\* none twice; the farewell may come in anywhere.
EchoesInOrder == \A c \in Clients :
    /\ \A i \in DOMAIN heard[c] : heard[c][i] = i - 1
    /\ Len(heard[c]) <= read[c] + 1

\* A connection that main accepted before the listener was closed but put
\* into the map after the sweep: nobody says farewell to it or closes it.
Missed(c) == sig = "done" /\ Reachable(c) /\ c \notin told
\* A write to a client that does not read.
Stalled(c) == Reachable(c) /\ ~HasRoom(c)

\* After an interrupt the server returns, unless a client that was missed by
\* the sweep stays, or a client does not read while the sweep (or its echo)
\* writes to it.
ShutdownEnds == <>(sig # "wait") =>
    <>(main = "returned") \/ <>[](\E c \in Clients : Missed(c) \/ Stalled(c))

\* The goroutine of a client that has left ends, unless the sweep is held up
\* by another client: no connection or goroutine is leaked.
NoneLeaked == \A c \in Clients :
    [](client[c] = "left" /\ pc[c] # None =>
         <>(pc[c] = "ended" \/ main = "returned") \/ <>[](\E d \in Clients : Stalled(d)))
=============================================================================
