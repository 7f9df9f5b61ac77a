---------------------------------- MODULE Peers ----------------------------------
(***************************************************************************)
(* Two processes that take turns without a lock: the chat (server.c and    *)
(* client.c) and the calculator of CN over a connection, the producer and  *)
(* the consumer of OS over shared memory, and the two ends of pipes.c.     *)
(* Process 1 is the server, the producer or the parent.  A connection is a *)
(* stream: a read returns a part of what was written.  (The requests and   *)
(* answers of the calculator are one element each: they are read whole.)   *)
(***************************************************************************)
EXTENDS Lab, Integers, SequencesExt, TLC

CONSTANTS Lines,        \* what is typed into the chat: sequences of parts
          Requests,     \* what is typed into the calculator: sequences of words
          Alphabet,      \* what shmProducer.c writes: a to z, and two bars
          MaxSaid       \* the parts that either process says, at most

ASSUME LinesAssumption == \A line \in Lines : line \in Seq(STRING)
\* The letters end with a 0, which is none of them.
ASSUME AlphabetAssumption == Alphabet \in Seq(STRING \ {"0"}) \ {<<>>}

VARIABLES step,         \* of each process: what it does next
          wire,         \* what is on the way to each process
          said, heard,  \* all that each of them has written and read
          memory,       \* the shared memory, or the buffer of calcServer.c
          calm          \* nobody has sent an empty line; in shmConsumer.c, the
                        \* producer was waiting when it attached (history)

peerVars == <<step, wire, said, heard, memory, calm>>

Other(i) == 3 - i
Go(i, to) == step' = [step EXCEPT ![i] = to]
IsExit(line) == Len(line) >= 2 /\ SubSeq(line, 1, 2) = <<"ex", "it">>

\* The rest of what was sent gets lost.
Received_Dropped(i, n) ==
    /\ heard' = [heard EXCEPT ![i] = @ \o SubSeq(wire[i], 1, n)]
    /\ wire' = [wire EXCEPT ![i] = <<>>]
Received(i, n) ==
    /\ heard' = [heard EXCEPT ![i] = @ \o SubSeq(wire[i], 1, n)]
    /\ wire' = [wire EXCEPT ![i] = SubSeq(@, n + 1, Len(@))]

Sent(i, line) == /\ wire' = [wire EXCEPT ![Other(i)] = @ \o line]
                 /\ said' = [said EXCEPT ![i] = @ \o line]

-----------------------------------------------------------------------------
(* Chat and calculator.                                                    *)

Connected == lab \in {"server", "calcServer"}

\* read, and the client of the chat ends when it has read "exit".
Hear(i) ==
    /\ Connected /\ step[i] = "read" /\ (lab = "calcServer" => i = 2)
    /\ \E n \in DOMAIN wire[i] :
           /\ Received(i, n)
           /\ Go(i, IF lab = "server" /\ i = 2 /\ IsExit(SubSeq(wire[i], 1, n)) THEN "ended"
                    ELSE "type")
    /\ UNCHANGED <<said, memory, calm>>

\* read at the end of the stream returns nothing, or an error.
HearNothing(i) ==
    /\ Connected /\ step[i] = "read" /\ step[Other(i)] = "ended"
    /\ \/ wire[i] = <<>> /\ Go(i, "type")
       \/ Go(i, "ended")
    /\ UNCHANGED <<wire, said, heard, memory, calm>>

\* fgets and write; the server of the chat ends after "exit".  At the end of
\* its input a process of the chat sends nothing.
Type(i) ==
    /\ Connected /\ step[i] = "type" /\ step[Other(i)] # "ended" /\ Len(said[i]) < MaxSaid
    /\ \E line \in IF lab = "server" THEN Lines \cup {<<>>} ELSE {<<r>> : r \in Requests} :
           /\ Sent(i, line)
           /\ calm' = (calm /\ line # <<>>)
           /\ Go(i, IF lab = "server" /\ i = 1 /\ IsExit(line) THEN "ended" ELSE "read")
    /\ UNCHANGED <<heard, memory>>

\* A line for a process that has ended is lost, or SIGPIPE ends this one.
TypeLost(i) ==
    /\ Connected /\ step[i] = "type" /\ step[Other(i)] = "ended"
    /\ Go(i, "read") \/ Go(i, "ended")
    /\ UNCHANGED <<wire, said, heard, memory, calm>>

atoi(word) == CASE word = "2" -> 2 [] word = "7" -> 7 [] word = "-3" -> -3 [] OTHER -> 0
Magnitude(a) == IF a < 0 THEN -a ELSE a
Divided(a, b) == LET q == Magnitude(a) \div Magnitude(b) IN IF (a < 0) = (b < 0) THEN q ELSE -q

\* calcRes: the operands are what stands before the first two spaces, and the
\* function is that of the first character behind them; an operand that is not
\* there is uninitialised.  <<>> stands for a division by 0.
calcRes(words) ==
    LET count == IF Len(words) > 2 THEN 2 ELSE Len(words) - 1
        op == IF words = <<>> THEN "" ELSE IF words[count + 1] = "-3" THEN "-" ELSE words[count + 1]
        Values(k) == IF k <= count THEN {atoi(words[k])} ELSE {0, 1}
        Result(a, b) == CASE op = "+" -> <<a + b>> [] op = "-" -> <<a - b>> [] op = "*" -> <<a * b>>
                          [] op = "/" -> IF b = 0 THEN <<>> ELSE <<Divided(a, b)>>
                          [] op = "%" -> IF b = 0 THEN <<>> ELSE <<a - b * Divided(a, b)>>
                          [] OTHER -> <<0>>
    IN {Result(a, b) : a \in Values(1), b \in Values(2)}

\* calcServer.c: read and calculate (SIGFPE ends it), then write.
Serve ==
    /\ lab = "calcServer" /\ step[1] = "read" /\ wire[1] # <<>>
    /\ Received(1, 1)
    /\ \E r \in calcRes(wire[1][1]) :
           IF r = <<>> THEN Go(1, "ended") /\ memory' = memory
           ELSE Go(1, "write") /\ memory' = ToString(r[1])
    /\ UNCHANGED <<said, calm>>
Answer ==
    /\ lab = "calcServer" /\ step[1] = "write"
    /\ Sent(1, <<memory>>) /\ Go(1, "read")
    /\ UNCHANGED <<heard, memory, calm>>

-----------------------------------------------------------------------------
(* shmProducer.c and shmConsumer.c: the memory outlives both of them, and  *)
(* one consumer at a time is started, whenever there is the memory.        *)

\* A letter, or the 0 behind them.
Produce ==
    /\ lab = "shmProducer" /\ step[1] = "write"
    /\ LET n == Len(said[1]) + 1
           c == IF n <= Len(Alphabet) THEN Alphabet[n] ELSE "0"
       IN /\ memory' = [memory EXCEPT ![n] = c]
          /\ said' = [said EXCEPT ![1] = IF n <= Len(Alphabet) THEN Append(@, c) ELSE @]
          /\ Go(1, IF n <= Len(Alphabet) THEN "write" ELSE "poll")
    /\ UNCHANGED <<wire, heard, calm>>
Poll == /\ lab = "shmProducer" /\ step[1] = "poll" /\ memory[1] = "*"
        /\ Go(1, "ended") /\ UNCHANGED <<wire, said, heard, memory, calm>>
ProduceAgain == /\ lab = "shmProducer" /\ step[1] = "ended"
                /\ said' = [said EXCEPT ![1] = <<>>]
                /\ Go(1, "write") /\ UNCHANGED <<wire, heard, memory, calm>>

Attach ==
    /\ lab = "shmProducer" /\ step[2] = "ended"
    /\ calm' = (step[1] = "poll" /\ memory[1] # "*")
    /\ heard' = [heard EXCEPT ![2] = <<>>]
    /\ Go(2, "read") /\ UNCHANGED <<wire, said, memory>>
ReadMemory ==
    /\ lab = "shmProducer" /\ step[2] = "read"
    /\ LET c == memory[Len(heard[2]) + 1]
       IN IF c = "0" THEN Go(2, "mark") /\ heard' = heard
          ELSE heard' = [heard EXCEPT ![2] = Append(@, c)] /\ step' = step
    /\ UNCHANGED <<wire, said, memory, calm>>
MarkRead == /\ lab = "shmProducer" /\ step[2] = "mark"
            /\ memory' = [memory EXCEPT ![1] = "*"]
            /\ Go(2, "ended") /\ UNCHANGED <<wire, said, heard, calm>>

-----------------------------------------------------------------------------
(* pipes.c: a write of this size arrives whole.                            *)

FixedStr == <<"THIS", "IS", "PIPED">>

ParentWrites == /\ lab = "pipes" /\ step[1] = "write"
                /\ \E line \in Lines : Sent(1, line)
                /\ Go(1, "wait") /\ UNCHANGED <<heard, memory, calm>>
ChildReads == /\ lab = "pipes" /\ step[2] = "read" /\ wire[2] # <<>>
              /\ Received(2, Len(wire[2]))
              /\ Go(2, "write") /\ UNCHANGED <<said, memory, calm>>
ChildWrites == /\ lab = "pipes" /\ step[2] = "write"
               /\ Sent(2, heard[2] \o FixedStr)
               /\ Go(2, "ended") /\ UNCHANGED <<heard, memory, calm>>
ParentReads == /\ lab = "pipes" /\ step[1] = "wait" /\ step[2] = "ended"
               /\ Received(1, Len(wire[1]))
               /\ Go(1, "ended") /\ UNCHANGED <<said, memory, calm>>

-----------------------------------------------------------------------------
PeersOff == /\ step = <<"ended", "ended">> /\ wire = <<<<>>, <<>>>> /\ said = <<<<>>, <<>>>>
            /\ heard = <<<<>>, <<>>>> /\ memory = "" /\ calm = TRUE

PeersInit ==
    /\ lab \in {"server", "calcServer", "shmProducer", "pipes"} /\ todo = <<>>
    /\ step = CASE lab = "server" -> <<"read", "type">> [] lab = "shmProducer" -> <<"write", "ended">>
                [] OTHER -> <<"write", "read">>
    /\ wire = <<<<>>, <<>>>> /\ said = <<<<>>, <<>>>> /\ heard = <<<<>>, <<>>>>
    /\ memory = IF lab = "calcServer" THEN "Format" ELSE [n \in 1 .. Len(Alphabet) + 1 |-> "0"]
    /\ calm = TRUE

PeersNext ==
    /\ \/ \E i \in 1 .. 2 : Hear(i) \/ HearNothing(i) \/ Type(i) \/ TypeLost(i)
       \/ Serve \/ Answer
       \/ Produce \/ Poll \/ ProduceAgain \/ Attach \/ ReadMemory \/ MarkRead
       \/ ParentWrites \/ ChildReads \/ ChildWrites \/ ParentReads
    /\ UNCHANGED <<lab, todo>>

-----------------------------------------------------------------------------
\* Without a lock the turns are kept.  Chat: however the stream is cut, each
\* side reads what the other wrote, in order, and never do both wait for each
\* other unless one sent an empty line.  Calculator: every answer is that to
\* the request of its turn.  Shared memory: a consumer that comes while the
\* producer waits reads all letters.  Pipes: the parent gets its line back
\* with the string of the child behind it.
PeersAgree ==
    /\ lab = "server" => \A i \in 1 .. 2 :
           /\ heard[i] \o wire[i] = said[Other(i)]
           /\ calm => step # <<"read", "read">> \/ wire[1] # <<>> \/ wire[2] # <<>>
    /\ lab = "calcServer" =>
           \A k \in 2 .. Len(heard[2]) :
               \E r \in calcRes(said[2][k - 1]) : r # <<>> /\ heard[2][k] = ToString(r[1])
    /\ lab = "shmProducer" /\ calm /\ step[2] = "mark" => heard[2] = Alphabet
    /\ lab = "pipes" /\ step[1] = "ended" => heard[1] = said[1] \o FixedStr
=============================================================================
