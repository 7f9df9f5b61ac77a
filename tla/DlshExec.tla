-------------------------------- MODULE DlshExec --------------------------------
(***************************************************************************)
(* How dlsh executes a line (instructions.go, execunit.go, main.go): the   *)
(* tokens are parsed into instructions, a pipeline is started program by   *)
(* program, and the shell hands the terminal from group to group while it  *)
(* waits for them in turn.  A program is a process of its own from Start   *)
(* on.  A program, its group and the pipe it writes to are named by the    *)
(* number of its instruction, and 0 stands for the shell, and for the      *)
(* standard input or output that it starts with.  The files of             *)
(* redirections, which the shell never closes, are not in readEnds and     *)
(* writeEnds; and what it still holds of the pipes of a broken line is     *)
(* taken as collected when the next line is read.                          *)
(***************************************************************************)
EXTENDS Lab, Integers, SequencesExt

CONSTANT CommandLines       \* what is typed, as sequences of tokens

ASSUME CommandLinesAssumption == \A line \in CommandLines : line \in Seq(STRING)

VARIABLES entered,          \* the line, which is entered again and again
          sh,               \* what the shell does next
          ins, cur,          \* dlsh.Instructions, and the one it is at
          eu,               \* Piped, R and QPid of the ExecUnit, and
                            \* the round of DrainPipeline
          programs,         \* the states of the started programs
          foreground,       \* the group that the terminal belongs to
          ignoring,         \* the shell ignores SIGTTOU and SIGTTIN
          readEnds, writeEnds   \* the files that the shell holds, to read or to write

dlshVars == <<entered, sh, ins, cur, eu, programs, foreground, ignoring, readEnds, writeEnds>>

-----------------------------------------------------------------------------
(* Parsing.  Of the words of a command only the first one matters; "file"  *)
(* is a name of a file that is there, and "nofile" one that is not; "cd"   *)
(* has one argument, "cdalone" none, and "cdnowhere" one that is no        *)
(* directory, or several.                                                  *)

NewInstruction == [InsType |-> "EXEC", Cmd |-> "none", R |-> 0, W |-> 0]

\* What Parse has at a token: the instructions that are complete, the one
\* that parseToken is at, whether that has no token yet, and the redirection
\* that waits for the name of its file.
Begin(done) == [done |-> done, open |-> NewInstruction, fresh |-> TRUE, to |-> "none"]
Complete(s) == IF s.fresh THEN s.done ELSE Append(s.done, s.open)
WaitAlone == [NewInstruction EXCEPT !.InsType = "WAIT"]

Within(s, open, to) == [done |-> s.done, open |-> open, fresh |-> FALSE, to |-> to]

\* Without a file that can be opened, a redirection panics.
parseToken(s, token) ==
    CASE s.to = "panic" -> s
      [] s.to = "<" -> IF token = "file" THEN Within(s, [s.open EXCEPT !.R = -1], "none")
                       ELSE Within(s, s.open, "panic")
      [] s.to = ">" -> Within(s, [s.open EXCEPT !.W = -1], "none")
      [] s.to = "none" /\ token = "|" ->
             Begin(Append(s.done, [s.open EXCEPT !.InsType = "PIPE"]))
      [] s.to = "none" /\ token = "&&" -> Begin(Append(Complete(s), WaitAlone))
      [] s.to = "none" /\ token \in {"<", ">"} -> Within(s, s.open, token)
      [] OTHER -> Within(s, [s.open EXCEPT !.Cmd = IF @ = "none" THEN token ELSE @], "none")

Parses(tokens) ==           \* the states after each of them
    LET after[n \in 0 .. Len(tokens)] ==
            IF n = 0 THEN Begin(<<>>) ELSE parseToken(after[n - 1], tokens[n])
    IN after
ParseTokens(tokens) == Parses(tokens)[Len(tokens)]

-----------------------------------------------------------------------------
(* The programs.                                                           *)

Started == DOMAIN programs
Alive(p) == p \in Started /\ programs[p] \in {"running", "stopped"}
Becomes(p, state) == programs' = [programs EXCEPT ![p] = state]
Quiet == UNCHANGED <<sh, ins, cur, eu, foreground, ignoring, readEnds, writeEnds>>

\* Everything is written that a program will find in its pipe.
AtEnd(p) == ins[p].R > 0 => ~Alive(ins[p].R) /\ ins[p].R \notin writeEnds
\* Nobody empties the pipe of a program, but the shell holds its other end.
Choked(p) == /\ Alive(p) /\ ins[p].W > 0 /\ ins[p].W \in readEnds
             /\ \A q \in Started : ins[q].R = ins[p].W => ~Alive(q)

\* A program may end whenever it likes, or is interrupted; in the end it has
\* read all its input, and written all its output.
Ends(p) == /\ lab = "dlsh" /\ programs[p] = "running"
           /\ Becomes(p, "ended") /\ Quiet
Finishes(p) == AtEnd(p) /\ ~Choked(p) /\ Ends(p)

\* A program that reads the terminal without owning it is stopped, as is the
\* one that owns it by a key.
Stops(p) == /\ lab = "dlsh" /\ programs[p] = "running"
            /\ (ins[p].R = 0 /\ 0 \in readEnds /\ foreground # p) \/ foreground = p
            /\ Becomes(p, "stopped") /\ Quiet

-----------------------------------------------------------------------------
(* The shell.                                                              *)

NewExecUnit == [Piped |-> FALSE, R |-> 0, QPid |-> <<>>, i |-> 1]
At(step) == lab = "dlsh" /\ sh = step
Ins == ins[cur]
NextInstruction == sh' = "next" /\ cur' = cur + 1

\* A name that is missing panics, too.
ReadLine ==
    /\ At("prompt") /\ foreground = 0 /\ 0 \in readEnds
    /\ \E parsed \in {ParseTokens(entered)} :
           /\ ins' = Complete(parsed)
           /\ sh' = IF parsed.to = "none" THEN "next" ELSE "ended"
    /\ cur' = 1 /\ eu' = NewExecUnit /\ programs' = <<>>
    /\ readEnds' = {0} /\ writeEnds' = writeEnds \cap {0}
    /\ UNCHANGED <<foreground, ignoring>>
\* Without the terminal the read fails, and the shell exits.
ReadFails == /\ At("prompt") /\ (foreground # 0 \/ 0 \notin readEnds)
             /\ sh' = "ended"
             /\ UNCHANGED <<ins, cur, eu, programs, foreground, ignoring, readEnds, writeEnds>>

Prompts == /\ sh' = "prompt" /\ cur' = cur
LineDone == /\ At("next") /\ cur > Len(ins) /\ Prompts
            /\ UNCHANGED <<ins, eu, programs, foreground, ignoring, readEnds, writeEnds>>

\* cd as the last of a pipeline does not wait for the others.
Chdir ==
    /\ At("next") /\ cur <= Len(ins) /\ Ins.Cmd \in {"cd", "cdnowhere"}
    /\ Ins.Cmd = "cdnowhere" \/ Ins.InsType # "PIPE"
    /\ IF Ins.Cmd = "cdnowhere" THEN Prompts ELSE NextInstruction
    /\ UNCHANGED <<ins, eu, programs, foreground, ignoring, readEnds, writeEnds>>
\* exit, and cd without an argument, which panics.
Exit == /\ At("next") /\ cur <= Len(ins) /\ Ins.Cmd \in {"exit", "cdalone"}
        /\ sh' = "ended"
        /\ UNCHANGED <<ins, cur, eu, programs, foreground, ignoring, readEnds, writeEnds>>

\* Start, of what can be found.
Startable == Ins.Cmd = "run"
Start == programs' = [p \in Started \cup {cur} |-> IF p = cur THEN "running" ELSE programs[p]]

\* Which fails if standard input is closed.
TcSetpgrp(group) == foreground' = IF 0 \in readEnds THEN group ELSE foreground

\* Between Start and the change of the terminal the program already runs.
ExecPipe ==
    /\ At("next") /\ cur <= Len(ins) /\ Ins.InsType = "PIPE" /\ Ins.Cmd \notin {"cdnowhere", "cdalone", "exit"}
    /\ ins' = [ins EXCEPT ![cur].R = eu.R, ![cur].W = cur]
    /\ eu' = [eu EXCEPT !.Piped = TRUE, !.R = cur]
    /\ readEnds' = readEnds \cup {cur} /\ writeEnds' = writeEnds \cup {cur}
    /\ IF Ins.Cmd = "cd" THEN NextInstruction /\ programs' = programs
       ELSE IF Startable THEN sh' = "give" /\ Start /\ cur' = cur
       ELSE Prompts /\ programs' = programs
    /\ UNCHANGED <<foreground, ignoring>>

DrainExec ==
    /\ At("next") /\ cur <= Len(ins) /\ Ins.InsType = "EXEC" /\ eu.Piped
    /\ Ins.Cmd \notin {"cd", "cdnowhere", "cdalone", "exit"}
    /\ ins' = [ins EXCEPT ![cur].R = eu.R]
    /\ eu' = [eu EXCEPT !.Piped = FALSE, !.R = 0]
    /\ IF Startable THEN sh' = "give" /\ Start /\ cur' = cur
       ELSE Prompts /\ programs' = programs
    /\ UNCHANGED <<foreground, ignoring, readEnds, writeEnds>>

Run ==
    /\ At("next") /\ cur <= Len(ins) /\ Ins.InsType = "EXEC" /\ ~eu.Piped
    /\ Ins.Cmd \notin {"cd", "cdnowhere", "cdalone", "exit"}
    /\ IF Startable THEN sh' = "give" /\ Start /\ cur' = cur
       ELSE NextInstruction /\ programs' = programs
    /\ UNCHANGED <<ins, eu, foreground, ignoring, readEnds, writeEnds>>

\* Run does not ask whether the shell is in the foreground; the others queue
\* behind the program that is.
Piping == Ins.InsType = "PIPE" \/ Ins.R > 0
Give ==
    /\ At("give")
    /\ IF foreground = 0 \/ ~Piping
       THEN TcSetpgrp(cur) /\ ignoring' = TRUE /\ eu' = eu
       ELSE eu' = [eu EXCEPT !.QPid = Append(@, cur)] /\ UNCHANGED <<foreground, ignoring>>
    /\ IF Ins.InsType = "PIPE" THEN NextInstruction
       ELSE sh' = (IF Piping THEN "drain" ELSE "wait") /\ cur' = cur
    /\ UNCHANGED <<ins, programs, readEnds, writeEnds>>

\* Wait in Run.
Waited == /\ At("wait") /\ programs[cur] = "ended"
          /\ Becomes(cur, "reaped") /\ TcSetpgrp(0) /\ ignoring' = FALSE
          /\ NextInstruction
          /\ UNCHANGED <<ins, eu, readEnds, writeEnds>>

WaitInstruction == /\ At("next") /\ cur <= Len(ins) /\ Ins.InsType = "WAIT"
                   /\ sh' = "drain"
                   /\ UNCHANGED <<ins, cur, eu, programs, foreground, ignoring, readEnds, writeEnds>>

\* All instructions are gone through, those to come as well: a cd in a later
\* pipeline has the files that the shell started with.
Unreaped == {p \in Started : programs[p] # "reaped"}
Closes(i) == i \in Unreaped \/ ins[i].Cmd = "cd"

\* The writing end stays open.
CloseEnds_Read(i) ==
    /\ readEnds' = IF i > 1 /\ ins[i - 1].InsType = "PIPE" THEN readEnds \ {ins[i].R} ELSE readEnds
    /\ writeEnds' = writeEnds
CloseEnds(i) ==
    /\ readEnds' = IF i > 1 /\ ins[i - 1].InsType = "PIPE" THEN readEnds \ {ins[i].R} ELSE readEnds
    /\ writeEnds' = IF ins[i].InsType = "PIPE" THEN writeEnds \ {ins[i].W} ELSE writeEnds

\* The one that started last is next.
TerminalTo_Last(queue) ==
    IF queue # <<>> THEN TcSetpgrp(Last(queue)) /\ ignoring' = ignoring
    ELSE TcSetpgrp(0) /\ ignoring' = FALSE
TerminalTo(queue) ==
    IF queue # <<>> THEN TcSetpgrp(Head(queue)) /\ ignoring' = ignoring
    ELSE TcSetpgrp(0) /\ ignoring' = FALSE

\* One round of DrainPipeline: Wait, pass the terminal on, close.
DrainPipeline ==
    /\ At("drain") /\ eu.i <= Len(ins)
    /\ eu.i \in Unreaped => programs[eu.i] = "ended"
    /\ IF eu.i \in Unreaped
       THEN Becomes(eu.i, "reaped") /\ TerminalTo(eu.QPid)
       ELSE UNCHANGED <<programs, foreground, ignoring>>
    /\ IF Closes(eu.i) THEN CloseEnds(eu.i) ELSE UNCHANGED <<readEnds, writeEnds>>
    /\ eu' = [eu EXCEPT !.i = @ + 1,
                        !.QPid = IF eu.i \in Unreaped /\ @ # <<>> THEN Tail(@) ELSE @]
    /\ UNCHANGED <<sh, ins, cur>>
Drained == /\ At("drain") /\ eu.i > Len(ins)
           /\ eu' = [eu EXCEPT !.i = 1] /\ NextInstruction
           /\ UNCHANGED <<ins, programs, foreground, ignoring, readEnds, writeEnds>>

\* The key for an interrupt while the terminal is the shell's.
Interrupted == /\ lab = "dlsh" /\ sh \notin {"prompt", "ended"} /\ foreground = 0
               /\ sh' = "ended"
               /\ UNCHANGED <<ins, cur, eu, programs, foreground, ignoring, readEnds, writeEnds>>

-----------------------------------------------------------------------------
DlshOff == /\ entered = <<>> /\ sh = "ended" /\ ins = <<>> /\ cur = 1 /\ eu = NewExecUnit /\ programs = <<>>
           /\ foreground = 0 /\ ignoring = FALSE /\ readEnds = {0} /\ writeEnds = {0}
DlshInit == /\ lab = "dlsh" /\ todo = <<>> /\ entered \in CommandLines
            /\ sh = "prompt" /\ ins = <<>> /\ cur = 1 /\ eu = NewExecUnit /\ programs = <<>>
            /\ foreground = 0 /\ ignoring = FALSE /\ readEnds = {0} /\ writeEnds = {0}

Shell == \/ ReadLine \/ ReadFails \/ LineDone \/ Chdir \/ Exit \/ ExecPipe \/ DrainExec \/ Run
         \/ Give \/ Waited \/ WaitInstruction \/ DrainPipeline \/ Drained
DlshNext == /\ \/ Shell \/ Interrupted
               \/ \E p \in Started : Ends(p) \/ Stops(p)
            /\ UNCHANGED <<lab, todo, entered>>

\* The shell is scheduled, and programs that can finish do.
Longest == CHOOSE n \in {Len(line) : line \in CommandLines} :
               \A line \in CommandLines : Len(line) <= n
DlshFair == /\ WF_<<lab, dlshVars>>(Shell /\ UNCHANGED <<lab, todo, entered>>)
            /\ \A p \in 1 .. Longest : WF_<<lab, dlshVars>>(p \in Started /\ Finishes(p) /\ UNCHANGED <<lab, todo, entered>>)

-----------------------------------------------------------------------------
\* Each pipeline is there as a whole: every | is followed by a program that
\* can be started, or a cd that is followed by another |; and no pipeline
\* behind && has a cd.
Whole == \A i \in DOMAIN ins :
             ins[i].InsType = "PIPE" =>
                 /\ ins[i].Cmd \in {"run", "cd"}
                 /\ i < Len(ins)
                 /\ ins[i + 1].Cmd = "run" \/ (ins[i + 1].Cmd = "cd" /\ ins[i + 1].InsType = "PIPE")
                 /\ "cd" \in {ins[i].Cmd, ins[i + 1].Cmd} =>
                        \A j \in 1 .. i : ins[j].InsType # "WAIT"

\* The terminal is where the shell needs it: while it is not the shell's, the
\* shell ignores SIGTTOU and can take it back; and of a line whose pipelines
\* are whole, the program that the shell waits for has it, so that the keys
\* for an interrupt get there, and at the end the shell has it, waited for
\* every program, and holds the files it started with and no pipe.
TerminalHeld ==
    /\ foreground # 0 => ignoring
    /\ Whole =>
           /\ sh = "wait" => foreground = cur
           /\ sh = "drain" /\ eu.i \in Unreaped => foreground = eu.i
           /\ sh = "prompt" => /\ foreground = 0 /\ Unreaped = {}
                               /\ readEnds = {0} /\ writeEnds = {0}

\* Every line comes to an end: the shell prompts again and again or ends,
\* unless a program is stopped, which the shell does not notice, or fills a
\* pipe whose reader has gone while the shell keeps the reading end open.
LineEnds ==
    lab = "dlsh" => \/ []<>(sh \in {"prompt", "ended"})
                    \/ <>[](\E p \in Started : programs[p] = "stopped" \/ Choked(p))
=============================================================================
