--------------------------------- MODULE Turing ---------------------------------
(***************************************************************************)
(* The machines of CDump: turingmachine.c, which replaces 111 by 101;      *)
(* turingmachinegeneric.c, which loads a machine from a file, with the two *)
(* files beside it, tm.toml (the same replacement) and tmadd.toml (unary   *)
(* addition); and DFA.c, which accepts the strings that end with ab.       *)
(*                                                                         *)
(* A tape is a sequence of symbols.  Its last cell is the end that the     *)
(* program finds on it: NUL for turingmachine.c and DFA.c, blanksymbol for *)
(* the others.  A file is the sequence of its lines, and a line that of    *)
(* its words, of which each quote, bracket, comma and symbol is one.       *)
(***************************************************************************)
EXTENDS Lab, Integers, FiniteSets, SequencesExt

CONSTANTS Words,        \* what is on the tapes with 0 and 1
          Letters,      \* the strings of a and b
          MaxUnary      \* the largest number added

Nul == "NUL"

VARIABLES file,         \* the lines that have not been read
          tm,           \* the machine, <<>> before it is made
          tape,         \* <<>> while a machine is loaded
          head,         \* an index of the tape
          curState,
          dir,          \* the last move
          halt,         \* exec has ended, or the program exited
          input,        \* the tape at first
          steps         \* the moves made (history)

turingVars == <<file, tm, tape, head, curState, dir, halt, input, steps>>

-----------------------------------------------------------------------------
(* turingmachine.c                                                         *)

Move == [LEFT |-> -1, RIGHT |-> 1, NOMOVE |-> 0]

\* The next state and direction, where nothing is said the old state.
fixed_func(q, c) ==
    CASE q \in {0, 1, 2} /\ c = Nul -> <<5, "NOMOVE">>
      [] q = 0 /\ c = "1" -> <<1, "RIGHT">>
      [] q = 1 /\ c = "1" -> <<2, "RIGHT">>
      [] q = 2 /\ c = "1" -> <<3, "LEFT">>
      [] q \in {1, 2} /\ c = "0" -> <<0, "RIGHT">>
      [] q = 3 -> <<4, "RIGHT">>
      [] q = 4 -> <<0, dir>>
      [] OTHER -> <<q, "RIGHT">>

Fixed ==
    LET step == fixed_func(curState, tape[head]) IN
    /\ lab = "turingmachine" /\ ~halt
    /\ tape' = IF curState = 3 THEN [tape EXCEPT ![head] = "0"] ELSE tape
    /\ curState' = step[1] /\ dir' = step[2]
    /\ head' = head + Move[step[2]]
    /\ halt' = (step[1] = 5)
    /\ steps' = steps + 1
    /\ UNCHANGED <<lab, todo, file, tm, input>>

-----------------------------------------------------------------------------
(* turingmachinegeneric.c: loading.                                        *)

\* The line up to a comment.
coalesceWhitespace(line) ==
    LET stop == SelectInSeq(line, LAMBDA w : w = "#") IN
    IF stop = 0 THEN line ELSE SubSeq(line, 1, stop - 1)

Assigns(line) == \E i \in DOMAIN line : line[i] = "="

\* Two variables of the source in one pair.
ExtractKeyVal(line) ==
    <<line[1], SubSeq(line, SelectInSeq(line, LAMBDA w : w = "=") + 1, Len(line))>>

\* A value without the quotes around it.
ExtractStr(val) ==
    LET opened == IF val # <<>> /\ Head(val) = "'" THEN Tail(val) ELSE val
    IN IF opened # <<>> /\ Last(opened) = "'" THEN Front(opened) ELSE opened

\* atoi; the numbers of the files are below 7.
Numeral(val) ==
    IF val = <<>> THEN 0
    ELSE SelectInSeq(<<"1", "2", "3", "4", "5", "6">>, LAMBDA d : d = Head(val))

CheckArray(val) == val # <<>> /\ Head(val) = "[" /\ Last(val) = "]"
ExtractCharArr(val) == SelectSeq(val, LAMBDA w : w \notin {"[", ",", "]", "'"})
ExtractIntArr(val) ==
    LET numbers == SelectSeq(val, LAMBDA w : w \notin {"[", ",", "]"})
    IN [i \in DOMAIN numbers |-> Numeral(<<numbers[i]>>)]

stodir(c) == IF c \in {<<"LEFT">>, <<"RIGHT">>, <<"NOMOVE">>} THEN Head(c) ELSE "SAME"

\* A vector is a null pointer, and not a field of the record, until it is
\* made.
makeTuringMachine ==
    [numStates |-> 0, initState |-> 0, blankSymbol |-> "B", tape |-> <<Nul>>, transitions |-> <<>>]

\* A transition as it is before its keys are read.
Defaults ==
    [cur |-> 65535, head |-> Nul, next |-> 65535, write |-> Nul, dir |-> "SAME", halt |-> FALSE]

Arrays == {"inputsymbols", "tapesymbols", "finalstates"}

\* The machine m with one of its keys set; other keys are only printed.
Info(m, line) ==
    LET key == ExtractKeyVal(line)[1]
        val == ExtractKeyVal(line)[2]
        string == ExtractStr(val)
    IN CASE key = "blanksymbol" /\ string # <<>> -> [m EXCEPT !.blankSymbol = string[1]]
         [] key = "numofstates" -> [m EXCEPT !.numStates = Numeral(val)]
         [] key = "inputsymbols" -> "inputSymbols" :> ExtractCharArr(val) @@ m
         [] key = "tapesymbols" -> "tapeSymbols" :> ExtractCharArr(val) @@ m
         [] key = "finalstates" -> "finalStates" :> ExtractIntArr(val) @@ m
         [] key = "initialstate" -> [m EXCEPT !.initState = Numeral(val)]
         [] key = "tape" /\ string # <<>> -> [m EXCEPT !.tape = string]
         [] OTHER -> m

\* The transition t with one of its keys set.
WithKey(t, line) ==
    LET key == ExtractKeyVal(line)[1]
        val == ExtractKeyVal(line)[2]
        string == ExtractStr(val)
    IN CASE key = "cur" -> [t EXCEPT !.cur = Numeral(val)]
         [] key = "head" /\ string # <<>> -> [t EXCEPT !.head = string[1]]
         [] key = "next" -> [t EXCEPT !.next = Numeral(val)]
         [] key = "dir" -> [t EXCEPT !.dir = stodir(string)]
         [] key = "write" /\ string # <<>> -> [t EXCEPT !.write = string[1]]
         [] key = "halt" -> [t EXCEPT !.halt = (val = <<"true">>)]
         [] OTHER -> t

\* A new machine: the transitions read before are lost.
parseMacInfo(lines) ==
    IF \E i \in DOMAIN lines :
           \/ ~Assigns(lines[i])
           \/ lines[i][1] \in Arrays /\ ~CheckArray(ExtractKeyVal(lines[i])[2])
    THEN halt' = TRUE /\ tm' = tm
    ELSE halt' = halt /\ tm' = FoldLeft(Info, makeTuringMachine, lines)

parseTransition(lines) ==
    LET t == FoldLeft(WithKey, Defaults, lines) IN
    IF (\E i \in DOMAIN lines : ~Assigns(lines[i])) \/ t.cur = 65535
    THEN halt' = TRUE /\ tm' = tm
    ELSE halt' = halt /\ tm' = [tm EXCEPT !.transitions = Append(@, t)]

\* No other line of a file begins with a bracket.
IsHeader(line) == line # <<>> /\ line[1] \in {"[turingmachine]", "[[transition]]"}

\* A section ends where the next one begins; before the first one, parseTOML
\* skips what is no header.  What getline leaves at the end of the file (the
\* line before, when that is blank or a comment, or a buffer never written to)
\* is no header either: parseLine makes nothing of it.
parseLine ==
    LET next == SelectInSeq(Tail(file), IsHeader)
        stop == IF next = 0 THEN Len(file) ELSE next
        section == [i \in 1 .. stop - 1 |-> coalesceWhitespace(file[i + 1])]
        lines == SelectSeq(section, LAMBDA line : line # <<>>)
    IN /\ lab = "turingmachinegeneric" /\ file # <<>> /\ ~halt
       /\ file' = SubSeq(file, stop + 1, Len(file))
       /\ \/ ~IsHeader(Head(file)) /\ UNCHANGED <<tm, halt>>
          \/ Head(file) = <<"[turingmachine]">> /\ parseMacInfo(lines)
          \/ /\ Head(file) = <<"[[transition]]">>
             /\ IF tm = <<>> THEN halt' = TRUE /\ tm' = tm ELSE parseTransition(lines)
       /\ UNCHANGED <<lab, todo, tape, head, curState, dir, input, steps>>

-----------------------------------------------------------------------------
(* The files; the blank lines and most comments are left out.              *)

Quoted(key, s) == <<key, "=", "'">> \o s \o <<"'">>
Machine(n, final, s) ==
    <<<<"[turingmachine]">>, <<"numofstates", "=", n>>,
      <<"initialstate", "=", "0", "#", "default is 0">>, <<"finalstates", "=", "[", final, "]">>,
      <<"inputsymbols", "=", "[", "'", "0", "'", ",", "'", "1", "'", "]">>,
      <<"tapesymbols", "=", "[", "'", "0", "'", ",", "'", "1", "'", ",", "'", "B", "'", "]">>,
      Quoted("blanksymbol", <<"B">>), Quoted("tape", s)>>
Transition(q, c, d, n) ==
    <<<<"[[transition]]">>, Quoted("dir", <<d>>), <<"cur", "=", q>>, Quoted("head", <<c>>),
      <<"next", "=", n>>>>

tmFile(s) ==
    <<<<"#", "Turing machine to replace 111 with 101">>>> \o Machine("6", "5", s) \o
    Transition("0", "1", "RIGHT", "1") \o Transition("0", "B", "NOMOVE", "5") \o
    Transition("1", "1", "RIGHT", "2") \o Transition("1", "0", "RIGHT", "0") \o
    Transition("1", "B", "NOMOVE", "5") \o
    Transition("2", "1", "LEFT", "3") \o Transition("2", "0", "RIGHT", "0") \o
    Transition("2", "B", "NOMOVE", "5") \o
    <<<<"[[transition]]">>, Quoted("dir", <<"RIGHT">>), Quoted("write", <<"0">>),
      <<"cur", "=", "3">>, <<"next", "=", "4">>,
      <<"[[transition]]">>, Quoted("dir", <<"RIGHT">>), <<"cur", "=", "4">>, <<"next", "=", "0">>,
      <<"[[transition]]">>, <<"cur", "=", "5">>, <<"halt", "=", "true">>>>

tmaddFile(s) ==
    <<<<"#", "Turing machine to add two unary numbers">>>> \o Machine("4", "3", s) \o
    Transition("0", "0", "RIGHT", "0") \o
    Transition("0", "1", "RIGHT", "1") \o <<Quoted("write", <<"0">>)>> \o
    Transition("1", "0", "RIGHT", "1") \o Transition("1", "B", "LEFT", "2") \o
    Transition("2", "0", "NOMOVE", "3") \o <<Quoted("write", <<"B">>)>> \o
    <<<<"[[transition]]">>, <<"cur", "=", "3">>, <<"halt", "=", "true">>>>

\* Files that do not load: without a machine, an equals sign, an array, the
\* vectors or the state of a transition.
BrokenFiles ==
    {<<>>, Transition("0", "1", "RIGHT", "1"), <<<<"[turingmachine]">>, <<"numofstates", "6">>>>,
     <<<<"[turingmachine]">>, <<"finalstates", "=", "5">>>>, <<<<"[turingmachine]">>>>,
     Machine("1", "0", <<"B">>) \o <<<<"[[transition]]">>, <<"next", "=", "0">>>>}

-----------------------------------------------------------------------------
(* turingmachinegeneric.c: execution.                                      *)

VectorFind(v, c) == \E i \in DOMAIN v : v[i] = c

\* debug prints the vectors, and crashes when one of them was not made.
debug == {"finalStates", "inputSymbols", "tapeSymbols"} \subseteq DOMAIN tm

initTuringMachineState ==
    /\ lab = "turingmachinegeneric" /\ file = <<>> /\ ~halt /\ tape = <<>>
    /\ IF ~debug THEN halt' = TRUE /\ UNCHANGED <<tape, head, curState, dir>>
       ELSE /\ tape' = tm.tape /\ head' = 1 /\ curState' = tm.initState /\ dir' = "RIGHT"
            /\ halt' = halt
    /\ UNCHANGED <<lab, todo, file, tm, input, steps>>

\* The first transition for the state and the symbol; a transition without
\* a head is for every symbol.
Found(q, c) ==
    LET Fits == {i \in DOMAIN tm.transitions :
                    /\ tm.transitions[i].cur = q
                    /\ tm.transitions[i].head \in {c, Nul}}
    IN {tm.transitions[i] : i \in {i \in Fits : \A j \in Fits : i <= j}}

\* The state stays the same.
transition_func_Stay(t) ==
    /\ tape' = IF t.write = Nul THEN tape ELSE [tape EXCEPT ![head] = t.write]
    /\ dir' = IF t.dir = "SAME" THEN dir ELSE t.dir
    /\ curState' = curState
    /\ halt' = (t.halt \/ VectorFind(tm.finalStates, t.next))

\* Without a transition the head moves on as before.
transition_func(t) ==
    /\ tape' = IF t.write = Nul THEN tape ELSE [tape EXCEPT ![head] = t.write]
    /\ dir' = IF t.dir = "SAME" THEN dir ELSE t.dir
    /\ curState' = t.next
    /\ halt' = (t.halt \/ VectorFind(tm.finalStates, t.next))

exec ==
    /\ lab = "turingmachinegeneric" /\ file = <<>> /\ ~halt /\ tape # <<>>
    /\ \/ \E t \in Found(curState, tape[head]) : transition_func(t)
       \/ /\ Found(curState, tape[head]) = {}
          /\ halt' = VectorFind(tm.finalStates, curState)
          /\ UNCHANGED <<tape, dir, curState>>
    /\ head' = head + Move[dir']
    /\ steps' = steps + 1
    /\ UNCHANGED <<lab, todo, file, tm, input>>

-----------------------------------------------------------------------------
(* DFA.c                                                                   *)

trans_fn(state, symbol) ==
    CASE state = 1 -> IF symbol = "b" THEN 2 ELSE 1
      [] OTHER -> IF symbol = "a" THEN 1 ELSE 0

DFA ==
    /\ lab = "DFA" /\ ~halt
    /\ IF tape[head] = Nul THEN halt' = TRUE /\ UNCHANGED <<curState, head>>
       ELSE curState' = trans_fn(curState, tape[head]) /\ head' = head + 1 /\ halt' = halt
    /\ steps' = steps + 1
    /\ UNCHANGED <<lab, todo, file, tm, tape, dir, input>>

-----------------------------------------------------------------------------
Unary(n) == [i \in 1 .. n |-> "0"]

\* The constants of turingmachine.c and DFA.c; what a machine that is loaded
\* starts with is set by initTuringMachineState.
TuringInit ==
    /\ lab \in {"turingmachine", "turingmachinegeneric", "DFA"}
    /\ todo = <<>> /\ tm = <<>> /\ head = 1 /\ curState = 0 /\ dir = "RIGHT" /\ halt = FALSE
    /\ steps = 0
    /\ \/ /\ lab = "turingmachine" /\ file = <<>>
          /\ input \in {Append(w, Nul) : w \in Words} /\ tape = input
       \/ /\ lab = "DFA" /\ file = <<>>
          /\ input \in {Append(w, Nul) : w \in Letters} /\ tape = input
       \/ /\ lab = "turingmachinegeneric" /\ tape = <<>>
          /\ \/ input \in {Append(w, "B") : w \in Words} /\ file = tmFile(input)
             \/ /\ input \in {<<"B">> \o Unary(a) \o <<"1">> \o Unary(b) \o <<"B">> :
                              a \in 0 .. MaxUnary, b \in 0 .. MaxUnary}
                /\ file = tmaddFile(input)
             \/ input = <<>> /\ file \in BrokenFiles

TuringOff ==
    /\ file = <<>> /\ tm = <<>> /\ tape = <<Nul>> /\ head = 1 /\ curState = 0 /\ dir = "RIGHT"
    /\ halt = FALSE /\ input = tape /\ steps = 0

TuringNext == Fixed \/ parseLine \/ initTuringMachineState \/ exec \/ DFA

-----------------------------------------------------------------------------
\* "Replace string 111 by 101", from the left.
RECURSIVE Replaced(_)
Replaced(s) ==
    IF Len(s) < 3 THEN s
    ELSE IF SubSeq(s, 1, 3) = <<"1", "1", "1">>
    THEN <<"1", "0", "1">> \o Replaced(SubSeq(s, 4, Len(s)))
    ELSE <<Head(s)>> \o Replaced(Tail(s))

CountOf(s, c) == Len(SelectSeq(s, LAMBDA x : x = c))
Adds == input[1] = "B"

\* The machines do on every tape what their comments say: the compiled and
\* the loaded one make the same replacement, tmadd.toml leaves the sum of
\* the two numbers, and DFA.c accepts what ends with ab.  They halt, within
\* three moves for each cell, and their heads never leave the tape, whose
\* allocation has no byte behind the last symbol (transition_func, exec,
\* trans_fn).  A broken file is never run, and no other is turned down
\* (parseLine, debug).
MachinesAgree ==
    /\ tape # <<>> => head \in 1 .. Len(tape) /\ input # <<>>
    /\ halt => (tape = <<>> <=> input = <<>>)
    /\ steps <= 3 * Len(tape)
    /\ halt /\ tape # <<>> /\ lab # "DFA" /\ ~Adds => tape = Replaced(input)
    /\ halt /\ tape # <<>> /\ lab # "DFA" /\ Adds =>
           CountOf(tape, "0") = CountOf(input, "0") /\ CountOf(tape, "1") = 0
    /\ halt /\ lab = "DFA" => (curState = 2 <=> IsSuffix(<<"a", "b", Nul>>, input))
=============================================================================
