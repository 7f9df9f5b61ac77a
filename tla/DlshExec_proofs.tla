----------------------------- MODULE DlshExec_proofs -----------------------------
(***************************************************************************)
(* TerminalHeld for every set of command lines, however long.  The         *)
(* invariant relates the position in the line to the programs that have    *)
(* been started and not yet waited for (StepInv, UnitInv), these to the    *)
(* owner of the terminal and its queue (QueueInv), and, on a line whose    *)
(* pipelines are whole, the pipes of the present pipeline to the files     *)
(* that the shell holds (Chain, WholeInv).                                 *)
(***************************************************************************)
EXTENDS DlshExec, SequenceTheorems, WellFoundedInduction, TLAPS

-----------------------------------------------------------------------------
(* Lines are parsed into instructions.                                     *)

\* Names, and an instruction.
Words == {"none"} \cup UNION {{line[i] : i \in 1 .. Len(line)} : line \in CommandLines}
Types == {"EXEC", "PIPE", "WAIT"}
Instr == [InsType : Types, Cmd : Words, R : Int, W : Int]

\* Without a file of another instruction; && has no command.
Fresh(x) == x.R <= 0 /\ (x.InsType = "WAIT" => x.Cmd = "none")

\* What the parser makes of any line: a command ends it, or is followed by |
\* or by &&.
Parsed(s) == /\ s \in Seq(Instr)
             /\ \A i \in 1 .. Len(s) :
                    /\ Fresh(s[i])
                    /\ s[i].InsType = "EXEC" /\ i < Len(s) => s[i + 1].InsType = "WAIT"

\* The words of every line.
LEMMA WordsAre == "none" \in Words /\ \A line \in CommandLines : \A i \in 1 .. Len(line) : line[i] \in Words
  BY DEF Words

\* The fields of an instruction.
LEMMA Fields ==
  ASSUME NEW x \in Instr
  PROVE  x.InsType \in Types /\ x.Cmd \in Words /\ x.R \in Int /\ x.W \in Int
  BY DEF Instr

\* A change of one field leaves an instruction, and its other fields.
LEMMA SetInsType ==
  ASSUME NEW x \in Instr, NEW t \in Types, NEW y, y = [x EXCEPT !.InsType = t]
  PROVE  y \in Instr /\ y.InsType = t /\ y.Cmd = x.Cmd /\ y.R = x.R /\ y.W = x.W
  BY DEF Instr

LEMMA SetCmd ==
  ASSUME NEW x \in Instr, NEW t \in Words, NEW y, y = [x EXCEPT !.Cmd = t]
  PROVE  y \in Instr /\ y.InsType = x.InsType /\ y.Cmd = t /\ y.R = x.R /\ y.W = x.W
  BY DEF Instr

LEMMA SetR ==
  ASSUME NEW x \in Instr, NEW t \in Int, NEW y, y = [x EXCEPT !.R = t]
  PROVE  y \in Instr /\ y.InsType = x.InsType /\ y.Cmd = x.Cmd /\ y.R = t /\ y.W = x.W
  BY DEF Instr

LEMMA SetW ==
  ASSUME NEW x \in Instr, NEW t \in Int, NEW y, y = [x EXCEPT !.W = t]
  PROVE  y \in Instr /\ y.InsType = x.InsType /\ y.Cmd = x.Cmd /\ y.R = x.R /\ y.W = t
  BY DEF Instr

\* A new instruction.
LEMMA Record ==
  ASSUME NEW T \in Types, NEW c \in Words
  PROVE  [InsType |-> T, Cmd |-> c, R |-> 0, W |-> 0] \in Instr
  BY DEF Instr

\* A change of one element of a sequence.
LEMMA Changed ==
  ASSUME NEW s \in Seq(Instr), NEW c \in 1 .. Len(s), NEW y \in Instr, NEW t, t = [s EXCEPT ![c] = y]
  PROVE  /\ t \in Seq(Instr) /\ Len(t) = Len(s) /\ t[c] = y
         /\ \A i \in 1 .. Len(s) : i # c => t[i] = s[i]
  OBVIOUS

\* What Parse may append to its instructions.
LEMMA ParsedAppend ==
  ASSUME NEW s, Parsed(s), NEW x \in Instr, x.R <= 0, x.InsType = "WAIT" => x.Cmd = "none",
         s = <<>> \/ s[Len(s)].InsType # "EXEC" \/ x.InsType = "WAIT"
  PROVE  Parsed(Append(s, x)) /\ Append(s, x)[Len(Append(s, x))] = x
<1>1. s \in Seq(Instr) /\ Len(s) \in Nat
  BY DEF Parsed
<1>2. PICK t : t = Append(s, x)
  OBVIOUS
<1>3. /\ t \in Seq(Instr) /\ Len(t) = Len(s) + 1 /\ t[Len(s) + 1] = x
      /\ \A i \in 1 .. Len(s) : t[i] = s[i]
  BY <1>1, <1>2, AppendProperties
<1>4. ASSUME NEW i \in 1 .. Len(t)
      PROVE  /\ t[i].R <= 0
             /\ t[i].InsType = "WAIT" => t[i].Cmd = "none"
             /\ t[i].InsType = "EXEC" /\ i < Len(t) => t[i + 1].InsType = "WAIT"
  <2>1. CASE i = Len(s) + 1
    BY <1>1, <1>3, <2>1
  <2>2. CASE i \in 1 .. Len(s)
    <3>1. t[i] = s[i] /\ s[i].R <= 0 /\ (s[i].InsType = "WAIT" => s[i].Cmd = "none")
          /\ (s[i].InsType = "EXEC" /\ i < Len(s) => s[i + 1].InsType = "WAIT")
      BY <1>3, <2>2 DEF Parsed, Fresh
    <3>2. CASE i < Len(s)
      BY <1>1, <1>3, <2>2, <3>1, <3>2
    <3>3. CASE i = Len(s)
      <4>1. s # <<>>
        BY <1>1, <2>2
      <4> QED
        BY <1>1, <1>3, <2>2, <3>1, <3>3, <4>1
    <3> QED
      BY <1>1, <2>2, <3>2, <3>3
  <2> QED
    BY <1>1, <1>3, <2>1, <2>2
<1>5. Parsed(t)
  BY <1>3, <1>4 DEF Parsed, Fresh
<1> QED
  BY <1>1, <1>2, <1>3, <1>5

\* Between two tokens.
Parsing(s) ==
    /\ s \in [done : Seq(Instr), open : Instr, fresh : BOOLEAN, to : {"none", "<", ">", "panic"}]
    /\ s.open.InsType = "EXEC" /\ s.open.R <= 0
    /\ Parsed(s.done) /\ (s.done = <<>> \/ s.done[Len(s.done)].InsType # "EXEC")

\* NewInstruction, and the instruction of &&.
LEMMA NewInstr ==
  /\ NewInstruction \in Instr /\ NewInstruction.InsType = "EXEC" /\ NewInstruction.R = 0
  /\ NewInstruction.Cmd = "none"
  /\ WaitAlone \in Instr /\ WaitAlone.InsType = "WAIT" /\ Fresh(WaitAlone)
<1>1. "EXEC" \in Types /\ "WAIT" \in Types
  BY DEF Types
<1>2. [InsType |-> "EXEC", Cmd |-> "none", R |-> 0, W |-> 0] \in Instr
  BY <1>1, WordsAre, Record
<1>3. NewInstruction \in Instr /\ NewInstruction.InsType = "EXEC" /\ NewInstruction.R = 0
      /\ NewInstruction.Cmd = "none"
  BY <1>2 DEF NewInstruction
<1>4. WaitAlone \in Instr /\ WaitAlone.InsType = "WAIT" /\ WaitAlone.R = 0 /\ WaitAlone.Cmd = "none"
  BY <1>1, <1>3, SetInsType DEF WaitAlone
<1> QED
  BY <1>3, <1>4 DEF Fresh

\* What is between two tokens, from its fields.
LEMMA ParsingRecord ==
  ASSUME NEW d, Parsed(d), d = <<>> \/ d[Len(d)].InsType # "EXEC",
         NEW i \in Instr, i.InsType = "EXEC", i.R <= 0,
         NEW f \in BOOLEAN, NEW t \in {"none", "<", ">", "panic"}
  PROVE  Parsing([done |-> d, open |-> i, fresh |-> f, to |-> t])
<1>1. d \in Seq(Instr)
  BY DEF Parsed
<1> QED
  BY <1>1 DEF Parsing

\* Parse begins the next instruction.
LEMMA ParsingBegin ==
  ASSUME NEW d, Parsed(d), d = <<>> \/ d[Len(d)].InsType # "EXEC"
  PROVE  Parsing(Begin(d))
<1>1. NewInstruction.R <= 0
  BY NewInstr
<1> QED
  BY <1>1, ParsingRecord, NewInstr DEF Begin

\* The instructions of the whole line.
LEMMA Completed ==
  ASSUME NEW s, Parsing(s)
  PROVE  Parsed(Complete(s))
<1>1. CASE s.fresh
  BY <1>1 DEF Complete, Parsing
<1>2. CASE ~s.fresh
  <2>1. Fresh(s.open) /\ s.open \in Instr
    BY DEF Parsing, Fresh
  <2>2. Parsed(Append(s.done, s.open))
    BY <2>1, ParsedAppend DEF Parsing, Fresh
  <2> QED
    BY <1>2, <2>2 DEF Complete
<1> QED
  BY <1>1, <1>2

\* One token more.
LEMMA ParsingToken ==
  ASSUME NEW s, Parsing(s), NEW token \in Words
  PROVE  Parsing(parseToken(s, token))
<1>1. /\ s \in [done : Seq(Instr), open : Instr, fresh : BOOLEAN, to : {"none", "<", ">", "panic"}]
      /\ s.open \in Instr /\ s.done \in Seq(Instr) /\ s.fresh \in BOOLEAN
      /\ s.open.InsType = "EXEC" /\ s.open.R <= 0 /\ s.open.R \in Int
      /\ Parsed(s.done) /\ (s.done = <<>> \/ s.done[Len(s.done)].InsType # "EXEC")
  BY Fields DEF Parsing
\* A change of the instruction that it is at.
<1>2. ASSUME NEW i \in Instr, i.InsType = "EXEC", i.R <= 0,
             NEW t \in {"none", "<", ">", "panic"}
      PROVE  Parsing(Within(s, i, t))
  BY <1>1, <1>2, ParsingRecord DEF Within
<1>4. CASE s.to = "panic"
  BY <1>4 DEF parseToken
<1>5. CASE s.to = "<"
  <2>1. PICK i : i = [s.open EXCEPT !.R = -1]
    OBVIOUS
  <2>2. i \in Instr /\ i.InsType = "EXEC" /\ i.R <= 0
    BY <1>1, <2>1, SetR
  <2>3. Parsing(Within(s, i, "none")) /\ Parsing(Within(s, s.open, "panic"))
    BY <1>1, <1>2, <2>2
  <2> QED
    BY <1>5, <2>1, <2>3 DEF parseToken
<1>6. CASE s.to = ">"
  <2>1. PICK i : i = [s.open EXCEPT !.W = -1]
    OBVIOUS
  <2>2. i \in Instr /\ i.InsType = "EXEC" /\ i.R <= 0
    <3>1. -1 \in Int
      OBVIOUS
    <3>2. i \in Instr /\ i.InsType = s.open.InsType /\ i.R = s.open.R
      <4>1. PICK m : m = -1 /\ m \in Int
        OBVIOUS
      <4>2. i = [s.open EXCEPT !.W = m]
        BY <2>1, <4>1
      <4> QED
        BY <1>1, <4>1, <4>2, SetW
    <3> QED
      BY <1>1, <3>2
  <2>3. Parsing(Within(s, i, "none"))
    BY <1>2, <2>2
  <2> QED
    BY <1>6, <2>1, <2>3 DEF parseToken
<1>7. CASE s.to = "none" /\ token = "|"
  <2>1. PICK i : i = [s.open EXCEPT !.InsType = "PIPE"]
    OBVIOUS
  <2>2. i \in Instr /\ i.InsType = "PIPE" /\ i.R <= 0
    BY <1>1, <2>1, SetInsType DEF Types
  <2>3. PICK d : d = Append(s.done, i)
    OBVIOUS
  <2>4. Parsed(d) /\ d[Len(d)] = i
    BY <1>1, <2>2, <2>3, ParsedAppend
  <2>5. Parsing(Begin(d))
    BY <2>2, <2>4, ParsingBegin
  <2> QED
    BY <1>7, <2>1, <2>3, <2>5 DEF parseToken
<1>8. CASE s.to = "none" /\ token = "&&"
  <2>2. PICK d : d = Append(Complete(s), WaitAlone)
    OBVIOUS
  <2>3. Parsed(d) /\ d[Len(d)] = WaitAlone
    BY <2>2, Completed, ParsedAppend, NewInstr DEF Fresh
  <2>4. Parsing(Begin(d))
    BY <2>3, ParsingBegin, NewInstr
  <2> QED
    BY <1>8, <2>2, <2>4 DEF parseToken
<1>9. CASE s.to = "none" /\ token \in {"<", ">"}
  <2>1. Parsing(Within(s, s.open, token))
    BY <1>1, <1>2, <1>9
  <2> QED
    BY <1>9, <2>1 DEF parseToken
<1>10. CASE s.to = "none" /\ token \notin {"|", "&&", "<", ">"}
  <2>1. PICK c : c = IF s.open.Cmd = "none" THEN token ELSE s.open.Cmd
    OBVIOUS
  <2>2. PICK i : i = [s.open EXCEPT !.Cmd = c]
    OBVIOUS
  <2>3. c \in Words
    BY <1>1, <2>1, Fields
  <2>4. i \in Instr /\ i.InsType = "EXEC" /\ i.R <= 0
    BY <1>1, <2>2, <2>3, SetCmd
  <2>5. Parsing(Within(s, i, "none"))
    BY <1>2, <2>4
  <2> QED
    BY <1>10, <2>1, <2>2, <2>5 DEF parseToken
<1> QED
  BY <1>1, <1>4, <1>5, <1>6, <1>7, <1>8, <1>9, <1>10

\* A set of numbers that is not empty has a least one.
LEMMA LeastNumber ==
  ASSUME NEW Q \in SUBSET Nat, Q # {}
  PROVE  \E x \in Q : \A y \in Q : x <= y
<1>1. PICK lt : IsWellFoundedOn(lt, Nat) /\ \A x, y \in Nat : x < y => <<x, y>> \in lt
  <2>1. IsWellFoundedOn(OpToRel(<, Nat), Nat)
    BY NatLessThanWellFounded
  <2>2. \A x, y \in Nat : x < y => <<x, y>> \in OpToRel(<, Nat)
    BY DEF OpToRel
  <2> QED
    BY <2>1, <2>2, Zenon
<1>2. PICK x \in Q : \A y \in Q : ~ (<<y, x>> \in lt)
  <2>1. IsWellFoundedOn(lt, Nat)
    BY <1>1
  <2>2. Q \subseteq Nat /\ Q # {}
    OBVIOUS
  <2>3. \E x \in Q : \A y \in Q : ~ (<<y, x>> \in lt)
    BY <2>1, <2>2, WFMin, Zenon
  <2> QED
    BY <2>3
<1>3. \A y \in Q : ~ (y < x)
  BY <1>1, <1>2
<1> QED
  BY <1>3

\* A set of numbers with 0 and with the successor of each of them up to a
\* bound has all numbers up to that.
LEMMA Induction ==
  ASSUME NEW n \in Nat, NEW Known, 0 \in Known,
         \A i \in 0 .. n - 1 : i \in Known => i + 1 \in Known
  PROVE  \A i \in 0 .. n : i \in Known
<1> SUFFICES ASSUME NEW i \in 0 .. n, i \notin Known
             PROVE  FALSE
  OBVIOUS
<1> DEFINE Q == (0 .. n) \ Known
<1>1. PICK x \in Q : \A y \in Q : x <= y
  <2>1. Q \in SUBSET Nat /\ Q # {}
    OBVIOUS
  <2> HIDE DEF Q
  <2> QED
    BY <2>1, LeastNumber, Zenon
<1>2. x # 0 /\ x - 1 \in 0 .. n - 1 /\ x - 1 \in Known
  BY <1>1
<1> QED
  BY <1>1, <1>2

\* Parses is the function that its definition says: there is one.
LEMMA ParsesFunction ==
  ASSUME NEW tokens \in Seq(Words)
  PROVE  Parses(tokens) = [i \in 0 .. Len(tokens) |->
             IF i = 0 THEN Begin(<<>>) ELSE parseToken(Parses(tokens)[i - 1], tokens[i])]
<1> DEFINE n == Len(tokens)
           Fits(f, k) == f = [i \in 0 .. k |-> IF i = 0 THEN Begin(<<>>)
                                               ELSE parseToken(f[i - 1], tokens[i])]
           Known == {k \in 0 .. n : \E f : Fits(f, k)}
<1>1. n \in Nat
  OBVIOUS
<1>2. 0 \in Known
  <2>1. Fits([i \in 0 .. 0 |-> Begin(<<>>)], 0)
    OBVIOUS
  <2> HIDE DEF Fits, n
  <2> QED
    BY <2>1, <1>1
<1>3. ASSUME NEW k \in 0 .. n - 1, k \in Known
      PROVE  k + 1 \in Known
  <2>1. PICK f : Fits(f, k)
    BY <1>3
  <2> DEFINE g == [i \in 0 .. k + 1 |-> IF i = k + 1 THEN parseToken(f[k], tokens[k + 1]) ELSE f[i]]
  <2>2. \A i \in 0 .. k + 1 : g[i] = IF i = 0 THEN Begin(<<>>) ELSE parseToken(g[i - 1], tokens[i])
    <3> TAKE i \in 0 .. k + 1
    <3>1. CASE i = k + 1
      BY <3>1, <1>1
    <3>2. CASE i # k + 1
      <4>1. i \in 0 .. k /\ (i # 0 => i - 1 \in 0 .. k)
        BY <3>2, <1>1
      <4>2. f[i] = IF i = 0 THEN Begin(<<>>) ELSE parseToken(f[i - 1], tokens[i])
        BY <2>1, <4>1
      <4> QED
        BY <3>2, <4>1, <4>2, <1>1
    <3> QED
      BY <3>1, <3>2
  <2>3. Fits(g, k + 1)
    BY <2>2
  <2> HIDE DEF Fits, g
  <2> QED
    BY <2>3, <1>1
<1>4. \E f : Fits(f, n)
  <2> HIDE DEF Fits, n
  <2>1. n \in 0 .. n
    BY <1>1
  <2> QED
    BY <1>1, <1>2, <1>3, <2>1, Induction
<1>5. Parses(tokens) = CHOOSE f : Fits(f, n)
  BY DEF Parses
<1>6. Fits(Parses(tokens), n)
  <2> HIDE DEF Fits, n
  <2> QED
    BY <1>4, <1>5, Zenon
<1> QED
  BY <1>6

\* Every line is parsed into instructions as Parsed says.
LEMMA ParseTokensType ==
  ASSUME NEW tokens \in Seq(Words)
  PROVE  Parsed(Complete(ParseTokens(tokens)))
<1> DEFINE n == Len(tokens)
           V == Parses(tokens)
           Known == {k \in 0 .. n : Parsing(V[k])}
<1>1. n \in Nat /\ \A k \in 1 .. n : tokens[k] \in Words
  OBVIOUS
<1>2. 0 \in Known
  <2>1. V[0] = Begin(<<>>)
    BY <1>1, ParsesFunction
  <2>2. Parsed(<<>>)
    BY DEF Parsed
  <2> HIDE DEF n, V
  <2> QED
    BY <1>1, <2>1, <2>2, ParsingBegin
<1>3. ASSUME NEW k \in 0 .. n - 1, k \in Known
      PROVE  k + 1 \in Known
  <2>1. k + 1 \in 0 .. n /\ k + 1 # 0 /\ (k + 1) - 1 = k /\ k + 1 \in 1 .. n
    BY <1>1
  <2>2. V[k + 1] = parseToken(V[k], tokens[k + 1])
    BY <2>1, ParsesFunction
  <2> HIDE DEF n, V
  <2>3. Parsing(V[k]) /\ tokens[k + 1] \in Words
    BY <1>1, <1>3, <2>1
  <2>4. Parsing(V[k + 1])
    BY <2>2, <2>3, ParsingToken
  <2> QED
    BY <2>1, <2>4
<1>4. Parsing(V[n])
  <2> HIDE DEF n, V
  <2>1. n \in 0 .. n
    BY <1>1
  <2> QED
    BY <1>1, <1>2, <1>3, <2>1, Induction
<1> QED
  BY <1>4, Completed DEF ParseTokens

\* A line is a sequence of its words.
LEMMA LineWords ==
  ASSUME NEW line \in CommandLines
  PROVE  line \in Seq(Words)
<1>1. line \in Seq(STRING)
  BY CommandLinesAssumption
<1>2. \A i \in 1 .. Len(line) : line[i] \in Words
  BY WordsAre
<1>3. Len(line) \in Nat /\ line = [i \in 1 .. Len(line) |-> line[i]]
  BY <1>1
<1> QED
  BY <1>2, <1>3
-----------------------------------------------------------------------------
(* The invariant.                                                          *)

\* What is typed again and again, parsed.
Plan == Complete(ParseTokens(entered))
Is(i, type) == i \in 1 .. Len(ins) /\ ins[i].InsType = type

TypeInv ==
    /\ lab = "dlsh" /\ entered \in CommandLines
    /\ sh \in {"prompt", "next", "give", "wait", "drain", "ended"}
    /\ ins \in Seq(Instr) /\ cur \in Nat \ {0}
    /\ eu \in [Piped : BOOLEAN, R : Nat, QPid : Seq(Nat), i : Nat \ {0}]
    /\ programs \in [Started -> {"running", "stopped", "ended", "reaped"}]
    /\ Started \subseteq 1 .. Len(ins)
    /\ foreground \in Nat

\* The instructions are those of the line that is entered again, but for the
\* files, once there was a line.
LineInv ==
    ins = <<>> \/ /\ Len(ins) = Len(Plan)
                  /\ \A i \in 1 .. Len(ins) : /\ ins[i].InsType = Plan[i].InsType
                                              /\ ins[i].Cmd = Plan[i].Cmd

\* While a program has the terminal, the shell can take it back.
HeldInv == foreground # 0 => ignoring /\ 0 \in readEnds

Executed(i) == i < cur \/ (i = cur /\ sh # "next")

\* Instructions that have been executed and those that have not.
StepInv ==
    /\ sh # "next" => cur <= Len(ins)
    /\ \A p \in Started : Executed(p) /\ ins[p].Cmd = "run"
    /\ sh \in {"give", "wait"} => cur \in Unreaped
    /\ sh \in {"wait", "drain"} => ~Is(cur, "PIPE")
    /\ \A i \in 1 .. Len(ins) : ~Executed(i) => ins[i].R <= 0
    /\ \A i \in 1 .. Len(ins) : Executed(i) /\ Is(i, "PIPE") => ins[i].W = i
    /\ \A i \in 2 .. Len(ins) :
           Is(i - 1, "PIPE") /\ (i \in Started \/ (Executed(i) /\ Is(i, "PIPE"))) =>
               ins[i].R = i - 1

\* The unit, and the programs that it has not waited for.
UnitInv ==
    /\ eu.Piped => eu.R > 0
    /\ sh # "drain" => eu.i = 1
    /\ sh = "next" /\ Is(cur - 1, "PIPE") => eu.Piped /\ eu.R = cur - 1
    /\ sh = "next" /\ ~eu.Piped => Unreaped = {}
    /\ sh = "give" /\ Is(cur, "PIPE") => eu.Piped /\ eu.R = cur
    /\ sh = "give" /\ ~Is(cur, "PIPE") => ~eu.Piped /\ (ins[cur].R > 0 \/ Unreaped = {cur})
    /\ sh = "wait" => ~eu.Piped /\ Unreaped = {cur} /\ ins[cur].R <= 0
    /\ sh = "drain" => \A p \in Unreaped : p >= eu.i

\* A cd that is the last of a pipeline makes the next drain close the input
\* of the shell.
LoseInv ==
    \A i \in 2 .. Len(ins) :
        /\ i < cur /\ Is(i - 1, "PIPE") /\ Is(i, "EXEC") /\ ins[i].Cmd = "cd"
        /\ ins[i].R = 0 /\ 0 \in readEnds
        => cur = i + 1 /\ (sh = "next" \/ (sh = "drain" /\ eu.i <= i))

\* The programs that have not been waited for own the terminal or queue for
\* it, in the order of their start.
QueueInv ==
    /\ foreground <= Len(ins)
    /\ foreground = 0 => eu.QPid = <<>>
    /\ \A a \in 1 .. Len(eu.QPid) : foreground < eu.QPid[a] /\ eu.QPid[a] <= Len(ins)
    /\ \A a, b \in 1 .. Len(eu.QPid) : a < b => eu.QPid[a] < eu.QPid[b]
    /\ 0 \in readEnds => \A p \in 1 .. Len(ins) :
           (p \in Unreaped /\ (sh = "give" => p # cur)) <=>
               (p = foreground \/ \E a \in 1 .. Len(eu.QPid) : p = eu.QPid[a])

\* The pipes that have been made for the present pipeline.
Chain == LET end == IF sh = "give" /\ Is(cur, "PIPE") THEN cur ELSE cur - 1
         IN {j \in 1 .. Len(ins) : j <= end /\ \A k \in j .. end : Is(k, "PIPE")}

\* What holds besides on a line whose pipelines are whole.
WholeInv ==
    /\ sh = "next" /\ eu.Piped => Is(cur - 1, "PIPE")
    /\ sh = "drain" => ~eu.Piped
    /\ readEnds = {0} \cup {j \in Chain : j >= eu.i - 1}
    /\ writeEnds = {0} \cup {j \in Chain : j >= eu.i}
    /\ \A j \in Chain : j >= eu.i => j \in Unreaped \/ ins[j].Cmd = "cd"
    /\ sh = "drain" /\ Chain # {} /\ cur >= eu.i => cur \in Unreaped

PromptInv == foreground = 0 /\ Unreaped = {} /\ readEnds = {0} /\ writeEnds = {0}

Busy == sh \in {"next", "give", "wait", "drain"}

DlshInv ==
    /\ TypeInv /\ LineInv /\ HeldInv
    /\ Busy => StepInv /\ UnitInv /\ LoseInv /\ QueueInv
    /\ Busy /\ Whole => WholeInv
    /\ sh = "prompt" /\ Whole => PromptInv

\* The instructions have the shape of those that were parsed.
LEMMA Shape ==
  ASSUME TypeInv, LineInv
  PROVE  \A i \in 1 .. Len(ins) :
             /\ ins[i].InsType \in Types
             /\ ins[i].InsType = "WAIT" => ins[i].Cmd = "none"
             /\ ins[i].InsType = "EXEC" /\ i < Len(ins) => ins[i + 1].InsType = "WAIT"
<1>1. Parsed(Plan)
  BY LineWords, ParseTokensType DEF Plan, TypeInv
<1>2. ins \in Seq(Instr) /\ Len(ins) \in Nat
  BY DEF TypeInv
<1>3. CASE ins = <<>>
  BY <1>3
<1>4. CASE ins # <<>>
  <2>1. /\ Len(ins) = Len(Plan)
        /\ \A i \in 1 .. Len(ins) : ins[i].InsType = Plan[i].InsType /\ ins[i].Cmd = Plan[i].Cmd
    BY <1>4 DEF LineInv
  <2>2. \A i \in 1 .. Len(Plan) :
            /\ Plan[i].InsType = "WAIT" => Plan[i].Cmd = "none"
            /\ Plan[i].InsType = "EXEC" /\ i < Len(Plan) => Plan[i + 1].InsType = "WAIT"
    BY <1>1 DEF Parsed, Fresh
  <2>3. \A i \in 1 .. Len(ins) : ins[i].InsType \in Types
    BY <1>2, Fields
  <2> QED
    BY <1>2, <2>1, <2>2, <2>3
<1> QED
  BY <1>3, <1>4

\* A line that is the same but for the files.
LEMMA SameLine ==
  ASSUME LineInv, entered' = entered, Len(ins') = Len(ins),
         \A i \in 1 .. Len(ins) : ins'[i].InsType = ins[i].InsType /\ ins'[i].Cmd = ins[i].Cmd,
         ins' = <<>> <=> ins = <<>>
  PROVE  LineInv'
<1>1. Plan' = Plan
  BY DEF Plan
<1> QED
  BY <1>1 DEF LineInv

\* Whether pipelines are whole does not depend on the files.
LEMMA StillWhole ==
  ASSUME TypeInv, Len(ins') = Len(ins), ins' \in Seq(Instr),
         \A i \in 1 .. Len(ins) : ins'[i].InsType = ins[i].InsType /\ ins'[i].Cmd = ins[i].Cmd
  PROVE  Whole' <=> Whole
<1>1. DOMAIN ins = 1 .. Len(ins) /\ DOMAIN ins' = 1 .. Len(ins) /\ Len(ins) \in Nat
  BY DEF TypeInv
<1>2. \A i \in 1 .. Len(ins) : i < Len(ins) => i + 1 \in 1 .. Len(ins)
  BY <1>1
<1>3. \A i \in 1 .. Len(ins) : \A j \in 1 .. i : j \in 1 .. Len(ins)
  BY <1>1
<1>4. \A i \in 1 .. Len(ins) : i < Len(ins) => ins'[i + 1].InsType = ins[i + 1].InsType
                                                 /\ ins'[i + 1].Cmd = ins[i + 1].Cmd
  BY <1>2
<1>5. \A i \in 1 .. Len(ins) : \A j \in 1 .. i : ins'[j].InsType = ins[j].InsType
  BY <1>3
<1>6. ASSUME Whole
      PROVE  Whole'
  <2> SUFFICES ASSUME NEW i \in 1 .. Len(ins), ins'[i].InsType = "PIPE"
               PROVE  /\ ins'[i].Cmd \in {"run", "cd"}
                      /\ i < Len(ins)
                      /\ \/ ins'[i + 1].Cmd = "run"
                         \/ ins'[i + 1].Cmd = "cd" /\ ins'[i + 1].InsType = "PIPE"
                      /\ "cd" \in {ins'[i].Cmd, ins'[i + 1].Cmd} =>
                             \A j \in 1 .. i : ins'[j].InsType # "WAIT"
    BY <1>1 DEF Whole
  <2>1. ins[i].InsType = "PIPE"
    OBVIOUS
  <2>2. /\ ins[i].Cmd \in {"run", "cd"} /\ i < Len(ins)
        /\ ins[i + 1].Cmd = "run" \/ (ins[i + 1].Cmd = "cd" /\ ins[i + 1].InsType = "PIPE")
        /\ "cd" \in {ins[i].Cmd, ins[i + 1].Cmd} => \A j \in 1 .. i : ins[j].InsType # "WAIT"
    BY <1>1, <1>6, <2>1, Zenon DEF Whole
  <2>3. /\ ins'[i].Cmd = ins[i].Cmd /\ ins'[i + 1].Cmd = ins[i + 1].Cmd
        /\ ins'[i + 1].InsType = ins[i + 1].InsType
    BY <1>4, <2>2
  <2>4. "cd" \in {ins[i].Cmd, ins[i + 1].Cmd} => \A j \in 1 .. i : ins'[j].InsType # "WAIT"
    BY <1>5, <2>2, Zenon
  <2> QED
    BY <2>2, <2>3, <2>4, Zenon
<1>7. ASSUME Whole'
      PROVE  Whole
  <2> SUFFICES ASSUME NEW i \in 1 .. Len(ins), ins[i].InsType = "PIPE"
               PROVE  /\ ins[i].Cmd \in {"run", "cd"}
                      /\ i < Len(ins)
                      /\ \/ ins[i + 1].Cmd = "run"
                         \/ ins[i + 1].Cmd = "cd" /\ ins[i + 1].InsType = "PIPE"
                      /\ "cd" \in {ins[i].Cmd, ins[i + 1].Cmd} =>
                             \A j \in 1 .. i : ins[j].InsType # "WAIT"
    BY <1>1 DEF Whole
  <2>1. ins'[i].InsType = "PIPE"
    OBVIOUS
  <2>2. /\ ins'[i].Cmd \in {"run", "cd"} /\ i < Len(ins)
        /\ ins'[i + 1].Cmd = "run" \/ (ins'[i + 1].Cmd = "cd" /\ ins'[i + 1].InsType = "PIPE")
        /\ "cd" \in {ins'[i].Cmd, ins'[i + 1].Cmd} => \A j \in 1 .. i : ins'[j].InsType # "WAIT"
    BY <1>1, <1>7, <2>1, Zenon DEF Whole
  <2>3. /\ ins'[i].Cmd = ins[i].Cmd /\ ins'[i + 1].Cmd = ins[i + 1].Cmd
        /\ ins'[i + 1].InsType = ins[i + 1].InsType
    BY <1>4, <2>2
  <2>4. "cd" \in {ins'[i].Cmd, ins'[i + 1].Cmd} => \A j \in 1 .. i : ins[j].InsType # "WAIT"
    BY <1>5, <2>2, Zenon
  <2> QED
    BY <2>2, <2>3, <2>4, Zenon
<1> QED
  BY <1>6, <1>7

\* Where nothing is left to do for the line.
LEMMA Ended ==
  ASSUME DlshInv, sh' = "ended",
         UNCHANGED <<lab, todo, entered, ins, cur, eu, programs, foreground, ignoring, readEnds, writeEnds>>
  PROVE  DlshInv'
<1>1. TypeInv' /\ HeldInv'
  BY DEF DlshInv, TypeInv, HeldInv, Started
<1>2. LineInv'
  BY DEF DlshInv, LineInv, Plan
<1> QED
  BY <1>1, <1>2 DEF DlshInv, Busy

\* Interrupted ends the shell.
LEMMA InterruptedStep ==
  ASSUME DlshInv, Interrupted, UNCHANGED <<lab, todo, entered>>
  PROVE  DlshInv'
  BY Ended DEF Interrupted

\* Exit ends the shell.
LEMMA ExitStep ==
  ASSUME DlshInv, Exit, UNCHANGED <<lab, todo, entered>>
  PROVE  DlshInv'
  BY Ended DEF Exit

\* ReadFails ends the shell.
LEMMA ReadFailsStep ==
  ASSUME DlshInv, ReadFails, UNCHANGED <<lab, todo, entered>>
  PROVE  DlshInv'
  BY Ended DEF ReadFails

\* What a program does by itself.
LEMMA ProgramStep ==
  ASSUME DlshInv, NEW p \in Started, Ends(p) \/ Stops(p), UNCHANGED <<lab, todo, entered>>
  PROVE  DlshInv'
<1>1. /\ UNCHANGED <<lab, entered, sh, ins, cur, eu, foreground, ignoring, readEnds, writeEnds>>
      /\ programs[p] = "running"
      /\ \E s \in {"ended", "stopped"} : programs' = [programs EXCEPT ![p] = s]
  BY DEF Ends, Stops, Becomes, Quiet
<1>2. programs \in [Started -> {"running", "stopped", "ended", "reaped"}]
  BY DEF DlshInv, TypeInv
<1>3. Started' = Started /\ programs' \in [Started -> {"running", "stopped", "ended", "reaped"}]
  BY <1>1, <1>2 DEF Started
<1>4. Unreaped' = Unreaped
  BY <1>1, <1>2, <1>3 DEF Unreaped
<1>5. TypeInv' /\ HeldInv'
  BY <1>1, <1>3 DEF DlshInv, TypeInv, HeldInv
<1>6. LineInv' /\ (Whole' <=> Whole)
  BY <1>1 DEF DlshInv, LineInv, Plan, Whole
<1>7. (StepInv' <=> StepInv) /\ (UnitInv' <=> UnitInv) /\ (LoseInv' <=> LoseInv)
      /\ (QueueInv' <=> QueueInv) /\ (WholeInv' <=> WholeInv) /\ (PromptInv' <=> PromptInv)
  BY <1>1, <1>3, <1>4 DEF StepInv, UnitInv, LoseInv, QueueInv, WholeInv, PromptInv, Executed, Is, Chain
<1> QED
  BY <1>1, <1>5, <1>6, <1>7 DEF DlshInv, Busy
-----------------------------------------------------------------------------
(* Lines, and what the shell does between their pipelines.                 *)

\* What holds while the shell is at a line.
LEMMA BusyFacts ==
  ASSUME DlshInv, sh \in {"next", "give", "wait", "drain"}
  PROVE  /\ TypeInv /\ LineInv /\ HeldInv /\ StepInv /\ UnitInv /\ LoseInv /\ QueueInv
         /\ Whole => WholeInv
         /\ cur \in Nat /\ cur >= 1 /\ Len(ins) \in Nat /\ ins \in Seq(Instr)
         /\ eu \in [Piped : BOOLEAN, R : Nat, QPid : Seq(Nat), i : Nat \ {0}]
         /\ eu.i \in Nat /\ eu.i >= 1 /\ eu.R \in Nat /\ eu.QPid \in Seq(Nat) /\ Len(eu.QPid) \in Nat
         /\ eu.Piped \in BOOLEAN /\ foreground \in Nat
         /\ Started \subseteq 1 .. Len(ins) /\ Unreaped \subseteq Started
         /\ \A i \in 1 .. Len(ins) : ins[i] \in Instr /\ ins[i].R \in Int /\ ins[i].W \in Int
<1>1. TypeInv /\ LineInv /\ HeldInv /\ StepInv /\ UnitInv /\ LoseInv /\ QueueInv /\ (Whole => WholeInv)
  BY DEF DlshInv, Busy
<1>2. cur \in Nat /\ cur >= 1 /\ Len(ins) \in Nat /\ ins \in Seq(Instr) /\ foreground \in Nat
      /\ Started \subseteq 1 .. Len(ins)
      /\ eu \in [Piped : BOOLEAN, R : Nat, QPid : Seq(Nat), i : Nat \ {0}]
  BY <1>1 DEF TypeInv
<1>3. /\ eu.i \in Nat /\ eu.i >= 1 /\ eu.R \in Nat /\ eu.QPid \in Seq(Nat) /\ Len(eu.QPid) \in Nat
      /\ eu.Piped \in BOOLEAN
  BY <1>2
<1>4. \A i \in 1 .. Len(ins) : ins[i] \in Instr /\ ins[i].R \in Int /\ ins[i].W \in Int
  BY <1>2, Fields
<1> QED
  BY <1>1, <1>2, <1>3, <1>4 DEF Unreaped

\* No pipe has been made for the instruction that is next.
LEMMA NoChain ==
  ASSUME TypeInv, ~(sh = "give" /\ Is(cur, "PIPE")), ~Is(cur - 1, "PIPE")
  PROVE  Chain = {}
<1>1. cur \in Nat
  BY DEF TypeInv
<1>2. ASSUME NEW j \in Chain
      PROVE  FALSE
  <2>1. j \in Nat /\ j <= cur - 1 /\ \A k \in j .. cur - 1 : Is(k, "PIPE")
    BY <1>2 DEF Chain
  <2>2. cur - 1 \in j .. cur - 1
    BY <1>1, <2>1
  <2> QED
    BY <2>1, <2>2
<1> QED
  BY <1>2

\* The shell between two pipelines of a line whose pipelines are whole.
LEMMA BetweenPipelines ==
  ASSUME DlshInv, Whole, sh = "next", ~eu.Piped
  PROVE  PromptInv /\ Chain = {} /\ ~Is(cur - 1, "PIPE")
<1>1. /\ TypeInv /\ UnitInv /\ QueueInv /\ WholeInv /\ Len(ins) \in Nat /\ foreground \in Nat
      /\ eu.i \in Nat
  BY BusyFacts
<1>2. Unreaped = {} /\ ~Is(cur - 1, "PIPE")
  BY <1>1 DEF UnitInv
<1>3. Chain = {}
  BY <1>1, <1>2, NoChain
<1>4. readEnds = {0} /\ writeEnds = {0}
  BY <1>1, <1>3 DEF WholeInv
<1>5. foreground = 0
  <2>1. foreground # 0 => foreground \in 1 .. Len(ins)
    BY <1>1 DEF QueueInv
  <2> QED
    BY <1>1, <1>2, <1>4, <2>1 DEF QueueInv
<1> QED
  BY <1>2, <1>3, <1>4, <1>5 DEF PromptInv

\* The shell turns to the prompt.
LEMMA ToPrompt ==
  ASSUME DlshInv, sh' = "prompt", Whole => PromptInv,
         UNCHANGED <<lab, todo, entered, ins, eu, programs, foreground, ignoring, readEnds, writeEnds, cur>>
  PROVE  DlshInv'
<1>1. TypeInv' /\ HeldInv'
  BY DEF DlshInv, TypeInv, HeldInv, Started
<1>2. LineInv' /\ (Whole' <=> Whole) /\ (PromptInv' <=> PromptInv)
  BY DEF DlshInv, LineInv, Plan, Whole, PromptInv, Unreaped, Started
<1> QED
  BY <1>1, <1>2 DEF DlshInv, Busy

\* On a line whose pipelines are whole, | is followed by a program or by a cd
\* that another | follows.
LEMMA AfterPipe ==
  ASSUME DlshInv, Whole, sh = "next", cur <= Len(ins), Is(cur - 1, "PIPE")
  PROVE  Ins.Cmd = "run" \/ (Ins.Cmd = "cd" /\ Ins.InsType = "PIPE")
<1>1. cur \in Nat /\ Len(ins) \in Nat
  BY BusyFacts
<1>2. cur - 1 \in 1 .. Len(ins) /\ ins[cur - 1].InsType = "PIPE"
  BY DEF Is
<1>3. DOMAIN ins = 1 .. Len(ins)
  BY BusyFacts
<1>4. ins[(cur - 1) + 1].Cmd = "run"
      \/ (ins[(cur - 1) + 1].Cmd = "cd" /\ ins[(cur - 1) + 1].InsType = "PIPE")
  BY <1>2, <1>3, Zenon DEF Whole
<1>5. (cur - 1) + 1 = cur
  BY <1>1
<1> QED
  BY <1>4, <1>5 DEF Ins

\* No pipeline ends with the line.
LEMMA LastIsNoPipe ==
  ASSUME DlshInv, Whole, sh \in {"next", "give", "wait", "drain"}
  PROVE  ~Is(Len(ins), "PIPE")
<1>1. Len(ins) \in Nat /\ DOMAIN ins = 1 .. Len(ins)
  BY BusyFacts
<1> SUFFICES ASSUME Is(Len(ins), "PIPE")
             PROVE  FALSE
  OBVIOUS
<1>2. Len(ins) \in DOMAIN ins /\ ins[Len(ins)].InsType = "PIPE"
  BY <1>1 DEF Is
<1>3. Len(ins) < Len(ins)
  BY <1>2, Zenon DEF Whole
<1> QED
  BY <1>1, <1>3

\* LineDone preserves the invariant.
LEMMA LineDoneStep ==
  ASSUME DlshInv, LineDone, UNCHANGED <<lab, todo, entered>>
  PROVE  DlshInv'
<1>1. sh = "next" /\ cur > Len(ins) /\ sh' = "prompt"
      /\ UNCHANGED <<cur, ins, eu, programs, foreground, ignoring, readEnds, writeEnds>>
  BY DEF LineDone, At, Prompts
<1>2. ASSUME Whole
      PROVE  PromptInv
  <2>1. /\ WholeInv /\ cur \in Nat /\ Len(ins) \in Nat /\ DOMAIN ins = 1 .. Len(ins)
    BY <1>1, <1>2, BusyFacts
  <2>2. ~Is(cur - 1, "PIPE")
    <3>1. Is(cur - 1, "PIPE") => cur - 1 = Len(ins)
      BY <1>1, <2>1 DEF Is
    <3>2. ~Is(Len(ins), "PIPE")
      BY <1>1, <1>2, LastIsNoPipe
    <3> QED
      BY <3>1, <3>2
  <2>3. ~eu.Piped
    BY <1>1, <2>1, <2>2 DEF WholeInv
  <2> QED
    BY <1>1, <1>2, <2>3, BetweenPipelines
<1> QED
  BY <1>1, <1>2, ToPrompt

\* ReadLine preserves the invariant: there is a new plan.
LEMMA ReadLineStep ==
  ASSUME DlshInv, ReadLine, UNCHANGED <<lab, todo, entered>>
  PROVE  DlshInv'
<1>1. /\ sh = "prompt" /\ foreground = 0 /\ 0 \in readEnds
      /\ ins' = Plan /\ sh' \in {"next", "ended"}
      /\ cur' = 1 /\ eu' = NewExecUnit /\ programs' = <<>>
      /\ readEnds' = {0} /\ writeEnds' = writeEnds \cap {0}
      /\ UNCHANGED <<foreground, ignoring>>
  BY DEF ReadLine, At, Plan
<1>2. TypeInv /\ LineInv /\ HeldInv /\ (Whole => PromptInv)
  BY <1>1 DEF DlshInv
<1>3. Parsed(Plan)
  BY <1>2, LineWords, ParseTokensType DEF Plan, TypeInv
<1>4. ins' \in Seq(Instr) /\ Len(ins') \in Nat /\ \A i \in 1 .. Len(ins') : ins'[i].R <= 0
  BY <1>1, <1>3 DEF Parsed, Fresh
<1>5. /\ eu'.Piped = FALSE /\ eu'.R = 0 /\ eu'.QPid = <<>> /\ eu'.i = 1 /\ Len(eu'.QPid) = 0
      /\ eu' \in [Piped : BOOLEAN, R : Nat, QPid : Seq(Nat), i : Nat \ {0}]
  BY <1>1 DEF NewExecUnit
<1>6. Started' = {} /\ Unreaped' = {}
  BY <1>1 DEF Started, Unreaped
<1>7. TypeInv'
  <2>1. programs' \in [Started' -> {"running", "stopped", "ended", "reaped"}]
    BY <1>1, <1>6 DEF Started
  <2> QED
    BY <1>1, <1>2, <1>4, <1>5, <1>6, <2>1 DEF TypeInv
<1>8. LineInv'
  <2>1. Plan' = Plan
    BY DEF Plan
  <2> QED
    BY <1>1, <2>1 DEF LineInv
<1>9. HeldInv'
  BY <1>1 DEF HeldInv
<1>10. \A i : i \in 1 .. Len(ins') => ~(i < cur')
  BY <1>1
<1>11. ASSUME sh' = "next"
       PROVE  StepInv' /\ UnitInv' /\ LoseInv' /\ QueueInv'
  <2>1. StepInv'
    BY <1>1, <1>4, <1>6, <1>10, <1>11 DEF StepInv, Executed
  <2>2. UnitInv'
    <3>1. ~Is(cur - 1, "PIPE")'
      BY <1>1 DEF Is
    <3> QED
      BY <1>1, <1>5, <1>6, <1>11, <3>1 DEF UnitInv
  <2>3. LoseInv'
    BY <1>1, <1>4 DEF LoseInv
  <2>4. QueueInv'
    BY <1>1, <1>4, <1>5, <1>6 DEF QueueInv
  <2> QED
    BY <2>1, <2>2, <2>3, <2>4
<1>12. ASSUME sh' = "next", Whole'
       PROVE  WholeInv'
  <2>1. Whole
    <3>1. CASE ins = <<>>
      BY <3>1 DEF Whole
    <3>2. CASE ins # <<>>
      <4>1. /\ Len(ins') = Len(ins) /\ DOMAIN ins' = 1 .. Len(ins) /\ DOMAIN ins = 1 .. Len(ins)
            /\ Len(ins) \in Nat
        BY <1>1, <1>2, <1>4, <3>2 DEF LineInv, TypeInv
      <4>2. \A i \in 1 .. Len(ins) : ins'[i].InsType = ins[i].InsType /\ ins'[i].Cmd = ins[i].Cmd
        BY <1>1, <1>2, <3>2 DEF LineInv
      <4>3. \A i \in 1 .. Len(ins) : i < Len(ins) => i + 1 \in 1 .. Len(ins)
        BY <4>1
      <4>4. \A i \in 1 .. Len(ins) : \A j \in 1 .. i : j \in 1 .. Len(ins)
        BY <4>1
      <4> QED
        BY <1>2, <1>4, <1>12, <4>1, <4>2, StillWhole
    <3> QED
      BY <3>1, <3>2
  <2>2. writeEnds' = {0}
    BY <1>1, <1>2, <2>1 DEF PromptInv
  <2>4. Chain' = {}
    <3>1. \A j : j \in Chain' => j \in Nat /\ j >= 1 /\ j <= 1 - 1
      BY <1>1, <1>12 DEF Chain
    <3> QED
      BY <3>1
  <2> QED
    BY <1>1, <1>5, <1>12, <2>2, <2>4 DEF WholeInv
<1> QED
  BY <1>1, <1>7, <1>8, <1>9, <1>11, <1>12 DEF DlshInv, Busy

\* What depends on the instructions only.
LEMMA SameIns ==
  ASSUME UNCHANGED <<entered, ins>>
  PROVE  (LineInv' <=> LineInv) /\ (Whole' <=> Whole)
  BY DEF LineInv, Plan, Whole

\* Before an instruction other than a wait, no cd is about to lose the input.
LEMMA NothingToLose ==
  ASSUME DlshInv, sh = "next", cur <= Len(ins), Ins.InsType # "WAIT",
         NEW i \in 2 .. Len(ins), i < cur, Is(i - 1, "PIPE"), Is(i, "EXEC"), ins[i].Cmd = "cd",
         ins[i].R = 0, 0 \in readEnds
  PROVE  FALSE
<1>1. cur = i + 1 /\ Len(ins) \in Nat
  BY BusyFacts DEF LoseInv
<1>2. i \in 1 .. Len(ins) /\ i < Len(ins) /\ ins[i].InsType = "EXEC"
  BY <1>1 DEF Is
<1>3. ins[i + 1].InsType = "WAIT"
  BY <1>2, Shape, BusyFacts
<1> QED
  BY <1>1, <1>3 DEF Ins

\* Chdir preserves the invariant.
LEMMA ChdirStep ==
  ASSUME DlshInv, Chdir, UNCHANGED <<lab, todo, entered>>
  PROVE  DlshInv'
<1>1. /\ sh = "next" /\ cur <= Len(ins) /\ Ins.Cmd \in {"cd", "cdnowhere"}
      /\ Ins.Cmd = "cdnowhere" \/ Ins.InsType # "PIPE"
      /\ UNCHANGED <<ins, eu, programs, foreground, ignoring, readEnds, writeEnds>>
      /\ Ins.Cmd = "cdnowhere" => sh' = "prompt" /\ cur' = cur
      /\ Ins.Cmd # "cdnowhere" => sh' = "next" /\ cur' = cur + 1
  BY DEF Chdir, At, Prompts, NextInstruction
<1>2. /\ TypeInv /\ LineInv /\ HeldInv /\ StepInv /\ UnitInv /\ LoseInv /\ QueueInv
      /\ (Whole => WholeInv) /\ cur \in Nat /\ cur >= 1 /\ Len(ins) \in Nat
      /\ Started \subseteq 1 .. Len(ins) /\ Unreaped \subseteq Started
  BY <1>1, BusyFacts
<1>3. Ins.InsType \in {"EXEC", "PIPE"} /\ Ins = ins[cur] /\ cur \in 1 .. Len(ins)
  BY <1>1, <1>2, Shape DEF Ins, Types
<1>4. CASE Ins.Cmd = "cdnowhere"
  <2>1. ASSUME Whole
        PROVE  PromptInv
    <3>1. ~Is(cur - 1, "PIPE")
      BY <1>1, <1>4, <2>1, AfterPipe
    <3>2. ~eu.Piped
      BY <1>1, <1>2, <2>1, <3>1 DEF WholeInv
    <3> QED
      BY <1>1, <2>1, <3>2, BetweenPipelines
  <2> QED
    BY <1>1, <1>4, <2>1, ToPrompt
<1>5. CASE Ins.Cmd = "cd"
  <2>1. /\ sh' = "next" /\ cur' = cur + 1 /\ ins[cur].InsType = "EXEC" /\ ins[cur].Cmd = "cd"
    BY <1>1, <1>3, <1>5
  <2>2. Started' = Started /\ Unreaped' = Unreaped
    BY <1>1 DEF Started, Unreaped
  <2>3. LineInv' /\ (Whole' <=> Whole)
    BY <1>1, <1>2, SameIns
  <2>4. TypeInv' /\ HeldInv'
    BY <1>1, <1>2, <2>1, <2>2 DEF TypeInv, HeldInv
  <2>5. StepInv'
    BY <1>1, <1>2, <1>3, <2>1, <2>2 DEF StepInv, Executed, Is
  <2>6. UnitInv'
    <3>1. ~Is(cur - 1, "PIPE")'
      BY <1>1, <1>2, <2>1 DEF Is
    <3> QED
      BY <1>1, <1>2, <2>1, <2>2, <3>1 DEF UnitInv
  <2>7. LoseInv'
    <3> SUFFICES ASSUME NEW i \in 2 .. Len(ins), i < cur + 1, Is(i - 1, "PIPE"), Is(i, "EXEC"),
                        ins[i].Cmd = "cd", ins[i].R = 0, 0 \in readEnds
                 PROVE  i = cur
      BY <1>1, <1>2, <2>1 DEF LoseInv, Is
    <3> QED
      BY <1>1, <1>2, <1>3, NothingToLose
  <2>8. QueueInv'
    BY <1>1, <1>2, <2>1, <2>2 DEF QueueInv
  <2>9. ASSUME Whole
        PROVE  WholeInv'
    <3>1. ~Is(cur - 1, "PIPE")
      BY <1>1, <1>3, <1>5, <2>1, <2>9, AfterPipe
    <3>2. ~eu.Piped
      BY <1>1, <1>2, <2>9, <3>1 DEF WholeInv
    <3>3. PromptInv /\ eu.i = 1
      BY <1>1, <1>2, <2>9, <3>2, BetweenPipelines DEF UnitInv
    <3>4. Chain' = {}
      <4>1. ASSUME NEW j, j \in Chain'
            PROVE  FALSE
        <5>1. j \in Nat /\ j <= cur /\ \A k \in j .. cur : Is(k, "PIPE")
          BY <1>1, <1>2, <2>1, <4>1 DEF Chain, Is
        <5>2. cur \in j .. cur
          BY <1>2, <5>1
        <5> QED
          BY <2>1, <5>1, <5>2 DEF Is
      <4> QED
        BY <4>1
    <3> QED
      BY <1>1, <2>1, <2>2, <3>2, <3>3, <3>4 DEF WholeInv, PromptInv
  <2> QED
    BY <2>1, <2>3, <2>4, <2>5, <2>6, <2>7, <2>8, <2>9 DEF DlshInv, Busy
<1> QED
  BY <1>1, <1>4, <1>5

\* WaitInstruction preserves the invariant.
LEMMA WaitInstructionStep ==
  ASSUME DlshInv, WaitInstruction, UNCHANGED <<lab, todo, entered>>
  PROVE  DlshInv'
<1>1. /\ sh = "next" /\ cur <= Len(ins) /\ ins[cur].InsType = "WAIT" /\ sh' = "drain"
      /\ UNCHANGED <<ins, cur, eu, programs, foreground, ignoring, readEnds, writeEnds>>
  BY DEF WaitInstruction, At, Ins
<1>2. /\ TypeInv /\ LineInv /\ HeldInv /\ StepInv /\ UnitInv /\ LoseInv /\ QueueInv
      /\ (Whole => WholeInv) /\ cur \in Nat /\ cur >= 1 /\ Len(ins) \in Nat
      /\ Started \subseteq 1 .. Len(ins) /\ Unreaped \subseteq Started
  BY <1>1, BusyFacts
<1>3. cur \in 1 .. Len(ins) /\ ins[cur].Cmd = "none"
  BY <1>1, <1>2, Shape
<1>4. Started' = Started /\ Unreaped' = Unreaped
  BY <1>1 DEF Started, Unreaped
<1>5. LineInv' /\ (Whole' <=> Whole)
  BY <1>1, <1>2, SameIns
<1>6. TypeInv' /\ HeldInv'
  BY <1>1, <1>2, <1>4 DEF TypeInv, HeldInv
<1>7. StepInv'
  BY <1>1, <1>2, <1>3, <1>4 DEF StepInv, Executed, Is
<1>8. UnitInv'
  <2>1. eu.i = 1
    BY <1>1, <1>2 DEF UnitInv
  <2>2. \A p \in Unreaped : p >= 1
    BY <1>2
  <2> QED
    BY <1>1, <1>2, <1>4, <2>1, <2>2 DEF UnitInv
<1>9. LoseInv'
  BY <1>1, <1>2 DEF LoseInv, Is, UnitInv
<1>10. QueueInv'
  BY <1>1, <1>2, <1>4 DEF QueueInv
<1>11. ASSUME Whole
       PROVE  WholeInv'
  <2>1. ~Is(cur - 1, "PIPE")
    BY <1>1, <1>3, <1>11, AfterPipe DEF Ins
  <2>2. ~eu.Piped
    BY <1>1, <1>2, <1>11, <2>1 DEF WholeInv
  <2>3. PromptInv /\ Chain = {}
    BY <1>1, <1>11, <2>2, BetweenPipelines
  <2>4. Chain' = Chain
    BY <1>1 DEF Chain, Is
  <2> QED
    BY <1>1, <1>4, <2>2, <2>3, <2>4 DEF WholeInv, PromptInv
<1> QED
  BY <1>1, <1>5, <1>6, <1>7, <1>8, <1>9, <1>10, <1>11 DEF DlshInv, Busy

\* The program of Run, that can be started or not.
LEMMA StartFacts ==
  ASSUME DlshInv, sh = "next", cur <= Len(ins), Start
  PROVE  /\ Started' = Started \cup {cur} /\ Unreaped' = Unreaped \cup {cur}
         /\ programs' \in [Started' -> {"running", "stopped", "ended", "reaped"}]
         /\ cur \notin Started
<1>1. programs \in [Started -> {"running", "stopped", "ended", "reaped"}]
  BY DEF DlshInv, TypeInv
<1>2. cur \notin Started
  BY BusyFacts DEF StepInv, Executed
<1>3. programs' = [p \in Started \cup {cur} |-> IF p = cur THEN "running" ELSE programs[p]]
  BY DEF Start
<1>4. Started' = Started \cup {cur}
  BY <1>3 DEF Started
<1>5. programs' \in [Started' -> {"running", "stopped", "ended", "reaped"}]
  BY <1>1, <1>3, <1>4
<1>6. programs'[cur] = "running" /\ \A p \in Started : programs'[p] = programs[p]
  BY <1>2, <1>3
<1>7. Unreaped' = Unreaped \cup {cur}
  BY <1>4, <1>6 DEF Unreaped
<1> QED
  BY <1>2, <1>4, <1>5, <1>7
-----------------------------------------------------------------------------
(* Programs are started.                                                   *)

\* An instruction gets a file to read from, or to write to.
WithFile(s, c, r) == [s EXCEPT ![c].R = r]

\* What becomes of the instructions.
LEMMA FileR ==
  ASSUME NEW s \in Seq(Instr), NEW c \in 1 .. Len(s), NEW r \in Int
  PROVE  \A t : t = WithFile(s, c, r) =>
             /\ t \in Seq(Instr) /\ Len(t) = Len(s)
             /\ \A i \in 1 .. Len(s) : t[i].InsType = s[i].InsType /\ t[i].Cmd = s[i].Cmd
             /\ \A i \in 1 .. Len(s) : i # c => t[i] = s[i]
             /\ t[c].R = r /\ t[c].W = s[c].W
<1>1. ASSUME NEW t, t = WithFile(s, c, r)
      PROVE  /\ t \in Seq(Instr) /\ Len(t) = Len(s)
             /\ \A i \in 1 .. Len(s) : t[i].InsType = s[i].InsType /\ t[i].Cmd = s[i].Cmd
             /\ \A i \in 1 .. Len(s) : i # c => t[i] = s[i]
             /\ t[c].R = r /\ t[c].W = s[c].W
  <2>1. PICK y : y = [s[c] EXCEPT !.R = r]
    OBVIOUS
  <2>2. s[c] \in Instr
    OBVIOUS
  <2>3. y \in Instr /\ y.InsType = s[c].InsType /\ y.Cmd = s[c].Cmd /\ y.R = r /\ y.W = s[c].W
    BY <2>1, <2>2, SetR
  <2>4. t = [s EXCEPT ![c] = y]
    BY <1>1, <2>1 DEF WithFile
  <2>5. t \in Seq(Instr) /\ Len(t) = Len(s) /\ t[c] = y /\ \A i \in 1 .. Len(s) : i # c => t[i] = s[i]
    BY <2>3, <2>4, Changed
  <2> QED
    BY <2>3, <2>5
<1> QED
  BY <1>1, Zenon

WithFiles(s, c, r, w) == [s EXCEPT ![c].R = r, ![c].W = w]

\* As FileR, with both files.
LEMMA FileRW ==
  ASSUME NEW s \in Seq(Instr), NEW c \in 1 .. Len(s), NEW r \in Int, NEW w \in Int
  PROVE  \A t : t = WithFiles(s, c, r, w) =>
             /\ t \in Seq(Instr) /\ Len(t) = Len(s)
             /\ \A i \in 1 .. Len(s) : t[i].InsType = s[i].InsType /\ t[i].Cmd = s[i].Cmd
             /\ \A i \in 1 .. Len(s) : i # c => t[i] = s[i]
             /\ t[c].R = r /\ t[c].W = w
<1>1. ASSUME NEW t, t = WithFiles(s, c, r, w)
      PROVE  /\ t \in Seq(Instr) /\ Len(t) = Len(s)
             /\ \A i \in 1 .. Len(s) : t[i].InsType = s[i].InsType /\ t[i].Cmd = s[i].Cmd
             /\ \A i \in 1 .. Len(s) : i # c => t[i] = s[i]
             /\ t[c].R = r /\ t[c].W = w
  <2>1. PICK z : z = [s[c] EXCEPT !.R = r]
    OBVIOUS
  <2>2. PICK y : y = [z EXCEPT !.W = w]
    OBVIOUS
  <2>3. s[c] \in Instr
    OBVIOUS
  <2>4. z \in Instr /\ z.InsType = s[c].InsType /\ z.Cmd = s[c].Cmd /\ z.R = r
    BY <2>1, <2>3, SetR
  <2>5. y \in Instr /\ y.InsType = z.InsType /\ y.Cmd = z.Cmd /\ y.R = z.R /\ y.W = w
    BY <2>2, <2>4, SetW
  <2>6. t = [s EXCEPT ![c] = y]
    BY <1>1, <2>1, <2>2 DEF WithFiles
  <2>7. t \in Seq(Instr) /\ Len(t) = Len(s) /\ t[c] = y /\ \A i \in 1 .. Len(s) : i # c => t[i] = s[i]
    BY <2>5, <2>6, Changed
  <2> QED
    BY <2>4, <2>5, <2>7
<1> QED
  BY <1>1, Zenon

\* Run preserves the invariant: the program is the only one.
LEMMA RunStep ==
  ASSUME DlshInv, Run, UNCHANGED <<lab, todo, entered>>
  PROVE  DlshInv'
<1>1. /\ sh = "next" /\ cur <= Len(ins) /\ ins[cur].InsType = "EXEC" /\ ~eu.Piped
      /\ Ins.InsType # "WAIT" /\ ins[cur].Cmd # "cd"
      /\ UNCHANGED <<ins, eu, foreground, ignoring, readEnds, writeEnds>>
  BY DEF Run, At, Ins
<1>2. /\ TypeInv /\ LineInv /\ HeldInv /\ StepInv /\ UnitInv /\ LoseInv /\ QueueInv
      /\ (Whole => WholeInv) /\ cur \in Nat /\ cur >= 1 /\ Len(ins) \in Nat
      /\ Started \subseteq 1 .. Len(ins) /\ Unreaped \subseteq Started
  BY <1>1, BusyFacts
<1>3. cur \in 1 .. Len(ins) /\ Unreaped = {} /\ ~Is(cur - 1, "PIPE") /\ eu.i = 1
  BY <1>1, <1>2 DEF UnitInv
<1>4. LineInv' /\ (Whole' <=> Whole)
  BY <1>1, <1>2, SameIns
<1>5. \/ /\ ins[cur].Cmd = "run" /\ sh' = "give" /\ cur' = cur
         /\ Started' = Started \cup {cur} /\ Unreaped' = {cur} /\ cur \notin Started
         /\ programs' \in [Started' -> {"running", "stopped", "ended", "reaped"}]
      \/ /\ sh' = "next" /\ cur' = cur + 1 /\ programs' = programs
         /\ Started' = Started /\ Unreaped' = Unreaped
  <2>1. CASE Startable
    <3>1. Start /\ sh' = "give" /\ cur' = cur /\ ins[cur].Cmd = "run"
      BY <2>1 DEF Run, Startable, Ins
    <3> QED
      BY <1>1, <1>3, <3>1, StartFacts
  <2>2. CASE ~Startable
    <3>1. sh' = "next" /\ cur' = cur + 1 /\ programs' = programs
      BY <2>2 DEF Run, NextInstruction
    <3> QED
      BY <3>1 DEF Started, Unreaped
  <2> QED
    BY <2>1, <2>2
<1>6. TypeInv' /\ HeldInv'
  <2>1. Started' \subseteq 1 .. Len(ins)
    BY <1>2, <1>3, <1>5
  <2>2. programs' \in [Started' -> {"running", "stopped", "ended", "reaped"}]
    BY <1>2, <1>5 DEF TypeInv
  <2>3. cur' \in Nat \ {0} /\ sh' \in {"next", "give"}
    BY <1>2, <1>5
  <2> QED
    BY <1>1, <1>2, <2>1, <2>2, <2>3 DEF TypeInv, HeldInv
<1>7. StepInv'
  <2>1. CASE sh' = "give"
    BY <1>1, <1>2, <1>3, <1>5, <2>1 DEF StepInv, Executed, Is
  <2>2. CASE sh' = "next"
    <3>1. cur' = cur + 1 /\ Started' = Started /\ Unreaped' = Unreaped
      BY <1>5, <2>2
    <3>2. \A i \in 1 .. Len(ins) : Executed(i)' <=> (Executed(i) \/ i = cur)
      BY <1>1, <1>2, <2>2, <3>1 DEF Executed
    <3>3. \A i \in 1 .. Len(ins) : Is(i, "PIPE") => i # cur
      BY <1>1 DEF Is
    <3> QED
      BY <1>1, <1>2, <1>3, <2>2, <3>1, <3>2, <3>3 DEF StepInv, Is
  <2> QED
    BY <1>5, <2>1, <2>2
<1>8. UnitInv'
  <2>1. ~Is(cur, "PIPE")
    BY <1>1 DEF Is
  <2>2. CASE sh' = "give"
    <3>1. ~Is(cur, "PIPE")'
      BY <1>1, <1>5, <2>1, <2>2 DEF Is
    <3> QED
      BY <1>1, <1>2, <1>5, <2>2, <3>1 DEF UnitInv
  <2>3. CASE sh' = "next"
    <3>1. ~Is(cur - 1, "PIPE")'
      BY <1>1, <1>2, <1>5, <2>1, <2>3 DEF Is
    <3> QED
      BY <1>1, <1>2, <1>3, <1>5, <2>3, <3>1 DEF UnitInv
  <2> QED
    BY <1>5, <2>2, <2>3
<1>9. LoseInv'
  <2> SUFFICES ASSUME NEW i \in 2 .. Len(ins), i < cur', Is(i - 1, "PIPE"), Is(i, "EXEC"),
                      ins[i].Cmd = "cd", ins[i].R = 0, 0 \in readEnds
               PROVE  FALSE
    BY <1>1 DEF LoseInv, Is
  <2>1. i < cur
    BY <1>1, <1>2, <1>5
  <2> QED
    BY <1>1, <2>1, NothingToLose
<1>10. QueueInv'
  BY <1>1, <1>2, <1>3, <1>5 DEF QueueInv
<1>11. ASSUME Whole
       PROVE  WholeInv'
  <2>1. PromptInv
    BY <1>1, <1>11, BetweenPipelines
  <2>2. ASSUME NEW j, j \in Chain'
        PROVE  FALSE
    <3>1. PICK e \in {cur - 1, cur} :
              j \in Nat /\ j <= e /\ (\A k \in j .. e : Is(k, "PIPE"))
      BY <1>1, <1>2, <1>5, <2>2 DEF Chain, Is
    <3>2. e \in j .. e
      BY <1>2, <3>1
    <3>3. Is(e, "PIPE")
      BY <3>1, <3>2
    <3> QED
      BY <1>1, <1>3, <3>3 DEF Is
  <2> QED
    BY <1>1, <1>5, <2>1, <2>2 DEF WholeInv, PromptInv
<1>12. sh' \in {"next", "give"}
  BY <1>5
<1> QED
  BY <1>4, <1>6, <1>7, <1>8, <1>9, <1>10, <1>11, <1>12 DEF DlshInv, Busy

\* Setting the files of an instruction leaves the line what it was.
LEMMA LineKept ==
  ASSUME DlshInv, sh = "next", cur <= Len(ins), entered' = entered, ins' \in Seq(Instr), Len(ins') = Len(ins),
         \A i \in 1 .. Len(ins) : ins'[i].InsType = ins[i].InsType /\ ins'[i].Cmd = ins[i].Cmd
  PROVE  LineInv' /\ (Whole' <=> Whole) /\ \A i, t : Is(i, t)' <=> Is(i, t)
<1>1. TypeInv /\ LineInv /\ Len(ins) \in Nat /\ cur \in Nat /\ cur >= 1
  BY BusyFacts
<1>2. ins # <<>> /\ ins' # <<>>
  BY <1>1
<1>3. LineInv'
  BY <1>1, <1>2, SameLine
<1>4. Whole' <=> Whole
  BY <1>1, StillWhole
<1>5. \A i, t : Is(i, t)' <=> Is(i, t)
  BY DEF Is
<1> QED
  BY <1>3, <1>4, <1>5

\* ExecPipe preserves the invariant: it adds a pipe to the chain.
LEMMA ExecPipeStep ==
  ASSUME DlshInv, ExecPipe, UNCHANGED <<lab, todo, entered>>
  PROVE  DlshInv'
<1>1. /\ sh = "next" /\ cur <= Len(ins) /\ ins[cur].InsType = "PIPE"
      /\ ins' = [ins EXCEPT ![cur].R = eu.R, ![cur].W = cur]
      /\ eu' = [eu EXCEPT !.Piped = TRUE, !.R = cur]
      /\ readEnds' = readEnds \cup {cur} /\ writeEnds' = writeEnds \cup {cur}
      /\ UNCHANGED <<foreground, ignoring>>
  BY DEF ExecPipe, At, Ins
<1>2. /\ TypeInv /\ LineInv /\ HeldInv /\ StepInv /\ UnitInv /\ LoseInv /\ QueueInv
      /\ (Whole => WholeInv) /\ cur \in Nat /\ cur >= 1 /\ Len(ins) \in Nat
      /\ Started \subseteq 1 .. Len(ins) /\ Unreaped \subseteq Started
      /\ ins \in Seq(Instr) /\ eu.R \in Nat
      /\ eu \in [Piped : BOOLEAN, R : Nat, QPid : Seq(Nat), i : Nat \ {0}]
  BY <1>1, BusyFacts
<1>3. cur \in 1 .. Len(ins) /\ Is(cur, "PIPE") /\ eu.i = 1 /\ Ins.InsType # "WAIT" /\ Ins = ins[cur]
  BY <1>1, <1>2 DEF UnitInv, Is, Ins
<1>4. /\ ins' \in Seq(Instr) /\ Len(ins') = Len(ins)
      /\ \A i \in 1 .. Len(ins) : ins'[i].InsType = ins[i].InsType /\ ins'[i].Cmd = ins[i].Cmd
      /\ \A i \in 1 .. Len(ins) : i # cur => ins'[i] = ins[i]
      /\ ins'[cur].R = eu.R /\ ins'[cur].W = cur
  <2>1. eu.R \in Int /\ cur \in Int
    BY <1>2
  <2>2. ins' = WithFiles(ins, cur, eu.R, cur)
    BY <1>1 DEF WithFiles
  <2> QED
    BY <1>2, <1>3, <2>1, <2>2, FileRW
<1>5. /\ eu'.Piped = TRUE /\ eu'.R = cur /\ eu'.QPid = eu.QPid /\ eu'.i = 1
      /\ eu' \in [Piped : BOOLEAN, R : Nat, QPid : Seq(Nat), i : Nat \ {0}]
  BY <1>1, <1>2, <1>3
<1>6. LineInv' /\ (Whole' <=> Whole) /\ \A i, t : Is(i, t)' <=> Is(i, t)
  BY <1>1, <1>4, LineKept
<1>7. \/ /\ ins[cur].Cmd = "cd" /\ sh' = "next" /\ cur' = cur + 1 /\ programs' = programs
         /\ Started' = Started /\ Unreaped' = Unreaped
      \/ /\ ins[cur].Cmd = "run" /\ sh' = "give" /\ cur' = cur
         /\ Started' = Started \cup {cur} /\ Unreaped' = Unreaped \cup {cur} /\ cur \notin Started
         /\ programs' \in [Started' -> {"running", "stopped", "ended", "reaped"}]
      \/ /\ ins[cur].Cmd \notin {"cd", "run"} /\ sh' = "prompt" /\ cur' = cur /\ programs' = programs
         /\ Started' = Started /\ Unreaped' = Unreaped
  <2>1. CASE Ins.Cmd = "cd"
    <3>1. sh' = "next" /\ cur' = cur + 1 /\ programs' = programs
      BY <2>1 DEF ExecPipe, NextInstruction
    <3> QED
      BY <1>3, <2>1, <3>1 DEF Started, Unreaped
  <2>2. CASE Ins.Cmd # "cd" /\ Startable
    <3>1. Start /\ sh' = "give" /\ cur' = cur /\ ins[cur].Cmd = "run"
      BY <1>3, <2>2 DEF ExecPipe, Startable
    <3> QED
      BY <1>1, <3>1, StartFacts
  <2>3. CASE Ins.Cmd # "cd" /\ ~Startable
    <3>1. sh' = "prompt" /\ cur' = cur /\ programs' = programs /\ ins[cur].Cmd \notin {"cd", "run"}
      BY <1>3, <2>3 DEF ExecPipe, Prompts, Startable
    <3> QED
      BY <3>1 DEF Started, Unreaped
  <2> QED
    BY <2>1, <2>2, <2>3
<1>8. TypeInv' /\ HeldInv'
  <2>1. Started' \subseteq 1 .. Len(ins)
    BY <1>2, <1>3, <1>7
  <2>2. programs' \in [Started' -> {"running", "stopped", "ended", "reaped"}]
    BY <1>2, <1>7 DEF TypeInv
  <2>3. cur' \in Nat \ {0} /\ sh' \in {"next", "give", "prompt"}
    BY <1>2, <1>7
  <2> QED
    BY <1>1, <1>2, <1>4, <1>5, <2>1, <2>2, <2>3 DEF TypeInv, HeldInv
<1>9. CASE sh' = "prompt"
  <2>1. ~Whole
    <3>1. DOMAIN ins = 1 .. Len(ins)
      BY <1>2
    <3>2. Whole => ins[cur].Cmd \in {"run", "cd"}
      BY <1>1, <1>3, <3>1, Zenon DEF Whole
    <3> QED
      BY <1>7, <1>9, <3>2
  <2> QED
    BY <1>6, <1>8, <1>9, <2>1 DEF DlshInv, Busy
<1>10. CASE sh' \in {"next", "give"}
  <2>1. \A i \in 1 .. Len(ins) : Executed(i)' <=> (Executed(i) \/ i = cur)
    BY <1>1, <1>2, <1>7, <1>10 DEF Executed
  <2>2. ~Executed(cur)
    BY <1>1, <1>2 DEF Executed
  <2>3. StepInv'
    <3>1. sh' # "next" => cur' <= Len(ins')
      BY <1>1, <1>4, <1>7, <1>10
    <3>2. \A p \in Started' : Executed(p)' /\ ins'[p].Cmd = "run"
      <4> SUFFICES ASSUME NEW p \in Started'
                   PROVE  Executed(p)' /\ ins'[p].Cmd = "run"
        OBVIOUS
      <4>1. CASE p \in Started
        BY <1>2, <1>4, <2>1, <4>1 DEF StepInv
      <4>2. CASE p \notin Started
        <5>1. p = cur /\ ins[cur].Cmd = "run"
          BY <1>7, <4>2
        <5> QED
          BY <1>3, <1>4, <2>1, <5>1
      <4> QED
        BY <4>1, <4>2
    <3>3. (sh \in {"give", "wait"} => cur \in Unreaped)' /\ sh' \notin {"wait", "drain"}
      BY <1>7, <1>10
    <3>4. \A i \in 1 .. Len(ins) : ~Executed(i)' => ins'[i].R <= 0
      BY <1>2, <1>4, <2>1 DEF StepInv
    <3>5. \A i \in 1 .. Len(ins) : Executed(i)' /\ Is(i, "PIPE") => ins'[i].W = i
      BY <1>2, <1>4, <2>1 DEF StepInv
    <3>6. ASSUME NEW i \in 2 .. Len(ins), Is(i - 1, "PIPE"),
                 i \in Started' \/ (Executed(i)' /\ Is(i, "PIPE"))
          PROVE  ins'[i].R = i - 1
      <4>1. CASE i = cur
        BY <1>1, <1>2, <1>4, <3>6, <4>1 DEF UnitInv
      <4>2. CASE i # cur
        <5>1. i \in Started \/ (Executed(i) /\ Is(i, "PIPE"))
          BY <1>2, <1>7, <2>1, <3>6, <4>2
        <5>2. i \in 1 .. Len(ins)
          OBVIOUS
        <5> QED
          BY <1>2, <1>4, <3>6, <4>2, <5>1, <5>2 DEF StepInv
      <4> QED
        BY <4>1, <4>2
    <3> QED
      BY <1>4, <1>6, <3>1, <3>2, <3>3, <3>4, <3>5, <3>6 DEF StepInv
  <2>4. UnitInv'
    <3>1. CASE sh' = "next"
      BY <1>2, <1>5, <1>7, <3>1 DEF UnitInv
    <3>2. CASE sh' = "give"
      BY <1>2, <1>3, <1>5, <1>6, <1>7, <3>2 DEF UnitInv
    <3> QED
      BY <1>10, <3>1, <3>2
  <2>5. LoseInv'
    <3> SUFFICES ASSUME NEW i \in 2 .. Len(ins), i < cur', Is(i - 1, "PIPE"), Is(i, "EXEC"),
                        ins[i].Cmd = "cd", ins'[i].R = 0, 0 \in readEnds'
                 PROVE  FALSE
      BY <1>4, <1>6 DEF LoseInv
    <3>1. 0 \in readEnds /\ i # cur /\ i < cur
      BY <1>1, <1>2, <1>7 DEF Is
    <3>2. ins[i].R = 0
      BY <1>4, <3>1
    <3> QED
      BY <1>1, <1>3, <3>1, <3>2, NothingToLose
  <2>6. QueueInv'
    <3>1. \A p \in 1 .. Len(ins) : (p \in Unreaped /\ (sh = "give" => p # cur))
                                   <=> (p \in Unreaped' /\ (sh' = "give" => p # cur'))
      BY <1>1, <1>2, <1>7, <1>10
    <3>2. 0 \in readEnds' <=> 0 \in readEnds
      BY <1>1, <1>2
    <3> QED
      BY <1>1, <1>2, <1>4, <1>5, <3>1, <3>2 DEF QueueInv
  <2>7. ASSUME Whole
        PROVE  WholeInv'
    <3>1. Chain' = Chain \cup {cur}
      <4>1. Chain = {j \in 1 .. Len(ins) : j <= cur - 1 /\ \A k \in j .. cur - 1 : Is(k, "PIPE")}
        BY <1>1 DEF Chain
      <4>2. Chain' = {j \in 1 .. Len(ins) : j <= cur /\ \A k \in j .. cur : Is(k, "PIPE")}
        <5>1. CASE sh' = "next"
          <6>1. cur' - 1 = cur
            BY <1>2, <1>7, <5>1
          <6> QED
            BY <1>4, <1>6, <5>1, <6>1 DEF Chain
        <5>2. CASE sh' = "give"
          <6>1. cur' = cur
            BY <1>7, <5>2
          <6> QED
            BY <1>3, <1>4, <1>6, <5>2, <6>1 DEF Chain
        <5> QED
          BY <1>10, <5>1, <5>2
      <4>3. ASSUME NEW j \in 1 .. Len(ins)
            PROVE  (j <= cur /\ \A k \in j .. cur : Is(k, "PIPE")) <=>
                   ((j <= cur - 1 /\ \A k \in j .. cur - 1 : Is(k, "PIPE")) \/ j = cur)
        <5>1. cur \in Nat /\ j \in Nat /\ Is(cur, "PIPE")
          BY <1>2, <1>3
        <5>2. j <= cur => j .. cur = (j .. cur - 1) \cup {cur}
          BY <5>1
        <5>3. (j <= cur <=> j <= cur - 1 \/ j = cur) /\ (j = cur => j .. cur - 1 = {})
          BY <5>1
        <5> QED
          BY <5>1, <5>2, <5>3
      <4> QED
        BY <1>3, <4>1, <4>2, <4>3
    <3>2. eu.i = 1 /\ eu'.i = 1 /\ \A j \in Chain' : j \in Nat /\ j >= 1
      BY <1>3, <1>5 DEF Chain
    <3>3. Chain \subseteq Chain' /\ cur \in Chain'
      BY <3>1
    <3>4. readEnds' = {0} \cup {j \in Chain' : j >= eu'.i - 1}
      <4>1. readEnds = {0} \cup Chain
        <5>1. readEnds = {0} \cup {j \in Chain : j >= eu.i - 1}
          BY <1>2, <2>7 DEF WholeInv
        <5>2. \A j \in Chain : j >= eu.i - 1
          BY <3>2, <3>3
        <5> QED
          BY <5>1, <5>2
      <4> QED
        BY <1>1, <3>1, <3>2, <4>1
    <3>5. writeEnds' = {0} \cup {j \in Chain' : j >= eu'.i}
      <4>1. writeEnds = {0} \cup Chain
        <5>1. writeEnds = {0} \cup {j \in Chain : j >= 1}
          BY <1>2, <2>7, <3>2 DEF WholeInv
        <5> QED
          BY <3>2, <3>3, <5>1
      <4> QED
        BY <1>1, <3>1, <3>2, <4>1
    <3>6. \A j \in Chain' : j \in Unreaped' \/ ins'[j].Cmd = "cd"
      <4>1. \A j \in Chain : j \in Unreaped \/ ins[j].Cmd = "cd"
        <5>1. \A j \in Chain : j >= 1
          BY <3>2, <3>3
        <5>2. \A j \in Chain : j >= 1 => j \in Unreaped \/ ins[j].Cmd = "cd"
          BY <1>2, <2>7, <3>2 DEF WholeInv
        <5> QED
          BY <5>1, <5>2
      <4>2. \A j \in Chain : j \in 1 .. Len(ins)
        BY DEF Chain
      <4> QED
        BY <1>3, <1>4, <1>7, <1>10, <3>1, <4>1, <4>2
    <3>7. sh' = "next" => Is(cur - 1, "PIPE")'
      BY <1>2, <1>3, <1>6, <1>7
    <3> QED
      BY <1>10, <3>4, <3>5, <3>6, <3>7 DEF WholeInv
  <2> QED
    BY <1>6, <1>8, <1>10, <2>3, <2>4, <2>5, <2>6, <2>7 DEF DlshInv, Busy
<1> QED
  BY <1>7, <1>9, <1>10

\* DrainExec preserves the invariant: the chain is read to its end.
LEMMA DrainExecStep ==
  ASSUME DlshInv, DrainExec, UNCHANGED <<lab, todo, entered>>
  PROVE  DlshInv'
<1>1. /\ sh = "next" /\ cur <= Len(ins) /\ ins[cur].InsType = "EXEC" /\ eu.Piped /\ ins[cur].Cmd # "cd"
      /\ ins' = [ins EXCEPT ![cur].R = eu.R]
      /\ eu' = [eu EXCEPT !.Piped = FALSE, !.R = 0]
      /\ UNCHANGED <<foreground, ignoring, readEnds, writeEnds>>
  BY DEF DrainExec, At, Ins
<1>2. /\ TypeInv /\ LineInv /\ HeldInv /\ StepInv /\ UnitInv /\ LoseInv /\ QueueInv
      /\ (Whole => WholeInv) /\ cur \in Nat /\ cur >= 1 /\ Len(ins) \in Nat
      /\ Started \subseteq 1 .. Len(ins) /\ Unreaped \subseteq Started
      /\ ins \in Seq(Instr) /\ eu.R \in Nat
      /\ eu \in [Piped : BOOLEAN, R : Nat, QPid : Seq(Nat), i : Nat \ {0}]
  BY <1>1, BusyFacts
<1>3. /\ cur \in 1 .. Len(ins) /\ ~Is(cur, "PIPE") /\ eu.i = 1 /\ eu.R > 0
      /\ Ins.InsType # "WAIT" /\ Ins = ins[cur]
  BY <1>1, <1>2 DEF UnitInv, Is, Ins
<1>4. /\ ins' \in Seq(Instr) /\ Len(ins') = Len(ins)
      /\ \A i \in 1 .. Len(ins) : ins'[i].InsType = ins[i].InsType /\ ins'[i].Cmd = ins[i].Cmd
      /\ \A i \in 1 .. Len(ins) : i # cur => ins'[i] = ins[i]
      /\ ins'[cur].R = eu.R /\ ins'[cur].W = ins[cur].W
  <2>1. eu.R \in Int
    BY <1>2
  <2>2. ins' = WithFile(ins, cur, eu.R)
    BY <1>1 DEF WithFile
  <2>3. ins \in Seq(Instr) /\ cur \in 1 .. Len(ins)
    BY <1>2, <1>3
  <2> QED
    BY <2>1, <2>2, <2>3, FileR
<1>5. /\ eu'.Piped = FALSE /\ eu'.R = 0 /\ eu'.QPid = eu.QPid /\ eu'.i = 1
      /\ eu' \in [Piped : BOOLEAN, R : Nat, QPid : Seq(Nat), i : Nat \ {0}]
  BY <1>1, <1>2, <1>3
<1>6. LineInv' /\ (Whole' <=> Whole) /\ \A i, t : Is(i, t)' <=> Is(i, t)
  BY <1>1, <1>4, LineKept
<1>7. \/ /\ ins[cur].Cmd = "run" /\ sh' = "give" /\ cur' = cur
         /\ Started' = Started \cup {cur} /\ Unreaped' = Unreaped \cup {cur} /\ cur \notin Started
         /\ programs' \in [Started' -> {"running", "stopped", "ended", "reaped"}]
      \/ /\ ins[cur].Cmd # "run" /\ sh' = "prompt" /\ cur' = cur /\ programs' = programs
         /\ Started' = Started /\ Unreaped' = Unreaped
  <2>1. CASE Startable
    <3>1. Start /\ sh' = "give" /\ cur' = cur /\ ins[cur].Cmd = "run"
      BY <1>3, <2>1 DEF DrainExec, Startable
    <3> QED
      BY <1>1, <3>1, StartFacts
  <2>2. CASE ~Startable
    <3>1. sh' = "prompt" /\ cur' = cur /\ programs' = programs /\ ins[cur].Cmd # "run"
      BY <1>3, <2>2 DEF DrainExec, Prompts, Startable
    <3> QED
      BY <3>1 DEF Started, Unreaped
  <2> QED
    BY <2>1, <2>2
<1>8. TypeInv' /\ HeldInv'
  <2>1. Started' \subseteq 1 .. Len(ins)
    BY <1>2, <1>3, <1>7
  <2>2. programs' \in [Started' -> {"running", "stopped", "ended", "reaped"}]
    BY <1>2, <1>7 DEF TypeInv
  <2>3. cur' \in Nat \ {0} /\ sh' \in {"give", "prompt"}
    BY <1>2, <1>7
  <2> QED
    BY <1>1, <1>2, <1>4, <1>5, <2>1, <2>2, <2>3 DEF TypeInv, HeldInv
<1>9. ASSUME Whole
      PROVE  Is(cur - 1, "PIPE") /\ ins[cur].Cmd = "run"
  <2>1. Is(cur - 1, "PIPE")
    BY <1>1, <1>2, <1>9 DEF WholeInv
  <2> QED
    BY <1>1, <1>3, <1>9, <2>1, AfterPipe
<1>10. CASE sh' = "prompt"
  <2>1. ~Whole
    BY <1>7, <1>9, <1>10
  <2> QED
    BY <1>6, <1>8, <1>10, <2>1 DEF DlshInv, Busy
<1>11. CASE sh' = "give"
  <2>1. /\ \A i \in 1 .. Len(ins) : Executed(i)' <=> (Executed(i) \/ i = cur)
        /\ \A i \in 1 .. Len(ins) : Is(i, "PIPE") => i # cur
        /\ cur' = cur /\ Started' = Started \cup {cur} /\ Unreaped' = Unreaped \cup {cur}
        /\ ins[cur].Cmd = "run"
    BY <1>1, <1>2, <1>3, <1>7, <1>11 DEF Executed
  <2>2. StepInv'
    <3>2. \A p \in Started' : Executed(p)' /\ ins'[p].Cmd = "run"
      <4> SUFFICES ASSUME NEW p \in Started'
                   PROVE  Executed(p)' /\ ins'[p].Cmd = "run"
        OBVIOUS
      <4>1. CASE p \in Started
        BY <1>2, <1>4, <2>1, <4>1 DEF StepInv
      <4>2. CASE p \notin Started
        <5>1. p = cur /\ ins[cur].Cmd = "run"
          BY <2>1, <4>2
        <5> QED
          BY <1>3, <1>4, <2>1, <5>1
      <4> QED
        BY <4>1, <4>2
    <3>4. \A i \in 1 .. Len(ins) : ~Executed(i)' => ins'[i].R <= 0
      BY <1>2, <1>4, <2>1 DEF StepInv
    <3>5. \A i \in 1 .. Len(ins) : Executed(i)' /\ Is(i, "PIPE") => ins'[i].W = i
      BY <1>2, <1>4, <2>1 DEF StepInv
    <3>6. ASSUME NEW i \in 2 .. Len(ins), Is(i - 1, "PIPE"),
                 i \in Started' \/ (Executed(i)' /\ Is(i, "PIPE"))
          PROVE  ins'[i].R = i - 1
      <4>1. CASE i = cur
        BY <1>1, <1>2, <1>4, <3>6, <4>1 DEF UnitInv
      <4>2. CASE i # cur
        <5>1. i \in Started \/ (Executed(i) /\ Is(i, "PIPE"))
          BY <1>2, <2>1, <3>6, <4>2
        <5>2. i \in 1 .. Len(ins)
          OBVIOUS
        <5> QED
          BY <1>2, <1>4, <3>6, <4>2, <5>1, <5>2 DEF StepInv
      <4> QED
        BY <4>1, <4>2
    <3>7. cur' <= Len(ins') /\ cur' \in Unreaped' /\ sh' \notin {"wait", "drain"}
      BY <1>1, <1>4, <1>11, <2>1
    <3> QED
      BY <1>4, <1>6, <3>2, <3>4, <3>5, <3>6, <3>7 DEF StepInv
  <2>3. UnitInv'
    BY <1>3, <1>4, <1>5, <1>6, <1>11, <2>1 DEF UnitInv
  <2>4. LoseInv'
    <3> SUFFICES ASSUME NEW i \in 2 .. Len(ins), i < cur, Is(i - 1, "PIPE"), Is(i, "EXEC"),
                        ins[i].Cmd = "cd", ins'[i].R = 0, 0 \in readEnds
                 PROVE  FALSE
      BY <1>1, <1>4, <1>6, <2>1 DEF LoseInv
    <3>1. ins[i].R = 0
      BY <1>2, <1>4
    <3> QED
      BY <1>1, <1>3, <3>1, NothingToLose
  <2>5. QueueInv'
    <3>1. \A p \in 1 .. Len(ins) : (p \in Unreaped /\ (sh = "give" => p # cur))
                                   <=> (p \in Unreaped' /\ (sh' = "give" => p # cur'))
      BY <1>1, <1>2, <1>7, <1>11
    <3> QED
      BY <1>1, <1>2, <1>4, <1>5, <3>1 DEF QueueInv
  <2>6. ASSUME Whole
        PROVE  WholeInv'
    <3>1. Chain' = Chain
      BY <1>1, <1>3, <1>4, <1>6, <1>11, <2>1 DEF Chain
    <3>2. \A j \in Chain : j \in 1 .. Len(ins) /\ ins'[j].Cmd = ins[j].Cmd
      BY <1>4 DEF Chain
    <3> QED
      BY <1>1, <1>2, <1>3, <1>5, <1>11, <2>1, <2>6, <3>1, <3>2 DEF WholeInv
  <2> QED
    BY <1>6, <1>8, <1>11, <2>2, <2>3, <2>4, <2>5, <2>6 DEF DlshInv, Busy
<1> QED
  BY <1>7, <1>10, <1>11
-----------------------------------------------------------------------------
(* The terminal is handed on.                                              *)

\* The program that was started first, of those not waited for, has the terminal.
LEMMA OwnerIsLeast ==
  ASSUME DlshInv, sh \in {"next", "wait", "drain"}, 0 \in readEnds,
         NEW p \in Unreaped, \A q \in Unreaped : q >= p
  PROVE  foreground = p
<1>1. /\ QueueInv /\ Unreaped \subseteq 1 .. Len(ins) /\ Len(ins) \in Nat /\ foreground \in Nat
      /\ Len(eu.QPid) \in Nat /\ eu.QPid \in Seq(Nat)
  BY BusyFacts
<1>2. p = foreground \/ \E a \in 1 .. Len(eu.QPid) : p = eu.QPid[a]
  BY <1>1 DEF QueueInv
<1>3. ASSUME NEW a \in 1 .. Len(eu.QPid), p = eu.QPid[a]
      PROVE  FALSE
  <2>1. foreground # 0
    BY <1>1, <1>3 DEF QueueInv
  <2>2. foreground < p
    BY <1>1, <1>3 DEF QueueInv
  <2>3. foreground \in 1 .. Len(ins)
    BY <1>1, <2>1 DEF QueueInv
  <2>4. foreground \in Unreaped
    BY <1>1, <2>3 DEF QueueInv
  <2>5. p \in Nat
    BY <1>1
  <2> QED
    BY <1>1, <2>2, <2>4, <2>5
<1> QED
  BY <1>2, <1>3

\* Nobody owns the terminal, or waits for it, if every program was waited for.
LEMMA NoOwner ==
  ASSUME DlshInv, sh \in {"next", "give", "wait", "drain"}, 0 \in readEnds,
         \A p \in Unreaped : sh = "give" /\ p = cur
  PROVE  foreground = 0 /\ eu.QPid = <<>>
<1>1. QueueInv /\ Len(ins) \in Nat /\ foreground \in Nat
  BY BusyFacts
<1>2. foreground # 0 => foreground \in 1 .. Len(ins)
  BY <1>1 DEF QueueInv
<1>3. foreground = 0
  BY <1>1, <1>2 DEF QueueInv
<1> QED
  BY <1>1, <1>3 DEF QueueInv

\* Give preserves the invariant: the program gets the terminal, or queues for it.
LEMMA GiveStep ==
  ASSUME DlshInv, Give, UNCHANGED <<lab, todo, entered>>
  PROVE  DlshInv'
<1>1. sh = "give" /\ UNCHANGED <<ins, programs, readEnds, writeEnds>>
  BY DEF Give, At
<1>2. /\ TypeInv /\ LineInv /\ HeldInv /\ StepInv /\ UnitInv /\ LoseInv /\ QueueInv
      /\ (Whole => WholeInv) /\ cur \in Nat /\ cur >= 1 /\ Len(ins) \in Nat
      /\ Started \subseteq 1 .. Len(ins) /\ Unreaped \subseteq Started
      /\ ins \in Seq(Instr) /\ foreground \in Nat /\ eu.QPid \in Seq(Nat) /\ Len(eu.QPid) \in Nat
      /\ eu \in [Piped : BOOLEAN, R : Nat, QPid : Seq(Nat), i : Nat \ {0}]
      /\ \A i \in 1 .. Len(ins) : ins[i] \in Instr /\ ins[i].R \in Int /\ ins[i].W \in Int
  BY <1>1, BusyFacts
<1>3. /\ cur \in 1 .. Len(ins) /\ eu.i = 1 /\ cur \in Unreaped /\ Ins = ins[cur]
      /\ Is(cur, "PIPE") <=> Ins.InsType = "PIPE"
  BY <1>1, <1>2 DEF UnitInv, StepInv, Is, Ins
<1>4. Started' = Started /\ Unreaped' = Unreaped
  BY <1>1 DEF Started, Unreaped
<1>5. LineInv' /\ (Whole' <=> Whole) /\ \A i, t : Is(i, t)' <=> Is(i, t)
  BY <1>1, <1>2, SameIns DEF Is
<1>6. \/ /\ Is(cur, "PIPE") /\ sh' = "next" /\ cur' = cur + 1
      \/ /\ ~Is(cur, "PIPE") /\ Ins.R > 0 /\ sh' = "drain" /\ cur' = cur
      \/ /\ ~Is(cur, "PIPE") /\ ~(Ins.R > 0) /\ sh' = "wait" /\ cur' = cur
  BY <1>3 DEF Give, Piping, NextInstruction
<1>7. ASSUME foreground = 0 \/ ~Piping
      PROVE  /\ HeldInv' /\ QueueInv' /\ foreground' \in Nat
             /\ eu'.Piped = eu.Piped /\ eu'.R = eu.R /\ eu'.i = eu.i
             /\ eu' \in [Piped : BOOLEAN, R : Nat, QPid : Seq(Nat), i : Nat \ {0}]
  <2>1. foreground = 0
    <3>1. CASE 0 \notin readEnds
      BY <1>2, <3>1 DEF HeldInv
    <3>2. CASE 0 \in readEnds /\ ~Piping
      <4>1. ~Is(cur, "PIPE") /\ ~(ins[cur].R > 0)
        BY <1>3, <3>2 DEF Piping
      <4>2. Unreaped = {cur}
        BY <1>1, <1>2, <4>1 DEF UnitInv
      <4> QED
        BY <1>1, <3>2, <4>2, NoOwner
    <3> QED
      BY <1>7, <3>1, <3>2
  <2>2. eu' = eu /\ ignoring' = TRUE /\ foreground' = IF 0 \in readEnds THEN cur ELSE foreground
    BY <1>7 DEF Give, TcSetpgrp
  <2>3. HeldInv'
    BY <1>1, <2>1, <2>2 DEF HeldInv
  <2>4. QueueInv'
    <3>1. eu.QPid = <<>>
      BY <1>2, <2>1 DEF QueueInv
    <3>2. Len(eu.QPid) = 0
      BY <3>1
    <3>3. 0 \in readEnds => \A p \in 1 .. Len(ins) : p \in Unreaped => p = cur
      BY <1>1, <1>2, <2>1, <3>2 DEF QueueInv
    <3> QED
      BY <1>1, <1>2, <1>3, <1>4, <1>6, <2>1, <2>2, <3>1, <3>2, <3>3 DEF QueueInv
  <2>5. /\ foreground' \in Nat /\ eu'.Piped = eu.Piped /\ eu'.R = eu.R /\ eu'.i = eu.i
        /\ eu' \in [Piped : BOOLEAN, R : Nat, QPid : Seq(Nat), i : Nat \ {0}]
    BY <1>2, <2>2
  <2> QED
    BY <2>3, <2>4, <2>5
<1>8. ASSUME ~(foreground = 0 \/ ~Piping)
      PROVE  /\ HeldInv' /\ QueueInv' /\ foreground' \in Nat
             /\ eu'.Piped = eu.Piped /\ eu'.R = eu.R /\ eu'.i = eu.i
             /\ eu' \in [Piped : BOOLEAN, R : Nat, QPid : Seq(Nat), i : Nat \ {0}]
  <2>1. foreground # 0 /\ 0 \in readEnds /\ foreground' = foreground /\ ignoring' = ignoring
    BY <1>2, <1>8 DEF Give, HeldInv
  <2>2. eu' = [eu EXCEPT !.QPid = Append(eu.QPid, cur)]
    BY <1>8 DEF Give
  <2>3. PICK q : q = Append(eu.QPid, cur)
    OBVIOUS
  <2>4. /\ q \in Seq(Nat) /\ Len(q) = Len(eu.QPid) + 1 /\ q[Len(eu.QPid) + 1] = cur
        /\ \A a \in 1 .. Len(eu.QPid) : q[a] = eu.QPid[a]
    BY <1>2, <2>3, AppendProperties
  <2>5. /\ eu'.Piped = eu.Piped /\ eu'.R = eu.R /\ eu'.i = eu.i /\ eu'.QPid = q
        /\ eu' \in [Piped : BOOLEAN, R : Nat, QPid : Seq(Nat), i : Nat \ {0}]
    <3>1. eu' = [eu EXCEPT !.QPid = q] /\ q \in Seq(Nat)
      BY <2>2, <2>3, <2>4
    <3>2. eu \in [Piped : BOOLEAN, R : Nat, QPid : Seq(Nat), i : Nat \ {0}]
      BY <1>2
    <3> QED
      BY <3>1, <3>2
  <2>6. HeldInv'
    BY <1>1, <1>2, <2>1 DEF HeldInv
  <2>7. \A p \in Unreaped : p <= cur
    <3>1. \A p \in Started : Executed(p)
      BY <1>2 DEF StepInv
    <3>2. \A p \in Unreaped : p \in Started /\ p \in 1 .. Len(ins)
      BY <1>2
    <3>3. cur \in Nat /\ Len(ins) \in Nat
      BY <1>2
    <3> QED
      BY <3>1, <3>2, <3>3 DEF Executed
  <2>8. foreground < cur /\ \A a \in 1 .. Len(eu.QPid) : eu.QPid[a] < cur
    <3>1. foreground \in 1 .. Len(ins)
      BY <1>2, <2>1 DEF QueueInv
    <3>2. foreground \in Unreaped /\ foreground # cur
      BY <1>1, <1>2, <2>1, <3>1 DEF QueueInv
    <3>3. ASSUME NEW a \in 1 .. Len(eu.QPid)
          PROVE  eu.QPid[a] < cur
      <4>1. eu.QPid[a] \in 1 .. Len(ins)
        BY <1>2 DEF QueueInv
      <4>2. eu.QPid[a] \in Unreaped /\ eu.QPid[a] # cur
        BY <1>1, <1>2, <2>1, <4>1 DEF QueueInv
      <4> QED
        BY <1>2, <2>7, <4>1, <4>2
    <3> QED
      BY <1>2, <2>7, <3>1, <3>2, <3>3
  <2>9. QueueInv'
    <3>1. \A a \in 1 .. Len(q) : a \in 1 .. Len(eu.QPid) \/ a = Len(eu.QPid) + 1
      <4>1. PICK n \in Nat : n = Len(eu.QPid)
        BY <1>2
      <4>2. \A a \in 1 .. n + 1 : a \in 1 .. n \/ a = n + 1
        OBVIOUS
      <4> QED
        BY <2>4, <4>1, <4>2, Zenon
    <3>2. \A a \in 1 .. Len(q) : foreground < q[a] /\ q[a] <= Len(ins)
      <4> SUFFICES ASSUME NEW a \in 1 .. Len(q)
                   PROVE  foreground < q[a] /\ q[a] <= Len(ins)
        OBVIOUS
      <4>1. CASE a \in 1 .. Len(eu.QPid)
        <5>1. foreground < eu.QPid[a] /\ eu.QPid[a] <= Len(ins)
          BY <1>2, <4>1 DEF QueueInv
        <5>2. q[a] = eu.QPid[a]
          BY <2>4, <4>1, Zenon
        <5> QED
          BY <5>1, <5>2, Zenon
      <4>2. CASE a = Len(eu.QPid) + 1
        <5>1. q[a] = cur
          BY <2>4, <4>2, Zenon
        <5>2. foreground < cur /\ cur <= Len(ins)
          BY <1>3, <2>8
        <5> QED
          BY <5>1, <5>2, Zenon
      <4> QED
        BY <3>1, <4>1, <4>2, Zenon
    <3>3. \A a, b \in 1 .. Len(q) : a < b => q[a] < q[b]
      <4> SUFFICES ASSUME NEW a \in 1 .. Len(q), NEW b \in 1 .. Len(q), a < b
                   PROVE  q[a] < q[b]
        OBVIOUS
      <4>1. a \in 1 .. Len(eu.QPid) /\ q[a] = eu.QPid[a]
        <5>1. PICK n \in Nat : n = Len(eu.QPid)
          BY <1>2
        <5>2. a \in 1 .. n + 1 /\ b \in 1 .. n + 1 /\ a < b
          BY <2>4, <5>1
        <5>3. a \in 1 .. n
          BY <5>2
        <5> QED
          BY <2>4, <5>1, <5>3, Zenon
      <4>2. CASE b \in 1 .. Len(eu.QPid)
        <5>1. q[b] = eu.QPid[b]
          BY <2>4, <4>2, Zenon
        <5>2. eu.QPid[a] < eu.QPid[b]
          BY <1>2, <4>1, <4>2 DEF QueueInv
        <5> QED
          BY <4>1, <5>1, <5>2, Zenon
      <4>3. CASE b = Len(eu.QPid) + 1
        <5>1. q[b] = cur /\ eu.QPid[a] < cur
          BY <2>4, <2>8, <4>1, <4>3, Zenon
        <5> QED
          BY <4>1, <5>1, Zenon
      <4> QED
        BY <3>1, <4>2, <4>3, Zenon
    <3>4. ASSUME NEW p \in 1 .. Len(ins)
          PROVE  p \in Unreaped <=> (p = foreground \/ \E a \in 1 .. Len(q) : p = q[a])
      <4>1. (\E a \in 1 .. Len(q) : p = q[a]) <=> (p = cur \/ \E a \in 1 .. Len(eu.QPid) : p = eu.QPid[a])
        <5>1. Len(eu.QPid) + 1 \in 1 .. Len(q) /\ \A a \in 1 .. Len(eu.QPid) : a \in 1 .. Len(q)
          BY <1>2, <2>4
        <5> QED
          BY <2>4, <3>1, <5>1
      <4>2. (p \in Unreaped /\ p # cur) <=> (p = foreground \/ \E a \in 1 .. Len(eu.QPid) : p = eu.QPid[a])
        BY <1>1, <1>2, <2>1 DEF QueueInv
      <4> QED
        BY <1>3, <4>1, <4>2
    <3> QED
      BY <1>1, <1>2, <1>4, <1>6, <2>1, <2>5, <3>2, <3>3, <3>4 DEF QueueInv
  <2> QED
    BY <1>2, <2>1, <2>5, <2>6, <2>9
<1>9. /\ HeldInv' /\ QueueInv' /\ foreground' \in Nat
      /\ eu'.Piped = eu.Piped /\ eu'.R = eu.R /\ eu'.i = eu.i
      /\ eu' \in [Piped : BOOLEAN, R : Nat, QPid : Seq(Nat), i : Nat \ {0}]
  BY <1>7, <1>8
<1>10. TypeInv'
  <2>1. cur' \in Nat \ {0} /\ sh' \in {"next", "drain", "wait"}
    BY <1>2, <1>6
  <2> QED
    BY <1>1, <1>2, <1>4, <1>9, <2>1 DEF TypeInv
<1>11. StepInv'
  <2>1. \A i \in 1 .. Len(ins) : Executed(i)' <=> Executed(i)
    BY <1>1, <1>2, <1>6 DEF Executed
  <2>2. (sh' # "next" => cur' <= Len(ins)) /\ (sh' = "wait" => cur' \in Unreaped)
        /\ (sh' \in {"wait", "drain"} => ~Is(cur', "PIPE")) /\ sh' # "give"
    BY <1>3, <1>6
  <2> QED
    BY <1>1, <1>2, <1>4, <1>5, <2>1, <2>2 DEF StepInv, Is
<1>12. UnitInv'
  <2>1. CASE Is(cur, "PIPE")
    <3>1. sh' = "next" /\ cur' = cur + 1 /\ eu.Piped /\ eu.R = cur
      BY <1>1, <1>2, <1>6, <2>1 DEF UnitInv
    <3> QED
      BY <1>2, <1>3, <1>9, <3>1 DEF UnitInv
  <2>2. CASE ~Is(cur, "PIPE") /\ Ins.R > 0
    <3>1. sh' = "drain" /\ cur' = cur /\ ~eu.Piped /\ \A p \in Unreaped : p >= 1
      BY <1>1, <1>2, <1>6, <2>2 DEF UnitInv
    <3> QED
      BY <1>2, <1>3, <1>4, <1>9, <3>1 DEF UnitInv
  <2>3. CASE ~Is(cur, "PIPE") /\ ~(Ins.R > 0)
    <3>1. sh' = "wait" /\ cur' = cur /\ ~eu.Piped /\ Unreaped = {cur}
      BY <1>1, <1>2, <1>3, <1>6, <2>3 DEF UnitInv
    <3> QED
      BY <1>1, <1>2, <1>3, <1>4, <1>9, <2>3, <3>1 DEF UnitInv
  <2> QED
    BY <2>1, <2>2, <2>3
<1>13. LoseInv'
  <2> SUFFICES ASSUME NEW i \in 2 .. Len(ins), i < cur', Is(i - 1, "PIPE"), Is(i, "EXEC"),
                      ins[i].Cmd = "cd", ins[i].R = 0, 0 \in readEnds
               PROVE  FALSE
    BY <1>1, <1>5 DEF LoseInv
  <2>1. i # cur \/ ~Is(cur, "PIPE")
    BY DEF Is
  <2>2. i < cur
    BY <1>2, <1>6, <2>1
  <2> QED
    BY <1>1, <1>2, <2>2 DEF LoseInv
<1>14. ASSUME Whole
       PROVE  WholeInv'
  <2>1. Chain' = Chain
    <3>1. CASE Is(cur, "PIPE")
      <4>1. sh' = "next" /\ cur' - 1 = cur
        BY <1>2, <1>6, <3>1
      <4> QED
        BY <1>1, <1>5, <3>1, <4>1 DEF Chain
    <3>2. CASE ~Is(cur, "PIPE")
      <4>1. sh' # "give" /\ cur' = cur
        BY <1>6, <3>2
      <4> QED
        BY <1>1, <1>5, <3>2, <4>1 DEF Chain
    <3> QED
      BY <3>1, <3>2
  <2>2. sh' = "next" => Is(cur - 1, "PIPE")'
    BY <1>2, <1>5, <1>6
  <2>3. sh' = "drain" => ~eu'.Piped
    BY <1>1, <1>2, <1>6, <1>9 DEF UnitInv
  <2>4. sh' = "drain" => cur' \in Unreaped'
    BY <1>3, <1>4, <1>6
  <2> QED
    BY <1>1, <1>2, <1>4, <1>9, <1>14, <2>1, <2>2, <2>3, <2>4 DEF WholeInv
<1>15. sh' \in {"next", "wait", "drain"}
  BY <1>6
<1> QED
  BY <1>5, <1>9, <1>10, <1>11, <1>12, <1>13, <1>14, <1>15 DEF DlshInv, Busy

\* Waited preserves the invariant: the shell has the terminal back.
LEMMA WaitedStep ==
  ASSUME DlshInv, Waited, UNCHANGED <<lab, todo, entered>>
  PROVE  DlshInv'
<1>1. /\ sh = "wait" /\ programs' = [programs EXCEPT ![cur] = "reaped"]
      /\ foreground' = (IF 0 \in readEnds THEN 0 ELSE foreground)
      /\ sh' = "next" /\ cur' = cur + 1
      /\ UNCHANGED <<ins, eu, readEnds, writeEnds>>
  BY DEF Waited, At, Becomes, TcSetpgrp, NextInstruction
<1>2. /\ TypeInv /\ LineInv /\ HeldInv /\ StepInv /\ UnitInv /\ LoseInv /\ QueueInv
      /\ (Whole => WholeInv) /\ cur \in Nat /\ cur >= 1 /\ Len(ins) \in Nat
      /\ Started \subseteq 1 .. Len(ins) /\ Unreaped \subseteq Started
  BY <1>1, BusyFacts
<1>3. /\ cur \in Started /\ Unreaped = {cur} /\ ~Is(cur, "PIPE") /\ eu.i = 1 /\ ~eu.Piped
      /\ ins[cur].R <= 0 /\ cur \in 1 .. Len(ins)
  BY <1>1, <1>2 DEF StepInv, UnitInv
<1>4. /\ Started' = Started /\ Unreaped' = {}
      /\ programs' \in [Started' -> {"running", "stopped", "ended", "reaped"}]
  <2>1. programs \in [Started -> {"running", "stopped", "ended", "reaped"}]
    BY <1>2 DEF TypeInv
  <2>2. Started' = Started /\ programs' \in [Started' -> {"running", "stopped", "ended", "reaped"}]
    BY <1>1, <2>1 DEF Started
  <2>3. programs'[cur] = "reaped" /\ \A p \in Started : p # cur => programs'[p] = programs[p]
    BY <1>1, <1>3, <2>1
  <2> QED
    BY <1>3, <2>2, <2>3 DEF Unreaped
<1>5. LineInv' /\ (Whole' <=> Whole) /\ \A i, t : Is(i, t)' <=> Is(i, t)
  BY <1>1, <1>2, SameIns DEF Is
<1>6. foreground' = 0 /\ eu.QPid = <<>>
  <2>1. CASE 0 \notin readEnds
    BY <1>1, <1>2, <2>1 DEF HeldInv, QueueInv
  <2>2. CASE 0 \in readEnds
    <3>1. foreground = cur
      BY <1>1, <1>2, <1>3, <2>2, OwnerIsLeast
    <3>2. ASSUME NEW a \in 1 .. Len(eu.QPid)
          PROVE  FALSE
      <4>1. eu.QPid[a] \in 1 .. Len(ins) /\ eu.QPid[a] # cur
        <5>1. eu.QPid \in Seq(Nat)
          BY <1>1, BusyFacts
        <5>2. eu.QPid[a] \in Nat
          BY <5>1
        <5> QED
          BY <1>2, <3>1, <5>2 DEF QueueInv
      <4>2. eu.QPid[a] \in Unreaped
        BY <1>1, <1>2, <2>2, <4>1 DEF QueueInv
      <4> QED
        BY <1>3, <4>1, <4>2
    <3>3. eu.QPid \in Seq(Nat) /\ Len(eu.QPid) \in Nat
      BY <1>1, BusyFacts
    <3>4. eu.QPid = <<>>
      BY <3>2, <3>3
    <3> QED
      BY <1>1, <2>2, <3>4
  <2> QED
    BY <2>1, <2>2
<1>7. TypeInv' /\ HeldInv'
  BY <1>1, <1>2, <1>4, <1>6 DEF TypeInv, HeldInv
<1>8. StepInv'
  <2>1. \A i \in 1 .. Len(ins) : Executed(i)' <=> Executed(i)
    BY <1>1, <1>2 DEF Executed
  <2> QED
    BY <1>1, <1>2, <1>4, <1>5, <2>1 DEF StepInv
<1>9. UnitInv'
  <2>1. ~Is(cur - 1, "PIPE")'
    BY <1>1, <1>2, <1>3, <1>5
  <2> QED
    BY <1>1, <1>2, <1>3, <1>4, <2>1 DEF UnitInv
<1>10. LoseInv'
  <2> SUFFICES ASSUME NEW i \in 2 .. Len(ins), i < cur + 1, Is(i - 1, "PIPE"), Is(i, "EXEC"),
                      ins[i].Cmd = "cd", ins[i].R = 0, 0 \in readEnds
               PROVE  i = cur
    BY <1>1, <1>2, <1>5 DEF LoseInv
  <2> QED
    BY <1>1, <1>2 DEF LoseInv
<1>11. QueueInv'
  <2>1. Len(eu.QPid) = 0
    BY <1>6
  <2> QED
    BY <1>1, <1>2, <1>4, <1>6, <2>1 DEF QueueInv
<1>12. ASSUME Whole
       PROVE  WholeInv'
  <2>1. ~Is(cur - 1, "PIPE")
    <3>1. ASSUME Is(cur - 1, "PIPE")
          PROVE  FALSE
      <4>1. cur \in 2 .. Len(ins)
        BY <1>2, <1>3, <3>1 DEF Is
      <4>2. ins[cur].R = cur - 1
        BY <1>2, <1>3, <3>1, <4>1 DEF StepInv
      <4> QED
        BY <1>3, <4>1, <4>2
    <3> QED
      BY <3>1
  <2>2. Chain = {}
    BY <1>1, <1>2, <2>1, NoChain
  <2>3. Chain' = {}
    <3>1. ASSUME NEW j, j \in Chain'
          PROVE  FALSE
      <4>1. j \in Nat /\ j <= cur /\ \A k \in j .. cur : Is(k, "PIPE")
        BY <1>1, <1>2, <1>5, <3>1 DEF Chain
      <4>2. cur \in j .. cur
        BY <1>2, <4>1
      <4> QED
        BY <1>3, <4>1, <4>2
    <3> QED
      BY <3>1
  <2> QED
    BY <1>1, <1>2, <1>3, <1>12, <2>2, <2>3 DEF WholeInv
<1> QED
  BY <1>1, <1>5, <1>7, <1>8, <1>9, <1>10, <1>11, <1>12 DEF DlshInv, Busy
-----------------------------------------------------------------------------
(* A pipeline is drained.                                                  *)

\* The round of a drain closes the input of the shell only after the last
\* program was waited for.
LEMMA InputOutlastsPrograms ==
  ASSUME DlshInv, sh = "drain", 0 \in readEnds, Closes(eu.i), eu.i <= Len(ins),
         Is(eu.i - 1, "PIPE"), ins[eu.i].R = 0
  PROVE  Unreaped = {}
<1> DEFINE d == eu.i
<1>1. /\ TypeInv /\ LineInv /\ StepInv /\ UnitInv /\ LoseInv /\ cur \in Nat /\ Len(ins) \in Nat /\ d \in Nat
      /\ Started \subseteq 1 .. Len(ins) /\ Unreaped \subseteq Started /\ cur <= Len(ins)
  BY BusyFacts DEF StepInv
<1>2. d \in 2 .. Len(ins) /\ d \in 1 .. Len(ins)
  BY <1>1 DEF Is
<1>3. d \notin Unreaped /\ ins[d].Cmd = "cd"
  <2>1. d \in Started => ins[d].R = d - 1
    BY <1>1, <1>2 DEF StepInv
  <2> QED
    BY <1>1, <1>2, <2>1 DEF Closes
<1>4. \A p \in Unreaped : p >= d /\ p <= cur /\ p # d /\ p \in Nat
  BY <1>1, <1>3 DEF UnitInv, StepInv, Executed
<1>5. CASE d >= cur
  BY <1>1, <1>4, <1>5
<1>6. CASE d < cur
  <2>1. ~Is(d, "PIPE")
    <3>1. Executed(d)
      BY <1>6 DEF Executed
    <3> QED
      BY <1>1, <1>2, <3>1 DEF StepInv
  <2>2. Is(d, "EXEC")
    BY <1>1, <1>2, <1>3, <2>1, Shape DEF Is, Types
  <2>3. cur = d + 1
    BY <1>1, <1>2, <1>3, <1>6, <2>2 DEF LoseInv
  <2>4. ins[cur].InsType = "WAIT" /\ cur \in 1 .. Len(ins)
    BY <1>1, <1>2, <2>2, <2>3, Shape DEF Is
  <2>5. ins[cur].Cmd = "none"
    BY <1>1, <2>4, Shape
  <2>6. cur \notin Started
    BY <1>1, <2>5 DEF StepInv
  <2> QED
    BY <1>1, <1>4, <2>3, <2>6
<1> QED
  BY <1>1, <1>5, <1>6

\* On a line whose pipelines are whole, no cd in a later pipeline.
LEMMA NoLaterCd ==
  ASSUME DlshInv, Whole, sh = "drain", NEW d \in 1 .. Len(ins), Is(d, "PIPE"), ins[d].Cmd = "cd"
  PROVE  Executed(d)
<1>1. /\ TypeInv /\ LineInv /\ StepInv /\ cur \in Nat /\ cur >= 1 /\ Len(ins) \in Nat
      /\ DOMAIN ins = 1 .. Len(ins)
  BY BusyFacts
<1>2. cur \in 1 .. Len(ins) /\ ~Is(cur, "PIPE")
  BY <1>1 DEF StepInv
<1>3. \A j \in 1 .. d : ins[j].InsType # "WAIT"
  <2>1. d \in DOMAIN ins /\ ins[d].InsType = "PIPE"
    BY <1>1 DEF Is
  <2>2. "cd" \in {ins[d].Cmd, ins[d + 1].Cmd}
    OBVIOUS
  <2> QED
    BY <2>1, <2>2, Zenon DEF Whole
<1>4. ASSUME cur < d
      PROVE  FALSE
  <2>1. cur \in 1 .. d /\ cur + 1 \in 1 .. d /\ cur < Len(ins)
    BY <1>1, <1>4
  <2>2. ins[cur].InsType # "WAIT" /\ ins[cur + 1].InsType # "WAIT"
    BY <1>3, <2>1
  <2>3. ins[cur].InsType = "EXEC"
    BY <1>1, <1>2, <2>2, Shape DEF Is, Types
  <2>4. ins[cur + 1].InsType = "WAIT"
    BY <1>1, <1>2, <2>1, <2>3, Shape
  <2> QED
    BY <2>2, <2>4
<1> QED
  BY <1>1, <1>4 DEF Executed

\* What a round closes, if the pipelines are whole.
LEMMA RoundCloses ==
  ASSUME DlshInv, Whole, sh = "drain", NEW d \in 1 .. Len(ins), d = eu.i
  PROVE  /\ Closes(d) /\ Is(d - 1, "PIPE") => ins[d].R = d - 1
         /\ Closes(d) /\ Is(d, "PIPE") => ins[d].W = d
         /\ d - 1 \in Chain => Closes(d) /\ Is(d - 1, "PIPE")
         /\ d \in Chain => Closes(d) /\ Is(d, "PIPE")
<1>1. /\ StepInv /\ WholeInv /\ cur \in Nat /\ cur >= 1 /\ Len(ins) \in Nat /\ DOMAIN ins = 1 .. Len(ins)
      /\ Started \subseteq 1 .. Len(ins) /\ Unreaped \subseteq Started
  BY BusyFacts
<1>2. Closes(d) => d \in Started \/ ins[d].Cmd = "cd"
  BY <1>1 DEF Closes
<1>3. ASSUME Closes(d), Is(d - 1, "PIPE")
      PROVE  ins[d].R = d - 1
  <2>1. d \in 2 .. Len(ins) /\ d - 1 \in DOMAIN ins /\ ins[d - 1].InsType = "PIPE" /\ (d - 1) + 1 = d
    BY <1>1, <1>3 DEF Is
  <2>2. CASE d \in Started
    BY <1>1, <1>3, <2>1, <2>2 DEF StepInv
  <2>3. CASE ins[d].Cmd = "cd"
    <3>1. ins[(d - 1) + 1].Cmd = "run"
          \/ (ins[(d - 1) + 1].Cmd = "cd" /\ ins[(d - 1) + 1].InsType = "PIPE")
      BY <2>1, Zenon DEF Whole
    <3>2. Is(d, "PIPE")
      BY <2>1, <2>3, <3>1 DEF Is
    <3>3. Executed(d)
      BY <2>3, <3>2, NoLaterCd
    <3> QED
      BY <1>1, <1>3, <2>1, <3>2, <3>3 DEF StepInv
  <2> QED
    BY <1>2, <1>3, <2>2, <2>3
<1>4. ASSUME Closes(d), Is(d, "PIPE")
      PROVE  ins[d].W = d
  <2>1. Executed(d)
    BY <1>1, <1>2, <1>4, NoLaterCd DEF StepInv
  <2> QED
    BY <1>1, <1>4, <2>1 DEF StepInv
<1>5. ASSUME d \in Chain
      PROVE  Closes(d) /\ Is(d, "PIPE")
  <2>1. d \in Unreaped \/ ins[d].Cmd = "cd"
    BY <1>1, <1>5 DEF WholeInv
  <2>2. d <= cur - 1 /\ \A k \in d .. cur - 1 : Is(k, "PIPE")
    BY <1>5 DEF Chain
  <2>3. d \in d .. cur - 1
    BY <1>1, <2>2
  <2> QED
    BY <2>1, <2>2, <2>3 DEF Closes
<1>6. ASSUME d - 1 \in Chain
      PROVE  Closes(d) /\ Is(d - 1, "PIPE")
  <2>1. d - 1 <= cur - 1 /\ \A k \in d - 1 .. cur - 1 : Is(k, "PIPE")
    BY <1>6 DEF Chain
  <2>2. Is(d - 1, "PIPE") /\ d <= cur
    <3>1. d - 1 \in d - 1 .. cur - 1 /\ d <= cur
      BY <1>1, <2>1
    <3> QED
      BY <2>1, <3>1
  <2>3. CASE d = cur
    <3>1. cur \in Unreaped
      BY <1>1, <1>6, <2>3 DEF WholeInv
    <3> QED
      BY <2>2, <2>3, <3>1 DEF Closes
  <2>4. CASE d < cur
    <3>1. d <= cur - 1 /\ \A k \in d .. cur - 1 : k \in d - 1 .. cur - 1
      BY <1>1, <2>4
    <3>2. d \in Chain
      BY <2>1, <3>1 DEF Chain
    <3> QED
      BY <1>5, <2>2, <3>2
  <2> QED
    BY <1>1, <2>2, <2>3, <2>4
<1> QED
  BY <1>3, <1>4, <1>5, <1>6

\* Drained preserves the invariant: nothing is left of the pipeline.
LEMMA DrainedStep ==
  ASSUME DlshInv, Drained, UNCHANGED <<lab, todo, entered>>
  PROVE  DlshInv'
<1>1. /\ sh = "drain" /\ eu.i > Len(ins) /\ eu' = [eu EXCEPT !.i = 1]
      /\ sh' = "next" /\ cur' = cur + 1
      /\ UNCHANGED <<ins, programs, foreground, ignoring, readEnds, writeEnds>>
  BY DEF Drained, At, NextInstruction
<1>2. /\ TypeInv /\ LineInv /\ HeldInv /\ StepInv /\ UnitInv /\ LoseInv /\ QueueInv
      /\ (Whole => WholeInv) /\ cur \in Nat /\ cur >= 1 /\ Len(ins) \in Nat /\ eu.i \in Nat
      /\ Started \subseteq 1 .. Len(ins) /\ Unreaped \subseteq Started
      /\ eu \in [Piped : BOOLEAN, R : Nat, QPid : Seq(Nat), i : Nat \ {0}]
  BY <1>1, BusyFacts
<1>3. /\ eu'.Piped = eu.Piped /\ eu'.R = eu.R /\ eu'.QPid = eu.QPid /\ eu'.i = 1
      /\ eu' \in [Piped : BOOLEAN, R : Nat, QPid : Seq(Nat), i : Nat \ {0}]
  <2>1. eu' = [eu EXCEPT !.i = 1]
    BY <1>1
  <2>2. eu \in [Piped : BOOLEAN, R : Nat, QPid : Seq(Nat), i : Nat \ {0}]
    BY <1>2
  <2> QED
    BY <2>1, <2>2
<1>4. Started' = Started /\ Unreaped' = Unreaped
  BY <1>1 DEF Started, Unreaped
<1>5. LineInv' /\ (Whole' <=> Whole) /\ \A i, t : Is(i, t)' <=> Is(i, t)
  BY <1>1, <1>2, SameIns DEF Is
<1>6. cur \in 1 .. Len(ins) /\ ~Is(cur, "PIPE") /\ Unreaped = {}
  <2>1. cur <= Len(ins) /\ ~Is(cur, "PIPE") /\ \A p \in Unreaped : p >= eu.i
    BY <1>1, <1>2 DEF StepInv, UnitInv
  <2>2. \A p \in Unreaped : p <= Len(ins) /\ p \in Nat
    BY <1>2
  <2>3. \A p \in Unreaped : FALSE
    BY <1>1, <1>2, <2>1, <2>2
  <2> QED
    BY <1>2, <2>1, <2>3
<1>7. TypeInv' /\ HeldInv'
  BY <1>1, <1>2, <1>3, <1>4 DEF TypeInv, HeldInv
<1>8. StepInv'
  <2>1. \A i \in 1 .. Len(ins) : Executed(i)' <=> Executed(i)
    BY <1>1, <1>2 DEF Executed
  <2> QED
    BY <1>1, <1>2, <1>4, <1>5, <2>1 DEF StepInv
<1>9. UnitInv'
  <2>1. ~Is(cur - 1, "PIPE")'
    BY <1>1, <1>2, <1>5, <1>6
  <2> QED
    BY <1>1, <1>2, <1>3, <1>4, <1>6, <2>1 DEF UnitInv
<1>10. LoseInv'
  <2> SUFFICES ASSUME NEW i \in 2 .. Len(ins), i < cur + 1, Is(i - 1, "PIPE"), Is(i, "EXEC"),
                      ins[i].Cmd = "cd", ins[i].R = 0, 0 \in readEnds
               PROVE  i = cur
    BY <1>1, <1>2, <1>5 DEF LoseInv
  <2>1. sh = "drain" /\ eu.i > Len(ins)
    BY <1>1
  <2>2. i < cur => cur = i + 1 /\ eu.i <= i
    BY <1>2, <2>1 DEF LoseInv
  <2>3. cur \in Nat /\ Len(ins) \in Nat /\ eu.i \in Nat
    BY <1>2
  <2> QED
    BY <2>1, <2>2, <2>3
<1>11. QueueInv'
  BY <1>1, <1>2, <1>3, <1>4 DEF QueueInv
<1>12. ASSUME Whole
       PROVE  WholeInv'
  <2>1. ~eu.Piped
    BY <1>1, <1>2, <1>12 DEF WholeInv
  <2>2. Chain' = {}
    <3>1. ASSUME NEW j, j \in Chain'
          PROVE  FALSE
      <4>1. j \in Nat /\ j <= cur /\ \A k \in j .. cur : Is(k, "PIPE")
        BY <1>1, <1>2, <1>5, <3>1 DEF Chain
      <4>2. cur \in j .. cur
        BY <1>2, <4>1
      <4> QED
        BY <1>6, <4>1, <4>2
    <3> QED
      BY <3>1
  <2>3. \A j \in Chain : j < eu.i - 1
    <3>1. \A j \in Chain : j \in Nat /\ j <= cur - 1
      BY <1>1 DEF Chain
    <3> QED
      BY <1>1, <1>2, <1>6, <3>1
  <2>4. \A j \in Chain : ~(j >= eu.i - 1) /\ ~(j >= eu.i)
    <3>1. \A j \in Chain : j \in Nat
      BY DEF Chain
    <3> QED
      BY <1>2, <2>3, <3>1
  <2>5. readEnds = {0} /\ writeEnds = {0}
    <3>1. /\ readEnds = {0} \cup {j \in Chain : j >= eu.i - 1}
          /\ writeEnds = {0} \cup {j \in Chain : j >= eu.i}
      BY <1>2, <1>12 DEF WholeInv
    <3> QED
      BY <2>4, <3>1
  <2> QED
    BY <1>1, <1>3, <2>1, <2>2, <2>5 DEF WholeInv
<1> QED
  BY <1>1, <1>5, <1>7, <1>8, <1>9, <1>10, <1>11, <1>12 DEF DlshInv, Busy

\* DrainPipeline preserves the invariant: the owner is waited for, the head of the
\* queue is the next owner, and the pipe between them is closed.
LEMMA DrainPipelineStep ==
  ASSUME DlshInv, DrainPipeline, UNCHANGED <<lab, todo, entered>>
  PROVE  DlshInv'
<1> DEFINE d == eu.i
<1>1. /\ sh = "drain" /\ d <= Len(ins) /\ UNCHANGED <<sh, ins, cur>>
      /\ d \notin Unreaped => UNCHANGED <<programs, foreground, ignoring>>
      /\ d \in Unreaped => Becomes(d, "reaped") /\ TerminalTo(eu.QPid)
      /\ ~Closes(d) => UNCHANGED <<readEnds, writeEnds>>
      /\ Closes(d) => CloseEnds(d)
      /\ eu' = [eu EXCEPT !.i = eu.i + 1,
                          !.QPid = IF eu.i \in Unreaped /\ eu.QPid # <<>> THEN Tail(eu.QPid) ELSE eu.QPid]
  BY DEF DrainPipeline, At
<1>2. /\ TypeInv /\ LineInv /\ HeldInv /\ StepInv /\ UnitInv /\ LoseInv /\ QueueInv
      /\ (Whole => WholeInv) /\ cur \in Nat /\ cur >= 1 /\ Len(ins) \in Nat /\ d \in Nat /\ d >= 1
      /\ Started \subseteq 1 .. Len(ins) /\ Unreaped \subseteq Started
      /\ eu.QPid \in Seq(Nat) /\ Len(eu.QPid) \in Nat /\ foreground \in Nat
      /\ eu \in [Piped : BOOLEAN, R : Nat, QPid : Seq(Nat), i : Nat \ {0}]
  BY <1>1, BusyFacts
<1>3. d \in 1 .. Len(ins) /\ cur \in 1 .. Len(ins) /\ ~Is(cur, "PIPE") /\ \A p \in Unreaped : p >= d
  BY <1>1, <1>2 DEF StepInv, UnitInv
<1>4. LineInv' /\ (Whole' <=> Whole) /\ \A i, t : Is(i, t)' <=> Is(i, t)
  BY <1>1, <1>2, SameIns DEF Is
<1>5. /\ Started' = Started /\ Unreaped' = Unreaped \ {d}
      /\ programs' \in [Started' -> {"running", "stopped", "ended", "reaped"}]
  <2>1. programs \in [Started -> {"running", "stopped", "ended", "reaped"}]
    BY <1>2 DEF TypeInv
  <2>2. CASE d \in Unreaped
    <3>1. programs' = [programs EXCEPT ![d] = "reaped"] /\ d \in Started
      BY <1>1, <1>2, <2>2 DEF Becomes
    <3>2. Started' = Started /\ programs' \in [Started' -> {"running", "stopped", "ended", "reaped"}]
      BY <2>1, <3>1 DEF Started
    <3>3. programs'[d] = "reaped" /\ \A p \in Started : p # d => programs'[p] = programs[p]
      BY <2>1, <3>1
    <3> QED
      BY <3>1, <3>2, <3>3 DEF Unreaped
  <2>3. CASE d \notin Unreaped
    BY <1>1, <2>1, <2>3 DEF Unreaped, Started
  <2> QED
    BY <2>2, <2>3
\* The queue.
<1>6. PICK q : q = IF d \in Unreaped /\ eu.QPid # <<>> THEN Tail(eu.QPid) ELSE eu.QPid
  OBVIOUS
<1>7. q \in Seq(Nat) /\ Len(q) \in Nat
  BY <1>2, <1>6
<1>8. /\ eu'.Piped = eu.Piped /\ eu'.R = eu.R /\ eu'.QPid = q /\ eu'.i = d + 1
      /\ eu' \in [Piped : BOOLEAN, R : Nat, QPid : Seq(Nat), i : Nat \ {0}]
  <2>1. d + 1 \in Nat \ {0}
    BY <1>2
  <2> QED
    BY <1>1, <1>2, <1>6, <1>7, <2>1
\* What is closed.
<1>9. /\ readEnds' = (IF Closes(d) /\ Is(d - 1, "PIPE") THEN readEnds \ {ins[d].R} ELSE readEnds)
      /\ writeEnds' = (IF Closes(d) /\ Is(d, "PIPE") THEN writeEnds \ {ins[d].W} ELSE writeEnds)
  <2>1. Is(d - 1, "PIPE") <=> d > 1 /\ ins[d - 1].InsType = "PIPE"
    BY <1>2, <1>3 DEF Is
  <2>2. Is(d, "PIPE") <=> ins[d].InsType = "PIPE"
    BY <1>3 DEF Is
  <2> QED
    BY <1>1, <2>1, <2>2 DEF CloseEnds
<1>10. 0 \in readEnds' => 0 \in readEnds
  BY <1>9
<1>11. 0 \in readEnds /\ 0 \notin readEnds' => Unreaped = {}
  BY <1>1, <1>9, InputOutlastsPrograms
<1>12. ASSUME d \in Unreaped
       PROVE  /\ 0 \in readEnds => foreground = d
              /\ 0 \notin readEnds => foreground = 0 /\ eu.QPid = <<>> /\ foreground' = 0
              /\ 0 \in readEnds /\ eu.QPid = <<>> => foreground' = 0
              /\ 0 \in readEnds /\ eu.QPid # <<>> => foreground' = eu.QPid[1] /\ ignoring' = ignoring
  <2>1. 0 \in readEnds => foreground = d
    BY <1>1, <1>3, <1>12, OwnerIsLeast
  <2>2. 0 \notin readEnds => foreground = 0 /\ eu.QPid = <<>>
    BY <1>2 DEF HeldInv, QueueInv
  <2> QED
    BY <1>1, <1>12, <2>1, <2>2 DEF TerminalTo, TcSetpgrp
<1>13. HeldInv' /\ foreground' \in Nat
  <2>1. CASE d \in Unreaped
    <3>1. CASE 0 \in readEnds /\ eu.QPid # <<>>
      <4>1. eu.QPid[1] \in Nat
        BY <1>2, <3>1
      <4>2. ignoring /\ 0 \in readEnds'
        BY <1>2, <1>3, <1>11, <1>12, <2>1, <3>1 DEF HeldInv
      <4> QED
        BY <1>12, <2>1, <3>1, <4>1, <4>2 DEF HeldInv
    <3> QED
      BY <1>12, <2>1, <3>1 DEF HeldInv
  <2>2. CASE d \notin Unreaped
    <3>1. foreground' = foreground /\ ignoring' = ignoring
      BY <1>1, <2>2
    <3>2. 0 \in readEnds /\ 0 \notin readEnds' => foreground = 0
      BY <1>1, <1>11, NoOwner
    <3> QED
      BY <1>2, <3>1, <3>2 DEF HeldInv
  <2> QED
    BY <2>1, <2>2
<1>14. TypeInv'
  BY <1>1, <1>2, <1>5, <1>8, <1>13 DEF TypeInv
<1>15. StepInv'
  <2>1. \A i \in 1 .. Len(ins) : Executed(i)' <=> Executed(i)
    BY <1>1 DEF Executed
  <2> QED
    BY <1>1, <1>2, <1>4, <1>5, <2>1 DEF StepInv
<1>16. UnitInv'
  <2>1. \A p \in Unreaped \ {d} : p >= d + 1
    BY <1>2, <1>3
  <2> QED
    BY <1>1, <1>2, <1>5, <1>8, <2>1 DEF UnitInv
<1>17. LoseInv'
  <2> SUFFICES ASSUME NEW i \in 2 .. Len(ins), i < cur, Is(i - 1, "PIPE"), Is(i, "EXEC"),
                      ins[i].Cmd = "cd", ins[i].R = 0, 0 \in readEnds'
               PROVE  cur = i + 1 /\ d + 1 <= i
    BY <1>1, <1>4, <1>8 DEF LoseInv
  <2>1. cur = i + 1 /\ d <= i
    BY <1>1, <1>2, <1>10 DEF LoseInv
  <2>2. d # i
    BY <1>9 DEF Closes
  <2> QED
    BY <1>2, <2>1, <2>2
<1>18. QueueInv'
  <2>1. CASE d \in Unreaped /\ eu.QPid # <<>>
    <3>1. /\ 0 \in readEnds /\ foreground = d /\ foreground' = eu.QPid[1] /\ q = Tail(eu.QPid)
      BY <1>6, <1>12, <2>1
    <3>2. /\ Len(eu.QPid) >= 1 /\ Len(q) = Len(eu.QPid) - 1
          /\ \A a \in 1 .. Len(q) : q[a] = eu.QPid[a + 1] /\ a + 1 \in 1 .. Len(eu.QPid)
          /\ 1 \in 1 .. Len(eu.QPid)
      BY <1>2, <2>1, <3>1
    <3>3. foreground' <= Len(ins) /\ foreground' # 0
      BY <1>2, <3>1, <3>2 DEF QueueInv
    <3>4. ASSUME NEW a \in 1 .. Len(q)
          PROVE  foreground' < q[a] /\ q[a] <= Len(ins)
      <4>1. a + 1 \in 1 .. Len(eu.QPid) /\ 1 < a + 1
        BY <3>2
      <4> QED
        BY <1>2, <3>1, <3>2, <4>1 DEF QueueInv
    <3>5. ASSUME NEW a \in 1 .. Len(q), NEW b \in 1 .. Len(q), a < b
          PROVE  q[a] < q[b]
      <4>1. a + 1 \in 1 .. Len(eu.QPid) /\ b + 1 \in 1 .. Len(eu.QPid) /\ a + 1 < b + 1
        BY <3>2, <3>5
      <4> QED
        BY <1>2, <3>2, <4>1 DEF QueueInv
    <3>6. ASSUME NEW p \in 1 .. Len(ins)
          PROVE  p \in Unreaped' <=> (p = foreground' \/ \E a \in 1 .. Len(q) : p = q[a])
      <4>1. p \in Unreaped <=> (p = d \/ \E a \in 1 .. Len(eu.QPid) : p = eu.QPid[a])
        BY <1>1, <1>2, <3>1 DEF QueueInv
      <4>2. \A a \in 1 .. Len(eu.QPid) : eu.QPid[a] # d
        BY <1>2, <3>1 DEF QueueInv
      <4>3. (\E a \in 1 .. Len(eu.QPid) : p = eu.QPid[a])
            <=> (p = eu.QPid[1] \/ \E a \in 1 .. Len(q) : p = q[a])
        <5>1. \A a \in 1 .. Len(eu.QPid) : a = 1 \/ (a - 1 \in 1 .. Len(q) /\ q[a - 1] = eu.QPid[a])
          <6>1. PICK m, n \in Nat : m = Len(eu.QPid) /\ n = Len(q) /\ n = m - 1
            <7>1. Len(eu.QPid) \in Nat /\ Len(eu.QPid) - 1 \in Nat /\ Len(q) = Len(eu.QPid) - 1
              BY <1>2, <3>2
            <7> QED
              BY <7>1
          <6>2. \A a \in 1 .. m : a = 1 \/ (a - 1 \in 1 .. n /\ (a - 1) + 1 = a)
            BY <6>1
          <6>3. \A b \in 1 .. n : q[b] = eu.QPid[b + 1]
            BY <3>2, <6>1
          <6>4. \A a \in 1 .. m : a = 1 \/ (a - 1 \in 1 .. n /\ q[a - 1] = eu.QPid[a])
            BY <6>2, <6>3
          <6> QED
            BY <6>1, <6>4
        <5> QED
          BY <3>2, <5>1
      <4> QED
        BY <1>5, <3>1, <4>1, <4>2, <4>3
    <3>7. /\ \A a \in 1 .. Len(q) : foreground' < q[a] /\ q[a] <= Len(ins)
          /\ \A a, b \in 1 .. Len(q) : a < b => q[a] < q[b]
          /\ \A p \in 1 .. Len(ins) : p \in Unreaped' <=> (p = foreground' \/ \E a \in 1 .. Len(q) : p = q[a])
      BY <3>4, <3>5, <3>6
    <3>8. sh' # "give" /\ ins' = ins /\ eu'.QPid = q
      BY <1>1, <1>8
    <3> QED
      BY <3>3, <3>7, <3>8 DEF QueueInv
  <2>2. CASE d \in Unreaped /\ eu.QPid = <<>>
    <3>1. foreground' = 0 /\ q = <<>> /\ Len(q) = 0
      BY <1>6, <1>12, <2>2
    <3>2. 0 \in readEnds => \A p \in 1 .. Len(ins) : p \in Unreaped => p = d
      BY <1>1, <1>2, <1>12, <2>2, <3>1 DEF QueueInv
    <3> QED
      BY <1>1, <1>2, <1>5, <1>8, <1>10, <3>1, <3>2 DEF QueueInv
  <2>3. CASE d \notin Unreaped
    <3>1. foreground' = foreground /\ q = eu.QPid /\ Unreaped' = Unreaped
      BY <1>1, <1>5, <1>6, <2>3
    <3> QED
      BY <1>1, <1>2, <1>8, <1>10, <3>1 DEF QueueInv
  <2> QED
    BY <2>1, <2>2, <2>3
<1>19. ASSUME Whole
       PROVE  WholeInv'
  <2>1. /\ ~eu.Piped
        /\ readEnds = {0} \cup {j \in Chain : j >= d - 1}
        /\ writeEnds = {0} \cup {j \in Chain : j >= d}
        /\ \A j \in Chain : j >= d => j \in Unreaped \/ ins[j].Cmd = "cd"
        /\ Chain # {} /\ cur >= d => cur \in Unreaped
    BY <1>1, <1>2, <1>19 DEF WholeInv
  <2>2. /\ Closes(d) /\ Is(d - 1, "PIPE") => ins[d].R = d - 1
        /\ Closes(d) /\ Is(d, "PIPE") => ins[d].W = d
        /\ d - 1 \in Chain => Closes(d) /\ Is(d - 1, "PIPE")
        /\ d \in Chain => Closes(d) /\ Is(d, "PIPE")
    BY <1>1, <1>3, <1>19, RoundCloses
  <2>3. Chain' = Chain /\ \A j \in Chain : j \in Nat /\ j >= 1
    BY <1>1, <1>4 DEF Chain
  <2>4. readEnds' = {0} \cup {j \in Chain : j >= d}
    <3>1. \A j \in Chain : j >= d - 1 <=> (j >= d \/ j = d - 1)
      BY <1>2, <2>3
    <3>2. \A j \in Chain : j >= d => j # d - 1
      BY <1>2, <2>3
    <3>3. CASE Closes(d) /\ Is(d - 1, "PIPE")
      <4>1. readEnds' = readEnds \ {d - 1} /\ d - 1 # 0
        BY <1>9, <2>2, <3>3 DEF Is
      <4> QED
        BY <2>1, <3>1, <3>2, <4>1
    <3>4. CASE ~(Closes(d) /\ Is(d - 1, "PIPE"))
      <4>1. readEnds' = readEnds /\ d - 1 \notin Chain
        BY <1>9, <2>2, <3>4
      <4> QED
        BY <2>1, <3>1, <4>1
    <3> QED
      BY <3>3, <3>4
  <2>5. writeEnds' = {0} \cup {j \in Chain : j >= d + 1}
    <3>1. \A j \in Chain : j >= d <=> (j >= d + 1 \/ j = d)
      BY <1>2, <2>3
    <3>2. \A j \in Chain : j >= d + 1 => j # d
      BY <1>2, <2>3
    <3>3. CASE Closes(d) /\ Is(d, "PIPE")
      <4>1. writeEnds' = writeEnds \ {d} /\ d # 0
        BY <1>2, <1>9, <2>2, <3>3
      <4> QED
        BY <2>1, <3>1, <3>2, <4>1
    <3>4. CASE ~(Closes(d) /\ Is(d, "PIPE"))
      <4>1. writeEnds' = writeEnds /\ d \notin Chain
        BY <1>9, <2>2, <3>4
      <4> QED
        BY <2>1, <3>1, <4>1
    <3> QED
      BY <3>3, <3>4
  <2>6. \A j \in Chain : j >= d + 1 => j \in Unreaped' \/ ins[j].Cmd = "cd"
    <3>1. \A j \in Chain : j >= d + 1 => j >= d /\ j # d
      BY <1>2, <2>3
    <3> QED
      BY <1>5, <2>1, <3>1
  <2>7. Chain # {} /\ cur >= d + 1 => cur \in Unreaped'
    <3>1. cur >= d + 1 => cur >= d /\ cur # d
      BY <1>2
    <3> QED
      BY <1>5, <2>1, <3>1
  <2>8. eu'.i = d + 1 /\ eu'.i - 1 = d /\ eu'.Piped = eu.Piped /\ sh' = "drain" /\ ins' = ins /\ cur' = cur
    BY <1>1, <1>2, <1>8
  <2> QED
    BY <2>1, <2>3, <2>4, <2>5, <2>6, <2>7, <2>8 DEF WholeInv
<1>20. sh' = "drain"
  BY <1>1
<1> QED
  BY <1>4, <1>13, <1>14, <1>15, <1>16, <1>17, <1>18, <1>19, <1>20 DEF DlshInv, Busy

\* The invariant holds at the start.
LEMMA DlshInvInit == DlshInit => DlshInv
<1> SUFFICES ASSUME DlshInit
             PROVE  DlshInv
  OBVIOUS
<1>1. Started = {} /\ Unreaped = {}
  BY DEF DlshInit, Started, Unreaped
<1>2. eu \in [Piped : BOOLEAN, R : Nat, QPid : Seq(Nat), i : Nat \ {0}]
  BY DEF DlshInit, NewExecUnit
<1>3. programs \in [Started -> {"running", "stopped", "ended", "reaped"}]
  BY <1>1 DEF DlshInit, Started
<1> QED
  BY <1>1, <1>2, <1>3 DEF DlshInit, DlshInv, TypeInv, LineInv, HeldInv, PromptInv, Busy

\* Every step preserves the invariant.
LEMMA DlshInvNext == DlshInv /\ [DlshNext]_<<lab, todo, dlshVars>> => DlshInv'
<1> SUFFICES ASSUME DlshInv, [DlshNext]_<<lab, todo, dlshVars>>
             PROVE  DlshInv'
  OBVIOUS
<1>1. CASE UNCHANGED <<lab, todo, dlshVars>>
  <2>1. UNCHANGED <<lab, todo, entered, sh, ins, cur, eu, programs, foreground, ignoring, readEnds, writeEnds>>
    BY <1>1 DEF dlshVars
  <2>2. (TypeInv' <=> TypeInv) /\ (LineInv' <=> LineInv) /\ (HeldInv' <=> HeldInv) /\ (Whole' <=> Whole)
    BY <2>1 DEF TypeInv, LineInv, HeldInv, Plan, Whole, Started
  <2>3. (StepInv' <=> StepInv) /\ (UnitInv' <=> UnitInv) /\ (LoseInv' <=> LoseInv)
        /\ (QueueInv' <=> QueueInv) /\ (WholeInv' <=> WholeInv) /\ (PromptInv' <=> PromptInv)
    BY <2>1 DEF StepInv, UnitInv, LoseInv, QueueInv, WholeInv, PromptInv, Executed, Is, Chain, Unreaped, Started
  <2> QED
    BY <2>1, <2>2, <2>3 DEF DlshInv, Busy
<1>2. ASSUME DlshNext
      PROVE  DlshInv'
  <2>1. UNCHANGED <<lab, todo, entered>>
    BY <1>2 DEF DlshNext
  <2>2. \/ ReadLine \/ ReadFails \/ LineDone \/ Chdir \/ Exit \/ ExecPipe \/ DrainExec \/ Run
        \/ Give \/ Waited \/ WaitInstruction \/ DrainPipeline \/ Drained \/ Interrupted
        \/ \E p \in Started : Ends(p) \/ Stops(p)
    BY <1>2 DEF DlshNext, Shell
  <2> QED
    BY <2>1, <2>2, ReadLineStep, ReadFailsStep, LineDoneStep, ChdirStep, ExitStep, ExecPipeStep,
       DrainExecStep, RunStep, GiveStep, WaitedStep, WaitInstructionStep, DrainPipelineStep,
       DrainedStep, InterruptedStep, ProgramStep, Zenon
<1> QED
  BY <1>1, <1>2

\* The invariant implies TerminalHeld.
LEMMA DlshInvHolds == DlshInv => TerminalHeld
<1> SUFFICES ASSUME DlshInv
             PROVE  TerminalHeld
  OBVIOUS
<1>1. foreground # 0 => ignoring
  BY DEF DlshInv, HeldInv
<1>2. ASSUME Whole, sh = "wait"
      PROVE  foreground = cur
  <2>1. Unreaped = {cur} /\ cur \in Nat
    BY <1>2, BusyFacts DEF UnitInv
  <2>2. 0 \in readEnds
    BY <1>2, BusyFacts DEF WholeInv
  <2> QED
    BY <1>2, <2>1, <2>2, OwnerIsLeast
<1>3. ASSUME Whole, sh = "drain", eu.i \in Unreaped
      PROVE  foreground = eu.i
  <2>1. \A p \in Unreaped : p >= eu.i
    BY <1>3, BusyFacts DEF UnitInv
  <2>2. 0 \in readEnds
    BY <1>3, BusyFacts DEF WholeInv
  <2> QED
    BY <1>3, <2>1, <2>2, OwnerIsLeast
<1>4. Whole /\ sh = "prompt" => foreground = 0 /\ Unreaped = {} /\ readEnds = {0} /\ writeEnds = {0}
  BY DEF DlshInv, PromptInv
<1> QED
  BY <1>1, <1>2, <1>3, <1>4 DEF TerminalHeld

\* TerminalHeld, for all lines: a drain of instructions.go and execunit.go never
\* waits for a program that the terminal was not handed to, and the shell that
\* prompts again has the terminal, the files it started with, and no program
\* or pipe left.
THEOREM TerminalIsHeld == DlshInit /\ [][DlshNext]_<<lab, todo, dlshVars>> => []TerminalHeld
<1>1. DlshInit => DlshInv
  BY DlshInvInit
<1>2. DlshInv /\ [DlshNext]_<<lab, todo, dlshVars>> => DlshInv'
  BY DlshInvNext
<1>3. DlshInv => TerminalHeld
  BY DlshInvHolds
<1> QED
  BY <1>1, <1>2, <1>3, PTL
=============================================================================
