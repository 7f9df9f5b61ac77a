--------------------------------- MODULE BigInt ---------------------------------
(***************************************************************************)
(* DPPL/ExtremelyBigInt.cpp: numbers of any size in blocks of 18 decimal   *)
(* digits, the lowest block first.  The base of a block is HALF ^ 2 (10^18 *)
(* in the code, where HALF is 10^9); what the code computes in 64 bits is  *)
(* computed below, where only the borrow needs the wrap (see addBlock).    *)
(*                                                                         *)
(* The numbers are not negative: the signs of sums and differences are not *)
(* those of the numbers, and an assignment keeps the sign of its target.   *)
(* A computation that never ends is one without a result: operators return *)
(* the set of their results, one of them or none.                          *)
(***************************************************************************)
EXTENDS Lab, Integers, SequencesExt

CONSTANTS HALF,     \* the base of half a block
          Operands, \* the values of the other operand
          MaxValue, \* computations stop above this value
          MaxBlocks \* and above this length, zeroes included

BASE == HALF * HALF             \* TENP18

VARIABLES num,      \* digiStore of the number being computed with
          val,      \* the number it ought to be; -1 if nothing is promised
          stuck     \* the last operation never returned

bigVars == <<num, val, stuck>>

\* What toString prints, leading zeroes and zero itself left out.
toString(d) == FoldRight(LAMBDA block, v : v * BASE + block, d, 0)

\* The blocks of the digits of n; "" and "0" make one block.
RECURSIVE assign(_)
assign(n) == IF n < BASE THEN <<n>> ELSE <<n % BASE>> \o assign(n \div BASE)

\* Digits followed by zeroes that fill pow blocks: zero keeps its blocks.
assignShifted(n, pow) == [p \in 1 .. pow |-> 0] \o assign(n)

\* An integer; a block of zeroes ends it.
RECURSIVE Parse(_)
Parse(n) == IF n % BASE = 0 THEN <<>> ELSE <<n % BASE>> \o Parse(n \div BASE)

trim(d) == LET zeroes == {k \in 0 .. Len(d) : \A p \in k + 1 .. Len(d) : d[p] = 0}
           IN SubSeq(d, 1, CHOOSE k \in zeroes : \A other \in zeroes : k <= other)

\* Adds carry to block idx.  A negative sum wraps in unsigned arithmetic,
\* which makes it exceed LIMIT; borrowing from above the highest block goes
\* on for ever, since each borrow appends a block to borrow from.
RECURSIVE addBlock(_, _, _)
addBlock(d, idx, carry) ==
    IF idx > Len(d) + 1 THEN {d}
    ELSE LET e == IF idx > Len(d) THEN Append(d, 0) ELSE d
             temp == e[idx] + carry
         IN IF temp \in 0 .. BASE - 1 THEN {[e EXCEPT ![idx] = temp]}
            ELSE IF carry >= 0
            THEN addBlock([e EXCEPT ![idx] = temp % BASE], idx + 1, temp \div BASE)
            ELSE IF idx > Len(d) THEN {}
            ELSE addBlock([e EXCEPT ![idx] = BASE + temp], idx + 1, -1)

\* Adds the blocks of e to d, one after the other, with the given sign.
AddBlocks(d, e, sign) ==
    FoldLeft(LAMBDA results, idx : UNION {addBlock(r, idx, sign * e[idx]) : r \in results},
             {d}, [idx \in DOMAIN e |-> idx])

Plus(d, e) == AddBlocks(d, e, 1)
Minus(d, e) == {trim(r) : r \in AddBlocks(d, e, -1)}

\* The greater size wins; else a greater block does, wherever it is.
GreaterThan(d, e) == \/ Len(d) > Len(e)
                     \/ (Len(d) = Len(e) /\ \E p \in DOMAIN d : d[p] > e[p])
AtLeast(d, e) == GreaterThan(d, e) \/ d = e

\* The product of the high halves is put where that of the low ones is.
HalfProducts_SamePlace(a, b, pow) ==
    <<assignShifted((a % HALF) * (b % HALF), pow),
      assignShifted((a \div HALF) * (b % HALF) * HALF, pow),
      assignShifted((a % HALF) * (b \div HALF) * HALF, pow),
      assignShifted((a \div HALF) * (b \div HALF), pow)>>

\* The four products of the halves of two blocks, each put in its place.
HalfProducts(a, b, pow) ==
    <<assignShifted((a % HALF) * (b % HALF), pow),
      assignShifted((a \div HALF) * (b % HALF) * HALF, pow),
      assignShifted((a % HALF) * (b \div HALF) * HALF, pow),
      assignShifted((a \div HALF) * (b \div HALF), pow + 1)>>

painfulMultiply(d, e) ==
    LET Terms == [idx \in DOMAIN e |->
                     FlattenSeq([p \in DOMAIN d |-> HalfProducts(e[idx], d[p], idx + p - 2)])]
    IN FoldLeft(LAMBDA results, t : UNION {Plus(r, t) : r \in results},
                {<<0>>}, FlattenSeq(Terms))

\* Subtracts the divisor as long as it goes; subtracting nothing never ends.
RECURSIVE Subtracted(_, _, _)
Subtracted(remainder, divisor, count) ==
    IF ~AtLeast(remainder, divisor) THEN {<<remainder, count>>}
    ELSE UNION {IF r = remainder THEN {} ELSE Subtracted(r, divisor, count + 1)
                : r \in Minus(remainder, divisor)}

\* Takes as many blocks of the dividend as the divisor has, from the lowest
\* one up, behind what remained; the count goes on from chunk to chunk.
painfulDivision(d, divisor) ==
    LET n == Len(divisor)
        chunks == (Len(d) + n - 1) \div n
        Chunk(c) == SubSeq(d, (c - 1) * n + 1, IF c * n > Len(d) THEN Len(d) ELSE c * n)
        Divided(s, c) ==
            LET whole == Len(Chunk(c)) = n IN
            UNION {{<<t[1], t[2], q>> : q \in Plus(s[3], Parse(t[2]))}
                   : t \in Subtracted(IF whole THEN s[1] \o Chunk(c) ELSE Chunk(c), divisor, s[2])}
    IN IF n > Len(d) THEN {<<0>>}
       ELSE {s[3] : s \in FoldLeft(LAMBDA states, c : UNION {Divided(s, c) : s \in states},
                                   {<<<<>>, 0, <<0>>>>}, [c \in 1 .. chunks |-> c])}

-----------------------------------------------------------------------------
\* One operation: its results, and what it ought to be.
Compute(results, promised) ==
    /\ lab = "ExtremelyBigInt" /\ ~stuck
    /\ val \in 0 .. MaxValue /\ Len(num) <= MaxBlocks
    /\ val' = promised
    /\ IF results = {} THEN stuck' = TRUE /\ num' = num
       ELSE stuck' = FALSE /\ num' \in results
    /\ UNCHANGED <<lab, todo>>

Assign(n) == Compute({assign(n)}, n)
Add(n) == Compute(Plus(num, assign(n)), val + n)
Subtract(n) == Compute(Minus(num, assign(n)), IF val >= n THEN val - n ELSE -1)
Double == Compute(Plus(num, num), 2 * val)                \* i = i + i
Multiply(n) == Compute(painfulMultiply(num, assign(n)), val * n)
Square == Compute(painfulMultiply(num, num), val * val)   \* k = i * i

\* The quotient is promised for numbers of one block, and no other.
Divide(n) == Compute(painfulDivision(num, assign(n)),
                     IF n > 0 /\ n < BASE /\ Len(num) = 1 THEN val \div n ELSE -1)

\* The same with a long long, whose blocks Parse makes.
AddInt(n) == Compute(Plus(num, Parse(n)), IF n % BASE = 0 /\ n > 0 THEN -1 ELSE val + n)
SubtractInt(n) == Compute(Minus(num, Parse(n)),
                          IF val < n \/ (n % BASE = 0 /\ n > 0) THEN -1 ELSE val - n)
MultiplyInt(n) == Compute(painfulMultiply(num, Parse(n)),
                          IF n % BASE = 0 /\ n > 0 THEN -1 ELSE val * n)

BigOff == num = <<>> /\ val = 0 /\ stuck = FALSE

BigInit == lab = "ExtremelyBigInt" /\ todo = <<>> /\ num = <<0>> /\ val = 0 /\ stuck = FALSE

BigNext ==
    \/ \E n \in Operands : \/ Assign(n) \/ Add(n) \/ Subtract(n) \/ Multiply(n) \/ Divide(n)
                           \/ AddInt(n) \/ SubtractInt(n) \/ MultiplyInt(n)
    \/ Double \/ Square

\* However long the chain of operations: it returns, its blocks stay below
\* the base, and the number is the sum, difference, product or one-block
\* quotient that was asked for; and a number without superfluous blocks that
\* is not smaller than another one is not taken for a smaller one.
BigNumbersAgree ==
    val # -1 =>
        /\ ~stuck /\ toString(num) = val /\ ToSet(num) \subseteq 0 .. BASE - 1
        /\ trim(num) = num => \A n \in Operands \ {0} : val >= n => AtLeast(num, assign(n))
=============================================================================
