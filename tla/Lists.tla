--------------------------------- MODULE Lists ---------------------------------
(***************************************************************************)
(* The linked lists of DS: radixSort.c and radixSortNegative.c (sorting a  *)
(* circular list digit by digit) and sparseMatrix.c (a list of rows, each  *)
(* a list of cells).                                                       *)
(*                                                                         *)
(* A circular list is the sequence of its values from head to tail; the    *)
(* reversal of the negative numbers works on the links themselves.  Values *)
(* are below 10^9, for which powerTo10 does not overflow.                  *)
(***************************************************************************)
EXTENDS Lab, Integers, FiniteSetsExt, SequencesExt

CONSTANTS Lists,    \* the lists to be sorted
          Rows,     \* the dimensions of the matrix
          Columns,
          Data      \* its non-zero values

VARIABLES original,    \* the list as main made it, or the matrix in full
          list,     \* the list being sorted, or the rows of the matrix
          parts,    \* the negatives, negated, and the others
          at,       \* what radixSort is doing
          pass,     \* the passes left
          power,    \* powerTo10
          rev       \* the reversal: link and n of each node, prev, curr, next

listVars == <<original, list, parts, at, pass, power, rev>>

-----------------------------------------------------------------------------
(* radixSort.c                                                             *)

RECURSIVE Digits(_)
Digits(n) == IF n = 0 THEN 0 ELSE 1 + Digits(n \div 10)
rdxSortPassCount(s) == IF s = <<>> THEN 0 ELSE Digits(Max(ToSet(s)))

nodeInsertEnd(s, n) == Append(s, n)

hardCodeNodes == FoldLeft(nodeInsertEnd, <<>>, <<782, 82, 375, 9, 283, 832, 387, 102, 38>>)

\* A container for each digit, with its nodes in the order of their arrival.
init == [digit \in 0 .. 9 |-> <<>>]
insertNodeList(containers, n, pos) == [containers EXCEPT ![pos] = Append(@, n)]

\* The nodes of the list, each put where its digit belongs.
Distributed(s) ==
    FoldLeft(LAMBDA containers, n :
                 insertNodeList(containers, n, (n % power) \div (power \div 10)), init, s)

\* The containers, the last one first.
remakeIt_Down(containers) == FlattenSeq([d \in 1 .. 10 |-> containers[10 - d]])

\* The containers, one behind the other.
remakeIt(containers) == FlattenSeq([d \in 1 .. 10 |-> containers[d - 1]])

SortPart(s, next) ==
    /\ list' = s /\ pass' = rdxSortPassCount(s) /\ power' = 10 /\ at' = next

radixSort ==
    /\ at = "main" /\ SortPart(list, "sort")
    /\ UNCHANGED <<lab, todo, original, parts, rev>>

Pass ==
    /\ at \in {"sort", "negatives", "positives"} /\ pass > 0
    /\ list' = remakeIt(Distributed(list))
    /\ power' = power * 10 /\ pass' = pass - 1
    /\ UNCHANGED <<lab, todo, original, parts, at, rev>>

\* radixSort.c returns the sorted list.
Return ==
    /\ at = "sort" /\ pass = 0
    /\ at' = "done"
    /\ UNCHANGED <<lab, todo, original, list, parts, pass, power, rev>>

-----------------------------------------------------------------------------
(* radixSortNegative.c                                                     *)

hardCodeNodesNegative ==
    FoldLeft(nodeInsertEnd, <<>>, <<837, 99, -272, -46, 10, 347, 79, -187, 36, 777, -4>>)

\* The loop starts at the tail.
Split ==
    LET s == <<Last(list)>> \o Front(list)
        minus == SelectSeq(s, LAMBDA n : n < 0)
    IN /\ at = "split"
       /\ parts' = <<[i \in DOMAIN minus |-> -minus[i]], SelectSeq(s, LAMBDA n : n >= 0)>>
       /\ SortPart(parts'[1], "negatives")
       /\ UNCHANGED <<lab, todo, original, rev>>

NegativesSorted ==
    /\ at = "negatives" /\ pass = 0
    /\ parts' = [parts EXCEPT ![1] = list]
    /\ SortPart(parts[2], "positives")
    /\ UNCHANGED <<lab, todo, original, rev>>

\* Without negative numbers, the positive list is the result.
PositivesSorted ==
    LET k == Len(parts[1]) IN
    /\ at = "positives" /\ pass = 0
    /\ IF k = 0 THEN at' = "done" /\ rev' = rev
       ELSE /\ at' = "reverse"
            /\ rev' = [link |-> [i \in 1 .. k |-> (i % k) + 1], n |-> parts[1],
                       prev |-> k, curr |-> 1, next |-> (1 % k) + 1]
    /\ parts' = [parts EXCEPT ![2] = list]
    /\ UNCHANGED <<lab, todo, original, list, pass, power>>

\* The values from node a along the links to node b.
RECURSIVE Nodes(_, _, _)
Nodes(r, a, b) == IF a = b THEN <<r.n[b]>> ELSE <<r.n[a]>> \o Nodes(r, r.link[a], b)

\* One iteration: curr is turned round and negated, until prev meets next;
\* then the negative list is put before the positive one.
Reverse1 ==
    LET link == [rev.link EXCEPT ![rev.curr] = rev.prev]
        r == [link |-> link, n |-> [rev.n EXCEPT ![rev.curr] = -@],
              prev |-> rev.curr, curr |-> rev.next, next |-> link[rev.next]]
    IN /\ at = "reverse"
       /\ rev' = r
       /\ IF r.prev # r.next THEN UNCHANGED <<at, list>>
          ELSE /\ at' = "done"
               /\ list' = Nodes(r, IF parts[2] = <<>> THEN link[r.curr] ELSE r.prev, r.curr)
                            \o parts[2]
       /\ UNCHANGED <<lab, todo, original, parts, pass, power>>

-----------------------------------------------------------------------------
(* sparseMatrix.c: a row is the sequence of its <<pos, num>>.              *)

insertCell(nodes, n, p) ==
    LET before == Len(SelectSeq(nodes, LAMBDA c : c[1] < p)) IN
    IF before < Len(nodes) /\ nodes[before + 1][1] = p
    THEN [nodes EXCEPT ![before + 1] = <<p, n>>]
    ELSE InsertAt(nodes, before + 1, <<p, n>>)

initList == [r \in 1 .. Rows |-> <<>>]

\* The walk goes r links from the first row; nothing is before it.
insertInList(m, r, c, d) ==
    [m EXCEPT ![IF r < 0 THEN 1 ELSE r + 1] = insertCell(@, d, c)]

\* One round of the loop.  The check lets the row behind the last one pass,
\* in which insertInList follows a null pointer; row 0 is the first row, too.
uiCreateSparseMatrix(row, col, data) ==
    LET r == row - 1 IN
    /\ lab = "sparseMatrix" /\ at = "read"
    /\ IF r > Rows \/ col > Columns THEN at' = "exit" /\ UNCHANGED <<original, list>>
       ELSE IF r = Rows THEN at' = "crash" /\ UNCHANGED <<original, list>>
       ELSE /\ list' = insertInList(list, r, col, data)
            /\ original' = [original EXCEPT ![IF r < 0 THEN 1 ELSE row] = (col :> data) @@ @]
            /\ at' = at
    /\ UNCHANGED <<lab, todo, parts, pass, power, rev>>

\* What is printed of a row: the list is read in step with the columns.
RECURSIVE Shown(_, _)
Shown(nodes, i) ==
    IF i > Columns THEN <<>>
    ELSE IF nodes # <<>> /\ Head(nodes)[1] = i
    THEN <<Head(nodes)[2]>> \o Shown(Tail(nodes), i + 1)
    ELSE <<0>> \o Shown(nodes, i + 1)
displaySparseMatrix == [r \in 1 .. Rows |-> Shown(list[r], 1)]

-----------------------------------------------------------------------------
NoReversal == rev = [link |-> <<>>, n |-> <<>>, prev |-> 0, curr |-> 0, next |-> 0]

ListsInit ==
    /\ lab \in {"radixSort", "radixSortNegative", "sparseMatrix"}
    /\ todo = <<>> /\ parts = <<<<>>, <<>>>> /\ power = 10 /\ NoReversal /\ pass = 0
    /\ \/ /\ lab = "sparseMatrix" /\ at = "read"
          /\ list = initList
          /\ original = [r \in 1 .. Rows |-> [c \in 0 .. Columns |-> 0]]
       \/ /\ lab = "radixSortNegative" /\ at = "split"
          /\ list \in Lists \cup {hardCodeNodesNegative} /\ original = list
       \/ /\ lab = "radixSort" /\ at = "main"
          /\ list \in {hardCodeNodes} \cup {s \in Lists : Min(ToSet(s)) >= 0}
          /\ original = list

ListsOff ==
    /\ original = <<>> /\ list = <<>> /\ parts = <<<<>>, <<>>>> /\ at = "off" /\ pass = 0
    /\ power = 10 /\ NoReversal

ListsNext ==
    \/ radixSort \/ Pass \/ Return \/ Split \/ NegativesSorted \/ PositivesSorted \/ Reverse1
    \/ \E row \in 0 .. Rows + 2, col \in 0 .. Columns + 1, data \in Data :
           uiCreateSparseMatrix(row, col, data)

-----------------------------------------------------------------------------
(* Properties                                                              *)

\* A list is sorted in the end, with all its elements, unless exactly two of
\* them are negative: then prev meets next after one iteration, and the
\* second one is neither negated nor turned round.  The matrix shows every
\* value where it was entered, the last one for each cell, in all rows
\* without an entry in column 0, behind which nothing is shown.
ListsAgree ==
    /\ at = "done" /\ (lab = "radixSort" \/ Len(parts[1]) # 2) =>
           list = SortSeq(original, <)
    /\ lab = "sparseMatrix" =>
           \A r \in 1 .. Rows : original[r][0] = 0 =>
               displaySparseMatrix[r] = [c \in 1 .. Columns |-> original[r][c]]
=============================================================================
