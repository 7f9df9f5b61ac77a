-------------------------------- MODULE DlshLine --------------------------------
(***************************************************************************)
(* The line editor of dlsh (tty.go): the line and its cursor, the history  *)
(* and the way through it with the arrow keys, and the suggestions, a heap *)
(* of the entries that begin with what was typed (heap.go, trie.go).  A    *)
(* node of the trie is named by the line that it stands for.  A read that  *)
(* returns several characters counts for its first one.                    *)
(***************************************************************************)
EXTENDS Lab, Integers, SequencesExt, FiniteSetsExt

CONSTANTS Keyed,        \* the lines that keys may make
          ExitLine,     \* the one that ends the session
          MaxEntries    \* of the history

VARIABLES session,      \* "editing", or how it ended
          line, cursor, \* tty.Inp
          past,         \* tty.hist: pList, index, base and buf
          lineIdx,
          sugg,         \* its nodes and its size, or NoHeap
          dlshrc,       \* the file
          typed,        \* the line that was last typed (history)
          edited        \* it was typed on an entry (history)

lineVars == <<session, line, cursor, past, lineIdx, sugg, dlshrc, typed, edited>>

-----------------------------------------------------------------------------
(* heap.go: nodes[1] is the top; those behind size are put aside.          *)

NoHeap == [nodes |-> <<>>, size |-> -1]
Exchange(s, i, j) == [s EXCEPT ![i] = s[j], ![j] = s[i]]

RECURSIVE restoreMaxHeap(_, _)
restoreMaxHeap(nodes, i) ==
    IF i > 1 /\ nodes[i \div 2].Priority < nodes[i].Priority
    THEN restoreMaxHeap(Exchange(nodes, i, i \div 2), i \div 2)
    ELSE nodes

RECURSIVE maxHeapifyNodes(_, _, _)
maxHeapifyNodes(nodes, size, i) ==
    LET among == {j \in {i, 2 * i, 2 * i + 1} : j <= size}
        largest == CHOOSE j \in among : \A k \in among : nodes[k].Priority <= nodes[j].Priority
    IN IF largest = i THEN nodes ELSE maxHeapifyNodes(Exchange(nodes, i, largest), size, largest)

InsertNode(heap, node) ==
    [nodes |-> restoreMaxHeap(Append(heap.nodes, node), heap.size + 1), size |-> heap.size + 1]
Top(heap) == heap.nodes[1]
HasNext(heap) == heap.size > 1
HasPrev(heap) == heap.size < Len(heap.nodes)
Next1(heap) ==
    [nodes |-> maxHeapifyNodes(Exchange(heap.nodes, 1, heap.size), heap.size - 1, 1), size |-> heap.size - 1]
\* The node is not put in its place.
Prev1_NoRestore(heap) == [heap EXCEPT !.size = @ + 1]
Prev1(heap) == [nodes |-> restoreMaxHeap(heap.nodes, heap.size + 1), size |-> heap.size + 1]

-----------------------------------------------------------------------------
(* trie.go and the history of tty.go: entries are counted from 0.          *)

Size(h) == Len(h.pList)
NodeAt(h, i) == IF i \in 0 .. Size(h) - 1 THEN <<h.pList[i + 1]>> ELSE <<>>
EntryAt(h, i) == IF i = Size(h) THEN <<>> ELSE h.pList[i + 1]

\* The entries that begin with s, but one that is the same as the one before.
Matching(h, s) == {i \in 0 .. Size(h) - 1 : IsPrefix(s, EntryAt(h, i))}
Unrepeated(h, s) == {i \in Matching(h, s) :
                   LET before == {j \in Matching(h, s) : j < i}
                   IN before # {} => EntryAt(h, Max(before)) # EntryAt(h, i)}
Search(h, s) ==
    IF s = <<>> THEN NoHeap
    ELSE FoldLeft(LAMBDA heap, i : InsertNode(heap, [Data |-> EntryAt(h, i), Priority |-> i]),
                  [nodes |-> <<>>, size |-> 0], SetToSortSeq(Unrepeated(h, s), <))

AppendLine(h, s) == [h EXCEPT !.pList = Append(@, s), !.index = Size(h) + 1]
PrevIndex(h) ==
    IF h.index = 0 THEN 0
    ELSE Max({j \in 0 .. h.index - 1 : j = 0 \/ NodeAt(h, j) # NodeAt(h, j + 1)})
NextIndex(h) ==
    IF h.index = Size(h) THEN Size(h)
    ELSE Min({j \in h.index + 1 .. Size(h) : j = Size(h) \/ NodeAt(h, j) # NodeAt(h, j - 1)})

LoadHist == [pList |-> dlshrc, index |-> Len(dlshrc), base |-> Len(dlshrc), buf |-> <<>>]

-----------------------------------------------------------------------------
(* The keys.  What Suggest shows is what the top has behind the length of  *)
(* the line: it panics if the top is shorter.                              *)

Offers(heap) == heap.size > 0
SuggestPanics(heap, s) == Offers(heap) /\ Len(s) > Len(Top(heap).Data)
Editing == lab = "dlsh line" /\ session = "editing"

\* The loop of Read continues with this line, cursor and these suggestions.
Shows(s, c, heap) ==
    /\ line' = s /\ cursor' = c /\ sugg' = heap
    /\ session' = IF SuggestPanics(heap, s) THEN "panicked" ELSE "editing"
Edits(s, c) ==
    /\ s \in Keyed /\ Shows(s, c, Search(past, s))
    /\ typed' = s /\ edited' = (past.index # Size(past))
    /\ UNCHANGED <<past, lineIdx, dlshrc>>

TypeKey == /\ Editing
       /\ \E s \in Keyed : Len(s) = Len(line) + 1 /\ RemoveAt(s, cursor + 1) = line /\ Edits(s, cursor + 1)
Backspace ==
    /\ Editing
    /\ IF cursor > 0 THEN Edits(RemoveAt(line, cursor), cursor - 1) ELSE Edits(line, cursor)

EnterLine ==
    /\ Editing /\ Size(past) < MaxEntries
    /\ past' = AppendLine(past, line)
    /\ lineIdx' = lineIdx + 1
    /\ IF line = ExitLine
       THEN /\ session' = "exited" /\ UNCHANGED <<line, cursor, sugg>>
            /\ dlshrc' = dlshrc \o SubSeq(past'.pList, past.base + 1, Size(past'))
       ELSE Shows(<<>>, 0, NoHeap) /\ dlshrc' = dlshrc
    /\ typed' = <<>> /\ edited' = FALSE

\* An arrow: entry i is shown, with this heap of suggestions.
Walk(i, s, heap, buf) == /\ past' = [past EXCEPT !.index = i, !.buf = buf]
                         /\ Shows(s, Len(s), heap)
                         /\ UNCHANGED <<lineIdx, dlshrc, typed, edited>>
Stay(buf) == /\ past' = [past EXCEPT !.buf = buf] /\ Shows(line, cursor, sugg)
             /\ UNCHANGED <<lineIdx, dlshrc, typed, edited>>

Up ==
    /\ Editing /\ Size(past) # 0
    /\ LET buf == IF past.index - past.base = lineIdx THEN line ELSE past.buf
       IN IF Offers(sugg)
          THEN IF HasNext(sugg)
               THEN LET heap == Next1(sugg) IN Walk(Top(heap).Priority, Top(heap).Data, heap, buf)
               ELSE Stay(buf)
          ELSE IF past.index = Size(past) /\ line # <<>> THEN Stay(buf)
          ELSE Walk(PrevIndex(past), EntryAt(past, PrevIndex(past)), sugg, buf)
Down ==
    /\ Editing /\ Size(past) # 0 /\ past.index # Size(past)
    /\ IF Offers(sugg)
       THEN IF HasPrev(sugg)
            THEN LET heap == Prev1(sugg) IN Walk(Top(heap).Priority, Top(heap).Data, heap, past.buf)
            ELSE Walk(Size(past), past.buf, sugg, past.buf)
       ELSE IF past.index - past.base = lineIdx - 1 THEN Walk(past.index + 1, <<>>, sugg, past.buf)
       ELSE Walk(NextIndex(past), EntryAt(past, NextIndex(past)), sugg, past.buf)

ArrowLeft == /\ Editing /\ cursor > 0
             /\ Shows(line, cursor - 1, sugg)
             /\ UNCHANGED <<past, lineIdx, dlshrc, typed, edited>>
ArrowRight == /\ Editing /\ cursor < Len(line)
              /\ Shows(line, cursor + 1, sugg)
              /\ UNCHANGED <<past, lineIdx, dlshrc, typed, edited>>
\* The suggestion becomes the line, and stays the suggestion.
Accept == /\ Editing /\ cursor = Len(line) /\ Offers(sugg)
          /\ Shows(Top(sugg).Data, Len(Top(sugg).Data), sugg)
          /\ typed' = Top(sugg).Data /\ edited' = (past.index # Size(past))
          /\ UNCHANGED <<past, lineIdx, dlshrc>>

\* The shell is started again.
Restart ==
    /\ lab = "dlsh line" /\ session # "editing"
    /\ past' = LoadHist /\ lineIdx' = 0
    /\ Shows(<<>>, 0, NoHeap) /\ typed' = <<>> /\ edited' = FALSE
    /\ UNCHANGED dlshrc

-----------------------------------------------------------------------------
LineOff == /\ session = "off" /\ line = <<>> /\ cursor = 0 /\ lineIdx = 0 /\ sugg = NoHeap
           /\ dlshrc = <<>> /\ past = LoadHist /\ typed = <<>> /\ edited = FALSE
LineInit == /\ lab = "dlsh line" /\ todo = <<>>
            /\ session = "editing" /\ line = <<>> /\ cursor = 0 /\ lineIdx = 0 /\ sugg = NoHeap
            /\ dlshrc = <<>> /\ past = LoadHist /\ typed = <<>> /\ edited = FALSE
LineNext == /\ \/ TypeKey \/ Backspace \/ EnterLine \/ Up \/ Down \/ ArrowLeft \/ ArrowRight \/ Accept \/ Restart
            /\ UNCHANGED <<lab, todo>>

-----------------------------------------------------------------------------
\* Neither the history nor the line gets lost.  Suggestions: of the n that
\* are left the newest is on top, and those put aside come back in order.
\* What the arrows show is the entry of the index, and at the end of the way
\* back what had been typed; only a line that was typed on an entry may be
\* replaced with an older one, whose length can make Suggest panic.  The file
\* has what earlier sessions entered, and all that this one has when it exits.
LineKept ==
    lab = "dlsh line" =>
    /\ cursor \in 0 .. Len(line) /\ past.index \in 0 .. Size(past)
    /\ Size(past) = past.base + lineIdx
    /\ Offers(sugg) =>
           LET n == sugg.size
               order == SortSeq([i \in DOMAIN sugg.nodes |-> sugg.nodes[i].Priority], <)
           IN /\ {sugg.nodes[i].Priority : i \in 1 .. n} = {order[i] : i \in 1 .. n}
              /\ Top(sugg).Priority = order[n]
              /\ \A i \in n + 1 .. Len(order) : sugg.nodes[i].Priority = order[i]
    /\ session = "editing" /\ ~edited =>
           line = IF past.index = Size(past) THEN typed ELSE EntryAt(past, past.index)
    /\ session = "panicked" => edited
    /\ dlshrc = IF session = "exited" THEN past.pList ELSE SubSeq(past.pList, 1, past.base)
=============================================================================
