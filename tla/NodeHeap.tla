-------------------------------- MODULE NodeHeap --------------------------------
(***************************************************************************)
(* DPPL/Heap.cpp: a min-heap of nodes taken from a free list of            *)
(* freeListSize nodes and given back to it.  Node 0 is nullptr; prev, which*)
(* nothing reads, is left out.                                             *)
(***************************************************************************)
EXTENDS Lab, Integers, FiniteSets, SequencesExt, BagsExt

CONSTANTS freeListSize,
          Numbers       \* what is inserted

Node == 1 .. freeListSize

VARIABLES freeList,     \* its first node
          next,         \* of every node
          data,         \* of every node
          nodes,        \* the vector heap
          stored,       \* the bag of the data that should be in it
          exited

nodeVars == <<freeList, next, data, nodes, stored, exited>>

Initialize ==
    /\ next = [n \in Node |-> IF n < freeListSize THEN n + 1 ELSE 0]
    /\ freeList = 1
    /\ data = [n \in Node |-> 0]

Swap(h, i, j) == [h EXCEPT ![i] = h[j], ![j] = h[i]]

RECURSIVE InsertHeap(_, _, _)
InsertHeap(h, d, i) ==
    IF i = 1 \/ d[h[i \div 2]] <= d[h[i]] THEN h
    ELSE InsertHeap(Swap(h, i, i \div 2), d, i \div 2)

RECURSIVE Heapify(_, _)
Heapify(h, index) ==
    LET Below == {c \in {2 * index, 2 * index + 1} : c <= Len(h) /\ data[h[c]] < data[h[index]]}
    IN IF Below = {} THEN h
       ELSE LET smallest == CHOOSE c \in Below :
                    \A b \in Below : data[h[c]] < data[h[b]] \/ (data[h[c]] = data[h[b]] /\ c <= b)
            IN Heapify(Swap(h, index, smallest), smallest)

\* The last node is left at the root.
ExtractMin_NoHeapify ==
    IF Len(nodes) = 1 THEN <<>> ELSE Front([nodes EXCEPT ![1] = Last(nodes)])

\* ExtractMin: the root, and the vector with the last node in its place.
ExtractMin ==
    IF Len(nodes) = 1 THEN <<>>
    ELSE Heapify(Front([nodes EXCEPT ![1] = Last(nodes)]), 1)

\* Takes the first free node, without which the program exits.
insert(n) ==
    /\ lab = "Heap" /\ ~exited
    /\ Calls(<<"insert", n>>)
    /\ IF freeList = 0 THEN exited' = TRUE /\ UNCHANGED <<freeList, next, data, nodes, stored>>
       ELSE /\ freeList' = next[freeList]
            /\ next' = [next EXCEPT ![freeList] = 0]
            /\ data' = [data EXCEPT ![freeList] = n]
            /\ nodes' = InsertHeap(Append(nodes, freeList), data', Len(nodes) + 1)
            /\ stored' = BagAdd(stored, n)
            /\ UNCHANGED exited
    /\ UNCHANGED lab

\* InsertNode puts the root in front of the free list.
remove ==
    /\ lab = "Heap" /\ ~exited
    /\ Calls(<<"remove", 0>>)
    /\ IF nodes = <<>> THEN exited' = TRUE /\ UNCHANGED <<freeList, next, data, nodes, stored>>
       ELSE /\ nodes' = ExtractMin
            /\ next' = IF freeList = 0 THEN next ELSE [next EXCEPT ![nodes[1]] = freeList]
            /\ freeList' = nodes[1]
            /\ stored' = BagRemove(stored, data[nodes[1]])
            /\ UNCHANGED <<data, exited>>
    /\ UNCHANGED lab

NodeMain == [i \in 1 .. 6 |-> <<"insert", <<3, 9, 4, 11, 5, 1>>[i]>>] \o <<<<"remove", 0>>>> \o
            [i \in 1 .. 4 |-> <<"insert", <<7, 1, 8, 6>>[i]>>]

NodesOff == Initialize /\ nodes = <<>> /\ stored = EmptyBag /\ exited = FALSE

NodeInit ==
    /\ lab = "Heap" /\ todo \in {<<>>, NodeMain}
    /\ NodesOff

NodeNext ==
    \/ \E n \in Numbers \cup {c[2] : c \in ToSet(todo)} : insert(n)
    \/ remove

-----------------------------------------------------------------------------
\* The nodes along the free list; a cycle would be cut by the bound.
FreeNodes ==
    LET Reach[k \in 0 .. freeListSize] ==
            IF k = 0 THEN {freeList} ELSE Reach[k - 1] \cup {next[n] : n \in Reach[k - 1] \ {0}}
    IN Reach[freeListSize] \ {0}

\* Every node is either in the free list or once in the heap, however often
\* it went from one to the other; the heap holds exactly the data inserted
\* and not yet removed; and no child is smaller than its parent, so that
\* remove takes the minimum.
NodesKept ==
    /\ FreeNodes = Node \ ToSet(nodes)
    /\ Cardinality(ToSet(nodes)) = Len(nodes)
    /\ ToBag([i \in DOMAIN nodes |-> data[nodes[i]]]) = stored
    /\ \A i \in 2 .. Len(nodes) : data[nodes[i \div 2]] <= data[nodes[i]]
=============================================================================
