--------------------------------- MODULE Heaps ---------------------------------
(***************************************************************************)
(* The heaps and priority queues of DS: heapAssignment.c (a min-heap in an *)
(* array, made a max-heap, and an array sorted in place), heap.c (a        *)
(* max-heap and a min-heap), priorityQueueHeap.c (an array of tasks to be  *)
(* sorted by priority) and priorityQueue.c (a sorted doubly linked list).  *)
(*                                                                         *)
(* Arrays are sequences, so that indices start at 1, and pos is the        *)
(* length.  A task or an entry of the queue is <<priority, arrival>>, the  *)
(* arrival standing for the task number or the entry's address.            *)
(***************************************************************************)
EXTENDS Lab, Integers, FiniteSetsExt, SequencesExt, BagsExt

CONSTANTS Items,    \* what may be inserted
          hSize     \* the size of the arrays, and the entries ever queued

VARIABLES heap,     \* the array, or the list from front to rear
          held,     \* the bag of what it ought to hold
          shape     \* what main has made of it; "exit" once it stopped

heapVars == <<heap, held, shape>>

-----------------------------------------------------------------------------
(* heapAssignment.c                                                        *)

\* An element goes above its parent; tasks are compared by priority.
heapCondition(current, parent, flag) ==
    \/ flag = "max" /\ current > parent
    \/ flag = "min" /\ current < parent
    \/ flag = "urgent" /\ current[1] > parent[1]

RECURSIVE SiftUp(_, _, _)
SiftUp(a, c, flag) ==
    LET p == c \div 2 IN
    IF c = 1 \/ ~heapCondition(a[c], a[p], flag) THEN a
    ELSE SiftUp([a EXCEPT ![c] = a[p], ![p] = a[c]], p, flag)

\* Sifting only the last one.
heapify_Last(a, pos, flag) == IF pos = 0 THEN a ELSE SiftUp(a, pos, flag)

\* Sifts the first pos elements up, one after the other.
heapify(a, pos, flag) ==
    FoldLeft(LAMBDA b, i : SiftUp(b, i, flag), a, [i \in 1 .. pos |-> i])

minHeapify(a) == heapify(a, Len(a), "min")
maxHeapify(a) == heapify(a, Len(a), "max")

\* Each suffix in turn is made a min-heap.
heapSort(a) ==
    FoldLeft(LAMBDA b, u : SubSeq(b, 1, u - 1) \o minHeapify(SubSeq(b, u, Len(b))),
             a, [u \in DOMAIN a |-> u])

searchInHeap(a, item) == {i \in DOMAIN a : a[i] = item}

\* The first occurrence of item gives its place to the last element.
minHeapDelete(a, item) ==
    LET i == CHOOSE i \in searchInHeap(a, item) : \A j \in searchInHeap(a, item) : i <= j
    IN minHeapify(Front([a EXCEPT ![i] = Last(a)]))

Insert(n, size) ==
    /\ lab = "heapAssignment" /\ shape = "min"
    /\ IF Len(heap) >= size THEN shape' = "exit" /\ UNCHANGED <<heap, held>>
       ELSE /\ heap' = minHeapify(Append(heap, n))
            /\ held' = BagAdd(held, n)
            /\ shape' = shape
    /\ UNCHANGED <<lab, todo>>

Delete(item) ==
    /\ lab = "heapAssignment" /\ shape = "min"
    /\ IF searchInHeap(heap, item) = {} THEN shape' = "exit" /\ UNCHANGED <<heap, held>>
       ELSE /\ heap' = minHeapDelete(heap, item)
            /\ held' = BagRemove(held, item)
            /\ shape' = shape
    /\ UNCHANGED <<lab, todo>>

\* The greatest is searched from one end to the other.
deleteMax == lab = "heapAssignment" /\ \E item \in ToSet(heap) :
                 (\A other \in ToSet(heap) : other <= item) /\ Delete(item)

\* The array that the user enters.
Enter(n) ==
    /\ lab = "heapAssignment" /\ shape = "array" /\ Len(heap) < hSize
    /\ heap' = Append(heap, n) /\ held' = BagAdd(held, n)
    /\ UNCHANGED <<lab, todo, shape>>

buildMaxHeap ==
    /\ lab = "heapAssignment" /\ shape \in {"array", "min"}
    /\ heap' = maxHeapify(heap) /\ shape' = "max"
    /\ UNCHANGED <<lab, todo, held>>

Sort ==
    /\ lab = "heapAssignment" /\ shape = "max"
    /\ heap' = heapSort(heap) /\ shape' = "sorted"
    /\ UNCHANGED <<lab, todo, held>>

-----------------------------------------------------------------------------
(* heap.c: only the inserted element is sifted up.                         *)

HeapInsert(n, flag) ==
    /\ lab = "heap" /\ shape = flag
    /\ IF Len(heap) >= hSize THEN shape' = "exit" /\ UNCHANGED <<heap, held>>
       ELSE /\ heap' = SiftUp(Append(heap, n), Len(heap) + 1, flag)
            /\ held' = BagAdd(held, n)
            /\ shape' = shape
    /\ UNCHANGED <<lab, todo>>

maxHeapInsert(n) == HeapInsert(n, "max")
minHeapInsert(n) == HeapInsert(n, "min")

\* It takes a full heap for an invalid one.
displayHeap ==
    /\ lab = "heap" /\ shape \in {"max", "min"} /\ Len(heap) >= hSize
    /\ shape' = "exit"
    /\ UNCHANGED <<lab, todo, heap, held>>

-----------------------------------------------------------------------------
(* priorityQueueHeap.c                                                     *)

\* The loop leaves one element more out of each suffix than was sorted.
PrioritySort(a) ==
    FoldLeft(LAMBDA b, u : SubSeq(b, 1, u - 1) \o
                           heapify(SubSeq(b, u, Len(b)), Len(b) - u, "urgent"),
             a, [u \in DOMAIN a |-> u])

EnterTask(priority) ==
    /\ lab = "priorityQueueHeap" /\ shape = "array" /\ Len(heap) < hSize
    /\ heap' = Append(heap, <<priority, Len(heap) + 1>>)
    /\ held' = BagAdd(held, <<priority, Len(heap) + 1>>)
    /\ UNCHANGED <<lab, todo, shape>>

SortTasks ==
    /\ lab = "priorityQueueHeap" /\ shape = "array"
    /\ heap' = PrioritySort(heap) /\ shape' = "tasks"
    /\ UNCHANGED <<lab, todo, held>>

-----------------------------------------------------------------------------
(* priorityQueue.c                                                         *)

\* Before the first entry that is not greater.
Enqueued(q, e) ==
    LET ahead == Len(SelectSeq(q, LAMBDA x : x[1] > e[1])) IN InsertAt(q, ahead + 1, e)

\* The queue that was emptied has a front that points to a freed node
\* ("dangling"): main does not enqueue any more.
enqueue(n) ==
    /\ lab = "priorityQueue" /\ shape = "queue"
    /\ \E k \in 1 .. hSize :
           /\ Max({0} \cup {x[2] : x \in ToSet(heap)}) = k - 1
           /\ heap' = Enqueued(heap, <<n, k>>) /\ held' = BagAdd(held, <<n, k>>)
    /\ UNCHANGED <<lab, todo, shape>>

dequeue ==
    /\ lab = "priorityQueue" /\ heap # <<>>
    /\ heap' = Front(heap) /\ held' = BagRemove(held, Last(heap))
    /\ shape' = IF Len(heap) = 1 THEN "dangling" ELSE shape
    /\ UNCHANGED <<lab, todo>>

-----------------------------------------------------------------------------
HeapsInit ==
    /\ lab \in {"heapAssignment", "heap", "priorityQueueHeap", "priorityQueue"}
    /\ shape \in CASE lab = "heapAssignment" -> {"min", "array"}
                   [] lab = "heap" -> {"min", "max"}
                   [] lab = "priorityQueueHeap" -> {"array"}
                   [] OTHER -> {"queue"}
    /\ todo = <<>> /\ heap = <<>> /\ held = EmptyBag

HeapsOff == heap = <<>> /\ held = EmptyBag /\ shape = "none"

HeapsNext ==
    \/ \E n \in Items : \/ Insert(n, hSize) \/ Delete(n) \/ Enter(n)
                       \/ maxHeapInsert(n) \/ minHeapInsert(n)
                       \/ EnterTask(n) \/ enqueue(n)
    \/ deleteMax \/ buildMaxHeap \/ Sort \/ displayHeap \/ SortTasks \/ dequeue

HeapsSpec == HeapsInit /\ [][HeapsNext]_<<lab, todo, heapVars>>

-----------------------------------------------------------------------------
(* Properties                                                              *)

MostUrgentFirst(tasks) == \A i, j \in DOMAIN tasks : i < j => tasks[i][1] >= tasks[j][1]

HeapOrdered ==
    \A c \in 2 .. Len(heap) : ~heapCondition(heap[c], heap[c \div 2], shape)

\* Each array is what its program calls it, a min-heap, a max-heap or the
\* sorted array, and holds each element as often as it was inserted and not
\* deleted, whatever was deleted from its middle (heapAssignment.c, heap.c).
\* The queue always has the smallest entry, the earliest of several, at its
\* rear, where dequeue takes it (priorityQueue.c).  Of the tasks all but the
\* one entered last are in order, whatever came before: that one stays where
\* it is, behind them, which TasksInOrder is about (priorityQueueHeap.c).
HeapsKept ==
    /\ ToBag(heap) = held
    /\ shape \in {"min", "max"} => HeapOrdered
    /\ shape = "sorted" => IsSorted(heap, <=)
    /\ shape = "queue" => \A i \in 1 .. Len(heap) - 1 :
           \/ heap[i][1] > heap[i + 1][1]
           \/ (heap[i][1] = heap[i + 1][1] /\ heap[i][2] > heap[i + 1][2])
    /\ shape = "tasks" /\ heap # <<>> =>
           MostUrgentFirst(Front(heap)) /\ Last(heap)[2] = Len(heap)

\* The sorted tasks are printed "As per Prioirty [Higher Priority Executes
\* First]" (priorityQueueHeap.c, 78): each before those that are less urgent.
TasksInOrder == shape = "tasks" => MostUrgentFirst(heap)

=============================================================================
