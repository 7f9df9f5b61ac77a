----------------------------- MODULE BoundedLifo -----------------------------
(***************************************************************************)
(* What the bounded buffer of OS/SemaphoreProdCons.c promises, without     *)
(* semaphores, program counters or array indices: a producer adds          *)
(* consecutive items while there is room, a consumer takes the item added  *)
(* last.  Nothing is lost, duplicated or made up, and each operation is    *)
(* one step.                                                               *)
(***************************************************************************)
EXTENDS Naturals, Sequences

CONSTANTS BS,        \* capacity of the buffer (BS in the code)
          IntRange   \* number of values an item (a C int counter) can take

VARIABLES stack,     \* the items in the buffer, the oldest first
          next,      \* the item the producer will add next
          got        \* the item the consumer took last

vars == <<stack, next, got>>

Items == 0 .. IntRange - 1

Init == stack = <<>> /\ next = 0 /\ got = 0

Put == /\ Len(stack) < BS
       /\ stack' = Append(stack, next)
       /\ next' = (next + 1) % IntRange
       /\ UNCHANGED got

Take == /\ Len(stack) > 0
        /\ got' = stack[Len(stack)]
        /\ stack' = SubSeq(stack, 1, Len(stack) - 1)
        /\ UNCHANGED next

Next == Put \/ Take

Spec == Init /\ [][Next]_vars
=============================================================================
