---------------------------------- MODULE Lab ----------------------------------
(***************************************************************************)
(* What the exercises of DS, CNS, DPPL and CDump share: each behaviour is  *)
(* a run of one program, which works through the calls its main makes.     *)
(* Another list of calls stands for another user or another main.          *)
(***************************************************************************)
EXTENDS Naturals, Sequences

VARIABLES lab,      \* the program
          todo      \* the calls its main has still to make

\* The call c is the next one of main; a main without calls makes any.
Calls(c) == \/ todo # <<>> /\ Head(todo) = c /\ todo' = Tail(todo)
            \/ todo = <<>> /\ todo' = todo
=============================================================================
