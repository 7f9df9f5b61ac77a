---------------------------- MODULE MCEchoServer ----------------------------
(* Instances of EchoServer for TLC.                                        *)
EXTENDS EchoServer

\* One client talks, the other only listens: it may be missed by the sweep,
\* stall it or leave.
OneTalks == [c \in Clients |-> IF c = CHOOSE d \in Clients : TRUE THEN 2 ELSE 0]
=============================================================================
