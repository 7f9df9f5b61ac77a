----------------------------- MODULE MCSchedSim -----------------------------
(* Instances of SchedSim and of the four programs before it for TLC.       *)
EXTENDS Schedulers

\* Lists of three processes over small times, same-tick arrivals and
\* unsorted lists included.
Small == {<<Process(1, a[1], c[1], 2, 3), Process(2, a[2], c[2], 3, 6),
            Process(3, a[3], c[3], 1, 7)>> :
            a \in [1 .. 3 -> 0 .. 2], c \in {<<7, 2, 6>>, <<4, 7, 6>>, <<3, 8, 7>>}}

\* One scheduler, or two of them with the same Device.
Arglists == {<<"sjf">>, <<"srtf">>, <<"rr">>, <<"vrr">>, <<"vrr", "rr">>}
=============================================================================
