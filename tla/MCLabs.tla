--------------------------------- MODULE MCLabs ---------------------------------
(***************************************************************************)
(* The exercises of DS, DPPL, CNS, CDump and CN, and those of OS that use  *)
(* processes, and the shell dlsh, for TLC: each behaviour is one of their  *)
(* programs, and the variables of the others stay as they are.             *)
(***************************************************************************)
EXTENDS SearchTrees, Heaps, Lists, NodeHeap, BigInt, DES, Turing, Peers,
        DlshExec, DlshLine

\* The list that radixSortNegative.c has in a comment, and all short ones
\* over values of up to two digits.
SomeLists ==
    UNION {[1 .. k -> {-21, -12, -2, 0, 3, 20}] : k \in 1 .. 4} \cup
    {<<-272, -2, -367, -89>>}

\* Lines that are empty, too short, too long and of any bits.
SomeTexts == {<<>>, <<65>>, <<72, 101, 108, 108, 111, 32, 119, 111, 114, 108, 100>>,
              [i \in 1 .. 8 |-> 255], <<1, 2, 3, 4, 250, 6, 7, 8>>}

\* The tape and the string of the mains, and all short ones.
SomeWords == UNION {[1 .. k -> {"0", "1"}] : k \in 0 .. 7} \cup
             {<<"1", "1", "1", "0", "0", "1", "0", "1", "1", "1", "1", "1">>}
SomeLetters == UNION {[1 .. k -> {"a", "b"}] : k \in 0 .. 5} \cup
               {<<"a", "b", "a", "a", "b", "a", "b", "a", "b">>}

\* Lines of one and of two parts, and the one that ends a chat.
SomeLines == {<<"hi">>, <<"ho", "ho">>, <<"ex", "it">>}
\* Requests with all operators, a negative number as the operator, a division
\* by 0, and requests that lack an operand or everything.
SomeRequests == {<<"7", "2", "/">>, <<"-3", "2", "%">>, <<"7", "-3", "*">>, <<"7", "2", "-3">>, <<"2", "+">>, <<"7", "0", "/">>,
                 <<"2", "7">>, <<>>}
\* The end of the alphabet and the bars.
SomeAlphabet == <<"a", "b", "c", "|", "|">>

\* All lines of up to three tokens and longer ones of the tokens that matter
\* most, redirections, and pipelines behind && and around a cd.
SomeCommandLines ==
    UNION {[1 .. n -> {"run", "missing", "cd", "cdnowhere", "cdalone", "exit", "|", "&&"}] : n \in 0 .. 3} \cup
    UNION {[1 .. n -> {"run", "cd", "|", "&&"}] : n \in 4 .. 5} \cup
    {<<"run", "<", "file", "|", "run", ">", "file">>, <<"run", ">">>, <<"run", "<", "nofile">>,
     <<"run", "|", "run", "&&", "run", "|", "run">>, <<"run", "|", "cd", "|", "run">>,
     <<"cd", "|", "run", "&&", "run", "|", "run">>}

\* Lines that begin with one another, and two that do not.
SomeKeyed == {<<>>, <<"a">>, <<"a", "a">>, <<"a", "a", "a">>, <<"a", "b">>, <<"b">>}
SomeExitLine == <<"b">>

Init ==
    \E on \in {"trees", "heaps", "lists", "nodes", "big", "des", "turing", "peers", "dlsh", "line"} :
        /\ IF on = "trees" THEN TreesInit ELSE TreesOff
        /\ IF on = "heaps" THEN HeapsInit ELSE HeapsOff
        /\ IF on = "lists" THEN ListsInit ELSE ListsOff
        /\ IF on = "nodes" THEN NodeInit ELSE NodesOff
        /\ IF on = "big" THEN BigInit ELSE BigOff
        /\ IF on = "des" THEN DESInit ELSE DESOff
        /\ IF on = "turing" THEN TuringInit ELSE TuringOff
        /\ IF on = "peers" THEN PeersInit ELSE PeersOff
        /\ IF on = "dlsh" THEN DlshInit ELSE DlshOff
        /\ IF on = "line" THEN LineInit ELSE LineOff

Next ==
    \/ /\ TreesNext
       /\ UNCHANGED <<heapVars, listVars, nodeVars, bigVars, desVars,
                      turingVars, peerVars, dlshVars, lineVars>>
    \/ /\ HeapsNext
       /\ UNCHANGED <<treeVars, listVars, nodeVars, bigVars, desVars,
                      turingVars, peerVars, dlshVars, lineVars>>
    \/ /\ ListsNext
       /\ UNCHANGED <<treeVars, heapVars, nodeVars, bigVars, desVars,
                      turingVars, peerVars, dlshVars, lineVars>>
    \/ /\ NodeNext
       /\ UNCHANGED <<treeVars, heapVars, listVars, bigVars, desVars,
                      turingVars, peerVars, dlshVars, lineVars>>
    \/ /\ BigNext
       /\ UNCHANGED <<treeVars, heapVars, listVars, nodeVars, desVars,
                      turingVars, peerVars, dlshVars, lineVars>>
    \/ /\ DESNext
       /\ UNCHANGED <<treeVars, heapVars, listVars, nodeVars, bigVars,
                      turingVars, peerVars, dlshVars, lineVars>>
    \/ /\ TuringNext
       /\ UNCHANGED <<treeVars, heapVars, listVars, nodeVars, bigVars,
                      desVars, peerVars, dlshVars, lineVars>>
    \/ /\ PeersNext
       /\ UNCHANGED <<treeVars, heapVars, listVars, nodeVars, bigVars,
                      desVars, turingVars, dlshVars, lineVars>>
    \/ /\ DlshNext
       /\ UNCHANGED <<treeVars, heapVars, listVars, nodeVars, bigVars,
                      desVars, turingVars, peerVars, lineVars>>
    \/ /\ LineNext
       /\ UNCHANGED <<treeVars, heapVars, listVars, nodeVars, bigVars,
                      desVars, turingVars, peerVars, dlshVars>>

\* Only dlsh has processes that need a scheduler.
LabsSpec ==
    /\ Init
    /\ [][Next]_<<lab, todo, treeVars, heapVars, listVars, nodeVars, bigVars,
                desVars, turingVars, peerVars, dlshVars, lineVars>>
    /\ DlshFair
=============================================================================
