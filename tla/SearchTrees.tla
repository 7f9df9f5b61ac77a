------------------------------ MODULE SearchTrees ------------------------------
(***************************************************************************)
(* The search trees of DS: AVLTree.c (a tree rebalanced on every insertion *)
(* and deletion), dsaLabEx.c (a search tree made an AVL tree afterwards)   *)
(* and btree.c (a B-tree of order M = 5).                                  *)
(*                                                                         *)
(* A binary tree is <<>> (NULL) or <<left, n, right>>, with its cached ht  *)
(* as a fourth component in dsaLabEx.c; a node of the B-tree is            *)
(* <<keys, links>> with one link more than keys.  Keys are distinct: they  *)
(* stand for the addresses that the code compares.                         *)
(***************************************************************************)
EXTENDS Lab, Integers, FiniteSets, SequencesExt

CONSTANTS Keys,     \* the keys of a main that makes any calls
          M         \* the order of the B-tree

VARIABLES tree,     \* what main's pointer leads to
          keys,     \* the keys it ought to hold
          phase     \* "insert"; "delete" once main deletes or rebuilds;
                    \* "disorder" once AVLTree.c deleted a node with several
                    \* keys to its right

treeVars == <<tree, keys, phase>>

Nil == <<>>
Left(t) == t[1]
Key(t) == t[2]
Right(t) == t[3]
Larger(a, b) == IF a > b THEN a ELSE b

RECURSIVE height(_)
height(t) == IF t = Nil THEN 1 ELSE 1 + Larger(height(Left(t)), height(Right(t)))

\* What the balance check prints of a tree: no "Inavlid AVL Tree".
RECURSIVE Balanced(_)
Balanced(t) ==
    t = Nil \/ /\ Balanced(Left(t))
               /\ Balanced(Right(t))
               /\ height(Left(t)) - height(Right(t)) \in -1 .. 1

RECURSIVE InOrder(_)
InOrder(t) ==
    IF t = Nil THEN <<>> ELSE InOrder(Left(t)) \o <<Key(t)>> \o InOrder(Right(t))

-----------------------------------------------------------------------------
(* AVLTree.c                                                               *)

RotateRL(t) == LET m == Right(t)   b == Left(m) IN
    <<<<Left(t), Key(t), Left(b)>>, Key(b), <<Right(b), Key(m), Right(m)>>>>
RotateRR(t) == LET m == Right(t) IN
    <<<<Left(t), Key(t), Left(m)>>, Key(m), Right(m)>>
RotateLR(t) == LET m == Left(t)   b == Right(m) IN
    <<<<Left(m), Key(m), Left(b)>>, Key(b), <<Right(b), Key(t), Right(t)>>>>
RotateLL(t) == LET m == Left(t) IN
    <<Left(m), Key(m), <<Right(m), Key(t), Right(t)>>>>

\* The rotation at t, where btm is the key of the grandchild to be raised.
Rotated(t, btm) ==
    LET score == height(Left(t)) - height(Right(t))
        Is(s) == s # Nil /\ Key(s) = btm
    IN IF score < -1 THEN (IF Is(Left(Right(t))) THEN RotateRL(t) ELSE RotateRR(t))
       ELSE IF score > 1 THEN (IF Is(Right(Left(t))) THEN RotateLR(t) ELSE RotateLL(t))
       ELSE t

\* path is <<top, mid, btm>>, as far as they are not NULL.
RECURSIVE insertNode(_, _)
insertNode(t, n) ==
    IF t = Nil THEN [tree |-> <<Nil, n, Nil>>, path |-> <<n>>]
    ELSE LET below == insertNode(IF n < Key(t) THEN Left(t) ELSE Right(t), n)
             grown == IF n < Key(t) THEN <<below.tree, Key(t), Right(t)>>
                      ELSE <<Left(t), Key(t), below.tree>>
             up == <<Key(t)>> \o below.path
             path == SubSeq(up, 1, IF Len(up) > 3 THEN 3 ELSE Len(up))
             new == IF Len(path) < 3 THEN grown ELSE Rotated(grown, path[3])
         IN [tree |-> new,
             path |-> IF Key(new) = Key(t) THEN path
                      ELSE IF Key(new) = path[2] THEN Tail(path)
                      ELSE <<path[3], path[2], path[3]>>]

RECURSIVE MaxKey(_)
MaxKey(t) == IF Right(t) = Nil THEN Key(t) ELSE MaxKey(Right(t))
RECURSIVE WithoutMax(_)
WithoutMax(t) == IF Right(t) = Nil THEN Left(t)
                 ELSE <<Left(t), Key(t), WithoutMax(Right(t))>>

\* The root is replaced by the maximum of what is on its right.
Removed(t) == IF Right(t) = Nil THEN Left(t)
              ELSE <<Left(t), MaxKey(Right(t)), WithoutMax(Right(t))>>

Heavier(t) == IF height(Left(t)) > height(Right(t)) THEN Left(t) ELSE Right(t)

RECURSIVE deleteNode(_, _)
deleteNode(t, n) ==
    IF t = Nil THEN Nil
    ELSE LET new == IF n < Key(t) THEN <<deleteNode(Left(t), n), Key(t), Right(t)>>
                    ELSE IF n > Key(t) THEN <<Left(t), Key(t), deleteNode(Right(t), n)>>
                    ELSE Removed(t)
         IN IF new = Nil \/ height(Left(new)) - height(Right(new)) \in -1 .. 1 THEN new
            ELSE Rotated(new, Key(Heavier(Heavier(new))))

RECURSIVE Find(_, _)
Find(t, n) == IF t = Nil \/ Key(t) = n THEN t
              ELSE Find(IF n < Key(t) THEN Left(t) ELSE Right(t), n)

AVLMain == <<<<"insert", 10>>, <<"insert", 20>>, <<"insert", 30>>, <<"insert", 40>>,
             <<"insert", 50>>, <<"insert", 25>>,
             <<"delete", 20>>, <<"delete", 25>>, <<"delete", 10>>>>

\* main inserts all keys before it deletes the first one; an insertion into a
\* tree that deletions have left unbalanced is not modelled.
AVLInsert(k) ==
    /\ lab = "AVLTree" /\ phase = "insert" /\ k \notin keys
    /\ Calls(<<"insert", k>>)
    /\ tree' = insertNode(tree, k).tree
    /\ keys' = keys \cup {k}
    /\ UNCHANGED <<lab, phase>>

AVLDelete(k) ==
    LET at == Find(tree, k) IN
    /\ lab = "AVLTree" /\ k \in keys
    /\ Calls(<<"delete", k>>)
    /\ tree' = deleteNode(tree, k)
    /\ keys' = IF at = Nil THEN keys ELSE keys \ {k}
    /\ phase' = IF phase = "disorder" \/ (at # Nil /\ Len(InOrder(Right(at))) > 1)
                THEN "disorder" ELSE "delete"
    /\ UNCHANGED lab

-----------------------------------------------------------------------------
(* dsaLabEx.c                                                              *)

getHt(t) == IF t = Nil THEN 0 ELSE t[4]
createNode(d) == <<Nil, d, Nil, 0>>
WithHt(l, d, r) == <<l, d, r, Larger(getHt(l), getHt(r)) + 1>>
Factor(t) == getHt(Left(t)) - getHt(Right(t))

RECURSIVE insertBST(_, _)
insertBST(t, d) ==
    IF t = Nil THEN createNode(d)
    ELSE IF d < Key(t) THEN WithHt(insertBST(Left(t), d), Key(t), Right(t))
    ELSE WithHt(Left(t), Key(t), insertBST(Right(t), d))

RECURSIVE isAVL(_)
isAVL(t) == t = Nil \/ (isAVL(Left(t)) /\ isAVL(Right(t)) /\ Factor(t) \in -1 .. 1)

rotateRight(t) == LET l == Left(t) IN
    WithHt(Left(l), Key(l), WithHt(Right(l), Key(t), Right(t)))

\* Without the left side of the right one.
rotateLeft_Lost(t) == LET r == Right(t) IN
    WithHt(WithHt(Left(t), Key(t), Nil), Key(r), Right(r))
rotateLeft(t) == LET r == Right(t) IN
    WithHt(WithHt(Left(t), Key(t), Left(r)), Key(r), Right(r))

\* Its double rotations ask for a left side both higher and lower than the
\* right one: they never happen.
RECURSIVE buildAVL(_)
buildAVL(t) ==
    IF isAVL(t) THEN t
    ELSE LET s == <<buildAVL(Left(t)), Key(t), buildAVL(Right(t)), getHt(t)>>
         IN IF Factor(s) > 1 THEN rotateRight(s)
            ELSE IF Factor(s) < -1 THEN rotateLeft(s) ELSE s

LabExMain == <<<<"insert", 3>>, <<"insert", 4>>, <<"insert", 5>>, <<"insert", 6>>,
               <<"build", 0>>>>

LabExInsert(k) ==
    /\ lab = "dsaLabEx" /\ phase = "insert" /\ k \notin keys
    /\ Calls(<<"insert", k>>)
    /\ tree' = insertBST(tree, k)
    /\ keys' = keys \cup {k}
    /\ UNCHANGED <<lab, phase>>

LabExBuild ==
    /\ lab = "dsaLabEx" /\ phase = "insert"
    /\ Calls(<<"build", 0>>)
    /\ tree' = buildAVL(tree)
    /\ phase' = "delete"
    /\ UNCHANGED <<lab, keys>>

-----------------------------------------------------------------------------
(* btree.c.  An insertion returns the tree and, as mergeFlag, whether its  *)
(* root is a node just split that its parent has to take in.               *)

BKeys(t) == t[1]
Link(t) == t[2]
initNode(key) == <<<<key>>, <<Nil, Nil>>>>
bMin(t) == BKeys(t)[1]

\* The new node has one key, between a left and a right half.
bSplit(t) ==
    LET at == IF M % 2 = 1 THEN M \div 2 ELSE M \div 2 - 1
        Part(a, b) == <<SubSeq(BKeys(t), a, b), SubSeq(Link(t), a, b + 1)>>
    IN <<<<BKeys(t)[at + 1]>>, <<Part(1, at), Part(at + 2, M)>>>>

\* The place for a key: before the first greater one, in rShift's place.
Place(t, key) == {i \in 1 .. Len(BKeys(t)) : key < BKeys(t)[i]}
First(S) == CHOOSE i \in S : \A j \in S : i <= j
rShift(t, i, key, links) ==
    <<InsertAt(BKeys(t), i, key),
      SubSeq(Link(t), 1, i - 1) \o links \o SubSeq(Link(t), i + 1, Len(Link(t)))>>

bMerge(t, new) ==
    LET last == Len(BKeys(t)) IN
    IF BKeys(t)[last] < bMin(new) THEN rShift(t, last + 1, bMin(new), Link(new))
    ELSE IF Place(t, bMin(new)) = {} THEN t
    ELSE rShift(t, First(Place(t, bMin(new))), bMin(new), Link(new))

RECURSIVE bInsert(_, _), bInsertHelper(_, _)
bInsertHelper(t, key) ==
    LET last == Len(BKeys(t))
        at == IF key > BKeys(t)[last] THEN {last + 1} ELSE Place(t, key)
        i == First(at)
        below == bInsert(Link(t)[i], key)
    IN IF at = {} THEN [tree |-> t, mergeFlag |-> Nil]
       ELSE IF Link(t)[i] = Nil
       THEN [tree |-> rShift(t, i, key, <<Nil, Nil>>), mergeFlag |-> Nil]
       ELSE [tree |-> <<BKeys(t), [Link(t) EXCEPT ![i] = below.tree]>>,
             mergeFlag |-> IF below.split THEN below.tree ELSE Nil]

bInsert(t, key) ==
    IF t = Nil THEN [tree |-> initNode(key), split |-> FALSE]
    ELSE LET h == bInsertHelper(t, key)
             new == IF h.mergeFlag = Nil THEN h.tree ELSE bMerge(h.tree, h.mergeFlag)
         IN IF Len(BKeys(new)) = M THEN [tree |-> bSplit(new), split |-> TRUE]
            ELSE [tree |-> new, split |-> FALSE]

\* What bDisplay prints.
RECURSIVE bDisplay(_)
bDisplay(t) ==
    IF t = Nil THEN <<>>
    ELSE FoldLeft(LAMBDA s, i : s \o <<BKeys(t)[i]>> \o bDisplay(Link(t)[i + 1]),
                  bDisplay(Link(t)[1]), [i \in DOMAIN BKeys(t) |-> i])

BMain == [i \in 1 .. 18 |-> <<"insert", <<23, 9, 7, 3, 45, 1, 5, 14, 25, 24, 13, 11, 8, 19,
                                          4, 31, 35, 56>>[i]>>]

BInsert(k) ==
    /\ lab = "btree" /\ k \notin keys
    /\ Calls(<<"insert", k>>)
    /\ tree' = bInsert(tree, k).tree
    /\ keys' = keys \cup {k}
    /\ UNCHANGED <<lab, phase>>

-----------------------------------------------------------------------------
TreesOff == tree = Nil /\ keys = {} /\ phase = "insert"

TreesInit ==
    /\ lab \in {"AVLTree", "dsaLabEx", "btree"}
    /\ todo \in {<<>>, CASE lab = "AVLTree" -> AVLMain
                         [] lab = "dsaLabEx" -> LabExMain
                         [] OTHER -> BMain}
    /\ TreesOff

Named == IF todo = <<>> THEN Keys ELSE {Head(todo)[2]}

TreesNext ==
    \/ \E k \in Named : AVLInsert(k) \/ AVLDelete(k) \/ LabExInsert(k) \/ BInsert(k)
    \/ LabExBuild

-----------------------------------------------------------------------------
(* Properties                                                              *)

\* The keys from left to right, which is what bDisplay prints.
Ordered == IF lab = "btree" THEN bDisplay(tree) ELSE InOrder(tree)

RECURSIVE Depths(_)
Depths(t) == IF t = Nil THEN {0}
             ELSE {d + 1 : d \in UNION {Depths(Link(t)[i]) : i \in DOMAIN Link(t)}}
RECURSIVE Below(_)
Below(t) == IF t = Nil THEN {}
            ELSE LET sub == ToSet(Link(t)) \ {Nil} IN sub \cup UNION {Below(s) : s \in sub}

\* Whatever rotations, splits and merges a call performs, a tree holds each
\* of its keys once, and nothing else; and unless AVLTree.c has put a node
\* above greater ones (see phase), it holds them in their order, so that a
\* search finds them.  Each insertion leaves it balanced: the two sides of a
\* node of AVLTree.c differ in height by one at most while main only inserts,
\* and in the B-tree all leaves have the same depth and every node but the
\* root has between (M - 1) \div 2 and M - 1 keys (insertNode, deleteNode,
\* buildAVL, bInsert).
SearchTreesKept ==
    /\ Len(Ordered) = Cardinality(keys) /\ ToSet(Ordered) = keys
    /\ phase # "disorder" => \A i \in 1 .. Len(Ordered) - 1 : Ordered[i] < Ordered[i + 1]
    /\ lab = "AVLTree" /\ phase = "insert" => Balanced(tree)
    /\ lab = "btree" => /\ Cardinality(Depths(tree)) = 1
                        /\ \A s \in Below(tree) : Len(BKeys(s)) \in (M - 1) \div 2 .. M - 1

=============================================================================
