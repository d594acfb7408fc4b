------------------------------ MODULE HashTree ------------------------------
(***************************************************************************)
(* Merkle trees as the hash-based schemes build and climb them.            *)
(***************************************************************************)
EXTENDS Naturals, Sequences

CONSTANT Hash(_, _, _, _)   \* in which tree, the height and the index of a
                            \* node (from the left in its level), its children

(* All levels over leaves [0 .. 2^height - 1], as the signers build them.  *)
Levels(tree, leaves, height) ==
    LET level[h \in 0 .. height] ==
          IF h = 0 THEN leaves
          ELSE LET below == level[h - 1]
               IN  [i \in 0 .. 2^(height - h) - 1 |->
                       Hash(tree, h, i, <<below[2 * i], below[2 * i + 1]>>)]
    IN  level

Root(levels, height) == levels[height][0]

(* idx ^ 1                                                                 *)
Sibling(i) == IF i % 2 = 0 THEN i + 1 ELSE i - 1

(* The siblings of the path from a leaf to the root.                       *)
AuthPath(levels, height, leaf) ==
    [h \in 1 .. height |-> levels[h - 1][Sibling(leaf \div 2^(h - 1))]]

(* Faulty: the order of the children does not follow the path.             *)
ClimbOnTheLeft(tree, node, leaf, auth) ==
    LET c[h \in 0 .. Len(auth)] ==
          IF h = 0 THEN node
          ELSE Hash(tree, h, leaf \div 2^h, <<c[h - 1], auth[h]>>)
    IN  c[Len(auth)]

(* From a leaf to the root, as the verifiers climb.                        *)
Climb(tree, node, leaf, auth) ==
    LET Pair(h, v) == IF (leaf \div 2^(h - 1)) % 2 = 0
                      THEN <<v, auth[h]>> ELSE <<auth[h], v>>
        c[h \in 0 .. Len(auth)] ==
          IF h = 0 THEN node ELSE Hash(tree, h, leaf \div 2^h, Pair(h, c[h - 1]))
    IN  c[Len(auth)]
=============================================================================
