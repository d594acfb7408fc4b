----------------------------- MODULE SlhDsaLite -----------------------------
(***************************************************************************)
(* SLH-DSA-LITE: the signer of packages/pqc/src/slh-dsa-ref.ts and the     *)
(* verifier of move/slh_dsa/sources/slh_dsa.move.  The code has            *)
(* H_PRIME = 4, D = 2, A = 3, K = 4.                                       *)
(*                                                                         *)
(* A packed signature is a sequence of values: for each FORS tree a secret *)
(* and its path, then for each layer WOTS+ chain points and a path.        *)
(***************************************************************************)
EXTENDS Wots, SequencesExt

CONSTANTS H_PRIME,      \* height of an XMSS tree
          D,            \* layers
          A,            \* height of a FORS tree
          K             \* FORS trees

H == D * H_PRIME

WOTS_PK    == 1
TREE       == 2
FORS_TREE  == 3
FORS_ROOTS == 4

(* SHA-256(skSeed || tag || ...): 1 and 2 stand for the tags.              *)
WotsSk(skSeed, keypair) == [i \in 1 .. LEN |-> Sha(<<skSeed, 1, keypair, i - 1>>)]
ForsSk(skSeed, tree, num, leaf) == Sha(<<skSeed, 2, tree, num, leaf>>)

-----------------------------------------------------------------------------
(* XMSS                                                                    *)

TreeHash(t, h, i, m) ==
    ChainHash(t.seed, [BuildAdrs(t.layer, t.tree, TREE, h) EXCEPT !.chain = i], m)

Xmss == INSTANCE HashTree WITH Hash <- TreeHash

LeafFromPk(seed, layer, tree, keypair, wotsPk) ==
    ChainHash(seed, BuildAdrs(layer, tree, WOTS_PK, keypair), wotsPk)

XmssLevels(sk, layer, tree) ==
    Xmss!Levels([seed |-> sk.seed, layer |-> layer, tree |-> tree],
           [i \in 0 .. 2^H_PRIME - 1 |->
               LeafFromPk(sk.seed, layer, tree, i,
                          ChainTops(sk.seed,
                                    BuildAdrs(layer, tree, WOTS_HASH, i),
                                    WotsSk(sk.skSeed, i)))],
           H_PRIME)

XmssSign(sk, layer, tree, leaf, m) ==
    ChainPoints(sk.seed, BuildAdrs(layer, tree, WOTS_HASH, leaf),
                WotsSk(sk.skSeed, leaf), m)
        \o Xmss!AuthPath(XmssLevels(sk, layer, tree), H_PRIME, leaf)

XmssRootFromSig(seed, layer, tree, leaf, m, wotsSig, auth) ==
    LET pk == PkFromSig(seed, BuildAdrs(layer, tree, WOTS_HASH, leaf), m, wotsSig)
    IN  Xmss!Climb([seed |-> seed, layer |-> layer, tree |-> tree],
                   LeafFromPk(seed, layer, tree, leaf, pk), leaf, auth)

-----------------------------------------------------------------------------
(* The hypertree: each layer signs the root of the one below.              *)

(* Faulty: the tree keeps its index from layer to layer.                   *)
PromoteLeafOnly(tree) == [tree |-> tree, leaf |-> tree % 2^H_PRIME]

(* The place of a tree's root in the layer above.                          *)
Promote(tree) == [tree |-> tree \div 2^H_PRIME, leaf |-> tree % 2^H_PRIME]

Places(tree, leaf) ==
    LET at[l \in 0 .. D - 1] ==
          IF l = 0 THEN [tree |-> tree, leaf |-> leaf] ELSE Promote(at[l - 1].tree)
    IN  at

HtSign(sk, m, tree, leaf) ==
    LET at == Places(tree, leaf)
        Payload(l) == IF l = 0 THEN m
                      ELSE Xmss!Root(XmssLevels(sk, l - 1, at[l - 1].tree), H_PRIME)
    IN  FlattenSeq([l \in 1 .. D |->
            XmssSign(sk, l - 1, at[l - 1].tree, at[l - 1].leaf, Payload(l - 1))])

HtRootFromSig(seed, m, tree, leaf, sig) ==
    LET at  == Places(tree, leaf)
        len == LEN + H_PRIME
        payload[l \in 0 .. D] ==
          IF l = 0 THEN m
          ELSE LET off == (l - 1) * len
               IN  XmssRootFromSig(seed, l - 1, at[l - 1].tree, at[l - 1].leaf,
                                   payload[l - 1],
                                   SubSeq(sig, off + 1, off + LEN),
                                   SubSeq(sig, off + LEN + 1, off + len))
    IN  payload[D]

-----------------------------------------------------------------------------
(* FORS                                                                    *)

(* Height 0 is a leaf; the trees of the forest number their nodes together. *)
ForsHash(t, h, i, m) ==
    ChainHash(t.seed, [BuildAdrs(0, t.tree, FORS_TREE, h)
                          EXCEPT !.chain = t.num * 2^(A - h) + i], m)

Fors == INSTANCE HashTree WITH Hash <- ForsHash

ForsTree(seed, tree, num) == [seed |-> seed, tree |-> tree, num |-> num]

ForsRoots(seed, tree, roots) ==
    ChainHash(seed, BuildAdrs(0, tree, FORS_ROOTS, 0), roots)

ForsLevels(sk, tree, num) ==
    LET t == ForsTree(sk.seed, tree, num)
    IN  Fors!Levels(t, [i \in 0 .. 2^A - 1 |->
                           ForsHash(t, 0, i, <<ForsSk(sk.skSeed, tree, num, i)>>)], A)

ForsSign(sk, tree, indices) ==
    FlattenSeq([n \in 1 .. K |->
        <<ForsSk(sk.skSeed, tree, n - 1, indices[n])>>
            \o Fors!AuthPath(ForsLevels(sk, tree, n - 1), A, indices[n])])

ForsRootFromSig(seed, tree, indices, sig) ==
    ForsRoots(seed, tree,
        [n \in 1 .. K |->
            LET off == (n - 1) * (1 + A)
                t   == ForsTree(seed, tree, n - 1)
            IN  Fors!Climb(t, ForsHash(t, 0, indices[n], <<sig[off + 1]>>),
                           indices[n], SubSeq(sig, off + 2, off + 1 + A))])

-----------------------------------------------------------------------------
(* count bytes of a value from byte from, as a number.                     *)
Bytes(v, from, count) == (v \div 2^(8 * (N - from - count))) % 2^(8 * count)

(* Which leaves a message is signed with: the last FORS index is in the    *)
(* low bits of its bytes, the leaf in the low bits of the path.            *)
SplitDigest(digest) ==
    LET width == (K * A + 7) \div 8
        fors  == Bytes(digest, 0, width)
        path  == Bytes(digest, width, (H + 7) \div 8) % 2^H
    IN  [fors |-> [n \in 1 .. K |-> (fors \div 2^(A * (K - n))) % 2^A],
         leaf |-> path % 2^H_PRIME,
         tree |-> (path \div 2^H_PRIME) % 2^(H - H_PRIME)]

LiteKeygen(seed, skSeed) ==
    LET sk == [seed |-> seed, skSeed |-> skSeed]
    IN  [sk |-> sk,
         pk |-> [seed |-> seed, root |-> Xmss!Root(XmssLevels(sk, D - 1, 0), H_PRIME)]]

(* sign and packSignature                                                  *)
LiteSign(sk, message) ==
    LET at   == SplitDigest(Sha(<<sk.seed>> \o message))
        fors == ForsSign(sk, at.tree, at.fors)
    IN  fors \o HtSign(sk, ForsRootFromSig(sk.seed, at.tree, at.fors, fors),
                       at.tree, at.leaf)

FORS_LEN == K * (1 + A)
SIG_LEN  == FORS_LEN + D * (LEN + H_PRIME)

(* Faulty: a longer signature will do.                                     *)
LiteVerifyPrefix(pk, message, sig) ==
    LET at   == SplitDigest(Sha(<<pk.seed>> \o message))
        fors == ForsRootFromSig(pk.seed, at.tree, at.fors, SubSeq(sig, 1, FORS_LEN))
        root == HtRootFromSig(pk.seed, fors, at.tree, at.leaf,
                              SubSeq(sig, FORS_LEN + 1, SIG_LEN))
    IN  IF Len(sig) >= SIG_LEN /\ root = pk.root THEN "true" ELSE "false"

(* verifier::verify                                                        *)
LiteVerify(pk, message, sig) ==
    LET at   == SplitDigest(Sha(<<pk.seed>> \o message))
        fors == ForsRootFromSig(pk.seed, at.tree, at.fors, SubSeq(sig, 1, FORS_LEN))
        root == HtRootFromSig(pk.seed, fors, at.tree, at.leaf,
                              SubSeq(sig, FORS_LEN + 1, SIG_LEN))
    IN  IF Len(sig) = SIG_LEN /\ root = pk.root THEN "true" ELSE "false"
=============================================================================
