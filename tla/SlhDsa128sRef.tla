--------------------------- MODULE SlhDsa128sRef ---------------------------
(***************************************************************************)
(* SLH-DSA-SHA2-128s once more: the reference verifier of                  *)
(* packages/pqc/src/slh-dsa-128s-ref.ts, which the Move verifier is said   *)
(* to be derived from.  It is another program: it keeps one address record *)
(* and overwrites its words on the way up, it reads digits and bits from a *)
(* running position, and it carries tree and leaf from layer to layer.      *)
(*                                                                         *)
(* Values and signatures are those of SlhDsa128s.                          *)
(***************************************************************************)
EXTENDS Naturals, Sequences, SequencesExt

CONSTANTS N, LG_W, LEN_2, H_PRIME, D, A, K, MAX_CTX, Sha(_)

W     == 2^LG_W
LEN_1 == (8 * N) \div LG_W
LEN   == LEN_1 + LEN_2

WOTS_HASH  == 0
WOTS_PK    == 1
TREE       == 2
FORS_TREE  == 3
FORS_ROOTS == 4

Loop(n) == [i \in 1 .. n |-> i]

newAdrs == [layer |-> 0, tree |-> 0, type |-> 0, keypair |-> 0,
            treeHeight |-> 0, treeIndex |-> 0]

(* F, H and T_l: the words of the address are hashed in this order.        *)
thash(seed, a, m) ==
    Sha(<<seed, a.layer, a.tree, a.type, a.keypair, a.treeHeight, a.treeIndex>> \o m)

bytes(v, width) == [i \in 1 .. width |-> (v \div 2^(8 * (width - i))) % 256]

(* Whole blocks, then cut to length.                                       *)
mgf1(seed, outLen) ==
    LET blocks == FoldLeft(LAMBDA out, i : out \o bytes(Sha(Append(seed, i - 1)), N),
                           <<>>, Loop((outLen + N - 1) \div N))
    IN  SubSeq(blocks, 1, outLen)

MD_BYTES   == (K * A + 7) \div 8
TREE_BITS  == H_PRIME * D - H_PRIME
TREE_BYTES == (TREE_BITS + 7) \div 8
LEAF_BYTES == (H_PRIME + 7) \div 8

Hmsg(R, seed, root, M) ==
    mgf1(<<R, seed, Sha(<<R, seed, root>> \o M)>>, MD_BYTES + TREE_BYTES + LEAF_BYTES)

-----------------------------------------------------------------------------
(* A byte is loaded when no bits are left of the one before.               *)
baseW(msg, outlen) ==
    LET Load(s) == IF s.bits = 0
                   THEN [s EXCEPT !.total = msg[s.inIdx + 1], !.inIdx = @ + 1, !.bits = 8]
                   ELSE s
        Digit(s, i) ==
            LET t == [Load(s) EXCEPT !.bits = @ - LG_W]
            IN  [t EXCEPT !.out = Append(@, (t.total \div 2^t.bits) % W)]
    IN  FoldLeft(Digit, [out |-> <<>>, inIdx |-> 0, bits |-> 0, total |-> 0],
                 Loop(outlen)).out

wotsChecksum(digits) ==
    LET csum  == FoldLeft(LAMBDA c, i : c + W - 1 - digits[i], 0, Loop(LEN_1))
        shift == (8 - ((LEN_2 * LG_W) % 8)) % 8
    IN  baseW(bytes(csum * 2^shift, (LEN_2 * LG_W + 7) \div 8), LEN_2)

msgToChainDigits(msg) ==
    LET m == baseW(bytes(msg, N), LEN_1) IN m \o wotsChecksum(m)

(* s steps from position i; the hash word follows the position.            *)
chain(x, i, s, seed, adrs) ==
    FoldLeft(LAMBDA tmp, j : thash(seed, [adrs EXCEPT !.treeIndex = i + j - 1], <<tmp>>),
             x, Loop(s))

(* Each chain climbs on a copy of the caller's address, and so does the    *)
(* compression of the tops.                                                *)
wotsPkFromSig(sig, msg, seed, adrs) ==
    LET digits == msgToChainDigits(msg)
        Top(i) == chain(sig[i], digits[i], W - 1 - digits[i], seed,
                        [adrs EXCEPT !.type = WOTS_HASH, !.treeHeight = i - 1])
    IN  thash(seed, [adrs EXCEPT !.type = WOTS_PK, !.treeHeight = 0, !.treeIndex = 0],
              [i \in 1 .. LEN |-> Top(i)])

Merge(bit, node, sibling) == IF bit = 0 THEN <<node, sibling>> ELSE <<sibling, node>>

XMSS_LEN == LEN + H_PRIME

(* Up the path, the address record and the node together: the index word   *)
(* is halved in place.                                                     *)
WalkTree(idx, auth, seed, adrs, leaf) ==
    LET Up(s, i) ==
          LET a == [s.adrs EXCEPT !.treeHeight = i, !.treeIndex = @ \div 2]
          IN  [adrs |-> a,
               node |-> thash(seed, a, Merge((idx \div 2^(i - 1)) % 2, s.node, auth[i]))]
    IN  FoldLeft(Up, [adrs |-> adrs, node |-> leaf], Loop(H_PRIME)).node

(* Faulty: the key pair stays in the address of the tree.                  *)
XmssKeepingKeypair(idx, sig, msg, seed, adrs) ==
    LET a == [adrs EXCEPT !.type = WOTS_HASH, !.keypair = idx]
    IN  WalkTree(idx, SubSeq(sig, LEN + 1, XMSS_LEN), seed,
                 [a EXCEPT !.type = TREE, !.treeIndex = idx],
                 wotsPkFromSig(SubSeq(sig, 1, LEN), msg, seed, a))

(* One record serves the leaf and, with the key pair cleared, the path.    *)
xmssPkFromSig(idx, sig, msg, seed, adrs) ==
    LET a == [adrs EXCEPT !.type = WOTS_HASH, !.keypair = idx]
    IN  WalkTree(idx, SubSeq(sig, LEN + 1, XMSS_LEN), seed,
                 [a EXCEPT !.type = TREE, !.keypair = 0, !.treeIndex = idx],
                 wotsPkFromSig(SubSeq(sig, 1, LEN), msg, seed, a))

htRootFromSig(sigHt, msg, treeIdx, leafIdx, seed) ==
    LET Layer(s, j) ==
          [node |-> xmssPkFromSig(s.curLeaf,
                                  SubSeq(sigHt, (j - 1) * XMSS_LEN + 1, j * XMSS_LEN),
                                  s.node, seed,
                                  [newAdrs EXCEPT !.layer = j - 1, !.tree = s.curTree]),
           curLeaf |-> s.curTree % 2^H_PRIME,
           curTree |-> s.curTree \div 2^H_PRIME]
    IN  FoldLeft(Layer, [node |-> msg, curTree |-> treeIdx, curLeaf |-> leafIdx],
                 Loop(D)).node

-----------------------------------------------------------------------------
(* K indices of A bits each, from a running bit offset.                    *)
ForsIndices(md) ==
    LET Bit(b) == (md[b \div 8 + 1] \div 2^(7 - (b % 8))) % 2
        Index(s, i) ==
          [bitOff |-> s.bitOff + A,
           out |-> Append(s.out, FoldLeft(LAMBDA v, b : 2 * v + Bit(s.bitOff + b - 1),
                                          0, Loop(A)))]
    IN  FoldLeft(Index, [bitOff |-> 0, out |-> <<>>], Loop(K)).out

ForsRoot(i, idx, sig, seed, adrs) ==
    LET leafAdrs == [adrs EXCEPT !.type = FORS_TREE, !.treeHeight = 0,
                                 !.treeIndex = (i - 1) * 2^A + idx]
        Up(s, j) ==
          LET a == [s.adrs EXCEPT !.treeHeight = j,
                        !.treeIndex = (i - 1) * 2^(A - j) + s.cur \div 2]
          IN  [adrs |-> a, cur |-> s.cur \div 2,
               node |-> thash(seed, a, Merge(s.cur % 2, s.node, sig[j + 1]))]
    IN  FoldLeft(Up, [adrs |-> leafAdrs, cur |-> idx,
                      node |-> thash(seed, leafAdrs, <<sig[1]>>)], Loop(A)).node

forsPkFromSig(sigFors, md, seed, adrs) ==
    LET indices == ForsIndices(md)
    IN  thash(seed, [adrs EXCEPT !.type = FORS_ROOTS, !.treeHeight = 0, !.treeIndex = 0],
              [i \in 1 .. K |->
                  ForsRoot(i, indices[i],
                           SubSeq(sigFors, (i - 1) * (1 + A) + 1, i * (1 + A)),
                           seed, adrs)])

Number(digest, from, count) ==
    FoldLeft(LAMBDA v, b : v * 256 + b, 0, SubSeq(digest, from + 1, from + count))

splitDigest(digest) ==
    [md      |-> SubSeq(digest, 1, MD_BYTES),
     treeIdx |-> Number(digest, MD_BYTES, TREE_BYTES) % 2^TREE_BITS,
     leafIdx |-> Number(digest, MD_BYTES + TREE_BYTES, LEAF_BYTES) % 2^H_PRIME]

FORS_LEN == K * (1 + A)
SIG_LEN  == 1 + FORS_LEN + D * XMSS_LEN

verify(pk, msg, sig, ctx) ==
    /\ Len(sig) = SIG_LEN
    /\ Len(ctx) <= MAX_CTX
    /\ LET at   == splitDigest(Hmsg(sig[1], pk.seed, pk.root, <<0, Len(ctx)>> \o ctx \o msg))
           adrs == [newAdrs EXCEPT !.tree = at.treeIdx, !.type = FORS_TREE,
                                   !.keypair = at.leafIdx]
           fors == forsPkFromSig(SubSeq(sig, 2, 1 + FORS_LEN), at.md, pk.seed, adrs)
       IN  htRootFromSig(SubSeq(sig, 2 + FORS_LEN, Len(sig)), fors,
                         at.treeIdx, at.leafIdx, pk.seed) = pk.root
=============================================================================
