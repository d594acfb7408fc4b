--------------------------- MODULE SlhDsaLiteRef ---------------------------
(***************************************************************************)
(* The verifiers that run off chain: wotsVerify of                         *)
(* packages/pqc/src/wots-ref.ts, verify of slh-dsa-ref.ts with             *)
(* unpackSignature before it, and the length verifyTxSlhDsaSig of          *)
(* local-validator.ts asks for before both.  Signer and on-chain verifier  *)
(* are in Wots and SlhDsaLite; only the hash, its addresses, the reading   *)
(* of bytes and the sizes are shared with them.                            *)
(***************************************************************************)
EXTENDS SlhDsaLite

Loop(n) == [i \in 1 .. n |-> i]

(* The bytes of a number, digit by digit, high digits first.               *)
Nibbles(v, width) ==
    FlattenSeq([i \in 1 .. width |->
        [j \in 1 .. 8 \div LG_W |->
            (((v \div 2^(8 * (width - i))) % 256) \div 2^(8 - j * LG_W)) % W]])

(* The shift by which the checksum's digits start at a byte: 4 in the code. *)
msgToChains(m) ==
    LET msg   == Nibbles(m, N)
        width == (LEN_2 * LG_W + 7) \div 8
        csum  == FoldLeft(LAMBDA c, d : c + W - 1 - d, 0, msg)
    IN  msg \o SubSeq(Nibbles(csum * 2^(8 * width - LEN_2 * LG_W), width), 1, LEN_2)

chainStep(seed, baseAdrs, i, start, steps, value) ==
    LET adrs == [baseAdrs EXCEPT !.type = WOTS_HASH, !.chain = i - 1]
    IN  FoldLeft(LAMBDA v, j : ChainHash(seed, [adrs EXCEPT !.hash = start + j - 1], <<v>>),
                 value, Loop(steps))

wotsPkFromSig(seed, adrs, m, sig) ==
    LET chains == msgToChains(m)
    IN  [i \in 1 .. LEN |->
            chainStep(seed, adrs, i, chains[i], W - 1 - chains[i], sig[i])]

wotsVerify(seed, adrs, m, sig, pk) ==
    Len(sig) = LEN /\ Len(pk) = LEN /\ wotsPkFromSig(seed, adrs, m, sig) = pk

Merge(bit, node, sibling) == IF bit = 0 THEN <<node, sibling>> ELSE <<sibling, node>>

(* Height and index go into the keypair and chain words of one buffer.     *)
xmssRootFromLeafChunk(seed, initialAdrs, leafIdx, leaf, authPath) ==
    LET Up(node, i) ==
          ChainHash(seed, [initialAdrs EXCEPT !.type = TREE, !.keypair = i,
                                              !.chain = leafIdx \div 2^i],
                    Merge((leafIdx \div 2^(i - 1)) % 2, node, authPath[i]))
    IN  FoldLeft(Up, leaf, Loop(H_PRIME))

xmssRootFromSig(seed, layer, tree, leafIdx, m, sig) ==
    LET wpk == wotsPkFromSig(seed, BuildAdrs(layer, tree, WOTS_HASH, leafIdx), m, sig.wotsSig)
    IN  xmssRootFromLeafChunk(seed, BuildAdrs(layer, tree, WOTS_HASH, 0), leafIdx,
            ChainHash(seed, BuildAdrs(layer, tree, WOTS_PK, leafIdx), wpk), sig.authPath)

htRootFromSig(seed, m, treeIdx, leafIdx, layers) ==
    LET Layer(s, j) ==
          [payload |-> xmssRootFromSig(seed, j - 1, s.curTree, s.curLeaf, s.payload,
                                       layers[j]),
           curLeaf |-> s.curTree % 2^H_PRIME,
           curTree |-> s.curTree \div 2^H_PRIME]
    IN  FoldLeft(Layer, [payload |-> m, curTree |-> treeIdx, curLeaf |-> leafIdx],
                 Loop(D)).payload

(* Two address buffers serve all the trees of the forest in turn.          *)
forsRootFromSig(seed, treeIdx, indices, fors) ==
    LET Chunk(i) == SubSeq(fors, (i - 1) * (1 + A) + 1, i * (1 + A))
        Up(i, s, h) ==
          LET a == [s.adrs EXCEPT !.keypair = h,
                                  !.chain = (i - 1) * 2^(A - h) + s.idx \div 2]
          IN  [adrs |-> a, idx |-> s.idx \div 2,
               node |-> ChainHash(seed, a, Merge(s.idx % 2, s.node, Chunk(i)[h + 1]))]
        Tree(s, i) ==
          LET leaf == [s.adrsLeaf EXCEPT !.chain = (i - 1) * 2^A + indices[i]]
              top  == FoldLeft(LAMBDA t, h : Up(i, t, h),
                               [adrs |-> s.adrsTree, idx |-> indices[i],
                                node |-> ChainHash(seed, leaf, <<Chunk(i)[1]>>)],
                               Loop(A))
          IN  [adrsLeaf |-> leaf, adrsTree |-> top.adrs, roots |-> Append(s.roots, top.node)]
        fresh == BuildAdrs(0, treeIdx, FORS_TREE, 0)
    IN  ChainHash(seed, BuildAdrs(0, treeIdx, FORS_ROOTS, 0),
                  FoldLeft(Tree, [adrsLeaf |-> fresh, adrsTree |-> fresh, roots |-> <<>>],
                           Loop(K)).roots)

(* Cut where the parts should end; what follows the last part is dropped.  *)
unpackSignature(sig) ==
    LET off(j) == FORS_LEN + (j - 1) * (LEN + H_PRIME)
    IN  [fors |-> SubSeq(sig, 1, FORS_LEN),
         ht   |-> [j \in 1 .. D |->
                      [wotsSig  |-> SubSeq(sig, off(j) + 1, off(j) + LEN),
                       authPath |-> SubSeq(sig, off(j) + LEN + 1, off(j + 1))]]]

(* The indices are taken from the low end, the last one first.             *)
splitDigest(digest) ==
    LET Take(s, i) == [v |-> s.v \div 2^A, fors |-> <<s.v % 2^A>> \o s.fors]
        width == (K * A + 7) \div 8
        path  == Bytes(digest, width, (H + 7) \div 8) % 2^H
    IN  [fors    |-> FoldLeft(Take, [v |-> Bytes(digest, 0, width), fors |-> <<>>],
                              Loop(K)).fors,
         leafIdx |-> path % 2^H_PRIME,
         treeIdx |-> (path \div 2^H_PRIME) % 2^(H - H_PRIME)]

verify(pk, message, signature) ==
    LET at == splitDigest(Sha(<<pk.seed>> \o message))
    IN  htRootFromSig(pk.seed,
                      forsRootFromSig(pk.seed, at.treeIdx, at.fors, signature.fors),
                      at.treeIdx, at.leafIdx, signature.ht) = pk.root

(* Faulty: the length of the packed signature is not looked at.            *)
PackedAnyLength(pk, message, sig) ==
    Len(sig) >= SIG_LEN /\ verify(pk, message, unpackSignature(sig))

(* With the length check that stands before it in verifyTxSlhDsaSig.       *)
PackedVerify(pk, message, sig) ==
    Len(sig) = SIG_LEN /\ verify(pk, message, unpackSignature(sig))
=============================================================================
