----------------------------- MODULE SlhDsa128s -----------------------------
(***************************************************************************)
(* SLH-DSA-SHA2-128s: the verifier of                                      *)
(* move/slh_dsa_128s/sources/sha2_128s.move.  The code has N = 16,         *)
(* LG_W = 4, LEN_2 = 3, H_PRIME = 9, D = 7, A = 12, K = 14.                *)
(*                                                                         *)
(* The signer is @noble/post-quantum, which packages/pqc/src/signing.ts     *)
(* calls; here it is FIPS 205's, on the addresses of the verifier.         *)
(* Signatures are sequences of values; the first is the randomizer R.      *)
(***************************************************************************)
EXTENDS Naturals, Sequences, SequencesExt

CONSTANTS N, LG_W, LEN_2, H_PRIME, D, A, K,
          MAX_CTX,      \* 255 in the code
          Sha(_)        \* SHA-256; it has N bytes here, so nothing is cut off

W     == 2^LG_W
LEN_1 == (8 * N) \div LG_W
LEN   == LEN_1 + LEN_2

WOTS_HASH  == 0
WOTS_PK    == 1
ADRS_TREE  == 2
FORS_TREE  == 3
FORS_ROOTS == 4
WOTS_PRF   == 5
FORS_PRF   == 6

(* The 22-byte address: the last two words hold chain and hash of a WOTS   *)
(* address, height and index of a tree address.                            *)
Adrs(layer, tree, type, keypair, height, index) ==
    <<layer, tree, type, keypair, height, index>>

Thash(seed, adrs, m) == Sha(<<seed>> \o adrs \o m)

Byte(v, i) == (v \div 2^(8 * (N - 1 - i))) % 256

(* MGF1: blocks of hash output, the last one cut.                          *)
Mgf1(seed, length) ==
    [i \in 1 .. length |-> Byte(Sha(Append(seed, (i - 1) \div N)), (i - 1) % N)]

MD_BYTES   == (K * A + 7) \div 8
TREE_BITS  == H_PRIME * D - H_PRIME
TREE_BYTES == (TREE_BITS + 7) \div 8
LEAF_BYTES == (H_PRIME + 7) \div 8
M_BYTES    == MD_BYTES + TREE_BYTES + LEAF_BYTES

Hmsg(r, seed, root, m) ==
    Mgf1(<<r, seed, Sha(<<r, seed, root>> \o m)>>, M_BYTES)

(* Faulty: the length of the context is left out.                          *)
WrappedWithoutLength(ctx, m) == <<0>> \o ctx \o m

(* M' = 0 || length of the context || context || M                         *)
Wrapped(ctx, m) == <<0, Len(ctx)>> \o ctx \o m

-----------------------------------------------------------------------------
(* digits of a sequence of bytes, high digit first; LG_W divides 8         *)
BaseW(bytes, outlen) ==
    LET per == 8 \div LG_W
    IN  [i \in 1 .. outlen |->
            (bytes[(i - 1) \div per + 1] \div 2^(8 - LG_W - LG_W * ((i - 1) % per))) % W]

BigEndian(v, width) == [i \in 1 .. width |-> (v \div 2^(8 * (width - i))) % 256]

WotsChecksum(digits) ==
    LET csum  == SumFunctionOnSet([k \in 1 .. LEN_1 |-> W - 1 - digits[k]], 1 .. LEN_1)
        shift == (8 - ((LEN_2 * LG_W) % 8)) % 8
    IN  BaseW(BigEndian(csum * 2^shift, (LEN_2 * LG_W + 7) \div 8), LEN_2)

MsgToChainDigits(m) ==
    LET digits == BaseW(BigEndian(m, N), LEN_1)
    IN  digits \o WotsChecksum(digits)

(* Chain c (from 0) of the key pair at adrs, from position start.          *)
Chain(seed, layer, tree, keypair, c, start, steps, value) ==
    LET v[j \in 0 .. steps] ==
          IF j = 0 THEN value
          ELSE Thash(seed, Adrs(layer, tree, WOTS_HASH, keypair, c, start + j - 1),
                     <<v[j - 1]>>)
    IN  v[steps]

WotsPk(seed, layer, tree, keypair, tops) ==
    Thash(seed, Adrs(layer, tree, WOTS_PK, keypair, 0, 0), tops)

WotsPkFromSig(seed, layer, tree, keypair, m, sig) ==
    LET d == MsgToChainDigits(m)
    IN  WotsPk(seed, layer, tree, keypair,
               [i \in 1 .. LEN |-> Chain(seed, layer, tree, keypair, i - 1,
                                         d[i], W - 1 - d[i], sig[i])])

(* The keypair word of a tree address is zero.                             *)
XmssHash(t, h, i, m) ==
    Thash(t.seed, Adrs(t.layer, t.tree, ADRS_TREE, 0, h, i), m)

Xmss == INSTANCE HashTree WITH Hash <- XmssHash

XMSS_LEN == LEN + H_PRIME

XmssPkFromSig(seed, layer, tree, idx, m, sig) ==
    Xmss!Climb([seed |-> seed, layer |-> layer, tree |-> tree],
          WotsPkFromSig(seed, layer, tree, idx, m, SubSeq(sig, 1, LEN)),
          idx, SubSeq(sig, LEN + 1, XMSS_LEN))

(* Tree and leaf in each layer.                                            *)
Places(tree, leaf) ==
    LET at[l \in 0 .. D - 1] ==
          IF l = 0 THEN [tree |-> tree, leaf |-> leaf]
          ELSE [tree |-> at[l - 1].tree \div 2^H_PRIME,
                leaf |-> at[l - 1].tree % 2^H_PRIME]
    IN  at

HtRootFromSig(seed, m, tree, leaf, sig) ==
    LET at == Places(tree, leaf)
        node[l \in 0 .. D] ==
          IF l = 0 THEN m
          ELSE XmssPkFromSig(seed, l - 1, at[l - 1].tree, at[l - 1].leaf, node[l - 1],
                             SubSeq(sig, (l - 1) * XMSS_LEN + 1, l * XMSS_LEN))
    IN  node[D]

-----------------------------------------------------------------------------
(* K indices of A bits each, high bit first, across the bytes of md.       *)
ExtractForsIndices(md) ==
    LET Bit(b) == (md[b \div 8 + 1] \div 2^(7 - (b % 8))) % 2
        Index(n) == LET v[b \in 0 .. A] ==
                          IF b = 0 THEN 0 ELSE 2 * v[b - 1] + Bit((n - 1) * A + b - 1)
                    IN  v[A]
    IN  [n \in 1 .. K |-> Index(n)]

ForsHash(t, h, i, m) ==
    Thash(t.seed, Adrs(0, t.tree, FORS_TREE, t.keypair, h, t.num * 2^(A - h) + i), m)

Fors == INSTANCE HashTree WITH Hash <- ForsHash

ForsTree(seed, tree, keypair, num) ==
    [seed |-> seed, tree |-> tree, keypair |-> keypair, num |-> num]

ForsPkFromSig(seed, tree, keypair, indices, sig) ==
    Thash(seed, Adrs(0, tree, FORS_ROOTS, keypair, 0, 0),
          [n \in 1 .. K |->
              LET off == (n - 1) * (1 + A)
                  t   == ForsTree(seed, tree, keypair, n - 1)
              IN  Fors!Climb(t, ForsHash(t, 0, indices[n], <<sig[off + 1]>>),
                             indices[n], SubSeq(sig, off + 2, off + 1 + A))])

Number(bytes) ==
    SumFunctionOnSet([i \in 1 .. Len(bytes) |-> bytes[i] * 2^(8 * (Len(bytes) - i))],
                     1 .. Len(bytes))

SplitDigest(digest) ==
    [fors |-> ExtractForsIndices(SubSeq(digest, 1, MD_BYTES)),
     tree |-> Number(SubSeq(digest, MD_BYTES + 1, MD_BYTES + TREE_BYTES))
                  % 2^TREE_BITS,
     leaf |-> Number(SubSeq(digest, MD_BYTES + TREE_BYTES + 1, M_BYTES))
                  % 2^H_PRIME]

FORS_LEN == K * (1 + A)
SIG_LEN  == 1 + FORS_LEN + D * XMSS_LEN

VerifyWithContext(pk, m, sig, ctx) ==
    LET at   == SplitDigest(Hmsg(sig[1], pk.seed, pk.root, Wrapped(ctx, m)))
        fors == ForsPkFromSig(pk.seed, at.tree, at.leaf, at.fors,
                              SubSeq(sig, 2, 1 + FORS_LEN))
        root == HtRootFromSig(pk.seed, fors, at.tree, at.leaf,
                              SubSeq(sig, 2 + FORS_LEN, SIG_LEN))
    IN  IF Len(sig) = SIG_LEN /\ Len(ctx) <= MAX_CTX /\ root = pk.root
        THEN "true" ELSE "false"

-----------------------------------------------------------------------------
(* The signer.                                                             *)

Prf(sk, layer, tree, type, keypair, height, index) ==
    Sha(<<sk.skSeed>> \o Adrs(layer, tree, type, keypair, height, index))

XmssLevels(sk, layer, tree) ==
    Xmss!Levels([seed |-> sk.seed, layer |-> layer, tree |-> tree],
           [i \in 0 .. 2^H_PRIME - 1 |->
               WotsPk(sk.seed, layer, tree, i,
                   [c \in 1 .. LEN |->
                       Chain(sk.seed, layer, tree, i, c - 1, 0, W - 1,
                             Prf(sk, layer, tree, WOTS_PRF, i, c - 1, 0))])],
           H_PRIME)

XmssSign(sk, layer, tree, leaf, m) ==
    LET d == MsgToChainDigits(m)
    IN  [c \in 1 .. LEN |->
            Chain(sk.seed, layer, tree, leaf, c - 1, 0, d[c],
                  Prf(sk, layer, tree, WOTS_PRF, leaf, c - 1, 0))]
            \o Xmss!AuthPath(XmssLevels(sk, layer, tree), H_PRIME, leaf)

ForsSk(sk, tree, keypair, num, i) ==
    Prf(sk, 0, tree, FORS_PRF, keypair, 0, num * 2^A + i)

ForsLevels(sk, tree, keypair, num) ==
    LET t == ForsTree(sk.seed, tree, keypair, num)
    IN  Fors!Levels(t, [i \in 0 .. 2^A - 1 |->
                           ForsHash(t, 0, i, <<ForsSk(sk, tree, keypair, num, i)>>)], A)

Keygen128s(seed, skSeed) ==
    LET sk   == [seed |-> seed, skSeed |-> skSeed]
        root == Xmss!Root(XmssLevels(sk, D - 1, 0), H_PRIME)
    IN  [sk |-> [seed |-> seed, skSeed |-> skSeed, root |-> root],
         pk |-> [seed |-> seed, root |-> root]]

Sign128s(sk, m, ctx, r) ==
    LET at   == SplitDigest(Hmsg(r, sk.seed, sk.root, Wrapped(ctx, m)))
        fors == FlattenSeq([n \in 1 .. K |->
                    <<ForsSk(sk, at.tree, at.leaf, n - 1, at.fors[n])>>
                        \o Fors!AuthPath(ForsLevels(sk, at.tree, at.leaf, n - 1),
                                    A, at.fors[n])])
        place == Places(at.tree, at.leaf)
        Payload(l) ==
            IF l = 0 THEN ForsPkFromSig(sk.seed, at.tree, at.leaf, at.fors, fors)
            ELSE Xmss!Root(XmssLevels(sk, l - 1, place[l - 1].tree), H_PRIME)
    IN  <<r>> \o fors \o FlattenSeq([l \in 1 .. D |->
            XmssSign(sk, l - 1, place[l - 1].tree, place[l - 1].leaf, Payload(l - 1))])
=============================================================================
