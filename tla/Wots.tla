-------------------------------- MODULE Wots --------------------------------
(***************************************************************************)
(* WOTS+ one-time signatures: the signer of packages/pqc/src/wots-ref.ts   *)
(* and the verifier of move/wots/sources/wots.move.  The code has N = 32,  *)
(* LG_W = 4, LEN_2 = 3; here they are parameters.                          *)
(*                                                                         *)
(* A value is an N-byte string read as a big-endian number.  Sha maps a    *)
(* sequence of numbers, the concatenation in the code, to a value.         *)
(***************************************************************************)
EXTENDS Naturals, Sequences, Functions

CONSTANTS N,            \* bytes of a hash
          LG_W,         \* bits of a digit; it divides 8
          LEN_2,        \* digits of the checksum
          Sha(_)        \* SHA-256

W     == 2^LG_W
LEN_1 == (8 * N) \div LG_W
LEN   == LEN_1 + LEN_2
Value == 0 .. 2^(8 * N) - 1

(* The ADRS fields.  Tree addresses keep a height in the keypair word and  *)
(* an index in the chain word.                                             *)
WOTS_HASH == 0
BuildAdrs(layer, tree, type, keypair) ==
    [layer |-> layer, tree |-> tree, type |-> type, keypair |-> keypair,
     chain |-> 0, hash |-> 0]

(* SHA-256(seed || ADRS || M); F, H and T_len are the same function.       *)
ChainHash(seed, adrs, m) ==
    Sha(<<seed, adrs.layer, adrs.tree, adrs.type,
          adrs.keypair, adrs.chain, adrs.hash>> \o m)

(* The first count digits, high digit first, of a number of width bytes.   *)
Digits(v, width, count) ==
    [i \in 1 .. count |-> (v \div 2^(8 * width - i * LG_W)) % W]

(* Faulty: the checksum is not shifted to the start of its bytes.          *)
ChecksumShiftNone == 0

ChecksumShift == (8 - ((LEN_2 * LG_W) % 8)) % 8

(* The digits of the message and of the checksum over them.                *)
MsgToChains(m) ==
    LET msg   == Digits(m, N, LEN_1)
        csum  == SumFunctionOnSet([k \in 1 .. LEN_1 |-> W - 1 - msg[k]], 1 .. LEN_1)
        width == (LEN_2 * LG_W + 7) \div 8
    IN  msg \o Digits((csum * 2^ChecksumShift) % 2^(8 * width), width, LEN_2)

(* Faulty: every climb starts at hash address 0.                           *)
ChainFromZero(seed, adrs, i, start, steps, value) ==
    LET c[j \in 0 .. steps] ==
          IF j = 0 THEN value
          ELSE ChainHash(seed, [adrs EXCEPT !.type = WOTS_HASH, !.chain = i - 1,
                                            !.hash = j - 1], <<c[j - 1]>>)
    IN  c[steps]

(* steps hashes up chain i (from 1) beginning at position start.           *)
ChainStep(seed, adrs, i, start, steps, value) ==
    LET c[j \in 0 .. steps] ==
          IF j = 0 THEN value
          ELSE ChainHash(seed, [adrs EXCEPT !.type = WOTS_HASH, !.chain = i - 1,
                                            !.hash = start + j - 1], <<c[j - 1]>>)
    IN  c[steps]

(* sk is the sequence of the chains' secret starts.                        *)
ChainTops(seed, adrs, sk) ==
    [i \in 1 .. LEN |-> ChainStep(seed, adrs, i, 0, W - 1, sk[i])]

ChainPoints(seed, adrs, sk, m) ==
    LET d == MsgToChains(m)
    IN  [i \in 1 .. LEN |-> ChainStep(seed, adrs, i, 0, d[i], sk[i])]

(* SHA-256(master || "wots-sk" || i): 1 stands for the tag.                *)
WotsKeygen(master, seed, adrs) ==
    LET sk == [i \in 1 .. LEN |-> Sha(<<master, 1, i - 1>>)]
    IN  [seed |-> seed, adrs |-> adrs, sk |-> sk,
         pk |-> ChainTops(seed, adrs, sk)]

(* Faulty: the checksum is not signed.                                     *)
WotsSignMessageOnly(kp, m) ==
    SubSeq(ChainPoints(kp.seed, kp.adrs, kp.sk, m), 1, LEN_1)

WotsSign(kp, m) == ChainPoints(kp.seed, kp.adrs, kp.sk, m)

PkFromSig(seed, adrs, m, sig) ==
    LET d == MsgToChains(m)
    IN  [i \in 1 .. LEN |-> ChainStep(seed, adrs, i, d[i], W - 1 - d[i], sig[i])]

(* Faulty: the checksum chains are not compared.                           *)
WotsVerifyMessageOnly(seed, adrs, m, sig, pk) ==
    IF Len(sig) # LEN \/ Len(pk) # LEN THEN "abort"
    ELSE LET d == MsgToChains(m)
         IN  IF \A i \in 1 .. LEN_1 :
                   ChainStep(seed, adrs, i, d[i], W - 1 - d[i], sig[i]) = pk[i]
             THEN "true" ELSE "false"

(* wots_plus::verify; malformed inputs abort.                              *)
WotsVerify(seed, adrs, m, sig, pk) ==
    IF Len(sig) # LEN \/ Len(pk) # LEN THEN "abort"
    ELSE LET d == MsgToChains(m)
         IN  IF \A i \in 1 .. LEN :
                   ChainStep(seed, adrs, i, d[i], W - 1 - d[i], sig[i]) = pk[i]
             THEN "true" ELSE "false"
=============================================================================
