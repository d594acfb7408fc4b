-------------------------- MODULE SignaturesProofs --------------------------
(***************************************************************************)
(* Theorems about the hash-based schemes, for every size of hashes, digits *)
(* and trees that SignaturesAssumption allows, and every hash.             *)
(*                                                                         *)
(* What is proved: the history invariant; that of two WOTS digests none    *)
(* dominates the other; that each verifier accepts what its signer makes;  *)
(* that a WOTS signature changed on the way is refused, but for accidents  *)
(* of the hash that are named.                                             *)
(*                                                                         *)
(* The checksum.  If no digit of m were above that of k, then the digits   *)
(* of m's message would be at most those of k's, not all equal, since      *)
(* digits determine a number, so the checksum of m would be the greater    *)
(* one.  But the digits of m's checksum are at most those of k's too, and  *)
(* a number whose digits are all at most another's is at most that number. *)
(*                                                                         *)
(* The round trip.  A chain climbed to a digit and on from there is the    *)
(* whole chain, so the verifier finds the public key of the chains that    *)
(* the signer built; from its leaf the path leads to the root of the tree  *)
(* (PathReachesRoot); every root is what the layer above signs, and after  *)
(* D layers the index of the tree has no bits left, so the last root is    *)
(* the one in the public key.  FORS needs no such argument: signer and     *)
(* verifier both hash the roots the signature leads to.                    *)
(*                                                                         *)
(* The refusal.  Without an accident a verifier that ends at the top of a  *)
(* chain was on the key's own chain all the way, so it accepts only the    *)
(* chain's values at the digits of the digest that arrived.  An altered    *)
(* part is none; and another digest has a digit below the signed one, so   *)
(* that the signed part would have to stand at two places of its chain.    *)
(***************************************************************************)
EXTENDS Signatures, DataTheorems

(* The i-th digit, of g bits, of a number of B bits, high digit first.     *)
Digit(v, B, g, i) == (v \div 2^(B - i * g)) % 2^g

(* Cutting a number at two places.                                         *)
LEMMA Split ==
    ASSUME NEW v \in Nat, NEW a \in Nat \ {0}, NEW w \in Nat \ {0}
    PROVE  /\ v \div (a * w) = (v \div a) \div w
           /\ v \div a = w * (v \div (a * w)) + ((v \div a) % w)
           /\ v \div a \in Nat /\ v \div (a * w) \in Nat
           /\ (v \div a) % w \in 0 .. w - 1
<1> DEFINE q == v \div a
<1>1. q \in Nat
  OBVIOUS
<1>2. v \div (a * w) = q \div w
  OBVIOUS
<1> HIDE DEF q
<1>3. q = w * (q \div w) + (q % w) /\ q % w \in 0 .. w - 1 /\ q \div w \in Nat
  BY <1>1
<1>. QED  BY <1>1, <1>2, <1>3 DEF q

(* The weight of a digit is that of the next one times the base.           *)
LEMMA PlacesOfDigit ==
    ASSUME NEW B \in Nat, NEW g \in Nat, NEW i \in Nat \ {0}, i * g <= B
    PROVE  /\ B - i * g \in Nat
           /\ B - (i - 1) * g \in Nat
           /\ 2^(B - (i - 1) * g) = 2^(B - i * g) * 2^g
<1>1. i * g \in Nat /\ (i - 1) * g = i * g - g
  OBVIOUS
<1>2. B - i * g \in Nat /\ B - (i - 1) * g = (B - i * g) + g
  BY <1>1
<1> DEFINE m == B - i * g
<1> HIDE DEF m
<1>3. m \in Nat /\ B - (i - 1) * g = m + g
  BY <1>2 DEF m
<1>4. 2^(m + g) = 2^m * 2^g
  BY <1>3, PowAdd
<1>. QED  BY <1>3, <1>4 DEF m

(* If the first n digits of u are at most those of v, so are the numbers   *)
(* they stand for. By the least prefix for which this fails.               *)
LEMMA DigitsDominate ==
    ASSUME NEW B \in Nat, NEW g \in Nat, NEW n \in Nat, n * g <= B,
           NEW v \in Nat, NEW u \in Nat, v < 2^B, u < 2^B,
           \A i \in 1 .. n : Digit(u, B, g, i) <= Digit(v, B, g, i)
    PROVE  u \div 2^(B - n * g) <= v \div 2^(B - n * g)
<1> DEFINE P(x, i) == x \div 2^(B - i * g)
           F == {i \in 0 .. n : ~ (P(u, i) <= P(v, i))}
<1> SUFFICES ASSUME F # {} PROVE FALSE
  <2>1. n \notin F => P(u, n) <= P(v, n)
    OBVIOUS
  <2>. QED  BY <2>1
<1>1. PICK i \in F : \A j \in F : i <= j
  <2> F \in SUBSET Nat
    OBVIOUS
  <2> HIDE DEF F
  <2>. QED  BY LeastNumber
<1>2. i \in 0 .. n /\ ~ (P(u, i) <= P(v, i))
  OBVIOUS
<1>3. i # 0
  <2>1. ASSUME NEW x \in Nat, x < 2^B PROVE P(x, 0) = 0
    <3>1. B - 0 * g = B
      OBVIOUS
    <3>2. 2^B \in Nat \ {0}
      BY PowNat
    <3>3. \A k \in Nat \ {0} : x < k => x \div k = 0
      OBVIOUS
    <3>. QED  BY <2>1, <3>1, <3>2, <3>3
  <2>2. P(u, 0) = 0 /\ P(v, 0) = 0
    BY <2>1
  <2>. QED  BY <1>2, <2>2
<1>4. i - 1 \in 0 .. n /\ i - 1 \notin F
  <2> HIDE DEF F, P
  <2>1. i \in Nat /\ ~ (i <= i - 1) /\ i - 1 \in 0 .. n
    BY <1>2, <1>3
  <2>. QED  BY <1>1, <2>1
<1>5. P(u, i - 1) <= P(v, i - 1)
  <2> HIDE DEF P
  <2>. QED  BY <1>4
<1>6. i * g <= B
  <2>1. i * g <= n * g
    BY <1>2
  <2>2. i * g \in Nat /\ n * g \in Nat
    BY <1>2
  <2>. QED  BY <2>1, <2>2
<1> HIDE DEF F
<1>7. /\ 2^(B - i * g) \in Nat \ {0} /\ 2^g \in Nat \ {0}
      /\ 2^(B - (i - 1) * g) = 2^(B - i * g) * 2^g
  <2>1. i \in Nat \ {0}
    BY <1>2, <1>3
  <2>2. /\ B - i * g \in Nat
        /\ 2^(B - (i - 1) * g) = 2^(B - i * g) * 2^g
    BY <1>6, <2>1, PlacesOfDigit
  <2>3. \A m \in Nat : 2^m \in Nat \ {0}
    BY PowNat
  <2>. QED  BY <2>2, <2>3
<1>8. Digit(u, B, g, i) <= Digit(v, B, g, i)
  BY <1>2, <1>3
<1>9. ASSUME NEW x \in Nat
      PROVE  /\ P(x, i) = 2^g * P(x, i - 1) + Digit(x, B, g, i)
             /\ P(x, i - 1) \in Nat /\ Digit(x, B, g, i) \in Nat
  <2> DEFINE a == 2^(B - i * g)
             w == 2^g
  <2>1. a \in Nat \ {0} /\ w \in Nat \ {0}
    BY <1>7
  <2>2. P(x, i - 1) = x \div (a * w)
    BY <1>7
  <2>3. P(x, i) = x \div a /\ Digit(x, B, g, i) = (x \div a) % w
    BY DEF Digit
  <2> HIDE DEF a, w, P
  <2>4. /\ x \div a = w * (x \div (a * w)) + ((x \div a) % w)
        /\ x \div (a * w) \in Nat
        /\ (x \div a) % w \in 0 .. w - 1
    BY <2>1, Split
  <2>5. P(x, i) = w * P(x, i - 1) + Digit(x, B, g, i)
    BY <2>2, <2>3, <2>4
  <2>6. P(x, i - 1) \in Nat /\ Digit(x, B, g, i) \in Nat
    BY <2>1, <2>2, <2>3, <2>4
  <2>. QED  BY <2>5, <2>6 DEF w
<1>10. \A w, p, q, d, e \in Nat : p <= q /\ d <= e => w * p + d <= w * q + e
  <2>1. \A w, p, q \in Nat : p <= q => w * p <= w * q
    OBVIOUS
  <2>. QED  BY <2>1
<1>11. 2^g \in Nat
  BY <1>7
<1> DEFINE w == 2^g
           d == Digit(u, B, g, i)
           e == Digit(v, B, g, i)
<1>12. /\ P(u, i) = w * P(u, i - 1) + d /\ P(v, i) = w * P(v, i - 1) + e
       /\ P(u, i - 1) \in Nat /\ P(v, i - 1) \in Nat
       /\ d \in Nat /\ e \in Nat /\ w \in Nat
  BY <1>9, <1>11
<1>13. d <= e
  BY <1>8
<1> HIDE DEF P, w, d, e
<1>14. w * P(u, i - 1) + d <= w * P(v, i - 1) + e
  BY <1>5, <1>10, <1>12, <1>13
<1>. QED  BY <1>2, <1>12, <1>14

-----------------------------------------------------------------------------
(* The sizes of the code, and the bytes and the shift of the checksum.     *)
W     == Lite!W
LEN_1 == Lite!LEN_1
(* The digits of a value and of its checksum.                             *)
Width == (LEN_2 * LG_W + 7) \div 8
Shift == Lite!ChecksumShift

(* What the assumption says of them: the digits fill the hash, and the     *)
(* checksum's digits have room for the greatest sum.                       *)
LEMMA Sizes ==
    /\ N \in Nat \ {0} /\ LG_W \in Nat \ {0} /\ LEN_2 \in Nat
    /\ LEN_1 \in Nat /\ LEN_1 * LG_W = 8 * N
    /\ W = 2^LG_W /\ W \in Nat \ {0}
    /\ LEN_2 * LG_W \in Nat
    /\ Width \in Nat /\ Shift \in Nat /\ 8 * Width - LEN_2 * LG_W = Shift
    /\ LEN_1 * (W - 1) < 2^(LEN_2 * LG_W)
<1>0. N \in Nat \ {0} /\ LG_W \in {1, 2, 4, 8} /\ LEN_2 \in Nat
  BY SignaturesAssumption, Zenon
<1>1. N \in Nat \ {0} /\ LG_W \in Nat \ {0} /\ LEN_2 \in Nat
  BY <1>0
<1>2. LEN_1 \in Nat /\ LEN_1 * LG_W = 8 * N
  <2>1. ASSUME NEW g \in {1, 2, 4, 8}
        PROVE  (8 * N) \div g \in Nat /\ ((8 * N) \div g) * g = 8 * N
    BY <1>0
  <2>. QED  BY <1>0, <2>1 DEF LEN_1, Lite!LEN_1
<1>3. W = 2^LG_W /\ W \in Nat \ {0}
  BY <1>1, PowNat DEF W, Lite!W
<1>4. LEN_2 * LG_W \in Nat
  BY <1>1
<1>5. Width \in Nat /\ Shift \in Nat /\ 8 * Width - LEN_2 * LG_W = Shift
  <2> DEFINE b == LEN_2 * LG_W
  <2>1. b \in Nat
    BY <1>4
  <2> HIDE DEF b
  <2>2. /\ (b + 7) \div 8 \in Nat
        /\ (8 - (b % 8)) % 8 \in Nat
        /\ 8 * ((b + 7) \div 8) - b = (8 - (b % 8)) % 8
    BY <2>1
  <2>. QED  BY <2>2 DEF b, Width, Shift, Lite!ChecksumShift
<1>. QED  BY <1>1, <1>2, <1>3, <1>4, <1>5, SignaturesAssumption DEF LEN_1, W

(* The digits of a message, what they lack to the greatest digit, the sum  *)
(* of that, and its digits.                                                *)
Msg(m)   == Lite!Digits(m, N, LEN_1)
Short(m) == [k \in 1 .. LEN_1 |-> W - 1 - Msg(m)[k]]
Csum(m)  == SumFunctionOnSet(Short(m), 1 .. LEN_1)
Check(m)  == Lite!Digits((Csum(m) * 2^Shift) % 2^(8 * Width), Width, LEN_2)

(* The sum Signatures takes over is the one of Functions.                  *)
LEMMA SameSum ==
    ASSUME NEW f, NEW S
    PROVE  Lite!SumFunctionOnSet(f, S) = SumFunctionOnSet(f, S)
  BY DEF Lite!SumFunctionOnSet, Lite!FoldFunctionOnSet, Lite!MapThenFoldSet,
         SumFunctionOnSet, FoldFunctionOnSet, MapThenFoldSet

(* MsgToChains, in these terms.                                            *)
LEMMA Chains ==
    ASSUME NEW m
    PROVE  Lite!MsgToChains(m) = Msg(m) \o Check(m)
  BY SameSum DEF Lite!MsgToChains, Msg, Short, Csum, Check, Width, Shift, LEN_1, W

(* What Digits computes.                                                   *)
LEMMA DigitsAre ==
    ASSUME NEW v, NEW width, NEW count \in Nat
    PROVE  /\ DOMAIN Lite!Digits(v, width, count) = 1 .. count
           /\ \A i \in 1 .. count :
                 Lite!Digits(v, width, count)[i] = Digit(v, 8 * width, LG_W, i)
  BY DEF Lite!Digits, Digit, Lite!W

(* Digits are below W.                                                     *)
LEMMA DigitRange ==
    ASSUME NEW v \in Nat, NEW width \in Nat, NEW count \in Nat, count * LG_W <= 8 * width
    PROVE  /\ Lite!Digits(v, width, count) \in Seq(0 .. W - 1)
           /\ Len(Lite!Digits(v, width, count)) = count
<1> DEFINE d == Lite!Digits(v, width, count)
<1>1. ASSUME NEW i \in 1 .. count
      PROVE  Digit(v, 8 * width, LG_W, i) \in 0 .. W - 1
  <2>1. i * LG_W <= 8 * width
    <3>1. i * LG_W <= count * LG_W
      BY Sizes
    <3>2. i * LG_W \in Nat /\ count * LG_W \in Nat
      BY Sizes
    <3>. QED  BY <3>1, <3>2
  <2>2. 8 * width - i * LG_W \in Nat
    BY <2>1, Sizes, PlacesOfDigit
  <2> DEFINE a == 2^(8 * width - i * LG_W)
  <2>3. a \in Nat \ {0}
    BY <2>2, PowNat
  <2>4. Digit(v, 8 * width, LG_W, i) = (v \div a) % W
    BY Sizes DEF Digit
  <2> HIDE DEF a
  <2>5. W \in Nat \ {0}
    BY Sizes
  <2>6. (v \div a) % W \in 0 .. W - 1
    BY <2>3, <2>5, Split
  <2>. QED  BY <2>4, <2>6
<1>2. DOMAIN d = 1 .. count /\ \A i \in 1 .. count : d[i] \in 0 .. W - 1
  BY <1>1, DigitsAre
<1>3. d = [i \in 1 .. count |-> d[i]]
  BY DEF Lite!Digits
<1> HIDE DEF d
<1>4. d \in [1 .. count -> 0 .. W - 1]
  BY <1>2, <1>3
<1>5. d \in Seq(0 .. W - 1)
  BY <1>4, FunctionIsSeq
<1>6. Len(d) = count
  BY <1>2, <1>5, LenProperties
<1>. QED  BY <1>5, <1>6 DEF d

(* The digits of a message and its checksum: their number and their range, *)
(* and that the sum has a bound.                                           *)
LEMMA ChainsShape ==
    ASSUME NEW m \in Nat
    PROVE  /\ Msg(m) \in Seq(0 .. W - 1) /\ Len(Msg(m)) = LEN_1
           /\ Csum(m) \in Nat /\ Csum(m) <= LEN_1 * (W - 1)
           /\ \A k \in 1 .. LEN_1 : Short(m)[k] = W - 1 - Msg(m)[k] /\ Short(m)[k] \in 0 .. W - 1
           /\ Check(m) \in Seq(0 .. W - 1) /\ Len(Check(m)) = LEN_2
           /\ Lite!MsgToChains(m) \in Seq(0 .. W - 1)
           /\ Len(Lite!MsgToChains(m)) = LEN_1 + LEN_2
           /\ \A i \in 1 .. LEN_1 : Lite!MsgToChains(m)[i] = Msg(m)[i]
           /\ \A i \in 1 .. LEN_2 : Lite!MsgToChains(m)[LEN_1 + i] = Check(m)[i]
<1>1. Msg(m) \in Seq(0 .. W - 1) /\ Len(Msg(m)) = LEN_1
  BY Sizes, DigitRange DEF Msg
<1>2. \A k \in 1 .. LEN_1 : Msg(m)[k] \in 0 .. W - 1
  BY <1>1, ElementOfSeq
<1>3. \A k \in 1 .. LEN_1 : Short(m)[k] = W - 1 - Msg(m)[k] /\ Short(m)[k] \in 0 .. W - 1
  BY <1>2, Sizes DEF Short
<1>4. IsFiniteSet(1 .. LEN_1) /\ Cardinality(1 .. LEN_1) = LEN_1
  BY Sizes, FS_Interval
<1>5. \A k \in 1 .. LEN_1 : Short(m)[k] \in Nat /\ Short(m)[k] <= W - 1
  BY <1>3, Sizes
<1>6. Csum(m) \in Nat
  BY <1>4, <1>5, SumNat DEF Csum
<1>7. Csum(m) <= LEN_1 * (W - 1)
  <2>1. W - 1 \in Nat
    BY Sizes
  <2>2. SumFunctionOnSet(Short(m), 1 .. LEN_1) <= Cardinality(1 .. LEN_1) * (W - 1)
    BY <1>4, <1>5, <2>1, SumAtMost
  <2>. QED  BY <1>4, <2>2 DEF Csum
<1>8. Check(m) \in Seq(0 .. W - 1) /\ Len(Check(m)) = LEN_2
  <2>1. (Csum(m) * 2^Shift) % 2^(8 * Width) \in Nat
    <3>1. 2^Shift \in Nat /\ 8 * Width \in Nat /\ 2^(8 * Width) \in Nat \ {0}
      BY Sizes, PowNat
    <3>2. Csum(m) * 2^Shift \in Nat
      BY <1>6, <3>1
    <3>. QED  BY <3>1, <3>2
  <2>2. LEN_2 * LG_W <= 8 * Width
    BY Sizes
  <2>. QED  BY <2>1, <2>2, Sizes, DigitRange DEF Check
<1>9. /\ Msg(m) \o Check(m) \in Seq(0 .. W - 1)
      /\ Len(Msg(m) \o Check(m)) = LEN_1 + LEN_2
      /\ \A i \in 1 .. LEN_1 : (Msg(m) \o Check(m))[i] = Msg(m)[i]
      /\ \A i \in 1 .. LEN_2 : (Msg(m) \o Check(m))[LEN_1 + i] = Check(m)[i]
  <2> DEFINE s == Msg(m)
             t == Check(m)
             S == 0 .. W - 1
  <2>1. s \in Seq(S) /\ t \in Seq(S) /\ Len(s) = LEN_1 /\ Len(t) = LEN_2
    BY <1>1, <1>8
  <2> HIDE DEF s, t, S
  <2>2. /\ s \o t \in Seq(S) /\ Len(s \o t) = Len(s) + Len(t)
        /\ \A i \in 1 .. Len(s) : (s \o t)[i] = s[i]
        /\ \A i \in 1 .. Len(t) : (s \o t)[Len(s) + i] = t[i]
    <3>1. \A a, b \in Seq(S) :
             /\ a \o b \in Seq(S) /\ Len(a \o b) = Len(a) + Len(b)
             /\ \A i \in 1 .. Len(a) : (a \o b)[i] = a[i]
             /\ \A i \in 1 .. Len(b) : (a \o b)[Len(a) + i] = b[i]
      BY ConcatParts
    <3>. QED  BY <2>1, <3>1
  <2>. QED  BY <2>1, <2>2 DEF s, t, S
<1>. QED  BY <1>1, <1>3, <1>6, <1>7, <1>8, <1>9, Chains

(* A value is determined by its digits.                                    *)
LEMMA DigitsDetermine ==
    ASSUME NEW m \in Lite!Value, NEW k \in Lite!Value,
           \A i \in 1 .. LEN_1 : Msg(k)[i] = Msg(m)[i]
    PROVE  k = m
<1>1. m \in Nat /\ k \in Nat /\ m < 2^(8 * N) /\ k < 2^(8 * N)
  <2>1. 2^(8 * N) \in Nat
    BY Sizes, PowNat
  <2>. QED  BY <2>1 DEF Lite!Value
<1>2. \A i \in 1 .. LEN_1 : Digit(k, 8 * N, LG_W, i) = Digit(m, 8 * N, LG_W, i)
  BY Sizes, DigitsAre DEF Msg
<1>3. \A i \in 1 .. LEN_1 : Digit(m, 8 * N, LG_W, i) \in Int
  <2>1. Msg(m) \in Seq(0 .. W - 1) /\ Len(Msg(m)) = LEN_1
    BY <1>1, ChainsShape
  <2>2. \A i \in 1 .. LEN_1 : Msg(m)[i] \in 0 .. W - 1
    BY <2>1, ElementOfSeq
  <2>3. \A i \in 1 .. LEN_1 : Msg(m)[i] = Digit(m, 8 * N, LG_W, i)
    BY Sizes, DigitsAre DEF Msg
  <2>. QED  BY <2>2, <2>3, Sizes
<1>4. /\ k \div 2^(8 * N - LEN_1 * LG_W) <= m \div 2^(8 * N - LEN_1 * LG_W)
      /\ m \div 2^(8 * N - LEN_1 * LG_W) <= k \div 2^(8 * N - LEN_1 * LG_W)
  <2>1. /\ \A i \in 1 .. LEN_1 : Digit(k, 8 * N, LG_W, i) <= Digit(m, 8 * N, LG_W, i)
        /\ \A i \in 1 .. LEN_1 : Digit(m, 8 * N, LG_W, i) <= Digit(k, 8 * N, LG_W, i)
    BY <1>2, <1>3
  <2>2. 8 * N \in Nat /\ LEN_1 * LG_W <= 8 * N
    BY Sizes
  <2>. QED  BY <1>1, <2>1, <2>2, Sizes, DigitsDominate
<1>5. 8 * N - LEN_1 * LG_W = 0
  BY Sizes
<1>6. 2^0 = 1
  OBVIOUS
<1>7. 2^(8 * N - LEN_1 * LG_W) = 1
  BY <1>5, <1>6, Zenon
<1>8. k \div 1 <= m \div 1 /\ m \div 1 <= k \div 1
  BY <1>4, <1>7, Zenon
<1>. QED  BY <1>1, <1>8

(* The checksum's bytes hold the whole sum: nothing is cut off.            *)
LEMMA CsumFits ==
    ASSUME NEW m \in Nat
    PROVE  /\ (Csum(m) * 2^Shift) % 2^(8 * Width) \in Nat
           /\ (Csum(m) * 2^Shift) % 2^(8 * Width) < 2^(8 * Width)
           /\ ((Csum(m) * 2^Shift) % 2^(8 * Width)) \div 2^Shift = Csum(m)
<1> DEFINE s == 2^Shift
           b == 2^(LEN_2 * LG_W)
           c == Csum(m)
<1>1. s \in Nat \ {0} /\ b \in Nat \ {0} /\ c \in Nat
  BY Sizes, PowNat, ChainsShape
<1>2. c < b
  <2>1. c <= LEN_1 * (W - 1) /\ LEN_1 * (W - 1) < b /\ LEN_1 * (W - 1) \in Nat
    BY Sizes, ChainsShape
  <2>. QED  BY <1>1, <2>1
<1>3. 2^(8 * Width) = b * s
  <2>1. 8 * Width = LEN_2 * LG_W + Shift
    BY Sizes
  <2>2. 2^(LEN_2 * LG_W + Shift) = 2^(LEN_2 * LG_W) * 2^Shift
    BY Sizes, PowAdd
  <2>. QED  BY <2>1, <2>2
<1> HIDE DEF s, b, c
<1>4. c * s < b * s /\ c * s \in Nat /\ b * s \in Nat \ {0}
  <2>1. \A x, y \in Nat, z \in Nat \ {0} : x < y => x * z < y * z
    OBVIOUS
  <2>. QED  BY <1>1, <1>2, <2>1
<1>5. (c * s) % (b * s) = c * s
  BY <1>4
<1>6. (c * s) \div s = c
  BY <1>1
<1>. QED  BY <1>3, <1>4, <1>5, <1>6 DEF s, c

(* If the digits of one checksum are at most those of another, so are the  *)
(* sums.                                                                   *)
LEMMA ChecksumBelow ==
    ASSUME NEW m \in Nat, NEW k \in Nat,
           \A i \in 1 .. LEN_2 : Check(m)[i] <= Check(k)[i]
    PROVE  Csum(m) <= Csum(k)
<1> DEFINE x(n) == (Csum(n) * 2^Shift) % 2^(8 * Width)
<1>1. \A n \in {m, k} : x(n) \in Nat /\ x(n) < 2^(8 * Width) /\ x(n) \div 2^Shift = Csum(n)
  BY CsumFits
<1>2. \A n \in {m, k} : \A i \in 1 .. LEN_2 : Check(n)[i] = Digit(x(n), 8 * Width, LG_W, i)
  BY Sizes, DigitsAre DEF Check
<1> HIDE DEF x
<1>3. \A i \in 1 .. LEN_2 : Digit(x(m), 8 * Width, LG_W, i) <= Digit(x(k), 8 * Width, LG_W, i)
  BY <1>2
<1>4. 8 * Width \in Nat /\ LEN_2 * LG_W <= 8 * Width /\ 8 * Width - LEN_2 * LG_W = Shift
  BY Sizes
<1>5. x(m) \div 2^(8 * Width - LEN_2 * LG_W) <= x(k) \div 2^(8 * Width - LEN_2 * LG_W)
  BY <1>1, <1>3, <1>4, Sizes, DigitsDominate
<1>. QED  BY <1>1, <1>4, <1>5

(* Of two values, some digit of the one is below that of the other.        *)
LEMMA SomeDigitBelow ==
    ASSUME NEW m \in Lite!Value, NEW k \in Lite!Value, m # k
    PROVE  \E i \in DOMAIN Lite!MsgToChains(m) :
              Lite!MsgToChains(k)[i] < Lite!MsgToChains(m)[i]
<1>1. m \in Nat /\ k \in Nat
  BY DEF Lite!Value
<1>2. \A n \in {m, k} :
         /\ Msg(n) \in Seq(0 .. W - 1) /\ Len(Msg(n)) = LEN_1
         /\ Csum(n) \in Nat
         /\ \A i \in 1 .. LEN_1 : Short(n)[i] = W - 1 - Msg(n)[i] /\ Short(n)[i] \in 0 .. W - 1
         /\ Check(n) \in Seq(0 .. W - 1) /\ Len(Check(n)) = LEN_2
         /\ DOMAIN Lite!MsgToChains(n) = 1 .. LEN_1 + LEN_2
         /\ \A i \in 1 .. LEN_1 : Lite!MsgToChains(n)[i] = Msg(n)[i]
         /\ \A i \in 1 .. LEN_2 : Lite!MsgToChains(n)[LEN_1 + i] = Check(n)[i]
  BY <1>1, ChainsShape, LenProperties
<1>3. \A n \in {m, k} : /\ \A i \in 1 .. LEN_1 : Msg(n)[i] \in 0 .. W - 1
                       /\ \A i \in 1 .. LEN_2 : Check(n)[i] \in 0 .. W - 1
  BY <1>2, ElementOfSeq
<1> SUFFICES ASSUME \A i \in 1 .. LEN_1 + LEN_2 :
                       ~ (Lite!MsgToChains(k)[i] < Lite!MsgToChains(m)[i])
             PROVE  FALSE
  BY <1>2
<1>4. \A i \in 1 .. LEN_1 : Msg(m)[i] <= Msg(k)[i]
  BY <1>2, <1>3, Sizes
<1>5. \A i \in 1 .. LEN_2 : Check(m)[i] <= Check(k)[i]
  <2> SUFFICES ASSUME NEW i \in 1 .. LEN_2
               PROVE  Check(m)[i] <= Check(k)[i]
    OBVIOUS
  <2>1. LEN_1 + i \in 1 .. LEN_1 + LEN_2
    BY Sizes
  <2>2. ~ (Check(k)[i] < Check(m)[i])
    BY <1>2, <2>1
  <2>. QED  BY <1>3, <2>2, Sizes
<1>6. Csum(m) <= Csum(k)
  BY <1>1, <1>5, ChecksumBelow
<1>7. PICK j \in 1 .. LEN_1 : Msg(m)[j] < Msg(k)[j]
  <2>1. \E j \in 1 .. LEN_1 : Msg(k)[j] # Msg(m)[j]
    BY DigitsDetermine
  <2>. QED  BY <1>3, <1>4, <2>1, Sizes
<1>8. Csum(k) < Csum(m)
  <2>1. ASSUME NEW i \in 1 .. LEN_1
        PROVE  /\ Short(k)[i] \in Nat /\ Short(m)[i] \in Nat
               /\ Short(k)[i] <= Short(m)[i]
    <3>1. /\ Short(k)[i] = W - 1 - Msg(k)[i] /\ Short(k)[i] \in 0 .. W - 1
          /\ Short(m)[i] = W - 1 - Msg(m)[i] /\ Short(m)[i] \in 0 .. W - 1
          /\ Msg(m)[i] \in 0 .. W - 1 /\ Msg(k)[i] \in 0 .. W - 1
          /\ W \in Nat /\ Msg(m)[i] <= Msg(k)[i]
      BY <1>2, <1>3, <1>4, Sizes
    <3>. QED  BY ONLY <3>1
  <2>2. Short(k)[j] < Short(m)[j]
    BY <1>2, <1>3, <1>7, Sizes
  <2>3. IsFiniteSet(1 .. LEN_1)
    BY Sizes, FS_Interval
  <2>. QED  BY <1>7, <2>1, <2>2, <2>3, SumStrictlyBelow DEF Csum
<1>. QED  BY <1>2, <1>6, <1>8
-----------------------------------------------------------------------------
(* The inductive invariant: the key pair is one that key generation makes, *)
(* what was signed is its signature on a message it may sign, what arrives *)
(* is a message of its scheme, and the verdict is that of the verifier on  *)
(* what is there. The properties need all of this of earlier steps, so     *)
(* none of them is inductive alone.                                        *)
SigInv ==
    /\ key # Nothing =>
          \E scheme \in Scheme, seed \in Seed :
             key = [scheme |-> scheme, seed |-> seed, pair |-> KeyPair(scheme, seed)]
    /\ signed # Nothing =>
          /\ key # Nothing
          /\ message \in Messages(key.scheme) \union Redirected(key.scheme)
          /\ \E m \in Messages(key.scheme) :
                signed = [message |-> m, signature |-> SignatureOn(key, m)]
    /\ verdict # "none" => signed # Nothing /\ verdict = Verdict(key, message, signature)

(* Every action keeps it. A message or a signature is changed only before  *)
(* the verdict.                                                            *)
LEMMA SigStep ==
    ASSUME SigInv, [Next]_vars
    PROVE  SigInv'
<1>1. ASSUME NEW scheme \in Scheme, NEW seed \in Seed, Generate(scheme, seed)
      PROVE  SigInv'
  <2>1. /\ key' = [scheme |-> scheme, seed |-> seed, pair |-> KeyPair(scheme, seed)]
        /\ signed = Nothing /\ signed' = Nothing /\ verdict' = "none"
    BY <1>1 DEF SigInv, Generate
  <2>. QED  BY <2>1 DEF SigInv
<1>2. ASSUME key # Nothing, NEW m \in Messages(key.scheme), Sign(m)
      PROVE  SigInv'
  <2>1. /\ key' = key /\ verdict' = verdict /\ verdict = "none" /\ message' = m
        /\ signed' = [message |-> m, signature |-> SignatureOn(key, m)]
    BY <1>2 DEF SigInv, Sign
  <2>. QED  BY <1>2, <2>1 DEF SigInv
<1>3. ASSUME InTransit, message' = message, UNCHANGED <<key, signed, verdict>>
      PROVE  SigInv'
  BY <1>3 DEF SigInv, InTransit
<1>4. ASSUME key # Nothing, NEW m \in Redirected(key.scheme), Redirect(m)
      PROVE  SigInv'
  BY <1>4 DEF SigInv, Redirect, InTransit
<1>5. CASE Verify
  BY <1>5 DEF SigInv, Verify
<1>6. CASE UNCHANGED vars
  BY <1>6 DEF SigInv, vars
<1>7. ASSUME NEW i, AlterPart(i) PROVE SigInv'
  BY <1>3, <1>7 DEF AlterPart
<1>8. CASE ChangeLength
  BY <1>3, <1>8 DEF ChangeLength
<1>. QED  BY <1>1, <1>2, <1>4, <1>5, <1>6, <1>7, <1>8 DEF Next

(* The history of every behaviour is that of one key pair, one signature   *)
(* and one verdict on what arrived.                                        *)
THEOREM SignaturesInvariance == Spec => []SigInv
<1>1. Init => SigInv
  BY DEF Init, SigInv, Nothing
<1>2. SigInv /\ [Next]_vars => SigInv'
  BY SigStep
<1>. QED  BY <1>1, <1>2, PTL DEF Spec

(* Digests are texts of one value.                                         *)
LEMMA WotsMessages ==
    ASSUME NEW m \in Messages("WOTS") \union Redirected("WOTS")
    PROVE  m = [ctx |-> <<>>, text |-> <<m.text[1]>>] /\ m.text[1] \in Lite!Value
  BY SignaturesAssumption

(* The checksum of wots-ref.ts and wots.move does its job for every size   *)
(* of hash and digit: whatever digest a signature arrives with, some chain *)
(* would have to be climbed down.                                          *)
THEOREM NoChainDominatesHolds == Spec => []NoChainDominates
<1>1. SigInv => NoChainDominates
  <2> SUFFICES ASSUME SigInv, signed # Nothing, key.scheme = "WOTS",
                      message # signed.message
               PROVE  \E i \in DOMAIN Lite!MsgToChains(signed.message.text[1]) :
                         Lite!MsgToChains(message.text[1])[i]
                            < Lite!MsgToChains(signed.message.text[1])[i]
    BY DEF NoChainDominates
  <2>1. message \in Messages("WOTS") \union Redirected("WOTS")
    BY DEF SigInv
  <2>2. signed.message \in Messages("WOTS") \union Redirected("WOTS")
    BY DEF SigInv
  <2> DEFINE m == signed.message
  <2> HIDE DEF m
  <2>3. /\ m = [ctx |-> <<>>, text |-> <<m.text[1]>>] /\ m.text[1] \in Lite!Value
        /\ message = [ctx |-> <<>>, text |-> <<message.text[1]>>]
        /\ message.text[1] \in Lite!Value
    BY <2>1, <2>2, WotsMessages DEF m
  <2>4. m.text[1] # message.text[1]
    BY <2>3 DEF m
  <2>. QED  BY <2>3, <2>4, SomeDigitBelow DEF m
<1>. QED  BY <1>1, SignaturesInvariance, PTL
-----------------------------------------------------------------------------
(* One step of WOTS chain i from position p.                               *)
Link(seed, adrs, i, p, v) ==
    Lite!ChainHash(seed, [adrs EXCEPT !.type = Lite!WOTS_HASH, !.chain = i - 1,
                                      !.hash = p], <<v>>)

(* f holds the values of n steps.                                          *)
Climb(f, seed, adrs, i, start, n, v) ==
    f = [j \in 0 .. n |-> IF j = 0 THEN v ELSE Link(seed, adrs, i, start + j - 1, f[j - 1])]

(* Such an f exists, whatever the chain starts with.                       *)
LEMMA ClimbExists ==
    ASSUME NEW seed, NEW adrs, NEW i, NEW start \in Nat, NEW v, NEW n \in Nat
    PROVE  \E f : Climb(f, seed, adrs, i, start, n, v)
<1> DEFINE Node(p, x) == Link(seed, adrs, i, p, x)
           Is(f, k) == f = [j \in 0 .. k |-> IF j = 0 THEN v ELSE Node(start + j - 1, f[j - 1])]
           F == {k \in Nat : ~ \E f : Is(f, k)}
<1> SUFFICES ASSUME F # {} PROVE FALSE
  BY DEF Climb
<1>1. PICK k \in F : \A j \in F : k <= j
  <2> F \in SUBSET Nat
    OBVIOUS
  <2> HIDE DEF F
  <2>. QED  BY LeastNumber
<1>2. k \in Nat /\ ~ \E f : Is(f, k)
  OBVIOUS
<1> HIDE DEF Node
<1>3. k # 0
  <2> DEFINE f == [j \in 0 .. 0 |-> v]
  <2>1. Is(f, 0)
    OBVIOUS
  <2>. QED  BY <1>2, <2>1
<1>4. k - 1 \in Nat /\ k - 1 \notin F
  <2> HIDE DEF F
  <2>. QED  BY <1>1, <1>2, <1>3
<1>5. PICK f : Is(f, k - 1)
  BY <1>4
<1> DEFINE g == [j \in 0 .. k |-> IF j = k THEN Node(start + k - 1, f[k - 1]) ELSE f[j]]
<1>6. \A j \in 0 .. k - 1 : g[j] = f[j]
  BY <1>2
<1>7. ASSUME NEW j \in 0 .. k
      PROVE  g[j] = IF j = 0 THEN v ELSE Node(start + j - 1, g[j - 1])
  <2>1. CASE j = 0
    BY <1>2, <1>3, <1>5, <2>1
  <2>2. CASE j # 0 /\ j # k
    <3>1. j \in 0 .. k - 1 /\ j - 1 \in 0 .. k - 1
      BY <1>2, <2>2
    <3>2. f[j] = Node(start + j - 1, f[j - 1])
      BY <1>5, <2>2, <3>1
    <3>3. g[j] = f[j] /\ g[j - 1] = f[j - 1]
      BY <1>6, <3>1
    <3>. QED  BY <2>2, <3>2, <3>3
  <2>3. CASE j = k
    <3>1. k - 1 \in 0 .. k - 1
      BY <1>4
    <3>2. g[k - 1] = f[k - 1]
      BY <1>6, <3>1
    <3>. QED  BY <1>3, <2>3, <3>2
  <2>. QED  BY <2>1, <2>2, <2>3
<1>8. g = [j \in 0 .. k |-> g[j]]
  OBVIOUS
<1> HIDE DEF g
<1>9. Is(g, k)
  BY <1>7, <1>8
<1>. QED  BY <1>2, <1>9

(* What ChainStep computes, step by step.                                  *)
Steps(f, seed, adrs, i, start, n, v) ==
    /\ f[n] = Lite!ChainStep(seed, adrs, i, start, n, v)
    /\ f[0] = v
    /\ \A j \in 1 .. n : f[j] = Link(seed, adrs, i, start + j - 1, f[j - 1])

(* It computes this.                                                       *)
LEMMA ClimbSteps ==
    ASSUME NEW seed, NEW adrs, NEW i, NEW start \in Nat, NEW v, NEW n \in Nat
    PROVE  \E f : Steps(f, seed, adrs, i, start, n, v)
<1> DEFINE c == CHOOSE f : Climb(f, seed, adrs, i, start, n, v)
<1>1. Climb(c, seed, adrs, i, start, n, v)
  BY ClimbExists
<1>2. Lite!ChainStep(seed, adrs, i, start, n, v) = c[n]
  BY DEF Lite!ChainStep, Climb, Link
<1> HIDE DEF c
<1>3. /\ c[0] = v
      /\ \A j \in 1 .. n : c[j] = Link(seed, adrs, i, start + j - 1, c[j - 1])
  <2> DEFINE Node(p, x) == Link(seed, adrs, i, p, x)
  <2>1. c = [j \in 0 .. n |-> IF j = 0 THEN v ELSE Node(start + j - 1, c[j - 1])]
    BY <1>1 DEF Climb
  <2> HIDE DEF Node
  <2>2. \A j \in 0 .. n : c[j] = IF j = 0 THEN v ELSE Node(start + j - 1, c[j - 1])
    BY <2>1
  <2>3. c[0] = v /\ \A j \in 1 .. n : c[j] = Node(start + j - 1, c[j - 1])
    BY <2>2
  <2>. QED  BY <2>3 DEF Node
<1>. QED  BY <1>2, <1>3 DEF Steps

(* Climbing d steps and then the remaining ones is climbing all n.         *)
LEMMA ChainOn ==
    ASSUME NEW seed, NEW adrs, NEW i, NEW v, NEW n \in Nat, NEW d \in 0 .. n
    PROVE  Lite!ChainStep(seed, adrs, i, d, n - d, Lite!ChainStep(seed, adrs, i, 0, d, v))
              = Lite!ChainStep(seed, adrs, i, 0, n, v)
<1> DEFINE Node(p, x) == Link(seed, adrs, i, p, x)
           low == Lite!ChainStep(seed, adrs, i, 0, d, v)
           high == Lite!ChainStep(seed, adrs, i, d, n - d, low)
           whole == Lite!ChainStep(seed, adrs, i, 0, n, v)
<1>0. d \in Nat /\ n - d \in Nat
  OBVIOUS
<1> HIDE DEF Node, low
<1>1. PICK f : Steps(f, seed, adrs, i, 0, n, v)
  BY ClimbSteps
<1>2. PICK g : Steps(g, seed, adrs, i, 0, d, v)
  BY <1>0, ClimbSteps
<1>3. PICK h : Steps(h, seed, adrs, i, d, n - d, low)
  BY <1>0, ClimbSteps
<1>4. /\ f[n] = whole /\ f[0] = v /\ \A j \in 1 .. n : f[j] = Node(0 + j - 1, f[j - 1])
      /\ g[d] = low /\ g[0] = v /\ \A j \in 1 .. d : g[j] = Node(0 + j - 1, g[j - 1])
      /\ h[n - d] = high /\ h[0] = low
      /\ \A j \in 1 .. n - d : h[j] = Node(d + j - 1, h[j - 1])
  BY <1>1, <1>2, <1>3 DEF Steps, Node, low
<1> HIDE DEF high, whole
<1>5. g[d] = f[d]
  <2> DEFINE F == {j \in 0 .. d : g[j] # f[j]}
  <2> SUFFICES ASSUME F # {} PROVE FALSE
    OBVIOUS
  <2>1. PICK j \in F : \A k \in F : j <= k
    <3> F \in SUBSET Nat
      OBVIOUS
    <3> HIDE DEF F
    <3>. QED  BY LeastNumber
  <2>2. j \in 1 .. d /\ g[j] # f[j] /\ j \in 1 .. n
    BY <1>4
  <2>3. j - 1 \in 0 .. d /\ ~ (j <= j - 1)
    BY <2>2
  <2>4. g[j - 1] = f[j - 1]
    BY <2>1, <2>3
  <2>. QED  BY <1>4, <2>2, <2>4
<1>6. h[n - d] = f[n]
  <2> DEFINE F == {j \in 0 .. n - d : h[j] # f[d + j]}
  <2> SUFFICES ASSUME F # {} PROVE FALSE
    <3>1. n - d \notin F /\ d + (n - d) = n
      OBVIOUS
    <3>. QED  BY <1>0, <3>1
  <2>1. PICK j \in F : \A k \in F : j <= k
    <3> F \in SUBSET Nat
      OBVIOUS
    <3> HIDE DEF F
    <3>. QED  BY LeastNumber
  <2>2. j \in 0 .. n - d /\ h[j] # f[d + j]
    OBVIOUS
  <2>3. j # 0
    <3>1. d + 0 = d
      OBVIOUS
    <3>. QED  BY <1>4, <1>5, <2>2, <3>1
  <2>4. j - 1 \in 0 .. n - d /\ ~ (j <= j - 1)
    BY <2>2, <2>3
  <2>5. h[j - 1] = f[d + (j - 1)]
    BY <2>1, <2>4
  <2>6. h[j] = Node(d + j - 1, h[j - 1])
    BY <1>4, <2>2, <2>3
  <2>7. d + j \in 1 .. n /\ 0 + (d + j) - 1 = d + j - 1 /\ (d + j) - 1 = d + (j - 1)
    BY <2>2, <2>3
  <2>8. f[d + j] = Node(0 + (d + j) - 1, f[(d + j) - 1])
    BY <1>4, <2>7
  <2>. QED  BY <2>2, <2>5, <2>6, <2>7, <2>8
<1>. QED  BY <1>4, <1>6 DEF high, whole, low

(* wots_plus::verify accepts the chain points of sign, for any secret      *)
(* starts, address and digest.                                             *)
LEMMA WotsVerifiesOwn ==
    ASSUME NEW seed, NEW adrs, NEW sk, NEW m \in Nat
    PROVE  Lite!WotsVerify(seed, adrs, m, Lite!ChainPoints(seed, adrs, sk, m),
                           Lite!ChainTops(seed, adrs, sk)) = "true"
<1> DEFINE s == Lite!ChainPoints(seed, adrs, sk, m)
           p == Lite!ChainTops(seed, adrs, sk)
           d == Lite!MsgToChains(m)
<1>1. Lite!LEN = LEN_1 + LEN_2 /\ Lite!LEN \in Nat
  BY Sizes DEF Lite!LEN, LEN_1
<1>2. \A i \in 1 .. Lite!LEN : d[i] \in 0 .. W - 1
  <2>1. d \in Seq(0 .. W - 1) /\ Len(d) = Lite!LEN
    BY <1>1, ChainsShape
  <2>. QED  BY <2>1, ElementOfSeq
<1>3. /\ s = [i \in 1 .. Lite!LEN |-> Lite!ChainStep(seed, adrs, i, 0, d[i], sk[i])]
      /\ p = [i \in 1 .. Lite!LEN |-> Lite!ChainStep(seed, adrs, i, 0, W - 1, sk[i])]
  BY DEF Lite!ChainPoints, Lite!ChainTops, W
<1> HIDE DEF s, p, d
<1>4. Len(s) = Lite!LEN /\ Len(p) = Lite!LEN
  <2>1. /\ s \in [1 .. Lite!LEN -> {s[i] : i \in 1 .. Lite!LEN}]
        /\ p \in [1 .. Lite!LEN -> {p[i] : i \in 1 .. Lite!LEN}]
    BY <1>3
  <2>. QED  BY <1>1, <2>1, FunctionIsSeq
<1>5. ASSUME NEW i \in 1 .. Lite!LEN
      PROVE  Lite!ChainStep(seed, adrs, i, d[i], W - 1 - d[i], s[i]) = p[i]
  <2>1. /\ s[i] = Lite!ChainStep(seed, adrs, i, 0, d[i], sk[i])
        /\ p[i] = Lite!ChainStep(seed, adrs, i, 0, W - 1, sk[i])
    BY <1>3
  <2>2. W - 1 \in Nat /\ d[i] \in 0 .. W - 1
    BY <1>2, Sizes
  <2>. QED  BY <2>1, <2>2, ChainOn
<1>. QED  BY <1>4, <1>5 DEF Lite!WotsVerify, s, p, d, W

-----------------------------------------------------------------------------
(* Trees of LITE.                                                          *)

(* The values of N bytes.                                                  *)
V == Lite!Value
(* The hash has N bytes, whatever it is given. Of it nothing else is used. *)
HashFits == \A s : Sha(s) \in V

(* Inner nodes of the trees of LITE are values.                            *)
LEMMA LiteHash ==
    ASSUME HashFits
    PROVE  \A t, h, i, m : Lite!TreeHash(t, h, i, m) \in V
  BY DEF HashFits, Lite!TreeHash, Lite!ChainHash

(* One step of the climb in a tree of LITE.                                *)
LiteUp(t, leaf, auth, h, x) ==
    Lite!TreeHash(t, h, leaf \div 2^h,
                  IF (leaf \div 2^(h - 1)) % 2 = 0 THEN <<x, auth[h]>> ELSE <<auth[h], x>>)

(* What Climb computes, step by step, of values.                           *)
LEMMA LiteClimb ==
    ASSUME HashFits, NEW t, NEW v \in V, NEW leaf, NEW auth, Len(auth) \in Nat
    PROVE  \E c : /\ Lite!Xmss!Climb(t, v, leaf, auth) = c[Len(auth)]
                  /\ c[0] = v /\ \A h \in 0 .. Len(auth) : c[h] \in V
                  /\ \A h \in 1 .. Len(auth) : c[h] = LiteUp(t, leaf, auth, h, c[h - 1])
<1> DEFINE n == Len(auth)
           Up(h, x) == LiteUp(t, leaf, auth, h, x)
           Is(f) == f = [h \in 0 .. n |-> IF h = 0 THEN v ELSE Up(h, f[h - 1])]
           G == [h \in 0 + 1 .. n |-> [x \in V |-> Up(h, x)]]
           c == CHOOSE f : Is(f)
<1>1. \A h, x : Up(h, x) \in V
  BY LiteHash DEF LiteUp
<1>2. Lite!Xmss!Climb(t, v, leaf, auth) = c[n]
  BY DEF Lite!Xmss!Climb, LiteUp
<1> HIDE DEF Up, n
<1>3. n \in Nat /\ 0 \in Nat /\ 0 <= n
  BY DEF n
<1>4. \A h \in 0 + 1 .. n : \A x \in V : G[h][x] = Up(h, x)
  OBVIOUS
<1>5. PICK f : Iterate(f, V, 0, n, v, G)
  <2>1. ClosedUnder(V, 0, n, G)
    BY <1>1, <1>4 DEF ClosedUnder
  <2> HIDE DEF G
  <2>. QED  BY <1>3, <2>1, Iterates
<1> HIDE DEF G
<1>6. Is(f)
  <2>1. ASSUME NEW h \in 0 .. n PROVE f[h] = IF h = 0 THEN v ELSE Up(h, f[h - 1])
    <3>1. CASE h = 0
      BY <1>5, <3>1 DEF Iterate
    <3>2. CASE h # 0
      <4>1. h \in 0 + 1 .. n /\ h - 1 \in 0 .. n
        BY <1>3, <3>2
      <4>2. f[h] = G[h][f[h - 1]] /\ f[h - 1] \in V
        BY <1>5, <4>1 DEF Iterate
      <4>. QED  BY <1>4, <3>2, <4>1, <4>2
    <3>. QED  BY <3>1, <3>2
  <2>2. f = [h \in 0 .. n |-> f[h]]
    BY <1>5 DEF Iterate
  <2>. QED  BY <2>1, <2>2
<1>7. Is(c)
  <2> HIDE DEF Is
  <2>. QED  BY <1>6
<1> HIDE DEF c
<1>8. c[0] = v /\ \A h \in 1 .. n : c[h] = Up(h, c[h - 1])
  BY <1>3, <1>7
<1>9. \A h \in 0 .. n : c[h] \in V
  <2>1. \A h \in 0 + 1 .. n : c[h - 1] \in V => c[h] \in V
    BY <1>1, <1>8
  <2>. QED  BY <1>3, <1>8, <2>1, StaysIn
<1>. QED  BY <1>2, <1>8, <1>9 DEF n, Up

(* An inner node, and a level of them.                                     *)
LiteNode(t, below, n, h, i) == Lite!TreeHash(t, h, i, <<below[2 * i], below[2 * i + 1]>>)
LiteRow(t, below, n, h) == [i \in 0 .. 2^(n - h) - 1 |-> LiteNode(t, below, n, h, i)]

(* What Levels computes, level by level, of values.                        *)
LEMMA LiteLevels ==
    ASSUME HashFits, NEW t, NEW n \in Nat, NEW leaves \in [0 .. 2^n - 1 -> V]
    PROVE  LET L == Lite!Xmss!Levels(t, leaves, n)
           IN  /\ L[0] = leaves
               /\ \A h \in 0 .. n : L[h] \in [0 .. 2^(n - h) - 1 -> V]
               /\ \A h \in 1 .. n : L[h] = LiteRow(t, L[h - 1], n, h)
<1> DEFINE Row(h, x) == LiteRow(t, x, n, h)
           Is(f) == f = [h \in 0 .. n |-> IF h = 0 THEN leaves ELSE Row(h, f[h - 1])]
           S == UNION {[0 .. 2^(n - h) - 1 -> V] : h \in 0 .. n}
           G == [h \in 0 + 1 .. n |-> [x \in S |-> Row(h, x)]]
           c == CHOOSE f : Is(f)
<1>1. \A h, x : Row(h, x) \in [0 .. 2^(n - h) - 1 -> V]
  BY LiteHash DEF LiteRow, LiteNode
<1>2. Lite!Xmss!Levels(t, leaves, n) = c
  BY DEF Lite!Xmss!Levels, LiteRow, LiteNode
<1> HIDE DEF Row
<1>3. leaves \in S
  <2>1. n - 0 = n /\ 0 \in 0 .. n
    OBVIOUS
  <2>. QED  BY <2>1
<1>4. \A h \in 0 + 1 .. n : \A x \in S : G[h][x] = Row(h, x)
  OBVIOUS
<1>5. PICK f : Iterate(f, S, 0, n, leaves, G)
  <2>1. ASSUME NEW h \in 0 + 1 .. n, NEW x \in S PROVE G[h][x] \in S
    <3>1. G[h][x] \in [0 .. 2^(n - h) - 1 -> V]
      BY <1>1
    <3>2. h \in 0 .. n
      OBVIOUS
    <3> HIDE DEF G
    <3>. QED  BY <3>1, <3>2
  <2> HIDE DEF G, S
  <2>2. ClosedUnder(S, 0, n, G)
    BY <2>1 DEF ClosedUnder
  <2>. QED  BY <1>3, <2>2, Iterates
<1> HIDE DEF G, S
<1>6. Is(f)
  <2>1. ASSUME NEW h \in 0 .. n PROVE f[h] = IF h = 0 THEN leaves ELSE Row(h, f[h - 1])
    <3>1. CASE h = 0
      BY <1>5, <3>1 DEF Iterate
    <3>2. CASE h # 0
      <4>1. h \in 0 + 1 .. n /\ h - 1 \in 0 .. n
        BY <3>2
      <4>2. f[h] = G[h][f[h - 1]] /\ f[h - 1] \in S
        BY <1>5, <4>1 DEF Iterate
      <4>. QED  BY <1>4, <3>2, <4>1, <4>2
    <3>. QED  BY <3>1, <3>2
  <2>2. f = [h \in 0 .. n |-> f[h]]
    BY <1>5 DEF Iterate
  <2>. QED  BY <2>1, <2>2
<1>7. Is(c)
  <2> HIDE DEF Is
  <2>. QED  BY <1>6
<1> HIDE DEF c
<1>8. c[0] = leaves /\ \A h \in 1 .. n : c[h] = Row(h, c[h - 1])
  BY <1>7
<1>9. ASSUME NEW h \in 0 .. n PROVE c[h] \in [0 .. 2^(n - h) - 1 -> V]
  <2>1. CASE h = 0
    <3>1. n - 0 = n
      OBVIOUS
    <3>. QED  BY <1>8, <2>1, <3>1
  <2>2. CASE h # 0
    <3>1. h \in 1 .. n
      BY <2>2
    <3>. QED  BY <1>1, <1>8, <3>1
  <2>. QED  BY <2>1, <2>2
<1>. QED  BY <1>2, <1>8, <1>9 DEF Row

(* The path of a leaf has one value for each level, and leads from the     *)
(* leaf to the root.                                                       *)
LEMMA LiteAuthPath ==
    ASSUME HashFits, NEW t, NEW n \in Nat, NEW leaves \in [0 .. 2^n - 1 -> V],
           NEW leaf \in 0 .. 2^n - 1
    PROVE  LET L == Lite!Xmss!Levels(t, leaves, n)
               auth == Lite!Xmss!AuthPath(L, n, leaf)
           IN  /\ auth \in Seq(V) /\ Len(auth) = n
               /\ Lite!Xmss!Climb(t, leaves[leaf], leaf, auth) = Lite!Xmss!Root(L, n)
               /\ Lite!Xmss!Root(L, n) \in V
<1> DEFINE L == Lite!Xmss!Levels(t, leaves, n)
           auth == Lite!Xmss!AuthPath(L, n, leaf)
           T == [h \in 1 .. n |-> [i \in Nat |-> [q \in V \X V |-> Lite!TreeHash(t, h, i, q)]]]
<1>0. 2^n \in Nat \ {0} /\ leaf \in Nat /\ leaf < 2^n
  BY PowNat
<1>1. /\ L[0] = leaves
      /\ \A h \in 0 .. n : L[h] \in [0 .. 2^(n - h) - 1 -> V]
      /\ \A h \in 1 .. n : L[h] = LiteRow(t, L[h - 1], n, h)
  BY LiteLevels
<1>2. /\ auth = [h \in 1 .. n |-> L[h - 1][Beside(leaf \div 2^(h - 1))]]
      /\ Lite!Xmss!Root(L, n) = L[n][0]
  BY DEF Lite!Xmss!AuthPath, Lite!Xmss!Sibling, Lite!Xmss!Root, Beside
<1> HIDE DEF L, auth
<1>3. ASSUME NEW h \in 1 .. n
      PROVE  /\ L[h - 1] \in [0 .. 2^(n - (h - 1)) - 1 -> V]
             /\ auth[h] = L[h - 1][Beside(leaf \div 2^(h - 1))]
             /\ auth[h] \in V
  <2>1. h - 1 \in 0 .. n
    OBVIOUS
  <2>2. Beside(leaf \div 2^(h - 1)) \in 0 .. 2^(n - (h - 1)) - 1
    BY <1>0, Family
  <2>3. L[h - 1] \in [0 .. 2^(n - (h - 1)) - 1 -> V]
    BY <1>1, <2>1
  <2>. QED  BY <1>2, <2>2, <2>3
<1>4. auth \in Seq(V) /\ Len(auth) = n
  <2>1. auth \in [1 .. n -> V]
    BY <1>2, <1>3
  <2>. QED  BY <2>1, FunctionIsSeq
<1>5. leaves[leaf] \in V
  BY <1>0
<1>6. PICK c : /\ Lite!Xmss!Climb(t, leaves[leaf], leaf, auth) = c[n]
               /\ c[0] = leaves[leaf] /\ \A h \in 0 .. n : c[h] \in V
               /\ \A h \in 1 .. n : c[h] = LiteUp(t, leaf, auth, h, c[h - 1])
  BY <1>4, <1>5, LiteClimb
<1>7. ASSUME NEW h \in 1 .. n, NEW i \in 0 .. 2^(n - h) - 1
      PROVE  L[h][i] = T[h][i][<<L[h - 1][2 * i], L[h - 1][2 * i + 1]>>]
  <2>1. L[h][i] = Lite!TreeHash(t, h, i, <<L[h - 1][2 * i], L[h - 1][2 * i + 1]>>)
    BY <1>1 DEF LiteRow, LiteNode
  <2>2. 2 * i \in 0 .. 2^(n - (h - 1)) - 1 /\ 2 * i + 1 \in 0 .. 2^(n - (h - 1)) - 1
    <3> DEFINE k == n - h
    <3>1. k \in Nat /\ n - (h - 1) = k + 1
      OBVIOUS
    <3>2. i \in 0 .. 2^k - 1
      OBVIOUS
    <3> HIDE DEF k
    <3>3. 2^(k + 1) = 2 * 2^k /\ 2^k \in Nat
      BY <3>1, PowStep, PowNat
    <3>. QED  BY <3>1, <3>2, <3>3
  <2>3. L[h - 1][2 * i] \in V /\ L[h - 1][2 * i + 1] \in V
    BY <1>3, <2>2
  <2>4. i \in Nat
    OBVIOUS
  <2>. QED  BY <2>1, <2>3, <2>4
<1>8. ASSUME NEW h \in 1 .. n
      PROVE  c[h] = T[h][leaf \div 2^h][IF (leaf \div 2^(h - 1)) % 2 = 0
                                       THEN <<c[h - 1], auth[h]>> ELSE <<auth[h], c[h - 1]>>]
  <2>1. leaf \div 2^h \in Nat
    <3>1. 2^h \in Nat \ {0}
      BY PowNat
    <3>. QED  BY <1>0, <3>1
  <2>2. h - 1 \in 0 .. n
    OBVIOUS
  <2>3. c[h - 1] \in V /\ auth[h] \in V
    BY <1>3, <1>6, <2>2
  <2> DEFINE q == IF (leaf \div 2^(h - 1)) % 2 = 0
                  THEN <<c[h - 1], auth[h]>> ELSE <<auth[h], c[h - 1]>>
  <2>4. q \in V \X V
    BY <2>3
  <2>5. c[h] = Lite!TreeHash(t, h, leaf \div 2^h, q)
    BY <1>6 DEF LiteUp
  <2> HIDE DEF q
  <2>6. T[h][leaf \div 2^h][q] = Lite!TreeHash(t, h, leaf \div 2^h, q)
    BY <2>1, <2>4
  <2>. QED  BY <2>5, <2>6 DEF q
<1> HIDE DEF T
<1>9. c[n] = L[n][0]
  <2>1. c[0] = L[0][leaf]
    BY <1>1, <1>6
  <2>2. PathIn(L, n, leaf, auth)
    BY <1>3 DEF PathIn
  <2>3. TreeBy(T, n, V, L)
    BY <1>1, <1>7 DEF TreeBy
  <2>4. ClimbBy(T, n, leaf, auth, c)
    BY <1>8 DEF ClimbBy
  <2>. QED  BY <1>0, <2>1, <2>2, <2>3, <2>4, PathReachesRoot
<1>10. L[n][0] \in V
  <2>1. L[n] \in [0 .. 2^(n - n) - 1 -> V] /\ n - n = 0
    <3>1. n \in 0 .. n /\ n - n = 0
      OBVIOUS
    <3>2. \A h \in 0 .. n : L[h] \in [0 .. 2^(n - h) - 1 -> V]
      BY <1>1
    <3>3. L[n] \in [0 .. 2^(n - n) - 1 -> V]
      BY <3>1, <3>2, Zenon
    <3>. QED  BY <3>1, <3>3
  <2>2. 2^0 = 1
    OBVIOUS
  <2>3. 2^(n - n) - 1 = 0
    <3>1. 2^(n - n) = 2^0
      BY <2>1, Zenon
    <3>. QED  BY <2>2, <3>1
  <2>. QED  BY <2>1, <2>3
<1>. QED  BY <1>2, <1>4, <1>6, <1>9, <1>10 DEF L, auth

-----------------------------------------------------------------------------
(* One layer of LITE.                                                      *)

(* The sizes of chains and trees.                                          *)
LEMMA LiteSizes ==
    /\ Lite!LEN = LEN_1 + LEN_2 /\ Lite!LEN \in Nat
    /\ H_PRIME \in Nat /\ D \in Nat \ {0} /\ A \in Nat /\ A128 \in Nat /\ K \in Nat \ {0}
    /\ V \in SUBSET Nat
<1>1. Lite!LEN = LEN_1 + LEN_2
  BY DEF Lite!LEN, LEN_1
<1>2. H_PRIME \in Nat /\ D \in Nat \ {0} /\ A \in Nat /\ A128 \in Nat /\ K \in Nat \ {0}
  BY SignaturesAssumption
<1>3. V \in SUBSET Nat
  BY DEF V, Lite!Value
<1>. QED  BY <1>1, <1>2, <1>3, Sizes

(* The values along a chain are values of N bytes.                         *)
LEMMA ChainValue ==
    ASSUME HashFits, NEW seed, NEW adrs, NEW i, NEW start \in Nat, NEW v \in V, NEW n \in Nat
    PROVE  Lite!ChainStep(seed, adrs, i, start, n, v) \in V
<1>1. PICK f : Steps(f, seed, adrs, i, start, n, v)
  BY ClimbSteps
<1>2. \A p, x : Link(seed, adrs, i, p, x) \in V
  BY DEF Link, Lite!ChainHash, HashFits
<1>3. CASE n = 0
  BY <1>1, <1>3 DEF Steps
<1>4. CASE n # 0
  <2>1. n \in 1 .. n
    BY <1>4
  <2>. QED  BY <1>1, <1>2, <2>1 DEF Steps
<1>. QED  BY <1>3, <1>4

(* From the chain points of any digest the verifier climbs to the chain    *)
(* tops of the key pair.                                                   *)
LEMMA ChainsOfKey ==
    ASSUME NEW seed, NEW adrs, NEW sk, NEW m \in Nat
    PROVE  Lite!PkFromSig(seed, adrs, m, Lite!ChainPoints(seed, adrs, sk, m))
              = Lite!ChainTops(seed, adrs, sk)
<1> DEFINE s == Lite!ChainPoints(seed, adrs, sk, m)
           d == Lite!MsgToChains(m)
<1>1. \A i \in 1 .. Lite!LEN : d[i] \in 0 .. W - 1
  <2>1. d \in Seq(0 .. W - 1) /\ Len(d) = Lite!LEN
    BY LiteSizes, ChainsShape
  <2>. QED  BY <2>1, ElementOfSeq
<1>2. s = [i \in 1 .. Lite!LEN |-> Lite!ChainStep(seed, adrs, i, 0, d[i], sk[i])]
  BY DEF Lite!ChainPoints
<1>3. /\ Lite!PkFromSig(seed, adrs, m, s)
             = [i \in 1 .. Lite!LEN |-> Lite!ChainStep(seed, adrs, i, d[i], W - 1 - d[i], s[i])]
      /\ Lite!ChainTops(seed, adrs, sk)
             = [i \in 1 .. Lite!LEN |-> Lite!ChainStep(seed, adrs, i, 0, W - 1, sk[i])]
  BY DEF Lite!PkFromSig, Lite!ChainTops, W
<1> HIDE DEF s, d
<1>4. ASSUME NEW i \in 1 .. Lite!LEN
      PROVE  Lite!ChainStep(seed, adrs, i, d[i], W - 1 - d[i], s[i])
                = Lite!ChainStep(seed, adrs, i, 0, W - 1, sk[i])
  <2>1. W - 1 \in Nat /\ d[i] \in 0 .. W - 1
    BY <1>1, Sizes
  <2>2. s[i] = Lite!ChainStep(seed, adrs, i, 0, d[i], sk[i])
    BY <1>2
  <2>. QED  BY <2>1, <2>2, ChainOn
<1>. QED  BY <1>3, <1>4 DEF s

(* Chain points are LEN values.                                            *)
LEMMA PointsShape ==
    ASSUME HashFits, NEW seed, NEW adrs, NEW sk, \A i \in 1 .. Lite!LEN : sk[i] \in V, NEW m \in Nat
    PROVE  /\ Lite!ChainPoints(seed, adrs, sk, m) \in Seq(V)
           /\ Len(Lite!ChainPoints(seed, adrs, sk, m)) = Lite!LEN
<1> DEFINE s == Lite!ChainPoints(seed, adrs, sk, m)
           d == Lite!MsgToChains(m)
<1>1. \A i \in 1 .. Lite!LEN : d[i] \in Nat
  <2>1. d \in Seq(0 .. W - 1) /\ Len(d) = Lite!LEN
    BY LiteSizes, ChainsShape
  <2>2. \A i \in 1 .. Lite!LEN : d[i] \in 0 .. W - 1
    BY <2>1, ElementOfSeq
  <2>. QED  BY <2>2
<1>2. s = [i \in 1 .. Lite!LEN |-> Lite!ChainStep(seed, adrs, i, 0, d[i], sk[i])]
  BY DEF Lite!ChainPoints
<1> HIDE DEF s, d
<1>3. \A i \in 1 .. Lite!LEN : Lite!ChainStep(seed, adrs, i, 0, d[i], sk[i]) \in V
  BY <1>1, ChainValue
<1>4. s \in [1 .. Lite!LEN -> V]
  BY <1>2, <1>3
<1>. QED  BY <1>4, LiteSizes, FunctionIsSeq DEF s

-----------------------------------------------------------------------------
(* The root of a tree of LITE.                                             *)
LiteTop(sk, layer, tree) == Lite!Xmss!Root(Lite!XmssLevels(sk, layer, tree), H_PRIME)

(* A key pair signs under its tree's root.                                 *)
XmssSigned(sk, layer, tree, leaf, m, s) ==
    LET points == SubSeq(s, 1, Lite!LEN)
        auth == SubSeq(s, Lite!LEN + 1, Lite!LEN + H_PRIME)
    IN  /\ s \in Seq(V) /\ Len(s) = Lite!LEN + H_PRIME
        /\ Lite!XmssRootFromSig(sk.seed, layer, tree, leaf, m, points, auth)
              = LiteTop(sk, layer, tree)

(* Every leaf of a tree signs under its root: the climb from the chain     *)
(* points gives the leaf, the path leads to the root.                      *)
LEMMA XmssOwn ==
    ASSUME HashFits, NEW sk, NEW layer, NEW tree, NEW leaf \in 0 .. 2^H_PRIME - 1, NEW m \in V
    PROVE  /\ XmssSigned(sk, layer, tree, leaf, m, Lite!XmssSign(sk, layer, tree, leaf, m))
           /\ LiteTop(sk, layer, tree) \in V
<1> DEFINE t == [seed |-> sk.seed, layer |-> layer, tree |-> tree]
           Key(i) == Lite!ChainTops(sk.seed, Lite!BuildAdrs(layer, tree, Lite!WOTS_HASH, i),
                                    Lite!WotsSk(sk.skSeed, i))
           Leaf(i) == Lite!LeafFromPk(sk.seed, layer, tree, i, Key(i))
           leaves == [i \in 0 .. 2^H_PRIME - 1 |-> Leaf(i)]
           L == Lite!Xmss!Levels(t, leaves, H_PRIME)
           auth == Lite!Xmss!AuthPath(L, H_PRIME, leaf)
           adrs == Lite!BuildAdrs(layer, tree, Lite!WOTS_HASH, leaf)
           wsk == Lite!WotsSk(sk.skSeed, leaf)
           points == Lite!ChainPoints(sk.seed, adrs, wsk, m)
<1>1. Lite!XmssLevels(sk, layer, tree) = L
  BY DEF Lite!XmssLevels
<1>2. leaves \in [0 .. 2^H_PRIME - 1 -> V]
  BY DEF HashFits, Lite!LeafFromPk, Lite!ChainHash
<1>3. /\ auth \in Seq(V) /\ Len(auth) = H_PRIME
      /\ Lite!Xmss!Climb(t, leaves[leaf], leaf, auth) = Lite!Xmss!Root(L, H_PRIME)
      /\ Lite!Xmss!Root(L, H_PRIME) \in V
  <2> HIDE DEF leaves, t
  <2>. QED  BY <1>2, LiteSizes, LiteAuthPath
<1>4. points \in Seq(V) /\ Len(points) = Lite!LEN
  <2>1. \A i \in 1 .. Lite!LEN : wsk[i] \in V
    BY DEF Lite!WotsSk, HashFits
  <2>2. m \in Nat
    BY LiteSizes
  <2> HIDE DEF wsk, adrs
  <2>. QED  BY <2>1, <2>2, PointsShape
<1>5. Lite!XmssSign(sk, layer, tree, leaf, m) = points \o auth
  BY <1>1 DEF Lite!XmssSign
<1>6. /\ points \o auth \in Seq(V) /\ Len(points \o auth) = Lite!LEN + H_PRIME
      /\ SubSeq(points \o auth, 1, Lite!LEN) = points
      /\ SubSeq(points \o auth, Lite!LEN + 1, Lite!LEN + H_PRIME) = auth
  <2> HIDE DEF points, auth
  <2>1. points \o auth \in Seq(V) /\ Len(points \o auth) = Len(points) + Len(auth)
    BY <1>3, <1>4, ConcatProperties
  <2>2. /\ SubSeq(points \o auth, 1, Lite!LEN) = points
        /\ SubSeq(points \o auth, Lite!LEN + 1, Lite!LEN + H_PRIME) = auth
    <3>1. \A x, y \in Seq(V) : /\ SubSeq(x \o y, 1, Len(x)) = x
                              /\ SubSeq(x \o y, Len(x) + 1, Len(x) + Len(y)) = y
      BY CutJoined
    <3>. QED  BY <1>3, <1>4, <3>1
  <2>. QED  BY <1>3, <1>4, <2>1, <2>2
<1>7. Lite!PkFromSig(sk.seed, adrs, m, points) = Key(leaf)
  <2>1. m \in Nat
    BY LiteSizes
  <2>. QED  BY <2>1, ChainsOfKey
<1>8. leaves[leaf] = Leaf(leaf)
  OBVIOUS
<1>9. Lite!XmssRootFromSig(sk.seed, layer, tree, leaf, m, points, auth)
        = Lite!Xmss!Climb(t, Lite!LeafFromPk(sk.seed, layer, tree, leaf,
                                  Lite!PkFromSig(sk.seed, adrs, m, points)), leaf, auth)
  <2> HIDE DEF points, auth
  <2>. QED  BY DEF Lite!XmssRootFromSig
<1>10. Lite!XmssRootFromSig(sk.seed, layer, tree, leaf, m, points, auth) = Lite!Xmss!Root(L, H_PRIME)
  <2> HIDE DEF points, auth, adrs, t, L, leaves, Key
  <2>. QED  BY <1>3, <1>7, <1>8, <1>9
<1> HIDE DEF points, auth, L
<1>. QED  BY <1>1, <1>3, <1>5, <1>6, <1>10 DEF XmssSigned, LiteTop

-----------------------------------------------------------------------------
(* The places of the layers.                                               *)

(* The index of the first tree has H_PRIME bits for each layer above.      *)
LEMMA Room ==
    /\ Lite!H - H_PRIME = (D - 1) * H_PRIME /\ (D - 1) * H_PRIME \in Nat
    /\ 2^H_PRIME \in Nat \ {0}
  <1>1. H_PRIME \in Nat /\ D \in Nat \ {0}
    BY LiteSizes
  <1>2. Lite!H = D * H_PRIME
    BY DEF Lite!H
  <1>3. D * H_PRIME - H_PRIME = (D - 1) * H_PRIME /\ (D - 1) * H_PRIME \in Nat
    BY <1>1
  <1>. QED  BY <1>1, <1>2, <1>3, PowNat

(* The places of a signature's layers, from the leaf to the only top tree. *)
Ascends(at, tree, leaf) ==
    /\ at[0] = [tree |-> tree, leaf |-> leaf]
    /\ \A l \in 1 .. D - 1 : at[l] = [tree |-> at[l - 1].tree \div 2^H_PRIME,
                                      leaf |-> at[l - 1].tree % 2^H_PRIME]

(* A tree and a leaf in it.                                                *)
Place == [tree : Nat, leaf : 0 .. 2^H_PRIME - 1]

(* Places goes up as Promote says.                                         *)
LEMMA LitePlaces ==
    ASSUME NEW tree \in Nat, NEW leaf \in 0 .. 2^H_PRIME - 1
    PROVE  Ascends(Lite!Places(tree, leaf), tree, leaf)
<1> DEFINE n == D - 1
           v == [tree |-> tree, leaf |-> leaf]
           Up(x) == Lite!Promote(x.tree)
           Is(f) == f = [l \in 0 .. n |-> IF l = 0 THEN v ELSE Up(f[l - 1])]
           G == [l \in 0 + 1 .. n |-> [x \in Place |-> Up(x)]]
           c == CHOOSE f : Is(f)
<1>1. \A x \in Place : Up(x) \in Place
  <2>1. \A y \in Nat : y \div 2^H_PRIME \in Nat /\ y % 2^H_PRIME \in 0 .. 2^H_PRIME - 1
    BY Room
  <2>. QED  BY <2>1 DEF Lite!Promote, Place
<1>2. Lite!Places(tree, leaf) = c
  BY DEF Lite!Places
<1>3. v \in Place
  BY DEF Place
<1> HIDE DEF Up, v
<1>4. \A l \in 0 + 1 .. n : \A x \in Place : G[l][x] = Up(x)
  OBVIOUS
<1>5. n \in Nat /\ 0 <= n /\ 0 \in Nat
  BY LiteSizes
<1> HIDE DEF n
<1>6. PICK f : Iterate(f, Place, 0, n, v, G)
  <2>1. ClosedUnder(Place, 0, n, G)
    BY <1>1, <1>4 DEF ClosedUnder
  <2> HIDE DEF G
  <2>. QED  BY <1>3, <1>5, <2>1, Iterates
<1> HIDE DEF G
<1>7. Is(f)
  <2>1. ASSUME NEW l \in 0 .. n PROVE f[l] = IF l = 0 THEN v ELSE Up(f[l - 1])
    <3>1. CASE l = 0
      BY <1>6, <3>1 DEF Iterate
    <3>2. CASE l # 0
      <4>1. l \in 0 + 1 .. n /\ l - 1 \in 0 .. n
        BY <1>5, <3>2
      <4>2. f[l] = G[l][f[l - 1]] /\ f[l - 1] \in Place
        BY <1>6, <4>1 DEF Iterate
      <4>. QED  BY <1>4, <3>2, <4>1, <4>2
    <3>. QED  BY <3>1, <3>2
  <2>2. f = [l \in 0 .. n |-> f[l]]
    BY <1>6 DEF Iterate
  <2>. QED  BY <2>1, <2>2
<1>8. Is(c)
  <2> HIDE DEF Is
  <2>. QED  BY <1>7
<1> HIDE DEF c
<1>9. c[0] = v /\ \A l \in 1 .. n : c[l] = Up(c[l - 1])
  BY <1>5, <1>8
<1>. QED  BY <1>2, <1>9 DEF Ascends, v, Up, n, Lite!Promote

(* Each layer takes H_PRIME bits off the index of the tree; at the last    *)
(* one it is 0, the tree in the public key.                                *)
LEMMA TopIsOne ==
    ASSUME NEW tree \in Nat, tree < 2^((D - 1) * H_PRIME), NEW leaf \in 0 .. 2^H_PRIME - 1,
           NEW at, Ascends(at, tree, leaf)
    PROVE  /\ \A l \in 0 .. D - 1 : at[l].tree \in Nat /\ at[l].leaf \in 0 .. 2^H_PRIME - 1
           /\ at[D - 1].tree = 0
<1> DEFINE n == D - 1
           Bits(l) == (n - l) * H_PRIME
           X == {l \in 0 .. n : /\ at[l].tree \in Nat /\ at[l].tree < 2^Bits(l)
                                /\ at[l].leaf \in 0 .. 2^H_PRIME - 1}
<1>0. n \in Nat /\ H_PRIME \in Nat
  BY LiteSizes
<1>1. 0 \in X
  <2>1. Bits(0) = n * H_PRIME
    BY <1>0
  <2>2. at[0].tree = tree /\ at[0].leaf = leaf
    BY DEF Ascends
  <2> HIDE DEF Bits
  <2>3. tree < 2^Bits(0)
    BY <2>1
  <2>. QED  BY <1>0, <2>2, <2>3
<1>2. ASSUME NEW l \in 0 + 1 .. n, l - 1 \in X PROVE l \in X
  <2> DEFINE x == at[l - 1].tree
             b == Bits(l - 1)
  <2>1. l \in 1 .. D - 1 /\ l \in 0 .. n
    BY <1>0
  <2>2. x \in Nat /\ x < 2^b
    BY <1>2
  <2>3. at[l].tree = x \div 2^H_PRIME /\ at[l].leaf = x % 2^H_PRIME
    <3>1. at[l] = [tree |-> x \div 2^H_PRIME, leaf |-> x % 2^H_PRIME]
      BY <2>1 DEF Ascends
    <3> HIDE DEF x
    <3>. QED  BY <3>1
  <2>4. b \in Nat /\ H_PRIME \in 0 .. b /\ b - H_PRIME = Bits(l)
    <3> DEFINE k == n - l
    <3>1. k \in Nat /\ n - (l - 1) = k + 1
      BY <1>0, <2>1
    <3> HIDE DEF k
    <3>2. (k + 1) * H_PRIME = k * H_PRIME + H_PRIME /\ k * H_PRIME \in Nat
      BY <1>0, <3>1
    <3>. QED  BY <1>0, <3>1, <3>2 DEF k
  <2> HIDE DEF x, b, Bits
  <2>5. x \div 2^H_PRIME \in 0 .. 2^(b - H_PRIME) - 1
    BY <2>2, <2>4, Within
  <2>6. x \div 2^H_PRIME \in Nat /\ x \div 2^H_PRIME < 2^Bits(l)
    <3>1. Bits(l) \in Nat
      BY <2>4
    <3>2. 2^Bits(l) \in Nat
      BY <3>1, PowNat
    <3>. QED  BY <2>4, <2>5, <3>2
  <2>7. x % 2^H_PRIME \in 0 .. 2^H_PRIME - 1
    BY <2>2, Room
  <2>. QED  BY <2>1, <2>3, <2>6, <2>7
<1>3. 0 .. n \subseteq X
  <2> HIDE DEF X
  <2>. QED  BY <1>0, <1>1, <1>2, Upward
<1>4. \A l \in 0 .. D - 1 : at[l].tree \in Nat /\ at[l].leaf \in 0 .. 2^H_PRIME - 1
  BY <1>3
<1>5. at[n].tree \in Nat /\ at[n].tree < 2^Bits(n)
  <2>1. n \in 0 .. n
    BY <1>0
  <2>. QED  BY <1>3, <2>1
<1>6. Bits(n) = 0
  BY <1>0
<1>7. 2^0 = 1
  OBVIOUS
<1> HIDE DEF Bits
<1>8. 2^Bits(n) = 1
  BY <1>6, <1>7, Zenon
<1>. QED  BY <1>4, <1>5, <1>8

-----------------------------------------------------------------------------
(* The hypertree of LITE.                                                  *)

(* The flattening Signatures takes over is the one of SequencesExt.        *)
LEMMA SameFlatten == \A s : Lite!FlattenSeq(s) = Ext!FlattenSeq(s)
  BY DEF Lite!FlattenSeq, Ext!FlattenSeq

(* x's parts are found in q, beginning at off.                             *)
PartOf(q, off, x, from, k) ==
    SubSeq(q, off + from + 1, off + from + k) = SubSeq(x, from + 1, from + k)

(* Parts of a block are found in the flattened sequence.                   *)
LEMMA CutOfBlock ==
    ASSUME NEW S, NEW q \in Seq(S), NEW s, NEW n \in Nat \ {0}, NEW b \in Nat,
           Len(q) = n * b, InBlocks(q, s, n, b), NEW l \in 1 .. n,
           s[l] \in Seq(S), Len(s[l]) = b,
           NEW from \in Nat, NEW k \in Nat, from + k <= b, NEW off, off = (l - 1) * b
    PROVE  PartOf(q, off, s[l], from, k)
<1> DEFINE x == s[l]
           t == SubSeq(x, from + 1, from + k)
           p == off + from
<1>1. off \in Nat /\ off + b <= n * b
  <2> DEFINE i == l - 1
             r == n - l
  <2>1. i \in Nat /\ r \in Nat /\ n = i + r + 1
    OBVIOUS
  <2> HIDE DEF i, r
  <2>2. (i + r + 1) * b = i * b + r * b + b /\ i * b \in Nat /\ r * b \in Nat
    BY <2>1
  <2>. QED  BY <2>1, <2>2 DEF i
<1>2. \A j \in 1 .. b : q[off + j] = x[j]
  BY DEF InBlocks
<1> HIDE DEF x
<1>3. x \in Seq(S) /\ Len(x) = b
  BY DEF x
<1>4. t \in Seq(S) /\ Len(t) = k /\ \A j \in 1 .. k : t[j] = x[from + j]
  <2>1. \A i \in 1 .. Len(x) : x[i] \in S
    BY <1>3, ElementOfSeq
  <2>2. t = [j \in 1 .. k |-> x[from + j]]
    <3>1. t = [j \in 1 .. (from + k) - (from + 1) + 1 |-> x[(from + 1) + j - 1]]
      OBVIOUS
    <3>2. (from + k) - (from + 1) + 1 = k /\ \A j \in 1 .. k : (from + 1) + j - 1 = from + j
      OBVIOUS
    <3>. QED  BY <3>1, <3>2
  <2>3. \A j \in 1 .. k : x[from + j] \in S
    BY <1>3, <2>1
  <2>4. t \in [1 .. k -> S]
    BY <2>2, <2>3
  <2>. QED  BY <2>2, <2>4, FunctionIsSeq
<1> HIDE DEF t
<1>5. \A j \in 1 .. k : q[p + j] = t[j]
  <2>1. \A j \in 1 .. k : from + j \in 1 .. b /\ p + j = off + (from + j)
    BY <1>1
  <2>. QED  BY <1>2, <1>4, <2>1
<1>6. p \in Nat /\ p + k <= Len(q)
  BY <1>1
<1> HIDE DEF p
<1>7. SubSeq(q, p + 1, p + k) = t
  <2>1. \A x1 \in Seq(S), y \in Seq(S) : \A o \in Nat, c \in Nat :
          Len(y) = c /\ o + c <= Len(x1) /\ (\A j \in 1 .. c : x1[o + j] = y[j])
             => SubSeq(x1, o + 1, o + c) = y
    BY CutOut
  <2>. QED  BY <1>4, <1>5, <1>6, <2>1
<1>. QED  BY <1>7 DEF t, p, x, PartOf

(* The hypertree of LITE: the parts htRootFromSig cuts out are those       *)
(* htSign put there, each layer's root is what the next one signs, and the *)
(* last root is that of the only tree of the top layer.                    *)
LEMMA HtOwn ==
    ASSUME HashFits, NEW sk, NEW m \in V, NEW tree \in Nat, tree < 2^((D - 1) * H_PRIME),
           NEW leaf \in 0 .. 2^H_PRIME - 1
    PROVE  LET sig == Lite!HtSign(sk, m, tree, leaf)
           IN  /\ sig \in Seq(V) /\ Len(sig) = D * (Lite!LEN + H_PRIME)
               /\ Lite!HtRootFromSig(sk.seed, m, tree, leaf, sig) = LiteTop(sk, D - 1, 0)
<1> DEFINE at == Lite!Places(tree, leaf)
           len == Lite!LEN + H_PRIME
           Pay(l) == IF l = 0 THEN m ELSE LiteTop(sk, l - 1, at[l - 1].tree)
           Block(l) == Lite!XmssSign(sk, l - 1, at[l - 1].tree, at[l - 1].leaf, Pay(l - 1))
           s == [l \in 1 .. D |-> Block(l)]
           sig == Ext!FlattenSeq(s)
<1>1. Lite!HtSign(sk, m, tree, leaf) = sig
  <2>1. Lite!HtSign(sk, m, tree, leaf) = Lite!FlattenSeq(s)
    BY DEF Lite!HtSign, LiteTop
  <2> HIDE DEF s
  <2>. QED  BY <2>1, SameFlatten
<1>2. /\ \A l \in 0 .. D - 1 : at[l].tree \in Nat /\ at[l].leaf \in 0 .. 2^H_PRIME - 1
      /\ at[D - 1].tree = 0
  BY LitePlaces, TopIsOne
<1>3. Lite!LEN \in Nat /\ H_PRIME \in Nat /\ D \in Nat \ {0} /\ len \in Nat
  BY LiteSizes
<1> HIDE DEF at
<1>4. \A l \in 0 .. D : Pay(l) \in V
  <2>1. \A y, z : LiteTop(sk, y, z) \in V
    <3>1. 0 \in 0 .. 2^H_PRIME - 1
      BY Room
    <3>. QED  BY <3>1, XmssOwn
  <2>. QED  BY <2>1
<1>5. ASSUME NEW l \in 1 .. D
      PROVE  XmssSigned(sk, l - 1, at[l - 1].tree, at[l - 1].leaf, Pay(l - 1), s[l])
  <2>1. l - 1 \in 0 .. D - 1 /\ l - 1 \in 0 .. D
    BY <1>3
  <2>2. Pay(l - 1) \in V /\ at[l - 1].leaf \in 0 .. 2^H_PRIME - 1
    BY <1>2, <1>4, <2>1
  <2>3. s[l] = Block(l)
    OBVIOUS
  <2> HIDE DEF Pay, s
  <2>. QED  BY <2>2, <2>3, XmssOwn
<1>6. \A l \in 1 .. D : s[l] \in Seq(V) /\ Len(s[l]) = len
  <2> HIDE DEF s, Pay
  <2>. QED  BY <1>5 DEF XmssSigned
<1>7. s \in Seq(Seq(V)) /\ Len(s) = D
  <2>1. s \in [1 .. D -> Seq(V)]
    <3>1. s = [l \in 1 .. D |-> s[l]]
      OBVIOUS
    <3> HIDE DEF s
    <3>. QED  BY <1>6, <3>1
  <2> HIDE DEF s
  <2>. QED  BY <1>3, <2>1, FunctionIsSeq
<1> HIDE DEF s, len
<1>8. sig \in Seq(V) /\ Len(sig) = D * len /\ InBlocks(sig, s, D, len)
  BY <1>3, <1>6, <1>7, FlattenBlocks
<1> HIDE DEF sig
<1>9. ASSUME NEW l \in 1 .. D
      PROVE  LET off == (l - 1) * len
             IN  Lite!XmssRootFromSig(sk.seed, l - 1, at[l - 1].tree, at[l - 1].leaf, Pay(l - 1),
                     SubSeq(sig, off + 1, off + Lite!LEN),
                     SubSeq(sig, off + Lite!LEN + 1, off + len)) = Pay(l)
  <2> DEFINE off == (l - 1) * len
  <2>0. off = (l - 1) * len /\ s[l] \in Seq(V) /\ Len(s[l]) = len
    BY <1>6
  <2> HIDE DEF off, Pay
  <2>1. PartOf(sig, off, s[l], 0, Lite!LEN)
    <3>1. 0 + Lite!LEN <= len /\ 0 \in Nat
      BY <1>3 DEF len
    <3>. QED  BY <1>3, <1>8, <2>0, <3>1, CutOfBlock
  <2>2. PartOf(sig, off, s[l], Lite!LEN, H_PRIME)
    <3>1. Lite!LEN + H_PRIME <= len
      BY <1>3 DEF len
    <3>. QED  BY <1>3, <1>8, <2>0, <3>1, CutOfBlock
  <2>3. off \in Nat
    <3>1. l - 1 \in Nat
      OBVIOUS
    <3>. QED  BY <1>3, <2>0, <3>1
  <2>4. /\ off + 0 + 1 = off + 1 /\ off + 0 + Lite!LEN = off + Lite!LEN
        /\ 0 + 1 = 1 /\ 0 + Lite!LEN = Lite!LEN
        /\ off + Lite!LEN + H_PRIME = off + len
    BY <1>3, <2>3 DEF len
  <2>5. /\ SubSeq(sig, off + 1, off + Lite!LEN) = SubSeq(s[l], 1, Lite!LEN)
        /\ SubSeq(sig, off + Lite!LEN + 1, off + len)
              = SubSeq(s[l], Lite!LEN + 1, Lite!LEN + H_PRIME)
    BY <2>1, <2>2, <2>4 DEF PartOf
  <2>6. Lite!XmssRootFromSig(sk.seed, l - 1, at[l - 1].tree, at[l - 1].leaf, Pay(l - 1),
                             SubSeq(s[l], 1, Lite!LEN),
                             SubSeq(s[l], Lite!LEN + 1, Lite!LEN + H_PRIME))
           = LiteTop(sk, l - 1, at[l - 1].tree)
    BY <1>5 DEF XmssSigned
  <2>7. Pay(l) = LiteTop(sk, l - 1, at[l - 1].tree)
    BY DEF Pay
  <2>. QED  BY <2>5, <2>6, <2>7 DEF off
<1> DEFINE Up(l, x) == LET off == (l - 1) * len
                       IN  Lite!XmssRootFromSig(sk.seed, l - 1, at[l - 1].tree, at[l - 1].leaf, x,
                              SubSeq(sig, off + 1, off + Lite!LEN),
                              SubSeq(sig, off + Lite!LEN + 1, off + len))
           Is(f) == f = [l \in 0 .. D |-> IF l = 0 THEN m ELSE Up(l, f[l - 1])]
           c == CHOOSE f : Is(f)
<1>10. Lite!HtRootFromSig(sk.seed, m, tree, leaf, sig) = c[D]
  BY DEF Lite!HtRootFromSig, at, len
<1>11. \A l \in 1 .. D : Up(l, Pay(l - 1)) = Pay(l)
  BY <1>9
<1>12. Pay(0) = m
  OBVIOUS
<1> HIDE DEF Up, Pay
<1>13. Is(c)
  <2> DEFINE f == [l \in 0 .. D |-> Pay(l)]
  <2>1. ASSUME NEW l \in 0 .. D PROVE f[l] = IF l = 0 THEN m ELSE Up(l, f[l - 1])
    <3>1. CASE l = 0
      BY <1>12, <3>1
    <3>2. CASE l # 0
      <4>1. l \in 1 .. D /\ l - 1 \in 0 .. D
        BY <1>3, <3>2
      <4>. QED  BY <1>11, <3>2, <4>1
    <3>. QED  BY <3>1, <3>2
  <2>2. f = [l \in 0 .. D |-> f[l]]
    OBVIOUS
  <2> HIDE DEF f
  <2>3. Is(f)
    BY <2>1, <2>2
  <2> HIDE DEF Is
  <2>. QED  BY <2>3
<1> HIDE DEF c
<1>14. c[0] = m /\ \A l \in 1 .. D : c[l] = Up(l, c[l - 1])
  BY <1>3, <1>13
<1>15. c[D] = Pay(D)
  <2> DEFINE X == {l \in 0 .. D : c[l] = Pay(l)}
  <2>1. 0 \in X
    BY <1>3, <1>12, <1>14
  <2>2. \A l \in 0 + 1 .. D : l - 1 \in X => l \in X
    BY <1>3, <1>11, <1>14
  <2>3. 0 .. D \subseteq X
    <3> HIDE DEF X
    <3>. QED  BY <1>3, <2>1, <2>2, Upward
  <2>. QED  BY <1>3, <2>3
<1>16. Pay(D) = LiteTop(sk, D - 1, 0)
  <2>1. D # 0
    BY <1>3
  <2>. QED  BY <1>2, <2>1 DEF Pay
<1>. QED  BY <1>1, <1>8, <1>10, <1>15, <1>16 DEF len

-----------------------------------------------------------------------------
(* Signing and verifying with LITE.                                        *)

(* The tree and the leaf that a digest of LITE picks exist.                *)
LEMMA SplitPlaces ==
    ASSUME NEW digest \in V
    PROVE  LET at == Lite!SplitDigest(digest)
           IN  /\ at.tree \in Nat /\ at.tree < 2^((D - 1) * H_PRIME)
               /\ at.leaf \in 0 .. 2^H_PRIME - 1
<1> DEFINE width == (K * A + 7) \div 8
           count == (Lite!H + 7) \div 8
           bytes == Lite!Bytes(digest, width, count)
           path == bytes % 2^Lite!H
           at == Lite!SplitDigest(digest)
<1>1. Lite!H = D * H_PRIME /\ Lite!H \in Nat /\ K * A \in Nat
  BY LiteSizes DEF Lite!H
<1>2. width \in Nat /\ count \in Nat /\ width + count <= N /\ N \in Nat
  <2>1. \A x \in Nat : (x + 7) \div 8 \in Nat
    OBVIOUS
  <2>. QED  BY <1>1, <2>1, SignaturesAssumption
<1>3. at = [fors |-> at.fors, leaf |-> path % 2^H_PRIME,
            tree |-> (path \div 2^H_PRIME) % 2^(Lite!H - H_PRIME)]
  BY DEF Lite!SplitDigest
<1> HIDE DEF width, count, at
<1>4. bytes \in Nat
  <2>1. 8 * (N - width - count) \in Nat /\ 8 * count \in Nat
    BY <1>2
  <2>2. 2^(8 * (N - width - count)) \in Nat \ {0} /\ 2^(8 * count) \in Nat \ {0}
    BY <2>1, PowNat
  <2>3. \A p, q \in Nat \ {0} : (digest \div p) % q \in Nat
    BY LiteSizes
  <2>. QED  BY <2>2, <2>3 DEF Lite!Bytes
<1> HIDE DEF bytes
<1>5. path \in Nat
  <2>1. 2^Lite!H \in Nat \ {0}
    BY <1>1, PowNat
  <2>. QED  BY <1>4, <2>1
<1> HIDE DEF path
<1>6. at.leaf = path % 2^H_PRIME /\ at.tree = (path \div 2^H_PRIME) % 2^(Lite!H - H_PRIME)
  BY <1>3
<1>7. 2^H_PRIME \in Nat \ {0} /\ 2^((D - 1) * H_PRIME) \in Nat \ {0}
  BY Room, PowNat
<1>8. \A p, q \in Nat \ {0} : /\ path % p \in 0 .. p - 1
                              /\ (path \div p) % q \in Nat /\ (path \div p) % q < q
  BY <1>5
<1>9. at.tree = (path \div 2^H_PRIME) % 2^((D - 1) * H_PRIME)
  BY <1>6, Room
<1>. QED  BY <1>6, <1>7, <1>8, <1>9 DEF at

(* A FORS signature of LITE has a secret and a path for each tree.         *)
LEMMA ForsShape ==
    ASSUME NEW sk, NEW tree, NEW indices
    PROVE  \E S : /\ Lite!ForsSign(sk, tree, indices) \in Seq(S)
                  /\ Len(Lite!ForsSign(sk, tree, indices)) = Lite!FORS_LEN
<1> DEFINE Secret(n) == Lite!ForsSk(sk.skSeed, tree, n - 1, indices[n])
           Path(n) == Lite!Fors!AuthPath(Lite!ForsLevels(sk, tree, n - 1), A, indices[n])
           s == [n \in 1 .. K |-> <<Secret(n)>> \o Path(n)]
           S == {Secret(n) : n \in 1 .. K} \union {Path(n)[h] : n \in 1 .. K, h \in 1 .. A}
<1>1. A \in Nat /\ K \in Nat \ {0} /\ 1 + A \in Nat
  BY LiteSizes
<1>2. Lite!ForsSign(sk, tree, indices) = Ext!FlattenSeq(s)
  <2>1. Lite!ForsSign(sk, tree, indices) = Lite!FlattenSeq(s)
    BY DEF Lite!ForsSign
  <2> HIDE DEF s
  <2>. QED  BY <2>1, SameFlatten
<1>3. ASSUME NEW n \in 1 .. K PROVE Path(n) \in Seq(S) /\ Len(Path(n)) = A
  <2>1. \A h \in 1 .. A : Path(n)[h] \in S
    <3> HIDE DEF Path
    <3>. QED  OBVIOUS
  <2>2. Path(n) = [h \in 1 .. A |-> Path(n)[h]]
    BY DEF Lite!Fors!AuthPath
  <2> HIDE DEF Path, S
  <2>3. Path(n) \in [1 .. A -> S]
    BY <2>1, <2>2
  <2>. QED  BY <1>1, <2>3, FunctionIsSeq
<1> HIDE DEF Path
<1>4. ASSUME NEW n \in 1 .. K PROVE s[n] \in Seq(S) /\ Len(s[n]) = 1 + A
  <2>1. Secret(n) \in S
    <3> HIDE DEF Secret
    <3>. QED  OBVIOUS
  <2>2. s[n] = <<Secret(n)>> \o Path(n)
    OBVIOUS
  <2> HIDE DEF s, S, Secret
  <2>3. <<Secret(n)>> \in Seq(S) /\ Len(<<Secret(n)>>) = 1
    BY <2>1
  <2>4. \A x, y \in Seq(S) : x \o y \in Seq(S) /\ Len(x \o y) = Len(x) + Len(y)
    OBVIOUS
  <2>. QED  BY <1>3, <2>2, <2>3, <2>4
<1>5. s \in Seq(Seq(S)) /\ Len(s) = K
  <2>1. s = [n \in 1 .. K |-> s[n]]
    OBVIOUS
  <2> HIDE DEF s, S
  <2>2. s \in [1 .. K -> Seq(S)]
    BY <1>4, <2>1
  <2>. QED  BY <1>1, <2>2, FunctionIsSeq
<1> HIDE DEF s, S
<1>6. Ext!FlattenSeq(s) \in Seq(S) /\ Len(Ext!FlattenSeq(s)) = K * (1 + A)
  BY <1>1, <1>4, <1>5, FlattenBlocks
<1>. QED  BY <1>2, <1>6 DEF Lite!FORS_LEN

(* A sequence over S is one over any larger set.                           *)
LEMMA SeqUnion ==
    ASSUME NEW S, NEW T, NEW s \in Seq(S)
    PROVE  s \in Seq(S \union T) /\ s \in Seq(T \union S)
  BY FunctionIsSeq

(* A packed signature of LITE is cut where it was put together.            *)
LEMMA LiteSplits ==
    ASSUME NEW S, NEW T, NEW fors \in Seq(S), NEW ht \in Seq(T),
           Len(fors) = Lite!FORS_LEN, Len(ht) = D * (Lite!LEN + H_PRIME)
    PROVE  /\ Len(fors \o ht) = Lite!SIG_LEN
           /\ SubSeq(fors \o ht, 1, Lite!FORS_LEN) = fors
           /\ SubSeq(fors \o ht, Lite!FORS_LEN + 1, Lite!SIG_LEN) = ht
<1>1. fors \in Seq(S \union T) /\ ht \in Seq(S \union T)
  BY SeqUnion
<1> DEFINE R == S \union T
<1> HIDE DEF R
<1>2. fors \in Seq(R) /\ ht \in Seq(R)
  BY <1>1 DEF R
<1>3. Lite!SIG_LEN = Len(fors) + Len(ht)
  BY DEF Lite!SIG_LEN
<1>4. /\ SubSeq(fors \o ht, 1, Len(fors)) = fors
      /\ SubSeq(fors \o ht, Len(fors) + 1, Len(fors) + Len(ht)) = ht
  BY <1>2, CutJoined
<1>5. Len(fors \o ht) = Len(fors) + Len(ht)
  BY <1>2
<1>. QED  BY <1>3, <1>4, <1>5

(* verifier::verify of slh_dsa.move accepts what sign of slh-dsa-ref.ts    *)
(* makes, for any seeds and any text.                                      *)
LEMMA LiteVerifiesOwn ==
    ASSUME HashFits, NEW seed, NEW skSeed, NEW text
    PROVE  LET k == Lite!LiteKeygen(seed, skSeed)
           IN  Lite!LiteVerify(k.pk, text, Lite!LiteSign(k.sk, text)) = "true"
<1> DEFINE sk == [seed |-> seed, skSeed |-> skSeed]
           pk == [seed |-> seed, root |-> LiteTop(sk, D - 1, 0)]
           digest == Sha(<<seed>> \o text)
           at == Lite!SplitDigest(digest)
           fors == Lite!ForsSign(sk, at.tree, at.fors)
           m == Lite!ForsRootFromSig(seed, at.tree, at.fors, fors)
           ht == Lite!HtSign(sk, m, at.tree, at.leaf)
           sig == fors \o ht
<1>1. Lite!LiteKeygen(seed, skSeed) = [sk |-> sk, pk |-> pk]
  BY DEF Lite!LiteKeygen, LiteTop
<1>2. /\ at.tree \in Nat /\ at.tree < 2^((D - 1) * H_PRIME)
      /\ at.leaf \in 0 .. 2^H_PRIME - 1
  <2>1. digest \in V
    BY DEF HashFits
  <2> HIDE DEF digest
  <2>. QED  BY <2>1, SplitPlaces
<1>3. sk.seed = seed /\ pk.seed = seed /\ pk.root = LiteTop(sk, D - 1, 0)
  OBVIOUS
<1>4. Lite!LiteSign(sk, text) = sig
  BY DEF Lite!LiteSign
<1> HIDE DEF sk, pk
<1>5. m \in V
  BY DEF Lite!ForsRootFromSig, Lite!ForsRoots, Lite!ChainHash, HashFits
<1> HIDE DEF at, m
<1>6. PICK S : fors \in Seq(S) /\ Len(fors) = Lite!FORS_LEN
  BY ForsShape
<1>7. /\ ht \in Seq(V) /\ Len(ht) = D * (Lite!LEN + H_PRIME)
      /\ Lite!HtRootFromSig(seed, m, at.tree, at.leaf, ht) = LiteTop(sk, D - 1, 0)
  BY <1>2, <1>3, <1>5, HtOwn
<1> HIDE DEF fors, ht
<1>8. /\ Len(sig) = Lite!SIG_LEN
      /\ SubSeq(sig, 1, Lite!FORS_LEN) = fors
      /\ SubSeq(sig, Lite!FORS_LEN + 1, Lite!SIG_LEN) = ht
  BY <1>6, <1>7, LiteSplits
<1> HIDE DEF sig
<1>9. Lite!HtRootFromSig(pk.seed, Lite!ForsRootFromSig(pk.seed, at.tree, at.fors,
                                      SubSeq(sig, 1, Lite!FORS_LEN)),
                         at.tree, at.leaf,
                         SubSeq(sig, Lite!FORS_LEN + 1, Lite!SIG_LEN)) = pk.root
  BY <1>3, <1>7, <1>8 DEF m
<1>10. Lite!LiteVerify(pk, text, sig) = "true"
  BY <1>3, <1>8, <1>9 DEF Lite!LiteVerify, at, digest
<1>. QED  BY <1>1, <1>4, <1>10

-----------------------------------------------------------------------------
(* Digits and chains of 128s.                                              *)

(* Digits in a byte.                                                       *)
Per == 8 \div LG_W

(* A byte is cut into digits, and the hash into bytes, without remainder.  *)
LEMMA PerByte ==
    /\ Per \in Nat \ {0} /\ Per * LG_W = 8 /\ Per * N = LEN_1
    /\ \A r \in 0 .. Per - 1 : 8 - LG_W - LG_W * r \in Nat
<1>1. Per \in Nat \ {0} /\ Per * LG_W = 8
  <2>1. CASE LG_W = 1
    BY <2>1 DEF Per
  <2>2. CASE LG_W = 2
    BY <2>2 DEF Per
  <2>3. CASE LG_W = 4
    BY <2>3 DEF Per
  <2>4. CASE LG_W = 8
    BY <2>4 DEF Per
  <2>. QED  BY <2>1, <2>2, <2>3, <2>4, SignaturesAssumption
<1>2. \A r \in 0 .. Per - 1 : 8 - LG_W - LG_W * r \in Nat
  <2>1. CASE LG_W = 1
    BY <2>1 DEF Per
  <2>2. CASE LG_W = 2
    BY <2>2 DEF Per
  <2>3. CASE LG_W = 4
    BY <2>3 DEF Per
  <2>4. CASE LG_W = 8
    BY <2>4 DEF Per
  <2>. QED  BY <2>1, <2>2, <2>3, <2>4, SignaturesAssumption
<1>3. Per * N = LEN_1
  <2>1. CASE LG_W = 1
    BY <2>1, Sizes DEF Per, LEN_1, Lite!LEN_1
  <2>2. CASE LG_W = 2
    BY <2>2, Sizes DEF Per, LEN_1, Lite!LEN_1
  <2>3. CASE LG_W = 4
    BY <2>3, Sizes DEF Per, LEN_1, Lite!LEN_1
  <2>4. CASE LG_W = 8
    BY <2>4, Sizes DEF Per, LEN_1, Lite!LEN_1
  <2>. QED  BY <2>1, <2>2, <2>3, <2>4, SignaturesAssumption
<1>. QED  BY <1>1, <1>2, <1>3

(* The sizes of 128s are computed as those of LITE.                        *)
LEMMA FipsSizes ==
    /\ Fips!W = W /\ Fips!LEN_1 = LEN_1 /\ Fips!LEN = Lite!LEN
    /\ Fips!XMSS_LEN = Lite!LEN + H_PRIME
    /\ Lite!LEN = LEN_1 + LEN_2 /\ Lite!LEN \in Nat
<1>1. Fips!W = W /\ Fips!LEN_1 = LEN_1
  BY DEF Fips!W, W, Lite!W, Fips!LEN_1, LEN_1, Lite!LEN_1
<1>2. Fips!LEN = Lite!LEN
  BY <1>1 DEF Fips!LEN, Lite!LEN, LEN_1
<1>3. Fips!XMSS_LEN = Lite!LEN + H_PRIME
  BY <1>2 DEF Fips!XMSS_LEN
<1>. QED  BY <1>1, <1>2, <1>3, LiteSizes

(* base_w gives digits below W while there are bytes to take them from.    *)
LEMMA BaseWRange ==
    ASSUME NEW bytes, NEW width \in Nat, \A i \in 1 .. width : bytes[i] \in Nat,
           NEW count \in Nat, count * LG_W <= 8 * width
    PROVE  /\ DOMAIN Fips!BaseW(bytes, count) = 1 .. count
           /\ \A i \in 1 .. count : Fips!BaseW(bytes, count)[i] \in 0 .. W - 1
<1> DEFINE place(i) == (i - 1) \div Per + 1
           shift(i) == 8 - LG_W - LG_W * ((i - 1) % Per)
<1>1. Fips!BaseW(bytes, count) = [i \in 1 .. count |-> (bytes[place(i)] \div 2^shift(i)) % W]
  BY FipsSizes DEF Fips!BaseW, Per
<1>2. ASSUME NEW i \in 1 .. count
      PROVE  place(i) \in 1 .. width /\ shift(i) \in Nat
  <2>1. Per \in Nat \ {0} /\ LG_W \in Nat \ {0} /\ Per * LG_W = 8
    BY PerByte, Sizes
  <2>2. \A p, q \in Nat : p * LG_W <= 8 * q => p <= q * Per
    <3>1. \A p, q \in Nat : q * Per < p => q * Per * LG_W < p * LG_W
      BY <2>1
    <3>2. \A q \in Nat : q * Per * LG_W = 8 * q /\ q * Per \in Nat
      BY <2>1
    <3>3. ASSUME NEW p \in Nat, NEW q \in Nat, p * LG_W <= 8 * q PROVE p <= q * Per
      <4>1. p * LG_W \in Nat /\ q * Per \in Nat
        BY <2>1
      <4>2. ~ (q * Per < p)
        BY <3>1, <3>2, <3>3, <4>1
      <4>. QED  BY <4>1, <4>2
    <3>. QED  BY <3>3
  <2>3. count <= width * Per
    BY <2>2
  <2>4. i - 1 \in Nat /\ i - 1 < width * Per
    <3>1. width * Per \in Nat
      BY <2>1
    <3>. QED  BY <2>3, <3>1
  <2>5. (i - 1) \div Per \in Nat /\ (i - 1) % Per \in 0 .. Per - 1
    BY <2>1, <2>4
  <2>6. (i - 1) \div Per < width
    <3>1. \A a, c \in Nat, b \in Nat \ {0} : a < c * b => a \div b < c
      <4>1. ASSUME NEW a \in Nat, NEW c \in Nat, NEW b \in Nat \ {0}, a < c * b
            PROVE  a \div b < c
        <5>1. a \div b \in Nat /\ b * (a \div b) <= a /\ a < b * (a \div b) + b
          OBVIOUS
        <5> DEFINE q == a \div b
        <5>2. q \in Nat /\ b * q <= a
          BY <5>1
        <5> HIDE DEF q
        <5>3. CASE c <= q
          <6>1. b * c <= b * q /\ b * c = c * b /\ b * c \in Nat /\ b * q \in Nat
            BY <5>2, <5>3
          <6>. QED  BY <4>1, <5>2, <6>1
        <5>. QED  BY <5>2, <5>3 DEF q
      <4>. QED  BY <4>1
    <3>. QED  BY <2>1, <2>4, <3>1
  <2>. QED  BY <2>5, <2>6, PerByte
<1> HIDE DEF place, shift
<1>3. ASSUME NEW i \in 1 .. count
      PROVE  (bytes[place(i)] \div 2^shift(i)) % W \in 0 .. W - 1
  <2>1. bytes[place(i)] \in Nat /\ 2^shift(i) \in Nat \ {0} /\ W \in Nat \ {0}
    BY <1>2, PowNat, Sizes
  <2>2. \A b \in Nat, p, q \in Nat \ {0} : (b \div p) % q \in 0 .. q - 1
    OBVIOUS
  <2>. QED  BY <2>1, <2>2
<1>. QED  BY <1>1, <1>3

(* Big-endian bytes are naturals.                                          *)
LEMMA BytesAre ==
    ASSUME NEW v \in Nat, NEW width \in Nat
    PROVE  \A i \in 1 .. width : Fips!BigEndian(v, width)[i] \in Nat
<1>1. ASSUME NEW i \in 1 .. width PROVE (v \div 2^(8 * (width - i))) % 256 \in Nat
  <2>1. 8 * (width - i) \in Nat
    OBVIOUS
  <2>2. 2^(8 * (width - i)) \in Nat \ {0}
    BY <2>1, PowNat
  <2>3. \A p \in Nat \ {0} : (v \div p) % 256 \in Nat
    OBVIOUS
  <2>. QED  BY <2>2, <2>3
<1>. QED  BY <1>1 DEF Fips!BigEndian

(* The digits of a message of 128s and of its checksum are below W.        *)
LEMMA FipsDigits ==
    ASSUME NEW m \in Nat
    PROVE  \A i \in 1 .. Lite!LEN : Fips!MsgToChainDigits(m)[i] \in 0 .. W - 1
<1> DEFINE digits == Fips!BaseW(Fips!BigEndian(m, N), LEN_1)
           short == [k \in 1 .. LEN_1 |-> W - 1 - digits[k]]
           csum == Fips!SumFunctionOnSet(short, 1 .. LEN_1)
           check == Fips!BaseW(Fips!BigEndian(csum * 2^Shift, Width), LEN_2)
<1>1. DOMAIN digits = 1 .. LEN_1 /\ \A i \in 1 .. LEN_1 : digits[i] \in 0 .. W - 1
  <2>1. N \in Nat /\ LEN_1 \in Nat /\ LEN_1 * LG_W <= 8 * N
    BY Sizes
  <2>2. \A i \in 1 .. N : Fips!BigEndian(m, N)[i] \in Nat
    BY <2>1, BytesAre
  <2>. QED  BY <2>1, <2>2, BaseWRange
<1>2. Fips!MsgToChainDigits(m) = digits \o check
  BY FipsSizes DEF Fips!MsgToChainDigits, Fips!WotsChecksum, Width, Shift, Lite!ChecksumShift
<1> HIDE DEF digits
<1>3. csum \in Nat
  <2>1. csum = SumFunctionOnSet(short, 1 .. LEN_1)
    BY DEF Fips!SumFunctionOnSet, Fips!FoldFunctionOnSet, Fips!MapThenFoldSet,
           SumFunctionOnSet, FoldFunctionOnSet, MapThenFoldSet
  <2>2. \A k \in 1 .. LEN_1 : short[k] \in Nat
    BY <1>1, Sizes
  <2>3. IsFiniteSet(1 .. LEN_1)
    BY Sizes, FS_Interval
  <2> HIDE DEF short, csum
  <2>. QED  BY <2>1, <2>2, <2>3, SumNat
<1> HIDE DEF csum
<1>4. DOMAIN check = 1 .. LEN_2 /\ \A i \in 1 .. LEN_2 : check[i] \in 0 .. W - 1
  <2>1. Width \in Nat /\ LEN_2 \in Nat /\ LEN_2 * LG_W <= 8 * Width
    BY Sizes
  <2>2. csum * 2^Shift \in Nat
    <3>1. 2^Shift \in Nat
      BY Sizes, PowNat
    <3>. QED  BY <1>3, <3>1
  <2>3. \A i \in 1 .. Width : Fips!BigEndian(csum * 2^Shift, Width)[i] \in Nat
    BY <2>1, <2>2, BytesAre
  <2>. QED  BY <2>1, <2>3, BaseWRange
<1>5. digits = [i \in 1 .. LEN_1 |-> digits[i]] /\ check = [i \in 1 .. LEN_2 |-> check[i]]
  BY DEF digits, Fips!BaseW
<1> HIDE DEF check
<1> DEFINE S == 0 .. W - 1
<1>6. digits \in [1 .. LEN_1 -> S] /\ check \in [1 .. LEN_2 -> S]
  BY <1>1, <1>4, <1>5
<1> HIDE DEF S
<1>7. digits \in Seq(S) /\ Len(digits) = LEN_1 /\ check \in Seq(S) /\ Len(check) = LEN_2
  BY <1>6, Sizes, FunctionIsSeq
<1>8. digits \o check \in Seq(S) /\ Len(digits \o check) = Lite!LEN
  <2>1. \A x, y \in Seq(S) : x \o y \in Seq(S) /\ Len(x \o y) = Len(x) + Len(y)
    OBVIOUS
  <2>. QED  BY <1>7, <2>1, FipsSizes
<1>9. \A i \in 1 .. Lite!LEN : (digits \o check)[i] \in S
  BY <1>8, ElementOfSeq
<1>. QED  BY <1>2, <1>9 DEF S

-----------------------------------------------------------------------------
(* One step of chain c from position p.                                    *)
FipsLink(seed, layer, tree, kp, c, p, v) ==
    Fips!Thash(seed, Fips!Adrs(layer, tree, Fips!WOTS_HASH, kp, c, p), <<v>>)

(* What T_l gives are values.                                              *)
LEMMA FipsHash ==
    ASSUME HashFits
    PROVE  /\ \A seed, adrs, m : Fips!Thash(seed, adrs, m) \in V
           /\ \A seed, layer, tree, kp, c, p, v :
                 FipsLink(seed, layer, tree, kp, c, p, v) \in V
           /\ \A t, h, i, m : Fips!XmssHash(t, h, i, m) \in V
  BY DEF HashFits, FipsLink, Fips!Thash, Fips!XmssHash

(* The values along a chain.                                               *)
FipsRun(f, seed, layer, tree, kp, c, start, n, v) ==
    /\ f[n] = Fips!Chain(seed, layer, tree, kp, c, start, n, v)
    /\ f[0] = v /\ \A j \in 0 .. n : f[j] \in V
    /\ \A j \in 1 .. n : f[j] = FipsLink(seed, layer, tree, kp, c, start + j - 1, f[j - 1])

(* Chain computes such a run.                                              *)
LEMMA FipsRuns ==
    ASSUME HashFits, NEW seed, NEW layer, NEW tree, NEW kp, NEW c,
           NEW start \in Nat, NEW n \in Nat, NEW v \in V
    PROVE  \E f : FipsRun(f, seed, layer, tree, kp, c, start, n, v)
<1> DEFINE Up(p, x) == FipsLink(seed, layer, tree, kp, c, p, x)
           Is(f) == f = [j \in 0 .. n |-> IF j = 0 THEN v ELSE Up(start + j - 1, f[j - 1])]
           G == [j \in 0 + 1 .. n |-> [x \in V |-> Up(start + j - 1, x)]]
           r == CHOOSE f : Is(f)
<1>1. \A p, x : Up(p, x) \in V
  BY FipsHash
<1>2. Fips!Chain(seed, layer, tree, kp, c, start, n, v) = r[n]
  BY DEF Fips!Chain, FipsLink
<1> HIDE DEF Up
<1>3. \A j \in 0 + 1 .. n : \A x \in V : G[j][x] = Up(start + j - 1, x)
  OBVIOUS
<1>4. PICK f : Iterate(f, V, 0, n, v, G)
  <2>1. ClosedUnder(V, 0, n, G)
    BY <1>1, <1>3 DEF ClosedUnder
  <2> HIDE DEF G
  <2>. QED  BY <2>1, Iterates
<1> HIDE DEF G
<1>5. Is(f)
  <2>1. ASSUME NEW j \in 0 .. n PROVE f[j] = IF j = 0 THEN v ELSE Up(start + j - 1, f[j - 1])
    <3>1. CASE j = 0
      BY <1>4, <3>1 DEF Iterate
    <3>2. CASE j # 0
      <4>1. j \in 0 + 1 .. n /\ j - 1 \in 0 .. n
        BY <3>2
      <4>2. f[j] = G[j][f[j - 1]] /\ f[j - 1] \in V
        BY <1>4, <4>1 DEF Iterate
      <4>. QED  BY <1>3, <3>2, <4>1, <4>2
    <3>. QED  BY <3>1, <3>2
  <2>2. f = [j \in 0 .. n |-> f[j]]
    BY <1>4 DEF Iterate
  <2>. QED  BY <2>1, <2>2
<1>6. Is(r)
  <2> HIDE DEF Is
  <2>. QED  BY <1>5
<1> HIDE DEF r
<1>7. r[0] = v /\ \A j \in 1 .. n : r[j] = Up(start + j - 1, r[j - 1])
  BY <1>6
<1>8. \A j \in 0 .. n : r[j] \in V
  <2>1. \A j \in 0 + 1 .. n : r[j - 1] \in V => r[j] \in V
    BY <1>1, <1>7
  <2>. QED  BY <1>7, <2>1, StaysIn
<1>. QED  BY <1>2, <1>7, <1>8 DEF FipsRun, Up

(* Climbing d steps and then the remaining ones is climbing all n.         *)
LEMMA FipsChainOn ==
    ASSUME HashFits, NEW seed, NEW layer, NEW tree, NEW kp, NEW c, NEW v \in V,
           NEW n \in Nat, NEW d \in 0 .. n
    PROVE  LET low == Fips!Chain(seed, layer, tree, kp, c, 0, d, v)
           IN  /\ Fips!Chain(seed, layer, tree, kp, c, d, n - d, low)
                     = Fips!Chain(seed, layer, tree, kp, c, 0, n, v)
               /\ low \in V
<1> DEFINE Up(p, x) == FipsLink(seed, layer, tree, kp, c, p, x)
           low == Fips!Chain(seed, layer, tree, kp, c, 0, d, v)
           G == [p \in 0 .. n |-> [x \in V |-> Up(p, x)]]
<1>0. d \in Nat /\ n - d \in Nat
  OBVIOUS
<1>1. PICK f : FipsRun(f, seed, layer, tree, kp, c, 0, n, v)
  BY FipsRuns
<1>2. PICK g : FipsRun(g, seed, layer, tree, kp, c, 0, d, v)
  BY <1>0, FipsRuns
<1>3. low \in V /\ g[d] = low
  BY <1>0, <1>2 DEF FipsRun
<1> HIDE DEF low
<1>4. PICK h : FipsRun(h, seed, layer, tree, kp, c, d, n - d, low)
  BY <1>0, <1>3, FipsRuns
<1> HIDE DEF Up
<1>5. \A p \in 0 .. n : \A x \in V : G[p][x] = Up(p, x)
  OBVIOUS
<1> HIDE DEF G
<1>6. ASSUME NEW j \in 1 .. n PROVE f[j] = G[0 + j - 1][f[j - 1]]
  <2>1. 0 + j - 1 \in 0 .. n /\ j - 1 \in 0 .. n
    OBVIOUS
  <2>2. f[j] = Up(0 + j - 1, f[j - 1]) /\ f[j - 1] \in V
    BY <1>1, <2>1 DEF FipsRun, Up
  <2>. QED  BY <1>5, <2>1, <2>2
<1>7. ASSUME NEW j \in 1 .. d PROVE g[j] = G[0 + j - 1][g[j - 1]]
  <2>1. 0 + j - 1 \in 0 .. n /\ j - 1 \in 0 .. d
    OBVIOUS
  <2>2. g[j] = Up(0 + j - 1, g[j - 1]) /\ g[j - 1] \in V
    BY <1>2, <2>1 DEF FipsRun, Up
  <2>. QED  BY <1>5, <2>1, <2>2
<1>8. ASSUME NEW j \in 1 .. n - d PROVE h[j] = G[d + j - 1][h[j - 1]]
  <2>1. d + j - 1 \in 0 .. n /\ j - 1 \in 0 .. n - d
    OBVIOUS
  <2>2. h[j] = Up(d + j - 1, h[j - 1]) /\ h[j - 1] \in V
    BY <1>4, <2>1 DEF FipsRun, Up
  <2>. QED  BY <1>5, <2>1, <2>2
<1>9. f[0] = g[0] /\ h[0] = g[d]
  BY <1>1, <1>2, <1>3, <1>4 DEF FipsRun
<1>10. Follows(f, G, 0, n) /\ Follows(g, G, 0, d) /\ Follows(h, G, d, n - d)
  BY <1>6, <1>7, <1>8 DEF Follows
<1>11. h[n - d] = f[n]
  BY <1>9, <1>10, ChainsJoin
<1>. QED  BY <1>1, <1>3, <1>4, <1>11 DEF FipsRun, low

-----------------------------------------------------------------------------
(* Trees of 128s.                                                          *)

(* One step of the climb in a tree of 128s.                                *)
FipsUp(t, leaf, auth, h, x) ==
    Fips!XmssHash(t, h, leaf \div 2^h,
                  IF (leaf \div 2^(h - 1)) % 2 = 0 THEN <<x, auth[h]>> ELSE <<auth[h], x>>)

(* What Climb computes, step by step, of values.                           *)
LEMMA FipsClimb ==
    ASSUME HashFits, NEW t, NEW v \in V, NEW leaf, NEW auth, Len(auth) \in Nat
    PROVE  \E c : /\ Fips!Xmss!Climb(t, v, leaf, auth) = c[Len(auth)]
                  /\ c[0] = v /\ \A h \in 0 .. Len(auth) : c[h] \in V
                  /\ \A h \in 1 .. Len(auth) : c[h] = FipsUp(t, leaf, auth, h, c[h - 1])
<1> DEFINE n == Len(auth)
           Up(h, x) == FipsUp(t, leaf, auth, h, x)
           Is(f) == f = [h \in 0 .. n |-> IF h = 0 THEN v ELSE Up(h, f[h - 1])]
           G == [h \in 0 + 1 .. n |-> [x \in V |-> Up(h, x)]]
           c == CHOOSE f : Is(f)
<1>1. \A h, x : Up(h, x) \in V
  BY FipsHash DEF FipsUp
<1>2. Fips!Xmss!Climb(t, v, leaf, auth) = c[n]
  BY DEF Fips!Xmss!Climb, FipsUp
<1> HIDE DEF Up, n
<1>3. n \in Nat /\ 0 \in Nat /\ 0 <= n
  BY DEF n
<1>4. \A h \in 0 + 1 .. n : \A x \in V : G[h][x] = Up(h, x)
  OBVIOUS
<1>5. PICK f : Iterate(f, V, 0, n, v, G)
  <2>1. ClosedUnder(V, 0, n, G)
    BY <1>1, <1>4 DEF ClosedUnder
  <2> HIDE DEF G
  <2>. QED  BY <1>3, <2>1, Iterates
<1> HIDE DEF G
<1>6. Is(f)
  <2>1. ASSUME NEW h \in 0 .. n PROVE f[h] = IF h = 0 THEN v ELSE Up(h, f[h - 1])
    <3>1. CASE h = 0
      BY <1>5, <3>1 DEF Iterate
    <3>2. CASE h # 0
      <4>1. h \in 0 + 1 .. n /\ h - 1 \in 0 .. n
        BY <1>3, <3>2
      <4>2. f[h] = G[h][f[h - 1]] /\ f[h - 1] \in V
        BY <1>5, <4>1 DEF Iterate
      <4>. QED  BY <1>4, <3>2, <4>1, <4>2
    <3>. QED  BY <3>1, <3>2
  <2>2. f = [h \in 0 .. n |-> f[h]]
    BY <1>5 DEF Iterate
  <2>. QED  BY <2>1, <2>2
<1>7. Is(c)
  <2> HIDE DEF Is
  <2>. QED  BY <1>6
<1> HIDE DEF c
<1>8. c[0] = v /\ \A h \in 1 .. n : c[h] = Up(h, c[h - 1])
  BY <1>3, <1>7
<1>9. \A h \in 0 .. n : c[h] \in V
  <2>1. \A h \in 0 + 1 .. n : c[h - 1] \in V => c[h] \in V
    BY <1>1, <1>8
  <2>. QED  BY <1>3, <1>8, <2>1, StaysIn
<1>. QED  BY <1>2, <1>8, <1>9 DEF n, Up

(* An inner node, and a level of them.                                     *)
FipsNode(t, below, n, h, i) == Fips!XmssHash(t, h, i, <<below[2 * i], below[2 * i + 1]>>)
FipsRow(t, below, n, h) == [i \in 0 .. 2^(n - h) - 1 |-> FipsNode(t, below, n, h, i)]

(* What Levels computes, level by level, of values.                        *)
LEMMA FipsLevels ==
    ASSUME HashFits, NEW t, NEW n \in Nat, NEW leaves \in [0 .. 2^n - 1 -> V]
    PROVE  LET L == Fips!Xmss!Levels(t, leaves, n)
           IN  /\ L[0] = leaves
               /\ \A h \in 0 .. n : L[h] \in [0 .. 2^(n - h) - 1 -> V]
               /\ \A h \in 1 .. n : L[h] = FipsRow(t, L[h - 1], n, h)
<1> DEFINE Row(h, x) == FipsRow(t, x, n, h)
           Is(f) == f = [h \in 0 .. n |-> IF h = 0 THEN leaves ELSE Row(h, f[h - 1])]
           S == UNION {[0 .. 2^(n - h) - 1 -> V] : h \in 0 .. n}
           G == [h \in 0 + 1 .. n |-> [x \in S |-> Row(h, x)]]
           c == CHOOSE f : Is(f)
<1>1. \A h, x : Row(h, x) \in [0 .. 2^(n - h) - 1 -> V]
  BY FipsHash DEF FipsRow, FipsNode
<1>2. Fips!Xmss!Levels(t, leaves, n) = c
  BY DEF Fips!Xmss!Levels, FipsRow, FipsNode
<1> HIDE DEF Row
<1>3. leaves \in S
  <2>1. n - 0 = n /\ 0 \in 0 .. n
    OBVIOUS
  <2>. QED  BY <2>1
<1>4. \A h \in 0 + 1 .. n : \A x \in S : G[h][x] = Row(h, x)
  OBVIOUS
<1>5. PICK f : Iterate(f, S, 0, n, leaves, G)
  <2>1. ASSUME NEW h \in 0 + 1 .. n, NEW x \in S PROVE G[h][x] \in S
    <3>1. G[h][x] \in [0 .. 2^(n - h) - 1 -> V]
      BY <1>1
    <3>2. h \in 0 .. n
      OBVIOUS
    <3> HIDE DEF G
    <3>. QED  BY <3>1, <3>2
  <2> HIDE DEF G, S
  <2>2. ClosedUnder(S, 0, n, G)
    BY <2>1 DEF ClosedUnder
  <2>. QED  BY <1>3, <2>2, Iterates
<1> HIDE DEF G, S
<1>6. Is(f)
  <2>1. ASSUME NEW h \in 0 .. n PROVE f[h] = IF h = 0 THEN leaves ELSE Row(h, f[h - 1])
    <3>1. CASE h = 0
      BY <1>5, <3>1 DEF Iterate
    <3>2. CASE h # 0
      <4>1. h \in 0 + 1 .. n /\ h - 1 \in 0 .. n
        BY <3>2
      <4>2. f[h] = G[h][f[h - 1]] /\ f[h - 1] \in S
        BY <1>5, <4>1 DEF Iterate
      <4>. QED  BY <1>4, <3>2, <4>1, <4>2
    <3>. QED  BY <3>1, <3>2
  <2>2. f = [h \in 0 .. n |-> f[h]]
    BY <1>5 DEF Iterate
  <2>. QED  BY <2>1, <2>2
<1>7. Is(c)
  <2> HIDE DEF Is
  <2>. QED  BY <1>6
<1> HIDE DEF c
<1>8. c[0] = leaves /\ \A h \in 1 .. n : c[h] = Row(h, c[h - 1])
  BY <1>7
<1>9. ASSUME NEW h \in 0 .. n PROVE c[h] \in [0 .. 2^(n - h) - 1 -> V]
  <2>1. CASE h = 0
    <3>1. n - 0 = n
      OBVIOUS
    <3>. QED  BY <1>8, <2>1, <3>1
  <2>2. CASE h # 0
    <3>1. h \in 1 .. n
      BY <2>2
    <3>. QED  BY <1>1, <1>8, <3>1
  <2>. QED  BY <2>1, <2>2
<1>. QED  BY <1>2, <1>8, <1>9 DEF Row

(* The path of a leaf has one value for each level, and leads from the     *)
(* leaf to the root.                                                       *)
LEMMA FipsAuthPath ==
    ASSUME HashFits, NEW t, NEW n \in Nat, NEW leaves \in [0 .. 2^n - 1 -> V],
           NEW leaf \in 0 .. 2^n - 1
    PROVE  LET L == Fips!Xmss!Levels(t, leaves, n)
               auth == Fips!Xmss!AuthPath(L, n, leaf)
           IN  /\ auth \in Seq(V) /\ Len(auth) = n
               /\ Fips!Xmss!Climb(t, leaves[leaf], leaf, auth) = Fips!Xmss!Root(L, n)
               /\ Fips!Xmss!Root(L, n) \in V
<1> DEFINE L == Fips!Xmss!Levels(t, leaves, n)
           auth == Fips!Xmss!AuthPath(L, n, leaf)
           T == [h \in 1 .. n |-> [i \in Nat |-> [q \in V \X V |-> Fips!XmssHash(t, h, i, q)]]]
<1>0. 2^n \in Nat \ {0} /\ leaf \in Nat /\ leaf < 2^n
  BY PowNat
<1>1. /\ L[0] = leaves
      /\ \A h \in 0 .. n : L[h] \in [0 .. 2^(n - h) - 1 -> V]
      /\ \A h \in 1 .. n : L[h] = FipsRow(t, L[h - 1], n, h)
  BY FipsLevels
<1>2. /\ auth = [h \in 1 .. n |-> L[h - 1][Beside(leaf \div 2^(h - 1))]]
      /\ Fips!Xmss!Root(L, n) = L[n][0]
  BY DEF Fips!Xmss!AuthPath, Fips!Xmss!Sibling, Fips!Xmss!Root, Beside
<1> HIDE DEF L, auth
<1>3. ASSUME NEW h \in 1 .. n
      PROVE  /\ L[h - 1] \in [0 .. 2^(n - (h - 1)) - 1 -> V]
             /\ auth[h] = L[h - 1][Beside(leaf \div 2^(h - 1))]
             /\ auth[h] \in V
  <2>1. h - 1 \in 0 .. n
    OBVIOUS
  <2>2. Beside(leaf \div 2^(h - 1)) \in 0 .. 2^(n - (h - 1)) - 1
    BY <1>0, Family
  <2>3. L[h - 1] \in [0 .. 2^(n - (h - 1)) - 1 -> V]
    BY <1>1, <2>1
  <2>. QED  BY <1>2, <2>2, <2>3
<1>4. auth \in Seq(V) /\ Len(auth) = n
  <2>1. auth \in [1 .. n -> V]
    BY <1>2, <1>3
  <2>. QED  BY <2>1, FunctionIsSeq
<1>5. leaves[leaf] \in V
  BY <1>0
<1>6. PICK c : /\ Fips!Xmss!Climb(t, leaves[leaf], leaf, auth) = c[n]
               /\ c[0] = leaves[leaf] /\ \A h \in 0 .. n : c[h] \in V
               /\ \A h \in 1 .. n : c[h] = FipsUp(t, leaf, auth, h, c[h - 1])
  BY <1>4, <1>5, FipsClimb
<1>7. ASSUME NEW h \in 1 .. n, NEW i \in 0 .. 2^(n - h) - 1
      PROVE  L[h][i] = T[h][i][<<L[h - 1][2 * i], L[h - 1][2 * i + 1]>>]
  <2>1. L[h][i] = Fips!XmssHash(t, h, i, <<L[h - 1][2 * i], L[h - 1][2 * i + 1]>>)
    BY <1>1 DEF FipsRow, FipsNode
  <2>2. 2 * i \in 0 .. 2^(n - (h - 1)) - 1 /\ 2 * i + 1 \in 0 .. 2^(n - (h - 1)) - 1
    <3> DEFINE k == n - h
    <3>1. k \in Nat /\ n - (h - 1) = k + 1
      OBVIOUS
    <3>2. i \in 0 .. 2^k - 1
      OBVIOUS
    <3> HIDE DEF k
    <3>3. 2^(k + 1) = 2 * 2^k /\ 2^k \in Nat
      BY <3>1, PowStep, PowNat
    <3>. QED  BY <3>1, <3>2, <3>3
  <2>3. L[h - 1][2 * i] \in V /\ L[h - 1][2 * i + 1] \in V
    BY <1>3, <2>2
  <2>4. i \in Nat
    OBVIOUS
  <2>. QED  BY <2>1, <2>3, <2>4
<1>8. ASSUME NEW h \in 1 .. n
      PROVE  c[h] = T[h][leaf \div 2^h][IF (leaf \div 2^(h - 1)) % 2 = 0
                                       THEN <<c[h - 1], auth[h]>> ELSE <<auth[h], c[h - 1]>>]
  <2>1. leaf \div 2^h \in Nat
    <3>1. 2^h \in Nat \ {0}
      BY PowNat
    <3>. QED  BY <1>0, <3>1
  <2>2. h - 1 \in 0 .. n
    OBVIOUS
  <2>3. c[h - 1] \in V /\ auth[h] \in V
    BY <1>3, <1>6, <2>2
  <2> DEFINE q == IF (leaf \div 2^(h - 1)) % 2 = 0
                  THEN <<c[h - 1], auth[h]>> ELSE <<auth[h], c[h - 1]>>
  <2>4. q \in V \X V
    BY <2>3
  <2>5. c[h] = Fips!XmssHash(t, h, leaf \div 2^h, q)
    BY <1>6 DEF FipsUp
  <2> HIDE DEF q
  <2>6. T[h][leaf \div 2^h][q] = Fips!XmssHash(t, h, leaf \div 2^h, q)
    BY <2>1, <2>4
  <2>. QED  BY <2>5, <2>6 DEF q
<1> HIDE DEF T
<1>9. c[n] = L[n][0]
  <2>1. c[0] = L[0][leaf]
    BY <1>1, <1>6
  <2>2. PathIn(L, n, leaf, auth)
    BY <1>3 DEF PathIn
  <2>3. TreeBy(T, n, V, L)
    BY <1>1, <1>7 DEF TreeBy
  <2>4. ClimbBy(T, n, leaf, auth, c)
    BY <1>8 DEF ClimbBy
  <2>. QED  BY <1>0, <2>1, <2>2, <2>3, <2>4, PathReachesRoot
<1>10. L[n][0] \in V
  <2>1. L[n] \in [0 .. 2^(n - n) - 1 -> V] /\ n - n = 0
    <3>1. n \in 0 .. n /\ n - n = 0
      OBVIOUS
    <3>2. \A h \in 0 .. n : L[h] \in [0 .. 2^(n - h) - 1 -> V]
      BY <1>1
    <3>3. L[n] \in [0 .. 2^(n - n) - 1 -> V]
      BY <3>1, <3>2, Zenon
    <3>. QED  BY <3>1, <3>3
  <2>2. 2^0 = 1
    OBVIOUS
  <2>3. 2^(n - n) - 1 = 0
    <3>1. 2^(n - n) = 2^0
      BY <2>1, Zenon
    <3>. QED  BY <2>2, <3>1
  <2>. QED  BY <2>1, <2>3
<1>. QED  BY <1>2, <1>4, <1>6, <1>9, <1>10 DEF L, auth

-----------------------------------------------------------------------------
(* The layers of 128s.                                                     *)

(* The root of a tree of 128s.                                             *)
FipsTop(sk, layer, tree) == Fips!Xmss!Root(Fips!XmssLevels(sk, layer, tree), H_PRIME)

(* A key pair signs under its tree's root.                                 *)
FipsSigned(sk, layer, tree, leaf, m, s) ==
    /\ s \in Seq(V) /\ Len(s) = Fips!XMSS_LEN
    /\ Fips!XmssPkFromSig(sk.seed, layer, tree, leaf, m, s) = FipsTop(sk, layer, tree)

(* Every leaf of a tree signs under its root.                              *)
LEMMA FipsXmssOwn ==
    ASSUME HashFits, NEW sk, NEW layer, NEW tree, NEW leaf \in 0 .. 2^H_PRIME - 1, NEW m \in V
    PROVE  /\ FipsSigned(sk, layer, tree, leaf, m, Fips!XmssSign(sk, layer, tree, leaf, m))
           /\ FipsTop(sk, layer, tree) \in V
<1> DEFINE t == [seed |-> sk.seed, layer |-> layer, tree |-> tree]
           Start(i, c) == Fips!Prf(sk, layer, tree, Fips!WOTS_PRF, i, c - 1, 0)
           Run(c, from, n, v) == Fips!Chain(sk.seed, layer, tree, leaf, c - 1, from, n, v)
           Key(i) == [c \in 1 .. Fips!LEN |->
                        Fips!Chain(sk.seed, layer, tree, i, c - 1, 0, Fips!W - 1, Start(i, c))]
           leaves == [i \in 0 .. 2^H_PRIME - 1 |-> Fips!WotsPk(sk.seed, layer, tree, i, Key(i))]
           L == Fips!Xmss!Levels(t, leaves, H_PRIME)
           auth == Fips!Xmss!AuthPath(L, H_PRIME, leaf)
           d == Fips!MsgToChainDigits(m)
           points == [c \in 1 .. Fips!LEN |-> Run(c, 0, d[c], Start(leaf, c))]
           tops == [c \in 1 .. Fips!LEN |-> Run(c, d[c], Fips!W - 1 - d[c], points[c])]
<1>1. Fips!XmssLevels(sk, layer, tree) = L
  BY DEF Fips!XmssLevels
<1>2. leaves \in [0 .. 2^H_PRIME - 1 -> V]
  BY FipsHash DEF Fips!WotsPk
<1>3. /\ auth \in Seq(V) /\ Len(auth) = H_PRIME
      /\ Fips!Xmss!Climb(t, leaves[leaf], leaf, auth) = Fips!Xmss!Root(L, H_PRIME)
      /\ Fips!Xmss!Root(L, H_PRIME) \in V
  <2> HIDE DEF leaves, t
  <2>. QED  BY <1>2, LiteSizes, FipsAuthPath
<1>4. ASSUME NEW c \in 1 .. Fips!LEN
      PROVE  /\ points[c] \in V
             /\ tops[c] = Run(c, 0, Fips!W - 1, Start(leaf, c))
  <2>1. m \in Nat
    BY LiteSizes
  <2>2. Fips!W - 1 \in Nat /\ d[c] \in 0 .. Fips!W - 1
    BY <2>1, FipsDigits, FipsSizes, Sizes
  <2>3. Start(leaf, c) \in V
    BY DEF Fips!Prf, HashFits
  <2>4. points[c] = Run(c, 0, d[c], Start(leaf, c))
    OBVIOUS
  <2>5. tops[c] = Run(c, d[c], Fips!W - 1 - d[c], points[c])
    OBVIOUS
  <2> HIDE DEF d, Start, points, tops
  <2>. QED  BY <2>2, <2>3, <2>4, <2>5, FipsChainOn
<1>5. points \in Seq(V) /\ Len(points) = Lite!LEN
  <2>1. points = [c \in 1 .. Fips!LEN |-> points[c]]
    OBVIOUS
  <2> HIDE DEF points
  <2>2. points \in [1 .. Lite!LEN -> V]
    BY <1>4, <2>1, FipsSizes
  <2>. QED  BY <2>2, FipsSizes, FunctionIsSeq
<1>6. tops = Key(leaf)
  <2>1. \A c \in 1 .. Fips!LEN : tops[c] = Key(leaf)[c]
    BY <1>4
  <2>2. /\ tops = [c \in 1 .. Fips!LEN |-> tops[c]]
        /\ Key(leaf) = [c \in 1 .. Fips!LEN |-> Key(leaf)[c]]
    OBVIOUS
  <2> HIDE DEF tops, Key
  <2>. QED  BY <2>1, <2>2
<1>7. Fips!XmssSign(sk, layer, tree, leaf, m) = points \o auth
  BY <1>1 DEF Fips!XmssSign
<1>8. Fips!WotsPkFromSig(sk.seed, layer, tree, leaf, m, points)
         = Fips!WotsPk(sk.seed, layer, tree, leaf, tops)
  BY DEF Fips!WotsPkFromSig
<1>9. leaves[leaf] = Fips!WotsPk(sk.seed, layer, tree, leaf, Key(leaf))
  OBVIOUS
<1> HIDE DEF points, auth, L, leaves, tops, Key, t
<1>10. /\ points \o auth \in Seq(V) /\ Len(points \o auth) = Lite!LEN + H_PRIME
       /\ SubSeq(points \o auth, 1, Lite!LEN) = points
       /\ SubSeq(points \o auth, Lite!LEN + 1, Lite!LEN + H_PRIME) = auth
  <2>1. points \o auth \in Seq(V) /\ Len(points \o auth) = Len(points) + Len(auth)
    BY <1>3, <1>5, ConcatProperties
  <2>2. \A x, y \in Seq(V) : /\ SubSeq(x \o y, 1, Len(x)) = x
                            /\ SubSeq(x \o y, Len(x) + 1, Len(x) + Len(y)) = y
    BY CutJoined
  <2>. QED  BY <1>3, <1>5, <2>1, <2>2
<1>11. Fips!XmssPkFromSig(sk.seed, layer, tree, leaf, m, points \o auth)
          = Fips!Xmss!Climb(t, Fips!WotsPkFromSig(sk.seed, layer, tree, leaf, m, points), leaf, auth)
  <2>1. /\ SubSeq(points \o auth, 1, Fips!LEN) = points
        /\ SubSeq(points \o auth, Fips!LEN + 1, Fips!XMSS_LEN) = auth
    BY <1>10, FipsSizes
  <2>. QED  BY <2>1 DEF Fips!XmssPkFromSig, t
<1>12. Fips!XmssPkFromSig(sk.seed, layer, tree, leaf, m, points \o auth) = FipsTop(sk, layer, tree)
  BY <1>1, <1>3, <1>6, <1>8, <1>9, <1>11 DEF FipsTop
<1>. QED  BY <1>1, <1>3, <1>7, <1>10, <1>12, FipsSizes DEF FipsSigned, FipsTop

(* The places of 128s go up as those of LITE.                              *)
LEMMA FipsPlaces ==
    ASSUME NEW tree \in Nat, NEW leaf \in 0 .. 2^H_PRIME - 1
    PROVE  Ascends(Fips!Places(tree, leaf), tree, leaf)
<1>1. Fips!Places(tree, leaf) = Lite!Places(tree, leaf)
  BY DEF Fips!Places, Lite!Places, Lite!Promote
<1>. QED  BY <1>1, LitePlaces

(* The flattening 128s takes over is the one of SequencesExt.              *)
LEMMA FipsFlatten == \A s : Fips!FlattenSeq(s) = Ext!FlattenSeq(s)
  BY DEF Fips!FlattenSeq, Ext!FlattenSeq

(* What the layers above m are signed with.                                *)
FipsPayload(sk, m, at, l) == IF l = 0 THEN m ELSE FipsTop(sk, l - 1, at[l - 1].tree)
FipsHt(sk, m, at) ==
    Ext!FlattenSeq([l \in 1 .. D |->
        Fips!XmssSign(sk, l - 1, at[l - 1].tree, at[l - 1].leaf, FipsPayload(sk, m, at, l - 1))])

(* The hypertree of 128s leads to the root of the only tree of the top     *)
(* layer.                                                                  *)
LEMMA FipsHtOwn ==
    ASSUME HashFits, NEW sk, NEW m \in V, NEW tree \in Nat, tree < 2^((D - 1) * H_PRIME),
           NEW leaf \in 0 .. 2^H_PRIME - 1
    PROVE  LET sig == FipsHt(sk, m, Fips!Places(tree, leaf))
           IN  /\ sig \in Seq(V) /\ Len(sig) = D * Fips!XMSS_LEN
               /\ Fips!HtRootFromSig(sk.seed, m, tree, leaf, sig) = FipsTop(sk, D - 1, 0)
<1> DEFINE at == Fips!Places(tree, leaf)
           len == Fips!XMSS_LEN
           Pay(l) == FipsPayload(sk, m, at, l)
           Block(l) == Fips!XmssSign(sk, l - 1, at[l - 1].tree, at[l - 1].leaf, Pay(l - 1))
           s == [l \in 1 .. D |-> Block(l)]
           sig == Ext!FlattenSeq(s)
<1>1. FipsHt(sk, m, at) = sig
  BY DEF FipsHt
<1>2. /\ \A l \in 0 .. D - 1 : at[l].tree \in Nat /\ at[l].leaf \in 0 .. 2^H_PRIME - 1
      /\ at[D - 1].tree = 0
  BY FipsPlaces, TopIsOne
<1>3. D \in Nat \ {0} /\ len \in Nat
  BY LiteSizes, FipsSizes
<1> HIDE DEF at
<1>4. \A l \in 0 .. D : Pay(l) \in V
  <2>1. \A y, z : FipsTop(sk, y, z) \in V
    <3>1. 0 \in 0 .. 2^H_PRIME - 1
      BY Room
    <3>. QED  BY <3>1, FipsXmssOwn
  <2>. QED  BY <2>1 DEF FipsPayload
<1> HIDE DEF Pay
<1>5. ASSUME NEW l \in 1 .. D
      PROVE  FipsSigned(sk, l - 1, at[l - 1].tree, at[l - 1].leaf, Pay(l - 1), s[l])
  <2>1. l - 1 \in 0 .. D - 1 /\ l - 1 \in 0 .. D
    BY <1>3
  <2>2. Pay(l - 1) \in V /\ at[l - 1].leaf \in 0 .. 2^H_PRIME - 1
    BY <1>2, <1>4, <2>1
  <2>3. s[l] = Block(l)
    OBVIOUS
  <2> HIDE DEF s
  <2>. QED  BY <2>2, <2>3, FipsXmssOwn
<1>6. \A l \in 1 .. D : s[l] \in Seq(V) /\ Len(s[l]) = len
  <2> HIDE DEF s
  <2>. QED  BY <1>5 DEF FipsSigned
<1>7. s \in Seq(Seq(V)) /\ Len(s) = D
  <2>1. s = [l \in 1 .. D |-> s[l]]
    OBVIOUS
  <2> HIDE DEF s
  <2>2. s \in [1 .. D -> Seq(V)]
    BY <1>6, <2>1
  <2>. QED  BY <1>3, <2>2, FunctionIsSeq
<1> HIDE DEF s, len
<1>8. sig \in Seq(V) /\ Len(sig) = D * len /\ InBlocks(sig, s, D, len)
  BY <1>3, <1>6, <1>7, FlattenBlocks
<1> HIDE DEF sig
<1>9. ASSUME NEW l \in 1 .. D
      PROVE  SubSeq(sig, (l - 1) * len + 1, l * len) = s[l]
  <2> DEFINE off == (l - 1) * len
  <2>0. off = (l - 1) * len /\ s[l] \in Seq(V) /\ Len(s[l]) = len
    BY <1>6
  <2>1. off \in Nat /\ off + 0 + 1 = off + 1 /\ off + 0 + len = l * len /\ off + 1 = (l - 1) * len + 1
    <3>1. l - 1 \in Nat /\ l \in Nat
      OBVIOUS
    <3>. QED  BY <1>3, <3>1
  <2> HIDE DEF off
  <2>2. PartOf(sig, off, s[l], 0, len)
    <3>1. 0 + len <= len /\ 0 \in Nat
      BY <1>3
    <3>. QED  BY <1>3, <1>8, <2>0, <3>1, CutOfBlock
  <2>3. SubSeq(s[l], 0 + 1, 0 + len) = s[l]
    <3>1. 0 + 1 = 1 /\ 0 + len = Len(s[l])
      BY <1>3, <2>0
    <3>2. SubSeq(s[l], 1, Len(s[l])) = s[l]
      BY <2>0, SubSeqFull
    <3>. QED  BY <3>1, <3>2
  <2>. QED  BY <2>1, <2>2, <2>3 DEF PartOf
<1> DEFINE Up(l, x) == Fips!XmssPkFromSig(sk.seed, l - 1, at[l - 1].tree, at[l - 1].leaf, x,
                                         SubSeq(sig, (l - 1) * len + 1, l * len))
           Is(f) == f = [l \in 0 .. D |-> IF l = 0 THEN m ELSE Up(l, f[l - 1])]
           c == CHOOSE f : Is(f)
<1>10. Fips!HtRootFromSig(sk.seed, m, tree, leaf, sig) = c[D]
  BY DEF Fips!HtRootFromSig, at, len
<1>11. \A l \in 1 .. D : Up(l, Pay(l - 1)) = Pay(l)
  <2>1. \A l \in 1 .. D : Pay(l) = FipsTop(sk, l - 1, at[l - 1].tree)
    BY DEF Pay, FipsPayload
  <2>. QED  BY <1>5, <1>9, <2>1 DEF FipsSigned
<1>12. Pay(0) = m
  BY DEF Pay, FipsPayload
<1> HIDE DEF Up
<1>13. Is(c)
  <2> DEFINE f == [l \in 0 .. D |-> Pay(l)]
  <2>1. ASSUME NEW l \in 0 .. D PROVE f[l] = IF l = 0 THEN m ELSE Up(l, f[l - 1])
    <3>1. CASE l = 0
      BY <1>12, <3>1
    <3>2. CASE l # 0
      <4>1. l \in 1 .. D /\ l - 1 \in 0 .. D
        BY <1>3, <3>2
      <4>. QED  BY <1>11, <3>2, <4>1
    <3>. QED  BY <3>1, <3>2
  <2>2. f = [l \in 0 .. D |-> f[l]]
    OBVIOUS
  <2> HIDE DEF f
  <2>3. Is(f)
    BY <2>1, <2>2
  <2> HIDE DEF Is
  <2>. QED  BY <2>3
<1> HIDE DEF c
<1>14. c[0] = m /\ \A l \in 1 .. D : c[l] = Up(l, c[l - 1])
  BY <1>3, <1>13
<1>15. c[D] = Pay(D)
  <2> DEFINE X == {l \in 0 .. D : c[l] = Pay(l)}
  <2>1. 0 \in X
    BY <1>3, <1>12, <1>14
  <2>2. \A l \in 0 + 1 .. D : l - 1 \in X => l \in X
    BY <1>3, <1>11, <1>14
  <2>3. 0 .. D \subseteq X
    <3> HIDE DEF X
    <3>. QED  BY <1>3, <2>1, <2>2, Upward
  <2>. QED  BY <1>3, <2>3
<1>16. Pay(D) = FipsTop(sk, D - 1, 0)
  <2>1. D # 0
    BY <1>3
  <2>. QED  BY <1>2, <2>1 DEF Pay, FipsPayload
<1>. QED  BY <1>1, <1>8, <1>10, <1>15, <1>16 DEF len, at

-----------------------------------------------------------------------------
(* Signing and verifying with 128s.                                        *)

(* Bytes read as a number are a natural.                                   *)
LEMMA NumberNat ==
    ASSUME NEW bytes \in Seq(Nat)
    PROVE  Fips!Number(bytes) \in Nat
<1> DEFINE n == Len(bytes)
           f == [i \in 1 .. n |-> bytes[i] * 2^(8 * (n - i))]
<1>1. Fips!Number(bytes) = SumFunctionOnSet(f, 1 .. n)
  BY DEF Fips!Number, Fips!SumFunctionOnSet, Fips!FoldFunctionOnSet, Fips!MapThenFoldSet,
         SumFunctionOnSet, FoldFunctionOnSet, MapThenFoldSet
<1>2. n \in Nat
  OBVIOUS
<1>3. \A i \in 1 .. n : bytes[i] \in Nat
  BY ElementOfSeq
<1> HIDE DEF n
<1>4. ASSUME NEW i \in 1 .. n PROVE f[i] \in Nat
  <2>1. 8 * (n - i) \in Nat
    BY <1>2
  <2>2. 2^(8 * (n - i)) \in Nat /\ bytes[i] \in Nat
    BY <1>3, <2>1, PowNat
  <2>3. \A x, y \in Nat : x * y \in Nat
    OBVIOUS
  <2>. QED  BY <2>2, <2>3
<1>5. IsFiniteSet(1 .. n)
  BY <1>2, FS_Interval
<1> HIDE DEF f
<1>. QED  BY <1>1, <1>4, <1>5, SumNat

(* MGF1 gives the bytes asked for.                                         *)
LEMMA DigestBytes ==
    ASSUME HashFits, NEW s, NEW length \in Nat
    PROVE  Fips!Mgf1(s, length) \in Seq(Nat) /\ Len(Fips!Mgf1(s, length)) = length
<1>1. ASSUME NEW v \in V, NEW j \in Nat, j < N PROVE Fips!Byte(v, j) \in Nat
  <2>1. 8 * (N - 1 - j) \in Nat /\ v \in Nat
    BY <1>1, Sizes, LiteSizes
  <2>2. 2^(8 * (N - 1 - j)) \in Nat \ {0}
    BY <2>1, PowNat
  <2>3. \A p \in Nat \ {0} : (v \div p) % 256 \in Nat
    BY <2>1
  <2>. QED  BY <2>2, <2>3 DEF Fips!Byte
<1>2. ASSUME NEW i \in 1 .. length
      PROVE  Fips!Byte(Sha(Append(s, (i - 1) \div N)), (i - 1) % N) \in Nat
  <2>1. (i - 1) % N \in Nat /\ (i - 1) % N < N
    BY Sizes
  <2>2. Sha(Append(s, (i - 1) \div N)) \in V
    BY DEF HashFits
  <2>. QED  BY <1>1, <2>1, <2>2
<1>3. Fips!Mgf1(s, length) \in [1 .. length -> Nat]
  BY <1>2 DEF Fips!Mgf1
<1>. QED  BY <1>3, FunctionIsSeq

(* The tree and the leaf that a digest of 128s picks exist.                *)
LEMMA FipsSplitPlaces ==
    ASSUME HashFits, NEW r, NEW seed, NEW root, NEW m
    PROVE  LET at == Fips!SplitDigest(Fips!Hmsg(r, seed, root, m))
           IN  /\ at.tree \in Nat /\ at.tree < 2^((D - 1) * H_PRIME)
               /\ at.leaf \in 0 .. 2^H_PRIME - 1
<1> DEFINE digest == Fips!Hmsg(r, seed, root, m)
           at == Fips!SplitDigest(digest)
           a == Fips!MD_BYTES
           b == Fips!TREE_BYTES
           c == Fips!LEAF_BYTES
           tree == Fips!Number(SubSeq(digest, a + 1, a + b))
           leaf == Fips!Number(SubSeq(digest, a + b + 1, Fips!M_BYTES))
<1>1. Fips!TREE_BITS = (D - 1) * H_PRIME /\ (D - 1) * H_PRIME \in Nat
  <2>1. H_PRIME * D - H_PRIME = (D - 1) * H_PRIME
    BY LiteSizes
  <2>. QED  BY <2>1, Room DEF Fips!TREE_BITS
<1>2. a \in Nat /\ b \in Nat /\ c \in Nat /\ Fips!M_BYTES = a + b + c
  <2>1. \A x \in Nat : (x + 7) \div 8 \in Nat
    OBVIOUS
  <2>2. K * A128 \in Nat /\ Fips!TREE_BITS \in Nat /\ H_PRIME \in Nat
    BY <1>1, LiteSizes
  <2>. QED  BY <2>1, <2>2 DEF Fips!MD_BYTES, Fips!TREE_BYTES, Fips!LEAF_BYTES, Fips!M_BYTES
<1>3. digest \in Seq(Nat) /\ Len(digest) = Fips!M_BYTES
  BY <1>2, DigestBytes DEF Fips!Hmsg
<1>4. at = [fors |-> at.fors, tree |-> tree % 2^Fips!TREE_BITS, leaf |-> leaf % 2^H_PRIME]
  BY DEF Fips!SplitDigest
<1> HIDE DEF digest, a, b, c, at
<1>5. tree \in Nat /\ leaf \in Nat
  <2>1. \A x \in Seq(Nat) : \A p, q \in Nat : q <= Len(x) => SubSeq(x, p + 1, q) \in Seq(Nat)
    OBVIOUS
  <2>2. /\ a + b \in Nat /\ a + b <= Len(digest)
        /\ Fips!M_BYTES \in Nat /\ Fips!M_BYTES <= Len(digest)
    BY <1>2, <1>3
  <2>3. SubSeq(digest, a + 1, a + b) \in Seq(Nat)
    BY <1>2, <1>3, <2>1, <2>2
  <2>4. SubSeq(digest, a + b + 1, Fips!M_BYTES) \in Seq(Nat)
    BY <1>3, <2>1, <2>2
  <2>. QED  BY <2>3, <2>4, NumberNat
<1> HIDE DEF tree, leaf
<1>6. at.tree = tree % 2^Fips!TREE_BITS /\ at.leaf = leaf % 2^H_PRIME
  BY <1>4
<1>7. 2^H_PRIME \in Nat \ {0} /\ 2^((D - 1) * H_PRIME) \in Nat \ {0}
  BY Room, PowNat
<1>8. \A x \in Nat, p \in Nat \ {0} : x % p \in 0 .. p - 1 /\ x % p \in Nat /\ x % p < p
  OBVIOUS
<1>9. at.tree = tree % 2^((D - 1) * H_PRIME)
  BY <1>1, <1>6
<1>. QED  BY <1>5, <1>6, <1>7, <1>8, <1>9 DEF at, digest

(* The FORS part of a signature of 128s.                                   *)
FipsFors(sk, at) ==
    Ext!FlattenSeq([n \in 1 .. K |->
        <<Fips!ForsSk(sk, at.tree, at.leaf, n - 1, at.fors[n])>>
            \o Fips!Fors!AuthPath(Fips!ForsLevels(sk, at.tree, at.leaf, n - 1),
                                  A128, at.fors[n])])

(* It has a secret and a path for each tree.                               *)
LEMMA FipsForsShape ==
    ASSUME NEW sk, NEW at
    PROVE  \E S : FipsFors(sk, at) \in Seq(S) /\ Len(FipsFors(sk, at)) = Fips!FORS_LEN
<1> DEFINE Secret(n) == Fips!ForsSk(sk, at.tree, at.leaf, n - 1, at.fors[n])
           Path(n) == Fips!Fors!AuthPath(Fips!ForsLevels(sk, at.tree, at.leaf, n - 1),
                                         A128, at.fors[n])
           s == [n \in 1 .. K |-> <<Secret(n)>> \o Path(n)]
           S == {Secret(n) : n \in 1 .. K} \union {Path(n)[h] : n \in 1 .. K, h \in 1 .. A128}
<1>1. A128 \in Nat /\ K \in Nat \ {0} /\ 1 + A128 \in Nat
  BY LiteSizes
<1>2. FipsFors(sk, at) = Ext!FlattenSeq(s)
  BY DEF FipsFors
<1>3. ASSUME NEW n \in 1 .. K PROVE Path(n) \in Seq(S) /\ Len(Path(n)) = A128
  <2>1. \A h \in 1 .. A128 : Path(n)[h] \in S
    <3> HIDE DEF Path
    <3>. QED  OBVIOUS
  <2>2. Path(n) = [h \in 1 .. A128 |-> Path(n)[h]]
    BY DEF Fips!Fors!AuthPath
  <2> HIDE DEF Path, S
  <2>3. Path(n) \in [1 .. A128 -> S]
    BY <2>1, <2>2
  <2>. QED  BY <1>1, <2>3, FunctionIsSeq
<1> HIDE DEF Path
<1>4. ASSUME NEW n \in 1 .. K PROVE s[n] \in Seq(S) /\ Len(s[n]) = 1 + A128
  <2>1. Secret(n) \in S
    <3> HIDE DEF Secret
    <3>. QED  OBVIOUS
  <2>2. s[n] = <<Secret(n)>> \o Path(n)
    OBVIOUS
  <2> HIDE DEF s, S, Secret
  <2>3. <<Secret(n)>> \in Seq(S) /\ Len(<<Secret(n)>>) = 1
    BY <2>1
  <2>4. \A x, y \in Seq(S) : x \o y \in Seq(S) /\ Len(x \o y) = Len(x) + Len(y)
    OBVIOUS
  <2>. QED  BY <1>3, <2>2, <2>3, <2>4
<1>5. s \in Seq(Seq(S)) /\ Len(s) = K
  <2>1. s = [n \in 1 .. K |-> s[n]]
    OBVIOUS
  <2> HIDE DEF s, S
  <2>2. s \in [1 .. K -> Seq(S)]
    BY <1>4, <2>1
  <2>. QED  BY <1>1, <2>2, FunctionIsSeq
<1> HIDE DEF s, S
<1>6. Ext!FlattenSeq(s) \in Seq(S) /\ Len(Ext!FlattenSeq(s)) = K * (1 + A128)
  BY <1>1, <1>4, <1>5, FlattenBlocks
<1>. QED  BY <1>2, <1>6 DEF Fips!FORS_LEN

(* A signature of 128s is cut where it was put together: the randomizer,   *)
(* the FORS part and the hypertree.                                        *)
LEMMA FipsSplits ==
    ASSUME NEW r, NEW S, NEW T, NEW fors \in Seq(S), NEW ht \in Seq(T),
           Len(fors) = Fips!FORS_LEN, Len(ht) = D * Fips!XMSS_LEN
    PROVE  LET sig == <<r>> \o fors \o ht
           IN  /\ Len(sig) = Fips!SIG_LEN /\ sig[1] = r
               /\ SubSeq(sig, 2, 1 + Fips!FORS_LEN) = fors
               /\ SubSeq(sig, 2 + Fips!FORS_LEN, Fips!SIG_LEN) = ht
<1> DEFINE R == {r} \union (S \union T)
           x == <<r>> \o fors
           sig == x \o ht
           n == Len(fors)
<1>1. fors \in Seq(R) /\ ht \in Seq(R) /\ r \in R
  <2>1. fors \in Seq(S \union T) /\ ht \in Seq(S \union T)
    BY SeqUnion
  <2>. QED  BY <2>1, SeqUnion
<1> HIDE DEF R
<1>2. n \in Nat /\ Len(ht) \in Nat /\ Fips!SIG_LEN = 1 + n + Len(ht)
  BY <1>1 DEF Fips!SIG_LEN
<1>3. /\ x \in Seq(R) /\ Len(x) = 1 + n /\ x[1] = r
      /\ \A j \in 1 .. n : x[1 + j] = fors[j]
  <2>1. <<r>> \in Seq(R) /\ Len(<<r>>) = 1 /\ <<r>>[1] = r /\ 1 \in 1 .. 1
    BY <1>1
  <2> DEFINE o == <<r>>
  <2> HIDE DEF o
  <2>2. \A p, q \in Seq(R) : /\ p \o q \in Seq(R) /\ Len(p \o q) = Len(p) + Len(q)
                             /\ \A i \in 1 .. Len(p) : (p \o q)[i] = p[i]
                             /\ \A h \in 1 .. Len(q) : (p \o q)[Len(p) + h] = q[h]
    BY ConcatParts
  <2>3. o \in Seq(R) /\ Len(o) = 1 /\ o[1] = r /\ x = o \o fors
    BY <2>1 DEF o
  <2> HIDE DEF x
  <2>4. /\ x \in Seq(R) /\ Len(x) = 1 + n
        /\ \A i \in 1 .. 1 : x[i] = o[i]
        /\ \A j \in 1 .. n : x[1 + j] = fors[j]
    <3>1. /\ o \o fors \in Seq(R) /\ Len(o \o fors) = Len(o) + Len(fors)
          /\ \A i \in 1 .. Len(o) : (o \o fors)[i] = o[i]
          /\ \A h \in 1 .. Len(fors) : (o \o fors)[Len(o) + h] = fors[h]
      BY <1>1, <2>2, <2>3
    <3>. QED  BY <2>3, <3>1
  <2>. QED  BY <2>3, <2>4
<1> HIDE DEF x
<1>4. /\ sig \in Seq(R) /\ Len(sig) = Len(x) + Len(ht)
      /\ \A i \in 1 .. Len(x) : sig[i] = x[i]
  <2>1. \A p, q \in Seq(R) : /\ p \o q \in Seq(R) /\ Len(p \o q) = Len(p) + Len(q)
                             /\ \A i \in 1 .. Len(p) : (p \o q)[i] = p[i]
    BY ConcatParts
  <2>. QED  BY <1>1, <1>3, <2>1
<1>5. SubSeq(sig, Len(x) + 1, Len(x) + Len(ht)) = ht
  BY <1>1, <1>3, CutJoined
<1> HIDE DEF sig
<1>6. SubSeq(sig, 1 + 1, 1 + n) = fors
  <2>1. \A j \in 1 .. n : sig[1 + j] = fors[j]
    <3>1. \A j \in 1 .. n : 1 + j \in 1 .. Len(x)
      BY <1>2, <1>3
    <3>. QED  BY <1>3, <1>4, <3>1
  <2>2. 1 + n <= Len(sig) /\ 1 \in Nat
    BY <1>2, <1>3, <1>4
  <2> HIDE DEF n
  <2>3. Len(fors) = n
    BY DEF n
  <2>. QED  BY <1>1, <1>2, <1>4, <2>1, <2>2, <2>3, CutOut
<1>7. sig[1] = r
  <2>1. 1 \in 1 .. Len(x)
    BY <1>2, <1>3
  <2>. QED  BY <1>3, <1>4, <2>1
<1>8. /\ 1 + 1 = 2 /\ n = Fips!FORS_LEN /\ Len(x) + 1 = 2 + n /\ Len(x) + Len(ht) = Fips!SIG_LEN
  BY <1>2, <1>3
<1>. QED  BY <1>4, <1>5, <1>6, <1>7, <1>8 DEF sig, x

(* verify_with_context of sha2_128s.move accepts a signature made as FIPS  *)
(* 205 says, for any seeds, message, randomizer and context that is not    *)
(* too long.                                                               *)
LEMMA FipsVerifiesOwn ==
    ASSUME HashFits, NEW seed, NEW skSeed, NEW m, NEW ctx, Len(ctx) <= MAX_CTX, NEW r
    PROVE  LET k == Fips!Keygen128s(seed, skSeed)
           IN  Fips!VerifyWithContext(k.pk, m, Fips!Sign128s(k.sk, m, ctx, r), ctx) = "true"
<1> DEFINE half == [seed |-> seed, skSeed |-> skSeed]
           root == FipsTop(half, D - 1, 0)
           sk == [seed |-> seed, skSeed |-> skSeed, root |-> root]
           pk == [seed |-> seed, root |-> root]
           digest == Fips!Hmsg(r, seed, root, Fips!Wrapped(ctx, m))
           at == Fips!SplitDigest(digest)
           fors == FipsFors(sk, at)
           forsPk == Fips!ForsPkFromSig(seed, at.tree, at.leaf, at.fors, fors)
           ht == FipsHt(sk, forsPk, Fips!Places(at.tree, at.leaf))
           sig == <<r>> \o fors \o ht
<1>1. Fips!Keygen128s(seed, skSeed) = [sk |-> sk, pk |-> pk]
  BY DEF Fips!Keygen128s, FipsTop
<1>2. /\ at.tree \in Nat /\ at.tree < 2^((D - 1) * H_PRIME)
      /\ at.leaf \in 0 .. 2^H_PRIME - 1
  BY FipsSplitPlaces
<1>3. sk.seed = seed /\ sk.root = root /\ pk.seed = seed /\ pk.root = root
  OBVIOUS
<1>4. root = FipsTop(sk, D - 1, 0)
  <2>1. sk.skSeed = half.skSeed /\ sk.seed = half.seed
    OBVIOUS
  <2> HIDE DEF sk, half
  <2>2. Fips!XmssLevels(sk, D - 1, 0) = Fips!XmssLevels(half, D - 1, 0)
    BY <2>1 DEF Fips!XmssLevels, Fips!Prf
  <2>. QED  BY <2>2 DEF FipsTop
<1> HIDE DEF half, root, sk, pk
<1>5. Fips!Sign128s(sk, m, ctx, r) = sig
  BY <1>3, FipsFlatten
     DEF Fips!Sign128s, FipsFors, FipsHt, FipsPayload, FipsTop
<1>6. forsPk \in V
  BY FipsHash DEF Fips!ForsPkFromSig
<1> HIDE DEF at, forsPk
<1>7. PICK S : fors \in Seq(S) /\ Len(fors) = Fips!FORS_LEN
  BY FipsForsShape
<1>8. /\ ht \in Seq(V) /\ Len(ht) = D * Fips!XMSS_LEN
      /\ Fips!HtRootFromSig(seed, forsPk, at.tree, at.leaf, ht) = root
  BY <1>2, <1>3, <1>4, <1>6, FipsHtOwn
<1> HIDE DEF fors, ht
<1>9. /\ Len(sig) = Fips!SIG_LEN /\ sig[1] = r
      /\ SubSeq(sig, 2, 1 + Fips!FORS_LEN) = fors
      /\ SubSeq(sig, 2 + Fips!FORS_LEN, Fips!SIG_LEN) = ht
  BY <1>7, <1>8, FipsSplits
<1> HIDE DEF sig
<1>10. Fips!HtRootFromSig(pk.seed,
            Fips!ForsPkFromSig(pk.seed, at.tree, at.leaf, at.fors,
                               SubSeq(sig, 2, 1 + Fips!FORS_LEN)),
            at.tree, at.leaf, SubSeq(sig, 2 + Fips!FORS_LEN, Fips!SIG_LEN)) = pk.root
  BY <1>3, <1>8, <1>9 DEF forsPk
<1>11. at = Fips!SplitDigest(Fips!Hmsg(sig[1], pk.seed, pk.root, Fips!Wrapped(ctx, m)))
  BY <1>3, <1>9 DEF at, digest
<1>12. Fips!VerifyWithContext(pk, m, sig, ctx) = "true"
  BY <1>9, <1>10, <1>11 DEF Fips!VerifyWithContext
<1>. QED  BY <1>1, <1>5, <1>12

-----------------------------------------------------------------------------
(* The round trip.                                                         *)

(* A WOTS signature that was not changed is accepted.                      *)
LEMMA WotsRoundTrip ==
    ASSUME SigInv, key # Nothing, key.scheme = "WOTS", verdict # "none", Untouched
    PROVE  verdict = "true"
<1>1. PICK seed \in Seed : key = [scheme |-> "WOTS", seed |-> seed, pair |-> KeyPair("WOTS", seed)]
  BY DEF SigInv
<1>2. /\ message = signed.message /\ signature = signed.signature
      /\ \E m \in Messages("WOTS") : signed = [message |-> m, signature |-> SignatureOn(key, m)]
  BY DEF SigInv, Untouched
<1>3. message \in Messages("WOTS") /\ signature = SignatureOn(key, message)
  BY <1>2
<1>4. message.text[1] \in Nat
  BY <1>3, WotsMessages DEF Lite!Value
<1> DEFINE a == Lite!BuildAdrs(0, 0, 0, 5)
           sk == [i \in 1 .. Lite!LEN |-> Sha(<<seed + 1, 1, i - 1>>)]
<1>5. key.pair = [seed |-> seed, adrs |-> a, sk |-> sk, pk |-> Lite!ChainTops(seed, a, sk)]
  BY <1>1 DEF KeyPair, Lite!WotsKeygen
<1> HIDE DEF a, sk
<1>6. signature = Lite!ChainPoints(seed, a, sk, message.text[1])
  BY <1>3, <1>5 DEF SignatureOn, Lite!WotsSign
<1>7. verdict = Lite!WotsVerify(seed, a, message.text[1], signature, Lite!ChainTops(seed, a, sk))
  BY <1>5 DEF SigInv, Verdict
<1>. QED  BY <1>4, <1>6, <1>7, WotsVerifiesOwn

(* For WOTS alone: whatever the hash returns, an untouched signature is    *)
(* accepted.                                                               *)
THEOREM WotsRoundTripHolds ==
    Spec => [](key # Nothing /\ key.scheme = "WOTS" => RoundTrip)
<1>1. SigInv => (key # Nothing /\ key.scheme = "WOTS" => RoundTrip)
  BY WotsRoundTrip DEF RoundTrip
<1>. QED  BY <1>1, SignaturesInvariance, PTL

(* An untouched signature of LITE is accepted.                             *)
LEMMA LiteRoundTrip ==
    ASSUME HashFits, SigInv, key # Nothing, key.scheme = "LITE", verdict # "none", Untouched
    PROVE  verdict = "true"
<1>1. PICK seed \in Seed : key = [scheme |-> "LITE", seed |-> seed, pair |-> KeyPair("LITE", seed)]
  BY DEF SigInv
<1>2. /\ message = signed.message /\ signature = signed.signature
      /\ \E m \in Messages("LITE") : signed = [message |-> m, signature |-> SignatureOn(key, m)]
  BY DEF SigInv, Untouched
<1>3. signature = SignatureOn(key, message)
  BY <1>2
<1>4. key.pair = Lite!LiteKeygen(seed, seed + 1)
  BY <1>1 DEF KeyPair
<1>5. signature = Lite!LiteSign(key.pair.sk, message.text)
  BY <1>3 DEF SignatureOn
<1>6. verdict = Lite!LiteVerify(key.pair.pk, message.text, signature)
  BY DEF SigInv, Verdict
<1>. QED  BY <1>4, <1>5, <1>6, LiteVerifiesOwn

(* An untouched signature of 128s is accepted.                             *)
LEMMA FipsRoundTrip ==
    ASSUME HashFits, SigInv, key # Nothing, key.scheme = "128S", verdict # "none", Untouched
    PROVE  verdict = "true"
<1>1. PICK seed \in Seed : key = [scheme |-> "128S", seed |-> seed, pair |-> KeyPair("128S", seed)]
  BY DEF SigInv
<1>2. /\ message = signed.message /\ signature = signed.signature
      /\ \E m \in Messages("128S") : signed = [message |-> m, signature |-> SignatureOn(key, m)]
  BY DEF SigInv, Untouched
<1>3. message \in Messages("128S") /\ signature = SignatureOn(key, message)
  BY <1>2
<1>4. key.pair = Fips!Keygen128s(seed, seed + 1)
  BY <1>1 DEF KeyPair
<1>5. signature = Fips!Sign128s(key.pair.sk, message.text, message.ctx, key.seed + 2)
  BY <1>3 DEF SignatureOn
<1>6. verdict = Fips!VerifyWithContext(key.pair.pk, message.text, signature, message.ctx)
  BY DEF SigInv, Verdict
<1>7. Len(message.ctx) <= MAX_CTX
  BY <1>3, SignaturesAssumption
<1>. QED  BY <1>4, <1>5, <1>6, <1>7, FipsVerifiesOwn

(* The verifiers accept what the signers make, whichever leaves the digest *)
(* picks, for every size of hash and trees and every hash of N bytes.      *)
THEOREM RoundTripHolds ==
    ASSUME HashFits
    PROVE  Spec => []RoundTrip
<1>1. SigInv => RoundTrip
  <2> SUFFICES ASSUME SigInv, verdict # "none", Untouched
               PROVE  verdict = "true"
    BY DEF RoundTrip
  <2>1. key # Nothing
    BY DEF SigInv
  <2>2. key.scheme \in {"WOTS", "LITE", "128S"}
    <3>1. PICK scheme \in Scheme, seed \in Seed :
             key = [scheme |-> scheme, seed |-> seed, pair |-> KeyPair(scheme, seed)]
      BY <2>1 DEF SigInv
    <3>2. key.scheme = scheme
      BY <3>1
    <3>. QED  BY <3>2 DEF Scheme
  <2>. QED  BY <2>1, <2>2, WotsRoundTrip, LiteRoundTrip, FipsRoundTrip
<1>. QED  BY <1>1, SignaturesInvariance, PTL

(* What chain i of a key pair holds at position j, and what the verifier   *)
(* has there when it climbs from x at position d.                          *)
OwnAt(kp, i, j)        == Lite!ChainStep(kp.seed, kp.adrs, i, 0, j, kp.sk[i])
SeenAt(kp, i, d, x, j) == Lite!ChainStep(kp.seed, kp.adrs, i, d, j - d, x)

(* The accidents of the hash that a forgery of WOTS needs: on what arrived *)
(* the verifier comes from a value that is not the chain's to one that is, *)
(* or a chain of the key holds one value twice.                            *)
Accident ==
    LET e == Lite!MsgToChains(message.text[1])
    IN  /\ Len(signature) = Lite!LEN
        /\ \E i \in 1 .. Lite!LEN :
              \/ \E j \in e[i] .. W - 2 :
                    /\ SeenAt(key.pair, i, e[i], signature[i], j) # OwnAt(key.pair, i, j)
                    /\ SeenAt(key.pair, i, e[i], signature[i], j + 1)
                          = OwnAt(key.pair, i, j + 1)
              \/ \E a, b \in 0 .. W - 1 :
                    a < b /\ OwnAt(key.pair, i, a) = OwnAt(key.pair, i, b)

(* Of a WOTS signature either the message or the parts were changed.       *)
TouchedInv ==
    key # Nothing /\ key.scheme = "WOTS" /\ signed # Nothing =>
        /\ message = signed.message \/ signature = signed.signature
        /\ \E S : signature \in Seq(S)
        /\ \E S : signed.signature \in Seq(S)

(* Chain points are a sequence.                                            *)
LEMMA PointsAre ==
    ASSUME NEW seed, NEW adrs, NEW sk, NEW m
    PROVE  /\ Lite!LEN \in Nat
           /\ \E S : Lite!ChainPoints(seed, adrs, sk, m) \in Seq(S)
           /\ Len(Lite!ChainPoints(seed, adrs, sk, m)) = Lite!LEN
           /\ \A i \in 1 .. Lite!LEN :
                 Lite!ChainPoints(seed, adrs, sk, m)[i]
                    = Lite!ChainStep(seed, adrs, i, 0, Lite!MsgToChains(m)[i], sk[i])
<1> DEFINE s == Lite!ChainPoints(seed, adrs, sk, m)
           S == {s[i] : i \in 1 .. Lite!LEN}
<1>1. Lite!LEN \in Nat
  BY Sizes DEF Lite!LEN, LEN_1
<1>2. s = [i \in 1 .. Lite!LEN |-> Lite!ChainStep(seed, adrs, i, 0, Lite!MsgToChains(m)[i], sk[i])]
  BY DEF Lite!ChainPoints
<1> HIDE DEF s
<1>3. s \in [1 .. Lite!LEN -> S]
  BY <1>2
<1>4. s \in Seq(S) /\ Len(s) = Lite!LEN
  BY <1>1, <1>3, FunctionIsSeq
<1>. QED  BY <1>1, <1>2, <1>4 DEF s

(* The channel changes one of the two, and leaves a sequence.              *)
LEMMA TouchedStep ==
    ASSUME SigInv, TouchedInv, [Next]_vars
    PROVE  TouchedInv'
<1>1. ASSUME NEW scheme \in Scheme, NEW seed \in Seed, Generate(scheme, seed)
      PROVE  TouchedInv'
  BY <1>1 DEF SigInv, Generate, TouchedInv
<1>2. ASSUME key # Nothing, NEW m \in Messages(key.scheme), Sign(m)
      PROVE  TouchedInv'
  <2> SUFFICES ASSUME key.scheme = "WOTS" PROVE TouchedInv'
    BY <1>2 DEF Sign, TouchedInv
  <2>1. /\ message' = m /\ signature' = SignatureOn(key, m) /\ key' = key
        /\ signed' = [message |-> m, signature |-> SignatureOn(key, m)]
    BY <1>2 DEF Sign
  <2>2. SignatureOn(key, m)
           = Lite!ChainPoints(key.pair.seed, key.pair.adrs, key.pair.sk, m.text[1])
    BY DEF SignatureOn, Lite!WotsSign
  <2>3. \E S : SignatureOn(key, m) \in Seq(S)
    BY <2>2, PointsAre
  <2>. QED  BY <2>1, <2>3 DEF TouchedInv
<1>3. ASSUME InTransit, message' = message, UNCHANGED <<key, signed>>,
             \A S : signature \in Seq(S) => \E T : signature' \in Seq(T)
      PROVE  TouchedInv'
  BY <1>3 DEF TouchedInv, InTransit, Untouched
<1>4. ASSUME NEW i \in 1 .. Len(signature), AlterPart(i)
      PROVE  TouchedInv'
  <2> DEFINE x == (signature[i] + 1) % 2^(8 * N)
  <2>1. signature' = [signature EXCEPT ![i] = x]
    BY <1>4 DEF AlterPart
  <2> HIDE DEF x
  <2>2. ASSUME NEW S, signature \in Seq(S)
        PROVE  signature' \in Seq(S \union {x})
    <3>1. Len(signature) \in Nat /\ signature \in [1 .. Len(signature) -> S]
      BY <2>2, LenProperties
    <3>2. signature' \in [1 .. Len(signature) -> S \union {x}]
      BY <2>1, <3>1
    <3>. QED  BY <3>1, <3>2, FunctionIsSeq
  <2>3. \A S : signature \in Seq(S) => \E T : signature' \in Seq(T)
    BY <2>2
  <2>. QED  BY <1>3, <1>4, <2>3 DEF AlterPart
<1>5. CASE ChangeLength
  <2>1. ASSUME NEW S, signature \in Seq(S)
        PROVE  signature' \in Seq(S \union {0})
    <3>1. CASE signature' = Append(signature, 0)
      <4>1. signature \in Seq(S \union {0})
        BY <2>1
      <4>. QED  BY <3>1, <4>1
    <3>2. CASE signature' = SubSeq(signature, 1, Len(signature) - 1)
      <4>1. signature \in Seq(S \union {0})
        BY <2>1
      <4>. QED  BY <3>2, <4>1
    <3>. QED  BY <1>5, <3>1, <3>2 DEF ChangeLength
  <2>2. \A S : signature \in Seq(S) => \E T : signature' \in Seq(T)
    BY <2>1
  <2>. QED  BY <1>3, <1>5, <2>2 DEF ChangeLength
<1>6. ASSUME NEW m, Redirect(m) PROVE TouchedInv'
  BY <1>6 DEF Redirect, InTransit, Untouched, TouchedInv
<1>7. CASE Verify \/ UNCHANGED vars
  BY <1>7 DEF Verify, vars, TouchedInv
<1>. QED  BY <1>1, <1>2, <1>4, <1>5, <1>6, <1>7 DEF Next

(* Without such an accident the verifier has the chain's own values on the *)
(* whole way from the top down to where it started.                        *)
LEMMA DownTheChain ==
    ASSUME NEW kp, NEW i, NEW x, NEW n \in Nat, NEW d \in 0 .. n,
           SeenAt(kp, i, d, x, n) = OwnAt(kp, i, n),
           \A j \in d .. n - 1 : SeenAt(kp, i, d, x, j + 1) = OwnAt(kp, i, j + 1)
                                    => SeenAt(kp, i, d, x, j) = OwnAt(kp, i, j)
    PROVE  x = OwnAt(kp, i, d)
<1> DEFINE F == {j \in d .. n : SeenAt(kp, i, d, x, j) = OwnAt(kp, i, j)}
<1>1. F # {} /\ F \in SUBSET Nat
  OBVIOUS
<1>2. PICK j \in F : \A k \in F : j <= k
  <2> HIDE DEF F
  <2>. QED  BY <1>1, LeastNumber
<1>3. j \in d .. n /\ SeenAt(kp, i, d, x, j) = OwnAt(kp, i, j)
  OBVIOUS
<1>4. j = d
  <2> SUFFICES ASSUME j # d PROVE FALSE
    OBVIOUS
  <2>1. j - 1 \in d .. n - 1 /\ j - 1 \in d .. n /\ (j - 1) + 1 = j /\ ~ (j <= j - 1)
    BY <1>3
  <2>2. SeenAt(kp, i, d, x, j - 1) = OwnAt(kp, i, j - 1)
    BY <1>3, <2>1
  <2>. QED  BY <1>2, <2>1, <2>2
<1>5. SeenAt(kp, i, d, x, d) = x
  <2>1. d \in Nat /\ d - d = 0 /\ 0 \in Nat
    OBVIOUS
  <2>2. PICK f : Steps(f, kp.seed, kp.adrs, i, d, 0, x)
    BY <2>1, ClimbSteps
  <2>. QED  BY <2>1, <2>2 DEF Steps, SeenAt
<1>. QED  BY <1>3, <1>4, <1>5

(* A WOTS signature that was changed, or that arrives with another digest, *)
(* is refused unless there is such an accident.                            *)
LEMMA WotsRejected ==
    ASSUME SigInv, TouchedInv, key # Nothing, key.scheme = "WOTS", ~Accident,
           verdict # "none", ~Untouched
    PROVE  verdict # "true"
<1> SUFFICES ASSUME verdict = "true" PROVE FALSE
  OBVIOUS
<1>1. PICK seed \in Seed : key = [scheme |-> "WOTS", seed |-> seed, pair |-> KeyPair("WOTS", seed)]
  BY DEF SigInv
<1> DEFINE a == Lite!BuildAdrs(0, 0, 0, 5)
           sk == [i \in 1 .. Lite!LEN |-> Sha(<<seed + 1, 1, i - 1>>)]
           kp == key.pair
           v == message.text[1]
           w == signed.message.text[1]
           e == Lite!MsgToChains(v)
           d == Lite!MsgToChains(w)
<1>2. kp = [seed |-> seed, adrs |-> a, sk |-> sk, pk |-> Lite!ChainTops(seed, a, sk)]
  BY <1>1 DEF KeyPair, Lite!WotsKeygen
<1> HIDE DEF a, sk, kp, v, w, e, d
<1>3. kp.pk = [i \in 1 .. Lite!LEN |-> OwnAt(kp, i, W - 1)]
  BY <1>2 DEF Lite!ChainTops, OwnAt, W
<1>4. signed # Nothing
  BY DEF SigInv
<1>5. /\ Len(signature) = Lite!LEN
      /\ \A i \in 1 .. Lite!LEN : SeenAt(kp, i, e[i], signature[i], W - 1) = kp.pk[i]
  <2>1. Lite!WotsVerify(kp.seed, kp.adrs, v, signature, kp.pk) = "true"
    BY DEF SigInv, Verdict, kp, v
  <2>. QED  BY <2>1 DEF Lite!WotsVerify, SeenAt, W, e
<1>6. /\ message \in Messages("WOTS") \union Redirected("WOTS")
      /\ signed.message \in Messages("WOTS")
      /\ signed.signature = Lite!ChainPoints(kp.seed, kp.adrs, kp.sk, w)
  BY <1>4 DEF SigInv, SignatureOn, Lite!WotsSign, w, kp
<1>7. /\ message = [ctx |-> <<>>, text |-> <<v>>] /\ v \in Lite!Value
      /\ signed.message = [ctx |-> <<>>, text |-> <<w>>] /\ w \in Lite!Value
  <2>1. message = [ctx |-> <<>>, text |-> <<v>>] /\ v \in Lite!Value
    BY <1>6, WotsMessages DEF v
  <2>2. signed.message = [ctx |-> <<>>, text |-> <<w>>] /\ w \in Lite!Value
    BY <1>6, WotsMessages DEF w
  <2>. QED  BY <2>1, <2>2
<1>8. /\ Lite!LEN = LEN_1 + LEN_2 /\ Lite!LEN \in Nat
      /\ W - 1 \in Nat /\ (W - 1) - 1 = W - 2
  BY Sizes DEF Lite!LEN, LEN_1
<1>9. \A i \in 1 .. Lite!LEN : e[i] \in 0 .. W - 1 /\ d[i] \in 0 .. W - 1
  <2>1. v \in Nat /\ w \in Nat
    BY <1>7 DEF Lite!Value
  <2>2. e \in Seq(0 .. W - 1) /\ Len(e) = Lite!LEN /\ d \in Seq(0 .. W - 1) /\ Len(d) = Lite!LEN
    BY <1>8, <2>1, ChainsShape DEF e, d
  <2>. QED  BY <2>2, ElementOfSeq
<1>10. ASSUME NEW i \in 1 .. Lite!LEN
       PROVE  signature[i] = OwnAt(kp, i, e[i])
  <2>1. \A j \in e[i] .. (W - 1) - 1 :
           SeenAt(kp, i, e[i], signature[i], j + 1) = OwnAt(kp, i, j + 1)
              => SeenAt(kp, i, e[i], signature[i], j) = OwnAt(kp, i, j)
    BY <1>5, <1>8 DEF Accident, kp, e, v
  <2>2. SeenAt(kp, i, e[i], signature[i], W - 1) = OwnAt(kp, i, W - 1)
    BY <1>3, <1>5
  <2>. QED  BY <1>8, <1>9, <2>1, <2>2, DownTheChain
<1>11. /\ Len(signed.signature) = Lite!LEN
       /\ \A i \in 1 .. Lite!LEN : signed.signature[i] = OwnAt(kp, i, d[i])
  BY <1>6, PointsAre DEF OwnAt, d
<1>12. CASE message = signed.message
  <2>1. v = w /\ signature # signed.signature
    BY <1>12 DEF v, w, Untouched
  <2>2. \A i \in 1 .. Lite!LEN : signature[i] = signed.signature[i]
    BY <1>10, <1>11, <2>1 DEF e, d
  <2>3. /\ \E S : signature \in Seq(S)
        /\ \E S : signed.signature \in Seq(S)
    BY <1>4 DEF TouchedInv
  <2>4. /\ signature = [i \in 1 .. Lite!LEN |-> signature[i]]
        /\ signed.signature = [i \in 1 .. Lite!LEN |-> signed.signature[i]]
    BY <1>5, <1>11, <2>3
  <2>. QED  BY <2>1, <2>2, <2>4
<1>13. CASE message # signed.message
  <2>1. signature = signed.signature
    BY <1>4, <1>13 DEF TouchedInv
  <2>2. v # w
    BY <1>7, <1>13
  <2>3. PICK i \in DOMAIN d : e[i] < d[i]
    BY <1>7, <2>2, SomeDigitBelow DEF e, d
  <2>4. i \in 1 .. Lite!LEN
    <3>1. w \in Nat
      BY <1>7 DEF Lite!Value
    <3>2. d \in Seq(0 .. W - 1) /\ Len(d) = Lite!LEN
      BY <1>8, <3>1, ChainsShape DEF d
    <3>. QED  BY <3>2
  <2>5. OwnAt(kp, i, e[i]) = OwnAt(kp, i, d[i])
    BY <1>10, <1>11, <2>1, <2>4
  <2>. QED  BY <1>5, <1>9, <2>3, <2>4, <2>5 DEF Accident, kp
<1>. QED  BY <1>12, <1>13

(* What was changed on the way of a WOTS signature, a part, the length or  *)
(* the digest, is refused, unless the hash meets the chains of the key by  *)
(* accident. A forgery by altering or redirecting needs such a collision.  *)
THEOREM WotsRejectsHolds ==
    Spec => [](key # Nothing /\ key.scheme = "WOTS" /\ ~Accident => Rejects)
<1>1. Init => TouchedInv
  BY DEF Init, TouchedInv
<1>2. SigInv /\ TouchedInv /\ [Next]_vars => TouchedInv'
  BY TouchedStep
<1>3. SigInv /\ TouchedInv
         => (key # Nothing /\ key.scheme = "WOTS" /\ ~Accident => Rejects)
  BY WotsRejected DEF Rejects
<1>. QED  BY <1>1, <1>2, <1>3, SignaturesInvariance, PTL DEF Spec
=============================================================================
