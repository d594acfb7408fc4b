--------------------------- MODULE LiteAgreement ---------------------------
(***************************************************************************)
(* The TypeScript verifiers of WOTS and SLH-DSA-LITE accept what the Move  *)
(* verifiers accept, for every size of hashes, digits and trees that       *)
(* SignaturesAssumption allows and every hash of N bytes (HashFits).       *)
(*                                                                         *)
(* The two are different programs.  The reference verifiers are loops over *)
(* a running state (a read position, an address buffer that is overwritten *)
(* word by word, an index that is halved, tree and leaf carried from layer *)
(* to layer); the definitions of the Move verifiers say what is computed   *)
(* at each position.  The argument is one induction per loop: after j      *)
(* rounds the state is the one the position determines, what the buffer    *)
(* holds are the words the other program puts together anew, and so both   *)
(* hash the same words.  Loops are folds here, and FoldTable (section 8 of *)
(* DataTheorems) gives their rounds.                                       *)
(*                                                                         *)
(* From the parts to the whole: digits and checksum, a chain, a one-time   *)
(* public key, a path, a layer, the hypertree, a forest, the digest, and   *)
(* the verifiers.  What arrives may be any sequence, so the lemmas assume  *)
(* no more of a signature's parts than their number, which both verifiers  *)
(* test first.                                                             *)
(***************************************************************************)
EXTENDS SignaturesProofs

-----------------------------------------------------------------------------
(* 1. WOTS: digits, chains, the verifier.                                  *)

(* The digit of a byte is a digit of the number the byte is in.            *)
LEMMA DigitOfByte ==
    ASSUME NEW v \in Nat, NEW w \in Nat, NEW i \in 1 .. w, NEW j \in 1 .. Per
    PROVE  /\ 8 - j * LG_W \in Nat
           /\ (((v \div 2^(8 * (w - i))) % 256) \div 2^(8 - j * LG_W)) % W
                 = Digit(v, 8 * w, LG_W, (i - 1) * Per + j)
<1>1. Per \in Nat \ {0} /\ Per * LG_W = 8 /\ LG_W \in Nat \ {0} /\ W = 2^LG_W
  BY PerByte, Sizes
<1> DEFINE p == j * LG_W
           a == 8 * (w - i)
           e == 8 - p
           y == v \div 2^a
<1>2. p \in Nat /\ p <= 8 /\ LG_W <= p
  <2>1. \A x, z \in Nat, g \in Nat : x <= z => x * g <= z * g
    OBVIOUS
  <2>2. 1 * LG_W <= j * LG_W /\ j * LG_W <= Per * LG_W /\ j * LG_W \in Nat
    BY <1>1, <2>1
  <2>. QED  BY <1>1, <2>2
<1>3. ((i - 1) * Per + j) * LG_W = (i - 1) * 8 + p
  <2>1. ((i - 1) * Per + j) * LG_W = (i - 1) * (Per * LG_W) + j * LG_W
    BY <1>1
  <2>. QED  BY <1>1, <2>1
<1> HIDE DEF p
<1>4. a \in Nat /\ e \in Nat /\ 8 * w - ((i - 1) * Per + j) * LG_W = a + e
  BY <1>2, <1>3
<1>5. e + LG_W <= 8
  BY <1>1, <1>2
<1> HIDE DEF a, e
<1>6. 2^(a + e) = 2^a * 2^e /\ 2^a \in Nat \ {0} /\ 2^e \in Nat \ {0}
  BY <1>4, PowAdd, PowNat
<1>7. v \div (2^a * 2^e) = (v \div 2^a) \div 2^e /\ y \in Nat
  BY <1>6, Split
<1> HIDE DEF y
<1>8. ((y % 256) \div 2^e) % 2^LG_W = (y \div 2^e) % 2^LG_W
  <2>1. PICK h \in Nat : h = 8
    OBVIOUS
  <2>2. e + LG_W <= h /\ LG_W \in Nat /\ e \in Nat /\ y \in Nat
    BY <1>1, <1>4, <1>5, <1>7, <2>1
  <2>3. ((y % 2^h) \div 2^e) % 2^LG_W = (y \div 2^e) % 2^LG_W
    <3>1. \A a1, b1, c1, d1 \in Nat :
            b1 + c1 <= d1 => ((a1 % 2^d1) \div 2^b1) % 2^c1 = (a1 \div 2^b1) % 2^c1
      BY LowBits
    <3>. QED  BY <2>2, <3>1
  <2>4. 2^h = 256
    BY <2>1
  <2>. QED  BY <2>3, <2>4, Zenon
<1>. QED  BY <1>1, <1>4, <1>6, <1>7, <1>8 DEF Digit, a, e, y, p

(* Byte for byte and digit for digit the same digits are read.             *)
LEMMA NibblesAre ==
    ASSUME NEW v \in Nat, NEW w \in Nat \ {0}
    PROVE  /\ LiteRef!Nibbles(v, w) \in Seq(Nat) /\ Len(LiteRef!Nibbles(v, w)) = w * Per
           /\ \A k \in 1 .. w * Per : LiteRef!Nibbles(v, w)[k] = Digit(v, 8 * w, LG_W, k)
<1> DEFINE d(i, j) == (((v \div 2^(8 * (w - i))) % 256) \div 2^(8 - j * LG_W)) % W
           row(i) == [j \in 1 .. Per |-> d(i, j)]
           s == [i \in 1 .. w |-> row(i)]
           q == Ext!FlattenSeq(s)
<1>1. LiteRef!Nibbles(v, w) = q
  <2>1. LiteRef!Nibbles(v, w) = LiteRef!FlattenSeq(s)
    BY DEF LiteRef!Nibbles, LiteRef!W, W, Lite!W, Per
  <2> HIDE DEF s
  <2>2. \A x : LiteRef!FlattenSeq(x) = Ext!FlattenSeq(x)
    BY DEF LiteRef!FlattenSeq, Ext!FlattenSeq
  <2>. QED  BY <2>1, <2>2
<1>2. \A i \in 1 .. w, j \in 1 .. Per :
          /\ d(i, j) = Digit(v, 8 * w, LG_W, (i - 1) * Per + j)
          /\ d(i, j) \in Nat
  <2> SUFFICES ASSUME NEW i \in 1 .. w, NEW j \in 1 .. Per
               PROVE  /\ d(i, j) = Digit(v, 8 * w, LG_W, (i - 1) * Per + j)
                      /\ d(i, j) \in Nat
    OBVIOUS
  <2>1. /\ d(i, j) = Digit(v, 8 * w, LG_W, (i - 1) * Per + j)
        /\ 8 - j * LG_W \in Nat
    BY DigitOfByte
  <2>2. 8 * (w - i) \in Nat
    OBVIOUS
  <2> DEFINE a == 2^(8 * (w - i))
             b == 2^(8 - j * LG_W)
  <2>3. a \in Nat \ {0} /\ b \in Nat \ {0} /\ W \in Nat \ {0}
    BY <2>1, <2>2, PowNat, Sizes
  <2>4. d(i, j) = (((v \div a) % 256) \div b) % W
    OBVIOUS
  <2> HIDE DEF a, b, d
  <2>5. (v \div a) % 256 \in Nat
    BY <2>3, Split
  <2>6. (((v \div a) % 256) \div b) \in Nat
    BY <2>3, <2>5, Split
  <2>7. (((v \div a) % 256) \div b) % W \in Nat
    BY <2>3, <2>6
  <2>. QED  BY <2>1, <2>4, <2>7
<1> HIDE DEF d
<1>3. Per \in Nat \ {0}
  BY PerByte
<1>4. \A i \in 1 .. w : row(i) \in Seq(Nat) /\ Len(row(i)) = Per
                         /\ \A j \in 1 .. Per : row(i)[j] = d(i, j)
  <2> SUFFICES ASSUME NEW i \in 1 .. w
               PROVE  row(i) \in Seq(Nat) /\ Len(row(i)) = Per
                         /\ \A j \in 1 .. Per : row(i)[j] = d(i, j)
    OBVIOUS
  <2>1. row(i) \in [1 .. Per -> Nat]
    BY <1>2
  <2>2. \A j \in 1 .. Per : row(i)[j] = d(i, j)
    OBVIOUS
  <2> HIDE DEF row
  <2>. QED  BY <1>3, <2>1, <2>2, FunctionIsSeq
<1> HIDE DEF row
<1>5. s \in [1 .. w -> Seq(Nat)] /\ \A i \in 1 .. w : s[i] = row(i)
  BY <1>4
<1> HIDE DEF s
<1>6. s \in Seq(Seq(Nat)) /\ Len(s) = w
  BY <1>5, FunctionIsSeq
<1>7. \A i \in 1 .. w : Len(s[i]) = Per
  BY <1>4, <1>5
<1>8. q \in Seq(Nat) /\ Len(q) = w * Per /\ InBlocks(q, s, w, Per)
  BY <1>3, <1>6, <1>7, FlattenBlocks
<1> HIDE DEF q
<1>9. ASSUME NEW k \in 1 .. w * Per
      PROVE  q[k] = Digit(v, 8 * w, LG_W, k)
  <2>1. PICK i \in 1 .. w, j \in 1 .. Per : k = (i - 1) * Per + j
    <3> DEFINE a == (k - 1) \div Per
               b == (k - 1) % Per
    <3>1. w \in Nat
      OBVIOUS
    <3>2. a + 1 \in 1 .. w /\ b + 1 \in 1 .. Per /\ k = a * Per + (b + 1)
      BY <1>3, <3>1, InBlock, Zenon
    <3>3. a \in Nat
      BY <1>3
    <3> HIDE DEF a, b
    <3>4. a = (a + 1) - 1
      BY <3>3
    <3>. QED  BY <3>2, <3>4, Zenon
  <2>2. q[(i - 1) * Per + j] = s[i][j]
    BY <1>8 DEF InBlocks
  <2>3. s[i][j] = Digit(v, 8 * w, LG_W, (i - 1) * Per + j)
    BY <1>2, <1>4, <1>5
  <2>. QED  BY <2>1, <2>2, <2>3
<1>. QED  BY <1>1, <1>8, <1>9

(* A chain climbed in a loop is the chain climbed by recursion.            *)
LEMMA RefChain ==
    ASSUME HashFits, NEW seed, NEW adrs, NEW i, NEW start \in Nat, NEW n \in Nat, NEW v
    PROVE  LiteRef!chainStep(seed, adrs, i, start, n, v)
              = Lite!ChainStep(seed, adrs, i, start, n, v)
<1> DEFINE L == LiteRef!Loop(n)
           E(x, y) == LiteRef!ChainHash(seed, [[adrs EXCEPT !.type = LiteRef!WOTS_HASH, !.chain = i - 1]
                                              EXCEPT !.hash = start + y - 1], <<x>>)
           It(iter) == iter = [s \in SUBSET DOMAIN L |->
                          IF s = {} THEN v
                          ELSE E(iter[s \ {LiteRef!Max(s)}], L[LiteRef!Max(s)])]
           c == CHOOSE iter : It(iter)
           S == V \union {v}
           G == [j \in 1 .. n |-> [x \in S |-> E(x, L[j])]]
<1>1. LiteRef!chainStep(seed, adrs, i, start, n, v) = c[DOMAIN L]
  BY Zenon DEF LiteRef!chainStep, LiteRef!FoldLeft, LiteRef!MapThenFoldSet
<1>2. DOMAIN L = 1 .. n /\ \A j \in 1 .. n : L[j] = j
  BY DEF LiteRef!Loop
<1>3. \A s : LiteRef!Max(s) = Top(s)
  BY Zenon DEF LiteRef!Max, Top
<1>4. \A j \in 1 .. n : \A x \in S : E(x, L[j]) \in S
  BY DEF LiteRef!ChainHash, HashFits
<1>5. v \in S /\ n \in Nat
  OBVIOUS
<1>0. \A j, x : E(x, j) = Link(seed, adrs, i, start + j - 1, x)
  BY DEF Link, LiteRef!ChainHash, Lite!ChainHash, LiteRef!WOTS_HASH, Lite!WOTS_HASH
<1> HIDE DEF E, L, S
<1>6. \A j \in 1 .. n : \A x \in S : G[j][x] = E(x, L[j])
  OBVIOUS
<1>7. PICK t : FoldTable(t, S, n, v, G)
  <2>1. ClosedUnder(S, 0, n, G)
    BY <1>4, <1>6 DEF ClosedUnder
  <2> HIDE DEF G
  <2>. QED  BY <1>5, <2>1, FoldTableExists
<1> HIDE DEF G
<1>8. It(t)
  <2>1. ASSUME NEW s \in SUBSET (1 .. n)
        PROVE  t[s] = IF s = {} THEN v
                      ELSE E(t[s \ {LiteRef!Max(s)}], L[LiteRef!Max(s)])
    <3>1. CASE s = {}
      BY <1>7, <3>1 DEF FoldTable
    <3>2. CASE s # {}
      <4>1. Top(s) \in 1 .. n /\ s \ {Top(s)} \in SUBSET (1 .. n)
        BY <1>5, <3>2, TopIs
      <4>2. t[s] = G[Top(s)][t[s \ {Top(s)}]] /\ t[s \ {Top(s)}] \in S
        BY <1>7, <3>2, <4>1 DEF FoldTable
      <4>. QED  BY <1>3, <1>6, <3>2, <4>1, <4>2
    <3>. QED  BY <3>1, <3>2
  <2>2. t = [s \in SUBSET DOMAIN L |-> t[s]]
    BY <1>2, <1>7 DEF FoldTable
  <2>. QED  BY <1>2, <2>1, <2>2
<1>9. It(c)
  <2> HIDE DEF It
  <2>. QED  BY <1>8
<1> HIDE DEF c
<1>10. /\ c[{}] = v
       /\ \A j \in 1 .. n : c[1 .. j] = E(c[1 .. j - 1], L[j])
  <2>1. \A s \in SUBSET (1 .. n) :
           c[s] = IF s = {} THEN v ELSE E(c[s \ {Top(s)}], L[Top(s)])
    BY <1>2, <1>3, <1>9
  <2>2. {} \in SUBSET (1 .. n)
    OBVIOUS
  <2>3. ASSUME NEW j \in 1 .. n PROVE c[1 .. j] = E(c[1 .. j - 1], L[j])
    <3>1. 1 .. j \in SUBSET (1 .. n) /\ 1 .. j # {} /\ Top(1 .. j) = j
          /\ (1 .. j) \ {j} = 1 .. j - 1
      BY <1>5, TopIs
    <3>. QED  BY <2>1, <3>1, Zenon
  <2>. QED  BY <2>1, <2>2, <2>3
<1>11. PICK f : Steps(f, seed, adrs, i, start, n, v)
  BY ClimbSteps
<1> DEFINE X == {j \in 0 .. n : c[1 .. j] = f[j]}
<1>12. 0 \in X /\ 0 \in Nat
  <2>1. 1 .. 0 = {}
    OBVIOUS
  <2>. QED  BY <1>10, <1>11, <2>1 DEF Steps
<1>13. \A j \in 0 + 1 .. n : j - 1 \in X => j \in X
  <2> SUFFICES ASSUME NEW j \in 1 .. n, c[1 .. j - 1] = f[j - 1]
               PROVE  c[1 .. j] = f[j]
    OBVIOUS
  <2>. QED  BY <1>0, <1>2, <1>10, <1>11 DEF Steps
<1>14. 0 .. n \subseteq X
  <2> HIDE DEF X
  <2>. QED  BY <1>12, <1>13, Upward
<1>15. c[1 .. n] = f[n]
  BY <1>14
<1>. QED  BY <1>1, <1>2, <1>11, <1>15 DEF Steps

(* Adding up digit by digit gives the sum.                                 *)
LEMMA RefSum ==
    ASSUME NEW n \in Nat, NEW d, DOMAIN d = 1 .. n, \A j \in 1 .. n : d[j] \in 0 .. W - 1
    PROVE  LiteRef!FoldLeft(LAMBDA x, y : x + LiteRef!W - 1 - y, 0, d)
              = SumFunctionOnSet([k \in 1 .. n |-> W - 1 - d[k]], 1 .. n)
<1> DEFINE short == [k \in 1 .. n |-> W - 1 - d[k]]
<1>0. LiteRef!W = W /\ W \in Nat \ {0} /\ \A j \in 1 .. n : short[j] = W - 1 - d[j] /\ short[j] \in Nat
  BY Sizes DEF LiteRef!W, W, Lite!W
<1> DEFINE L == d
           E(x, y) == x + LiteRef!W - 1 - y
           It(iter) == iter = [s \in SUBSET DOMAIN L |->
                          IF s = {} THEN 0
                          ELSE E(iter[s \ {LiteRef!Max(s)}], L[LiteRef!Max(s)])]
           c == CHOOSE iter : It(iter)
           S == Nat
           G == [j \in 1 .. n |-> [x \in S |-> E(x, L[j])]]
<1>1. LiteRef!FoldLeft(LAMBDA x, y : x + LiteRef!W - 1 - y, 0, d) = c[DOMAIN L]
  BY Zenon DEF LiteRef!FoldLeft, LiteRef!MapThenFoldSet
<1>2. DOMAIN L = 1 .. n
  OBVIOUS
<1>3. \A s : LiteRef!Max(s) = Top(s)
  BY Zenon DEF LiteRef!Max, Top
<1>4. \A j \in 1 .. n : \A x \in S : E(x, L[j]) \in S
  <2> SUFFICES ASSUME NEW j \in 1 .. n, NEW x \in Nat PROVE x + LiteRef!W - 1 - d[j] \in Nat
    OBVIOUS
  <2>1. d[j] \in 0 .. W - 1
    OBVIOUS
  <2>. QED  BY <1>0, <2>1
<1>5. 0 \in S /\ n \in Nat
  OBVIOUS
<1>11. \A j \in 1 .. n : \A x \in Nat : E(x, L[j]) = x + short[j]
  <2> SUFFICES ASSUME NEW j \in 1 .. n, NEW x \in Nat
               PROVE  x + LiteRef!W - 1 - d[j] = x + short[j]
    OBVIOUS
  <2>1. d[j] \in 0 .. W - 1
    OBVIOUS
  <2> HIDE DEF short
  <2>. QED  BY <1>0, <2>1
<1> HIDE DEF E, L, S, short
<1>6. \A j \in 1 .. n : \A x \in S : G[j][x] = E(x, L[j])
  OBVIOUS
<1>7. PICK t : FoldTable(t, S, n, 0, G)
  <2>1. ClosedUnder(S, 0, n, G)
    BY <1>4, <1>6 DEF ClosedUnder
  <2> HIDE DEF G
  <2>. QED  BY <1>5, <2>1, FoldTableExists
<1> HIDE DEF G
<1>8. It(t)
  <2>1. ASSUME NEW s \in SUBSET (1 .. n)
        PROVE  t[s] = IF s = {} THEN 0
                      ELSE E(t[s \ {LiteRef!Max(s)}], L[LiteRef!Max(s)])
    <3>1. CASE s = {}
      BY <1>7, <3>1 DEF FoldTable
    <3>2. CASE s # {}
      <4>1. Top(s) \in 1 .. n /\ s \ {Top(s)} \in SUBSET (1 .. n)
        BY <1>5, <3>2, TopIs
      <4>2. t[s] = G[Top(s)][t[s \ {Top(s)}]] /\ t[s \ {Top(s)}] \in S
        BY <1>7, <3>2, <4>1 DEF FoldTable
      <4>. QED  BY <1>3, <1>6, <3>2, <4>1, <4>2
    <3>. QED  BY <3>1, <3>2
  <2>2. t = [s \in SUBSET DOMAIN L |-> t[s]]
    BY <1>2, <1>7 DEF FoldTable
  <2>. QED  BY <1>2, <2>1, <2>2
<1>9. It(c)
  <2> HIDE DEF It
  <2>. QED  BY <1>8
<1> HIDE DEF c
<1>10. /\ c[{}] = 0
       /\ \A j \in 1 .. n : c[1 .. j] = E(c[1 .. j - 1], L[j])
  <2>1. \A s \in SUBSET (1 .. n) :
           c[s] = IF s = {} THEN 0 ELSE E(c[s \ {Top(s)}], L[Top(s)])
    BY <1>2, <1>3, <1>9
  <2>2. {} \in SUBSET (1 .. n)
    OBVIOUS
  <2>3. ASSUME NEW j \in 1 .. n PROVE c[1 .. j] = E(c[1 .. j - 1], L[j])
    <3>1. 1 .. j \in SUBSET (1 .. n) /\ 1 .. j # {} /\ Top(1 .. j) = j
          /\ (1 .. j) \ {j} = 1 .. j - 1
      BY <1>5, TopIs
    <3>. QED  BY <2>1, <3>1, Zenon
  <2>. QED  BY <2>1, <2>2, <2>3
<1> DEFINE X == {j \in 0 .. n : c[1 .. j] = SumFunctionOnSet(short, 1 .. j)}
<1>12. 0 \in X /\ 0 \in Nat
  <2>1. 1 .. 0 = {}
    OBVIOUS
  <2>. QED  BY <1>10, <2>1, SumEmpty
<1>13. \A j \in 0 + 1 .. n : j - 1 \in X => j \in X
  <2> SUFFICES ASSUME NEW j \in 1 .. n, c[1 .. j - 1] = SumFunctionOnSet(short, 1 .. j - 1)
               PROVE  c[1 .. j] = SumFunctionOnSet(short, 1 .. j)
    OBVIOUS
  <2>0. \A k \in Nat : IsFiniteSet(1 .. k)
    BY FS_Interval
  <2>1. IsFiniteSet(1 .. j) /\ IsFiniteSet(1 .. j - 1) /\ j \in 1 .. j
        /\ (1 .. j) \ {j} = 1 .. j - 1
    <3>1. j \in Nat /\ j - 1 \in Nat
      OBVIOUS
    <3>. QED  BY <2>0, <3>1
  <2>2. \A k \in 1 .. j : short[k] \in Nat
    BY <1>0
  <2>3. SumFunctionOnSet(short, 1 .. j) = short[j] + SumFunctionOnSet(short, 1 .. j - 1)
    <3>1. SumFunctionOnSet(short, 1 .. j)
             = short[j] + SumFunctionOnSet(short, (1 .. j) \ {j})
      BY <2>1, <2>2, SumTakeOut
    <3>. QED  BY <2>1, <3>1
  <2>4. SumFunctionOnSet(short, 1 .. j - 1) \in Nat
    <3>1. \A k \in 1 .. j - 1 : short[k] \in Nat
      BY <2>2
    <3>. QED  BY <2>1, <3>1, SumNat
  <2>5. c[1 .. j] = SumFunctionOnSet(short, 1 .. j - 1) + short[j]
    BY <1>10, <1>11, <2>4
  <2>6. short[j] \in Nat
    BY <1>0
  <2>. QED  BY <2>3, <2>4, <2>5, <2>6
<1>14. 0 .. n \subseteq X
  <2> HIDE DEF X
  <2>. QED  BY <1>12, <1>13, Upward
<1>15. c[1 .. n] = SumFunctionOnSet(short, 1 .. n)
  BY <1>14
<1>. QED  BY <1>1, <1>2, <1>15 DEF short, L

(* wots-ref.ts and wots.move read the same digits from a digest, its       *)
(* checksum's included.                                                    *)
LEMMA RefDigits ==
    ASSUME NEW m \in V
    PROVE  \A i \in 1 .. Lite!LEN : LiteRef!msgToChains(m)[i] = Lite!MsgToChains(m)[i]
<1> DEFINE p == LiteRef!Nibbles(m, N)
           x == Csum(m) * 2^Shift
           q == LiteRef!Nibbles(x, Width)
           r == SubSeq(q, 1, LEN_2)
<1>1. m \in Nat /\ N \in Nat \ {0} /\ LEN_1 \in Nat /\ LEN_2 \in Nat /\ Csum(m) \in Nat
  BY Sizes, LiteSizes, ChainsShape
<1>2. N * Per = LEN_1
  BY PerByte, <1>1
<1>3. p \in Seq(Nat) /\ Len(p) = LEN_1 /\ \A i \in 1 .. LEN_1 : p[i] = Msg(m)[i]
  <2>1. p \in Seq(Nat) /\ Len(p) = N * Per
        /\ \A k \in 1 .. N * Per : p[k] = Digit(m, 8 * N, LG_W, k)
    BY <1>1, NibblesAre
  <2>2. \A i \in 1 .. LEN_1 : Msg(m)[i] = Digit(m, 8 * N, LG_W, i)
    BY <1>1, DigitsAre DEF Msg
  <2>. QED  BY <1>2, <2>1, <2>2
<1>4. \A i \in 1 .. LEN_1 : p[i] \in 0 .. W - 1
  <2>1. Msg(m) \in Seq(0 .. W - 1) /\ Len(Msg(m)) = LEN_1
    BY <1>1, ChainsShape
  <2>2. \A i \in 1 .. LEN_1 : Msg(m)[i] \in 0 .. W - 1
    BY <2>1, ElementOfSeq
  <2>. QED  BY <1>3, <2>2
<1>5. DOMAIN p = 1 .. LEN_1
  BY <1>3, LenProperties
<1> HIDE DEF p
<1>6. LiteRef!FoldLeft(LAMBDA a, b : a + LiteRef!W - 1 - b, 0, p) = Csum(m)
  <2>1. LiteRef!FoldLeft(LAMBDA a, b : a + LiteRef!W - 1 - b, 0, p)
           = SumFunctionOnSet([k \in 1 .. LEN_1 |-> W - 1 - p[k]], 1 .. LEN_1)
    BY <1>1, <1>4, <1>5, RefSum
  <2>2. [k \in 1 .. LEN_1 |-> W - 1 - p[k]] = Short(m)
    BY <1>3 DEF Short
  <2>. QED  BY <2>1, <2>2 DEF Csum
<1>7. LiteRef!msgToChains(m) = p \o r
  <2>1. 8 * Width - LEN_2 * LG_W = Shift
    BY Sizes
  <2>2. (LEN_2 * LG_W + 7) \div 8 = Width
    BY DEF Width
  <2>3. LiteRef!msgToChains(m)
           = p \o SubSeq(LiteRef!Nibbles(
                            LiteRef!FoldLeft(LAMBDA a, b : a + LiteRef!W - 1 - b, 0, p)
                               * 2^(8 * Width - LEN_2 * LG_W), Width), 1, LEN_2)
    BY Zenon, <2>2 DEF LiteRef!msgToChains, p
  <2>. QED  BY <1>6, <2>1, <2>3
<1>8. LEN_2 * LG_W <= 8 * Width /\ Width \in Nat \ {0}
  <2>1. LEN_2 * LG_W <= 8 * Width /\ Width \in Nat
    BY Sizes
  <2>2. LEN_2 * LG_W # 0
    <3>1. LEN_1 * (W - 1) < 2^(LEN_2 * LG_W) /\ LEN_1 \in Nat \ {0} /\ W - 1 \in Nat \ {0}
      <4>1. W = 2^LG_W /\ LG_W \in Nat \ {0}
        BY Sizes
      <4>2. PICK k \in Nat : LG_W = k + 1
        BY <4>1
      <4>3. 2^(k + 1) = 2 * 2^k /\ 2^k \in Nat \ {0}
        BY PowStep, PowNat
      <4>4. W - 1 \in Nat \ {0}
        BY <4>1, <4>2, <4>3
      <4>5. LEN_1 # 0
        BY <1>1, <1>2, PerByte
      <4>. QED  BY <1>1, <4>4, <4>5, Sizes
    <3>2. LEN_1 * (W - 1) >= 1
      <4>1. \A a, b \in Nat \ {0} : a * b >= 1
        OBVIOUS
      <4>. QED  BY <3>1, <4>1, Zenon
    <3>3. PICK k \in Nat : k = LEN_2 * LG_W
      BY Sizes
    <3>4. PICK y \in Nat : y = LEN_1 * (W - 1)
      BY <3>1
    <3>5. y < 2^k /\ y >= 1
      BY <3>1, <3>2, <3>3, <3>4
    <3>6. k # 0
      <4> SUFFICES ASSUME k = 0 PROVE FALSE
        OBVIOUS
      <4>1. 2^0 = 1
        OBVIOUS
      <4>2. 2^k = 1
        BY <4>1, Zenon
      <4> DEFINE z == 2^k
      <4>3. y < z /\ z = 1
        BY <3>5, <4>2
      <4> HIDE DEF z
      <4>. QED  BY <3>4, <3>5, <4>3
    <3>. QED  BY <3>3, <3>6
  <2>. QED  BY <2>1, <2>2, Sizes
<1>9. q \in Seq(Nat) /\ Len(q) = Width * Per
      /\ \A k \in 1 .. Width * Per : q[k] = Digit(x, 8 * Width, LG_W, k)
  <2>1. x \in Nat
    <3>1. 2^Shift \in Nat \ {0}
      BY Sizes, PowNat
    <3>. QED  BY <1>1, <3>1
  <2> HIDE DEF x
  <2>. QED  BY <1>8, <2>1, NibblesAre
<1>10. LEN_2 <= Width * Per
  <2>1. Per \in Nat \ {0} /\ Per * LG_W = 8 /\ LG_W \in Nat \ {0} /\ Width \in Nat
    BY PerByte, Sizes
  <2>2. LEN_2 * LG_W <= (Width * Per) * LG_W
    <3>1. (Width * Per) * LG_W = Width * (Per * LG_W)
      BY <2>1
    <3>. QED  BY <1>8, <2>1, <3>1
  <2>3. \A a, b \in Nat, g \in Nat \ {0} : a * g <= b * g => a <= b
    <3> SUFFICES ASSUME NEW a \in Nat, NEW b \in Nat, NEW g \in Nat \ {0}, b < a
                 PROVE  b * g < a * g
      OBVIOUS
    <3>. QED  OBVIOUS
  <2>4. Width * Per \in Nat
    BY <2>1
  <2>. QED  BY <1>1, <2>1, <2>2, <2>3, <2>4
<1>11. x = x % 2^(8 * Width)
  <2> DEFINE s == 2^Shift
             b == 2^(LEN_2 * LG_W)
  <2>1. s \in Nat \ {0} /\ b \in Nat \ {0} /\ Csum(m) < b
    <3>1. Csum(m) <= LEN_1 * (W - 1) /\ LEN_1 * (W - 1) < b /\ LEN_1 * (W - 1) \in Nat
      BY <1>1, Sizes, ChainsShape
    <3>2. s \in Nat \ {0} /\ b \in Nat \ {0}
      BY Sizes, PowNat
    <3>. QED  BY <1>1, <3>1, <3>2
  <2>2. 2^(8 * Width) = b * s
    <3>1. 8 * Width = LEN_2 * LG_W + Shift
      BY Sizes
    <3>2. 2^(LEN_2 * LG_W + Shift) = 2^(LEN_2 * LG_W) * 2^Shift
      BY Sizes, PowAdd
    <3>. QED  BY <3>1, <3>2
  <2>3. x = Csum(m) * s
    OBVIOUS
  <2> HIDE DEF s, b, x
  <2>4. \A y, z \in Nat, g \in Nat \ {0} : y < z => y * g < z * g
    OBVIOUS
  <2>5. x \in Nat /\ b * s \in Nat \ {0} /\ x < b * s
    BY <1>1, <2>1, <2>3, <2>4
  <2>. QED  BY <2>2, <2>5
<1>12. r \in Seq(Nat) /\ Len(r) = LEN_2 /\ \A i \in 1 .. LEN_2 : r[i] = Check(m)[i]
  <2>1. r \in Seq(Nat) /\ Len(r) = LEN_2 /\ \A i \in 1 .. LEN_2 : r[i] = q[i]
    <3> HIDE DEF q
    <3>. QED  BY <1>1, <1>9, <1>10
  <2>2. \A i \in 1 .. LEN_2 : i \in 1 .. Width * Per
    <3>1. Width * Per \in Nat
      BY <1>8, PerByte
    <3>. QED  BY <1>1, <1>10, <3>1
  <2>3. \A i \in 1 .. LEN_2 : Check(m)[i] = Digit(x % 2^(8 * Width), 8 * Width, LG_W, i)
    BY <1>1, DigitsAre DEF Check
  <2> HIDE DEF q, x, r
  <2>. QED  BY <1>9, <1>11, <2>1, <2>2, <2>3
<1> HIDE DEF r
<1>13. /\ \A i \in 1 .. LEN_1 : (p \o r)[i] = Msg(m)[i]
       /\ \A i \in 1 .. LEN_2 : (p \o r)[LEN_1 + i] = Check(m)[i]
  BY <1>3, <1>12, ConcatParts
<1>14. /\ \A i \in 1 .. LEN_1 : Lite!MsgToChains(m)[i] = Msg(m)[i]
       /\ \A i \in 1 .. LEN_2 : Lite!MsgToChains(m)[LEN_1 + i] = Check(m)[i]
  BY <1>1, ChainsShape
<1>15. ASSUME NEW i \in 1 .. Lite!LEN
       PROVE  (p \o r)[i] = Lite!MsgToChains(m)[i]
  <2>1. Lite!LEN = LEN_1 + LEN_2
    BY LiteSizes
  <2>2. CASE i \in 1 .. LEN_1
    BY <1>13, <1>14, <2>2
  <2>3. CASE i > LEN_1
    <3>1. i - LEN_1 \in 1 .. LEN_2 /\ i = LEN_1 + (i - LEN_1)
      BY <1>1, <2>1, <2>3
    <3>. QED  BY <1>13, <1>14, <3>1
  <2>4. i \in 1 .. LEN_1 \/ i > LEN_1
    <3>1. i \in 1 .. LEN_1 + LEN_2
      BY <2>1
    <3>. QED  BY <1>1, <3>1
  <2>. QED  BY <2>2, <2>3, <2>4
<1>. QED  BY <1>7, <1>15

(* So both find the same public key in a signature.                        *)
LEMMA RefPkFromSig ==
    ASSUME HashFits, NEW seed, NEW adrs, NEW m \in V, NEW sig
    PROVE  LiteRef!wotsPkFromSig(seed, adrs, m, sig) = Lite!PkFromSig(seed, adrs, m, sig)
<1>1. LiteRef!LEN = Lite!LEN /\ LiteRef!W = W /\ Lite!W = W
  BY DEF LiteRef!LEN, Lite!LEN, LiteRef!LEN_1, Lite!LEN_1, LiteRef!W, Lite!W, W
<1>2. \A i \in 1 .. Lite!LEN : Lite!MsgToChains(m)[i] \in 0 .. W - 1
  <2>1. m \in Nat
    BY LiteSizes
  <2>2. Lite!MsgToChains(m) \in Seq(0 .. W - 1) /\ Len(Lite!MsgToChains(m)) = Lite!LEN
    BY <2>1, ChainsShape, LiteSizes
  <2>. QED  BY <2>2, ElementOfSeq
<1>3. \A i \in 1 .. Lite!LEN :
         LiteRef!chainStep(seed, adrs, i, LiteRef!msgToChains(m)[i],
                           W - 1 - LiteRef!msgToChains(m)[i], sig[i])
            = Lite!ChainStep(seed, adrs, i, Lite!MsgToChains(m)[i],
                             W - 1 - Lite!MsgToChains(m)[i], sig[i])
  <2> SUFFICES ASSUME NEW i \in 1 .. Lite!LEN
               PROVE  LiteRef!chainStep(seed, adrs, i, LiteRef!msgToChains(m)[i],
                                        W - 1 - LiteRef!msgToChains(m)[i], sig[i])
                         = Lite!ChainStep(seed, adrs, i, Lite!MsgToChains(m)[i],
                                          W - 1 - Lite!MsgToChains(m)[i], sig[i])
    OBVIOUS
  <2> DEFINE d == Lite!MsgToChains(m)[i]
             n == W - 1 - d
  <2>1. d \in Nat /\ n \in Nat
    BY <1>2, Sizes
  <2>2. LiteRef!msgToChains(m)[i] = d
    BY RefDigits
  <2> HIDE DEF d
  <2>3. W - 1 - d = n
    OBVIOUS
  <2> HIDE DEF n
  <2>4. LiteRef!chainStep(seed, adrs, i, d, n, sig[i]) = Lite!ChainStep(seed, adrs, i, d, n, sig[i])
    BY <2>1, RefChain
  <2>. QED  BY <2>2, <2>3, <2>4 DEF d
<1>. QED  BY <1>1, <1>3 DEF LiteRef!wotsPkFromSig, Lite!PkFromSig

(* wotsVerify of wots-ref.ts and verify of wots.move give the same answer. *)
LEMMA RefWots ==
    ASSUME HashFits, NEW seed, NEW adrs, NEW m \in V, NEW sig, NEW sk
    PROVE  LET pk == Lite!ChainTops(seed, adrs, sk)
           IN  (Lite!WotsVerify(seed, adrs, m, sig, pk) = "true")
                  = LiteRef!wotsVerify(seed, adrs, m, sig, pk)
<1> DEFINE pk == Lite!ChainTops(seed, adrs, sk)
           q == Lite!PkFromSig(seed, adrs, m, sig)
<1>1. LiteRef!LEN = Lite!LEN
  BY DEF LiteRef!LEN, Lite!LEN, LiteRef!LEN_1, Lite!LEN_1
<1>2. pk = [i \in 1 .. Lite!LEN |-> pk[i]] /\ q = [i \in 1 .. Lite!LEN |-> q[i]]
  BY DEF Lite!ChainTops, Lite!PkFromSig
<1>3. \A i \in 1 .. Lite!LEN :
         q[i] = Lite!ChainStep(seed, adrs, i, Lite!MsgToChains(m)[i],
                               Lite!W - 1 - Lite!MsgToChains(m)[i], sig[i])
  BY DEF Lite!PkFromSig
<1>4. LiteRef!wotsPkFromSig(seed, adrs, m, sig) = q
  BY RefPkFromSig
<1> HIDE DEF pk, q
<1>5. q = pk <=> \A i \in 1 .. Lite!LEN : q[i] = pk[i]
  BY <1>2
<1>6. Lite!WotsVerify(seed, adrs, m, sig, pk) = "true"
         <=> Len(sig) = Lite!LEN /\ Len(pk) = Lite!LEN /\ q = pk
  BY <1>3, <1>5 DEF Lite!WotsVerify
<1>7. LiteRef!wotsVerify(seed, adrs, m, sig, pk)
         = (Len(sig) = Lite!LEN /\ Len(pk) = Lite!LEN /\ q = pk)
  BY <1>1, <1>4 DEF LiteRef!wotsVerify
<1>. QED  BY <1>6, <1>7 DEF pk

-----------------------------------------------------------------------------
(* 2. LITE: paths, the hypertree, the forest, the verifier.                *)

(* The words of an address.                                                *)
Six(a, layer, tree, type, kp, chain, hash) ==
    /\ a.layer = layer /\ a.tree = tree /\ a.type = type
    /\ a.keypair = kp /\ a.chain = chain /\ a.hash = hash

(* What is then hashed.                                                    *)
HashAt(seed, layer, tree, type, kp, chain, hash, m) ==
    Sha(<<seed, layer, tree, type, kp, chain, hash>> \o m)

(* What is hashed are the words, however the address came to hold them.    *)
LEMMA HashOfWords ==
    ASSUME NEW a, NEW layer, NEW tree, NEW type, NEW kp, NEW chain, NEW hash,
           Six(a, layer, tree, type, kp, chain, hash)
    PROVE  \A seed, m :
              /\ Lite!ChainHash(seed, a, m) = HashAt(seed, layer, tree, type, kp, chain, hash, m)
              /\ LiteRef!ChainHash(seed, a, m) = HashAt(seed, layer, tree, type, kp, chain, hash, m)
BY DEF Six, HashAt, Lite!ChainHash, LiteRef!ChainHash

(* Up a path in a loop, over one address buffer.                           *)
LEMMA RefClimb ==
    ASSUME HashFits, NEW seed, NEW layer, NEW tree, NEW leaf, NEW v \in V,
           NEW auth, Len(auth) = H_PRIME
    PROVE  LiteRef!xmssRootFromLeafChunk(seed, LiteRef!BuildAdrs(layer, tree, LiteRef!WOTS_HASH, 0),
                                         leaf, v, auth)
              = Lite!Xmss!Climb([seed |-> seed, layer |-> layer, tree |-> tree], v, leaf, auth)
<1> DEFINE n == H_PRIME
           r == [seed |-> seed, layer |-> layer, tree |-> tree]
           initial == LiteRef!BuildAdrs(layer, tree, LiteRef!WOTS_HASH, 0)
<1> DEFINE L == LiteRef!Loop(n)
           E(x, y) == LiteRef!ChainHash(seed, [initial EXCEPT !.type = LiteRef!TREE, !.keypair = y,
                                                           !.chain = leaf \div 2^y],
                              LiteRef!Merge((leaf \div 2^(y - 1)) % 2, x, auth[y]))
           It(iter) == iter = [s \in SUBSET DOMAIN L |->
                          IF s = {} THEN v
                          ELSE E(iter[s \ {LiteRef!Max(s)}], L[LiteRef!Max(s)])]
           c == CHOOSE iter : It(iter)
           S == V
           G == [j \in 1 .. n |-> [x \in S |-> E(x, L[j])]]
<1>1. LiteRef!xmssRootFromLeafChunk(seed, initial, leaf, v, auth) = c[DOMAIN L]
  BY Zenon DEF LiteRef!xmssRootFromLeafChunk, LiteRef!FoldLeft, LiteRef!MapThenFoldSet
<1>2. DOMAIN L = 1 .. n /\ \A j \in 1 .. n : L[j] = j
  BY DEF LiteRef!Loop
<1>3. \A s : LiteRef!Max(s) = Top(s)
  BY Zenon DEF LiteRef!Max, Top
<1>4. \A j \in 1 .. n : \A x \in S : E(x, L[j]) \in S
  BY DEF LiteRef!ChainHash, HashFits
<1>5. v \in S /\ n \in Nat
  BY LiteSizes
<1>0. \A j, x : E(x, j) = LiteUp(r, leaf, auth, j, x)
  <2> SUFFICES ASSUME NEW j, NEW x PROVE E(x, j) = LiteUp(r, leaf, auth, j, x)
    OBVIOUS
  <2> DEFINE z == leaf \div 2^j
             a == [initial EXCEPT !.type = LiteRef!TREE, !.keypair = j, !.chain = z]
             b == [Lite!BuildAdrs(layer, tree, Lite!TREE, j) EXCEPT !.chain = z]
             p == IF (leaf \div 2^(j - 1)) % 2 = 0 THEN <<x, auth[j]>> ELSE <<auth[j], x>>
  <2> HIDE DEF z, E, It, L, r, p, c, S, G
  <2>1. Six(a, layer, tree, 2, j, z, 0) /\ Six(b, layer, tree, 2, j, z, 0)
    BY DEF Six, LiteRef!BuildAdrs, LiteRef!TREE, Lite!BuildAdrs, Lite!TREE
  <2>2. E(x, j) = LiteRef!ChainHash(seed, a, p)
    BY DEF LiteRef!Merge, E, p, z
  <2>3. LiteUp(r, leaf, auth, j, x) = Lite!ChainHash(seed, b, p)
    BY DEF LiteUp, Lite!TreeHash, r, p, z
  <2> HIDE DEF a, b
  <2>. QED  BY <2>1, <2>2, <2>3, HashOfWords
<1> HIDE DEF E, L, S
<1>6. \A j \in 1 .. n : \A x \in S : G[j][x] = E(x, L[j])
  OBVIOUS
<1>7. PICK t : FoldTable(t, S, n, v, G)
  <2>1. ClosedUnder(S, 0, n, G)
    BY <1>4, <1>6 DEF ClosedUnder
  <2> HIDE DEF G
  <2>. QED  BY <1>5, <2>1, FoldTableExists
<1> HIDE DEF G
<1>8. It(t)
  <2>1. ASSUME NEW s \in SUBSET (1 .. n)
        PROVE  t[s] = IF s = {} THEN v
                      ELSE E(t[s \ {LiteRef!Max(s)}], L[LiteRef!Max(s)])
    <3>1. CASE s = {}
      BY <1>7, <3>1 DEF FoldTable
    <3>2. CASE s # {}
      <4>1. Top(s) \in 1 .. n /\ s \ {Top(s)} \in SUBSET (1 .. n)
        BY <1>5, <3>2, TopIs
      <4>2. t[s] = G[Top(s)][t[s \ {Top(s)}]] /\ t[s \ {Top(s)}] \in S
        BY <1>7, <3>2, <4>1 DEF FoldTable
      <4>. QED  BY <1>3, <1>6, <3>2, <4>1, <4>2
    <3>. QED  BY <3>1, <3>2
  <2>2. t = [s \in SUBSET DOMAIN L |-> t[s]]
    BY <1>2, <1>7 DEF FoldTable
  <2>. QED  BY <1>2, <2>1, <2>2
<1>9. It(c)
  <2> HIDE DEF It
  <2>. QED  BY <1>8
<1> HIDE DEF c
<1>10. /\ c[{}] = v
       /\ \A j \in 1 .. n : c[1 .. j] = E(c[1 .. j - 1], L[j])
  <2>1. \A s \in SUBSET (1 .. n) :
           c[s] = IF s = {} THEN v ELSE E(c[s \ {Top(s)}], L[Top(s)])
    BY <1>2, <1>3, <1>9
  <2>2. {} \in SUBSET (1 .. n)
    OBVIOUS
  <2>3. ASSUME NEW j \in 1 .. n PROVE c[1 .. j] = E(c[1 .. j - 1], L[j])
    <3>1. 1 .. j \in SUBSET (1 .. n) /\ 1 .. j # {} /\ Top(1 .. j) = j
          /\ (1 .. j) \ {j} = 1 .. j - 1
      BY <1>5, TopIs
    <3>. QED  BY <2>1, <3>1, Zenon
  <2>. QED  BY <2>1, <2>2, <2>3
<1>11. PICK f : /\ Lite!Xmss!Climb(r, v, leaf, auth) = f[n]
                /\ f[0] = v /\ \A h \in 1 .. n : f[h] = LiteUp(r, leaf, auth, h, f[h - 1])
  <2>1. Len(auth) \in Nat
    BY LiteSizes
  <2> HIDE DEF r, E, It, L
  <2>2. PICK f : /\ Lite!Xmss!Climb(r, v, leaf, auth) = f[Len(auth)]
                 /\ f[0] = v /\ \A h \in 0 .. Len(auth) : f[h] \in V
                 /\ \A h \in 1 .. Len(auth) : f[h] = LiteUp(r, leaf, auth, h, f[h - 1])
    BY <2>1, LiteClimb
  <2>3. Len(auth) = n
    OBVIOUS
  <2>. QED  BY <2>2, <2>3
<1> HIDE DEF n, r, initial
<1> DEFINE X == {j \in 0 .. n : c[1 .. j] = f[j]}
<1>12. 0 \in X /\ 0 \in Nat
  <2>1. 1 .. 0 = {}
    OBVIOUS
  <2>. QED  BY <1>5, <1>10, <1>11, <2>1
<1>13. \A j \in 0 + 1 .. n : j - 1 \in X => j \in X
  <2> SUFFICES ASSUME NEW j \in 1 .. n, c[1 .. j - 1] = f[j - 1]
               PROVE  c[1 .. j] = f[j]
    BY <1>5
  <2>. QED  BY <1>0, <1>2, <1>10, <1>11
<1>14. 0 .. n \subseteq X
  <2> HIDE DEF X
  <2>. QED  BY <1>5, <1>12, <1>13, Upward
<1>15. c[1 .. n] = f[n]
  BY <1>5, <1>14
<1>. QED  BY <1>1, <1>2, <1>11, <1>15 DEF r, initial

(* The root of a tree that a part of a signature leads to.                 *)
LEMMA RefXmss ==
    ASSUME HashFits, NEW seed, NEW layer, NEW tree, NEW leaf, NEW m \in V, NEW points,
           NEW auth, Len(auth) = H_PRIME
    PROVE  /\ LiteRef!xmssRootFromSig(seed, layer, tree, leaf, m,
                                      [wotsSig |-> points, authPath |-> auth])
                 = Lite!XmssRootFromSig(seed, layer, tree, leaf, m, points, auth)
           /\ Lite!XmssRootFromSig(seed, layer, tree, leaf, m, points, auth) \in V
<1> DEFINE adrs == Lite!BuildAdrs(layer, tree, Lite!WOTS_HASH, leaf)
           pk == Lite!PkFromSig(seed, adrs, m, points)
           v == Lite!LeafFromPk(seed, layer, tree, leaf, pk)
           r == [seed |-> seed, layer |-> layer, tree |-> tree]
           sig == [wotsSig |-> points, authPath |-> auth]
<1>1. adrs = LiteRef!BuildAdrs(layer, tree, LiteRef!WOTS_HASH, leaf)
  BY DEF Lite!BuildAdrs, LiteRef!BuildAdrs, Lite!WOTS_HASH, LiteRef!WOTS_HASH
<1>2. sig.wotsSig = points /\ sig.authPath = auth
  OBVIOUS
<1>3. v = LiteRef!ChainHash(seed, LiteRef!BuildAdrs(layer, tree, LiteRef!WOTS_PK, leaf), pk) /\ v \in V
  BY DEF Lite!LeafFromPk, Lite!ChainHash, LiteRef!ChainHash, Lite!BuildAdrs, LiteRef!BuildAdrs,
         Lite!WOTS_PK, LiteRef!WOTS_PK, HashFits
<1>4. Lite!XmssRootFromSig(seed, layer, tree, leaf, m, points, auth)
         = Lite!Xmss!Climb(r, v, leaf, auth)
  BY DEF Lite!XmssRootFromSig
<1> HIDE DEF adrs, v, sig
<1>5. pk = LiteRef!wotsPkFromSig(seed, adrs, m, points)
  BY RefPkFromSig
<1> HIDE DEF pk
<1>6. LiteRef!xmssRootFromSig(seed, layer, tree, leaf, m, sig)
         = LiteRef!xmssRootFromLeafChunk(seed,
              LiteRef!BuildAdrs(layer, tree, LiteRef!WOTS_HASH, 0), leaf, v, auth)
  BY <1>1, <1>2, <1>3, <1>5 DEF LiteRef!xmssRootFromSig
<1>7. LiteRef!xmssRootFromSig(seed, layer, tree, leaf, m, sig) = Lite!Xmss!Climb(r, v, leaf, auth)
  BY <1>3, <1>6, RefClimb
<1>8. Lite!Xmss!Climb(r, v, leaf, auth) \in V
  <2>1. Len(auth) \in Nat
    BY LiteSizes
  <2>0. v \in V
    BY <1>3
  <2> HIDE DEF r
  <2>2. PICK f : /\ Lite!Xmss!Climb(r, v, leaf, auth) = f[Len(auth)]
                 /\ f[0] = v /\ \A h \in 0 .. Len(auth) : f[h] \in V
                 /\ \A h \in 1 .. Len(auth) : f[h] = LiteUp(r, leaf, auth, h, f[h - 1])
    BY <2>0, <2>1, LiteClimb
  <2>3. Len(auth) \in 0 .. Len(auth)
    BY <2>1
  <2>. QED  BY <2>2, <2>3
<1>. QED  BY <1>4, <1>7, <1>8 DEF sig

(* The parts of a signature of the hypertree for one layer.                *)
HtLen == Lite!LEN + H_PRIME

(* What a part of a signature of the hypertree holds.                      *)
PointsOf(sig, l) == SubSeq(sig, (l - 1) * HtLen + 1, (l - 1) * HtLen + Lite!LEN)
PathOf(sig, l) == SubSeq(sig, (l - 1) * HtLen + Lite!LEN + 1, (l - 1) * HtLen + HtLen)

(* They lie one after the other.                                           *)
LEMMA PartsOfHt ==
    ASSUME NEW S, NEW sig \in Seq(S), Len(sig) = D * HtLen, NEW l \in 1 .. D
    PROVE  /\ (l - 1) * HtLen \in Nat /\ (l - 1) * HtLen + HtLen <= D * HtLen
           /\ PathOf(sig, l) \in Seq(S) /\ Len(PathOf(sig, l)) = H_PRIME
<1>1. Lite!LEN \in Nat /\ H_PRIME \in Nat /\ HtLen \in Nat /\ HtLen = Lite!LEN + H_PRIME /\ D \in Nat
  BY LiteSizes DEF HtLen
<1> DEFINE off == (l - 1) * HtLen
<1>2. off \in Nat /\ off + HtLen <= D * HtLen /\ D * HtLen \in Nat
  <2>1. l - 1 \in Nat /\ l - 1 + 1 <= D
    BY <1>1
  <2>2. \A a, b, g \in Nat : a + 1 <= b => a * g \in Nat /\ a * g + g <= b * g /\ b * g \in Nat
    <3> SUFFICES ASSUME NEW a \in Nat, NEW b \in Nat, NEW g \in Nat, a + 1 <= b
                 PROVE  a * g + g <= b * g
      OBVIOUS
    <3>1. (a + 1) * g <= b * g /\ (a + 1) * g = a * g + g
      OBVIOUS
    <3>. QED  BY <3>1
  <2>. QED  BY <1>1, <2>1, <2>2, Zenon
<1> HIDE DEF off
<1>3. off + Lite!LEN \in Nat /\ (off + Lite!LEN) + H_PRIME <= Len(sig)
      /\ (off + Lite!LEN) + H_PRIME = off + HtLen /\ off + Lite!LEN + 1 = (off + Lite!LEN) + 1
  BY <1>1, <1>2
<1>4. /\ SubSeq(sig, (off + Lite!LEN) + 1, (off + Lite!LEN) + H_PRIME) \in Seq(S)
      /\ Len(SubSeq(sig, (off + Lite!LEN) + 1, (off + Lite!LEN) + H_PRIME)) = H_PRIME
  <2>1. 0 \in Nat /\ 0 + 0 <= H_PRIME
    BY <1>1
  <2>. QED  BY <1>1, <1>3, <2>1, CutOfCut
<1>. QED  BY <1>2, <1>3, <1>4 DEF off, PathOf

(* One layer up, from the value x.                                         *)
LiteLayer(seed, at, sig, l, x) ==
    Lite!XmssRootFromSig(seed, l - 1, at[l - 1].tree, at[l - 1].leaf, x, PointsOf(sig, l), PathOf(sig, l))

(* What HtRootFromSig computes, layer by layer, of values.                 *)
HtSteps(f, seed, m, tree, leaf, sig) ==
    /\ Lite!HtRootFromSig(seed, m, tree, leaf, sig) = f[D]
    /\ f[0] = m /\ \A l \in 0 .. D : f[l] \in V
    /\ \A l \in 1 .. D : f[l] = LiteLayer(seed, Lite!Places(tree, leaf), sig, l, f[l - 1])

(* There are such values.                                                  *)
LEMMA LiteHtSteps ==
    ASSUME HashFits, NEW seed, NEW m \in V, NEW tree, NEW leaf,
           NEW S, NEW sig \in Seq(S), Len(sig) = D * HtLen
    PROVE  \E f : HtSteps(f, seed, m, tree, leaf, sig)
<1> DEFINE at == Lite!Places(tree, leaf)
           Up(l, x) == LiteLayer(seed, at, sig, l, x)
           Is(f) == f = [l \in 0 .. D |-> IF l = 0 THEN m ELSE Up(l, f[l - 1])]
           G == [l \in 0 + 1 .. D |-> [x \in V |-> Up(l, x)]]
           c == CHOOSE f : Is(f)
<1>1. \A l \in 1 .. D : \A x \in V : Up(l, x) \in V
  <2> SUFFICES ASSUME NEW l \in 1 .. D, NEW x \in V PROVE LiteLayer(seed, at, sig, l, x) \in V
    OBVIOUS
  <2> HIDE DEF at
  <2>1. Len(PathOf(sig, l)) = H_PRIME
    BY PartsOfHt
  <2>. QED  BY <2>1, RefXmss DEF LiteLayer
<1>2. Lite!HtRootFromSig(seed, m, tree, leaf, sig) = c[D]
  BY DEF Lite!HtRootFromSig, LiteLayer, PointsOf, PathOf, HtLen
<1> HIDE DEF Up, at
<1>3. D \in Nat /\ 0 \in Nat /\ 0 <= D
  BY LiteSizes
<1>4. \A l \in 0 + 1 .. D : \A x \in V : G[l][x] = Up(l, x)
  OBVIOUS
<1>5. PICK f : Iterate(f, V, 0, D, m, G)
  <2>1. ClosedUnder(V, 0, D, G)
    BY <1>1, <1>4 DEF ClosedUnder
  <2> HIDE DEF G
  <2>. QED  BY <1>3, <2>1, Iterates
<1> HIDE DEF G
<1>6. Is(f)
  <2>1. ASSUME NEW h \in 0 .. D PROVE f[h] = IF h = 0 THEN m ELSE Up(h, f[h - 1])
    <3>1. CASE h = 0
      BY <1>5, <3>1 DEF Iterate
    <3>2. CASE h # 0
      <4>1. h \in 0 + 1 .. D /\ h - 1 \in 0 .. D
        BY <1>3, <3>2
      <4>2. f[h] = G[h][f[h - 1]] /\ f[h - 1] \in V
        BY <1>5, <4>1 DEF Iterate
      <4>. QED  BY <1>4, <3>2, <4>1, <4>2
    <3>. QED  BY <3>1, <3>2
  <2>2. f = [h \in 0 .. D |-> f[h]]
    BY <1>5 DEF Iterate
  <2>. QED  BY <2>1, <2>2
<1>7. Is(c)
  <2> HIDE DEF Is
  <2>. QED  BY <1>6
<1> HIDE DEF c
<1>8. c[0] = m /\ \A h \in 1 .. D : c[h] = Up(h, c[h - 1])
  BY <1>3, <1>7
<1>9. \A h \in 0 .. D : c[h] \in V
  <2>1. \A h \in 0 + 1 .. D : c[h - 1] \in V => c[h] \in V
    BY <1>1, <1>8
  <2>. QED  BY <1>3, <1>8, <2>1, StaysIn
<1>10. HtSteps(c, seed, m, tree, leaf, sig)
  BY <1>2, <1>8, <1>9 DEF Up, at, HtSteps
<1>. QED  BY <1>10

(* The loop over the layers, which carries tree and leaf along.            *)
LEMMA RefHt ==
    ASSUME HashFits, NEW seed, NEW m \in V, NEW tree \in Nat, NEW leaf \in 0 .. 2^H_PRIME - 1,
           NEW T, NEW sig \in Seq(T), Len(sig) = D * HtLen, NEW layers,
           \A l \in 1 .. D :
              layers[l] = [wotsSig |-> PointsOf(sig, l), authPath |-> PathOf(sig, l)]
    PROVE  LiteRef!htRootFromSig(seed, m, tree, leaf, layers)
              = Lite!HtRootFromSig(seed, m, tree, leaf, sig)
<1> DEFINE at == Lite!Places(tree, leaf)
           first == [payload |-> m, curTree |-> tree, curLeaf |-> leaf]
<1>0. \A l \in 1 .. D : Len(PathOf(sig, l)) = H_PRIME
  BY PartsOfHt
<1>00. 2^H_PRIME \in Nat \ {0}
  BY Room
<1>01. \A j \in 1 .. D : \A tr, lf : \A x \in V :
          /\ LiteRef!xmssRootFromSig(seed, j - 1, tr, lf, x, layers[j])
                = Lite!XmssRootFromSig(seed, j - 1, tr, lf, x, PointsOf(sig, j), PathOf(sig, j))
          /\ LiteRef!xmssRootFromSig(seed, j - 1, tr, lf, x, layers[j]) \in V
  <2> SUFFICES ASSUME NEW j \in 1 .. D, NEW tr, NEW lf, NEW x \in V
               PROVE  /\ LiteRef!xmssRootFromSig(seed, j - 1, tr, lf, x, layers[j])
                            = Lite!XmssRootFromSig(seed, j - 1, tr, lf, x,
                                                   PointsOf(sig, j), PathOf(sig, j))
                      /\ LiteRef!xmssRootFromSig(seed, j - 1, tr, lf, x, layers[j]) \in V
    OBVIOUS
  <2> DEFINE k == j - 1
             p == PointsOf(sig, j)
             q == PathOf(sig, j)
  <2>1. layers[j] = [wotsSig |-> p, authPath |-> q] /\ Len(q) = H_PRIME
    BY <1>0
  <2> HIDE DEF k, p, q
  <2>2. /\ LiteRef!xmssRootFromSig(seed, k, tr, lf, x, [wotsSig |-> p, authPath |-> q])
              = Lite!XmssRootFromSig(seed, k, tr, lf, x, p, q)
        /\ Lite!XmssRootFromSig(seed, k, tr, lf, x, p, q) \in V
    BY <2>1, RefXmss
  <2>. QED  BY <2>1, <2>2 DEF k, p, q
<1>02. PICK f : /\ Lite!HtRootFromSig(seed, m, tree, leaf, sig) = f[D]
                /\ f[0] = m /\ \A l \in 0 .. D : f[l] \in V
                /\ \A l \in 1 .. D : f[l] = LiteLayer(seed, at, sig, l, f[l - 1])
  <2> HIDE DEF first
  <2>1. PICK f : HtSteps(f, seed, m, tree, leaf, sig)
    BY LiteHtSteps
  <2>. QED  BY <2>1 DEF HtSteps
<1> DEFINE L == LiteRef!Loop(D)
           E(x, y) == [payload |-> LiteRef!xmssRootFromSig(seed, y - 1, x.curTree, x.curLeaf, x.payload,
                                                layers[y]),
                       curLeaf |-> x.curTree % 2^H_PRIME,
                       curTree |-> x.curTree \div 2^H_PRIME]
           It(iter) == iter = [s \in SUBSET DOMAIN L |->
                          IF s = {} THEN first
                          ELSE E(iter[s \ {LiteRef!Max(s)}], L[LiteRef!Max(s)])]
           c == CHOOSE iter : It(iter)
           S == [payload : V, curTree : Nat, curLeaf : 0 .. 2^H_PRIME - 1]
           G == [j \in 1 .. D |-> [x \in S |-> E(x, L[j])]]
<1>1. LiteRef!htRootFromSig(seed, m, tree, leaf, layers) = c[DOMAIN L].payload
  BY Zenon DEF LiteRef!htRootFromSig, LiteRef!FoldLeft, LiteRef!MapThenFoldSet
<1>2. DOMAIN L = 1 .. D /\ \A j \in 1 .. D : L[j] = j
  BY DEF LiteRef!Loop
<1>3. \A s : LiteRef!Max(s) = Top(s)
  BY Zenon DEF LiteRef!Max, Top
<1>4. \A j \in 1 .. D : \A x \in S : E(x, L[j]) \in S
  <2> SUFFICES ASSUME NEW j \in 1 .. D, NEW x \in S PROVE E(x, j) \in S
    BY <1>2
  <2> HIDE DEF L, c, It, G
  <2>0. x.payload \in V /\ x.curTree \in Nat
    OBVIOUS
  <2>1. LiteRef!xmssRootFromSig(seed, j - 1, x.curTree, x.curLeaf, x.payload, layers[j]) \in V
    BY <1>01, <2>0
  <2>2. x.curTree % 2^H_PRIME \in 0 .. 2^H_PRIME - 1 /\ x.curTree \div 2^H_PRIME \in Nat
    <3>1. \A y \in Nat, w \in Nat \ {0} : y % w \in 0 .. w - 1 /\ y \div w \in Nat
      OBVIOUS
    <3>. QED  BY <1>00, <2>0, <3>1
  <2>. QED  BY <2>1, <2>2
<1>5. first \in S /\ D \in Nat
  BY LiteSizes
<1> HIDE DEF L
<1>000. \A j \in 1 .. D : \A x :
           /\ x.payload \in V =>
                 E(x, j).payload = Lite!XmssRootFromSig(seed, j - 1, x.curTree, x.curLeaf,
                                       x.payload, PointsOf(sig, j), PathOf(sig, j))
           /\ E(x, j).curLeaf = x.curTree % 2^H_PRIME
           /\ E(x, j).curTree = x.curTree \div 2^H_PRIME
  BY <1>01
<1> HIDE DEF E, S
<1>6. \A j \in 1 .. D : \A x \in S : G[j][x] = E(x, L[j])
  OBVIOUS
<1>7. PICK t : FoldTable(t, S, D, first, G)
  <2>1. ClosedUnder(S, 0, D, G)
    BY <1>4, <1>6 DEF ClosedUnder
  <2> HIDE DEF G
  <2>. QED  BY <1>5, <2>1, FoldTableExists
<1> HIDE DEF G
<1>8. It(t)
  <2>1. ASSUME NEW s \in SUBSET (1 .. D)
        PROVE  t[s] = IF s = {} THEN first
                      ELSE E(t[s \ {LiteRef!Max(s)}], L[LiteRef!Max(s)])
    <3>1. CASE s = {}
      BY <1>7, <3>1 DEF FoldTable
    <3>2. CASE s # {}
      <4>1. Top(s) \in 1 .. D /\ s \ {Top(s)} \in SUBSET (1 .. D)
        BY <1>5, <3>2, TopIs
      <4>2. t[s] = G[Top(s)][t[s \ {Top(s)}]] /\ t[s \ {Top(s)}] \in S
        BY <1>7, <3>2, <4>1 DEF FoldTable
      <4>. QED  BY <1>3, <1>6, <3>2, <4>1, <4>2
    <3>. QED  BY <3>1, <3>2
  <2>2. t = [s \in SUBSET DOMAIN L |-> t[s]]
    BY <1>2, <1>7 DEF FoldTable
  <2>. QED  BY <1>2, <2>1, <2>2
<1>9. It(c)
  <2> HIDE DEF It
  <2>. QED  BY <1>8
<1> HIDE DEF c
<1>10. /\ c[{}] = first
       /\ \A j \in 1 .. D : c[1 .. j] = E(c[1 .. j - 1], L[j])
  <2>1. \A s \in SUBSET (1 .. D) :
           c[s] = IF s = {} THEN first ELSE E(c[s \ {Top(s)}], L[Top(s)])
    BY <1>2, <1>3, <1>9
  <2>2. {} \in SUBSET (1 .. D)
    OBVIOUS
  <2>3. ASSUME NEW j \in 1 .. D PROVE c[1 .. j] = E(c[1 .. j - 1], L[j])
    <3>1. 1 .. j \in SUBSET (1 .. D) /\ 1 .. j # {} /\ Top(1 .. j) = j
          /\ (1 .. j) \ {j} = 1 .. j - 1
      BY <1>5, TopIs
    <3>. QED  BY <2>1, <3>1, Zenon
  <2>. QED  BY <2>1, <2>2, <2>3
<1>12. Ascends(at, tree, leaf)
  BY LitePlaces
<1> HIDE DEF at
<1> DEFINE X == {j \in 0 .. D : /\ c[1 .. j].payload = f[j]
                                /\ j < D => /\ c[1 .. j].curTree = at[j].tree
                                            /\ c[1 .. j].curLeaf = at[j].leaf}
<1>13. 0 \in X /\ 0 \in Nat
  <2>1. 1 .. 0 = {}
    OBVIOUS
  <2>. QED  BY <1>5, <1>10, <1>02, <1>12, <2>1 DEF Ascends
<1>14. \A j \in 0 + 1 .. D : j - 1 \in X => j \in X
  <2> SUFFICES ASSUME NEW j \in 1 .. D, j - 1 \in X PROVE j \in X
    BY <1>5
  <2> DEFINE x == c[1 .. j - 1]
  <2>1. j - 1 \in 0 .. D /\ j - 1 < D /\ D \in Nat
    BY <1>5
  <2>2. x.payload = f[j - 1] /\ x.curTree = at[j - 1].tree /\ x.curLeaf = at[j - 1].leaf
    BY <2>1
  <2>3. f[j - 1] \in V
    BY <1>02, <2>1
  <2>4. c[1 .. j] = E(x, j)
    BY <1>2, <1>10
  <2> HIDE DEF x
  <2>5. c[1 .. j].payload = f[j]
    BY <1>000, <1>02, <2>2, <2>3, <2>4 DEF LiteLayer
  <2>6. j < D => at[j] = [tree |-> at[j - 1].tree \div 2^H_PRIME,
                          leaf |-> at[j - 1].tree % 2^H_PRIME]
    <3>1. j < D => j \in 1 .. D - 1
      BY <2>1
    <3>. QED  BY <1>12, <3>1 DEF Ascends
  <2>7. j < D => c[1 .. j].curTree = at[j].tree /\ c[1 .. j].curLeaf = at[j].leaf
    BY <1>000, <2>2, <2>4, <2>6
  <2>. QED  BY <2>1, <2>5, <2>7
<1>15. 0 .. D \subseteq X
  <2> HIDE DEF X
  <2>. QED  BY <1>5, <1>13, <1>14, Upward
<1>16. c[1 .. D].payload = f[D]
  BY <1>5, <1>15
<1>. QED  BY <1>1, <1>2, <1>02, <1>16

(* One step of the climb in a tree of a forest of LITE.                    *)
ForsUp(t, leaf, auth, h, x) ==
    Lite!ForsHash(t, h, leaf \div 2^h,
                  IF (leaf \div 2^(h - 1)) % 2 = 0 THEN <<x, auth[h]>> ELSE <<auth[h], x>>)

(* What that Climb computes, step by step, of values.                      *)
ForsSteps(f, t, v, leaf, auth) ==
    /\ Lite!Fors!Climb(t, v, leaf, auth) = f[Len(auth)]
    /\ f[0] = v /\ \A h \in 0 .. Len(auth) : f[h] \in V
    /\ \A h \in 1 .. Len(auth) : f[h] = ForsUp(t, leaf, auth, h, f[h - 1])

(* There are such values.                                                  *)
LEMMA ForsClimb ==
    ASSUME HashFits, NEW t, NEW v \in V, NEW leaf, NEW auth, Len(auth) \in Nat
    PROVE  \E f : ForsSteps(f, t, v, leaf, auth)
<1> DEFINE n == Len(auth)
           Up(h, x) == ForsUp(t, leaf, auth, h, x)
           Is(f) == f = [h \in 0 .. n |-> IF h = 0 THEN v ELSE Up(h, f[h - 1])]
           G == [h \in 0 + 1 .. n |-> [x \in V |-> Up(h, x)]]
           c == CHOOSE f : Is(f)
<1>1. \A h, x : Up(h, x) \in V
  BY DEF ForsUp, HashFits, Lite!ForsHash, Lite!ChainHash
<1>2. Lite!Fors!Climb(t, v, leaf, auth) = c[n]
  BY DEF Lite!Fors!Climb, ForsUp
<1> HIDE DEF Up, n
<1>3. n \in Nat /\ 0 \in Nat /\ 0 <= n
  BY DEF n
<1>4. \A h \in 0 + 1 .. n : \A x \in V : G[h][x] = Up(h, x)
  OBVIOUS
<1>5. PICK f : Iterate(f, V, 0, n, v, G)
  <2>1. ClosedUnder(V, 0, n, G)
    BY <1>1, <1>4 DEF ClosedUnder
  <2> HIDE DEF G
  <2>. QED  BY <1>3, <2>1, Iterates
<1> HIDE DEF G
<1>6. Is(f)
  <2>1. ASSUME NEW h \in 0 .. n PROVE f[h] = IF h = 0 THEN v ELSE Up(h, f[h - 1])
    <3>1. CASE h = 0
      BY <1>5, <3>1 DEF Iterate
    <3>2. CASE h # 0
      <4>1. h \in 0 + 1 .. n /\ h - 1 \in 0 .. n
        BY <1>3, <3>2
      <4>2. f[h] = G[h][f[h - 1]] /\ f[h - 1] \in V
        BY <1>5, <4>1 DEF Iterate
      <4>. QED  BY <1>4, <3>2, <4>1, <4>2
    <3>. QED  BY <3>1, <3>2
  <2>2. f = [h \in 0 .. n |-> f[h]]
    BY <1>5 DEF Iterate
  <2>. QED  BY <2>1, <2>2
<1>7. Is(c)
  <2> HIDE DEF Is
  <2>. QED  BY <1>6
<1> HIDE DEF c
<1>8. c[0] = v /\ \A h \in 1 .. n : c[h] = Up(h, c[h - 1])
  BY <1>3, <1>7
<1>9. \A h \in 0 .. n : c[h] \in V
  <2>1. \A h \in 0 + 1 .. n : c[h - 1] \in V => c[h] \in V
    BY <1>1, <1>8
  <2>. QED  BY <1>3, <1>8, <2>1, StaysIn
<1>10. ForsSteps(c, t, v, leaf, auth)
  BY <1>2, <1>8, <1>9 DEF n, Up, ForsSteps
<1>. QED  BY <1>10

(* Addresses in a forest. One buffer keeps its keypair word at zero.       *)
ForsAdrs(tree, kps) == [layer : {0}, tree : {tree}, type : {3}, keypair : kps,
                        chain : Nat, hash : {0}]

(* The buffer with its keypair and chain words overwritten.                *)
ForsPut(a, kp, chain) == [a EXCEPT !.keypair = kp, !.chain = chain]

(* An overwritten buffer is one still, and has the words written.          *)
LEMMA PutWords ==
    ASSUME NEW tree, NEW a \in ForsAdrs(tree, Nat), NEW kp \in Nat, NEW chain \in Nat
    PROVE  /\ ForsPut(a, kp, chain) \in ForsAdrs(tree, Nat)
           /\ Six(ForsPut(a, kp, chain), 0, tree, 3, kp, chain, 0)
<1>1. ForsPut(a, kp, chain) \in ForsAdrs(tree, Nat)
  BY DEF ForsPut, ForsAdrs
<1>2. ForsPut(a, kp, chain).keypair = kp /\ ForsPut(a, kp, chain).chain = chain
  BY DEF ForsPut, ForsAdrs
<1>3. \A b \in ForsAdrs(tree, Nat) : b.layer = 0 /\ b.tree = tree /\ b.type = 3 /\ b.hash = 0
  BY DEF ForsAdrs
<1>. QED  BY <1>1, <1>2, <1>3 DEF Six

(* What ForsHash hashes.                                                   *)
LEMMA ForsWords ==
    ASSUME NEW seed, NEW tree, NEW num, NEW h, NEW i, NEW m
    PROVE  Lite!ForsHash(Lite!ForsTree(seed, tree, num), h, i, m)
              = HashAt(seed, 0, tree, 3, h, num * 2^(A - h) + i, 0, m)
<1> DEFINE z == num * 2^(A - h) + i
           b == [Lite!BuildAdrs(0, tree, Lite!FORS_TREE, h) EXCEPT !.chain = z]
<1>1. Lite!ForsHash(Lite!ForsTree(seed, tree, num), h, i, m) = Lite!ChainHash(seed, b, m)
  BY DEF Lite!ForsHash, Lite!ForsTree
<1> HIDE DEF z
<1>2. Six(b, 0, tree, 3, h, z, 0)
  BY DEF Six, Lite!BuildAdrs, Lite!FORS_TREE
<1> HIDE DEF b
<1>3. Lite!ChainHash(seed, b, m) = HashAt(seed, 0, tree, 3, h, z, 0, m)
  BY <1>2, HashOfWords
<1>. QED  BY <1>1, <1>3 DEF z

(* The loop up the path of a tree, over one address buffer; g is the part  *)
(* of the signature for the tree.                                          *)
RefUp(seed, i, g, s, h) ==
    LET a == ForsPut(s.adrs, h, (i - 1) * 2^(A - h) + s.idx \div 2)
    IN  [adrs |-> a, idx |-> s.idx \div 2,
         node |-> LiteRef!ChainHash(seed, a, LiteRef!Merge(s.idx % 2, s.node, g[h + 1]))]

(* The whole loop.                                                         *)
RefTop(seed, i, g, adrs, idx, v) ==
    LiteRef!FoldLeft(LAMBDA s, h : RefUp(seed, i, g, s, h),
                     [adrs |-> adrs, idx |-> idx, node |-> v], LiteRef!Loop(A))

(* It climbs as the verifier does.                                         *)
LEMMA RefForsTree ==
    ASSUME HashFits, NEW seed, NEW tree, NEW i \in 1 .. K, NEW g,
           NEW adrs \in ForsAdrs(tree, Nat), NEW idx \in Nat, NEW v \in V,
           NEW auth, Len(auth) = A, \A h \in 1 .. A : auth[h] = g[h + 1]
    PROVE  /\ RefTop(seed, i, g, adrs, idx, v).adrs \in ForsAdrs(tree, Nat)
           /\ RefTop(seed, i, g, adrs, idx, v).node
                 = Lite!Fors!Climb(Lite!ForsTree(seed, tree, i - 1), v, idx, auth)
           /\ RefTop(seed, i, g, adrs, idx, v).node \in V
<1> DEFINE first == [adrs |-> adrs, idx |-> idx, node |-> v]
           tr == Lite!ForsTree(seed, tree, i - 1)
<1>01. A \in Nat /\ i - 1 \in Nat
  BY LiteSizes
<1>02. \A h \in 1 .. A : 2^(A - h) \in Nat \ {0}
  <2> SUFFICES ASSUME NEW h \in 1 .. A PROVE 2^(A - h) \in Nat \ {0}
    OBVIOUS
  <2>1. A - h \in Nat
    BY <1>01
  <2>. QED  BY <2>1, PowNat
<1>03. \A h \in 1 .. A : \A x \in Nat : (i - 1) * 2^(A - h) + x \div 2 \in Nat /\ x \div 2 \in Nat
  BY <1>01, <1>02
<1>04. PICK f : /\ Lite!Fors!Climb(tr, v, idx, auth) = f[A]
                /\ f[0] = v
                /\ \A h \in 0 .. A : f[h] \in V
                /\ \A h \in 1 .. A : f[h] = ForsUp(tr, idx, auth, h, f[h - 1])
  <2>1. Len(auth) \in Nat
    BY <1>01
  <2> HIDE DEF tr
  <2>2. PICK f : ForsSteps(f, tr, v, idx, auth)
    BY <2>1, ForsClimb
  <2>. QED  BY <2>2 DEF ForsSteps
<1> DEFINE L == LiteRef!Loop(A)
           E(x, y) == RefUp(seed, i, g, x, y)
           It(iter) == iter = [s \in SUBSET DOMAIN L |->
                          IF s = {} THEN first
                          ELSE E(iter[s \ {LiteRef!Max(s)}], L[LiteRef!Max(s)])]
           c == CHOOSE iter : It(iter)
           S == [adrs : ForsAdrs(tree, Nat), idx : Nat, node : V]
           G == [j \in 1 .. A |-> [x \in S |-> E(x, L[j])]]
<1>1. RefTop(seed, i, g, adrs, idx, v) = c[DOMAIN L]
  BY Zenon DEF RefTop, LiteRef!FoldLeft, LiteRef!MapThenFoldSet
<1>2. DOMAIN L = 1 .. A /\ \A j \in 1 .. A : L[j] = j
  BY DEF LiteRef!Loop
<1>3. \A s : LiteRef!Max(s) = Top(s)
  BY Zenon DEF LiteRef!Max, Top
<1>4. \A j \in 1 .. A : \A x \in S : E(x, L[j]) \in S
  <2> SUFFICES ASSUME NEW j \in 1 .. A, NEW x \in S PROVE E(x, j) \in S
    BY <1>2
  <2> HIDE DEF L, c, It, G
  <2> DEFINE ch == (i - 1) * 2^(A - j) + x.idx \div 2
             a == ForsPut(x.adrs, j, ch)
  <2>0. x.idx \in Nat /\ x.adrs \in ForsAdrs(tree, Nat)
    OBVIOUS
  <2>1. ch \in Nat /\ x.idx \div 2 \in Nat /\ j \in Nat
    BY <1>03, <2>0
  <2> HIDE DEF ch
  <2>2. a \in ForsAdrs(tree, Nat)
    BY <2>0, <2>1, PutWords
  <2>3. E(x, j) = [adrs |-> a, idx |-> x.idx \div 2,
                   node |-> LiteRef!ChainHash(seed, a,
                               LiteRef!Merge(x.idx % 2, x.node, g[j + 1]))]
    BY DEF RefUp, ch
  <2>4. LiteRef!ChainHash(seed, a, LiteRef!Merge(x.idx % 2, x.node, g[j + 1])) \in V
    BY DEF LiteRef!ChainHash, HashFits
  <2> HIDE DEF a, E
  <2>. QED  BY <2>1, <2>2, <2>3, <2>4
<1>5. first \in S /\ A \in Nat
  BY LiteSizes
<1> HIDE DEF E, L
<1>05. \A j \in 1 .. A : \A x \in S :
          /\ E(x, j).idx = x.idx \div 2
          /\ x.idx = idx \div 2^(j - 1) => E(x, j).node = ForsUp(tr, idx, auth, j, x.node)
  <2> SUFFICES ASSUME NEW j \in 1 .. A, NEW x \in S
               PROVE  /\ E(x, j).idx = x.idx \div 2
                      /\ x.idx = idx \div 2^(j - 1)
                            => E(x, j).node = ForsUp(tr, idx, auth, j, x.node)
    OBVIOUS
  <2> HIDE DEF L, c, It, G, tr
  <2> DEFINE ch == (i - 1) * 2^(A - j) + x.idx \div 2
             a == ForsPut(x.adrs, j, ch)
             p == LiteRef!Merge(x.idx % 2, x.node, g[j + 1])
  <2>0. x.idx \in Nat /\ x.adrs \in ForsAdrs(tree, Nat)
    OBVIOUS
  <2>1. ch \in Nat /\ x.idx \div 2 \in Nat /\ j \in Nat
    BY <1>03, <2>0
  <2>3. E(x, j) = [adrs |-> a, idx |-> x.idx \div 2, node |-> LiteRef!ChainHash(seed, a, p)]
    BY DEF RefUp, E
  <2> HIDE DEF ch, E, S, p
  <2>4. Six(a, 0, tree, 3, j, ch, 0)
    BY <2>0, <2>1, PutWords
  <2> HIDE DEF a
  <2>5. LiteRef!ChainHash(seed, a, p) = HashAt(seed, 0, tree, 3, j, ch, 0, p)
    BY <2>4, HashOfWords
  <2>6. ASSUME x.idx = idx \div 2^(j - 1)
        PROVE  E(x, j).node = ForsUp(tr, idx, auth, j, x.node)
    <3>1. x.idx \div 2 = idx \div 2^j
      BY <2>6, HalvedOnce
    <3>2. ch = (i - 1) * 2^(A - j) + idx \div 2^j
      BY <3>1 DEF ch
    <3>3. p = IF (idx \div 2^(j - 1)) % 2 = 0 THEN <<x.node, auth[j]>> ELSE <<auth[j], x.node>>
      BY <2>6 DEF p, LiteRef!Merge
    <3>4. ForsUp(tr, idx, auth, j, x.node)
             = Lite!ForsHash(Lite!ForsTree(seed, tree, i - 1), j, idx \div 2^j, p)
      BY <3>3 DEF ForsUp, tr
    <3>5. Lite!ForsHash(Lite!ForsTree(seed, tree, i - 1), j, idx \div 2^j, p)
             = HashAt(seed, 0, tree, 3, j, ch, 0, p)
      BY <3>2, ForsWords
    <3>6. E(x, j).node = LiteRef!ChainHash(seed, a, p)
      BY <2>3
    <3>. QED  BY <2>5, <3>4, <3>5, <3>6
  <2>. QED  BY <2>3, <2>6
<1>06. /\ \A x \in S : x.node \in V /\ x.adrs \in ForsAdrs(tree, Nat)
       /\ first.node = v /\ first.idx = idx
  OBVIOUS
<1> HIDE DEF E, S, first
<1>6. \A j \in 1 .. A : \A x \in S : G[j][x] = E(x, L[j])
  OBVIOUS
<1>7. PICK t : FoldTable(t, S, A, first, G)
  <2>1. ClosedUnder(S, 0, A, G)
    BY <1>4, <1>6 DEF ClosedUnder
  <2> HIDE DEF G
  <2>. QED  BY <1>5, <2>1, FoldTableExists
<1> HIDE DEF G
<1>8. It(t)
  <2>1. ASSUME NEW s \in SUBSET (1 .. A)
        PROVE  t[s] = IF s = {} THEN first
                      ELSE E(t[s \ {LiteRef!Max(s)}], L[LiteRef!Max(s)])
    <3>1. CASE s = {}
      BY <1>7, <3>1 DEF FoldTable
    <3>2. CASE s # {}
      <4>1. Top(s) \in 1 .. A /\ s \ {Top(s)} \in SUBSET (1 .. A)
        BY <1>5, <3>2, TopIs
      <4>2. t[s] = G[Top(s)][t[s \ {Top(s)}]] /\ t[s \ {Top(s)}] \in S
        BY <1>7, <3>2, <4>1 DEF FoldTable
      <4>. QED  BY <1>3, <1>6, <3>2, <4>1, <4>2
    <3>. QED  BY <3>1, <3>2
  <2>2. t = [s \in SUBSET DOMAIN L |-> t[s]]
    BY <1>2, <1>7 DEF FoldTable
  <2>. QED  BY <1>2, <2>1, <2>2
<1>9. It(c)
  <2> HIDE DEF It
  <2>. QED  BY <1>8
<1> HIDE DEF c
<1>10. /\ c[{}] = first
       /\ \A j \in 1 .. A : c[1 .. j] = E(c[1 .. j - 1], L[j])
  <2>1. \A s \in SUBSET (1 .. A) :
           c[s] = IF s = {} THEN first ELSE E(c[s \ {Top(s)}], L[Top(s)])
    BY <1>2, <1>3, <1>9
  <2>2. {} \in SUBSET (1 .. A)
    OBVIOUS
  <2>3. ASSUME NEW j \in 1 .. A PROVE c[1 .. j] = E(c[1 .. j - 1], L[j])
    <3>1. 1 .. j \in SUBSET (1 .. A) /\ 1 .. j # {} /\ Top(1 .. j) = j
          /\ (1 .. j) \ {j} = 1 .. j - 1
      BY <1>5, TopIs
    <3>. QED  BY <2>1, <3>1, Zenon
  <2>. QED  BY <2>1, <2>2, <2>3
<1>11. \A j \in 0 .. A : c[1 .. j] \in S
  <2> DEFINE X == {j \in 0 .. A : c[1 .. j] \in S}
  <2>1. 0 \in X /\ 0 \in Nat
    <3>1. 1 .. 0 = {}
      OBVIOUS
    <3>. QED  BY <1>01, <1>5, <1>10, <3>1
  <2>2. \A j \in 0 + 1 .. A : j - 1 \in X => j \in X
    BY <1>4, <1>5, <1>10
  <2>3. 0 .. A \subseteq X
    <3> HIDE DEF X
    <3>. QED  BY <1>5, <2>1, <2>2, Upward
  <2>. QED  BY <2>3
<1> HIDE DEF tr
<1> DEFINE X == {j \in 0 .. A : c[1 .. j].node = f[j] /\ c[1 .. j].idx = idx \div 2^j}
<1>12. 0 \in X /\ 0 \in Nat
  <2>1. 1 .. 0 = {} /\ 2^0 = 1 /\ idx \div 1 = idx
    OBVIOUS
  <2>2. idx \div 2^0 = idx
    BY <2>1
  <2>. QED  BY <1>5, <1>10, <1>04, <1>06, <2>1, <2>2
<1>13. \A j \in 0 + 1 .. A : j - 1 \in X => j \in X
  <2> SUFFICES ASSUME NEW j \in 1 .. A, j - 1 \in X PROVE j \in X
    BY <1>5
  <2> DEFINE x == c[1 .. j - 1]
  <2>1. j - 1 \in 0 .. A /\ j \in Nat \ {0} /\ j \in 0 .. A
    BY <1>5
  <2>2. x.node = f[j - 1] /\ x.idx = idx \div 2^(j - 1) /\ x \in S
    BY <1>11, <2>1
  <2>3. c[1 .. j] = E(x, j)
    BY <1>2, <1>10
  <2> HIDE DEF x
  <2>4. idx \div 2^j = (idx \div 2^(j - 1)) \div 2
    BY <2>1, HalvedOnce
  <2>5. c[1 .. j].idx = idx \div 2^j /\ c[1 .. j].node = f[j]
    BY <1>05, <1>04, <2>2, <2>3, <2>4
  <2>. QED  BY <2>1, <2>5
<1>14. 0 .. A \subseteq X
  <2> HIDE DEF X
  <2>. QED  BY <1>5, <1>12, <1>13, Upward
<1>15. c[1 .. A].node = f[A] /\ c[1 .. A] \in S
  BY <1>5, <1>11, <1>14
<1>. QED  BY <1>1, <1>2, <1>04, <1>06, <1>15 DEF tr

(* The part of a FORS signature for tree i, a secret and a path.           *)
ForsPart(sig, i) == SubSeq(sig, (i - 1) * (1 + A) + 1, i * (1 + A))
ForsPath(sig, i) == SubSeq(sig, (i - 1) * (1 + A) + 2, (i - 1) * (1 + A) + 1 + A)

(* The secret comes first, the path after it.                              *)
LEMMA PartsOfFors ==
    ASSUME NEW S, NEW sig \in Seq(S), Len(sig) = K * (1 + A), NEW i \in 1 .. K
    PROVE  /\ ForsPart(sig, i)[1] = sig[(i - 1) * (1 + A) + 1]
           /\ Len(ForsPath(sig, i)) = A
           /\ \A h \in 1 .. A : ForsPath(sig, i)[h] = ForsPart(sig, i)[h + 1]
<1>1. A \in Nat /\ K \in Nat
  BY LiteSizes
<1>2. \A k, a \in Nat : \A T : \A s \in Seq(T) : Len(s) = k * (1 + a) => \A j \in 1 .. k :
        /\ SubSeq(s, (j - 1) * (1 + a) + 1, j * (1 + a))[1] = s[(j - 1) * (1 + a) + 1]
        /\ Len(SubSeq(s, (j - 1) * (1 + a) + 2, (j - 1) * (1 + a) + 1 + a)) = a
        /\ \A h \in 1 .. a :
            SubSeq(s, (j - 1) * (1 + a) + 2, (j - 1) * (1 + a) + 1 + a)[h]
               = SubSeq(s, (j - 1) * (1 + a) + 1, j * (1 + a))[h + 1]
  BY SecretAndPath, Zenon
<1>3. \A T : \A s \in Seq(T) : Len(s) = K * (1 + A) => \A j \in 1 .. K :
        /\ ForsPart(s, j)[1] = s[(j - 1) * (1 + A) + 1]
        /\ Len(ForsPath(s, j)) = A
        /\ \A h \in 1 .. A : ForsPath(s, j)[h] = ForsPart(s, j)[h + 1]
  BY <1>1, <1>2, Zenon DEF ForsPart, ForsPath
<1>. QED  BY <1>3, Zenon

(* The loop over the trees of a forest, with its two address buffers.      *)
RefTree(seed, indices, fors, s, i) ==
    LET leaf == [s.adrsLeaf EXCEPT !.chain = (i - 1) * 2^A + indices[i]]
        top  == RefTop(seed, i, ForsPart(fors, i), s.adrsTree, indices[i],
                       LiteRef!ChainHash(seed, leaf, <<ForsPart(fors, i)[1]>>))
    IN  [adrsLeaf |-> leaf, adrsTree |-> top.adrs, roots |-> Append(s.roots, top.node)]

(* The whole loop.                                                         *)
RefRoots(seed, tree, indices, fors) ==
    LET fresh == LiteRef!BuildAdrs(0, tree, LiteRef!FORS_TREE, 0)
    IN  LiteRef!FoldLeft(LAMBDA s, i : RefTree(seed, indices, fors, s, i),
                         [adrsLeaf |-> fresh, adrsTree |-> fresh, roots |-> <<>>],
                         LiteRef!Loop(K)).roots

(* The root of tree n that the parts of a signature lead to.               *)
RootOf(seed, tree, indices, sig, n) ==
    Lite!Fors!Climb(Lite!ForsTree(seed, tree, n - 1),
                    Lite!ForsHash(Lite!ForsTree(seed, tree, n - 1), 0, indices[n],
                                  <<sig[(n - 1) * (1 + A) + 1]>>),
                    indices[n], ForsPath(sig, n))

(* It collects the roots that the verifier finds.                          *)
LEMMA RefForest ==
    ASSUME HashFits, NEW seed, NEW tree, NEW indices, \A n \in 1 .. K : indices[n] \in Nat,
           NEW T, NEW sig \in Seq(T), Len(sig) = K * (1 + A)
    PROVE  RefRoots(seed, tree, indices, sig) = [n \in 1 .. K |-> RootOf(seed, tree, indices, sig, n)]
<1> DEFINE fresh == LiteRef!BuildAdrs(0, tree, LiteRef!FORS_TREE, 0)
           first == [adrsLeaf |-> fresh, adrsTree |-> fresh, roots |-> <<>>]
           Root(n) == RootOf(seed, tree, indices, sig, n)
<1>01. fresh \in ForsAdrs(tree, {0}) /\ fresh \in ForsAdrs(tree, Nat)
  BY DEF ForsAdrs, LiteRef!BuildAdrs, LiteRef!FORS_TREE
<1>02. A \in Nat /\ 2^A \in Nat \ {0}
  BY LiteSizes, PowNat
<1> DEFINE L == LiteRef!Loop(K)
           E(x, y) == RefTree(seed, indices, sig, x, y)
           It(iter) == iter = [s \in SUBSET DOMAIN L |->
                          IF s = {} THEN first
                          ELSE E(iter[s \ {LiteRef!Max(s)}], L[LiteRef!Max(s)])]
           c == CHOOSE iter : It(iter)
           S == [adrsLeaf : ForsAdrs(tree, {0}), adrsTree : ForsAdrs(tree, Nat), roots : Seq(V)]
           G == [j \in 1 .. K |-> [x \in S |-> E(x, L[j])]]
<1>1. RefRoots(seed, tree, indices, sig) = c[DOMAIN L].roots
  BY Zenon DEF RefRoots, LiteRef!FoldLeft, LiteRef!MapThenFoldSet
<1>2. DOMAIN L = 1 .. K /\ \A j \in 1 .. K : L[j] = j
  BY DEF LiteRef!Loop
<1>3. \A s : LiteRef!Max(s) = Top(s)
  BY Zenon DEF LiteRef!Max, Top
<1>03. \A j \in 1 .. K : \A x \in S :
          E(x, j) \in S /\ E(x, j).roots = Append(x.roots, Root(j)) /\ Root(j) \in V
  <2> SUFFICES ASSUME NEW j \in 1 .. K, NEW x \in S
               PROVE  E(x, j) \in S /\ E(x, j).roots = Append(x.roots, Root(j)) /\ Root(j) \in V
    OBVIOUS
  <2> HIDE DEF L, c, It, G, fresh
  <2> DEFINE z == (j - 1) * 2^A + indices[j]
             leaf == [x.adrsLeaf EXCEPT !.chain = z]
             g == ForsPart(sig, j)
             v == LiteRef!ChainHash(seed, leaf, <<g[1]>>)
             aT == x.adrsTree
             ix == indices[j]
             p == ForsPath(sig, j)
             top == RefTop(seed, j, g, aT, ix, v)
  <2>1. E(x, j) = [adrsLeaf |-> leaf, adrsTree |-> top.adrs, roots |-> Append(x.roots, top.node)]
    BY DEF RefTree
  <2>2. x.adrsLeaf \in ForsAdrs(tree, {0}) /\ x.adrsTree \in ForsAdrs(tree, Nat)
        /\ x.roots \in Seq(V)
    OBVIOUS
  <2>3. z \in Nat
    <3>1. indices[j] \in Nat /\ j - 1 \in Nat
      OBVIOUS
    <3>. QED  BY <1>02, <3>1
  <2>4. z = (j - 1) * 2^(A - 0) + indices[j]
    BY <1>02
  <2> HIDE DEF z, E
  <2>5. leaf \in ForsAdrs(tree, {0}) /\ Six(leaf, 0, tree, 3, 0, z, 0)
    <3>1. leaf \in ForsAdrs(tree, {0}) /\ leaf.chain = z
      BY <2>2, <2>3 DEF ForsAdrs
    <3>2. \A b \in ForsAdrs(tree, {0}) : b.layer = 0 /\ b.tree = tree /\ b.type = 3
                                          /\ b.keypair = 0 /\ b.hash = 0
      BY DEF ForsAdrs
    <3>. QED  BY <3>1, <3>2 DEF Six
  <2> HIDE DEF leaf
  <2>6. /\ g[1] = sig[(j - 1) * (1 + A) + 1]
        /\ Len(ForsPath(sig, j)) = A /\ \A h \in 1 .. A : ForsPath(sig, j)[h] = g[h + 1]
    BY PartsOfFors
  <2> DEFINE m == <<g[1]>>
  <2>7. v = HashAt(seed, 0, tree, 3, 0, z, 0, m)
    <3> HIDE DEF m
    <3>1. v = LiteRef!ChainHash(seed, leaf, m)
      BY DEF m
    <3>. QED  BY <2>5, <3>1, HashOfWords
  <2>8. v = Lite!ForsHash(Lite!ForsTree(seed, tree, j - 1), 0, indices[j], m)
    <3> HIDE DEF m, v
    <3>. QED  BY <2>4, <2>7, ForsWords
  <2>9. v \in V
    BY DEF LiteRef!ChainHash, HashFits
  <2>10. Root(j) = Lite!Fors!Climb(Lite!ForsTree(seed, tree, j - 1), v, indices[j], ForsPath(sig, j))
    BY <2>6, <2>8 DEF RootOf
  <2> HIDE DEF g, v, Root, S
  <2>11. top.adrs \in ForsAdrs(tree, Nat) /\ top.node = Root(j) /\ top.node \in V
    <3>1. ix \in Nat /\ aT \in ForsAdrs(tree, Nat)
      BY <2>2
    <3>2. Len(p) = A /\ \A h \in 1 .. A : p[h] = g[h + 1]
      BY <2>6
    <3>3. Root(j) = Lite!Fors!Climb(Lite!ForsTree(seed, tree, j - 1), v, ix, p)
      BY <2>10
    <3> HIDE DEF ix, aT, p
    <3>4. /\ RefTop(seed, j, g, aT, ix, v).adrs \in ForsAdrs(tree, Nat)
          /\ RefTop(seed, j, g, aT, ix, v).node
                = Lite!Fors!Climb(Lite!ForsTree(seed, tree, j - 1), v, ix, p)
          /\ RefTop(seed, j, g, aT, ix, v).node \in V
      BY <2>9, <3>1, <3>2, RefForsTree
    <3>. QED  BY <3>3, <3>4
  <2> HIDE DEF top
  <2>12. Append(x.roots, top.node) \in Seq(V)
    BY <2>2, <2>11
  <2>13. E(x, j) \in S
    BY <2>1, <2>5, <2>11, <2>12 DEF S
  <2>. QED  BY <2>1, <2>11, <2>13
<1>4. \A j \in 1 .. K : \A x \in S : E(x, L[j]) \in S
  <2> SUFFICES ASSUME NEW j \in 1 .. K, NEW x \in S PROVE E(x, j) \in S
    BY <1>2
  <2>. QED  BY <1>03
<1>5. first \in S /\ K \in Nat
  BY <1>01, LiteSizes
<1>06. first.roots = <<>> /\ \A x \in S : x.roots \in Seq(V)
  OBVIOUS
<1> HIDE DEF E, L, S, first
<1>6. \A j \in 1 .. K : \A x \in S : G[j][x] = E(x, L[j])
  OBVIOUS
<1>7. PICK t : FoldTable(t, S, K, first, G)
  <2>1. ClosedUnder(S, 0, K, G)
    BY <1>4, <1>6 DEF ClosedUnder
  <2> HIDE DEF G
  <2>. QED  BY <1>5, <2>1, FoldTableExists
<1> HIDE DEF G
<1>8. It(t)
  <2>1. ASSUME NEW s \in SUBSET (1 .. K)
        PROVE  t[s] = IF s = {} THEN first
                      ELSE E(t[s \ {LiteRef!Max(s)}], L[LiteRef!Max(s)])
    <3>1. CASE s = {}
      BY <1>7, <3>1 DEF FoldTable
    <3>2. CASE s # {}
      <4>1. Top(s) \in 1 .. K /\ s \ {Top(s)} \in SUBSET (1 .. K)
        BY <1>5, <3>2, TopIs
      <4>2. t[s] = G[Top(s)][t[s \ {Top(s)}]] /\ t[s \ {Top(s)}] \in S
        BY <1>7, <3>2, <4>1 DEF FoldTable
      <4>. QED  BY <1>3, <1>6, <3>2, <4>1, <4>2
    <3>. QED  BY <3>1, <3>2
  <2>2. t = [s \in SUBSET DOMAIN L |-> t[s]]
    BY <1>2, <1>7 DEF FoldTable
  <2>. QED  BY <1>2, <2>1, <2>2
<1>9. It(c)
  <2> HIDE DEF It
  <2>. QED  BY <1>8
<1> HIDE DEF c
<1>10. /\ c[{}] = first
       /\ \A j \in 1 .. K : c[1 .. j] = E(c[1 .. j - 1], L[j])
  <2>1. \A s \in SUBSET (1 .. K) :
           c[s] = IF s = {} THEN first ELSE E(c[s \ {Top(s)}], L[Top(s)])
    BY <1>2, <1>3, <1>9
  <2>2. {} \in SUBSET (1 .. K)
    OBVIOUS
  <2>3. ASSUME NEW j \in 1 .. K PROVE c[1 .. j] = E(c[1 .. j - 1], L[j])
    <3>1. 1 .. j \in SUBSET (1 .. K) /\ 1 .. j # {} /\ Top(1 .. j) = j
          /\ (1 .. j) \ {j} = 1 .. j - 1
      BY <1>5, TopIs
    <3>. QED  BY <2>1, <3>1, Zenon
  <2>. QED  BY <2>1, <2>2, <2>3
<1> HIDE DEF Root
<1> DEFINE r(j) == c[1 .. j].roots
           X == {j \in 0 .. K : /\ c[1 .. j] \in S /\ r(j) \in Seq(V) /\ Len(r(j)) = j
                                /\ \A i \in 1 .. j : r(j)[i] = Root(i)}
<1>12. 0 \in X /\ 0 \in Nat
  <2>1. 1 .. 0 = {} /\ <<>> \in Seq(V) /\ Len(<<>>) = 0
    OBVIOUS
  <2>. QED  BY <1>5, <1>10, <1>06, <2>1
<1>13. \A j \in 0 + 1 .. K : j - 1 \in X => j \in X
  <2> SUFFICES ASSUME NEW j \in 1 .. K, j - 1 \in X PROVE j \in X
    BY <1>5
  <2> DEFINE x == c[1 .. j - 1]
             q == r(j - 1)
  <2>1. j - 1 \in 0 .. K /\ j \in 0 .. K /\ j - 1 + 1 = j
    BY <1>5
  <2>2. x \in S /\ q \in Seq(V) /\ Len(q) = j - 1 /\ \A i \in 1 .. j - 1 : q[i] = Root(i)
    OBVIOUS
  <2>3. c[1 .. j] = E(x, j)
    BY <1>2, <1>10
  <2>4. x.roots = q
    OBVIOUS
  <2> HIDE DEF x, q
  <2>5. c[1 .. j] \in S /\ r(j) = Append(q, Root(j)) /\ Root(j) \in V
    BY <1>03, <2>2, <2>3, <2>4
  <2>6. r(j) \in Seq(V) /\ Len(r(j)) = j
    BY <2>1, <2>2, <2>5
  <2>7. \A i \in 1 .. j : r(j)[i] = Root(i)
    <3> SUFFICES ASSUME NEW i \in 1 .. j PROVE Append(q, Root(j))[i] = Root(i)
      BY <2>5
    <3>1. CASE i = j
      BY <2>1, <2>2, <3>1
    <3>2. CASE i # j
      <4>1. i \in 1 .. j - 1 /\ i \in 1 .. Len(q)
        BY <2>2, <3>2
      <4>2. Append(q, Root(j))[i] = q[i]
        BY <2>2, <4>1
      <4>. QED  BY <2>2, <4>1, <4>2
    <3>. QED  BY <3>1, <3>2
  <2>. QED  BY <2>1, <2>5, <2>6, <2>7
<1>14. 0 .. K \subseteq X
  <2> HIDE DEF X
  <2>. QED  BY <1>5, <1>12, <1>13, Upward
<1>15. r(K) \in Seq(V) /\ Len(r(K)) = K /\ \A i \in 1 .. K : r(K)[i] = Root(i)
  <2>1. K \in X
    BY <1>5, <1>14
  <2>. QED  BY <2>1
<1>16. RefRoots(seed, tree, indices, sig) = r(K)
  BY <1>1, <1>2
<1> HIDE DEF r
<1>17. r(K) = [i \in 1 .. K |-> Root(i)]
  <2>1. DOMAIN r(K) = 1 .. K /\ r(K) = [i \in DOMAIN r(K) |-> r(K)[i]]
    BY <1>15, LenProperties
  <2>. QED  BY <1>15, <2>1
<1>. QED  BY <1>16, <1>17 DEF Root

(* Both verifiers find the same root of the forest.                        *)
LEMMA RefFors ==
    ASSUME HashFits, NEW seed, NEW tree, NEW indices, \A n \in 1 .. K : indices[n] \in Nat,
           NEW T, NEW sig \in Seq(T), Len(sig) = K * (1 + A)
    PROVE  /\ LiteRef!forsRootFromSig(seed, tree, indices, sig)
                 = Lite!ForsRootFromSig(seed, tree, indices, sig)
           /\ Lite!ForsRootFromSig(seed, tree, indices, sig) \in V
<1>1. LiteRef!forsRootFromSig(seed, tree, indices, sig)
         = LiteRef!ChainHash(seed, LiteRef!BuildAdrs(0, tree, LiteRef!FORS_ROOTS, 0),
                             RefRoots(seed, tree, indices, sig))
  BY Zenon DEF LiteRef!forsRootFromSig, RefRoots, RefTree, RefTop, RefUp, ForsPut, ForsPart
<1>2. Lite!ForsRootFromSig(seed, tree, indices, sig)
         = Lite!ChainHash(seed, Lite!BuildAdrs(0, tree, Lite!FORS_ROOTS, 0),
                          [n \in 1 .. K |-> RootOf(seed, tree, indices, sig, n)])
  BY DEF Lite!ForsRootFromSig, Lite!ForsRoots, RootOf, ForsPath
<1>3. RefRoots(seed, tree, indices, sig) = [n \in 1 .. K |-> RootOf(seed, tree, indices, sig, n)]
  BY RefForest
<1> DEFINE m == RefRoots(seed, tree, indices, sig)
           a == LiteRef!BuildAdrs(0, tree, LiteRef!FORS_ROOTS, 0)
           b == Lite!BuildAdrs(0, tree, Lite!FORS_ROOTS, 0)
<1>4. Six(a, 0, tree, 4, 0, 0, 0) /\ Six(b, 0, tree, 4, 0, 0, 0)
  BY DEF Six, LiteRef!BuildAdrs, LiteRef!FORS_ROOTS, Lite!BuildAdrs, Lite!FORS_ROOTS
<1>5. Lite!ForsRootFromSig(seed, tree, indices, sig) = Lite!ChainHash(seed, b, m)
  BY <1>2, <1>3
<1>6. LiteRef!forsRootFromSig(seed, tree, indices, sig) = LiteRef!ChainHash(seed, a, m)
  BY <1>1
<1> HIDE DEF a, b, m
<1>7. LiteRef!ChainHash(seed, a, m) = Lite!ChainHash(seed, b, m)
  BY <1>4, HashOfWords
<1>8. Lite!ChainHash(seed, b, m) \in V
  BY DEF Lite!ChainHash, HashFits
<1>. QED  BY <1>5, <1>6, <1>7, <1>8

(* A number with j blocks of a bits shifted out.                           *)
Shifted(v, a, j) == v \div 2^(a * j)

(* Once more by a places.                                                  *)
LEMMA ShiftedOnce ==
    ASSUME NEW v \in Nat, NEW a \in Nat, NEW j \in Nat
    PROVE  Shifted(v, a, j) \in Nat /\ Shifted(v, a, j) \div 2^a = Shifted(v, a, j + 1)
<1>1. PICK k \in Nat : k = a * j
  OBVIOUS
<1>2. a * (j + 1) = k + a
  BY <1>1
<1>3. 2^(k + a) = 2^k * 2^a /\ 2^k \in Nat \ {0} /\ 2^a \in Nat \ {0}
  BY PowAdd, PowNat
<1>4. \A x, y \in Nat \ {0} : v \div x \in Nat /\ v \div (x * y) = (v \div x) \div y
  BY Split
<1>5. v \div 2^k \in Nat /\ v \div 2^(k + a) = (v \div 2^k) \div 2^a
  BY <1>3, <1>4
<1>6. Shifted(v, a, j) = v \div 2^k /\ Shifted(v, a, j + 1) = v \div 2^(k + a)
  BY <1>1, <1>2, Zenon DEF Shifted
<1>. QED  BY <1>5, <1>6

(* The loop that takes the indices from the low end.                       *)
RefTake(s, i) == [v |-> s.v \div 2^A, fors |-> <<s.v % 2^A>> \o s.fors]
RefIndices(v) == LiteRef!FoldLeft(LAMBDA s, i : RefTake(s, i), [v |-> v, fors |-> <<>>],
                                  LiteRef!Loop(K)).fors

(* It finds the indices that the other verifier reads in place.            *)
LEMMA RefIndicesAre ==
    ASSUME NEW w \in Nat
    PROVE  /\ RefIndices(w) = [n \in 1 .. K |-> (w \div 2^(A * (K - n))) % 2^A]
           /\ \A n \in 1 .. K : RefIndices(w)[n] \in Nat
<1> DEFINE first == [v |-> w, fors |-> <<>>]
           g(m) == w \div 2^(A * m)
           b == 2^A
<1>01. A \in Nat /\ b \in Nat \ {0}
  BY LiteSizes, PowNat
<1>02. \A m \in Nat : g(m) \in Nat /\ g(m) \div b = g(m + 1) /\ g(m) % b \in Nat
  <2> SUFFICES ASSUME NEW m \in Nat PROVE g(m) \in Nat /\ g(m) \div b = g(m + 1) /\ g(m) % b \in Nat
    OBVIOUS
  <2>0. Shifted(w, A, m) \in Nat /\ Shifted(w, A, m) \div 2^A = Shifted(w, A, m + 1)
    BY <1>01, ShiftedOnce
  <2>1. g(m) \in Nat /\ g(m) \div b = g(m + 1)
    BY <2>0 DEF Shifted
  <2> HIDE DEF g, b
  <2>. QED  BY <1>01, <2>1
<1>03. g(0) = w
  <2>1. A * 0 = 0 /\ 2^0 = 1 /\ w \div 1 = w
    BY <1>01
  <2>2. 2^(A * 0) = 1
    BY <2>1
  <2>. QED  BY <2>1, <2>2
<1> DEFINE L == LiteRef!Loop(K)
           E(x, y) == RefTake(x, y)
           It(iter) == iter = [s \in SUBSET DOMAIN L |->
                          IF s = {} THEN first
                          ELSE E(iter[s \ {LiteRef!Max(s)}], L[LiteRef!Max(s)])]
           c == CHOOSE iter : It(iter)
           S == [v : Nat, fors : Seq(Nat)]
           G == [j \in 1 .. K |-> [x \in S |-> E(x, L[j])]]
<1>1. RefIndices(w) = c[DOMAIN L].fors
  BY Zenon DEF RefIndices, LiteRef!FoldLeft, LiteRef!MapThenFoldSet
<1>2. DOMAIN L = 1 .. K /\ \A j \in 1 .. K : L[j] = j
  BY DEF LiteRef!Loop
<1>3. \A s : LiteRef!Max(s) = Top(s)
  BY Zenon DEF LiteRef!Max, Top
<1>04. \A j : \A x \in S :
          /\ E(x, j) \in S /\ E(x, j).v = x.v \div b
          /\ E(x, j).fors = <<x.v % b>> \o x.fors
          /\ x.v \in Nat /\ x.fors \in Seq(Nat) /\ x.v % b \in Nat
  <2> SUFFICES ASSUME NEW j, NEW x \in S
               PROVE  /\ E(x, j) \in S /\ E(x, j).v = x.v \div b
                      /\ E(x, j).fors = <<x.v % b>> \o x.fors
                      /\ x.v \in Nat /\ x.fors \in Seq(Nat) /\ x.v % b \in Nat
    OBVIOUS
  <2> HIDE DEF L, c, It, G
  <2>1. x.v \in Nat /\ x.fors \in Seq(Nat)
    OBVIOUS
  <2>2. E(x, j) = [v |-> x.v \div b, fors |-> <<x.v % b>> \o x.fors]
    BY DEF RefTake
  <2> HIDE DEF b, E
  <2>3. x.v \div b \in Nat /\ x.v % b \in Nat
    BY <1>01, <2>1
  <2>4. <<x.v % b>> \o x.fors \in Seq(Nat)
    BY <2>1, <2>3
  <2>. QED  BY <2>1, <2>2, <2>3, <2>4
<1>4. \A j \in 1 .. K : \A x \in S : E(x, L[j]) \in S
  <2>. QED  BY <1>04
<1>5. first \in S /\ K \in Nat
  BY LiteSizes
<1>06. first.fors = <<>> /\ first.v = w
  OBVIOUS
<1> HIDE DEF E, L, S, first, g, b
<1>6. \A j \in 1 .. K : \A x \in S : G[j][x] = E(x, L[j])
  OBVIOUS
<1>7. PICK t : FoldTable(t, S, K, first, G)
  <2>1. ClosedUnder(S, 0, K, G)
    BY <1>4, <1>6 DEF ClosedUnder
  <2> HIDE DEF G
  <2>. QED  BY <1>5, <2>1, FoldTableExists
<1> HIDE DEF G
<1>8. It(t)
  <2>1. ASSUME NEW s \in SUBSET (1 .. K)
        PROVE  t[s] = IF s = {} THEN first
                      ELSE E(t[s \ {LiteRef!Max(s)}], L[LiteRef!Max(s)])
    <3>1. CASE s = {}
      BY <1>7, <3>1 DEF FoldTable
    <3>2. CASE s # {}
      <4>1. Top(s) \in 1 .. K /\ s \ {Top(s)} \in SUBSET (1 .. K)
        BY <1>5, <3>2, TopIs
      <4>2. t[s] = G[Top(s)][t[s \ {Top(s)}]] /\ t[s \ {Top(s)}] \in S
        BY <1>7, <3>2, <4>1 DEF FoldTable
      <4>. QED  BY <1>3, <1>6, <3>2, <4>1, <4>2
    <3>. QED  BY <3>1, <3>2
  <2>2. t = [s \in SUBSET DOMAIN L |-> t[s]]
    BY <1>2, <1>7 DEF FoldTable
  <2>. QED  BY <1>2, <2>1, <2>2
<1>9. It(c)
  <2> HIDE DEF It
  <2>. QED  BY <1>8
<1> HIDE DEF c
<1>10. /\ c[{}] = first
       /\ \A j \in 1 .. K : c[1 .. j] = E(c[1 .. j - 1], L[j])
  <2>1. \A s \in SUBSET (1 .. K) :
           c[s] = IF s = {} THEN first ELSE E(c[s \ {Top(s)}], L[Top(s)])
    BY <1>2, <1>3, <1>9
  <2>2. {} \in SUBSET (1 .. K)
    OBVIOUS
  <2>3. ASSUME NEW j \in 1 .. K PROVE c[1 .. j] = E(c[1 .. j - 1], L[j])
    <3>1. 1 .. j \in SUBSET (1 .. K) /\ 1 .. j # {} /\ Top(1 .. j) = j
          /\ (1 .. j) \ {j} = 1 .. j - 1
      BY <1>5, TopIs
    <3>. QED  BY <2>1, <3>1, Zenon
  <2>. QED  BY <2>1, <2>2, <2>3
<1> DEFINE r(j) == c[1 .. j].fors
           X == {j \in 0 .. K : /\ c[1 .. j] \in S /\ c[1 .. j].v = g(j)
                                /\ r(j) \in Seq(Nat) /\ Len(r(j)) = j
                                /\ \A i \in 1 .. j : r(j)[i] = g(j - i) % b}
<1>12. 0 \in X /\ 0 \in Nat
  <2>1. 1 .. 0 = {} /\ <<>> \in Seq(Nat) /\ Len(<<>>) = 0
    OBVIOUS
  <2>2. c[1 .. 0] = first
    BY <1>10, <2>1
  <2>3. c[1 .. 0] \in S /\ c[1 .. 0].v = g(0)
    BY <1>5, <1>03, <1>06, <2>2
  <2>4. r(0) = <<>>
    BY <1>06, <2>2
  <2> HIDE DEF r
  <2>5. r(0) \in Seq(Nat) /\ Len(r(0)) = 0
    BY <2>1, <2>4
  <2>. QED  BY <1>5, <2>1, <2>3, <2>5
<1>13. \A j \in 0 + 1 .. K : j - 1 \in X => j \in X
  <2> SUFFICES ASSUME NEW j \in 1 .. K, j - 1 \in X PROVE j \in X
    BY <1>5
  <2> DEFINE x == c[1 .. j - 1]
             q == r(j - 1)
  <2>1. j - 1 \in 0 .. K /\ j \in 0 .. K /\ j - 1 + 1 = j /\ j - 1 \in Nat
    BY <1>5
  <2>2. /\ x \in S /\ q \in Seq(Nat) /\ Len(q) = j - 1 /\ x.v = g(j - 1)
        /\ \A i \in 1 .. j - 1 : q[i] = g(j - 1 - i) % b
    OBVIOUS
  <2>3. c[1 .. j] = E(x, j)
    BY <1>2, <1>10
  <2>4. x.fors = q
    OBVIOUS
  <2> HIDE DEF x, q, X
  <2>05. /\ E(x, j) \in S /\ E(x, j).v = g(j - 1) \div b
         /\ E(x, j).fors = <<x.v % b>> \o x.fors
         /\ x.v % b \in Nat
    BY <1>04, <2>2
  <2>06. r(j) = <<g(j - 1) % b>> \o q
    BY <2>05, <2>2, <2>3, <2>4, Zenon
  <2>5. c[1 .. j] \in S /\ r(j) = <<g(j - 1) % b>> \o q /\ c[1 .. j].v = g(j - 1) \div b
        /\ g(j - 1) % b \in Nat
    BY <2>05, <2>06, <2>2, <2>3, Zenon
  <2> HIDE DEF r
  <2>6. c[1 .. j].v = g(j)
    BY <1>02, <2>1, <2>5
  <2> DEFINE e == <<g(j - 1) % b>>
  <2>7. e \in Seq(Nat) /\ Len(e) = 1 /\ e[1] = g(j - 1) % b
    BY <2>5
  <2> HIDE DEF e
  <2>8. /\ e \o q \in Seq(Nat) /\ Len(e \o q) = j
        /\ (e \o q)[1] = g(j - 1) % b
        /\ \A i \in 1 .. j - 1 : (e \o q)[1 + i] = q[i]
    <3>0. e \in Seq(Nat) /\ q \in Seq(Nat)
      BY <2>2, <2>7
    <3>1. /\ \A i \in 1 .. Len(e) : (e \o q)[i] = e[i]
          /\ \A i \in 1 .. Len(q) : (e \o q)[Len(e) + i] = q[i]
      BY <3>0, ConcatParts
    <3>2. e \o q \in Seq(Nat) /\ Len(e \o q) = Len(e) + Len(q)
      BY <3>0
    <3>. QED  BY <2>1, <2>2, <2>7, <3>1, <3>2
  <2>9. \A i \in 1 .. j : r(j)[i] = g(j - i) % b
    <3> SUFFICES ASSUME NEW i \in 1 .. j PROVE (e \o q)[i] = g(j - i) % b
      BY <2>5 DEF e
    <3>1. CASE i = 1
      BY <2>8, <3>1
    <3>2. CASE i # 1
      <4>1. PICK k \in 1 .. j - 1 : i = 1 + k
        BY <2>1, <3>2
      <4>2. (e \o q)[i] = q[k]
        BY <2>8, <4>1
      <4>3. j - 1 - k = j - i
        BY <4>1
      <4>. QED  BY <2>2, <4>1, <4>2, <4>3
    <3>. QED  BY <3>1, <3>2
  <2>. QED  BY <2>1, <2>5, <2>6, <2>8, <2>9 DEF e, X
<1>14. 0 .. K \subseteq X
  <2> HIDE DEF X
  <2>. QED  BY <1>5, <1>12, <1>13, Upward
<1>15. r(K) \in Seq(Nat) /\ Len(r(K)) = K /\ \A i \in 1 .. K : r(K)[i] = g(K - i) % b
  <2>1. K \in X
    BY <1>5, <1>14
  <2>. QED  BY <2>1
<1>16. RefIndices(w) = r(K)
  BY <1>1, <1>2
<1> HIDE DEF r
<1>17. r(K) = [i \in 1 .. K |-> g(K - i) % b]
  <2>1. DOMAIN r(K) = 1 .. K /\ r(K) = [i \in DOMAIN r(K) |-> r(K)[i]]
    BY <1>15, LenProperties
  <2>. QED  BY <1>15, <2>1
<1>18. \A n \in 1 .. K : r(K)[n] \in Nat
  BY <1>15, ElementOfSeq
<1>. QED  BY <1>16, <1>17, <1>18 DEF g, b

(* Both take the same tree, leaf and indices from a digest.                *)
LEMMA RefSplit ==
    ASSUME NEW digest \in V
    PROVE  LET at == Lite!SplitDigest(digest)
               to == LiteRef!splitDigest(digest)
           IN  /\ to.fors = at.fors /\ to.leafIdx = at.leaf /\ to.treeIdx = at.tree
               /\ \A n \in 1 .. K : at.fors[n] \in Nat
<1> DEFINE width == (K * A + 7) \div 8
           w == Lite!Bytes(digest, 0, width)
           path == Lite!Bytes(digest, width, (Lite!H + 7) \div 8) % 2^Lite!H
<1>1. w \in Nat
  <2>1. K * A \in Nat /\ N \in Nat
    BY LiteSizes, Sizes
  <2>2. width \in Nat
    <3>1. \A x \in Nat : (x + 7) \div 8 \in Nat
      OBVIOUS
    <3>. QED  BY <2>1, <3>1
  <2>3. width <= N
    <3>1. (D * H_PRIME + 7) \div 8 \in Nat
      <4>1. D * H_PRIME \in Nat
        BY LiteSizes
      <4>2. \A x \in Nat : (x + 7) \div 8 \in Nat
        OBVIOUS
      <4>. QED  BY <4>1, <4>2
    <3>2. width + (D * H_PRIME + 7) \div 8 <= N
      BY SignaturesAssumption
    <3> HIDE DEF width
    <3>. QED  BY <2>1, <2>2, <3>1, <3>2
  <2> HIDE DEF width
  <2>4. 8 * (N - 0 - width) \in Nat /\ 8 * width \in Nat
    BY <2>1, <2>2, <2>3
  <2>5. 2^(8 * (N - 0 - width)) \in Nat \ {0} /\ 2^(8 * width) \in Nat \ {0}
    BY <2>4, PowNat
  <2>6. \A x, y \in Nat \ {0} : (digest \div x) % y \in Nat
    BY LiteSizes
  <2>. QED  BY <2>5, <2>6 DEF Lite!Bytes
<1>2. Lite!SplitDigest(digest)
         = [fors |-> [n \in 1 .. K |-> (w \div 2^(A * (K - n))) % 2^A],
            leaf |-> path % 2^H_PRIME,
            tree |-> (path \div 2^H_PRIME) % 2^(Lite!H - H_PRIME)]
  BY DEF Lite!SplitDigest
<1>3. LiteRef!splitDigest(digest)
         = [fors |-> RefIndices(w),
            leafIdx |-> path % 2^H_PRIME,
            treeIdx |-> (path \div 2^H_PRIME) % 2^(Lite!H - H_PRIME)]
  BY Zenon DEF LiteRef!splitDigest, LiteRef!Bytes, Lite!Bytes, LiteRef!H, Lite!H, RefIndices, RefTake
<1> HIDE DEF w, path
<1>4. /\ RefIndices(w) = [n \in 1 .. K |-> (w \div 2^(A * (K - n))) % 2^A]
      /\ \A n \in 1 .. K : RefIndices(w)[n] \in Nat
  BY <1>1, RefIndicesAre
<1>. QED  BY <1>2, <1>3, <1>4

(* The parts of a packed signature.                                        *)
LEMMA RefUnpack ==
    ASSUME NEW S, NEW sig \in Seq(S), Len(sig) = Lite!SIG_LEN
    PROVE  LET fors == SubSeq(sig, 1, Lite!FORS_LEN)
               ht   == SubSeq(sig, Lite!FORS_LEN + 1, Lite!SIG_LEN)
           IN  /\ fors \in Seq(S) /\ Len(fors) = K * (1 + A)
               /\ ht \in Seq(S) /\ Len(ht) = D * HtLen
               /\ LiteRef!unpackSignature(sig).fors = fors
               /\ \A j \in 1 .. D : LiteRef!unpackSignature(sig).ht[j]
                                       = [wotsSig |-> PointsOf(ht, j), authPath |-> PathOf(ht, j)]
<1> DEFINE fl == Lite!FORS_LEN
           hl == D * HtLen
           fors == SubSeq(sig, 1, fl)
           ht == SubSeq(sig, fl + 1, Lite!SIG_LEN)
<1>1. /\ Lite!LEN \in Nat /\ H_PRIME \in Nat /\ HtLen = Lite!LEN + H_PRIME /\ D \in Nat \ {0}
      /\ A \in Nat /\ K \in Nat \ {0} /\ HtLen \in Nat
  BY LiteSizes DEF HtLen
<1>2. fl \in Nat /\ hl \in Nat /\ fl = K * (1 + A)
  BY <1>1 DEF Lite!FORS_LEN
<1>3. Lite!SIG_LEN = fl + hl
  BY DEF Lite!SIG_LEN, HtLen
<1>4. LiteRef!FORS_LEN = fl /\ LiteRef!LEN = Lite!LEN
  BY DEF LiteRef!FORS_LEN, Lite!FORS_LEN, LiteRef!LEN, Lite!LEN, LiteRef!LEN_1, Lite!LEN_1
<1> DEFINE off(j) == fl + (j - 1) * HtLen
<1>5. LiteRef!unpackSignature(sig)
         = [fors |-> fors,
            ht |-> [j \in 1 .. D |->
                      [wotsSig  |-> SubSeq(sig, off(j) + 1, off(j) + Lite!LEN),
                       authPath |-> SubSeq(sig, off(j) + Lite!LEN + 1, off(j + 1))]]]
  BY <1>4 DEF LiteRef!unpackSignature, HtLen
<1>6. fors \in Seq(S) /\ Len(fors) = fl
  <2> HIDE DEF fl, hl
  <2>1. 0 \in Nat /\ 0 + fl <= Len(sig) /\ 0 + 0 <= fl
    BY <1>2, <1>3
  <2>2. SubSeq(sig, 0 + 1, 0 + fl) \in Seq(S) /\ Len(SubSeq(sig, 0 + 1, 0 + fl)) = fl
    BY <1>2, <2>1, CutOfCut
  <2>3. 0 + 1 = 1 /\ 0 + fl = fl
    BY <1>2
  <2>. QED  BY <2>2, <2>3
<1>7. ht = SubSeq(sig, fl + 1, fl + hl)
  BY <1>3
<1>8. ht \in Seq(S) /\ Len(ht) = hl
  <2> HIDE DEF fl, hl
  <2>1. fl + hl <= Len(sig) /\ 0 \in Nat /\ 0 + 0 <= hl
    BY <1>2, <1>3
  <2>2. SubSeq(sig, fl + 1, fl + hl) \in Seq(S) /\ Len(SubSeq(sig, fl + 1, fl + hl)) = hl
    BY <1>2, <2>1, CutOfCut
  <2>. QED  BY <1>7, <2>2
<1>9. ASSUME NEW j \in 1 .. D
      PROVE  /\ SubSeq(sig, off(j) + 1, off(j) + Lite!LEN) = PointsOf(ht, j)
             /\ SubSeq(sig, off(j) + Lite!LEN + 1, off(j + 1)) = PathOf(ht, j)
  <2> DEFINE b == (j - 1) * HtLen
  <2>1. b \in Nat /\ b + HtLen <= hl
    <3> HIDE DEF ht
    <3>. QED  BY <1>8, PartsOfHt
  <2>2. off(j) = fl + b /\ off(j + 1) = fl + b + HtLen
    <3>1. j + 1 - 1 = j /\ j - 1 \in Nat
      OBVIOUS
    <3>2. \A x \in Nat : (x + 1) * HtLen = x * HtLen + HtLen
      BY <1>1
    <3>3. (j - 1 + 1) * HtLen = b + HtLen /\ j - 1 + 1 = j
      BY <3>1, <3>2
    <3>4. j * HtLen = b + HtLen
      BY <3>3
    <3> HIDE DEF b, fl
    <3>5. off(j + 1) = fl + (b + HtLen)
      BY <3>1, <3>4
    <3>. QED  BY <1>1, <1>2, <2>1, <3>5 DEF b
  <2>3. PointsOf(ht, j) = SubSeq(ht, b + 1, b + Lite!LEN)
        /\ PathOf(ht, j) = SubSeq(ht, b + Lite!LEN + 1, b + HtLen)
    BY DEF PointsOf, PathOf
  <2> HIDE DEF b, off, fl, hl, ht
  <2>4. fl + hl <= Len(sig) /\ b + Lite!LEN <= hl
    BY <1>1, <1>2, <1>3, <2>1
  <2>5. SubSeq(ht, b + 1, b + Lite!LEN) = SubSeq(sig, fl + b + 1, fl + b + Lite!LEN)
    BY <1>1, <1>2, <1>7, <2>1, <2>4, CutOfCut
  <2>6. PICK e \in Nat : e = b + Lite!LEN
    BY <1>1, <2>1
  <2>7. e + H_PRIME <= hl /\ e + H_PRIME = b + HtLen
        /\ fl + e + H_PRIME = fl + b + HtLen /\ fl + e = fl + b + Lite!LEN
    BY <1>1, <1>2, <2>1, <2>6
  <2>8. SubSeq(ht, e + 1, e + H_PRIME) = SubSeq(sig, fl + e + 1, fl + e + H_PRIME)
    BY <1>1, <1>2, <1>7, <2>4, <2>7, CutOfCut
  <2>. QED  BY <2>2, <2>3, <2>5, <2>6, <2>7, <2>8
<1> HIDE DEF off, fors, ht, fl, hl
<1>10. LiteRef!unpackSignature(sig).fors = fors
       /\ \A j \in 1 .. D : LiteRef!unpackSignature(sig).ht[j]
                               = [wotsSig |-> PointsOf(ht, j), authPath |-> PathOf(ht, j)]
  <2> DEFINE q == [j \in 1 .. D |->
                      [wotsSig  |-> SubSeq(sig, off(j) + 1, off(j) + Lite!LEN),
                       authPath |-> SubSeq(sig, off(j) + Lite!LEN + 1, off(j + 1))]]
  <2>1. \A j \in 1 .. D : q[j] = [wotsSig |-> PointsOf(ht, j), authPath |-> PathOf(ht, j)]
    BY <1>9
  <2>2. LiteRef!unpackSignature(sig) = [fors |-> fors, ht |-> q]
    BY <1>5
  <2> HIDE DEF q
  <2>. QED  BY <2>1, <2>2
<1>. QED  BY <1>2, <1>6, <1>8, <1>10 DEF fors, ht, fl, hl

(* What verifyTxSlhDsaSig of local-validator.ts accepts is what the        *)
(* verifier of slh_dsa.move accepts.                                       *)
LEMMA RefLite ==
    ASSUME HashFits, NEW pk, NEW text, NEW S, NEW sig \in Seq(S)
    PROVE  LiteRef!PackedVerify(pk, text, sig) = (Lite!LiteVerify(pk, text, sig) = "true")
<1> DEFINE digest == Sha(<<pk.seed>> \o text)
           at == Lite!SplitDigest(digest)
           to == LiteRef!splitDigest(digest)
           fs == SubSeq(sig, 1, Lite!FORS_LEN)
           hs == SubSeq(sig, Lite!FORS_LEN + 1, Lite!SIG_LEN)
           un == LiteRef!unpackSignature(sig)
           m == Lite!ForsRootFromSig(pk.seed, at.tree, at.fors, fs)
           root == Lite!HtRootFromSig(pk.seed, m, at.tree, at.leaf, hs)
<1>1. LiteRef!SIG_LEN = Lite!SIG_LEN
  BY DEF LiteRef!SIG_LEN, Lite!SIG_LEN, LiteRef!FORS_LEN, Lite!FORS_LEN, LiteRef!LEN, Lite!LEN,
         LiteRef!LEN_1, Lite!LEN_1
<1>2. (Lite!LiteVerify(pk, text, sig) = "true") = (Len(sig) = Lite!SIG_LEN /\ root = pk.root)
  BY DEF Lite!LiteVerify
<1>3. LiteRef!PackedVerify(pk, text, sig)
         = (/\ Len(sig) = Lite!SIG_LEN
            /\ LiteRef!htRootFromSig(pk.seed,
                  LiteRef!forsRootFromSig(pk.seed, to.treeIdx, to.fors, un.fors),
                  to.treeIdx, to.leafIdx, un.ht) = pk.root)
  BY <1>1 DEF LiteRef!PackedVerify, LiteRef!verify
<1>4. ASSUME Len(sig) = Lite!SIG_LEN
      PROVE  LiteRef!htRootFromSig(pk.seed,
                LiteRef!forsRootFromSig(pk.seed, to.treeIdx, to.fors, un.fors),
                to.treeIdx, to.leafIdx, un.ht) = root
  <2>1. /\ to.fors = at.fors /\ to.leafIdx = at.leaf /\ to.treeIdx = at.tree
        /\ \A n \in 1 .. K : at.fors[n] \in Nat
        /\ at.tree \in Nat /\ at.leaf \in 0 .. 2^H_PRIME - 1
    <3>1. digest \in V
      BY DEF HashFits
    <3> HIDE DEF digest
    <3>. QED  BY <3>1, RefSplit, SplitPlaces
  <2>2. /\ fs \in Seq(S) /\ Len(fs) = K * (1 + A)
        /\ hs \in Seq(S) /\ Len(hs) = D * HtLen
        /\ un.fors = fs
        /\ \A j \in 1 .. D : un.ht[j] = [wotsSig |-> PointsOf(hs, j), authPath |-> PathOf(hs, j)]
    BY <1>4, RefUnpack
  <2> HIDE DEF at, to, fs, hs, un
  <2> DEFINE tr == at.tree
             lf == at.leaf
             ix == at.fors
             ly == un.ht
  <2>0. tr \in Nat /\ lf \in 0 .. 2^H_PRIME - 1 /\ \A n \in 1 .. K : ix[n] \in Nat
    BY <2>1
  <2>01. \A j \in 1 .. D : ly[j] = [wotsSig |-> PointsOf(hs, j), authPath |-> PathOf(hs, j)]
    BY <2>2
  <2>02. m = Lite!ForsRootFromSig(pk.seed, tr, ix, fs)
         /\ root = Lite!HtRootFromSig(pk.seed, m, tr, lf, hs)
    OBVIOUS
  <2>03. LiteRef!htRootFromSig(pk.seed,
                LiteRef!forsRootFromSig(pk.seed, to.treeIdx, to.fors, un.fors),
                to.treeIdx, to.leafIdx, un.ht)
          = LiteRef!htRootFromSig(pk.seed, LiteRef!forsRootFromSig(pk.seed, tr, ix, fs), tr, lf, ly)
    BY <2>1, <2>2
  <2> HIDE DEF m, root, tr, lf, ix, ly
  <2>3. LiteRef!forsRootFromSig(pk.seed, tr, ix, fs) = m /\ m \in V
    BY <2>0, <2>02, <2>2, RefFors
  <2>4. LiteRef!htRootFromSig(pk.seed, m, tr, lf, ly)
           = Lite!HtRootFromSig(pk.seed, m, tr, lf, hs)
    BY <2>0, <2>01, <2>2, <2>3, RefHt
  <2>. QED  BY <2>02, <2>03, <2>3, <2>4
<1> HIDE DEF root, to, un
<1>. QED  BY <1>2, <1>3, <1>4
=============================================================================
