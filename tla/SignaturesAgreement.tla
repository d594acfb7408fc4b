------------------------ MODULE SignaturesAgreement ------------------------
(***************************************************************************)
(* The verifiers written in TypeScript and those written in Move accept    *)
(* the same signatures (Agree of Signatures), for every size of hashes,    *)
(* digits and trees that SignaturesAssumption allows and every hash of N   *)
(* bytes (HashFits).                                                       *)
(*                                                                         *)
(* Sections 1 and 2 do for SLH-DSA-SHA2-128s what LiteAgreement does for   *)
(* the smaller schemes, in the same order and by the same argument: one    *)
(* induction per loop of the reference, whose running state is what the    *)
(* Move verifier computes for the position.  Section 3 draws the           *)
(* conclusion for whatever a behaviour brings to the verifiers.            *)
(***************************************************************************)
EXTENDS LiteAgreement

-----------------------------------------------------------------------------
(* 1. Digits, chains, paths and the hypertree.                             *)

(* The loop that reads digits from a running position.                     *)
RefLoad(msg, s) ==
    IF s.bits = 0 THEN [s EXCEPT !.total = msg[s.inIdx + 1], !.inIdx = @ + 1, !.bits = 8]
    ELSE s

(* And one digit is read.                                                  *)
RefDigit(msg, s) ==
    LET t == [RefLoad(msg, s) EXCEPT !.bits = @ - LG_W]
    IN  [t EXCEPT !.out = Append(@, (t.total \div 2^t.bits) % FipsRef!W)]

(* Its states.                                                             *)
Loaded(msg) == {0} \union {msg[k] : k \in Nat}
Reading(msg) ==
    [out : Seq({(x \div 2^b) % FipsRef!W : x \in Loaded(msg), b \in Int}),
     inIdx : Nat, bits : Int, total : Loaded(msg)]

(* One round of it.                                                        *)
LEMMA RefDigitIs ==
    ASSUME NEW msg, NEW s \in Reading(msg)
    PROVE  LET r == RefDigit(msg, s)
           IN  /\ r \in Reading(msg)
               /\ r.out = Append(s.out, (r.total \div 2^r.bits) % FipsRef!W)
               /\ s.bits = 0 => r.total = msg[s.inIdx + 1] /\ r.inIdx = s.inIdx + 1
                                /\ r.bits = 8 - LG_W
               /\ s.bits # 0 => r.total = s.total /\ r.inIdx = s.inIdx
                                /\ r.bits = s.bits - LG_W
<1> DEFINE X == {(x \div 2^b) % FipsRef!W : x \in Loaded(msg), b \in Int}
           R == [out : Seq(X), inIdx : Nat, bits : Int, total : Loaded(msg)]
           l == RefLoad(msg, s)
           t == [l EXCEPT !.bits = @ - LG_W]
           e == (t.total \div 2^t.bits) % FipsRef!W
           r == [t EXCEPT !.out = Append(@, e)]
<1>0. LG_W \in Int
  BY Sizes
<1>1. s \in R /\ \A k \in Nat : msg[k] \in Loaded(msg)
  BY DEF Reading, Loaded
<1>2. \A x \in Loaded(msg), b \in Int : (x \div 2^b) % FipsRef!W \in X
  OBVIOUS
<1> HIDE DEF X
<1>3. /\ l \in R /\ l.out = s.out
      /\ s.bits = 0 => l.total = msg[s.inIdx + 1] /\ l.inIdx = s.inIdx + 1 /\ l.bits = 8
      /\ s.bits # 0 => l = s
  <2>1. s.inIdx + 1 \in Nat
    BY <1>1
  <2>2. msg[s.inIdx + 1] \in Loaded(msg)
    BY <1>1, <2>1
  <2> DEFINE O == Seq(X)
             T == Loaded(msg)
             k == msg[s.inIdx + 1]
             p == s.inIdx + 1
             u == [s EXCEPT !.total = k, !.inIdx = p, !.bits = 8]
  <2>3. s \in [out : O, inIdx : Nat, bits : Int, total : T] /\ k \in T
        /\ p \in Nat /\ 8 \in Int
    BY <1>1, <2>1, <2>2
  <2>4. l = IF s.bits = 0 THEN u ELSE s
    BY DEF l, RefLoad
  <2>5. R = [out : O, inIdx : Nat, bits : Int, total : T]
    OBVIOUS
  <2> HIDE DEF O, T, k, p, R, l
  <2>6. /\ u \in [out : O, inIdx : Nat, bits : Int, total : T]
        /\ u.out = s.out /\ u.total = k /\ u.inIdx = p /\ u.bits = 8
    BY <2>3
  <2> HIDE DEF u
  <2>. QED  BY <1>1, <2>4, <2>5, <2>6 DEF k, p
<1> HIDE DEF l
<1>4. /\ t \in R /\ t.out = l.out /\ t.total = l.total /\ t.inIdx = l.inIdx
      /\ t.bits = l.bits - LG_W
  BY <1>0, <1>3
<1> HIDE DEF t
<1>5. e \in X
  BY <1>2, <1>4
<1> HIDE DEF e
<1>6. /\ r \in R /\ r.out = Append(t.out, e) /\ r.total = t.total /\ r.inIdx = t.inIdx
      /\ r.bits = t.bits
  <2> DEFINE O == Seq(X)
             T == Loaded(msg)
             a == Append(t.out, e)
  <2>1. t \in [out : O, inIdx : Nat, bits : Int, total : T] /\ t.out \in O
    BY <1>4
  <2>2. a \in O
    <3>1. \A o \in Seq(X), x \in X : Append(o, x) \in Seq(X)
      OBVIOUS
    <3>. QED  BY <1>5, <2>1, <3>1
  <2>3. r = [t EXCEPT !.out = a] /\ R = [out : O, inIdx : Nat, bits : Int, total : T]
    OBVIOUS
  <2> HIDE DEF O, T, a, R, r
  <2>4. LET w == [t EXCEPT !.out = a]
        IN  /\ w \in [out : O, inIdx : Nat, bits : Int, total : T]
            /\ w.out = a /\ w.total = t.total /\ w.inIdx = t.inIdx /\ w.bits = t.bits
    BY <2>1, <2>2
  <2>. QED  BY <2>3, <2>4 DEF a
<1>7. RefDigit(msg, s) = r
  BY DEF RefDigit, r, e, t, l
<1> HIDE DEF r
<1>8. r \in Reading(msg)
  BY <1>6 DEF X, Reading
<1>9. e = (r.total \div 2^r.bits) % FipsRef!W
  BY <1>6 DEF e
<1>10. r.out = Append(s.out, e)
  BY <1>3, <1>4, <1>6
<1>. QED  BY <1>3, <1>4, <1>6, <1>7, <1>8, <1>9, <1>10

(* Where digit j is read: from a new byte, or z digits from the end of the *)
(* last one.                                                               *)
ReadsAt(j, q, z) ==
    /\ z = 0 => /\ (j - 1) \div Per = q
                /\ 8 - LG_W - LG_W * ((j - 1) % Per) = 8 - LG_W
                /\ 8 - LG_W = LG_W * (Per - 1) /\ j + (Per - 1) = Per * (q + 1)
    /\ z # 0 => /\ (j - 1) \div Per = q - 1 /\ q \in Nat \ {0}
                /\ 8 - LG_W - LG_W * ((j - 1) % Per) = LG_W * z - LG_W
                /\ LG_W * z - LG_W = LG_W * (z - 1) /\ j + (z - 1) = Per * q
                /\ LG_W * z # 0

(* The state before digit j + 1, and the state after it.                   *)
LEMMA ReadAt ==
    ASSUME NEW j \in Nat \ {0}, NEW q \in Nat, NEW z \in 0 .. Per - 1, (j - 1) + z = Per * q
    PROVE  ReadsAt(j, q, z)
<1>1. LG_W \in {1, 2, 4, 8} /\ Per * LG_W = 8 /\ Per \in Nat \ {0}
  BY PerByte, SignaturesAssumption
<1>2. CASE z = 0
  <2>1. j - 1 = Per * q + 0 /\ 0 \in 0 .. Per - 1
    BY <1>1, <1>2
  <2>2. (Per * q + 0) \div Per = q /\ (Per * q + 0) % Per = 0
    BY <1>1, <2>1, DivUnique
  <2>3. (j - 1) \div Per = q /\ (j - 1) % Per = 0
    BY <2>1, <2>2
  <2>4. 8 - LG_W = LG_W * (Per - 1) /\ j + (Per - 1) = Per * (q + 1)
    BY <1>1, <2>1
  <2>. QED  BY <1>1, <1>2, <2>3, <2>4 DEF ReadsAt
<1>3. CASE z # 0
  <2>1. q \in Nat \ {0}
    <3>1. Per * 0 = 0
      BY <1>1
    <3>. QED  BY <1>3, <3>1
  <2>2. PICK p \in Nat : q = p + 1
    BY <2>1
  <2>3. PICK y \in 0 .. Per - 1 : y = Per - z
    BY <1>1, <1>3
  <2>4. j - 1 = Per * p + y
    BY <1>1, <2>2, <2>3
  <2>5. (Per * p + y) \div Per = p /\ (Per * p + y) % Per = y
    BY <1>1, <2>3, DivUnique
  <2>6. (j - 1) \div Per = p /\ (j - 1) % Per = y
    BY <2>4, <2>5
  <2>7. LG_W * y = 8 - LG_W * z
    BY <1>1, <2>3
  <2>8. LG_W * z - LG_W = LG_W * (z - 1) /\ j + (z - 1) = Per * q /\ LG_W * z # 0
    BY <1>1, <1>3
  <2>9. LG_W * z \in Nat
    BY <1>1
  <2>. QED  BY <1>1, <1>3, <2>1, <2>2, <2>6, <2>7, <2>8, <2>9 DEF ReadsAt
<1>. QED  BY <1>2, <1>3

(* It reads the digits that base_w of the other verifier finds in place.   *)
LEMMA RefBaseW ==
    ASSUME NEW msg, NEW n \in Nat
    PROVE  FipsRef!baseW(msg, n) = Fips!BaseW(msg, n)
<1> DEFINE first == [out |-> <<>>, inIdx |-> 0, bits |-> 0, total |-> 0]
           b == Fips!BaseW(msg, n)
<1>01. b = [i \in 1 .. n |-> b[i]]
       /\ \A i \in 1 .. n : b[i] = (msg[((i - 1) \div Per) + 1]
                                      \div 2^(8 - LG_W - LG_W * ((i - 1) % Per))) % FipsRef!W
  BY DEF Fips!BaseW, Per, FipsRef!W, Fips!W
<1> HIDE DEF b
<1> DEFINE L == FipsRef!Loop(n)
           E(x, y) == RefDigit(msg, x)
           It(iter) == iter = [s \in SUBSET DOMAIN L |->
                          IF s = {} THEN first
                          ELSE E(iter[s \ {FipsRef!Max(s)}], L[FipsRef!Max(s)])]
           c == CHOOSE iter : It(iter)
           S == Reading(msg)
           G == [j \in 1 .. n |-> [x \in S |-> E(x, L[j])]]
<1>1. FipsRef!baseW(msg, n) = c[DOMAIN L].out
  BY Zenon DEF FipsRef!baseW, RefDigit, RefLoad, FipsRef!FoldLeft, FipsRef!MapThenFoldSet
<1>2. DOMAIN L = 1 .. n /\ \A j \in 1 .. n : L[j] = j
  BY DEF FipsRef!Loop
<1>3. \A s : FipsRef!Max(s) = Top(s)
  BY Zenon DEF FipsRef!Max, Top
<1>4. \A j \in 1 .. n : \A x \in S : E(x, L[j]) \in S
  BY RefDigitIs
<1>5. first \in S /\ n \in Nat
  BY DEF Reading, Loaded
<1>02. \A y, x : E(x, y) = RefDigit(msg, x)
  OBVIOUS
<1>03. S = Reading(msg)
  OBVIOUS
<1>04. first.out = <<>> /\ first.inIdx = 0 /\ first.bits = 0
  OBVIOUS
<1> HIDE DEF E, L, S, first
<1>6. \A j \in 1 .. n : \A x \in S : G[j][x] = E(x, L[j])
  OBVIOUS
<1>7. PICK t : FoldTable(t, S, n, first, G)
  <2>1. ClosedUnder(S, 0, n, G)
    BY <1>4, <1>6 DEF ClosedUnder
  <2> HIDE DEF G
  <2>. QED  BY <1>5, <2>1, FoldTableExists
<1> HIDE DEF G
<1>8. It(t)
  <2>1. ASSUME NEW s \in SUBSET (1 .. n)
        PROVE  t[s] = IF s = {} THEN first
                      ELSE E(t[s \ {FipsRef!Max(s)}], L[FipsRef!Max(s)])
    <3>1. CASE s = {}
      BY <1>7, <3>1 DEF FoldTable
    <3>2. CASE s # {}
      <4>1. Top(s) \in 1 .. n /\ s \ {Top(s)} \in SUBSET (1 .. n)
        BY <1>5, <3>2, TopIs
      <4>2. t[s] = G[Top(s)][t[s \ {Top(s)}]] /\ t[s \ {Top(s)}] \in S
        BY <1>7, <3>2, <4>1 DEF FoldTable
      <4>. QED  BY <1>3, <1>6, <3>2, <4>1, <4>2
    <3>. QED  BY <3>1, <3>2
  <2>2. t = [s \in SUBSET DOMAIN L |-> t[s]]
    BY <1>2, <1>7 DEF FoldTable
  <2>. QED  BY <1>2, <2>1, <2>2
<1>9. It(c)
  <2> HIDE DEF It
  <2>. QED  BY <1>8
<1> HIDE DEF c
<1>10. /\ c[{}] = first
       /\ \A j \in 1 .. n : c[1 .. j] = E(c[1 .. j - 1], L[j])
  <2>1. \A s \in SUBSET (1 .. n) :
           c[s] = IF s = {} THEN first ELSE E(c[s \ {Top(s)}], L[Top(s)])
    BY <1>2, <1>3, <1>9
  <2>2. {} \in SUBSET (1 .. n)
    OBVIOUS
  <2>3. ASSUME NEW j \in 1 .. n PROVE c[1 .. j] = E(c[1 .. j - 1], L[j])
    <3>1. 1 .. j \in SUBSET (1 .. n) /\ 1 .. j # {} /\ Top(1 .. j) = j
          /\ (1 .. j) \ {j} = 1 .. j - 1
      BY <1>5, TopIs
    <3>. QED  BY <2>1, <3>1, Zenon
  <2>. QED  BY <2>1, <2>2, <2>3
<1>11. \A j \in 1 .. n : c[1 .. j] = RefDigit(msg, c[1 .. j - 1])
  BY <1>02, <1>10
<1> DEFINE At(x, j) == /\ x \in Reading(msg) /\ Len(x.out) = j
                       /\ \A i \in 1 .. j : x.out[i] = b[i]
                       /\ \E z \in 0 .. Per - 1 :
                             /\ j + z = Per * x.inIdx /\ x.bits = LG_W * z
                             /\ z # 0 => x.total = msg[x.inIdx]
           X == {j \in 0 .. n : At(c[1 .. j], j)}
<1>12. 0 \in X /\ 0 \in Nat
  <2>1. 1 .. 0 = {}
    OBVIOUS
  <2>2. c[1 .. 0] = first
    BY <1>10, <2>1
  <2>3. 0 \in 0 .. Per - 1 /\ 0 + 0 = Per * 0 /\ LG_W * 0 = 0
    BY PerByte, Sizes
  <2>4. first \in Reading(msg) /\ Len(first.out) = 0
    BY <1>5, <1>03, <1>04
  <2>5. At(first, 0)
    <3>1. first.bits = LG_W * 0 /\ 0 + 0 = Per * first.inIdx
      BY <1>04, <2>3
    <3>. QED  BY <2>3, <2>4, <3>1
  <2> HIDE DEF At
  <2>. QED  BY <2>2, <2>5
<1>13. \A j \in 0 + 1 .. n : j - 1 \in X => j \in X
  <2> SUFFICES ASSUME NEW j \in 1 .. n, j - 1 \in X PROVE j \in X
    OBVIOUS
  <2> DEFINE x == c[1 .. j - 1]
             r == c[1 .. j]
  <2>1. x \in Reading(msg) /\ Len(x.out) = j - 1 /\ \A i \in 1 .. j - 1 : x.out[i] = b[i]
    OBVIOUS
  <2>2. PICK z \in 0 .. Per - 1 : /\ j - 1 + z = Per * x.inIdx /\ x.bits = LG_W * z
                                  /\ z # 0 => x.total = msg[x.inIdx]
    OBVIOUS
  <2>3. r = RefDigit(msg, x)
    BY <1>11
  <2> HIDE DEF x, r, X
  <2>4. /\ r \in Reading(msg)
        /\ r.out = Append(x.out, (r.total \div 2^r.bits) % FipsRef!W)
        /\ x.bits = 0 => r.total = msg[x.inIdx + 1] /\ r.inIdx = x.inIdx + 1
                         /\ r.bits = 8 - LG_W
        /\ x.bits # 0 => r.total = x.total /\ r.inIdx = x.inIdx
                         /\ r.bits = x.bits - LG_W
    BY <2>1, <2>3, RefDigitIs
  <2> DEFINE q == x.inIdx
  <2>5. q \in Nat /\ j \in Nat \ {0} /\ Per \in Nat \ {0}
    BY <2>1, PerByte DEF Reading
  <2>6. /\ z = 0 => /\ (j - 1) \div Per = q
                    /\ 8 - LG_W - LG_W * ((j - 1) % Per) = 8 - LG_W
                    /\ 8 - LG_W = LG_W * (Per - 1) /\ j + (Per - 1) = Per * (q + 1)
        /\ z # 0 => /\ (j - 1) \div Per = q - 1 /\ q \in Nat \ {0}
                    /\ 8 - LG_W - LG_W * ((j - 1) % Per) = LG_W * z - LG_W
                    /\ LG_W * z - LG_W = LG_W * (z - 1) /\ j + (z - 1) = Per * q
                    /\ LG_W * z # 0
    <3> HIDE DEF q
    <3>1. (j - 1) + z = Per * q
      BY <2>2 DEF q
    <3>2. ReadsAt(j, q, z)
      BY <2>5, <3>1, ReadAt
    <3>. QED  BY <3>2 DEF ReadsAt
  <2>7. /\ r.total = msg[((j - 1) \div Per) + 1]
        /\ r.bits = 8 - LG_W - LG_W * ((j - 1) % Per)
        /\ \E y \in 0 .. Per - 1 : /\ j + y = Per * r.inIdx /\ r.bits = LG_W * y
                                   /\ y # 0 => r.total = msg[r.inIdx]
    <3>1. CASE z = 0
      <4>1. x.bits = 0
        BY <2>2, <3>1, Sizes
      <4>2. r.total = msg[q + 1] /\ r.inIdx = q + 1 /\ r.bits = 8 - LG_W
        BY <2>4, <4>1
      <4>3. Per - 1 \in 0 .. Per - 1
        BY <2>5
      <4> HIDE DEF q
      <4>. QED  BY <2>6, <3>1, <4>2, <4>3
    <3>2. CASE z # 0
      <4>1. r.total = msg[q] /\ r.inIdx = q /\ r.bits = LG_W * z - LG_W
        BY <2>2, <2>4, <2>6, <3>2
      <4>2. z - 1 \in 0 .. Per - 1
        BY <2>5, <3>2
      <4> HIDE DEF q
      <4>3. (q - 1) + 1 = q
        BY <2>5
      <4>4. r.total = msg[((j - 1) \div Per) + 1]
        BY <2>6, <3>2, <4>1, <4>3
      <4>. QED  BY <2>6, <3>2, <4>1, <4>2, <4>4
    <3>. QED  BY <3>1, <3>2
  <2> HIDE DEF q
  <2>8. (r.total \div 2^r.bits) % FipsRef!W = b[j]
    BY <1>01, <2>7, Zenon
  <2>9. /\ Len(r.out) = j /\ \A i \in 1 .. j : r.out[i] = b[i]
    <3> DEFINE e == (r.total \div 2^r.bits) % FipsRef!W
    <3>1. PICK T : x.out \in Seq(T)
      BY <2>1 DEF Reading
    <3> HIDE DEF e
    <3>2. x.out \in Seq(T \union {e}) /\ e \in T \union {e}
      BY <3>1, SeqUnion
    <3> DEFINE o == x.out
    <3> HIDE DEF o
    <3>3. /\ Len(Append(o, e)) = j /\ Append(o, e)[j] = e
          /\ \A i \in 1 .. j - 1 : Append(o, e)[i] = o[i]
      BY <2>1, <3>2, AppendProperties DEF o
    <3>4. r.out = Append(o, e) /\ e = b[j]
      BY <2>4, <2>8 DEF e, o
    <3>5. \A i \in 1 .. j : i \in 1 .. j - 1 \/ i = j
      OBVIOUS
    <3>. QED  BY <2>1, <3>3, <3>4, <3>5 DEF o
  <2>10. At(r, j)
    BY <2>4, <2>7, <2>9
  <2> HIDE DEF At
  <2>. QED  BY <2>10 DEF X, r
<1>14. 0 .. n \subseteq X
  <2> HIDE DEF X
  <2>. QED  BY <1>12, <1>13, Upward
<1>15. At(c[1 .. n], n)
  BY <1>14
<1>16. FipsRef!baseW(msg, n) = c[1 .. n].out
  BY <1>1, <1>2
<1> DEFINE o == c[1 .. n].out
<1>17. /\ Len(o) = n /\ \A i \in 1 .. n : o[i] = b[i]
  BY <1>15
<1>18. PICK T : o \in Seq(T)
  BY <1>15 DEF Reading
<1> HIDE DEF o, X, At
<1>19. o = b
  <2>1. o = [i \in 1 .. n |-> o[i]]
    BY <1>17, <1>18
  <2>. QED  BY <1>01, <1>17, <2>1
<1>. QED  BY <1>16, <1>19 DEF o, b

(* The checksum, added up in a loop.                                       *)
RefCsum(digits) ==
    FipsRef!FoldLeft(LAMBDA x, i : x + FipsRef!W - 1 - digits[i], 0, FipsRef!Loop(FipsRef!LEN_1))

(* The loop sums what is missing of each digit.                            *)
LEMMA RefCsumIs ==
    ASSUME NEW d, \A j \in 1 .. LEN_1 : d[j] \in 0 .. W - 1
    PROVE  RefCsum(d) = SumFunctionOnSet([k \in 1 .. LEN_1 |-> W - 1 - d[k]], 1 .. LEN_1)
<1> DEFINE n == FipsRef!LEN_1
           short == [k \in 1 .. n |-> W - 1 - d[k]]
<1>00. n = LEN_1
  BY DEF FipsRef!LEN_1, LEN_1, Lite!LEN_1
<1>0. /\ FipsRef!W = W /\ W \in Nat \ {0}
      /\ \A j \in 1 .. n : d[j] \in 0 .. W - 1 /\ short[j] = W - 1 - d[j] /\ short[j] \in Nat
  BY <1>00, Sizes DEF FipsRef!W, W, Lite!W
<1>01. n \in Nat
  BY <1>00, Sizes
<1> HIDE DEF n
<1> DEFINE L == FipsRef!Loop(n)
           E(x, y) == x + FipsRef!W - 1 - d[y]
           It(iter) == iter = [s \in SUBSET DOMAIN L |->
                          IF s = {} THEN 0
                          ELSE E(iter[s \ {FipsRef!Max(s)}], L[FipsRef!Max(s)])]
           c == CHOOSE iter : It(iter)
           S == Nat
           G == [j \in 1 .. n |-> [x \in S |-> E(x, L[j])]]
<1>1. RefCsum(d) = c[DOMAIN L]
  BY Zenon DEF RefCsum, n, FipsRef!FoldLeft, FipsRef!MapThenFoldSet
<1>2. DOMAIN L = 1 .. n /\ \A j \in 1 .. n : L[j] = j
  BY DEF FipsRef!Loop
<1>3. \A s : FipsRef!Max(s) = Top(s)
  BY Zenon DEF FipsRef!Max, Top
<1>4. \A j \in 1 .. n : \A x \in S : E(x, L[j]) \in S
  <2> SUFFICES ASSUME NEW j \in 1 .. n, NEW x \in Nat PROVE x + FipsRef!W - 1 - d[j] \in Nat
    BY <1>2
  <2>1. d[j] \in 0 .. W - 1
    BY <1>0
  <2>. QED  BY <1>0, <2>1
<1>5. 0 \in S /\ n \in Nat
  BY <1>01
<1>11. \A j \in 1 .. n : \A x \in Nat : E(x, L[j]) = x + short[j]
  <2> SUFFICES ASSUME NEW j \in 1 .. n, NEW x \in Nat
               PROVE  x + FipsRef!W - 1 - d[j] = x + short[j]
    BY <1>2
  <2>1. d[j] \in 0 .. W - 1
    BY <1>0
  <2> HIDE DEF short
  <2>. QED  BY <1>0, <2>1
<1> HIDE DEF E, L, S, short
<1>6. \A j \in 1 .. n : \A x \in S : G[j][x] = E(x, L[j])
  OBVIOUS
<1>7. PICK t : FoldTable(t, S, n, 0, G)
  <2>1. ClosedUnder(S, 0, n, G)
    BY <1>4, <1>6 DEF ClosedUnder
  <2> HIDE DEF G
  <2>. QED  BY <1>5, <2>1, FoldTableExists
<1> HIDE DEF G
<1>8. It(t)
  <2>1. ASSUME NEW s \in SUBSET (1 .. n)
        PROVE  t[s] = IF s = {} THEN 0
                      ELSE E(t[s \ {FipsRef!Max(s)}], L[FipsRef!Max(s)])
    <3>1. CASE s = {}
      BY <1>7, <3>1 DEF FoldTable
    <3>2. CASE s # {}
      <4>1. Top(s) \in 1 .. n /\ s \ {Top(s)} \in SUBSET (1 .. n)
        BY <1>5, <3>2, TopIs
      <4>2. t[s] = G[Top(s)][t[s \ {Top(s)}]] /\ t[s \ {Top(s)}] \in S
        BY <1>7, <3>2, <4>1 DEF FoldTable
      <4>. QED  BY <1>3, <1>6, <3>2, <4>1, <4>2
    <3>. QED  BY <3>1, <3>2
  <2>2. t = [s \in SUBSET DOMAIN L |-> t[s]]
    BY <1>2, <1>7 DEF FoldTable
  <2>. QED  BY <1>2, <2>1, <2>2
<1>9. It(c)
  <2> HIDE DEF It
  <2>. QED  BY <1>8
<1> HIDE DEF c
<1>10. /\ c[{}] = 0
       /\ \A j \in 1 .. n : c[1 .. j] = E(c[1 .. j - 1], L[j])
  <2>1. \A s \in SUBSET (1 .. n) :
           c[s] = IF s = {} THEN 0 ELSE E(c[s \ {Top(s)}], L[Top(s)])
    BY <1>2, <1>3, <1>9
  <2>2. {} \in SUBSET (1 .. n)
    OBVIOUS
  <2>3. ASSUME NEW j \in 1 .. n PROVE c[1 .. j] = E(c[1 .. j - 1], L[j])
    <3>1. 1 .. j \in SUBSET (1 .. n) /\ 1 .. j # {} /\ Top(1 .. j) = j
          /\ (1 .. j) \ {j} = 1 .. j - 1
      BY <1>5, TopIs
    <3>. QED  BY <2>1, <3>1, Zenon
  <2>. QED  BY <2>1, <2>2, <2>3
<1> DEFINE X == {j \in 0 .. n : c[1 .. j] = SumFunctionOnSet(short, 1 .. j)}
<1>12. 0 \in X /\ 0 \in Nat
  <2>1. 1 .. 0 = {}
    OBVIOUS
  <2>. QED  BY <1>01, <1>10, <2>1, SumEmpty
<1>13. \A j \in 0 + 1 .. n : j - 1 \in X => j \in X
  <2> SUFFICES ASSUME NEW j \in 1 .. n, c[1 .. j - 1] = SumFunctionOnSet(short, 1 .. j - 1)
               PROVE  c[1 .. j] = SumFunctionOnSet(short, 1 .. j)
    BY <1>01
  <2>0. \A k \in Nat : IsFiniteSet(1 .. k)
    BY FS_Interval
  <2>1. IsFiniteSet(1 .. j) /\ IsFiniteSet(1 .. j - 1) /\ j \in 1 .. j
        /\ (1 .. j) \ {j} = 1 .. j - 1
    <3>1. j \in Nat /\ j - 1 \in Nat
      BY <1>01
    <3>. QED  BY <2>0, <3>1
  <2>2. \A k \in 1 .. j : short[k] \in Nat
    BY <1>0, <1>01
  <2>3. SumFunctionOnSet(short, 1 .. j) = short[j] + SumFunctionOnSet(short, 1 .. j - 1)
    <3>1. SumFunctionOnSet(short, 1 .. j)
             = short[j] + SumFunctionOnSet(short, (1 .. j) \ {j})
      BY <2>1, <2>2, SumTakeOut
    <3>. QED  BY <2>1, <3>1
  <2>4. SumFunctionOnSet(short, 1 .. j - 1) \in Nat
    <3>1. \A k \in 1 .. j - 1 : short[k] \in Nat
      BY <1>01, <2>2
    <3>. QED  BY <2>1, <3>1, SumNat
  <2>5. c[1 .. j] = SumFunctionOnSet(short, 1 .. j - 1) + short[j]
    BY <1>10, <1>11, <2>4
  <2>6. short[j] \in Nat
    BY <1>0
  <2>. QED  BY <2>3, <2>4, <2>5, <2>6
<1>14. 0 .. n \subseteq X
  <2> HIDE DEF X
  <2>. QED  BY <1>01, <1>12, <1>13, Upward
<1>15. c[1 .. n] = SumFunctionOnSet(short, 1 .. n)
  BY <1>01, <1>14
<1>. QED  BY <1>1, <1>2, <1>00, <1>15 DEF short

(* slh-dsa-128s-ref.ts and sha2_128s.move read the same digits from a      *)
(* message, its checksum's included.                                       *)
LEMMA RefFipsDigits ==
    ASSUME NEW m \in Nat
    PROVE  FipsRef!msgToChainDigits(m) = Fips!MsgToChainDigits(m)
<1> DEFINE digits == Fips!BaseW(Fips!BigEndian(m, N), LEN_1)
           csum == SumFunctionOnSet([k \in 1 .. LEN_1 |-> W - 1 - digits[k]], 1 .. LEN_1)
           shift == (8 - ((LEN_2 * LG_W) % 8)) % 8
           width == (LEN_2 * LG_W + 7) \div 8
           check == Fips!BaseW(Fips!BigEndian(csum * 2^shift, width), LEN_2)
<1>1. /\ N \in Nat /\ LEN_1 \in Nat /\ LEN_2 \in Nat /\ LEN_1 * LG_W <= 8 * N
      /\ FipsRef!LEN_1 = LEN_1
  BY Sizes DEF FipsRef!LEN_1, LEN_1, Lite!LEN_1
<1>2. \A v, k : FipsRef!bytes(v, k) = Fips!BigEndian(v, k)
  BY DEF FipsRef!bytes, Fips!BigEndian
<1>3. FipsRef!baseW(FipsRef!bytes(m, N), FipsRef!LEN_1) = digits
  BY <1>1, <1>2, RefBaseW
<1>4. RefCsum(digits) = csum
  <2>1. \A i \in 1 .. N : Fips!BigEndian(m, N)[i] \in Nat
    BY <1>1, BytesAre
  <2>2. \A i \in 1 .. LEN_1 : digits[i] \in 0 .. W - 1
    BY <1>1, <2>1, BaseWRange
  <2> HIDE DEF digits
  <2>. QED  BY <2>2, RefCsumIs
<1>5. FipsRef!wotsChecksum(digits)
         = FipsRef!baseW(FipsRef!bytes(RefCsum(digits) * 2^shift, width), LEN_2)
  <2> HIDE DEF digits
  <2>. QED  BY Zenon DEF FipsRef!wotsChecksum, RefCsum
<1>6. FipsRef!wotsChecksum(digits) = check
  <2> HIDE DEF digits, csum, shift, width
  <2>. QED  BY <1>1, <1>2, <1>4, <1>5, RefBaseW
<1>7. Fips!WotsChecksum(digits) = check
  <2>1. csum = Fips!SumFunctionOnSet([k \in 1 .. LEN_1 |-> W - 1 - digits[k]], 1 .. LEN_1)
    BY DEF Fips!SumFunctionOnSet, Fips!FoldFunctionOnSet, Fips!MapThenFoldSet,
           SumFunctionOnSet, FoldFunctionOnSet, MapThenFoldSet
  <2> HIDE DEF digits
  <2>. QED  BY <2>1, FipsSizes DEF Fips!WotsChecksum
<1>8. FipsRef!msgToChainDigits(m) = digits \o check
  <2> HIDE DEF digits, check
  <2>. QED  BY <1>3, <1>6 DEF FipsRef!msgToChainDigits
<1>9. Fips!MsgToChainDigits(m) = digits \o check
  <2> HIDE DEF check
  <2>. QED  BY <1>7, FipsSizes DEF Fips!MsgToChainDigits
<1>. QED  BY <1>8, <1>9

-----------------------------------------------------------------------------
(* The words of an address of 128s.                                        *)
Words(a, layer, tree, type, kp, height, index) ==
    a \in [layer : {layer}, tree : {tree}, type : {type}, keypair : {kp},
           treeHeight : {height}, treeIndex : {index}]

(* What is hashed are the words.                                           *)
LEMMA FipsHashOfWords ==
    ASSUME NEW a, NEW layer, NEW tree, NEW type, NEW kp, NEW height, NEW index,
           Words(a, layer, tree, type, kp, height, index), NEW seed, NEW m
    PROVE  FipsRef!thash(seed, a, m)
              = Fips!Thash(seed, Fips!Adrs(layer, tree, type, kp, height, index), m)
<1>1. /\ a.layer = layer /\ a.tree = tree /\ a.type = type
      /\ a.keypair = kp /\ a.treeHeight = height /\ a.treeIndex = index
  BY DEF Words
<1>2. FipsRef!thash(seed, a, m) = Sha(<<seed, layer, tree, type, kp, height, index>> \o m)
  BY <1>1 DEF FipsRef!thash
<1>3. <<seed>> \o Fips!Adrs(layer, tree, type, kp, height, index)
         = <<seed, layer, tree, type, kp, height, index>>
  <2> DEFINE x == <<layer, tree, type, kp, height, index>>
             z == <<seed, layer, tree, type, kp, height, index>>
             S == {seed, layer, tree, type, kp, height, index}
  <2>1. x \in Seq(S) /\ Len(x) = 6 /\ <<seed>> \in Seq(S) /\ Len(<<seed>>) = 1
        /\ z \in Seq(S) /\ Len(z) = 7
    OBVIOUS
  <2>2. /\ x[1] = layer /\ x[2] = tree /\ x[3] = type /\ x[4] = kp /\ x[5] = height
        /\ x[6] = index /\ <<seed>>[1] = seed
    OBVIOUS
  <2>3. /\ z[1] = seed /\ z[2] = layer /\ z[3] = tree /\ z[4] = type /\ z[5] = kp
        /\ z[6] = height /\ z[7] = index
    OBVIOUS
  <2> DEFINE o == <<seed>>
  <2>20. o \in Seq(S) /\ Len(o) = 1 /\ o[1] = seed
    BY <2>1, <2>2
  <2>21. x \in Seq(S) /\ Len(x) = 6 /\ z \in Seq(S) /\ Len(z) = 7
    BY <2>1
  <2> HIDE DEF x, z, S, o
  <2>4. /\ o \o x \in Seq(S) /\ Len(o \o x) = Len(o) + Len(x)
        /\ \A i \in 1 .. Len(o) : (o \o x)[i] = o[i]
        /\ \A i \in 1 .. Len(x) : (o \o x)[Len(o) + i] = x[i]
    <3>1. o \o x \in Seq(S) /\ Len(o \o x) = Len(o) + Len(x)
      <4>1. \A p, q \in Seq(S) : p \o q \in Seq(S) /\ Len(p \o q) = Len(p) + Len(q)
        OBVIOUS
      <4>. QED  BY <2>21, <2>20, <4>1
    <3>2. /\ \A i \in 1 .. Len(o) : (o \o x)[i] = o[i]
          /\ \A i \in 1 .. Len(x) : (o \o x)[Len(o) + i] = x[i]
      <4>1. \A p, q \in Seq(S) : /\ \A i \in 1 .. Len(p) : (p \o q)[i] = p[i]
                               /\ \A i \in 1 .. Len(q) : (p \o q)[Len(p) + i] = q[i]
        BY ConcatParts
      <4>2. o \in Seq(S) /\ x \in Seq(S)
        BY <2>21, <2>20
      <4>. QED  BY <4>1, <4>2, Zenon
    <3>. QED  BY <3>1, <3>2
  <2>5. /\ o \o x \in Seq(S) /\ Len(o \o x) = 7
        /\ (o \o x)[1] = seed
        /\ \A i \in 1 .. 6 : (o \o x)[1 + i] = x[i]
    BY <2>21, <2>20, <2>4
  <2>6. \A i \in 1 .. 7 : (o \o x)[i] = z[i]
    <3> DEFINE w == o \o x
    <3> HIDE DEF w
    <3>0. \A i \in 1 .. 6 : w[1 + i] = x[i]
      BY <2>5 DEF w
    <3>1. /\ w[1 + 1] = x[1] /\ w[1 + 2] = x[2] /\ w[1 + 3] = x[3] /\ w[1 + 4] = x[4]
          /\ w[1 + 5] = x[5] /\ w[1 + 6] = x[6]
      BY <3>0
    <3>2. \A i \in 1 .. 7 : i = 1 \/ i = 2 \/ i = 3 \/ i = 4 \/ i = 5 \/ i = 6 \/ i = 7
      OBVIOUS
    <3>3. /\ (o \o x)[2] = layer /\ (o \o x)[3] = tree /\ (o \o x)[4] = type
          /\ (o \o x)[5] = kp /\ (o \o x)[6] = height /\ (o \o x)[7] = index
      <4>1. /\ w[2] = x[1] /\ w[3] = x[2] /\ w[4] = x[3] /\ w[5] = x[4]
            /\ w[6] = x[5] /\ w[7] = x[6]
        BY <3>1
      <4>. QED  BY <2>2, <4>1 DEF w
    <3>. QED  BY <2>3, <2>5, <3>2, <3>3
  <2> DEFINE w == o \o x
  <2> HIDE DEF w
  <2>7. w = z
    <3>1. w \in Seq(S) /\ z \in Seq(S) /\ Len(w) = 7 /\ Len(z) = 7
          /\ \A i \in 1 .. 7 : w[i] = z[i]
      BY <2>21, <2>5, <2>6 DEF w
    <3>2. w = [i \in 1 .. 7 |-> w[i]] /\ z = [i \in 1 .. 7 |-> z[i]]
      BY <3>1
    <3>. QED  BY <3>1, <3>2
  <2>. QED  BY <2>7 DEF w, x, z, o, Fips!Adrs
<1>4. Fips!Thash(seed, Fips!Adrs(layer, tree, type, kp, height, index), m)
         = Sha((<<seed>> \o Fips!Adrs(layer, tree, type, kp, height, index)) \o m)
  BY DEF Fips!Thash
<1>. QED  BY <1>2, <1>3, <1>4

(* Overwriting words of an address.                                        *)
LEMMA PutWord ==
    ASSUME NEW a, NEW layer, NEW tree, NEW type, NEW kp, NEW height, NEW index,
           Words(a, layer, tree, type, kp, height, index), NEW x, NEW y, NEW z
    PROVE  /\ Words([a EXCEPT !.treeIndex = x], layer, tree, type, kp, height, x)
           /\ Words([a EXCEPT !.treeHeight = x, !.treeIndex = y], layer, tree, type, kp, x, y)
           /\ Words([a EXCEPT !.type = x, !.treeHeight = y], layer, tree, x, kp, y, index)
           /\ Words([a EXCEPT !.type = x, !.keypair = y], layer, tree, x, y, height, index)
           /\ Words([a EXCEPT !.type = x, !.treeHeight = y, !.treeIndex = z],
                    layer, tree, x, kp, y, z)
           /\ Words([a EXCEPT !.type = x, !.keypair = y, !.treeIndex = z],
                    layer, tree, x, y, height, z)
BY DEF Words

(* The addresses made anew.                                                *)
LEMMA NewWords ==
    ASSUME NEW x, NEW y, NEW z
    PROVE  /\ Words([FipsRef!newAdrs EXCEPT !.layer = x, !.tree = y], x, y, 0, 0, 0, 0)
           /\ Words([FipsRef!newAdrs EXCEPT !.tree = x, !.type = y, !.keypair = z],
                    0, x, y, z, 0, 0)
BY DEF Words, FipsRef!newAdrs

(* What Chain computes, step by step, from anything.                       *)
FipsSteps(f, seed, layer, tree, kp, c, start, n, v) ==
    /\ f[n] = Fips!Chain(seed, layer, tree, kp, c, start, n, v)
    /\ f[0] = v
    /\ \A j \in 1 .. n : f[j] = FipsLink(seed, layer, tree, kp, c, start + j - 1, f[j - 1])

(* There are such values.                                                  *)
LEMMA FipsRunsFrom ==
    ASSUME HashFits, NEW seed, NEW layer, NEW tree, NEW kp, NEW c,
           NEW start \in Nat, NEW n \in Nat, NEW v
    PROVE  \E f : FipsSteps(f, seed, layer, tree, kp, c, start, n, v)
<1> DEFINE S == V \union {v}
           Up(p, x) == FipsLink(seed, layer, tree, kp, c, p, x)
           Is(f) == f = [j \in 0 .. n |-> IF j = 0 THEN v ELSE Up(start + j - 1, f[j - 1])]
           G == [j \in 0 + 1 .. n |-> [x \in S |-> Up(start + j - 1, x)]]
           r == CHOOSE f : Is(f)
<1>1. v \in S /\ \A p, x : Up(p, x) \in S
  BY FipsHash
<1>2. Fips!Chain(seed, layer, tree, kp, c, start, n, v) = r[n]
  BY DEF Fips!Chain, FipsLink
<1> HIDE DEF Up, S
<1>3. \A j \in 0 + 1 .. n : \A x \in S : G[j][x] = Up(start + j - 1, x)
  OBVIOUS
<1>4. PICK f : Iterate(f, S, 0, n, v, G)
  <2>1. ClosedUnder(S, 0, n, G)
    BY <1>1, <1>3 DEF ClosedUnder
  <2> HIDE DEF G
  <2>. QED  BY <1>1, <2>1, Iterates
<1> HIDE DEF G
<1>5. Is(f)
  <2>1. ASSUME NEW j \in 0 .. n PROVE f[j] = IF j = 0 THEN v ELSE Up(start + j - 1, f[j - 1])
    <3>1. CASE j = 0
      BY <1>4, <3>1 DEF Iterate
    <3>2. CASE j # 0
      <4>1. j \in 0 + 1 .. n /\ j - 1 \in 0 .. n
        BY <3>2
      <4>2. f[j] = G[j][f[j - 1]] /\ f[j - 1] \in S
        BY <1>4, <4>1 DEF Iterate
      <4>. QED  BY <1>3, <3>2, <4>1, <4>2
    <3>. QED  BY <3>1, <3>2
  <2>2. f = [j \in 0 .. n |-> f[j]]
    BY <1>4 DEF Iterate
  <2>. QED  BY <2>1, <2>2
<1>6. Is(r)
  <2> HIDE DEF Is
  <2>. QED  BY <1>5
<1> HIDE DEF r
<1>7. r[0] = v /\ \A j \in 1 .. n : r[j] = Up(start + j - 1, r[j - 1])
  BY <1>6
<1>. QED  BY <1>2, <1>7 DEF Up, FipsSteps

(* A chain climbed in a loop, on an address whose last word follows the    *)
(* position, is the chain climbed by recursion.                            *)
LEMMA RefFipsChain ==
    ASSUME HashFits, NEW a, NEW layer, NEW tree, NEW kp, NEW i, NEW w,
           Words(a, layer, tree, FipsRef!WOTS_HASH, kp, i, w),
           NEW seed, NEW start \in Nat, NEW n \in Nat, NEW v
    PROVE  FipsRef!chain(v, start, n, seed, a)
              = Fips!Chain(seed, layer, tree, kp, i, start, n, v)
<1> DEFINE L == FipsRef!Loop(n)
           E(x, y) == FipsRef!thash(seed, [a EXCEPT !.treeIndex = start + y - 1], <<x>>)
           It(iter) == iter = [s \in SUBSET DOMAIN L |->
                          IF s = {} THEN v
                          ELSE E(iter[s \ {FipsRef!Max(s)}], L[FipsRef!Max(s)])]
           c == CHOOSE iter : It(iter)
           S == V \union {v}
           G == [j \in 1 .. n |-> [x \in S |-> E(x, L[j])]]
<1>1. FipsRef!chain(v, start, n, seed, a) = c[DOMAIN L]
  BY Zenon DEF FipsRef!chain, FipsRef!FoldLeft, FipsRef!MapThenFoldSet
<1>2. DOMAIN L = 1 .. n /\ \A j \in 1 .. n : L[j] = j
  BY DEF FipsRef!Loop
<1>3. \A s : FipsRef!Max(s) = Top(s)
  BY Zenon DEF FipsRef!Max, Top
<1>4. \A j \in 1 .. n : \A x \in S : E(x, L[j]) \in S
  BY DEF FipsRef!thash, HashFits
<1>5. v \in S /\ n \in Nat
  OBVIOUS
<1>0. \A j, x : E(x, j) = FipsLink(seed, layer, tree, kp, i, start + j - 1, x)
  <2> SUFFICES ASSUME NEW j, NEW x
               PROVE  E(x, j) = FipsLink(seed, layer, tree, kp, i, start + j - 1, x)
    OBVIOUS
  <2> DEFINE z == start + j - 1
             b == [a EXCEPT !.treeIndex = z]
             m == <<x>>
  <2> HIDE DEF It, L, c, S, G
  <2>1. E(x, j) = FipsRef!thash(seed, b, m)
    OBVIOUS
  <2> HIDE DEF z, m, E
  <2>2. Words(b, layer, tree, FipsRef!WOTS_HASH, kp, i, z)
    BY PutWord
  <2> HIDE DEF b
  <2>3. FipsRef!thash(seed, b, m)
           = Fips!Thash(seed, Fips!Adrs(layer, tree, FipsRef!WOTS_HASH, kp, i, z), m)
    BY <2>2, FipsHashOfWords
  <2>. QED  BY <2>1, <2>3 DEF FipsLink, FipsRef!WOTS_HASH, Fips!WOTS_HASH, z, m
<1> HIDE DEF E, L, S
<1>6. \A j \in 1 .. n : \A x \in S : G[j][x] = E(x, L[j])
  OBVIOUS
<1>7. PICK t : FoldTable(t, S, n, v, G)
  <2>1. ClosedUnder(S, 0, n, G)
    BY <1>4, <1>6 DEF ClosedUnder
  <2> HIDE DEF G
  <2>. QED  BY <1>5, <2>1, FoldTableExists
<1> HIDE DEF G
<1>8. It(t)
  <2>1. ASSUME NEW s \in SUBSET (1 .. n)
        PROVE  t[s] = IF s = {} THEN v
                      ELSE E(t[s \ {FipsRef!Max(s)}], L[FipsRef!Max(s)])
    <3>1. CASE s = {}
      BY <1>7, <3>1 DEF FoldTable
    <3>2. CASE s # {}
      <4>1. Top(s) \in 1 .. n /\ s \ {Top(s)} \in SUBSET (1 .. n)
        BY <1>5, <3>2, TopIs
      <4>2. t[s] = G[Top(s)][t[s \ {Top(s)}]] /\ t[s \ {Top(s)}] \in S
        BY <1>7, <3>2, <4>1 DEF FoldTable
      <4>. QED  BY <1>3, <1>6, <3>2, <4>1, <4>2
    <3>. QED  BY <3>1, <3>2
  <2>2. t = [s \in SUBSET DOMAIN L |-> t[s]]
    BY <1>2, <1>7 DEF FoldTable
  <2>. QED  BY <1>2, <2>1, <2>2
<1>9. It(c)
  <2> HIDE DEF It
  <2>. QED  BY <1>8
<1> HIDE DEF c
<1>10. /\ c[{}] = v
       /\ \A j \in 1 .. n : c[1 .. j] = E(c[1 .. j - 1], L[j])
  <2>1. \A s \in SUBSET (1 .. n) :
           c[s] = IF s = {} THEN v ELSE E(c[s \ {Top(s)}], L[Top(s)])
    BY <1>2, <1>3, <1>9
  <2>2. {} \in SUBSET (1 .. n)
    OBVIOUS
  <2>3. ASSUME NEW j \in 1 .. n PROVE c[1 .. j] = E(c[1 .. j - 1], L[j])
    <3>1. 1 .. j \in SUBSET (1 .. n) /\ 1 .. j # {} /\ Top(1 .. j) = j
          /\ (1 .. j) \ {j} = 1 .. j - 1
      BY <1>5, TopIs
    <3>. QED  BY <2>1, <3>1, Zenon
  <2>. QED  BY <2>1, <2>2, <2>3
<1>11. PICK f : FipsSteps(f, seed, layer, tree, kp, i, start, n, v)
  BY FipsRunsFrom
<1> DEFINE X == {j \in 0 .. n : c[1 .. j] = f[j]}
<1>12. 0 \in X /\ 0 \in Nat
  <2>1. 1 .. 0 = {}
    OBVIOUS
  <2>. QED  BY <1>10, <1>11, <2>1 DEF FipsSteps
<1>13. \A j \in 0 + 1 .. n : j - 1 \in X => j \in X
  <2> SUFFICES ASSUME NEW j \in 1 .. n, c[1 .. j - 1] = f[j - 1]
               PROVE  c[1 .. j] = f[j]
    OBVIOUS
  <2>. QED  BY <1>0, <1>2, <1>10, <1>11 DEF FipsSteps
<1>14. 0 .. n \subseteq X
  <2> HIDE DEF X
  <2>. QED  BY <1>12, <1>13, Upward
<1>15. c[1 .. n] = f[n]
  BY <1>14
<1>. QED  BY <1>1, <1>2, <1>11, <1>15 DEF FipsSteps

(* So both find the same leaf of a tree in a signature.                    *)
LEMMA RefFipsPk ==
    ASSUME HashFits, NEW a, NEW layer, NEW tree, NEW kp, NEW h, NEW w,
           Words(a, layer, tree, FipsRef!WOTS_HASH, kp, h, w),
           NEW seed, NEW m \in Nat, NEW sig
    PROVE  /\ FipsRef!wotsPkFromSig(sig, m, seed, a)
                 = Fips!WotsPkFromSig(seed, layer, tree, kp, m, sig)
           /\ Fips!WotsPkFromSig(seed, layer, tree, kp, m, sig) \in V
<1> DEFINE d == Fips!MsgToChainDigits(m)
           b(i) == [a EXCEPT !.type = FipsRef!WOTS_HASH, !.treeHeight = i - 1]
           top(i) == FipsRef!chain(sig[i], d[i], W - 1 - d[i], seed, b(i))
           up(i) == Fips!Chain(seed, layer, tree, kp, i - 1, d[i], W - 1 - d[i], sig[i])
           e == [a EXCEPT !.type = FipsRef!WOTS_PK, !.treeHeight = 0, !.treeIndex = 0]
           n == Lite!LEN
           tops == [i \in 1 .. n |-> up(i)]
<1>1. FipsRef!msgToChainDigits(m) = d /\ \A i \in 1 .. n : d[i] \in 0 .. W - 1
  BY RefFipsDigits, FipsDigits
<1>2. /\ FipsRef!LEN = n /\ FipsRef!W = W
      /\ Fips!LEN = n /\ Fips!W = W
  BY FipsSizes DEF FipsRef!LEN, FipsRef!LEN_1, Fips!LEN, Fips!LEN_1, FipsRef!W, Fips!W
<1>3. FipsRef!wotsPkFromSig(sig, m, seed, a) = FipsRef!thash(seed, e, [i \in 1 .. n |-> top(i)])
  BY <1>1, <1>2 DEF FipsRef!wotsPkFromSig
<1>4. Fips!WotsPkFromSig(seed, layer, tree, kp, m, sig)
         = Fips!Thash(seed, Fips!Adrs(layer, tree, Fips!WOTS_PK, kp, 0, 0), tops)
  BY <1>2 DEF Fips!WotsPkFromSig, Fips!WotsPk
<1>5. ASSUME NEW i \in 1 .. n PROVE top(i) = up(i)
  <2> DEFINE q == d[i]
             s == W - 1 - q
             k == i - 1
             x == sig[i]
             g == b(i)
  <2>1. q \in Nat /\ s \in Nat
    <3> HIDE DEF d
    <3>. QED  BY <1>1, Sizes
  <2>2. Words(g, layer, tree, FipsRef!WOTS_HASH, kp, k, w)
    <3>1. \A y : Words([a EXCEPT !.type = FipsRef!WOTS_HASH, !.treeHeight = y],
                       layer, tree, FipsRef!WOTS_HASH, kp, y, w)
      BY PutWord
    <3>2. g = [a EXCEPT !.type = FipsRef!WOTS_HASH, !.treeHeight = k]
      OBVIOUS
    <3> HIDE DEF g, k
    <3>. QED  BY <3>1, <3>2
  <2>3. top(i) = FipsRef!chain(x, q, s, seed, g)
        /\ up(i) = Fips!Chain(seed, layer, tree, kp, k, q, s, x)
    OBVIOUS
  <2> HIDE DEF q, s, k, x, g, top, up
  <2>4. FipsRef!chain(x, q, s, seed, g) = Fips!Chain(seed, layer, tree, kp, k, q, s, x)
    BY <2>1, <2>2, RefFipsChain
  <2>. QED  BY <2>3, <2>4
<1> HIDE DEF d, top, up
<1>6. [i \in 1 .. n |-> top(i)] = tops
  BY <1>5
<1> HIDE DEF tops, n
<1>7. Words(e, layer, tree, FipsRef!WOTS_PK, kp, 0, 0)
  BY PutWord
<1> HIDE DEF e
<1>8. FipsRef!thash(seed, e, tops)
         = Fips!Thash(seed, Fips!Adrs(layer, tree, FipsRef!WOTS_PK, kp, 0, 0), tops)
  BY <1>7, FipsHashOfWords
<1>9. Fips!Thash(seed, Fips!Adrs(layer, tree, Fips!WOTS_PK, kp, 0, 0), tops) \in V
  BY FipsHash
<1>. QED  BY <1>3, <1>4, <1>6, <1>8, <1>9 DEF FipsRef!WOTS_PK, Fips!WOTS_PK

-----------------------------------------------------------------------------
(* Up the path, address and node together.                                 *)
RefWalk(seed, idx, auth, s, i) ==
    LET a == [s.adrs EXCEPT !.treeHeight = i, !.treeIndex = @ \div 2]
    IN  [adrs |-> a,
         node |-> FipsRef!thash(seed, a,
                     FipsRef!Merge((idx \div 2^(i - 1)) % 2, s.node, auth[i]))]

(* Its addresses.                                                          *)
WalkAdrs(layer, tree) ==
    [layer : {layer}, tree : {tree}, type : {FipsRef!TREE}, keypair : {0},
     treeHeight : Nat, treeIndex : Nat]

(* One round.                                                              *)
LEMMA RefWalkUp ==
    ASSUME HashFits, NEW layer, NEW tree, NEW seed, NEW idx, NEW auth, NEW i \in Nat,
           NEW s \in [adrs : WalkAdrs(layer, tree), node : V]
    PROVE  LET r == RefWalk(seed, idx, auth, s, i)
           IN  /\ r \in [adrs : WalkAdrs(layer, tree), node : V]
               /\ r.adrs.treeIndex = s.adrs.treeIndex \div 2
               /\ s.adrs.treeIndex \div 2 = idx \div 2^i
                     => r.node = FipsUp([seed |-> seed, layer |-> layer, tree |-> tree],
                                        idx, auth, i, s.node)
<1> DEFINE b == s.adrs
           z == b.treeIndex \div 2
           a == [b EXCEPT !.treeHeight = i, !.treeIndex = z]
           m == FipsRef!Merge((idx \div 2^(i - 1)) % 2, s.node, auth[i])
           y == FipsRef!thash(seed, a, m)
           r == [adrs |-> a, node |-> y]
           t == [seed |-> seed, layer |-> layer, tree |-> tree]
<1>1. RefWalk(seed, idx, auth, s, i) = r
  BY DEF RefWalk
<1>2. b \in WalkAdrs(layer, tree)
  OBVIOUS
<1>3. b.treeIndex \in Nat /\ z \in Nat
  <2>1. b.treeIndex \in Nat
    BY <1>2 DEF WalkAdrs
  <2> HIDE DEF b
  <2>. QED  BY <2>1
<1> HIDE DEF b, m
<1>0. z = b.treeIndex \div 2
  OBVIOUS
<1> HIDE DEF z
<1>4. a \in WalkAdrs(layer, tree) /\ a.treeIndex = z
      /\ Words(a, layer, tree, FipsRef!TREE, 0, i, z)
  BY <1>2, <1>3 DEF WalkAdrs, Words
<1> HIDE DEF a
<1>5. y \in V
  BY DEF FipsRef!thash, HashFits
<1>6. y = Fips!Thash(seed, Fips!Adrs(layer, tree, FipsRef!TREE, 0, i, z), m)
  BY <1>4, FipsHashOfWords
<1> HIDE DEF y
<1>7. r \in [adrs : WalkAdrs(layer, tree), node : V] /\ r.adrs = a /\ r.node = y
  BY <1>4, <1>5
<1> HIDE DEF r
<1>8. ASSUME z = idx \div 2^i
      PROVE  y = FipsUp(t, idx, auth, i, s.node)
  <2>1. m = IF (idx \div 2^(i - 1)) % 2 = 0 THEN <<s.node, auth[i]>> ELSE <<auth[i], s.node>>
    BY DEF m, FipsRef!Merge
  <2>2. FipsUp(t, idx, auth, i, s.node) = Fips!XmssHash(t, i, idx \div 2^i, m)
    BY <2>1 DEF FipsUp
  <2>3. t.seed = seed /\ t.layer = layer /\ t.tree = tree
    OBVIOUS
  <2> HIDE DEF t
  <2>4. Fips!XmssHash(t, i, z, m)
           = Fips!Thash(seed, Fips!Adrs(layer, tree, Fips!ADRS_TREE, 0, i, z), m)
    BY <2>3 DEF Fips!XmssHash
  <2>. QED  BY <1>6, <1>8, <2>2, <2>4 DEF FipsRef!TREE, Fips!ADRS_TREE
<1>. QED  BY <1>0, <1>1, <1>4, <1>7, <1>8 DEF b

(* f holds the nodes of a climb up a path.                                 *)
FipsClimbs(f, t, v, leaf, auth) ==
    /\ Fips!Xmss!Climb(t, v, leaf, auth) = f[Len(auth)]
    /\ f[0] = v /\ \A h \in 0 .. Len(auth) : f[h] \in V
    /\ \A h \in 1 .. Len(auth) : f[h] = FipsUp(t, leaf, auth, h, f[h - 1])

(* They exist.                                                             *)
LEMMA FipsClimbsExist ==
    ASSUME HashFits, NEW t, NEW v \in V, NEW leaf, NEW auth, Len(auth) \in Nat
    PROVE  \E f : FipsClimbs(f, t, v, leaf, auth)
BY FipsClimb DEF FipsClimbs

(* The walk up a path in a loop is the climb by recursion.                 *)
LEMMA RefWalkTree ==
    ASSUME HashFits, NEW layer, NEW tree, NEW seed, NEW idx \in Nat, NEW v \in V,
           NEW a \in WalkAdrs(layer, tree), a.treeIndex = idx,
           NEW auth, Len(auth) = H_PRIME
    PROVE  /\ FipsRef!WalkTree(idx, auth, seed, a, v)
                 = Fips!Xmss!Climb([seed |-> seed, layer |-> layer, tree |-> tree], v, idx, auth)
           /\ FipsRef!WalkTree(idx, auth, seed, a, v) \in V
<1> DEFINE n == H_PRIME
           r == [seed |-> seed, layer |-> layer, tree |-> tree]
           first == [adrs |-> a, node |-> v]
<1>01. first \in [adrs : WalkAdrs(layer, tree), node : V] /\ n \in Nat
       /\ first.adrs = a /\ first.node = v
  BY LiteSizes
<1> DEFINE L == FipsRef!Loop(n)
           E(x, y) == RefWalk(seed, idx, auth, x, y)
           It(iter) == iter = [s \in SUBSET DOMAIN L |->
                          IF s = {} THEN first
                          ELSE E(iter[s \ {FipsRef!Max(s)}], L[FipsRef!Max(s)])]
           c == CHOOSE iter : It(iter)
           S == [adrs : WalkAdrs(layer, tree), node : V]
           G == [j \in 1 .. n |-> [x \in S |-> E(x, L[j])]]
<1>1. FipsRef!WalkTree(idx, auth, seed, a, v) = c[DOMAIN L].node
  BY Zenon DEF FipsRef!WalkTree, RefWalk, FipsRef!FoldLeft, FipsRef!MapThenFoldSet
<1>2. DOMAIN L = 1 .. n /\ \A j \in 1 .. n : L[j] = j
  BY DEF FipsRef!Loop
<1>3. \A s : FipsRef!Max(s) = Top(s)
  BY Zenon DEF FipsRef!Max, Top
<1>4. \A j \in 1 .. n : \A x \in S : E(x, L[j]) \in S
  <2>1. ASSUME NEW j \in 1 .. n, NEW x \in [adrs : WalkAdrs(layer, tree), node : V]
        PROVE  RefWalk(seed, idx, auth, x, j) \in [adrs : WalkAdrs(layer, tree), node : V]
    <3> HIDE DEF L, E, It, c, S, G, r, first, n
    <3>1. j \in Nat
      BY <1>01
    <3>. QED  BY <3>1, RefWalkUp
  <2> HIDE DEF first, c, It
  <2>. QED  BY <1>2, <2>1
<1>5. first \in S /\ n \in Nat
  BY <1>01
<1>02. \A j \in 1 .. n : \A x \in S :
          /\ E(x, L[j]).adrs.treeIndex = x.adrs.treeIndex \div 2
          /\ x.adrs.treeIndex \div 2 = idx \div 2^j
                => E(x, L[j]).node = FipsUp(r, idx, auth, j, x.node)
  <2> HIDE DEF first, c, It
  <2>. QED  BY <1>01, <1>2, RefWalkUp
<1>03. \A x \in S : x.node \in V
  OBVIOUS
<1> HIDE DEF E, L, S, first
<1>6. \A j \in 1 .. n : \A x \in S : G[j][x] = E(x, L[j])
  OBVIOUS
<1>7. PICK t : FoldTable(t, S, n, first, G)
  <2>1. ClosedUnder(S, 0, n, G)
    BY <1>4, <1>6 DEF ClosedUnder
  <2> HIDE DEF G
  <2>. QED  BY <1>5, <2>1, FoldTableExists
<1> HIDE DEF G
<1>8. It(t)
  <2>1. ASSUME NEW s \in SUBSET (1 .. n)
        PROVE  t[s] = IF s = {} THEN first
                      ELSE E(t[s \ {FipsRef!Max(s)}], L[FipsRef!Max(s)])
    <3>1. CASE s = {}
      BY <1>7, <3>1 DEF FoldTable
    <3>2. CASE s # {}
      <4>1. Top(s) \in 1 .. n /\ s \ {Top(s)} \in SUBSET (1 .. n)
        BY <1>5, <3>2, TopIs
      <4>2. t[s] = G[Top(s)][t[s \ {Top(s)}]] /\ t[s \ {Top(s)}] \in S
        BY <1>7, <3>2, <4>1 DEF FoldTable
      <4>. QED  BY <1>3, <1>6, <3>2, <4>1, <4>2
    <3>. QED  BY <3>1, <3>2
  <2>2. t = [s \in SUBSET DOMAIN L |-> t[s]]
    BY <1>2, <1>7 DEF FoldTable
  <2>. QED  BY <1>2, <2>1, <2>2
<1>9. It(c)
  <2> HIDE DEF It
  <2>. QED  BY <1>8
<1> HIDE DEF c
<1>10. /\ c[{}] = first
       /\ \A j \in 1 .. n : c[1 .. j] = E(c[1 .. j - 1], L[j])
  <2>1. \A s \in SUBSET (1 .. n) :
           c[s] = IF s = {} THEN first ELSE E(c[s \ {Top(s)}], L[Top(s)])
    BY <1>2, <1>3, <1>9
  <2>2. {} \in SUBSET (1 .. n)
    OBVIOUS
  <2>3. ASSUME NEW j \in 1 .. n PROVE c[1 .. j] = E(c[1 .. j - 1], L[j])
    <3>1. 1 .. j \in SUBSET (1 .. n) /\ 1 .. j # {} /\ Top(1 .. j) = j
          /\ (1 .. j) \ {j} = 1 .. j - 1
      BY <1>5, TopIs
    <3>. QED  BY <2>1, <3>1, Zenon
  <2>. QED  BY <2>1, <2>2, <2>3
<1>11. PICK f : /\ Fips!Xmss!Climb(r, v, idx, auth) = f[n]
                /\ f[0] = v /\ \A h \in 0 .. n : f[h] \in V
                /\ \A h \in 1 .. n : f[h] = FipsUp(r, idx, auth, h, f[h - 1])
  <2>1. Len(auth) \in Nat
    BY LiteSizes
  <2> HIDE DEF r
  <2>2. PICK f : FipsClimbs(f, r, v, idx, auth)
    BY <2>1, FipsClimbsExist
  <2>3. Len(auth) = n
    OBVIOUS
  <2>. QED  BY <2>2, <2>3 DEF FipsClimbs
<1> HIDE DEF r, n
<1>12. \A j \in 0 .. n : c[1 .. j] \in S
  <2> DEFINE X == {j \in 0 .. n : c[1 .. j] \in S}
  <2>1. 0 \in X /\ 0 \in Nat
    <3>1. 1 .. 0 = {}
      OBVIOUS
    <3>. QED  BY <1>01, <1>5, <1>10, <3>1
  <2>2. \A j \in 0 + 1 .. n : j - 1 \in X => j \in X
    BY <1>4, <1>5, <1>10
  <2>3. 0 .. n \subseteq X
    <3> HIDE DEF X
    <3>. QED  BY <1>5, <2>1, <2>2, Upward
  <2>. QED  BY <2>3
<1> DEFINE X == {j \in 0 .. n : c[1 .. j].node = f[j] /\ c[1 .. j].adrs.treeIndex = idx \div 2^j}
<1>13. 0 \in X /\ 0 \in Nat
  <2>1. 1 .. 0 = {} /\ 2^0 = 1 /\ idx \div 1 = idx
    OBVIOUS
  <2>2. idx \div 2^0 = idx
    BY <2>1
  <2>. QED  BY <1>01, <1>5, <1>10, <1>11, <2>1, <2>2
<1>14. ASSUME NEW j \in 0 + 1 .. n, j - 1 \in X PROVE j \in X
  <2>0. j \in 1 .. n
    BY <1>5
  <2>00. c[1 .. j - 1].node = f[j - 1] /\ c[1 .. j - 1].adrs.treeIndex = idx \div 2^(j - 1)
    BY <1>14
  <2> DEFINE x == c[1 .. j - 1]
  <2>1. j - 1 \in 0 .. n /\ j \in Nat \ {0} /\ j \in 0 .. n
    BY <1>5, <2>0
  <2>2. x.node = f[j - 1] /\ x.adrs.treeIndex = idx \div 2^(j - 1) /\ x \in S
    BY <1>12, <2>00, <2>1
  <2>3. c[1 .. j] = E(x, L[j])
    BY <1>10, <2>0
  <2> HIDE DEF x
  <2>4. idx \div 2^j = (idx \div 2^(j - 1)) \div 2
    BY <2>1, HalvedOnce
  <2>05. f[j] = FipsUp(r, idx, auth, j, f[j - 1])
    BY <1>11, <2>0
  <2>06. x.adrs.treeIndex \div 2 = idx \div 2^j
    BY <2>2, <2>4
  <2>07. E(x, L[j]).adrs.treeIndex = x.adrs.treeIndex \div 2
         /\ E(x, L[j]).node = FipsUp(r, idx, auth, j, x.node)
    BY <1>02, <2>0, <2>06, <2>2
  <2>5. c[1 .. j].adrs.treeIndex = idx \div 2^j /\ c[1 .. j].node = f[j]
    BY <2>2, <2>3, <2>05, <2>06, <2>07
  <2>. QED  BY <2>1, <2>5
<1>15. 0 .. n \subseteq X
  <2> HIDE DEF X
  <2>. QED  BY <1>5, <1>13, <1>14, Upward
<1>16. c[1 .. n].node = f[n] /\ f[n] \in V
  BY <1>5, <1>11, <1>15
<1>. QED  BY <1>1, <1>2, <1>11, <1>16 DEF r

(* The root of a tree that a part of a signature leads to.                 *)
LEMMA RefFipsXmss ==
    ASSUME HashFits, NEW adrs, NEW layer, NEW tree, Words(adrs, layer, tree, 0, 0, 0, 0),
           NEW seed, NEW idx \in Nat, NEW m \in Nat,
           NEW S, NEW sig \in Seq(S), Len(sig) = HtLen
    PROVE  /\ FipsRef!xmssPkFromSig(idx, sig, m, seed, adrs)
                 = Fips!XmssPkFromSig(seed, layer, tree, idx, m, sig)
           /\ Fips!XmssPkFromSig(seed, layer, tree, idx, m, sig) \in V
<1> DEFINE a == [adrs EXCEPT !.type = FipsRef!WOTS_HASH, !.keypair = idx]
           b == [a EXCEPT !.type = FipsRef!TREE, !.keypair = 0, !.treeIndex = idx]
           n == Lite!LEN
           points == SubSeq(sig, 1, n)
           auth == SubSeq(sig, n + 1, HtLen)
           v == Fips!WotsPkFromSig(seed, layer, tree, idx, m, points)
           r == [seed |-> seed, layer |-> layer, tree |-> tree]
<1>1. /\ FipsRef!LEN = n /\ Fips!LEN = n /\ FipsRef!XMSS_LEN = HtLen /\ Fips!XMSS_LEN = HtLen
      /\ n \in Nat /\ H_PRIME \in Nat /\ HtLen = n + H_PRIME
  BY FipsSizes, LiteSizes
     DEF FipsRef!LEN, FipsRef!LEN_1, Fips!LEN, Fips!LEN_1, FipsRef!XMSS_LEN, Fips!XMSS_LEN, HtLen
<1>2. Len(auth) = H_PRIME
  <2> HIDE DEF n
  <2>1. n + H_PRIME <= Len(sig) /\ 0 \in Nat /\ 0 + 0 <= H_PRIME
    BY <1>1
  <2>2. Len(SubSeq(sig, n + 1, n + H_PRIME)) = H_PRIME
    BY <1>1, <2>1, CutOfCut
  <2>. QED  BY <1>1, <2>2
<1>3. FipsRef!xmssPkFromSig(idx, sig, m, seed, adrs)
         = FipsRef!WalkTree(idx, auth, seed, b, FipsRef!wotsPkFromSig(points, m, seed, a))
  BY <1>1 DEF FipsRef!xmssPkFromSig
<1>4. Fips!XmssPkFromSig(seed, layer, tree, idx, m, sig) = Fips!Xmss!Climb(r, v, idx, auth)
  BY <1>1 DEF Fips!XmssPkFromSig
<1> HIDE DEF points, auth, n
<1>5. Words(a, layer, tree, FipsRef!WOTS_HASH, idx, 0, 0)
  BY PutWord
<1> HIDE DEF a
<1>6. Words(b, layer, tree, FipsRef!TREE, 0, 0, idx)
  BY <1>5, PutWord
<1> HIDE DEF b
<1>7. FipsRef!wotsPkFromSig(points, m, seed, a) = v /\ v \in V
  BY <1>5, RefFipsPk
<1> HIDE DEF v
<1>8. b \in WalkAdrs(layer, tree) /\ b.treeIndex = idx
  BY <1>6 DEF Words, WalkAdrs
<1>9. FipsRef!WalkTree(idx, auth, seed, b, v) = Fips!Xmss!Climb(r, v, idx, auth)
      /\ FipsRef!WalkTree(idx, auth, seed, b, v) \in V
  BY <1>2, <1>7, <1>8, RefWalkTree
<1>. QED  BY <1>3, <1>4, <1>7, <1>9

-----------------------------------------------------------------------------
(* A layer's part of a signature of 128s.                                  *)
LayerPart(sig, l) == SubSeq(sig, (l - 1) * HtLen + 1, l * HtLen)

(* It holds the chain points and the path of the layer.                    *)
LEMMA LayerParts ==
    ASSUME NEW S, NEW sig \in Seq(S), Len(sig) = D * HtLen, NEW l \in 1 .. D
    PROVE  LayerPart(sig, l) \in Seq(S) /\ Len(LayerPart(sig, l)) = HtLen
<1> DEFINE off == (l - 1) * HtLen
<1>1. off \in Nat /\ off + HtLen <= D * HtLen
  BY PartsOfHt
<1>2. HtLen \in Nat /\ D \in Nat
  BY LiteSizes DEF HtLen
<1>3. l * HtLen = off + HtLen
  <2>1. \A x \in Nat : (x + 1) * HtLen = x * HtLen + HtLen
    BY <1>2
  <2>2. l - 1 \in Nat /\ (l - 1) + 1 = l
    OBVIOUS
  <2>3. ((l - 1) + 1) * HtLen = off + HtLen
    BY <2>1, <2>2
  <2>. QED  BY <2>2, <2>3
<1> HIDE DEF off
<1>4. 0 \in Nat /\ 0 + 0 <= HtLen /\ off + HtLen <= Len(sig)
  BY <1>1, <1>2
<1>5. SubSeq(sig, off + 1, off + HtLen) \in Seq(S) /\ Len(SubSeq(sig, off + 1, off + HtLen)) = HtLen
  BY <1>1, <1>2, <1>4, CutOfCut
<1>. QED  BY <1>3, <1>5 DEF LayerPart, off

(* One layer up, from the value x.                                         *)
FipsLayer(seed, at, sig, l, x) ==
    Fips!XmssPkFromSig(seed, l - 1, at[l - 1].tree, at[l - 1].leaf, x, LayerPart(sig, l))

(* What HtRootFromSig computes, layer by layer, of values.                 *)
FipsHtSteps(f, seed, m, tree, leaf, sig) ==
    /\ Fips!HtRootFromSig(seed, m, tree, leaf, sig) = f[D]
    /\ f[0] = m /\ \A l \in 0 .. D : f[l] \in V
    /\ \A l \in 1 .. D : f[l] = FipsLayer(seed, Fips!Places(tree, leaf), sig, l, f[l - 1])

(* What both compute of a layer.                                           *)
LEMMA RefLayer ==
    ASSUME HashFits, NEW seed, NEW tree, NEW leaf \in Nat, NEW m \in V,
           NEW S, NEW sig \in Seq(S), Len(sig) = D * HtLen, NEW l \in 1 .. D
    PROVE  LET adrs == [FipsRef!newAdrs EXCEPT !.layer = l - 1, !.tree = tree]
           IN  /\ FipsRef!xmssPkFromSig(leaf, LayerPart(sig, l), m, seed, adrs)
                     = Fips!XmssPkFromSig(seed, l - 1, tree, leaf, m, LayerPart(sig, l))
               /\ Fips!XmssPkFromSig(seed, l - 1, tree, leaf, m, LayerPart(sig, l)) \in V
<1> DEFINE k == l - 1
           p == LayerPart(sig, l)
           adrs == [FipsRef!newAdrs EXCEPT !.layer = k, !.tree = tree]
<1>1. p \in Seq(S) /\ Len(p) = HtLen /\ m \in Nat
  BY LayerParts, LiteSizes
<1> HIDE DEF k, p
<1>2. Words(adrs, k, tree, 0, 0, 0, 0)
  BY NewWords
<1> HIDE DEF adrs
<1>3. /\ FipsRef!xmssPkFromSig(leaf, p, m, seed, adrs) = Fips!XmssPkFromSig(seed, k, tree, leaf, m, p)
      /\ Fips!XmssPkFromSig(seed, k, tree, leaf, m, p) \in V
  BY <1>1, <1>2, RefFipsXmss
<1>. QED  BY <1>3 DEF adrs, k, p

(* Every place on the way up is a tree and a leaf in it.                   *)
LEMMA PlaceIs ==
    ASSUME NEW tree \in Nat, NEW leaf \in 0 .. 2^H_PRIME - 1, NEW at, Ascends(at, tree, leaf)
    PROVE  \A l \in 0 .. D - 1 : at[l].tree \in Nat /\ at[l].leaf \in 0 .. 2^H_PRIME - 1
<1> DEFINE n == D - 1
           X == {l \in 0 .. n : at[l].tree \in Nat /\ at[l].leaf \in 0 .. 2^H_PRIME - 1}
<1>0. n \in Nat /\ 2^H_PRIME \in Nat \ {0}
  BY LiteSizes, Room
<1>1. 0 \in X /\ 0 \in Nat
  BY <1>0 DEF Ascends
<1>2. ASSUME NEW l \in 0 + 1 .. n, l - 1 \in X PROVE l \in X
  <2> DEFINE x == at[l - 1].tree
             w == 2^H_PRIME
  <2>1. l \in 1 .. D - 1 /\ l \in 0 .. n /\ x \in Nat /\ w \in Nat \ {0}
    BY <1>0, <1>2
  <2>02. at[l] = [tree |-> x \div w, leaf |-> x % w]
    BY <2>1 DEF Ascends
  <2>2. at[l].tree = x \div w /\ at[l].leaf = x % w
    <3> HIDE DEF x, w
    <3>. QED  BY <2>02
  <2>3. \A y \in Nat, z \in Nat \ {0} : y \div z \in Nat /\ y % z \in 0 .. z - 1
    OBVIOUS
  <2> HIDE DEF x, w
  <2>4. at[l].tree \in Nat /\ at[l].leaf \in 0 .. w - 1
    BY <2>1, <2>2, <2>3
  <2>. QED  BY <2>1, <2>4 DEF w
<1>3. 0 .. n \subseteq X
  <2> HIDE DEF X
  <2>. QED  BY <1>0, <1>1, <1>2, Upward
<1>. QED  BY <1>3

(* The nodes of the climb through the layers are such steps.               *)
LEMMA FipsHtStepsExist ==
    ASSUME HashFits, NEW seed, NEW m \in V, NEW tree \in Nat, NEW leaf \in 0 .. 2^H_PRIME - 1,
           NEW S, NEW sig \in Seq(S), Len(sig) = D * HtLen
    PROVE  \E f : FipsHtSteps(f, seed, m, tree, leaf, sig)
<1> DEFINE at == Fips!Places(tree, leaf)
           Up(l, x) == FipsLayer(seed, at, sig, l, x)
           Is(f) == f = [l \in 0 .. D |-> IF l = 0 THEN m ELSE Up(l, f[l - 1])]
           G == [l \in 0 + 1 .. D |-> [x \in V |-> Up(l, x)]]
           c == CHOOSE f : Is(f)
<1>0. \A l \in 0 .. D - 1 : at[l].leaf \in Nat
  <2>1. Ascends(at, tree, leaf)
    BY FipsPlaces
  <2> HIDE DEF at
  <2>. QED  BY <2>1, PlaceIs
<1>1. \A l \in 1 .. D : \A x \in V : Up(l, x) \in V
  <2> SUFFICES ASSUME NEW l \in 1 .. D, NEW x \in V PROVE FipsLayer(seed, at, sig, l, x) \in V
    OBVIOUS
  <2> HIDE DEF at
  <2>1. at[l - 1].leaf \in Nat
    <3>1. l - 1 \in 0 .. D - 1
      BY LiteSizes
    <3>. QED  BY <1>0, <3>1
  <2> DEFINE lf == at[l - 1].leaf
             tr == at[l - 1].tree
  <2>2. lf \in Nat /\ FipsLayer(seed, at, sig, l, x)
                         = Fips!XmssPkFromSig(seed, l - 1, tr, lf, x, LayerPart(sig, l))
    BY <2>1 DEF FipsLayer
  <2> HIDE DEF lf, tr, Up, Is, G, c
  <2>3. Fips!XmssPkFromSig(seed, l - 1, tr, lf, x, LayerPart(sig, l)) \in V
    BY <2>2, RefLayer
  <2>. QED  BY <2>2, <2>3
<1>2. Fips!HtRootFromSig(seed, m, tree, leaf, sig) = c[D]
  <2>1. Fips!XMSS_LEN = HtLen
    BY FipsSizes DEF HtLen
  <2>. QED  BY <2>1 DEF Fips!HtRootFromSig, FipsLayer, LayerPart
<1> HIDE DEF Up, at
<1>3. D \in Nat /\ 0 \in Nat /\ 0 <= D
  BY LiteSizes
<1>4. \A l \in 0 + 1 .. D : \A x \in V : G[l][x] = Up(l, x)
  OBVIOUS
<1>5. PICK f : Iterate(f, V, 0, D, m, G)
  <2>1. ClosedUnder(V, 0, D, G)
    BY <1>1, <1>4 DEF ClosedUnder
  <2> HIDE DEF G
  <2>. QED  BY <1>3, <2>1, Iterates
<1> HIDE DEF G
<1>6. Is(f)
  <2>1. ASSUME NEW h \in 0 .. D PROVE f[h] = IF h = 0 THEN m ELSE Up(h, f[h - 1])
    <3>1. CASE h = 0
      BY <1>5, <3>1 DEF Iterate
    <3>2. CASE h # 0
      <4>1. h \in 0 + 1 .. D /\ h - 1 \in 0 .. D
        BY <1>3, <3>2
      <4>2. f[h] = G[h][f[h - 1]] /\ f[h - 1] \in V
        BY <1>5, <4>1 DEF Iterate
      <4>. QED  BY <1>4, <3>2, <4>1, <4>2
    <3>. QED  BY <3>1, <3>2
  <2>2. f = [h \in 0 .. D |-> f[h]]
    BY <1>5 DEF Iterate
  <2>. QED  BY <2>1, <2>2
<1>7. Is(c)
  <2> HIDE DEF Is
  <2>. QED  BY <1>6
<1> HIDE DEF c
<1>8. c[0] = m /\ \A h \in 1 .. D : c[h] = Up(h, c[h - 1])
  BY <1>3, <1>7
<1>9. \A h \in 0 .. D : c[h] \in V
  <2>1. \A h \in 0 + 1 .. D : c[h - 1] \in V => c[h] \in V
    BY <1>1, <1>8
  <2>. QED  BY <1>3, <1>8, <2>1, StaysIn
<1>10. FipsHtSteps(c, seed, m, tree, leaf, sig)
  BY <1>2, <1>8, <1>9 DEF Up, at, FipsHtSteps
<1>. QED  BY <1>10

(* The loop over the layers, which carries tree and leaf along.            *)
RefHtUp(seed, sig, s, j) ==
    [node |-> FipsRef!xmssPkFromSig(s.curLeaf,
                  SubSeq(sig, (j - 1) * FipsRef!XMSS_LEN + 1, j * FipsRef!XMSS_LEN), s.node, seed,
                  [FipsRef!newAdrs EXCEPT !.layer = j - 1, !.tree = s.curTree]),
     curLeaf |-> s.curTree % 2^H_PRIME,
     curTree |-> s.curTree \div 2^H_PRIME]

(* The loop over the layers, which takes tree and leaf apart on the way,   *)
(* leads to the same root.                                                 *)
LEMMA RefFipsHt ==
    ASSUME HashFits, NEW seed, NEW m \in V, NEW tree \in Nat, NEW leaf \in 0 .. 2^H_PRIME - 1,
           NEW T, NEW sig \in Seq(T), Len(sig) = D * HtLen
    PROVE  FipsRef!htRootFromSig(sig, m, tree, leaf, seed)
              = Fips!HtRootFromSig(seed, m, tree, leaf, sig)
<1> DEFINE at == Fips!Places(tree, leaf)
           first == [node |-> m, curTree |-> tree, curLeaf |-> leaf]
           S == [node : V, curTree : Nat, curLeaf : 0 .. 2^H_PRIME - 1]
<1>00. 2^H_PRIME \in Nat \ {0} /\ FipsRef!XMSS_LEN = HtLen
  <2>1. FipsRef!XMSS_LEN = HtLen
    BY FipsSizes DEF FipsRef!XMSS_LEN, FipsRef!LEN, FipsRef!LEN_1, Fips!LEN, Fips!LEN_1, HtLen
  <2>. QED  BY <2>1, Room
<1>01. ASSUME NEW j \in 1 .. D, NEW s \in S
       PROVE  /\ RefHtUp(seed, sig, s, j) \in S
              /\ RefHtUp(seed, sig, s, j).node
                    = Fips!XmssPkFromSig(seed, j - 1, s.curTree, s.curLeaf, s.node,
                                         LayerPart(sig, j))
              /\ RefHtUp(seed, sig, s, j).curLeaf = s.curTree % 2^H_PRIME
              /\ RefHtUp(seed, sig, s, j).curTree = s.curTree \div 2^H_PRIME
  <2> DEFINE x == s.node
             tr == s.curTree
             lf == s.curLeaf
             y == Fips!XmssPkFromSig(seed, j - 1, tr, lf, x, LayerPart(sig, j))
             q == tr \div 2^H_PRIME
             g == tr % 2^H_PRIME
  <2>1. x \in V /\ tr \in Nat /\ lf \in Nat
    BY <1>00
  <2>2. q \in Nat /\ g \in 0 .. 2^H_PRIME - 1
    <3>1. \A i \in Nat, w \in Nat \ {0} : i % w \in 0 .. w - 1 /\ i \div w \in Nat
      OBVIOUS
    <3> HIDE DEF tr
    <3>. QED  BY <1>00, <2>1, <3>1
  <2>3. RefHtUp(seed, sig, s, j)
           = [node |-> FipsRef!xmssPkFromSig(lf, LayerPart(sig, j), x, seed,
                          [FipsRef!newAdrs EXCEPT !.layer = j - 1, !.tree = tr]),
              curLeaf |-> g, curTree |-> q]
    BY <1>00 DEF RefHtUp, LayerPart
  <2> HIDE DEF x, tr, lf
  <2>4. /\ FipsRef!xmssPkFromSig(lf, LayerPart(sig, j), x, seed,
              [FipsRef!newAdrs EXCEPT !.layer = j - 1, !.tree = tr]) = y
        /\ y \in V
    BY <2>1, RefLayer
  <2> HIDE DEF y, q, g
  <2>5. RefHtUp(seed, sig, s, j) = [node |-> y, curLeaf |-> g, curTree |-> q]
    BY <2>3, <2>4
  <2>6. RefHtUp(seed, sig, s, j) \in S
    BY <2>2, <2>4, <2>5
  <2>7. /\ RefHtUp(seed, sig, s, j).node = y /\ RefHtUp(seed, sig, s, j).curLeaf = g
        /\ RefHtUp(seed, sig, s, j).curTree = q
    BY <2>5
  <2>. QED  BY <2>6, <2>7 DEF y, q, g, x, tr, lf
<1>02. PICK f : /\ Fips!HtRootFromSig(seed, m, tree, leaf, sig) = f[D]
                /\ f[0] = m /\ \A l \in 0 .. D : f[l] \in V
                /\ \A l \in 1 .. D : f[l] = FipsLayer(seed, at, sig, l, f[l - 1])
  <2> HIDE DEF first
  <2>1. PICK f : FipsHtSteps(f, seed, m, tree, leaf, sig)
    BY FipsHtStepsExist
  <2>. QED  BY <2>1 DEF FipsHtSteps
<1>03. first \in S /\ first.node = m /\ first.curTree = tree /\ first.curLeaf = leaf
       /\ D \in Nat
  BY LiteSizes
<1> DEFINE L == FipsRef!Loop(D)
           E(x, y) == RefHtUp(seed, sig, x, y)
           It(iter) == iter = [s \in SUBSET DOMAIN L |->
                          IF s = {} THEN first
                          ELSE E(iter[s \ {FipsRef!Max(s)}], L[FipsRef!Max(s)])]
           c == CHOOSE iter : It(iter)
           G == [j \in 1 .. D |-> [x \in S |-> E(x, L[j])]]
<1>1. FipsRef!htRootFromSig(sig, m, tree, leaf, seed) = c[DOMAIN L].node
  BY Zenon DEF FipsRef!htRootFromSig, RefHtUp, FipsRef!FoldLeft, FipsRef!MapThenFoldSet
<1>2. DOMAIN L = 1 .. D /\ \A j \in 1 .. D : L[j] = j
  BY DEF FipsRef!Loop
<1>3. \A s : FipsRef!Max(s) = Top(s)
  BY Zenon DEF FipsRef!Max, Top
<1>4. \A j \in 1 .. D : \A x \in S : E(x, L[j]) \in S
  <2> HIDE DEF first, c, It, S
  <2>. QED  BY <1>01, <1>2
<1>5. first \in S /\ D \in Nat
  BY <1>03
<1>04. \A j \in 1 .. D : \A x : E(x, L[j]) = RefHtUp(seed, sig, x, j)
  BY <1>2
<1> HIDE DEF E, L, S, first
<1>6. \A j \in 1 .. D : \A x \in S : G[j][x] = E(x, L[j])
  OBVIOUS
<1>7. PICK t : FoldTable(t, S, D, first, G)
  <2>1. ClosedUnder(S, 0, D, G)
    BY <1>4, <1>6 DEF ClosedUnder
  <2> HIDE DEF G
  <2>. QED  BY <1>5, <2>1, FoldTableExists
<1> HIDE DEF G
<1>8. It(t)
  <2>1. ASSUME NEW s \in SUBSET (1 .. D)
        PROVE  t[s] = IF s = {} THEN first
                      ELSE E(t[s \ {FipsRef!Max(s)}], L[FipsRef!Max(s)])
    <3>1. CASE s = {}
      BY <1>7, <3>1 DEF FoldTable
    <3>2. CASE s # {}
      <4>1. Top(s) \in 1 .. D /\ s \ {Top(s)} \in SUBSET (1 .. D)
        BY <1>5, <3>2, TopIs
      <4>2. t[s] = G[Top(s)][t[s \ {Top(s)}]] /\ t[s \ {Top(s)}] \in S
        BY <1>7, <3>2, <4>1 DEF FoldTable
      <4>. QED  BY <1>3, <1>6, <3>2, <4>1, <4>2
    <3>. QED  BY <3>1, <3>2
  <2>2. t = [s \in SUBSET DOMAIN L |-> t[s]]
    BY <1>2, <1>7 DEF FoldTable
  <2>. QED  BY <1>2, <2>1, <2>2
<1>9. It(c)
  <2> HIDE DEF It
  <2>. QED  BY <1>8
<1> HIDE DEF c
<1>10. /\ c[{}] = first
       /\ \A j \in 1 .. D : c[1 .. j] = E(c[1 .. j - 1], L[j])
  <2>1. \A s \in SUBSET (1 .. D) :
           c[s] = IF s = {} THEN first ELSE E(c[s \ {Top(s)}], L[Top(s)])
    BY <1>2, <1>3, <1>9
  <2>2. {} \in SUBSET (1 .. D)
    OBVIOUS
  <2>3. ASSUME NEW j \in 1 .. D PROVE c[1 .. j] = E(c[1 .. j - 1], L[j])
    <3>1. 1 .. j \in SUBSET (1 .. D) /\ 1 .. j # {} /\ Top(1 .. j) = j
          /\ (1 .. j) \ {j} = 1 .. j - 1
      BY <1>5, TopIs
    <3>. QED  BY <2>1, <3>1, Zenon
  <2>. QED  BY <2>1, <2>2, <2>3
<1>11. \A j \in 0 .. D : c[1 .. j] \in S
  <2> DEFINE X == {j \in 0 .. D : c[1 .. j] \in S}
  <2>1. 0 \in X /\ 0 \in Nat
    <3>1. 1 .. 0 = {}
      OBVIOUS
    <3>. QED  BY <1>03, <1>5, <1>10, <3>1
  <2>2. \A j \in 0 + 1 .. D : j - 1 \in X => j \in X
    BY <1>4, <1>5, <1>10
  <2>3. 0 .. D \subseteq X
    <3> HIDE DEF X
    <3>. QED  BY <1>5, <2>1, <2>2, Upward
  <2>. QED  BY <2>3
<1>12. Ascends(at, tree, leaf)
  BY FipsPlaces
<1> HIDE DEF at
<1> DEFINE X == {j \in 0 .. D : /\ c[1 .. j].node = f[j]
                                /\ j < D => /\ c[1 .. j].curTree = at[j].tree
                                            /\ c[1 .. j].curLeaf = at[j].leaf}
<1>13. 0 \in X /\ 0 \in Nat
  <2>1. 1 .. 0 = {}
    OBVIOUS
  <2>. QED  BY <1>5, <1>10, <1>02, <1>03, <1>12, <2>1 DEF Ascends
<1>14. \A j \in 0 + 1 .. D : j - 1 \in X => j \in X
  <2> SUFFICES ASSUME NEW j \in 1 .. D, j - 1 \in X PROVE j \in X
    BY <1>5
  <2> DEFINE x == c[1 .. j - 1]
  <2>1. j - 1 \in 0 .. D /\ j - 1 < D /\ D \in Nat
    BY <1>5
  <2>2. x.node = f[j - 1] /\ x.curTree = at[j - 1].tree /\ x.curLeaf = at[j - 1].leaf
    BY <2>1
  <2>3. x \in S
    BY <1>11, <2>1
  <2>4. c[1 .. j] = RefHtUp(seed, sig, x, j)
    BY <1>04, <1>10
  <2> HIDE DEF x
  <2>05. /\ RefHtUp(seed, sig, x, j).node
              = Fips!XmssPkFromSig(seed, j - 1, x.curTree, x.curLeaf, x.node, LayerPart(sig, j))
         /\ RefHtUp(seed, sig, x, j).curLeaf = x.curTree % 2^H_PRIME
         /\ RefHtUp(seed, sig, x, j).curTree = x.curTree \div 2^H_PRIME
    BY <1>01, <2>3
  <2>5. c[1 .. j].node = f[j]
    BY <1>02, <2>05, <2>2, <2>4 DEF FipsLayer
  <2>6. j < D => at[j] = [tree |-> at[j - 1].tree \div 2^H_PRIME,
                          leaf |-> at[j - 1].tree % 2^H_PRIME]
    <3>1. j < D => j \in 1 .. D - 1
      BY <2>1
    <3>. QED  BY <1>12, <3>1 DEF Ascends
  <2>7. j < D => c[1 .. j].curTree = at[j].tree /\ c[1 .. j].curLeaf = at[j].leaf
    BY <2>05, <2>2, <2>4, <2>6
  <2>. QED  BY <2>1, <2>5, <2>7
<1>15. 0 .. D \subseteq X
  <2> HIDE DEF X
  <2>. QED  BY <1>5, <1>13, <1>14, Upward
<1>16. c[1 .. D].node = f[D]
  BY <1>5, <1>15
<1>. QED  BY <1>1, <1>2, <1>02, <1>16

-----------------------------------------------------------------------------
(* 2. The forest, the digest, the verifier.                                *)

(* The part of a FORS signature of 128s for tree i, a secret and a path.   *)
TreePart(sig, i) == SubSeq(sig, (i - 1) * (1 + A128) + 1, i * (1 + A128))
TreePath(sig, i) == SubSeq(sig, (i - 1) * (1 + A128) + 2, (i - 1) * (1 + A128) + 1 + A128)

(* What is known of the sizes of the forest.                               *)
LEMMA FipsForsSizes == A128 \in Nat /\ K \in Nat
  BY SignaturesAssumption

(* The secret comes first, the path after it.                              *)
LEMMA PartsOfTrees ==
    ASSUME NEW S, NEW sig \in Seq(S), Len(sig) = K * (1 + A128), NEW i \in 1 .. K
    PROVE  /\ TreePart(sig, i)[1] = sig[(i - 1) * (1 + A128) + 1]
           /\ Len(TreePath(sig, i)) = A128
           /\ \A h \in 1 .. A128 : TreePath(sig, i)[h] = TreePart(sig, i)[h + 1]
BY FipsForsSizes, SecretAndPath DEF TreePart, TreePath

-----------------------------------------------------------------------------
(* One step of the climb in a tree of a forest of 128s.                    *)
FipsForsUp(t, leaf, auth, h, x) ==
    Fips!ForsHash(t, h, leaf \div 2^h,
                  IF (leaf \div 2^(h - 1)) % 2 = 0 THEN <<x, auth[h]>> ELSE <<auth[h], x>>)

(* What that Climb computes, step by step, of values.                      *)
FipsForsSteps(f, t, v, leaf, auth) ==
    /\ Fips!Fors!Climb(t, v, leaf, auth) = f[Len(auth)]
    /\ f[0] = v /\ \A h \in 0 .. Len(auth) : f[h] \in V
    /\ \A h \in 1 .. Len(auth) : f[h] = FipsForsUp(t, leaf, auth, h, f[h - 1])

(* There are such values.                                                  *)
LEMMA FipsForsClimb ==
    ASSUME HashFits, NEW t, NEW v \in V, NEW leaf, NEW auth, Len(auth) \in Nat
    PROVE  \E f : FipsForsSteps(f, t, v, leaf, auth)
<1> DEFINE n == Len(auth)
           Up(h, x) == FipsForsUp(t, leaf, auth, h, x)
           Is(f) == f = [h \in 0 .. n |-> IF h = 0 THEN v ELSE Up(h, f[h - 1])]
           G == [h \in 0 + 1 .. n |-> [x \in V |-> Up(h, x)]]
           c == CHOOSE f : Is(f)
<1>1. \A h, x : Up(h, x) \in V
  BY DEF FipsForsUp, HashFits, Fips!ForsHash, Fips!Thash
<1>2. Fips!Fors!Climb(t, v, leaf, auth) = c[n]
  BY DEF Fips!Fors!Climb, FipsForsUp
<1> HIDE DEF Up, n
<1>3. n \in Nat /\ 0 \in Nat /\ 0 <= n
  BY DEF n
<1>4. \A h \in 0 + 1 .. n : \A x \in V : G[h][x] = Up(h, x)
  OBVIOUS
<1>5. PICK f : Iterate(f, V, 0, n, v, G)
  <2>1. ClosedUnder(V, 0, n, G)
    BY <1>1, <1>4 DEF ClosedUnder
  <2> HIDE DEF G
  <2>. QED  BY <1>3, <2>1, Iterates
<1> HIDE DEF G
<1>6. Is(f)
  <2>1. ASSUME NEW h \in 0 .. n PROVE f[h] = IF h = 0 THEN v ELSE Up(h, f[h - 1])
    <3>1. CASE h = 0
      BY <1>5, <3>1 DEF Iterate
    <3>2. CASE h # 0
      <4>1. h \in 0 + 1 .. n /\ h - 1 \in 0 .. n
        BY <1>3, <3>2
      <4>2. f[h] = G[h][f[h - 1]] /\ f[h - 1] \in V
        BY <1>5, <4>1 DEF Iterate
      <4>. QED  BY <1>4, <3>2, <4>1, <4>2
    <3>. QED  BY <3>1, <3>2
  <2>2. f = [h \in 0 .. n |-> f[h]]
    BY <1>5 DEF Iterate
  <2>. QED  BY <2>1, <2>2
<1>7. Is(c)
  <2> HIDE DEF Is
  <2>. QED  BY <1>6
<1> HIDE DEF c
<1>8. c[0] = v /\ \A h \in 1 .. n : c[h] = Up(h, c[h - 1])
  BY <1>3, <1>7
<1>9. \A h \in 0 .. n : c[h] \in V
  <2>1. \A h \in 0 + 1 .. n : c[h - 1] \in V => c[h] \in V
    BY <1>1, <1>8
  <2>. QED  BY <1>3, <1>8, <2>1, StaysIn
<1>10. FipsForsSteps(c, t, v, leaf, auth)
  BY <1>2, <1>8, <1>9 DEF n, Up, FipsForsSteps
<1>. QED  BY <1>10

(* Addresses in a forest of 128s.                                          *)
TreeAdrs(tree, kp) ==
    [layer : {0}, tree : {tree}, type : {FipsRef!FORS_TREE}, keypair : {kp},
     treeHeight : Nat, treeIndex : Nat]

(* The loop up the path of a tree.                                         *)
RefRise(seed, i, g, s, j) ==
    LET a == [s.adrs EXCEPT !.treeHeight = j,
                            !.treeIndex = (i - 1) * 2^(A128 - j) + s.cur \div 2]
    IN  [adrs |-> a, cur |-> s.cur \div 2,
         node |-> FipsRef!thash(seed, a, FipsRef!Merge(s.cur % 2, s.node, g[j + 1]))]

(* Its states.                                                             *)
Rising(tree, kp) == [adrs : TreeAdrs(tree, kp), cur : Nat, node : V]

(* r is one step of the climb further than s.                              *)
Rises(seed, tree, kp, i, idx, auth, j, s, r) ==
    /\ r \in Rising(tree, kp)
    /\ r.cur = s.cur \div 2
    /\ s.cur = idx \div 2^(j - 1)
          => r.node = FipsForsUp(Fips!ForsTree(seed, tree, kp, i - 1), idx, auth, j, s.node)

(* One round of it is a step of the climb.                                 *)
LEMMA RefRises ==
    ASSUME HashFits, NEW seed, NEW tree, NEW kp, NEW i \in 1 .. K, NEW g,
           NEW idx \in Nat, NEW auth, NEW j \in 1 .. A128, auth[j] = g[j + 1],
           NEW s \in Rising(tree, kp)
    PROVE  Rises(seed, tree, kp, i, idx, auth, j, s, RefRise(seed, i, g, s, j))
<1> DEFINE b == s.adrs
           q == s.cur \div 2
           w == 2^(A128 - j)
           z == (i - 1) * w + q
           a == [b EXCEPT !.treeHeight = j, !.treeIndex = z]
           m == FipsRef!Merge(s.cur % 2, s.node, g[j + 1])
           y == FipsRef!thash(seed, a, m)
           r == [adrs |-> a, cur |-> q, node |-> y]
           t == Fips!ForsTree(seed, tree, kp, i - 1)
<1>1. RefRise(seed, i, g, s, j) = r
  BY DEF RefRise
<1>2. b \in TreeAdrs(tree, kp) /\ s.cur \in Nat
  BY DEF Rising
<1>3. q \in Nat /\ w \in Nat /\ i - 1 \in Nat /\ j \in Nat
  <2>1. A128 - j \in Nat
    BY FipsForsSizes
  <2>2. w \in Nat
    BY <2>1, PowNat
  <2>. QED  BY <1>2, <2>2
<1> HIDE DEF b, m, q, w
<1>03. z \in Nat
  BY <1>3
<1>0. z = (i - 1) * w + q
  OBVIOUS
<1> HIDE DEF z
<1>4. a \in TreeAdrs(tree, kp) /\ Words(a, 0, tree, FipsRef!FORS_TREE, kp, j, z)
  BY <1>2, <1>03, <1>3 DEF TreeAdrs, Words
<1> HIDE DEF a
<1>5. y \in V
  BY DEF FipsRef!thash, HashFits
<1>6. y = Fips!Thash(seed, Fips!Adrs(0, tree, FipsRef!FORS_TREE, kp, j, z), m)
  BY <1>4, FipsHashOfWords
<1> HIDE DEF y
<1>7. r \in Rising(tree, kp) /\ r.cur = q /\ r.node = y
  BY <1>3, <1>4, <1>5 DEF Rising
<1> HIDE DEF r
<1>8. ASSUME s.cur = idx \div 2^(j - 1)
      PROVE  y = FipsForsUp(t, idx, auth, j, s.node)
  <2>1. m = IF (idx \div 2^(j - 1)) % 2 = 0 THEN <<s.node, auth[j]>> ELSE <<auth[j], s.node>>
    BY <1>8 DEF m, FipsRef!Merge
  <2>2. FipsForsUp(t, idx, auth, j, s.node) = Fips!ForsHash(t, j, idx \div 2^j, m)
    BY <2>1 DEF FipsForsUp
  <2>3. idx \div 2^j = q
    <3>1. idx \div 2^j = (idx \div 2^(j - 1)) \div 2
      BY HalvedOnce
    <3>. QED  BY <1>8, <3>1 DEF q
  <2>4. t.seed = seed /\ t.tree = tree /\ t.keypair = kp /\ t.num = i - 1
    BY DEF Fips!ForsTree
  <2> HIDE DEF t
  <2>5. Fips!ForsHash(t, j, q, m)
           = Fips!Thash(seed, Fips!Adrs(0, tree, Fips!FORS_TREE, kp, j, z), m)
    BY <1>0, <2>4 DEF Fips!ForsHash, w
  <2>. QED  BY <1>6, <2>2, <2>3, <2>5 DEF FipsRef!FORS_TREE, Fips!FORS_TREE
<1>. QED  BY <1>1, <1>7, <1>8 DEF q, t, Rises

(* All rounds.                                                             *)
RefRisen(seed, i, g, a, idx, v) ==
    FipsRef!FoldLeft(LAMBDA s, j : RefRise(seed, i, g, s, j),
                     [adrs |-> a, cur |-> idx, node |-> v], FipsRef!Loop(A128)).node

(* The climb by recursion ends in the same node.                           *)
AgreeOn(seed, tree, kp, i, g, a, idx, v, auth) ==
    /\ RefRisen(seed, i, g, a, idx, v)
          = Fips!Fors!Climb(Fips!ForsTree(seed, tree, kp, i - 1), v, idx, auth)
    /\ RefRisen(seed, i, g, a, idx, v) \in V

(* The loop climbs as the verifier does.                                   *)
LEMMA RefRisenIs ==
    ASSUME HashFits, NEW seed, NEW tree, NEW kp, NEW i \in 1 .. K, NEW g, NEW idx \in Nat,
           NEW a \in TreeAdrs(tree, kp), NEW v \in V,
           NEW auth, Len(auth) = A128, \A h \in 1 .. A128 : auth[h] = g[h + 1]
    PROVE  AgreeOn(seed, tree, kp, i, g, a, idx, v, auth)
<1> DEFINE n == A128
           tr == Fips!ForsTree(seed, tree, kp, i - 1)
           first == [adrs |-> a, cur |-> idx, node |-> v]
<1>01. first \in Rising(tree, kp) /\ n \in Nat /\ first.cur = idx /\ first.node = v
  BY FipsForsSizes DEF Rising
<1> DEFINE L == FipsRef!Loop(n)
           E(x, y) == RefRise(seed, i, g, x, y)
           It(iter) == iter = [s \in SUBSET DOMAIN L |->
                          IF s = {} THEN first
                          ELSE E(iter[s \ {FipsRef!Max(s)}], L[FipsRef!Max(s)])]
           c == CHOOSE iter : It(iter)
           S == Rising(tree, kp)
           G == [j \in 1 .. n |-> [x \in S |-> E(x, L[j])]]
<1>1. RefRisen(seed, i, g, a, idx, v) = c[DOMAIN L].node
  BY Zenon DEF RefRisen, FipsRef!FoldLeft, FipsRef!MapThenFoldSet
<1>2. DOMAIN L = 1 .. n /\ \A j \in 1 .. n : L[j] = j
  BY DEF FipsRef!Loop
<1>3. \A s : FipsRef!Max(s) = Top(s)
  BY Zenon DEF FipsRef!Max, Top
<1>4. \A j \in 1 .. n : \A x \in S : E(x, L[j]) \in S
  <2>1. ASSUME NEW j \in 1 .. n, NEW x \in Rising(tree, kp)
        PROVE  RefRise(seed, i, g, x, j) \in Rising(tree, kp)
    <3>1. j \in 1 .. A128 /\ auth[j] = g[j + 1]
      OBVIOUS
    <3> HIDE DEF L, E, It, c, S, G, tr, first, n
    <3>2. Rises(seed, tree, kp, i, idx, auth, j, x, RefRise(seed, i, g, x, j))
      BY <3>1, RefRises
    <3>. QED  BY <3>2 DEF Rises
  <2> HIDE DEF first, c, It
  <2>. QED  BY <1>2, <2>1
<1>5. first \in S /\ n \in Nat
  BY <1>01
<1>02. \A j \in 1 .. n : \A x \in S :
          /\ E(x, L[j]).cur = x.cur \div 2
          /\ x.cur = idx \div 2^(j - 1)
                => E(x, L[j]).node = FipsForsUp(tr, idx, auth, j, x.node)
  <2>1. ASSUME NEW j \in 1 .. n, NEW x \in Rising(tree, kp)
        PROVE  /\ RefRise(seed, i, g, x, j).cur = x.cur \div 2
               /\ x.cur = idx \div 2^(j - 1)
                    => RefRise(seed, i, g, x, j).node = FipsForsUp(tr, idx, auth, j, x.node)
    <3>1. j \in 1 .. A128 /\ auth[j] = g[j + 1]
      OBVIOUS
    <3> HIDE DEF L, E, It, c, S, G, first, n
    <3>2. Rises(seed, tree, kp, i, idx, auth, j, x, RefRise(seed, i, g, x, j))
      BY <3>1, RefRises
    <3>. QED  BY <3>2 DEF Rises, tr
  <2> HIDE DEF first, c, It, tr
  <2>. QED  BY <1>2, <2>1
<1> HIDE DEF E, L, S, first
<1>6. \A j \in 1 .. n : \A x \in S : G[j][x] = E(x, L[j])
  OBVIOUS
<1>7. PICK t : FoldTable(t, S, n, first, G)
  <2>1. ClosedUnder(S, 0, n, G)
    BY <1>4, <1>6 DEF ClosedUnder
  <2> HIDE DEF G
  <2>. QED  BY <1>5, <2>1, FoldTableExists
<1> HIDE DEF G
<1>8. It(t)
  <2>1. ASSUME NEW s \in SUBSET (1 .. n)
        PROVE  t[s] = IF s = {} THEN first
                      ELSE E(t[s \ {FipsRef!Max(s)}], L[FipsRef!Max(s)])
    <3>1. CASE s = {}
      BY <1>7, <3>1 DEF FoldTable
    <3>2. CASE s # {}
      <4>1. Top(s) \in 1 .. n /\ s \ {Top(s)} \in SUBSET (1 .. n)
        BY <1>5, <3>2, TopIs
      <4>2. t[s] = G[Top(s)][t[s \ {Top(s)}]] /\ t[s \ {Top(s)}] \in S
        BY <1>7, <3>2, <4>1 DEF FoldTable
      <4>. QED  BY <1>3, <1>6, <3>2, <4>1, <4>2
    <3>. QED  BY <3>1, <3>2
  <2>2. t = [s \in SUBSET DOMAIN L |-> t[s]]
    BY <1>2, <1>7 DEF FoldTable
  <2>. QED  BY <1>2, <2>1, <2>2
<1>9. It(c)
  <2> HIDE DEF It
  <2>. QED  BY <1>8
<1> HIDE DEF c
<1>10. /\ c[{}] = first
       /\ \A j \in 1 .. n : c[1 .. j] = E(c[1 .. j - 1], L[j])
  <2>1. \A s \in SUBSET (1 .. n) :
           c[s] = IF s = {} THEN first ELSE E(c[s \ {Top(s)}], L[Top(s)])
    BY <1>2, <1>3, <1>9
  <2>2. {} \in SUBSET (1 .. n)
    OBVIOUS
  <2>3. ASSUME NEW j \in 1 .. n PROVE c[1 .. j] = E(c[1 .. j - 1], L[j])
    <3>1. 1 .. j \in SUBSET (1 .. n) /\ 1 .. j # {} /\ Top(1 .. j) = j
          /\ (1 .. j) \ {j} = 1 .. j - 1
      BY <1>5, TopIs
    <3>. QED  BY <2>1, <3>1, Zenon
  <2>. QED  BY <2>1, <2>2, <2>3
<1>11. PICK f : /\ Fips!Fors!Climb(tr, v, idx, auth) = f[n]
                /\ f[0] = v /\ \A h \in 0 .. n : f[h] \in V
                /\ \A h \in 1 .. n : f[h] = FipsForsUp(tr, idx, auth, h, f[h - 1])
  <2>1. Len(auth) \in Nat
    BY <1>01
  <2> HIDE DEF tr
  <2>2. PICK f : FipsForsSteps(f, tr, v, idx, auth)
    BY <2>1, FipsForsClimb
  <2>3. Len(auth) = n
    OBVIOUS
  <2>. QED  BY <2>2, <2>3 DEF FipsForsSteps
<1> HIDE DEF tr, n
<1>12. \A j \in 0 .. n : c[1 .. j] \in S
  <2> DEFINE X == {j \in 0 .. n : c[1 .. j] \in S}
  <2>1. 0 \in X /\ 0 \in Nat
    <3>1. 1 .. 0 = {}
      OBVIOUS
    <3>. QED  BY <1>01, <1>5, <1>10, <3>1
  <2>2. \A j \in 0 + 1 .. n : j - 1 \in X => j \in X
    BY <1>4, <1>5, <1>10
  <2>3. 0 .. n \subseteq X
    <3> HIDE DEF X
    <3>. QED  BY <1>5, <2>1, <2>2, Upward
  <2>. QED  BY <2>3
<1> DEFINE X == {j \in 0 .. n : c[1 .. j].node = f[j] /\ c[1 .. j].cur = idx \div 2^j}
<1>13. 0 \in X /\ 0 \in Nat
  <2>1. 1 .. 0 = {} /\ 2^0 = 1 /\ idx \div 1 = idx
    OBVIOUS
  <2>2. idx \div 2^0 = idx
    BY <2>1
  <2>. QED  BY <1>01, <1>5, <1>10, <1>11, <2>1, <2>2
<1>14. ASSUME NEW j \in 0 + 1 .. n, j - 1 \in X PROVE j \in X
  <2>0. j \in 1 .. n
    BY <1>5
  <2>00. c[1 .. j - 1].node = f[j - 1] /\ c[1 .. j - 1].cur = idx \div 2^(j - 1)
    BY <1>14
  <2> DEFINE x == c[1 .. j - 1]
  <2>1. j - 1 \in 0 .. n /\ j \in Nat \ {0} /\ j \in 0 .. n
    BY <1>5, <2>0
  <2>2. x.node = f[j - 1] /\ x.cur = idx \div 2^(j - 1) /\ x \in S
    BY <1>12, <2>00, <2>1
  <2>3. c[1 .. j] = E(x, L[j])
    BY <1>10, <2>0
  <2> HIDE DEF x
  <2>4. idx \div 2^j = (idx \div 2^(j - 1)) \div 2
    BY <2>1, HalvedOnce
  <2>05. f[j] = FipsForsUp(tr, idx, auth, j, f[j - 1])
    BY <1>11, <2>0
  <2>06. x.cur \div 2 = idx \div 2^j /\ x.cur = idx \div 2^(j - 1)
    BY <2>2, <2>4
  <2>07. E(x, L[j]).cur = x.cur \div 2
         /\ E(x, L[j]).node = FipsForsUp(tr, idx, auth, j, x.node)
    BY <1>02, <2>0, <2>06, <2>2
  <2>5. c[1 .. j].cur = idx \div 2^j /\ c[1 .. j].node = f[j]
    BY <2>2, <2>3, <2>05, <2>06, <2>07
  <2>. QED  BY <2>1, <2>5
<1>15. 0 .. n \subseteq X
  <2> HIDE DEF X
  <2>. QED  BY <1>5, <1>13, <1>14, Upward
<1>16. c[1 .. n].node = f[n] /\ f[n] \in V
  BY <1>5, <1>11, <1>15
<1>. QED  BY <1>1, <1>2, <1>11, <1>16 DEF tr, n, AgreeOn

(* The root that a part of a signature of 128s leads to.                   *)
FipsRootOf(seed, tree, kp, indices, sig, n) ==
    Fips!Fors!Climb(Fips!ForsTree(seed, tree, kp, n - 1),
                    Fips!ForsHash(Fips!ForsTree(seed, tree, kp, n - 1), 0, indices[n],
                                  <<sig[(n - 1) * (1 + A128) + 1]>>),
                    indices[n], TreePath(sig, n))

(* Both verifiers of 128s find the same root of each tree.                 *)
LEMMA RefFipsRoot ==
    ASSUME HashFits, NEW seed, NEW tree, NEW kp, NEW indices, NEW i \in 1 .. K,
           indices[i] \in Nat, NEW T, NEW sig \in Seq(T), Len(sig) = K * (1 + A128),
           NEW adrs, Words(adrs, 0, tree, FipsRef!FORS_TREE, kp, 0, 0)
    PROVE  FipsRef!ForsRoot(i, indices[i], TreePart(sig, i), seed, adrs)
              = FipsRootOf(seed, tree, kp, indices, sig, i)
<1> DEFINE g == TreePart(sig, i)
           p == TreePath(sig, i)
           idx == indices[i]
           w == 2^A128
           z == (i - 1) * w + idx
           a == [adrs EXCEPT !.type = FipsRef!FORS_TREE, !.treeHeight = 0, !.treeIndex = z]
           m == <<g[1]>>
           v == FipsRef!thash(seed, a, m)
           t == Fips!ForsTree(seed, tree, kp, i - 1)
<1>1. /\ g[1] = sig[(i - 1) * (1 + A128) + 1]
      /\ Len(p) = A128 /\ \A h \in 1 .. A128 : p[h] = g[h + 1]
  BY PartsOfTrees
<1>2. FipsRef!ForsRoot(i, idx, g, seed, adrs)
         = RefRisen(seed, i, g, a, idx, v)
  BY Zenon DEF FipsRef!ForsRoot, RefRise, RefRisen
<1>3. FipsRootOf(seed, tree, kp, indices, sig, i)
         = Fips!Fors!Climb(t, Fips!ForsHash(t, 0, idx, m), idx, p)
  BY <1>1 DEF FipsRootOf
<1>4. w \in Nat /\ idx \in Nat /\ i - 1 \in Nat
  BY FipsForsSizes, PowNat
<1>05. A128 - 0 = A128
  BY FipsForsSizes
<1>5. t.seed = seed /\ t.tree = tree /\ t.keypair = kp /\ t.num = i - 1
  BY DEF Fips!ForsTree
<1>6. z = (i - 1) * 2^(A128 - 0) + idx
  BY <1>05
<1>7. Fips!ForsHash(t, 0, idx, m)
         = Fips!Thash(seed, Fips!Adrs(0, tree, Fips!FORS_TREE, kp, 0, z), m)
  <2> HIDE DEF t, z, m
  <2>. QED  BY <1>5, <1>6 DEF Fips!ForsHash
<1> HIDE DEF w, idx
<1>8. z \in Nat
  BY <1>4
<1> HIDE DEF z
<1>9. Words(a, 0, tree, FipsRef!FORS_TREE, kp, 0, z)
  <2> DEFINE ft == FipsRef!FORS_TREE
  <2>1. Words(adrs, 0, tree, ft, kp, 0, 0)
    OBVIOUS
  <2> HIDE DEF ft
  <2>2. Words([adrs EXCEPT !.type = ft, !.treeHeight = 0, !.treeIndex = z], 0, tree, ft, kp, 0, z)
    BY <2>1, PutWord
  <2>. QED  BY <2>2 DEF ft
<1> HIDE DEF a, m
<1>10. v = Fips!ForsHash(t, 0, idx, m)
  BY <1>7, <1>9, FipsHashOfWords DEF FipsRef!FORS_TREE, Fips!FORS_TREE
<1>11. a \in TreeAdrs(tree, kp) /\ v \in V
  <2>1. a \in TreeAdrs(tree, kp)
    BY <1>8, <1>9 DEF Words, TreeAdrs
  <2>2. v \in V
    BY DEF FipsRef!thash, HashFits
  <2>. QED  BY <2>1, <2>2
<1> HIDE DEF v, t, g, p
<1>011. Len(p) = A128 /\ \A h \in 1 .. A128 : p[h] = g[h + 1]
  BY <1>1
<1>111. idx \in Nat /\ a \in TreeAdrs(tree, kp) /\ v \in V
  BY <1>4, <1>11
<1>012. AgreeOn(seed, tree, kp, i, g, a, idx, v, p)
  BY <1>011, <1>111, RefRisenIs
<1>12. RefRisen(seed, i, g, a, idx, v)
          = Fips!Fors!Climb(Fips!ForsTree(seed, tree, kp, i - 1), v, idx, p)
  BY <1>012 DEF AgreeOn
<1>. QED  BY <1>2, <1>3, <1>10, <1>12 DEF g, idx, t

(* And of the forest.                                                      *)
LEMMA RefFipsFors ==
    ASSUME HashFits, NEW seed, NEW tree, NEW kp, NEW indices,
           \A n \in 1 .. K : indices[n] \in Nat,
           NEW T, NEW sig \in Seq(T), Len(sig) = K * (1 + A128),
           NEW md, FipsRef!ForsIndices(md) = indices,
           NEW adrs, Words(adrs, 0, tree, FipsRef!FORS_TREE, kp, 0, 0)
    PROVE  /\ FipsRef!forsPkFromSig(sig, md, seed, adrs)
                 = Fips!ForsPkFromSig(seed, tree, kp, indices, sig)
           /\ Fips!ForsPkFromSig(seed, tree, kp, indices, sig) \in V
<1> DEFINE roots == [n \in 1 .. K |-> FipsRootOf(seed, tree, kp, indices, sig, n)]
           a == [adrs EXCEPT !.type = FipsRef!FORS_ROOTS, !.treeHeight = 0, !.treeIndex = 0]
           R(i) == FipsRef!ForsRoot(i, indices[i], TreePart(sig, i), seed, adrs)
<1>1. FipsRef!forsPkFromSig(sig, md, seed, adrs)
         = FipsRef!thash(seed, a, [i \in 1 .. K |-> R(i)])
  BY Zenon DEF FipsRef!forsPkFromSig, TreePart
<1>2. \A i \in 1 .. K : R(i) = FipsRootOf(seed, tree, kp, indices, sig, i)
  BY RefFipsRoot
<1>3. Fips!ForsPkFromSig(seed, tree, kp, indices, sig)
         = Fips!Thash(seed, Fips!Adrs(0, tree, Fips!FORS_ROOTS, kp, 0, 0), roots)
  BY DEF Fips!ForsPkFromSig, FipsRootOf, TreePath
<1> HIDE DEF R
<1>4. [i \in 1 .. K |-> R(i)] = roots
  BY <1>2
<1> HIDE DEF roots
<1>5. Words(a, 0, tree, FipsRef!FORS_ROOTS, kp, 0, 0)
  <2> DEFINE ft == FipsRef!FORS_TREE
             fr == FipsRef!FORS_ROOTS
  <2>1. Words(adrs, 0, tree, ft, kp, 0, 0)
    OBVIOUS
  <2> HIDE DEF ft, fr
  <2>2. Words([adrs EXCEPT !.type = fr, !.treeHeight = 0, !.treeIndex = 0], 0, tree, fr, kp, 0, 0)
    BY <2>1, PutWord
  <2>. QED  BY <2>2 DEF fr
<1> HIDE DEF a
<1>6. FipsRef!thash(seed, a, roots)
         = Fips!Thash(seed, Fips!Adrs(0, tree, FipsRef!FORS_ROOTS, kp, 0, 0), roots)
  BY <1>5, FipsHashOfWords
<1>7. Fips!Thash(seed, Fips!Adrs(0, tree, Fips!FORS_ROOTS, kp, 0, 0), roots) \in V
  BY FipsHash
<1>. QED  BY <1>1, <1>3, <1>4, <1>6, <1>7 DEF FipsRef!FORS_ROOTS, Fips!FORS_ROOTS

(* A bit of the message digest.                                            *)
MdBit(md, b) == (md[(b \div 8) + 1] \div 2^(7 - (b % 8))) % 2

(* Those that the indices take exist.                                      *)
LEMMA MdBitNat ==
    ASSUME NEW md \in Seq(Nat), Len(md) = Fips!MD_BYTES, NEW b \in Nat, b < K * A128
    PROVE  MdBit(md, b) \in Nat
<1>1. K * A128 \in Nat
  BY FipsForsSizes
<1>2. (b \div 8) + 1 \in 1 .. Fips!MD_BYTES /\ 7 - (b % 8) \in Nat
  <2>1. \A x, y \in Nat : y < x => (y \div 8) + 1 \in 1 .. (x + 7) \div 8 /\ 7 - (y % 8) \in Nat
    OBVIOUS
  <2>. QED  BY <1>1, <2>1 DEF Fips!MD_BYTES
<1> DEFINE k == (b \div 8) + 1
           e == 7 - (b % 8)
<1>3. md[k] \in Nat
  <2> HIDE DEF k
  <2>. QED  BY <1>2, ElementOfSeq DEF k
<1>4. 2^e \in Nat \ {0}
  <2> HIDE DEF e
  <2>. QED  BY <1>2, PowNat DEF e
<1>5. \A x \in Nat, p \in Nat \ {0} : (x \div p) % 2 \in Nat
  OBVIOUS
<1>. QED  BY <1>3, <1>4, <1>5 DEF MdBit

(* The recursion that reads one.                                           *)
BitsRead(md, n) ==
    LET v[b \in 0 .. A128] ==
          IF b = 0 THEN 0 ELSE 2 * v[b - 1] + MdBit(md, (n - 1) * A128 + b - 1)
    IN  v[A128]

(* The loop that reads one.                                                *)
RefRead(md, off) ==
    FipsRef!FoldLeft(LAMBDA v, b : 2 * v + MdBit(md, off + b - 1), 0, FipsRef!Loop(A128))

(* Both take the same bits.                                                *)
LEMMA RefReads ==
    ASSUME NEW md \in Seq(Nat), Len(md) = Fips!MD_BYTES, NEW i \in 1 .. K
    PROVE  BitsRead(md, i) = RefRead(md, (i - 1) * A128) /\ BitsRead(md, i) \in Nat
<1> DEFINE n == A128
           off == (i - 1) * A128
           bit(b) == MdBit(md, off + b - 1)
           Up(b, x) == 2 * x + bit(b)
           Is(f) == f = [b \in 0 .. n |-> IF b = 0 THEN 0 ELSE Up(b, f[b - 1])]
           H == [b \in 0 + 1 .. n |-> [x \in Nat |-> Up(b, x)]]
           e == CHOOSE f : Is(f)
<1>01. n \in Nat
  BY FipsForsSizes
<1>02. \A b \in 1 .. n : bit(b) \in Nat
  <2> SUFFICES ASSUME NEW b \in 1 .. n PROVE bit(b) \in Nat
    OBVIOUS
  <2>1. off \in Nat /\ off + n <= K * A128
    <3>1. \A x \in Nat : \A k \in Nat : \A y \in 1 .. k :
             (y - 1) * x \in Nat /\ (y - 1) * x + x <= k * x
      <4> SUFFICES ASSUME NEW x \in Nat, NEW k \in Nat, NEW y \in 1 .. k
                   PROVE  (y - 1) * x \in Nat /\ (y - 1) * x + x <= k * x
        OBVIOUS
      <4>1. PICK d \in Nat : k = y + d
        <5>1. k - y \in Nat /\ k = y + (k - y)
          OBVIOUS
        <5>. QED  BY <5>1
      <4>2. PICK z \in Nat : z = y - 1
        OBVIOUS
      <4>3. k * x = z * x + x + d * x /\ z * x \in Nat /\ d * x \in Nat
        <5>1. k = z + 1 + d
          BY <4>1, <4>2
        <5>. QED  BY <5>1
      <4>. QED  BY <4>2, <4>3
    <3>2. K \in Nat /\ A128 \in Nat
      BY FipsForsSizes
    <3>. QED  BY <3>1, <3>2
  <2>2. K * A128 \in Nat
    BY FipsForsSizes
  <2> HIDE DEF off
  <2>3. off + b - 1 \in Nat /\ off + b - 1 < K * A128
    BY <1>01, <2>1, <2>2
  <2>. QED  BY <2>3, MdBitNat
<1>03. BitsRead(md, i) = e[n]
  BY DEF BitsRead
<1>04. RefRead(md, off) = FipsRef!FoldLeft(LAMBDA v, b : Up(b, v), 0, FipsRef!Loop(n))
  BY Zenon DEF RefRead
<1> HIDE DEF bit, off
<1>05. \A b \in 0 + 1 .. n : \A x \in Nat : H[b][x] = Up(b, x)
  OBVIOUS
<1>06. \A b \in 1 .. n : \A x \in Nat : Up(b, x) \in Nat
  BY <1>02
<1> HIDE DEF Up
<1>07. PICK f : Iterate(f, Nat, 0, n, 0, H)
  <2>1. ClosedUnder(Nat, 0, n, H)
    <3>1. 0 + 1 .. n = 1 .. n
      OBVIOUS
    <3> HIDE DEF H, n
    <3>2. \A b \in 1 .. n : \A x \in Nat : H[b][x] \in Nat
      BY <1>05, <1>06, <3>1
    <3>. QED  BY <3>1, <3>2 DEF ClosedUnder
  <2>2. 0 \in Nat /\ 0 <= n
    BY <1>01
  <2> HIDE DEF H
  <2>. QED  BY <1>01, <2>1, <2>2, Iterates
<1> HIDE DEF H, n
<1>08. Is(f)
  <2>1. ASSUME NEW h \in 0 .. n PROVE f[h] = IF h = 0 THEN 0 ELSE Up(h, f[h - 1])
    <3>1. CASE h = 0
      BY <1>07, <3>1 DEF Iterate
    <3>2. CASE h # 0
      <4>1. h \in 0 + 1 .. n /\ h - 1 \in 0 .. n
        BY <1>01, <3>2
      <4>2. f[h] = H[h][f[h - 1]] /\ f[h - 1] \in Nat
        BY <1>07, <4>1 DEF Iterate
      <4>. QED  BY <1>05, <3>2, <4>1, <4>2
    <3>. QED  BY <3>1, <3>2
  <2>2. f = [h \in 0 .. n |-> f[h]]
    BY <1>07 DEF Iterate
  <2>. QED  BY <2>1, <2>2
<1>09. Is(e)
  <2> HIDE DEF Is
  <2>. QED  BY <1>08
<1> HIDE DEF e
<1>00. e[0] = 0 /\ \A b \in 1 .. n : e[b] = Up(b, e[b - 1])
  BY <1>01, <1>09
<1> DEFINE L == FipsRef!Loop(n)
           E(x, y) == Up(y, x)
           It(iter) == iter = [s \in SUBSET DOMAIN L |->
                          IF s = {} THEN 0
                          ELSE E(iter[s \ {FipsRef!Max(s)}], L[FipsRef!Max(s)])]
           c == CHOOSE iter : It(iter)
           G == [j \in 1 .. n |-> [x \in Nat |-> E(x, L[j])]]
<1>1. RefRead(md, off) = c[DOMAIN L]
  BY <1>04, Zenon DEF FipsRef!FoldLeft, FipsRef!MapThenFoldSet
<1>2. DOMAIN L = 1 .. n /\ \A j \in 1 .. n : L[j] = j
  BY DEF FipsRef!Loop
<1>3. \A s : FipsRef!Max(s) = Top(s)
  BY Zenon DEF FipsRef!Max, Top
<1>4. \A j \in 1 .. n : \A x \in Nat : E(x, L[j]) \in Nat
  BY <1>06, <1>2
<1>5. 0 \in Nat /\ n \in Nat
  BY <1>01
<1>20. \A j \in 1 .. n : \A x : E(x, L[j]) = Up(j, x)
  BY <1>2
<1> HIDE DEF E, L
<1>6. \A j \in 1 .. n : \A x \in Nat : G[j][x] = E(x, L[j])
  OBVIOUS
<1>7. PICK t : FoldTable(t, Nat, n, 0, G)
  <2>1. ClosedUnder(Nat, 0, n, G)
    BY <1>4, <1>6 DEF ClosedUnder
  <2> HIDE DEF G
  <2>. QED  BY <1>5, <2>1, FoldTableExists
<1> HIDE DEF G
<1>8. It(t)
  <2>1. ASSUME NEW s \in SUBSET (1 .. n)
        PROVE  t[s] = IF s = {} THEN 0
                      ELSE E(t[s \ {FipsRef!Max(s)}], L[FipsRef!Max(s)])
    <3>1. CASE s = {}
      BY <1>7, <3>1 DEF FoldTable
    <3>2. CASE s # {}
      <4>1. Top(s) \in 1 .. n /\ s \ {Top(s)} \in SUBSET (1 .. n)
        BY <1>5, <3>2, TopIs
      <4>2. t[s] = G[Top(s)][t[s \ {Top(s)}]] /\ t[s \ {Top(s)}] \in Nat
        BY <1>7, <3>2, <4>1 DEF FoldTable
      <4>. QED  BY <1>3, <1>6, <3>2, <4>1, <4>2
    <3>. QED  BY <3>1, <3>2
  <2>2. t = [s \in SUBSET DOMAIN L |-> t[s]]
    BY <1>2, <1>7 DEF FoldTable
  <2>. QED  BY <1>2, <2>1, <2>2
<1>9. It(c)
  <2> HIDE DEF It
  <2>. QED  BY <1>8
<1> HIDE DEF c
<1>10. /\ c[{}] = 0
       /\ \A j \in 1 .. n : c[1 .. j] = E(c[1 .. j - 1], L[j])
  <2>1. \A s \in SUBSET (1 .. n) :
           c[s] = IF s = {} THEN 0 ELSE E(c[s \ {Top(s)}], L[Top(s)])
    BY <1>2, <1>3, <1>9
  <2>2. {} \in SUBSET (1 .. n)
    OBVIOUS
  <2>3. ASSUME NEW j \in 1 .. n PROVE c[1 .. j] = E(c[1 .. j - 1], L[j])
    <3>1. 1 .. j \in SUBSET (1 .. n) /\ 1 .. j # {} /\ Top(1 .. j) = j
          /\ (1 .. j) \ {j} = 1 .. j - 1
      BY <1>5, TopIs
    <3>. QED  BY <2>1, <3>1, Zenon
  <2>. QED  BY <2>1, <2>2, <2>3
<1> DEFINE X == {j \in 0 .. n : c[1 .. j] = e[j] /\ e[j] \in Nat}
<1>12. 0 \in X /\ 0 \in Nat
  <2>1. 1 .. 0 = {}
    OBVIOUS
  <2>. QED  BY <1>00, <1>5, <1>10, <2>1
<1>13. ASSUME NEW j \in 0 + 1 .. n, j - 1 \in X PROVE j \in X
  <2>1. j \in 1 .. n
    BY <1>5
  <2>2. c[1 .. j - 1] = e[j - 1] /\ e[j - 1] \in Nat
    BY <1>13
  <2>3. c[1 .. j] = Up(j, c[1 .. j - 1])
    BY <1>10, <1>20, <2>1
  <2>4. e[j] = Up(j, e[j - 1]) /\ Up(j, e[j - 1]) \in Nat
    BY <1>00, <1>06, <2>1, <2>2
  <2>. QED  BY <1>5, <2>1, <2>2, <2>3, <2>4
<1>14. 0 .. n \subseteq X
  <2> HIDE DEF X
  <2>. QED  BY <1>5, <1>12, <1>13, Upward
<1>15. c[1 .. n] = e[n] /\ e[n] \in Nat
  BY <1>5, <1>14
<1>. QED  BY <1>03, <1>1, <1>2, <1>15 DEF off

(* The loop that reads all indices from a running offset.                  *)
RefNext(md, s) ==
    [bitOff |-> s.bitOff + A128, out |-> Append(s.out, RefRead(md, s.bitOff))]

(* What an extraction has read so far.                                     *)
Reads(md) == {RefRead(md, b) : b \in Nat}
Extracting(md) == [bitOff : Nat, out : Seq(Reads(md))]

(* One round.                                                              *)
LEMMA RefNextIs ==
    ASSUME NEW md, NEW s \in Extracting(md)
    PROVE  /\ RefNext(md, s) \in Extracting(md)
           /\ RefNext(md, s).bitOff = s.bitOff + A128
           /\ RefNext(md, s).out = Append(s.out, RefRead(md, s.bitOff))
           /\ s.out \in Seq(Reads(md)) /\ RefRead(md, s.bitOff) \in Reads(md)
<1> DEFINE R == Reads(md)
           k == s.bitOff
           e == RefRead(md, k)
           o == Append(s.out, e)
           p == k + A128
<1>1. k \in Nat /\ s.out \in Seq(R) /\ p \in Nat
  BY FipsForsSizes DEF Extracting
<1> HIDE DEF k
<1>2. e \in R
  BY <1>1 DEF Reads
<1> HIDE DEF R, e
<1>3. o \in Seq(R)
  BY <1>1, <1>2
<1>4. RefNext(md, s) = [bitOff |-> p, out |-> o]
  BY DEF RefNext, k, e
<1>5. Extracting(md) = [bitOff : Nat, out : Seq(R)]
  BY DEF Extracting, R
<1>6. p = s.bitOff + A128 /\ o = Append(s.out, RefRead(md, s.bitOff))
  BY DEF e, k
<1> HIDE DEF o, p
<1>7. RefNext(md, s) \in [bitOff : Nat, out : Seq(R)]
      /\ RefNext(md, s).bitOff = p /\ RefNext(md, s).out = o
  BY <1>1, <1>3, <1>4
<1>. QED  BY <1>1, <1>2, <1>5, <1>6, <1>7 DEF R, e, k

(* Both take the same indices from a digest.                               *)
LEMMA RefFipsIndices ==
    ASSUME NEW md \in Seq(Nat), Len(md) = Fips!MD_BYTES
    PROVE  /\ FipsRef!ForsIndices(md) = Fips!ExtractForsIndices(md)
           /\ \A n \in 1 .. K : Fips!ExtractForsIndices(md)[n] \in Nat
<1> DEFINE first == [bitOff |-> 0, out |-> <<>>]
           at(j) == j * A128
<1>01. K \in Nat /\ A128 \in Nat
  BY FipsForsSizes
<1>02. Fips!ExtractForsIndices(md) = [n \in 1 .. K |-> BitsRead(md, n)]
  BY DEF Fips!ExtractForsIndices, BitsRead, MdBit
<1>03. \A n \in 1 .. K : BitsRead(md, n) = RefRead(md, at(n - 1)) /\ BitsRead(md, n) \in Nat
  BY RefReads
<1>04. at(0) = 0 /\ \A j \in 1 .. K : at(j - 1) + A128 = at(j)
  <2>1. \A x \in Nat : \A j \in Nat \ {0} : (j - 1) * x + x = j * x /\ 0 * x = 0
    <3> SUFFICES ASSUME NEW x \in Nat, NEW j \in Nat \ {0}
                 PROVE  (j - 1) * x + x = j * x /\ 0 * x = 0
      OBVIOUS
    <3>1. PICK z \in Nat : j = z + 1
      <4>1. j - 1 \in Nat /\ j = (j - 1) + 1
        OBVIOUS
      <4>. QED  BY <4>1
    <3>2. j - 1 = z /\ (z + 1) * x = z * x + x
      BY <3>1
    <3>. QED  BY <3>1, <3>2
  <2>2. 0 * A128 = 0
    BY <1>01
  <2>. QED  BY <1>01, <2>1, <2>2
<1> DEFINE L == FipsRef!Loop(K)
           E(x, y) == RefNext(md, x)
           It(iter) == iter = [s \in SUBSET DOMAIN L |->
                          IF s = {} THEN first
                          ELSE E(iter[s \ {FipsRef!Max(s)}], L[FipsRef!Max(s)])]
           c == CHOOSE iter : It(iter)
           S == Extracting(md)
           G == [j \in 1 .. K |-> [x \in S |-> E(x, L[j])]]
<1>1. FipsRef!ForsIndices(md) = c[DOMAIN L].out
  BY Zenon DEF FipsRef!ForsIndices, RefNext, RefRead, MdBit, FipsRef!FoldLeft, FipsRef!MapThenFoldSet
<1>2. DOMAIN L = 1 .. K
  BY DEF FipsRef!Loop
<1>3. \A s : FipsRef!Max(s) = Top(s)
  BY Zenon DEF FipsRef!Max, Top
<1>4. \A j \in 1 .. K : \A x \in S : E(x, L[j]) \in S
  BY RefNextIs
<1>5. first \in S /\ K \in Nat
  BY <1>01 DEF Extracting
<1>20. \A x \in S : \A y : /\ E(x, y).bitOff = x.bitOff + A128
                           /\ E(x, y).out = Append(x.out, RefRead(md, x.bitOff))
                           /\ x.out \in Seq(Reads(md)) /\ RefRead(md, x.bitOff) \in Reads(md)
  BY RefNextIs
<1>21. first.bitOff = 0 /\ first.out = <<>>
  OBVIOUS
<1> HIDE DEF E, L, S, first, at
<1>6. \A j \in 1 .. K : \A x \in S : G[j][x] = E(x, L[j])
  OBVIOUS
<1>7. PICK t : FoldTable(t, S, K, first, G)
  <2>1. ClosedUnder(S, 0, K, G)
    BY <1>4, <1>6 DEF ClosedUnder
  <2> HIDE DEF G
  <2>. QED  BY <1>5, <2>1, FoldTableExists
<1> HIDE DEF G
<1>8. It(t)
  <2>1. ASSUME NEW s \in SUBSET (1 .. K)
        PROVE  t[s] = IF s = {} THEN first
                      ELSE E(t[s \ {FipsRef!Max(s)}], L[FipsRef!Max(s)])
    <3>1. CASE s = {}
      BY <1>7, <3>1 DEF FoldTable
    <3>2. CASE s # {}
      <4>1. Top(s) \in 1 .. K /\ s \ {Top(s)} \in SUBSET (1 .. K)
        BY <1>5, <3>2, TopIs
      <4>2. t[s] = G[Top(s)][t[s \ {Top(s)}]] /\ t[s \ {Top(s)}] \in S
        BY <1>7, <3>2, <4>1 DEF FoldTable
      <4>. QED  BY <1>3, <1>6, <3>2, <4>1, <4>2
    <3>. QED  BY <3>1, <3>2
  <2>2. t = [s \in SUBSET DOMAIN L |-> t[s]]
    BY <1>2, <1>7 DEF FoldTable
  <2>. QED  BY <1>2, <2>1, <2>2
<1>9. It(c)
  <2> HIDE DEF It
  <2>. QED  BY <1>8
<1> HIDE DEF c
<1>10. /\ c[{}] = first
       /\ \A j \in 1 .. K : c[1 .. j] = E(c[1 .. j - 1], L[j])
  <2>1. \A s \in SUBSET (1 .. K) :
           c[s] = IF s = {} THEN first ELSE E(c[s \ {Top(s)}], L[Top(s)])
    BY <1>2, <1>3, <1>9
  <2>2. {} \in SUBSET (1 .. K)
    OBVIOUS
  <2>3. ASSUME NEW j \in 1 .. K PROVE c[1 .. j] = E(c[1 .. j - 1], L[j])
    <3>1. 1 .. j \in SUBSET (1 .. K) /\ 1 .. j # {} /\ Top(1 .. j) = j
          /\ (1 .. j) \ {j} = 1 .. j - 1
      BY <1>5, TopIs
    <3>. QED  BY <2>1, <3>1, Zenon
  <2>. QED  BY <2>1, <2>2, <2>3
<1> DEFINE r(j) == c[1 .. j].out
           X == {j \in 0 .. K : /\ c[1 .. j] \in S /\ c[1 .. j].bitOff = at(j)
                                /\ r(j) \in Seq(Reads(md)) /\ Len(r(j)) = j
                                /\ \A i \in 1 .. j : r(j)[i] = RefRead(md, at(i - 1))}
<1>12. 0 \in X /\ 0 \in Nat
  <2>1. 1 .. 0 = {} /\ <<>> \in Seq(Reads(md)) /\ Len(<<>>) = 0
    OBVIOUS
  <2>2. c[1 .. 0] = first
    BY <1>10, <2>1
  <2>3. c[1 .. 0] \in S /\ c[1 .. 0].bitOff = at(0) /\ r(0) = <<>>
    BY <1>04, <1>5, <1>21, <2>2
  <2> HIDE DEF r
  <2>4. r(0) \in Seq(Reads(md)) /\ Len(r(0)) = 0
    BY <2>1, <2>3
  <2>5. \A i \in 1 .. 0 : r(0)[i] = RefRead(md, at(i - 1))
    OBVIOUS
  <2>6. 0 \in 0 .. K
    BY <1>5
  <2>. QED  BY <2>3, <2>4, <2>5, <2>6
<1>13. ASSUME NEW j \in 0 + 1 .. K, j - 1 \in X PROVE j \in X
  <2> DEFINE x == c[1 .. j - 1]
             q == r(j - 1)
             e == RefRead(md, at(j - 1))
  <2>0. j \in 1 .. K
    BY <1>5
  <2>1. j - 1 \in 0 .. K /\ j \in 0 .. K /\ j - 1 + 1 = j /\ j - 1 \in Nat
    BY <1>5, <2>0
  <2>2. /\ x \in S /\ x.bitOff = at(j - 1) /\ x.out = q /\ q \in Seq(Reads(md)) /\ Len(q) = j - 1
        /\ \A i \in 1 .. j - 1 : q[i] = RefRead(md, at(i - 1))
    BY <1>13
  <2>3. c[1 .. j] = E(x, L[j]) /\ c[1 .. j] \in S
    <3>1. c[1 .. j] = E(x, L[j])
      BY <1>10, <2>0
    <3> HIDE DEF x
    <3>2. E(x, L[j]) \in S
      BY <1>4, <2>0, <2>2
    <3>. QED  BY <3>1, <3>2
  <2>4. r(j) = c[1 .. j].out
    OBVIOUS
  <2> HIDE DEF x, q, r
  <2>5. c[1 .. j].bitOff = at(j) /\ r(j) = Append(q, e) /\ e \in Reads(md)
    <3>1. /\ E(x, L[j]).bitOff = x.bitOff + A128
          /\ E(x, L[j]).out = Append(x.out, RefRead(md, x.bitOff))
          /\ RefRead(md, x.bitOff) \in Reads(md)
      BY <1>20, <2>2
    <3>. QED  BY <1>04, <2>0, <2>2, <2>3, <2>4, <3>1
  <2> HIDE DEF e
  <2>6. r(j) \in Seq(Reads(md)) /\ Len(r(j)) = j
    BY <2>1, <2>2, <2>5
  <2>7. \A i \in 1 .. j : r(j)[i] = RefRead(md, at(i - 1))
    <3> SUFFICES ASSUME NEW i \in 1 .. j PROVE Append(q, e)[i] = RefRead(md, at(i - 1))
      BY <2>5
    <3>1. CASE i = j
      <4>1. Append(q, e)[i] = e
        BY <2>1, <2>2, <3>1
      <4>. QED  BY <3>1, <4>1 DEF e
    <3>2. CASE i # j
      <4>1. i \in 1 .. j - 1 /\ i \in 1 .. Len(q)
        BY <2>2, <3>2
      <4>2. Append(q, e)[i] = q[i]
        BY <2>2, <4>1
      <4>. QED  BY <2>2, <4>1, <4>2
    <3>. QED  BY <3>1, <3>2
  <2>. QED  BY <2>1, <2>3, <2>5, <2>6, <2>7
<1>14. 0 .. K \subseteq X
  <2> HIDE DEF X
  <2>. QED  BY <1>5, <1>12, <1>13, Upward
<1>15. r(K) \in Seq(Reads(md)) /\ Len(r(K)) = K
       /\ \A i \in 1 .. K : r(K)[i] = RefRead(md, at(i - 1))
  <2>1. K \in X
    BY <1>5, <1>14
  <2>. QED  BY <2>1
<1>16. FipsRef!ForsIndices(md) = r(K)
  BY <1>1, <1>2
<1> HIDE DEF r
<1>17. r(K) = [i \in 1 .. K |-> BitsRead(md, i)]
  <2>1. DOMAIN r(K) = 1 .. K /\ r(K) = [i \in DOMAIN r(K) |-> r(K)[i]]
    BY <1>15, LenProperties
  <2>. QED  BY <1>03, <1>15, <2>1
<1>. QED  BY <1>02, <1>03, <1>16, <1>17

(* Bytes read as a number in a loop.                                       *)
RefSumUp(bytes) == FipsRef!FoldLeft(LAMBDA v, b : v * 256 + b, 0, bytes)

(* It is the sum of the bytes, each in its place.                          *)
LEMMA RefNumber ==
    ASSUME NEW bytes \in Seq(Nat)
    PROVE  RefSumUp(bytes) = Fips!Number(bytes)
<1> DEFINE n == Len(bytes)
           p(j) == 2^(8 * (n - j))
           f == [i \in 1 .. n |-> bytes[i] * p(i)]
<1>00. Fips!Number(bytes) = SumFunctionOnSet(f, 1 .. n)
  BY DEF Fips!Number, Fips!SumFunctionOnSet, Fips!FoldFunctionOnSet, Fips!MapThenFoldSet,
         SumFunctionOnSet, FoldFunctionOnSet, MapThenFoldSet
<1>01. n \in Nat
  OBVIOUS
<1>02. \A j \in 0 .. n : p(j) \in Nat
  <2> SUFFICES ASSUME NEW j \in 0 .. n PROVE p(j) \in Nat
    OBVIOUS
  <2>1. 8 * (n - j) \in Nat
    BY <1>01
  <2>. QED  BY <2>1, PowNat
<1>03. \A j \in 1 .. n : p(j - 1) = 256 * p(j)
  <2> SUFFICES ASSUME NEW j \in 1 .. n PROVE p(j - 1) = 256 * p(j)
    OBVIOUS
  <2>1. PICK e \in Nat : e = 8 * (n - j)
    <3>1. 8 * (n - j) \in Nat
      BY <1>01
    <3>. QED  BY <3>1
  <2>2. 8 * (n - (j - 1)) = 8 + e
    BY <1>01, <2>1
  <2>3. 2^(8 + e) = 2^8 * 2^e
    BY PowAdd
  <2>4. 2^8 = 256
    OBVIOUS
  <2>5. 2^(8 + e) = 256 * 2^e
    BY <2>3, <2>4
  <2>. QED  BY <2>1, <2>2, <2>5
<1>04. p(n) = 1
  <2>1. 8 * (n - n) = 0 /\ 2^0 = 1
    BY <1>01
  <2>. QED  BY <2>1
<1>05. \A i \in 1 .. n : bytes[i] \in Nat
  BY ElementOfSeq
<1>06. \A i \in 1 .. n : f[i] = bytes[i] * p(i)
  OBVIOUS
<1>07. \A i \in 1 .. n : f[i] \in Nat
  <2>1. \A x, y \in Nat : x * y \in Nat
    OBVIOUS
  <2>2. \A i \in 1 .. n : i \in 0 .. n
    OBVIOUS
  <2> HIDE DEF f, p
  <2>. QED  BY <1>02, <1>05, <1>06, <2>1, <2>2
<1>08. DOMAIN bytes = 1 .. n
  OBVIOUS
<1> HIDE DEF n, p, f
<1> DEFINE L == bytes
           E(x, y) == x * 256 + y
           It(iter) == iter = [s \in SUBSET DOMAIN L |->
                          IF s = {} THEN 0
                          ELSE E(iter[s \ {FipsRef!Max(s)}], L[FipsRef!Max(s)])]
           c == CHOOSE iter : It(iter)
           G == [j \in 1 .. n |-> [x \in Nat |-> E(x, L[j])]]
<1>1. RefSumUp(bytes) = c[DOMAIN L]
  BY Zenon DEF RefSumUp, FipsRef!FoldLeft, FipsRef!MapThenFoldSet
<1>2. DOMAIN L = 1 .. n
  BY <1>08
<1>3. \A s : FipsRef!Max(s) = Top(s)
  BY Zenon DEF FipsRef!Max, Top
<1>4. \A j \in 1 .. n : \A x \in Nat : E(x, L[j]) \in Nat
  <2>1. \A b, x \in Nat : x * 256 + b \in Nat
    OBVIOUS
  <2>. QED  BY <1>05, <2>1
<1>5. 0 \in Nat /\ n \in Nat
  BY <1>01
<1>11. \A j \in 1 .. n : \A x : E(x, L[j]) = x * 256 + bytes[j]
  OBVIOUS
<1> HIDE DEF E, L
<1>6. \A j \in 1 .. n : \A x \in Nat : G[j][x] = E(x, L[j])
  OBVIOUS
<1>7. PICK t : FoldTable(t, Nat, n, 0, G)
  <2>1. ClosedUnder(Nat, 0, n, G)
    BY <1>4, <1>6 DEF ClosedUnder
  <2> HIDE DEF G
  <2>. QED  BY <1>5, <2>1, FoldTableExists
<1> HIDE DEF G
<1>8. It(t)
  <2>1. ASSUME NEW s \in SUBSET (1 .. n)
        PROVE  t[s] = IF s = {} THEN 0
                      ELSE E(t[s \ {FipsRef!Max(s)}], L[FipsRef!Max(s)])
    <3>1. CASE s = {}
      BY <1>7, <3>1 DEF FoldTable
    <3>2. CASE s # {}
      <4>1. Top(s) \in 1 .. n /\ s \ {Top(s)} \in SUBSET (1 .. n)
        BY <1>5, <3>2, TopIs
      <4>2. t[s] = G[Top(s)][t[s \ {Top(s)}]] /\ t[s \ {Top(s)}] \in Nat
        BY <1>7, <3>2, <4>1 DEF FoldTable
      <4>. QED  BY <1>3, <1>6, <3>2, <4>1, <4>2
    <3>. QED  BY <3>1, <3>2
  <2>2. t = [s \in SUBSET DOMAIN L |-> t[s]]
    BY <1>2, <1>7 DEF FoldTable
  <2>. QED  BY <1>2, <2>1, <2>2
<1>9. It(c)
  <2> HIDE DEF It
  <2>. QED  BY <1>8
<1> HIDE DEF c
<1>10. /\ c[{}] = 0
       /\ \A j \in 1 .. n : c[1 .. j] = E(c[1 .. j - 1], L[j])
  <2>1. \A s \in SUBSET (1 .. n) :
           c[s] = IF s = {} THEN 0 ELSE E(c[s \ {Top(s)}], L[Top(s)])
    BY <1>2, <1>3, <1>9
  <2>2. {} \in SUBSET (1 .. n)
    OBVIOUS
  <2>3. ASSUME NEW j \in 1 .. n PROVE c[1 .. j] = E(c[1 .. j - 1], L[j])
    <3>1. 1 .. j \in SUBSET (1 .. n) /\ 1 .. j # {} /\ Top(1 .. j) = j
          /\ (1 .. j) \ {j} = 1 .. j - 1
      BY <1>5, TopIs
    <3>. QED  BY <2>1, <3>1, Zenon
  <2>. QED  BY <2>1, <2>2, <2>3
<1> DEFINE X == {j \in 0 .. n : /\ c[1 .. j] \in Nat
                                /\ c[1 .. j] * p(j) = SumFunctionOnSet(f, 1 .. j)}
<1>12. 0 \in X /\ 0 \in Nat
  <2>1. 1 .. 0 = {} /\ 0 \in 0 .. n
    BY <1>01
  <2>2. 0 * p(0) = 0
    BY <1>02, <2>1
  <2>. QED  BY <1>10, <2>1, <2>2, SumEmpty
<1>13. ASSUME NEW j \in 0 + 1 .. n, j - 1 \in X PROVE j \in X
  <2>00. j \in 1 .. n /\ j - 1 \in 0 .. n /\ j \in 0 .. n
    BY <1>01
  <2>01. c[1 .. j - 1] \in Nat /\ c[1 .. j - 1] * p(j - 1) = SumFunctionOnSet(f, 1 .. j - 1)
    BY <1>13
  <2>0. \A k \in Nat : IsFiniteSet(1 .. k)
    BY FS_Interval
  <2>1. IsFiniteSet(1 .. j) /\ j \in 1 .. j /\ (1 .. j) \ {j} = 1 .. j - 1
    <3>1. j \in Nat /\ j - 1 \in Nat
      BY <1>01, <2>00
    <3>. QED  BY <2>0, <3>1
  <2>2. \A k \in 1 .. j : f[k] \in Nat
    BY <1>01, <1>07, <2>00
  <2>3. SumFunctionOnSet(f, 1 .. j) = f[j] + SumFunctionOnSet(f, 1 .. j - 1)
    <3>1. SumFunctionOnSet(f, 1 .. j) = f[j] + SumFunctionOnSet(f, (1 .. j) \ {j})
      BY <2>1, <2>2, SumTakeOut
    <3>. QED  BY <2>1, <3>1
  <2>4. c[1 .. j] = c[1 .. j - 1] * 256 + bytes[j]
    BY <1>10, <1>11, <2>00
  <2> DEFINE x == c[1 .. j - 1]
             b == bytes[j]
             q == p(j)
  <2>5. x \in Nat /\ b \in Nat /\ q \in Nat
    BY <1>02, <1>05, <2>00, <2>01
  <2>6. p(j - 1) = 256 * q /\ f[j] = b * q
    BY <1>03, <1>06, <2>00
  <2>7. x * (256 * q) = SumFunctionOnSet(f, 1 .. j - 1)
    BY <2>01, <2>6
  <2>8. c[1 .. j] = x * 256 + b
    BY <2>4
  <2> HIDE DEF x, b, q
  <2>9. (x * 256 + b) * q = x * (256 * q) + b * q /\ x * 256 + b \in Nat
        /\ x * (256 * q) \in Nat /\ b * q \in Nat
    <3>1. PICK z \in Nat : z = x * q
      BY <2>5
    <3>2. (x * 256 + b) * q = 256 * z + b * q /\ x * (256 * q) = 256 * z
      BY <2>5, <3>1
    <3>. QED  BY <2>5, <3>1, <3>2
  <2>10. (x * 256 + b) * q = SumFunctionOnSet(f, 1 .. j)
    BY <2>3, <2>6, <2>7, <2>9
  <2>. QED  BY <2>00, <2>8, <2>9, <2>10 DEF q
<1>14. 0 .. n \subseteq X
  <2> HIDE DEF X
  <2>. QED  BY <1>01, <1>12, <1>13, Upward
<1>15. c[1 .. n] \in Nat /\ c[1 .. n] * p(n) = SumFunctionOnSet(f, 1 .. n)
  BY <1>01, <1>14
<1>16. c[1 .. n] = SumFunctionOnSet(f, 1 .. n)
  <2>1. \A x \in Nat : x * 1 = x
    OBVIOUS
  <2>. QED  BY <1>04, <1>15, <2>1
<1>. QED  BY <1>00, <1>1, <1>2, <1>16

-----------------------------------------------------------------------------
(* MGF1, block after block.                                                *)
RefBlocks(seed, n) ==
    FipsRef!FoldLeft(LAMBDA out, i : out \o FipsRef!bytes(Sha(Append(seed, i - 1)), N), <<>>,
                     FipsRef!Loop(n))

(* Byte k of the output, counted from 1.                                   *)
MgfByte(seed, k) == Fips!Byte(Sha(Append(seed, (k - 1) \div N)), (k - 1) % N)

(* The bytes of a block.                                                   *)
LEMMA BlockIs ==
    ASSUME HashFits, NEW seed, NEW j \in Nat \ {0}
    PROVE  LET b == FipsRef!bytes(Sha(Append(seed, j - 1)), N)
           IN  /\ b \in Seq(Nat) /\ Len(b) = N
               /\ \A i \in 1 .. N : b[i] = MgfByte(seed, (j - 1) * N + i)
<1> DEFINE v == Sha(Append(seed, j - 1))
           b == FipsRef!bytes(v, N)
<1>1. v \in V /\ v \in Nat
  BY LiteSizes DEF HashFits
<1>2. N \in Nat \ {0} /\ j - 1 \in Nat
  BY Sizes
<1>3. ASSUME NEW i \in 1 .. N
      PROVE  /\ (v \div 2^(8 * (N - i))) % 256 = MgfByte(seed, (j - 1) * N + i)
             /\ (v \div 2^(8 * (N - i))) % 256 \in Nat
  <2>1. (((j - 1) * N + i) - 1) \div N = j - 1 /\ (((j - 1) * N + i) - 1) % N = i - 1
    <3> DEFINE q == j - 1
               x == (q * N + i) - 1
               y == N * q + (i - 1)
    <3>1. i - 1 \in 0 .. N - 1 /\ q \in Nat
      BY <1>2
    <3>2. x = y
      <4>1. \A g, h \in Nat : g * h = h * g /\ g * h \in Nat
        OBVIOUS
      <4>2. PICK a \in Nat : a = q * N
        BY <1>2, <4>1
      <4>3. N * q = a
        BY <1>2, <4>1, <4>2
      <4>. QED  BY <4>2, <4>3
    <3>3. y \div N = q /\ y % N = i - 1
      <4> HIDE DEF q
      <4>. QED  BY <1>2, <3>1, DivUnique
    <3> HIDE DEF y
    <3>4. x \div N = q /\ x % N = i - 1
      BY <3>2, <3>3
    <3>. QED  BY <3>4
  <2>2. MgfByte(seed, (j - 1) * N + i) = Fips!Byte(v, i - 1)
    BY <2>1 DEF MgfByte
  <2>3. N - 1 - (i - 1) = N - i
    BY <1>2
  <2>4. Fips!Byte(v, i - 1) = (v \div 2^(8 * (N - i))) % 256
    BY <2>3 DEF Fips!Byte
  <2>5. 2^(8 * (N - i)) \in Nat \ {0}
    <3>1. 8 * (N - i) \in Nat
      BY <1>2
    <3>. QED  BY <3>1, PowNat
  <2>6. \A x \in Nat, y \in Nat \ {0} : (x \div y) % 256 \in Nat
    OBVIOUS
  <2> HIDE DEF v
  <2>7. (v \div 2^(8 * (N - i))) % 256 \in Nat
    BY <1>1, <2>5, <2>6
  <2>. QED  BY <2>2, <2>4, <2>7
<1>4. b = [i \in 1 .. N |-> (v \div 2^(8 * (N - i))) % 256]
  BY DEF FipsRef!bytes
<1> HIDE DEF v, b
<1>5. b \in [1 .. N -> Nat]
  BY <1>3, <1>4
<1>6. b \in Seq(Nat) /\ Len(b) = N
  BY <1>2, <1>5, FunctionIsSeq
<1>. QED  BY <1>3, <1>4, <1>6 DEF b, v

(* Whole blocks hold the bytes of MGF1 in order.                           *)
LEMMA RefBlocksAre ==
    ASSUME HashFits, NEW seed, NEW n \in Nat
    PROVE  /\ RefBlocks(seed, n) \in Seq(Nat) /\ Len(RefBlocks(seed, n)) = n * N
           /\ \A k \in 1 .. n * N : RefBlocks(seed, n)[k] = MgfByte(seed, k)
<1> DEFINE block(i) == FipsRef!bytes(Sha(Append(seed, i - 1)), N)
<1>01. N \in Nat \ {0}
  BY Sizes
<1>02. \A j \in Nat \ {0} : /\ block(j) \in Seq(Nat) /\ Len(block(j)) = N
                            /\ \A i \in 1 .. N : block(j)[i] = MgfByte(seed, (j - 1) * N + i)
  BY BlockIs
<1> DEFINE L == FipsRef!Loop(n)
           E(x, y) == x \o block(y)
           It(iter) == iter = [s \in SUBSET DOMAIN L |->
                          IF s = {} THEN <<>>
                          ELSE E(iter[s \ {FipsRef!Max(s)}], L[FipsRef!Max(s)])]
           c == CHOOSE iter : It(iter)
           G == [j \in 1 .. n |-> [x \in Seq(Nat) |-> E(x, L[j])]]
<1>1. RefBlocks(seed, n) = c[DOMAIN L]
  BY Zenon DEF RefBlocks, FipsRef!FoldLeft, FipsRef!MapThenFoldSet
<1>2. DOMAIN L = 1 .. n /\ \A j \in 1 .. n : L[j] = j
  BY DEF FipsRef!Loop
<1>3. \A s : FipsRef!Max(s) = Top(s)
  BY Zenon DEF FipsRef!Max, Top
<1>4. \A j \in 1 .. n : \A x \in Seq(Nat) : E(x, L[j]) \in Seq(Nat)
  <2> SUFFICES ASSUME NEW j \in 1 .. n, NEW x \in Seq(Nat) PROVE x \o block(j) \in Seq(Nat)
    BY <1>2
  <2>1. block(j) \in Seq(Nat)
    BY <1>02
  <2> HIDE DEF block
  <2>. QED  BY <2>1
<1>5. <<>> \in Seq(Nat) /\ n \in Nat
  OBVIOUS
<1>11. \A j \in 1 .. n : \A x : E(x, L[j]) = x \o block(j)
  BY <1>2
<1> HIDE DEF E, L, block
<1>6. \A j \in 1 .. n : \A x \in Seq(Nat) : G[j][x] = E(x, L[j])
  OBVIOUS
<1>7. PICK t : FoldTable(t, Seq(Nat), n, <<>>, G)
  <2>1. ClosedUnder(Seq(Nat), 0, n, G)
    BY <1>4, <1>6 DEF ClosedUnder
  <2> HIDE DEF G
  <2>. QED  BY <1>5, <2>1, FoldTableExists
<1> HIDE DEF G
<1>8. It(t)
  <2>1. ASSUME NEW s \in SUBSET (1 .. n)
        PROVE  t[s] = IF s = {} THEN <<>>
                      ELSE E(t[s \ {FipsRef!Max(s)}], L[FipsRef!Max(s)])
    <3>1. CASE s = {}
      BY <1>7, <3>1 DEF FoldTable
    <3>2. CASE s # {}
      <4>1. Top(s) \in 1 .. n /\ s \ {Top(s)} \in SUBSET (1 .. n)
        BY <1>5, <3>2, TopIs
      <4>2. t[s] = G[Top(s)][t[s \ {Top(s)}]] /\ t[s \ {Top(s)}] \in Seq(Nat)
        BY <1>7, <3>2, <4>1 DEF FoldTable
      <4>. QED  BY <1>3, <1>6, <3>2, <4>1, <4>2
    <3>. QED  BY <3>1, <3>2
  <2>2. t = [s \in SUBSET DOMAIN L |-> t[s]]
    BY <1>2, <1>7 DEF FoldTable
  <2>. QED  BY <1>2, <2>1, <2>2
<1>9. It(c)
  <2> HIDE DEF It
  <2>. QED  BY <1>8
<1> HIDE DEF c
<1>10. /\ c[{}] = <<>>
       /\ \A j \in 1 .. n : c[1 .. j] = E(c[1 .. j - 1], L[j])
  <2>1. \A s \in SUBSET (1 .. n) :
           c[s] = IF s = {} THEN <<>> ELSE E(c[s \ {Top(s)}], L[Top(s)])
    BY <1>2, <1>3, <1>9
  <2>2. {} \in SUBSET (1 .. n)
    OBVIOUS
  <2>3. ASSUME NEW j \in 1 .. n PROVE c[1 .. j] = E(c[1 .. j - 1], L[j])
    <3>1. 1 .. j \in SUBSET (1 .. n) /\ 1 .. j # {} /\ Top(1 .. j) = j
          /\ (1 .. j) \ {j} = 1 .. j - 1
      BY <1>5, TopIs
    <3>. QED  BY <2>1, <3>1, Zenon
  <2>. QED  BY <2>1, <2>2, <2>3
<1> DEFINE X == {j \in 0 .. n : /\ c[1 .. j] \in Seq(Nat) /\ Len(c[1 .. j]) = j * N
                                /\ \A k \in 1 .. j * N : c[1 .. j][k] = MgfByte(seed, k)}
<1>12. 0 \in X /\ 0 \in Nat
  <2>1. 1 .. 0 = {} /\ 0 * N = 0 /\ 0 \in 0 .. n
    BY <1>01
  <2>2. c[1 .. 0] = <<>>
    BY <1>10, <2>1
  <2>3. c[1 .. 0] \in Seq(Nat) /\ Len(c[1 .. 0]) = 0 * N
    BY <2>1, <2>2
  <2>4. \A k \in 1 .. 0 * N : c[1 .. 0][k] = MgfByte(seed, k)
    BY <2>1
  <2>. QED  BY <2>1, <2>3, <2>4
<1>13. ASSUME NEW j \in 0 + 1 .. n, j - 1 \in X PROVE j \in X
  <2> DEFINE x == c[1 .. j - 1]
             b == block(j)
             m == (j - 1) * N
  <2>0. j \in 1 .. n /\ j \in 0 .. n /\ j \in Nat \ {0}
    OBVIOUS
  <2>1. x \in Seq(Nat) /\ Len(x) = m /\ \A k \in 1 .. m : x[k] = MgfByte(seed, k)
    BY <1>13
  <2>2. b \in Seq(Nat) /\ Len(b) = N /\ \A i \in 1 .. N : b[i] = MgfByte(seed, m + i)
    BY <1>02, <2>0
  <2>3. c[1 .. j] = x \o b
    BY <1>10, <1>11, <2>0
  <2>4. m \in Nat /\ j * N = m + N
    <3>1. PICK z \in Nat : j = z + 1
      <4>1. j - 1 \in Nat /\ j = (j - 1) + 1
        BY <2>0
      <4>. QED  BY <4>1
    <3>2. j - 1 = z /\ (z + 1) * N = z * N + N /\ z * N \in Nat
      BY <1>01, <3>1
    <3>. QED  BY <3>1, <3>2
  <2> HIDE DEF x, b, m
  <2>5. /\ x \o b \in Seq(Nat) /\ Len(x \o b) = Len(x) + Len(b)
        /\ \A k \in 1 .. Len(x) : (x \o b)[k] = x[k]
        /\ \A k \in 1 .. Len(b) : (x \o b)[Len(x) + k] = b[k]
    <3>1. \A p, q \in Seq(Nat) : /\ p \o q \in Seq(Nat) /\ Len(p \o q) = Len(p) + Len(q)
                                 /\ \A k \in 1 .. Len(p) : (p \o q)[k] = p[k]
                                 /\ \A k \in 1 .. Len(q) : (p \o q)[Len(p) + k] = q[k]
      BY ConcatParts
    <3>. QED  BY <2>1, <2>2, <3>1, Zenon
  <2> DEFINE y == x \o b
  <2> HIDE DEF y
  <2>6. /\ y \in Seq(Nat) /\ Len(y) = m + N
        /\ \A k \in 1 .. m : y[k] = MgfByte(seed, k)
        /\ \A k \in 1 .. N : y[m + k] = MgfByte(seed, m + k)
    BY <2>1, <2>2, <2>5 DEF y
  <2>7. \A k \in 1 .. m + N : y[k] = MgfByte(seed, k)
    <3> SUFFICES ASSUME NEW k \in 1 .. m + N PROVE y[k] = MgfByte(seed, k)
      OBVIOUS
    <3>1. CASE k <= m
      BY <2>4, <2>6, <3>1
    <3>2. CASE ~ (k <= m)
      <4>1. PICK i \in 1 .. N : k = m + i
        <5>1. k - m \in 1 .. N /\ k = m + (k - m)
          BY <1>01, <2>4, <3>2
        <5>. QED  BY <5>1
      <4>. QED  BY <2>6, <4>1
    <3>. QED  BY <3>1, <3>2
  <2>8. c[1 .. j] = y
    BY <2>3 DEF y
  <2>. QED  BY <2>0, <2>4, <2>6, <2>7, <2>8
<1>14. 0 .. n \subseteq X
  <2> HIDE DEF X
  <2>. QED  BY <1>5, <1>12, <1>13, Upward
<1>15. n \in X
  BY <1>5, <1>14
<1>. QED  BY <1>1, <1>2, <1>15

(* Both make the same digest.                                              *)
LEMMA RefMgf ==
    ASSUME HashFits, NEW seed, NEW length \in Nat
    PROVE  FipsRef!mgf1(seed, length) = Fips!Mgf1(seed, length)
<1> DEFINE n == (length + N - 1) \div N
           all == RefBlocks(seed, n)
<1>1. N \in Nat \ {0}
  BY Sizes
<1>2. n \in Nat /\ length <= n * N
  <2> DEFINE t == length + N - 1
             r == t % N
  <2>1. t \in Nat
    BY <1>1
  <2>2. n \in Nat /\ r \in 0 .. N - 1 /\ t = N * n + r
    <3> HIDE DEF t
    <3>1. \A x \in Nat, w \in Nat \ {0} : x \div w \in Nat /\ x % w \in 0 .. w - 1
                                          /\ x = w * (x \div w) + (x % w)
      OBVIOUS
    <3>2. n = t \div N
      BY DEF t
    <3>. QED  BY <1>1, <2>1, <3>1, <3>2
  <2>3. t = length + N - 1
    OBVIOUS
  <2> HIDE DEF t, r, n
  <2>4. N * n = n * N /\ n * N \in Nat
    BY <1>1, <2>2
  <2>. QED  BY <1>1, <2>2, <2>3, <2>4
<1>3. FipsRef!mgf1(seed, length) = SubSeq(all, 1, length)
  BY Zenon DEF FipsRef!mgf1, RefBlocks
<1> HIDE DEF n
<1>4. /\ all \in Seq(Nat) /\ Len(all) = n * N
      /\ \A k \in 1 .. n * N : all[k] = MgfByte(seed, k)
  BY <1>2, RefBlocksAre
<1> HIDE DEF all
<1>5. PICK m \in Nat : m = n * N
  BY <1>1, <1>2
<1>6. /\ SubSeq(all, 0 + 1, 0 + length) \in Seq(Nat)
      /\ Len(SubSeq(all, 0 + 1, 0 + length)) = length
      /\ \A k \in 1 .. length : SubSeq(all, 0 + 1, 0 + length)[k] = all[0 + k]
  <2>1. 0 \in Nat /\ 0 + length <= Len(all) /\ 0 + 0 <= length
    BY <1>2, <1>4, <1>5
  <2>. QED  BY <1>4, <2>1, CutOfCut
<1> DEFINE s == SubSeq(all, 1, length)
<1>7. s \in Seq(Nat) /\ Len(s) = length /\ \A k \in 1 .. length : s[k] = all[k]
  <2>1. 0 + 1 = 1 /\ 0 + length = length /\ \A k \in 1 .. length : 0 + k = k
    OBVIOUS
  <2>. QED  BY <1>6, <2>1
<1> HIDE DEF s
<1>8. \A k \in 1 .. length : s[k] = MgfByte(seed, k)
  <2>1. \A k \in 1 .. length : k \in 1 .. n * N
    BY <1>2, <1>5
  <2>. QED  BY <1>4, <1>7, <2>1
<1>9. s = [k \in 1 .. length |-> MgfByte(seed, k)]
  <2>1. DOMAIN s = 1 .. length /\ s = [k \in DOMAIN s |-> s[k]]
    BY <1>7
  <2>. QED  BY <1>8, <2>1
<1>. QED  BY <1>3, <1>9 DEF s, Fips!Mgf1, MgfByte

(* Both split a digest into the same indices, the same tree and the same   *)
(* leaf.                                                                   *)
LEMMA RefFipsSplit ==
    ASSUME NEW digest \in Seq(Nat), Len(digest) = Fips!M_BYTES
    PROVE  LET at == Fips!SplitDigest(digest)
               to == FipsRef!splitDigest(digest)
           IN  /\ FipsRef!ForsIndices(to.md) = at.fors
               /\ \A n \in 1 .. K : at.fors[n] \in Nat
               /\ to.treeIdx = at.tree /\ to.leafIdx = at.leaf
<1> DEFINE at == Fips!SplitDigest(digest)
           to == FipsRef!splitDigest(digest)
           a == Fips!MD_BYTES
           b == Fips!TREE_BYTES
           c == Fips!LEAF_BYTES
           md == SubSeq(digest, 1, a)
           treeBytes == SubSeq(digest, a + 1, a + b)
           leafBytes == SubSeq(digest, a + b + 1, a + b + c)
<1>1. a \in Nat /\ b \in Nat /\ c \in Nat /\ Fips!M_BYTES = a + b + c
  <2>1. \A x \in Nat : (x + 7) \div 8 \in Nat
    OBVIOUS
  <2>2. Fips!TREE_BITS = (D - 1) * H_PRIME /\ (D - 1) * H_PRIME \in Nat
    <3>1. H_PRIME * D - H_PRIME = (D - 1) * H_PRIME
      BY LiteSizes
    <3>. QED  BY <3>1, Room DEF Fips!TREE_BITS
  <2>3. K * A128 \in Nat /\ Fips!TREE_BITS \in Nat /\ H_PRIME \in Nat
    BY <2>2, LiteSizes
  <2>. QED  BY <2>1, <2>3 DEF Fips!MD_BYTES, Fips!TREE_BYTES, Fips!LEAF_BYTES, Fips!M_BYTES
<1>2. /\ FipsRef!MD_BYTES = a /\ FipsRef!TREE_BYTES = b /\ FipsRef!LEAF_BYTES = c
      /\ FipsRef!TREE_BITS = Fips!TREE_BITS
  BY DEF FipsRef!MD_BYTES, Fips!MD_BYTES, FipsRef!TREE_BYTES, Fips!TREE_BYTES,
         FipsRef!LEAF_BYTES, Fips!LEAF_BYTES, FipsRef!TREE_BITS, Fips!TREE_BITS
<1>3. at = [fors |-> Fips!ExtractForsIndices(md),
            tree |-> Fips!Number(treeBytes) % 2^Fips!TREE_BITS,
            leaf |-> Fips!Number(leafBytes) % 2^H_PRIME]
  BY <1>1 DEF Fips!SplitDigest
<1>4. to = [md |-> md,
            treeIdx |-> RefSumUp(treeBytes) % 2^Fips!TREE_BITS,
            leafIdx |-> RefSumUp(leafBytes) % 2^H_PRIME]
  <2>1. to = [md |-> md,
              treeIdx |-> FipsRef!Number(digest, a, b) % 2^Fips!TREE_BITS,
              leafIdx |-> FipsRef!Number(digest, a + b, c) % 2^H_PRIME]
    BY <1>2 DEF FipsRef!splitDigest
  <2>2. \A x, y : FipsRef!Number(digest, x, y) = RefSumUp(SubSeq(digest, x + 1, x + y))
    BY Zenon DEF FipsRef!Number, RefSumUp
  <2>. QED  BY <2>1, <2>2
<1> HIDE DEF at, to
<1>5. /\ md \in Seq(Nat) /\ Len(md) = a
      /\ treeBytes \in Seq(Nat) /\ leafBytes \in Seq(Nat)
  <2> HIDE DEF a, b, c
  <2>1. \A x, y \in Nat : x + y <= Len(digest) =>
           /\ SubSeq(digest, x + 1, x + y) \in Seq(Nat)
           /\ Len(SubSeq(digest, x + 1, x + y)) = y
    OBVIOUS
  <2>2. /\ 0 + a <= Len(digest) /\ a + b <= Len(digest) /\ (a + b) + c <= Len(digest)
        /\ a + b \in Nat /\ 0 \in Nat /\ 0 + 1 = 1 /\ 0 + a = a
    BY <1>1
  <2>3. md \in Seq(Nat) /\ Len(md) = a
    <3>1. SubSeq(digest, 0 + 1, 0 + a) \in Seq(Nat) /\ Len(SubSeq(digest, 0 + 1, 0 + a)) = a
      BY <1>1, <2>1, <2>2
    <3>. QED  BY <2>2, <3>1
  <2>4. treeBytes \in Seq(Nat)
    BY <1>1, <2>1, <2>2
  <2>5. leafBytes \in Seq(Nat)
    BY <1>1, <2>1, <2>2
  <2>. QED  BY <2>3, <2>4, <2>5
<1> HIDE DEF md, treeBytes, leafBytes
<1>6. RefSumUp(treeBytes) = Fips!Number(treeBytes) /\ RefSumUp(leafBytes) = Fips!Number(leafBytes)
  BY <1>5, RefNumber
<1>7. /\ FipsRef!ForsIndices(md) = Fips!ExtractForsIndices(md)
      /\ \A n \in 1 .. K : Fips!ExtractForsIndices(md)[n] \in Nat
  BY <1>5, RefFipsIndices
<1>8. FipsRef!ForsIndices(to.md) = at.fors
  BY <1>3, <1>4, <1>7
<1>9. \A n \in 1 .. K : at.fors[n] \in Nat
  BY <1>3, <1>7
<1>10. to.treeIdx = at.tree /\ to.leafIdx = at.leaf
  BY <1>3, <1>4, <1>6
<1>. QED  BY <1>8, <1>9, <1>10 DEF at, to

(* Both compute the same digest.                                           *)
LEMMA RefHmsg ==
    ASSUME HashFits, NEW r, NEW seed, NEW root, NEW m
    PROVE  /\ FipsRef!Hmsg(r, seed, root, m) = Fips!Hmsg(r, seed, root, m)
           /\ Fips!Hmsg(r, seed, root, m) \in Seq(Nat)
           /\ Len(Fips!Hmsg(r, seed, root, m)) = Fips!M_BYTES
<1> DEFINE s == <<r, seed, Sha(<<r, seed, root>> \o m)>>
<1>1. Fips!M_BYTES \in Nat
  <2>1. \A x \in Nat : (x + 7) \div 8 \in Nat
    OBVIOUS
  <2>2. Fips!TREE_BITS = (D - 1) * H_PRIME /\ (D - 1) * H_PRIME \in Nat
    <3>1. H_PRIME * D - H_PRIME = (D - 1) * H_PRIME
      BY LiteSizes
    <3>. QED  BY <3>1, Room DEF Fips!TREE_BITS
  <2>3. K * A128 \in Nat /\ Fips!TREE_BITS \in Nat /\ H_PRIME \in Nat
    BY <2>2, LiteSizes
  <2>. QED  BY <2>1, <2>3 DEF Fips!MD_BYTES, Fips!TREE_BYTES, Fips!LEAF_BYTES, Fips!M_BYTES
<1>2. FipsRef!MD_BYTES + FipsRef!TREE_BYTES + FipsRef!LEAF_BYTES = Fips!M_BYTES
  BY DEF FipsRef!MD_BYTES, Fips!MD_BYTES, FipsRef!TREE_BYTES, Fips!TREE_BYTES,
         FipsRef!LEAF_BYTES, Fips!LEAF_BYTES, FipsRef!TREE_BITS, Fips!TREE_BITS, Fips!M_BYTES
<1>3. FipsRef!Hmsg(r, seed, root, m) = FipsRef!mgf1(s, Fips!M_BYTES)
  BY <1>2 DEF FipsRef!Hmsg
<1>4. Fips!Hmsg(r, seed, root, m) = Fips!Mgf1(s, Fips!M_BYTES)
  BY DEF Fips!Hmsg
<1> HIDE DEF s
<1>. QED  BY <1>1, <1>3, <1>4, RefMgf, DigestBytes

(* The two verifiers of 128s accept the same signatures.                   *)
LEMMA RefFips ==
    ASSUME HashFits, NEW pk, NEW text, NEW ctx, NEW S, NEW sig \in Seq(S)
    PROVE  FipsRef!verify(pk, text, sig, ctx)
              = (Fips!VerifyWithContext(pk, text, sig, ctx) = "true")
<1> DEFINE wrapped == <<0, Len(ctx)>> \o ctx \o text
           digest == Fips!Hmsg(sig[1], pk.seed, pk.root, wrapped)
           at == Fips!SplitDigest(digest)
           to == FipsRef!splitDigest(FipsRef!Hmsg(sig[1], pk.seed, pk.root, wrapped))
           fl == Fips!FORS_LEN
           hl == D * HtLen
           fs == SubSeq(sig, 2, 1 + fl)
           hs == SubSeq(sig, 2 + fl, Len(sig))
           hs2 == SubSeq(sig, 2 + fl, Fips!SIG_LEN)
           adrs == [FipsRef!newAdrs EXCEPT !.tree = to.treeIdx, !.type = FipsRef!FORS_TREE,
                                           !.keypair = to.leafIdx]
           m == Fips!ForsPkFromSig(pk.seed, at.tree, at.leaf, at.fors, fs)
           root == Fips!HtRootFromSig(pk.seed, m, at.tree, at.leaf, hs2)
           rfors == FipsRef!forsPkFromSig(fs, to.md, pk.seed, adrs)
           rroot == FipsRef!htRootFromSig(hs, rfors, to.treeIdx, to.leafIdx, pk.seed)
<1>1. Fips!XMSS_LEN = HtLen /\ FipsRef!XMSS_LEN = HtLen
  BY FipsSizes DEF Fips!XMSS_LEN, FipsRef!XMSS_LEN, FipsRef!LEN, Fips!LEN, FipsRef!LEN_1,
                   Fips!LEN_1, HtLen, Lite!LEN, Lite!LEN_1
<1>2. /\ FipsRef!FORS_LEN = fl /\ fl = K * (1 + A128) /\ fl \in Nat /\ hl \in Nat
      /\ Fips!SIG_LEN = 1 + fl + hl /\ FipsRef!SIG_LEN = Fips!SIG_LEN
  <2>1. K * (1 + A128) \in Nat /\ hl \in Nat
    BY LiteSizes DEF HtLen
  <2>. QED  BY <1>1, <2>1 DEF FipsRef!FORS_LEN, Fips!FORS_LEN, Fips!SIG_LEN, FipsRef!SIG_LEN
<1>3. (Fips!VerifyWithContext(pk, text, sig, ctx) = "true")
         = (Len(sig) = Fips!SIG_LEN /\ Len(ctx) <= MAX_CTX /\ root = pk.root)
  BY DEF Fips!VerifyWithContext, Fips!Wrapped
<1>4. FipsRef!verify(pk, text, sig, ctx)
         = (Len(sig) = Fips!SIG_LEN /\ Len(ctx) <= MAX_CTX /\ rroot = pk.root)
  BY <1>2 DEF FipsRef!verify
<1>5. ASSUME Len(sig) = Fips!SIG_LEN PROVE rroot = root
  <2>1. hs2 = hs
    BY <1>5
  <2>2. fs \in Seq(S) /\ Len(fs) = fl /\ hs \in Seq(S) /\ Len(hs) = hl
    <3> HIDE DEF fl, hl
    <3>1. /\ 1 \in Nat /\ 1 + fl <= Len(sig) /\ 1 + 1 = 2 /\ 0 \in Nat /\ 0 + 0 <= fl
          /\ 1 + fl \in Nat /\ (1 + fl) + hl <= Len(sig) /\ (1 + fl) + hl = Len(sig)
          /\ (1 + fl) + 1 = 2 + fl /\ 0 + 0 <= hl
      BY <1>2, <1>5
    <3>2. SubSeq(sig, 1 + 1, 1 + fl) \in Seq(S) /\ Len(SubSeq(sig, 1 + 1, 1 + fl)) = fl
      BY <1>2, <3>1, CutOfCut
    <3>3. /\ SubSeq(sig, (1 + fl) + 1, (1 + fl) + hl) \in Seq(S)
          /\ Len(SubSeq(sig, (1 + fl) + 1, (1 + fl) + hl)) = hl
      <4>1. PICK p \in Nat : p = 1 + fl
        BY <3>1
      <4>2. p + hl <= Len(sig) /\ hl \in Nat
        BY <1>2, <3>1, <4>1
      <4>3. SubSeq(sig, p + 1, p + hl) \in Seq(S) /\ Len(SubSeq(sig, p + 1, p + hl)) = hl
        BY <3>1, <4>2, CutOfCut
      <4>. QED  BY <4>1, <4>3
    <3>. QED  BY <3>1, <3>2, <3>3
  <2>3. /\ FipsRef!Hmsg(sig[1], pk.seed, pk.root, wrapped) = digest
        /\ digest \in Seq(Nat) /\ Len(digest) = Fips!M_BYTES
    <3> HIDE DEF wrapped
    <3>. QED  BY RefHmsg
  <2>4. /\ FipsRef!ForsIndices(to.md) = at.fors /\ \A n \in 1 .. K : at.fors[n] \in Nat
        /\ to.treeIdx = at.tree /\ to.leafIdx = at.leaf
    <3> DEFINE d2 == FipsRef!Hmsg(sig[1], pk.seed, pk.root, wrapped)
    <3>1. d2 = digest
      BY <2>3
    <3>2. to = FipsRef!splitDigest(digest)
      BY <3>1
    <3> HIDE DEF digest, d2, to
    <3>. QED  BY <2>3, <3>2, RefFipsSplit
  <2>5. at.tree \in Nat /\ at.leaf \in 0 .. 2^H_PRIME - 1
    <3> HIDE DEF wrapped
    <3>. QED  BY FipsSplitPlaces
  <2> DEFINE tr == at.tree
             lf == at.leaf
             ix == at.fors
             md == to.md
  <2>6. /\ tr \in Nat /\ lf \in 0 .. 2^H_PRIME - 1 /\ \A n \in 1 .. K : ix[n] \in Nat
        /\ FipsRef!ForsIndices(md) = ix
    BY <2>4, <2>5
  <2>7. Words(adrs, 0, tr, FipsRef!FORS_TREE, lf, 0, 0)
    <3>1. adrs = [FipsRef!newAdrs EXCEPT !.tree = tr, !.type = FipsRef!FORS_TREE,
                                         !.keypair = lf]
      BY <2>4
    <3> HIDE DEF adrs, tr, lf
    <3>. QED  BY <3>1, NewWords
  <2>8. /\ m = Fips!ForsPkFromSig(pk.seed, tr, lf, ix, fs)
        /\ root = Fips!HtRootFromSig(pk.seed, m, tr, lf, hs)
        /\ rfors = FipsRef!forsPkFromSig(fs, md, pk.seed, adrs)
        /\ rroot = FipsRef!htRootFromSig(hs, rfors, tr, lf, pk.seed)
    BY <2>1, <2>4
  <2> HIDE DEF adrs, fs, hs, hs2, m, root, rfors, rroot, tr, lf, ix, md, at, to, fl, hl
  <2>9. rfors = m /\ m \in V
    BY <1>2, <2>2, <2>6, <2>7, <2>8, RefFipsFors DEF fl
  <2>10. rroot = root
    <3>1. Len(hs) = D * HtLen
      BY <2>2 DEF hl
    <3>2. FipsRef!htRootFromSig(hs, m, tr, lf, pk.seed)
             = Fips!HtRootFromSig(pk.seed, m, tr, lf, hs)
      BY <2>2, <2>6, <2>9, <3>1, RefFipsHt
    <3>. QED  BY <2>8, <2>9, <3>2
  <2>. QED  BY <2>10
<1> HIDE DEF root, rroot
<1>. QED  BY <1>3, <1>4, <1>5

-----------------------------------------------------------------------------
(* 3. Agreement.                                                           *)

(* What the signers of WOTS, of LITE and of 128s return are sequences.     *)
LEMMA WotsSigIsSeq ==
    ASSUME NEW seed, NEW adrs, NEW sk, NEW m
    PROVE  \E S : Lite!ChainPoints(seed, adrs, sk, m) \in Seq(S)
<1> DEFINE s == Lite!ChainPoints(seed, adrs, sk, m)
           S == {s[i] : i \in 1 .. Lite!LEN}
<1>1. s = [i \in 1 .. Lite!LEN |-> s[i]]
  BY DEF Lite!ChainPoints
<1> HIDE DEF s
<1>2. s \in [1 .. Lite!LEN -> S]
  BY <1>1
<1>3. s \in Seq(S)
  <2> HIDE DEF S
  <2>. QED  BY <1>2, LiteSizes, FunctionIsSeq
<1>. QED  BY <1>3 DEF s

(* So does the signer of LITE: secrets, paths and chain points.            *)
LEMMA LiteSigIsSeq ==
    ASSUME HashFits, NEW sk, NEW text
    PROVE  \E S : Lite!LiteSign(sk, text) \in Seq(S)
<1> DEFINE digest == Sha(<<sk.seed>> \o text)
           at == Lite!SplitDigest(digest)
           fors == Lite!ForsSign(sk, at.tree, at.fors)
           m == Lite!ForsRootFromSig(sk.seed, at.tree, at.fors, fors)
           ht == Lite!HtSign(sk, m, at.tree, at.leaf)
<1>1. /\ at.tree \in Nat /\ at.tree < 2^((D - 1) * H_PRIME)
      /\ at.leaf \in 0 .. 2^H_PRIME - 1
  <2>1. digest \in V
    BY DEF HashFits
  <2> HIDE DEF digest
  <2>. QED  BY <2>1, SplitPlaces
<1>2. Lite!LiteSign(sk, text) = fors \o ht
  BY DEF Lite!LiteSign
<1>3. m \in V
  BY DEF Lite!ForsRootFromSig, Lite!ForsRoots, Lite!ChainHash, HashFits
<1> HIDE DEF at, m
<1>4. PICK S : fors \in Seq(S)
  BY ForsShape
<1>5. ht \in Seq(V)
  BY <1>1, <1>3, HtOwn
<1> HIDE DEF fors, ht
<1>6. fors \in Seq(S \union V) /\ ht \in Seq(S \union V)
  BY <1>4, <1>5, SeqUnion
<1> DEFINE R == S \union V
<1> HIDE DEF R
<1>7. fors \o ht \in Seq(R)
  <2>1. fors \in Seq(R) /\ ht \in Seq(R)
    BY <1>6 DEF R
  <2>. QED  BY <2>1
<1>. QED  BY <1>2, <1>7

(* And that of 128s, which puts the randomizer in front.                   *)
LEMMA FipsSigIsSeq ==
    ASSUME HashFits, NEW sk, NEW m, NEW ctx, NEW r
    PROVE  \E S : Fips!Sign128s(sk, m, ctx, r) \in Seq(S)
<1> DEFINE digest == Fips!Hmsg(r, sk.seed, sk.root, Fips!Wrapped(ctx, m))
           at == Fips!SplitDigest(digest)
           fors == FipsFors(sk, at)
           forsPk == Fips!ForsPkFromSig(sk.seed, at.tree, at.leaf, at.fors, fors)
           ht == FipsHt(sk, forsPk, Fips!Places(at.tree, at.leaf))
<1>1. /\ at.tree \in Nat /\ at.tree < 2^((D - 1) * H_PRIME)
      /\ at.leaf \in 0 .. 2^H_PRIME - 1
  BY FipsSplitPlaces
<1>2. Fips!Sign128s(sk, m, ctx, r) = <<r>> \o fors \o ht
  BY FipsFlatten DEF Fips!Sign128s, FipsFors, FipsHt, FipsPayload, FipsTop
<1>3. forsPk \in V
  BY FipsHash DEF Fips!ForsPkFromSig
<1> HIDE DEF at, forsPk
<1>4. PICK S : fors \in Seq(S)
  BY FipsForsShape
<1>5. ht \in Seq(V)
  BY <1>1, <1>3, FipsHtOwn
<1> HIDE DEF fors, ht
<1>6. fors \in Seq(S \union V) /\ ht \in Seq(S \union V)
  BY <1>4, <1>5, SeqUnion
<1> DEFINE Q == S \union V
           R == Q \union {r}
<1>7. fors \in Seq(R) /\ ht \in Seq(R)
  <2>1. fors \in Seq(Q) /\ ht \in Seq(Q)
    BY <1>6
  <2> HIDE DEF Q
  <2>. QED  BY <2>1, SeqUnion
<1>8. r \in R
  OBVIOUS
<1> HIDE DEF R
<1>9. <<r>> \o fors \o ht \in Seq(R)
  <2>1. <<r>> \in Seq(R)
    BY <1>8
  <2>2. \A x, y \in Seq(R) : x \o y \in Seq(R)
    OBVIOUS
  <2>3. <<r>> \o fors \in Seq(R)
    BY <1>7, <2>1, <2>2
  <2>. QED  BY <1>7, <2>2, <2>3
<1>. QED  BY <1>2, <1>9

(* What arrives is a sequence.                                             *)
SigIsSeq == \E S : signature \in Seq(S)

(* A signer's signature is one.                                            *)
LEMMA SignedIsSeq ==
    ASSUME HashFits, SigInv, key # Nothing, NEW m
    PROVE  \E S : SignatureOn(key, m) \in Seq(S)
<1>1. PICK scheme \in Scheme, seed \in Seed :
         key = [scheme |-> scheme, seed |-> seed, pair |-> KeyPair(scheme, seed)]
  BY DEF SigInv
<1>2. key.scheme = scheme /\ scheme \in {"WOTS", "LITE", "128S"}
  BY <1>1 DEF Scheme
<1>3. CASE scheme = "WOTS"
  <2>1. SignatureOn(key, m) = Lite!ChainPoints(key.pair.seed, key.pair.adrs, key.pair.sk, m.text[1])
    BY <1>2, <1>3 DEF SignatureOn, Lite!WotsSign
  <2>. QED  BY <2>1, WotsSigIsSeq
<1>4. CASE scheme = "LITE"
  <2>1. SignatureOn(key, m) = Lite!LiteSign(key.pair.sk, m.text)
    BY <1>2, <1>4 DEF SignatureOn
  <2>. QED  BY <2>1, LiteSigIsSeq
<1>5. CASE scheme = "128S"
  <2>1. SignatureOn(key, m) = Fips!Sign128s(key.pair.sk, m.text, m.ctx, key.seed + 2)
    BY <1>2, <1>5 DEF SignatureOn
  <2>. QED  BY <2>1, FipsSigIsSeq
<1>. QED  BY <1>2, <1>3, <1>4, <1>5

(* And it stays one, whatever is done to it on the way.                    *)
LEMMA SigIsSeqStep ==
    ASSUME HashFits, SigInv, SigIsSeq, [Next]_vars
    PROVE  SigIsSeq'
<1>1. PICK S : signature \in Seq(S)
  BY DEF SigIsSeq
<1>2. ASSUME signature' = signature PROVE SigIsSeq'
  BY <1>1, <1>2 DEF SigIsSeq
<1>3. ASSUME key # Nothing, NEW m \in Messages(key.scheme), Sign(m) PROVE SigIsSeq'
  <2>1. signature' = SignatureOn(key, m)
    BY <1>3 DEF Sign
  <2>2. PICK T : SignatureOn(key, m) \in Seq(T)
    BY <1>3, SignedIsSeq
  <2>. QED  BY <2>1, <2>2 DEF SigIsSeq
<1>4. ASSUME NEW i \in 1 .. Len(signature), AlterPart(i) PROVE SigIsSeq'
  <2> DEFINE x == (signature[i] + 1) % 2^(8 * N)
             R == S \union {x}
  <2>1. signature' = [signature EXCEPT ![i] = x]
    BY <1>4 DEF AlterPart
  <2>2. signature \in Seq(R)
    BY <1>1, SeqUnion
  <2>3. x \in R
    OBVIOUS
  <2> HIDE DEF x, R
  <2>4. signature' \in Seq(R)
    BY <2>1, <2>2, <2>3
  <2>. QED  BY <2>4 DEF SigIsSeq
<1>5. ASSUME ChangeLength PROVE SigIsSeq'
  <2>1. CASE signature' = Append(signature, 0)
    <3> DEFINE R == S \union {0}
    <3>1. signature \in Seq(R)
      BY <1>1, SeqUnion
    <3>2. 0 \in R
      OBVIOUS
    <3> HIDE DEF R
    <3>3. signature' \in Seq(R)
      BY <2>1, <3>1, <3>2
    <3>. QED  BY <3>3 DEF SigIsSeq
  <2>2. CASE signature' = SubSeq(signature, 1, Len(signature) - 1)
    <3>1. signature' \in Seq(S)
      <4>1. CASE Len(signature) = 0
        <5>1. SubSeq(signature, 1, 0 - 1) = <<>>
          BY <1>1
        <5>. QED  BY <2>2, <4>1, <5>1
      <4>2. CASE Len(signature) # 0
        BY <1>1, <2>2, <4>2
      <4>. QED  BY <4>1, <4>2
    <3>. QED  BY <3>1 DEF SigIsSeq
  <2>. QED  BY <1>5, <2>1, <2>2 DEF ChangeLength
<1>6. ASSUME NEW scheme \in Scheme, NEW seed \in Seed, Generate(scheme, seed) PROVE SigIsSeq'
  BY <1>2, <1>6 DEF Generate
<1>7. ASSUME NEW m, Redirect(m) PROVE SigIsSeq'
  BY <1>2, <1>7 DEF Redirect
<1>8. CASE Verify
  BY <1>2, <1>8 DEF Verify
<1>9. CASE UNCHANGED vars
  BY <1>2, <1>9 DEF vars
<1>. QED  BY <1>3, <1>4, <1>5, <1>6, <1>7, <1>8, <1>9 DEF Next

(* The two verifiers of each scheme say the same of what arrives.          *)
LEMMA WotsAgree ==
    ASSUME HashFits, SigInv, key # Nothing, key.scheme = "WOTS", verdict # "none"
    PROVE  (verdict = "true") = Reference(key, message, signature)
<1>1. PICK seed \in Seed : key = [scheme |-> "WOTS", seed |-> seed, pair |-> KeyPair("WOTS", seed)]
  BY DEF SigInv
<1>2. message.text[1] \in V
  <2>1. message \in Messages("WOTS") \union Redirected("WOTS")
    BY DEF SigInv
  <2>. QED  BY <2>1, WotsMessages DEF V
<1> DEFINE a == Lite!BuildAdrs(0, 0, 0, 5)
           sk == [i \in 1 .. Lite!LEN |-> Sha(<<seed + 1, 1, i - 1>>)]
<1>3. key.pair = [seed |-> seed, adrs |-> a, sk |-> sk, pk |-> Lite!ChainTops(seed, a, sk)]
  BY <1>1 DEF KeyPair, Lite!WotsKeygen
<1> HIDE DEF a, sk
<1>4. verdict = Lite!WotsVerify(seed, a, message.text[1], signature, Lite!ChainTops(seed, a, sk))
  BY <1>3 DEF SigInv, Verdict
<1>5. Reference(key, message, signature)
         = LiteRef!wotsVerify(seed, a, message.text[1], signature, Lite!ChainTops(seed, a, sk))
  BY <1>3 DEF Reference
<1>. QED  BY <1>2, <1>4, <1>5, RefWots

(* For LITE they do.                                                       *)
LEMMA LiteAgree ==
    ASSUME HashFits, SigInv, SigIsSeq, key # Nothing, key.scheme = "LITE", verdict # "none"
    PROVE  (verdict = "true") = Reference(key, message, signature)
<1>1. PICK S : signature \in Seq(S)
  BY DEF SigIsSeq
<1>2. verdict = Lite!LiteVerify(key.pair.pk, message.text, signature)
  BY DEF SigInv, Verdict
<1>3. Reference(key, message, signature) = LiteRef!PackedVerify(key.pair.pk, message.text, signature)
  BY DEF Reference
<1>. QED  BY <1>1, <1>2, <1>3, RefLite

(* And for 128s, the context included.                                     *)
LEMMA FipsAgree ==
    ASSUME HashFits, SigInv, SigIsSeq, key # Nothing, key.scheme = "128S", verdict # "none"
    PROVE  (verdict = "true") = Reference(key, message, signature)
<1>1. PICK S : signature \in Seq(S)
  BY DEF SigIsSeq
<1>2. verdict = Fips!VerifyWithContext(key.pair.pk, message.text, signature, message.ctx)
  BY DEF SigInv, Verdict
<1>3. Reference(key, message, signature)
         = FipsRef!verify(key.pair.pk, message.text, signature, message.ctx)
  BY DEF Reference
<1>. QED  BY <1>1, <1>2, <1>3, RefFips

(* The verifiers in TypeScript accept what the verifiers in Move accept:   *)
(* altered, shortened, lengthened and redirected signatures included, for  *)
(* every size of hash and trees and every hash of N bytes.                 *)
THEOREM AgreeHolds ==
    ASSUME HashFits
    PROVE  Spec => []Agree
<1>1. Init => SigIsSeq
  <2> SUFFICES ASSUME Init PROVE SigIsSeq
    OBVIOUS
  <2>1. signature = <<>>
    BY DEF Init, Nothing
  <2>2. signature \in Seq({})
    BY <2>1
  <2>. QED  BY <2>2 DEF SigIsSeq
<1>2. SigInv /\ SigIsSeq /\ [Next]_vars => SigIsSeq'
  BY SigIsSeqStep
<1>3. SigInv /\ SigIsSeq => Agree
  <2> SUFFICES ASSUME SigInv, SigIsSeq, verdict # "none"
               PROVE  (verdict = "true") = Reference(key, message, signature)
    BY DEF Agree
  <2>1. key # Nothing
    BY DEF SigInv
  <2>2. key.scheme \in {"WOTS", "LITE", "128S"}
    <3>1. PICK scheme \in Scheme, seed \in Seed :
             key = [scheme |-> scheme, seed |-> seed, pair |-> KeyPair(scheme, seed)]
      BY <2>1 DEF SigInv
    <3>2. key.scheme = scheme
      BY <3>1
    <3>. QED  BY <3>2 DEF Scheme
  <2>. QED  BY <2>1, <2>2, WotsAgree, LiteAgree, FipsAgree
<1>. QED  BY <1>1, <1>2, <1>3, SignaturesInvariance, PTL DEF Spec
=============================================================================
