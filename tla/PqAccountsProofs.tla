-------------------------- MODULE PqAccountsProofs --------------------------
(***************************************************************************)
(* Theorems about PqAccounts, for all keys, addresses, labels, key        *)
(* servers and any number of lists, under AccountsAssumption.             *)
(*                                                                         *)
(* In this order: what bytes determine (intents, vectors, commitments);   *)
(* the allowlists and their events; the registry and its log; what        *)
(* attestations verify; the blobs of native accounts; envelopes; key      *)
(* servers; the invariant, one lemma per kind of step; the properties.    *)
(***************************************************************************)
EXTENDS PqAccounts, SequenceTheorems, FiniteSetTheorems, TLAPS

(* Transaction bytes under the intent of transactions determine them.     *)
LEMMA IntentInjective ==
    ASSUME NEW x, NEW y, TX_INTENT \o <<x>> = TX_INTENT \o <<y>>
    PROVE  x = y
<1> DEFINE S == {0, x, y}
<1>1. TX_INTENT \in Seq(S) /\ Len(TX_INTENT) = 3
  BY DEF TX_INTENT
<1>2. <<x>> \in Seq(S) /\ <<y>> \in Seq(S) /\ Len(<<x>>) = 1 /\ Len(<<y>>) = 1
  OBVIOUS
<1> HIDE DEF S
<1>3. <<x>> = <<y>>
  BY <1>1, <1>2, ConcatSimplifications
<1>. QED  BY <1>3

(* What is signed as a personal message is never what is signed as a      *)
(* transaction: the first byte of the intent differs (pq-signer.ts).      *)
LEMMA IntentsApart ==
    ASSUME NEW x, NEW y
    PROVE  TX_INTENT \o <<x>> # PERSONAL_INTENT \o (<<Len(<<y>>)>> \o <<y>>)
<1> DEFINE S == {0, 1, 3, x, y}
<1>1. TX_INTENT \in Seq(S) /\ Len(TX_INTENT) = 3 /\ TX_INTENT[1] = 0
  BY DEF TX_INTENT
<1>2. PERSONAL_INTENT \in Seq(S) /\ Len(PERSONAL_INTENT) = 3 /\ PERSONAL_INTENT[1] = 3
  BY DEF PERSONAL_INTENT
<1>3. <<x>> \in Seq(S) /\ <<y>> \in Seq(S) /\ Len(<<x>>) = 1 /\ Len(<<y>>) = 1
  OBVIOUS
<1>4. <<Len(<<y>>)>> \in Seq(S)
  BY <1>3
<1> HIDE DEF S
<1>5. <<Len(<<y>>)>> \o <<y>> \in Seq(S)
  BY <1>3, <1>4, ConcatProperties
<1>6. (TX_INTENT \o <<x>>)[1] = 0
  BY <1>1, <1>3, ConcatProperties
<1>7. (PERSONAL_INTENT \o (<<Len(<<y>>)>> \o <<y>>))[1] = 3
  <2>1. Len(<<Len(<<y>>)>> \o <<y>>) \in Nat
    BY <1>5, LenProperties
  <2>. QED  BY <1>2, <1>5, <2>1, ConcatProperties
<1>. QED  BY <1>6, <1>7

(* A vector is written as its length followed by its elements.            *)
LEMMA VectorShape ==
    ASSUME NEW S, NEW n \in Seq(S), Nat \subseteq S
    PROVE  /\ Vector(n) \in Seq(S)
           /\ Len(Vector(n)) = Len(n) + 1
           /\ Vector(n)[1] = Len(n)
           /\ \A i \in 1 .. Len(n) : Vector(n)[i + 1] = n[i]
<1>1. Len(n) \in Nat
  BY LenProperties
<1>2. <<Len(n)>> \in Seq(S) /\ Len(<<Len(n)>>) = 1
  BY <1>1
<1>. QED  BY <1>1, <1>2, ConcatProperties DEF Vector

(* The length in front makes the writing of a vector unambiguous.         *)
LEMMA VectorInjective ==
    ASSUME NEW S, NEW n \in Seq(S), NEW m \in Seq(S), Nat \subseteq S,
           Vector(n) = Vector(m)
    PROVE  n = m
<1>1. Len(n) = Len(m) /\ Len(n) \in Nat
  BY VectorShape, LenProperties
<1>2. \A i \in 1 .. Len(n) : n[i] = m[i]
  BY <1>1, VectorShape
<1>. QED  BY <1>1, <1>2, SeqEqual

(* The commitment of an attestation names one address, one nonce and one  *)
(* tag: no other cut of nonce and tag gives the same bytes, which would   *)
(* not be so without the lengths (attestation.ts, buildCommitMessage).    *)
LEMMA CommitInjective ==
    ASSUME NEW a, NEW b, NEW n \in Seq(Nat), NEW m \in Seq(Nat),
           NEW t \in Seq(Nat), NEW u \in Seq(Nat),
           CommitMessage(a, n, t) = CommitMessage(b, m, u)
    PROVE  a = b /\ n = m /\ t = u
<1> DEFINE S == Nat \union {a, b}
<1>1. \A s \in Seq(Nat) : s \in Seq(S)
  BY SeqMonotonic, Nat \subseteq S
<1>2. Nat \subseteq S
  OBVIOUS
<1>3. <<a>> \in Seq(S) /\ <<b>> \in Seq(S) /\ Len(<<a>>) = 1 /\ Len(<<b>>) = 1
  OBVIOUS
<1> HIDE DEF S
<1> DEFINE F(x, v, w) == (<<x>> \o v) \o w
<1>4. \A v \in Seq(S), w \in Seq(S) : \A x \in {a, b} :
         /\ <<x>> \o v \in Seq(S) /\ F(x, v, w) \in Seq(S)
         /\ F(x, v, w)[1] = x
         /\ \A i \in 1 .. Len(v) : F(x, v, w)[i + 1] = v[i]
  <2> SUFFICES ASSUME NEW v \in Seq(S), NEW w \in Seq(S), NEW x \in {a, b}
               PROVE  /\ <<x>> \o v \in Seq(S) /\ F(x, v, w) \in Seq(S)
                      /\ F(x, v, w)[1] = x
                      /\ \A i \in 1 .. Len(v) : F(x, v, w)[i + 1] = v[i]
    OBVIOUS
  <2>1. Len(v) \in Nat /\ Len(w) \in Nat
    BY LenProperties
  <2>2. <<x>> \in Seq(S) /\ Len(<<x>>) = 1
    BY <1>3
  <2>3. /\ <<x>> \o v \in Seq(S) /\ Len(<<x>> \o v) = 1 + Len(v)
        /\ (<<x>> \o v)[1] = x
        /\ \A i \in 1 .. Len(v) : (<<x>> \o v)[i + 1] = v[i]
    BY <2>1, <2>2, ConcatProperties
  <2>. QED  BY <2>1, <2>3, ConcatProperties
<1>5. /\ Vector(n) \in Seq(S) /\ Vector(m) \in Seq(S)
      /\ Vector(t) \in Seq(S) /\ Vector(u) \in Seq(S)
  BY <1>1, <1>2, VectorShape
<1>6. F(a, Vector(n), Vector(t)) = F(b, Vector(m), Vector(u))
  BY DEF CommitMessage
<1>6a. /\ F(a, Vector(n), Vector(t))[1] = a
       /\ F(b, Vector(m), Vector(u))[1] = b
       /\ \A i \in 1 .. Len(Vector(n)) : F(a, Vector(n), Vector(t))[i + 1] = Vector(n)[i]
       /\ \A i \in 1 .. Len(Vector(m)) : F(b, Vector(m), Vector(u))[i + 1] = Vector(m)[i]
  BY <1>4, <1>5
<1> HIDE DEF F
<1>7. a = b
  BY <1>6, <1>6a
<1>8. /\ Len(Vector(n)) = Len(n) + 1 /\ Vector(n)[1] = Len(n) /\ Len(n) \in Nat
      /\ Len(Vector(m)) = Len(m) + 1 /\ Vector(m)[1] = Len(m) /\ Len(m) \in Nat
  BY <1>1, <1>2, VectorShape, LenProperties
<1>9. Vector(n)[1] = Vector(m)[1]
  BY <1>6, <1>6a, <1>8, 1 \in 1 .. Len(Vector(n)), 1 \in 1 .. Len(Vector(m))
<1>10. Vector(n) = Vector(m)
  <2>1. Len(Vector(n)) = Len(Vector(m))
    BY <1>8, <1>9
  <2>2. \A i \in 1 .. Len(Vector(n)) : Vector(n)[i] = Vector(m)[i]
    BY <1>6, <1>6a, <2>1
  <2>. QED  BY <1>5, <2>1, <2>2, SeqEqual
<1>11. Vector(t) = Vector(u)
  <2>1. <<a>> \o Vector(n) \in Seq(S)
    BY <1>4, <1>5
  <2>2. (<<a>> \o Vector(n)) \o Vector(t) = (<<a>> \o Vector(n)) \o Vector(u)
    BY <1>6, <1>7, <1>10 DEF F
  <2>. QED  BY <1>5, <2>1, <2>2, ConcatSimplifications
<1>. QED  BY <1>1, <1>2, <1>7, <1>10, <1>11, VectorInjective
-----------------------------------------------------------------------------
Change   == [type : {"MemberAdded", "MemberRemoved"}, allowlist : Nat, member : Address]
(* The lists and the events they emit.                                    *)
ListType == [owner : Address, members : Seq(Address)]

(* By the first k events, m was added to list n and not removed after.    *)
ListedIn(c, k, n, m) ==
    \E i \in 1 .. k :
       /\ c[i] = [type |-> "MemberAdded", allowlist |-> n, member |-> m]
       /\ \A j \in i + 1 .. k :
             c[j] # [type |-> "MemberRemoved", allowlist |-> n, member |-> m]

(* A member is listed once, since add checks that it is not there.        *)
NoTwice(s) == \A i, j \in 1 .. Len(s) : s[i] = s[j] => i = j

(* One more event changes who is listed only for the list and the member  *)
(* that it names.                                                         *)
LEMMA ListedAppend ==
    ASSUME NEW c \in Seq(Change), NEW e \in Change, NEW n \in Nat, NEW m \in Address
    PROVE  /\ \A k \in 0 .. Len(c) : ListedIn(Append(c, e), k, n, m) <=> ListedIn(c, k, n, m)
           /\ e = [type |-> "MemberAdded", allowlist |-> n, member |-> m] =>
                ListedIn(Append(c, e), Len(c) + 1, n, m)
           /\ e = [type |-> "MemberRemoved", allowlist |-> n, member |-> m] =>
                ~ ListedIn(Append(c, e), Len(c) + 1, n, m)
           /\ e.allowlist # n \/ e.member # m =>
                (ListedIn(Append(c, e), Len(c) + 1, n, m) <=> ListedIn(c, Len(c), n, m))
<1> DEFINE d == Append(c, e)
           ins == [type |-> "MemberAdded", allowlist |-> n, member |-> m]
           rem == [type |-> "MemberRemoved", allowlist |-> n, member |-> m]
<1>1. /\ Len(c) \in Nat /\ d[Len(c) + 1] = e
      /\ \A i \in 1 .. Len(c) : d[i] = c[i]
  BY AppendProperties, LenProperties
<1>2. ins # rem
  OBVIOUS
<1>3. e.allowlist # n \/ e.member # m => e # ins /\ e # rem
  OBVIOUS
<1>4. \A x, k : ListedIn(x, k, n, m) <=>
         \E i \in 1 .. k : x[i] = ins /\ \A j \in i + 1 .. k : x[j] # rem
  BY DEF ListedIn
<1> HIDE DEF d, ins, rem
<1>5. \A k \in 0 .. Len(c) : ListedIn(d, k, n, m) <=> ListedIn(c, k, n, m)
  BY <1>1, <1>4
<1>6. e = ins => ListedIn(d, Len(c) + 1, n, m)
  BY <1>1, <1>4
<1>7. e = rem => ~ ListedIn(d, Len(c) + 1, n, m)
  BY <1>1, <1>2, <1>4
<1>8. e # ins /\ e # rem => (ListedIn(d, Len(c) + 1, n, m) <=> ListedIn(c, Len(c), n, m))
  <2> SUFFICES ASSUME e # ins, e # rem
               PROVE  ListedIn(d, Len(c) + 1, n, m) <=> ListedIn(c, Len(c), n, m)
    OBVIOUS
  <2>1. ASSUME ListedIn(d, Len(c) + 1, n, m) PROVE ListedIn(c, Len(c), n, m)
    <3>1. PICK i \in 1 .. Len(c) + 1 : d[i] = ins /\ \A j \in i + 1 .. Len(c) + 1 : d[j] # rem
      BY <1>4, <2>1
    <3>2. i \in 1 .. Len(c)
      BY <1>1, <3>1
    <3>. QED  BY <1>1, <1>4, <3>1, <3>2
  <2>2. ASSUME ListedIn(c, Len(c), n, m) PROVE ListedIn(d, Len(c) + 1, n, m)
    <3>1. PICK i \in 1 .. Len(c) : c[i] = ins /\ \A j \in i + 1 .. Len(c) : c[j] # rem
      BY <1>4, <2>2
    <3>2. \A j \in i + 1 .. Len(c) + 1 : d[j] # rem
      BY <1>1, <3>1
    <3>. QED  BY <1>1, <1>4, <3>1, <3>2
  <2>. QED  BY <2>1, <2>2
<1>. QED  BY <1>3, <1>5, <1>6, <1>7, <1>8 DEF d, ins, rem

(* add appends a member that was not there.                               *)
LEMMA MembersAfterAdd ==
    ASSUME NEW s \in Seq(Address), NEW m \in Address, NoTwice(s), ~ Contains(s, m)
    PROVE  /\ Append(s, m) \in Seq(Address)
           /\ NoTwice(Append(s, m))
           /\ \A x : Contains(Append(s, m), x) <=> Contains(s, x) \/ x = m
<1>1. /\ Append(s, m) \in Seq(Address) /\ Len(s) \in Nat
      /\ Len(Append(s, m)) = Len(s) + 1
      /\ Append(s, m)[Len(s) + 1] = m
      /\ \A i \in 1 .. Len(s) : Append(s, m)[i] = s[i]
  BY AppendProperties, LenProperties
<1>. QED  BY <1>1 DEF NoTwice, Contains

(* remove takes out the one place at which the member stands, so nobody   *)
(* is left behind and nobody else goes.                                   *)
LEMMA MembersAfterRemove ==
    ASSUME NEW s \in Seq(Address), NEW m \in Address, NoTwice(s), Contains(s, m)
    PROVE  /\ RemoveAt(s, IndexOf(s, m)) \in Seq(Address)
           /\ NoTwice(RemoveAt(s, IndexOf(s, m)))
           /\ \A x : Contains(RemoveAt(s, IndexOf(s, m)), x) <=> Contains(s, x) /\ x # m
<1> DEFINE k == IndexOf(s, m)
           a == SubSeq(s, 1, k - 1)
           b == SubSeq(s, k + 1, Len(s))
<1>1. Len(s) \in Nat /\ DOMAIN s = 1 .. Len(s) /\ \A i \in 1 .. Len(s) : s[i] \in Address
  BY LenProperties, ElementOfSeq
<1>2. k \in 1 .. Len(s) /\ s[k] = m
  <2>1. \E i \in DOMAIN s : s[i] = m /\ \A j \in 1 .. i - 1 : s[j] # m
    BY <1>1 DEF NoTwice, Contains
  <2>. QED  BY <1>1, <2>1 DEF IndexOf
<1> HIDE DEF k
<1>3. a \in Seq(Address) /\ Len(a) = k - 1 /\ \A i \in 1 .. k - 1 : a[i] = s[i]
  BY <1>1, <1>2, SubSeqProperties
<1>4. b \in Seq(Address) /\ Len(b) = Len(s) - k /\ \A i \in 1 .. Len(s) - k : b[i] = s[k + i]
  <2>1. k + 1 \in Int /\ Len(s) \in Int /\ \A i \in k + 1 .. Len(s) : s[i] \in Address
    BY <1>1, <1>2
  <2>2. /\ b \in Seq(Address)
        /\ Len(b) = IF k + 1 <= Len(s) THEN Len(s) - (k + 1) + 1 ELSE 0
        /\ \A i \in 1 .. Len(s) - (k + 1) + 1 : b[i] = s[(k + 1) + i - 1]
    BY <2>1, SubSeqProperties
  <2>3. Len(b) = Len(s) - k
    <3>1. CASE k + 1 <= Len(s)
      BY <1>1, <1>2, <2>2, <3>1
    <3>2. CASE k = Len(s)
      BY <1>1, <2>2, <3>2
    <3>3. k + 1 <= Len(s) \/ k = Len(s)
      <4>1. Len(s) \in Int /\ k \in Int /\ k <= Len(s)
        BY <1>1, <1>2
      <4>. QED  BY ONLY <4>1
    <3>. QED  BY ONLY <3>1, <3>2, <3>3
  <2>4. ASSUME NEW i \in 1 .. Len(s) - k PROVE b[i] = s[k + i]
    <3>1. i \in 1 .. Len(s) - (k + 1) + 1 /\ (k + 1) + i - 1 = k + i
      BY <1>1, <1>2
    <3>. QED  BY <2>2, <3>1
  <2>. QED  BY <2>2, <2>3, <2>4
<1> HIDE DEF a, b
<1>5. /\ a \o b \in Seq(Address) /\ Len(a \o b) = Len(s) - 1
      /\ \A i \in 1 .. Len(s) - 1 : (a \o b)[i] = IF i < k THEN s[i] ELSE s[i + 1]
  <2>1. /\ a \o b \in Seq(Address) /\ Len(a \o b) = Len(a) + Len(b)
        /\ \A i \in 1 .. Len(a) + Len(b) :
              (a \o b)[i] = IF i <= Len(a) THEN a[i] ELSE b[i - Len(a)]
    BY <1>3, <1>4, ConcatProperties
  <2>2. Len(a) + Len(b) = Len(s) - 1
    BY <1>1, <1>2, <1>3, <1>4
  <2>3. ASSUME NEW i \in 1 .. Len(s) - 1
        PROVE  (a \o b)[i] = IF i < k THEN s[i] ELSE s[i + 1]
    <3>1. CASE i < k
      BY <1>2, <1>3, <2>1, <2>2, <3>1
    <3>2. CASE ~ i < k
      <4>1. i - Len(a) \in 1 .. Len(s) - k /\ k + (i - Len(a)) = i + 1
        BY <1>1, <1>2, <1>3, <3>2
      <4>2. (a \o b)[i] = b[i - Len(a)]
        BY <1>1, <1>2, <1>3, <2>1, <2>2, <3>2
      <4>. QED  BY <1>4, <3>2, <4>1, <4>2
    <3>. QED  BY <3>1, <3>2
  <2>. QED  BY <2>1, <2>2, <2>3
<1> DEFINE r == a \o b
<1> HIDE DEF r
<1>6. RemoveAt(s, IndexOf(s, m)) = r
  BY DEF RemoveAt, r, a, b, k
<1>7. NoTwice(r)
  BY <1>1, <1>2, <1>5 DEF NoTwice, r
<1>8. ASSUME NEW x, Contains(r, x) PROVE Contains(s, x) /\ x # m
  <2>1. PICK i \in 1 .. Len(s) - 1 : x = IF i < k THEN s[i] ELSE s[i + 1]
    BY <1>5, <1>8 DEF Contains, r
  <2>. QED  BY <1>1, <1>2, <2>1 DEF Contains, NoTwice
<1>9. ASSUME NEW x, Contains(s, x), x # m PROVE Contains(r, x)
  <2>1. PICK i \in 1 .. Len(s) : s[i] = x
    BY <1>9 DEF Contains
  <2>2. CASE i < k
    <3>1. i \in 1 .. Len(r) /\ r[i] = x
      <4>1. i \in 1 .. Len(s) - 1
        BY <1>1, <1>2, <2>2
      <4>. QED  BY <1>5, <2>1, <2>2, <4>1 DEF r
    <3>. QED  BY <3>1 DEF Contains
  <2>3. CASE i > k
    <3>1. i - 1 \in 1 .. Len(r) /\ r[i - 1] = x
      <4>1. i - 1 \in 1 .. Len(s) - 1 /\ ~ i - 1 < k /\ (i - 1) + 1 = i
        BY <1>1, <1>2, <2>3
      <4>. QED  BY <1>5, <2>1, <4>1 DEF r
    <3>. QED  BY <3>1 DEF Contains
  <2>. QED  BY <1>2, <1>9, <2>1, <2>2, <2>3
<1>. QED  BY <1>5, <1>6, <1>7, <1>8, <1>9 DEF r
-----------------------------------------------------------------------------
(* The members of every list are those listed by all events.              *)
ListInv ==
    /\ lists \in Seq(ListType) /\ changes \in Seq(Change)
    /\ \A i \in 1 .. Len(changes) : changes[i].allowlist \in 1 .. Len(lists)
    /\ \A n \in 1 .. Len(lists) : NoTwice(lists[n].members)
    /\ \A n \in 1 .. Len(lists), m \in Address :
          Contains(lists[n].members, m) <=> ListedIn(changes, Len(changes), n, m)

(* Events are only appended.                                              *)
Grows == changes' = changes \/ \E e \in Change : changes' = Append(changes, e)

(* What add and remove have in common: the list they change agrees with   *)
(* the event they emit.                                                   *)
LEMMA ListChanged ==
    ASSUME ListInv, NEW n \in 1 .. Len(lists), NEW X \in Seq(Address), NoTwice(X),
           NEW e \in Change, e.allowlist = n,
           lists' = [lists EXCEPT ![n].members = X], changes' = Append(changes, e),
           \A m \in Address : Contains(X, m) <=>
              IF m = e.member THEN e.type = "MemberAdded" ELSE Contains(lists[n].members, m)
    PROVE  ListInv'
<1> DEFINE new == [owner |-> lists[n].owner, members |-> X]
<1>1. /\ Len(lists) \in Nat /\ Len(changes) \in Nat
      /\ \A i \in 1 .. Len(lists) : lists[i] \in ListType
  BY LenProperties, ElementOfSeq DEF ListInv
<1>2. lists[n].owner \in Address /\ n \in Nat
  BY <1>1 DEF ListType
<1>3. new \in ListType
  BY <1>2 DEF ListType
<1>4. [lists[n] EXCEPT !.members = X] = new
  BY <1>1 DEF ListType
<1> HIDE DEF new
<1>5. lists' = [lists EXCEPT ![n] = new]
  BY <1>4
<1>6. /\ lists' \in Seq(ListType) /\ Len(lists') = Len(lists)
      /\ \A i \in 1 .. Len(lists) : lists'[i] = IF i = n THEN new ELSE lists[i]
  <2>1. lists \in Seq(ListType)
    BY DEF ListInv
  <2>2. /\ [lists EXCEPT ![n] = new] \in Seq(ListType)
        /\ Len([lists EXCEPT ![n] = new]) = Len(lists)
        /\ \A i \in 1 .. Len(lists) :
              [lists EXCEPT ![n] = new][i] = IF i = n THEN new ELSE lists[i]
    BY ONLY <1>3, <2>1, n \in 1 .. Len(lists), ExceptSeq
  <2>. QED  BY ONLY <1>5, <2>2
<1>7. /\ changes' \in Seq(Change) /\ Len(changes') = Len(changes) + 1
      /\ \A i \in 1 .. Len(changes) : changes'[i] = changes[i]
      /\ changes'[Len(changes) + 1] = e
  BY AppendProperties DEF ListInv
<1>8. \A i \in 1 .. Len(changes') : changes'[i].allowlist \in 1 .. Len(lists')
  BY <1>1, <1>6, <1>7 DEF ListInv
<1>9. new.members = X
  BY DEF new
<1>10. \A i \in 1 .. Len(lists') : NoTwice(lists'[i].members)
  BY <1>6, <1>9 DEF ListInv
<1>11. ASSUME NEW i \in 1 .. Len(lists), NEW m \in Address
       PROVE  Contains(lists'[i].members, m) <=> ListedIn(changes', Len(changes'), i, m)
  <2>1. i \in Nat /\ e.type \in {"MemberAdded", "MemberRemoved"}
        /\ e = [type |-> e.type, allowlist |-> n, member |-> e.member]
    BY DEF Change
  <2>2. Contains(lists[i].members, m) <=> ListedIn(changes, Len(changes), i, m)
    BY DEF ListInv
  <2>3. /\ e = [type |-> "MemberAdded", allowlist |-> i, member |-> m] =>
                ListedIn(changes', Len(changes'), i, m)
        /\ e = [type |-> "MemberRemoved", allowlist |-> i, member |-> m] =>
                ~ ListedIn(changes', Len(changes'), i, m)
        /\ e.allowlist # i \/ e.member # m =>
                (ListedIn(changes', Len(changes'), i, m) <=>
                    ListedIn(changes, Len(changes), i, m))
    BY <1>7, <2>1, ListedAppend DEF ListInv
  <2>4. CASE i # n
    BY <1>6, <2>2, <2>3, <2>4
  <2>5. CASE i = n /\ m # e.member
    BY <1>6, <1>9, <2>2, <2>3, <2>5
  <2>6. CASE i = n /\ m = e.member
    BY <1>6, <1>9, <2>1, <2>3, <2>6
  <2>. QED  BY <2>4, <2>5, <2>6
<1>. QED  BY <1>6, <1>7, <1>8, <1>10, <1>11 DEF ListInv

(* create, add and remove keep the lists and the events in agreement.     *)
LEMMA CreateKeeps ==
    ASSUME ListInv, NEW sender \in Address, create(sender)
    PROVE  ListInv' /\ Grows /\ Len(lists') = Len(lists) + 1
<1> DEFINE new == [owner |-> sender, members |-> <<>>]
<1>1. new \in ListType
  BY EmptySeq DEF ListType
<1>2. new.members = <<>> /\ NoTwice(<<>>) /\ \A m : ~ Contains(<<>>, m)
  BY DEF NoTwice, Contains
<1> HIDE DEF new
<1>3. lists' = Append(lists, new) /\ changes' = changes
  BY DEF create, new
<1>4. Len(lists) \in Nat /\ Len(changes) \in Nat
  BY LenProperties DEF ListInv
<1>5. /\ lists' \in Seq(ListType) /\ Len(lists') = Len(lists) + 1
      /\ \A i \in 1 .. Len(lists) : lists'[i] = lists[i]
      /\ lists'[Len(lists) + 1] = new
  BY <1>1, <1>3, AppendProperties DEF ListInv
<1>6. \A i \in 1 .. Len(lists') : i \in 1 .. Len(lists) \/ i = Len(lists) + 1
  BY <1>4, <1>5
<1>7. \A m : ~ ListedIn(changes, Len(changes), Len(lists) + 1, m)
  BY <1>4 DEF ListedIn, ListInv
<1>8. \A i \in 1 .. Len(changes) : changes[i].allowlist \in 1 .. Len(lists')
  BY <1>4, <1>5 DEF ListInv
<1>9. \A i \in 1 .. Len(lists') : NoTwice(lists'[i].members)
  BY <1>2, <1>5, <1>6 DEF ListInv
<1>10. \A i \in 1 .. Len(lists'), m \in Address :
          Contains(lists'[i].members, m) <=> ListedIn(changes, Len(changes), i, m)
  BY <1>2, <1>5, <1>6, <1>7 DEF ListInv
<1>. QED  BY <1>3, <1>5, <1>8, <1>9, <1>10 DEF ListInv, Grows

(* add_member changes one list and tells of it.                           *)
LEMMA AddKeeps ==
    ASSUME ListInv, NEW call, call.list \in 1 .. Len(lists), call.member \in Address,
           AddMember(call)
    PROVE  ListInv' /\ Grows /\ Len(lists') = Len(lists)
<1> DEFINE n == call.list
           s == lists[n].members
           e == Event("MemberAdded", call)
           X == Append(s, call.member)
<1>1. s \in Seq(Address) /\ NoTwice(s) /\ n \in Nat
  <2>1. lists \in Seq(ListType) /\ NoTwice(s)
    BY DEF ListInv
  <2>2. lists[n] \in ListType /\ n \in Nat
    BY <2>1, LenProperties, ElementOfSeq
  <2>. QED  BY <2>1, <2>2 DEF ListType
<1>2. CASE Contains(s, call.member)
  BY <1>2 DEF AddMember, ListInv, Grows
<1>3. CASE ~ Contains(s, call.member)
  <2>1. /\ e \in Change /\ e.allowlist = n
        /\ e.member = call.member /\ e.type = "MemberAdded"
    BY <1>1 DEF Event, Change
  <2>2. /\ lists' = [lists EXCEPT ![n].members = X]
        /\ changes' = Append(changes, e)
    BY <1>3 DEF AddMember
  <2>3. /\ X \in Seq(Address) /\ NoTwice(X)
        /\ \A x : Contains(X, x) <=> Contains(s, x) \/ x = call.member
    BY <1>1, <1>3, MembersAfterAdd
  <2> HIDE DEF e, X
  <2>4. ListInv'
    <3>1. \A m \in Address : Contains(X, m) <=>
             IF m = e.member THEN e.type = "MemberAdded" ELSE Contains(s, m)
      BY <2>1, <2>3
    <3>. QED  BY <2>1, <2>2, <2>3, <3>1, ListChanged
  <2>. QED  BY <2>1, <2>2, <2>4, ExceptSeq DEF ListInv, Grows
<1>. QED  BY <1>2, <1>3

(* remove_member does.                                                    *)
LEMMA RemoveKeeps ==
    ASSUME ListInv, NEW sender, NEW call,
           call.list \in 1 .. Len(lists), call.member \in Address,
           remove(sender, call)
    PROVE  ListInv' /\ Grows /\ Len(lists') = Len(lists)
<1> DEFINE n == call.list
           s == lists[n].members
           e == Event("MemberRemoved", call)
           X == RemoveAt(s, IndexOf(s, call.member))
<1>1. s \in Seq(Address) /\ NoTwice(s) /\ n \in Nat
  <2>1. lists \in Seq(ListType) /\ NoTwice(s)
    BY DEF ListInv
  <2>2. lists[n] \in ListType /\ n \in Nat
    BY <2>1, LenProperties, ElementOfSeq
  <2>. QED  BY <2>1, <2>2 DEF ListType
<1>2. CASE ~ Contains(s, call.member)
  BY <1>2 DEF remove, ListInv, Grows
<1>3. CASE Contains(s, call.member)
  <2>1. /\ e \in Change /\ e.allowlist = n
        /\ e.member = call.member /\ e.type = "MemberRemoved"
    BY <1>1 DEF Event, Change
  <2>2. /\ lists' = [lists EXCEPT ![n].members = X]
        /\ changes' = Append(changes, e)
    BY <1>3 DEF remove
  <2>3. /\ X \in Seq(Address) /\ NoTwice(X)
        /\ \A x : Contains(X, x) <=> Contains(s, x) /\ x # call.member
    BY <1>1, <1>3, MembersAfterRemove
  <2> HIDE DEF e, X
  <2>4. ListInv'
    <3>1. \A m \in Address : Contains(X, m) <=>
             IF m = e.member THEN e.type = "MemberAdded" ELSE Contains(s, m)
      BY <2>1, <2>3
    <3>. QED  BY <2>1, <2>2, <2>3, <3>1, ListChanged
  <2>. QED  BY <2>1, <2>2, <2>4, ExceptSeq DEF ListInv, Grows
<1>. QED  BY <1>2, <1>3
-----------------------------------------------------------------------------
(* The events of the registry.                                            *)
Entry ==
    [type : {"Registered"}, attestation : Nat, owner : Address, scheme : Nat] \union
    [type : {"Revoked"}, attestation : Nat, owner : Address]

(* The calls of register that anyone can make.                            *)
Registrable == RegisterCalls \union PageCalls

(* The object a stores what the call c was given, whatever it is.         *)
FromCall(a, c) ==
    /\ RegisterGoes(c)
    /\ a = [owner |-> a.owner, holder |-> a.holder, scheme |-> c.scheme,
            public_key |-> c.public_key, signature |-> c.signature,
            message_digest |-> c.message_digest, nonce |-> c.nonce, app_tag |-> c.app_tag]

(* An event of this type for this attestation is in the log.              *)
Logged(type, id) == \E i \in 1 .. Len(log) : log[i].type = type /\ log[i].attestation = id

(* The live attestations are those registered and not revoked; the owner  *)
(* an event names is the owner in the object, though the object may be    *)
(* held by another address.                                               *)
LogInv ==
    /\ log \in Seq(Entry)
    /\ \A i \in 1 .. Len(log) : log[i].attestation \in 1 .. FreshId - 1
    /\ \A id : id \in DOMAIN attestations <=> Logged("Registered", id) /\ ~ Logged("Revoked", id)
    /\ \A i, j \in 1 .. Len(log) :
          log[i].attestation = log[j].attestation => log[i].owner = log[j].owner
    /\ \A i \in 1 .. Len(log) : log[i].attestation \in DOMAIN attestations =>
          attestations[log[i].attestation].owner = log[i].owner

(* Only a registration uses up an id.                                     *)
LEMMA FreshAfter ==
    ASSUME log \in Seq(Entry)
    PROVE  /\ FreshId \in Nat \ {0}
           /\ \A e \in Entry : log' = Append(log, e) =>
                FreshId' = IF e.type = "Registered" THEN FreshId + 1 ELSE FreshId
<1> DEFINE R == {i \in DOMAIN log : log[i].type = "Registered"}
<1>1. Len(log) \in Nat /\ DOMAIN log = 1 .. Len(log)
  BY LenProperties
<1>2. IsFiniteSet(R) /\ Cardinality(R) \in Nat
  <2>1. IsFiniteSet(1 .. Len(log))
    BY <1>1, FS_Interval
  <2>2. R \subseteq 1 .. Len(log)
    BY <1>1
  <2>. QED  BY <2>1, <2>2, FS_Subset, FS_CardinalityType
<1>3. ASSUME NEW e \in Entry, log' = Append(log, e)
      PROVE  FreshId' = IF e.type = "Registered" THEN FreshId + 1 ELSE FreshId
  <2> DEFINE Q == {i \in DOMAIN log' : log'[i].type = "Registered"}
  <2>1. /\ DOMAIN log' = 1 .. Len(log) + 1 /\ log'[Len(log) + 1] = e
        /\ \A i \in 1 .. Len(log) : log'[i] = log[i]
    <3>1. /\ log' \in Seq(Entry) /\ Len(log') = Len(log) + 1
          /\ \A i \in 1 .. Len(log) : log'[i] = log[i] /\ log'[Len(log) + 1] = e
          /\ log'[Len(log) + 1] = e
      BY <1>3, AppendProperties
    <3>. QED  BY <3>1, LenProperties
  <2>2. \A i : i \in 1 .. Len(log) + 1 <=> i \in 1 .. Len(log) \/ i = Len(log) + 1
    BY <1>1
  <2>3. CASE e.type = "Registered"
    <3>1. Q = R \union {Len(log) + 1} /\ Len(log) + 1 \notin R
      BY <1>1, <2>1, <2>2, <2>3
    <3>2. Cardinality(Q) = Cardinality(R) + 1
      BY <1>2, <3>1, FS_AddElement
    <3>. QED  BY <1>2, <2>3, <3>2 DEF FreshId
  <2>4. CASE e.type # "Registered"
    <3>1. Q = R
      BY <1>1, <2>1, <2>2, <2>4
    <3>. QED  BY <2>4, <3>1 DEF FreshId
  <2>. QED  BY <2>3, <2>4
<1>. QED  BY <1>2, <1>3 DEF FreshId

(* One more event adds itself to what was logged and nothing else.        *)
LEMMA LoggedAfter ==
    ASSUME log \in Seq(Entry), NEW e \in Entry, log' = Append(log, e)
    PROVE  /\ log' \in Seq(Entry) /\ Len(log') = Len(log) + 1 /\ Len(log) \in Nat
           /\ \A i \in 1 .. Len(log') :
                 \/ i \in 1 .. Len(log) /\ log'[i] = log[i]
                 \/ i = Len(log) + 1 /\ log'[i] = e
           /\ \A type, id : Logged(type, id)' <=>
                 Logged(type, id) \/ (e.type = type /\ e.attestation = id)
<1>1. /\ log' \in Seq(Entry) /\ Len(log') = Len(log) + 1 /\ Len(log) \in Nat
      /\ \A i \in 1 .. Len(log) : log'[i] = log[i]
      /\ log'[Len(log) + 1] = e
  BY AppendProperties, LenProperties
<1>2. \A i : i \in 1 .. Len(log') <=> i \in 1 .. Len(log) \/ i = Len(log) + 1
  BY <1>1
<1>3. \A type, id : Logged(type, id)' <=>
         Logged(type, id) \/ (e.type = type /\ e.attestation = id)
  BY <1>1, <1>2 DEF Logged
<1>. QED  BY <1>1, <1>2, <1>3

(* register, revoke and a transfer of the object keep log and registry in *)
(* agreement: a revocation emits the owner of the object.                 *)
LEMMA RegisterLogged ==
    ASSUME LogInv, NEW sender \in Address, NEW call, call.scheme \in Nat,
           register(sender, call)
    PROVE  LogInv'
<1> DEFINE e == [type |-> "Registered", attestation |-> FreshId, owner |-> sender,
                 scheme |-> call.scheme]
<1>1. FreshId \in Nat \ {0}
  BY FreshAfter DEF LogInv
<1>2. e \in Entry /\ e.type = "Registered" /\ e.attestation = FreshId /\ e.owner = sender
  BY <1>1 DEF Entry
<1>3. log' = Append(log, e)
  BY DEF register
<1> HIDE DEF e
<1>4. FreshId' = FreshId + 1
  BY <1>2, <1>3, FreshAfter DEF LogInv
<1>5. /\ log' \in Seq(Entry) /\ Len(log') = Len(log) + 1 /\ Len(log) \in Nat
      /\ \A i \in 1 .. Len(log') :
            \/ i \in 1 .. Len(log) /\ log'[i] = log[i]
            \/ i = Len(log) + 1 /\ log'[i] = e
      /\ \A type, id : Logged(type, id)' <=>
            Logged(type, id) \/ (e.type = type /\ e.attestation = id)
  BY <1>2, <1>3, LoggedAfter DEF LogInv
<1>6. /\ DOMAIN attestations' = DOMAIN attestations \union {FreshId}
      /\ attestations'[FreshId].owner = sender
      /\ \A id \in DOMAIN attestations : id # FreshId => attestations'[id] = attestations[id]
  BY DEF register, Added, Attested
<1>7. \A i \in 1 .. Len(log) : log[i].attestation # FreshId /\ log[i].attestation \in 1 .. FreshId - 1
  BY <1>1 DEF LogInv
<1>8. \A i \in 1 .. Len(log') : log'[i].attestation \in 1 .. FreshId' - 1
  BY <1>1, <1>2, <1>4, <1>5, <1>7
<1>9. ASSUME NEW id
      PROVE  id \in DOMAIN attestations' <=> Logged("Registered", id)' /\ ~ Logged("Revoked", id)'
  <2>1. ~ Logged("Revoked", FreshId)
    BY <1>7 DEF Logged
  <2>2. id \in DOMAIN attestations <=> Logged("Registered", id) /\ ~ Logged("Revoked", id)
    BY DEF LogInv
  <2>. QED  BY <1>2, <1>5, <1>6, <2>1, <2>2
<1>10. \A i, j \in 1 .. Len(log') :
          log'[i].attestation = log'[j].attestation => log'[i].owner = log'[j].owner
  BY <1>2, <1>5, <1>7 DEF LogInv
<1>11. ASSUME NEW i \in 1 .. Len(log'), log'[i].attestation \in DOMAIN attestations'
       PROVE  attestations'[log'[i].attestation].owner = log'[i].owner
  BY <1>2, <1>5, <1>6, <1>7, <1>11 DEF LogInv
<1>. QED  BY <1>5, <1>8, <1>9, <1>10, <1>11 DEF LogInv

(* revoke deletes the object and tells of it.                             *)
LEMMA RevokeLogged ==
    ASSUME LogInv, NEW sender \in Address, NEW call, Holds(sender, call), revoke(sender, call)
    PROVE  LogInv'
<1> DEFINE e == [type |-> "Revoked", attestation |-> call.id, owner |-> sender]
<1>1. PICK k \in 1 .. Len(log) : log[k].type = "Registered" /\ log[k].attestation = call.id
  BY DEF LogInv, Logged, Holds
<1>2. FreshId \in Nat \ {0} /\ call.id \in 1 .. FreshId - 1
  BY <1>1, FreshAfter DEF LogInv
<1>3. /\ e \in Entry /\ e.type = "Revoked" /\ e.attestation = call.id /\ e.owner = sender
  BY <1>2 DEF Entry
<1>4. log' = Append(log, e)
  BY DEF revoke
<1> HIDE DEF e
<1>5. FreshId' = FreshId
  BY <1>3, <1>4, FreshAfter DEF LogInv
<1>6. /\ log' \in Seq(Entry) /\ Len(log') = Len(log) + 1 /\ Len(log) \in Nat
      /\ \A i \in 1 .. Len(log') :
            \/ i \in 1 .. Len(log) /\ log'[i] = log[i]
            \/ i = Len(log) + 1 /\ log'[i] = e
      /\ \A type, id : Logged(type, id)' <=>
            Logged(type, id) \/ (e.type = type /\ e.attestation = id)
  BY <1>3, <1>4, LoggedAfter DEF LogInv
<1>7. /\ DOMAIN attestations' = DOMAIN attestations \ {call.id}
      /\ \A id \in DOMAIN attestations : id # call.id => attestations'[id] = attestations[id]
  BY DEF revoke, Without
<1>8. \A i \in 1 .. Len(log) : log[i].attestation = call.id => log[i].owner = sender
  BY DEF LogInv, Holds, revoke, RevokeGoes
<1>9. \A i \in 1 .. Len(log') : log'[i].attestation \in 1 .. FreshId' - 1
  BY <1>2, <1>3, <1>5, <1>6 DEF LogInv
<1>10. \A id : id \in DOMAIN attestations' <=>
                   Logged("Registered", id)' /\ ~ Logged("Revoked", id)'
  BY <1>3, <1>6, <1>7 DEF LogInv
<1>11. \A i, j \in 1 .. Len(log') :
          log'[i].attestation = log'[j].attestation => log'[i].owner = log'[j].owner
  <2>1. \A i \in 1 .. Len(log') :
           log'[i] = e \/ \E h \in 1 .. Len(log) : log'[i] = log[h]
    BY <1>6
  <2>2. \A i, j \in 1 .. Len(log) :
           log[i].attestation = log[j].attestation => log[i].owner = log[j].owner
    BY DEF LogInv
  <2>3. ASSUME NEW i \in 1 .. Len(log'), NEW j \in 1 .. Len(log'),
               log'[i].attestation = log'[j].attestation
        PROVE  log'[i].owner = log'[j].owner
    <3>1. CASE log'[i] = e /\ log'[j] = e
      BY <3>1
    <3>2. CASE log'[i] = e /\ \E h \in 1 .. Len(log) : log'[j] = log[h]
      BY <1>3, <1>8, <2>3, <3>2
    <3>3. CASE log'[j] = e /\ \E h \in 1 .. Len(log) : log'[i] = log[h]
      BY <1>3, <1>8, <2>3, <3>3
    <3>4. CASE /\ \E h \in 1 .. Len(log) : log'[i] = log[h]
               /\ \E h \in 1 .. Len(log) : log'[j] = log[h]
      BY <2>2, <2>3, <3>4
    <3>. QED  BY <2>1, <3>1, <3>2, <3>3, <3>4
  <2>. QED  BY <2>3
<1>12. ASSUME NEW i \in 1 .. Len(log'), log'[i].attestation \in DOMAIN attestations'
       PROVE  attestations'[log'[i].attestation].owner = log'[i].owner
  BY <1>3, <1>6, <1>7, <1>12 DEF LogInv
<1>. QED  BY <1>6, <1>9, <1>10, <1>11, <1>12 DEF LogInv

(* A transfer changes the holder alone.                                   *)
LEMMA TransferLogged ==
    ASSUME LogInv, NEW call, call.id \in DOMAIN attestations, transferObject(call),
           NEW c, FromCall(attestations[call.id], c)
    PROVE  LogInv'
<1>1. /\ log' = log /\ DOMAIN attestations' = DOMAIN attestations
      /\ attestations'[call.id].owner = attestations[call.id].owner
      /\ \A id \in DOMAIN attestations : id # call.id => attestations'[id] = attestations[id]
  <2>1. [attestations[call.id] EXCEPT !.holder = call.to].owner = attestations[call.id].owner
    BY DEF FromCall
  <2>. QED  BY <2>1 DEF transferObject
<1>2. FreshId' = FreshId /\ \A type, id : Logged(type, id)' <=> Logged(type, id)
  BY <1>1 DEF FreshId, Logged
<1>. QED  BY <1>1, <1>2 DEF LogInv

-----------------------------------------------------------------------------
(* Who vouched, vouched for the nonce and tag of the library's payload.   *)
VouchInv ==
    \A v \in vouched : v.key \in CoKey /\ v.addr \in Address
                      /\ v.nonce = Bound.nonce /\ v.tag = Bound.tag

(* What the key of v signed.                                              *)
Commitment(v) == sha256(CommitMessage(v.addr, v.nonce, v.tag))

(* What a registration that goes through carries: a payload of a holder     *)
(* who vouched, its nonce and tag perhaps changed, or what the page made.   *)
Carries(c, v) ==
    /\ c.scheme = SCHEME_META[v.key.scheme].byte
    /\ c.public_key = v.key
    /\ c.signature = sign(v.key, Commitment(v))
    /\ c.message_digest = Commitment(v)
    /\ c.nonce \in Seq(Nat) /\ c.app_tag \in Seq(Nat)

(* The table of schemes.ts: a byte of its own for every scheme.           *)
LEMMA SchemeTable ==
    /\ \A s \in SchemeName : SCHEME_META[s].byte \in Nat
    /\ \A s, r \in SchemeName : SCHEME_META[s].byte = SCHEME_META[r].byte => s = r
    /\ ALG \subseteq SchemeName
    /\ LITE \notin SchemeName
BY DEF SchemeName, SCHEME_META, Meta, ALG, LITE

(* The byte of a scheme is read back as its name.                         *)
LEMMA SchemeNames ==
    ASSUME NEW s \in SchemeName
    PROVE  schemeName(SCHEME_META[s].byte) = s
BY SchemeTable DEF schemeName

(* A registration that goes through carries what somebody vouched for, or *)
(* the key of the page.                                                   *)
LEMMA RegistrableShape ==
    ASSUME VouchInv, NEW c \in Registrable
    PROVE  /\ c.fn = "register" /\ c.scheme \in Nat
           /\ RegisterGoes(c) => c.public_key = PageKey \/ \E v \in vouched : Carries(c, v)
<1>1. CASE c \in PageCalls
  <2>1. c.fn = "register" /\ c.public_key = PageKey
        /\ c.scheme = SCHEME_META["SLH_DSA_SHA2_128S"].byte
    <3>1. PICK w \in WalletKey : c = pageRegisterTx(PageKey, OwnAddress(w), Bound.nonce, Bound.tag)
      BY <1>1 DEF PageCalls
    <3> DEFINE d == sha256(<<OwnAddress(w)>> \o Framed(Bound.nonce) \o Framed(Bound.tag))
    <3>2. c = RegisterCall(SCHEME_META["SLH_DSA_SHA2_128S"].byte, PageKey, sign(PageKey, d),
                           d, Bound.nonce, Bound.tag)
      BY <3>1 DEF pageRegisterTx
    <3> HIDE DEF d
    <3>. QED  BY <3>2 DEF RegisterCall
  <2>2. c.scheme \in Nat
    BY <2>1, SchemeTable DEF ALG
  <2>. QED  BY <2>1, <2>2
<1>2. CASE c \in RegisterCalls
  <2>1. PICK v \in vouched : c \in Variants(buildRegisterTx(Payload(v)))
    BY <1>2 DEF RegisterCalls
  <2>2. v.key \in CoKey /\ v.nonce \in Seq(Nat) /\ v.tag \in Seq(Nat)
    BY AccountsAssumption DEF VouchInv
  <2>3. v.key.scheme \in SchemeName
    BY <2>2, AccountsAssumption, SchemeTable
  <2> DEFINE byte == SCHEME_META[v.key.scheme].byte
             sig  == sign(v.key, Commitment(v))
  <2>4. buildRegisterTx(Payload(v)) =
           RegisterCall(byte, v.key, sig, Commitment(v), v.nonce, v.tag)
    BY DEF buildRegisterTx, Payload, buildAttestation, Commitment
  <2>5. byte \in Nat
    BY <2>3, SchemeTable
  <2> HIDE DEF byte, sig
  <2>6. CASE c = buildRegisterTx(Payload(v))
    BY <2>2, <2>4, <2>5, <2>6 DEF RegisterCall, Carries, byte, sig
  <2>7. ASSUME NEW l \in Label,
               c = [buildRegisterTx(Payload(v)) EXCEPT !.nonce = l.nonce, !.app_tag = l.tag]
        PROVE  c.fn = "register" /\ c.scheme \in Nat /\ Carries(c, v)
    <3>1. /\ c.fn = "register" /\ c.scheme = byte /\ c.public_key = v.key
          /\ c.signature = sig /\ c.message_digest = Commitment(v)
          /\ c.nonce = l.nonce /\ c.app_tag = l.tag
      BY <2>4, <2>7 DEF RegisterCall
    <3>2. l.nonce \in Seq(Nat) /\ l.tag \in Seq(Nat)
      BY AccountsAssumption
    <3>. QED  BY <2>5, <3>1, <3>2 DEF Carries, byte, sig
  <2>8. CASE c = [buildRegisterTx(Payload(v)) EXCEPT !.message_digest.bytes = 31]
    <3>1. /\ c.fn = "register" /\ c.scheme = byte /\ c.message_digest.bytes = 31
      BY <2>4, <2>8 DEF RegisterCall, Commitment, sha256, Hash
    <3>. QED  BY <2>5, <3>1 DEF RegisterGoes
  <2>. QED  BY <2>1, <2>6, <2>7, <2>8 DEF Variants
<1>. QED  BY <1>1, <1>2 DEF Registrable

(* Every attestation stores the arguments of a call anyone can make, the  *)
(* owner being the sender.                                                *)
AttInv ==
    \A id \in DOMAIN attestations :
       /\ attestations[id].owner \in Address
       /\ \E c \in Registrable : FromCall(attestations[id], c)

(* When verify answers true.                                              *)
LEMMA VerifyTrue ==
    ASSUME NEW scheme, NEW key, NEW message, NEW sig
    PROVE  verify(scheme, key, message, sig) = "true" <=>
              /\ scheme \in ALG
              /\ key.bytes = SCHEME_META[scheme].publicKeyBytes
              /\ sig.bytes = SCHEME_META[scheme].signatureBytes
              /\ Genuine(scheme, key, message, sig)
BY DEF verify

(* What was vouched for and not changed verifies.                         *)
LEMMA PayloadVerifies ==
    ASSUME VouchInv, NEW v \in vouched
    PROVE  verifyAttestation(Payload(v)) = "true"
<1>1. /\ v.key = Key(v.key.holder, v.key.scheme) /\ v.key.scheme \in ALG
  BY AccountsAssumption DEF VouchInv
<1>2. v.key.scheme \in SchemeName /\ v.key.scheme # LITE
  BY <1>1, SchemeTable
<1>3. /\ v.key.bytes = SCHEME_META[v.key.scheme].publicKeyBytes
      /\ SignatureBytes(v.key.scheme) = SCHEME_META[v.key.scheme].signatureBytes
  BY <1>1, <1>2 DEF Key, PublicKeyBytes, SignatureBytes
<1> DEFINE sig == sign(v.key, Commitment(v))
<1>4. /\ sig.bytes = SCHEME_META[v.key.scheme].signatureBytes
      /\ Genuine(v.key.scheme, v.key, Commitment(v), sig)
  BY <1>3 DEF sign, Genuine
<1> HIDE DEF sig
<1>5. Payload(v) = [scheme |-> v.key.scheme, publicKey |-> v.key, signature |-> sig,
                    messageDigest |-> Commitment(v), suiAddress |-> v.addr,
                    nonce |-> v.nonce, appTag |-> v.tag]
  BY DEF Payload, buildAttestation, Commitment, sig
<1>6. verify(v.key.scheme, v.key, Commitment(v), sig) = "true"
  BY <1>1, <1>3, <1>4, VerifyTrue
<1>7. Commitment(v) = sha256(CommitMessage(v.addr, v.nonce, v.tag))
  BY DEF Commitment
<1> DEFINE p == Payload(v)
<1>8. /\ p.scheme = v.key.scheme /\ p.publicKey = v.key /\ p.signature = sig
      /\ p.messageDigest = Commitment(v) /\ p.suiAddress = v.addr
      /\ p.nonce = v.nonce /\ p.appTag = v.tag
  BY <1>5
<1> HIDE DEF p
<1>9. verifyAttestation(p) = "true"
  BY <1>2, <1>3, <1>4, <1>6, <1>7, <1>8 DEF verifyAttestation
<1>. QED  BY <1>9 DEF p

(* What the scan of the chain accepts is exactly what was vouched for:    *)
(* the commitment is rebuilt from the owner in the object, the nonce and  *)
(* the tag, and it determines them.                                       *)
LEMMA VerifiedByInv ==
    ASSUME VouchInv, AttInv
    PROVE  VerifiedIffVouched
<1> SUFFICES ASSUME NEW att \in Range(attestations)
             PROVE  att \in Verified <=> \E v \in vouched : Scanned(att) = Payload(v)
  BY DEF VerifiedIffVouched
<1>1. att \in Verified <=> verifyAttestation(Scanned(att)) = "true"
  BY DEF Verified
<1>2. ASSUME NEW v \in vouched, Scanned(att) = Payload(v)
      PROVE  att \in Verified
  BY <1>1, <1>2, PayloadVerifies
<1>3. ASSUME verifyAttestation(Scanned(att)) = "true"
      PROVE  \E v \in vouched : Scanned(att) = Payload(v)
  <2>1. PICK id \in DOMAIN attestations : att = attestations[id]
    BY DEF Range
  <2>2. PICK c \in Registrable : FromCall(att, c)
    BY <2>1 DEF AttInv
  <2> DEFINE s == schemeName(att.scheme)
             a == Scanned(att)
  <2>3. /\ a.scheme = s /\ a.publicKey = att.public_key
        /\ a.signature = att.signature /\ a.messageDigest = att.message_digest
        /\ a.suiAddress = att.owner /\ a.nonce = att.nonce /\ a.appTag = att.app_tag
    BY DEF Scanned
  <2> HIDE DEF s, a
  <2>4. verifyAttestation(a) = "true"
    BY <1>3 DEF a
  <2>5. /\ att.message_digest = sha256(CommitMessage(att.owner, att.nonce, att.app_tag))
        /\ verify(s, att.public_key, att.message_digest, att.signature) = "true"
    BY <2>3, <2>4 DEF verifyAttestation
  <2>6. /\ s \in ALG /\ att.public_key.scheme = s
        /\ att.signature.by = att.public_key
        /\ att.signature.on = att.message_digest
    BY <2>5, VerifyTrue DEF Genuine
  <2>7. /\ att.scheme = c.scheme /\ att.public_key = c.public_key
        /\ att.signature = c.signature /\ att.message_digest = c.message_digest
        /\ att.nonce = c.nonce /\ att.app_tag = c.app_tag
    BY <2>2 DEF FromCall
  <2>8. PICK v \in vouched : Carries(c, v)
    BY <2>2, <2>6, <2>7, RegistrableShape, AccountsAssumption, SchemeTable DEF FromCall
  <2>9. /\ v.nonce \in Seq(Nat) /\ v.tag \in Seq(Nat)
    BY AccountsAssumption DEF VouchInv
  <2>10. CommitMessage(v.addr, v.nonce, v.tag) =
            CommitMessage(att.owner, att.nonce, att.app_tag)
    BY <2>5, <2>7, <2>8 DEF Carries, Commitment, sha256, Hash
  <2>11. v.addr = att.owner /\ v.nonce = att.nonce /\ v.tag = att.app_tag
    BY <2>7, <2>8, <2>9, <2>10, CommitInjective DEF Carries
  <2>12. Scanned(att) = [scheme |-> v.key.scheme, publicKey |-> v.key,
            signature |-> sign(v.key, Commitment(v)), messageDigest |-> Commitment(v),
            suiAddress |-> v.addr, nonce |-> v.nonce, appTag |-> v.tag]
    <3>1. s = v.key.scheme
      BY <2>6, <2>7, <2>8 DEF Carries
    <3>. QED  BY <2>7, <2>8, <2>11, <3>1 DEF Scanned, Carries, s
  <2>13. Scanned(att) = Payload(v)
    BY <2>12 DEF Payload, buildAttestation, Commitment
  <2>. QED  BY <2>13
<1>. QED  BY <1>1, <1>2, <1>3
-----------------------------------------------------------------------------
(* Account keys sign; wallets sign transactions only.                     *)
SignedInv ==
    \A s \in signed :
       /\ s.by \in AccountKey
       /\ s.by \in WalletKey => s.intent = TX_INTENT

(* Hashes and addresses are injective, as modelled.                       *)
LEMMA HashInjective ==
    /\ \A m, n : sha256(m) = sha256(n) => m = n
    /\ \A m, n : blake2b(m) = blake2b(n) => m = n
BY DEF sha256, blake2b, Hash

(* Addresses of different schemes or keys differ.                         *)
LEMMA AddressInjective ==
    ASSUME NEW f, NEW g, NEW k, NEW j, AddressOf(f, k) = AddressOf(g, j)
    PROVE  f = g /\ k = j
BY HashInjective DEF AddressOf

(* Native accounts have keys of 32 bytes with signatures of 7856.         *)
LEMMA NativeShape ==
    ASSUME NEW k \in NativeKey
    PROVE  /\ k.scheme = "SLH_DSA_SHA2_128S" /\ k.bytes = 32
           /\ SignatureBytes(k.scheme) = 7856
           /\ k \notin WalletKey
<1>1. k = Key(k.holder, "SLH_DSA_SHA2_128S") /\ k \notin WalletKey
  BY AccountsAssumption
<1>2. SCHEME_META["SLH_DSA_SHA2_128S"] = Meta(32, 32, 7856)
  BY DEF SCHEME_META, Meta
<1>3. k.scheme = "SLH_DSA_SHA2_128S"
  BY <1>1 DEF Key
<1>4. k.bytes = PublicKeyBytes("SLH_DSA_SHA2_128S")
  BY <1>1 DEF Key
<1>5. PublicKeyBytes("SLH_DSA_SHA2_128S") = 32 /\ SignatureBytes("SLH_DSA_SHA2_128S") = 7856
  BY <1>2 DEF PublicKeyBytes, SignatureBytes, LITE, Meta
<1>. QED  BY <1>1, <1>3, <1>4, <1>5

(* A signature names its maker, the scheme's length, and the transaction  *)
(* and intent that it is for.                                             *)
LEMMA SignatureOf ==
    ASSUME SignedInv, NEW s \in signed
    PROVE  /\ BlobOf(s).sig.by = s.by
           /\ s.by \in WalletKey => BlobOf(s).sig = classicalSign(s.by, TxBytes(s.tx))
           /\ s.by \in NativeKey => BlobOf(s).sig.bytes = 7856
           /\ \A tx : BlobOf(s).sig.on = blake2b(TX_INTENT \o TxBytes(tx)) =>
                          s.tx = tx /\ s.intent = TX_INTENT
           /\ s.by \in WalletKey => OwnAddress(s.by) = AddressOf(CLASSICAL_FLAG, s.by)
           /\ s.by \in NativeKey => OwnAddress(s.by) = NativeAddress(s.by)
<1>1. s.by \in NativeKey \/ s.by \in WalletKey
  BY DEF SignedInv, AccountKey
<1>2. CASE s.by \in WalletKey
  <2>1. s.by \notin NativeKey /\ s.intent = TX_INTENT
    BY <1>2, AccountsAssumption DEF SignedInv
  <2>2. BlobOf(s).sig = classicalSign(s.by, TxBytes(s.tx))
    BY <1>2 DEF BlobOf, Blob
  <2>3. ASSUME NEW tx, BlobOf(s).sig.on = blake2b(TX_INTENT \o TxBytes(tx))
        PROVE  s.tx = tx
    <3>1. BlobOf(s).sig.on = blake2b(TX_INTENT \o <<s.tx>>)
      BY <2>2 DEF classicalSign, TxBytes
    <3>2. TX_INTENT \o <<s.tx>> = TX_INTENT \o <<tx>>
      BY <2>3, <3>1, HashInjective DEF TxBytes
    <3>. QED  BY <3>2, IntentInjective
  <2>4. BlobOf(s).sig.by = s.by
    BY <2>2 DEF classicalSign
  <2>. QED  BY <1>2, <2>1, <2>2, <2>3, <2>4 DEF OwnAddress
<1>3. CASE s.by \in NativeKey
  <2>1. s.by \notin WalletKey /\ SignatureBytes(s.by.scheme) = 7856
    BY <1>3, NativeShape
  <2>2. CASE s.intent = TX_INTENT
    <3>1. BlobOf(s).sig = sign(s.by, blake2b(TX_INTENT \o TxBytes(s.tx)))
      BY <2>1, <2>2 DEF BlobOf, signTransaction, blobOverIntent, Blob
    <3>2. ASSUME NEW tx, BlobOf(s).sig.on = blake2b(TX_INTENT \o TxBytes(tx))
          PROVE  s.tx = tx
      <4>1. BlobOf(s).sig.on = blake2b(TX_INTENT \o <<s.tx>>)
        BY <3>1 DEF sign, TxBytes
      <4>2. TX_INTENT \o <<s.tx>> = TX_INTENT \o <<tx>>
        BY <3>2, <4>1, HashInjective DEF TxBytes
      <4>. QED  BY <4>2, IntentInjective
    <3>3. BlobOf(s).sig.by = s.by /\ BlobOf(s).sig.bytes = 7856
      BY <2>1, <3>1 DEF sign
    <3>. QED  BY <1>3, <2>1, <2>2, <3>2, <3>3 DEF OwnAddress
  <2>3. CASE s.intent # TX_INTENT
    <3>1. BlobOf(s).sig = sign(s.by, blake2b(PERSONAL_INTENT \o
                             (<<Len(TxBytes(s.tx))>> \o TxBytes(s.tx))))
      BY <2>1, <2>3 DEF BlobOf, signPersonalMessage, blobOverIntent, Blob
    <3>2. ASSUME NEW tx PROVE BlobOf(s).sig.on # blake2b(TX_INTENT \o TxBytes(tx))
      <4>1. BlobOf(s).sig.on =
               blake2b(PERSONAL_INTENT \o (<<Len(<<s.tx>>)>> \o <<s.tx>>))
        BY <3>1 DEF sign, TxBytes
      <4>2. TX_INTENT \o <<tx>> # PERSONAL_INTENT \o (<<Len(<<s.tx>>)>> \o <<s.tx>>)
        BY IntentsApart
      <4>. QED  BY <4>1, <4>2, HashInjective DEF TxBytes
    <3>3. BlobOf(s).sig.by = s.by /\ BlobOf(s).sig.bytes = 7856
      BY <2>1, <3>1 DEF sign
    <3>. QED  BY <1>3, <2>1, <3>2, <3>3 DEF OwnAddress
  <2>. QED  BY <2>2, <2>3
<1>. QED  BY <1>1, <1>2, <1>3

(* What the page makes has the flag of a native account and the length of *)
(* the LITE scheme.                                                       *)
LEMMA PageSignature ==
    ASSUME NEW tx
    PROVE  /\ PageBlob(tx).flag = FLAG /\ PageBlob(tx).key = PageKey
           /\ PageBlob(tx).sig.by = PageKey /\ PageBlob(tx).sig.bytes = 5056
           /\ PageBlob(tx).total = PageKey.bytes + PageBlob(tx).sig.bytes
BY AccountsAssumption DEF PageBlob, signTxWithSlhDsa, Blob, sign, SignatureBytes, LITE

(* A blob put together from public parts has the length of its parts and  *)
(* a signature that somebody made.                                        *)
LEMMA BlobShape ==
    ASSUME SignedInv, NEW blob \in Blobs
    PROVE  /\ blob.total = blob.key.bytes + blob.sig.bytes
           /\ blob.flag \in {CLASSICAL_FLAG, FLAG}
           /\ \/ \E s \in signed : blob.sig = BlobOf(s).sig
              \/ blob.sig.by = PageKey /\ blob.sig.bytes = 5056
<1>1. CASE blob \in {Blob(f, k, BlobOf(s).sig) :
                      f \in {CLASSICAL_FLAG, FLAG}, k \in AccountKey, s \in signed}
  <2>1. PICK f \in {CLASSICAL_FLAG, FLAG}, k \in AccountKey, s \in signed :
           blob = Blob(f, k, BlobOf(s).sig)
    BY <1>1
  <2>2. /\ blob.flag = f /\ blob.key = k /\ blob.sig = BlobOf(s).sig
        /\ blob.total = k.bytes + BlobOf(s).sig.bytes
    BY <2>1 DEF Blob
  <2>. QED  BY <2>2
<1>2. ASSUME NEW tx, blob = PageBlob(tx) \/ blob \in signAndExecuteSlhDsa(PageKey, TxBytes(tx))
      PROVE  blob.sig.by = PageKey /\ blob.sig.bytes = 5056 /\ blob.flag = FLAG
             /\ blob.total = blob.key.bytes + blob.sig.bytes
  <2>1. blob = PageBlob(tx)
    BY <1>2 DEF PageBlob, signAndExecuteSlhDsa
  <2>. QED  BY <2>1, PageSignature
<1>. QED  BY <1>1, <1>2 DEF Blobs

(* The check before sending and the one of the validator accept the same  *)
(* blobs, and these are signed by the key of the sender for this          *)
(* transaction under its intent.                                          *)
LEMMA PreflightByInv ==
    ASSUME SignedInv
    PROVE  PreflightAgrees
<1> SUFFICES ASSUME NEW tx \in AnyTx, NEW blob \in Blobs, NEW a \in {tx.sender, tx.payer}
             PROVE  /\ blob.flag = FLAG =>
                          (Admits(a, TxBytes(tx), blob) <=>
                              verifyTxSig(TxBytes(tx), blob) /\ a = NativeAddress(blob.key))
                    /\ Admits(a, TxBytes(tx), blob) =>
                          \E s \in signed : /\ s.tx = tx /\ s.intent = TX_INTENT
                                            /\ OwnAddress(s.by) = a
                    /\ verifyTxSlhDsaSig(TxBytes(tx), blob) => ~ Admits(a, TxBytes(tx), blob)
  BY DEF PreflightAgrees
<1> DEFINE bytes  == TxBytes(tx)
           digest == blake2b(TX_INTENT \o bytes)
           admitted == Admits(a, bytes, blob)
<1>1. /\ SCHEME_META["SLH_DSA_SHA2_128S"].publicKeyBytes = 32
      /\ SCHEME_META["SLH_DSA_SHA2_128S"].signatureBytes = 7856
      /\ "SLH_DSA_SHA2_128S" \in ALG
  BY DEF SCHEME_META, Meta, ALG
<1>2. FLAG # CLASSICAL_FLAG
  BY DEF FLAG, CLASSICAL_FLAG
<1>3. SlhDsaVerify(blob.key, digest, blob.sig) <=>
         verify("SLH_DSA_SHA2_128S", blob.key, digest, blob.sig) = "true"
  BY <1>1, VerifyTrue DEF SlhDsaVerify
<1>4. SlhDsaVerify(blob.key, digest, blob.sig) => blob.total = 32 + 7856
  BY BlobShape DEF SlhDsaVerify
<1>5. blob.flag = FLAG =>
         (admitted <=> /\ SlhDsaVerify(blob.key, digest, blob.sig)
                       /\ a = NativeAddress(blob.key))
  BY <1>2, <1>4 DEF Admits, verify_claims, Parses, NativeAddress
<1>6. blob.flag = FLAG =>
         (admitted <=> verifyTxSig(bytes, blob) /\ a = NativeAddress(blob.key))
  BY <1>3, <1>5 DEF verifyTxSig
<1>7. ASSUME admitted
      PROVE  \E s \in signed : /\ s.tx = tx /\ s.intent = TX_INTENT
                               /\ OwnAddress(s.by) = a
  <2>1. CASE blob.flag = FLAG
    <3>1. /\ SlhDsaVerify(blob.key, digest, blob.sig) /\ a = NativeAddress(blob.key)
      BY <1>5, <1>7, <2>1
    <3>2. /\ blob.sig.bytes = 7856 /\ blob.sig.by = blob.key /\ blob.sig.on = digest
      BY <3>1 DEF SlhDsaVerify, Genuine
    <3>3. PICK s \in signed : blob.sig = BlobOf(s).sig
      BY <3>2, BlobShape
    <3>4. s.by \notin WalletKey
      <4>1. classicalSign(s.by, TxBytes(s.tx)).bytes = 64
        BY DEF classicalSign
      <4>. QED  BY <3>2, <3>3, <4>1, SignatureOf
    <3>5. s.by \in NativeKey
      BY <3>4 DEF SignedInv, AccountKey
    <3>. QED  BY <3>1, <3>2, <3>3, <3>5, SignatureOf
  <2>2. CASE blob.flag # FLAG
    <3>1. /\ a = AddressOf(CLASSICAL_FLAG, blob.key)
          /\ blob.sig = classicalSign(blob.key, bytes)
      BY <1>7, <2>2 DEF Admits, Parses
    <3>2. blob.sig.bytes = 64 /\ blob.sig.by = blob.key /\ blob.sig.on = digest
      BY <3>1 DEF classicalSign
    <3>3. PICK s \in signed : blob.sig = BlobOf(s).sig
      BY <3>2, BlobShape
    <3>4. s.by \notin NativeKey
      BY <3>2, <3>3, SignatureOf
    <3>5. s.by \in WalletKey
      BY <3>4 DEF SignedInv, AccountKey
    <3>. QED  BY <3>1, <3>2, <3>3, <3>5, SignatureOf
  <2>. QED  BY <2>1, <2>2
<1>8. verifyTxSlhDsaSig(bytes, blob) => ~ admitted
  BY <1>2, <1>4, <1>5 DEF verifyTxSlhDsaSig
<1>. QED  BY <1>6, <1>7, <1>8

(* Co-signed envelopes hold the signature of the key they name.           *)
CoSignInv ==
    \A c \in cosigned : c.pqSignature = sign(c.pqPublicKey, sha256(c.txBytes))

(* A PQ signature that verifies under a key was made by its holder for    *)
(* these bytes.                                                           *)
LEMMA CoSignedByKey ==
    ASSUME CoSignInv, NEW c \in cosigned, NEW scheme, NEW key, NEW bytes,
           verify(scheme, key, sha256(bytes), c.pqSignature) = "true"
    PROVE  CoSignedBytes(key, bytes)
<1>1. c.pqSignature.by = key /\ c.pqSignature.on = sha256(bytes)
  BY VerifyTrue DEF Genuine
<1>2. c.pqSignature = sign(c.pqPublicKey, sha256(c.txBytes))
  BY DEF CoSignInv
<1>3. c.pqPublicKey = key /\ sha256(c.txBytes) = sha256(bytes)
  BY <1>1, <1>2 DEF sign
<1>. QED  BY <1>3, HashInjective DEF CoSignedBytes

(* An envelope that passes carries bytes its key co-signed, whoever put   *)
(* it together.                                                           *)
LEMMA CoSignedByInv ==
    ASSUME SignedInv, CoSignInv, VerifiedIffVouched
    PROVE  CoSigned
<1>1. ASSUME NEW h \in Hybrids, NEW a \in Address, hybridOk(h, a)
      PROVE  /\ \E s \in signed : /\ OwnAddress(s.by) = a /\ TxBytes(s.tx) = h.txBytes
                                   /\ s.intent = TX_INTENT
             /\ CoSignedBytes(h.pqPublicKey, h.txBytes)
  <2>1. PICK s \in signed : s.by \in WalletKey /\ h.classicalSignature = BlobOf(s).sig
    BY DEF Hybrids
  <2>2. PICK c \in cosigned : h.pqSignature = c.pqSignature
    BY DEF Hybrids
  <2>3. PICK tx : h.txBytes = TxBytes(tx)
    BY DEF Hybrids, AnyBytes
  <2>4. /\ h.classicalSignature.on = blake2b(TX_INTENT \o TxBytes(tx))
        /\ AddressOf(CLASSICAL_FLAG, h.classicalSignature.by) = a
        /\ verify(h.scheme, h.pqPublicKey, sha256(h.txBytes), h.pqSignature) = "true"
    BY <1>1, <2>3 DEF hybridOk, ClassicalOk
  <2>5. CoSignedBytes(h.pqPublicKey, h.txBytes)
    BY <2>2, <2>4, CoSignedByKey
  <2>. QED  BY <2>1, <2>3, <2>4, <2>5, SignatureOf
<1>2. ASSUME NEW w \in Wraps, NEW b \in Bindings, wrappedOk(w, b)
      PROVE  /\ \E v \in vouched : v.key = w.pqPublicKey /\ v.addr = w.zkLoginAddress
             /\ CoSignedBytes(w.pqPublicKey, w.txBytes)
  <2>1. PICK c \in cosigned : w.pqSignature = c.pqSignature
    BY DEF Wraps
  <2>2. /\ b.zkLoginAddress = w.zkLoginAddress /\ b.pqPublicKey = w.pqPublicKey
        /\ verify(w.scheme, w.pqPublicKey, sha256(w.txBytes), w.pqSignature) = "true"
    BY <1>2 DEF wrappedOk, Pinned
  <2>3. PICK att \in Verified :
           b = Binding(att.owner, schemeName(att.scheme), att.public_key, att)
    BY DEF Bindings
  <2>4. b.zkLoginAddress = att.owner /\ b.pqPublicKey = att.public_key
    BY <2>3 DEF Binding
  <2>5. PICK v \in vouched : Scanned(att) = Payload(v)
    BY DEF VerifiedIffVouched, Verified
  <2>6. Scanned(att).publicKey = att.public_key /\ Scanned(att).suiAddress = att.owner
    BY DEF Scanned
  <2>7. Payload(v).publicKey = v.key /\ Payload(v).suiAddress = v.addr
    BY DEF Payload, buildAttestation
  <2>8. v.key = w.pqPublicKey /\ v.addr = w.zkLoginAddress
    BY <2>2, <2>4, <2>5, <2>6, <2>7
  <2>. QED  BY <2>1, <2>2, <2>8, CoSignedByKey
<1>. QED  BY <1>1, <1>2 DEF CoSigned

-----------------------------------------------------------------------------
(* A key server answers by the events its node has executed.              *)
ViewInv ==
    /\ view \in [Server -> [lists : Seq(ListType), seen : Nat]]
    /\ \A s \in Server : view[s].seen <= Len(changes)
    /\ \A s \in Server, id, n \in Nat, m \in Address :
          sealApprovePasses(s, id, n, m) <=> ListedIn(changes, view[s].seen, n, m)

(* Events a node has not executed do not change its answers.              *)
LEMMA ViewKept ==
    ASSUME ListInv, ViewInv, Grows, view' = view
    PROVE  ViewInv'
<1>1. Len(changes) \in Nat /\ changes \in Seq(Change)
  BY LenProperties DEF ListInv
<1>2. CASE changes' = changes
  BY <1>2 DEF ViewInv, sealApprovePasses
<1>3. ASSUME NEW e \in Change, changes' = Append(changes, e)
      PROVE  ViewInv'
  <2>1. Len(changes') = Len(changes) + 1
    BY <1>1, <1>3, AppendProperties
  <2>2. \A s \in Server : view[s].seen \in 0 .. Len(changes)
    BY <1>1 DEF ViewInv
  <2>3. \A s \in Server : view'[s].seen <= Len(changes')
    BY <1>1, <2>1, <2>2
  <2>4. ASSUME NEW s \in Server, NEW id \in Nat, NEW n \in Nat,
               NEW m \in Address
        PROVE  sealApprovePasses(s, id, n, m)' <=> ListedIn(changes', view'[s].seen, n, m)
    <3>1. sealApprovePasses(s, id, n, m)' <=> sealApprovePasses(s, id, n, m)
      BY DEF sealApprovePasses
    <3>2. ListedIn(changes', view[s].seen, n, m) <=> ListedIn(changes, view[s].seen, n, m)
      BY <1>1, <1>3, <2>2, ListedAppend
    <3>. QED  BY <3>1, <3>2 DEF ViewInv
  <2>. QED  BY <2>3, <2>4 DEF ViewInv
<1>. QED  BY <1>2, <1>3 DEF Grows

(* A node that catches up answers by all events.                          *)
LEMMA CatchUpKeeps ==
    ASSUME ListInv, ViewInv, NEW s \in Server, CatchUp(s)
    PROVE  ViewInv'
<1> DEFINE new == [lists |-> lists, seen |-> Len(changes)]
<1>1. Len(changes) \in Nat /\ Len(lists) \in Nat /\ DOMAIN lists = 1 .. Len(lists)
  BY LenProperties DEF ListInv
<1>2. new \in [lists : Seq(ListType), seen : Nat] /\ new.lists = lists /\ new.seen = Len(changes)
  BY <1>1 DEF ListInv
<1> HIDE DEF new
<1>3. view' = [view EXCEPT ![s] = new] /\ lists' = lists /\ changes' = changes
  BY DEF CatchUp, new
<1>4. /\ view' \in [Server -> [lists : Seq(ListType), seen : Nat]]
      /\ view'[s] = new /\ \A r \in Server : r # s => view'[r] = view[r]
  BY <1>2, <1>3 DEF ViewInv
<1>5. \A r \in Server : view'[r].seen <= Len(changes')
  BY <1>1, <1>2, <1>3, <1>4 DEF ViewInv
<1>6. ASSUME NEW r \in Server, NEW id \in Nat, NEW n \in Nat,
             NEW m \in Address
      PROVE  sealApprovePasses(r, id, n, m)' <=> ListedIn(changes', view'[r].seen, n, m)
  <2>1. CASE r # s
    BY <1>3, <1>4, <2>1 DEF ViewInv, sealApprovePasses
  <2>2. CASE r = s /\ n \in 1 .. Len(lists)
    <3>1. sealApprovePasses(r, id, n, m)' <=> Contains(lists[n].members, m)
      BY <1>1, <1>2, <1>4, <2>2 DEF sealApprovePasses, seal_approve
    <3>. QED  BY <1>2, <1>3, <1>4, <2>2, <3>1 DEF ListInv
  <2>3. CASE r = s /\ n \notin 1 .. Len(lists)
    <3>1. ~ sealApprovePasses(r, id, n, m)'
      BY <1>1, <1>2, <1>4, <2>3 DEF sealApprovePasses
    <3>2. ~ ListedIn(changes, Len(changes), n, m)
      BY <2>3 DEF ListedIn, ListInv
    <3>. QED  BY <1>2, <1>3, <1>4, <2>3, <3>1, <3>2
  <2>. QED  BY <2>1, <2>2, <2>3
<1>. QED  BY <1>4, <1>5, <1>6 DEF ViewInv
-----------------------------------------------------------------------------
(* A signed transaction calls what can be called; the list it names       *)
(* exists, and lists are never deleted.                                   *)
CallInv(c) ==
    /\ c.fn = "register" => c \in Registrable
    /\ c.fn \in {"add", "remove"} => c.list \in 1 .. Len(lists) /\ c.member \in Address

(* What is signed has a sender, a payer and a call.                       *)
TxInv == \A s \in signed : /\ s.tx.sender \in Address /\ s.tx.payer \in Address
                           /\ CallInv(s.tx.call)

(* Gas coins have versions.                                               *)
GasInv == gas \in [Address -> Nat]

(* The inductive invariant. The properties alone are not inductive: that  *)
(* an attestation verifies says nothing of the next registration unless   *)
(* every call anyone can make is accounted for, and that a server agrees  *)
(* with the events it has seen needs the list and all events to agree at  *)
(* any time.                                                              *)
AccountsInv ==
    /\ SignedInv /\ TxInv /\ GasInv
    /\ VouchInv /\ CoSignInv
    /\ LogInv /\ AttInv
    /\ ListInv /\ ViewInv

(* The invariant holds before anything happened.                          *)
LEMMA AccountsInitial == Init => AccountsInv
<1> SUFFICES ASSUME Init PROVE AccountsInv
  OBVIOUS
<1> USE DEF Init, RegistryInit, AllowlistInit
<1>1. SignedInv /\ TxInv /\ GasInv /\ VouchInv /\ CoSignInv /\ AttInv
  BY DEF SignedInv, TxInv, GasInv, VouchInv, CoSignInv, AttInv
<1>2. LogInv
  <2>1. log \in Seq(Entry) /\ Len(log) = 0
    OBVIOUS
  <2>. QED  BY <2>1 DEF LogInv, Logged
<1>3. ListInv
  <2>1. lists \in Seq(ListType) /\ Len(lists) = 0 /\ changes \in Seq(Change) /\ Len(changes) = 0
    OBVIOUS
  <2>. QED  BY <2>1 DEF ListInv
<1>4. ViewInv
  <2>1. <<>> \in Seq(ListType) /\ Len(<<>>) = 0 /\ DOMAIN <<>> = {}
    OBVIOUS
  <2>. QED  BY <2>1 DEF ViewInv, sealApprovePasses, ListedIn
<1>. QED  BY <1>1, <1>2, <1>3, <1>4 DEF AccountsInv

(* Who vouches adds to the calls that can be made.                        *)
LEMMA RegistrableGrows ==
    ASSUME vouched \subseteq vouched'
    PROVE  Registrable \subseteq Registrable'
BY DEF Registrable, RegisterCalls, PageCalls

(* The calls a key may sign are calls that can be made.                   *)
LEMMA CallsTyped ==
    ASSUME NEW key \in AccountKey, NEW call \in Calls(key), ListInv, VouchInv
    PROVE  CallInv(call)
<1>1. DOMAIN lists = 1 .. Len(lists)
  BY LenProperties DEF ListInv
<1>2. CASE call \in Registrable
  BY <1>2, RegistrableShape DEF CallInv
<1>4. CASE call \in HeldCalls(OwnAddress(key))
  BY <1>4 DEF HeldCalls, CallInv
<1>5. CASE call \in ListCalls
  <2>1. CASE call.fn = "create"
    BY <2>1 DEF CallInv
  <2>2. CASE \E f \in {"add", "remove"}, n \in DOMAIN lists, a \in Address :
                call = [fn |-> f, list |-> n, member |-> a]
    BY <1>1, <2>2 DEF CallInv
  <2>. QED  BY <1>5, <2>1, <2>2 DEF ListCalls
<1>. QED  BY <1>2, <1>4, <1>5 DEF Calls, Registrable

(* A step that only signs, vouches or co-signs leaves the chain alone.    *)
LEMMA SigningKeeps ==
    ASSUME AccountsInv, Keep, vouched \subseteq vouched', SignedInv', VouchInv', CoSignInv',
           \A s \in signed' : \/ s.tx \in Txs
                             \/ /\ s.tx.sender \in Address /\ s.tx.payer \in Address
                                /\ CallInv(s.tx.call)
    PROVE  AccountsInv'
<1>1. /\ attestations' = attestations /\ log' = log /\ changes' = changes
      /\ lists' = lists /\ view' = view /\ gas' = gas
  BY DEF Keep
<1>2. LogInv' /\ ListInv' /\ ViewInv' /\ GasInv'
  <2>1. LogInv'
    <3>1. FreshId' = FreshId /\ \A type, id : Logged(type, id)' <=> Logged(type, id)
      BY <1>1 DEF FreshId, Logged
    <3>. QED  BY <1>1, <3>1 DEF AccountsInv, LogInv
  <2>2. ListInv'
    BY <1>1 DEF AccountsInv, ListInv
  <2>3. ViewInv'
    BY <1>1 DEF AccountsInv, ViewInv, sealApprovePasses
  <2>. QED  BY <1>1, <2>1, <2>2, <2>3 DEF AccountsInv, GasInv
<1>3. Registrable \subseteq Registrable'
  BY RegistrableGrows
<1>4. AttInv'
  BY <1>1, <1>3 DEF AccountsInv, AttInv
<1>5. TxInv'
  <2>1. \A c : CallInv(c) => CallInv(c)'
    BY <1>1, <1>3 DEF CallInv
  <2>2. \A tx \in Txs : /\ tx.sender \in Address /\ tx.payer \in Address
                       /\ CallInv(tx.call)
    BY DEF AccountsInv, TxInv, Txs
  <2>. QED  BY <2>1, <2>2 DEF TxInv
<1>. QED  BY <1>2, <1>4, <1>5 DEF AccountsInv

(* The address of an account key is an address.                           *)
LEMMA AddressOwned ==
    ASSUME NEW key \in AccountKey
    PROVE  OwnAddress(key) \in Address
BY DEF Address

(* Signing, vouching and co-signing keep the invariant.                   *)
LEMMA SigningStep ==
    ASSUME AccountsInv, Signing
    PROVE  AccountsInv'
<1>1. SignedInv /\ TxInv /\ VouchInv /\ CoSignInv /\ ListInv
  BY DEF AccountsInv
<1>2. TX_INTENT # PERSONAL_INTENT
  BY DEF TX_INTENT, PERSONAL_INTENT
<1>3. ASSUME NEW key \in AccountKey, SignOwn(key)
      PROVE  AccountsInv'
  <2>a. PICK call \in Calls(key) : \E payer \in Payers(OwnAddress(key), call) :
           Signs([by |-> key, intent |-> TX_INTENT,
                  tx |-> [sender |-> OwnAddress(key), payer |-> payer,
                          gas |-> gas[payer], call |-> call]])
    BY <1>3 DEF SignOwn
  <2>1. PICK payer \in Payers(OwnAddress(key), call) :
           Signs([by |-> key, intent |-> TX_INTENT,
                  tx |-> [sender |-> OwnAddress(key), payer |-> payer,
                          gas |-> gas[payer], call |-> call]])
    BY <2>a
  <2> DEFINE tx == [sender |-> OwnAddress(key), payer |-> payer,
                    gas |-> gas[payer], call |-> call]
             s == [by |-> key, intent |-> TX_INTENT, tx |-> tx]
  <2>2. OwnAddress(key) \in Address /\ payer \in Address
    BY AddressOwned DEF Payers
  <2>3. CallInv(call)
    BY <1>1, CallsTyped
  <2>4. /\ s.by = key /\ s.intent = TX_INTENT /\ s.tx.sender = OwnAddress(key)
        /\ s.tx.payer = payer /\ s.tx.call = call
    OBVIOUS
  <2> HIDE DEF tx, s
  <2>5. signed' = signed \union {s} /\ vouched' = vouched /\ cosigned' = cosigned /\ Keep
    BY <1>3, <2>1 DEF SignOwn, Signs, s, tx
  <2>6. SignedInv' /\ VouchInv' /\ CoSignInv'
    BY <1>1, <2>4, <2>5 DEF SignedInv, VouchInv, CoSignInv
  <2>. QED  BY <2>2, <2>3, <2>4, <2>5, <2>6, SigningKeeps DEF Txs
<1>4. ASSUME NEW key \in AccountKey, NEW tx \in Txs, NEW intent \in {TX_INTENT, PERSONAL_INTENT},
             key \in WalletKey => intent = TX_INTENT,
             Signs([by |-> key, intent |-> intent, tx |-> tx]), vouched' = vouched, Keep, CoSignInv'
      PROVE  AccountsInv'
  <2> DEFINE s == [by |-> key, intent |-> intent, tx |-> tx]
  <2>1. s.by = key /\ s.intent = intent /\ s.tx = tx
    OBVIOUS
  <2>2. signed' = signed \union {s}
    BY <1>4 DEF Signs
  <2> HIDE DEF s
  <2>3. SignedInv' /\ VouchInv'
    BY <1>1, <1>4, <2>1, <2>2 DEF SignedInv, VouchInv
  <2>. QED  BY <1>4, <2>1, <2>2, <2>3, SigningKeeps DEF Txs
<1>5. ASSUME NEW key \in AccountKey, SignOthers(key)
      PROVE  AccountsInv'
  BY <1>1, <1>4, <1>5 DEF SignOthers, CoSignInv
<1>6. ASSUME NEW key \in AccountKey, SignPersonal(key)
      PROVE  AccountsInv'
  BY <1>1, <1>4, <1>6, AccountsAssumption DEF SignPersonal, CoSignInv
<1>7. ASSUME NEW key \in CoKey, Vouch(key)
      PROVE  AccountsInv'
  <2>1. PICK addr \in Address :
           vouched' = vouched \union
              {[key |-> key, addr |-> addr, nonce |-> Bound.nonce, tag |-> Bound.tag]}
    BY <1>7 DEF Vouch
  <2>2. VouchInv'
    BY <1>1, <2>1 DEF VouchInv
  <2>3. signed' = signed /\ cosigned' = cosigned /\ Keep
    BY <1>7 DEF Vouch
  <2>4. SignedInv' /\ CoSignInv'
    BY <1>1, <2>3 DEF SignedInv, CoSignInv
  <2>. QED  BY <2>1, <2>2, <2>3, <2>4, SigningKeeps DEF Txs
<1>8. ASSUME NEW key \in CoKey, CoSignZkLogin(key)
      PROVE  AccountsInv'
  <2>1. PICK tx \in Txs, addr \in Address :
           cosigned' = cosigned \union {pqWrapZkLoginTx(key, addr, TxBytes(tx))}
    BY <1>8 DEF CoSignZkLogin
  <2>2. CoSignInv'
    BY <1>1, <2>1 DEF CoSignInv, pqWrapZkLoginTx
  <2>3. signed' = signed /\ vouched' = vouched /\ Keep
    BY <1>8 DEF CoSignZkLogin
  <2>4. SignedInv' /\ VouchInv'
    BY <1>1, <2>3 DEF SignedInv, VouchInv
  <2>. QED  BY <2>2, <2>3, <2>4, SigningKeeps DEF Txs
<1>9. ASSUME NEW wallet \in WalletKey, NEW key \in CoKey, CoSignHybrid(wallet, key)
      PROVE  AccountsInv'
  <2>1. PICK tx \in Txs :
           /\ Signs([by |-> wallet, intent |-> TX_INTENT, tx |-> tx])
           /\ cosigned' = cosigned \union {hybridSign(wallet, key, TxBytes(tx))}
    BY <1>9 DEF CoSignHybrid
  <2>2. CoSignInv'
    BY <1>1, <2>1 DEF CoSignInv, hybridSign
  <2>3. vouched' = vouched /\ Keep /\ wallet \in AccountKey
    BY <1>9 DEF CoSignHybrid, AccountKey
  <2>. QED  BY <1>4, <2>1, <2>2, <2>3
<1>. QED  BY <1>3, <1>5, <1>6, <1>7, <1>8, <1>9 DEF Signing

(* A step that executes a transaction leaves what is public alone.        *)
LEMMA ExecutionKeeps ==
    ASSUME AccountsInv, NEW tx \in Txs, Pays(tx), UNCHANGED <<signed, vouched, cosigned>>,
           LogInv', AttInv', ListInv', ViewInv', Len(lists) <= Len(lists')
    PROVE  AccountsInv'
<1>1. tx.payer \in Address /\ gas \in [Address -> Nat]
  BY DEF AccountsInv, TxInv, Txs, GasInv
<1>2. GasInv'
  BY <1>1 DEF Pays, GasInv
<1>3. Len(lists) \in Nat /\ Len(lists') \in Nat
  BY LenProperties DEF AccountsInv, ListInv
<1>4. Registrable \subseteq Registrable'
  BY RegistrableGrows
<1>5. \A c : CallInv(c) => CallInv(c)'
  BY <1>3, <1>4 DEF CallInv
<1>6. SignedInv' /\ TxInv' /\ VouchInv' /\ CoSignInv'
  BY <1>5 DEF AccountsInv, SignedInv, TxInv, VouchInv, CoSignInv
<1>. QED  BY <1>2, <1>6 DEF AccountsInv

(* Lists and servers do not depend on the registry, nor it on them.       *)
LEMMA ListsUntouched ==
    ASSUME ListInv, ViewInv, UNCHANGED <<changes, lists, view>>
    PROVE  ListInv' /\ ViewInv' /\ Len(lists) <= Len(lists')
<1>1. Len(lists) \in Nat
  BY LenProperties DEF ListInv
<1>. QED  BY <1>1 DEF ListInv, ViewInv, sealApprovePasses

(* A step that leaves the registry alone keeps what is said of it.        *)
LEMMA RegistryUntouched ==
    ASSUME LogInv, AttInv, UNCHANGED <<attestations, log, vouched>>
    PROVE  LogInv' /\ AttInv'
<1>1. FreshId' = FreshId /\ \A type, id : Logged(type, id)' <=> Logged(type, id)
  BY DEF FreshId, Logged
<1>2. LogInv'
  BY <1>1 DEF LogInv
<1>3. AttInv'
  BY RegistrableGrows DEF AttInv
<1>. QED  BY <1>2, <1>3

(* register, revoke and transfers keep the invariant.                     *)
LEMMA RegistryStep ==
    ASSUME AccountsInv, NEW tx \in Txs, OnRegistry(tx)
    PROVE  AccountsInv'
<1>1. LogInv /\ AttInv /\ ListInv /\ ViewInv /\ VouchInv
  BY DEF AccountsInv
<1>2. tx.sender \in Address /\ CallInv(tx.call)
  BY DEF AccountsInv, TxInv, Txs
<1>3. UNCHANGED <<signed, vouched, cosigned>> /\ Pays(tx) /\ UNCHANGED <<changes, lists, view>>
  BY DEF OnRegistry, Executes
<1>4. Registrable \subseteq Registrable'
  BY <1>3, RegistrableGrows
<1>5. CASE tx.call.fn = "register" /\ register(tx.sender, tx.call)
  <2>1. tx.call \in Registrable /\ tx.call.scheme \in Nat
    BY <1>1, <1>2, <1>5, RegistrableShape DEF CallInv
  <2>2. LogInv'
    BY <1>1, <1>2, <1>5, <2>1, RegisterLogged
  <2>3. FromCall(Attested(tx.sender, tx.call), tx.call) /\ Attested(tx.sender, tx.call).owner = tx.sender
    BY <1>5 DEF register, Attested, FromCall
  <2>4. AttInv'
    <3> DEFINE new == Attested(tx.sender, tx.call)
    <3> HIDE DEF new
    <3>1. \A id \in DOMAIN attestations' :
             \/ attestations'[id] = new
             \/ id \in DOMAIN attestations /\ attestations'[id] = attestations[id]
      BY <1>5 DEF register, Added, new
    <3>2. FromCall(new, tx.call) /\ new.owner \in Address
      BY <1>2, <2>3 DEF new
    <3>. QED  BY <1>1, <1>4, <2>1, <3>1, <3>2 DEF AttInv
  <2>. QED  BY <1>1, <1>3, <2>2, <2>4, ListsUntouched, ExecutionKeeps
<1>6. CASE Holds(tx.sender, tx.call) /\ revoke(tx.sender, tx.call)
  <2>1. LogInv'
    BY <1>1, <1>2, <1>6, RevokeLogged
  <2>2. \A id \in DOMAIN attestations' :
           id \in DOMAIN attestations /\ attestations'[id] = attestations[id]
    BY <1>6 DEF revoke, Without
  <2>3. AttInv'
    BY <1>1, <1>4, <2>2 DEF AttInv
  <2>. QED  BY <1>1, <1>3, <2>1, <2>3, ListsUntouched, ExecutionKeeps
<1>7. CASE Holds(tx.sender, tx.call) /\ transferObject(tx.call)
  <2> DEFINE id == tx.call.id
             old == attestations[id]
             new == [old EXCEPT !.holder = tx.call.to]
  <2>1. id \in DOMAIN attestations
    BY <1>7 DEF Holds
  <2>2. PICK c \in Registrable : FromCall(old, c)
    BY <1>1, <2>1 DEF AttInv
  <2>3. LogInv'
    BY <1>1, <1>7, <2>1, <2>2, TransferLogged
  <2>4. /\ old.owner \in Address
        /\ RegisterGoes(c)
        /\ old = [owner |-> old.owner, holder |-> old.holder, scheme |-> c.scheme,
                  public_key |-> c.public_key, signature |-> c.signature,
                  message_digest |-> c.message_digest, nonce |-> c.nonce, app_tag |-> c.app_tag]
    BY <1>1, <2>1, <2>2 DEF AttInv, FromCall
  <2>5. /\ DOMAIN attestations' = DOMAIN attestations
        /\ attestations'[id] = new
        /\ \A i \in DOMAIN attestations : i # id => attestations'[i] = attestations[i]
    BY <1>7, <2>1 DEF transferObject
  <2>6. new = [owner |-> old.owner, holder |-> tx.call.to, scheme |-> c.scheme,
               public_key |-> c.public_key, signature |-> c.signature,
               message_digest |-> c.message_digest, nonce |-> c.nonce, app_tag |-> c.app_tag]
    BY <2>4
  <2>7. FromCall(new, c) /\ new.owner \in Address
    BY <2>4, <2>6 DEF FromCall
  <2> HIDE DEF id, old, new
  <2>8. AttInv'
    BY <1>1, <1>4, <2>5, <2>7 DEF AttInv
  <2>. QED  BY <1>1, <1>3, <2>3, <2>8, ListsUntouched, ExecutionKeeps
<1>. QED  BY <1>5, <1>6, <1>7 DEF OnRegistry, Executes

(* create, add and remove keep the invariant.                             *)
LEMMA AllowlistStep ==
    ASSUME AccountsInv, NEW tx \in Txs, OnAllowlist(tx)
    PROVE  AccountsInv'
<1>1. LogInv /\ AttInv /\ ListInv /\ ViewInv
  BY DEF AccountsInv
<1>2. tx.sender \in Address /\ CallInv(tx.call)
  BY DEF AccountsInv, TxInv, Txs
<1>3. /\ UNCHANGED <<signed, vouched, cosigned>> /\ Pays(tx)
      /\ UNCHANGED <<attestations, log, view>>
  BY DEF OnAllowlist, Executes
<1>4. LogInv' /\ AttInv'
  BY <1>1, <1>3, RegistryUntouched
<1>5. Len(lists) \in Nat
  BY <1>1, LenProperties DEF ListInv
<1>6. ListInv' /\ Grows /\ Len(lists) <= Len(lists')
  <2>1. CASE create(tx.sender)
    BY <1>1, <1>2, <1>5, <2>1, CreateKeeps
  <2>2. CASE tx.call.fn = "add" /\ add(tx.sender, tx.call)
    BY <1>1, <1>2, <1>5, <2>2, AddKeeps DEF CallInv, add
  <2>3. CASE tx.call.fn = "remove" /\ remove(tx.sender, tx.call)
    BY <1>1, <1>2, <1>5, <2>3, RemoveKeeps DEF CallInv
  <2>. QED  BY <2>1, <2>2, <2>3 DEF OnAllowlist, Executes
<1>7. ViewInv'
  BY <1>1, <1>3, <1>6, ViewKept
<1>. QED  BY <1>3, <1>4, <1>6, <1>7, ExecutionKeeps

(* A transaction that aborts takes its gas and changes nothing else.      *)
LEMMA AbortStep ==
    ASSUME AccountsInv, NEW tx \in Txs, Abort(tx)
    PROVE  AccountsInv'
<1>1. LogInv /\ AttInv /\ ListInv /\ ViewInv
  BY DEF AccountsInv
<1>2. /\ UNCHANGED <<signed, vouched, cosigned>> /\ Pays(tx)
      /\ UNCHANGED <<attestations, log, changes, lists, view>>
  BY DEF Abort, Executes
<1>. QED  BY <1>1, <1>2, RegistryUntouched, ListsUntouched, ExecutionKeeps

(* A node that catches up keeps the invariant.                            *)
LEMMA FollowStep ==
    ASSUME AccountsInv, NEW s \in Server, Follow(s)
    PROVE  AccountsInv'
<1>1. LogInv /\ AttInv /\ ListInv /\ ViewInv
  BY DEF AccountsInv
<1>2. UNCHANGED <<attestations, log, signed, gas, vouched, cosigned, lists, changes>>
  BY DEF Follow, CatchUp
<1>3. LogInv' /\ AttInv'
  BY <1>1, <1>2, RegistryUntouched
<1>4. ViewInv'
  BY <1>1, CatchUpKeeps DEF Follow
<1>5. ListInv'
  BY <1>1, <1>2 DEF ListInv
<1>6. SignedInv' /\ TxInv' /\ GasInv' /\ VouchInv' /\ CoSignInv'
  <2>1. \A c : CallInv(c) => CallInv(c)'
    BY <1>2, RegistrableGrows DEF CallInv
  <2>. QED  BY <1>2, <2>1 DEF AccountsInv, SignedInv, TxInv, GasInv, VouchInv, CoSignInv
<1>. QED  BY <1>3, <1>4, <1>5, <1>6 DEF AccountsInv

(* The invariant holds in every behaviour, for any keys, labels, servers  *)
(* and number of lists.                                                   *)
THEOREM AccountsInvariance == Spec => []AccountsInv
<1>1. Init => AccountsInv
  BY AccountsInitial
<1>2. AccountsInv /\ [Next]_vars => AccountsInv'
  <2> SUFFICES ASSUME AccountsInv, [Next]_vars PROVE AccountsInv'
    OBVIOUS
  <2>1. CASE Signing
    BY <2>1, SigningStep
  <2>2. CASE \E tx \in Txs : OnRegistry(tx)
    BY <2>2, RegistryStep
  <2>3. CASE \E tx \in Txs : OnAllowlist(tx)
    BY <2>3, AllowlistStep
  <2>4. CASE \E tx \in Txs : Abort(tx)
    BY <2>4, AbortStep
  <2>5. CASE \E s \in Server : Follow(s)
    BY <2>5, FollowStep
  <2>6. CASE UNCHANGED vars
    <3>1. UNCHANGED <<attestations, log, changes, lists, view, signed, gas, vouched, cosigned>>
      BY <2>6 DEF vars
    <3>2. LogInv' /\ AttInv' /\ ListInv' /\ ViewInv'
      BY <3>1, RegistryUntouched, ListsUntouched DEF AccountsInv
    <3>3. \A c : CallInv(c) => CallInv(c)'
      BY <3>1, RegistrableGrows DEF CallInv
    <3>4. SignedInv' /\ TxInv' /\ GasInv' /\ VouchInv' /\ CoSignInv'
      BY <3>1, <3>3 DEF AccountsInv, SignedInv, TxInv, GasInv, VouchInv, CoSignInv
    <3>. QED  BY <3>2, <3>4 DEF AccountsInv
  <2>. QED  BY <2>1, <2>2, <2>3, <2>4, <2>5, <2>6 DEF Next
<1>. QED  BY <1>1, <1>2, PTL DEF Spec

(* Replaying the events gives the state.                                  *)
LEMMA LogByInv ==
    ASSUME LogInv, ListInv
    PROVE  LogTellsState
<1>1. Len(log) \in Nat /\ DOMAIN log = 1 .. Len(log) /\ DOMAIN lists = 1 .. Len(lists)
  BY LenProperties DEF LogInv, ListInv
<1>2. \A e : e \in Range(log) <=> \E i \in 1 .. Len(log) : e = log[i]
  BY <1>1 DEF Range
<1>3. \A id \in 1 .. FreshId :
         id \in DOMAIN attestations <=>
            /\ \E e \in Range(log) : e.type = "Registered" /\ e.attestation = id
            /\ \A e \in Range(log) : e.type = "Revoked" => e.attestation # id
  BY <1>2 DEF LogInv, Logged
<1>4. ASSUME NEW e \in Range(log), NEW f \in Range(log), e.attestation = f.attestation
      PROVE  e.owner = f.owner
  BY <1>2, <1>4 DEF LogInv
<1>5. ASSUME NEW e \in Range(log), e.attestation \in DOMAIN attestations
      PROVE  attestations[e.attestation].owner = e.owner
  BY <1>2, <1>5 DEF LogInv
<1>6. \A n \in DOMAIN lists, m \in Address :
         Contains(lists[n].members, m) <=> OnListAfter(Len(changes), n, m)
  BY <1>1 DEF ListInv, ListedIn, OnListAfter
<1>. QED  BY <1>3, <1>4, <1>5, <1>6 DEF LogTellsState

(* A live attestation verifies exactly if the holder of its key vouched   *)
(* for that owner, nonce and tag (attestation.ts, registry.move), whoever *)
(* registered it and however its payload was changed.                     *)
THEOREM VerifiedIffVouchedHolds == Spec => []VerifiedIffVouched
<1>1. AccountsInv => VerifiedIffVouched
  BY VerifiedByInv DEF AccountsInv
<1>. QED  BY <1>1, AccountsInvariance, PTL

(* The events of registry and allowlists tell which attestations are      *)
(* live, whose they are, and who is on which list (registry.move,         *)
(* allowlist.move).                                                       *)
THEOREM LogTellsStateHolds == Spec => []LogTellsState
<1>1. AccountsInv => LogTellsState
  BY LogByInv DEF AccountsInv
<1>. QED  BY <1>1, AccountsInvariance, PTL

(* A key server passes a call exactly if the caller is on the list that   *)
(* the call names by the events its node has executed, so it releases the *)
(* shares of every identity to the members of all lists and to nobody     *)
(* else (allowlist.move, seal_approve).                                   *)
THEOREM ServersFollowHolds == Spec => []ServersFollow
<1>1. AccountsInv => ServersFollow
  <2> SUFFICES ASSUME ListInv, ViewInv, NEW s \in Server, NEW id \in DOMAIN lists,
                      NEW who \in Address
               PROVE  /\ \A n \in DOMAIN lists :
                            sealApprovePasses(s, id, n, who) <=> OnListAfter(view[s].seen, n, who)
                      /\ Released(s, id, who) <=>
                            \E n \in DOMAIN lists : OnListAfter(view[s].seen, n, who)
    BY DEF AccountsInv, ServersFollow
  <2>1. /\ DOMAIN lists = 1 .. Len(lists) /\ Len(lists) \in Nat
        /\ DOMAIN view[s].lists \subseteq Nat
        /\ Len(changes) \in Nat /\ view[s].seen \in Nat /\ view[s].seen <= Len(changes)
    BY LenProperties DEF ListInv, ViewInv
  <2>2. \A n \in Nat : sealApprovePasses(s, id, n, who) <=> OnListAfter(view[s].seen, n, who)
    BY <2>1 DEF ViewInv, ListedIn, OnListAfter
  <2>3. ASSUME NEW n \in Nat, OnListAfter(view[s].seen, n, who)
        PROVE  n \in DOMAIN lists
    <3>1. PICK i \in 1 .. view[s].seen :
             changes[i] = [type |-> "MemberAdded", allowlist |-> n, member |-> who]
      BY <2>3 DEF OnListAfter
    <3>2. i \in 1 .. Len(changes) /\ changes[i].allowlist = n
      BY <2>1, <3>1
    <3>. QED  BY <2>1, <3>2 DEF ListInv
  <2>4. Released(s, id, who) <=>
           \E n \in DOMAIN view[s].lists : sealApprovePasses(s, id, n, who)
    BY DEF Released
  <2>5. \A n : sealApprovePasses(s, id, n, who) => n \in DOMAIN view[s].lists
    BY DEF sealApprovePasses
  <2>. QED  BY <2>1, <2>2, <2>3, <2>4, <2>5
<1>. QED  BY <1>1, AccountsInvariance, PTL

(* A hybrid or wrapped envelope that passes holds bytes that the holder   *)
(* of its PQ key co-signed, though its parts are public (hybrid.ts, zk-   *)
(* login-wrap.ts).                                                        *)
THEOREM CoSignedHolds == Spec => []CoSigned
<1>1. AccountsInv => CoSigned
  BY VerifiedByInv, CoSignedByInv DEF AccountsInv
<1>. QED  BY <1>1, AccountsInvariance, PTL

(* What passes the check before sending passes the validator and the      *)
(* other way round, and only the key of the account signs for it (pq-     *)
(* sign.ts, slh_dsa_authenticator.rs).                                    *)
THEOREM PreflightAgreesHolds == Spec => []PreflightAgrees
<1>1. AccountsInv => PreflightAgrees
  BY PreflightByInv DEF AccountsInv
<1>. QED  BY <1>1, AccountsInvariance, PTL
=============================================================================
