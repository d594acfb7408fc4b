---------------------------- MODULE DataTheorems ----------------------------
(***************************************************************************)
(* Facts about data, for every size: sums over finite sets, powers of two, *)
(* what a recursive function computes, sequences cut and put together,     *)
(* paths in a binary tree, quotients, and folds over sequences.            *)
(*                                                                         *)
(* The argument.  SumFunctionOnSet of module Functions is defined by       *)
(* recursion over subsets, through an element CHOOSE picks.  Induction     *)
(* over finite sets is used in the form that a nonempty family of subsets  *)
(* of one has a minimal member, applied to the family of counterexamples.  *)
(* Section 1 shows that the recursion defines a function, section 2 that   *)
(* the element picked does not matter.  Induction over numbers is used in  *)
(* the same form, or as the fact that a set holding lo and the successors  *)
(* of its members holds lo .. hi (Upward).                                 *)
(***************************************************************************)
EXTENDS Functions, FiniteSetTheorems, SequenceTheorems, TLAPS

(* Operators on sequences, whose names would clash otherwise.              *)
Ext == INSTANCE SequencesExt

(* A nonempty family of subsets of a finite set has a minimal member.      *)
LEMMA MinimalMember ==
    ASSUME NEW S, IsFiniteSet(S), NEW F \in SUBSET (SUBSET S), F # {}
    PROVE  \E T \in F : \A U \in F : U \subseteq T => U = T
<1>1. FiniteSubsetsOf(S) = SUBSET S
  BY FS_FiniteSubsetsOfFinite
<1>2. IsWellFoundedOn(StrictSubsetOrdering(S), SUBSET S)
  BY <1>1, FS_StrictSubsetOrderingWellFounded
<1>3. \E T \in F : \A U \in F : ~ (<<U, T>> \in StrictSubsetOrdering(S))
  BY <1>2, WFMin
<1> QED  BY <1>3 DEF StrictSubsetOrdering

-----------------------------------------------------------------------------
(* 1. The recursion defines a function.                                    *)

(* The element that the recursion takes out.                               *)
Chosen(T) == CHOOSE x \in T : TRUE

(* g is the table of sums of f over the subsets of S.                      *)
Table(g, f, S) ==
    g = [T \in SUBSET S |->
            IF T = {} THEN 0 ELSE f[Chosen(T)] + g[T \ {Chosen(T)}]]

(* It is a member.                                                         *)
LEMMA ChosenMember ==
    ASSUME NEW T, T # {}
    PROVE  Chosen(T) \in T
  BY DEF Chosen

(* A row of the table, from the row of the set without that element.       *)
LEMMA TableRow ==
    ASSUME NEW S, NEW f, NEW g, Table(g, f, S), NEW T \in SUBSET S
    PROVE  /\ T = {} => g[T] = 0
           /\ T # {} => g[T] = f[Chosen(T)] + g[T \ {Chosen(T)}]
  BY DEF Table

(* Tables of functions that agree on a common set agree on its subsets.    *)
LEMMA TablesAgree ==
    ASSUME NEW S, IsFiniteSet(S), NEW R, NEW Q, S \subseteq R, S \subseteq Q,
           NEW f, NEW e, NEW g, NEW h, Table(g, f, R), Table(h, e, Q),
           \A x \in S : f[x] = e[x]
    PROVE  \A T \in SUBSET S : g[T] = h[T]
<1> DEFINE F == {T \in SUBSET S : g[T] # h[T]}
<1> SUFFICES ASSUME F # {} PROVE FALSE
  OBVIOUS
<1>0. F \in SUBSET (SUBSET S)
  OBVIOUS
<1>1. PICK T \in F : \A U \in F : U \subseteq T => U = T
  <2> HIDE DEF F
  <2> QED  BY <1>0, MinimalMember
<1>t. /\ T \in SUBSET S /\ T \in SUBSET R /\ T \in SUBSET Q
      /\ g[T] # h[T]
  OBVIOUS
<1> HIDE DEF F
<1>r. /\ T = {} => g[T] = 0
      /\ T # {} => g[T] = f[Chosen(T)] + g[T \ {Chosen(T)}]
  BY <1>t DEF Table
<1>s. /\ T = {} => h[T] = 0
      /\ T # {} => h[T] = e[Chosen(T)] + h[T \ {Chosen(T)}]
  BY <1>t DEF Table
<1>2. T # {}
  BY <1>t, <1>r, <1>s
<1>3. Chosen(T) \in T /\ f[Chosen(T)] = e[Chosen(T)]
  BY <1>t, <1>2, ChosenMember
<1>4. g[T \ {Chosen(T)}] = h[T \ {Chosen(T)}]
  BY <1>t, <1>1, <1>3 DEF F
<1> QED  BY <1>t, <1>r, <1>s, <1>2, <1>3, <1>4

(* Every finite set has a table.                                           *)
LEMMA TableExists ==
    ASSUME NEW S, IsFiniteSet(S), NEW f
    PROVE  \E g : Table(g, f, S)
<1> DEFINE F == {T \in SUBSET S : ~ \E g : Table(g, f, T)}
<1> SUFFICES ASSUME F # {} PROVE FALSE
  OBVIOUS
<1>0. F \in SUBSET (SUBSET S)
  OBVIOUS
<1>1. PICK T \in F : \A U \in F : U \subseteq T => U = T
  <2> HIDE DEF F
  <2> QED  BY <1>0, MinimalMember
<1> DEFINE G(U) == CHOOSE g : Table(g, f, U)
<1>2. \A U \in SUBSET T : U # T => Table(G(U), f, U)
  BY <1>1
(* The tables of the smaller sets, put together.                           *)
<1> DEFINE h == [U \in SUBSET T |->
                    IF U = {} THEN 0
                    ELSE f[Chosen(U)] + G(U \ {Chosen(U)})[U \ {Chosen(U)}]]
<1> HIDE DEF G
<1>3. ASSUME NEW U \in SUBSET T, U # T
      PROVE  h[U] = G(U)[U]
  <2>1. Table(G(U), f, U)
    BY <1>2, <1>3
  <2>2. CASE U = {}
    BY <2>1, <2>2, TableRow
  <2>3. CASE U # {}
    <3> DEFINE V == U \ {Chosen(U)}
    <3>1. V # T /\ V \in SUBSET T
      BY <2>3, ChosenMember
    <3>2. Table(G(V), f, V)
      BY <1>2, <3>1
    <3>3. IsFiniteSet(V)
      BY <3>1, FS_Subset
    <3>4. G(U)[V] = G(V)[V]
      <4>1. \A W \in SUBSET V : G(U)[W] = G(V)[W]
        BY <2>1, <3>2, <3>3, TablesAgree
      <4> QED  BY <4>1
    <3>5. G(U)[U] = f[Chosen(U)] + G(U)[V]
      BY <2>1, <2>3, TableRow
    <3> QED  BY <2>3, <3>4, <3>5
  <2> QED  BY <2>2, <2>3
<1>4. ASSUME NEW U \in SUBSET T, U # {}
      PROVE  h[U \ {Chosen(U)}] = G(U \ {Chosen(U)})[U \ {Chosen(U)}]
  BY <1>3, <1>4, ChosenMember
<1>5. Table(h, f, T)
  <2>1. h = [U \in SUBSET T |->
                IF U = {} THEN 0 ELSE f[Chosen(U)] + h[U \ {Chosen(U)}]]
    <3> DEFINE k == [U \in SUBSET T |->
                IF U = {} THEN 0 ELSE f[Chosen(U)] + h[U \ {Chosen(U)}]]
    <3>1. \A U \in SUBSET T : h[U] = k[U]
      BY <1>4
    <3> QED  BY <3>1
  <2> QED  BY <2>1 DEF Table
<1> QED  BY <1>1, <1>5

-----------------------------------------------------------------------------
(* 2. The sums.                                                            *)

(* The sum over a set is the last row of its table.                        *)
LEMMA SumOfTable ==
    ASSUME NEW S, IsFiniteSet(S), NEW f
    PROVE  \E g : Table(g, f, S) /\ SumFunctionOnSet(f, S) = g[S]
<1> DEFINE P(g) == g = [T \in SUBSET S |->
                IF T = {} THEN 0
                ELSE f[CHOOSE x \in T : TRUE] + g[T \ {CHOOSE x \in T : TRUE}]]
<1>1. SumFunctionOnSet(f, S) = (CHOOSE g : P(g))[S]
  BY DEF SumFunctionOnSet, FoldFunctionOnSet, MapThenFoldSet
<1>2. \E g : P(g)
  <2>1. PICK g : Table(g, f, S)
    BY TableExists
  <2>2. P(g)
    BY <2>1 DEF Table, Chosen
  <2> QED  BY <2>2
<1>3. P(CHOOSE g : P(g))
  <2> HIDE DEF P
  <2> QED  BY <1>2
<1>4. \A g : P(g) => Table(g, f, S)
  BY DEF Table, Chosen
<1> HIDE DEF P
<1> QED  BY <1>1, <1>3, <1>4

(* The sum over a subset is its row in the table.                          *)
LEMMA SumIsRow ==
    ASSUME NEW S, IsFiniteSet(S), NEW f, NEW g, Table(g, f, S),
           NEW T \in SUBSET S
    PROVE  SumFunctionOnSet(f, T) = g[T]
<1>1. IsFiniteSet(T)
  BY FS_Subset
<1>2. PICK h : Table(h, f, T) /\ SumFunctionOnSet(f, T) = h[T]
  BY <1>1, SumOfTable
<1>3. \A U \in SUBSET T : h[U] = g[U]
  <2>1. /\ Table(h, f, T) /\ Table(g, f, S)
        /\ T \subseteq T /\ T \subseteq S /\ \A x \in T : f[x] = f[x]
    BY <1>2
  <2> QED  BY ONLY <1>1, <2>1, TablesAgree
<1> QED  BY <1>2, <1>3

(* The sum over no members is zero.                                        *)
LEMMA SumEmpty ==
    ASSUME NEW f
    PROVE  SumFunctionOnSet(f, {}) = 0
<1>1. PICK g : Table(g, f, {}) /\ SumFunctionOnSet(f, {}) = g[{}]
  BY FS_EmptySet, SumOfTable
<1> QED  BY <1>1 DEF Table

(* One step of the recursion.                                              *)
LEMMA SumStep ==
    ASSUME NEW S, IsFiniteSet(S), S # {}, NEW f
    PROVE  /\ Chosen(S) \in S
           /\ SumFunctionOnSet(f, S)
                = f[Chosen(S)] + SumFunctionOnSet(f, S \ {Chosen(S)})
<1>1. PICK g : Table(g, f, S) /\ SumFunctionOnSet(f, S) = g[S]
  BY SumOfTable
<1>2. g[S] = f[Chosen(S)] + g[S \ {Chosen(S)}]
  BY <1>1 DEF Table
<1>3. SumFunctionOnSet(f, S \ {Chosen(S)}) = g[S \ {Chosen(S)}]
  BY <1>1, SumIsRow
<1> QED  BY <1>1, <1>2, <1>3, ChosenMember

(* Functions that agree on a set have the same sum over it.                *)
LEMMA SumSame ==
    ASSUME NEW S, IsFiniteSet(S), NEW f, NEW e, \A x \in S : f[x] = e[x]
    PROVE  SumFunctionOnSet(f, S) = SumFunctionOnSet(e, S)
<1>1. PICK g : Table(g, f, S) /\ SumFunctionOnSet(f, S) = g[S]
  BY SumOfTable
<1>2. PICK h : Table(h, e, S) /\ SumFunctionOnSet(e, S) = h[S]
  BY SumOfTable
<1>3. \A T \in SUBSET S : g[T] = h[T]
  BY <1>1, <1>2, TablesAgree
<1> QED  BY <1>1, <1>2, <1>3

(* A sum of naturals is a natural.                                         *)
LEMMA SumNat ==
    ASSUME NEW S, IsFiniteSet(S), NEW f, \A x \in S : f[x] \in Nat
    PROVE  SumFunctionOnSet(f, S) \in Nat
<1> DEFINE F == {T \in SUBSET S : SumFunctionOnSet(f, T) \notin Nat}
<1> SUFFICES ASSUME F # {} PROVE FALSE
  BY DEF F
<1>0. F \in SUBSET (SUBSET S)
  OBVIOUS
<1>1. PICK T \in F : \A U \in F : U \subseteq T => U = T
  <2> HIDE DEF F
  <2> QED  BY <1>0, MinimalMember
<1>2. T \in SUBSET S /\ SumFunctionOnSet(f, T) \notin Nat
  OBVIOUS
<1>3. \A U \in SUBSET T : U # T => SumFunctionOnSet(f, U) \in Nat
  BY <1>1, <1>2
<1> HIDE DEF F
<1>4. IsFiniteSet(T)
  BY <1>2, FS_Subset
<1>5. T # {}
  BY <1>2, SumEmpty
<1>6. /\ Chosen(T) \in T
      /\ SumFunctionOnSet(f, T)
           = f[Chosen(T)] + SumFunctionOnSet(f, T \ {Chosen(T)})
  BY <1>4, <1>5, SumStep
<1>7. SumFunctionOnSet(f, T \ {Chosen(T)}) \in Nat
  BY <1>3, <1>6
<1> QED  BY <1>2, <1>6, <1>7

(* A sum of zeros.                                                         *)
LEMMA SumZero ==
    ASSUME NEW S, IsFiniteSet(S), NEW f, \A x \in S : f[x] = 0
    PROVE  SumFunctionOnSet(f, S) = 0
<1> DEFINE F == {T \in SUBSET S : SumFunctionOnSet(f, T) # 0}
<1> SUFFICES ASSUME F # {} PROVE FALSE
  BY DEF F
<1>0. F \in SUBSET (SUBSET S)
  OBVIOUS
<1>1. PICK T \in F : \A U \in F : U \subseteq T => U = T
  <2> HIDE DEF F
  <2> QED  BY <1>0, MinimalMember
<1>2. T \in SUBSET S /\ SumFunctionOnSet(f, T) # 0
  OBVIOUS
<1>3. T # {} /\ IsFiniteSet(T)
  BY <1>2, SumEmpty, FS_Subset
<1>4. /\ Chosen(T) \in T
      /\ SumFunctionOnSet(f, T)
           = f[Chosen(T)] + SumFunctionOnSet(f, T \ {Chosen(T)})
  BY <1>3, SumStep
<1>5. SumFunctionOnSet(f, T \ {Chosen(T)}) = 0
  BY <1>1, <1>2, <1>4
<1> QED  BY <1>2, <1>4, <1>5

(* Any member may be taken out first.                                      *)
LEMMA SumTakeOut ==
    ASSUME NEW S, IsFiniteSet(S), NEW f, \A x \in S : f[x] \in Nat,
           NEW x \in S
    PROVE  SumFunctionOnSet(f, S) = f[x] + SumFunctionOnSet(f, S \ {x})
<1> DEFINE Bad(T) == \E y \in T : SumFunctionOnSet(f, T)
                                    # f[y] + SumFunctionOnSet(f, T \ {y})
           F == {T \in SUBSET S : Bad(T)}
<1> SUFFICES ASSUME F # {} PROVE FALSE
  OBVIOUS
<1>0. F \in SUBSET (SUBSET S)
  OBVIOUS
<1>1. PICK T \in F : \A U \in F : U \subseteq T => U = T
  <2> HIDE DEF F
  <2> QED  BY <1>0, MinimalMember
<1>2. PICK y \in T : SumFunctionOnSet(f, T)
                        # f[y] + SumFunctionOnSet(f, T \ {y})
  OBVIOUS
<1>3. /\ T \in SUBSET S
      /\ \A U \in SUBSET T : U # T =>
            \A z \in U : SumFunctionOnSet(f, U)
                          = f[z] + SumFunctionOnSet(f, U \ {z})
  BY <1>1
<1> HIDE DEF F
<1> DEFINE c == Chosen(T)
           R == T \ {c, y}
<1>4. IsFiniteSet(T) /\ T # {}
  BY <1>2, <1>3, FS_Subset
<1>5. c \in T /\ SumFunctionOnSet(f, T) = f[c] + SumFunctionOnSet(f, T \ {c})
  BY <1>4, SumStep
<1>6. c # y
  BY <1>2, <1>5
<1> HIDE DEF c
<1>7. SumFunctionOnSet(f, T \ {c}) = f[y] + SumFunctionOnSet(f, R)
  <2>1. (T \ {c}) \ {y} = R /\ y \in T \ {c} /\ T \ {c} # T
    BY <1>2, <1>5, <1>6
  <2> QED  BY <1>3, <2>1
<1>8. SumFunctionOnSet(f, T \ {y}) = f[c] + SumFunctionOnSet(f, R)
  <2>1. (T \ {y}) \ {c} = R /\ c \in T \ {y} /\ T \ {y} # T
    BY <1>2, <1>5, <1>6
  <2> QED  BY <1>3, <2>1
<1>9. /\ f[c] \in Nat /\ f[y] \in Nat
      /\ SumFunctionOnSet(f, R) \in Nat
  <2>1. IsFiniteSet(R) /\ \A z \in R : f[z] \in Nat
    BY <1>3, <1>4, FS_Subset
  <2> QED  BY <1>2, <1>3, <1>5, <2>1, SumNat
<1> QED  BY <1>2, <1>5, <1>7, <1>8, <1>9

-----------------------------------------------------------------------------
(* 3. How sums change.                                                     *)

(* Two functions that differ at one member.                                *)
LEMMA SumChange ==
    ASSUME NEW S, IsFiniteSet(S), NEW f, NEW e, NEW x \in S,
           \A y \in S : f[y] \in Nat /\ e[y] \in Nat,
           \A y \in S \ {x} : f[y] = e[y]
    PROVE  SumFunctionOnSet(f, S) + e[x] = SumFunctionOnSet(e, S) + f[x]
<1> DEFINE R == S \ {x}
<1>1. IsFiniteSet(R)
  BY FS_Subset
<1>2. /\ SumFunctionOnSet(f, S) = f[x] + SumFunctionOnSet(f, R)
      /\ SumFunctionOnSet(e, S) = e[x] + SumFunctionOnSet(e, R)
  BY SumTakeOut
<1>3. SumFunctionOnSet(f, R) = SumFunctionOnSet(e, R)
  BY <1>1, SumSame
<1>4. SumFunctionOnSet(f, R) \in Nat
  BY <1>1, SumNat
<1> QED  BY <1>2, <1>3, <1>4

(* One member more.                                                        *)
LEMMA SumAddMember ==
    ASSUME NEW S, IsFiniteSet(S), NEW x, x \notin S, NEW f, NEW e,
           \A y \in S : f[y] \in Nat /\ e[y] = f[y], e[x] \in Nat
    PROVE  SumFunctionOnSet(e, S \union {x}) = SumFunctionOnSet(f, S) + e[x]
<1> DEFINE T == S \union {x}
<1>1. IsFiniteSet(T)
  BY FS_AddElement
<1>2. T \ {x} = S
  OBVIOUS
<1>3. SumFunctionOnSet(e, T) = e[x] + SumFunctionOnSet(e, S)
  <2>1. x \in T /\ \A y \in T : e[y] \in Nat
    OBVIOUS
  <2> HIDE DEF T
  <2> QED  BY <1>1, <1>2, <2>1, SumTakeOut
<1>4. SumFunctionOnSet(e, S) = SumFunctionOnSet(f, S)
  BY SumSame
<1>5. SumFunctionOnSet(f, S) \in Nat
  BY SumNat
<1> QED  BY <1>3, <1>4, <1>5

-----------------------------------------------------------------------------
(* 4. How sums compare.                                                    *)

(* A function below another has the smaller sum.                           *)
LEMMA SumBelow ==
    ASSUME NEW S, IsFiniteSet(S), NEW f, NEW e,
           \A y \in S : f[y] \in Nat /\ e[y] \in Nat /\ f[y] <= e[y]
    PROVE  SumFunctionOnSet(f, S) <= SumFunctionOnSet(e, S)
<1> DEFINE F == {T \in SUBSET S : ~ (SumFunctionOnSet(f, T) <= SumFunctionOnSet(e, T))}
<1> SUFFICES ASSUME F # {} PROVE FALSE
  BY DEF F
<1>0. F \in SUBSET (SUBSET S)
  OBVIOUS
<1>1. PICK T \in F : \A U \in F : U \subseteq T => U = T
  <2> HIDE DEF F
  <2> QED  BY <1>0, MinimalMember
<1>2. T \in SUBSET S /\ ~ (SumFunctionOnSet(f, T) <= SumFunctionOnSet(e, T))
  OBVIOUS
<1>3. T # {}
  BY <1>2, SumEmpty
<1>4. PICK x \in T : TRUE
  BY <1>3
<1> DEFINE R == T \ {x}
<1>5. R \in SUBSET S /\ R # T /\ R \subseteq T
  BY <1>2
<1>6. SumFunctionOnSet(f, R) <= SumFunctionOnSet(e, R)
  <2>1. R \notin F
    BY <1>1, <1>5
  <2> QED  BY <1>5, <2>1
<1> HIDE DEF F
<1>7. /\ IsFiniteSet(T) /\ IsFiniteSet(R)
      /\ \A y \in T : f[y] \in Nat /\ e[y] \in Nat /\ f[y] <= e[y]
  BY <1>2, <1>5, FS_Subset
<1>8. /\ SumFunctionOnSet(f, T) = f[x] + SumFunctionOnSet(f, R)
      /\ SumFunctionOnSet(e, T) = e[x] + SumFunctionOnSet(e, R)
  BY <1>4, <1>7, SumTakeOut
<1>9. SumFunctionOnSet(f, R) \in Nat /\ SumFunctionOnSet(e, R) \in Nat
  BY <1>5, <1>7, SumNat
<1> HIDE DEF R
<1> QED  BY <1>2, <1>4, <1>6, <1>7, <1>8, <1>9

(* Strictly so if it is strictly below at one member.                      *)
LEMMA SumStrictlyBelow ==
    ASSUME NEW S, IsFiniteSet(S), NEW f, NEW e,
           \A y \in S : f[y] \in Nat /\ e[y] \in Nat /\ f[y] <= e[y],
           NEW x \in S, f[x] < e[x]
    PROVE  SumFunctionOnSet(f, S) < SumFunctionOnSet(e, S)
<1> DEFINE R == S \ {x}
<1>1. IsFiniteSet(R) /\ \A y \in R : f[y] \in Nat /\ e[y] \in Nat /\ f[y] <= e[y]
  BY FS_Subset
<1>2. /\ SumFunctionOnSet(f, S) = f[x] + SumFunctionOnSet(f, R)
      /\ SumFunctionOnSet(e, S) = e[x] + SumFunctionOnSet(e, R)
  BY SumTakeOut
<1> HIDE DEF R
<1>3. SumFunctionOnSet(f, R) <= SumFunctionOnSet(e, R)
  BY <1>1, SumBelow
<1>4. SumFunctionOnSet(f, R) \in Nat /\ SumFunctionOnSet(e, R) \in Nat
  BY <1>1, SumNat
<1> QED  BY <1>2, <1>3, <1>4

(* What every member is at most bounds the sum.                            *)
LEMMA SumAtMost ==
    ASSUME NEW S, IsFiniteSet(S), NEW f, NEW b \in Nat,
           \A y \in S : f[y] \in Nat /\ f[y] <= b
    PROVE  SumFunctionOnSet(f, S) <= Cardinality(S) * b
<1> DEFINE F == {T \in SUBSET S : ~ (SumFunctionOnSet(f, T) <= Cardinality(T) * b)}
<1> SUFFICES ASSUME F # {} PROVE FALSE
  BY DEF F
<1>0. F \in SUBSET (SUBSET S)
  OBVIOUS
<1>1. PICK T \in F : \A U \in F : U \subseteq T => U = T
  <2> HIDE DEF F
  <2> QED  BY <1>0, MinimalMember
<1>2. T \in SUBSET S /\ ~ (SumFunctionOnSet(f, T) <= Cardinality(T) * b)
  OBVIOUS
<1>3. T # {}
  BY <1>2, SumEmpty, FS_EmptySet
<1>4. PICK x \in T : TRUE
  BY <1>3
<1> DEFINE R == T \ {x}
<1>5. R \in SUBSET S /\ R # T /\ R \subseteq T
  BY <1>2
<1>6. SumFunctionOnSet(f, R) <= Cardinality(R) * b
  <2>1. R \notin F
    BY <1>1, <1>5
  <2> QED  BY <1>5, <2>1
<1> HIDE DEF F
<1>7. /\ IsFiniteSet(T) /\ IsFiniteSet(R)
      /\ \A y \in T : f[y] \in Nat /\ f[y] <= b
  BY <1>2, <1>5, FS_Subset
<1>8. SumFunctionOnSet(f, T) = f[x] + SumFunctionOnSet(f, R)
  BY <1>4, <1>7, SumTakeOut
<1>9. SumFunctionOnSet(f, R) \in Nat
  BY <1>5, <1>7, SumNat
<1>10. Cardinality(R) \in Nat /\ Cardinality(T) = Cardinality(R) + 1
  <2>1. Cardinality(R) = Cardinality(T) - 1 /\ Cardinality(T) \in Nat /\ Cardinality(R) \in Nat
    BY <1>4, <1>7, FS_RemoveElement, FS_CardinalityType
  <2> QED  BY <2>1
<1> HIDE DEF R
<1>11. Cardinality(T) * b = Cardinality(R) * b + b /\ Cardinality(R) * b \in Nat
  BY <1>10
<1> QED  BY <1>2, <1>4, <1>6, <1>7, <1>8, <1>9, <1>11
-----------------------------------------------------------------------------
(* 5. Numbers, and what a recursive function computes.                     *)

(* A nonempty set of naturals has a least member.                          *)
LEMMA LeastNumber ==
    ASSUME NEW F \in SUBSET Nat, F # {}
    PROVE  \E n \in F : \A m \in F : n <= m
<1>1. \E n \in F : \A m \in F : ~ (<<m, n>> \in OpToRel(<, Nat))
  BY NatLessThanWellFounded, WFMin
<1>2. \A m, n \in Nat : <<m, n>> \in OpToRel(<, Nat) <=> m < n
  BY DEF OpToRel
<1>3. PICK n \in F : \A m \in F : ~ (m < n)
  BY <1>1, <1>2
<1>. QED  BY <1>3

(* The powers of two double. 2^n is the number of subsets of a set of n    *)
(* members: with one member more, every subset comes once without it and   *)
(* once with it.                                                           *)
LEMMA PowStep ==
    ASSUME NEW n \in Nat
    PROVE  2^(n + 1) = 2 * 2^n
<1> DEFINE S == 1 .. n
           x == n + 1
           U == {T \union {x} : T \in SUBSET S}
<1>1. IsFiniteSet(S) /\ Cardinality(S) = n
  BY FS_Interval
<1>2. IsFiniteSet(SUBSET S) /\ Cardinality(SUBSET S) = 2^n
  BY <1>1, FS_SUBSET
<1>3. IsFiniteSet(1 .. n + 1) /\ Cardinality(1 .. n + 1) = n + 1
  BY FS_Interval
<1>4. Cardinality(SUBSET (1 .. n + 1)) = 2^(n + 1)
  BY <1>3, FS_SUBSET
<1>5. SUBSET (1 .. n + 1) = (SUBSET S) \union U
  <2>1. 1 .. n + 1 = S \union {x}
    OBVIOUS
  <2> HIDE DEF S, x
  <2>2. ASSUME NEW T \in SUBSET (S \union {x}) PROVE T \in (SUBSET S) \union U
    <3>1. T = (T \ {x}) \union {x} \/ T \in SUBSET S
      OBVIOUS
    <3>2. T \ {x} \in SUBSET S
      OBVIOUS
    <3>. QED  BY <3>1, <3>2
  <2>. QED  BY <2>1, <2>2
<1>6. (SUBSET S) \intersect U = {}
  OBVIOUS
<1>7. ExistsBijection(SUBSET S, U)
  <2> DEFINE f == [T \in SUBSET S |-> T \union {x}]
  <2>1. f \in [SUBSET S -> U]
    OBVIOUS
  <2>2. \A T, R \in SUBSET S : f[T] = f[R] => T = R
    <3>1. x \notin S
      OBVIOUS
    <3> HIDE DEF S, x
    <3>2. SUFFICES ASSUME NEW T \in SUBSET S, NEW R \in SUBSET S, T \union {x} = R \union {x}
                   PROVE  T = R
      OBVIOUS
    <3>3. \A y \in S : y # x
      BY <3>1
    <3>4. \A y : y \in T <=> y \in R
      BY <3>2, <3>3
    <3>. QED  BY <3>4
  <2>3. \A u \in U : \E T \in SUBSET S : f[T] = u
    OBVIOUS
  <2> HIDE DEF f, S, U
  <2>4. f \in Bijection(SUBSET S, U)
    BY <2>1, <2>2, <2>3 DEF Bijection, Injection, Surjection, IsInjective
  <2>. QED  BY <2>4 DEF ExistsBijection
<1>8. IsFiniteSet(U) /\ Cardinality(U) = 2^n
  BY <1>2, <1>7, FS_Bijection
<1> HIDE DEF S, U
<1>9. Cardinality((SUBSET S) \union U) = Cardinality(SUBSET S) + Cardinality(U)
  <2> DEFINE P == SUBSET S
  <2>1. IsFiniteSet(P) /\ IsFiniteSet(U) /\ P \intersect U = {}
    BY <1>2, <1>6, <1>8
  <2> HIDE DEF P
  <2>2. /\ Cardinality(P \union U)
             = Cardinality(P) + Cardinality(U) - Cardinality(P \intersect U)
        /\ Cardinality(P) \in Nat /\ Cardinality(U) \in Nat
    BY <2>1, FS_Union, FS_CardinalityType
  <2>3. Cardinality({}) = 0
    BY FS_EmptySet
  <2>4. Cardinality(P \intersect U) = 0
    BY <2>1, <2>3, Zenon
  <2>5. \A a, b, c \in Nat : a = b + c - 0 => a = b + c
    OBVIOUS
  <2>6. Cardinality(P \union U) \in Nat
    BY <2>1, FS_Union, FS_CardinalityType
  <2>7. Cardinality(P \union U) = Cardinality(P) + Cardinality(U)
    BY <2>2, <2>4, <2>5, <2>6
  <2>. QED  BY <2>7 DEF P
<1>10. 2^n + 2^n = 2 * 2^n
  <2>1. 2^n \in Nat
    BY <1>2, FS_CardinalityType
  <2>. QED  BY <2>1
<1>. QED  BY <1>2, <1>4, <1>5, <1>8, <1>9, <1>10

(* Powers of two are positive.                                             *)
LEMMA PowNat ==
    ASSUME NEW n \in Nat
    PROVE  2^n \in Nat \ {0}
<1> DEFINE F == {k \in Nat : 2^k \notin Nat \ {0}}
<1> SUFFICES ASSUME F # {} PROVE FALSE
  OBVIOUS
<1>1. PICK k \in F : \A j \in F : k <= j
  <2> F \in SUBSET Nat
    OBVIOUS
  <2> HIDE DEF F
  <2>. QED  BY LeastNumber
<1>2. k \in Nat /\ 2^k \notin Nat \ {0}
  OBVIOUS
<1>3. k # 0
  <2>1. 2^0 = 1 /\ 1 \in Nat \ {0}
    OBVIOUS
  <2>2. k = 0 => 2^k = 2^0
    BY Zenon
  <2>3. k = 0 => 2^k \in Nat \ {0}
    BY <2>1, <2>2, Zenon
  <2>. QED  BY <1>2, <2>3
<1>4. k - 1 \in Nat /\ k - 1 \notin F
  BY <1>1, <1>2, <1>3
<1>5. 2^(k - 1) \in Nat \ {0}
  BY <1>4
<1> HIDE DEF F
<1>6. 2^((k - 1) + 1) = 2 * 2^(k - 1) /\ (k - 1) + 1 = k
  <2>1. k - 1 \in Nat
    BY <1>4
  <2> DEFINE j == k - 1
  <2> HIDE DEF j
  <2>2. 2^(j + 1) = 2 * 2^j
    BY <2>1, PowStep DEF j
  <2>. QED  BY <1>2, <2>2 DEF j
<1>. QED  BY <1>2, <1>5, <1>6

(* The power of a sum is the product of the powers.                        *)
LEMMA PowAdd ==
    ASSUME NEW m \in Nat, NEW n \in Nat
    PROVE  2^(m + n) = 2^m * 2^n
<1> DEFINE F == {k \in Nat : 2^(m + k) # 2^m * 2^k}
<1> SUFFICES ASSUME F # {} PROVE FALSE
  OBVIOUS
<1>1. PICK k \in F : \A j \in F : k <= j
  <2> F \in SUBSET Nat
    OBVIOUS
  <2> HIDE DEF F
  <2>. QED  BY LeastNumber
<1>2. k \in Nat /\ 2^(m + k) # 2^m * 2^k
  OBVIOUS
<1>3. k # 0
  <2>1. 2^0 = 1 /\ m + 0 = m /\ 2^m \in Nat
    BY PowNat
  <2>2. 2^m * 1 = 2^m
    BY <2>1
  <2>. QED  BY <1>2, <2>1, <2>2
<1>4. k - 1 \in Nat /\ k - 1 \notin F
  BY <1>1, <1>2, <1>3
<1>5. 2^(m + (k - 1)) = 2^m * 2^(k - 1)
  BY <1>4
<1> HIDE DEF F
<1>6. 2^((k - 1) + 1) = 2 * 2^(k - 1) /\ (k - 1) + 1 = k
  <2>1. k - 1 \in Nat
    BY <1>4
  <2> DEFINE j == k - 1
  <2> HIDE DEF j
  <2>2. 2^(j + 1) = 2 * 2^j
    BY <2>1, PowStep DEF j
  <2>. QED  BY <1>2, <2>2 DEF j
<1>7. 2^((m + (k - 1)) + 1) = 2 * 2^(m + (k - 1)) /\ (m + (k - 1)) + 1 = m + k
  <2> DEFINE j == m + (k - 1)
  <2>1. j \in Nat
    BY <1>4
  <2>2. j + 1 = m + k
    BY <1>2
  <2> HIDE DEF j
  <2>3. 2^(j + 1) = 2 * 2^j
    BY <2>1, PowStep
  <2>. QED  BY <2>2, <2>3 DEF j
<1>8. 2^m \in Nat /\ 2^(k - 1) \in Nat
  BY <1>4, PowNat
<1>9. \A a, b \in Nat : 2 * (a * b) = a * (2 * b)
  OBVIOUS
<1>. QED  BY <1>2, <1>5, <1>6, <1>7, <1>8, <1>9

(* A function over 1 .. n is a sequence of length n.                       *)
LEMMA FunctionIsSeq ==
    ASSUME NEW n \in Nat, NEW S, NEW f \in [1 .. n -> S]
    PROVE  f \in Seq(S) /\ Len(f) = n
<1>1. Seq(S) = UNION {[1 .. k -> S] : k \in Nat}
  BY SeqDef
<1>2. f \in UNION {[1 .. k -> S] : k \in Nat}
  OBVIOUS
<1>3. f \in Seq(S)
  BY <1>1, <1>2
<1>4. DOMAIN f = 1 .. Len(f) /\ Len(f) \in Nat
  BY <1>3, LenProperties
<1>. QED  BY <1>3, <1>4

(* Where the elements of a concatenation come from.                        *)
LEMMA ConcatParts ==
    ASSUME NEW S, NEW s \in Seq(S), NEW t \in Seq(S)
    PROVE  /\ s \o t \in Seq(S) /\ Len(s \o t) = Len(s) + Len(t)
           /\ \A i \in 1 .. Len(s) : (s \o t)[i] = s[i]
           /\ \A i \in 1 .. Len(t) : (s \o t)[Len(s) + i] = t[i]
<1>1. Len(s) \in Nat /\ Len(t) \in Nat
  BY LenProperties
<1>2. /\ s \o t \in Seq(S) /\ Len(s \o t) = Len(s) + Len(t)
      /\ \A i \in 1 .. Len(s) + Len(t) : (s \o t)[i] =
             IF i <= Len(s) THEN s[i] ELSE t[i - Len(s)]
  BY ConcatProperties
<1> DEFINE c == s \o t
<1> HIDE DEF c
<1>3. ASSUME NEW i \in 1 .. Len(s) PROVE c[i] = s[i]
  BY <1>1, <1>2 DEF c
<1>4. ASSUME NEW i \in 1 .. Len(t) PROVE c[Len(s) + i] = t[i]
  <2>1. Len(s) + i \in 1 .. Len(s) + Len(t) /\ ~ (Len(s) + i <= Len(s)) /\ Len(s) + i - Len(s) = i
    BY <1>1
  <2>. QED  BY <1>2, <2>1 DEF c
<1>. QED  BY <1>2, <1>3, <1>4 DEF c

(* Induction from lo to hi.                                                *)
LEMMA Upward ==
    ASSUME NEW lo \in Nat, NEW hi \in Nat, NEW X, lo \in X,
           \A j \in lo + 1 .. hi : j - 1 \in X => j \in X
    PROVE  lo .. hi \subseteq X
<1> DEFINE F == {j \in lo .. hi : j \notin X}
<1> SUFFICES ASSUME F # {} PROVE FALSE
  OBVIOUS
<1>1. PICK j \in F : \A k \in F : j <= k
  <2> F \in SUBSET Nat
    OBVIOUS
  <2> HIDE DEF F
  <2>. QED  BY LeastNumber
<1>2. j \in lo + 1 .. hi /\ j \notin X
  OBVIOUS
<1>3. j - 1 \in lo .. hi /\ ~ (j <= j - 1)
  BY <1>2
<1>4. j - 1 \in X
  BY <1>1, <1>3
<1>. QED  BY <1>2, <1>4

(* No step of G leaves S.                                                  *)
ClosedUnder(S, lo, hi, G) == \A j \in lo + 1 .. hi : \A x \in S : G[j][x] \in S

(* f holds the values of v under the steps of G.                           *)
Iterate(f, S, lo, hi, v, G) ==
    /\ f \in [lo .. hi -> S] /\ f[lo] = v
    /\ \A j \in lo + 1 .. hi : f[j] = G[j][f[j - 1]]

(* A recursion over numbers whose steps stay in a set has a solution: what *)
(* the recursive functions of the models rest on.                          *)
LEMMA Iterates ==
    ASSUME NEW S, NEW lo \in Nat, NEW hi \in Nat, lo <= hi, NEW v \in S,
           NEW G, ClosedUnder(S, lo, hi, G)
    PROVE  \E f : Iterate(f, S, lo, hi, v, G)
<1> USE DEF ClosedUnder
<1> DEFINE Is(f, k) == /\ f \in [lo .. k -> S] /\ f[lo] = v
                       /\ \A j \in lo + 1 .. k : f[j] = G[j][f[j - 1]]
           X == {k \in lo .. hi : \E f : Is(f, k)}
<1>1. lo \in X
  <2> DEFINE f == [j \in lo .. lo |-> v]
  <2>1. Is(f, lo)
    OBVIOUS
  <2>. QED  BY <2>1
<1>2. ASSUME NEW k \in lo + 1 .. hi, k - 1 \in X PROVE k \in X
  <2>1. PICK f : Is(f, k - 1)
    BY <1>2
  <2> DEFINE y == f[k - 1]
             g == [j \in lo .. k |-> IF j = k THEN G[k][y] ELSE f[j]]
  <2>2. k - 1 \in lo .. k - 1 /\ y \in S
    BY <2>1
  <2>3. G[k][y] \in S
    <3> HIDE DEF y
    <3>. QED  BY <2>2
  <2>4. \A j \in lo .. k - 1 : g[j] = f[j]
    OBVIOUS
  <2>5. g \in [lo .. k -> S]
    BY <2>1, <2>3
  <2>6. g[lo] = v
    BY <2>1, <2>4
  <2>7. ASSUME NEW j \in lo + 1 .. k PROVE g[j] = G[j][g[j - 1]]
    <3>1. CASE j = k
      BY <2>2, <2>4, <3>1
    <3>2. CASE j # k
      <4>1. j \in lo + 1 .. k - 1 /\ j \in lo .. k - 1 /\ j - 1 \in lo .. k - 1
        BY <3>2
      <4>2. g[j] = f[j] /\ g[j - 1] = f[j - 1]
        BY <2>4, <4>1
      <4>3. f[j] = G[j][f[j - 1]]
        BY <2>1, <4>1
      <4>. QED  BY <4>2, <4>3
    <3>. QED  BY <3>1, <3>2
  <2> HIDE DEF g
  <2>8. Is(g, k)
    BY <2>5, <2>6, <2>7
  <2>. QED  BY <2>8
<1> HIDE DEF X
<1>3. lo .. hi \subseteq X
  BY <1>1, <1>2, Upward
<1>4. hi \in X
  BY <1>3
<1>. QED  BY <1>4 DEF X, Iterate

(* What starts in S and never leaves it in one step stays there.           *)
LEMMA StaysIn ==
    ASSUME NEW S, NEW lo \in Nat, NEW hi \in Nat, NEW c, c[lo] \in S,
           \A j \in lo + 1 .. hi : c[j - 1] \in S => c[j] \in S
    PROVE  \A j \in lo .. hi : c[j] \in S
<1> DEFINE X == {j \in lo .. hi : c[j] \in S}
<1> SUFFICES ASSUME lo <= hi PROVE \A j \in lo .. hi : c[j] \in S
  OBVIOUS
<1>1. lo \in X /\ \A j \in lo + 1 .. hi : j - 1 \in X => j \in X
  OBVIOUS
<1> HIDE DEF X
<1>2. lo .. hi \subseteq X
  BY <1>1, Upward
<1>. QED  BY <1>2 DEF X

-----------------------------------------------------------------------------
(* 6. Sequences cut and put together, and paths in a tree.                 *)

(* A part of s is t when it has the elements of t.                         *)
LEMMA CutOut ==
    ASSUME NEW S, NEW s \in Seq(S), NEW t \in Seq(S), NEW off \in Nat, NEW n \in Nat,
           Len(t) = n, off + n <= Len(s), \A j \in 1 .. n : s[off + j] = t[j]
    PROVE  SubSeq(s, off + 1, off + n) = t
<1> DEFINE u == SubSeq(s, off + 1, off + n)
<1>1. Len(s) \in Nat /\ off + 1 \in Int /\ off + n \in Int
  BY LenProperties
<1>2. \A i \in off + 1 .. off + n : s[i] \in S
  <2>1. \A i \in off + 1 .. off + n : i \in 1 .. Len(s)
    BY <1>1
  <2>. QED  BY <2>1, ElementOfSeq
<1>3. /\ u \in Seq(S)
      /\ Len(u) = IF off + 1 <= off + n THEN off + n - (off + 1) + 1 ELSE 0
      /\ \A i \in 1 .. off + n - (off + 1) + 1 : u[i] = s[off + 1 + i - 1]
  BY <1>1, <1>2, SubSeqProperties
<1> HIDE DEF u
<1>4. Len(u) = n /\ off + n - (off + 1) + 1 = n
  BY <1>3
<1>5. ASSUME NEW i \in 1 .. n PROVE u[i] = t[i]
  <2>1. off + 1 + i - 1 = off + i
    OBVIOUS
  <2>2. u[i] = s[off + 1 + i - 1]
    BY <1>3, <1>4
  <2>3. s[off + i] = t[i]
    OBVIOUS
  <2>. QED  BY <2>1, <2>2, <2>3
<1>6. u = t
  BY <1>3, <1>4, <1>5, SeqEqual
<1>. QED  BY <1>6 DEF u

(* Two joined sequences are cut apart again.                               *)
LEMMA CutJoined ==
    ASSUME NEW S, NEW s \in Seq(S), NEW t \in Seq(S)
    PROVE  /\ SubSeq(s \o t, 1, Len(s)) = s
           /\ SubSeq(s \o t, Len(s) + 1, Len(s) + Len(t)) = t
<1> DEFINE c == s \o t
           m == Len(s)
           n == Len(t)
<1>0. m \in Nat /\ n \in Nat
  BY LenProperties
<1>1. /\ c \in Seq(S) /\ Len(c) = m + n
      /\ \A i \in 1 .. m : c[i] = s[i]
      /\ \A i \in 1 .. n : c[m + i] = t[i]
  <2>1. \A x, y \in Seq(S) :
           /\ x \o y \in Seq(S) /\ Len(x \o y) = Len(x) + Len(y)
           /\ \A j \in 1 .. Len(x) : (x \o y)[j] = x[j]
           /\ \A j \in 1 .. Len(y) : (x \o y)[Len(x) + j] = y[j]
    BY ConcatParts
  <2>. QED  BY <2>1
<1> HIDE DEF c, m, n
<1>2. SubSeq(c, 0 + 1, 0 + m) = s
  <2>1. \A i \in 1 .. m : c[0 + i] = s[i]
    BY <1>0, <1>1
  <2>2. 0 \in Nat /\ 0 + m <= Len(c)
    BY <1>0, <1>1
  <2>. QED  BY <1>0, <1>1, <2>1, <2>2, CutOut DEF m
<1>3. SubSeq(c, m + 1, m + n) = t
  <2>1. m + n <= Len(c)
    BY <1>0, <1>1
  <2>. QED  BY <1>0, <1>1, <2>1, CutOut DEF n
<1>4. 0 + 1 = 1 /\ 0 + m = m
  BY <1>0
<1>. QED  BY <1>2, <1>3, <1>4 DEF c, m, n

(* q is the blocks of s, each of length b, one after the other.            *)
InBlocks(q, s, n, b) == \A l \in 1 .. n, j \in 1 .. b : q[(l - 1) * b + j] = s[l][j]

(* Flattening n sequences of length b puts them one after the other.       *)
LEMMA FlattenBlocks ==
    ASSUME NEW S, NEW n \in Nat \ {0}, NEW b \in Nat,
           NEW s \in Seq(Seq(S)), Len(s) = n, \A l \in 1 .. n : Len(s[l]) = b
    PROVE  /\ Ext!FlattenSeq(s) \in Seq(S) /\ Len(Ext!FlattenSeq(s)) = n * b
           /\ InBlocks(Ext!FlattenSeq(s), s, n, b)
<1> DEFINE Is(f) == f = [i \in 1 .. n |-> IF i = 1 THEN s[i] ELSE f[i - 1] \o s[i]]
           c == CHOOSE f : Is(f)
           G == [j \in 1 + 1 .. n |-> [x \in Seq(S) |-> x \o s[j]]]
           T == Seq(S)
<1>1. \A i \in 1 .. n : s[i] \in T
  BY ElementOfSeq
<1>2. \A x, y \in T : x \o y \in T
  BY ConcatProperties
<1>3. \A j \in 1 + 1 .. n : \A x \in T : G[j][x] = x \o s[j] /\ G[j][x] \in T
  <2> SUFFICES ASSUME NEW j \in 1 + 1 .. n, NEW x \in T
               PROVE  G[j][x] = x \o s[j] /\ x \o s[j] \in T
    BY Zenon
  <2>1. s[j] \in T
    BY <1>1
  <2>. QED  BY <1>2, <2>1
<1> HIDE DEF G, T
<1>4. PICK f \in [1 .. n -> T] : f[1] = s[1] /\ \A j \in 1 + 1 .. n : f[j] = G[j][f[j - 1]]
  <2>1. s[1] \in T /\ 1 <= n /\ 1 \in Nat /\ n \in Nat
    BY <1>1
  <2>2. \A j \in 1 + 1 .. n : \A x \in T : G[j][x] \in T
    BY <1>3
  <2>3. \E f : Iterate(f, T, 1, n, s[1], G)
    BY <2>1, <2>2, Iterates DEF ClosedUnder
  <2>. QED  BY <2>3 DEF Iterate
<1>5. Is(f)
  <2>1. ASSUME NEW i \in 1 .. n PROVE f[i] = IF i = 1 THEN s[i] ELSE f[i - 1] \o s[i]
    <3>1. CASE i = 1
      BY <1>4, <3>1
    <3>2. CASE i # 1
      <4>1. i \in 1 + 1 .. n /\ i - 1 \in 1 .. n
        BY <3>2
      <4>2. f[i] = G[i][f[i - 1]] /\ f[i - 1] \in T
        BY <1>4, <4>1
      <4>. QED  BY <1>3, <3>2, <4>1, <4>2
    <3>. QED  BY <3>1, <3>2
  <2>2. f = [i \in 1 .. n |-> f[i]]
    BY <1>4
  <2>. QED  BY <2>1, <2>2
<1>6. Is(c)
  <2> HIDE DEF Is
  <2>. QED  BY <1>5
<1>7. Ext!FlattenSeq(s) = c[n]
  BY DEF Ext!FlattenSeq
<1> HIDE DEF c
<1>8. /\ c[1] = s[1]
      /\ \A i \in 1 + 1 .. n : c[i] = c[i - 1] \o s[i]
  <2>1. \A i \in 1 .. n : c[i] = IF i = 1 THEN s[i] ELSE c[i - 1] \o s[i]
    BY <1>6
  <2>2. 1 \in 1 .. n /\ \A i \in 1 + 1 .. n : i \in 1 .. n /\ i # 1
    OBVIOUS
  <2>. QED  BY <2>1, <2>2
<1> DEFINE Good(i) == /\ c[i] \in T /\ Len(c[i]) = i * b
                      /\ \A l \in 1 .. i, j \in 1 .. b : c[i][(l - 1) * b + j] = s[l][j]
           X == {i \in 1 .. n : Good(i)}
<1>9. 1 \in X
  <2>1. c[1] = s[1] /\ s[1] \in T /\ Len(s[1]) = b /\ 1 * b = b
    BY <1>1, <1>8
  <2>2. \A l \in 1 .. 1, j \in 1 .. b : l = 1 /\ (l - 1) * b + j = j
    OBVIOUS
  <2>3. \A l \in 1 .. 1, j \in 1 .. b : c[1][(l - 1) * b + j] = s[l][j]
    BY <2>1, <2>2
  <2>4. Len(c[1]) = 1 * b
    BY <2>1
  <2>5. Good(1)
    BY <2>1, <2>3, <2>4
  <2>. QED  BY <2>5
<1>10. ASSUME NEW i \in 1 + 1 .. n, i - 1 \in X PROVE i \in X
  <2> DEFINE p == c[i - 1]
             t == s[i]
             k == i - 1
  <2>1. Good(k) /\ k \in 1 .. n /\ i = k + 1
    BY <1>10
  <2>2. p \in T /\ Len(p) = k * b /\ \A l \in 1 .. k, j \in 1 .. b : p[(l - 1) * b + j] = s[l][j]
    BY <2>1
  <2>3. t \in T /\ Len(t) = b /\ c[i] = p \o t
    <3>1. i \in 1 .. n /\ i \in 1 + 1 .. n
      BY <2>1
    <3>2. s[i] \in T /\ Len(s[i]) = b
      BY <1>1, <3>1
    <3>3. c[i] = c[i - 1] \o s[i]
      BY <1>8, <3>1
    <3>. QED  BY <3>2, <3>3
  <2> HIDE DEF p, t, k, Good
  <2>4. /\ p \o t \in T /\ Len(p \o t) = Len(p) + Len(t)
        /\ \A j \in 1 .. Len(p) : (p \o t)[j] = p[j]
        /\ \A j \in 1 .. Len(t) : (p \o t)[Len(p) + j] = t[j]
    <3>1. \A x, y \in Seq(S) :
             /\ x \o y \in Seq(S) /\ Len(x \o y) = Len(x) + Len(y)
             /\ \A j \in 1 .. Len(x) : (x \o y)[j] = x[j]
             /\ \A j \in 1 .. Len(y) : (x \o y)[Len(x) + j] = y[j]
      BY ConcatParts
    <3>. QED  BY <2>2, <2>3, <3>1 DEF T
  <2>5. k * b \in Nat /\ k * b + b = i * b
    BY <2>1
  <2>6. ASSUME NEW l \in 1 .. i, NEW j \in 1 .. b PROVE c[i][(l - 1) * b + j] = s[l][j]
    <3>1. CASE l = i
      <4>1. (l - 1) * b + j = Len(p) + j /\ s[l] = t /\ j \in 1 .. Len(t)
        BY <2>1, <2>2, <2>3, <3>1 DEF t, k
      <4>. QED  BY <2>3, <2>4, <4>1
    <3>2. CASE l # i
      <4>1. l \in 1 .. k
        BY <2>1, <3>2
      <4>2. (l - 1) * b + b <= k * b /\ (l - 1) * b \in Nat
        <5>1. l * b <= k * b /\ (l - 1) * b + b = l * b
          BY <2>1, <4>1
        <5>. QED  BY <2>5, <4>1, <5>1
      <4>3. (l - 1) * b + j \in 1 .. Len(p)
        <5>1. \A x, y \in Nat : x + b <= y => x + j \in 1 .. y
          OBVIOUS
        <5>. QED  BY <2>2, <2>5, <4>2, <5>1
      <4>. QED  BY <2>2, <2>3, <2>4, <4>1, <4>3
    <3>. QED  BY <3>1, <3>2
  <2>7. Good(i)
    BY <2>2, <2>3, <2>4, <2>5, <2>6 DEF Good
  <2>. QED  BY <2>7
<1> HIDE DEF X
<1>11. n \in X
  <2>1. 1 .. n \subseteq X
    BY <1>9, <1>10, Upward
  <2>. QED  BY <2>1
<1>12. Good(n)
  BY <1>11 DEF X
<1>. QED  BY <1>7, <1>12 DEF T, InBlocks

(* Halving an index: which child it is.                                    *)
LEMMA Parent ==
    ASSUME NEW p \in Nat
    PROVE  /\ p \div 2 \in Nat /\ p % 2 \in {0, 1}
           /\ p % 2 = 0 => p = 2 * (p \div 2) /\ p + 1 = 2 * (p \div 2) + 1
           /\ p % 2 = 1 => p = 2 * (p \div 2) + 1 /\ p - 1 = 2 * (p \div 2)
  OBVIOUS

(* Halving h times is halving h - 1 times and once more.                   *)
LEMMA HalvedOnce ==
    ASSUME NEW p \in Nat, NEW h \in Nat \ {0}
    PROVE  /\ p \div 2^(h - 1) \in Nat
           /\ p \div 2^h = (p \div 2^(h - 1)) \div 2
<1> DEFINE a == 2^(h - 1)
           k == h - 1
<1>1. k \in Nat /\ h = k + 1
  OBVIOUS
<1> HIDE DEF k
<1>2. 2^k \in Nat \ {0} /\ 2^(k + 1) = 2 * 2^k
  BY <1>1, PowNat, PowStep
<1>3. \A x \in Nat \ {0} : p \div x \in Nat /\ p \div (2 * x) = (p \div x) \div 2
  OBVIOUS
<1>. QED  BY <1>1, <1>2, <1>3 DEF k

(* A number of h bits has no bit left after h halvings.                    *)
LEMMA BelowPower ==
    ASSUME NEW p \in Nat, NEW h \in Nat, p < 2^h
    PROVE  p \div 2^h = 0
<1>1. 2^h \in Nat \ {0}
  BY PowNat
<1>2. \A x \in Nat \ {0} : p < x => p \div x = 0
  OBVIOUS
<1>. QED  BY <1>1, <1>2

(* A number of n bits has n - h bits left after h halvings.                *)
LEMMA Within ==
    ASSUME NEW n \in Nat, NEW h \in 0 .. n, NEW p \in Nat, p < 2^n
    PROVE  p \div 2^h \in 0 .. 2^(n - h) - 1
<1> DEFINE k == n - h
<1>1. h \in Nat /\ k \in Nat /\ n = h + k
  OBVIOUS
<1> HIDE DEF k
<1>2. 2^n = 2^h * 2^k /\ 2^h \in Nat \ {0} /\ 2^k \in Nat \ {0}
  BY <1>1, PowAdd, PowNat
<1>3. \A a, b \in Nat \ {0} : p < a * b => p \div a \in 0 .. b - 1
  <2> SUFFICES ASSUME NEW a \in Nat \ {0}, NEW b \in Nat \ {0}, p < a * b
               PROVE  p \div a \in 0 .. b - 1
    OBVIOUS
  <2> DEFINE q == p \div a
  <2>1. q \in Nat /\ a * q <= p
    OBVIOUS
  <2> HIDE DEF q
  <2>2. b <= q => a * b <= a * q
    BY <2>1
  <2>3. a * q \in Nat /\ a * b \in Nat
    BY <2>1
  <2>4. q <= b - 1
    BY <2>1, <2>2, <2>3
  <2>. QED  BY <2>1, <2>4 DEF q
<1>. QED  BY <1>2, <1>3 DEF k

(* The place of the other child.                                           *)
Beside(i) == IF i % 2 = 0 THEN i + 1 ELSE i - 1

(* An index in a level of a tree, its sibling and its parent.              *)
LEMMA Family ==
    ASSUME NEW n \in Nat, NEW h \in 1 .. n, NEW leaf \in Nat, leaf < 2^n
    PROVE  LET p == leaf \div 2^(h - 1)
               i == leaf \div 2^h
           IN  /\ p \in 0 .. 2^(n - (h - 1)) - 1 /\ i \in 0 .. 2^(n - h) - 1
               /\ Beside(p) \in 0 .. 2^(n - (h - 1)) - 1
               /\ p % 2 \in {0, 1}
               /\ p % 2 = 0 => p = 2 * i /\ Beside(p) = 2 * i + 1
               /\ p % 2 = 1 => p = 2 * i + 1 /\ Beside(p) = 2 * i
<1> DEFINE p == leaf \div 2^(h - 1)
           i == leaf \div 2^h
           b == 2^(n - h)
           k == n - h
<1>1. h \in 0 .. n /\ h - 1 \in 0 .. n /\ h \in Nat \ {0} /\ k \in Nat /\ n - (h - 1) = k + 1
  OBVIOUS
<1>2. p \in 0 .. 2^(n - (h - 1)) - 1 /\ i \in 0 .. 2^(n - h) - 1
  BY <1>1, Within
<1>3. i = p \div 2 /\ p \in Nat
  BY <1>1, HalvedOnce
<1>4. 2^(n - (h - 1)) = 2 * b /\ b \in Nat
  <2> HIDE DEF k
  <2>1. 2^(k + 1) = 2 * 2^k /\ 2^k \in Nat
    BY <1>1, PowStep, PowNat
  <2>. QED  BY <1>1, <2>1 DEF k
<1> HIDE DEF p, i, b
<1>5. /\ p % 2 \in {0, 1}
      /\ p % 2 = 0 => p = 2 * i /\ p + 1 = 2 * i + 1
      /\ p % 2 = 1 => p = 2 * i + 1 /\ p - 1 = 2 * i
  BY <1>3, Parent
<1>6. i \in 0 .. b - 1
  BY <1>2 DEF b
<1>7. Beside(p) \in 0 .. 2 * b - 1
  BY <1>4, <1>5, <1>6 DEF Beside
<1>. QED  BY <1>2, <1>4, <1>5, <1>7 DEF Beside, p, i

(* L holds the levels of a tree over n levels, T the hash of a pair at     *)
(* each place.                                                             *)
TreeBy(T, n, V, L) ==
    /\ \A h \in 0 .. n : L[h] \in [0 .. 2^(n - h) - 1 -> V]
    /\ \A h \in 1 .. n : \A i \in 0 .. 2^(n - h) - 1 :
          L[h][i] = T[h][i][<<L[h - 1][2 * i], L[h - 1][2 * i + 1]>>]

(* auth holds the siblings along the path from a leaf.                     *)
PathIn(L, n, leaf, auth) ==
    \A h \in 1 .. n : auth[h] = L[h - 1][Beside(leaf \div 2^(h - 1))]

(* c holds the values on the way up.                                       *)
ClimbBy(T, n, leaf, auth, c) ==
    \A h \in 1 .. n : c[h] = T[h][leaf \div 2^h][
        IF (leaf \div 2^(h - 1)) % 2 = 0 THEN <<c[h - 1], auth[h]>>
                                         ELSE <<auth[h], c[h - 1]>>]

(* Climbing from a leaf along its siblings ends in the root of the tree.   *)
LEMMA PathReachesRoot ==
    ASSUME NEW n \in Nat, NEW leaf \in Nat, leaf < 2^n, NEW V, NEW L, NEW T, NEW c, NEW auth,
           TreeBy(T, n, V, L), PathIn(L, n, leaf, auth), ClimbBy(T, n, leaf, auth, c),
           c[0] = L[0][leaf]
    PROVE  c[n] = L[n][0]
<1> USE DEF TreeBy, PathIn, ClimbBy
<1> DEFINE X == {h \in 0 .. n : c[h] = L[h][leaf \div 2^h]}
<1>1. 0 \in X
  <2>1. 2^0 = 1
    OBVIOUS
  <2>2. leaf \div 2^0 = leaf
    BY <2>1
  <2>. QED  BY <2>2
<1>2. ASSUME NEW h \in 0 + 1 .. n, h - 1 \in X PROVE h \in X
  <2> DEFINE p == leaf \div 2^(h - 1)
             i == leaf \div 2^h
  <2>0. h \in 1 .. n /\ h \in 0 .. n
    BY <1>2
  <2>1. /\ i \in 0 .. 2^(n - h) - 1 /\ p % 2 \in {0, 1}
        /\ p % 2 = 0 => p = 2 * i /\ Beside(p) = 2 * i + 1
        /\ p % 2 = 1 => p = 2 * i + 1 /\ Beside(p) = 2 * i
    BY <2>0, Family
  <2>2. c[h - 1] = L[h - 1][p]
    BY <1>2
  <2>3. auth[h] = L[h - 1][Beside(p)]
    BY <2>0
  <2>4. c[h] = T[h][i][IF p % 2 = 0 THEN <<c[h - 1], auth[h]>> ELSE <<auth[h], c[h - 1]>>]
    BY <2>0
  <2>5. L[h][i] = T[h][i][<<L[h - 1][2 * i], L[h - 1][2 * i + 1]>>]
    BY <2>0, <2>1
  <2> HIDE DEF p, i
  <2>6. (IF p % 2 = 0 THEN <<c[h - 1], auth[h]>> ELSE <<auth[h], c[h - 1]>>)
           = <<L[h - 1][2 * i], L[h - 1][2 * i + 1]>>
    <3>1. CASE p % 2 = 0
      BY <2>1, <2>2, <2>3, <3>1
    <3>2. CASE p % 2 = 1
      BY <2>1, <2>2, <2>3, <3>2
    <3>. QED  BY <2>1, <3>1, <3>2
  <2>7. c[h] = L[h][i]
    BY <2>4, <2>5, <2>6
  <2>. QED  BY <2>0, <2>7 DEF i
<1> HIDE DEF X
<1>3. n \in X
  <2>1. 0 .. n \subseteq X
    BY <1>1, <1>2, Upward
  <2>. QED  BY <2>1
<1>4. c[n] = L[n][leaf \div 2^n]
  BY <1>3 DEF X
<1>. QED  BY <1>4, BelowPower

(* f is n steps of G, from position from on.                               *)
Follows(f, G, from, n) == \A j \in 1 .. n : f[j] = G[from + j - 1][f[j - 1]]

(* A chain climbed to d and climbed on from there ends where one climb of  *)
(* all n steps ends.                                                       *)
LEMMA ChainsJoin ==
    ASSUME NEW n \in Nat, NEW d \in 0 .. n, NEW G, NEW f, NEW g, NEW h,
           f[0] = g[0], h[0] = g[d],
           Follows(f, G, 0, n), Follows(g, G, 0, d), Follows(h, G, d, n - d)
    PROVE  h[n - d] = f[n]
<1>0. /\ d \in Nat /\ n - d \in Nat
      /\ \A j \in 1 .. n : f[j] = G[j - 1][f[j - 1]]
      /\ \A j \in 1 .. d : g[j] = G[j - 1][g[j - 1]]
      /\ \A j \in 1 .. n - d : h[j] = G[d + j - 1][h[j - 1]]
  <2>1. \A j \in Int : 0 + j - 1 = j - 1
    OBVIOUS
  <2>. QED  BY <2>1 DEF Follows
<1>1. g[d] = f[d]
  <2> DEFINE X == {j \in 0 .. d : g[j] = f[j]}
  <2>1. 0 \in X
    OBVIOUS
  <2>2. ASSUME NEW j \in 0 + 1 .. d, j - 1 \in X PROVE j \in X
    <3>1. j \in 1 .. d /\ j \in 1 .. n
      OBVIOUS
    <3>2. g[j - 1] = f[j - 1]
      BY <2>2
    <3>. QED  BY <1>0, <3>1, <3>2
  <2> HIDE DEF X
  <2>3. d \in X
    <3>1. 0 .. d \subseteq X
      BY <1>0, <2>1, <2>2, Upward
    <3>. QED  BY <3>1
  <2>. QED  BY <2>3 DEF X
<1>2. h[n - d] = f[n]
  <2> DEFINE k == n - d
             X == {j \in 0 .. k : h[j] = f[d + j]}
  <2>1. 0 \in X
    <3>1. d + 0 = d
      OBVIOUS
    <3>. QED  BY <1>0, <1>1, <3>1
  <2>2. ASSUME NEW j \in 0 + 1 .. k, j - 1 \in X PROVE j \in X
    <3>1. h[j - 1] = f[d + (j - 1)]
      BY <2>2
    <3>2. j \in 1 .. n - d /\ d + j \in 1 .. n /\ (d + j) - 1 = d + (j - 1) /\ d + j - 1 = d + (j - 1)
      OBVIOUS
    <3>3. h[j] = G[d + j - 1][h[j - 1]] /\ f[d + j] = G[(d + j) - 1][f[(d + j) - 1]]
      BY <1>0, <3>2
    <3>4. h[j] = f[d + j]
      BY <3>1, <3>2, <3>3
    <3>. QED  BY <3>4
  <2>3. k \in Nat /\ d + k = n
    OBVIOUS
  <2> HIDE DEF X, k
  <2>4. k \in X
    <3>1. 0 .. k \subseteq X
      BY <2>1, <2>2, <2>3, Upward
    <3>. QED  BY <2>3, <3>1
  <2>. QED  BY <2>3, <2>4 DEF X, k
<1>. QED  BY <1>2
-----------------------------------------------------------------------------
(* 7. Quotients, and parts of parts of a sequence.                         *)

(* Division is unique.                                                     *)
LEMMA DivUnique ==
    ASSUME NEW a \in Nat \ {0}, NEW q \in Nat, NEW t \in 0 .. a - 1
    PROVE  (a * q + t) \div a = q /\ (a * q + t) % a = t
<1> DEFINE x == a * q + t
           p == x \div a
           r == x % a
<1>1. a * q \in Nat /\ t \in Nat
  OBVIOUS
<1>2. x \in Nat /\ p \in Nat /\ r \in 0 .. a - 1 /\ x = a * p + r
  BY <1>1
<1>3. x = a * q + t
  OBVIOUS
<1> HIDE DEF x, p, r
<1>4. p = q
  <2>1. CASE p < q
    <3>1. a * q >= a * (p + 1) /\ a * (p + 1) = a * p + a
      BY <1>2, <2>1
    <3>2. a * p \in Nat /\ a * q \in Nat
      BY <1>2
    <3>. QED  BY <1>2, <1>3, <3>1, <3>2
  <2>2. CASE p > q
    <3>1. a * p >= a * (q + 1) /\ a * (q + 1) = a * q + a
      BY <1>2, <2>2
    <3>2. a * p \in Nat /\ a * q \in Nat
      BY <1>2
    <3>. QED  BY <1>2, <1>3, <3>1, <3>2
  <2>. QED  BY <1>2, <2>1, <2>2
<1>5. r = t
  <2>1. a * p = a * q
    BY <1>4
  <2>. QED  BY <1>1, <1>2, <1>3, <2>1
<1>. QED  BY <1>4, <1>5 DEF x, p, r

(* Adding a multiple.                                                      *)
LEMMA DivAdd ==
    ASSUME NEW a \in Nat \ {0}, NEW k \in Nat, NEW r \in Nat
    PROVE  (a * k + r) \div a = k + (r \div a) /\ (a * k + r) % a = r % a
<1> DEFINE q == r \div a
           t == r % a
<1>1. q \in Nat /\ t \in 0 .. a - 1 /\ r = a * q + t
  OBVIOUS
<1> HIDE DEF q, t
<1>2. a * k + r = a * (k + q) + t /\ k + q \in Nat
  BY <1>1
<1>3. (a * (k + q) + t) \div a = k + q /\ (a * (k + q) + t) % a = t
  BY <1>1, <1>2, DivUnique
<1>. QED  BY <1>2, <1>3 DEF q, t

(* The bits of a number within its low bits.                               *)
LEMMA LowBits ==
    ASSUME NEW y \in Nat, NEW e \in Nat, NEW g \in Nat, NEW h \in Nat, e + g <= h
    PROVE  ((y % 2^h) \div 2^e) % 2^g = (y \div 2^e) % 2^g
<1> DEFINE f == h - (e + g)
           a == 2^e
           b == 2^g
           c == 2^f
<1>1. f \in Nat /\ h = e + (g + f) /\ g + f \in Nat
  OBVIOUS
<1> HIDE DEF f
<1>2. a \in Nat \ {0} /\ b \in Nat \ {0} /\ c \in Nat \ {0} /\ 2^h = a * (b * c)
  <2>1. a \in Nat \ {0} /\ b \in Nat \ {0} /\ c \in Nat \ {0}
    BY <1>1, PowNat
  <2>2. 2^(e + (g + f)) = 2^e * 2^(g + f)
    BY <1>1, PowAdd
  <2>3. 2^(g + f) = 2^g * 2^f
    BY <1>1, PowAdd
  <2>. QED  BY <1>1, <2>1, <2>2, <2>3
<1> HIDE DEF a, b, c
<1> DEFINE m == a * (b * c)
           q == y \div m
           r == y % m
<1>3. b * c \in Nat \ {0} /\ m \in Nat \ {0}
  BY <1>2
<1>4. q \in Nat /\ r \in Nat /\ y = m * q + r
  <2> HIDE DEF m
  <2>. QED  BY <1>3
<1> HIDE DEF q, r
<1>5. PICK z \in Nat : z = c * q
  BY <1>2, <1>4
<1>6. PICK x \in Nat : x = b * z
  BY <1>2
<1>7. y = a * x + r
  BY <1>2, <1>4, <1>5, <1>6
<1>8. y \div a = x + (r \div a)
  <2> HIDE DEF m
  <2>1. \A k \in Nat : (a * k + r) \div a = k + (r \div a)
    BY <1>2, <1>4, DivAdd
  <2>. QED  BY <1>7, <2>1
<1>9. (y \div a) % b = (r \div a) % b
  <2> HIDE DEF m
  <2>1. r \div a \in Nat
    BY <1>2, <1>4
  <2>2. \A k, s \in Nat : (b * k + s) % b = s % b
    BY <1>2, DivAdd
  <2>. QED  BY <1>6, <1>8, <2>1, <2>2
<1>. QED  BY <1>2, <1>9 DEF a, b, r

(* A position in a row of n blocks of b.                                   *)
LEMMA InBlock ==
    ASSUME NEW n \in Nat, NEW b \in Nat \ {0}, NEW k \in 1 .. n * b
    PROVE  /\ (k - 1) \div b + 1 \in 1 .. n /\ ((k - 1) % b) + 1 \in 1 .. b
           /\ k = ((k - 1) \div b) * b + (((k - 1) % b) + 1)
<1> DEFINE q == (k - 1) \div b
           r == (k - 1) % b
<1>1. q \in Nat /\ r \in 0 .. b - 1 /\ k - 1 = b * q + r /\ n * b \in Nat
  OBVIOUS
<1>0. q = (k - 1) \div b /\ r = (k - 1) % b
  OBVIOUS
<1> HIDE DEF q, r
<1>2. q < n
  <2>1. q >= n => b * q >= b * n /\ b * n = n * b
    BY <1>1
  <2>2. b * q \in Nat
    BY <1>1
  <2>. QED  BY <1>1, <2>1, <2>2
<1>3. q + 1 \in 1 .. n /\ r + 1 \in 1 .. b /\ k = q * b + (r + 1)
  BY <1>1, <1>2
<1>. QED  BY <1>0, <1>3

(* A piece of a piece of a sequence.                                       *)
LEMMA CutOfCut ==
    ASSUME NEW S, NEW s \in Seq(S), NEW a \in Nat, NEW n \in Nat, a + n <= Len(s),
           NEW b \in Nat, NEW k \in Nat, b + k <= n
    PROVE  /\ SubSeq(s, a + 1, a + n) \in Seq(S) /\ Len(SubSeq(s, a + 1, a + n)) = n
           /\ \A j \in 1 .. n : SubSeq(s, a + 1, a + n)[j] = s[a + j]
           /\ SubSeq(SubSeq(s, a + 1, a + n), b + 1, b + k) = SubSeq(s, a + b + 1, a + b + k)
<1>1. ASSUME NEW x \in Nat, NEW y \in Nat, x + y <= Len(s)
      PROVE  /\ SubSeq(s, x + 1, x + y) \in Seq(S) /\ Len(SubSeq(s, x + 1, x + y)) = y
             /\ \A j \in 1 .. y : SubSeq(s, x + 1, x + y)[j] = s[x + j]
  <2> DEFINE u == SubSeq(s, x + 1, x + y)
  <2>1. Len(s) \in Nat /\ x + 1 \in Int /\ x + y \in Int
    BY LenProperties
  <2>2. \A i \in x + 1 .. x + y : s[i] \in S
    <3>1. \A i \in x + 1 .. x + y : i \in 1 .. Len(s)
      BY <1>1, <2>1
    <3>. QED  BY <3>1, ElementOfSeq
  <2>3. /\ u \in Seq(S)
        /\ Len(u) = IF x + 1 <= x + y THEN x + y - (x + 1) + 1 ELSE 0
        /\ \A i \in 1 .. x + y - (x + 1) + 1 : u[i] = s[x + 1 + i - 1]
    BY <2>1, <2>2, SubSeqProperties
  <2> HIDE DEF u
  <2>4. Len(u) = y /\ x + y - (x + 1) + 1 = y
    BY <2>3
  <2>5. ASSUME NEW i \in 1 .. y PROVE u[i] = s[x + i]
    <3>1. x + 1 + i - 1 = x + i
      OBVIOUS
    <3>. QED  BY <2>3, <2>4, <3>1
  <2>. QED  BY <2>3, <2>4, <2>5 DEF u
<1> DEFINE u == SubSeq(s, a + 1, a + n)
           t == SubSeq(s, a + b + 1, a + b + k)
<1>2. u \in Seq(S) /\ Len(u) = n /\ \A j \in 1 .. n : u[j] = s[a + j]
  BY <1>1
<1>3. t \in Seq(S) /\ Len(t) = k /\ \A j \in 1 .. k : t[j] = s[(a + b) + j]
  <2>1. a + b \in Nat /\ Len(s) \in Nat
    BY LenProperties
  <2>2. (a + b) + k <= Len(s)
    BY <2>1
  <2>. QED  BY <1>1, <2>1, <2>2
<1> HIDE DEF u, t
<1>4. \A j \in 1 .. k : u[b + j] = t[j]
  <2> SUFFICES ASSUME NEW j \in 1 .. k PROVE u[b + j] = t[j]
    OBVIOUS
  <2>1. b + j \in 1 .. n /\ a + (b + j) = (a + b) + j
    OBVIOUS
  <2>. QED  BY <1>2, <1>3, <2>1
<1>5. SubSeq(u, b + 1, b + k) = t
  BY <1>2, <1>3, <1>4, CutOut
<1>. QED  BY <1>2, <1>5 DEF u, t

(* A secret and a path for each of k trees, one after the other: the parts *)
(* for tree i.                                                             *)
LEMMA SecretAndPath ==
    ASSUME NEW k \in Nat, NEW a \in Nat, NEW S, NEW sig \in Seq(S),
           Len(sig) = k * (1 + a), NEW i \in 1 .. k
    PROVE  /\ SubSeq(sig, (i - 1) * (1 + a) + 1, i * (1 + a))[1] = sig[(i - 1) * (1 + a) + 1]
           /\ Len(SubSeq(sig, (i - 1) * (1 + a) + 2, (i - 1) * (1 + a) + 1 + a)) = a
           /\ \A h \in 1 .. a :
                 SubSeq(sig, (i - 1) * (1 + a) + 2, (i - 1) * (1 + a) + 1 + a)[h]
                    = SubSeq(sig, (i - 1) * (1 + a) + 1, i * (1 + a))[h + 1]
<1> DEFINE b == 1 + a
           off == (i - 1) * b
           part == SubSeq(sig, (i - 1) * (1 + a) + 1, i * (1 + a))
           path == SubSeq(sig, (i - 1) * (1 + a) + 2, (i - 1) * (1 + a) + 1 + a)
<1>1. a \in Nat /\ b \in Nat /\ k \in Nat
  OBVIOUS
<1>2. off \in Nat /\ off + b <= k * b /\ k * b \in Nat /\ i * b = off + b
  <2>1. i - 1 \in Nat /\ i - 1 + 1 <= k
    BY <1>1
  <2>2. \A x, d, g \in Nat : x + 1 <= d => /\ x * g \in Nat /\ x * g + g <= d * g /\ d * g \in Nat
                                           /\ (x + 1) * g = x * g + g
    <3> SUFFICES ASSUME NEW x \in Nat, NEW d \in Nat, NEW g \in Nat, x + 1 <= d
                 PROVE  x * g + g <= d * g /\ (x + 1) * g = x * g + g
      OBVIOUS
    <3>1. (x + 1) * g <= d * g /\ (x + 1) * g = x * g + g
      OBVIOUS
    <3>. QED  BY <3>1
  <2> HIDE DEF b
  <2>3. \A d, g \in Nat : i - 1 + 1 <= d =>
           /\ (i - 1) * g \in Nat /\ (i - 1) * g + g <= d * g /\ d * g \in Nat
           /\ (i - 1 + 1) * g = (i - 1) * g + g
    BY <2>1, <2>2, Zenon
  <2>4. i - 1 + 1 = i
    BY <1>1
  <2>. QED  BY <1>1, <2>1, <2>3, <2>4, Zenon
<1>3. part = SubSeq(sig, off + 1, i * b)
  OBVIOUS
<1>4. path = SubSeq(sig, off + 2, off + 1 + a)
  OBVIOUS
<1>5. Len(sig) = k * b /\ (i - 1) * (1 + a) = off
  OBVIOUS
<1>6. b = 1 + a
  OBVIOUS
<1> HIDE DEF b, off, part, path
<1>7. PICK n \in Nat : n = k * b
  BY <1>2
<1>8. off + b <= Len(sig) /\ (off + 1) + a <= Len(sig) /\ off + 2 = (off + 1) + 1 /\ off + 1 \in Nat
  BY <1>1, <1>2, <1>5, <1>6, <1>7
<1>9. \A j \in 1 .. b : SubSeq(sig, off + 1, off + b)[j] = sig[off + j]
  <2>1. 0 \in Nat /\ 0 + 0 <= b
    BY <1>1
  <2>. QED  BY <1>1, <1>2, <1>8, <2>1, CutOfCut
<1>0. PICK e \in Nat : e = off + 1
  BY <1>8
<1>10. /\ Len(SubSeq(sig, e + 1, e + a)) = a
       /\ \A j \in 1 .. a : SubSeq(sig, e + 1, e + a)[j] = sig[e + j]
  <2>1. 0 \in Nat /\ 0 + 0 <= a /\ e + a <= Len(sig)
    BY <1>0, <1>1, <1>8
  <2>. QED  BY <1>1, <2>1, CutOfCut
<1>11. part = SubSeq(sig, off + 1, off + b)
  BY <1>2, <1>3
<1>12. path = SubSeq(sig, e + 1, e + a)
  BY <1>0, <1>4, <1>8
<1>13. 1 \in 1 .. b /\ \A j \in 1 .. a : j + 1 \in 1 .. b /\ off + (j + 1) = e + j
  BY <1>0, <1>1, <1>2, <1>6
<1>14. part[1] = sig[off + 1]
  BY <1>9, <1>11, <1>13
<1>15. ASSUME NEW h \in 1 .. a PROVE path[h] = part[h + 1]
  BY <1>9, <1>10, <1>11, <1>12, <1>13
<1>16. Len(path) = a
  BY <1>10, <1>12
<1>. QED  BY <1>5, <1>14, <1>15, <1>16 DEF part, path

-----------------------------------------------------------------------------
(* 8. Folds over sequences.                                                *)

(* The member the folds of sequences take off first.                       *)
Top(s) == CHOOSE x \in s : \A y \in s : x >= y

(* It is the greatest, of a prefix the last.                               *)
LEMMA TopIs ==
    ASSUME NEW n \in Nat
    PROVE  /\ \A s \in SUBSET (1 .. n) :
                 s # {} => Top(s) \in s /\ \A y \in s : Top(s) >= y
           /\ \A j \in 1 .. n : 1 .. j \in SUBSET (1 .. n) /\ 1 .. j # {} /\ Top(1 .. j) = j
                                 /\ (1 .. j) \ {j} = 1 .. j - 1
<1>1. ASSUME NEW s \in SUBSET (1 .. n), s # {}
      PROVE  Top(s) \in s /\ \A y \in s : Top(s) >= y
  <2> DEFINE F == {n - y : y \in s}
  <2>1. F \in SUBSET Nat /\ F # {}
    <3>1. \A y \in s : y \in 1 .. n /\ n - y \in Nat
      OBVIOUS
    <3>. QED  BY <1>1, <3>1
  <2>2. PICK k \in F : \A m \in F : k <= m
    <3> HIDE DEF F
    <3>. QED  BY <2>1, LeastNumber
  <2>3. PICK x \in s : k = n - x
    BY <2>2
  <2>4. \A y \in s : x >= y
    <3> SUFFICES ASSUME NEW y \in s PROVE x >= y
      OBVIOUS
    <3>1. n - y \in F
      OBVIOUS
    <3>2. n - x <= n - y
      BY <2>2, <2>3, <3>1
    <3>3. x \in 1 .. n /\ y \in 1 .. n
      OBVIOUS
    <3>. QED  BY <3>2, <3>3
  <2>. QED  BY <2>4, Zenon DEF Top
<1>2. ASSUME NEW j \in 1 .. n
      PROVE  1 .. j \in SUBSET (1 .. n) /\ 1 .. j # {} /\ Top(1 .. j) = j
                /\ (1 .. j) \ {j} = 1 .. j - 1
  <2>1. 1 .. j \in SUBSET (1 .. n) /\ j \in 1 .. j /\ (1 .. j) \ {j} = 1 .. j - 1
    OBVIOUS
  <2>2. Top(1 .. j) \in 1 .. j /\ \A y \in 1 .. j : Top(1 .. j) >= y
    BY <1>1, <2>1
  <2>3. Top(1 .. j) >= j
    BY <2>1, <2>2
  <2>. QED  BY <2>1, <2>2, <2>3
<1>. QED  BY <1>1, <1>2

(* t holds what a fold with the steps of G from b makes of each subset of  *)
(* positions.                                                              *)
FoldTable(t, S, n, b, G) ==
    /\ t \in [SUBSET (1 .. n) -> S]
    /\ \A s \in SUBSET (1 .. n) :
          t[s] = IF s = {} THEN b ELSE G[Top(s)][t[s \ {Top(s)}]]

(* It exists, when the steps stay in a set: the fold over a subset goes    *)
(* through all positions and leaves out those that are not in it.          *)
LEMMA FoldTableExists ==
    ASSUME NEW S, NEW n \in Nat, NEW b \in S, NEW G, ClosedUnder(S, 0, n, G)
    PROVE  \E t : FoldTable(t, S, n, b, G)
<1> DEFINE Gs(s) == [j \in 1 .. n |-> [x \in S |-> IF j \in s THEN G[j][x] ELSE x]]
           R(s)  == CHOOSE f : Iterate(f, S, 0, n, b, Gs(s))
           t     == [s \in SUBSET (1 .. n) |-> R(s)[n]]
<1>1. \A s : \A j \in 1 .. n : \A x \in S :
          /\ j \in s => Gs(s)[j][x] = G[j][x]
          /\ j \notin s => Gs(s)[j][x] = x
  OBVIOUS
<1>2. \A j \in 1 .. n : \A x \in S : G[j][x] \in S
  BY DEF ClosedUnder
<1> HIDE DEF Gs
<1>3. \A s : Iterate(R(s), S, 0, n, b, Gs(s))
  <2> SUFFICES ASSUME NEW s PROVE \E f : Iterate(f, S, 0, n, b, Gs(s))
    OBVIOUS
  <2>1. \A j \in 0 + 1 .. n : \A x \in S : Gs(s)[j][x] \in S
    BY <1>1, <1>2
  <2>2. ClosedUnder(S, 0, n, Gs(s))
    BY <2>1 DEF ClosedUnder
  <2>3. 0 \in Nat /\ 0 <= n
    OBVIOUS
  <2>. QED  BY <2>2, <2>3, Iterates
<1> HIDE DEF R
<1>4. \A s : /\ R(s)[0] = b
             /\ \A j \in 0 .. n : R(s)[j] \in S
             /\ \A j \in 1 .. n : /\ j \in s => R(s)[j] = G[j][R(s)[j - 1]]
                                  /\ j \notin s => R(s)[j] = R(s)[j - 1]
  <2> SUFFICES ASSUME NEW s
               PROVE  /\ R(s)[0] = b
                      /\ \A j \in 0 .. n : R(s)[j] \in S
                      /\ \A j \in 1 .. n : /\ j \in s => R(s)[j] = G[j][R(s)[j - 1]]
                                           /\ j \notin s => R(s)[j] = R(s)[j - 1]
    OBVIOUS
  <2>1. R(s) \in [0 .. n -> S] /\ R(s)[0] = b
        /\ \A j \in 1 .. n : R(s)[j] = Gs(s)[j][R(s)[j - 1]]
    BY <1>3 DEF Iterate
  <2>2. \A j \in 1 .. n : j - 1 \in 0 .. n
    OBVIOUS
  <2>. QED  BY <1>1, <2>1, <2>2
<1>5. \A s \in SUBSET (1 .. n) : t[s] = R(s)[n] /\ t[s] \in S
  BY <1>4
<1>6. t \in [SUBSET (1 .. n) -> S]
  BY <1>4
<1> HIDE DEF t
<1>7. t[{}] = b
  <2> DEFINE X == {j \in 0 .. n : R({})[j] = b}
  <2>1. 0 \in X /\ 0 \in Nat
    BY <1>4
  <2>2. \A j \in 0 + 1 .. n : j - 1 \in X => j \in X
    BY <1>4
  <2>3. 0 .. n \subseteq X
    <3> HIDE DEF X
    <3>. QED  BY <2>1, <2>2, Upward
  <2>. QED  BY <1>5, <2>3
<1>8. ASSUME NEW s \in SUBSET (1 .. n), s # {}
      PROVE  t[s] = G[Top(s)][t[s \ {Top(s)}]]
  <2> DEFINE m == Top(s)
             r == s \ {m}
  <2>1. m \in s /\ m \in 1 .. n /\ (\A y \in s : m >= y) /\ r \in SUBSET (1 .. n)
    BY <1>8, TopIs
  <2> HIDE DEF m
  <2>2. R(s)[m] = G[m][R(s)[m - 1]]
    BY <1>4, <2>1
  <2>3. R(s)[m - 1] = R(r)[m - 1]
    <3>0. PICK k \in Nat : k = m - 1
      BY <2>1
    <3> DEFINE X == {j \in 0 .. k : R(s)[j] = R(r)[j]}
    <3>1. 0 \in X /\ 0 \in Nat /\ k \in 0 .. k
      BY <1>4
    <3>2. \A j \in 0 + 1 .. k : j - 1 \in X => j \in X
      <4> SUFFICES ASSUME NEW j \in 0 + 1 .. k, R(s)[j - 1] = R(r)[j - 1]
                   PROVE  R(s)[j] = R(r)[j]
        OBVIOUS
      <4>1. j \in 1 .. n /\ (j \in s <=> j \in r)
        BY <2>1, <3>0
      <4>. QED  BY <1>4, <4>1
    <3>3. 0 .. k \subseteq X
      <4> HIDE DEF X
      <4>. QED  BY <3>1, <3>2, Upward
    <3>4. R(s)[k] = R(r)[k]
      BY <3>1, <3>3
    <3>. QED  BY <3>0, <3>4
  <2>4. R(s)[n] = R(s)[m]
    <3> DEFINE X == {j \in m .. n : R(s)[j] = R(s)[m]}
    <3>1. m \in X /\ m \in Nat
      BY <2>1
    <3>2. \A j \in m + 1 .. n : j - 1 \in X => j \in X
      <4> SUFFICES ASSUME NEW j \in m + 1 .. n, R(s)[j - 1] = R(s)[m]
                   PROVE  R(s)[j] = R(s)[m]
        BY <2>1
      <4>1. j \in 1 .. n /\ j \notin s
        BY <2>1
      <4>. QED  BY <1>4, <4>1
    <3>3. m .. n \subseteq X
      <4> HIDE DEF X
      <4>. QED  BY <3>1, <3>2, Upward
    <3>. QED  BY <2>1, <3>3
  <2>5. R(r)[n] = R(r)[m - 1]
    <3> DEFINE X == {j \in m - 1 .. n : R(r)[j] = R(r)[m - 1]}
    <3>1. m - 1 \in X /\ m - 1 \in Nat
      BY <2>1
    <3>2. \A j \in (m - 1) + 1 .. n : j - 1 \in X => j \in X
      <4> SUFFICES ASSUME NEW j \in (m - 1) + 1 .. n, R(r)[j - 1] = R(r)[m - 1]
                   PROVE  R(r)[j] = R(r)[m - 1]
        BY <2>1
      <4>1. j \in 1 .. n /\ j \notin r
        BY <2>1
      <4>. QED  BY <1>4, <4>1
    <3>3. m - 1 .. n \subseteq X
      <4> HIDE DEF X
      <4>. QED  BY <3>1, <3>2, Upward
    <3>. QED  BY <2>1, <3>3
  <2>6. t[s] = G[m][t[r]]
    BY <1>5, <2>1, <2>2, <2>3, <2>4, <2>5
  <2>. QED  BY <2>6 DEF m
<1>9. FoldTable(t, S, n, b, G)
  BY <1>6, <1>7, <1>8 DEF FoldTable
<1>. QED  BY <1>9
=============================================================================
