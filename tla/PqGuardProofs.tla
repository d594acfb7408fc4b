---------------------------- MODULE PqGuardProofs ----------------------------
(***************************************************************************)
(* Theorems about PqGuard, and about what builds on it: the vaults that    *)
(* are drawn from with a witness (PqVault) and the programs that send the  *)
(* transactions (PqClients).  The three models share one ledger, and the   *)
(* later parts rest on the theorems of the first.  All constants are       *)
(* arbitrary: addresses, objects, keys, messages and SUI, users, tabs,     *)
(* scripts and attempts.                                                   *)
(*                                                                         *)
(* PqGuard (sections 1 to 5).  Each command is a function of the ledger    *)
(* record, so what it preserves is a lemma about that record (section 1    *)
(* for types, section 2 for KeyInv).  The specification keeps two such     *)
(* records, the committed one and the transaction's copy, and the lemmas   *)
(* apply to both; section 3 relates the two, section 4 draws the           *)
(* conclusions.                                                            *)
(*                                                                         *)
(* PqVault (sections 6 to 10) goes the same way with the record of a bank. *)
(*                                                                         *)
(* PqClients (sections 11 to 16). Whatever a program does, the pipeline    *)
(* only moves forward (section 11): identities keep their key and owner,   *)
(* nonces and uses grow, a status once known stays. What the histories of  *)
(* the transactions say of the ledger (section 12) and what the programs   *)
(* believe (sections 13 to 15) is stated in terms that such a step cannot  *)
(* undo, so that each step has to be considered only for what it adds. No  *)
(* part of it asks that a key be bound once.                               *)
(***************************************************************************)
EXTENDS PqVault, PqClients, DataTheorems, FiniteSetTheorems, TLAPS

-----------------------------------------------------------------------------
(* 1. Types.                                                               *)

(* What the fields of a ledger record range over.                         *)
LEMMA LedgerType ==
    ASSUME NEW l \in Ledger
    PROVE    /\ l.identity \in [DOMAIN l.identity -> PqIdentity]
             /\ DOMAIN l.identity \subseteq ObjId
             /\ l.bound \subseteq Binding
             /\ l.uses \in [Signable -> Nat]
  BY DEF Ledger

(* A change of scheme, key and nonce leaves an identity.                  *)
LEMMA RekeyedIdentity ==
    ASSUME NEW r \in PqIdentity, NEW pk \in PubKey
    PROVE  [r EXCEPT !.pk = pk, !.nonce = 0]
              = [owner |-> r.owner, scheme |-> r.scheme, pk |-> pk, nonce |-> 0]
<1> DEFINE q == [r EXCEPT !.pk = pk]
<1>1. q = [owner |-> r.owner, scheme |-> r.scheme, pk |-> pk, nonce |-> r.nonce]
  BY DEF PqIdentity
<1>2. [q EXCEPT !.nonce = 0]
          = [owner |-> r.owner, scheme |-> r.scheme, pk |-> pk, nonce |-> 0]
  <2> HIDE DEF q
  <2> QED  BY <1>1
<1> QED  BY <1>2

(* Fields of the right types make a ledger record.                        *)
LEMMA LedgerIntro ==
    ASSUME NEW D \in SUBSET ObjId, NEW f \in [D -> PqIdentity],
           NEW b \in SUBSET Binding, NEW u \in [Signable -> Nat]
    PROVE  [identity |-> f, bound |-> b, uses |-> u] \in Ledger
  BY DEF Ledger

(* What register adds and what it leaves alone.                            *)
Registered(l, m, i, a, scheme, pk) ==
    /\ m \in Ledger
    /\ DOMAIN m.identity = DOMAIN l.identity \union {i}
    /\ m.identity[i] = [owner |-> a, scheme |-> scheme,
                        pk |-> pk, nonce |-> 0]
    /\ \A j \in DOMAIN l.identity : m.identity[j] = l.identity[j]
    /\ m.bound = l.bound \union {[owner |-> a, pk |-> pk, id |-> i]}
    /\ m.uses = l.uses

(* register does that, and keeps the type.                                *)
LEMMA RegisterEffect ==
    ASSUME NEW l \in Ledger, NEW i \in ObjId, NEW a \in Address,
           NEW scheme \in Scheme, NEW pk \in PubKey,
           i \notin DOMAIN l.identity
    PROVE  Registered(l, AfterRegister(l, i, a, scheme, pk), i, a, scheme, pk)
<1> DEFINE D == DOMAIN l.identity \union {i}
           new == [owner |-> a, scheme |-> scheme, pk |-> pk, nonce |-> 0]
           f == [j \in D |-> IF j = i THEN new ELSE l.identity[j]]
           b == l.bound \union {[owner |-> a, pk |-> pk, id |-> i]}
<1>1. AfterRegister(l, i, a, scheme, pk)
          = [identity |-> f, bound |-> b, uses |-> l.uses]
  BY DEF AfterRegister
<1>2. D \in SUBSET ObjId
  BY LedgerType
<1>3. new \in PqIdentity
  BY GuardAssumption DEF PqIdentity, U64
<1>4. f \in [D -> PqIdentity]
  BY <1>3, LedgerType
<1>5. b \in SUBSET Binding
  BY LedgerType DEF Binding
<1>6. [identity |-> f, bound |-> b, uses |-> l.uses] \in Ledger
  <2> HIDE DEF D, f, b
  <2> QED  BY <1>2, <1>4, <1>5, LedgerType, LedgerIntro
<1> QED  BY <1>1, <1>6 DEF Registered

(* What rotate changes.                                                    *)
Rotated(l, m, i, pk) ==
    /\ m \in Ledger
    /\ DOMAIN m.identity = DOMAIN l.identity
    /\ m.identity[i] = [owner  |-> l.identity[i].owner,
                        scheme |-> l.identity[i].scheme,
                        pk |-> pk, nonce |-> 0]
    /\ \A j \in DOMAIN l.identity \ {i} : m.identity[j] = l.identity[j]
    /\ m.bound = l.bound \union
                     {[owner |-> l.identity[i].owner, pk |-> pk, id |-> i]}
    /\ m.uses = l.uses

(* rotate does that, and keeps the type.                                  *)
LEMMA RotateEffect ==
    ASSUME NEW l \in Ledger, NEW i \in DOMAIN l.identity, NEW pk \in PubKey
    PROVE  Rotated(l, AfterRotate(l, i, pk), i, pk)
<1> DEFINE D == DOMAIN l.identity
           new == [owner |-> l.identity[i].owner,
                   scheme |-> l.identity[i].scheme, pk |-> pk, nonce |-> 0]
           f == [l.identity EXCEPT ![i] = new]
           b == l.bound \union
                    {[owner |-> l.identity[i].owner, pk |-> pk, id |-> i]}
<1>1. l.identity[i] \in PqIdentity
  BY LedgerType
<1>2. /\ [l.identity[i] EXCEPT !.pk = pk, !.nonce = 0] = new
      /\ new \in PqIdentity
  <2>1. new \in PqIdentity
    BY <1>1, GuardAssumption DEF PqIdentity, U64
  <2>2. [l.identity[i] EXCEPT !.pk = pk, !.nonce = 0] = new
    BY <1>1, RekeyedIdentity
  <2> QED  BY <2>1, <2>2
<1>3. AfterRotate(l, i, pk) = [identity |-> f, bound |-> b, uses |-> l.uses]
  BY <1>2 DEF AfterRotate
<1>4. f \in [D -> PqIdentity]
  BY <1>2, LedgerType
<1>5. b \in SUBSET Binding
  BY <1>1, LedgerType DEF Binding, PqIdentity
<1>6. [identity |-> f, bound |-> b, uses |-> l.uses] \in Ledger
  <2>1. D \in SUBSET ObjId
    BY LedgerType
  <2> HIDE DEF D, f, b
  <2> QED  BY <2>1, <1>4, <1>5, LedgerType, LedgerIntro
<1>7. DOMAIN f = D /\ f[i] = new /\ \A j \in D \ {i} : f[j] = l.identity[j]
  BY LedgerType
<1> QED  BY <1>3, <1>6, <1>7 DEF Rotated

(* What unlock changes.                                                    *)
Unlocked(l, m, i, s) ==
    /\ m \in Ledger
    /\ DOMAIN m.identity = DOMAIN l.identity
    /\ m.identity[i] = [owner  |-> l.identity[i].owner,
                        scheme |-> l.identity[i].scheme,
                        pk     |-> l.identity[i].pk,
                        nonce  |-> l.identity[i].nonce + 1]
    /\ \A j \in DOMAIN l.identity \ {i} : m.identity[j] = l.identity[j]
    /\ m.bound = l.bound
    /\ m.uses = [l.uses EXCEPT ![s] = @ + 1]

(* unlock does that, and keeps the type.                                  *)
LEMMA UnlockEffect ==
    ASSUME NEW l \in Ledger, NEW i \in DOMAIN l.identity, NEW s \in Signable,
           l.identity[i].nonce + 1 \in U64
    PROVE  Unlocked(l, AfterUnlock(l, i, s), i, s)
<1> DEFINE D == DOMAIN l.identity
           new == [owner  |-> l.identity[i].owner,
                   scheme |-> l.identity[i].scheme,
                   pk     |-> l.identity[i].pk,
                   nonce  |-> l.identity[i].nonce + 1]
           f == [l.identity EXCEPT ![i] = new]
           u == [l.uses EXCEPT ![s] = @ + 1]
<1>1. l.identity[i] \in PqIdentity
  BY LedgerType
<1>2. [l.identity[i] EXCEPT !.nonce = l.identity[i].nonce + 1] = new /\ new \in PqIdentity
  BY <1>1 DEF PqIdentity
<1>3. AfterUnlock(l, i, s) = [identity |-> f, bound |-> l.bound, uses |-> u]
  BY <1>2 DEF AfterUnlock
<1>4. f \in [D -> PqIdentity] /\ u \in [Signable -> Nat]
  BY <1>2, LedgerType
<1>5. [identity |-> f, bound |-> l.bound, uses |-> u] \in Ledger
  <2>1. D \in SUBSET ObjId /\ l.bound \in SUBSET Binding
    BY LedgerType
  <2> HIDE DEF D, f, u
  <2> QED  BY <2>1, <1>4, LedgerIntro
<1>6. DOMAIN f = D /\ f[i] = new /\ \A j \in D \ {i} : f[j] = l.identity[j]
  BY LedgerType
<1> QED  BY <1>3, <1>5, <1>6 DEF Unlocked

-----------------------------------------------------------------------------
(* 2. What the commands preserve of KeyInv, when the key is fresh.         *)

(* A new identity with a fresh key keeps the invariant of keys.           *)
LEMMA RegisterKeyInv ==
    ASSUME NEW l \in Ledger, KeyInv(l),
           NEW i \in ObjId, NEW a \in Address,
           NEW scheme \in Scheme, NEW pk \in PubKey,
           i \notin DOMAIN l.identity,
           \A b \in l.bound : ~(b.owner = a /\ b.pk = pk)
    PROVE  KeyInv(AfterRegister(l, i, a, scheme, pk))
<1> DEFINE m == AfterRegister(l, i, a, scheme, pk)
<1>1. /\ DOMAIN m.identity = DOMAIN l.identity \union {i}
      /\ m.identity[i] = [owner |-> a, scheme |-> scheme,
                          pk |-> pk, nonce |-> 0]
      /\ \A j \in DOMAIN l.identity : m.identity[j] = l.identity[j]
      /\ m.bound = l.bound \union {[owner |-> a, pk |-> pk, id |-> i]}
      /\ m.uses = l.uses
  BY RegisterEffect DEF Registered
<1> HIDE DEF m
<1>2. KeysBound(m)
  BY <1>1 DEF KeyInv, KeysBound
<1>3. BoundOnce(m)
  BY <1>1 DEF KeyInv, BoundOnce
<1>4. UsesBound(m)
  BY <1>1 DEF KeyInv, UsesBound
<1>5. UsedOnce(m)
  BY <1>1 DEF KeyInv, UsedOnce
<1>6. UsedBelowNonce(m)
  (* No signature of a under pk has been used, for a never bound pk.       *)
  <2>1. \A s \in Signable : l.uses[s] > 0 => ~(s.sender = a /\ s.pk = pk)
    BY DEF KeyInv, UsesBound
  <2> QED  BY <1>1, <2>1 DEF KeyInv, UsedBelowNonce
<1>7. OneAtNonce(m)
  BY <1>1 DEF KeyInv, OneAtNonce
<1>8. NoncesUsed(m)
  <2> SUFFICES ASSUME NEW j \in DOMAIN m.identity, NEW n \in U64,
                      n < m.identity[j].nonce
               PROVE  UsedAt(m, m.identity[j].pk, m.identity[j].owner, n) # {}
    BY DEF NoncesUsed
  <2>1. j # i
    BY <1>1, GuardAssumption DEF U64
  <2> QED  BY <1>1, <2>1 DEF KeyInv, NoncesUsed, UsedAt
<1> QED  BY <1>2, <1>3, <1>4, <1>5, <1>6, <1>7, <1>8 DEF KeyInv, m

(* A rotation to a fresh key does.                                        *)
LEMMA RotateKeyInv ==
    ASSUME NEW l \in Ledger, KeyInv(l),
           NEW i \in DOMAIN l.identity, NEW pk \in PubKey,
           \A b \in l.bound : ~(b.owner = l.identity[i].owner /\ b.pk = pk)
    PROVE  KeyInv(AfterRotate(l, i, pk))
<1> DEFINE m == AfterRotate(l, i, pk)
           a == l.identity[i].owner
<1>1. /\ DOMAIN m.identity = DOMAIN l.identity
      /\ m.identity[i] = [owner |-> a, scheme |-> l.identity[i].scheme,
                          pk |-> pk, nonce |-> 0]
      /\ \A j \in DOMAIN l.identity \ {i} : m.identity[j] = l.identity[j]
      /\ m.bound = l.bound \union {[owner |-> a, pk |-> pk, id |-> i]}
      /\ m.uses = l.uses
  BY RotateEffect DEF Rotated
<1> HIDE DEF m
<1>2. KeysBound(m)
  BY <1>1 DEF KeyInv, KeysBound
<1>3. BoundOnce(m)
  BY <1>1 DEF KeyInv, BoundOnce
<1>4. UsesBound(m)
  BY <1>1 DEF KeyInv, UsesBound
<1>5. UsedOnce(m)
  BY <1>1 DEF KeyInv, UsedOnce
<1>6. UsedBelowNonce(m)
  <2>1. \A s \in Signable : l.uses[s] > 0 => ~(s.sender = a /\ s.pk = pk)
    BY DEF KeyInv, UsesBound
  <2> QED  BY <1>1, <2>1 DEF KeyInv, UsedBelowNonce
<1>7. OneAtNonce(m)
  BY <1>1 DEF KeyInv, OneAtNonce
<1>8. NoncesUsed(m)
  <2> SUFFICES ASSUME NEW j \in DOMAIN m.identity, NEW n \in U64,
                      n < m.identity[j].nonce
               PROVE  UsedAt(m, m.identity[j].pk, m.identity[j].owner, n) # {}
    BY DEF NoncesUsed
  <2>1. j # i
    BY <1>1, GuardAssumption DEF U64
  <2> QED  BY <1>1, <2>1 DEF KeyInv, NoncesUsed, UsedAt
<1> QED  BY <1>2, <1>3, <1>4, <1>5, <1>6, <1>7, <1>8 DEF KeyInv, m

(* A signature that verifies has never been used: a used one with the same *)
(* key and sender is below the nonce, and this one is at the nonce.        *)
LEMMA VerifiedIsUnused ==
    ASSUME NEW l \in Ledger, KeyInv(l),
           NEW i \in DOMAIN l.identity, NEW s \in Signable,
           s.pk = l.identity[i].pk, s.sender = l.identity[i].owner,
           s.nonce = l.identity[i].nonce
    PROVE  l.uses[s] = 0
<1>1. l.uses[s] \in Nat /\ l.identity[i].nonce \in Nat
  BY LedgerType, GuardAssumption DEF PqIdentity, U64
<1>2. l.uses[s] > 0 => s.nonce < l.identity[i].nonce
  BY DEF KeyInv, UsedBelowNonce
<1> QED  BY <1>1, <1>2

(* An unlock by a signature that verifies does.                           *)
LEMMA UnlockKeyInv ==
    ASSUME NEW l \in Ledger, KeyInv(l),
           NEW i \in DOMAIN l.identity, NEW s \in Signable,
           s.pk = l.identity[i].pk, s.sender = l.identity[i].owner,
           s.nonce = l.identity[i].nonce,
           l.identity[i].nonce + 1 \in U64
    PROVE  KeyInv(AfterUnlock(l, i, s))
<1> DEFINE m == AfterUnlock(l, i, s)
           pk == l.identity[i].pk
           a == l.identity[i].owner
           n0 == l.identity[i].nonce
<1>1. /\ DOMAIN m.identity = DOMAIN l.identity
      /\ m.identity[i] = [owner |-> a, scheme |-> l.identity[i].scheme,
                          pk |-> pk, nonce |-> n0 + 1]
      /\ \A j \in DOMAIN l.identity \ {i} : m.identity[j] = l.identity[j]
      /\ m.bound = l.bound
      /\ m.uses = [l.uses EXCEPT ![s] = @ + 1]
  BY UnlockEffect DEF Unlocked
<1>2. /\ n0 \in Nat
      /\ l.uses \in [Signable -> Nat]
      /\ \A t \in Signable : t.nonce \in Nat
      /\ \A j \in DOMAIN l.identity : l.identity[j].nonce \in Nat
      /\ U64 \subseteq Nat
  BY LedgerType, GuardAssumption DEF PqIdentity, Message, U64
<1>3. l.uses[s] = 0
  BY VerifiedIsUnused
<1>4. \A t \in Signable : m.uses[t] > 0 <=> (l.uses[t] > 0 \/ t = s)
  BY <1>1, <1>2
<1>5. m.uses[s] = 1 /\ \A t \in Signable \ {s} : m.uses[t] = l.uses[t]
  BY <1>1, <1>2, <1>3
(* Identities with the same owner and key are the same.                    *)
<1> DEFINE B(j) == [owner |-> l.identity[j].owner,
                   pk |-> l.identity[j].pk, id |-> j]
<1>6. \A j \in DOMAIN l.identity :
          l.identity[j].owner = a /\ l.identity[j].pk = pk => j = i
  <2>1. \A j \in DOMAIN l.identity : B(j) \in l.bound
    BY DEF KeyInv, KeysBound
  <2> SUFFICES ASSUME NEW j \in DOMAIN l.identity,
                      l.identity[j].owner = a, l.identity[j].pk = pk
               PROVE  j = i
    OBVIOUS
  <2>2. B(j) = B(i)
    BY <2>1 DEF KeyInv, BoundOnce
  <2> QED  BY <2>2
<1> HIDE DEF m
<1>7. KeysBound(m)
  BY <1>1 DEF KeyInv, KeysBound
<1>8. BoundOnce(m)
  BY <1>1 DEF KeyInv, BoundOnce
<1>9. UsesBound(m)
  <2>1. B(i) \in l.bound /\ B(i).owner = s.sender /\ B(i).pk = s.pk
    BY DEF KeyInv, KeysBound
  <2> QED  BY <1>1, <1>4, <2>1 DEF KeyInv, UsesBound
<1>10. UsedOnce(m)
  BY <1>5 DEF KeyInv, UsedOnce
<1>11. UsedBelowNonce(m)
  BY <1>1, <1>2, <1>4, <1>6 DEF KeyInv, UsedBelowNonce
<1>12. OneAtNonce(m)
  <2>1. \A t \in Signable : l.uses[t] > 0 =>
            ~(t.pk = s.pk /\ t.sender = s.sender /\ t.nonce = s.nonce)
    BY <1>2 DEF KeyInv, UsedBelowNonce
  <2> QED  BY <1>4, <2>1 DEF KeyInv, OneAtNonce
<1>13. NoncesUsed(m)
  <2> SUFFICES ASSUME NEW j \in DOMAIN m.identity, NEW n \in U64,
                      n < m.identity[j].nonce
               PROVE  \E t \in Signable :
                         /\ m.uses[t] > 0 /\ t.pk = m.identity[j].pk
                         /\ t.sender = m.identity[j].owner /\ t.nonce = n
    BY DEF NoncesUsed, UsedAt
  <2>1. CASE j = i /\ n = n0
    BY <1>1, <1>4, <2>1
  <2>2. CASE ~(j = i /\ n = n0)
    <3>1. /\ j \in DOMAIN l.identity
          /\ n < l.identity[j].nonce
          /\ m.identity[j].pk = l.identity[j].pk
          /\ m.identity[j].owner = l.identity[j].owner
      BY <1>1, <1>2, <2>2
    <3>2. UsedAt(l, l.identity[j].pk, l.identity[j].owner, n) # {}
      BY <3>1 DEF KeyInv, NoncesUsed
    <3> QED  BY <1>4, <3>1, <3>2 DEF UsedAt
  <2> QED  BY <2>1, <2>2
<1> QED  BY <1>7, <1>8, <1>9, <1>10, <1>11, <1>12, <1>13 DEF KeyInv, m

-----------------------------------------------------------------------------
(* 3. Types, for every key policy.  An input of the transaction is in the  *)
(* committed ledger; that its copy is there too is part of the invariant.  *)

(* The copy of the transaction has every identity of the ledger.          *)
Copied == DOMAIN ledger.identity \subseteq DOMAIN work.identity

(* The type invariant with what it needs to be inductive.                 *)
TypeInv == TypeOK /\ Copied

(* It holds at first.                                                     *)
LEMMA InitType == GuardInit => TypeInv
<1> SUFFICES ASSUME GuardInit PROVE TypeInv
  OBVIOUS
<1>1. ledger \in Ledger
  <2>1. [j \in {} |-> 0] \in [{} -> PqIdentity] /\ {} \in SUBSET ObjId
    OBVIOUS
  <2>2. {} \in SUBSET Binding /\ [s \in Signable |-> 0] \in [Signable -> Nat]
    OBVIOUS
  <2> QED  BY <2>1, <2>2, LedgerIntro DEF GuardInit
<1> QED  BY <1>1, GuardAssumption DEF GuardInit, TypeInv, TypeOK, Copied

(* Every command keeps the identities of the copy and its type.            *)
LEMMA StepType == TypeInv /\ [GuardNext]_guardVars => TypeInv'
<1> SUFFICES ASSUME TypeInv, [GuardNext]_guardVars
             PROVE  TypeInv'
  OBVIOUS
<1> USE DEF TypeInv, TypeOK, Copied
<1>1. ASSUME NEW s \in Signable, Sign(s) PROVE TypeInv'
  BY <1>1 DEF Sign
<1>2. ASSUME NEW a \in Address, Begin(a) PROVE TypeInv'
  BY <1>2 DEF Begin
<1>3. ASSUME NEW i \in ObjId, NEW scheme \in Scheme, NEW pk \in PubKey,
             Register(i, scheme, pk)
      PROVE  TypeInv'
  <2>1. Registered(work, work', i, sender, scheme, pk)
    BY <1>3, RegisterEffect DEF Register, Command, Executing
  <2> QED
    BY <1>3, <2>1, GuardAssumption DEF Registered, Register, Command
<1>4. ASSUME NEW i \in ObjId, NEW pk \in PubKey, Rotate(i, pk)
      PROVE  TypeInv'
  <2>1. i \in DOMAIN work.identity
    BY <1>4 DEF Rotate, Inputs
  <2>2. Rotated(work, work', i, pk)
    BY <1>4, <2>1, RotateEffect DEF Rotate
  <2> QED  BY <1>4, <2>2, GuardAssumption DEF Rotated, Rotate, Command
<1>5. ASSUME NEW i \in ObjId, NEW s \in signed, Unlock(i, s.digest, s)
      PROVE  TypeInv'
  <2>1. i \in DOMAIN work.identity /\ s \in Signable
    BY <1>5 DEF Unlock, Inputs
  <2>2. Unlocked(work, work', i, s)
    BY <1>5, <2>1, UnlockEffect DEF Unlock, NonceFits
  <2>3. s \in Message
    BY <2>1, GuardAssumption
  <2>4. work.identity[i].nonce \in U64
    BY <2>1, LedgerType DEF PqIdentity
  <2>5. held' \subseteq PqAuthorized
    BY <1>5, <2>1, <2>3, <2>4, GuardAssumption
    DEF Unlock, PqAuthorized, Message, Command, Executing, U64
  <2> QED
    BY <1>5, <2>2, <2>5, GuardAssumption DEF Unlocked, Unlock, Command
<1>6. ASSUME NEW w \in held, Consume(w) PROVE TypeInv'
  BY <1>6, GuardAssumption DEF Consume, Command
<1>7. ASSUME Commit PROVE TypeInv'
  BY <1>7, GuardAssumption DEF Commit
<1>8. ASSUME Abort PROVE TypeInv'
  BY <1>8, GuardAssumption DEF Abort
<1>9. CASE UNCHANGED guardVars
  BY <1>9 DEF guardVars
<1> QED  BY <1>1, <1>2, <1>3, <1>4, <1>5, <1>6, <1>7, <1>8, <1>9 DEF GuardNext

(* Every variable keeps its type in every behaviour, whatever the holders  *)
(* do with their keys; in particular no nonce leaves u64.                  *)
THEOREM TypeCorrect == GuardSpec => []TypeOK
<1>1. TypeInv => TypeOK
  BY DEF TypeInv
<1> QED  BY <1>1, InitType, StepType, PTL DEF GuardSpec

-----------------------------------------------------------------------------
(* 4. The invariant, for holders who bind a key once.                      *)

(* The invariant holds at first.                                          *)
LEMMA InitInv == GuardInit => GuardInv
<1> SUFFICES ASSUME GuardInit PROVE GuardInv
  OBVIOUS
<1>1. TypeOK
  BY InitType DEF TypeInv
<1>2. KeyInv(ledger) /\ work = ledger
  BY DEF GuardInit, KeyInv, KeysBound, BoundOnce, UsesBound, UsedOnce,
         UsedBelowNonce, OneAtNonce, NoncesUsed
<1>3. WorkExtends
  BY DEF GuardInit, WorkExtends, Evolves
<1> QED  BY <1>1, <1>2, <1>3 DEF GuardInv

(* What a fresh key is to the copy, when it is fresh to the ledger.       *)
LEMMA FreshKey ==
    ASSUME KeyPolicy = "fresh",
           NEW i, NEW a, NEW pk, KeyAllowed(i, a, pk)
    PROVE  \A b \in work.bound : ~(b.owner = a /\ b.pk = pk)
  BY DEF KeyAllowed

(* Every step keeps the invariant, action by action.  TypeOK' is known from *)
(* StepType, so what is left is KeyInv of the copy and WorkExtends.        *)
LEMMA StepInv ==
    ASSUME KeyPolicy = "fresh"
    PROVE  GuardInv /\ [GuardNext]_guardVars => GuardInv'
<1> SUFFICES ASSUME GuardInv, [GuardNext]_guardVars
             PROVE  GuardInv'
  OBVIOUS
<1> USE DEF GuardInv
<1>t. TypeOK'
  <2>1. TypeInv
    BY DEF TypeInv, Copied, WorkExtends, Evolves
  <2> QED  BY <2>1, StepType DEF TypeInv
<1>n. /\ ledger \in Ledger /\ work \in Ledger
      /\ \A i \in DOMAIN ledger.identity : ledger.identity[i] \in PqIdentity
      /\ \A i \in DOMAIN work.identity : work.identity[i] \in PqIdentity
      /\ \A s \in Signable : ledger.uses[s] \in Nat /\ work.uses[s] \in Nat
      /\ U64 \subseteq Nat
  BY LedgerType, GuardAssumption DEF TypeOK, U64
<1>m. /\ \A i \in DOMAIN ledger.identity : ledger.identity[i].nonce \in Nat
      /\ \A i \in DOMAIN work.identity : work.identity[i].nonce \in Nat
  BY <1>n DEF PqIdentity
<1>c. \A i \in Inputs :
          /\ i \in DOMAIN ledger.identity
          /\ i \in DOMAIN work.identity
          /\ ledger.identity[i].owner = sender
          /\ work.identity[i].owner = sender
  BY DEF Inputs, WorkExtends, Evolves
<1>1. ASSUME NEW s \in Signable, Sign(s) PROVE GuardInv'
  BY <1>1, <1>t DEF Sign, WorkExtends, Evolves
<1>2. ASSUME NEW a \in Address, Begin(a) PROVE GuardInv'
  (* Nobody owns nothing, so the copy has not moved yet.                   *)
  <2>1. /\ sender = Nobody
        /\ UNCHANGED <<ledger, signed, work>>
    BY <1>2 DEF Begin, Executing, TypeOK
  <2>2. \A i \in DOMAIN ledger.identity :
            work.identity[i] = ledger.identity[i]
    BY <1>n, <2>1, GuardAssumption DEF WorkExtends, Evolves, PqIdentity
  <2>3. \A i \in DOMAIN ledger.identity :
            ledger.identity[i].nonce >= ledger.identity[i].nonce
    BY <1>n, <1>m
  <2>4. WorkExtends'
    BY <2>1, <2>2, <2>3 DEF WorkExtends, Evolves
  <2> QED  BY <1>t, <2>1, <2>4
<1>3. ASSUME NEW i \in ObjId, NEW scheme \in Scheme, NEW pk \in PubKey,
             Register(i, scheme, pk)
      PROVE  GuardInv'
  <2>1. /\ i \notin DOMAIN work.identity
        /\ sender \in Address
        /\ \A b \in work.bound : ~(b.owner = sender /\ b.pk = pk)
        /\ work' = AfterRegister(work, i, sender, scheme, pk)
        /\ UNCHANGED <<ledger, signed, sender>>
    BY <1>3, FreshKey DEF Register, Command, Executing
  <2>2. KeyInv(work')
    BY <1>n, <2>1, RegisterKeyInv
  <2>3. Registered(work, work', i, sender, scheme, pk)
    BY <1>n, <2>1, RegisterEffect
  <2>4. WorkExtends'
    <3>1. Evolves(ledger, work')
      BY <2>1, <2>3 DEF Registered, WorkExtends, Evolves
    <3>2. ledger.bound \subseteq work'.bound /\ work'.uses = work.uses
      BY <2>3 DEF Registered, WorkExtends
    <3> QED  BY <2>1, <3>1, <3>2 DEF WorkExtends, Evolves
  <2> QED  BY <1>t, <2>1, <2>2, <2>4
<1>4. ASSUME NEW i \in ObjId, NEW pk \in PubKey, Rotate(i, pk)
      PROVE  GuardInv'
  <2>1. /\ i \in Inputs
        /\ \A b \in work.bound : ~(b.owner = sender /\ b.pk = pk)
        /\ work' = AfterRotate(work, i, pk)
        /\ UNCHANGED <<ledger, signed, sender>>
    BY <1>4, FreshKey DEF Rotate, Command
  <2>2. KeyInv(work')
    BY <1>n, <1>c, <2>1, RotateKeyInv
  <2>3. Rotated(work, work', i, pk)
    BY <1>n, <1>c, <2>1, RotateEffect
  (* The committed key of i was bound before, so the new key is another.   *)
  <2>4. ledger.identity[i].pk # pk
    <3> DEFINE b == [owner |-> ledger.identity[i].owner,
                     pk |-> ledger.identity[i].pk, id |-> i]
    <3>1. b \in work.bound
      BY <1>c, <2>1 DEF KeyInv, KeysBound, WorkExtends
    <3>2. b.owner = sender /\ b.pk = ledger.identity[i].pk
      BY <1>c, <2>1
    <3> QED  BY <2>1, <3>1, <3>2
  <2>5. WorkExtends'
    <3>1. Evolves(ledger, work')
      <4> SUFFICES ASSUME NEW j \in DOMAIN ledger.identity
                   PROVE  /\ j \in DOMAIN work'.identity
                          /\ work'.identity[j].owner = ledger.identity[j].owner
                          /\ work'.identity[j].scheme = ledger.identity[j].scheme
                          /\ work'.identity[j] # ledger.identity[j]
                                => sender = ledger.identity[j].owner
                          /\ work'.identity[j].pk = ledger.identity[j].pk
                                => work'.identity[j].nonce >= ledger.identity[j].nonce
        BY DEF Evolves
      <4>1. CASE j = i
        BY <1>c, <2>1, <2>3, <2>4, <4>1 DEF Rotated, WorkExtends, Evolves
      <4>2. CASE j # i
        <5>1. j \in DOMAIN work.identity
          BY DEF WorkExtends, Evolves
        <5>2. /\ j \in DOMAIN work'.identity
              /\ work'.identity[j] = work.identity[j]
          BY <2>3, <4>2, <5>1 DEF Rotated
        <5> QED  BY <5>1, <5>2 DEF WorkExtends, Evolves
      <4> QED  BY <4>1, <4>2
    <3>2. ledger.bound \subseteq work'.bound /\ work'.uses = work.uses
      BY <2>3 DEF Rotated, WorkExtends
    <3> QED  BY <2>1, <3>1, <3>2 DEF WorkExtends, Evolves
  <2> QED  BY <1>t, <2>1, <2>2, <2>5
<1>5. ASSUME NEW i \in ObjId, NEW s \in signed, Unlock(i, s.digest, s)
      PROVE  GuardInv'
  <2>1. /\ i \in Inputs
        /\ s \in Signable
        /\ s.pk = work.identity[i].pk
        /\ s.sender = sender
        /\ s.nonce = work.identity[i].nonce
        /\ work.identity[i].nonce + 1 \in U64
        /\ work' = AfterUnlock(work, i, s)
        /\ UNCHANGED <<ledger, signed, sender>>
    BY <1>5 DEF Unlock, Command, VerifyPq, UnlockMessage, NonceFits, TypeOK
  <2>2. KeyInv(work')
    BY <1>n, <1>c, <2>1, UnlockKeyInv
  <2>3. Unlocked(work, work', i, s)
    BY <1>n, <1>c, <2>1, UnlockEffect
  <2>4. WorkExtends'
    <3>1. Evolves(ledger, work')
      <4> SUFFICES ASSUME NEW j \in DOMAIN ledger.identity
                   PROVE  /\ j \in DOMAIN work'.identity
                          /\ work'.identity[j].owner = ledger.identity[j].owner
                          /\ work'.identity[j].scheme = ledger.identity[j].scheme
                          /\ work'.identity[j] # ledger.identity[j]
                                => sender = ledger.identity[j].owner
                          /\ work'.identity[j].pk = ledger.identity[j].pk
                                => work'.identity[j].nonce >= ledger.identity[j].nonce
        BY DEF Evolves
      <4>1. CASE j = i
        <5>1. /\ work'.identity[i].nonce = work.identity[i].nonce + 1
              /\ work.identity[i].nonce \in Nat
              /\ ledger.identity[i].nonce \in Nat
          BY <1>m, <1>c, <2>1, <2>3 DEF Unlocked
        <5>2. /\ work'.identity[i].pk = work.identity[i].pk
              /\ work'.identity[i].owner = work.identity[i].owner
              /\ work'.identity[i].scheme = work.identity[i].scheme
              /\ i \in DOMAIN work'.identity
          BY <1>c, <2>1, <2>3 DEF Unlocked
        <5> QED  BY <1>c, <2>1, <4>1, <5>1, <5>2 DEF WorkExtends, Evolves
      <4>2. CASE j # i
        <5>1. j \in DOMAIN work.identity
          BY DEF WorkExtends, Evolves
        <5>2. /\ j \in DOMAIN work'.identity
              /\ work'.identity[j] = work.identity[j]
          BY <2>3, <4>2, <5>1 DEF Unlocked
        <5> QED  BY <5>1, <5>2 DEF WorkExtends, Evolves
      <4> QED  BY <4>1, <4>2
    <3>2. /\ work'.bound = work.bound
          /\ \A t \in Signable : work'.uses[t] >= work.uses[t]
          /\ \A t \in Signable \ {s} : work'.uses[t] = work.uses[t]
      BY <1>n, <2>1, <2>3 DEF Unlocked, Ledger
    <3>3. \A t \in Signable : work'.uses[t] \in Nat
      BY <2>3, LedgerType DEF Unlocked
    <3>4. /\ ledger.bound \subseteq work'.bound
          /\ \A t \in Signable : ledger.uses[t] <= work'.uses[t]
          /\ \A t \in Signable : work'.uses[t] > 0 => t \in signed
      BY <1>n, <3>2, <3>3 DEF WorkExtends
    <3> QED  BY <2>1, <3>1, <3>4 DEF WorkExtends, Evolves
  <2> QED  BY <1>t, <2>1, <2>2, <2>4
<1>6. ASSUME NEW w \in held, Consume(w) PROVE GuardInv'
  BY <1>6, <1>t DEF Consume, Command, WorkExtends, Evolves
<1>7. ASSUME Commit PROVE GuardInv'
  <2>1. ledger' = work /\ work' = work /\ signed' = signed
    BY <1>7 DEF Commit
  <2>2. WorkExtends'
    BY <1>n, <1>m, <2>1 DEF WorkExtends, Evolves
  <2> QED  BY <1>t, <2>1, <2>2
<1>8. ASSUME Abort PROVE GuardInv'
  <2>1. ledger' = ledger /\ work' = ledger /\ signed' = signed
    BY <1>8 DEF Abort
  <2>2. \A s \in Signable : ledger.uses[s] > 0 => s \in signed
    BY <1>n DEF WorkExtends
  <2>3. WorkExtends'
    BY <1>n, <1>m, <2>1, <2>2 DEF WorkExtends, Evolves
  <2> QED  BY <1>t, <2>1, <2>3
<1>9. CASE UNCHANGED guardVars
  BY <1>9, <1>t DEF guardVars, WorkExtends, Evolves
<1> QED  BY <1>1, <1>2, <1>3, <1>4, <1>5, <1>6, <1>7, <1>8, <1>9 DEF GuardNext

-----------------------------------------------------------------------------
(* 5. The results.                                                         *)

(* The inductive invariant holds in every behaviour.                       *)
THEOREM GuardInvariance ==
    ASSUME KeyPolicy = "fresh"
    PROVE  GuardSpec => []GuardInv
  BY InitInv, StepInv, PTL DEF GuardSpec

(* No signature ever serves two unlocks, if no owner binds a key twice: the *)
(* guarantee the header of pq_guard.move gives.                            *)
THEOREM SingleUseHolds ==
    ASSUME KeyPolicy = "fresh"
    PROVE  GuardSpec => []SingleUse
<1>1. GuardInv => SingleUse
  BY DEF GuardInv, KeyInv, UsedOnce, SingleUse
<1> QED  BY <1>1, GuardInvariance, PTL

(* Below its nonce an identity has used exactly one signature per nonce,   *)
(* and none at or above it.                                                *)
THEOREM NonceCountsUsesHolds ==
    ASSUME KeyPolicy = "fresh"
    PROVE  GuardSpec => []NonceCountsUses
<1>1. GuardInv => NonceCountsUses
  <2> SUFFICES ASSUME GuardInv,
                      NEW i \in DOMAIN ledger.identity, NEW n \in U64
               PROVE  Cardinality(UsedAt(ledger, ledger.identity[i].pk,
                                         ledger.identity[i].owner, n))
                        = IF n < ledger.identity[i].nonce THEN 1 ELSE 0
    BY DEF NonceCountsUses
  <2> DEFINE U == UsedAt(ledger, ledger.identity[i].pk,
                         ledger.identity[i].owner, n)
  <2>1. /\ ledger.identity[i].nonce \in Nat
        /\ n \in Nat
        /\ KeyInv(ledger)
    BY LedgerType, GuardAssumption DEF GuardInv, TypeOK, PqIdentity, U64
  <2>2. \A s, t \in U : s = t
    BY <2>1 DEF KeyInv, OneAtNonce, UsedAt
  <2>3. CASE n < ledger.identity[i].nonce
    <3>1. U # {}
      BY <2>1, <2>3 DEF KeyInv, NoncesUsed
    <3>2. PICK s \in U : U = {s}
      BY <2>2, <3>1
    <3> QED  BY <2>3, <3>2, FS_Singleton
  <2>4. CASE ~(n < ledger.identity[i].nonce)
    <3>1. U = {}
      BY <2>1, <2>4 DEF KeyInv, UsedBelowNonce, UsedAt
    <3> QED  BY <2>4, <3>1, FS_EmptySet
  <2> QED  BY <2>3, <2>4
<1> QED  BY <1>1, GuardInvariance, PTL

(* Committed identities only evolve as their owner's transactions may      *)
(* evolve them, and no nonce goes back under one key.                      *)
THEOREM IdentityEvolvesHolds ==
    ASSUME KeyPolicy = "fresh"
    PROVE  GuardSpec => IdentityEvolves
<1>1. GuardInv /\ [GuardNext]_guardVars => [Evolves(ledger, ledger')]_ledger
  <2> SUFFICES ASSUME GuardInv, [GuardNext]_guardVars, ledger' # ledger
               PROVE  Evolves(ledger, ledger')
    OBVIOUS
  <2>1. ledger' = work
    BY DEF GuardNext, guardVars, Sign, Begin, Register, Rotate, Unlock,
           Consume, Command, Commit, Abort
  <2> QED  BY <2>1 DEF GuardInv, WorkExtends
<1> QED  BY <1>1, GuardInvariance, PTL DEF GuardSpec, IdentityEvolves

(* PqGuard implements OneTimeAuth.                                         *)
THEOREM GuardImplementsOneTimeAuth ==
    ASSUME KeyPolicy = "fresh"
    PROVE  GuardSpec => ImplementsOneTimeAuth
<1>1. GuardInit => Auth!Init
  BY DEF GuardInit, Auth!Init
<1>2. GuardInv /\ [GuardNext]_guardVars => [Auth!Next]_(Auth!vars)
  <2> SUFFICES ASSUME GuardInv, [GuardNext]_guardVars
               PROVE  [Auth!Next]_(Auth!vars)
    OBVIOUS
  <2>1. ASSUME NEW s \in Signable, Sign(s) PROVE Auth!Next
    BY <2>1 DEF Sign, Auth!Next, Auth!Sign
  <2>2. ASSUME Commit PROVE Auth!Spend
    <3> DEFINE S == {s \in Signable : work.uses[s] # ledger.uses[s]}
    <3>1. /\ ledger' = work /\ signed' = signed
          /\ ledger.uses \in [Signable -> Nat]
          /\ work.uses \in [Signable -> Nat]
      BY <2>2, LedgerType DEF Commit, GuardInv, TypeOK
    <3>2. \A s \in Signable :
              /\ ledger.uses[s] <= work.uses[s]
              /\ work.uses[s] <= 1
              /\ work.uses[s] > 0 => s \in signed
      BY DEF GuardInv, WorkExtends, KeyInv, UsedOnce
    <3>3. \A s \in S : s \in signed /\ ledger.uses[s] = 0 /\ work.uses[s] = 1
      <4> SUFFICES ASSUME NEW s \in Signable, work.uses[s] # ledger.uses[s]
                   PROVE  s \in signed /\ ledger.uses[s] = 0 /\ work.uses[s] = 1
        OBVIOUS
      <4>1. ledger.uses[s] \in Nat /\ work.uses[s] \in Nat
        BY <3>1
      <4>2. /\ ledger.uses[s] <= work.uses[s]
            /\ work.uses[s] <= 1
            /\ work.uses[s] > 0 => s \in signed
        BY <3>2
      <4> QED  BY <4>1, <4>2
    <3>4. work.uses = [s \in Signable |-> IF s \in S THEN 1 ELSE ledger.uses[s]]
      BY <3>1, <3>3
    <3>5. S \in SUBSET {s \in signed : ledger.uses[s] = 0}
      BY <3>3
    <3> HIDE DEF S
    <3> QED  BY <3>1, <3>4, <3>5 DEF Auth!Spend
  <2>3. ASSUME UNCHANGED <<ledger, signed>> PROVE UNCHANGED Auth!vars
    BY <2>3 DEF Auth!vars
  <2>4. CASE UNCHANGED guardVars
    BY <2>3, <2>4 DEF guardVars
  <2>5. CASE GuardNext
    BY <2>1, <2>2, <2>3, <2>5
    DEF GuardNext, Begin, Register, Rotate, Unlock, Consume, Command, Abort,
        Auth!Next
  <2> QED  BY <2>4, <2>5
<1> QED
  BY <1>1, <1>2, GuardInvariance, PTL
  DEF GuardSpec, ImplementsOneTimeAuth, Auth!Spec

-----------------------------------------------------------------------------
(* 6. The records of a bank.                                               *)

(* What the fields of a bank record range over.                           *)
LEMMA BankType ==
    ASSUME NEW b \in Bank
    PROVE  /\ b.vault \in [DOMAIN b.vault -> Vault]
           /\ DOMAIN b.vault \in SUBSET VaultId
           /\ b.wallet \in [Address -> U64]
           /\ b.put \in [VaultId -> Nat]
           /\ b.drawn \in [Signable -> Nat]
           /\ b.received \in [Address -> Nat]
  BY DEF Bank

(* Six fields of the right types make a bank record.                      *)
LEMMA BankIntro ==
    ASSUME NEW D \in SUBSET VaultId, NEW f \in [D -> Vault],
           NEW w \in [Address -> U64], NEW p \in [VaultId -> Nat],
           NEW d \in [Signable -> Nat], NEW r \in [Address -> Nat]
    PROVE  [vault |-> f, wallet |-> w, put |-> p, drawn |-> d, received |-> r]
              \in Bank
  BY DEF Bank

(* The fields of a vault are numbers of 64 bits.                          *)
LEMMA VaultType ==
    ASSUME NEW b \in Bank, NEW v \in DOMAIN b.vault
    PROVE  /\ b.vault[v] \in Vault
           /\ b.vault[v].owner \in Address
           /\ b.vault[v].balance \in U64 /\ b.vault[v].balance \in Nat
           /\ b.vault[v].pool \in U64 /\ b.vault[v].pool \in Nat
  BY BankType, GuardAssumption DEF Vault, U64

(* b with one vault, what went into it and what a signature drew changed.   *)
Changed(b, m, v, new, put, drawn) ==
    /\ m \in Bank
    /\ DOMAIN m.vault = DOMAIN b.vault \union {v}
    /\ m.vault[v] = new
    /\ \A u \in DOMAIN b.vault \ {v} : m.vault[u] = b.vault[u]
    /\ m.put = put
    /\ m.drawn = drawn
    /\ m.wallet = b.wallet
    /\ m.received = b.received

(* open adds one vault, owned by the sender, with the whole coin in it.   *)
LEMMA OpenEffect ==
    ASSUME NEW b \in Bank, NEW v \in VaultId, NEW a \in Address,
           NEW amount \in U64, v \notin DOMAIN b.vault
    PROVE  Changed(b, AfterOpen(b, v, a, amount), v,
                   [owner |-> a, balance |-> amount, pool |-> amount],
                   [b.put EXCEPT ![v] = @ + amount], b.drawn)
<1> DEFINE D == DOMAIN b.vault \union {v}
           new == [owner |-> a, balance |-> amount, pool |-> amount]
           f == [u \in D |-> IF u = v THEN new ELSE b.vault[u]]
           p == [b.put EXCEPT ![v] = @ + amount]
<1>1. AfterOpen(b, v, a, amount)
          = [vault |-> f, put |-> p, wallet |-> b.wallet,
             drawn |-> b.drawn, received |-> b.received]
  BY DEF AfterOpen
<1>2. f \in [D -> Vault] /\ p \in [VaultId -> Nat]
  BY BankType, GuardAssumption DEF Vault, U64
<1>3. [vault |-> f, wallet |-> b.wallet, put |-> p,
       drawn |-> b.drawn, received |-> b.received] \in Bank
  <2> HIDE DEF f, p
  <2> QED  BY <1>2, BankType, BankIntro
<1>4. DOMAIN f = D /\ f[v] = new /\ \A u \in DOMAIN b.vault \ {v} : f[u] = b.vault[u]
  OBVIOUS
<1> HIDE DEF f, p, D, new
<1> QED  BY <1>1, <1>3, <1>4 DEF Changed, D, new, p

(* A vault whose two counts of its SUI are set, in a bank.                   *)
LEMMA Adjusted ==
    ASSUME NEW b \in Bank, NEW v \in DOMAIN b.vault,
           NEW n \in U64, NEW m \in U64
    PROVE  LET new == [owner |-> b.vault[v].owner, balance |-> n, pool |-> m]
               f   == [b.vault EXCEPT ![v] = new]
           IN  /\ f \in [DOMAIN b.vault -> Vault]
               /\ DOMAIN f = DOMAIN b.vault \union {v}
               /\ f[v] = new
               /\ \A u \in DOMAIN b.vault \ {v} : f[u] = b.vault[u]
<1> DEFINE new == [owner |-> b.vault[v].owner, balance |-> n, pool |-> m]
<1>1. new \in Vault
  BY VaultType DEF Vault
<1>2. b.vault \in [DOMAIN b.vault -> Vault]
  BY BankType
<1> HIDE DEF new
<1> QED  BY <1>1, <1>2 DEF new

(* deposit adds the coin to the pool and to the balance field.            *)
LEMMA DepositEffect ==
    ASSUME NEW b \in Bank, NEW v \in DOMAIN b.vault, NEW amount \in U64,
           b.vault[v].pool + amount \in U64, b.vault[v].balance + amount \in U64
    PROVE  Changed(b, AfterDeposit(b, v, amount), v,
                   [owner |-> b.vault[v].owner,
                    balance |-> b.vault[v].balance + amount,
                    pool |-> b.vault[v].pool + amount],
                   [b.put EXCEPT ![v] = @ + amount], b.drawn)
<1> DEFINE old == b.vault[v]
           new == [owner |-> old.owner, balance |-> old.balance + amount,
                   pool |-> old.pool + amount]
           f == [b.vault EXCEPT ![v] = new]
           p == [b.put EXCEPT ![v] = @ + amount]
<1>1. AfterDeposit(b, v, amount)
          = [vault |-> f, put |-> p, wallet |-> b.wallet,
             drawn |-> b.drawn, received |-> b.received]
  BY DEF AfterDeposit
<1>2. /\ f \in [DOMAIN b.vault -> Vault]
      /\ DOMAIN f = DOMAIN b.vault \union {v}
      /\ f[v] = new
      /\ \A u \in DOMAIN b.vault \ {v} : f[u] = b.vault[u]
  BY Adjusted
<1>3. p \in [VaultId -> Nat] /\ DOMAIN b.vault \in SUBSET VaultId
  BY BankType, GuardAssumption DEF U64
<1> HIDE DEF f, p, old, new
<1>4. [vault |-> f, put |-> p, wallet |-> b.wallet,
       drawn |-> b.drawn, received |-> b.received] \in Bank
  BY <1>2, <1>3, BankType, BankIntro
<1> QED  BY <1>1, <1>2, <1>4 DEF Changed, old, p, new

(* withdraw takes the amount from both and counts it for the signature.   *)
LEMMA WithdrawEffect ==
    ASSUME NEW b \in Bank, NEW v \in DOMAIN b.vault, NEW amount \in U64,
           NEW s \in Signable,
           b.vault[v].pool >= amount, b.vault[v].balance >= amount
    PROVE  Changed(b, AfterWithdraw(b, v, amount, s), v,
                   [owner |-> b.vault[v].owner,
                    balance |-> b.vault[v].balance - amount,
                    pool |-> b.vault[v].pool - amount],
                   b.put, [b.drawn EXCEPT ![s] = @ + amount])
<1> DEFINE old == b.vault[v]
           new == [owner |-> old.owner, balance |-> old.balance - amount,
                   pool |-> old.pool - amount]
           f == [b.vault EXCEPT ![v] = new]
           d == [b.drawn EXCEPT ![s] = @ + amount]
<1>1. AfterWithdraw(b, v, amount, s)
          = [vault |-> f, drawn |-> d, wallet |-> b.wallet,
             put |-> b.put, received |-> b.received]
  BY DEF AfterWithdraw
<1>2. old.balance - amount \in U64 /\ old.pool - amount \in U64
  BY VaultType, GuardAssumption DEF U64
<1>3. /\ f \in [DOMAIN b.vault -> Vault]
      /\ DOMAIN f = DOMAIN b.vault \union {v}
      /\ f[v] = new
      /\ \A u \in DOMAIN b.vault \ {v} : f[u] = b.vault[u]
  BY <1>2, Adjusted
<1>4. d \in [Signable -> Nat] /\ DOMAIN b.vault \in SUBSET VaultId
  BY BankType, GuardAssumption DEF U64
<1> HIDE DEF f, d, old, new
<1>5. [vault |-> f, drawn |-> d, wallet |-> b.wallet,
       put |-> b.put, received |-> b.received] \in Bank
  BY <1>3, <1>4, BankType, BankIntro
<1> QED  BY <1>1, <1>3, <1>5 DEF Changed, old, d, new

(* A coin split from a wallet leaves it.                                  *)
LEMMA SplitEffect ==
    ASSUME NEW b \in Bank, NEW a \in Address, NEW amount \in U64,
           b.wallet[a] >= amount
    PROVE  /\ AfterSplit(b, a, amount) \in Bank
           /\ AfterSplit(b, a, amount).wallet = [b.wallet EXCEPT ![a] = @ - amount]
           /\ b.wallet[a] - amount \in U64
<1> DEFINE w == [b.wallet EXCEPT ![a] = @ - amount]
<1>1. b.wallet[a] - amount \in U64 /\ w \in [Address -> U64]
  BY BankType, GuardAssumption DEF U64
<1>2. AfterSplit(b, a, amount)
        = [wallet |-> w, vault |-> b.vault, put |-> b.put, drawn |-> b.drawn,
           received |-> b.received]
  BY DEF AfterSplit
<1> HIDE DEF w
<1>3. [wallet |-> w, vault |-> b.vault, put |-> b.put, drawn |-> b.drawn,
       received |-> b.received] \in Bank
  BY <1>1, BankType, BankIntro
<1> QED  BY <1>1, <1>2, <1>3 DEF w

(* A coin transferred arrives in the wallet of its recipient.             *)
LEMMA TransferEffect ==
    ASSUME NEW b \in Bank, NEW a \in Address, NEW c \in Coin,
           b.wallet[a] + c.value \in U64
    PROVE  /\ AfterTransfer(b, a, c) \in Bank
           /\ AfterTransfer(b, a, c).wallet = [b.wallet EXCEPT ![a] = @ + c.value]
<1> DEFINE w == [b.wallet EXCEPT ![a] = @ + c.value]
           r == [b.received EXCEPT ![a] = IF c.drawn THEN @ + c.value ELSE @]
<1>1. w \in [Address -> U64] /\ r \in [Address -> Nat]
  BY BankType, GuardAssumption DEF U64, Coin
<1>2. AfterTransfer(b, a, c)
        = [wallet |-> w, received |-> r, vault |-> b.vault, put |-> b.put,
           drawn |-> b.drawn]
  BY DEF AfterTransfer
<1> HIDE DEF w, r
<1>3. [wallet |-> w, received |-> r, vault |-> b.vault, put |-> b.put,
       drawn |-> b.drawn] \in Bank
  BY <1>1, BankType, BankIntro
<1> QED  BY <1>1, <1>2, <1>3 DEF w

-----------------------------------------------------------------------------
(***************************************************************************)
(* 7. What the steps do to the sums.                                       *)
(***************************************************************************)

(* The pools add up to what they did, but for the vault that changed.     *)
LEMMA PoolsSum ==
    ASSUME NEW b \in Bank, NEW m, NEW v \in VaultId, NEW new, NEW put, NEW drawn,
           Changed(b, m, v, new, put, drawn)
    PROVE  /\ SumFunction(Pools(b)) \in Nat
           /\ new.pool \in Nat
           /\ v \in DOMAIN b.vault =>
                SumFunction(Pools(m)) + b.vault[v].pool
                  = SumFunction(Pools(b)) + new.pool
           /\ v \notin DOMAIN b.vault =>
                SumFunction(Pools(m)) = SumFunction(Pools(b)) + new.pool
<1> DEFINE S == DOMAIN b.vault
           R == DOMAIN m.vault
           f == Pools(b)
           e == Pools(m)
<1>1. m \in Bank /\ R = S \union {v} /\ m.vault[v] = new
      /\ \A u \in S \ {v} : m.vault[u] = b.vault[u]
  BY DEF Changed
<1>2. IsFiniteSet(S) /\ IsFiniteSet(R)
  BY <1>1, BankType, VaultAssumption, FS_Subset
<1>3. DOMAIN f = S /\ DOMAIN e = R
  BY DEF Pools
<1>4. /\ \A u \in S : f[u] = b.vault[u].pool /\ f[u] \in Nat
      /\ \A u \in R : e[u] = m.vault[u].pool /\ e[u] \in Nat
  BY <1>1, VaultType DEF Pools
<1>5. SumFunction(f) = SumFunctionOnSet(f, S) /\ SumFunction(e) = SumFunctionOnSet(e, R)
  BY <1>3 DEF SumFunction
<1>6. e[v] = new.pool /\ new.pool \in Nat /\ \A u \in S \ {v} : e[u] = f[u]
  BY <1>1, <1>4
<1> HIDE DEF S, R, f, e
<1>7. SumFunctionOnSet(f, S) \in Nat
  BY <1>2, <1>4, SumNat
<1>8. CASE v \in S
  <2>1. R = S
    BY <1>1, <1>8
  <2>2. SumFunctionOnSet(e, S) + f[v] = SumFunctionOnSet(f, S) + e[v]
    BY <1>2, <1>4, <1>6, <1>8, <2>1, SumChange
  <2> QED  BY <1>4, <1>5, <1>6, <1>7, <1>8, <2>1, <2>2 DEF S, f, e
<1>9. CASE v \notin S
  <2>1. e[v] \in Nat /\ \A u \in S : f[u] \in Nat /\ e[u] = f[u]
    BY <1>4, <1>6, <1>9
  <2>2. SumFunctionOnSet(e, S \union {v}) = SumFunctionOnSet(f, S) + e[v]
    BY <1>2, <1>9, <2>1, SumAddMember
  <2> QED  BY <1>1, <1>5, <1>6, <1>7, <1>9, <2>2 DEF S, f, e
<1> QED  BY <1>8, <1>9

(* So do the wallets, when one of them changes.                           *)
LEMMA WalletSum ==
    ASSUME NEW w \in [Address -> U64], NEW a \in Address, NEW n \in U64
    PROVE  /\ SumFunction(w) \in Nat
           /\ SumFunction([w EXCEPT ![a] = n]) \in Nat
           /\ SumFunction([w EXCEPT ![a] = n]) + w[a] = SumFunction(w) + n
<1> DEFINE e == [w EXCEPT ![a] = n]
<1>1. e \in [Address -> U64] /\ e[a] = n /\ \A x \in Address \ {a} : e[x] = w[x]
  OBVIOUS
<1>2. \A x \in Address : w[x] \in Nat /\ e[x] \in Nat
  BY <1>1, GuardAssumption DEF U64
<1> HIDE DEF e
<1>3. /\ SumFunction(w) = SumFunctionOnSet(w, Address)
      /\ SumFunction(e) = SumFunctionOnSet(e, Address)
  BY <1>1 DEF SumFunction
<1>4. SumFunctionOnSet(w, Address) \in Nat /\ SumFunctionOnSet(e, Address) \in Nat
  BY <1>2, VaultAssumption, SumNat
<1>5. SumFunctionOnSet(e, Address) + w[a] = SumFunctionOnSet(w, Address) + e[a]
  BY <1>1, <1>2, VaultAssumption, SumChange
<1> QED  BY <1>1, <1>3, <1>4, <1>5 DEF e

(* The value of a set of coins.                                            *)
Value(cs) == SumFunction([c \in cs |-> c.value])

(* A transaction without coins holds nothing.                             *)
LEMMA NoCoins == Value({}) = 0
<1>1. DOMAIN [c \in {} |-> c.value] = {}
  OBVIOUS
<1> QED  BY <1>1, SumEmpty DEF Value, SumFunction

(* A coin more is worth its value.                                        *)
LEMMA CoinAdded ==
    ASSUME NEW cs \in SUBSET Coin, IsFiniteSet(cs), NEW x \in Coin, x \notin cs
    PROVE  /\ Value(cs) \in Nat
           /\ Value(cs \union {x}) = Value(cs) + x.value
<1> DEFINE f == [c \in cs |-> c.value]
           e == [c \in cs \union {x} |-> c.value]
<1>1. /\ DOMAIN f = cs /\ DOMAIN e = cs \union {x} /\ e[x] = x.value
      /\ \A c \in cs : f[c] \in Nat /\ e[c] = f[c]
      /\ e[x] \in Nat
  BY GuardAssumption DEF Coin, U64
<1> HIDE DEF f, e
<1>2. SumFunctionOnSet(f, cs) \in Nat
  BY <1>1, SumNat
<1>3. SumFunctionOnSet(e, cs \union {x}) = SumFunctionOnSet(f, cs) + e[x]
  BY <1>1, SumAddMember
<1> QED  BY <1>1, <1>2, <1>3 DEF Value, SumFunction, f, e

(* A coin less, too.                                                      *)
LEMMA CoinGone ==
    ASSUME NEW cs \in SUBSET Coin, IsFiniteSet(cs), NEW x \in cs
    PROVE  /\ Value(cs \ {x}) \in Nat
           /\ x.value \in Nat
           /\ Value(cs) = Value(cs \ {x}) + x.value
<1> DEFINE r == cs \ {x}
<1>1. r \in SUBSET Coin /\ x \in Coin /\ x \notin r /\ r \union {x} = cs
  OBVIOUS
<1>2. IsFiniteSet(r)
  BY FS_Subset
<1>3. x.value \in Nat
  BY GuardAssumption DEF Coin, U64
<1> HIDE DEF r
<1>4. Value(r) \in Nat /\ Value(r \union {x}) = Value(r) + x.value
  BY <1>1, <1>2, CoinAdded
<1> QED  BY <1>1, <1>3, <1>4 DEF r

(* What a new draw adds to the signatures that name a vault.               *)
LEMMA DrawnSum ==
    ASSUME NEW d \in [Signable -> Nat], NEW s \in Signable, NEW n \in Nat,
           NEW v
    PROVE  LET e == [d EXCEPT ![s] = @ + n]
           IN  /\ SumFunctionOnSet(d, Naming(v)) \in Nat
               /\ s.digest.vault = v =>
                    SumFunctionOnSet(e, Naming(v))
                      = SumFunctionOnSet(d, Naming(v)) + n
               /\ s.digest.vault # v =>
                    SumFunctionOnSet(e, Naming(v))
                      = SumFunctionOnSet(d, Naming(v))
<1> DEFINE e == [d EXCEPT ![s] = @ + n]
           S == Naming(v)
<1>1. S \in SUBSET Signable /\ IsFiniteSet(S) /\ (s \in S <=> s.digest.vault = v)
  BY VaultAssumption, FS_Subset DEF Naming
<1>2. /\ \A x \in Signable : d[x] \in Nat /\ e[x] \in Nat
      /\ \A x \in Signable \ {s} : e[x] = d[x]
      /\ e[s] = d[s] + n
  OBVIOUS
<1> HIDE DEF e, S
<1>3. SumFunctionOnSet(d, S) \in Nat /\ SumFunctionOnSet(e, S) \in Nat
  BY <1>1, <1>2, SumNat
<1>4. CASE s \in S
  <2>1. SumFunctionOnSet(e, S) + d[s] = SumFunctionOnSet(d, S) + e[s]
    BY <1>1, <1>2, <1>4, SumChange
  <2> QED  BY <1>1, <1>2, <1>3, <1>4, <2>1 DEF e, S
<1>5. CASE s \notin S
  <2>1. SumFunctionOnSet(e, S) = SumFunctionOnSet(d, S)
    BY <1>1, <1>2, <1>5, SumSame
  <2> QED  BY <1>1, <1>3, <1>5, <2>1 DEF e, S
<1> QED  BY <1>4, <1>5

(* The sums that occur are natural numbers.                                *)
LEMMA PoolsNat ==
    ASSUME NEW b \in Bank
    PROVE  SumFunction(Pools(b)) \in Nat
<1>1. DOMAIN Pools(b) = DOMAIN b.vault /\ IsFiniteSet(DOMAIN b.vault)
  BY BankType, VaultAssumption, FS_Subset DEF Pools
<1>2. \A v \in DOMAIN b.vault : Pools(b)[v] \in Nat
  BY VaultType DEF Pools
<1> QED  BY <1>1, <1>2, SumNat DEF SumFunction

(* All wallets together hold a number of MIST.                            *)
LEMMA WalletNat ==
    ASSUME NEW b \in Bank
    PROVE  SumFunction(b.wallet) \in Nat
<1>1. DOMAIN b.wallet = Address /\ \A a \in Address : b.wallet[a] \in Nat
  BY BankType, GuardAssumption DEF U64
<1> QED  BY <1>1, VaultAssumption, SumNat DEF SumFunction

(* So do all draws from a vault.                                          *)
LEMMA DrawnNat ==
    ASSUME NEW b \in Bank, NEW v
    PROVE  SumFunctionOnSet(b.drawn, Naming(v)) \in Nat
<1>1. IsFiniteSet(Naming(v)) /\ \A s \in Naming(v) : b.drawn[s] \in Nat
  BY BankType, VaultAssumption, FS_Subset DEF Naming
<1> QED  BY <1>1, SumNat

-----------------------------------------------------------------------------
(***************************************************************************)
(* 8. What the steps do to the parts of the invariant that speak of one    *)
(* bank.                                                                   *)
(***************************************************************************)

(* What every bank record satisfies, between two commands.                *)
BankInv(b) == b \in Bank /\ Balanced(b) /\ Accounted(b)

(* Nothing is lost or made, as an equation between sums.                  *)
LEMMA CompleteSums ==
    ASSUME NEW b, NEW cs
    PROVE  Complete(b, cs) <=>
             SumFunction(b.wallet) + SumFunction(Pools(b)) + Value(cs)
                 = SumFunction(Funds)
  BY DEF Complete, Value

(* open moves a coin into a vault, and nothing is lost or made.           *)
LEMMA OpenKeeps ==
    ASSUME NEW b, BankInv(b), NEW v \in VaultId, v \notin DOMAIN b.vault,
           NEW a \in Address, NEW cs \in SUBSET Coin, IsFiniteSet(cs),
           NEW c \in cs, Complete(b, cs)
    PROVE  LET m == AfterOpen(b, v, a, c.value)
           IN  BankInv(m) /\ Complete(m, cs \ {c})
<1> DEFINE m == AfterOpen(b, v, a, c.value)
           new == [owner |-> a, balance |-> c.value, pool |-> c.value]
           put == [b.put EXCEPT ![v] = @ + c.value]
<1>1. b \in Bank /\ c.value \in U64 /\ c.value \in Nat
  BY GuardAssumption DEF BankInv, Coin, U64
<1>2. Changed(b, m, v, new, put, b.drawn)
  BY <1>1, OpenEffect
<1>3. new.balance = c.value /\ new.pool = c.value
  OBVIOUS
<1>4. /\ put[v] = b.put[v] + c.value
      /\ \A u \in VaultId \ {v} : put[u] = b.put[u]
  BY <1>1, BankType
<1> HIDE DEF m, new, put
<1>5. /\ m \in Bank /\ m.put = put /\ m.drawn = b.drawn /\ m.wallet = b.wallet
      /\ DOMAIN m.vault = DOMAIN b.vault \union {v} /\ m.vault[v] = new
      /\ \A u \in DOMAIN b.vault \ {v} : m.vault[u] = b.vault[u]
  BY <1>2 DEF Changed
<1>6. Balanced(m)
  BY <1>3, <1>5 DEF Balanced, BankInv
<1>7. Accounted(m)
  <2> SUFFICES ASSUME NEW u \in VaultId
               PROVE  Balance(m, u) + SumFunctionOnSet(m.drawn, Naming(u)) = m.put[u]
    BY DEF Accounted
  <2>1. Balance(b, u) + SumFunctionOnSet(b.drawn, Naming(u)) = b.put[u]
    BY DEF BankInv, Accounted
  <2>2. CASE u = v
    <3>1. Balance(b, u) = 0 /\ Balance(m, u) = c.value
      BY <1>3, <1>5, <2>2 DEF Balance
    <3>2. SumFunctionOnSet(b.drawn, Naming(u)) \in Nat
      BY <1>1, DrawnNat
    <3> QED  BY <1>1, <1>4, <1>5, <2>1, <2>2, <3>1, <3>2
  <2>3. CASE u # v
    <3>1. Balance(m, u) = Balance(b, u)
      BY <1>5, <2>3 DEF Balance
    <3> QED  BY <1>4, <1>5, <2>1, <2>3, <3>1
  <2> QED  BY <2>2, <2>3
<1>8. Complete(m, cs \ {c})
  <2>1. /\ SumFunction(Pools(b)) \in Nat
        /\ SumFunction(Pools(m)) = SumFunction(Pools(b)) + new.pool
    BY <1>1, <1>2, PoolsSum
  <2>2. Value(cs \ {c}) \in Nat /\ Value(cs) = Value(cs \ {c}) + c.value
    BY CoinGone
  <2>3. SumFunction(m.wallet) = SumFunction(b.wallet) /\ SumFunction(b.wallet) \in Nat
    BY <1>1, <1>5, WalletNat
  <2> QED  BY <1>1, <1>3, <2>1, <2>2, <2>3, CompleteSums
<1> QED  BY <1>5, <1>6, <1>7, <1>8 DEF BankInv, m

(* deposit does.                                                          *)
LEMMA DepositKeeps ==
    ASSUME NEW b, BankInv(b), NEW v \in DOMAIN b.vault,
           NEW cs \in SUBSET Coin, IsFiniteSet(cs),
           NEW c \in cs, Complete(b, cs),
           b.vault[v].pool + c.value \in U64,
           b.vault[v].balance + c.value \in U64
    PROVE  LET m == AfterDeposit(b, v, c.value)
           IN  BankInv(m) /\ Complete(m, cs \ {c})
<1> DEFINE m == AfterDeposit(b, v, c.value)
           new == [owner |-> b.vault[v].owner,
                   balance |-> b.vault[v].balance + c.value,
                   pool |-> b.vault[v].pool + c.value]
           put == [b.put EXCEPT ![v] = @ + c.value]
<1>1. b \in Bank /\ c.value \in U64 /\ c.value \in Nat /\ v \in VaultId
  BY BankType, GuardAssumption DEF BankInv, Coin, U64
<1>2. Changed(b, m, v, new, put, b.drawn)
  BY <1>1, DepositEffect
<1>3. /\ new.balance = b.vault[v].balance + c.value
      /\ new.pool = b.vault[v].pool + c.value
  OBVIOUS
<1>4. /\ put[v] = b.put[v] + c.value
      /\ \A u \in VaultId \ {v} : put[u] = b.put[u]
  BY <1>1, BankType
<1>5. b.vault[v].balance \in Nat /\ b.vault[v].pool \in Nat
  BY <1>1, VaultType
<1> HIDE DEF m, new, put
<1>6. /\ m \in Bank /\ m.put = put /\ m.drawn = b.drawn /\ m.wallet = b.wallet
      /\ DOMAIN m.vault = DOMAIN b.vault /\ m.vault[v] = new
      /\ \A u \in DOMAIN b.vault \ {v} : m.vault[u] = b.vault[u]
  BY <1>2 DEF Changed
<1>7. Balanced(m)
  BY <1>3, <1>6 DEF Balanced, BankInv
<1>8. Accounted(m)
  <2> SUFFICES ASSUME NEW u \in VaultId
               PROVE  Balance(m, u) + SumFunctionOnSet(m.drawn, Naming(u)) = m.put[u]
    BY DEF Accounted
  <2>1. Balance(b, u) + SumFunctionOnSet(b.drawn, Naming(u)) = b.put[u]
    BY DEF BankInv, Accounted
  <2>2. CASE u = v
    <3>1. Balance(b, u) = b.vault[v].balance /\ Balance(m, u) = new.balance
      BY <1>6, <2>2 DEF Balance
    <3>2. SumFunctionOnSet(b.drawn, Naming(u)) \in Nat
      BY <1>1, DrawnNat
    <3> QED  BY <1>1, <1>3, <1>4, <1>5, <1>6, <2>1, <2>2, <3>1, <3>2
  <2>3. CASE u # v
    <3>1. Balance(m, u) = Balance(b, u)
      BY <1>6, <2>3 DEF Balance
    <3> QED  BY <1>4, <1>6, <2>1, <2>3, <3>1
  <2> QED  BY <2>2, <2>3
<1>9. Complete(m, cs \ {c})
  <2>1. /\ SumFunction(Pools(b)) \in Nat /\ new.pool \in Nat
        /\ SumFunction(Pools(m)) + b.vault[v].pool
              = SumFunction(Pools(b)) + new.pool
    BY <1>1, <1>2, PoolsSum
  <2>2. SumFunction(Pools(m)) \in Nat
    BY <1>6, PoolsNat
  <2>3. Value(cs \ {c}) \in Nat /\ Value(cs) = Value(cs \ {c}) + c.value
    BY CoinGone
  <2>4. SumFunction(m.wallet) = SumFunction(b.wallet) /\ SumFunction(b.wallet) \in Nat
    BY <1>1, <1>6, WalletNat
  <2> QED  BY <1>1, <1>3, <1>5, <2>1, <2>2, <2>3, <2>4, CompleteSums
<1> QED  BY <1>6, <1>7, <1>8, <1>9 DEF BankInv, m

(* withdraw moves SUI from a vault to a coin.                             *)
LEMMA WithdrawKeeps ==
    ASSUME NEW b, BankInv(b), NEW v \in DOMAIN b.vault,
           NEW amount \in U64, NEW s \in Signable, s.digest.vault = v,
           NEW cs \in SUBSET Coin, IsFiniteSet(cs), Complete(b, cs),
           NEW c \in Coin, c \notin cs, c.value = amount,
           b.vault[v].pool >= amount,
           b.vault[v].balance >= amount
    PROVE  LET m == AfterWithdraw(b, v, amount, s)
           IN  BankInv(m) /\ Complete(m, cs \union {c})
<1> DEFINE m == AfterWithdraw(b, v, amount, s)
           new == [owner |-> b.vault[v].owner,
                   balance |-> b.vault[v].balance - amount,
                   pool |-> b.vault[v].pool - amount]
           drawn == [b.drawn EXCEPT ![s] = @ + amount]
<1>1. b \in Bank /\ amount \in Nat /\ v \in VaultId
  BY BankType, GuardAssumption DEF BankInv, U64
<1>2. Changed(b, m, v, new, b.put, drawn)
  BY <1>1, WithdrawEffect
<1>3. /\ new.balance = b.vault[v].balance - amount
      /\ new.pool = b.vault[v].pool - amount
  OBVIOUS
<1>4. \A u : /\ SumFunctionOnSet(b.drawn, Naming(u)) \in Nat
             /\ u = v => SumFunctionOnSet(drawn, Naming(u))
                            = SumFunctionOnSet(b.drawn, Naming(u)) + amount
             /\ u # v => SumFunctionOnSet(drawn, Naming(u))
                            = SumFunctionOnSet(b.drawn, Naming(u))
  BY <1>1, BankType, DrawnSum
<1>5. b.vault[v].balance \in Nat /\ b.vault[v].pool \in Nat
  BY <1>1, VaultType
<1> HIDE DEF m, new, drawn
<1>6. /\ m \in Bank /\ m.put = b.put /\ m.drawn = drawn /\ m.wallet = b.wallet
      /\ DOMAIN m.vault = DOMAIN b.vault /\ m.vault[v] = new
      /\ \A u \in DOMAIN b.vault \ {v} : m.vault[u] = b.vault[u]
  BY <1>2 DEF Changed
<1>7. Balanced(m)
  BY <1>3, <1>6 DEF Balanced, BankInv
<1>8. Accounted(m)
  <2> SUFFICES ASSUME NEW u \in VaultId
               PROVE  Balance(m, u) + SumFunctionOnSet(m.drawn, Naming(u)) = m.put[u]
    BY DEF Accounted
  <2>1. Balance(b, u) + SumFunctionOnSet(b.drawn, Naming(u)) = b.put[u]
    BY DEF BankInv, Accounted
  <2>2. CASE u = v
    <3>1. Balance(b, u) = b.vault[v].balance /\ Balance(m, u) = new.balance
      BY <1>6, <2>2 DEF Balance
    <3> QED  BY <1>1, <1>3, <1>4, <1>5, <1>6, <2>1, <2>2, <3>1
  <2>3. CASE u # v
    <3>1. Balance(m, u) = Balance(b, u)
      BY <1>6, <2>3 DEF Balance
    <3> QED  BY <1>4, <1>6, <2>1, <2>3, <3>1
  <2> QED  BY <2>2, <2>3
<1>9. Complete(m, cs \union {c})
  <2>1. /\ SumFunction(Pools(b)) \in Nat /\ new.pool \in Nat
        /\ SumFunction(Pools(m)) + b.vault[v].pool
              = SumFunction(Pools(b)) + new.pool
    BY <1>1, <1>2, PoolsSum
  <2>2. SumFunction(Pools(m)) \in Nat
    BY <1>6, PoolsNat
  <2>3. Value(cs) \in Nat /\ Value(cs \union {c}) = Value(cs) + c.value
    BY CoinAdded
  <2>4. SumFunction(m.wallet) = SumFunction(b.wallet) /\ SumFunction(b.wallet) \in Nat
    BY <1>1, <1>6, WalletNat
  <2> QED  BY <1>1, <1>3, <1>5, <2>1, <2>2, <2>3, <2>4, CompleteSums
<1> QED  BY <1>6, <1>7, <1>8, <1>9 DEF BankInv, m

(* A split moves SUI from a wallet to a coin.                             *)
LEMMA SplitKeeps ==
    ASSUME NEW b, BankInv(b), NEW a \in Address, NEW amount \in U64,
           b.wallet[a] >= amount,
           NEW cs \in SUBSET Coin, IsFiniteSet(cs), Complete(b, cs),
           NEW c \in Coin, c \notin cs, c.value = amount
    PROVE  LET m == AfterSplit(b, a, amount)
           IN  BankInv(m) /\ Complete(m, cs \union {c})
<1> DEFINE m == AfterSplit(b, a, amount)
<1>1. b \in Bank /\ amount \in Nat
  BY GuardAssumption DEF BankInv, U64
<1>2. /\ m \in Bank /\ m.wallet = [b.wallet EXCEPT ![a] = @ - amount]
      /\ b.wallet[a] - amount \in U64
  BY <1>1, SplitEffect
<1>3. m.vault = b.vault /\ m.put = b.put /\ m.drawn = b.drawn
  BY DEF AfterSplit
<1> HIDE DEF m
<1>4. Balanced(m) /\ Accounted(m)
  BY <1>3 DEF BankInv, Balanced, Accounted, Balance
<1>5. Complete(m, cs \union {c})
  <2>1. SumFunction(Pools(m)) = SumFunction(Pools(b)) /\ SumFunction(Pools(b)) \in Nat
    BY <1>1, <1>3, PoolsNat DEF Pools
  <2>2. /\ SumFunction(b.wallet) \in Nat /\ SumFunction(m.wallet) \in Nat
        /\ SumFunction(m.wallet) + b.wallet[a]
              = SumFunction(b.wallet) + (b.wallet[a] - amount)
        /\ b.wallet[a] \in Nat
    BY <1>1, <1>2, BankType, WalletSum, GuardAssumption DEF U64
  <2>3. Value(cs) \in Nat /\ Value(cs \union {c}) = Value(cs) + c.value
    BY CoinAdded
  <2> QED  BY <1>1, <2>1, <2>2, <2>3, CompleteSums
<1> QED  BY <1>2, <1>4, <1>5 DEF BankInv, m

(* A transfer moves it from a coin to a wallet.                           *)
LEMMA TransferKeeps ==
    ASSUME NEW b, BankInv(b), NEW a \in Address,
           NEW cs \in SUBSET Coin, IsFiniteSet(cs), Complete(b, cs),
           NEW c \in cs, b.wallet[a] + c.value \in U64
    PROVE  LET m == AfterTransfer(b, a, c)
           IN  BankInv(m) /\ Complete(m, cs \ {c})
<1> DEFINE m == AfterTransfer(b, a, c)
<1>1. b \in Bank /\ c.value \in Nat /\ c \in Coin
  BY GuardAssumption DEF BankInv, U64, Coin
<1>2. m \in Bank /\ m.wallet = [b.wallet EXCEPT ![a] = @ + c.value]
  BY <1>1, TransferEffect
<1>3. m.vault = b.vault /\ m.put = b.put /\ m.drawn = b.drawn
  BY DEF AfterTransfer
<1> HIDE DEF m
<1>4. Balanced(m) /\ Accounted(m)
  BY <1>3 DEF BankInv, Balanced, Accounted, Balance
<1>5. Complete(m, cs \ {c})
  <2>1. SumFunction(Pools(m)) = SumFunction(Pools(b)) /\ SumFunction(Pools(b)) \in Nat
    BY <1>1, <1>3, PoolsNat DEF Pools
  <2>2. /\ SumFunction(b.wallet) \in Nat /\ SumFunction(m.wallet) \in Nat
        /\ SumFunction(m.wallet) + b.wallet[a]
              = SumFunction(b.wallet) + (b.wallet[a] + c.value)
        /\ b.wallet[a] \in Nat
    BY <1>1, <1>2, BankType, WalletSum, GuardAssumption DEF U64
  <2>3. Value(cs \ {c}) \in Nat /\ Value(cs) = Value(cs \ {c}) + c.value
    BY CoinGone
  <2> QED  BY <1>1, <2>1, <2>2, <2>3, CompleteSums
<1> QED  BY <1>2, <1>4, <1>5 DEF BankInv, m

-----------------------------------------------------------------------------
(***************************************************************************)
(* 9. The invariant, whatever keys the holders choose.                     *)
(***************************************************************************)

(* The part of every step that PqGuard describes keeps its types.          *)
LEMMA GuardPartType ==
    ASSUME TypeInv, [VaultNext]_vaultVars
    PROVE  TypeInv'
<1>1. CASE [GuardNext]_guardVars
  BY <1>1, StepType
<1>2. CASE Command /\ UNCHANGED <<work, held>>
  BY <1>2, GuardAssumption DEF Command, TypeInv, TypeOK, Copied
<1>3. [GuardNext]_guardVars \/ (Command /\ UNCHANGED <<work, held>>)
  BY DEF VaultNext, GuardOnly, GuardNext, SplitCoin, TransferCoin, Open, Deposit,
         Withdraw, VaultCommit, VaultAbort, vaultVars
<1> QED  BY <1>1, <1>2, <1>3

(* The funds are all in the wallets at first.                             *)
LEMMA VaultInitInv == VaultInit => VaultInv
<1> SUFFICES ASSUME VaultInit PROVE VaultInv
  OBVIOUS
<1>1. TypeInv
  BY InitType DEF VaultInit
<1>2. bank \in Bank
  <2> DEFINE f == [v \in {} |-> 0]
             p == [v \in VaultId |-> 0]
             d == [s \in Signable |-> 0]
             r == [a \in Address |-> 0]
  <2>1. /\ f \in [{} -> Vault] /\ {} \in SUBSET VaultId
        /\ p \in [VaultId -> Nat] /\ d \in [Signable -> Nat]
        /\ r \in [Address -> Nat] /\ Funds \in [Address -> U64]
    BY VaultAssumption
  <2>2. bank = [vault |-> f, wallet |-> Funds, put |-> p, drawn |-> d,
                received |-> r]
    BY DEF VaultInit
  <2> HIDE DEF f, p, d, r
  <2> QED  BY <2>1, <2>2, BankIntro
<1>3. /\ till = bank /\ coins = {} /\ held = {} /\ ~Executing
      /\ DOMAIN bank.vault = {} /\ bank.wallet = Funds
      /\ \A v \in VaultId : bank.put[v] = 0
      /\ \A s \in Signable : bank.drawn[s] = 0
  BY GuardAssumption DEF VaultInit, GuardInit, Executing
<1>4. VaultTypeOK
  BY <1>1, <1>2, <1>3 DEF VaultTypeOK, TypeInv
<1>5. Balanced(bank)
  BY <1>3 DEF Balanced
<1>6. Accounted(bank)
  <2> SUFFICES ASSUME NEW v \in VaultId
               PROVE  SumFunctionOnSet(bank.drawn, Naming(v)) = 0
    BY <1>3 DEF Accounted, Balance
  <2>1. Naming(v) \in SUBSET Signable /\ IsFiniteSet(Naming(v))
    BY VaultAssumption, FS_Subset DEF Naming
  <2> QED  BY <1>3, <2>1, SumZero
<1>7. Complete(bank, {})
  <2>1. DOMAIN Pools(bank) = {}
    BY <1>3 DEF Pools
  <2>2. SumFunction(Pools(bank)) = 0
    BY <2>1, SumEmpty DEF SumFunction
  <2>3. SumFunction(bank.wallet) \in Nat
    BY <1>2, WalletNat
  <2> QED  BY <1>3, <2>2, <2>3, NoCoins, CompleteSums
<1>8. TillExtends /\ AtRest
  BY <1>3 DEF TillExtends, AtRest
<1>9. Results
  BY <1>3, FS_EmptySet DEF Results
<1> QED  BY <1>1, <1>3, <1>4, <1>5, <1>6, <1>7, <1>8, <1>9
         DEF VaultInv, TypeInv, Copied

(* A new coin is not yet among the coins.                                  *)
LEMMA CoinIsNew ==
    ASSUME VaultTypeOK, Results, NEW amount \in U64, NEW drawn \in BOOLEAN
    PROVE  LET c == NewCoin(amount, drawn)
           IN  c \in Coin /\ c \notin coins /\ c.value = amount /\ c.result = count
<1>1. count \in Nat
  BY GuardAssumption DEF VaultTypeOK, TypeOK
<1> QED  BY <1>1 DEF NewCoin, Coin, Results

(* Every step keeps the invariant, command by command.                    *)
LEMMA VaultStepInv ==
    ASSUME VaultInv, [VaultNext]_vaultVars
    PROVE  VaultInv'
<1>1. /\ TypeInv /\ coins \in SUBSET Coin /\ IsFiniteSet(coins)
      /\ BankInv(bank) /\ BankInv(till)
      /\ Complete(bank, {}) /\ Complete(till, coins)
      /\ TillExtends /\ AtRest /\ Results /\ count \in Nat
  BY GuardAssumption
     DEF VaultInv, VaultTypeOK, TypeInv, TypeOK, Copied, BankInv, Results
<1>2. TypeInv'
  BY <1>1, GuardPartType
<1> DEFINE Good == /\ coins' \in SUBSET Coin /\ BankInv(bank') /\ BankInv(till')
                   /\ Complete(bank', {}) /\ Complete(till', coins')
                   /\ TillExtends' /\ AtRest' /\ Results'
<1>3. SUFFICES Good
  <2>1. Good => /\ Balanced(bank)' /\ Balanced(till)'
                /\ Accounted(bank)' /\ Accounted(till)'
                /\ (bank \in Bank)' /\ (till \in Bank)'
    BY DEF BankInv
  <2>2. Good => Complete(bank, {})' /\ Complete(till, coins)'
    OBVIOUS
  <2> QED  BY <1>2, <2>1, <2>2 DEF VaultInv, VaultTypeOK, TypeInv, Copied
<1> USE DEF Good
(* What the steps that move no coin share.                                 *)
<1>a. ASSUME UNCHANGED <<bank, till, coins, sender>>, count' >= count,
             \A w \in held' : w.by.digest = w.action_digest
      PROVE  Good
  <2>1. TillExtends' /\ AtRest'
    BY <1>1, <1>a DEF TillExtends, AtRest, Executing
  <2>2. count' \in Nat
    BY <1>2, GuardAssumption DEF TypeInv, TypeOK
  <2>3. Results'
    BY <1>1, <1>a, <2>2 DEF Results, Coin
  <2> QED  BY <1>1, <1>a, <2>1, <2>3
(* What all the commands that move coins share.                            *)
<1> DEFINE Moved == /\ Command /\ bank' = bank
                    /\ \A v \in DOMAIN bank.vault :
                         /\ v \in DOMAIN till'.vault
                         /\ till'.vault[v].owner = till.vault[v].owner
                         /\ till'.vault[v].balance < till.vault[v].balance
                               => sender = till.vault[v].owner
<1>b. ASSUME Moved, BankInv(till')
      PROVE              /\ BankInv(bank') /\ Complete(bank', {})
                         /\ TillExtends' /\ AtRest'
                         /\ count' = count + 1
  <2>1. BankInv(bank') /\ Complete(bank', {}) /\ count' = count + 1 /\ AtRest'
    BY <1>1, <1>b DEF Command, AtRest, Executing
  <2>2. SUFFICES ASSUME NEW v \in DOMAIN bank.vault
                 PROVE  /\ v \in DOMAIN till'.vault
                        /\ till'.vault[v].owner = bank.vault[v].owner
                        /\ till'.vault[v].balance < bank.vault[v].balance
                             => sender = bank.vault[v].owner
    BY <1>b, <2>1 DEF TillExtends, Command
  <2>3. /\ v \in DOMAIN till.vault
        /\ till.vault[v].owner = bank.vault[v].owner
        /\ till.vault[v].balance < bank.vault[v].balance
              => sender = bank.vault[v].owner
    BY <1>1 DEF TillExtends
  <2>4. /\ v \in DOMAIN till'.vault
        /\ till'.vault[v].owner = till.vault[v].owner
        /\ till'.vault[v].balance < till.vault[v].balance
              => sender = till.vault[v].owner
    BY <1>b
  <2>5. /\ till.vault[v].balance \in Nat /\ bank.vault[v].balance \in Nat
    BY <1>1, <2>3, VaultType DEF BankInv
  <2>6. till'.vault[v].balance \in Nat
    BY <1>b, <2>4, VaultType DEF BankInv
  <2> QED  BY <2>3, <2>4, <2>5, <2>6
<1>c. ASSUME count' = count + 1, held' \subseteq held,
             \/ \E c \in coins : coins' = coins \ {c}
             \/ \E c \in Coin : coins' = coins \union {c} /\ c.result = count
      PROVE  coins' \in SUBSET Coin /\ Results'
  <2>1. IsFiniteSet(coins')
    BY <1>1, <1>c, FS_AddElement, FS_RemoveElement
  <2>2. coins' \in SUBSET Coin /\ \A c \in coins' : c.result < count'
    BY <1>1, <1>c DEF Coin, Results
  <2>3. \A w \in held' : w.by.digest = w.action_digest
    BY <1>1, <1>c DEF Results
  <2> QED  BY <2>1, <2>2, <2>3 DEF Results
<1>d. VaultTypeOK /\ till \in Bank
  BY DEF VaultInv, VaultTypeOK
<1>4. ASSUME NEW amount \in U64, Executing, SplitCoin(amount) PROVE Good
  <2> DEFINE c == NewCoin(amount, FALSE)
  <2>1. /\ Command /\ till.wallet[sender] >= amount /\ bank' = bank /\ held' = held
        /\ till' = AfterSplit(till, sender, amount)
        /\ coins' = coins \union {c} /\ sender \in Address
    BY <1>4 DEF SplitCoin, Executing
  <2>2. c \in Coin /\ c \notin coins /\ c.value = amount /\ c.result = count
    BY <1>1, <1>d, CoinIsNew
  <2> HIDE DEF c
  <2>3. BankInv(till') /\ Complete(till', coins')
    BY <1>1, <2>1, <2>2, SplitKeeps
  <2>4. till'.vault = till.vault
    BY <2>1 DEF AfterSplit
  <2>5. Moved
    <3>1. \A v \in DOMAIN bank.vault :
             v \in DOMAIN till.vault /\ till.vault[v].balance \in Nat
      BY <1>1, <1>d, VaultType DEF TillExtends
    <3> QED  BY <2>1, <2>4, <3>1
  <2>6. /\ BankInv(bank') /\ Complete(bank', {})
        /\ TillExtends' /\ AtRest' /\ count' = count + 1
    BY <1>b, <2>3, <2>5
  <2>7. coins' \in SUBSET Coin /\ Results'
    BY <1>c, <2>1, <2>2, <2>6
  <2> QED  BY <2>3, <2>6, <2>7
<1>5. ASSUME NEW c \in coins, NEW a \in Address, TransferCoin(c, a) PROVE Good
  <2>1. /\ Command /\ till.wallet[a] + c.value \in U64 /\ bank' = bank /\ held' = held
        /\ till' = AfterTransfer(till, a, c)
        /\ coins' = coins \ {c}
    BY <1>5 DEF TransferCoin
  <2>3. BankInv(till') /\ Complete(till', coins')
    BY <1>1, <2>1, TransferKeeps
  <2>4. till'.vault = till.vault
    BY <2>1 DEF AfterTransfer
  <2>5. Moved
    <3>1. \A v \in DOMAIN bank.vault :
             v \in DOMAIN till.vault /\ till.vault[v].balance \in Nat
      BY <1>1, <1>d, VaultType DEF TillExtends
    <3> QED  BY <2>1, <2>4, <3>1
  <2>6. /\ BankInv(bank') /\ Complete(bank', {})
        /\ TillExtends' /\ AtRest' /\ count' = count + 1
    BY <1>b, <2>3, <2>5
  <2>7. coins' \in SUBSET Coin /\ Results'
    BY <1>c, <2>1, <2>6
  <2> QED  BY <2>3, <2>6, <2>7
<1>6. ASSUME NEW v \in VaultId, NEW c \in coins, Open(v, c) PROVE Good
  <2>1. /\ Command /\ v \notin DOMAIN till.vault /\ bank' = bank /\ held' = held
        /\ till' = AfterOpen(till, v, sender, c.value)
        /\ coins' = coins \ {c} /\ sender \in Address
    BY <1>6 DEF Open, Command, Executing
  <2>3. BankInv(till') /\ Complete(till', coins')
    BY <1>1, <2>1, OpenKeeps
  <2>4. /\ DOMAIN till'.vault = DOMAIN till.vault \union {v}
        /\ \A u \in DOMAIN till.vault : till'.vault[u] = till.vault[u]
    BY <2>1 DEF AfterOpen
  <2>5. Moved
    <3>1. \A u \in DOMAIN bank.vault :
             u \in DOMAIN till.vault /\ till.vault[u].balance \in Nat
      BY <1>1, <1>d, VaultType DEF TillExtends
    <3> QED  BY <2>1, <2>4, <3>1
  <2>6. /\ BankInv(bank') /\ Complete(bank', {})
        /\ TillExtends' /\ AtRest' /\ count' = count + 1
    BY <1>b, <2>3, <2>5
  <2>7. coins' \in SUBSET Coin /\ Results'
    BY <1>c, <2>1, <2>6
  <2> QED  BY <2>3, <2>6, <2>7
<1>7. ASSUME NEW v \in VaultId, NEW c \in coins, Deposit(v, c) PROVE Good
  <2>1. /\ Command /\ bank' = bank /\ held' = held
        /\ v \in DOMAIN bank.vault
        /\ till.vault[v].pool + c.value \in U64
        /\ till.vault[v].balance + c.value \in U64
        /\ till' = AfterDeposit(till, v, c.value)
        /\ coins' = coins \ {c}
    BY <1>7 DEF Deposit
  <2>2. v \in DOMAIN till.vault
    BY <1>1, <2>1 DEF TillExtends
  <2>3. BankInv(till') /\ Complete(till', coins')
    BY <1>1, <2>1, <2>2, DepositKeeps
  <2>4. /\ c.value \in Nat /\ c.value \in U64
    BY <1>1, GuardAssumption DEF Coin, U64
  <2>5. /\ DOMAIN till'.vault = DOMAIN till.vault \union {v}
        /\ \A u \in DOMAIN till.vault \ {v} : till'.vault[u] = till.vault[u]
        /\ till'.vault[v].owner = till.vault[v].owner
        /\ till'.vault[v].balance = till.vault[v].balance + c.value
    <3>1. Changed(till, till', v,
                  [owner |-> till.vault[v].owner,
                   balance |-> till.vault[v].balance + c.value,
                   pool |-> till.vault[v].pool + c.value],
                  [till.put EXCEPT ![v] = @ + c.value], till.drawn)
      BY <1>d, <2>1, <2>2, <2>4, DepositEffect
    <3> QED  BY <2>2, <3>1 DEF Changed
  <2>6. Moved
    <3>1. \A u \in DOMAIN bank.vault :
             u \in DOMAIN till.vault /\ till.vault[u].balance \in Nat
      BY <1>1, <1>d, VaultType DEF TillExtends
    <3> QED  BY <2>1, <2>4, <2>5, <3>1
  <2>7. /\ BankInv(bank') /\ Complete(bank', {})
        /\ TillExtends' /\ AtRest' /\ count' = count + 1
    BY <1>b, <2>3, <2>6
  <2>8. coins' \in SUBSET Coin /\ Results'
    BY <1>c, <2>1, <2>7
  <2> QED  BY <2>3, <2>7, <2>8
<1>8. ASSUME NEW v \in VaultId, NEW w \in held, NEW to \in Address,
             NEW amount \in U64, Withdraw(v, w, to, amount)
      PROVE  Good
  <2> DEFINE c == NewCoin(amount, TRUE)
  <2>1. /\ Command /\ bank' = bank /\ held' = held \ {w}
        /\ v \in DOMAIN bank.vault
        /\ till.vault[v].owner = sender
        /\ w.action_digest = WithdrawActionDigest(v, to, amount)
        /\ till.vault[v].pool >= amount
        /\ till.vault[v].balance >= amount
        /\ till' = AfterWithdraw(till, v, amount, w.by)
        /\ coins' = coins \union {c}
    BY <1>8 DEF Withdraw, Consume, MayDraw
  <2>2. v \in DOMAIN till.vault
    BY <1>1, <2>1 DEF TillExtends
  <2>3. w.by \in Signable /\ w.by.digest.vault = v
    <3>1. w.by \in Signable /\ w.by.digest = w.action_digest
      BY <1>1 DEF TypeInv, TypeOK, PqAuthorized, Results
    <3> QED  BY <2>1, <3>1 DEF WithdrawActionDigest
  <2>4. c \in Coin /\ c \notin coins /\ c.value = amount /\ c.result = count
    BY <1>1, <1>d, CoinIsNew
  <2> HIDE DEF c
  <2>5. BankInv(till') /\ Complete(till', coins')
    BY <1>1, <2>1, <2>2, <2>3, <2>4, WithdrawKeeps
  <2>6. /\ DOMAIN till'.vault = DOMAIN till.vault \union {v}
        /\ \A u \in DOMAIN till.vault \ {v} : till'.vault[u] = till.vault[u]
        /\ till'.vault[v].owner = till.vault[v].owner
    <3>1. Changed(till, till', v,
                  [owner |-> till.vault[v].owner,
                   balance |-> till.vault[v].balance - amount,
                   pool |-> till.vault[v].pool - amount],
                  till.put, [till.drawn EXCEPT ![w.by] = @ + amount])
      BY <1>d, <2>1, <2>2, <2>3, WithdrawEffect
    <3> QED  BY <2>2, <3>1 DEF Changed
  <2>7. Moved
    <3>1. \A u \in DOMAIN bank.vault :
             u \in DOMAIN till.vault /\ till.vault[u].balance \in Nat
      BY <1>1, <1>d, VaultType DEF TillExtends
    <3> QED  BY <2>1, <2>6, <3>1
  <2>8. /\ BankInv(bank') /\ Complete(bank', {})
        /\ TillExtends' /\ AtRest' /\ count' = count + 1
    BY <1>b, <2>5, <2>7
  <2>9. coins' \in SUBSET Coin /\ Results'
    BY <1>c, <2>1, <2>4, <2>8
  <2> QED  BY <2>5, <2>8, <2>9
<1>9. CASE VaultCommit
  <2>1. /\ bank' = till /\ till' = till /\ coins' = {} /\ coins = {}
        /\ held' = {}
    BY <1>9 DEF VaultCommit, Commit
  <2>2. TillExtends'
    <3>1. \A v \in DOMAIN till.vault : till.vault[v].balance \in Nat
      BY <1>d, VaultType
    <3> QED  BY <2>1, <3>1 DEF TillExtends
  <2>3. AtRest' /\ Results'
    BY <2>1, FS_EmptySet DEF AtRest, Results
  <2> QED  BY <1>1, <2>1, <2>2, <2>3
<1>10. CASE VaultAbort
  <2>1. bank' = bank /\ till' = bank /\ coins' = {} /\ held' = {}
    BY <1>10 DEF VaultAbort, Abort
  <2>2. TillExtends'
    <3>1. \A v \in DOMAIN bank.vault : bank.vault[v].balance \in Nat
      BY <1>1, VaultType DEF BankInv
    <3> QED  BY <2>1, <3>1 DEF TillExtends
  <2>3. AtRest' /\ Results'
    BY <2>1, FS_EmptySet DEF AtRest, Results
  <2> QED  BY <1>1, <2>1, <2>2, <2>3
<1>11. CASE GuardOnly
  <2>1. bank' = bank /\ till' = till /\ coins' = coins
    BY <1>11 DEF GuardOnly, bankVars
  <2>2. ASSUME NEW s \in Signable, Sign(s) PROVE Good
    BY <1>a, <1>1, <2>1, <2>2 DEF Sign, Results
  <2>3. ASSUME NEW a \in Address, Begin(a) PROVE Good
    <3>1. till = bank /\ held' = held /\ count' = count /\ coins = {}
      BY <1>1, <2>3 DEF Begin, AtRest
    <3>2. TillExtends'
      <4>1. \A v \in DOMAIN bank.vault : bank.vault[v].balance \in Nat
        BY <1>1, VaultType DEF BankInv
      <4> QED  BY <2>1, <3>1, <4>1 DEF TillExtends
    <3>3. AtRest' /\ Results'
      BY <1>1, <2>1, <3>1 DEF AtRest, Results
    <3> QED  BY <1>1, <2>1, <3>2, <3>3
  <2>4. ASSUME NEW i \in ObjId, NEW scheme \in Scheme, NEW pk \in PubKey,
               Register(i, scheme, pk)
        PROVE  Good
    BY <1>a, <1>1, <2>1, <2>4 DEF Register, Command, Results
  <2>5. ASSUME NEW i \in ObjId, NEW pk \in PubKey, Rotate(i, pk) PROVE Good
    BY <1>a, <1>1, <2>1, <2>5 DEF Rotate, Command, Results
  <2>6. ASSUME NEW i \in ObjId, NEW s \in signed, Unlock(i, s.digest, s) PROVE Good
    BY <1>a, <1>1, <2>1, <2>6 DEF Unlock, Command, Results
  <2>7. ASSUME NEW w \in held, Consume(w) PROVE Good
    BY <1>a, <1>1, <2>1, <2>7 DEF Consume, Command, Results
  <2> QED  BY <1>11, <2>2, <2>3, <2>4, <2>5, <2>6, <2>7 DEF GuardOnly
<1>12. CASE UNCHANGED vaultVars
  BY <1>a, <1>1, <1>12 DEF vaultVars, bankVars, guardVars, Results
<1> QED  BY <1>4, <1>5, <1>6, <1>7, <1>8, <1>9, <1>10, <1>11, <1>12 DEF VaultNext

(* The invariant of PqVault that the theorems below follow from holds in   *)
(* every behaviour, for any number of vaults, coins and transactions.      *)
THEOREM VaultInvariance == VaultSpec => []VaultInv
<1>1. VaultInv /\ [VaultNext]_vaultVars => VaultInv'
  BY VaultStepInv
<1> QED  BY <1>1, VaultInitInv, PTL DEF VaultSpec

(* The objects, wallets, vaults and coins always have their types: no      *)
(* balance leaves u64 or falls below zero.                                 *)
THEOREM VaultTypeCorrect == VaultSpec => []VaultTypeOK
<1>1. VaultInv => VaultTypeOK
  BY DEF VaultInv
<1> QED  BY <1>1, VaultInvariance, PTL

(* The balance withdraw checks is the value of the pool it splits.         *)
THEOREM SolventHolds == VaultSpec => []Solvent
<1>1. VaultInv => Solvent
  BY DEF VaultInv, Balanced, Solvent
<1> QED  BY <1>1, VaultInvariance, PTL

(* No step of any transaction creates or destroys SUI.                     *)
THEOREM ConservedHolds == VaultSpec => []Conserved
<1>1. VaultInv => Conserved
  BY DEF VaultInv, Conserved
<1> QED  BY <1>1, VaultInvariance, PTL

(* What went into a vault is there or was drawn on a signature naming it.  *)
THEOREM VaultAccountsHolds == VaultSpec => []VaultAccounts
<1>1. VaultInv => VaultAccounts
  <2> SUFFICES ASSUME VaultInv, NEW v \in DOMAIN bank.vault
               PROVE  bank.vault[v].balance
                        + SumFunctionOnSet(bank.drawn, Naming(v)) = bank.put[v]
    BY DEF VaultAccounts
  <2>1. v \in VaultId
    BY BankType DEF VaultInv, VaultTypeOK
  <2> QED  BY <2>1 DEF VaultInv, Accounted, Balance
<1> QED  BY <1>1, VaultInvariance, PTL

(* A vault is never deleted, keeps its owner, and loses SUI only in a      *)
(* transaction of that owner.                                              *)
THEOREM OnlyOwnerDrawsHolds == VaultSpec => OnlyOwnerDraws
<1> DEFINE Step == \A v \in DOMAIN bank.vault :
                      /\ v \in DOMAIN bank'.vault
                      /\ bank'.vault[v].owner = bank.vault[v].owner
                      /\ bank'.vault[v].balance < bank.vault[v].balance
                            => sender = bank.vault[v].owner
<1>1. VaultInv /\ [VaultNext]_vaultVars => [Step]_bank
  <2> SUFFICES ASSUME VaultInv, [VaultNext]_vaultVars, bank' # bank
               PROVE  Step
    OBVIOUS
  <2>1. VaultCommit
    BY DEF VaultNext, GuardOnly, bankVars, SplitCoin, TransferCoin, Open, Deposit,
           Withdraw, VaultAbort, vaultVars
  <2>2. bank' = till /\ TillExtends
    BY <2>1 DEF VaultCommit, VaultInv
  <2> QED  BY <2>2 DEF TillExtends
<1> QED  BY <1>1, VaultInvariance, PTL DEF VaultSpec, OnlyOwnerDraws

-----------------------------------------------------------------------------
(***************************************************************************)
(* 10. Draws, when no owner binds a key twice.                             *)
(***************************************************************************)

(* The commands of the vault leave what pq_guard guarantees alone.        *)
LEMMA GuardPartInv ==
    ASSUME KeyPolicy = "fresh", GuardInv, TypeInv, [VaultNext]_vaultVars
    PROVE  GuardInv'
<1>1. CASE [GuardNext]_guardVars
  BY <1>1, StepInv
<1>2. CASE Command /\ UNCHANGED <<work, held>>
  <2>1. TypeOK'
    BY GuardPartType DEF TypeInv
  <2>2. ledger' = ledger /\ work' = work /\ signed' = signed /\ sender' = sender
    BY <1>2 DEF Command
  <2>3. KeyInv(ledger)' /\ KeyInv(work)'
    BY <2>2 DEF GuardInv, KeyInv, KeysBound, BoundOnce, UsesBound, UsedOnce,
                UsedBelowNonce, OneAtNonce, NoncesUsed, UsedAt
  <2>4. WorkExtends'
    BY <2>2 DEF GuardInv, WorkExtends, Evolves
  <2> QED  BY <2>1, <2>3, <2>4 DEF GuardInv
<1>3. [GuardNext]_guardVars \/ (Command /\ UNCHANGED <<work, held>>)
  BY DEF VaultNext, GuardOnly, GuardNext, SplitCoin, TransferCoin, Open, Deposit,
         Withdraw, VaultCommit, VaultAbort, vaultVars
<1> QED  BY <1>1, <1>2, <1>3

(* Every step keeps what is said of draws, command by command.            *)
LEMMA DrawStepInv ==
    ASSUME KeyPolicy = "fresh", DrawInv, [VaultNext]_vaultVars
    PROVE  DrawInv'
<1>1. /\ TypeInv /\ GuardInv /\ bank \in Bank /\ till \in Bank
      /\ ledger \in Ledger /\ work \in Ledger
      /\ DrawnOnce(ledger, bank) /\ DrawnOnce(work, till) /\ HeldUndrawn
      /\ \A w \in held : w.by \in Signable /\ w.by.digest = w.action_digest
  <2>1. \A w \in held : w.by \in Signable
    BY DEF DrawInv, VaultInv, VaultTypeOK, TypeOK, PqAuthorized
  <2> QED  BY <2>1 DEF DrawInv, VaultInv, VaultTypeOK, TypeOK, TypeInv, Copied, Results
<1>2. GuardInv' /\ VaultInv'
  <2>1. GuardInv'
    BY <1>1, GuardPartInv
  <2>2. VaultInv'
    BY VaultStepInv DEF DrawInv
  <2> QED  BY <2>1, <2>2
<1> DEFINE Good == DrawnOnce(ledger', bank') /\ DrawnOnce(work', till') /\ HeldUndrawn'
<1>3. SUFFICES Good
  BY <1>2 DEF DrawInv, DrawnOnce
<1>4. /\ \A s \in Signable : /\ till.drawn[s] \in Nat /\ bank.drawn[s] \in Nat
                             /\ work.uses[s] \in Nat
  BY <1>1, BankType, LedgerType
(* What the steps that neither use nor draw on a signature share.          *)
<1>a. ASSUME ledger' = ledger, bank' = bank, work'.uses = work.uses,
             till'.drawn = till.drawn, held' \subseteq held
      PROVE  Good
  BY <1>1, <1>a DEF DrawnOnce, HeldUndrawn
<1>5. ASSUME NEW amount \in U64, SplitCoin(amount) PROVE Good
  BY <1>a, <1>5 DEF SplitCoin, Command, AfterSplit
<1>6. ASSUME NEW c \in coins, NEW a \in Address, TransferCoin(c, a) PROVE Good
  BY <1>a, <1>6 DEF TransferCoin, Command, AfterTransfer
<1>7. ASSUME NEW v \in VaultId, NEW c \in coins, Open(v, c) PROVE Good
  BY <1>a, <1>7 DEF Open, Command, AfterOpen
<1>8. ASSUME NEW v \in VaultId, NEW c \in coins, Deposit(v, c) PROVE Good
  BY <1>a, <1>8 DEF Deposit, Command, AfterDeposit
<1>9. ASSUME NEW v \in VaultId, NEW w \in held, NEW to \in Address,
             NEW amount \in U64, Withdraw(v, w, to, amount)
      PROVE  Good
  <2>1. /\ ledger' = ledger /\ bank' = bank /\ work' = work /\ held' = held \ {w}
        /\ w.action_digest = WithdrawActionDigest(v, to, amount)
        /\ till'.drawn = [till.drawn EXCEPT ![w.by] = @ + amount]
    BY <1>9 DEF Withdraw, Consume, Command, AfterWithdraw
  <2>2. w.by \in Signable /\ w.by.digest.amount = amount
    BY <1>1, <2>1 DEF WithdrawActionDigest
  <2>3. till.drawn[w.by] = 0 /\ work.uses[w.by] > 0
    BY <1>1 DEF HeldUndrawn
  <2>4. /\ till'.drawn[w.by] = amount
        /\ \A s \in Signable \ {w.by} : till'.drawn[s] = till.drawn[s]
    <3>1. till.drawn \in [Signable -> Nat] /\ amount \in Nat
      BY <1>1, BankType, GuardAssumption DEF U64
    <3> QED  BY <2>1, <2>2, <2>3, <3>1
  <2>5. DrawnOnce(ledger', bank')
    BY <1>1, <2>1
  <2>6. DrawnOnce(work', till')
    BY <1>1, <2>1, <2>2, <2>3, <2>4 DEF DrawnOnce
  <2>7. HeldUndrawn'
    BY <1>1, <2>1, <2>4 DEF HeldUndrawn
  <2> QED  BY <2>5, <2>6, <2>7
<1>10. CASE VaultCommit
  BY <1>1, <1>10 DEF VaultCommit, Commit, DrawnOnce, HeldUndrawn
<1>11. CASE VaultAbort
  BY <1>1, <1>11 DEF VaultAbort, Abort, DrawnOnce, HeldUndrawn
<1>12. CASE GuardOnly
  <2>1. bank' = bank /\ till' = till
    BY <1>12 DEF GuardOnly, bankVars
  <2>2. ASSUME NEW s \in Signable, Sign(s) PROVE Good
    BY <1>a, <2>1, <2>2 DEF Sign
  <2>3. ASSUME NEW a \in Address, Begin(a) PROVE Good
    BY <1>a, <2>1, <2>3 DEF Begin
  <2>4. ASSUME NEW i \in ObjId, NEW scheme \in Scheme, NEW pk \in PubKey,
               Register(i, scheme, pk)
        PROVE  Good
    BY <1>a, <2>1, <2>4 DEF Register, Command, AfterRegister
  <2>5. ASSUME NEW i \in ObjId, NEW pk \in PubKey, Rotate(i, pk) PROVE Good
    BY <1>a, <2>1, <2>5 DEF Rotate, Command, AfterRotate
  <2>6. ASSUME NEW i \in ObjId, NEW s \in signed, Unlock(i, s.digest, s) PROVE Good
    <3>1. /\ ledger' = ledger /\ i \in DOMAIN ledger.identity
          /\ ledger.identity[i].owner = sender
          /\ s = UnlockMessage(work.identity[i], sender, s.digest)
          /\ work'.uses = [work.uses EXCEPT ![s] = @ + 1]
          /\ \A w \in held' : w \in held \/ w.by = s
          /\ \A w, x \in held' : w \in held \/ x \in held \/ w = x
      BY <2>6 DEF Unlock, Command, Inputs, VerifyPq, AfterUnlock
    <3>2. s \in Signable
      BY <1>1 DEF TypeInv, TypeOK
    <3>3. i \in DOMAIN work.identity /\ work.identity[i].owner = sender
      BY <1>1, <3>1 DEF GuardInv, WorkExtends, Evolves
    <3>4. work.uses[s] = 0
      <4>1. /\ s.pk = work.identity[i].pk /\ s.sender = work.identity[i].owner
            /\ s.nonce = work.identity[i].nonce
        BY <3>1, <3>3 DEF UnlockMessage
      <4> QED  BY <1>1, <3>2, <3>3, <4>1, VerifiedIsUnused DEF GuardInv
    <3>5. till.drawn[s] = 0 /\ \A w \in held : w.by # s
      BY <1>1, <1>4, <3>2, <3>4 DEF DrawnOnce, HeldUndrawn
    <3>6. work'.uses[s] = 1 /\ \A t \in Signable \ {s} : work'.uses[t] = work.uses[t]
      <4>1. work.uses \in [Signable -> Nat]
        BY <1>1, LedgerType
      <4> QED  BY <3>1, <3>2, <3>4, <4>1
    <3>7. DrawnOnce(ledger', bank') /\ DrawnOnce(work', till')
      BY <1>1, <2>1, <3>1, <3>5, <3>6 DEF DrawnOnce
    <3>8. HeldUndrawn'
      BY <1>1, <2>1, <3>1, <3>5, <3>6 DEF HeldUndrawn
    <3> QED  BY <3>7, <3>8
  <2>7. ASSUME NEW w \in held, Consume(w) PROVE Good
    BY <1>a, <2>1, <2>7 DEF Consume, Command
  <2> QED  BY <1>12, <2>2, <2>3, <2>4, <2>5, <2>6, <2>7 DEF GuardOnly
<1>13. CASE UNCHANGED vaultVars
  BY <1>a, <1>13 DEF vaultVars, bankVars, guardVars
<1> QED  BY <1>5, <1>6, <1>7, <1>8, <1>9, <1>10, <1>11, <1>12, <1>13 DEF VaultNext

(* Nothing has been drawn at first.                                       *)
LEMMA DrawInitInv == VaultInit => DrawInv
<1> SUFFICES ASSUME VaultInit PROVE DrawInv
  OBVIOUS
<1>1. GuardInv /\ VaultInv
  BY InitInv, VaultInitInv DEF VaultInit
<1>2. /\ \A s \in Signable : bank.drawn[s] = 0
      /\ till = bank /\ held = {}
  BY DEF VaultInit, GuardInit
<1> QED  BY <1>1, <1>2 DEF DrawInv, DrawnOnce, HeldUndrawn

(* If no owner binds a key twice, a signature draws the amount it names at *)
(* most once, in one transaction or in several.                            *)
THEOREM DrawnAsSignedHolds ==
    ASSUME KeyPolicy = "fresh"
    PROVE  VaultSpec => []DrawnAsSigned
<1>1. DrawInv /\ [VaultNext]_vaultVars => DrawInv'
  BY DrawStepInv
<1>2. DrawInv => DrawnAsSigned
  BY DEF DrawInv, DrawnOnce, DrawnAsSigned
<1> QED  BY <1>1, <1>2, DrawInitInv, PTL DEF VaultSpec

-----------------------------------------------------------------------------
(* 11. The ledger.  No transaction of these programs rotates a key.        *)

(* Identities keep key and owner, nonces and uses grow.                   *)
Grows(l, m) ==
    /\ \A i \in DOMAIN l.identity :
          /\ i \in DOMAIN m.identity
          /\ m.identity[i].pk = l.identity[i].pk
          /\ m.identity[i].owner = l.identity[i].owner
          /\ m.identity[i].nonce >= l.identity[i].nonce
          /\ ~NonceFits(l.identity[i]) => ~NonceFits(m.identity[i])
    /\ \A s \in Signable : l.uses[s] <= m.uses[s]

(* A ledger that stays as it is grows.                                    *)
LEMMA GrowsNot ==
    ASSUME NEW l \in Ledger
    PROVE  Grows(l, l)
<1>1. /\ \A i \in DOMAIN l.identity : l.identity[i].nonce \in Nat
      /\ \A s \in Signable : l.uses[s] \in Nat
  BY LedgerType, GuardAssumption DEF PqIdentity, U64
<1> QED  BY <1>1 DEF Grows

(* Finitely many identities exist.  Every nonce below that of an identity  *)
(* was used, and no signature more often than identities have outgrown it. *)
UsesInv(l) ==
    /\ IsFiniteSet(DOMAIN l.identity)
    /\ NoncesUsed(l)
    /\ \A s \in Signable : l.uses[s] <= Cardinality(Outgrown(l, s))

(* What holds of the ledger, whatever keys are registered.                *)
LedgerInv ==
    /\ TypeOK
    /\ work = ledger
    /\ UsesInv(ledger)
    /\ \A s \in Signable : ledger.uses[s] > 0 => s \in signed

(* A new identity has outgrown nothing.                                   *)
LEMMA RegisterUsesInv ==
    ASSUME NEW l \in Ledger, UsesInv(l), NEW m, NEW i, NEW a, NEW scheme,
           NEW pk, i \notin DOMAIN l.identity,
           Registered(l, m, i, a, scheme, pk)
    PROVE  UsesInv(m)
<1>1. IsFiniteSet(DOMAIN m.identity)
  BY FS_AddElement DEF Registered, UsesInv
<1>2. NoncesUsed(m)
  <2> SUFFICES ASSUME NEW j \in DOMAIN m.identity, NEW n \in U64,
                      n < m.identity[j].nonce
               PROVE  UsedAt(m, m.identity[j].pk, m.identity[j].owner, n) # {}
    BY DEF NoncesUsed
  <2>1. j # i
    BY GuardAssumption DEF Registered, U64
  <2> QED  BY <2>1 DEF Registered, UsesInv, NoncesUsed, UsedAt
<1>3. ASSUME NEW s \in Signable
      PROVE  m.uses[s] <= Cardinality(Outgrown(m, s))
  <2>1. s.nonce \in Nat
    BY GuardAssumption DEF Message, U64
  <2>2. Outgrown(m, s) = Outgrown(l, s)
    BY <2>1 DEF Registered, Outgrown
  <2> QED  BY <2>2 DEF Registered, UsesInv
<1> QED  BY <1>1, <1>2, <1>3 DEF UsesInv

(* An identity outgrows the signature that unlocks it, and no other        *)
(* identity is left behind.                                                *)
LEMMA UnlockUsesInv ==
    ASSUME NEW l \in Ledger, UsesInv(l), NEW m,
           NEW i \in DOMAIN l.identity, NEW s \in Signable,
           s.pk = l.identity[i].pk, s.sender = l.identity[i].owner,
           s.nonce = l.identity[i].nonce, Unlocked(l, m, i, s)
    PROVE  UsesInv(m)
<1>1. /\ l.uses \in [Signable -> Nat]
      /\ m.uses = [l.uses EXCEPT ![s] = l.uses[s] + 1]
      /\ \A t \in Signable : t.nonce \in Nat
      /\ \A j \in DOMAIN l.identity : l.identity[j].nonce \in Nat
      /\ U64 \subseteq Nat
  BY LedgerType, GuardAssumption DEF Unlocked, PqIdentity, Message, U64
<1>2. \A t \in Signable : m.uses[t] > 0 <=> (l.uses[t] > 0 \/ t = s)
  BY <1>1
<1>3. NoncesUsed(m)
  <2> SUFFICES ASSUME NEW j \in DOMAIN m.identity, NEW n \in U64,
                      n < m.identity[j].nonce
               PROVE  \E t \in Signable :
                         /\ m.uses[t] > 0 /\ t.pk = m.identity[j].pk
                         /\ t.sender = m.identity[j].owner /\ t.nonce = n
    BY DEF NoncesUsed, UsedAt
  <2>1. CASE j = i /\ n = l.identity[i].nonce
    BY <1>2, <2>1 DEF Unlocked
  <2>2. CASE ~(j = i /\ n = l.identity[i].nonce)
    <3>1. /\ j \in DOMAIN l.identity
          /\ n < l.identity[j].nonce
          /\ m.identity[j].pk = l.identity[j].pk
          /\ m.identity[j].owner = l.identity[j].owner
      BY <1>1, <2>2 DEF Unlocked
    <3>2. UsedAt(l, l.identity[j].pk, l.identity[j].owner, n) # {}
      BY <3>1 DEF UsesInv, NoncesUsed
    <3> QED  BY <1>2, <3>1, <3>2 DEF UsedAt
  <2> QED  BY <2>1, <2>2
<1>4. ASSUME NEW t \in Signable
      PROVE  m.uses[t] <= Cardinality(Outgrown(m, t))
  <2> DEFINE old == Outgrown(l, t)
             new == Outgrown(m, t)
  <2>1. /\ old \subseteq new
        /\ old \subseteq DOMAIN l.identity /\ new \subseteq DOMAIN l.identity
        /\ t = s => i \in new /\ i \notin old
    BY <1>1 DEF Unlocked, Outgrown
  <2>2. l.uses[t] <= Cardinality(old)
    BY DEF UsesInv
  <2> HIDE DEF old, new
  <2>3. IsFiniteSet(old) /\ IsFiniteSet(new)
    BY <2>1, FS_Subset DEF UsesInv
  <2>4. Cardinality(old) \in Nat /\ Cardinality(new) \in Nat
    BY <2>3, FS_CardinalityType
  <2>5. CASE t # s
    <3>1. Cardinality(old) <= Cardinality(new)
      BY <2>1, <2>3, FS_Subset
    <3> QED  BY <1>1, <2>2, <2>4, <2>5, <3>1 DEF new
  <2>6. CASE t = s
    <3>1. IsFiniteSet(old \union {i}) /\ Cardinality(old \union {i}) = Cardinality(old) + 1
      BY <2>1, <2>3, <2>6, FS_AddElement
    <3>2. Cardinality(old \union {i}) <= Cardinality(new)
      BY <2>1, <2>3, <2>6, FS_Subset
    <3> QED  BY <1>1, <2>2, <2>4, <2>6, <3>1, <3>2 DEF new
  <2> QED  BY <2>5, <2>6
<1>5. IsFiniteSet(DOMAIN m.identity)
  BY DEF Unlocked, UsesInv
<1> QED  BY <1>3, <1>4, <1>5 DEF UsesInv

(* What the fields of a transaction range over.                           *)
LEMMA TxFields ==
    ASSUME NEW t \in Tx
    PROVE  /\ t.by \in Address /\ t.at \in Nat
           /\ t.kind = "register" =>
                  t.scheme \in Scheme /\ t.pk \in PubKey
           /\ t.kind = "unlock" =>
                  /\ t.id \in ObjId /\ t.sig \in Signable /\ t.call \in Call
                  /\ t \in UnlockTx
  BY DEF Tx, RegisterTx, UnlockTx

(* A transaction that registers keeps it and grows the ledger, and its key *)
(* may be that of another identity.                                        *)
LEMMA RegisterStep ==
    ASSUME LedgerInv, NEW t \in Tx, NEW i \in ObjId, ExecuteRegister(t, i)
    PROVE  LedgerInv' /\ Grows(ledger, ledger')
<1>1. /\ ledger \in Ledger
      /\ i \notin DOMAIN ledger.identity
      /\ t.by \in Address /\ t.scheme \in Scheme /\ t.pk \in PubKey
      /\ ledger' = AfterRegister(ledger, i, t.by, t.scheme, t.pk)
      /\ work' = ledger'
      /\ UNCHANGED <<signed, sender, held, count>>
  BY TxFields DEF ExecuteRegister, Executes, LedgerInv, TypeOK
<1>2. Registered(ledger, ledger', i, t.by, t.scheme, t.pk)
  BY <1>1, RegisterEffect
<1>3. UsesInv(ledger')
  BY <1>1, <1>2, RegisterUsesInv DEF LedgerInv
<1>4. ledger' \in Ledger /\ ledger'.uses = ledger.uses
  BY <1>2 DEF Registered
<1>5. LedgerInv'
  BY <1>1, <1>3, <1>4 DEF LedgerInv, TypeOK
<1>6. Grows(ledger, ledger')
  BY <1>1, <1>2, GrowsNot DEF Registered, Grows
<1> QED  BY <1>5, <1>6

(* One that unlocks does.  The identity was at the nonce of the signature  *)
(* and is beyond it.                                                       *)
LEMMA UnlockStep ==
    ASSUME LedgerInv, NEW t \in Tx, ExecuteUnlock(t)
    PROVE  /\ LedgerInv' /\ Grows(ledger, ledger')
           /\ t.sig.nonce = ledger.identity[t.id].nonce
           /\ t.sig.nonce \in Nat
           /\ t.sig.pk = ledger'.identity[t.id].pk
           /\ t.sig.sender = ledger'.identity[t.id].owner
           /\ t.sig.nonce < ledger'.identity[t.id].nonce
<1> DEFINE id == ledger.identity[t.id]
<1>1. /\ ledger \in Ledger
      /\ t.id \in DOMAIN ledger.identity
      /\ t.sig \in Signable /\ t.sig \in signed
      /\ t.sig.pk = id.pk /\ t.sig.sender = id.owner /\ t.sig.nonce = id.nonce
      /\ id.nonce + 1 \in U64
      /\ ledger' = AfterUnlock(ledger, t.id, t.sig)
      /\ work' = ledger'
      /\ UNCHANGED <<signed, sender, held, count>>
  BY TxFields DEF ExecuteUnlock, Executes, GoesThrough, VerifyPq, UnlockMessage,
                  NonceFits, LedgerInv, TypeOK
<1>2. Unlocked(ledger, ledger', t.id, t.sig)
  BY <1>1, UnlockEffect
<1>3. UsesInv(ledger')
  BY <1>1, <1>2, UnlockUsesInv DEF LedgerInv
<1>4. /\ ledger' \in Ledger
      /\ ledger'.uses = [ledger.uses EXCEPT ![t.sig] = ledger.uses[t.sig] + 1]
      /\ ledger.uses \in [Signable -> Nat]
  BY <1>1, <1>2, LedgerType DEF Unlocked
<1>5. \A i \in DOMAIN ledger.identity : ledger.identity[i].nonce \in Nat
  BY <1>1, LedgerType, GuardAssumption DEF PqIdentity, U64
<1>6. \A s \in Signable : ledger.uses[s] <= ledger'.uses[s]
                          /\ (ledger'.uses[s] > 0 => s \in signed)
  BY <1>1, <1>4 DEF LedgerInv
<1>7. LedgerInv'
  BY <1>1, <1>3, <1>4, <1>6 DEF LedgerInv, TypeOK
<1>8. Grows(ledger, ledger')
  BY <1>1, <1>2, <1>5, <1>6 DEF Unlocked, Grows, NonceFits
<1>9. /\ t.sig.pk = ledger'.identity[t.id].pk
      /\ t.sig.sender = ledger'.identity[t.id].owner
      /\ t.sig.nonce < ledger'.identity[t.id].nonce
      /\ t.sig.nonce \in Nat
  BY <1>1, <1>2, <1>5 DEF Unlocked
<1> QED  BY <1>1, <1>7, <1>8, <1>9

-----------------------------------------------------------------------------
(* 12. The pipeline.                                                       *)

(* The full node's state is one the ledger has been in.                    *)
NodeBehind ==
    /\ \A i \in DOMAIN node.identity :
          /\ i \in DOMAIN ledger.identity
          /\ node.identity[i].pk = ledger.identity[i].pk
          /\ node.identity[i].owner = ledger.identity[i].owner
          /\ node.identity[i].nonce <= ledger.identity[i].nonce
    /\ \A a \in Address : node.version[a] <= version[a]

(* A signature that was not made ahead of the identity it is sent for.     *)
InTime(i, s) ==
    /\ s \in signed
    /\ i \in DOMAIN ledger.identity
    /\ s.nonce <= ledger.identity[i].nonce

(* No transaction for the request of t can go through any more.            *)
Lost(t) ==
    LET id == ledger.identity[t.id]
    IN  \/ t.sig.pk # id.pk
        \/ t.sig.sender # id.owner
        \/ t.sig.nonce < id.nonce
        \/ ~NonceFits(id)
        \/ Expects[t.call] # t.sig.digest
        \/ t.call \notin Closed

(* The unlock of t took effect; a node that knows t knows so.              *)
Done(t) ==
    /\ t.sig.pk = ledger.identity[t.id].pk
    /\ t.sig.sender = ledger.identity[t.id].owner
    /\ t.sig.nonce < ledger.identity[t.id].nonce
    /\ t.at < version[t.by]
    /\ NodeKnows(t) =>
          t.id \in DOMAIN node.identity /\ t.sig.nonce < node.identity[t.id].nonce

(* What the status of every transaction means.                            *)
Histories ==
    \A t \in DOMAIN effects : t.kind = "unlock" =>
        /\ InTime(t.id, t.sig)
        /\ effects[t] = "failure" => Lost(t)
        /\ effects[t] = "success" => Done(t)

(* A signature unlocks an identity in one transaction.                    *)
OneSuccess ==
    \A t, u \in DOMAIN effects :
        /\ t.kind = "unlock" /\ u.kind = "unlock"
        /\ effects[t] = "success" /\ effects[u] = "success"
        /\ t.id = u.id /\ t.sig = u.sig
        => t = u

(* The part of the invariant that is about the pipeline.                  *)
PipelineInv ==
    LedgerInv /\ PipelineTypeOK /\ NodeBehind /\ Histories /\ OneSuccess

(* What identities transactions created is a function of some of them.     *)
LEMMA CreatedType ==
    ASSUME NEW c, NEW E
    PROVE  c \in UNION {[D -> ObjId] : D \in SUBSET E}
               <=> c \in [DOMAIN c -> ObjId] /\ DOMAIN c \subseteq E
  OBVIOUS

(* What no step takes back.                                                *)
Forward ==
    /\ Grows(ledger, ledger')
    /\ signed \subseteq signed'
    /\ \A t \in DOMAIN effects :
          /\ t \in DOMAIN effects'
          /\ effects[t] # "pending" => effects'[t] = effects[t]

(* Counters of the pipeline are numbers.                                  *)
LEMMA PipelineNumbers ==
    ASSUME PipelineInv
    PROVE  /\ ledger \in Ledger
           /\ \A i \in DOMAIN ledger.identity :
                 ledger.identity[i].nonce \in Nat
                 /\ ledger.identity[i] \in PqIdentity
           /\ DOMAIN node.identity \subseteq ObjId
           /\ \A i \in DOMAIN node.identity : node.identity[i] \in PqIdentity
           /\ \A i \in DOMAIN node.identity : node.identity[i].nonce \in Nat
           /\ \A s \in Signable : ledger.uses[s] \in Nat /\ s.nonce \in Nat
           /\ \A s \in Signable : s \in Message
           /\ \A a \in Address : version[a] \in Nat /\ node.version[a] \in Nat
           /\ signed \subseteq Signable
<1>1. ledger \in Ledger /\ signed \subseteq Signable
  BY DEF PipelineInv, LedgerInv, TypeOK
<1>2. /\ node.identity \in UNION {[D -> PqIdentity] : D \in SUBSET ObjId}
      /\ node.version \in [Address -> Nat]
      /\ version \in [Address -> Nat]
  BY DEF PipelineInv, PipelineTypeOK, View
<1>3. /\ DOMAIN node.identity \subseteq ObjId
      /\ \A i \in DOMAIN node.identity : node.identity[i] \in PqIdentity
  BY <1>2
<1>4. U64 \subseteq Nat /\ Signable \subseteq Message
  BY GuardAssumption DEF U64
<1> QED  BY <1>1, <1>2, <1>3, <1>4, LedgerType DEF PqIdentity, Message

(* Sends and signatures of the programs.                                   *)
LEMMA QuietStep ==
    ASSUME PipelineInv,
           UNCHANGED <<ledger, sender, work, held, count, version, created,
                       node>>,
           signed \subseteq signed', signed' \subseteq Signable,
           \/ effects' = effects
           \/ \E t \in Tx : /\ Submitted(t)
                            /\ t.kind = "unlock" => InTime(t.id, t.sig)'
    PROVE  PipelineInv' /\ Forward
<1>1. LedgerInv'
  BY DEF PipelineInv, LedgerInv, TypeOK
<1>2. \A t \in DOMAIN effects :
          t \in DOMAIN effects' /\ effects'[t] = effects[t]
  BY DEF Submitted
<1>3. \A t \in DOMAIN effects' \ DOMAIN effects :
          /\ t \in Tx /\ effects'[t] = "pending"
          /\ t.kind = "unlock" => InTime(t.id, t.sig)'
  BY DEF Submitted
<1>4. PipelineTypeOK'
  <2>1. created' \in UNION {[D -> ObjId] : D \in SUBSET DOMAIN effects'}
    BY <1>2, CreatedType DEF PipelineInv, PipelineTypeOK
  <2> QED
    BY <1>1, <1>2, <1>3, <2>1 DEF PipelineInv, PipelineTypeOK, LedgerInv, Status
<1>5. NodeBehind'
  BY DEF PipelineInv, NodeBehind
<1>6. Histories'
  BY <1>2, <1>3
  DEF PipelineInv, Histories, InTime, Lost, Done, NodeKnows
<1>7. OneSuccess'
  BY <1>2, <1>3 DEF PipelineInv, OneSuccess
<1>8. Forward
  BY <1>2, GrowsNot DEF Forward, PipelineInv, LedgerInv, TypeOK
<1> QED  BY <1>1, <1>4, <1>5, <1>6, <1>7, <1>8 DEF PipelineInv

(* An execution moves the pipeline forward.                               *)
LEMMA ExecutesStep ==
    ASSUME PipelineInv, NEW t, NEW status \in Status, Executes(t, status)
    PROVE  /\ t \in DOMAIN effects /\ t \in Tx /\ effects[t] = "pending"
           /\ DOMAIN effects' = DOMAIN effects
           /\ effects'[t] = status
           /\ \A u \in DOMAIN effects \ {t} : effects'[u] = effects[u]
           /\ version' \in [Address -> Nat]
           /\ version'[t.by] = t.at + 1
           /\ \A a \in Address : version[a] <= version'[a]
           /\ UNCHANGED <<signed, node>>
           /\ \A u \in DOMAIN effects' : u \in Tx /\ effects'[u] \in Status
<1>1. t \in DOMAIN effects /\ t \in Tx /\ version \in [Address -> Nat]
  BY DEF Executes, PipelineInv, PipelineTypeOK
<1>2. t.by \in Address /\ t.at = version[t.by]
  BY <1>1, TxFields DEF Executes
<1>3. /\ version' = [version EXCEPT ![t.by] = version[t.by] + 1]
      /\ effects' = [effects EXCEPT ![t] = status]
  BY DEF Executes
<1>4. /\ DOMAIN effects' = DOMAIN effects
      /\ effects'[t] = status
      /\ \A u \in DOMAIN effects \ {t} : effects'[u] = effects[u]
  BY <1>1, <1>3
<1>5. /\ version' \in [Address -> Nat]
      /\ version'[t.by] = t.at + 1
      /\ \A a \in Address : version[a] <= version'[a]
  BY <1>1, <1>2, <1>3
<1> QED
  BY <1>1, <1>4, <1>5 DEF Executes, PipelineInv, PipelineTypeOK

(* What a step of the ledger leaves true of the other transactions.        *)
LEMMA HistoriesKept ==
    ASSUME PipelineInv, Grows(ledger, ledger'), ledger' \in Ledger,
           UNCHANGED <<signed, node>>,
           \A a \in Address : version[a] <= version'[a],
           version' \in [Address -> Nat],
           NEW u \in DOMAIN effects, u.kind = "unlock"
    PROVE  /\ InTime(u.id, u.sig)'
           /\ Lost(u) => Lost(u)'
           /\ Done(u) => Done(u)'
<1>1. /\ u \in Tx /\ u.sig \in Signable /\ u.by \in Address /\ u.at \in Nat
      /\ InTime(u.id, u.sig)
  BY TxFields DEF PipelineInv, PipelineTypeOK, Histories
<1>2. ledger'.identity[u.id].nonce \in Nat
  BY <1>1, LedgerType, GuardAssumption DEF PqIdentity, U64, InTime, Grows
<1>3. /\ u.sig.nonce \in Nat /\ ledger.identity[u.id].nonce \in Nat
      /\ version[u.by] \in Nat /\ version'[u.by] \in Nat
  BY <1>1, PipelineNumbers DEF InTime, Grows
<1>4. InTime(u.id, u.sig)'
  BY <1>1, <1>2, <1>3 DEF InTime, Grows
<1>5. Lost(u) => Lost(u)'
  BY <1>1, <1>2, <1>3 DEF Lost, InTime, Grows
<1>6. Done(u) => Done(u)'
  BY <1>1, <1>2, <1>3 DEF Done, InTime, Grows, NodeKnows
<1> QED  BY <1>4, <1>5, <1>6

(* The full node never gets ahead of the ledger.                          *)
LEMMA NodeStaysBehind ==
    ASSUME PipelineInv, Grows(ledger, ledger'), ledger' \in Ledger,
           UNCHANGED node,
           \A a \in Address : version[a] <= version'[a],
           version' \in [Address -> Nat]
    PROVE  NodeBehind'
<1>1. \A i \in DOMAIN node.identity :
          /\ i \in DOMAIN ledger'.identity
          /\ node.identity[i].pk = ledger'.identity[i].pk
          /\ node.identity[i].owner = ledger'.identity[i].owner
          /\ node.identity[i].nonce <= ledger'.identity[i].nonce
  <2> SUFFICES ASSUME NEW i \in DOMAIN node.identity
               PROVE  /\ i \in DOMAIN ledger'.identity
                      /\ node.identity[i].pk = ledger'.identity[i].pk
                      /\ node.identity[i].owner = ledger'.identity[i].owner
                      /\ node.identity[i].nonce <= ledger'.identity[i].nonce
    OBVIOUS
  <2>1. /\ i \in DOMAIN ledger.identity
        /\ node.identity[i].nonce <= ledger.identity[i].nonce
        /\ ledger.identity[i].nonce <= ledger'.identity[i].nonce
        /\ i \in DOMAIN ledger'.identity
    BY PipelineNumbers DEF PipelineInv, NodeBehind, Grows
  <2>2. ledger'.identity[i].nonce \in Nat
    BY <2>1, LedgerType, GuardAssumption DEF PqIdentity, U64
  <2> QED  BY <2>1, <2>2, PipelineNumbers DEF PipelineInv, NodeBehind, Grows
<1>2. \A a \in Address : node.version[a] <= version'[a]
  BY PipelineNumbers DEF PipelineInv, NodeBehind
<1> QED  BY <1>1, <1>2 DEF NodeBehind

(* Every step of the pipeline keeps its part of the invariant.            *)
LEMMA PipelineStepInv ==
    ASSUME PipelineInv, PipelineStep
    PROVE  PipelineInv' /\ Forward
<1>1. ASSUME NEW t \in DOMAIN effects, NEW i \in ObjId, ExecuteRegister(t, i)
      PROVE  PipelineInv' /\ Forward
  <2>1. Executes(t, "success") /\ t.kind = "register" /\ "success" \in Status
    BY <1>1 DEF ExecuteRegister, Status
  <2>2. LedgerInv' /\ Grows(ledger, ledger')
    BY <1>1, RegisterStep DEF PipelineInv, PipelineTypeOK
  <2>3. ledger' \in Ledger
    BY <2>2 DEF LedgerInv, TypeOK
  <2>4. NodeBehind'
    BY <2>1, <2>2, <2>3, ExecutesStep, NodeStaysBehind
  <2>5. Histories'
    BY <2>1, <2>2, <2>3, ExecutesStep, HistoriesKept
    DEF Histories, PipelineInv
  <2>6. OneSuccess'
    BY <2>1, ExecutesStep DEF PipelineInv, OneSuccess
  <2>7. created' \in UNION {[D -> ObjId] : D \in SUBSET DOMAIN effects'}
    <3>1. /\ created \in [DOMAIN created -> ObjId]
          /\ DOMAIN created \union {t} \subseteq DOMAIN effects'
      BY <2>1, ExecutesStep, CreatedType DEF PipelineInv, PipelineTypeOK
    <3>2. created' = [u \in DOMAIN created \union {t} |->
                         IF u = t THEN i ELSE created[u]]
      BY <1>1 DEF ExecuteRegister
    <3> QED  BY <3>1, <3>2, CreatedType
  <2>8. PipelineTypeOK'
    BY <2>1, <2>2, <2>7, ExecutesStep DEF PipelineInv, PipelineTypeOK, LedgerInv
  <2> QED
    BY <2>1, <2>2, <2>4, <2>5, <2>6, <2>8, ExecutesStep DEF PipelineInv, Forward
<1>2. ASSUME NEW t \in DOMAIN effects, ExecuteUnlock(t)
      PROVE  PipelineInv' /\ Forward
  <2>1. Executes(t, "success") /\ t.kind = "unlock" /\ "success" \in Status
    BY <1>2 DEF ExecuteUnlock, Status
  <2>2. LedgerInv' /\ Grows(ledger, ledger') /\ t \in Tx
    BY <1>2, UnlockStep DEF PipelineInv, PipelineTypeOK
  <2>3. ledger' \in Ledger
    BY <2>2 DEF LedgerInv, TypeOK
  <2>4. NodeBehind'
    BY <2>1, <2>2, <2>3, ExecutesStep, NodeStaysBehind
  <2>5. Done(t)'
    <3>1. /\ t.sig.pk = ledger'.identity[t.id].pk
          /\ t.sig.sender = ledger'.identity[t.id].owner
          /\ t.sig.nonce < ledger'.identity[t.id].nonce
      BY <1>2, <2>2, UnlockStep DEF PipelineInv
    <3>2. /\ t.by \in Address /\ t.at \in Nat /\ version'[t.by] = t.at + 1
          /\ node.version[t.by] <= t.at /\ node.version[t.by] \in Nat
          /\ node' = node
      BY <2>1, <2>2, TxFields, ExecutesStep, PipelineNumbers
      DEF PipelineInv, NodeBehind, Executes
    <3> QED  BY <3>1, <3>2 DEF Done, NodeKnows
  <2>6. Histories'
    BY <2>1, <2>2, <2>3, <2>5, ExecutesStep, HistoriesKept
    DEF Histories, PipelineInv
  <2>7. created' = created
    BY <1>2 DEF ExecuteUnlock
  <2>8. PipelineTypeOK'
    BY <2>1, <2>2, <2>7, ExecutesStep DEF PipelineInv, PipelineTypeOK, LedgerInv
  (* The identity is at the nonce of t, and beyond that of all before it.  *)
  <2>9. ASSUME NEW u \in DOMAIN effects, u.kind = "unlock",
               effects[u] = "success", u.id = t.id, u.sig = t.sig
        PROVE  FALSE
    <3>1. Done(u)
      BY <2>9 DEF PipelineInv, Histories
    <3>2. t.sig.nonce = ledger.identity[t.id].nonce /\ t.sig.nonce \in Nat
      BY <1>2, <2>2, UnlockStep DEF PipelineInv
    <3> QED  BY <2>9, <3>1, <3>2 DEF Done
  <2>10. OneSuccess'
    BY <2>1, <2>9, ExecutesStep DEF PipelineInv, OneSuccess
  <2> QED
    BY <2>1, <2>2, <2>4, <2>6, <2>8, <2>10, ExecutesStep DEF PipelineInv, Forward
<1>3. ASSUME NEW t \in DOMAIN effects, ExecuteAbort(t)
      PROVE  PipelineInv' /\ Forward
  <2>1. Executes(t, "failure") /\ t.kind = "unlock" /\ "failure" \in Status
    BY <1>3 DEF ExecuteAbort, Status
  <2>2. /\ ledger \in Ledger
        /\ UNCHANGED <<ledger, work, created, signed, sender, held, count>>
        /\ t \in Tx
    BY <1>3 DEF ExecuteAbort, Executes, PipelineInv, LedgerInv, TypeOK,
                PipelineTypeOK
  <2>3. Grows(ledger, ledger') /\ LedgerInv'
    BY <2>2, GrowsNot DEF PipelineInv, LedgerInv, TypeOK
  <2>4. NodeBehind'
    BY <2>1, <2>2, <2>3, ExecutesStep, NodeStaysBehind
  (* It was not ahead, so it is behind or does not belong to the identity. *)
  <2>5. Lost(t)
    <3> DEFINE id == ledger.identity[t.id]
    <3>1. /\ t.id \in DOMAIN ledger.identity
          /\ id.owner = t.by
          /\ ~GoesThrough(ledger.identity, t)
          /\ InTime(t.id, t.sig)
          /\ t.sig \in Signable
      BY <1>3, <2>1, <2>2, TxFields DEF ExecuteAbort, PipelineInv, Histories
    <3>2. t.sig \in Message /\ t.sig.nonce \in Nat /\ id.nonce \in Nat
      BY <3>1, PipelineNumbers
    <3>3. CASE t.sig = UnlockMessage(id, t.by, t.sig.digest)
      BY <3>1, <3>3 DEF GoesThrough, VerifyPq, Lost, InTime
    <3>4. CASE t.sig # UnlockMessage(id, t.by, t.sig.digest)
      <4>1. t.sig.pk # id.pk \/ t.sig.sender # t.by \/ t.sig.nonce # id.nonce
        BY <3>2, <3>4 DEF UnlockMessage, Message
      <4> QED  BY <3>1, <3>2, <4>1 DEF Lost, InTime
    <3> QED  BY <3>3, <3>4
  <2>6. Histories'
    BY <2>1, <2>2, <2>3, <2>5, ExecutesStep, HistoriesKept
    DEF Histories, PipelineInv
  <2>7. PipelineTypeOK'
    BY <2>1, <2>2, <2>3, ExecutesStep DEF PipelineInv, PipelineTypeOK, LedgerInv
  <2>8. OneSuccess'
    BY <2>1, ExecutesStep DEF PipelineInv, OneSuccess
  <2> QED
    BY <2>1, <2>3, <2>4, <2>6, <2>7, <2>8, ExecutesStep DEF PipelineInv, Forward
<1>4. ASSUME CatchUp PROVE PipelineInv' /\ Forward
  <2>1. /\ node' = [identity |-> ledger.identity, version |-> version]
        /\ UNCHANGED <<ledger, signed, sender, work, held, count, version,
                       effects, created>>
    BY <1>4 DEF CatchUp, guardVars
  <2>2. LedgerInv'
    BY <2>1 DEF PipelineInv, LedgerInv, TypeOK
  <2>3. PipelineTypeOK'
    BY <2>1, <2>2
    DEF PipelineInv, PipelineTypeOK, LedgerInv, TypeOK, View, Ledger
  <2>4. NodeBehind'
    BY <2>1, PipelineNumbers DEF NodeBehind
  <2>5. Histories'
    BY <2>1 DEF PipelineInv, Histories, InTime, Lost, Done, NodeKnows
  <2>6. Forward
    BY <2>1, GrowsNot DEF Forward, PipelineInv, LedgerInv, TypeOK
  <2>7. OneSuccess'
    BY <2>1 DEF PipelineInv, OneSuccess
  <2> QED  BY <2>2, <2>3, <2>4, <2>5, <2>6, <2>7 DEF PipelineInv
<1> QED  BY <1>1, <1>2, <1>3, <1>4 DEF PipelineStep

-----------------------------------------------------------------------------
(* 13. The forms.                                                          *)

(* What a form has read was read after its transaction.                   *)
FormShowsTruth(f) ==
    form[f].pc = "shown" /\ form[f].tx.kind = "unlock" /\ Succeeded(form[f].tx)
        => \A n \in form[f].out : n > form[f].tx.sig.nonce

(* The part of the invariant that is about the forms.                     *)
FormsInv ==
    /\ FormsTypeOK
    /\ \A f \in Form :
          /\ form[f].pc = "reading" => form[f].id \in ObjId
          /\ form[f].pc \in {"built", "executing", "shown"} => form[f].tx \in Tx
          /\ form[f].pc \in {"executing", "shown"} /\ form[f].tx.kind = "unlock"
                => form[f].tx.id = form[f].id
          /\ form[f].pc = "built" /\ form[f].tx.kind = "unlock"
                => form[f].tx.id = form[f].id
          /\ form[f].pc = "shown" => Executed(form[f].tx)
          /\ FormShowsTruth(f)

(* A form that has sent a transaction.                                    *)
LEMMA FormWithTx ==
    ASSUME NEW q \in FormState, NEW pc, NEW t
    PROVE  [q EXCEPT !.pc = pc, !.tx = t]
              = [pc |-> pc, clicks |-> q.clicks, id |-> q.id, tx |-> t,
                 out |-> q.out]
<1> DEFINE r == [q EXCEPT !.pc = pc]
<1>1. r = [pc |-> pc, clicks |-> q.clicks, id |-> q.id, tx |-> q.tx,
           out |-> q.out]
  BY DEF FormState
<1> HIDE DEF r
<1>2. [r EXCEPT !.tx = t] = [pc |-> pc, clicks |-> q.clicks, id |-> q.id,
                             tx |-> t, out |-> q.out]
  BY <1>1
<1> QED  BY <1>2 DEF r

(* A form that has read a nonce.                                          *)
LEMMA FormWithOut ==
    ASSUME NEW q \in FormState, NEW pc, NEW out
    PROVE  [q EXCEPT !.pc = pc, !.out = out]
              = [pc |-> pc, clicks |-> q.clicks, id |-> q.id, tx |-> q.tx,
                 out |-> out]
<1> DEFINE r == [q EXCEPT !.pc = pc]
<1>1. r = [pc |-> pc, clicks |-> q.clicks, id |-> q.id, tx |-> q.tx,
           out |-> q.out]
  BY DEF FormState
<1> HIDE DEF r
<1>2. [r EXCEPT !.out = out] = [pc |-> pc, clicks |-> q.clicks, id |-> q.id,
                                tx |-> q.tx, out |-> out]
  BY <1>1
<1> QED  BY <1>2 DEF r

(* The status of a transaction in the effects e.                           *)
ExecutedIn(e, t)  == t \in DOMAIN e /\ e[t] # "pending"
SucceededIn(e, t) == t \in DOMAIN e /\ e[t] = "success"

(* A step forward by another program keeps what the forms know.           *)
LEMMA FormsKept ==
    ASSUME FormsInv, Forward, UNCHANGED form
    PROVE  FormsInv'
  BY DEF FormsInv, Forward, FormsTypeOK, FormShowsTruth, Executed, Succeeded

(* A form is a place, what it sent and what it shows.                     *)
LEMMA FormType ==
    ASSUME FormsInv, NEW f \in Form
    PROVE  form[f] \in FormState
  BY DEF FormsInv, FormsTypeOK

(* One form moves and the others are as they were.                         *)
LEMMA FormMoves ==
    ASSUME FormsInv, Forward, NEW f \in Form, NEW r \in FormState,
           Moves(f, r),
           r.pc = "reading" => r.id \in ObjId,
           r.pc \in {"built", "executing", "shown"} => r.tx \in Tx,
           r.pc \in {"built", "executing", "shown"} /\ r.tx.kind = "unlock"
               => r.tx.id = r.id,
           r.pc = "shown" => ExecutedIn(effects', r.tx),
           r.pc = "shown" /\ r.tx.kind = "unlock" /\ SucceededIn(effects', r.tx)
               => \A n \in r.out : n > r.tx.sig.nonce
    PROVE  FormsInv'
<1>1. /\ form' \in [Form -> FormState]
      /\ form'[f] = r
      /\ \A g \in Form \ {f} : form'[g] = form[g]
  BY DEF Moves, FormsInv, FormsTypeOK
<1>2. \A g \in Form \ {f} :
          /\ form[g].pc = "shown" => ExecutedIn(effects', form[g].tx)
          /\ form[g].pc = "shown" /\ SucceededIn(effects', form[g].tx)
                => Succeeded(form[g].tx)
  BY DEF FormsInv, Forward, Executed, ExecutedIn, Succeeded, SucceededIn
<1> QED
  BY <1>1, <1>2
  DEF FormsInv, FormsTypeOK, FormShowsTruth, Executed, ExecutedIn, Succeeded,
      SucceededIn

(* Every step of a form keeps its part of the invariant.                  *)
LEMMA FormsStepInv ==
    ASSUME PipelineInv, FormsInv, FormsStep
    PROVE  PipelineInv' /\ Forward /\ FormsInv'
<1>1. ASSUME NEW f \in Form, NEW i \in ObjId, ClickUnlock(f, i)
      PROVE  PipelineInv' /\ Forward /\ FormsInv'
  <2> DEFINE r == Clicked(f, "reading", i)
  <2>1. PipelineInv' /\ Forward
    BY <1>1, QuietStep DEF ClickUnlock, guardVars, pipelineVars, PipelineInv,
                           LedgerInv, TypeOK
  <2>2. form[f] \in FormState /\ form[f].clicks < MaxClicks
    BY <1>1, FormType DEF ClickUnlock
  <2>3. r \in FormState
    BY <2>2, FormsAssumption DEF Clicked, FormState
  <2>4. r.pc = "reading" /\ r.id \in ObjId
    BY DEF Clicked
  <2> HIDE DEF r
  <2>5. Moves(f, r)
    BY <1>1 DEF ClickUnlock, r
  <2> QED  BY <2>1, <2>3, <2>4, <2>5, FormMoves
<1>2. ASSUME NEW f \in Form, ClickRegister(f)
      PROVE  PipelineInv' /\ Forward /\ FormsInv'
  <2> DEFINE t == [kind |-> "register", by |-> Wallet,
                   at |-> node.version[Wallet],
                   scheme |-> SLH_DSA_SHA2_128S, pk |-> PageKey]
             r == [pc |-> "built", clicks |-> form[f].clicks + 1,
                   id |-> Nobody, tx |-> t, out |-> {}]
  <2>1. PipelineInv' /\ Forward
    BY <1>2, QuietStep DEF ClickRegister, guardVars, pipelineVars, PipelineInv,
                           LedgerInv, TypeOK
  <2>2. form[f] \in FormState /\ form[f].clicks < MaxClicks
    BY <1>2, FormType DEF ClickRegister
  <2>3. t \in Tx /\ t.kind = "register"
    BY FormsAssumption, PipelineNumbers DEF Tx, RegisterTx, Scheme
  <2>4. Moves(f, r)
    BY <1>2 DEF ClickRegister, Clicked
  <2> HIDE DEF t
  <2>5. r \in FormState
    BY <2>2, <2>3, FormsAssumption DEF FormState
  <2> QED  BY <2>1, <2>3, <2>4, <2>5, FormMoves
<1>3. ASSUME NEW f \in Form, SignUnlock(f)
      PROVE  PipelineInv' /\ Forward /\ FormsInv'
  <2> DEFINE i == form[f].id
             s == [pk |-> PageKey, sender |-> Wallet, nonce |-> ReadNonce(i),
                   digest |-> DemoDigest]
             t == [kind |-> "unlock", by |-> Wallet,
                   at |-> node.version[Wallet], id |-> i, sig |-> s,
                   call |-> Consumed]
             r == [form[f] EXCEPT !.pc = "built", !.tx = t]
  <2>1. /\ form[f] \in FormState /\ i \in ObjId
        /\ s \in Signable /\ signed' = signed \union {s}
        /\ Moves(f, r)
    BY <1>3, FormType DEF SignUnlock, FormsInv
  <2>2. PipelineInv' /\ Forward
    BY <1>3, <2>1, QuietStep DEF SignUnlock, pipelineVars, PipelineInv,
                                 LedgerInv, TypeOK
  <2>3. t \in Tx /\ t.id = i
    <3> HIDE DEF s
    <3> QED
      BY <2>1, FormsAssumption, PipelineAssumption, PipelineNumbers
      DEF Tx, UnlockTx
  <2> HIDE DEF t
  <2>4. r = [pc |-> "built", clicks |-> form[f].clicks, id |-> i, tx |-> t,
             out |-> form[f].out]
    BY <2>1, FormWithTx
  <2>5. r \in FormState
    BY <2>1, <2>3, <2>4 DEF FormState
  <2>6. r.pc = "built" /\ r.tx = t /\ r.id = i
    BY <2>4
  <2> HIDE DEF r, i
  <2> QED  BY <2>1, <2>2, <2>3, <2>5, <2>6, FormMoves
<1>4. ASSUME NEW f \in Form, Send(f)
      PROVE  PipelineInv' /\ Forward /\ FormsInv'
  <2> DEFINE t == form[f].tx
             r == [form[f] EXCEPT !.pc = "executing"]
  <2>1. /\ form[f] \in FormState /\ t \in Tx
        /\ t.kind = "unlock" => t.id = form[f].id
        /\ Submitted(t) /\ Moves(f, r)
        /\ t.kind = "unlock" => GoesThrough(node.identity, t)
        /\ UNCHANGED <<guardVars, version, created, node>>
    BY <1>4, FormType DEF Send, FormsInv, DryRun
  <2>2. t.kind = "unlock" => InTime(t.id, t.sig)
    <3> SUFFICES ASSUME t.kind = "unlock" PROVE InTime(t.id, t.sig)
      OBVIOUS
    <3>1. /\ t.id \in DOMAIN node.identity
          /\ t.sig \in signed
          /\ t.sig.nonce = node.identity[t.id].nonce
      BY <2>1 DEF GoesThrough, VerifyPq, UnlockMessage
    <3> QED  BY <3>1 DEF InTime, PipelineInv, NodeBehind
  <2>3. PipelineInv' /\ Forward
    <3>1. UNCHANGED <<ledger, signed, sender, work, held, count, version,
                    created, node>>
      BY <2>1 DEF guardVars
    <3>2. \E u \in Tx : Submitted(u) /\ (u.kind = "unlock" => InTime(u.id, u.sig)')
      <4>1. PICK u \in Tx : u = t
        BY <2>1
      <4>2. u.kind = "unlock" => InTime(u.id, u.sig)'
        BY <2>2, <3>1, <4>1 DEF InTime
      <4> QED  BY <2>1, <4>1, <4>2
    <3> HIDE DEF t
    <3> QED  BY <3>1, <3>2, QuietStep DEF PipelineInv, LedgerInv, TypeOK
  <2>4. r = [pc |-> "executing", clicks |-> form[f].clicks, id |-> form[f].id,
             tx |-> t, out |-> form[f].out]
    BY <2>1 DEF FormState
  <2>5. r \in FormState
    BY <2>1, <2>4 DEF FormState
  <2> HIDE DEF r, t
  <2> QED  BY <2>1, <2>3, <2>4, <2>5, FormMoves
<1>5. ASSUME NEW f \in Form, Show(f)
      PROVE  PipelineInv' /\ Forward /\ FormsInv'
  <2> DEFINE t == form[f].tx
             shown == IF t.kind = "unlock" THEN {ReadNonce(form[f].id)} ELSE {}
             r == [form[f] EXCEPT !.pc = "shown", !.out = shown]
  <2>1. /\ form[f] \in FormState /\ t \in Tx
        /\ t.kind = "unlock" => t.id = form[f].id
        /\ Executed(t) /\ NodeKnows(t) /\ Moves(f, r)
        /\ UNCHANGED <<guardVars, pipelineVars>>
    BY <1>5, FormType DEF Show, FormsInv, Waited
  <2>2. PipelineInv' /\ Forward
    BY <2>1, QuietStep DEF guardVars, pipelineVars, PipelineInv, LedgerInv, TypeOK
  <2>3. \A i : ReadNonce(i) \in U64
    BY PipelineNumbers, GuardAssumption DEF ReadNonce, Known, PqIdentity, U64
  <2>4. r = [pc |-> "shown", clicks |-> form[f].clicks, id |-> form[f].id,
             tx |-> t, out |-> shown]
    BY <2>1, FormWithOut
  <2>5. r \in FormState
    BY <2>1, <2>3, <2>4 DEF FormState
  <2>6. ExecutedIn(effects', t) /\ (SucceededIn(effects', t) => Succeeded(t))
    BY <2>1 DEF Executed, ExecutedIn, Succeeded, SucceededIn, pipelineVars
  <2>7. t.kind = "unlock" /\ Succeeded(t) => \A n \in shown : n > t.sig.nonce
    <3> SUFFICES ASSUME t.kind = "unlock", Succeeded(t)
                 PROVE  ReadNonce(t.id) > t.sig.nonce
      BY <2>1
    <3>1. Done(t)
      BY DEF PipelineInv, Histories, Succeeded
    <3>2. t.sig.nonce \in Nat
      BY <2>1, TxFields, PipelineNumbers
    <3> QED  BY <2>1, <3>1, <3>2, PipelineNumbers DEF Done, ReadNonce, Known
  <2> HIDE DEF r, t, shown
  <2> QED  BY <2>1, <2>2, <2>4, <2>5, <2>6, <2>7, FormMoves
<1>6. ASSUME NEW f \in Form, ShowError(f)
      PROVE  PipelineInv' /\ Forward /\ FormsInv'
  <2> DEFINE r == [form[f] EXCEPT !.pc = "failed", !.tx = NoTx]
  <2>1. form[f] \in FormState /\ Moves(f, r)
    BY <1>6, FormType DEF ShowError
  <2>2. PipelineInv' /\ Forward
    BY <1>6, QuietStep DEF ShowError, guardVars, pipelineVars, PipelineInv,
                           LedgerInv, TypeOK
  <2>3. r = [pc |-> "failed", clicks |-> form[f].clicks, id |-> form[f].id,
             tx |-> NoTx, out |-> form[f].out]
    BY <2>1, FormWithTx
  <2>4. r \in FormState
    BY <2>1, <2>3 DEF FormState
  <2> HIDE DEF r
  <2> QED  BY <2>1, <2>2, <2>3, <2>4, FormMoves
<1> QED  BY <1>1, <1>2, <1>3, <1>4, <1>5, <1>6 DEF FormsStep

-----------------------------------------------------------------------------
(* 14. The scripts.                                                        *)

(* A script complains of a nonce that is not the next one.                *)
ComplaintIsTrue(p) ==
    script[p].pc = "notByOne" =>
        \E s \in signed :
            /\ ledger.uses[s] > 0
            /\ s.pk = SeedKey[p] /\ s.sender = Account
            /\ s.nonce > script[p].nonce

(* The unlock a run waits for is the one it signed.                        *)
Awaits(q, p) ==
    /\ q.tx \in UnlockTx
    /\ q.tx.id = q.id
    /\ q.tx.sig.pk = SeedKey[p]
    /\ q.tx.sig.sender = Account
    /\ q.tx.sig.nonce = q.nonce

(* The part of the invariant that is about the scripts.                   *)
ScriptsInv ==
    /\ ScriptsTypeOK
    /\ \A p \in Process :
          /\ script[p].pc = "reading" => script[p].id \in ObjId
          /\ script[p].pc \in {"unlocking", "landed"} => Awaits(script[p], p)
          /\ script[p].pc = "landed" => Succeeded(script[p].tx)
          /\ ComplaintIsTrue(p)

(* A script that knows its identity.                                      *)
LEMMA ScriptWithId ==
    ASSUME NEW q \in ScriptState, NEW pc, NEW i
    PROVE  [q EXCEPT !.pc = pc, !.id = i]
              = [pc |-> pc, id |-> i, tx |-> q.tx, nonce |-> q.nonce]
<1> DEFINE r == [q EXCEPT !.pc = pc]
<1>1. r = [pc |-> pc, id |-> q.id, tx |-> q.tx, nonce |-> q.nonce]
  BY DEF ScriptState
<1> HIDE DEF r
<1>2. [r EXCEPT !.id = i] = [pc |-> pc, id |-> i, tx |-> q.tx, nonce |-> q.nonce]
  BY <1>1
<1> QED  BY <1>2 DEF r

(* A script that has sent a transaction.                                  *)
LEMMA ScriptWithTx ==
    ASSUME NEW q \in ScriptState, NEW pc, NEW t
    PROVE  [q EXCEPT !.pc = pc, !.tx = t]
              = [pc |-> pc, id |-> q.id, tx |-> t, nonce |-> q.nonce]
<1> DEFINE r == [q EXCEPT !.pc = pc]
<1>1. r = [pc |-> pc, id |-> q.id, tx |-> q.tx, nonce |-> q.nonce]
  BY DEF ScriptState
<1> HIDE DEF r
<1>2. [r EXCEPT !.tx = t] = [pc |-> pc, id |-> q.id, tx |-> t, nonce |-> q.nonce]
  BY <1>1
<1> QED  BY <1>2 DEF r

(* A script that has sent one at a nonce it read.                         *)
LEMMA ScriptWithTxAndNonce ==
    ASSUME NEW q \in ScriptState, NEW pc, NEW t, NEW n
    PROVE  [q EXCEPT !.pc = pc, !.tx = t, !.nonce = n]
              = [pc |-> pc, id |-> q.id, tx |-> t, nonce |-> n]
<1> DEFINE r == [q EXCEPT !.pc = pc, !.tx = t]
<1>1. r = [pc |-> pc, id |-> q.id, tx |-> t, nonce |-> q.nonce]
  BY ScriptWithTx
<1> HIDE DEF r
<1>2. [r EXCEPT !.nonce = n] = [pc |-> pc, id |-> q.id, tx |-> t, nonce |-> n]
  BY <1>1
<1> QED  BY <1>2 DEF r

(* A step forward keeps a complaint true.                                 *)
LEMMA ComplaintKept ==
    ASSUME Forward, PipelineInv, PipelineInv',
           NEW p \in Process, ComplaintIsTrue(p), script'[p] = script[p]
    PROVE  ComplaintIsTrue(p)'
<1> SUFFICES ASSUME script[p].pc = "notByOne"
             PROVE  \E s \in signed' :
                       /\ ledger'.uses[s] > 0
                       /\ s.pk = SeedKey[p] /\ s.sender = Account
                       /\ s.nonce > script[p].nonce
  BY DEF ComplaintIsTrue
<1>1. PICK s \in signed : /\ ledger.uses[s] > 0
                          /\ s.pk = SeedKey[p] /\ s.sender = Account
                          /\ s.nonce > script[p].nonce
  BY DEF ComplaintIsTrue
<1>2. /\ s \in Signable /\ ledger.uses[s] \in Nat
      /\ ledger.uses[s] <= ledger'.uses[s]
  BY PipelineNumbers DEF Forward, Grows
<1>3. ledger'.uses[s] \in Nat
  BY <1>2, LedgerType DEF PipelineInv, LedgerInv, TypeOK
<1> QED  BY <1>1, <1>2, <1>3 DEF Forward

(* A step forward by another program keeps what the scripts know.         *)
LEMMA ScriptsKept ==
    ASSUME ScriptsInv, Forward, PipelineInv, PipelineInv', UNCHANGED script
    PROVE  ScriptsInv'
<1>1. \A p \in Process : ComplaintIsTrue(p)'
  BY ComplaintKept DEF ScriptsInv
<1>2. \A p \in Process : script[p].pc = "landed" => Succeeded(script[p].tx)'
  BY DEF ScriptsInv, Forward, Succeeded
<1> QED  BY <1>1, <1>2 DEF ScriptsInv, ScriptsTypeOK, Awaits

(* A script is a place and what it knows.                                 *)
LEMMA ScriptType ==
    ASSUME ScriptsInv, NEW p \in Process
    PROVE  script[p] \in ScriptState
  BY DEF ScriptsInv, ScriptsTypeOK

(* One script moves and the others are as they were.                      *)
LEMMA ScriptGoes ==
    ASSUME ScriptsInv, Forward, PipelineInv, PipelineInv',
           NEW p \in Process, NEW r \in ScriptState, Goes(p, r),
           r.pc = "reading" => r.id \in ObjId,
           r.pc \in {"unlocking", "landed"} => Awaits(r, p),
           r.pc = "landed" => SucceededIn(effects', r.tx),
           r.pc = "notByOne" =>
               \E s \in signed' : /\ ledger'.uses[s] > 0
                                 /\ s.pk = SeedKey[p] /\ s.sender = Account
                                 /\ s.nonce > r.nonce
    PROVE  ScriptsInv'
<1>1. /\ script' \in [Process -> ScriptState]
      /\ script'[p] = r
      /\ \A q \in Process \ {p} : script'[q] = script[q]
  BY DEF Goes, ScriptsInv, ScriptsTypeOK
<1>2. \A q \in Process \ {p} : ComplaintIsTrue(q)'
  BY <1>1, ComplaintKept DEF ScriptsInv
<1>3. ComplaintIsTrue(p)'
  BY <1>1 DEF ComplaintIsTrue
<1>4. \A q \in Process \ {p} :
          script[q].pc = "landed" => SucceededIn(effects', script[q].tx)
  BY DEF ScriptsInv, Forward, Succeeded, SucceededIn
<1> QED
  BY <1>1, <1>2, <1>3, <1>4
  DEF ScriptsInv, ScriptsTypeOK, Awaits, Succeeded, SucceededIn

(* The nonce read from a ledger is one.                                   *)
LEMMA NonceOfType ==
    ASSUME PipelineInv, NEW i
    PROVE  NonceOf(i) \in U64
  BY PipelineNumbers, GuardAssumption DEF NonceOf, Known, PqIdentity, U64

(* Every step of a script keeps its part of the invariant.                *)
LEMMA ScriptsStepInv ==
    ASSUME PipelineInv, ScriptsInv, ScriptsStep
    PROVE  PipelineInv' /\ Forward /\ ScriptsInv'
<1> USE DEF PipelineInv, LedgerInv, TypeOK
<1>1. ASSUME NEW p \in Process, NEW i \in ObjId, Reuse(p, i) \/ TakeId(p, i)
      PROVE  PipelineInv' /\ Forward /\ ScriptsInv'
  <2> DEFINE r == [script[p] EXCEPT !.pc = "reading", !.id = i]
  <2>1. /\ script[p] \in ScriptState
        /\ Goes(p, r)
        /\ UNCHANGED <<guardVars, pipelineVars>>
    BY <1>1, ScriptType DEF Reuse, TakeId
  <2>2. PipelineInv' /\ Forward
    <3> USE DEF guardVars, pipelineVars
    <3> QED  BY <2>1, QuietStep
  <2>3. r = [pc |-> "reading", id |-> i, tx |-> script[p].tx,
             nonce |-> script[p].nonce]
    BY <2>1, ScriptWithId
  <2>4. r \in ScriptState
    BY <2>1, <2>3 DEF ScriptState
  <2> HIDE DEF r
  <2> QED  BY <2>1, <2>2, <2>3, <2>4, ScriptGoes
<1>2. ASSUME NEW p \in Process, RegisterFresh(p)
      PROVE  PipelineInv' /\ Forward /\ ScriptsInv'
  <2> DEFINE t == [kind |-> "register", by |-> Account,
                   at |-> node.version[Account],
                   scheme |-> SLH_DSA_SHA2_128S, pk |-> SeedKey[p]]
             r == [script[p] EXCEPT !.pc = "registering", !.tx = t]
  <2>1. /\ script[p] \in ScriptState
        /\ Submitted(t) /\ Goes(p, r)
        /\ UNCHANGED <<guardVars, version, created, node>>
    BY <1>2, ScriptType DEF RegisterFresh
  <2>2. t \in Tx /\ t.kind = "register"
    BY ScriptsAssumption, PipelineNumbers DEF Tx, RegisterTx, Scheme
  <2> HIDE DEF t
  <2>3. PipelineInv' /\ Forward
    <3> USE DEF guardVars
    <3> QED  BY <2>1, <2>2, QuietStep
  <2>4. r = [pc |-> "registering", id |-> script[p].id, tx |-> t,
             nonce |-> script[p].nonce]
    BY <2>1, ScriptWithTx
  <2>5. r \in ScriptState
    BY <2>1, <2>2, <2>4 DEF ScriptState
  <2> HIDE DEF r
  <2> QED  BY <2>1, <2>3, <2>4, <2>5, ScriptGoes
<1>3. ASSUME NEW p \in Process, Unlocks(p)
      PROVE  PipelineInv' /\ Forward /\ ScriptsInv'
  <2> DEFINE i == script[p].id
             s == UnlockSigned(p)
             t == [kind |-> "unlock", by |-> Account,
                   at |-> node.version[Account], id |-> i, sig |-> s,
                   call |-> Consumed]
             r == [script[p] EXCEPT !.pc = "unlocking", !.tx = t,
                                    !.nonce = s.nonce]
  <2>1. /\ script[p] \in ScriptState /\ i \in ObjId
        /\ i \in DOMAIN node.identity
        /\ s \in Signable /\ signed' = signed \union {s}
        /\ Submitted(t) /\ Goes(p, r)
        /\ UNCHANGED <<ledger, sender, work, held, count, version, created, node>>
    BY <1>3, ScriptType DEF Unlocks, ScriptsInv, Known
  <2>2. /\ s.nonce = node.identity[i].nonce /\ s.nonce \in U64
        /\ s.pk = SeedKey[p] /\ s.sender = Account
    BY <2>1, NonceOfType DEF UnlockSigned, NonceOf, Known
  <2> HIDE DEF s
  <2>3. t \in UnlockTx /\ t \in Tx /\ t.id = i /\ t.sig = s
    BY <2>1, ScriptsAssumption, PipelineAssumption, PipelineNumbers
    DEF Tx, UnlockTx
  <2> HIDE DEF t
  <2>4. \E u \in Tx : Submitted(u) /\ (u.kind = "unlock" => InTime(u.id, u.sig)')
    <3>1. PICK u \in Tx : u = t
      BY <2>3
    <3>2. InTime(u.id, u.sig)'
      BY <2>1, <2>2, <2>3, <3>1 DEF InTime, NodeBehind
    <3> QED  BY <2>1, <3>1, <3>2
  <2>5. PipelineInv' /\ Forward
    BY <2>1, <2>4, QuietStep
  <2>6. r = [pc |-> "unlocking", id |-> i, tx |-> t, nonce |-> s.nonce]
    BY <2>1, ScriptWithTxAndNonce
  <2>7. r \in ScriptState
    BY <2>1, <2>2, <2>3, <2>6 DEF ScriptState
  <2>8. Awaits(r, p)
    BY <2>2, <2>3, <2>6 DEF Awaits
  <2> HIDE DEF r
  <2> QED  BY <2>1, <2>5, <2>6, <2>7, <2>8, ScriptGoes
<1>4. ASSUME NEW p \in Process, NEW pc \in {"measured", "failed"},
             Goes(p, Ended(pc, 0)),
             UNCHANGED <<ledger, sender, work, held, count, pipelineVars>>,
             signed \subseteq signed', signed' \subseteq Signable
      PROVE  PipelineInv' /\ Forward /\ ScriptsInv'
  <2>1. PipelineInv' /\ Forward
    <3> USE DEF pipelineVars
    <3> QED  BY <1>4, QuietStep
  <2> DEFINE r == Ended(pc, 0)
  <2>2. r \in ScriptState /\ r.pc = pc
    BY <1>4, GuardAssumption DEF Ended, ScriptState, U64
  <2> HIDE DEF r
  <2>3. Goes(p, r)
    BY <1>4 DEF r
  <2> QED  BY <2>1, <2>2, <2>3, ScriptGoes
<1>5. ASSUME NEW p \in Process, Measure(p)
      PROVE  PipelineInv' /\ Forward /\ ScriptsInv'
  BY <1>4, <1>5 DEF Measure
<1>6. ASSUME NEW p \in Process, Exits(p)
      PROVE  PipelineInv' /\ Forward /\ ScriptsInv'
  <2> USE DEF guardVars
  <2> QED  BY <1>4, <1>6 DEF Exits
<1>7. ASSUME NEW p \in Process, Lands(p)
      PROVE  PipelineInv' /\ Forward /\ ScriptsInv'
  <2>1. CASE ~Succeeded(script[p].tx)
    <3> USE DEF guardVars
    <3> QED  BY <1>4, <1>7, <2>1 DEF Lands
  <2>2. CASE Succeeded(script[p].tx)
    <3> DEFINE r == [script[p] EXCEPT !.pc = "landed"]
    <3>1. /\ script[p] \in ScriptState
          /\ script[p].pc = "unlocking"
          /\ Goes(p, r)
          /\ UNCHANGED <<guardVars, pipelineVars>>
      BY <1>7, <2>2, ScriptType DEF Lands
    <3>2. PipelineInv' /\ Forward
      <4> USE DEF guardVars, pipelineVars
      <4> QED  BY <3>1, QuietStep
    <3>3. r = [pc |-> "landed", id |-> script[p].id, tx |-> script[p].tx,
               nonce |-> script[p].nonce]
      BY <3>1 DEF ScriptState
    <3>4. r \in ScriptState /\ Awaits(r, p) /\ SucceededIn(effects', r.tx)
      <4>1. Awaits(script[p], p) /\ effects' = effects
        BY <3>1 DEF ScriptsInv, pipelineVars
      <4> QED
        BY <2>2, <3>1, <3>3, <4>1
        DEF ScriptState, Awaits, Succeeded, SucceededIn
    <3> HIDE DEF r
    <3> QED  BY <3>1, <3>2, <3>3, <3>4, ScriptGoes
  <2> QED  BY <2>1, <2>2
<1>8. ASSUME NEW p \in Process, CheckNonce(p)
      PROVE  PipelineInv' /\ Forward /\ ScriptsInv'
  <2> DEFINE n == script[p].nonce
             i == script[p].id
             t == script[p].tx
             pc == IF NonceOf(i) = n + 1 THEN "ok" ELSE "notByOne"
             r == Ended(pc, n)
  <2>1. /\ script[p] \in ScriptState
        /\ Awaits(script[p], p) /\ Succeeded(t) /\ NodeKnows(t)
        /\ Goes(p, r)
        /\ UNCHANGED <<guardVars, pipelineVars>>
    BY <1>8, ScriptType DEF CheckNonce, ScriptsInv, Indexed
  <2>2. PipelineInv' /\ Forward
    <3> USE DEF guardVars, pipelineVars
    <3> QED  BY <2>1, QuietStep
  <2>3. r \in ScriptState /\ r.pc = pc /\ r.nonce = n
    BY <2>1 DEF Ended, ScriptState
  (* The node knows of the unlock, so a nonce that is not the next one is  *)
  (* a later one, and every nonce in between was used.                     *)
  <2>4. ASSUME pc = "notByOne"
        PROVE  \E s \in signed : /\ ledger.uses[s] > 0
                                /\ s.pk = SeedKey[p] /\ s.sender = Account
                                /\ s.nonce > n
    <3>1. /\ t \in Tx /\ t.kind = "unlock" /\ t \in DOMAIN effects
          /\ t.id = i /\ t.sig.pk = SeedKey[p] /\ t.sig.sender = Account
          /\ t.sig.nonce = n /\ n \in Nat
      BY <2>1, GuardAssumption DEF Awaits, Tx, UnlockTx, Succeeded, ScriptState, U64
    <3>2. Done(t) /\ InTime(t.id, t.sig)
      BY <2>1, <3>1 DEF Histories, Succeeded
    <3>3. /\ i \in DOMAIN node.identity
          /\ node.identity[i].nonce > n
          /\ node.identity[i].nonce # n + 1
          /\ node.identity[i].nonce <= ledger.identity[i].nonce
          /\ node.identity[i].nonce \in Nat
          /\ ledger.identity[i].nonce \in U64
          /\ i \in DOMAIN ledger.identity
      BY <2>1, <2>4, <3>1, <3>2, PipelineNumbers
      DEF Done, InTime, NonceOf, Known, NodeBehind, PqIdentity
    <3>4. n + 1 \in U64 /\ n + 1 < ledger.identity[i].nonce
      BY <3>1, <3>3, GuardAssumption DEF U64
    <3>5. UsedAt(ledger, ledger.identity[i].pk, ledger.identity[i].owner, n + 1) # {}
      BY <3>3, <3>4 DEF UsesInv, NoncesUsed
    <3>6. PICK s \in Signable :
              /\ ledger.uses[s] > 0 /\ s.pk = ledger.identity[i].pk
              /\ s.sender = ledger.identity[i].owner /\ s.nonce = n + 1
      BY <3>5 DEF UsedAt
    <3> QED  BY <3>1, <3>2, <3>6 DEF Done
  <2>5. r.pc = "notByOne" =>
          \E s \in signed' : /\ ledger'.uses[s] > 0
                            /\ s.pk = SeedKey[p] /\ s.sender = Account
                            /\ s.nonce > r.nonce
    BY <2>1, <2>3, <2>4 DEF guardVars
  <2>6. r.pc \in {"ok", "notByOne"}
    BY <2>3
  <2> HIDE DEF r
  <2> QED  BY <2>1, <2>2, <2>3, <2>5, <2>6, ScriptGoes
<1> QED
  BY <1>1, <1>2, <1>3, <1>5, <1>6, <1>7, <1>8 DEF ScriptsStep

-----------------------------------------------------------------------------
(* 15. The sponsor's users and its server.  The predicates take the parts  *)
(* of the state they are about, to speak of them before and after a step.  *)

(* The request r was made by a holder who signed for it.                  *)
AskedIn(sg, l, r) ==
    /\ r \in Request
    /\ r.sig \in sg
    /\ r.id \in DOMAIN l.identity
    /\ r.sig.nonce <= l.identity[r.id].nonce

(* The request r was carried out by a transaction.                        *)
ServedIn(e, r) ==
    \E t \in DOMAIN e :
        e[t] = "success" /\ t.kind = "unlock" /\ RequestOf(t) = r

(* What a handler answers is the status of its transaction.               *)
GoodHandler(q, sg, l, e) ==
    /\ q.pc \in {"reading", "building"} => AskedIn(sg, l, q.req)
    /\ q.pc = "executing" => q.tx \in UnlockTx /\ q.tx \in DOMAIN e

(* What a client was told is true.                                        *)
GoodClient(k, sg, l, e) ==
    /\ k.pc # "idle" => AskedIn(sg, l, k.req)
    /\ k.told = "success" => AskedIn(sg, l, k.req) /\ ServedIn(e, k.req)

(* The handler q works on the request of the client k that waits for it.   *)
Serves(k, q, e) ==
    /\ q.pc \in {"reading", "building"} => q.req = k.req
    /\ q.pc = "executing" => RequestOf(q.tx) = k.req
    /\ q.answer = "success" => ServedIn(e, k.req)

(* The part of the invariant that is about the sponsor.                   *)
SponsorInv ==
    /\ SponsorTypeOK
    /\ \A h \in Attempt : GoodHandler(handler[h], signed, ledger, effects)
    /\ \A c \in Client :
          /\ GoodClient(client[c], signed, ledger, effects)
          /\ client[c].pc = "waiting" =>
                /\ <<c, client[c].attempt>> \in Attempt
                /\ Serves(client[c], handler[<<c, client[c].attempt>>], effects)

(* What was asked stays asked.                                            *)
LEMMA AskedKept ==
    ASSUME Forward, PipelineInv, PipelineInv', NEW r, AskedIn(signed, ledger, r)
    PROVE  AskedIn(signed', ledger', r)
<1>1. r.sig \in Signable /\ r.id \in DOMAIN ledger.identity
  BY DEF AskedIn, Request
<1>2. /\ r.sig.nonce \in Nat
      /\ ledger.identity[r.id].nonce \in Nat
      /\ ledger.identity[r.id].nonce <= ledger'.identity[r.id].nonce
      /\ r.id \in DOMAIN ledger'.identity
  BY <1>1, PipelineNumbers DEF Forward, Grows
<1>3. ledger'.identity[r.id].nonce \in Nat
  BY <1>2, LedgerType, GuardAssumption
  DEF PipelineInv, LedgerInv, TypeOK, PqIdentity, U64
<1> QED  BY <1>2, <1>3 DEF AskedIn, Forward

(* What was served stays served.                                          *)
LEMMA ServedKept ==
    ASSUME Forward, NEW r \in Request, ServedIn(effects, r)
    PROVE  ServedIn(effects', r)
  BY DEF ServedIn, Forward

(* A step forward keeps both kinds of beliefs true.                       *)
LEMMA GoodKept ==
    ASSUME Forward, PipelineInv, PipelineInv', NEW q, NEW k
    PROVE  /\ GoodHandler(q, signed, ledger, effects)
               => GoodHandler(q, signed', ledger', effects')
           /\ GoodClient(k, signed, ledger, effects)
               => GoodClient(k, signed', ledger', effects')
           /\ /\ k.pc = "waiting"
              /\ GoodClient(k, signed, ledger, effects)
              /\ Serves(k, q, effects)
              => Serves(k, q, effects')
<1>1. GoodHandler(q, signed, ledger, effects)
          => GoodHandler(q, signed', ledger', effects')
  BY AskedKept DEF GoodHandler, Forward
<1>2. GoodClient(k, signed, ledger, effects)
          => GoodClient(k, signed', ledger', effects')
  <2>1. AskedIn(signed, ledger, k.req) => k.req \in Request
    BY DEF AskedIn
  <2> QED  BY <2>1, AskedKept, ServedKept DEF GoodClient
<1>3. ASSUME k.pc = "waiting", GoodClient(k, signed, ledger, effects),
             Serves(k, q, effects)
      PROVE  Serves(k, q, effects')
  <2>1. k.req \in Request
    BY <1>3 DEF GoodClient, AskedIn
  <2>2. ServedIn(effects, k.req) => ServedIn(effects', k.req)
    BY <2>1, ServedKept
  <2> QED  BY <1>3, <2>2 DEF Serves
<1> QED  BY <1>1, <1>2, <1>3

(* A step forward by another program keeps this part.                     *)
LEMMA SponsorKept ==
    ASSUME SponsorInv, Forward, PipelineInv, PipelineInv',
           UNCHANGED <<client, handler>>
    PROVE  SponsorInv'
  BY GoodKept DEF SponsorInv, SponsorTypeOK

(* One client moves.                                                       *)
LEMMA ClientMoves ==
    ASSUME SponsorInv, Forward, PipelineInv, PipelineInv',
           NEW c \in Client, NEW k \in ClientState,
           client' = [client EXCEPT ![c] = k], handler' = handler,
           GoodClient(k, signed', ledger', effects'),
           k.pc # "waiting"
    PROVE  SponsorInv'
<1>1. /\ client' \in [Client -> ClientState]
      /\ client'[c] = k
      /\ \A d \in Client \ {c} : client'[d] = client[d]
  BY DEF SponsorInv, SponsorTypeOK
<1>2. \A d \in Client \ {c} :
          /\ GoodClient(client[d], signed', ledger', effects')
          /\ client[d].pc = "waiting" =>
                /\ <<d, client[d].attempt>> \in Attempt
                /\ Serves(client[d], handler[<<d, client[d].attempt>>], effects')
  BY GoodKept DEF SponsorInv
<1>3. \A h \in Attempt : GoodHandler(handler[h], signed', ledger', effects')
  BY GoodKept DEF SponsorInv
<1> QED  BY <1>1, <1>2, <1>3 DEF SponsorInv, SponsorTypeOK

(* One handler moves.                                                      *)
LEMMA HandlerMoves ==
    ASSUME SponsorInv, Forward, PipelineInv, PipelineInv',
           NEW h \in Attempt, NEW q \in HandlerState,
           handler' = [handler EXCEPT ![h] = q], client' = client,
           GoodHandler(q, signed', ledger', effects'),
           \A k \in ClientState :
               /\ k.pc = "waiting"
               /\ GoodClient(k, signed, ledger, effects)
               /\ Serves(k, handler[h], effects)
               => Serves(k, q, effects')
    PROVE  SponsorInv'
<1>1. /\ handler' \in [Attempt -> HandlerState]
      /\ handler'[h] = q
      /\ \A g \in Attempt \ {h} : handler'[g] = handler[g]
  BY DEF SponsorInv, SponsorTypeOK
<1>2. \A g \in Attempt : GoodHandler(handler'[g], signed', ledger', effects')
  BY <1>1, GoodKept DEF SponsorInv
<1>3. ASSUME NEW c \in Client
      PROVE  /\ GoodClient(client[c], signed', ledger', effects')
             /\ client[c].pc = "waiting" =>
                   /\ <<c, client[c].attempt>> \in Attempt
                   /\ Serves(client[c], handler'[<<c, client[c].attempt>>], effects')
  <2> DEFINE g == <<c, client[c].attempt>>
  <2>1. /\ client[c] \in ClientState
        /\ GoodClient(client[c], signed, ledger, effects)
        /\ client[c].pc = "waiting" =>
              g \in Attempt /\ Serves(client[c], handler[g], effects)
    BY DEF SponsorInv, SponsorTypeOK
  <2>2. GoodClient(client[c], signed', ledger', effects')
    BY <2>1, GoodKept
  <2> HIDE DEF g
  <2>3. client[c].pc = "waiting" =>
            g \in Attempt /\ Serves(client[c], handler'[g], effects')
    <3>1. CASE g = h
      BY <1>1, <2>1, <3>1
    <3>2. CASE g # h
      BY <1>1, <2>1, <3>2, GoodKept
    <3> QED  BY <3>1, <3>2
  <2> QED  BY <2>2, <2>3 DEF g
<1> QED  BY <1>1, <1>2, <1>3 DEF SponsorInv, SponsorTypeOK

(* A client that goes on.                                                 *)
LEMMA ClientWithPc ==
    ASSUME NEW k \in ClientState, NEW pc
    PROVE  [k EXCEPT !.pc = pc]
              = [pc |-> pc, req |-> k.req, attempt |-> k.attempt,
                 told |-> k.told]
  BY DEF ClientState

(* A client that tries again.                                             *)
LEMMA ClientWithAttempt ==
    ASSUME NEW k \in ClientState, NEW pc, NEW n
    PROVE  [k EXCEPT !.pc = pc, !.attempt = n]
              = [pc |-> pc, req |-> k.req, attempt |-> n, told |-> k.told]
<1> DEFINE j == [k EXCEPT !.pc = pc]
<1>1. j = [pc |-> pc, req |-> k.req, attempt |-> k.attempt, told |-> k.told]
  BY ClientWithPc
<1> HIDE DEF j
<1>2. [j EXCEPT !.attempt = n]
          = [pc |-> pc, req |-> k.req, attempt |-> n, told |-> k.told]
  BY <1>1
<1> QED  BY <1>2 DEF j

(* A client that was told.                                                *)
LEMMA ClientWithTold ==
    ASSUME NEW k \in ClientState, NEW pc, NEW told
    PROVE  [k EXCEPT !.pc = pc, !.told = told]
              = [pc |-> pc, req |-> k.req, attempt |-> k.attempt,
                 told |-> told]
<1> DEFINE j == [k EXCEPT !.pc = pc]
<1>1. j = [pc |-> pc, req |-> k.req, attempt |-> k.attempt, told |-> k.told]
  BY ClientWithPc
<1> HIDE DEF j
<1>2. [j EXCEPT !.told = told]
          = [pc |-> pc, req |-> k.req, attempt |-> k.attempt, told |-> told]
  BY <1>1
<1> QED  BY <1>2 DEF j

(* A client with a new request.                                           *)
LEMMA ClientWithRequest ==
    ASSUME NEW k \in ClientState, NEW pc, NEW told, NEW r
    PROVE  [k EXCEPT !.pc = pc, !.told = told, !.req = r]
              = [pc |-> pc, req |-> r, attempt |-> k.attempt, told |-> told]
<1> DEFINE j == [k EXCEPT !.pc = pc, !.told = told]
<1>1. j = [pc |-> pc, req |-> k.req, attempt |-> k.attempt, told |-> told]
  BY ClientWithTold
<1> HIDE DEF j
<1>2. [j EXCEPT !.req = r]
          = [pc |-> pc, req |-> r, attempt |-> k.attempt, told |-> told]
  BY <1>1
<1> QED  BY <1>2 DEF j

(* Every step of the sponsor or its users keeps their part.               *)
LEMMA SponsorStepInv ==
    ASSUME PipelineInv, SponsorInv, SponsorStep
    PROVE  PipelineInv' /\ Forward /\ SponsorInv'
<1> USE DEF PipelineInv, LedgerInv, TypeOK
(* What the steps that only move client or handler have in common.         *)
<1>q. ASSUME UNCHANGED <<guardVars, pipelineVars>>
      PROVE  PipelineInv' /\ Forward /\ UNCHANGED <<ledger, signed, effects>>
  <2> USE DEF guardVars, pipelineVars
  <2> QED  BY <1>q, QuietStep
<1>1. ASSUME NEW c \in Client, NEW intent \in Intent, Prepare(c, intent)
      PROVE  PipelineInv' /\ Forward /\ SponsorInv'
  <2> DEFINE i == intent.id
             s == SignedFor(Sponsor, i, intent.digest)
             r == [id |-> i, sig |-> s, call |-> intent.call]
             k == [client[c] EXCEPT !.pc = "ready", !.told = "nothing", !.req = r]
  <2>1. /\ i \in ObjId /\ intent.call \in Call
        /\ i \in DOMAIN node.identity
        /\ s \in Signable /\ s.nonce = node.identity[i].nonce
        /\ signed' = signed \union {s}
        /\ client' = [client EXCEPT ![c] = k]
        /\ client[c] \in ClientState
        /\ UNCHANGED <<handler, ledger, sender, work, held, count, pipelineVars>>
    BY <1>1, SponsorAssumption
    DEF Prepare, Known, Intents, SignedFor, UnlockMessage, SponsorInv, SponsorTypeOK
  <2>2. PipelineInv' /\ Forward
    <3> HIDE DEF s, k
    <3> USE DEF pipelineVars
    <3> QED  BY <2>1, QuietStep
  <2>3. r \in Request /\ r.sig = s /\ r.id = i
    BY <2>1 DEF Request
  <2> HIDE DEF s
  <2>4. AskedIn(signed', ledger', r)
    BY <2>1, <2>3 DEF AskedIn, NodeBehind
  <2> HIDE DEF r
  <2>5. k = [pc |-> "ready", req |-> r, attempt |-> client[c].attempt,
             told |-> "nothing"]
    BY <2>1, ClientWithRequest
  <2>6. k \in ClientState
    BY <2>1, <2>3, <2>5 DEF ClientState
  <2>7. GoodClient(k, signed', ledger', effects')
    BY <2>4, <2>5 DEF GoodClient
  <2> HIDE DEF k
  <2> QED  BY <2>1, <2>2, <2>5, <2>6, <2>7, ClientMoves
<1>2. ASSUME NEW c \in Client, Submit(c)
      PROVE  PipelineInv' /\ Forward /\ SponsorInv'
  <2> DEFINE n == client[c].attempt + 1
             h == <<c, n>>
             k == [client[c] EXCEPT !.pc = "waiting", !.attempt = n]
             q == [pc |-> "reading", req |-> client[c].req, tx |-> None,
                   answer |-> "nothing"]
  <2>1. /\ client[c] \in ClientState
        /\ client[c].pc # "idle"
        /\ client[c].attempt < MaxAttempts
        /\ GoodClient(client[c], signed, ledger, effects)
        /\ client' = [client EXCEPT ![c] = k]
        /\ handler' = [handler EXCEPT ![h] = q]
        /\ UNCHANGED <<guardVars, pipelineVars>>
    BY <1>2 DEF Submit, SponsorInv, SponsorTypeOK
  <2>2. PipelineInv' /\ Forward /\ UNCHANGED <<ledger, signed, effects>>
    BY <1>q, <2>1
  <2>3. n \in 1 .. MaxAttempts /\ h \in Attempt
    BY <2>1, SponsorAssumption DEF ClientState, Attempt
  <2>4. k = [pc |-> "waiting", req |-> client[c].req, attempt |-> n,
             told |-> client[c].told]
    BY <2>1, ClientWithAttempt
  <2>5. k \in ClientState /\ q \in HandlerState
    BY <2>1, <2>3, <2>4 DEF ClientState, HandlerState, GoodClient, AskedIn
  <2>6. GoodClient(k, signed, ledger, effects)
    BY <2>1, <2>4 DEF GoodClient
  <2>7. GoodHandler(q, signed, ledger, effects) /\ Serves(k, q, effects)
    BY <2>1, <2>4 DEF GoodHandler, GoodClient, Serves
  <2> HIDE DEF k, q, n
  <2>8. /\ client' \in [Client -> ClientState]
        /\ client'[c] = k
        /\ \A d \in Client \ {c} : client'[d] = client[d]
        /\ handler' \in [Attempt -> HandlerState]
        /\ handler'[h] = q
        /\ \A g \in Attempt \ {h} : handler'[g] = handler[g]
    BY <2>1, <2>3, <2>5 DEF SponsorInv, SponsorTypeOK
  <2>9. \A d \in Client \ {c} :
            client[d].pc = "waiting" =>
                Serves(client[d], handler'[<<d, client[d].attempt>>], effects)
    BY <2>8 DEF SponsorInv
  <2>10. SponsorInv'
    <3>1. k.attempt = n
      BY <2>4
    <3>2. \A g \in Attempt : GoodHandler(handler'[g], signed', ledger', effects')
      BY <2>2, <2>7, <2>8 DEF SponsorInv
    <3>3. \A d \in Client :
              /\ GoodClient(client'[d], signed', ledger', effects')
              /\ client'[d].pc = "waiting" =>
                    /\ <<d, client'[d].attempt>> \in Attempt
                    /\ Serves(client'[d], handler'[<<d, client'[d].attempt>>], effects')
      BY <2>2, <2>3, <2>6, <2>7, <2>8, <2>9, <3>1 DEF SponsorInv
    <3> QED  BY <2>8, <3>2, <3>3 DEF SponsorInv, SponsorTypeOK
  <2> QED  BY <2>2, <2>10
<1>3. ASSUME NEW c \in Client, Hear(c)
      PROVE  PipelineInv' /\ Forward /\ SponsorInv'
  <2> DEFINE a == Mine(c).answer
             k == [client[c] EXCEPT !.pc = "told", !.told = a]
  <2>1. /\ client[c] \in ClientState
        /\ a \in {"success", "failure"}
        /\ GoodClient(client[c], signed, ledger, effects)
        /\ client[c].pc = "waiting"
        /\ Serves(client[c], Mine(c), effects)
        /\ client' = [client EXCEPT ![c] = k] /\ handler' = handler
        /\ UNCHANGED <<guardVars, pipelineVars>>
    BY <1>3 DEF Hear, Mine, SponsorInv, SponsorTypeOK
  <2>2. PipelineInv' /\ Forward /\ UNCHANGED <<ledger, signed, effects>>
    BY <1>q, <2>1
  <2>3. k = [pc |-> "told", req |-> client[c].req,
             attempt |-> client[c].attempt, told |-> a]
    BY <2>1, ClientWithTold
  <2>4. k \in ClientState
    BY <2>1, <2>3 DEF ClientState
  <2>5. GoodClient(k, signed', ledger', effects')
    BY <2>1, <2>2, <2>3 DEF GoodClient, Serves
  <2> HIDE DEF k
  <2> QED  BY <2>1, <2>2, <2>3, <2>4, <2>5, ClientMoves
<1>4. ASSUME NEW c \in Client, Throw(c)
      PROVE  PipelineInv' /\ Forward /\ SponsorInv'
  <2> DEFINE k == [client[c] EXCEPT !.pc = "threw"]
  <2>1. /\ client[c] \in ClientState
        /\ GoodClient(client[c], signed, ledger, effects)
        /\ client[c].pc = "waiting"
        /\ client' = [client EXCEPT ![c] = k] /\ handler' = handler
        /\ UNCHANGED <<guardVars, pipelineVars>>
    BY <1>4 DEF Throw, SponsorInv, SponsorTypeOK
  <2>2. PipelineInv' /\ Forward /\ UNCHANGED <<ledger, signed, effects>>
    BY <1>q, <2>1
  <2>3. k = [pc |-> "threw", req |-> client[c].req,
             attempt |-> client[c].attempt, told |-> client[c].told]
    BY <2>1, ClientWithPc
  <2>4. k \in ClientState
    BY <2>1, <2>3 DEF ClientState
  <2>5. GoodClient(k, signed', ledger', effects')
    BY <2>1, <2>2, <2>3 DEF GoodClient
  <2> HIDE DEF k
  <2> QED  BY <2>1, <2>2, <2>3, <2>4, <2>5, ClientMoves
(* Answers, right and wrong.                                               *)
<1>5. ASSUME NEW h \in Attempt, NEW answer \in {"success", "failure", "error"},
             Answered(h, answer), UNCHANGED <<client, guardVars, pipelineVars>>,
             answer = "success" =>
                 /\ handler[h].pc = "executing"
                 /\ Succeeded(handler[h].tx)
      PROVE  PipelineInv' /\ Forward /\ SponsorInv'
  <2> DEFINE q == Over("answered", answer)
  <2>1. PipelineInv' /\ Forward /\ UNCHANGED <<ledger, signed, effects>>
    BY <1>q, <1>5
  <2>2. q \in HandlerState /\ q.pc = "answered" /\ q.answer = answer
    BY DEF Over, HandlerState
  <2> HIDE DEF q
  <2>3. handler' = [handler EXCEPT ![h] = q] /\ client' = client
    BY <1>5 DEF Answered, q
  <2>4. GoodHandler(q, signed', ledger', effects')
    BY <2>2 DEF GoodHandler
  <2>5. ASSUME NEW k \in ClientState,
               Serves(k, handler[h], effects)
        PROVE  Serves(k, q, effects')
    <3>1. CASE answer # "success"
      BY <2>2, <3>1 DEF Serves
    <3>2. CASE answer = "success"
      <4> DEFINE t == handler[h].tx
      <4>1. /\ t \in UnlockTx /\ t \in DOMAIN effects
            /\ effects[t] = "success" /\ RequestOf(t) = k.req
        BY <1>5, <2>5, <3>2 DEF Serves, SponsorInv, GoodHandler, Succeeded
      <4>2. t.kind = "unlock"
        BY <4>1 DEF UnlockTx
      <4>3. ServedIn(effects, k.req)
        BY <4>1, <4>2 DEF ServedIn
      <4> HIDE DEF t
      <4> QED  BY <2>1, <2>2, <4>3 DEF Serves
    <3> QED  BY <3>1, <3>2
  <2> QED  BY <2>1, <2>2, <2>3, <2>4, <2>5, HandlerMoves
<1>6. ASSUME NEW h \in Attempt, Refuse(h) \/ RpcFails(h)
      PROVE  PipelineInv' /\ Forward /\ SponsorInv'
  BY <1>5, <1>6 DEF Refuse, RpcFails
<1>7. ASSUME NEW h \in Attempt, Finish(h)
      PROVE  PipelineInv' /\ Forward /\ SponsorInv'
  <2> DEFINE t == handler[h].tx
  <2>1. /\ handler[h].pc = "executing" /\ t \in DOMAIN effects
        /\ effects[t] # "pending"
        /\ Answered(h, effects[t])
        /\ UNCHANGED <<client, guardVars, pipelineVars>>
    BY <1>7 DEF Finish, StatusOf, SponsorInv, GoodHandler
  <2>2. effects[t] \in {"success", "failure"}
    BY <2>1 DEF PipelineTypeOK, Status
  <2>3. effects[t] = "success" => Succeeded(t)
    BY <2>1 DEF Succeeded
  <2> QED  BY <1>5, <2>1, <2>2, <2>3
<1>8. ASSUME NEW h \in Attempt, Accept(h)
      PROVE  PipelineInv' /\ Forward /\ SponsorInv'
  <2> DEFINE q == [handler[h] EXCEPT !.pc = "building"]
  <2>1. /\ handler[h] \in HandlerState /\ handler[h].pc = "reading"
        /\ GoodHandler(handler[h], signed, ledger, effects)
        /\ handler' = [handler EXCEPT ![h] = q] /\ client' = client
        /\ UNCHANGED <<guardVars, pipelineVars>>
    BY <1>8 DEF Accept, SponsorInv, SponsorTypeOK
  <2>2. PipelineInv' /\ Forward /\ UNCHANGED <<ledger, signed, effects>>
    BY <1>q, <2>1
  <2>3. q = [pc |-> "building", req |-> handler[h].req, tx |-> handler[h].tx,
             answer |-> handler[h].answer]
    BY <2>1 DEF HandlerState
  <2>4. q \in HandlerState
    BY <2>1, <2>3 DEF HandlerState
  <2>5. GoodHandler(q, signed', ledger', effects')
    BY <2>1, <2>2, <2>3 DEF GoodHandler
  <2>6. ASSUME NEW k \in ClientState, Serves(k, handler[h], effects)
        PROVE  Serves(k, q, effects')
    BY <2>1, <2>2, <2>3, <2>6 DEF Serves
  <2> HIDE DEF q
  <2> QED  BY <2>1, <2>2, <2>4, <2>5, <2>6, HandlerMoves
<1>9. ASSUME NEW h \in Attempt, Build(h)
      PROVE  PipelineInv' /\ Forward /\ SponsorInv'
  <2> DEFINE r == handler[h].req
             t == SponsoredTx(r)
             q == [handler[h] EXCEPT !.pc = "executing", !.tx = t]
  <2>1. /\ handler[h] \in HandlerState /\ handler[h].pc = "building"
        /\ AskedIn(signed, ledger, r)
        /\ Submitted(t)
        /\ handler' = [handler EXCEPT ![h] = q] /\ client' = client
        /\ UNCHANGED <<ledger, signed, sender, work, held, count, version,
                       created, node>>
    BY <1>9 DEF Build, SponsorInv, SponsorTypeOK, GoodHandler, guardVars
  <2>2. /\ t \in UnlockTx /\ t \in Tx /\ t.id = r.id /\ t.sig = r.sig
        /\ RequestOf(t) = r
    <3>1. /\ r.id \in ObjId /\ r.sig \in Signable /\ r.call \in Call
          /\ r = [id |-> r.id, sig |-> r.sig, call |-> r.call]
          /\ node.version[Sponsor] \in Nat
      BY <2>1, SponsorAssumption, PipelineNumbers DEF AskedIn, Request
    <3> HIDE DEF r
    <3> QED
      BY <3>1, SponsorAssumption DEF SponsoredTx, Tx, UnlockTx, RequestOf
  <2>3. \E u \in Tx : Submitted(u) /\ (u.kind = "unlock" => InTime(u.id, u.sig)')
    <3>1. PICK u \in Tx : u = t
      BY <2>2
    <3>2. InTime(u.id, u.sig)'
      <4> HIDE DEF r, t
      <4> QED  BY <2>1, <2>2, <3>1 DEF AskedIn, InTime
    <3> QED  BY <2>1, <3>1, <3>2
  <2> HIDE DEF t, r
  <2>4. PipelineInv' /\ Forward
    BY <2>1, <2>3, QuietStep
  <2>5. q = [pc |-> "executing", req |-> handler[h].req, tx |-> t,
             answer |-> handler[h].answer]
    <3> DEFINE p == [handler[h] EXCEPT !.pc = "executing"]
    <3>1. p = [pc |-> "executing", req |-> handler[h].req,
               tx |-> handler[h].tx, answer |-> handler[h].answer]
      BY <2>1 DEF HandlerState
    <3> HIDE DEF p
    <3>2. [p EXCEPT !.tx = t]
              = [pc |-> "executing", req |-> handler[h].req, tx |-> t,
                 answer |-> handler[h].answer]
      BY <3>1
    <3> QED  BY <3>2 DEF p
  <2>6. q \in HandlerState
    BY <2>1, <2>2, <2>5 DEF HandlerState
  <2>7. GoodHandler(q, signed', ledger', effects')
    BY <2>1, <2>2, <2>5 DEF GoodHandler, Submitted
  <2>8. ASSUME NEW k \in ClientState, k.pc = "waiting",
               GoodClient(k, signed, ledger, effects),
               Serves(k, handler[h], effects)
        PROVE  Serves(k, q, effects')
    <3>1. Serves(k, handler[h], effects')
      BY <2>4, <2>8, GoodKept
    <3> QED  BY <2>1, <2>2, <2>5, <3>1 DEF Serves, r
  <2> HIDE DEF q
  <2> QED  BY <2>1, <2>4, <2>6, <2>7, <2>8, HandlerMoves
<1>10. ASSUME ServerRestarts
       PROVE  PipelineInv' /\ Forward /\ SponsorInv'
  <2> DEFINE g == Over("gone", "nothing")
  <2>1. /\ client' = client
        /\ handler' = [h \in Attempt |-> IF Busy(h) THEN g ELSE handler[h]]
        /\ UNCHANGED <<guardVars, pipelineVars>>
    BY <1>10 DEF ServerRestarts
  <2>2. PipelineInv' /\ Forward /\ UNCHANGED <<ledger, signed, effects>>
    BY <1>q, <2>1
  <2>3. /\ g \in HandlerState
        /\ g.pc = "gone" /\ g.answer = "nothing"
    BY DEF Over, HandlerState
  <2> HIDE DEF g
  <2>4. \A h \in Attempt : handler'[h] = g \/ handler'[h] = handler[h]
    BY <2>1
  <2>5. handler' \in [Attempt -> HandlerState]
    BY <2>1, <2>3 DEF SponsorInv, SponsorTypeOK
  <2>6. /\ GoodHandler(g, signed, ledger, effects)
        /\ \A k : Serves(k, g, effects)
    BY <2>3 DEF GoodHandler, Serves
  <2>7. \A h \in Attempt : GoodHandler(handler'[h], signed, ledger, effects)
    BY <2>4, <2>6 DEF SponsorInv
  <2>8. \A c \in Client : client[c].pc = "waiting" =>
            /\ <<c, client[c].attempt>> \in Attempt
            /\ Serves(client[c], handler'[<<c, client[c].attempt>>], effects)
    <3> SUFFICES ASSUME NEW c \in Client, client[c].pc = "waiting"
                 PROVE  /\ <<c, client[c].attempt>> \in Attempt
                        /\ Serves(client[c], handler'[<<c, client[c].attempt>>], effects)
      OBVIOUS
    <3> DEFINE h == <<c, client[c].attempt>>
    <3>1. h \in Attempt /\ Serves(client[c], handler[h], effects)
      BY DEF SponsorInv
    <3> HIDE DEF h
    <3>2. Serves(client[c], handler'[h], effects)
      BY <2>4, <2>6, <3>1
    <3> QED  BY <3>1, <3>2 DEF h
  <2>9. SponsorInv'
    BY <2>1, <2>2, <2>5, <2>7, <2>8 DEF SponsorInv, SponsorTypeOK
  <2> QED  BY <2>2, <2>9
<1> QED
  BY <1>1, <1>2, <1>3, <1>4, <1>6, <1>7, <1>8, <1>9, <1>10
  DEF SponsorStep, Handle

-----------------------------------------------------------------------------
(* 16. All of them together.                                                *)

(* The inductive invariant.                                               *)
ClientsInv == PipelineInv /\ FormsInv /\ ScriptsInv /\ SponsorInv

(* It holds at first.                                                     *)
LEMMA ClientsInitInv ==
    ASSUME Init
    PROVE  ClientsInv
<1>1. /\ TypeOK /\ DOMAIN ledger.identity = {}
      /\ \A s \in Signable : ledger.uses[s] = 0
  BY InitType DEF TypeInv, Init, PipelineInit, GuardInit
<1>2. UsesInv(ledger)
  <2>1. IsFiniteSet(DOMAIN ledger.identity)
    BY <1>1, FS_EmptySet
  <2>2. ASSUME NEW s \in Signable
        PROVE  ledger.uses[s] <= Cardinality(Outgrown(ledger, s))
    <3>1. Outgrown(ledger, s) = {}
      BY <1>1 DEF Outgrown
    <3> QED  BY <1>1, <3>1, FS_EmptySet
  <2> QED  BY <1>1, <2>1, <2>2 DEF UsesInv, NoncesUsed
<1> USE DEF Init, PipelineInit, GuardInit
<1>3. PipelineTypeOK
  <2>1. created \in UNION {[D -> ObjId] : D \in SUBSET DOMAIN effects}
    BY CreatedType
  <2> QED  BY <1>1, <2>1 DEF PipelineTypeOK, TypeOK, View, Ledger
<1>4. PipelineInv
  BY <1>1, <1>2, <1>3 DEF PipelineInv, LedgerInv, NodeBehind, Histories, OneSuccess
<1>5. FormsInv
  BY FormsAssumption
  DEF FormsInit, FormsInv, FormsTypeOK, FormState, FormShowsTruth
<1>6. ScriptsInv
  BY GuardAssumption
  DEF ScriptsInit, ScriptsInv, ScriptsTypeOK, ScriptState, ComplaintIsTrue, U64
<1>7. SponsorInv
  BY SponsorAssumption
  DEF SponsorInit, SponsorInv, SponsorTypeOK, ClientState, HandlerState,
      GoodHandler, GoodClient
<1> QED  BY <1>4, <1>5, <1>6, <1>7 DEF ClientsInv

(* Every step keeps it, program by program.                               *)
LEMMA ClientsStepInv ==
    ASSUME ClientsInv, [Next]_vars
    PROVE  ClientsInv' /\ Forward
<1> USE DEF ClientsInv
<1>1. CASE PipelineStep /\ UNCHANGED <<sponsorVars, form, script>>
  BY <1>1, PipelineStepInv, FormsKept, ScriptsKept, SponsorKept DEF sponsorVars
<1>2. CASE SponsorStep /\ UNCHANGED <<form, script>>
  BY <1>2, SponsorStepInv, FormsKept, ScriptsKept
<1>3. CASE FormsStep /\ UNCHANGED <<sponsorVars, script>>
  BY <1>3, FormsStepInv, ScriptsKept, SponsorKept DEF sponsorVars
<1>4. CASE ScriptsStep /\ UNCHANGED <<sponsorVars, form>>
  BY <1>4, ScriptsStepInv, FormsKept, SponsorKept DEF sponsorVars
<1>5. CASE UNCHANGED vars
  <2>1. UNCHANGED <<ledger, signed, sender, work, held, count, version,
                    effects, created, node, client, handler, form, script>>
    BY <1>5 DEF vars, guardVars, pipelineVars, sponsorVars
  <2>2. signed' \subseteq Signable
    BY <2>1, PipelineNumbers
  <2>3. PipelineInv' /\ Forward
    BY <2>1, <2>2, QuietStep
  <2> QED  BY <2>1, <2>3, FormsKept, ScriptsKept, SponsorKept
<1> QED  BY <1>1, <1>2, <1>3, <1>4, <1>5 DEF Next

(* It holds in every behaviour.                                           *)
LEMMA ClientsInvariance == Spec => []ClientsInv
  BY ClientsInitInv, ClientsStepInv, PTL DEF Spec

(* Every variable of the pipeline and its programs keeps its type.         *)
THEOREM ClientsTypeCorrect == Spec => []ClientsTypeOK
<1>1. ClientsInv => ClientsTypeOK
  BY DEF ClientsInv, PipelineInv, FormsInv, ScriptsInv, SponsorInv, ClientsTypeOK
<1> QED  BY <1>1, ClientsInvariance, PTL

(* A client told "success" has been served, once, for what it asked.       *)
THEOREM SuccessIsTrueHolds == Spec => []SuccessIsTrue
<1>1. ClientsInv => SuccessIsTrue
  <2> SUFFICES ASSUME ClientsInv, NEW c \in Client, client[c].told = "success"
               PROVE  \E t \in UnlocksOf(client[c].req.id, client[c].req.sig) :
                         /\ UnlocksOf(client[c].req.id, client[c].req.sig) = {t}
                         /\ RequestOf(t) = client[c].req
    BY DEF SuccessIsTrue
  <2> DEFINE req == client[c].req
  <2>1. PICK t \in DOMAIN effects : /\ effects[t] = "success"
                                   /\ t.kind = "unlock" /\ RequestOf(t) = req
    BY DEF ClientsInv, SponsorInv, GoodClient, ServedIn
  <2>2. t.id = req.id /\ t.sig = req.sig
    BY <2>1 DEF RequestOf
  <2>3. UnlocksOf(req.id, req.sig) = {t}
    BY <2>1, <2>2 DEF UnlocksOf, Succeeded, ClientsInv, PipelineInv, OneSuccess
  <2> QED  BY <2>1, <2>3
<1> QED  BY <1>1, ClientsInvariance, PTL

(* What the page and the script read back after an unlock is beyond it.    *)
THEOREM NonceReadBackHolds == Spec => []NonceReadBack
<1>1. ClientsInv => NonceReadBack
  BY DEF ClientsInv, FormsInv, ScriptsInv, FormShowsTruth, ComplaintIsTrue,
         NonceReadBack
<1> QED  BY <1>1, ClientsInvariance, PTL

(* A request that failed once is lost: the identity is past its nonce, or  *)
(* never had its key, or the call does not take its digest.                *)
LEMMA LostIsNotServed ==
    ASSUME PipelineInv, NEW t, NEW u, RequestOf(t) = RequestOf(u), Lost(t)
    PROVE  ~GoesThrough(ledger.identity, u)
<1>1. t.id = u.id /\ t.sig = u.sig /\ t.call = u.call
  BY DEF RequestOf
<1>2. SUFFICES ASSUME GoesThrough(ledger.identity, u) PROVE FALSE
  OBVIOUS
<1> DEFINE id == ledger.identity[u.id]
<1>3. /\ u.sig.pk = id.pk /\ u.sig.sender = id.owner /\ u.sig.nonce = id.nonce
      /\ NonceFits(id)
      /\ Expects[u.call] = u.sig.digest
      /\ u.call \in Closed
      /\ id.nonce \in Nat
  BY <1>2, PipelineNumbers DEF GoesThrough, VerifyPq, UnlockMessage
<1>4. ~(u.sig.nonce < id.nonce)
  BY <1>3
<1> HIDE DEF id
<1> QED  BY <1>1, <1>3, <1>4 DEF Lost, id

(* Only the execution of an unlock makes its status "success".             *)
LEMMA SucceedsByUnlock ==
    ASSUME PipelineInv, [Next]_vars, NEW u \in DOMAIN effects,
           u.kind = "unlock", effects[u] = "pending", effects'[u] = "success"
    PROVE  ExecuteUnlock(u)
<1>1. ASSUME \/ effects' = effects
             \/ \E t : Submitted(t)
      PROVE  FALSE
  BY <1>1 DEF Submitted
<1>2. ASSUME NEW t, NEW status \in Status, Executes(t, status)
      PROVE  t = u
  BY <1>2, ExecutesStep
<1>3. CASE PipelineStep
  <2>1. ASSUME NEW t \in DOMAIN effects, NEW i \in ObjId, ExecuteRegister(t, i)
        PROVE  FALSE
    BY <1>2, <2>1 DEF ExecuteRegister, Status
  <2>2. ASSUME NEW t \in DOMAIN effects, ExecuteUnlock(t) PROVE t = u
    BY <1>2, <2>2 DEF ExecuteUnlock, Status
  <2>3. ASSUME NEW t \in DOMAIN effects, ExecuteAbort(t) PROVE FALSE
    <3>1. Executes(t, "failure") /\ "failure" \in Status
      BY <2>3 DEF ExecuteAbort, Status
    <3>2. t = u /\ effects'[t] = "failure"
      BY <1>2, <3>1, ExecutesStep
    <3> QED  BY <3>2
  <2> QED  BY <1>1, <1>3, <2>1, <2>2, <2>3 DEF PipelineStep, CatchUp
<1>4. CASE SponsorStep
  BY <1>1, <1>4
  DEF SponsorStep, Prepare, Submit, Hear, Throw, Handle, Refuse, Accept, Build,
      Finish, RpcFails, ServerRestarts, pipelineVars
<1>5. CASE FormsStep
  BY <1>1, <1>5
  DEF FormsStep, ClickUnlock, ClickRegister, SignUnlock, Send, Show, ShowError,
      pipelineVars
<1>6. CASE ScriptsStep
  BY <1>1, <1>6
  DEF ScriptsStep, Reuse, TakeId, RegisterFresh, Unlocks, Measure, Lands,
      CheckNonce, Exits, pipelineVars
<1>7. CASE UNCHANGED vars
  BY <1>1, <1>7 DEF vars, pipelineVars
<1> QED  BY <1>3, <1>4, <1>5, <1>6, <1>7 DEF Next

(* After a failure for a request, nothing is ever done for it.             *)
THEOREM FailureIsFinalHolds == Spec => FailureIsFinal
<1>1. ASSUME ClientsInv, [Next]_vars,
             NEW t \in DOMAIN effects, NEW u \in DOMAIN effects,
             t.kind = "unlock", u.kind = "unlock", RequestOf(t) = RequestOf(u),
             effects[t] = "failure", effects'[u] = "success",
             effects[u] # "success"
      PROVE  FALSE
  <2>1. Forward /\ effects[u] = "pending"
    BY <1>1, ClientsStepInv DEF Forward
  <2>2. Lost(t)
    BY <1>1 DEF ClientsInv, PipelineInv, Histories
  <2>3. ExecuteUnlock(u)
    BY <1>1, <2>1, SucceedsByUnlock DEF ClientsInv
  <2>4. GoesThrough(ledger.identity, u)
    BY <2>3 DEF ExecuteUnlock
  <2> QED  BY <1>1, <2>2, <2>4, LostIsNotServed DEF ClientsInv
<1>2. ClientsInv /\ [Next]_vars =>
          [\A t, u \in DOMAIN effects :
             /\ t.kind = "unlock" /\ u.kind = "unlock"
             /\ RequestOf(t) = RequestOf(u)
             /\ effects[t] = "failure"
             /\ effects'[u] = "success"
             => effects[u] = "success"]_effects
  BY <1>1
<1> QED  BY <1>2, ClientsInvariance, PTL DEF Spec, FailureIsFinal

(* Whoever registers a key again, and however often: a signature is used   *)
(* by each identity with its key once at most.                             *)
THEOREM UsedOncePerIdentityHolds == Spec => []UsedOncePerIdentity
<1>1. ClientsInv => UsedOncePerIdentity
  BY DEF ClientsInv, PipelineInv, LedgerInv, UsesInv, UsedOncePerIdentity
<1> QED  BY <1>1, ClientsInvariance, PTL
=============================================================================
