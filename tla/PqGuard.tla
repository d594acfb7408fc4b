------------------------------- MODULE PqGuard -------------------------------
(***************************************************************************)
(* move/pq_guard/sources/pq_guard.move: identities that hold a             *)
(* post-quantum public key and a nonce, and unlock, which turns a valid    *)
(* signature over (sender, nonce, action digest) into a PqAuthorized       *)
(* witness.                                                                *)
(*                                                                         *)
(* The module is run by programmable transactions (PTBs).  A transaction   *)
(* executes its commands one after the other on a private copy of the      *)
(* objects (work) and either commits all of it or none.  Transactions on   *)
(* the same object are serialised by the ledger, so one is in progress at  *)
(* a time.  A command whose assertion fails aborts the whole transaction:  *)
(* each command below states the assertions as its guard, and Abort stands *)
(* for every way a transaction can fail.                                   *)
(*                                                                         *)
(* Signatures are ideal: one verifies under a key exactly for the message  *)
(* the holder of that key signed.  A signature is therefore the record of  *)
(* its key and its message.                                                *)
(***************************************************************************)
EXTENDS Naturals, FiniteSets

CONSTANTS Address,      \* Sui addresses
          ObjId,        \* ids object::new may return
          PubKey,       \* public keys, as byte vectors
          PkLen,        \* the length of each public key, in bytes
          Digest,       \* 32-byte action digests
          U64Max,       \* the largest u64
          Signable,     \* the messages holders are willing to sign
          KeyPolicy,    \* how holders choose the keys they bind, see KeyAllowed
          MaxCmds,      \* bound: commands in one transaction
          Nobody        \* the sender when no transaction is in progress

SLH_DSA_LITE      == 96    \* 0x60
SLH_DSA_SHA2_128S == 32    \* 0x20
Scheme == {SLH_DSA_LITE, SLH_DSA_SHA2_128S}

(* expected_pk_len.  It aborts on an unknown scheme byte.                  *)
ExpectedPkLen(scheme) == IF scheme = SLH_DSA_LITE THEN 64 ELSE 32

U64 == 0 .. U64Max

PqIdentity == [owner: Address, scheme: Scheme, pk: PubKey, nonce: U64]

(* What unlock_message_bytes lays out, with the key that signs it.  The    *)
(* tag and the widths are fixed, so the fields can be read back; the id of *)
(* the identity is not among them.                                         *)
Message == [pk: PubKey, sender: Address, nonce: U64, digest: Digest]

ASSUME GuardAssumption ==
    /\ U64Max \in Nat
    /\ MaxCmds \in Nat
    /\ PkLen \in [PubKey -> Nat]
    /\ Signable \subseteq Message
    /\ KeyPolicy \in {"any", "onePerIdentity", "fresh"}
    /\ Nobody \notin Address

VARIABLES ledger,       \* the committed objects and their history
          signed,       \* the signatures made so far, off-chain
          sender,       \* ctx.sender() of the transaction in progress
          work,         \* its private copy of ledger
          held,         \* its unconsumed PqAuthorized witnesses
          count         \* the commands it has executed

guardVars == <<ledger, signed, sender, work, held, count>>

(***************************************************************************)
(* ledger.identity maps the id of every PqIdentity that exists to its      *)
(* fields.  The rest is history: bound has every key an owner ever gave an *)
(* identity, uses how many unlocks each signature has served.              *)
(***************************************************************************)
Binding == [owner: Address, pk: PubKey, id: ObjId]

Ledger == [identity : UNION {[D -> PqIdentity] : D \in SUBSET ObjId},
           bound    : SUBSET Binding,
           uses     : [Signable -> Nat]]

(* The witness unlock returns.  result is its place among the results of   *)
(* the PTB's commands; by is history, the signature that produced it.      *)
PqAuthorized == [result: Nat, identity_id: ObjId, sender: Address,
                 nonce: U64, action_digest: Digest, by: Signable]

Executing == sender \in Address

-----------------------------------------------------------------------------
(***************************************************************************)
(* How holders choose keys.  The code compares a new key with nothing.     *)
(*   fresh          - as rotate's comment says, a key this owner never     *)
(*                    bound before                                         *)
(*   onePerIdentity - as unlock_message_bytes' comment asks, a key this    *)
(*                    owner bound to no other identity                     *)
(*   any            - no discipline                                        *)
(***************************************************************************)
KeyAllowed(i, a, pk) ==
    LET before == {b \in work.bound : b.owner = a /\ b.pk = pk}
    IN  /\ KeyPolicy = "fresh" => before = {}
        /\ KeyPolicy = "onePerIdentity" => \A b \in before : b.id = i

(* register: a new identity of the sender, at nonce 0.                     *)
AfterRegister(l, i, a, scheme, pk) ==
    [identity |-> [j \in DOMAIN l.identity \union {i} |->
                      IF j = i
                      THEN [owner |-> a, scheme |-> scheme,
                            pk |-> pk, nonce |-> 0]
                      ELSE l.identity[j]],
     bound    |-> l.bound \union {[owner |-> a, pk |-> pk, id |-> i]},
     uses     |-> l.uses]

(* Faulty: the nonce of the old key is kept for the new one.               *)
RotateKeepingNonce(l, i, pk) ==
    [identity |-> [l.identity EXCEPT ![i] = [@ EXCEPT !.pk = pk]],
     bound    |-> l.bound \union {[owner |-> l.identity[i].owner,
                                  pk |-> pk, id |-> i]},
     uses     |-> l.uses]

(* Faulty: the nonce starts again, and the new key is not stored.          *)
RotateKeepingKey(l, i, pk) ==
    [l EXCEPT !.identity[i].nonce = 0]

(* rotate: a new key, and the nonce starts again.                          *)
AfterRotate(l, i, pk) ==
    [identity |-> [l.identity EXCEPT ![i] = [@ EXCEPT !.pk = pk, !.nonce = 0]],
     bound    |-> l.bound \union {[owner |-> l.identity[i].owner,
                                  pk |-> pk, id |-> i]},
     uses     |-> l.uses]

(* Faulty: the nonce does not advance.                                     *)
UnlockKeepingNonce(l, i, s) == [l EXCEPT !.uses[s] = @ + 1]

(* unlock: the nonce advances and the signature has served once more.      *)
AfterUnlock(l, i, s) ==
    [identity |-> [l.identity EXCEPT
                      ![i] = [@ EXCEPT !.nonce = l.identity[i].nonce + 1]],
     bound    |-> l.bound,
     uses     |-> [l.uses EXCEPT ![s] = @ + 1]]

(* Faulty: the message leaves the nonce out (as if it were always 0).      *)
MessageWithoutNonce(id, a, digest) ==
    [pk |-> id.pk, sender |-> a, nonce |-> 0, digest |-> digest]

UnlockMessage(id, a, digest) ==
    [pk |-> id.pk, sender |-> a, nonce |-> id.nonce, digest |-> digest]

(* Faulty: the key is not compared.                                        *)
VerifyUnderAnyKey(msg, sig) ==
    sig \in signed /\ [sig EXCEPT !.pk = msg.pk] = msg

(* verify_pq, on a signature a holder made.                                *)
VerifyPq(msg, sig) == sig \in signed /\ sig = msg

(* Faulty: no overflow check on nonce + 1.                                 *)
NonceAlwaysFits(id) == TRUE

(* nonce + 1 aborts on overflow.                                           *)
NonceFits(id) == id.nonce + 1 \in U64

(* An owned object is an input only of its owner's transactions, and one   *)
(* that a command of this transaction created is not an input of it.       *)
Inputs == {i \in DOMAIN ledger.identity : ledger.identity[i].owner = sender}

-----------------------------------------------------------------------------
GuardInit ==
    /\ ledger = [identity |-> [i \in {} |-> 0],
                 bound    |-> {},
                 uses     |-> [s \in Signable |-> 0]]
    /\ signed = {}
    /\ sender = Nobody
    /\ work = ledger
    /\ held = {}
    /\ count = 0

(* A holder signs a message off-chain.  Nothing ties it to the nonce the   *)
(* ledger holds at that moment.                                            *)
Sign(s) ==
    /\ signed' = signed \union {s}
    /\ UNCHANGED <<ledger, sender, work, held, count>>

Begin(a) ==
    /\ ~Executing
    /\ sender' = a
    /\ UNCHANGED <<ledger, signed, work, held, count>>

(* What every command does: it is one more of at most MaxCmds.             *)
Command ==
    /\ Executing
    /\ count < MaxCmds
    /\ count' = count + 1
    /\ UNCHANGED <<ledger, signed, sender>>

Register(i, scheme, pk) ==
    /\ Command
    /\ i \notin DOMAIN work.identity
    /\ PkLen[pk] = ExpectedPkLen(scheme)
    /\ KeyAllowed(i, sender, pk)
    /\ work' = AfterRegister(work, i, sender, scheme, pk)
    /\ UNCHANGED held

Rotate(i, pk) ==
    /\ Command
    /\ i \in Inputs
    /\ work.identity[i].owner = sender
    /\ PkLen[pk] = ExpectedPkLen(work.identity[i].scheme)
    /\ KeyAllowed(i, sender, pk)
    /\ work' = AfterRotate(work, i, pk)
    /\ UNCHANGED held

Unlock(i, digest, s) ==
    /\ Command
    /\ i \in Inputs
    /\ VerifyPq(UnlockMessage(work.identity[i], sender, digest), s)
    /\ NonceFits(work.identity[i])
    /\ work' = AfterUnlock(work, i, s)
    /\ held' = held \union {[result        |-> count,
                             identity_id   |-> i,
                             sender        |-> sender,
                             nonce         |-> work.identity[i].nonce,
                             action_digest |-> digest,
                             by            |-> s]}

(* consume is public: it takes the witness and has no effect.              *)
Consume(w) ==
    /\ Command
    /\ held' = held \ {w}
    /\ UNCHANGED work

(* Effects apply only when no witness is left: PqAuthorized has no drop.   *)
Commit ==
    /\ Executing
    /\ held = {}
    /\ ledger' = work
    /\ sender' = Nobody
    /\ count' = 0
    /\ UNCHANGED <<signed, work, held>>

Abort ==
    /\ Executing
    /\ work' = ledger
    /\ held' = {}
    /\ sender' = Nobody
    /\ count' = 0
    /\ UNCHANGED <<ledger, signed>>

GuardNext ==
    \/ \E s \in Signable : Sign(s)
    \/ \E a \in Address : Begin(a)
    \/ \E i \in ObjId, scheme \in Scheme, pk \in PubKey : Register(i, scheme, pk)
    \/ \E i \in ObjId, pk \in PubKey : Rotate(i, pk)
    \/ \E i \in ObjId, s \in signed : Unlock(i, s.digest, s)
    \/ \E w \in held : Consume(w)
    \/ Commit
    \/ Abort

GuardSpec == GuardInit /\ [][GuardNext]_guardVars

-----------------------------------------------------------------------------
(***************************************************************************)
(* Properties                                                              *)
(***************************************************************************)

(* Every variable has its type; a nonce never leaves u64.                  *)
TypeOK ==
    /\ ledger \in Ledger
    /\ work \in Ledger
    /\ signed \in SUBSET Signable
    /\ sender \in Address \union {Nobody}
    /\ held \in SUBSET PqAuthorized
    /\ count \in 0 .. MaxCmds

(* A signature serves at most one unlock, ever: the header of pq_guard     *)
(* says that after one use it can never be replayed.  It takes a history   *)
(* of registrations, rotations and unlocks to break.                       *)
SingleUse == \A s \in Signable : ledger.uses[s] <= 1

(* Nonces count authorizations.  For every identity, and every nonce below *)
(* its current one, exactly one signature under its current key was used.  *)
(* Of two different actions signed for the same nonce at most one happens, *)
(* and no nonce is skipped.                                                *)
UsedAt(l, pk, a, n) ==
    {s \in Signable : l.uses[s] > 0 /\ s.pk = pk /\ s.sender = a /\ s.nonce = n}

NonceCountsUses ==
    \A i \in DOMAIN ledger.identity :
        LET id == ledger.identity[i]
        IN  \A n \in U64 :
               Cardinality(UsedAt(ledger, id.pk, id.owner, n))
                   = IF n < id.nonce THEN 1 ELSE 0

(* How the committed state of an identity may change.  It is never deleted *)
(* and keeps its owner and scheme; only a transaction of its owner changes *)
(* it, although unlock itself asserts no owner; and while the key stays,   *)
(* the nonce does not go back.                                             *)
Evolves(old, new) ==
    \A i \in DOMAIN old.identity :
        /\ i \in DOMAIN new.identity
        /\ LET o == old.identity[i]
               n == new.identity[i]
           IN  /\ n.owner = o.owner
               /\ n.scheme = o.scheme
               /\ n # o => sender = o.owner
               /\ n.pk = o.pk => n.nonce >= o.nonce

IdentityEvolves == [][Evolves(ledger, ledger')]_ledger

-----------------------------------------------------------------------------
(***************************************************************************)
(* The inductive invariant behind them, for KeyPolicy = "fresh".           *)
(***************************************************************************)

(* An identity's key is among those its owner bound to it, and an owner    *)
(* binds a key once.                                                       *)
KeysBound(l) ==
    \A i \in DOMAIN l.identity :
        [owner |-> l.identity[i].owner, pk |-> l.identity[i].pk, id |-> i]
            \in l.bound

BoundOnce(l) ==
    \A b, c \in l.bound : b.owner = c.owner /\ b.pk = c.pk => b = c

(* A signature is used under a key its sender bound, once, below the nonce *)
(* of the identity that still has the key, and with no other signature at  *)
(* its nonce.                                                              *)
UsesBound(l) ==
    \A s \in Signable : l.uses[s] > 0 =>
        \E b \in l.bound : b.owner = s.sender /\ b.pk = s.pk

UsedOnce(l) == \A s \in Signable : l.uses[s] <= 1

UsedBelowNonce(l) ==
    \A s \in Signable, i \in DOMAIN l.identity :
        /\ l.uses[s] > 0
        /\ s.pk = l.identity[i].pk
        /\ s.sender = l.identity[i].owner
        => s.nonce < l.identity[i].nonce

OneAtNonce(l) ==
    \A s, t \in Signable :
        /\ l.uses[s] > 0 /\ l.uses[t] > 0
        /\ s.pk = t.pk /\ s.sender = t.sender /\ s.nonce = t.nonce
        => s = t

NoncesUsed(l) ==
    \A i \in DOMAIN l.identity, n \in U64 :
        n < l.identity[i].nonce =>
            UsedAt(l, l.identity[i].pk, l.identity[i].owner, n) # {}

KeyInv(l) ==
    /\ KeysBound(l)
    /\ BoundOnce(l)
    /\ UsesBound(l)
    /\ UsedOnce(l)
    /\ UsedBelowNonce(l)
    /\ OneAtNonce(l)
    /\ NoncesUsed(l)

(* How the transaction's copy stands to the committed ledger.              *)
WorkExtends ==
    /\ Evolves(ledger, work)
    /\ ledger.bound \subseteq work.bound
    /\ \A s \in Signable : ledger.uses[s] <= work.uses[s]
    /\ \A s \in Signable : work.uses[s] > 0 => s \in signed

GuardInv ==
    /\ TypeOK
    /\ KeyInv(ledger)
    /\ KeyInv(work)
    /\ WorkExtends

-----------------------------------------------------------------------------
(* The ledger keeps the promise of OneTimeAuth: everything it makes use of *)
(* was signed and had not been used before.                                *)
Auth == INSTANCE OneTimeAuth
            WITH Authorization <- Signable, uses <- ledger.uses
ImplementsOneTimeAuth == Auth!Spec
=============================================================================
