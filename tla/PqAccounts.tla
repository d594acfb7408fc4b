----------------------------- MODULE PqAccounts -----------------------------
(***************************************************************************)
(* Accounts and what they sign.  Holders of keys build transactions, sign   *)
(* them, co-sign those of others and vouch for addresses; a validator that  *)
(* knows SLH-DSA signatures executes the transactions, which change the    *)
(* attestation registry and the Seal allowlists; key servers follow.       *)
(*                                                                         *)
(* Everything signed is public.  Whoever assembles a signature, a           *)
(* co-signed envelope or an attestation may use the parts of others.       *)
(***************************************************************************)
EXTENDS PqNative, PqAttestation, Allowlist, FiniteSetsExt

CONSTANTS NativeKey,    \* keys of accounts of the patched validator
          WalletKey,    \* classical keys
          CoKey,        \* keys that vouch and co-sign
          PageKey,      \* the key in the browser
          Sponsored,    \* bound: the calls another address may pay for
          Bound,        \* the nonce and tag that keys are bound with
          Label,        \* and those a payload may come with
          MaxEffort,    \* bound: what is signed, see Effort
          MaxLists      \* bound: allowlists

ASSUME AccountsAssumption ==
    /\ \A k \in NativeKey : k = Key(k.holder, "SLH_DSA_SHA2_128S")
    /\ \A k \in CoKey : k = Key(k.holder, k.scheme) /\ k.scheme \in ALG
    /\ NativeKey \intersect WalletKey = {}
    /\ PageKey.scheme = LITE
    /\ \A l \in Label \union {Bound} : l.nonce \in Seq(Nat) /\ l.tag \in Seq(Nat)
    /\ MaxLists \in Nat

VARIABLES signed,       \* what account keys signed, and as what
          gas,          \* the version of the gas coin of each address
          vouched,      \* the bindings made off chain
          cosigned      \* co-signed envelopes

vars == <<attestations, log, changes, lists, view, signed, gas, vouched, cosigned>>

AccountKey == NativeKey \union WalletKey

OwnAddress(key) ==
    IF key \in NativeKey THEN NativeAddress(key) ELSE AddressOf(CLASSICAL_FLAG, key)

Address == {OwnAddress(k) : k \in AccountKey}

TxBytes(tx) == <<tx>>
Txs         == {s.tx : s \in signed}

BlobOf(s) ==
    IF s.by \in WalletKey
    THEN Blob(CLASSICAL_FLAG, s.by, classicalSign(s.by, TxBytes(s.tx)))
    ELSE IF s.intent = TX_INTENT THEN signTransaction(s.by, TxBytes(s.tx))
    ELSE signPersonalMessage(s.by, TxBytes(s.tx))

-----------------------------------------------------------------------------
(* What a transaction may call.  The payload of another is registered as   *)
(* it is, or with one argument changed; objects must be there to be named.  *)
Payload(v) == buildAttestation(v.key, v.addr, v.nonce, v.tag)

Variants(call) ==
    {call} \union
    {[call EXCEPT !.nonce = l.nonce, !.app_tag = l.tag] : l \in Label} \union
    {[call EXCEPT !.message_digest.bytes = 31]}

RegisterCalls == UNION {Variants(buildRegisterTx(Payload(v))) : v \in vouched}
PageCalls     == {pageRegisterTx(PageKey, OwnAddress(w), Bound.nonce, Bound.tag) :
                     w \in WalletKey}

HeldCalls(sender) ==
    LET held == {id \in DOMAIN attestations : attestations[id].holder = sender}
    IN  {[fn |-> "revoke", id |-> id] : id \in held} \union
        {[fn |-> "transfer", id |-> id, to |-> a] : id \in held, a \in Address \ {sender}}

ListCalls == {[fn |-> "create"] : n \in Len(lists) .. MaxLists - 1} \union
             {[fn |-> f, list |-> n, member |-> a] :
                 f \in {"add", "remove"}, n \in DOMAIN lists, a \in Address}

Calls(key) == RegisterCalls \union HeldCalls(OwnAddress(key)) \union ListCalls \union
              (IF key \in WalletKey THEN PageCalls ELSE {})

-----------------------------------------------------------------------------
Init ==
    /\ RegistryInit
    /\ AllowlistInit
    /\ signed = {} /\ vouched = {} /\ cosigned = {}
    /\ gas = [a \in Address |-> 0]

Keep == UNCHANGED <<attestations, log, changes, lists, view, gas>>
Signs(s) == signed' = signed \union {s}

Beside == {s \in signed : OwnAddress(s.by) # s.tx.sender \/ s.intent # TX_INTENT}
Effort == Cardinality(signed) + 2 * Cardinality(vouched) + Cardinality(DOMAIN lists \ {1})
            + 2 * Cardinality(Beside) + 2 * Cardinality(cosigned)

(* buildSponsoredTxBytes: the payer is the sender or a sponsor.            *)
Payers(sender, call) == IF call.fn \in Sponsored THEN Address ELSE {sender}

(* An account signs a transaction of its own, when its last one is through. *)
SignOwn(key) ==
    /\ \A tx \in Txs : tx.sender = OwnAddress(key) => tx.gas # gas[tx.payer]
    /\ \E call \in Calls(key) : \E payer \in Payers(OwnAddress(key), call) :
          Signs([by |-> key, intent |-> TX_INTENT,
                 tx |-> [sender |-> OwnAddress(key), payer |-> payer,
                         gas |-> gas[payer], call |-> call]])
    /\ Keep /\ UNCHANGED <<vouched, cosigned>>

(* An account signs the transaction of another, to pay for it or not, or a *)
(* message of its bytes.                                                   *)
SignOthers(key) ==
    /\ \E tx \in Txs : Signs([by |-> key, intent |-> TX_INTENT, tx |-> tx])
    /\ Keep /\ UNCHANGED <<vouched, cosigned>>

SignPersonal(key) ==
    /\ key \in NativeKey
    /\ \E tx \in Txs : Signs([by |-> key, intent |-> PERSONAL_INTENT, tx |-> tx])
    /\ Keep /\ UNCHANGED <<vouched, cosigned>>

Vouch(key) ==
    /\ \E addr \in Address :
          vouched' = vouched \union
                       {[key |-> key, addr |-> addr, nonce |-> Bound.nonce, tag |-> Bound.tag]}
    /\ Keep /\ UNCHANGED <<signed, cosigned>>

CoSignHybrid(wallet, key) ==
    /\ \E tx \in Txs :
          /\ Signs([by |-> wallet, intent |-> TX_INTENT, tx |-> tx])
          /\ cosigned' = cosigned \union {hybridSign(wallet, key, TxBytes(tx))}
    /\ Keep /\ UNCHANGED vouched

CoSignZkLogin(key) ==
    /\ \E tx \in Txs, addr \in Address :
          cosigned' = cosigned \union {pqWrapZkLoginTx(key, addr, TxBytes(tx))}
    /\ Keep /\ UNCHANGED <<signed, vouched>>

-----------------------------------------------------------------------------
(* A transaction runs once, on the version of the gas coin it was built     *)
(* for, and pays whether it goes through or aborts.                        *)
Admitted(tx) ==
    /\ tx.gas = gas[tx.payer]
    /\ \A a \in {tx.sender, tx.payer} :
          \E s \in signed : Admits(a, TxBytes(tx), BlobOf(s))

Pays(tx) == gas' = [gas EXCEPT ![tx.payer] = @ + 1]

Goes(tx) ==
    CASE tx.call.fn = "register"          -> RegisterGoes(tx.call)
      [] tx.call.fn = "revoke"            -> RevokeGoes(tx.sender, tx.call)
      [] tx.call.fn \in {"add", "remove"} -> ListGoes(tx.sender, tx.call)
      [] OTHER                            -> TRUE

Executes(tx, fn) ==
    tx.call.fn = fn /\ Admitted(tx) /\ Pays(tx) /\ UNCHANGED <<signed, vouched, cosigned>>

OnRegistry(tx) ==
    /\ \/ Executes(tx, "register") /\ register(tx.sender, tx.call)
       \/ /\ Executes(tx, "revoke")
          /\ Holds(tx.sender, tx.call)
          /\ revoke(tx.sender, tx.call)
       \/ /\ Executes(tx, "transfer")
          /\ Holds(tx.sender, tx.call)
          /\ transferObject(tx.call)
    /\ UNCHANGED <<changes, lists, view>>

OnAllowlist(tx) ==
    /\ \/ Executes(tx, "create") /\ create(tx.sender) /\ Len(lists) < MaxLists
       \/ Executes(tx, "add") /\ add(tx.sender, tx.call)
       \/ Executes(tx, "remove") /\ remove(tx.sender, tx.call)
    /\ UNCHANGED <<attestations, log, view>>

Abort(tx) ==
    /\ Executes(tx, tx.call.fn)
    /\ ~ Goes(tx)
    /\ UNCHANGED <<attestations, log, changes, lists, view>>

Follow(s) == CatchUp(s) /\ UNCHANGED <<attestations, log, signed, gas, vouched, cosigned>>

Signing ==
    /\ \/ \E key \in AccountKey : SignOwn(key) \/ SignOthers(key) \/ SignPersonal(key)
       \/ \E key \in CoKey : Vouch(key) \/ CoSignZkLogin(key)
       \/ \E wallet \in WalletKey, key \in CoKey : CoSignHybrid(wallet, key)
    /\ Effort' <= MaxEffort

Next ==
    \/ Signing
    \/ \E tx \in Txs : OnRegistry(tx) \/ OnAllowlist(tx) \/ Abort(tx)
    \/ \E s \in Server : Follow(s)

Spec == Init /\ [][Next]_vars
-----------------------------------------------------------------------------
(* What can be put together from public parts.                             *)
AnyTx    == Txs \union {[tx EXCEPT !.gas = @ + 1] : tx \in Txs}
AnyBytes == {TxBytes(tx) : tx \in AnyTx}
PqKey    == NativeKey \union CoKey

(* The page signs with its SLH-DSA-LITE key, and verifies; it sends nothing.*)
PageBlob(tx) == signTxWithSlhDsa(PageKey, TxBytes(tx))

Blobs == {Blob(f, k, BlobOf(s).sig) :
             f \in {CLASSICAL_FLAG, FLAG}, k \in AccountKey, s \in signed} \union
         UNION {{PageBlob(tx)} \union signAndExecuteSlhDsa(PageKey, TxBytes(tx)) :
                   tx \in Txs}

Hybrids == [txBytes : AnyBytes,
            classicalSignature : {BlobOf(s).sig : s \in {t \in signed : t.by \in WalletKey}},
            scheme : {k.scheme : k \in PqKey}, pqPublicKey : PqKey,
            pqSignature : {c.pqSignature : c \in cosigned}]

Wraps == [txBytes : AnyBytes, txDigest : {sha256(b) : b \in AnyBytes},
          pqSignature : {c.pqSignature : c \in cosigned}, pqPublicKey : PqKey,
          scheme : {k.scheme : k \in PqKey}, zkLoginAddress : Address]

Verified == {att \in Range(attestations) : verifyAttestation(Scanned(att)) = "true"}

(* The bindings a verifier reads from the chain.                           *)
Bindings == {Binding(att.owner, schemeName(att.scheme), att.public_key, att) :
                att \in Verified}

CoSignedBytes(key, bytes) ==
    \E c \in cosigned : c.pqPublicKey = key /\ c.txBytes = bytes

-----------------------------------------------------------------------------
(* VerifiedIffVouched: the registry stores what it is given, so it is for   *)
(* whoever scans it to tell bindings from copies.  verifyAttestation says   *)
(* yes to a live attestation exactly when the holder of its key vouched    *)
(* for that owner with that nonce and tag: not when another address         *)
(* registered the payload, when nonce and tag were cut differently, or when *)
(* the page made it, and still when it was sent to another holder.         *)
VerifiedIffVouched ==
    \A att \in Range(attestations) :
       att \in Verified <=> \E v \in vouched : Scanned(att) = Payload(v)

(* Last event about the member of a list among the first k.                *)
OnListAfter(k, n, m) ==
    \E i \in 1 .. k :
       /\ changes[i] = [type |-> "MemberAdded", allowlist |-> n, member |-> m]
       /\ \A j \in i + 1 .. k :
             changes[j] # [type |-> "MemberRemoved", allowlist |-> n, member |-> m]

(* LogTellsState: whoever replays the events of registry and allowlists     *)
(* has their state: which attestations live and whose they are, that only   *)
(* their owners revoked any, and who is on which list.                     *)
LogTellsState ==
    /\ \A id \in 1 .. FreshId :
          id \in DOMAIN attestations <=>
             /\ \E e \in Range(log) : e.type = "Registered" /\ e.attestation = id
             /\ \A e \in Range(log) : e.type = "Revoked" => e.attestation # id
    /\ \A e, f \in Range(log) : e.attestation = f.attestation => e.owner = f.owner
    /\ \A e \in Range(log) : e.attestation \in DOMAIN attestations =>
                                attestations[e.attestation].owner = e.owner
    /\ \A n \in DOMAIN lists, m \in Address :
          Contains(lists[n].members, m) <=> OnListAfter(Len(changes), n, m)

(* ServersFollow: a call that names a list passes, whatever identity it is  *)
(* for, exactly if the caller is on that list by the events the server's    *)
(* node has executed: one removed passes only as long as the node has not   *)
(* seen the removal, the owner of the list only as a member.  The shares of *)
(* an identity thus go to the members of any list, and to nobody else.     *)
ServersFollow ==
    \A s \in Server, id \in DOMAIN lists, who \in Address :
       /\ \A n \in DOMAIN lists :
             sealApprovePasses(s, id, n, who) <=> OnListAfter(view[s].seen, n, who)
       /\ Released(s, id, who) <=>
             \E n \in DOMAIN lists : OnListAfter(view[s].seen, n, who)

(* CoSigned: an envelope that passes, from whatever parts it was put        *)
(* together, carries bytes that the holder of its key co-signed; a hybrid   *)
(* one for an address was signed by the wallet of that address, and a       *)
(* wrapped one names an address the holder of the key vouched for.          *)
CoSigned ==
    /\ \A h \in Hybrids, a \in Address :
          hybridOk(h, a) =>
             /\ \E s \in signed : /\ OwnAddress(s.by) = a /\ TxBytes(s.tx) = h.txBytes
                                  /\ s.intent = TX_INTENT
             /\ CoSignedBytes(h.pqPublicKey, h.txBytes)
    /\ \A w \in Wraps, b \in Bindings :
          wrappedOk(w, b) =>
             /\ \E v \in vouched : v.key = w.pqPublicKey /\ v.addr = w.zkLoginAddress
             /\ CoSignedBytes(w.pqPublicKey, w.txBytes)

(* PreflightAgrees: the check the scripts make before sending and the       *)
(* validator's agree on every blob under the flag, once the signer asked    *)
(* for is the key's address; a blob stands for the sender or the payer of a *)
(* transaction only if that one's key signed it, as a transaction; an       *)
(* SLH-DSA-LITE blob never.                                                *)
PreflightAgrees ==
    \A tx \in AnyTx, blob \in Blobs :
       LET passes  == verifyTxSig(TxBytes(tx), blob)
           lite    == verifyTxSlhDsaSig(TxBytes(tx), blob)
       IN  \A a \in {tx.sender, tx.payer} :
              LET admitted == Admits(a, TxBytes(tx), blob)
              IN  /\ blob.flag = FLAG =>
                        (admitted <=> passes /\ a = NativeAddress(blob.key))
                  /\ admitted => \E s \in signed : /\ s.tx = tx /\ s.intent = TX_INTENT
                                                   /\ OwnAddress(s.by) = a
                  /\ lite => ~ admitted
=============================================================================
