--------------------------- MODULE PqAttestation ---------------------------
(***************************************************************************)
(* Attestations: packages/pqc/src/attestation.ts, which binds a key to an  *)
(* address, a nonce and a tag, move-tx.ts and the form of the page, which   *)
(* put one on chain, and the Move module pq_attestation::registry, which    *)
(* stores whatever it is given.                                            *)
(*                                                                         *)
(* Nonces and tags are short sequences of bytes; an address stands for its *)
(* 32 bytes.                                                               *)
(***************************************************************************)
EXTENDS PqSchemes, SequencesExt

VARIABLES attestations,   \* live Attestation objects, by id
          log             \* events, in the order of execution

registryVars == <<attestations, log>>

(* BCS: a vector is its length, then its bytes.                            *)
Vector(bytes) == <<Len(bytes)>> \o bytes

(* Faulty: the fields without their lengths.                               *)
CommitWithoutLengths(addr, nonce, tag) == <<addr>> \o nonce \o tag

CommitMessage(addr, nonce, tag) == <<addr>> \o Vector(nonce) \o Vector(tag)

buildAttestation(key, addr, nonce, tag) ==
    LET digest == sha256(CommitMessage(addr, nonce, tag))
    IN  [scheme |-> key.scheme, publicKey |-> key, signature |-> sign(key, digest),
         messageDigest |-> digest, suiAddress |-> addr, nonce |-> nonce, appTag |-> tag]

(* Faulty: the digest is taken as it comes.                                *)
VerifyDigestAsGiven(a) ==
    IF \/ a.scheme \notin SchemeName
       \/ a.publicKey.bytes # SCHEME_META[a.scheme].publicKeyBytes
       \/ a.signature.bytes # SCHEME_META[a.scheme].signatureBytes
    THEN "false"
    ELSE verify(a.scheme, a.publicKey, a.messageDigest, a.signature)

verifyAttestation(a) ==
    IF \/ a.scheme \notin SchemeName
       \/ a.publicKey.bytes # SCHEME_META[a.scheme].publicKeyBytes
       \/ a.signature.bytes # SCHEME_META[a.scheme].signatureBytes
       \/ a.messageDigest # sha256(CommitMessage(a.suiAddress, a.nonce, a.appTag))
    THEN "false"
    ELSE verify(a.scheme, a.publicKey, a.messageDigest, a.signature)

-----------------------------------------------------------------------------
(* The arguments of register.                                              *)
RegisterCall(byte, key, sig, digest, nonce, tag) ==
    [fn |-> "register", scheme |-> byte, public_key |-> key, signature |-> sig,
     message_digest |-> digest, nonce |-> nonce, app_tag |-> tag]

buildRegisterTx(a) ==
    RegisterCall(SCHEME_META[a.scheme].byte, a.publicKey, a.signature,
                 a.messageDigest, a.nonce, a.appTag)

(* The page signs with its SLH-DSA-LITE key over a framing of its own, and *)
(* stores the byte of another scheme.                                      *)
U32le(n)    == <<n % 256, n \div 256, 0, 0>>
Framed(bytes) == U32le(Len(bytes)) \o bytes

pageRegisterTx(key, wallet, nonce, tag) ==
    LET digest == sha256(<<wallet>> \o Framed(nonce) \o Framed(tag))
    IN  RegisterCall(SCHEME_META["SLH_DSA_SHA2_128S"].byte, key, sign(key, digest),
                     digest, nonce, tag)

(* What somebody who scans the chain gives to verifyAttestation.           *)
Scanned(att) ==
    [scheme |-> schemeName(att.scheme), publicKey |-> att.public_key,
     signature |-> att.signature, messageDigest |-> att.message_digest,
     suiAddress |-> att.owner, nonce |-> att.nonce, appTag |-> att.app_tag]

-----------------------------------------------------------------------------
RegistryInit == attestations = <<>> /\ log = <<>>

(* Ids are given in the order of registration.                             *)
FreshId == 1 + Cardinality({i \in DOMAIN log : log[i].type = "Registered"})

Attested(sender, call) ==
    [owner |-> sender, holder |-> sender, scheme |-> call.scheme,
     public_key |-> call.public_key, signature |-> call.signature,
     message_digest |-> call.message_digest, nonce |-> call.nonce,
     app_tag |-> call.app_tag]

Added(f, x, v) == [y \in DOMAIN f \union {x} |-> IF y = x THEN v ELSE f[y]]
Without(f, x)  == [y \in DOMAIN f \ {x} |-> f[y]]

RegisterGoes(call) == call.message_digest.bytes = 32

register(sender, call) ==
    /\ RegisterGoes(call)
    /\ attestations' = Added(attestations, FreshId, Attested(sender, call))
    /\ log' = Append(log, [type |-> "Registered", attestation |-> FreshId,
                           owner |-> sender, scheme |-> call.scheme])

(* An attestation is an owned object: only its holder can name it in a      *)
(* transaction.  It has store, so it can be sent away; owner stays.         *)
Holds(sender, call) ==
    /\ call.id \in DOMAIN attestations
    /\ attestations[call.id].holder = sender

RevokeGoes(sender, call) == attestations[call.id].owner = sender

revoke(sender, call) ==
    /\ RevokeGoes(sender, call)
    /\ attestations' = Without(attestations, call.id)
    /\ log' = Append(log, [type |-> "Revoked", attestation |-> call.id, owner |-> sender])

transferObject(call) ==
    /\ attestations' = [attestations EXCEPT ![call.id].holder = call.to]
    /\ UNCHANGED log
=============================================================================
