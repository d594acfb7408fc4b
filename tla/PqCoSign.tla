------------------------------ MODULE PqCoSign ------------------------------
(***************************************************************************)
(* Transactions that carry a post-quantum signature beside a classical     *)
(* one: packages/pqc/src/hybrid.ts, and zk-login-wrap.ts, where the key is  *)
(* the one an attestation binds to the zkLogin address.                    *)
(***************************************************************************)
EXTENDS PqSchemes

TX_INTENT == <<0, 0, 0>>

(* The signatures the chain knows: signTransaction of a classical signer.  *)
classicalSign(key, txBytes) ==
    [by |-> key, on |-> blake2b(TX_INTENT \o txBytes), bytes |-> 64]

(* The address of a key: scheme flag and key, hashed.                      *)
AddressOf(flag, key) == blake2b(<<flag, key>>)

CLASSICAL_FLAG == 0

-----------------------------------------------------------------------------
hybridSign(wallet, key, txBytes) ==
    [txBytes |-> txBytes, classicalSignature |-> classicalSign(wallet, txBytes),
     scheme |-> key.scheme, pqPublicKey |-> key,
     pqSignature |-> sign(key, sha256(txBytes))]

(* verifyTransactionSignature of the SDK finds the key, or throws.         *)
ClassicalOk(h, expected) ==
    /\ h.classicalSignature.on = blake2b(TX_INTENT \o h.txBytes)
    /\ AddressOf(CLASSICAL_FLAG, h.classicalSignature.by) = expected

(* Faulty: the address of the classical signer does not matter.            *)
HybridOkAnySigner(h, expected) ==
    /\ h.classicalSignature.on = blake2b(TX_INTENT \o h.txBytes)
    /\ verify(h.scheme, h.pqPublicKey, sha256(h.txBytes), h.pqSignature) = "true"

hybridOk(h, expected) ==
    /\ ClassicalOk(h, expected)
    /\ verify(h.scheme, h.pqPublicKey, sha256(h.txBytes), h.pqSignature) = "true"

-----------------------------------------------------------------------------
Binding(addr, scheme, key, attestation) ==
    [zkLoginAddress |-> addr, scheme |-> scheme, pqPublicKey |-> key,
     attestation |-> attestation]

pqWrapZkLoginTx(key, zkLoginAddress, txBytes) ==
    [txBytes |-> txBytes, txDigest |-> sha256(txBytes),
     pqSignature |-> sign(key, sha256(txBytes)), pqPublicKey |-> key,
     scheme |-> key.scheme, zkLoginAddress |-> zkLoginAddress]

Pinned(w, b) ==
    /\ b.zkLoginAddress = w.zkLoginAddress
    /\ b.scheme = w.scheme
    /\ b.pqPublicKey = w.pqPublicKey

(* Faulty: the digest of the envelope is verified, whatever it is of.      *)
WrappedOkDigestAsGiven(w, b) ==
    /\ Pinned(w, b)
    /\ verify(w.scheme, w.pqPublicKey, w.txDigest, w.pqSignature) = "true"

wrappedOk(w, b) ==
    /\ Pinned(w, b)
    /\ w.txDigest = sha256(w.txBytes)
    /\ verify(w.scheme, w.pqPublicKey, sha256(w.txBytes), w.pqSignature) = "true"
=============================================================================
