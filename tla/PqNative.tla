------------------------------ MODULE PqNative ------------------------------
(***************************************************************************)
(* Accounts without a classical key: demos/localnet-pq/pq-signer.ts and     *)
(* pq-sign.ts for SLH-DSA-SHA2-128s, packages/pqc/src/local-validator.ts    *)
(* for SLH-DSA-LITE, and what the patched validator does with their        *)
(* signatures, slh_dsa_authenticator.rs.                                   *)
(*                                                                         *)
(* A signature blob is its flag, the key and the signature; total is the   *)
(* number of bytes that follow the flag.                                   *)
(***************************************************************************)
EXTENDS PqCoSign

FLAG == 7

Blob(flag, key, sig) ==
    [flag |-> flag, key |-> key, sig |-> sig, total |-> key.bytes + sig.bytes]

PERSONAL_INTENT == <<3, 0, 0>>

(* SlhDsaSigner, pqAccount and slhDsaAddress.                              *)
NativeAddress(key) == AddressOf(FLAG, key)

intentDigest(txBytes) == blake2b(TX_INTENT \o txBytes)

blobOverIntent(key, intent, message) ==
    Blob(FLAG, key, sign(key, blake2b(intent \o message)))

signTransaction(key, txBytes) == blobOverIntent(key, TX_INTENT, txBytes)

signTxWithSlhDsa(key, txBytes) ==
    Blob(FLAG, key, sign(key, intentDigest(txBytes)))

(* The length of a message goes before it.                                 *)
signPersonalMessage(key, bytes) ==
    blobOverIntent(key, PERSONAL_INTENT, <<Len(bytes)>> \o bytes)

(* The check before sending: the flag, then the rest as key and signature. *)
verifyTxSig(txBytes, blob) ==
    /\ blob.flag = FLAG
    /\ verify("SLH_DSA_SHA2_128S", blob.key, blake2b(TX_INTENT \o txBytes),
              blob.sig) = "true"

(* The same of local-validator.ts, which asks for the length.              *)
verifyTxSlhDsaSig(txBytes, blob) ==
    /\ blob.total = 64 + 5056
    /\ blob.flag = FLAG
    /\ Genuine(LITE, blob.key, intentDigest(txBytes), blob.sig)

(* What is submitted: nothing that fails the check.                        *)
signAndExecuteSlhDsa(key, txBytes) ==
    {blob \in {signTxWithSlhDsa(key, txBytes)} : verifyTxSlhDsaSig(txBytes, blob)}

-----------------------------------------------------------------------------
(* from_bytes: a blob of any other length is no authenticator.             *)
Parses(blob) == blob.flag = FLAG /\ blob.total = 32 + 7856

SlhDsaVerify(key, message, sig) ==
    /\ key.bytes = 32
    /\ sig.bytes = 7856
    /\ Genuine("SLH_DSA_SHA2_128S", key, message, sig)

(* Faulty: the key need not be the author's.                               *)
ClaimsOfAnyAuthor(author, intent, txBytes, blob) ==
    SlhDsaVerify(blob.key, blake2b(intent \o txBytes), blob.sig)

verify_claims(author, intent, txBytes, blob) ==
    /\ author = AddressOf(FLAG, blob.key)
    /\ SlhDsaVerify(blob.key, blake2b(intent \o txBytes), blob.sig)

(* A transaction is admitted on its sender's signature.                    *)
Admits(sender, txBytes, blob) ==
    \/ /\ Parses(blob)
       /\ verify_claims(sender, TX_INTENT, txBytes, blob)
    \/ /\ blob.flag = CLASSICAL_FLAG
       /\ sender = AddressOf(CLASSICAL_FLAG, blob.key)
       /\ blob.sig = classicalSign(blob.key, txBytes)
=============================================================================
