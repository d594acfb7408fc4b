------------------------------ MODULE PqSchemes ------------------------------
(***************************************************************************)
(* Signature schemes and ideal signatures.  The table is SCHEME_META of    *)
(* packages/pqc/src/schemes.ts; sign and verify are those of signing.ts,    *)
(* over a library that is taken to be right: a signature verifies under     *)
(* the key that made it, for the message it was made on, and nowhere else. *)
(*                                                                         *)
(* A public key is its holder and scheme; bytes are its length.  Hashes    *)
(* are taken to be injective.                                              *)
(***************************************************************************)
EXTENDS Naturals, Sequences

Meta(byte, pk, sig) ==
    [byte |-> byte, publicKeyBytes |-> pk, signatureBytes |-> sig]

SCHEME_META ==
    [ML_DSA_44          |-> Meta(16, 1312, 2420),
     ML_DSA_65          |-> Meta(17, 1952, 3309),
     ML_DSA_87          |-> Meta(18, 2592, 4627),
     SLH_DSA_SHA2_128S  |-> Meta(32, 32, 7856),
     SLH_DSA_SHA2_128F  |-> Meta(33, 32, 17088),
     SLH_DSA_SHA2_192S  |-> Meta(34, 48, 16224),
     SLH_DSA_SHA2_192F  |-> Meta(35, 48, 35664),
     SLH_DSA_SHA2_256S  |-> Meta(36, 64, 29792),
     SLH_DSA_SHA2_256F  |-> Meta(37, 64, 49856),
     SLH_DSA_SHAKE_128S |-> Meta(40, 32, 7856),
     SLH_DSA_SHAKE_128F |-> Meta(41, 32, 17088),
     SLH_DSA_SHAKE_192S |-> Meta(42, 48, 16224),
     SLH_DSA_SHAKE_192F |-> Meta(43, 48, 35664),
     SLH_DSA_SHAKE_256S |-> Meta(44, 64, 29792),
     SLH_DSA_SHAKE_256F |-> Meta(45, 64, 49856),
     FALCON_512         |-> Meta(48, 897, 666),
     FALCON_1024        |-> Meta(49, 1793, 1280)]

SchemeName == DOMAIN SCHEME_META

schemeName(byte) ==
    IF \E s \in SchemeName : SCHEME_META[s].byte = byte
    THEN CHOOSE s \in SchemeName : SCHEME_META[s].byte = byte
    ELSE "UNKNOWN"

(* The schemes noble is called for.                                        *)
ALG == {"ML_DSA_44", "ML_DSA_65", "ML_DSA_87"} \union
       {"SLH_DSA_SHA2_128S", "SLH_DSA_SHA2_128F", "SLH_DSA_SHA2_192S",
        "SLH_DSA_SHA2_192F", "SLH_DSA_SHA2_256S", "SLH_DSA_SHA2_256F"}

(* The workspace's own scheme, which is not in the table.                  *)
LITE == "SLH_DSA_LITE"

PublicKeyBytes(scheme) ==
    IF scheme = LITE THEN 64 ELSE SCHEME_META[scheme].publicKeyBytes
SignatureBytes(scheme) ==
    IF scheme = LITE THEN 5056 ELSE SCHEME_META[scheme].signatureBytes

Key(holder, scheme) ==
    [holder |-> holder, scheme |-> scheme, bytes |-> PublicKeyBytes(scheme)]

Hash(name, bytes) == [hash |-> name, of |-> bytes, bytes |-> 32]
sha256(bytes)     == Hash("sha256", bytes)
blake2b(bytes)    == Hash("blake2b", bytes)

sign(key, message) ==
    [by |-> key, on |-> message, bytes |-> SignatureBytes(key.scheme)]

Genuine(scheme, key, message, sig) ==
    /\ key.scheme = scheme
    /\ sig.by = key
    /\ sig.on = message

(* getAlg throws before the lengths are looked at.                         *)
verify(scheme, key, message, sig) ==
    IF scheme \notin ALG THEN "throws"
    ELSE IF /\ key.bytes = SCHEME_META[scheme].publicKeyBytes
            /\ sig.bytes = SCHEME_META[scheme].signatureBytes
            /\ Genuine(scheme, key, message, sig)
         THEN "true" ELSE "false"
=============================================================================
