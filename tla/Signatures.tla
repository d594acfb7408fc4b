----------------------------- MODULE Signatures -----------------------------
(***************************************************************************)
(* The three hash-based schemes of the repository between a signer, a      *)
(* channel and a verifier: a key pair is made, a message signed, signature *)
(* or message may change on the way, and the on-chain verifier looks at    *)
(* what arrives.  Signer and verifier are separate programs.  Where both    *)
(* compute the same thing one definition stands for both; they differ in   *)
(* that the signer builds whole chains and trees, and the verifier only    *)
(* climbs from the parts it is given.  The verifiers off chain (LiteRef,   *)
(* FipsRef) share with them only the hash, its addresses and the sizes.    *)
(*                                                                         *)
(* A message is a context, empty except for 128S, and a text.  What WOTS   *)
(* signs is a digest, a text of one value.                                 *)
(***************************************************************************)
EXTENDS Naturals, Sequences

CONSTANTS N, LG_W, LEN_2, H_PRIME, D, A, K, A128, MAX_CTX, Sha(_),
          Seed,             \* seeds of key pairs
          Messages(_),      \* the messages a key of each scheme signs
          Redirected(_)     \* the messages a signature may arrive with

Lite == INSTANCE SlhDsaLite
Fips == INSTANCE SlhDsa128s WITH A <- A128

LiteRef == INSTANCE SlhDsaLiteRef
FipsRef == INSTANCE SlhDsa128sRef WITH A <- A128

(* A digit's bits divide a byte's, the checksum has room for the sum, and  *)
(* the digest of LITE for the indices.                                     *)
ASSUME SignaturesAssumption ==
    /\ N \in Nat \ {0} /\ LG_W \in {1, 2, 4, 8} /\ LEN_2 \in Nat
    /\ Lite!LEN_1 * (Lite!W - 1) < 2^(LEN_2 * LG_W)
    /\ H_PRIME \in Nat /\ D \in Nat \ {0} /\ A \in Nat /\ A128 \in Nat /\ K \in Nat \ {0}
    /\ (K * A + 7) \div 8 + (D * H_PRIME + 7) \div 8 <= N
    /\ \A m \in Messages("128S") : Len(m.ctx) <= MAX_CTX
    /\ \A m \in Messages("WOTS") \union Redirected("WOTS") :
          m = [ctx |-> <<>>, text |-> <<m.text[1]>>] /\ m.text[1] \in Lite!Value

VARIABLES key,          \* the key pair and its scheme
          signed,       \* history: what the signer made
          message,      \* what arrives
          signature,
          verdict       \* what the verifier says

vars == <<key, signed, message, signature, verdict>>

Scheme  == {"WOTS", "LITE", "128S"}
Nothing == <<>>

KeyPair(scheme, seed) ==
    CASE scheme = "WOTS" -> Lite!WotsKeygen(seed + 1, seed, Lite!BuildAdrs(0, 0, 0, 5))
      [] scheme = "LITE" -> Lite!LiteKeygen(seed, seed + 1)
      [] scheme = "128S" -> Fips!Keygen128s(seed, seed + 1)

SignatureOn(k, m) ==
    CASE k.scheme = "WOTS" -> Lite!WotsSign(k.pair, m.text[1])
      [] k.scheme = "LITE" -> Lite!LiteSign(k.pair.sk, m.text)
      [] k.scheme = "128S" -> Fips!Sign128s(k.pair.sk, m.text, m.ctx, k.seed + 2)

Verdict(k, m, sig) ==
    CASE k.scheme = "WOTS" -> Lite!WotsVerify(k.pair.seed, k.pair.adrs, m.text[1],
                                              sig, k.pair.pk)
      [] k.scheme = "LITE" -> Lite!LiteVerify(k.pair.pk, m.text, sig)
      [] k.scheme = "128S" -> Fips!VerifyWithContext(k.pair.pk, m.text, sig, m.ctx)

(* What the TypeScript verifiers say of the same input.                    *)
Reference(k, m, sig) ==
    CASE k.scheme = "WOTS" -> LiteRef!wotsVerify(k.pair.seed, k.pair.adrs, m.text[1],
                                                 sig, k.pair.pk)
      [] k.scheme = "LITE" -> LiteRef!PackedVerify(k.pair.pk, m.text, sig)
      [] k.scheme = "128S" -> FipsRef!verify(k.pair.pk, m.text, sig, m.ctx)

SignatureLength(scheme) ==
    CASE scheme = "WOTS" -> Lite!LEN
      [] scheme = "LITE" -> Lite!SIG_LEN
      [] scheme = "128S" -> Fips!SIG_LEN

-----------------------------------------------------------------------------
Init ==
    /\ key = Nothing
    /\ signed = Nothing
    /\ message = Nothing
    /\ signature = Nothing
    /\ verdict = "none"

Generate(scheme, seed) ==
    /\ key = Nothing
    /\ key' = [scheme |-> scheme, seed |-> seed, pair |-> KeyPair(scheme, seed)]
    /\ UNCHANGED <<signed, message, signature, verdict>>

Sign(m) ==
    /\ signed = Nothing
    /\ message' = m
    /\ signature' = SignatureOn(key, m)
    /\ signed' = [message |-> m, signature |-> SignatureOn(key, m)]
    /\ UNCHANGED <<key, verdict>>

Untouched == message = signed.message /\ signature = signed.signature

InTransit == signed # Nothing /\ verdict = "none" /\ Untouched

AlterPart(i) ==
    /\ InTransit
    /\ signature' = [signature EXCEPT ![i] = (@ + 1) % 2^(8 * N)]
    /\ UNCHANGED <<key, signed, message, verdict>>

ChangeLength ==
    /\ InTransit
    /\ \/ signature' = Append(signature, 0)
       \/ signature' = SubSeq(signature, 1, Len(signature) - 1)
    /\ UNCHANGED <<key, signed, message, verdict>>

Redirect(m) ==
    /\ InTransit
    /\ m # message
    /\ message' = m
    /\ UNCHANGED <<key, signed, signature, verdict>>

Verify ==
    /\ signed # Nothing
    /\ verdict = "none"
    /\ verdict' = Verdict(key, message, signature)
    /\ UNCHANGED <<key, signed, message, signature>>

Next ==
    \/ \E scheme \in Scheme, seed \in Seed : Generate(scheme, seed)
    \/ key # Nothing /\ \E m \in Messages(key.scheme) : Sign(m)
    \/ \E i \in 1 .. Len(signature) : AlterPart(i)
    \/ ChangeLength
    \/ key # Nothing /\ \E m \in Redirected(key.scheme) : Redirect(m)
    \/ Verify

Spec == Init /\ [][Next]_vars

-----------------------------------------------------------------------------
(* Signatures are sequences of values of the length the verifier expects.  *)
TypeOK ==
    /\ verdict \in {"none", "true", "false", "abort"}
    /\ signature \in Seq(Lite!Value)
    /\ signed # Nothing =>
          Len(signed.signature) = SignatureLength(key.scheme)

(* The verifiers accept what the signers make, whichever leaves the digest  *)
(* picks.                                                                  *)
RoundTrip == verdict # "none" /\ Untouched => verdict = "true"

(* They depend on every part of a signature, on its length, on the message *)
(* and on the context: what was changed on the way is not accepted.        *)
Rejects == verdict # "none" /\ ~Untouched => verdict # "true"

(* Before submitting, clients check a signature with a verifier written in *)
(* TypeScript; the transaction is decided by one written in Move.  Both    *)
(* accept the same signatures, altered ones and redirected ones included.  *)
Agree ==
    verdict # "none" => (verdict = "true") = Reference(key, message, signature)

(* What the checksum is for: of two digests, the chain positions of one    *)
(* never all lie at or above those of the other, so a signature cannot be  *)
(* carried over by climbing on.                                            *)
NoChainDominates ==
    signed # Nothing /\ key.scheme = "WOTS" /\ message # signed.message =>
        LET d == Lite!MsgToChains(signed.message.text[1])
            e == Lite!MsgToChains(message.text[1])
        IN  \E i \in DOMAIN d : e[i] < d[i]
=============================================================================
