----------------------------- MODULE MCPqGuard -----------------------------
(***************************************************************************)
(* An instance of PqGuard for TLC: two addresses, two identities, three    *)
(* keys (two of the LITE length, one of the 128s length), and the messages *)
(* that matter: two actions at one nonce, a run of nonces up to the u64    *)
(* bound, a second key, and the same key under another sender.             *)
(***************************************************************************)
EXTENDS PqGuard, TLC

CONSTANTS a1, a2, o1, o2, kA, kB, kC, d1, d2

MCAddress == {a1, a2}
MCObjId   == {o1, o2}
MCPubKey  == {kA, kB, kC}
MCPkLen   == (kA :> 64) @@ (kB :> 64) @@ (kC :> 32)
MCDigest  == {d1, d2}

Msg(pk, a, n, d) == [pk |-> pk, sender |-> a, nonce |-> n, digest |-> d]

MCSignable == {Msg(kA, a1, 0, d1), Msg(kA, a1, 0, d2), Msg(kA, a1, 1, d1),
               Msg(kA, a1, 2, d1), Msg(kB, a1, 0, d1), Msg(kC, a2, 0, d2),
               Msg(kA, a2, 0, d1)}
=============================================================================
