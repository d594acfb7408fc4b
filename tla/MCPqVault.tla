----------------------------- MODULE MCPqVault -----------------------------
(***************************************************************************)
(* An instance of PqVault for TLC: the owner a1 signs two alternatives for *)
(* its first nonce and one withdrawal for the next; a2 signs a withdrawal  *)
(* from a vault that may not be its own.                                   *)
(***************************************************************************)
EXTENDS PqVault, TLC

CONSTANTS a1, a2, o1, o2, kA, kB, v1

MCAddress == {a1, a2}
MCObjId   == {o1, o2}
MCPubKey  == {kA, kB}
MCPkLen   == (kA :> 64) @@ (kB :> 32)
MCVaultId == {v1}
MCFunds   == (a1 :> 2) @@ (a2 :> 0)
MCU64Max  == 2
MCDigest  == {WithdrawActionDigest(v, to, amount) :
                 v \in MCVaultId, to \in MCAddress, amount \in 0 .. MCU64Max}

Msg(pk, a, n, to, amount) ==
    [pk |-> pk, sender |-> a, nonce |-> n,
     digest |-> WithdrawActionDigest(v1, to, amount)]

Symmetry == Permutations(MCObjId)

MCSignable == {Msg(kA, a1, 0, a2, 1), Msg(kA, a1, 0, a1, 2),
               Msg(kA, a1, 1, a1, 1), Msg(kB, a2, 0, a2, 1)}
=============================================================================
