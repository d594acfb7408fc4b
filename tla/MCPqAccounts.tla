---------------------------- MODULE MCPqAccounts ----------------------------
(***************************************************************************)
(* An instance of PqAccounts for TLC: one account of the patched validator, *)
(* one wallet, one co-signing key, one key server.                         *)
(***************************************************************************)
EXTENDS PqAccounts, TLC

MCNativeKey == {Key("nat", "SLH_DSA_SHA2_128S")}
MCWalletKey == {[holder |-> "wal", scheme |-> "ED25519", bytes |-> 32]}
MCCoKey     == {Key("pat", "ML_DSA_65")}
MCPageKey   == Key("wal", LITE)

(* Without their lengths the two would be the same bytes.                  *)
MCBound == [nonce |-> <<1>>, tag |-> <<1, 1>>]
MCLabel == {[nonce |-> <<1>>, tag |-> <<1, 1>>], [nonce |-> <<1, 1>>, tag |-> <<1>>]}
=============================================================================
