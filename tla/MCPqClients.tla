---------------------------- MODULE MCPqClients ----------------------------
(***************************************************************************)
(* An instance of PqClients for TLC: one wallet and one key, which the     *)
(* sponsor's server, the page and the script share, and two identities.    *)
(***************************************************************************)
EXTENDS PqClients, TLC

CONSTANTS s1, o1, o2, kA, d1, d2, c1, f1, p1

MCAddress == {s1}
MCObjId   == {o1, o2}
MCPubKey  == {kA}
MCPkLen   == kA :> 32
MCDigest  == {d1, d2}
MCClient  == {c1}
MCForm    == {f1}
MCProcess == {p1}
MCSeedKey == p1 :> kA

(* consume, for which the sponsor's users sign what form and script sign;  *)
(* withdraw, which returns a coin that sponsorPqOperation does not         *)
(* transfer; and a call that the server does not allow.                    *)
MCCall    == {"consume", "withdraw", "unlisted"}
MCExpects == [c \in MCCall |-> IF c = "consume" THEN d1 ELSE d2]
MCClosed  == MCCall \ {"withdraw"}
MCAllowed == MCCall \ {"unlisted"}
MCSplices == MCCall
MCIntent  == {[id |-> o1, digest |-> MCExpects[c], call |-> c] : c \in MCCall}
MCSignable == [pk: MCPubKey, sender: MCAddress, nonce: 0 .. 2,
               digest: MCDigest]
=============================================================================
