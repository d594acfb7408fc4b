------------------------------ MODULE PqScripts ------------------------------
(***************************************************************************)
(* The command-line scripts over PqPipeline: scripts/pq-unlock-testnet.ts  *)
(* registers an identity, unless it is given one, unlocks it and checks    *)
(* that its nonce advanced by one; scripts/pq-unlock-dryrun.ts stops at a  *)
(* dry run of the unlock.                                                  *)
(*                                                                         *)
(* A run of a script is a process of its own and ends once.  Its key comes *)
(* from PQ_SEED_HEX or is fresh, its signer is the wallet of the CLI.      *)
(***************************************************************************)
EXTENDS PqPipeline

CONSTANTS Process,      \* runs of the scripts
          Account,      \* the active address of the CLI
          SeedKey       \* the key each run derives from its seed

ASSUME ScriptsAssumption ==
    /\ Account \in Address
    /\ SeedKey \in [Process -> PubKey]

VARIABLE script

Nothing == [kind |-> "none"]

(* nonce is the one read before signing.  A run ends "ok", "failed", or    *)
(* with the complaint that the nonce did not advance by 1; one of the dry  *)
(* run ends "measured".                                                    *)
ScriptState == [pc    : {"start", "registering", "reading", "unlocking",
                         "landed", "ok", "notByOne", "measured", "failed"},
                id    : ObjId \union {Nobody},
                tx    : Tx \union {Nothing},
                nonce : U64]

Ended(pc, nonce) ==
    [pc |-> pc, id |-> Nobody, tx |-> Nothing, nonce |-> nonce]

Goes(p, r) == script' = [script EXCEPT ![p] = r]

-----------------------------------------------------------------------------
ScriptsInit ==
    script = [p \in Process |-> [pc |-> "start", id |-> Nobody,
                                 tx |-> Nothing, nonce |-> 0]]

(* PQ_IDENTITY_ID names an identity.                                       *)
Reuse(p, i) ==
    /\ script[p].pc = "start"
    /\ Goes(p, [script[p] EXCEPT !.pc = "reading", !.id = i])
    /\ UNCHANGED <<guardVars, pipelineVars>>

RegisterFresh(p) ==
    /\ script[p].pc = "start"
    /\ LET t == [kind |-> "register", by |-> Account,
                 at |-> node.version[Account],
                 scheme |-> SLH_DSA_SHA2_128S, pk |-> SeedKey[p]]
       IN  /\ Submitted(t)
           /\ Goes(p, [script[p] EXCEPT !.pc = "registering", !.tx = t])
    /\ UNCHANGED <<guardVars, version, created, node>>

(* The id comes from the effects, and the node is not waited for.          *)
TakeId(p, i) ==
    /\ script[p].pc = "registering"
    /\ Succeeded(script[p].tx)
    /\ created[script[p].tx] = i
    /\ Goes(p, [script[p] EXCEPT !.pc = "reading", !.id = i])
    /\ UNCHANGED <<guardVars, pipelineVars>>

(* The nonce the node reports, 0 if it does not know the identity.         *)
NonceOf(i) == IF Known(i) THEN node.identity[i].nonce ELSE 0

UnlockSigned(p) ==
    [pk |-> SeedKey[p], sender |-> Account, nonce |-> NonceOf(script[p].id),
     digest |-> DemoDigest]

(* Sign and submit; nothing runs dry, the gas budget is set.  The identity *)
(* has to be known by now for its version to be resolved.                  *)
Unlocks(p) ==
    /\ script[p].pc = "reading"
    /\ Known(script[p].id)
    /\ LET s == UnlockSigned(p)
           t == [kind |-> "unlock", by |-> Account,
                 at |-> node.version[Account], id |-> script[p].id,
                 sig |-> s, call |-> Consumed]
       IN  /\ s \in Signable
           /\ signed' = signed \union {s}
           /\ Submitted(t)
           /\ Goes(p, [script[p] EXCEPT !.pc = "unlocking", !.tx = t,
                                        !.nonce = s.nonce])
    /\ UNCHANGED <<ledger, sender, work, held, count, version, created, node>>

(* pq-unlock-dryrun.ts compares the keys first.                            *)
Measure(p) ==
    /\ script[p].pc = "reading"
    /\ Known(script[p].id)
    /\ node.identity[script[p].id].pk = SeedKey[p]
    /\ UnlockSigned(p) \in Signable
    /\ signed' = signed \union {UnlockSigned(p)}
    /\ Goes(p, Ended("measured", 0))
    /\ UNCHANGED <<ledger, sender, work, held, count, pipelineVars>>

(* signAndExecuteTransaction resolves; the script exits unless the status  *)
(* is "success".                                                           *)
Lands(p) ==
    /\ script[p].pc = "unlocking"
    /\ Executed(script[p].tx)
    /\ Goes(p, IF Succeeded(script[p].tx)
               THEN [script[p] EXCEPT !.pc = "landed"] ELSE Ended("failed", 0))
    /\ UNCHANGED <<guardVars, pipelineVars>>

(* Faulty: waitForTransaction is left out.                                 *)
IndexedAlways(t) == TRUE

(* waitForTransaction.                                                     *)
Indexed(t) == NodeKnows(t)

CheckNonce(p) ==
    /\ script[p].pc = "landed"
    /\ Indexed(script[p].tx)
    /\ Goes(p, Ended(IF NonceOf(script[p].id) = script[p].nonce + 1
                     THEN "ok" ELSE "notByOne", script[p].nonce))
    /\ UNCHANGED <<guardVars, pipelineVars>>

(* Any await may reject.                                                   *)
Exits(p) ==
    /\ script[p].pc \in {"start", "registering", "reading", "unlocking", "landed"}
    /\ Goes(p, Ended("failed", 0))
    /\ UNCHANGED <<guardVars, pipelineVars>>

ScriptsStep ==
    \E p \in Process :
        \/ \E i \in ObjId : Reuse(p, i) \/ TakeId(p, i)
        \/ RegisterFresh(p) \/ Unlocks(p) \/ Measure(p) \/ Lands(p)
        \/ CheckNonce(p) \/ Exits(p)

ScriptsTypeOK == script \in [Process -> ScriptState]
=============================================================================
