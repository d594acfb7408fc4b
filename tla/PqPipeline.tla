----------------------------- MODULE PqPipeline -----------------------------
(***************************************************************************)
(* What lies between a program that builds a transaction and its effects:  *)
(* a full node that answers queries from a state it has caught up to, and  *)
(* validators that execute transactions against the versions of the        *)
(* objects they name.  The ledger is PqGuard's; a transaction here is one  *)
(* step, as nothing outside sees its commands.                             *)
(*                                                                         *)
(* Sui is not part of the repository: this module says how its programs    *)
(* rely on it.  Every transaction of an address takes a gas coin of that   *)
(* address as an input, so one counter stands for the versions of all it   *)
(* owns: two transactions built at one version cannot both execute, and    *)
(* one that was built before another executed never does.  An aborted      *)
(* transaction executes too, and leaves everything but versions unchanged. *)
(***************************************************************************)
EXTENDS PqGuard

CONSTANTS Call,         \* gated calls, with the arguments they are made with
          Expects,      \* the action digest each compares the witness with
          Closed,       \* the calls whose results all have drop
          DemoDigest,   \* sha256("demo-action-unlock")
          Consumed      \* the call pq_guard::consume, for that digest

ASSUME PipelineAssumption ==
    /\ Expects \in [Call -> Digest]
    /\ Closed \subseteq Call
    /\ Consumed \in Closed
    /\ Expects[Consumed] = DemoDigest

VARIABLES version,      \* of the objects each address owns
          effects,      \* the transactions submitted, and their status
          created,      \* the identity each register created, as effects tell
          node          \* what the full node has caught up to

pipelineVars == <<version, effects, created, node>>

(* The transactions of the programs: register, and unlock with one call    *)
(* that takes the witness.  at is the version they were built at.          *)
RegisterTx == [kind: {"register"}, by: Address, at: Nat,
               scheme: Scheme, pk: PubKey]
UnlockTx   == [kind: {"unlock"}, by: Address, at: Nat,
               id: ObjId, sig: Signable, call: Call]
Tx         == RegisterTx \union UnlockTx

Status == {"pending", "success", "failure"}

View == [identity : UNION {[D -> PqIdentity] : D \in SUBSET ObjId},
         version  : [Address -> Nat]]

Executed(t)  == t \in DOMAIN effects /\ effects[t] # "pending"
Succeeded(t) == t \in DOMAIN effects /\ effects[t] = "success"

(* The programs read fields of objects from the node.                      *)
Known(i)    == i \in DOMAIN node.identity
NodeKnows(t) == node.version[t.by] > t.at

(* Whether unlock and then the call go through on these identities.        *)
GoesThrough(identity, t) ==
    /\ t.id \in DOMAIN identity
    /\ identity[t.id].owner = t.by
    /\ VerifyPq(UnlockMessage(identity[t.id], t.by, t.sig.digest), t.sig)
    /\ NonceFits(identity[t.id])
    /\ Expects[t.call] = t.sig.digest
    /\ t.call \in Closed

-----------------------------------------------------------------------------
PipelineInit ==
    /\ GuardInit
    /\ version = [a \in Address |-> 0]
    /\ effects = [t \in {} |-> "pending"]
    /\ created = [t \in {} |-> Nobody]
    /\ node = [identity |-> ledger.identity, version |-> version]

(* A signed transaction reaches the validators; the same one twice is one. *)
Submitted(t) ==
    effects' = [u \in DOMAIN effects \union {t} |->
                   IF u \in DOMAIN effects THEN effects[u] ELSE "pending"]

Executes(t, status) ==
    /\ t \in DOMAIN effects
    /\ effects[t] = "pending"
    /\ t.at = version[t.by]
    /\ effects' = [effects EXCEPT ![t] = status]
    /\ version' = [version EXCEPT ![t.by] = @ + 1]
    /\ UNCHANGED <<signed, sender, held, count, node>>

(* The key may be that of another identity: it is compared with nothing.   *)
ExecuteRegister(t, i) ==
    /\ t.kind = "register"
    /\ i \notin DOMAIN ledger.identity
    /\ PkLen[t.pk] = ExpectedPkLen(t.scheme)
    /\ Executes(t, "success")
    /\ ledger' = AfterRegister(ledger, i, t.by, t.scheme, t.pk)
    /\ created' = [u \in DOMAIN created \union {t} |-> IF u = t THEN i ELSE created[u]]
    /\ work' = ledger'

ExecuteUnlock(t) ==
    /\ t.kind = "unlock"
    /\ GoesThrough(ledger.identity, t)
    /\ Executes(t, "success")
    /\ ledger' = AfterUnlock(ledger, t.id, t.sig)
    /\ work' = ledger'
    /\ UNCHANGED created

(* An input the sender does not own keeps a transaction from executing at  *)
(* all; an assertion that fails makes it abort.                            *)
ExecuteAbort(t) ==
    /\ t.kind = "unlock"
    /\ t.id \in DOMAIN ledger.identity
    /\ ledger.identity[t.id].owner = t.by
    /\ ~GoesThrough(ledger.identity, t)
    /\ Executes(t, "failure")
    /\ UNCHANGED <<ledger, work, created>>

CatchUp ==
    /\ node' = [identity |-> ledger.identity, version |-> version]
    /\ node' # node
    /\ UNCHANGED <<guardVars, version, effects, created>>

PipelineStep ==
    \/ \E t \in DOMAIN effects :
          \/ \E i \in ObjId : ExecuteRegister(t, i)
          \/ ExecuteUnlock(t)
          \/ ExecuteAbort(t)
    \/ CatchUp

PipelineTypeOK ==
    /\ TypeOK
    /\ version \in [Address -> Nat]
    /\ \A t \in DOMAIN effects : t \in Tx /\ effects[t] \in Status
    /\ created \in UNION {[D -> ObjId] : D \in SUBSET DOMAIN effects}
    /\ node \in View
=============================================================================
