------------------------------ MODULE PqSponsor ------------------------------
(***************************************************************************)
(* Gas paid by a sponsor: packages/pqc/src/sponsor.ts (the client's submit *)
(* and the server's sponsorPqOperation) and apps/cli/src/sponsor-server.ts *)
(* (the HTTP server between them), over PqPipeline.                        *)
(*                                                                         *)
(* The user signs an unlock message for the sponsor's address, at the      *)
(* nonce a full node reports, and posts it with the call to make.  The     *)
(* server builds unlock followed by the call, signs and executes it, and   *)
(* answers with the status of the effects.  Handlers interleave at their   *)
(* awaits; requests and answers get lost; submit does not retry, its       *)
(* caller may, with the same request or, after a "failure", with a new     *)
(* signature; the server may restart.                                      *)
(***************************************************************************)
EXTENDS PqPipeline

CONSTANTS Client,       \* the programs that call submit
          Sponsor,      \* the address of the server's key
          Intent,       \* what the users may want done
          Splices,      \* calls whose arguments sponsorPqOperation can lay out
          Allowed,      \* calls whose target is on the server's allowlist
          MaxAttempts   \* bound: calls of submit per client

(* What a user wants: a call, and the digest to sign for it.               *)
Intents == [id: ObjId, digest: Digest, call: Call]

ASSUME SponsorAssumption ==
    /\ Sponsor \in Address
    /\ Intent \subseteq Intents
    /\ Splices \subseteq Call
    /\ Allowed \subseteq Call
    /\ MaxAttempts \in Nat

VARIABLES client,       \* the callers of submit
          handler       \* the server's requests in progress

sponsorVars == <<client, handler>>

(* SponsoredOpRequest; the action digest is the one signed.                *)
Request == [id: ObjId, sig: Signable, call: Call]
Attempt == Client \X (1 .. MaxAttempts)

None == [kind |-> "none"]

(* A client has no request, has one it has not heard of, waits for the     *)
(* answer, has got an exception from submit, or knows the answer.          *)
ClientState  == [pc      : {"idle", "ready", "waiting", "threw", "told"},
                 req     : Request \union {None},
                 attempt : 0 .. MaxAttempts,
                 told    : {"nothing", "success", "failure"}]

(* The awaits of a handler: readJson, tx.build, executeTransactionBlock.   *)
HandlerState == [pc     : {"none", "reading", "building", "executing",
                           "answered", "gone"},
                 req    : Request \union {None},
                 tx     : UnlockTx \union {None},
                 answer : {"nothing", "success", "failure", "error"}]

Busy(h) == handler[h].pc \in {"reading", "building", "executing"}

-----------------------------------------------------------------------------
SponsorInit ==
    /\ client = [c \in Client |-> [pc |-> "idle", req |-> None, attempt |-> 0,
                                   told |-> "nothing"]]
    /\ handler = [h \in Attempt |-> [pc |-> "none", req |-> None, tx |-> None,
                                     answer |-> "nothing"]]

(* Faulty: the signature is for the nonce after the unlock.                *)
SignedForNext(by, i, digest) ==
    [UnlockMessage(node.identity[i], by, digest) EXCEPT !.nonce = @ + 1]

(* buildUnlockMessageBytes and the signature over it.                      *)
SignedFor(by, i, digest) ==
    UnlockMessage(node.identity[i], by, digest)

(* A client that was told "failure" may read the nonce again.              *)
Prepare(c, intent) ==
    /\ \/ client[c].pc = "idle"
       \/ client[c].told = "failure"
    /\ Known(intent.id)
    /\ LET s == SignedFor(Sponsor, intent.id, intent.digest)
       IN  /\ s \in Signable
           /\ signed' = signed \union {s}
           /\ client' = [client EXCEPT
                 ![c] = [@ EXCEPT !.pc = "ready", !.told = "nothing",
                                  !.req = [id |-> intent.id, sig |-> s,
                                           call |-> intent.call]]]
    /\ UNCHANGED <<handler, ledger, sender, work, held, count, pipelineVars>>

(* submit, the first time or again after it threw.                         *)
Submit(c) ==
    /\ client[c].pc \in {"ready", "threw"}
    /\ client[c].attempt < MaxAttempts
    /\ LET n == client[c].attempt + 1
       IN  /\ client' = [client EXCEPT
                 ![c] = [@ EXCEPT !.pc = "waiting", !.attempt = n]]
           /\ handler' = [handler EXCEPT
                 ![<<c, n>>] = [pc |-> "reading", req |-> client[c].req,
                                tx |-> None, answer |-> "nothing"]]
    /\ UNCHANGED <<guardVars, pipelineVars>>

(* The handler of the client's last attempt.                               *)
Mine(c) == handler[<<c, client[c].attempt>>]

(* submit returns the body of a 200 as it is.                              *)
Hear(c) ==
    /\ client[c].pc = "waiting"
    /\ Mine(c).answer \in {"success", "failure"}
    /\ client' = [client EXCEPT
          ![c] = [@ EXCEPT !.pc = "told", !.told = Mine(c).answer]]
    /\ UNCHANGED <<handler, guardVars, pipelineVars>>

(* The answer is not ok, or the connection fails, on the way there or back.*)
Throw(c) ==
    /\ client[c].pc = "waiting"
    /\ client' = [client EXCEPT ![c].pc = "threw"]
    /\ UNCHANGED <<handler, guardVars, pipelineVars>>

-----------------------------------------------------------------------------
Over(pc, answer) == [pc |-> pc, req |-> None, tx |-> None, answer |-> answer]

Answered(h, answer) ==
    handler' = [handler EXCEPT ![h] = Over("answered", answer)]

(* 403 off the allowlist; 400 if an argument has a type that is not known  *)
(* or the place of the witness lies outside the argument list.             *)
Refuse(h) ==
    /\ handler[h].pc = "reading"
    /\ handler[h].req.call \notin Allowed \intersect Splices
    /\ Answered(h, "error")
    /\ UNCHANGED <<client, guardVars, pipelineVars>>

Accept(h) ==
    /\ handler[h].pc = "reading"
    /\ handler[h].req.call \in Allowed \intersect Splices
    /\ handler' = [handler EXCEPT ![h].pc = "building"]
    /\ UNCHANGED <<client, guardVars, pipelineVars>>

(* The transaction sponsorPqOperation makes of a request, once the full    *)
(* node has resolved the versions of the identity and of the gas coin.     *)
SponsoredTx(req) ==
    [kind |-> "unlock", by |-> Sponsor, at |-> node.version[Sponsor],
     id |-> req.id, sig |-> req.sig, call |-> req.call]

Build(h) ==
    /\ handler[h].pc = "building"
    /\ Known(handler[h].req.id)
    /\ LET t == SponsoredTx(handler[h].req)
       IN  /\ Submitted(t)
           /\ handler' = [handler EXCEPT
                 ![h] = [@ EXCEPT !.pc = "executing", !.tx = t]]
    /\ UNCHANGED <<client, guardVars, version, created, node>>

(* Faulty: an answer as soon as the transaction is submitted.              *)
StatusOfSubmission(t) == IF Executed(t) THEN effects[t] ELSE "success"

(* result.effects.status.status, which every executed transaction has.     *)
StatusOf(t) == effects[t]

Finish(h) ==
    /\ handler[h].pc = "executing"
    /\ StatusOf(handler[h].tx) # "pending"
    /\ Answered(h, StatusOf(handler[h].tx))
    /\ UNCHANGED <<client, guardVars, pipelineVars>>

(* 400: the node or the validators reject the call, or nothing comes back; *)
(* the transaction may still execute.                                      *)
RpcFails(h) ==
    /\ handler[h].pc \in {"building", "executing"}
    /\ Answered(h, "error")
    /\ UNCHANGED <<client, guardVars, pipelineVars>>

ServerRestarts ==
    /\ \E h \in Attempt : Busy(h)
    /\ handler' = [h \in Attempt |-> IF Busy(h)
                                     THEN Over("gone", "nothing")
                                     ELSE handler[h]]
    /\ UNCHANGED <<client, guardVars, pipelineVars>>

Handle(h) == Refuse(h) \/ Accept(h) \/ Build(h) \/ Finish(h) \/ RpcFails(h)

SponsorStep ==
    \/ \E c \in Client, intent \in Intent : Prepare(c, intent)
    \/ \E c \in Client : Submit(c) \/ Hear(c) \/ Throw(c)
    \/ \E h \in Attempt : Handle(h)
    \/ ServerRestarts

SponsorTypeOK ==
    /\ client \in [Client -> ClientState]
    /\ handler \in [Attempt -> HandlerState]
=============================================================================
