------------------------------- MODULE PqForms -------------------------------
(***************************************************************************)
(* The forms of apps/web/src/app/pqc/page.tsx that register an identity    *)
(* (RegisterPqIdentity) and unlock it (UnlockPqGuard), over PqPipeline.    *)
(* scripts/pq-unlock-testnet.ts runs the same steps.                       *)
(*                                                                         *)
(* An action is what a form does between two awaits; the button of a form  *)
(* is disabled while it is busy, but the forms of several tabs, and other  *)
(* programs with the same wallet, interleave.  Every await may reject; the *)
(* form shows the error and is ready again.                                *)
(***************************************************************************)
EXTENDS PqPipeline

CONSTANTS Form,         \* the forms open in tabs
          Wallet,       \* the address of the connected wallet
          PageKey,      \* the key cached in localStorage
          MaxClicks     \* bound: clicks on the button of a form

ASSUME FormsAssumption ==
    /\ Wallet \in Address
    /\ PageKey \in PubKey
    /\ MaxClicks \in Nat

VARIABLE form

NoTx == [kind |-> "none"]

(* out is what a form shows: nothing, or the nonce the identity is at.     *)
FormState == [pc     : {"idle", "reading", "built", "executing",
                        "shown", "failed"},
              clicks : 0 .. MaxClicks,
              id     : ObjId \union {Nobody},
              tx     : Tx \union {NoTx},
              out    : SUBSET U64]

Resting(f) == form[f].pc \in {"idle", "shown", "failed"}

Moves(f, r) == form' = [form EXCEPT ![f] = r]

-----------------------------------------------------------------------------
FormsInit ==
    form = [f \in Form |-> [pc |-> "idle", clicks |-> 0, id |-> Nobody,
                            tx |-> NoTx, out |-> {}]]

(* Both forms clear what they show when the button is clicked.             *)
Clicked(f, pc, i) ==
    [pc |-> pc, clicks |-> form[f].clicks + 1, id |-> i, tx |-> NoTx,
     out |-> {}]

ClickRegister(f) ==
    /\ Resting(f)
    /\ form[f].clicks < MaxClicks
    /\ Moves(f, [Clicked(f, "built", Nobody) EXCEPT
                    !.tx = [kind   |-> "register",
                            by     |-> Wallet,
                            at     |-> node.version[Wallet],
                            scheme |-> SLH_DSA_SHA2_128S,
                            pk     |-> PageKey]])
    /\ UNCHANGED <<guardVars, pipelineVars>>

(* The id is typed, or taken from localStorage when the page was loaded.   *)
ClickUnlock(f, i) ==
    /\ Resting(f)
    /\ form[f].clicks < MaxClicks
    /\ Moves(f, Clicked(f, "reading", i))
    /\ UNCHANGED <<guardVars, pipelineVars>>

(* The nonce the full node reports; 0 if it knows no such object.          *)
ReadNonce(i) == IF Known(i) THEN node.identity[i].nonce ELSE 0

(* Sign for the nonce read, and lay out the transaction.                   *)
SignUnlock(f) ==
    /\ form[f].pc = "reading"
    /\ LET i == form[f].id
           s == [pk |-> PageKey, sender |-> Wallet, nonce |-> ReadNonce(i),
                 digest |-> DemoDigest]
       IN  /\ s \in Signable
           /\ signed' = signed \union {s}
           /\ Moves(f, [form[f] EXCEPT
                           !.pc = "built",
                           !.tx = [kind |-> "unlock", by |-> Wallet,
                                   at |-> node.version[Wallet], id |-> i,
                                   sig |-> s, call |-> Consumed]])
    /\ UNCHANGED <<ledger, sender, work, held, count, pipelineVars>>

(* signAndExecute: the wallet runs the transaction dry on the node's state *)
(* to find a gas budget, asks the user, and submits it.                    *)
DryRun(t) == t.kind = "unlock" => GoesThrough(node.identity, t)

Send(f) ==
    /\ form[f].pc = "built"
    /\ DryRun(form[f].tx)
    /\ Submitted(form[f].tx)
    /\ Moves(f, [form[f] EXCEPT !.pc = "executing"])
    /\ UNCHANGED <<guardVars, version, created, node>>

(* Faulty: waitForTransaction is left out.                                 *)
NoWait(t) == Executed(t)

(* signAndExecute and waitForTransaction resolve once the transaction has  *)
(* executed, whatever its status, and the node has indexed it.             *)
Waited(t) == Executed(t) /\ NodeKnows(t)

Show(f) ==
    /\ form[f].pc = "executing"
    /\ Waited(form[f].tx)
    /\ Moves(f, [form[f] EXCEPT
                    !.pc = "shown",
                    !.out = IF form[f].tx.kind = "unlock"
                            THEN {ReadNonce(form[f].id)} ELSE {}])
    /\ UNCHANGED <<guardVars, pipelineVars>>

(* A call rejects, the user refuses, or waitForTransaction times out.      *)
ShowError(f) ==
    /\ form[f].pc \in {"reading", "built", "executing"}
    /\ Moves(f, [form[f] EXCEPT !.pc = "failed", !.tx = NoTx])
    /\ UNCHANGED <<guardVars, pipelineVars>>

FormsStep ==
    \/ \E f \in Form, i \in ObjId : ClickUnlock(f, i)
    \/ \E f \in Form : ClickRegister(f) \/ SignUnlock(f) \/ Send(f) \/ Show(f)
                       \/ ShowError(f)

FormsTypeOK == form \in [Form -> FormState]
=============================================================================
