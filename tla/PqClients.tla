------------------------------ MODULE PqClients ------------------------------
(***************************************************************************)
(* The clients of pq_guard together: users behind a sponsor, users of the  *)
(* web page and runs of the scripts, with one ledger, one full node and,   *)
(* where their wallets are the same, one gas coin.                         *)
(***************************************************************************)
EXTENDS PqSponsor, PqForms, PqScripts

vars == <<guardVars, pipelineVars, sponsorVars, form, script>>

Init == PipelineInit /\ SponsorInit /\ FormsInit /\ ScriptsInit

Next ==
    \/ PipelineStep /\ UNCHANGED <<sponsorVars, form, script>>
    \/ SponsorStep /\ UNCHANGED <<form, script>>
    \/ FormsStep /\ UNCHANGED <<sponsorVars, script>>
    \/ ScriptsStep /\ UNCHANGED <<sponsorVars, form>>

(* Nothing says that transactions execute, that the node catches up, or    *)
(* that anybody tries again.                                               *)
Spec == Init /\ [][Next]_vars

-----------------------------------------------------------------------------
ClientsTypeOK ==
    PipelineTypeOK /\ SponsorTypeOK /\ FormsTypeOK /\ ScriptsTypeOK

(* What a transaction was made for.                                        *)
RequestOf(t) == [id |-> t.id, sig |-> t.sig, call |-> t.call]

(* The transactions by which a signature unlocked an identity.             *)
UnlocksOf(i, s) ==
    {t \in DOMAIN effects : Succeeded(t) /\ t.kind = "unlock" /\ t.id = i /\ t.sig = s}

(* A client that submit tells "success" has had its operation performed,   *)
(* once, on the identity it named: through lost answers, restarts of the   *)
(* server, duplicated requests and a full node that lags, and whoever      *)
(* else holds the key or has registered it again.                          *)
SuccessIsTrue ==
    \A c \in Client :
        client[c].told = "success" =>
            LET req == client[c].req
            IN  \E t \in UnlocksOf(req.id, req.sig) :
                   /\ UnlocksOf(req.id, req.sig) = {t}
                   /\ RequestOf(t) = req

(* The page registers its key again on every click, and the script the key *)
(* of its seed on every run.  A signature then serves several identities,  *)
(* but each only once: no more unlocks than there are identities with its  *)
(* key that have left its nonce behind.                                    *)
Outgrown(l, s) ==
    {i \in DOMAIN l.identity :
        /\ l.identity[i].owner = s.sender
        /\ l.identity[i].pk = s.pk
        /\ s.nonce < l.identity[i].nonce}

UsedOncePerIdentity ==
    \A s \in Signable : ledger.uses[s] <= Cardinality(Outgrown(ledger, s))

(* Once a transaction for a request has failed, none for it ever succeeds: *)
(* a copy still on its way, or sent again, cannot perform an operation the *)
(* client believes to have failed.                                         *)
FailureIsFinal ==
    [][\A t, u \in DOMAIN effects :
          /\ t.kind = "unlock" /\ u.kind = "unlock"
          /\ RequestOf(t) = RequestOf(u)
          /\ effects[t] = "failure"
          /\ effects'[u] = "success"
          => effects[u] = "success"]_effects

(* The nonce read back after an unlock that took effect is above the one   *)
(* that was signed, in the forms and in the script; and if the script      *)
(* finds that it did not advance by 1, it advanced further, by an unlock   *)
(* of somebody else's.                                                     *)
NonceReadBack ==
    /\ \A f \in Form :
          form[f].pc = "shown" /\ form[f].tx.kind = "unlock"
                  /\ Succeeded(form[f].tx)
              => \A n \in form[f].out : n > form[f].tx.sig.nonce
    /\ \A p \in Process :
          script[p].pc = "notByOne" =>
              \E s \in signed :
                  /\ ledger.uses[s] > 0
                  /\ s.pk = SeedKey[p] /\ s.sender = Account
                  /\ s.nonce > script[p].nonce
=============================================================================
