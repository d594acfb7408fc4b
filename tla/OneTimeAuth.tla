---------------------------- MODULE OneTimeAuth ----------------------------
(***************************************************************************)
(* What post-quantum authorization promises to the holder of a key.        *)
(*                                                                         *)
(* The holder signs authorizations off-chain.  A ledger may make use of an *)
(* authorization that was signed, and of each one at most once, whatever   *)
(* transactions are submitted and in whatever order they are executed.     *)
(* PqGuard implements this specification.                                  *)
(***************************************************************************)
EXTENDS Naturals

CONSTANT Authorization      \* everything a holder may sign

VARIABLES signed,           \* the authorizations signed so far
          uses              \* how often the ledger has made use of each

vars == <<signed, uses>>

Init == /\ signed = {}
        /\ uses = [a \in Authorization |-> 0]

(* A holder signs one more authorization.                                  *)
Sign == /\ \E a \in Authorization : signed' = signed \union {a}
        /\ UNCHANGED uses

(* One transaction takes effect.  It uses, once each, some authorizations  *)
(* that were signed and have never been used.                              *)
Spend == /\ \E S \in SUBSET {a \in signed : uses[a] = 0} :
                uses' = [a \in Authorization |->
                            IF a \in S THEN 1 ELSE uses[a]]
         /\ UNCHANGED signed

Next == Sign \/ Spend

Spec == Init /\ [][Next]_vars
=============================================================================
