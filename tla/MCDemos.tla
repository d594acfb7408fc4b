------------------------------ MODULE MCDemos ------------------------------
(***************************************************************************)
(* An instance of Demos for TLC: two runs, of programs that meet at an     *)
(* account or at the address of the CLI, and of the others side by side.   *)
(***************************************************************************)
EXTENDS Demos, TLC

CONSTANTS p1, p2

MCProcess == {p1, p2}

Beside(a, b) == (p1 :> a) @@ (p2 :> b)

MCMix == {Beside("pq-exhaustive", "run"),
          Beside("pq-only-native", "pq-only-native"),
          Beside("pq-only-account", "pq-only-account"),
          Beside("pq-ecosystem", "pq-deepbook"),
          Beside("pq-services", "pq-mnemonic"),
          Beside("pq-seal", "pq-only-native")}
=============================================================================
