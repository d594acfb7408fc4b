---------------------------- MODULE MCDevMachine ----------------------------
(***************************************************************************)
(* Instances of DevMachine for TLC.                                        *)
(***************************************************************************)
EXTENDS DevMachine, TLC

MCTrouble == {"overlap", "slow", "foreign"}
Calm      == {}

(* The scripts and the requests are alike.                                 *)
Symmetry == Permutations(Script) \union Permutations(Request)
=============================================================================
