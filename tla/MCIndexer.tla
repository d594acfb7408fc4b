----------------------------- MODULE MCIndexer -----------------------------
(***************************************************************************)
(* Instances of Indexer for TLC: pollers as model values.                  *)
(***************************************************************************)
EXTENDS Indexer, TLC

CONSTANTS p1, p2

MCPoller == {p1, p2}
=============================================================================
