---------------------------- MODULE MCSignatures ----------------------------
(***************************************************************************)
(* An instance of Signatures for TLC: two-byte values, base-4 digits, two  *)
(* layers of trees of four leaves, three FORS trees of four leaves (eight  *)
(* for 128S, so that one index crosses a byte).                            *)
(***************************************************************************)
EXTENDS Signatures, SequencesExt

(* A small hash: the input folded with a permutation of the residues       *)
(* modulo a prime below 2^16 (cubing permutes them, as 3 does not divide    *)
(* 46336).                                                                 *)
MCSha(s) ==
    LET Cube(t) == (((t * t) % 46337) * t) % 46337
    IN  FoldLeft(LAMBDA acc, x : Cube((acc * 31 + (x % 46337) + 7) % 46337), 1, s)

Plain(t)    == [ctx |-> <<>>, text |-> t]
InCtx(c, t) == [ctx |-> c, text |-> t]

MCSeed == {11}

Digests == 0 .. 9 \union {255, 256, 4095, 4096, 16384, 32767, 32768, 46336}

(* The messages of LITE are signed with all sixteen leaves of the hypertree *)
(* and all twelve of the forest, those of 128S with fourteen and twenty-two. *)
MCMessages(scheme) ==
    CASE scheme = "WOTS" -> {Plain(<<v>>) : v \in Digests}
      [] scheme = "LITE" -> {Plain(<<v>>) : v \in 0 .. 35}
      [] scheme = "128S" -> {Plain(<<v>>) : v \in 0 .. 30}
                               \union {InCtx(<<7>>, <<1>>), Plain(<<7, 1>>)}

MCRedirected(scheme) ==
    CASE scheme = "WOTS" -> {Plain(<<v>>) : v \in Digests \union 65 .. 80}
      [] scheme = "LITE" -> {Plain(<<v>>) : v \in 0 .. 7}
      [] scheme = "128S" -> {Plain(<<v>>) : v \in 0 .. 3}
            \union {InCtx(<<7>>, <<1>>), Plain(<<7, 1>>), InCtx(<<7, 1>>, <<>>),
                    InCtx([i \in 1 .. 9 |-> 7], <<1>>)}
=============================================================================
