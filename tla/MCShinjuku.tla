------------------------------ MODULE MCShinjuku ------------------------------
(* Shinjuku on a small instance.                                             *)
EXTENDS Shinjuku, TLC

(* Buffers and contexts are only compared, never ordered.                    *)
Symmetry == Permutations(Mbuf) \cup Permutations(Ctx)
=============================================================================
