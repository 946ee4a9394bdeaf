----------------------------- MODULE MCChannel -----------------------------
(* Channel for TLC: no nick is special, so they may be permuted.           *)
EXTENDS Channel, TLC

Symmetry == Permutations(Nicks)

=============================================================================
