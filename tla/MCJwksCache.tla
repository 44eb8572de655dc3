----------------------------- MODULE MCJwksCache -----------------------------
(* Small instances of JwksCache for TLC. *)
EXTENDS JwksCache, TLC

Symmetry == Permutations(Requests) \cup Permutations(Keys)
=============================================================================
