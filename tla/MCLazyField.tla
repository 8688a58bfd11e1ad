----------------------------- MODULE MCLazyField -----------------------------
(* Small instances of LazyField. *)
EXTENDS LazyField, TLC

CONSTANTS t1, t2, t3, f1, f2, p, q

Symmetry == Permutations(Threads) \union Permutations(Fields)
=============================================================================
