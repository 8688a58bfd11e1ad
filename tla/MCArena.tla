------------------------------- MODULE MCArena -------------------------------
(***************************************************************************)
(* Small instances of Arena.  Sizes are in words: a header of one, blocks    *)
(* that start at three and double to six, and a chunk of k elements takes    *)
(* k + 1 words.                                                              *)
(***************************************************************************)
EXTENDS Arena, TLC

CONSTANTS t1, t2, a1, a2, b1, b2, b3, i1

NoInitialBlock == [a \in Arenas |-> NULL]
FirstHasInitialBlock == [a \in Arenas |-> IF a = a1 THEN i1 ELSE NULL]
BlockSymmetry == Permutations(HeapBlocks)
Symmetry == Permutations(HeapBlocks) \union Permutations(Threads)
=============================================================================
