------------------------- MODULE MCHeynotiReentrant -------------------------
(* Model-checking instances of HeynotiReentrant. *)
EXTENDS HeynotiReentrant

Symmetry == Permutations(Inode) \cup Permutations(Cell) \cup Permutations(Callback)
=============================================================================
