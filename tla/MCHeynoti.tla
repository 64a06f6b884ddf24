----------------------------- MODULE MCHeynoti -----------------------------
(* Model-checking instances of Heynoti; the .cfg files give the constants. *)
EXTENDS HeynotiService, TLC

\* Files, heap cells, callbacks and publishers are interchangeable.
Symmetry ==
  Permutations(Inode) \cup Permutations(Node) \cup Permutations(Callback)
    \cup Permutations(Publisher)
=============================================================================
