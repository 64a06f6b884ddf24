--------------------------- MODULE MCNotiRegistry ---------------------------
(* Model-checking instance of NotiRegistry. *)
EXTENDS NotiRegistry

\* Kernels around the first one with inotify, an old one with a large minor
\* number, and one whose release has two numbers.
Releases == {<<2, 4, 37>>, <<2, 5, 40>>, <<2, 6, 12>>, <<2, 6, 13>>, <<4, 9, 337>>, <<3, 0>>}

Symmetry == Permutations(Cell) \cup Permutations(Source) \cup Permutations(Owner)
=============================================================================
