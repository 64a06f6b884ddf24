---------------------------- MODULE MCHeynotiTool ----------------------------
(* Model-checking instances of HeynotiTool; the .cfg files give the constants. *)
EXTENDS HeynotiTool, TLC

\* Files and keys are interchangeable; so are the tools run by root.
Symmetry == Permutations(Inode) \cup Permutations(Root)
==============================================================================
