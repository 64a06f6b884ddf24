----------------------------- MODULE MCNotiTests -----------------------------
(* Model-checking instance of NotiTests; the .cfg file gives the constants. *)
EXTENDS NotiTests
==============================================================================
