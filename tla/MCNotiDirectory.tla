--------------------------- MODULE MCNotiDirectory ---------------------------
(* Model-checking instances of NotiDirectory; the .cfg files give the bound. *)
EXTENDS NotiDirectory
==============================================================================
