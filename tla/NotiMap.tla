------------------------------ MODULE NotiMap ------------------------------
(***************************************************************************)
(* What the registry of libheynoti promises: a partial map from descriptor *)
(* numbers to the state of their handler. A descriptor enters the map when *)
(* heynoti_init returns it and leaves it with heynoti_close; no operation  *)
(* touches any entry but its own.                                          *)
(***************************************************************************)
CONSTANT Fd

VARIABLE entry

Init == entry = [f \in Fd |-> "absent"]

Open(f) ==
  /\ entry[f] = "absent"
  /\ entry' = [entry EXCEPT ![f] = "H_NONE"]

Attach(f) ==
  /\ entry[f] = "H_NONE"
  /\ entry' = [entry EXCEPT ![f] = "H_GLIB"]

Detach(f) ==
  /\ entry[f] = "H_GLIB"
  /\ entry' = [entry EXCEPT ![f] = "H_NONE"]

Close(f) ==
  /\ entry[f] # "absent"
  /\ entry' = [entry EXCEPT ![f] = "absent"]

Next == \E f \in Fd : Open(f) \/ Attach(f) \/ Detach(f) \/ Close(f)

Spec == Init /\ [][Next]_entry
============================================================================
