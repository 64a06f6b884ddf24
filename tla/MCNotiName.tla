----------------------------- MODULE MCNotiName -----------------------------
(* A small instance of NotiName: characters that matter to the formats, two *)
(* process ids of which one begins with the other's digits.                 *)
EXTENDS NotiName

MCDigit == {"1", "2"}
MCChar  == MCDigit \cup {"dot", "under", "S", "Y", "slash"}
MCPid   == {1, 11}
MCDec   == [p \in MCPid |-> IF p = 1 THEN <<"1">> ELSE <<"1", "1">>]
MCName  == {<< >>, <<"1">>, <<"under">>, <<"1", "under">>, <<"Y", "S", "under">>, <<"slash", "S">>}
MCSize  == {-1, 0} \cup 3 .. 9
MCRoot  == <<"slash", "S">>
=============================================================================
