----------------------------- MODULE MCPassTest -----------------------------
(* Structures and arrays of two values that differ in every field.         *)
EXTENDS PassTest

MCArg  == {[f \in 1 .. Pins |-> f % 2], [f \in 1 .. Pins |-> (f + 1) % 2]}
MCPair == {<<0, 1>>}

=============================================================================
