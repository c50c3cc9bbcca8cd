----------------------------- MODULE AlertLogMC ------------------------------
(* Instances of AlertLog: connections from one address. *)
EXTENDS AlertLog

TwoConns == {"c1", "c2"}
ThreeConns == {"c1", "c2", "c3"}
SameSource == [c \in Conn |-> "a"]
=============================================================================
