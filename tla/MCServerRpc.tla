---------------------------- MODULE MCServerRpc ----------------------------
(* Instances of ServerRpc for TLC. *)
EXTENDS ServerRpc

TwoImmediate == [m \in Methods |-> IF m \in Immediate THEN 2 ELSE 1]
=============================================================================
