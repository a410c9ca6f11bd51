------------------------------ MODULE MCPower ------------------------------
(* Power for TLC. *)
EXTENDS Power
=============================================================================
