---------------------------- MODULE MCServeEngine ----------------------------
(* Instances of ServeEngine for TLC.                                       *)
EXTENDS ServeEngine

MCPair == 1..2
==============================================================================
