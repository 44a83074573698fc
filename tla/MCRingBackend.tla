---------------------------- MODULE MCRingBackend ----------------------------
(* An instance of RingBackend for TLC. *)
EXTENDS RingBackend

MCCalls == <<"barrier", "barrier", "all_reduce", "all_reduce">>
==============================================================================
