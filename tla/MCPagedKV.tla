------------------------------ MODULE MCPagedKV ------------------------------
(* An instance of PagedKV for TLC; the values written are interchangeable. *)
EXTENDS PagedKV, TLC

CONSTANTS v1, v2

MCLayers  == {0}
MCValues  == {v1, v2}
MCSymmetry == Permutations(MCValues)

\* At most three entries hold something that was written.
MCFewEntries ==
    Cardinality({x \in MCLayers \X Blocks \X Offsets :
                    store[x[1]][x[2]][x[3]] \in MCValues}) <= 3
==============================================================================
