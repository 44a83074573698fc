---------------------------- MODULE MCPrefixCache ----------------------------
(* An instance of PrefixCache for TLC: a conversation of three turns and   *)
(* one that parts from it after the first turn.                            *)
EXTENDS PrefixCache

MCReq     == 1..2
MCPrompts == {<<1>>, <<1, 2>>, <<1, 2, 3>>, <<1, 4>>}
MCConfigs == {"fp16", "q8"}
MCLimits  == {[entries |-> 2, bytes |-> 0], [entries |-> 3, bytes |-> 4],
              [entries |-> 0, bytes |-> 0]}
==============================================================================
