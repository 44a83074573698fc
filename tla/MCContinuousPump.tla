--------------------------- MODULE MCContinuousPump ---------------------------
(* Instances of ContinuousPump for TLC.  Two of the three requests fit in  *)
(* the block budget together; the third is larger than the whole of it.    *)
EXTENDS ContinuousPump

MCReq == 1..3
MCPromptLen == <<1, 3, 10>>
MCMaxNew    == <<2, 2, 1>>

MCPair == 1..2
MCPairPromptLen == <<1, 2>>
MCPairMaxNew    == <<2, 1>>
==============================================================================
