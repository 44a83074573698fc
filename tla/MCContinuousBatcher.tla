------------------------- MODULE MCContinuousBatcher -------------------------
(* Instances of ContinuousBatcher for TLC: requests that differ in prompt  *)
(* length, token limit and hence in reserved blocks.                       *)
EXTENDS ContinuousBatcher

MCReq == 1..5
MCPromptLen == <<1, 3, 2, 1, 1>>
MCMaxNew    == <<1, 2, 0, 1, 1>>

\* Every request can be over within one step of its prefill.
MCReqShort == 1..4
MCPromptLenShort == <<1, 1, 2, 1>>
MCMaxNewShort    == <<1, 2, 1, 1>>
==============================================================================
