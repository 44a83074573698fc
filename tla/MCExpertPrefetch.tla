--------------------------- MODULE MCExpertPrefetch ---------------------------
(* Instances of ExpertPrefetch for TLC.                                    *)
EXTENDS ExpertPrefetch

MCWorkers == {"io0", "io1"}
=============================================================================
