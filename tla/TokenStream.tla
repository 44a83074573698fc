------------------------------ MODULE TokenStream ------------------------------
(***************************************************************************)
(* What a caller of the serving engine may rely on, without slots, queues  *)
(* or batches: one stream of events for each request.  A stream carries at *)
(* most Limit[r] Token events, then it is over once, with its Done event   *)
(* either delivered or, when the channel is full, lost.  ContinuousPump    *)
(* implements this specification (StreamRefinement there).                 *)
(***************************************************************************)
EXTENDS Naturals

CONSTANTS
    Req,    \* names of requests
    Limit   \* [Req -> Nat]: the most tokens a request may be sent

VARIABLES
    open,   \* [Req -> BOOLEAN]: the caller listens to the stream
    sent,   \* [Req -> Nat]: Token events sent
    over    \* [Req -> {"none", "done", "lost"}]

streamVars == <<open, sent, over>>

StreamInit ==
    /\ open = [r \in Req |-> FALSE]
    /\ sent = [r \in Req |-> 0]
    /\ over = [r \in Req |-> "none"]

Open(r) ==
    /\ ~open[r]
    /\ open' = [open EXCEPT ![r] = TRUE]
    /\ UNCHANGED <<sent, over>>

\* One batched step sends a token to several listeners at once.
Send(to) ==
    /\ \A r \in to : open[r] /\ over[r] = "none" /\ sent[r] < Limit[r]
    /\ sent' = [r \in Req |-> IF r \in to THEN sent[r] + 1 ELSE sent[r]]
    /\ UNCHANGED <<open, over>>

End(r) ==
    /\ open[r]
    /\ over[r] = "none"
    /\ \E how \in {"done", "lost"} : over' = [over EXCEPT ![r] = how]
    /\ UNCHANGED <<open, sent>>

\* The caller drops its end; the name may be given to a new stream.
Close(r) ==
    /\ open[r]
    /\ open' = [open EXCEPT ![r] = FALSE]
    /\ sent' = [sent EXCEPT ![r] = 0]
    /\ over' = [over EXCEPT ![r] = "none"]

StreamNext ==
    \/ \E r \in Req : Open(r) \/ End(r) \/ Close(r)
    \/ \E to \in SUBSET Req : Send(to)

StreamSpec == StreamInit /\ [][StreamNext]_streamVars
==============================================================================
