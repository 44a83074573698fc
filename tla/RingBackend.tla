----------------------------- MODULE RingBackend -----------------------------
(***************************************************************************)
(* The ring collectives of pmetal-distributed (ring.rs over transport.rs). *)
(* Every rank makes the calls of one program, an all-reduce of gradients   *)
(* or a barrier, each of 2(N-1) exchanges: send to the right neighbour and *)
(* receive from the left one, at the same time and within 30 seconds.      *)
(***************************************************************************)
EXTENDS Integers, Sequences

CONSTANTS
    N,          \* world_size
    Calls,      \* Seq({"barrier", "all_reduce"}): the program of every rank
    Buffered    \* messages the sockets hold after the sender's write ended

ASSUME RingAssumption ==
    /\ N \in Nat \ {0, 1}
    /\ Calls \in Seq({"barrier", "all_reduce"})
    /\ Buffered \in Nat

Ranks     == 0..(N - 1)
Exchanges == 2 * (N - 1)

\* The rank, or the chunk, d places to the left.
Back(r, d) == IF d <= r THEN r - d ELSE r - d + N

Left(r)  == Back(r, 1)
Right(r) == Back(r, N - 1)

VARIABLES
    call,       \* [Ranks -> 0..Len(Calls)]: the running, else the last call
    status,     \* "between" calls, "running", or the last call "failed"
    step,       \* exchanges of the call that are over
    sent,       \* the message of this exchange is being or has been written
    inbox,      \* the message received in this exchange
    counter,    \* barrier_counter: barriers begun
    crossed,    \* what counter was when the last barrier succeeded
    buf,        \* [Ranks -> [chunk -> [Ranks -> Nat]]]: what has been added
    chan        \* [Ranks -> messages on their way to the right neighbour]

ringVars == <<call, status, step, sent, inbox, counter, crossed, buf, chan>>

Empty == [kind |-> "none"]

\* What is left of a message whose reader has given up half-way.
Torn == [kind |-> "torn"]

\* What rank r adds in its k-th call: k times its own name.
Own(r, k) == [q \in Ranks |-> IF q = r THEN k ELSE 0]

RingInit ==
    /\ call = [r \in Ranks |-> 0]
    /\ status = [r \in Ranks |-> "between"]
    /\ step = [r \in Ranks |-> 0]
    /\ sent = [r \in Ranks |-> FALSE]
    /\ inbox = [r \in Ranks |-> Empty]
    /\ counter = [r \in Ranks |-> 0]
    /\ crossed = [r \in Ranks |-> 0]
    /\ buf = [r \in Ranks |-> [c \in Ranks |-> Own(r, 0)]]
    /\ chan = [r \in Ranks |-> <<>>]

Op(r) == Calls[call[r]]

\* The first half of the exchanges: scatter-reduce, or barrier tokens.
FirstPhase(r) == step[r] < N - 1

(***************************************************************************)
(* What an exchange sends, takes and does.                                 *)
(***************************************************************************)
\* An all-gather that starts with chunk r.
SendChunkSame(r) == Back(r, IF FirstPhase(r) THEN step[r] ELSE step[r] - (N - 1))

SendChunk(r) ==
    IF FirstPhase(r) THEN Back(r, step[r]) ELSE Right(Back(r, step[r] - (N - 1)))

RecvChunk(r) == Left(SendChunk(r))

\* hop counts the exchanges before; only properties read it.
Message(r) ==
    IF Op(r) = "all_reduce"
      THEN [kind |-> "chunk", data |-> buf[r][SendChunk(r)]]
      ELSE [kind |-> IF FirstPhase(r) THEN "token" ELSE "ack",
            seq |-> counter[r], hop |-> step[r]]

\* The length that recv checks tells chunks from the 8 bytes of a barrier.
RightLength(r, m) ==
    IF Op(r) = "all_reduce" THEN m.kind = "chunk" ELSE m.kind \in {"token", "ack"}

\* Any token, of whatever barrier.
AnyToken(r, m) == FirstPhase(r) => m.kind = "token"

\* Only the tokens carry a number that is checked.
RightToken(r, m) == FirstPhase(r) => m.kind = "token" /\ m.seq = counter[r]

Accepted(r, m) == Op(r) = "barrier" => RightToken(r, m)

Plus(a, b) == [q \in Ranks |-> a[q] + b[q]]

\* Reduce in the first phase, copy in the second.
Combined(r, m) ==
    IF Op(r) = "barrier" THEN buf[r]
    ELSE [buf[r] EXCEPT ![RecvChunk(r)] = IF FirstPhase(r) THEN Plus(@, m.data) ELSE m.data]

(***************************************************************************)
(* Steps of a rank.                                                        *)
(***************************************************************************)
\* The training loop ends with the first error; other callers of a barrier get
\* its error back and may go on, which its sequence number is there for.
MayBegin(r) ==
    /\ call[r] < Len(Calls)
    /\ status[r] = "between" \/ (status[r] = "failed" /\ Op(r) = "barrier")

Begin(r) ==
    /\ MayBegin(r)
    /\ call' = [call EXCEPT ![r] = @ + 1]
    /\ status' = [status EXCEPT ![r] = "running"]
    /\ step' = [step EXCEPT ![r] = 0]
    /\ IF Calls[call[r] + 1] = "barrier"
         THEN counter' = [counter EXCEPT ![r] = @ + 1] /\ UNCHANGED buf
         ELSE /\ buf' = [buf EXCEPT ![r] = [c \in Ranks |-> Own(r, call[r] + 1)]]
              /\ UNCHANGED counter
    /\ UNCHANGED <<sent, inbox, crossed, chan>>

Send(r) ==
    /\ status[r] = "running"
    /\ ~sent[r]
    /\ sent' = [sent EXCEPT ![r] = TRUE]
    /\ chan' = [chan EXCEPT ![r] = Append(@, Message(r))]
    /\ UNCHANGED <<call, status, step, inbox, counter, crossed, buf>>

\* The peers have taken enough for this rank's write to be over.
Written(r) == Len(chan[r]) <= Buffered

\* A read that waits for the write.
ReadsAfterWrite(r) == sent[r] /\ Written(r)

Reads(r) == sent[r]

EndCall(r, how) ==
    /\ status' = [status EXCEPT ![r] = how]
    /\ sent' = [sent EXCEPT ![r] = FALSE]
    /\ inbox' = [inbox EXCEPT ![r] = Empty]

\* A read finds something to take.
Reading(r) ==
    /\ status[r] = "running"
    /\ Reads(r)
    /\ inbox[r] = Empty
    /\ chan[Left(r)] # <<>>

Receive(r) ==
    /\ Reading(r)
    /\ RightLength(r, Head(chan[Left(r)]))
    /\ inbox' = [inbox EXCEPT ![r] = Head(chan[Left(r)])]
    /\ chan' = [chan EXCEPT ![Left(r)] = Tail(@)]
    /\ UNCHANGED <<call, status, step, sent, counter, crossed, buf>>

\* Both halves are over.
Advance(r) ==
    /\ status[r] = "running"
    /\ inbox[r] # Empty
    /\ Written(r)
    /\ Accepted(r, inbox[r])
    /\ buf' = [buf EXCEPT ![r] = Combined(r, inbox[r])]
    /\ step' = [step EXCEPT ![r] = @ + 1]
    /\ IF step[r] + 1 = Exchanges
         THEN /\ EndCall(r, "between")
              /\ crossed' = IF Op(r) = "barrier" THEN [crossed EXCEPT ![r] = counter[r]]
                                                 ELSE crossed
         ELSE /\ sent' = [sent EXCEPT ![r] = FALSE]
              /\ inbox' = [inbox EXCEPT ![r] = Empty]
              /\ UNCHANGED <<status, crossed>>
    /\ UNCHANGED <<call, counter, chan>>

\* "Barrier sequence mismatch".
Mismatch(r) ==
    /\ status[r] = "running"
    /\ inbox[r] # Empty
    /\ Written(r)
    /\ ~Accepted(r, inbox[r])
    /\ EndCall(r, "failed")
    /\ UNCHANGED <<call, step, counter, crossed, buf, chan>>

\* What an error leaves of the messages on their way.  The chunk that is
\* being written may not arrive.
LostTail(r) ==
    IF Op(r) = "all_reduce" /\ sent[r] /\ ~Written(r)
      THEN {chan[r], SubSeq(chan[r], 1, Len(chan[r]) - 1)}
      ELSE {chan[r]}

\* The message that is being read has been begun or not.
CutHead(r) ==
    IF Reading(r) THEN {chan[Left(r)], <<Torn>> \o Tail(chan[Left(r)])} ELSE {chan[Left(r)]}

\* Of a message whose length is wrong, or of the rest of one, four bytes are
\* read: the next read begins in the middle, or behind its end.
Unread(r) ==
    IF Head(chan[Left(r)]) = Torn
      THEN {chan[Left(r)], Tail(chan[Left(r)])}
      ELSE {<<Torn>> \o Tail(chan[Left(r)])}

Breaks(r, left) ==
    /\ EndCall(r, "failed")
    /\ \E out \in LostTail(r), in \in left :
          chan' = [chan EXCEPT ![r] = out, ![Left(r)] = in]
    /\ UNCHANGED <<call, step, counter, crossed, buf>>

\* "Expected {} bytes, got {}".
WrongLength(r) ==
    /\ Reading(r)
    /\ ~RightLength(r, Head(chan[Left(r)]))
    /\ Breaks(r, Unread(r))

Timeout(r) == status[r] = "running" /\ Breaks(r, CutHead(r))

Works(r) ==
    Begin(r) \/ Send(r) \/ Receive(r) \/ WrongLength(r) \/ Advance(r) \/ Mismatch(r)

\* Every rank has made its calls, or has given up.
Over ==
    /\ \A r \in Ranks : status[r] # "running" /\ ~MayBegin(r)
    /\ UNCHANGED ringVars

RingNext == Over \/ \E r \in Ranks : Works(r) \/ Timeout(r)

RingSpec == RingInit /\ [][RingNext]_ringVars /\ \A r \in Ranks : WF_ringVars(Works(r))

(***************************************************************************)
(* Properties.                                                             *)
(***************************************************************************)
Sums == [Ranks -> Nat]

Barriers == [kind : {"token", "ack"}, seq : Nat, hop : Nat]
Chunks   == [kind : {"chunk"}, data : Sums]
Messages == Barriers \cup Chunks \cup {Torn}

(* The type invariant of the ring.                                         *)
RingTypeOK ==
    /\ call \in [Ranks -> 0..Len(Calls)]
    /\ status \in [Ranks -> {"between", "running", "failed"}]
    /\ step \in [Ranks -> 0..Exchanges]
    /\ sent \in [Ranks -> BOOLEAN]
    /\ inbox \in [Ranks -> Barriers \cup Chunks \cup {Empty}]
    /\ counter \in [Ranks -> Nat]
    /\ crossed \in [Ranks -> Nat]
    /\ buf \in [Ranks -> [Ranks -> Sums]]
    /\ chan \in [Ranks -> Seq(Messages)]

(* The promise of the barrier, through timeouts, retries and what earlier  *)
(* rounds left in the sockets: a rank has crossed its k-th barrier only    *)
(* when every rank has begun its own k-th.                                 *)
BarrierHolds == \A r, q \in Ranks : crossed[r] <= counter[q]

(* An all-reduce that returns Ok has in every chunk the contribution of    *)
(* every rank to this call exactly once: no chunk is skipped, added twice  *)
(* or taken from another call, whoever has timed out before.               *)
SumsAreWhole ==
    \A r \in Ranks : status[r] = "between" /\ call[r] > 0 /\ Op(r) = "all_reduce" =>
        buf[r] = [c \in Ranks |-> [q \in Ranks |-> call[r]]]

(* The exchanges never wait for each other in a circle, however little the *)
(* sockets hold: while no call fails, every rank gets to its last call's   *)
(* end.                                                                    *)
RingCompletes ==
    [](\A r \in Ranks : status[r] # "failed") =>
        <>(\A r \in Ranks : call[r] = Len(Calls) /\ status[r] = "between")

(***************************************************************************)
(* The inductive invariant behind BarrierHolds.                            *)
(***************************************************************************)
\* By the counters c, r and the d ranks to its left have begun barrier k.
Heard(c, r, k, d) == \A i \in 0..d : c[Back(r, i)] >= k

InBarrier(r) == status[r] = "running" /\ Op(r) = "barrier"

Counting(r) == InBarrier(r) /\ FirstPhase(r)

\* The hop of the next token that r sends.
NextHop(r) == step[r] + (IF sent[r] THEN 1 ELSE 0)

IsToken(m, k) == m.kind = "token" /\ m.seq = k

\* The least hop of the tokens that r has still to receive.
Need(r) == IF IsToken(inbox[r], counter[r]) THEN inbox[r].hop + 1 ELSE step[r]

\* Between calls nothing is under way; what has been read has the length
\* of the call.
HalvesOK ==
    \A r \in Ranks :
        /\ status[r] # "running" => ~sent[r] /\ inbox[r] = Empty
        /\ inbox[r] # Empty => sent[r]
        /\ status[r] = "running" => call[r] > 0 /\ step[r] < Exchanges
        /\ inbox[r] # Empty => RightLength(r, inbox[r])

\* A token that is in a socket vouches for the ranks it has passed.
TokensVouch ==
    \A r \in Ranks : \A i \in 1..Len(chan[r]) : chan[r][i].kind = "token" =>
        /\ chan[r][i].hop < N - 1
        /\ Heard(counter, r, chan[r][i].seq, chan[r][i].hop)

InboxVouches ==
    \A r \in Ranks : inbox[r].kind = "token" =>
        /\ inbox[r].hop < N - 1
        /\ Heard(counter, Left(r), inbox[r].seq, inbox[r].hop)
        /\ Counting(r) /\ inbox[r].seq = counter[r] => inbox[r].hop >= step[r]

TokensInOrder ==
    \A r \in Ranks : \A i, j \in 1..Len(chan[r]) :
        i < j /\ chan[r][i].kind = "token" /\ IsToken(chan[r][j], chan[r][i].seq) =>
            chan[r][i].hop < chan[r][j].hop

TokensBehind ==
    \A r \in Ranks : \A i \in 1..Len(chan[r]) :
        Counting(r) /\ IsToken(chan[r][i], counter[r]) => chan[r][i].hop < NextHop(r)

TokensNeeded ==
    \A r \in Ranks : \A i \in 1..Len(chan[Left(r)]) :
        Counting(r) /\ IsToken(chan[Left(r)][i], counter[r]) =>
            chan[Left(r)][i].hop >= Need(r)

NeighbourAhead ==
    \A r \in Ranks : Counting(r) /\ Counting(Left(r)) /\ counter[Left(r)] = counter[r] =>
        NextHop(Left(r)) >= Need(r)

\* After d exchanges of a barrier r has heard of d neighbours.
HasHeard ==
    \A r \in Ranks : InBarrier(r) =>
        Heard(counter, r, counter[r], IF FirstPhase(r) THEN step[r] ELSE N - 1)

(* The inductive invariant: a token with hop h has passed h ranks that had *)
(* begun its barrier, and comes after the ones with fewer hops.            *)
RingInv ==
    /\ RingTypeOK /\ HalvesOK /\ TokensVouch /\ InboxVouches /\ TokensInOrder
    /\ TokensBehind /\ TokensNeeded /\ NeighbourAhead /\ HasHeard /\ BarrierHolds
==============================================================================
