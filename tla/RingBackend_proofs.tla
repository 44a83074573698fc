-------------------------- MODULE RingBackend_proofs --------------------------
(***************************************************************************)
(* Proofs about RingBackend for every world size and every program of      *)
(* calls: whatever times out and whoever tries again, nobody crosses a     *)
(* barrier early, and a sum that is returned is whole.                     *)
(***************************************************************************)
EXTENDS RingBackend, SequenceTheorems, TLAPS

(***************************************************************************)
(* The ring.                                                               *)
(***************************************************************************)
LEMMA BackIn ==
    ASSUME NEW r \in Ranks, NEW d \in 0..(N - 1)
    PROVE  Back(r, d) \in Ranks
  BY RingAssumption DEF Ranks, Back

LEMMA LeftIn ==
    ASSUME NEW r \in Ranks
    PROVE  Left(r) \in Ranks /\ Right(r) \in Ranks /\ Left(r) # r
  BY RingAssumption DEF Ranks, Left, Right, Back

LEMMA LeftInjective ==
    ASSUME NEW r \in Ranks, NEW q \in Ranks, Left(r) = Left(q)
    PROVE  r = q
  BY RingAssumption DEF Ranks, Left, Back

(* One place further from r is the same as one from its neighbour.         *)
LEMMA BackLeft ==
    ASSUME NEW r \in Ranks, NEW d \in 0..(N - 2)
    PROVE  d + 1 \in 0..(N - 1) /\ Back(Left(r), d) = Back(r, d + 1)
  BY RingAssumption DEF Ranks, Left, Back

LEMMA BackReaches ==
    ASSUME NEW r \in Ranks, NEW q \in Ranks
    PROVE  \E d \in 0..(N - 1) : Back(r, d) = q
  <1> DEFINE d == IF q <= r THEN r - q ELSE r - q + N
  <1>1. d \in 0..(N - 1) /\ Back(r, d) = q
    BY RingAssumption DEF Ranks, Back
  <1>2. QED
    BY <1>1

LEMMA ChunksIn ==
    ASSUME NEW r \in Ranks, step[r] \in 0..(Exchanges - 1)
    PROVE  SendChunk(r) \in Ranks /\ RecvChunk(r) \in Ranks
  <1>1. SendChunk(r) \in Ranks
    <2>1. CASE FirstPhase(r)
      BY <2>1, BackIn, RingAssumption DEF SendChunk, FirstPhase, Exchanges
    <2>2. CASE ~FirstPhase(r)
      <3>1. step[r] - (N - 1) \in 0..(N - 1)
        BY <2>2, RingAssumption DEF FirstPhase, Exchanges
      <3>2. QED
        BY <2>2, <3>1, BackIn, LeftIn DEF SendChunk
    <2>3. QED
      BY <2>1, <2>2
  <1>2. QED
    BY <1>1, LeftIn DEF RecvChunk

LEMMA ExchangesPositive == Exchanges \in Nat /\ Exchanges > 0 /\ N - 1 < Exchanges
  BY RingAssumption DEF Exchanges

(***************************************************************************)
(* Messages.                                                               *)
(***************************************************************************)
LEMMA TokenFields ==
    ASSUME NEW m \in Messages \cup {Empty}, m.kind = "token"
    PROVE  m \in Barriers /\ m.seq \in Nat /\ m.hop \in Nat
  BY DEF Messages, Barriers, Chunks, Torn, Empty

LEMMA ChunkFields ==
    ASSUME NEW m \in Messages \cup {Empty}, m.kind = "chunk"
    PROVE  m \in Chunks /\ m.data \in Sums
  BY DEF Messages, Barriers, Chunks, Torn, Empty

LEMMA ReadableIn ==
    ASSUME NEW r, NEW m \in Messages, RightLength(r, m)
    PROVE  m \in Barriers \cup Chunks /\ m # Empty
  BY DEF Messages, Barriers, Chunks, Torn, Empty, RightLength

LEMMA HopsIn ==
    ASSUME RingTypeOK
    PROVE  \A r \in Ranks : step[r] \in Nat /\ NextHop(r) \in Nat
  <1>1. \A r \in Ranks : step[r] \in 0..Exchanges /\ sent[r] \in BOOLEAN
    BY DEF RingTypeOK
  <1>2. \A r \in Ranks : step[r] \in Nat
    BY <1>1, ExchangesPositive
  <1>3. QED
    BY <1>1, <1>2 DEF NextHop

LEMMA OpOf ==
    ASSUME RingTypeOK, NEW r \in Ranks, call[r] > 0
    PROVE  Op(r) \in {"barrier", "all_reduce"}
  BY RingAssumption, ElementOfSeq DEF RingTypeOK, Op

(***************************************************************************)
(* Types, and the two halves of an exchange.                               *)
(***************************************************************************)
LEMMA InitTypes == RingInit => RingTypeOK /\ HalvesOK
  <1>1. SUFFICES ASSUME RingInit PROVE RingTypeOK /\ HalvesOK
    OBVIOUS
  <1>2. \A r \in Ranks : Own(r, 0) \in Sums
    BY DEF Own, Sums
  <1>3. buf \in [Ranks -> [Ranks -> Sums]]
    BY <1>1, <1>2 DEF RingInit
  <1>4. chan \in [Ranks -> Seq(Messages)]
    BY <1>1, EmptySeq DEF RingInit
  <1>5. QED
    BY <1>1, <1>3, <1>4, RingAssumption, ExchangesPositive, LenProperties
    DEF RingInit, RingTypeOK, HalvesOK

LEMMA BeginTypes ==
    ASSUME RingTypeOK, HalvesOK, NEW r \in Ranks, Begin(r)
    PROVE  RingTypeOK' /\ HalvesOK'
  <1>1. call[r] + 1 \in 1..Len(Calls) /\ Len(Calls) \in Nat
    BY RingAssumption, LenProperties DEF Begin, MayBegin, RingTypeOK
  <1>2. Own(r, call[r] + 1) \in Sums
    BY <1>1 DEF Own, Sums
  <1>3. buf' \in [Ranks -> [Ranks -> Sums]]
    <2>1. [c \in Ranks |-> Own(r, call[r] + 1)] \in [Ranks -> Sums]
      BY <1>2
    <2>2. QED
      BY <2>1 DEF Begin, RingTypeOK
  <1>4. counter' \in [Ranks -> Nat]
    BY DEF Begin, RingTypeOK
  <1>5. call' = [call EXCEPT ![r] = @ + 1] /\ status' = [status EXCEPT ![r] = "running"]
        /\ step' = [step EXCEPT ![r] = 0] /\ UNCHANGED <<sent, inbox, crossed, chan>>
    BY DEF Begin
  <1>6. RingTypeOK'
    BY <1>1, <1>3, <1>4, <1>5, ExchangesPositive DEF RingTypeOK
  <1>7. status[r] # "running" /\ ~sent[r] /\ inbox[r] = Empty
    BY DEF Begin, MayBegin, HalvesOK
  <1>8. HalvesOK'
    <2>1. SUFFICES ASSUME NEW q \in Ranks
                   PROVE  /\ status'[q] # "running" => ~sent'[q] /\ inbox'[q] = Empty
                          /\ inbox'[q] # Empty => sent'[q]
                          /\ status'[q] = "running" => call'[q] > 0 /\ step'[q] < Exchanges
                          /\ inbox'[q] # Empty => RightLength(q, inbox[q])'
      BY <1>5 DEF HalvesOK, RightLength, Op
    <2>2. CASE q = r
      BY <1>1, <1>5, <1>7, <2>2, ExchangesPositive DEF RingTypeOK
    <2>3. CASE q # r
      BY <1>5, <2>3 DEF RingTypeOK, HalvesOK, RightLength, Op
    <2>4. QED
      BY <2>2, <2>3
  <1>9. QED
    BY <1>6, <1>8

LEMMA SendTypes ==
    ASSUME RingTypeOK, HalvesOK, NEW r \in Ranks, Send(r)
    PROVE  RingTypeOK' /\ HalvesOK' /\ Message(r) \in Barriers \cup Chunks
  <1>1. Message(r) \in Barriers \cup Chunks
    <2>1. step[r] \in 0..(Exchanges - 1) /\ step[r] \in Nat
      BY ExchangesPositive DEF Send, HalvesOK, RingTypeOK
    <2>2. buf[r][SendChunk(r)] \in Sums
      BY <2>1, ChunksIn DEF RingTypeOK
    <2>3. QED
      BY <2>1, <2>2 DEF Message, Barriers, Chunks, RingTypeOK
  <1>2. Append(chan[r], Message(r)) \in Seq(Messages)
    BY <1>1, AppendProperties DEF RingTypeOK, Messages
  <1> HIDE DEF Message
  <1>3. RingTypeOK'
    BY <1>2 DEF Send, RingTypeOK
  <1>4. HalvesOK'
    BY DEF Send, RingTypeOK, HalvesOK, RightLength, Op
  <1>5. QED
    BY <1>1, <1>3, <1>4

LEMMA ReceiveTypes ==
    ASSUME RingTypeOK, HalvesOK, NEW r \in Ranks, Receive(r)
    PROVE  /\ RingTypeOK' /\ HalvesOK'
           /\ Head(chan[Left(r)]) \in Messages /\ Tail(chan[Left(r)]) \in Seq(Messages)
  <1> DEFINE m == Head(chan[Left(r)])
  <1>1. m \in Messages /\ Tail(chan[Left(r)]) \in Seq(Messages)
    BY LeftIn, HeadTailProperties DEF Receive, Reading, RingTypeOK
  <1>2. chan' = [chan EXCEPT ![Left(r)] = Tail(@)]
        /\ inbox' = [inbox EXCEPT ![r] = m]
        /\ UNCHANGED <<call, status, step, sent, counter, crossed, buf>>
        /\ status[r] = "running" /\ sent[r] /\ RightLength(r, m)
    BY DEF Receive, Reading, Reads
  <1>3. chan' \in [Ranks -> Seq(Messages)]
    BY <1>1, <1>2, LeftIn DEF RingTypeOK
  <1>4. m \in Barriers \cup Chunks
    BY <1>1, <1>2, ReadableIn
  <1> HIDE DEF m
  <1>5. RingTypeOK'
    BY <1>2, <1>3, <1>4 DEF RingTypeOK
  <1>6. HalvesOK'
    BY <1>2 DEF RingTypeOK, HalvesOK, RightLength, Op
  <1>7. QED
    BY <1>1, <1>5, <1>6 DEF m

LEMMA AdvanceTypes ==
    ASSUME RingTypeOK, HalvesOK, NEW r \in Ranks, Advance(r)
    PROVE  RingTypeOK' /\ HalvesOK'
  <1>1. /\ status[r] = "running" /\ inbox[r] # Empty /\ sent[r] /\ call[r] > 0
        /\ step[r] \in 0..(Exchanges - 1) /\ step[r] + 1 \in 0..Exchanges
        /\ RightLength(r, inbox[r])
    BY ExchangesPositive DEF Advance, HalvesOK, RingTypeOK
  <1>2. Combined(r, inbox[r]) \in [Ranks -> Sums]
    <2>1. CASE Op(r) = "barrier"
      BY <2>1 DEF Combined, RingTypeOK
    <2>2. CASE Op(r) # "barrier"
      <3>1. inbox[r].kind = "chunk" /\ inbox[r] \in Messages \cup {Empty}
        BY <1>1, <2>2, OpOf DEF RightLength, RingTypeOK, Messages
      <3>2. inbox[r].data \in Sums
        BY <3>1, ChunkFields
      <3>3. RecvChunk(r) \in Ranks /\ buf[r] \in [Ranks -> Sums]
        BY <1>1, ChunksIn DEF RingTypeOK
      <3>4. Plus(buf[r][RecvChunk(r)], inbox[r].data) \in Sums
        BY <3>2, <3>3 DEF Plus, Sums
      <3>5. QED
        BY <2>2, <3>2, <3>3, <3>4 DEF Combined
    <2>3. QED
      BY <2>1, <2>2
  <1>3. buf' \in [Ranks -> [Ranks -> Sums]]
    BY <1>2 DEF Advance, RingTypeOK
  <1>4. step' = [step EXCEPT ![r] = @ + 1] /\ step' \in [Ranks -> 0..Exchanges]
        /\ UNCHANGED <<call, counter, chan>>
    BY <1>1 DEF Advance, RingTypeOK
  <1>5. CASE step[r] + 1 = Exchanges
    <2>1. EndCall(r, "between") /\ crossed' \in [Ranks -> Nat]
      BY <1>5 DEF Advance, RingTypeOK
    <2>2. RingTypeOK'
      BY <1>3, <1>4, <2>1 DEF RingTypeOK, EndCall
    <2>3. HalvesOK'
      BY <1>4, <2>1 DEF RingTypeOK, HalvesOK, EndCall, RightLength, Op
    <2>4. QED
      BY <2>2, <2>3
  <1>6. CASE step[r] + 1 # Exchanges
    <2>1. sent' = [sent EXCEPT ![r] = FALSE] /\ inbox' = [inbox EXCEPT ![r] = Empty]
          /\ UNCHANGED <<status, crossed>>
      BY <1>6 DEF Advance
    <2>2. RingTypeOK'
      BY <1>3, <1>4, <2>1 DEF RingTypeOK
    <2>3. step'[r] < Exchanges
      BY <1>1, <1>4, <1>6, ExchangesPositive DEF RingTypeOK
    <2>4. HalvesOK'
      BY <1>1, <1>4, <2>1, <2>3 DEF RingTypeOK, HalvesOK, RightLength, Op
    <2>5. QED
      BY <2>2, <2>4
  <1>7. QED
    BY <1>5, <1>6

LEMMA ConcatParts ==
    ASSUME NEW S, NEW s \in Seq(S), NEW t \in Seq(S)
    PROVE  /\ s \o t \in Seq(S) /\ Len(s \o t) = Len(s) + Len(t)
           /\ Len(s) \in Nat /\ Len(t) \in Nat
           /\ \A i \in 1..Len(s) : (s \o t)[i] = s[i]
           /\ \A i \in 1..Len(t) : (s \o t)[Len(s) + i] = t[i]
  BY ConcatProperties, LenProperties

(* A sequence left on a socket: what was there, or what was there behind   *)
(* the first message, some of it torn.                                     *)
Remains(s, old) ==
    /\ s \in Seq(Messages)
    /\ \E d \in {0, 1} :
          /\ Len(s) + d <= Len(old)
          /\ \A i \in 1..Len(s) : s[i] = old[i + d] \/ s[i] = Torn

LEMMA OldRemains ==
    ASSUME NEW old \in Seq(Messages)
    PROVE  Remains(old, old)
  <1>1. Len(old) \in Nat /\ 0 \in {0, 1}
    BY LenProperties
  <1>2. QED
    BY <1>1 DEF Remains

LEMMA TailRemains ==
    ASSUME NEW old \in Seq(Messages), old # <<>>
    PROVE  Remains(Tail(old), old)
  <1>1. /\ Tail(old) \in Seq(Messages) /\ Len(Tail(old)) = Len(old) - 1
        /\ \A i \in 1..(Len(old) - 1) : Tail(old)[i] = old[i + 1]
        /\ Len(old) \in Nat /\ 1 \in {0, 1}
    BY HeadTailProperties, LenProperties
  <1>2. QED
    BY <1>1 DEF Remains

LEMMA TornRemains ==
    ASSUME NEW old \in Seq(Messages), old # <<>>
    PROVE  Remains(<<Torn>> \o Tail(old), old)
  <1> DEFINE rest == Tail(old)
             torn == <<Torn>>
             in   == torn \o rest
  <1>1. /\ rest \in Seq(Messages) /\ Len(rest) = Len(old) - 1 /\ Len(rest) \in Nat
        /\ Len(old) \in Nat
        /\ \A i \in 1..(Len(old) - 1) : rest[i] = old[i + 1]
    BY HeadTailProperties, LenProperties
  <1>2. torn \in Seq(Messages) /\ Len(torn) = 1 /\ torn[1] = Torn
    BY DEF Messages
  <1> HIDE DEF torn, rest
  <1>3. /\ in \in Seq(Messages) /\ Len(in) = Len(torn) + Len(rest)
        /\ \A i \in 1..Len(torn) : in[i] = torn[i]
        /\ \A i \in 1..Len(rest) : in[Len(torn) + i] = rest[i]
    <2>1. rest \in Seq(Messages)
      BY <1>1
    <2>2. torn \in Seq(Messages)
      BY <1>2
    <2>3. QED
      BY <2>1, <2>2, ConcatParts
  <1> HIDE DEF in
  <1>4. /\ Len(in) = Len(old) /\ in[1] = Torn
        /\ \A i \in 1..Len(rest) : in[1 + i] = rest[i]
    BY <1>1, <1>2, <1>3
  <1>5. ASSUME NEW i \in 1..Len(in) PROVE in[i] = old[i + 0] \/ in[i] = Torn
    <2>1. CASE i = 1
      BY <1>4, <2>1
    <2>2. CASE i > 1
      <3>1. i - 1 \in 1..Len(rest) /\ 1 + (i - 1) = i /\ i + 0 = i
        BY <1>1, <1>4, <2>2
      <3>2. in[i] = rest[i - 1]
        BY <1>4, <3>1
      <3>3. rest[i - 1] = old[i]
        BY <1>1, <3>1
      <3>4. QED
        BY <3>1, <3>2, <3>3
    <2>3. QED
      BY <1>1, <1>4, <2>1, <2>2
  <1>6. Len(in) + 0 <= Len(old)
    BY <1>1, <1>4
  <1>7. Remains(in, old)
    BY <1>3, <1>5, <1>6 DEF Remains
  <1>8. QED
    BY <1>7 DEF in, torn, rest

LEMMA TailLost ==
    ASSUME RingTypeOK, NEW r \in Ranks, NEW out \in LostTail(r)
    PROVE  /\ out \in Seq(Messages) /\ Len(out) <= Len(chan[r])
           /\ \A i \in 1..Len(out) : out[i] = chan[r][i]
  <1>1. chan[r] \in Seq(Messages) /\ Len(chan[r]) \in Nat
    BY LenProperties DEF RingTypeOK
  <1>2. CASE out = chan[r]
    BY <1>1, <1>2
  <1>3. CASE out # chan[r]
    <2> DEFINE s == chan[r]
               n == Len(s) - 1
    <2>1. out = SubSeq(s, 1, n) /\ Len(s) > Buffered
      BY <1>1, <1>3, RingAssumption DEF LostTail, Written
    <2>2. s \in Seq(Messages) /\ n \in Nat /\ \A i \in 1..n : s[i] \in Messages
      BY <1>1, <2>1, RingAssumption, ElementOfSeq
    <2> HIDE DEF s, n
    <2>3. /\ out \in Seq(Messages)
          /\ Len(out) = IF 1 <= n THEN n - 1 + 1 ELSE 0
          /\ \A i \in 1..(n - 1 + 1) : out[i] = s[1 + i - 1]
      BY <2>1, <2>2, SubSeqProperties
    <2>4. Len(out) = n
      BY <2>2, <2>3
    <2>5. \A i \in 1..n : i \in 1..(n - 1 + 1) /\ 1 + i - 1 = i
      BY <2>2
    <2>6. QED
      BY <2>2, <2>3, <2>4, <2>5 DEF s, n
  <1>4. QED
    BY <1>2, <1>3

(* What a failed call does to the messages on their way: some are gone     *)
(* from the end, some are torn, the others keep their order.               *)
LEMMA BreaksWire ==
    ASSUME RingTypeOK, NEW r \in Ranks, NEW left,
           \A s \in left : Remains(s, chan[Left(r)]), Breaks(r, left)
    PROVE  /\ chan' \in [Ranks -> Seq(Messages)]
           /\ \A q \in Ranks : Remains(chan'[q], chan[q])
  <1>1. PICK out \in LostTail(r), in \in left :
           chan' = [chan EXCEPT ![r] = out, ![Left(r)] = in]
    BY DEF Breaks
  <1>2. \A q \in Ranks : chan[q] \in Seq(Messages)
    BY DEF RingTypeOK
  <1>3. out \in Seq(Messages) /\ Remains(out, chan[r])
    <2>1. /\ out \in Seq(Messages) /\ Len(out) <= Len(chan[r])
          /\ \A i \in 1..Len(out) : out[i] = chan[r][i]
      BY <1>1, TailLost
    <2>2. Len(out) \in Nat /\ Len(chan[r]) \in Nat /\ 0 \in {0, 1}
      BY <1>2, <2>1, LenProperties
    <2>3. QED
      BY <2>1, <2>2 DEF Remains
  <1>4. in \in Seq(Messages) /\ Remains(in, chan[Left(r)])
    BY <1>1 DEF Remains
  <1>5. \A q \in Ranks : chan'[q] = IF q = Left(r) THEN in ELSE IF q = r THEN out ELSE chan[q]
    BY <1>1, LeftIn DEF RingTypeOK
  <1>6. chan' \in [Ranks -> Seq(Messages)]
    BY <1>1, <1>3, <1>4, LeftIn DEF RingTypeOK
  <1>7. QED
    BY <1>2, <1>3, <1>4, <1>5, <1>6, OldRemains

LEMMA BreaksTypes ==
    ASSUME RingTypeOK, HalvesOK, NEW r \in Ranks, NEW left,
           \A s \in left : Remains(s, chan[Left(r)]), Breaks(r, left)
    PROVE  RingTypeOK' /\ HalvesOK'
  <1>1. EndCall(r, "failed") /\ UNCHANGED <<call, step, counter, crossed, buf>>
    BY DEF Breaks
  <1>2. RingTypeOK'
    BY <1>1, BreaksWire DEF RingTypeOK, EndCall
  <1>3. HalvesOK'
    BY <1>1 DEF RingTypeOK, HalvesOK, EndCall, RightLength, Op
  <1>4. QED
    BY <1>2, <1>3

LEMMA MismatchTypes ==
    ASSUME RingTypeOK, HalvesOK, NEW r \in Ranks, Mismatch(r)
    PROVE  RingTypeOK' /\ HalvesOK'
  <1>1. EndCall(r, "failed") /\ UNCHANGED <<call, step, counter, crossed, buf, chan>>
    BY DEF Mismatch
  <1>2. RingTypeOK'
    BY <1>1 DEF RingTypeOK, EndCall
  <1>3. HalvesOK'
    BY <1>1 DEF RingTypeOK, HalvesOK, EndCall, RightLength, Op
  <1>4. QED
    BY <1>2, <1>3

(***************************************************************************)
(* The barrier.  A step preserves what a rank has heard of, since counters *)
(* only grow.                                                              *)
(***************************************************************************)
LEMMA HeardStays ==
    ASSUME NEW c \in [Ranks -> Nat], NEW e \in [Ranks -> Nat],
           \A q \in Ranks : e[q] >= c[q],
           NEW r \in Ranks, NEW k \in Nat, NEW d \in Int, d <= N - 1, Heard(c, r, k, d)
    PROVE  Heard(e, r, k, d)
  <1>1. SUFFICES ASSUME NEW i \in 0..d PROVE e[Back(r, i)] >= k
    BY DEF Heard
  <1>2. i \in 0..(N - 1) /\ c[Back(r, i)] >= k
    BY RingAssumption DEF Heard
  <1> DEFINE b == Back(r, i)
  <1>3. b \in Ranks
    BY <1>2, BackIn
  <1> HIDE DEF b
  <1>4. e[b] >= c[b] /\ e[b] \in Nat /\ c[b] \in Nat
    BY <1>3
  <1>5. c[b] >= k
    BY <1>2 DEF b
  <1>6. e[b] >= k
    BY <1>4, <1>5
  <1>7. QED
    BY <1>6 DEF b

(* What the left neighbour has heard of, one place further.                *)
LEMMA HeardOn ==
    ASSUME RingTypeOK, NEW r \in Ranks, NEW k \in Nat, NEW d \in 0..(N - 2),
           Heard(counter, Left(r), k, d), counter[r] >= k
    PROVE  Heard(counter, r, k, d + 1)
  <1>1. SUFFICES ASSUME NEW i \in 0..(d + 1) PROVE counter[Back(r, i)] >= k
    BY DEF Heard
  <1>2. CASE i = 0
    <2>1. Back(r, 0) = r
      BY DEF Back, Ranks
    <2>2. QED
      BY <1>2, <2>1
  <1>3. CASE i > 0
    <2>1. i - 1 \in 0..(N - 2) /\ i - 1 \in 0..d /\ (i - 1) + 1 = i
      BY <1>3, RingAssumption
    <2>2. Back(Left(r), i - 1) = Back(r, i)
      BY <2>1, BackLeft
    <2>3. QED
      BY <2>1, <2>2 DEF Heard
  <1>4. QED
    BY <1>2, <1>3

LEMMA HeardLess ==
    ASSUME NEW r \in Ranks, NEW k \in Nat, NEW d \in Int, NEW e \in Int, e <= d,
           Heard(counter, r, k, d)
    PROVE  Heard(counter, r, k, e)
  BY DEF Heard

LEMMA HeardSelf ==
    ASSUME NEW r \in Ranks, NEW k \in Nat, NEW d \in Nat, Heard(counter, r, k, d)
    PROVE  counter[r] >= k
  <1>1. Back(r, 0) = r
    BY DEF Back, Ranks
  <1>2. QED
    BY <1>1 DEF Heard

LEMMA HeardNeighbour ==
    ASSUME NEW r \in Ranks, NEW k \in Nat, NEW d \in Nat, d >= 1, Heard(counter, r, k, d)
    PROVE  counter[Left(r)] >= k
  BY DEF Heard, Left

LEMMA HeardAll ==
    ASSUME NEW r \in Ranks, NEW k \in Nat, NEW q \in Ranks, Heard(counter, r, k, N - 1)
    PROVE  counter[q] >= k
  BY BackReaches DEF Heard

(* Every token that is in a socket after the step was there before.        *)
Fewer(old, new) ==
    \A q \in Ranks : \A i \in 1..Len(new[q]) : new[q][i].kind = "token" =>
        \E j \in 1..Len(old[q]) : new[q][i] = old[q][j]

LEMMA SocketTokens ==
    ASSUME RingTypeOK, NEW q \in Ranks, NEW i \in 1..Len(chan[q]), chan[q][i].kind = "token"
    PROVE  chan[q][i].seq \in Nat /\ chan[q][i].hop \in Nat
  <1>1. chan[q][i] \in Messages
    BY ElementOfSeq DEF RingTypeOK
  <1>2. QED
    BY <1>1, TokenFields

LEMMA VouchStays ==
    ASSUME RingTypeOK, RingTypeOK', TokensVouch, Fewer(chan, chan'),
           \A q \in Ranks : counter'[q] >= counter[q]
    PROVE  TokensVouch'
  <1>1. SUFFICES ASSUME NEW q \in Ranks, NEW i \in 1..Len(chan'[q]),
                        chan'[q][i].kind = "token"
                 PROVE  chan'[q][i].hop < N - 1
                        /\ Heard(counter', q, chan'[q][i].seq, chan'[q][i].hop)
    BY DEF TokensVouch
  <1>2. PICK j \in 1..Len(chan[q]) : chan'[q][i] = chan[q][j]
    BY <1>1 DEF Fewer
  <1> DEFINE k == chan[q][j].seq
             h == chan[q][j].hop
  <1>3. k \in Nat /\ h \in Nat
    BY <1>1, <1>2, SocketTokens
  <1>4. h < N - 1 /\ Heard(counter, q, k, h)
    BY <1>1, <1>2 DEF TokensVouch
  <1> HIDE DEF k, h
  <1>5. counter \in [Ranks -> Nat] /\ counter' \in [Ranks -> Nat] /\ h \in Int /\ h <= N - 1
    BY <1>3, <1>4, RingAssumption DEF RingTypeOK
  <1>6. Heard(counter', q, k, h)
    BY <1>3, <1>4, <1>5, HeardStays
  <1>7. QED
    BY <1>2, <1>4, <1>6 DEF k, h

LEMMA BreaksOrder ==
    ASSUME RingTypeOK, TokensInOrder, NEW r \in Ranks, NEW left,
           \A s \in left : Remains(s, chan[Left(r)]), Breaks(r, left)
    PROVE  TokensInOrder' /\ Fewer(chan, chan')
  <1>1. ASSUME NEW q \in Ranks
        PROVE  \E d \in {0, 1} : \A i \in 1..Len(chan'[q]) : chan'[q][i].kind = "token" =>
                  i + d \in 1..Len(chan[q]) /\ chan'[q][i] = chan[q][i + d]
    <2>1. Remains(chan'[q], chan[q])
      BY BreaksWire
    <2>2. PICK d \in {0, 1} :
             /\ Len(chan'[q]) + d <= Len(chan[q])
             /\ \A i \in 1..Len(chan'[q]) :
                   chan'[q][i] = chan[q][i + d] \/ chan'[q][i] = Torn
      BY <2>1 DEF Remains
    <2>3. Len(chan'[q]) \in Nat /\ Len(chan[q]) \in Nat
      BY <2>1, LenProperties DEF Remains, RingTypeOK
    <2>4. ASSUME NEW i \in 1..Len(chan'[q]), chan'[q][i].kind = "token"
          PROVE  i + d \in 1..Len(chan[q]) /\ chan'[q][i] = chan[q][i + d]
      <3>1. chan'[q][i] # Torn
        BY <2>4 DEF Torn
      <3>2. QED
        BY <2>2, <2>3, <3>1
    <2>5. QED
      BY <2>4
  <1>2. Fewer(chan, chan')
    BY <1>1 DEF Fewer
  <1>3. TokensInOrder'
    <2>1. SUFFICES ASSUME NEW q \in Ranks, NEW i \in 1..Len(chan'[q]),
                          NEW j \in 1..Len(chan'[q]), i < j, chan'[q][i].kind = "token",
                          IsToken(chan'[q][j], chan'[q][i].seq)
                   PROVE  chan'[q][i].hop < chan'[q][j].hop
      BY DEF TokensInOrder
    <2>2. PICK d \in {0, 1} :
             /\ i + d \in 1..Len(chan[q]) /\ chan'[q][i] = chan[q][i + d]
             /\ j + d \in 1..Len(chan[q]) /\ chan'[q][j] = chan[q][j + d]
      BY <1>1, <2>1 DEF IsToken
    <2>3. i + d < j + d
      BY <2>1, <2>2
    <2>4. QED
      BY <2>1, <2>2, <2>3 DEF TokensInOrder
  <1>4. QED
    BY <1>2, <1>3

LEMMA ReceiveOrder ==
    ASSUME RingTypeOK, HalvesOK, TokensInOrder, NEW r \in Ranks, Receive(r)
    PROVE  /\ TokensInOrder' /\ Fewer(chan, chan')
           /\ Len(chan[Left(r)]) > 0 /\ Head(chan[Left(r)]) = chan[Left(r)][1]
           /\ Len(chan'[Left(r)]) = Len(chan[Left(r)]) - 1
           /\ \A i \in 1..Len(chan'[Left(r)]) : chan'[Left(r)][i] = chan[Left(r)][i + 1]
           /\ \A q \in Ranks : q # Left(r) => chan'[q] = chan[q]
  <1> DEFINE p == Left(r)
  <1>1. p \in Ranks /\ chan[p] \in Seq(Messages) /\ chan[p] # <<>>
        /\ chan' = [chan EXCEPT ![p] = Tail(@)]
    BY LeftIn DEF Receive, Reading, RingTypeOK
  <1> HIDE DEF p
  <1>2. /\ Len(chan[p]) \in Nat /\ Len(chan[p]) > 0 /\ Head(chan[p]) = chan[p][1]
        /\ Len(Tail(chan[p])) = Len(chan[p]) - 1
        /\ \A i \in 1..(Len(chan[p]) - 1) : Tail(chan[p])[i] = chan[p][i + 1]
    BY <1>1, HeadTailProperties, LenProperties, EmptySeq
  <1>3. chan'[p] = Tail(chan[p]) /\ \A q \in Ranks : q # p => chan'[q] = chan[q]
    BY <1>1 DEF RingTypeOK
  <1>4. /\ Len(chan'[p]) = Len(chan[p]) - 1
        /\ \A i \in 1..Len(chan'[p]) : i + 1 \in 1..Len(chan[p]) /\ chan'[p][i] = chan[p][i + 1]
    BY <1>2, <1>3
  <1>5. Fewer(chan, chan')
    BY <1>3, <1>4 DEF Fewer
  <1>6. TokensInOrder'
    <2>1. SUFFICES ASSUME NEW q \in Ranks, NEW i \in 1..Len(chan'[q]),
                          NEW j \in 1..Len(chan'[q]), i < j, chan'[q][i].kind = "token",
                          IsToken(chan'[q][j], chan'[q][i].seq)
                   PROVE  chan'[q][i].hop < chan'[q][j].hop
      BY DEF TokensInOrder
    <2>2. CASE q = p
      <3>1. i + 1 \in 1..Len(chan[p]) /\ j + 1 \in 1..Len(chan[p]) /\ i + 1 < j + 1
            /\ chan'[q][i] = chan[p][i + 1] /\ chan'[q][j] = chan[p][j + 1]
        BY <1>2, <1>4, <2>1, <2>2
      <3>2. QED
        BY <1>1, <2>1, <3>1 DEF TokensInOrder
    <2>3. CASE q # p
      BY <1>3, <2>1, <2>3 DEF TokensInOrder
    <2>4. QED
      BY <2>2, <2>3
  <1>7. QED
    BY <1>2, <1>3, <1>4, <1>5, <1>6 DEF p

(* A call ends: nothing is expected of the rank any more.                  *)
LEMMA QuietEnd ==
    ASSUME RingInv, NEW r \in Ranks, NEW how, how # "running", EndCall(r, how),
           Fewer(chan, chan'), UNCHANGED <<call, counter>>,
           step' \in [Ranks -> 0..Exchanges], \A q \in Ranks : q # r => step'[q] = step[q]
    PROVE  /\ InboxVouches' /\ TokensBehind' /\ TokensNeeded' /\ NeighbourAhead'
           /\ HasHeard'
  <1>1. RingTypeOK
    BY DEF RingInv
  <1>2. status'[r] # "running" /\ inbox'[r] = Empty /\ counter' = counter /\ call' = call
        /\ \A q \in Ranks : q # r =>
              /\ status'[q] = status[q] /\ sent'[q] = sent[q]
              /\ inbox'[q] = inbox[q] /\ step'[q] = step[q]
    BY <1>1 DEF EndCall, RingTypeOK
  <1>3. InboxVouches'
    <2>1. InboxVouches
      BY DEF RingInv
    <2>2. QED
      BY <1>2, <2>1 DEF InboxVouches, Counting, InBarrier, FirstPhase, Op, Empty
  <1>4. TokensBehind'
    <2>1. TokensBehind
      BY DEF RingInv
    <2>2. SUFFICES ASSUME NEW q \in Ranks, NEW i \in 1..Len(chan'[q]),
                          Counting(q)', IsToken(chan'[q][i], counter'[q])
                   PROVE  chan'[q][i].hop < NextHop(q)'
      BY DEF TokensBehind, IsToken
    <2>3. q # r
      BY <1>2, <2>2 DEF Counting, InBarrier
    <2>4. PICK j \in 1..Len(chan[q]) : chan'[q][i] = chan[q][j]
      BY <2>2 DEF Fewer, IsToken
    <2>5. Counting(q) /\ NextHop(q)' = NextHop(q)
      BY <1>2, <2>2, <2>3 DEF Counting, InBarrier, FirstPhase, Op, NextHop
    <2>6. QED
      BY <1>2, <2>1, <2>2, <2>4, <2>5 DEF TokensBehind
  <1>5. TokensNeeded'
    <2>1. TokensNeeded
      BY DEF RingInv
    <2>2. SUFFICES ASSUME NEW q \in Ranks, NEW i \in 1..Len(chan'[Left(q)]),
                          Counting(q)', IsToken(chan'[Left(q)][i], counter'[q])
                   PROVE  chan'[Left(q)][i].hop >= Need(q)'
      BY DEF TokensNeeded, IsToken
    <2>3. q # r /\ Left(q) \in Ranks
      BY <1>2, <2>2, LeftIn DEF Counting, InBarrier
    <2>4. PICK j \in 1..Len(chan[Left(q)]) : chan'[Left(q)][i] = chan[Left(q)][j]
      BY <2>2, <2>3 DEF Fewer, IsToken
    <2>5. Counting(q) /\ Need(q)' = Need(q)
      BY <1>2, <2>2, <2>3 DEF Counting, InBarrier, FirstPhase, Op, Need, IsToken
    <2>6. QED
      BY <1>2, <2>1, <2>2, <2>4, <2>5 DEF TokensNeeded
  <1>6. NeighbourAhead'
    <2>1. NeighbourAhead
      BY DEF RingInv
    <2>2. SUFFICES ASSUME NEW q \in Ranks, Counting(q)', Counting(Left(q))',
                          counter'[Left(q)] = counter'[q]
                   PROVE  NextHop(Left(q))' >= Need(q)'
      BY DEF NeighbourAhead
    <2>3. q # r /\ Left(q) # r /\ Left(q) \in Ranks
      BY <1>2, <2>2, LeftIn DEF Counting, InBarrier
    <2>4. /\ Counting(q) /\ Need(q)' = Need(q)
          /\ Counting(Left(q)) /\ NextHop(Left(q))' = NextHop(Left(q))
      BY <1>2, <2>2, <2>3 DEF Counting, InBarrier, FirstPhase, Op, Need, IsToken, NextHop
    <2>5. QED
      BY <1>2, <2>1, <2>2, <2>4 DEF NeighbourAhead
  <1>7. HasHeard'
    <2>1. HasHeard
      BY DEF RingInv
    <2>2. QED
      BY <1>2, <2>1 DEF HasHeard, InBarrier, FirstPhase, Op
  <1>8. QED
    BY <1>3, <1>4, <1>5, <1>6, <1>7

LEMMA BreaksInv ==
    ASSUME RingInv, NEW r \in Ranks, NEW left,
           \A s \in left : Remains(s, chan[Left(r)]), Breaks(r, left)
    PROVE  RingInv'
  <1>1. EndCall(r, "failed") /\ UNCHANGED <<call, step, counter, crossed, buf>>
    BY DEF Breaks
  <1>2. RingTypeOK' /\ HalvesOK' /\ TokensInOrder' /\ Fewer(chan, chan')
    BY BreaksTypes, BreaksOrder DEF RingInv
  <1>3. TokensVouch'
    BY <1>1, <1>2, VouchStays DEF RingInv, RingTypeOK
  <1>4. step' \in [Ranks -> 0..Exchanges] /\ \A q \in Ranks : q # r => step'[q] = step[q]
    BY <1>1 DEF RingInv, RingTypeOK
  <1>5. InboxVouches' /\ TokensBehind' /\ TokensNeeded' /\ NeighbourAhead' /\ HasHeard'
    BY <1>1, <1>2, <1>4, QuietEnd
  <1>6. BarrierHolds'
    BY <1>1 DEF RingInv, BarrierHolds
  <1>7. QED
    BY <1>2, <1>3, <1>5, <1>6 DEF RingInv

LEMMA TimeoutInv ==
    ASSUME RingInv, NEW r \in Ranks, Timeout(r)
    PROVE  RingInv'
  <1>1. chan[Left(r)] \in Seq(Messages)
    BY LeftIn DEF RingInv, RingTypeOK
  <1>2. \A s \in CutHead(r) : Remains(s, chan[Left(r)])
    BY <1>1, OldRemains, TornRemains DEF CutHead, Reading
  <1>3. QED
    BY <1>2, BreaksInv DEF Timeout

LEMMA WrongLengthInv ==
    ASSUME RingInv, NEW r \in Ranks, WrongLength(r)
    PROVE  RingInv'
  <1>1. chan[Left(r)] \in Seq(Messages) /\ chan[Left(r)] # <<>>
    BY LeftIn DEF RingInv, RingTypeOK, WrongLength, Reading
  <1>2. \A s \in Unread(r) : Remains(s, chan[Left(r)])
    BY <1>1, OldRemains, TailRemains, TornRemains DEF Unread
  <1>3. QED
    BY <1>2, BreaksInv DEF WrongLength

LEMMA MismatchInv ==
    ASSUME RingInv, NEW r \in Ranks, Mismatch(r)
    PROVE  RingInv'
  <1>1. EndCall(r, "failed") /\ UNCHANGED <<call, step, counter, crossed, buf, chan>>
    BY DEF Mismatch
  <1>2. RingTypeOK' /\ HalvesOK' /\ Fewer(chan, chan')
    BY <1>1, MismatchTypes DEF RingInv, Fewer
  <1>3. TokensVouch' /\ TokensInOrder'
    BY <1>1 DEF RingInv, TokensVouch, TokensInOrder
  <1>4. step' \in [Ranks -> 0..Exchanges] /\ \A q \in Ranks : q # r => step'[q] = step[q]
    BY <1>1 DEF RingInv, RingTypeOK
  <1>5. InboxVouches' /\ TokensBehind' /\ TokensNeeded' /\ NeighbourAhead' /\ HasHeard'
    BY <1>1, <1>2, <1>4, QuietEnd
  <1>6. BarrierHolds'
    BY <1>1 DEF RingInv, BarrierHolds
  <1>7. QED
    BY <1>2, <1>3, <1>5, <1>6 DEF RingInv

LEMMA SendInv ==
    ASSUME RingInv, NEW r \in Ranks, Send(r)
    PROVE  RingInv'
  <1> DEFINE M == Message(r)
             n == Len(chan[r])
  <1>0. RingTypeOK /\ HalvesOK
    BY DEF RingInv
  <1>1. RingTypeOK' /\ HalvesOK' /\ M \in Barriers \cup Chunks
    BY <1>0, SendTypes
  <1>2. /\ status[r] = "running" /\ ~sent[r]
        /\ sent' = [sent EXCEPT ![r] = TRUE] /\ chan' = [chan EXCEPT ![r] = Append(@, M)]
        /\ UNCHANGED <<call, status, step, inbox, counter, crossed, buf>>
    BY DEF Send
  <1>3. /\ n \in Nat /\ Len(chan'[r]) = n + 1 /\ chan'[r][n + 1] = M
        /\ \A i \in 1..n : chan'[r][i] = chan[r][i]
        /\ \A q \in Ranks : q # r => chan'[q] = chan[q]
    BY <1>0, <1>2, AppendProperties, LenProperties DEF RingTypeOK
  <1>4. M.kind = "token" =>
           /\ Counting(r) /\ M.seq = counter[r] /\ M.hop = step[r] /\ step[r] \in Nat
           /\ step[r] < N - 1
    <2>1. Op(r) \in {"barrier", "all_reduce"} /\ step[r] \in Nat
      BY <1>0, <1>2, OpOf DEF HalvesOK, RingTypeOK
    <2>2. QED
      BY <1>2, <2>1 DEF Message, Counting, InBarrier, FirstPhase
  <1> HIDE DEF M, n
  <1>5. ASSUME NEW q \in Ranks, NEW i \in 1..Len(chan'[q])
        PROVE  \/ i \in 1..Len(chan[q]) /\ chan'[q][i] = chan[q][i]
               \/ q = r /\ i = n + 1 /\ chan'[q][i] = M
    BY <1>3 DEF n
  <1>6. \A q \in Ranks : /\ Counting(q)' <=> Counting(q)
                         /\ Need(q)' = Need(q)
                         /\ NextHop(q)' = IF q = r THEN step[r] + 1 ELSE NextHop(q)
    BY <1>0, <1>2 DEF Counting, InBarrier, FirstPhase, Op, Need, NextHop, IsToken, RingTypeOK
  <1>7. NextHop(r) = step[r] /\ step[r] \in Nat
    BY <1>0, <1>2 DEF NextHop, RingTypeOK
  <1>8. TokensVouch'
    <2>1. SUFFICES ASSUME NEW q \in Ranks, NEW i \in 1..Len(chan'[q]),
                          chan'[q][i].kind = "token"
                   PROVE  chan'[q][i].hop < N - 1
                          /\ Heard(counter, q, chan'[q][i].seq, chan'[q][i].hop)
      BY <1>2 DEF TokensVouch
    <2>2. CASE i \in 1..Len(chan[q]) /\ chan'[q][i] = chan[q][i]
      BY <2>1, <2>2 DEF RingInv, TokensVouch
    <2>3. CASE q = r /\ chan'[q][i] = M
      <3>1. Counting(r) /\ M.seq = counter[r] /\ M.hop = step[r] /\ step[r] < N - 1
        BY <1>4, <2>1, <2>3
      <3>2. Heard(counter, r, counter[r], step[r])
        BY <3>1 DEF RingInv, HasHeard, Counting, FirstPhase
      <3>3. QED
        BY <2>3, <3>1, <3>2
    <2>4. QED
      BY <1>5, <2>2, <2>3
  <1>9. TokensInOrder'
    <2>1. SUFFICES ASSUME NEW q \in Ranks, NEW i \in 1..Len(chan'[q]),
                          NEW j \in 1..Len(chan'[q]), i < j, chan'[q][i].kind = "token",
                          IsToken(chan'[q][j], chan'[q][i].seq)
                   PROVE  chan'[q][i].hop < chan'[q][j].hop
      BY DEF TokensInOrder
    <2>2. CASE j \in 1..Len(chan[q]) /\ chan'[q][j] = chan[q][j]
      <3>1. i \in 1..Len(chan[q]) /\ chan'[q][i] = chan[q][i]
        BY <1>3, <1>5, <2>1, <2>2 DEF n
      <3>2. QED
        BY <2>1, <2>2, <3>1 DEF RingInv, TokensInOrder
    <2>3. CASE q = r /\ j = n + 1 /\ chan'[q][j] = M
      <3>1. i \in 1..Len(chan[r]) /\ chan'[q][i] = chan[r][i]
        BY <1>3, <1>5, <2>1, <2>3 DEF n
      <3>2. Counting(r) /\ M.seq = counter[r] /\ M.hop = step[r]
        BY <1>4, <2>1, <2>3 DEF IsToken
      <3>3. IsToken(chan[r][i], counter[r])
        BY <2>1, <2>3, <3>1, <3>2 DEF IsToken
      <3>4. chan[r][i].hop < NextHop(r)
        BY <3>1, <3>2, <3>3 DEF RingInv, TokensBehind
      <3>5. QED
        BY <1>7, <2>3, <3>1, <3>2, <3>4
    <2>4. QED
      BY <1>5, <2>2, <2>3
  <1>10. TokensBehind'
    <2>1. SUFFICES ASSUME NEW q \in Ranks, NEW i \in 1..Len(chan'[q]),
                          Counting(q), IsToken(chan'[q][i], counter[q])
                   PROVE  chan'[q][i].hop < NextHop(q)'
      BY <1>2, <1>6 DEF TokensBehind, IsToken
    <2>2. CASE i \in 1..Len(chan[q]) /\ chan'[q][i] = chan[q][i]
      <3>1. chan[q][i].hop < NextHop(q) /\ chan[q][i].hop \in Nat
        BY <1>0, <2>1, <2>2, SocketTokens DEF RingInv, TokensBehind, IsToken
      <3>2. QED
        BY <1>6, <1>7, <2>2, <3>1
    <2>3. CASE q = r /\ chan'[q][i] = M
      BY <1>4, <1>6, <2>1, <2>3 DEF IsToken
    <2>4. QED
      BY <1>5, <2>2, <2>3
  <1>11. TokensNeeded'
    <2>1. SUFFICES ASSUME NEW q \in Ranks, NEW i \in 1..Len(chan'[Left(q)]),
                          Counting(q), IsToken(chan'[Left(q)][i], counter[q])
                   PROVE  chan'[Left(q)][i].hop >= Need(q)
      BY <1>2, <1>6 DEF TokensNeeded, IsToken
    <2>2. Left(q) \in Ranks
      BY LeftIn
    <2>3. CASE i \in 1..Len(chan[Left(q)]) /\ chan'[Left(q)][i] = chan[Left(q)][i]
      BY <2>1, <2>3 DEF RingInv, TokensNeeded
    <2>4. CASE Left(q) = r /\ chan'[Left(q)][i] = M
      <3>1. Counting(r) /\ counter[q] = counter[r] /\ M.hop = step[r]
        BY <1>4, <2>1, <2>4 DEF IsToken
      <3>2. NextHop(r) >= Need(q)
        BY <2>1, <2>4, <3>1 DEF RingInv, NeighbourAhead
      <3>3. QED
        BY <1>7, <2>4, <3>1, <3>2
    <2>5. QED
      BY <1>5, <2>2, <2>3, <2>4
  <1>12. NeighbourAhead'
    <2>1. SUFFICES ASSUME NEW q \in Ranks, Counting(q), Counting(Left(q)),
                          counter[Left(q)] = counter[q]
                   PROVE  NextHop(Left(q))' >= Need(q)
      BY <1>2, <1>6, LeftIn DEF NeighbourAhead
    <2>2. Left(q) \in Ranks /\ NextHop(Left(q)) >= Need(q)
      BY <2>1, LeftIn DEF RingInv, NeighbourAhead
    <2>3. Need(q) \in Int
      <3>1. step[q] \in Nat /\ inbox[q] \in Messages \cup {Empty}
        BY <1>0 DEF RingTypeOK, Messages
      <3>2. QED
        BY <3>1, TokenFields DEF Need, IsToken
    <2>4. QED
      BY <1>6, <1>7, <2>2, <2>3
  <1>13. InboxVouches' /\ HasHeard' /\ BarrierHolds'
    BY <1>2 DEF RingInv, InboxVouches, HasHeard, BarrierHolds, Counting, InBarrier,
                FirstPhase, Op
  <1>14. QED
    BY <1>1, <1>8, <1>9, <1>10, <1>11, <1>12, <1>13 DEF RingInv

LEMMA ReceiveInv ==
    ASSUME RingInv, NEW r \in Ranks, Receive(r)
    PROVE  RingInv'
  <1> DEFINE p == Left(r)
             m == Head(chan[p])
  <1>0. RingTypeOK /\ HalvesOK /\ p \in Ranks /\ p # r
    BY LeftIn DEF RingInv
  <1>1. RingTypeOK' /\ HalvesOK' /\ m \in Messages
    BY <1>0, ReceiveTypes
  <1>2. /\ TokensInOrder' /\ Fewer(chan, chan')
        /\ 1 \in 1..Len(chan[p]) /\ m = chan[p][1] /\ Len(chan[p]) \in Nat
        /\ Len(chan'[p]) = Len(chan[p]) - 1
        /\ \A i \in 1..Len(chan'[p]) : chan'[p][i] = chan[p][i + 1]
        /\ \A q \in Ranks : q # p => chan'[q] = chan[q]
    BY <1>0, ReceiveOrder, LenProperties DEF RingInv, RingTypeOK
  <1>3. UNCHANGED <<call, step, counter, crossed, buf>> /\ inbox[r] = Empty
    BY DEF Receive, Reading
  <1>4. TokensVouch' /\ BarrierHolds'
    <2> HIDE DEF m, p
    <2>1. \A q \in Ranks : counter'[q] >= counter[q]
      BY <1>0, <1>3 DEF RingTypeOK
    <2>2. TokensVouch
      BY DEF RingInv
    <2>3. Fewer(chan, chan')
      BY <1>2
    <2>4. TokensVouch'
      BY <1>0, <1>1, <2>1, <2>2, <2>3, VouchStays
    <2>5. BarrierHolds'
      BY <1>3 DEF RingInv, BarrierHolds
    <2>6. QED
      BY <2>4, <2>5
  <1>5. inbox' = [inbox EXCEPT ![r] = m] /\ UNCHANGED <<status, sent>>
    BY DEF Receive
  <1> HIDE DEF m, p
  <1>6. inbox'[r] = m /\ \A q \in Ranks : q # r => inbox'[q] = inbox[q]
    BY <1>0, <1>5 DEF RingTypeOK
  <1>7. \A q \in Ranks : /\ Counting(q)' <=> Counting(q)
                         /\ NextHop(q)' = NextHop(q)
                         /\ q # r => Need(q)' = Need(q)
    BY <1>3, <1>5, <1>6
    DEF Counting, InBarrier, FirstPhase, Op, NextHop, Need, IsToken
  <1>8. Need(r) = step[r]
        /\ Need(r)' = IF IsToken(m, counter[r]) THEN m.hop + 1 ELSE step[r]
    BY <1>3, <1>6 DEF Need, IsToken, Empty
  <1>9. m.kind = "token" => m.seq \in Nat /\ m.hop \in Nat
    BY <1>1, TokenFields
  <1>10. InboxVouches'
    <2>1. ASSUME m.kind = "token"
          PROVE  /\ m.hop < N - 1 /\ Heard(counter, p, m.seq, m.hop)
                 /\ Counting(r) /\ m.seq = counter[r] => m.hop >= step[r]
      <3>1. m.hop < N - 1 /\ Heard(counter, p, m.seq, m.hop)
        BY <1>0, <1>2, <2>1 DEF RingInv, TokensVouch
      <3>2. ASSUME Counting(r), m.seq = counter[r] PROVE m.hop >= Need(r)
        BY <1>2, <2>1, <3>2 DEF RingInv, TokensNeeded, IsToken, p
      <3>3. QED
        BY <1>8, <3>1, <3>2
    <2>2. SUFFICES ASSUME NEW q \in Ranks, inbox'[q].kind = "token"
                   PROVE  /\ inbox'[q].hop < N - 1
                          /\ Heard(counter, Left(q), inbox'[q].seq, inbox'[q].hop)
                          /\ Counting(q) /\ inbox'[q].seq = counter[q] =>
                                inbox'[q].hop >= step[q]
      BY <1>3, <1>7 DEF InboxVouches
    <2>3. CASE q = r
      BY <1>6, <2>1, <2>2, <2>3 DEF p
    <2>4. CASE q # r
      BY <1>6, <2>2, <2>4 DEF RingInv, InboxVouches
    <2>5. QED
      BY <2>3, <2>4
  <1>11. TokensBehind'
    <2>1. SUFFICES ASSUME NEW q \in Ranks, NEW i \in 1..Len(chan'[q]),
                          Counting(q), IsToken(chan'[q][i], counter[q])
                   PROVE  chan'[q][i].hop < NextHop(q)
      BY <1>3, <1>7 DEF TokensBehind, IsToken
    <2>2. PICK j \in 1..Len(chan[q]) : chan'[q][i] = chan[q][j]
      BY <1>2, <2>1 DEF Fewer, IsToken
    <2>3. QED
      BY <2>1, <2>2 DEF RingInv, TokensBehind
  <1>12. TokensNeeded'
    <2>1. SUFFICES ASSUME NEW q \in Ranks, NEW i \in 1..Len(chan'[Left(q)]),
                          Counting(q), IsToken(chan'[Left(q)][i], counter[q])
                   PROVE  chan'[Left(q)][i].hop >= Need(q)'
      BY <1>3, <1>7 DEF TokensNeeded, IsToken
    <2>2. CASE q = r
      <3>1. /\ i + 1 \in 1..Len(chan[p]) /\ chan'[p][i] = chan[p][i + 1]
            /\ i \in 1..Len(chan'[p]) /\ 1 < i + 1
        BY <1>2, <2>1, <2>2 DEF p
      <3>2. IsToken(chan[p][i + 1], counter[r]) /\ chan[p][i + 1].hop \in Nat
        BY <1>0, <2>1, <2>2, <3>1, SocketTokens DEF IsToken, p
      <3>3. chan[p][i + 1].hop >= step[r]
        BY <1>8, <2>1, <2>2, <3>1, <3>2 DEF RingInv, TokensNeeded, p
      <3>4. CASE IsToken(m, counter[r])
        <4>1. m.hop < chan[p][i + 1].hop
          BY <1>0, <1>2, <3>1, <3>2, <3>4 DEF RingInv, TokensInOrder, IsToken
        <4>2. QED
          BY <1>8, <1>9, <2>2, <3>1, <3>2, <3>4, <4>1 DEF IsToken, p
      <3>5. CASE ~IsToken(m, counter[r])
        BY <1>8, <2>2, <3>1, <3>3, <3>5 DEF p
      <3>6. QED
        BY <3>4, <3>5
    <2>3. CASE q # r
      <3>1. Left(q) \in Ranks /\ Left(q) # p
        BY <2>3, LeftIn, LeftInjective DEF p
      <3>2. QED
        BY <1>2, <1>7, <2>1, <2>3, <3>1 DEF RingInv, TokensNeeded
    <2>4. QED
      BY <2>2, <2>3
  <1>13. NeighbourAhead'
    <2>1. SUFFICES ASSUME NEW q \in Ranks, Counting(q), Counting(Left(q)),
                          counter[Left(q)] = counter[q]
                   PROVE  NextHop(Left(q)) >= Need(q)'
      BY <1>3, <1>7, LeftIn DEF NeighbourAhead
    <2>2. NextHop(Left(q)) >= Need(q) /\ Left(q) \in Ranks
      BY <2>1, LeftIn DEF RingInv, NeighbourAhead
    <2>3. CASE q = r /\ IsToken(m, counter[r])
      <3>1. m.hop < NextHop(p)
        BY <1>0, <1>2, <2>1, <2>3 DEF RingInv, TokensBehind, p
      <3>2. NextHop(p) \in Int
        BY <1>0 DEF NextHop, RingTypeOK
      <3>3. QED
        BY <1>8, <1>9, <2>3, <3>1, <3>2 DEF IsToken, p
    <2>4. CASE ~(q = r /\ IsToken(m, counter[r]))
      BY <1>7, <1>8, <2>2, <2>4
    <2>5. QED
      BY <2>3, <2>4
  <1>14. HasHeard'
    BY <1>3, <1>5 DEF RingInv, HasHeard, InBarrier, FirstPhase, Op
  <1>15. QED
    BY <1>1, <1>2, <1>4, <1>10, <1>11, <1>12, <1>13, <1>14 DEF RingInv

LEMMA AdvanceInv ==
    ASSUME RingInv, NEW r \in Ranks, Advance(r)
    PROVE  RingInv'
  <1>0. RingTypeOK /\ HalvesOK /\ RingTypeOK' /\ HalvesOK'
    BY AdvanceTypes DEF RingInv
  <1>1. /\ status[r] = "running" /\ inbox[r] # Empty /\ sent[r] /\ call[r] > 0
        /\ step[r] \in Nat /\ step[r] < Exchanges /\ counter[r] \in Nat
        /\ step' = [step EXCEPT ![r] = @ + 1] /\ UNCHANGED <<call, counter, chan>>
    BY <1>0 DEF Advance, HalvesOK, RingTypeOK
  <1>2. TokensVouch' /\ TokensInOrder' /\ Fewer(chan, chan')
    BY <1>1 DEF RingInv, TokensVouch, TokensInOrder, Fewer
  <1>3. \A q \in Ranks : step'[q] = IF q = r THEN step[r] + 1 ELSE step[q]
    BY <1>0, <1>1 DEF RingTypeOK
  <1>4. Counting(r) => /\ IsToken(inbox[r], counter[r]) /\ inbox[r].hop \in Nat
                       /\ inbox[r].hop >= step[r]
                       /\ Heard(counter, Left(r), counter[r], inbox[r].hop)
    <2>1. SUFFICES ASSUME Counting(r)
                   PROVE  /\ IsToken(inbox[r], counter[r]) /\ inbox[r].hop \in Nat
                          /\ inbox[r].hop >= step[r]
                          /\ Heard(counter, Left(r), counter[r], inbox[r].hop)
      OBVIOUS
    <2>2. IsToken(inbox[r], counter[r])
      BY <2>1 DEF Advance, Accepted, RightToken, Counting, InBarrier, IsToken
    <2>3. inbox[r] \in Messages \cup {Empty}
      BY <1>0 DEF RingTypeOK, Messages
    <2>4. inbox[r].hop \in Nat
      BY <2>2, <2>3, TokenFields DEF IsToken
    <2>5. inbox[r].hop >= step[r] /\ Heard(counter, Left(r), counter[r], inbox[r].hop)
      BY <2>1, <2>2 DEF RingInv, InboxVouches, IsToken
    <2>6. QED
      BY <2>2, <2>4, <2>5
  <1>5. CASE step[r] + 1 = Exchanges
    <2>1. /\ EndCall(r, "between")
          /\ crossed' = IF Op(r) = "barrier" THEN [crossed EXCEPT ![r] = counter[r]]
                                             ELSE crossed
      BY <1>5 DEF Advance
    <2>2. step' \in [Ranks -> 0..Exchanges] /\ \A q \in Ranks : q # r => step'[q] = step[q]
      BY <1>0, <1>3 DEF RingTypeOK
    <2>3. InboxVouches' /\ TokensBehind' /\ TokensNeeded' /\ NeighbourAhead' /\ HasHeard'
      BY <1>1, <1>2, <2>1, <2>2, QuietEnd
    <2>4. BarrierHolds'
      <3>1. CASE Op(r) = "barrier"
        <4>1. InBarrier(r) /\ ~FirstPhase(r)
          BY <1>1, <1>5, <3>1, RingAssumption DEF InBarrier, FirstPhase, Exchanges
        <4>2. Heard(counter, r, counter[r], N - 1)
          BY <4>1 DEF RingInv, HasHeard
        <4>3. \A q \in Ranks : counter[q] >= counter[r]
          BY <1>1, <4>2, HeardAll
        <4>4. \A q \in Ranks : crossed'[q] = IF q = r THEN counter[r] ELSE crossed[q]
          BY <1>0, <2>1, <3>1 DEF RingTypeOK
        <4>5. counter' = counter /\ counter \in [Ranks -> Nat] /\ BarrierHolds
          BY <1>0, <1>1 DEF RingInv, RingTypeOK
        <4>6. QED
          BY <4>3, <4>4, <4>5 DEF BarrierHolds
      <3>2. CASE Op(r) # "barrier"
        BY <1>1, <2>1, <3>2 DEF RingInv, BarrierHolds
      <3>3. QED
        BY <3>1, <3>2
    <2>5. QED
      BY <1>0, <1>2, <2>3, <2>4 DEF RingInv
  <1>6. CASE step[r] + 1 # Exchanges
    <2>1. sent' = [sent EXCEPT ![r] = FALSE] /\ inbox' = [inbox EXCEPT ![r] = Empty]
          /\ UNCHANGED <<status, crossed>>
      BY <1>6 DEF Advance
    <2>2. /\ ~sent'[r] /\ inbox'[r] = Empty
          /\ \A q \in Ranks : q # r => sent'[q] = sent[q] /\ inbox'[q] = inbox[q]
      BY <1>0, <2>1 DEF RingTypeOK
    <2>3. /\ Counting(r)' => Counting(r) /\ step[r] + 1 < N - 1
          /\ \A q \in Ranks : q # r => (Counting(q)' <=> Counting(q))
      BY <1>1, <1>3, <2>1, RingAssumption DEF Counting, InBarrier, FirstPhase, Op
    <2>4. \A q \in Ranks : NextHop(q)' = NextHop(q)
      <3>1. NextHop(r)' = NextHop(r)
        BY <1>1, <1>3, <2>2 DEF NextHop
      <3>2. QED
        BY <1>3, <2>2, <3>1 DEF NextHop
    <2>5. /\ Counting(r) => Need(r)' \in Int /\ Need(r) \in Int /\ Need(r)' <= Need(r)
          /\ \A q \in Ranks : q # r => Need(q)' = Need(q)
      <3>1. Need(r)' = step[r] + 1
        BY <1>3, <2>2 DEF Need, IsToken, Empty
      <3>2. \A q \in Ranks : q # r => Need(q)' = Need(q)
        BY <1>1, <1>3, <2>2 DEF Need, IsToken
      <3>3. Counting(r) => Need(r) = inbox[r].hop + 1
        BY <1>4 DEF Need
      <3>4. QED
        BY <1>1, <1>4, <3>1, <3>2, <3>3
    <2>6. InboxVouches'
      <3>1. SUFFICES ASSUME NEW q \in Ranks, inbox'[q].kind = "token"
                     PROVE  /\ inbox'[q].hop < N - 1
                            /\ Heard(counter, Left(q), inbox'[q].seq, inbox'[q].hop)
                            /\ Counting(q)' /\ inbox'[q].seq = counter[q] =>
                                  inbox'[q].hop >= step'[q]
        BY <1>1 DEF InboxVouches
      <3>2. q # r
        BY <2>2, <3>1 DEF Empty
      <3>3. QED
        BY <1>3, <2>2, <2>3, <3>1, <3>2 DEF RingInv, InboxVouches
    <2>7. TokensBehind'
      BY <1>1, <2>3, <2>4 DEF RingInv, TokensBehind
    <2>8. TokensNeeded'
      <3>1. SUFFICES ASSUME NEW q \in Ranks, NEW i \in 1..Len(chan[Left(q)]),
                            Counting(q)', IsToken(chan[Left(q)][i], counter[q])
                     PROVE  chan[Left(q)][i].hop >= Need(q)'
        BY <1>1 DEF TokensNeeded
      <3>2. Counting(q) /\ chan[Left(q)][i].hop >= Need(q)
        BY <2>3, <3>1 DEF RingInv, TokensNeeded
      <3>3. chan[Left(q)][i].hop \in Nat
        BY <1>0, <3>1, LeftIn, SocketTokens DEF IsToken
      <3>4. QED
        BY <2>5, <3>2, <3>3
    <2>9. NeighbourAhead'
      <3>1. SUFFICES ASSUME NEW q \in Ranks, Counting(q)', Counting(Left(q))',
                            counter[Left(q)] = counter[q]
                     PROVE  NextHop(Left(q))' >= Need(q)'
        BY <1>1 DEF NeighbourAhead
      <3>2. Left(q) \in Ranks /\ NextHop(Left(q))' = NextHop(Left(q))
        BY <2>4, LeftIn
      <3>3. Counting(q) /\ NextHop(Left(q)) >= Need(q)
        BY <2>3, <3>1, <3>2 DEF RingInv, NeighbourAhead
      <3>4. \A p \in Ranks : NextHop(p) \in Int
        BY <1>0, HopsIn
      <3>5. QED
        BY <2>5, <3>2, <3>3, <3>4
    <2>10. HasHeard'
      <3>1. SUFFICES ASSUME NEW q \in Ranks, InBarrier(q)'
                     PROVE  Heard(counter, q, counter[q],
                                  IF FirstPhase(q)' THEN step'[q] ELSE N - 1)
        BY <1>1 DEF HasHeard, FirstPhase
      <3>2. InBarrier(q)
        BY <1>1, <2>1, <3>1 DEF InBarrier, Op
      <3>3. CASE q # r \/ ~FirstPhase(r)
        BY <1>1, <1>3, <3>2, <3>3, RingAssumption DEF RingInv, HasHeard, FirstPhase
      <3>4. CASE q = r /\ FirstPhase(r)
        <4>1. Heard(counter, Left(r), counter[r], inbox[r].hop)
              /\ inbox[r].hop >= step[r] /\ inbox[r].hop \in Nat
          BY <1>4, <3>2, <3>4 DEF Counting
        <4>2. Left(r) \in Ranks /\ step[r] \in 0..(N - 2)
          BY <1>1, <3>4, LeftIn, RingAssumption DEF FirstPhase
        <4>3. Heard(counter, Left(r), counter[r], step[r])
          BY <1>1, <4>1, <4>2, HeardLess
        <4>4. Heard(counter, r, counter[r], step[r] + 1)
          BY <1>0, <1>1, <4>2, <4>3, HeardOn
        <4>5. QED
          BY <1>1, <1>3, <3>4, <4>2, <4>4, RingAssumption DEF FirstPhase
      <3>5. QED
        BY <3>3, <3>4
    <2>11. BarrierHolds'
      BY <1>1, <2>1 DEF RingInv, BarrierHolds
    <2>12. QED
      BY <1>0, <1>2, <2>6, <2>7, <2>8, <2>9, <2>10, <2>11 DEF RingInv
  <1>7. QED
    BY <1>5, <1>6

(* A rank that begins a barrier is the first to know of its number: no     *)
(* token has it yet that came from this rank, and its left neighbour has   *)
(* sent none that is lost for it.                                          *)
LEMMA BeginInv ==
    ASSUME RingInv, NEW r \in Ranks, Begin(r)
    PROVE  RingInv'
  <1>0. RingTypeOK /\ HalvesOK /\ RingTypeOK' /\ HalvesOK'
    BY BeginTypes DEF RingInv
  <1>1. /\ status[r] # "running" /\ ~sent[r] /\ inbox[r] = Empty
        /\ call' = [call EXCEPT ![r] = @ + 1] /\ status' = [status EXCEPT ![r] = "running"]
        /\ step' = [step EXCEPT ![r] = 0] /\ UNCHANGED <<sent, inbox, crossed, chan>>
    BY <1>0 DEF Begin, MayBegin, HalvesOK
  <1>2. /\ \A q \in Ranks : q # r => /\ call'[q] = call[q] /\ status'[q] = status[q]
                                     /\ step'[q] = step[q]
        /\ step'[r] = 0
    BY <1>0, <1>1 DEF RingTypeOK
  <1>3. /\ counter \in [Ranks -> Nat] /\ counter' \in [Ranks -> Nat]
        /\ \A q \in Ranks : q # r => counter'[q] = counter[q]
        /\ Op(r)' = "barrier" => counter'[r] = counter[r] + 1
        /\ counter'[r] >= counter[r]
    <2>1. call'[r] = call[r] + 1
      BY <1>0, <1>1 DEF RingTypeOK
    <2>2. Op(r)' = Calls[call[r] + 1]
      BY <2>1 DEF Op
    <2>3. QED
      BY <1>0, <2>2 DEF RingTypeOK, Begin
  <1>4. \A q \in Ranks : counter'[q] \in Nat /\ counter[q] \in Nat /\ counter'[q] >= counter[q]
    BY <1>3
  <1>5. \A q \in Ranks : q # r => /\ Counting(q)' <=> Counting(q)
                                  /\ InBarrier(q)' <=> InBarrier(q)
                                  /\ FirstPhase(q)' <=> FirstPhase(q)
                                  /\ NextHop(q)' = NextHop(q)
                                  /\ Need(q)' = Need(q)
    BY <1>1, <1>2, <1>3 DEF Counting, InBarrier, FirstPhase, Op, NextHop, Need, IsToken
  <1>6. NextHop(r)' = 0 /\ Need(r)' = 0
    BY <1>1, <1>2 DEF NextHop, Need, IsToken, Empty
  <1>7. TokensVouch' /\ TokensInOrder'
    <2>1. \A q \in Ranks : counter'[q] >= counter[q]
      BY <1>4
    <2>2. TokensVouch /\ Fewer(chan, chan')
      BY <1>1 DEF RingInv, Fewer
    <2>3. TokensVouch'
      BY <1>0, <2>1, <2>2, VouchStays
    <2>4. TokensInOrder'
      BY <1>1 DEF RingInv, TokensInOrder
    <2>5. QED
      BY <2>3, <2>4
  <1>8. InboxVouches'
    <2>1. SUFFICES ASSUME NEW q \in Ranks, inbox[q].kind = "token"
                   PROVE  /\ inbox[q].hop < N - 1
                          /\ Heard(counter', Left(q), inbox[q].seq, inbox[q].hop)
                          /\ Counting(q)' /\ inbox[q].seq = counter'[q] =>
                                inbox[q].hop >= step'[q]
      BY <1>1 DEF InboxVouches
    <2>2. q # r
      BY <1>1, <2>1 DEF Empty
    <2> DEFINE k == inbox[q].seq
               h == inbox[q].hop
    <2>3. k \in Nat /\ h \in Nat
      <3>1. inbox[q] \in Messages \cup {Empty}
        BY <1>0 DEF RingTypeOK, Messages
      <3>2. QED
        BY <2>1, <3>1, TokenFields
    <2>4. h < N - 1 /\ Heard(counter, Left(q), k, h)
      BY <2>1 DEF RingInv, InboxVouches
    <2>5. Counting(q)' /\ k = counter'[q] => h >= step'[q]
      BY <1>2, <1>3, <1>5, <2>1, <2>2 DEF RingInv, InboxVouches
    <2> HIDE DEF k, h
    <2>6. Left(q) \in Ranks /\ h \in Int /\ h <= N - 1
      BY <2>3, <2>4, LeftIn, RingAssumption
    <2>7. Heard(counter', Left(q), k, h)
      <3>1. \A p \in Ranks : counter'[p] >= counter[p]
        BY <1>4
      <3>2. QED
        BY <1>3, <2>3, <2>4, <2>6, <3>1, HeardStays
    <2>8. QED
      BY <2>4, <2>5, <2>7 DEF k, h
  <1>9. Counting(r)' => counter'[r] = counter[r] + 1
    BY <1>3 DEF Counting, InBarrier
  <1>10. TokensBehind'
    <2>1. SUFFICES ASSUME NEW q \in Ranks, NEW i \in 1..Len(chan[q]),
                          Counting(q)', IsToken(chan[q][i], counter'[q])
                   PROVE  chan[q][i].hop < NextHop(q)'
      BY <1>1 DEF TokensBehind
    <2>2. CASE q = r
      <3>1. /\ chan[r][i].seq = counter[r] + 1 /\ chan[r][i].hop \in Nat
            /\ Heard(counter, r, chan[r][i].seq, chan[r][i].hop)
        BY <1>0, <1>9, <2>1, <2>2, SocketTokens DEF RingInv, TokensVouch, IsToken
      <3>2. counter[r] + 1 \in Nat
        BY <1>4
      <3>3. counter[r] >= counter[r] + 1
        BY <3>1, <3>2, HeardSelf
      <3>4. QED
        BY <1>4, <3>3
    <2>3. CASE q # r
      BY <1>3, <1>5, <2>1, <2>3 DEF RingInv, TokensBehind
    <2>4. QED
      BY <2>2, <2>3
  <1>11. TokensNeeded'
    <2>1. SUFFICES ASSUME NEW q \in Ranks, NEW i \in 1..Len(chan[Left(q)]),
                          Counting(q)', IsToken(chan[Left(q)][i], counter'[q])
                   PROVE  chan[Left(q)][i].hop >= Need(q)'
      BY <1>1 DEF TokensNeeded
    <2>2. CASE q = r
      <3>1. chan[Left(q)][i].hop \in Nat
        BY <1>0, <2>1, LeftIn, SocketTokens DEF IsToken
      <3>2. QED
        BY <1>6, <2>2, <3>1
    <2>3. CASE q # r
      BY <1>3, <1>5, <2>1, <2>3 DEF RingInv, TokensNeeded
    <2>4. QED
      BY <2>2, <2>3
  <1>12. NeighbourAhead'
    <2>1. SUFFICES ASSUME NEW q \in Ranks, Counting(q)', Counting(Left(q))',
                          counter'[Left(q)] = counter'[q]
                   PROVE  NextHop(Left(q))' >= Need(q)'
      BY DEF NeighbourAhead
    <2>2. Left(q) \in Ranks /\ Left(q) # q
      BY LeftIn
    <2>3. \A p \in Ranks : NextHop(p) \in Nat /\ step[p] \in Nat
      BY <1>0, HopsIn
    <2>4. CASE q = r
      <3>1. NextHop(Left(q))' = NextHop(Left(q)) /\ Need(q)' = 0
        BY <1>5, <1>6, <2>2, <2>4
      <3>2. QED
        BY <2>2, <2>3, <3>1
    <2>5. CASE Left(q) = r
      <3>1. Counting(q) /\ Need(q)' = Need(q) /\ counter[q] = counter[r] + 1
            /\ InBarrier(q) /\ FirstPhase(q)
        BY <1>3, <1>5, <1>9, <2>1, <2>2, <2>5 DEF Counting
      <3>2. counter[q] \in Nat /\ counter[r] \in Nat /\ step[q] \in Nat
        BY <1>4, <2>3
      <3>3. ~IsToken(inbox[q], counter[q])
        <4>1. SUFFICES ASSUME IsToken(inbox[q], counter[q]) PROVE FALSE
          OBVIOUS
        <4>2. Heard(counter, r, counter[q], inbox[q].hop)
          BY <2>5, <4>1 DEF RingInv, InboxVouches, IsToken
        <4>3. inbox[q].hop \in Nat
          <5>1. inbox[q] \in Messages \cup {Empty}
            BY <1>0 DEF RingTypeOK, Messages
          <5>2. QED
            BY <4>1, <5>1, TokenFields DEF IsToken
        <4>4. counter[r] >= counter[q]
          BY <3>2, <4>2, <4>3, HeardSelf
        <4>5. QED
          BY <3>1, <3>2, <4>4
      <3>4. step[q] = 0
        <4>1. Heard(counter, q, counter[q], step[q])
          BY <3>1 DEF RingInv, HasHeard
        <4>2. SUFFICES ASSUME step[q] >= 1 PROVE FALSE
          BY <3>2
        <4>3. counter[r] >= counter[q]
          BY <2>5, <3>2, <4>1, <4>2, HeardNeighbour
        <4>4. QED
          BY <3>1, <3>2, <4>3
      <3>5. Need(q) = 0
        BY <3>3, <3>4 DEF Need
      <3>6. QED
        BY <1>6, <2>5, <3>1, <3>5
    <2>6. CASE q # r /\ Left(q) # r
      BY <1>3, <1>5, <2>1, <2>2, <2>6 DEF RingInv, NeighbourAhead
    <2>7. QED
      BY <2>4, <2>5, <2>6
  <1>13. HasHeard'
    <2>1. SUFFICES ASSUME NEW q \in Ranks, InBarrier(q)'
                   PROVE  Heard(counter', q, counter'[q],
                                IF FirstPhase(q)' THEN step'[q] ELSE N - 1)
      BY DEF HasHeard, FirstPhase
    <2>2. CASE q = r
      <3>1. FirstPhase(r)' /\ step'[r] = 0
        BY <1>2, RingAssumption DEF FirstPhase
      <3>2. Back(r, 0) = r
        BY DEF Back, Ranks
      <3>3. Heard(counter', r, counter'[r], 0)
        BY <1>4, <3>2 DEF Heard
      <3>4. QED
        BY <2>2, <3>1, <3>3
    <2>3. CASE q # r
      <3> DEFINE d == IF FirstPhase(q) THEN step[q] ELSE N - 1
                 k == counter[q]
      <3>1. Heard(counter, q, k, d)
        BY <1>5, <2>1, <2>3 DEF RingInv, HasHeard
      <3>2. d \in Int /\ d <= N - 1 /\ k \in Nat
        BY <1>0, <1>4, HopsIn, RingAssumption DEF FirstPhase
      <3>3. (IF FirstPhase(q)' THEN step'[q] ELSE N - 1) = d /\ counter'[q] = k
        BY <1>2, <1>3, <1>5, <2>3
      <3> HIDE DEF d, k
      <3>4. \A p \in Ranks : counter'[p] >= counter[p]
        BY <1>4
      <3>5. Heard(counter', q, k, d)
        BY <1>3, <3>1, <3>2, <3>4, HeardStays
      <3>6. QED
        BY <3>3, <3>5
    <2>4. QED
      BY <2>2, <2>3
  <1>14. BarrierHolds'
    <2>1. \A p \in Ranks : crossed[p] \in Nat
      BY <1>0 DEF RingTypeOK
    <2>2. QED
      BY <1>1, <1>4, <2>1 DEF RingInv, BarrierHolds
  <1>15. QED
    BY <1>0, <1>7, <1>8, <1>10, <1>11, <1>12, <1>13, <1>14 DEF RingInv

(***************************************************************************)
(* The theorems.                                                           *)
(***************************************************************************)
LEMMA RingStarts == RingInit => RingInv
  <1>1. SUFFICES ASSUME RingInit PROVE RingInv
    OBVIOUS
  <1>2. RingTypeOK /\ HalvesOK
    BY <1>1, InitTypes
  <1>3. \A r \in Ranks : /\ status[r] = "between" /\ inbox[r] = Empty /\ chan[r] = <<>>
                         /\ counter[r] = 0 /\ crossed[r] = 0
    BY <1>1 DEF RingInit
  <1>4. \A r \in Ranks : ~InBarrier(r) /\ ~Counting(r) /\ inbox[r].kind # "token"
    BY <1>3 DEF InBarrier, Counting, Empty
  <1>5. \A r \in Ranks : Len(chan[r]) = 0 /\ Len(chan[Left(r)]) = 0
    BY <1>3, LeftIn
  <1>6. TokensVouch /\ TokensInOrder /\ TokensBehind /\ TokensNeeded
    BY <1>5 DEF TokensVouch, TokensInOrder, TokensBehind, TokensNeeded
  <1>7. InboxVouches /\ NeighbourAhead /\ HasHeard /\ BarrierHolds
    BY <1>3, <1>4 DEF InboxVouches, NeighbourAhead, HasHeard, BarrierHolds
  <1>8. QED
    BY <1>2, <1>6, <1>7 DEF RingInv

LEMMA RingStep == RingInv /\ [RingNext]_ringVars => RingInv'
  <1>1. SUFFICES ASSUME RingInv, [RingNext]_ringVars PROVE RingInv'
    OBVIOUS
  <1>2. ASSUME NEW r \in Ranks, Begin(r) PROVE RingInv'
    BY <1>1, <1>2, BeginInv
  <1>3. ASSUME NEW r \in Ranks, Send(r) PROVE RingInv'
    BY <1>1, <1>3, SendInv
  <1>4. ASSUME NEW r \in Ranks, Receive(r) PROVE RingInv'
    BY <1>1, <1>4, ReceiveInv
  <1>5. ASSUME NEW r \in Ranks, Advance(r) PROVE RingInv'
    BY <1>1, <1>5, AdvanceInv
  <1>6. ASSUME NEW r \in Ranks, Mismatch(r) PROVE RingInv'
    BY <1>1, <1>6, MismatchInv
  <1>7. ASSUME NEW r \in Ranks, Timeout(r) PROVE RingInv'
    BY <1>1, <1>7, TimeoutInv
  <1>8. ASSUME NEW r \in Ranks, WrongLength(r) PROVE RingInv'
    BY <1>1, <1>8, WrongLengthInv
  <1>9. CASE UNCHANGED ringVars
    BY <1>1, <1>9 DEF ringVars, RingInv, RingTypeOK, HalvesOK, TokensVouch, InboxVouches,
       TokensInOrder, TokensBehind, TokensNeeded, NeighbourAhead, HasHeard, BarrierHolds,
       Counting, InBarrier, FirstPhase, Op, NextHop, Need, IsToken, RightLength
  <1>10. QED
    BY <1>1, <1>2, <1>3, <1>4, <1>5, <1>6, <1>7, <1>8, <1>9 DEF RingNext, Works, Over

(* The inductive invariant holds for every world size of at least two and  *)
(* every program of barriers and all-reduces, through timeouts and retries *)
(* (ring.rs, barrier and all_reduce).                                      *)
THEOREM RingInvariance == RingSpec => []RingInv
  <1>1. RingInit => RingInv
    BY RingStarts
  <1>2. RingInv /\ [RingNext]_ringVars => RingInv'
    BY RingStep
  <1>3. QED
    BY <1>1, <1>2, PTL DEF RingSpec

(* A rank has crossed its k-th barrier only when every rank has begun its  *)
(* own: N - 1 tokens with the number it checks have come to it, and each   *)
(* was sent on by a rank that had begun.                                   *)
THEOREM BarrierSeparates == RingSpec => []BarrierHolds
  <1>1. RingInv => BarrierHolds
    BY DEF RingInv
  <1>2. QED
    BY <1>1, RingInvariance, PTL

(***************************************************************************)
(* The sums.  The state does not tell how many messages a rank has put     *)
(* into its socket, so the invariant says that a history exists which      *)
(* explains the state: p[r] counts the messages of r that are not lost,    *)
(* b[r][k] is p[r] when r began its k-th call, and t[r][k] counts the      *)
(* messages it had taken from its left neighbour by then.                  *)
(***************************************************************************)
Histories == [Ranks -> [1..Len(Calls) -> Nat]]

Bit(x) == IF x THEN 1 ELSE 0

\* The messages of its left neighbour that r has taken.
Removed(p, r) == p[Left(r)] - Len(chan[Left(r)])

\* The k-th call of r was an all-reduce and has returned Ok.
Summed(r, k) ==
    /\ Calls[k] = "all_reduce"
    /\ k < call[r] \/ (k = call[r] /\ status[r] = "between")

Reducing(r) == status[r] = "running" /\ Op(r) = "all_reduce"
GaveUp(r)   == status[r] = "failed" /\ Op(r) = "all_reduce"

(* The n ranks to the left of r have begun call k, by the calls c, and     *)
(* each began it with no more messages put than any rank between it and r  *)
(* had taken.                                                              *)
Linked(c, b, t, r, k, n) ==
    \A i \in 0..N : i <= n =>
        /\ k <= c[Back(r, i)]
        /\ \A j \in 0..N : j < i => b[Back(r, i)][k] <= t[Back(r, j)][k]

(* No message was on its way when call k began.                            *)
Aligned(c, b, t, k) ==
    \A q \in Ranks : k <= c[q] /\ k <= c[Left(q)] => b[Left(q)][k] = t[q][k]

\* What r and the d ranks to its left add in call k.
Share(r, d, k) == [q \in Ranks |-> IF \E j \in 0..d : Back(r, j) = q THEN k ELSE 0]

\* The ranks whose share a chunk has after h exchanges, but its sender.
Capped(h) == IF h < N - 1 THEN h ELSE N - 1

(* The same for the chunk j places to the left of the rank, which has made *)
(* s exchanges.                                                            *)
Width(s, j) ==
    IF s < N - 1 THEN (IF j <= s THEN j ELSE 0)
    ELSE (IF j < s - (N - 1) THEN N - 1 ELSE j)

(* The chunk m is the n-th message of q: it belongs to an exchange h of an *)
(* all-reduce k, which q would not have reached without its neighbours.    *)
Placed(c, b, t, q, m, n) ==
    \E k \in 1..c[q], h \in 0..(Exchanges - 1) :
        /\ Calls[k] = "all_reduce"
        /\ n = b[q][k] + h + 1
        /\ Linked(c, b, t, q, k, h)
        /\ Aligned(c, b, t, k) => m.data = Share(q, Capped(h), k)

(* Nobody has taken more messages than it had put when a call began.       *)
Surplus(c, b, t) == \A r \in Ranks : \A k \in 1..c[r] : t[r][k] <= b[r][k]

\* An all-reduce that is over took all its messages.
Spaced(c, b, t) ==
    \A r \in Ranks : \A k, l \in 1..c[r] :
        k < l /\ Calls[k] = "all_reduce" =>
            b[r][k] + Exchanges <= b[r][l] /\ t[r][k] + Exchanges <= t[r][l]

\* In every exchange a rank puts a message before it takes one.
Credit(p) ==
    \A r \in Ranks : ~GaveUp(r) =>
        Removed(p, r) + Bit(sent[r]) <= p[r] + Bit(inbox[r] # Empty)

InReduction(p, b, t) ==
    \A r \in Ranks : Reducing(r) =>
        /\ p[r] = b[r][call[r]] + step[r] + Bit(sent[r])
        /\ Removed(p, r) = t[r][call[r]] + step[r] + Bit(inbox[r] # Empty)
        /\ Linked(call, b, t, r, call[r], step[r])

AfterReduction(p, b, t) ==
    \A r \in Ranks : \A k \in 1..call[r] : Summed(r, k) =>
        /\ b[r][k] + Exchanges <= p[r]
        /\ t[r][k] + Exchanges <= Removed(p, r)
        /\ Linked(call, b, t, r, k, N)

ChunksPlaced(p, b, t) ==
    \A q \in Ranks : \A i \in 1..Len(chan[q]) : chan[q][i].kind = "chunk" =>
        Placed(call, b, t, q, chan[q][i], p[q] - Len(chan[q]) + i)

InboxPlaced(p, b, t) ==
    \A r \in Ranks : Reducing(r) /\ inbox[r] # Empty =>
        Placed(call, b, t, Left(r), inbox[r], Removed(p, r))

\* The buffers, where nobody is out of step.
BuffersRight(b, t) ==
    \A r \in Ranks :
        call[r] > 0 /\ Op(r) = "all_reduce" /\ Aligned(call, b, t, call[r]) =>
            \A j \in 0..(N - 1) : buf[r][Back(r, j)] = Share(r, Width(step[r], j), call[r])

History(p, b, t) ==
    /\ p \in [Ranks -> Nat] /\ b \in Histories /\ t \in Histories
    /\ \A r \in Ranks : Removed(p, r) \in Nat
    /\ Surplus(call, b, t) /\ Spaced(call, b, t)
    /\ Credit(p) /\ InReduction(p, b, t) /\ AfterReduction(p, b, t)
    /\ ChunksPlaced(p, b, t) /\ InboxPlaced(p, b, t) /\ BuffersRight(b, t)

\* A call that has returned Ok has made all its exchanges.
Finished == \A r \in Ranks : call[r] > 0 /\ status[r] = "between" => step[r] = Exchanges

Explained == Finished /\ \E p, b, t : History(p, b, t)

(***************************************************************************)
(* The ring, all the way round.                                            *)
(***************************************************************************)
LEMMA BackTo ==
    ASSUME NEW r \in Ranks, NEW d \in 0..N
    PROVE  Back(r, d) \in Ranks /\ Back(r, 0) = r /\ Back(r, N) = r
  BY RingAssumption DEF Ranks, Back

LEMMA BackOn ==
    ASSUME NEW r \in Ranks, NEW d \in 0..(N - 1)
    PROVE  /\ d + 1 \in 0..N
           /\ Back(Left(r), d) = Back(r, d + 1)
           /\ Left(Back(r, d)) = Back(r, d + 1)
  BY RingAssumption DEF Ranks, Left, Back

LEMMA BackDiffer ==
    ASSUME NEW r \in Ranks, NEW d \in 0..(N - 1), NEW e \in 0..(N - 1), Back(r, d) = Back(r, e)
    PROVE  d = e
  BY RingAssumption DEF Ranks, Back

(***************************************************************************)
(* What a chunk holds.                                                     *)
(***************************************************************************)
\* The places of the chunks a rank sends and receives after s exchanges.
SendPlace(s) == IF s < N THEN s ELSE s - N
RecvPlace(s) == IF s < N - 1 THEN s + 1 ELSE s - (N - 1)

LEMMA Places ==
    ASSUME NEW s \in 0..(Exchanges - 1)
    PROVE  SendPlace(s) \in 0..(N - 1) /\ RecvPlace(s) \in 0..(N - 1)
  BY RingAssumption DEF SendPlace, RecvPlace, Exchanges

LEMMA SendsPlace ==
    ASSUME NEW r \in Ranks, step[r] \in 0..(Exchanges - 1)
    PROVE  SendChunk(r) = Back(r, SendPlace(step[r]))
  <1> DEFINE s == step[r]
  <1>1. CASE s < N - 1
    BY <1>1, RingAssumption DEF SendChunk, FirstPhase, SendPlace
  <1>2. CASE ~(s < N - 1)
    <2>1. SendChunk(r) = Back(Back(r, s - (N - 1)), N - 1)
      BY <1>2 DEF SendChunk, FirstPhase, Right
    <2>2. s \in Int /\ s - (N - 1) \in 0..(N - 2)
      BY <1>2, RingAssumption DEF Exchanges
    <2> HIDE DEF s
    <2>3. Back(Back(r, s - (N - 1)), N - 1) = Back(r, IF s < N THEN s ELSE s - N)
      BY <1>2, <2>2, RingAssumption DEF Ranks, Back
    <2>4. QED
      BY <2>1, <2>3 DEF SendPlace, s
  <1>3. QED
    BY <1>1, <1>2

LEMMA ReceivesPlace ==
    ASSUME NEW r \in Ranks, step[r] \in 0..(Exchanges - 1)
    PROVE  RecvChunk(r) = Back(r, RecvPlace(step[r]))
  <1> DEFINE s == step[r]
  <1>1. SendChunk(r) = Back(r, SendPlace(s)) /\ SendPlace(s) \in 0..(N - 1)
    BY SendsPlace, Places
  <1>2. RecvChunk(r) = Back(r, SendPlace(s) + 1)
    BY <1>1, BackOn DEF RecvChunk
  <1>3. CASE s = N - 1
    <2>1. SendPlace(s) + 1 = N /\ RecvPlace(s) = 0
      BY <1>3, RingAssumption DEF SendPlace, RecvPlace
    <2>2. QED
      BY <1>2, <2>1, BackTo, RingAssumption
  <1>4. CASE s # N - 1
    <2>1. SendPlace(s) + 1 = RecvPlace(s)
      BY <1>4, RingAssumption DEF SendPlace, RecvPlace, Exchanges
    <2>2. QED
      BY <1>2, <2>1
  <1>5. QED
    BY <1>3, <1>4

LEMMA ShareIs ==
    ASSUME NEW r \in Ranks, NEW d \in 0..(N - 1), NEW k \in Nat, NEW j \in 0..(N - 1)
    PROVE  Share(r, d, k)[Back(r, j)] = IF j <= d THEN k ELSE 0
  <1>1. Back(r, j) \in Ranks
    BY BackIn
  <1>2. (\E i \in 0..d : Back(r, i) = Back(r, j)) <=> j <= d
    <2>1. ASSUME NEW i \in 0..d, Back(r, i) = Back(r, j) PROVE j <= d
      <3>1. i \in 0..(N - 1)
        BY RingAssumption
      <3>2. i = j
        BY <2>1, <3>1, BackDiffer
      <3>3. QED
        BY <3>2
    <2>2. QED
      BY <2>1
  <1>3. QED
    BY <1>1, <1>2 DEF Share

LEMMA ShareOwn ==
    ASSUME NEW r \in Ranks, NEW k \in Nat
    PROVE  Own(r, k) = Share(r, 0, k)
  <1>1. \A q \in Ranks : (\E j \in 0..0 : Back(r, j) = q) <=> q = r
    BY BackTo, RingAssumption
  <1>2. QED
    BY <1>1 DEF Own, Share

LEMMA ShareAll ==
    ASSUME NEW r \in Ranks, NEW k \in Nat
    PROVE  Share(r, N - 1, k) = [q \in Ranks |-> k]
  BY BackReaches DEF Share

(* Scatter-reduce: the neighbour's partial sum and one's own make the next *)
(* partial sum.                                                            *)
LEMMA ShareMore ==
    ASSUME NEW r \in Ranks, NEW d \in 0..(N - 2), NEW k \in Nat
    PROVE  Plus(Share(r, 0, k), Share(Left(r), d, k)) = Share(r, d + 1, k)
  <1>1. SUFFICES ASSUME NEW q \in Ranks
                 PROVE  Share(r, 0, k)[q] + Share(Left(r), d, k)[q] = Share(r, d + 1, k)[q]
    BY DEF Plus, Share
  <1>2. PICK j \in 0..(N - 1) : Back(r, j) = q
    BY BackReaches
  <1>3. d + 1 \in 0..(N - 1) /\ 0 \in 0..(N - 1) /\ d \in 0..(N - 1)
    BY RingAssumption
  <1>4. Share(r, 0, k)[q] = (IF j <= 0 THEN k ELSE 0)
        /\ Share(r, d + 1, k)[q] = (IF j <= d + 1 THEN k ELSE 0)
    BY <1>2, <1>3, ShareIs
  <1>5. CASE j = 0
    <2>1. Back(Left(r), N - 1) = q
      BY <1>2, <1>5, BackOn, BackTo, RingAssumption
    <2>2. Share(Left(r), d, k)[q] = (IF N - 1 <= d THEN k ELSE 0)
      BY <1>3, <2>1, LeftIn, ShareIs, RingAssumption
    <2>3. QED
      BY <1>4, <1>5, <2>2, RingAssumption
  <1>6. CASE j > 0
    <2>1. j - 1 \in 0..(N - 1) /\ (j - 1) + 1 = j
      BY <1>6, RingAssumption
    <2>2. Back(Left(r), j - 1) = q
      BY <1>2, <2>1, BackOn
    <2>3. Share(Left(r), d, k)[q] = (IF j - 1 <= d THEN k ELSE 0)
      BY <1>3, <2>1, <2>2, LeftIn, ShareIs
    <2>4. QED
      BY <1>4, <1>6, <2>3
  <1>7. QED
    BY <1>5, <1>6

LEMMA SentWidth ==
    ASSUME NEW s \in 0..(Exchanges - 1)
    PROVE  Width(s, SendPlace(s)) = Capped(s) /\ Capped(s) \in 0..(N - 1)
  BY RingAssumption DEF Width, SendPlace, Capped, Exchanges

LEMMA WidthIn ==
    ASSUME NEW s \in 0..Exchanges, NEW j \in 0..(N - 1)
    PROVE  Width(s, j) \in 0..(N - 1)
  BY RingAssumption DEF Width, Exchanges

\* An exchange widens the chunk that it receives, and no other.
LEMMA WidthStep ==
    ASSUME NEW s \in 0..(Exchanges - 1), NEW j \in 0..(N - 1)
    PROVE  /\ j # RecvPlace(s) => Width(s + 1, j) = Width(s, j)
           /\ j = RecvPlace(s) /\ s < N - 1 => Width(s, j) = 0 /\ Width(s + 1, j) = s + 1
           /\ j = RecvPlace(s) /\ ~(s < N - 1) => Width(s + 1, j) = N - 1
  BY RingAssumption DEF Width, RecvPlace, Exchanges

\* After the last exchange every chunk is whole.
LEMMA WidthEnd ==
    ASSUME NEW j \in 0..(N - 1)
    PROVE  Width(Exchanges, j) = N - 1
  BY RingAssumption DEF Width, Exchanges

LEMMA CombinedRight ==
    ASSUME RingTypeOK, NEW r \in Ranks, Op(r) = "all_reduce", step[r] \in 0..(Exchanges - 1),
           NEW k \in Nat, NEW m, m.data = Share(Left(r), Capped(step[r]), k),
           \A j \in 0..(N - 1) : buf[r][Back(r, j)] = Share(r, Width(step[r], j), k)
    PROVE  \A j \in 0..(N - 1) : Combined(r, m)[Back(r, j)] = Share(r, Width(step[r] + 1, j), k)
  <1> DEFINE s == step[r]
             e == RecvPlace(s)
             mine == buf[r]
             new == IF s < N - 1 THEN Plus(mine[Back(r, e)], m.data) ELSE m.data
  <1>1. /\ RecvChunk(r) = Back(r, e) /\ e \in 0..(N - 1)
        /\ mine \in [Ranks -> Sums] /\ Back(r, e) \in Ranks
    BY ReceivesPlace, Places, BackIn DEF RingTypeOK
  <1>2. Combined(r, m) = [mine EXCEPT ![Back(r, e)] = new]
    BY <1>1 DEF Combined, FirstPhase
  <1>3. SUFFICES ASSUME NEW j \in 0..(N - 1)
                 PROVE  Combined(r, m)[Back(r, j)] = Share(r, Width(s + 1, j), k)
    OBVIOUS
  <1>4. /\ mine[Back(r, j)] = Share(r, Width(s, j), k)
        /\ mine[Back(r, e)] = Share(r, Width(s, e), k)
        /\ m.data = Share(Left(r), Capped(s), k) /\ Back(r, j) \in Ranks
    BY <1>1, BackIn
  <1>5. CASE j # e
    <2>1. Back(r, j) # Back(r, e)
      BY <1>1, <1>5, BackDiffer
    <2>2. Width(s + 1, j) = Width(s, j)
      BY <1>5, WidthStep
    <2> HIDE DEF s, e, mine, new
    <2>3. QED
      BY <1>1, <1>2, <1>4, <2>1, <2>2
  <1>6. CASE j = e
    <2>1. new = Share(r, Width(s + 1, j), k)
      <3>1. CASE s < N - 1
        <4>1. Width(s, e) = 0 /\ Width(s + 1, j) = s + 1 /\ Capped(s) = s /\ s \in 0..(N - 2)
          BY <1>1, <1>6, <3>1, WidthStep, RingAssumption DEF Capped
        <4>2. Plus(Share(r, 0, k), Share(Left(r), s, k)) = Share(r, s + 1, k)
          BY <4>1, ShareMore
        <4>3. QED
          BY <1>4, <3>1, <4>1, <4>2
      <3>2. CASE ~(s < N - 1)
        <4>1. Width(s + 1, j) = N - 1 /\ Capped(s) = N - 1
          BY <1>6, <3>2, WidthStep DEF Capped
        <4>2. Share(Left(r), N - 1, k) = Share(r, N - 1, k)
          BY LeftIn, ShareAll
        <4>3. QED
          BY <1>4, <3>2, <4>1, <4>2
      <3>3. QED
        BY <3>1, <3>2
    <2> HIDE DEF s, e, mine, new
    <2>2. QED
      BY <1>1, <1>2, <1>6, <2>1
  <1>7. QED
    BY <1>5, <1>6

(***************************************************************************)
(* Links.                                                                  *)
(***************************************************************************)
LEMMA LinkedLess ==
    ASSUME NEW c, NEW b, NEW t, NEW r, NEW k, NEW n \in Int, NEW m \in Int, m <= n,
           Linked(c, b, t, r, k, n)
    PROVE  Linked(c, b, t, r, k, m)
  BY RingAssumption DEF Linked

LEMMA LinkedSelf ==
    ASSUME NEW c, NEW b, NEW t, NEW r \in Ranks, NEW k, k <= c[r]
    PROVE  Linked(c, b, t, r, k, 0)
  BY BackTo, RingAssumption DEF Linked

\* A link lengthens the chain of its left neighbour by one.
LEMMA LinkedOn ==
    ASSUME NEW c \in [Ranks -> 0..Len(Calls)], NEW b \in Histories, NEW t \in Histories,
           Surplus(c, b, t), NEW r \in Ranks, NEW k \in 1..Len(Calls), NEW n \in Nat,
           Linked(c, b, t, Left(r), k, n), k <= c[r], b[Left(r)][k] <= t[r][k]
    PROVE  Linked(c, b, t, r, k, n + 1)
  <1> DEFINE x == Left(r)
  <1>1. x \in Ranks /\ Back(r, 0) = r /\ Back(x, 0) = x /\ 0 \in 0..N /\ N \in Nat
    BY LeftIn, BackTo, RingAssumption
  <1>2. \A q \in Ranks : b[q][k] \in Nat /\ t[q][k] \in Nat
    BY DEF Histories
  <1>3. k <= c[x] /\ c[x] \in 0..Len(Calls)
    BY <1>1 DEF Linked
  <1>4. k \in 1..c[x] /\ t[x][k] <= b[x][k]
    BY <1>1, <1>3 DEF Surplus
  <1>5. SUFFICES ASSUME NEW i \in 0..N, i <= n + 1
                 PROVE  /\ k <= c[Back(r, i)]
                        /\ \A j \in 0..N : j < i => b[Back(r, i)][k] <= t[Back(r, j)][k]
    BY DEF Linked
  <1>6. CASE i = 0
    BY <1>1, <1>6
  <1>7. CASE i > 0
    <2>1. i - 1 \in 0..(N - 1) /\ i - 1 \in 0..N /\ i - 1 <= n /\ (i - 1) + 1 = i
      BY <1>5, <1>7, RingAssumption
    <2>2. Back(r, i) = Back(x, i - 1) /\ Back(x, i - 1) \in Ranks
      BY <1>1, <2>1, BackOn, BackTo
    <2>3. /\ k <= c[Back(x, i - 1)]
          /\ \A j \in 0..N : j < i - 1 => b[Back(x, i - 1)][k] <= t[Back(x, j)][k]
      BY <2>1 DEF Linked
    <2>4. ASSUME NEW j \in 0..N, j < i PROVE b[Back(r, i)][k] <= t[Back(r, j)][k]
      <3>1. CASE j = 0
        <4>1. CASE i = 1
          BY <1>1, <2>2, <3>1, <4>1
        <4>2. CASE i > 1
          <5>1. b[Back(x, i - 1)][k] <= t[x][k]
            BY <1>1, <2>1, <2>3, <4>2
          <5>2. b[Back(x, i - 1)][k] <= t[r][k]
            BY <1>1, <1>2, <1>4, <2>2, <5>1
          <5>3. QED
            BY <1>1, <2>2, <3>1, <5>2
        <4>3. QED
          BY <1>7, <4>1, <4>2
      <3>2. CASE j > 0
        <4>1. j - 1 \in 0..(N - 1) /\ j - 1 \in 0..N /\ j - 1 < i - 1 /\ (j - 1) + 1 = j
          BY <2>4, <3>2, RingAssumption
        <4>2. Back(r, j) = Back(x, j - 1)
          BY <4>1, BackOn
        <4>3. QED
          BY <2>2, <2>3, <4>1, <4>2
      <3>3. QED
        BY <3>1, <3>2
    <2>5. QED
      BY <2>2, <2>3, <2>4
  <1>8. QED
    BY <1>6, <1>7

(* A chain that goes all the way round has no slack anywhere: every rank   *)
(* has begun the call, and no message was on its way.                      *)
LEMMA LinkedRound ==
    ASSUME NEW c \in [Ranks -> 0..Len(Calls)], NEW b \in Histories, NEW t \in Histories,
           Surplus(c, b, t), NEW r \in Ranks, NEW k \in 1..Len(Calls),
           Linked(c, b, t, r, k, N), NEW q \in Ranks
    PROVE  k <= c[q] /\ b[Left(q)][k] = t[q][k] /\ b[q][k] = t[q][k]
  <1>1. PICK j \in 0..(N - 1) : Back(r, j) = q
    BY BackReaches
  <1>2. /\ j \in 0..N /\ j + 1 \in 0..N /\ 0 \in 0..N /\ N \in 0..N /\ j < j + 1 /\ j <= N
        /\ j + 1 <= N /\ N <= N /\ 0 < N /\ j < N
    BY RingAssumption
  <1>3. Back(r, j + 1) = Left(q) /\ Back(r, 0) = r /\ Back(r, N) = r /\ Left(q) \in Ranks
    BY <1>1, <1>2, BackOn, BackTo, LeftIn
  <1>4. \A x \in Ranks : b[x][k] \in Nat /\ t[x][k] \in Nat
    BY DEF Histories
  <1>5. \A x \in Ranks : k <= c[x] => t[x][k] <= b[x][k]
    BY DEF Surplus
  <1>6. \A i \in 0..N : /\ k <= c[Back(r, i)]
                        /\ \A l \in 0..N : l < i => b[Back(r, i)][k] <= t[Back(r, l)][k]
    BY RingAssumption DEF Linked
  <1>7. k <= c[q] /\ k <= c[r] /\ k <= c[Left(q)]
    BY <1>1, <1>2, <1>3, <1>6
  <1>8. b[Left(q)][k] <= t[q][k]
    BY <1>1, <1>2, <1>3, <1>6
  <1>9. b[q][k] <= b[r][k]
    <2>1. CASE j = 0
      BY <1>1, <1>3, <1>4, <2>1
    <2>2. CASE j > 0
      <3>1. b[q][k] <= t[r][k]
        BY <1>1, <1>2, <1>3, <1>6, <2>2
      <3>2. QED
        BY <1>4, <1>5, <1>7, <3>1
    <2>3. QED
      BY <2>1, <2>2
  <1>10. b[r][k] <= b[Left(q)][k]
    <2>1. CASE j + 1 = N
      BY <1>3, <1>4, <2>1
    <2>2. CASE j + 1 < N
      <3>1. b[r][k] <= t[Left(q)][k]
        BY <1>2, <1>3, <1>6, <2>2
      <3>2. QED
        BY <1>3, <1>4, <1>5, <1>7, <3>1
    <2>3. QED
      BY <1>2, <2>1, <2>2
  <1>11. t[q][k] <= b[q][k]
    BY <1>5, <1>7
  <1>12. QED
    BY <1>3, <1>4, <1>7, <1>8, <1>9, <1>10, <1>11

(***************************************************************************)
(* A history that goes on keeps what it said.                              *)
(***************************************************************************)
GoesOn(c, b, t, d, v, w) ==
    \A q \in Ranks : c[q] <= d[q] /\ \A k \in 1..c[q] : v[q][k] = b[q][k] /\ w[q][k] = t[q][k]

LEMMA LinkedStays ==
    ASSUME NEW c \in [Ranks -> 0..Len(Calls)], NEW d \in [Ranks -> 0..Len(Calls)],
           NEW b, NEW t, NEW v, NEW w, GoesOn(c, b, t, d, v, w),
           NEW r \in Ranks, NEW k \in 1..Len(Calls), NEW n \in Int, Linked(c, b, t, r, k, n)
    PROVE  Linked(d, v, w, r, k, n)
  <1>1. SUFFICES ASSUME NEW i \in 0..N, i <= n
                 PROVE  /\ k <= d[Back(r, i)]
                        /\ \A j \in 0..N : j < i => v[Back(r, i)][k] <= w[Back(r, j)][k]
    BY DEF Linked
  <1>2. \A x \in Ranks : k <= c[x] => k <= d[x] /\ v[x][k] = b[x][k] /\ w[x][k] = t[x][k]
    BY DEF GoesOn
  <1>3. \A j \in 0..N : j <= i => Back(r, j) \in Ranks /\ k <= c[Back(r, j)]
    BY <1>1, BackTo, RingAssumption DEF Linked
  <1>4. \A j \in 0..N : j < i => b[Back(r, i)][k] <= t[Back(r, j)][k]
    BY <1>1 DEF Linked
  <1>5. QED
    BY <1>2, <1>3, <1>4, RingAssumption

LEMMA AlignedBefore ==
    ASSUME NEW c \in [Ranks -> 0..Len(Calls)], NEW d \in [Ranks -> 0..Len(Calls)],
           NEW b, NEW t, NEW v, NEW w, GoesOn(c, b, t, d, v, w),
           NEW k \in 1..Len(Calls), Aligned(d, v, w, k)
    PROVE  Aligned(c, b, t, k)
  <1>1. SUFFICES ASSUME NEW q \in Ranks, k <= c[q], k <= c[Left(q)]
                 PROVE  b[Left(q)][k] = t[q][k]
    BY DEF Aligned
  <1>2. \A x \in Ranks : k <= c[x] => k <= d[x] /\ v[x][k] = b[x][k] /\ w[x][k] = t[x][k]
    BY DEF GoesOn
  <1>3. QED
    BY <1>1, <1>2, LeftIn DEF Aligned

LEMMA PlacedStays ==
    ASSUME NEW c \in [Ranks -> 0..Len(Calls)], NEW d \in [Ranks -> 0..Len(Calls)],
           NEW b, NEW t, NEW v, NEW w, GoesOn(c, b, t, d, v, w),
           NEW q \in Ranks, NEW m, NEW n, Placed(c, b, t, q, m, n)
    PROVE  Placed(d, v, w, q, m, n)
  <1>1. PICK k \in 1..c[q], h \in 0..(Exchanges - 1) :
           /\ Calls[k] = "all_reduce"
           /\ n = b[q][k] + h + 1
           /\ Linked(c, b, t, q, k, h)
           /\ Aligned(c, b, t, k) => m.data = Share(q, Capped(h), k)
    BY DEF Placed
  <1>2. k \in 1..d[q] /\ k \in 1..Len(Calls) /\ v[q][k] = b[q][k] /\ h \in Int
    BY DEF GoesOn
  <1>3. Linked(d, v, w, q, k, h)
    BY <1>1, <1>2, LinkedStays
  <1>4. Aligned(d, v, w, k) => Aligned(c, b, t, k)
    BY <1>2, AlignedBefore
  <1>5. QED
    BY <1>1, <1>2, <1>3, <1>4 DEF Placed

(***************************************************************************)
(* What a rank meets, and what it sends.                                   *)
(***************************************************************************)
LEMMA HistoryFacts ==
    ASSUME RingTypeOK, HalvesOK, NEW p, NEW b, NEW t, History(p, b, t)
    PROVE  /\ call \in [Ranks -> 0..Len(Calls)] /\ Len(Calls) \in Nat
           /\ p \in [Ranks -> Nat] /\ b \in Histories /\ t \in Histories
           /\ \A r \in Ranks : Removed(p, r) \in Nat
           /\ \A r \in Ranks : \A k \in 1..Len(Calls) : b[r][k] \in Nat /\ t[r][k] \in Nat
           /\ \A r \in Ranks : Reducing(r) =>
                 /\ call[r] \in 1..Len(Calls) /\ Calls[call[r]] = "all_reduce"
                 /\ step[r] \in 0..(Exchanges - 1)
  <1>1. \A r \in Ranks : Reducing(r) =>
           /\ call[r] \in 1..Len(Calls) /\ Calls[call[r]] = "all_reduce"
           /\ step[r] \in 0..(Exchanges - 1)
    BY ExchangesPositive DEF RingTypeOK, HalvesOK, Reducing, Op
  <1>2. Len(Calls) \in Nat
    BY RingAssumption, LenProperties
  <1>3. QED
    BY <1>1, <1>2 DEF History, Histories, RingTypeOK

(* The chunk that a rank meets in exchange s of an all-reduce is of the    *)
(* same call, and of exchange s or a later one; so its left neighbour      *)
(* began the call with no more messages put than the rank had taken.       *)
LEMMA Meets ==
    ASSUME RingTypeOK, HalvesOK, NEW p, NEW b, NEW t, History(p, b, t),
           NEW r \in Ranks, Reducing(r),
           NEW m, Placed(call, b, t, Left(r), m, t[r][call[r]] + step[r] + 1)
    PROVE  /\ Linked(call, b, t, r, call[r], step[r] + 1)
           /\ Aligned(call, b, t, call[r]) => m.data = Share(Left(r), Capped(step[r]), call[r])
  <1> DEFINE x == Left(r)
             k == call[r]
             s == step[r]
  <1>1. /\ call \in [Ranks -> 0..Len(Calls)] /\ b \in Histories /\ t \in Histories
        /\ \A q \in Ranks : \A l \in 1..Len(Calls) : b[q][l] \in Nat /\ t[q][l] \in Nat
        /\ k \in 1..Len(Calls) /\ Calls[k] = "all_reduce" /\ s \in 0..(Exchanges - 1)
        /\ Surplus(call, b, t) /\ x \in Ranks /\ Exchanges \in Nat
    BY HistoryFacts, LeftIn, ExchangesPositive DEF History
  <1>2. PICK l \in 1..call[x], h \in 0..(Exchanges - 1) :
           /\ Calls[l] = "all_reduce"
           /\ t[r][k] + s + 1 = b[x][l] + h + 1
           /\ Linked(call, b, t, x, l, h)
           /\ Aligned(call, b, t, l) => m.data = Share(x, Capped(h), l)
    BY DEF Placed
  <1>3. l \in 1..Len(Calls) /\ call[x] \in 0..Len(Calls)
    BY <1>1
  <1>4. ~(l > k)
    <2>1. SUFFICES ASSUME l > k PROVE FALSE
      OBVIOUS
    <2>2. k \in 1..call[x] /\ Summed(x, k)
      BY <1>1, <1>3, <2>1 DEF Summed
    <2>3. Linked(call, b, t, x, k, N)
      BY <1>1, <2>2 DEF History, AfterReduction
    <2>4. b[x][k] = t[r][k]
      BY <1>1, <2>3, LinkedRound
    <2>5. b[x][k] + Exchanges <= b[x][l]
      BY <1>1, <2>1, <2>2 DEF History, Spaced
    <2> HIDE DEF x, k, s
    <2>6. /\ b[x][k] \in Nat /\ b[x][l] \in Nat /\ t[r][k] \in Nat
          /\ s \in 0..(Exchanges - 1) /\ Exchanges \in Nat
          /\ t[r][k] + s + 1 = b[x][l] + h + 1
      BY <1>1, <1>2, <1>3
    <2>7. QED
      BY <2>4, <2>5, <2>6
  <1>5. ~(l < k)
    <2>1. SUFFICES ASSUME l < k PROVE FALSE
      OBVIOUS
    <2>2. l \in 1..call[r] /\ k \in 1..call[r] /\ Summed(r, l)
      BY <1>1, <1>2, <2>1 DEF Summed
    <2>3. Linked(call, b, t, r, l, N)
      BY <2>2 DEF History, AfterReduction
    <2>4. b[x][l] = t[r][l]
      BY <1>1, <1>3, <2>3, LinkedRound
    <2>5. t[r][l] + Exchanges <= t[r][k]
      BY <1>2, <2>1, <2>2 DEF History, Spaced
    <2> HIDE DEF x, k, s
    <2>6. /\ b[x][l] \in Nat /\ t[r][l] \in Nat /\ t[r][k] \in Nat
          /\ s \in 0..(Exchanges - 1) /\ Exchanges \in Nat
          /\ t[r][k] + s + 1 = b[x][l] + h + 1
      BY <1>1, <1>2, <1>3
    <2>7. QED
      BY <2>4, <2>5, <2>6
  <1>6. l = k
    BY <1>1, <1>3, <1>4, <1>5
  <1>7. Linked(call, b, t, r, k, s)
    BY DEF History, InReduction
  <1>8. b[x][k] <= t[r][k] /\ s <= h
    <2>1. CASE s = 0
      BY <1>1, <1>2, <1>6, <2>1
    <2>2. CASE s > 0
      <3>1. 1 \in 0..N /\ 0 \in 0..N /\ 1 <= s /\ Back(r, 0) = r /\ Back(r, 1) = x
        BY <1>1, <2>2, RingAssumption, BackTo DEF Left
      <3>2. b[x][k] <= t[r][k]
        BY <1>7, <3>1 DEF Linked
      <3> HIDE DEF x, k, s
      <3>3. QED
        BY <1>1, <1>2, <1>6, <3>2
    <2>3. QED
      BY <1>1, <2>1, <2>2
  <1>9. Linked(call, b, t, x, k, s)
    BY <1>1, <1>2, <1>6, <1>8, LinkedLess
  <1>10. Linked(call, b, t, r, k, s + 1)
    <2>1. s \in Nat /\ k <= call[r]
      BY <1>1
    <2>2. QED
      BY <1>1, <1>8, <1>9, <2>1, LinkedOn
  <1>11. ASSUME Aligned(call, b, t, k) PROVE m.data = Share(x, Capped(s), k)
    <2>1. k <= call[r] /\ k <= call[x]
      BY <1>1, <1>2, <1>6
    <2>2. b[x][k] = t[r][k]
      BY <1>11, <2>1 DEF Aligned
    <2>3. h = s
      <3> HIDE DEF x, k, s
      <3>1. QED
        BY <1>1, <1>2, <1>6, <2>2
    <2>4. QED
      BY <1>2, <1>6, <1>11, <2>3
  <1>12. QED
    BY <1>10, <1>11

(* The chunk that a rank sends is the one its place in the program says.   *)
LEMMA SentPlaced ==
    ASSUME RingTypeOK, HalvesOK, NEW p, NEW b, NEW t, History(p, b, t),
           NEW r \in Ranks, Reducing(r), ~sent[r]
    PROVE  Placed(call, b, t, r, Message(r), p[r] + 1)
  <1> DEFINE k == call[r]
             s == step[r]
  <1>1. /\ call \in [Ranks -> 0..Len(Calls)] /\ p[r] \in Nat
        /\ k \in 1..Len(Calls) /\ Calls[k] = "all_reduce" /\ s \in 0..(Exchanges - 1)
        /\ b[r][k] \in Nat
    BY HistoryFacts
  <1>2. k \in 1..call[r]
    BY <1>1
  <1>3. p[r] = b[r][k] + s + 0
    BY DEF History, InReduction, Bit
  <1>4. Linked(call, b, t, r, k, s)
    BY DEF History, InReduction
  <1>5. Message(r).data = buf[r][Back(r, SendPlace(s))]
    BY <1>1, SendsPlace DEF Message, Reducing
  <1>6. ASSUME Aligned(call, b, t, k) PROVE Message(r).data = Share(r, Capped(s), k)
    <2>1. SendPlace(s) \in 0..(N - 1) /\ Width(s, SendPlace(s)) = Capped(s)
      BY <1>1, Places, SentWidth
    <2>2. buf[r][Back(r, SendPlace(s))] = Share(r, Width(s, SendPlace(s)), k)
      BY <1>1, <1>6, <2>1 DEF History, BuffersRight, Reducing
    <2>3. QED
      BY <1>5, <2>1, <2>2
  <1>7. p[r] + 1 = b[r][k] + s + 1
    <2> HIDE DEF k, s
    <2>1. QED
      BY <1>1, <1>3
  <1> HIDE DEF k, s
  <1>8. QED
    BY <1>1, <1>2, <1>4, <1>6, <1>7 DEF Placed

(***************************************************************************)
(* The steps.                                                              *)
(***************************************************************************)
LEMMA InitExplained == RingInit => Explained
  <1>1. SUFFICES ASSUME RingInit PROVE Explained
    OBVIOUS
  <1> DEFINE p == [r \in Ranks |-> 0]
             b == [r \in Ranks |-> [k \in 1..Len(Calls) |-> 0]]
  <1>2. p \in [Ranks -> Nat] /\ b \in Histories
    BY DEF Histories
  <1>3. \A r \in Ranks : /\ call[r] = 0 /\ status[r] = "between" /\ inbox[r] = Empty
                         /\ sent[r] = FALSE /\ chan[r] = <<>>
    BY <1>1 DEF RingInit
  <1>4. \A r \in Ranks : Removed(p, r) = 0 /\ p[r] = 0 /\ Len(chan[r]) = 0
    BY <1>3, LeftIn DEF Removed
  <1>5. \A r \in Ranks : ~Reducing(r) /\ ~(1 <= call[r])
    BY <1>3 DEF Reducing
  <1>6. Surplus(call, b, b) /\ Spaced(call, b, b) /\ AfterReduction(p, b, b)
    BY <1>3 DEF Surplus, Spaced, AfterReduction
  <1>7. Credit(p) /\ InReduction(p, b, b) /\ InboxPlaced(p, b, b)
    BY <1>3, <1>4, <1>5 DEF Credit, InReduction, InboxPlaced, Bit
  <1>8. ChunksPlaced(p, b, b) /\ BuffersRight(b, b)
    BY <1>3, <1>4 DEF ChunksPlaced, BuffersRight
  <1>9. \A r \in Ranks : Removed(p, r) \in Nat
    BY <1>4
  <1> HIDE DEF p, b
  <1>10. History(p, b, b)
    BY <1>2, <1>6, <1>7, <1>8, <1>9 DEF History
  <1>11. QED
    BY <1>3, <1>10 DEF Explained, Finished

(* A call begins: the history gets an entry.                               *)
LEMMA BeginEntry ==
    ASSUME RingTypeOK, NEW p, NEW b \in Histories, NEW t \in Histories, NEW r \in Ranks,
           p \in [Ranks -> Nat], \A q \in Ranks : Removed(p, q) \in Nat, Begin(r)
    PROVE  \E v, w \in Histories :
              /\ v[r][call[r] + 1] = p[r] /\ w[r][call[r] + 1] = Removed(p, r)
              /\ GoesOn(call, b, t, call', v, w)
  <1> DEFINE k == call[r] + 1
             v == [b EXCEPT ![r] = [@ EXCEPT ![k] = p[r]]]
             w == [t EXCEPT ![r] = [@ EXCEPT ![k] = Removed(p, r)]]
  <1>1. /\ call \in [Ranks -> 0..Len(Calls)] /\ Len(Calls) \in Nat
        /\ k \in 1..Len(Calls) /\ call[r] \in Nat /\ call' = [call EXCEPT ![r] = k]
    BY RingAssumption, LenProperties DEF Begin, MayBegin, RingTypeOK
  <1>2. /\ v \in Histories /\ w \in Histories
        /\ v[r][k] = p[r] /\ w[r][k] = Removed(p, r)
        /\ \A q \in Ranks : \A l \in 1..Len(Calls) :
              q # r \/ l # k => v[q][l] = b[q][l] /\ w[q][l] = t[q][l]
    BY <1>1 DEF Histories
  <1> HIDE DEF v, w
  <1>3. GoesOn(call, b, t, call', v, w)
    <2>1. SUFFICES ASSUME NEW q \in Ranks
                   PROVE  /\ call[q] <= call'[q]
                          /\ \A l \in 1..call[q] : v[q][l] = b[q][l] /\ w[q][l] = t[q][l]
      BY DEF GoesOn
    <2>2. \A l \in 1..call[q] : l \in 1..Len(Calls) /\ (q # r \/ l # k)
      BY <1>1
    <2>3. call[q] <= call'[q]
      BY <1>1
    <2>4. QED
      BY <1>2, <2>2, <2>3
  <1>4. QED
    BY <1>2, <1>3

LEMMA BeginExplained ==
    ASSUME RingInv, NEW p, NEW b, NEW t, History(p, b, t), NEW r \in Ranks, Begin(r),
           NEW v \in Histories, NEW w \in Histories,
           v[r][call[r] + 1] = p[r], w[r][call[r] + 1] = Removed(p, r),
           GoesOn(call, b, t, call', v, w)
    PROVE  History(p, v, w)'
  <1> DEFINE k == call[r] + 1
  <1>0. RingTypeOK /\ HalvesOK /\ RingTypeOK' /\ HalvesOK'
    BY BeginTypes DEF RingInv
  <1>1. /\ call \in [Ranks -> 0..Len(Calls)] /\ call' \in [Ranks -> 0..Len(Calls)]
        /\ p \in [Ranks -> Nat] /\ \A q \in Ranks : Removed(p, q) \in Nat
    BY <1>0, HistoryFacts DEF RingTypeOK
  <1>2. /\ k \in 1..Len(Calls) /\ k \in Nat /\ call[r] \in Nat
        /\ status[r] = "between" \/ (status[r] = "failed" /\ Op(r) = "barrier")
        /\ ~sent[r] /\ inbox[r] = Empty
    BY <1>0, RingAssumption, LenProperties DEF Begin, MayBegin, RingTypeOK, HalvesOK
  <1>3. /\ call' = [call EXCEPT ![r] = k] /\ status' = [status EXCEPT ![r] = "running"]
        /\ step' = [step EXCEPT ![r] = 0] /\ UNCHANGED <<sent, inbox, crossed, chan>>
    BY DEF Begin
  <1>4. /\ call'[r] = k /\ status'[r] = "running" /\ step'[r] = 0
        /\ \A q \in Ranks : q # r => /\ call'[q] = call[q] /\ status'[q] = status[q]
                                     /\ step'[q] = step[q] /\ buf'[q] = buf[q]
        /\ Calls[k] = "all_reduce" => buf'[r] = [c \in Ranks |-> Own(r, k)]
    BY <1>0, <1>3 DEF RingTypeOK, Begin
  <1>5. \A q \in Ranks : Removed(p, q)' = Removed(p, q)
    BY <1>3 DEF Removed
  <1>6. v[r][k] = p[r] /\ w[r][k] = Removed(p, r)
    OBVIOUS
  <1>7. /\ \A q \in Ranks : \A l \in 1..Len(Calls) : \A n \in Int :
              Linked(call, b, t, q, l, n) => Linked(call', v, w, q, l, n)
        /\ \A l \in 1..Len(Calls) : Aligned(call', v, w, l) => Aligned(call, b, t, l)
    BY <1>1, LinkedStays, AlignedBefore
  <1>8. /\ \A q \in Ranks : q # r => /\ Reducing(q)' <=> Reducing(q)
                                     /\ GaveUp(q)' <=> GaveUp(q)
                                     /\ \A l \in 1..call[q] : Summed(q, l)' <=> Summed(q, l)
        /\ ~GaveUp(r) /\ ~GaveUp(r)' /\ (Reducing(r)' => Calls[k] = "all_reduce")
        /\ \A q \in Ranks : q # r => Op(q)' = Op(q)
        /\ Op(r)' = Calls[k]
    BY <1>2, <1>4 DEF Reducing, GaveUp, Summed, Op
  <1>9. \A l \in 1..call[r] : Calls[l] = "all_reduce" => Summed(r, l)
    <2>1. SUFFICES ASSUME NEW l \in 1..call[r], Calls[l] = "all_reduce" PROVE Summed(r, l)
      OBVIOUS
    <2>2. CASE l < call[r]
      BY <2>1, <2>2 DEF Summed
    <2>3. CASE l = call[r]
      BY <1>2, <2>1, <2>3 DEF Summed, Op
    <2>4. QED
      BY <1>2, <2>2, <2>3
  <1>10. ~Summed(r, k)' /\ \A l \in 1..call'[r] : l = k \/ l \in 1..call[r]
    BY <1>2, <1>4 DEF Summed
  <1>11. Removed(p, r) <= p[r]
    <2>1. Removed(p, r) + Bit(sent[r]) <= p[r] + Bit(inbox[r] # Empty)
      BY <1>8 DEF History, Credit
    <2>2. QED
      BY <1>1, <1>2, <2>1 DEF Bit
  <1>12. Surplus(call', v, w)
    <2>1. SUFFICES ASSUME NEW q \in Ranks, NEW l \in 1..call'[q] PROVE w[q][l] <= v[q][l]
      BY DEF Surplus
    <2>2. CASE q = r /\ l = k
      BY <1>6, <1>11, <2>2
    <2>3. CASE ~(q = r /\ l = k)
      <3>1. l \in 1..call[q]
        BY <1>4, <1>10, <2>3
      <3>2. w[q][l] = t[q][l] /\ v[q][l] = b[q][l]
        BY <3>1 DEF GoesOn
      <3>3. QED
        BY <3>1, <3>2 DEF History, Surplus
    <2>4. QED
      BY <2>2, <2>3
  <1>13. Spaced(call', v, w)
    <2>1. SUFFICES ASSUME NEW q \in Ranks, NEW l \in 1..call'[q], NEW n \in 1..call'[q],
                          l < n, Calls[l] = "all_reduce"
                   PROVE  v[q][l] + Exchanges <= v[q][n] /\ w[q][l] + Exchanges <= w[q][n]
      BY DEF Spaced
    <2>2. l \in 1..call[q] /\ v[q][l] = b[q][l] /\ w[q][l] = t[q][l]
      <3>1. l \in 1..call[q]
        <4>1. CASE q = r
          BY <1>2, <1>4, <2>1, <4>1
        <4>2. CASE q # r
          BY <1>4, <2>1, <4>2
        <4>3. QED
          BY <4>1, <4>2
      <3>2. QED
        BY <3>1 DEF GoesOn
    <2>3. CASE q = r /\ n = k
      <3>1. b[r][l] + Exchanges <= p[r] /\ t[r][l] + Exchanges <= Removed(p, r)
        BY <1>9, <2>1, <2>2, <2>3 DEF History, AfterReduction
      <3>2. QED
        BY <1>6, <2>2, <2>3, <3>1
    <2>4. CASE ~(q = r /\ n = k)
      <3>1. n \in 1..call[q]
        BY <1>4, <1>10, <2>4
      <3>2. w[q][n] = t[q][n] /\ v[q][n] = b[q][n]
        BY <3>1 DEF GoesOn
      <3>3. QED
        BY <2>1, <2>2, <3>1, <3>2 DEF History, Spaced
    <2>5. QED
      BY <2>3, <2>4
  <1>14. Credit(p)'
    BY <1>3, <1>5, <1>8 DEF History, Credit
  <1>15. InReduction(p, v, w)'
    <2>1. SUFFICES ASSUME NEW q \in Ranks, Reducing(q)'
                   PROVE  /\ p[q] = v[q][call'[q]] + step'[q] + Bit(sent[q])
                          /\ Removed(p, q) = w[q][call'[q]] + step'[q] + Bit(inbox[q] # Empty)
                          /\ Linked(call', v, w, q, call'[q], step'[q])
      BY <1>3, <1>5 DEF InReduction
    <2>2. CASE q = r
      <3>1. Linked(call', v, w, r, k, 0)
        BY <1>2, <1>4, LinkedSelf
      <3>2. p[r] = p[r] + 0 + 0 /\ Removed(p, r) = Removed(p, r) + 0 + 0
        BY <1>1
      <3>3. QED
        BY <1>2, <1>4, <1>6, <2>2, <3>1, <3>2 DEF Bit
    <2>3. CASE q # r
      <3>1. Reducing(q) /\ call'[q] = call[q] /\ step'[q] = step[q]
        BY <1>4, <1>8, <2>1, <2>3
      <3>2. call[q] \in 1..Len(Calls) /\ call[q] \in 1..call[q] /\ step[q] \in Int
        BY <1>0, <3>1, HistoryFacts
      <3>3. v[q][call[q]] = b[q][call[q]] /\ w[q][call[q]] = t[q][call[q]]
        BY <3>2 DEF GoesOn
      <3>4. /\ p[q] = b[q][call[q]] + step[q] + Bit(sent[q])
            /\ Removed(p, q) = t[q][call[q]] + step[q] + Bit(inbox[q] # Empty)
            /\ Linked(call, b, t, q, call[q], step[q])
        BY <3>1 DEF History, InReduction
      <3>5. Linked(call', v, w, q, call[q], step[q])
        BY <1>7, <3>2, <3>4
      <3>6. QED
        BY <3>1, <3>3, <3>4, <3>5
    <2>4. QED
      BY <2>2, <2>3
  <1>16. AfterReduction(p, v, w)'
    <2>1. SUFFICES ASSUME NEW q \in Ranks, NEW l \in 1..call'[q], Summed(q, l)'
                   PROVE  /\ v[q][l] + Exchanges <= p[q] /\ w[q][l] + Exchanges <= Removed(p, q)
                          /\ Linked(call', v, w, q, l, N)
      BY <1>5 DEF AfterReduction
    <2>2. l \in 1..call[q] /\ Summed(q, l)
      BY <1>4, <1>8, <1>9, <1>10, <2>1 DEF Summed
    <2>3. v[q][l] = b[q][l] /\ w[q][l] = t[q][l]
      BY <2>2 DEF GoesOn
    <2>4. /\ b[q][l] + Exchanges <= p[q] /\ t[q][l] + Exchanges <= Removed(p, q)
          /\ Linked(call, b, t, q, l, N)
      BY <2>2 DEF History, AfterReduction
    <2>5. l \in 1..Len(Calls) /\ N \in Int
      BY <1>1, <2>2, RingAssumption
    <2>6. Linked(call', v, w, q, l, N)
      BY <1>7, <2>4, <2>5
    <2>7. QED
      BY <2>3, <2>4, <2>6
  <1>17. ChunksPlaced(p, v, w)'
    <2>1. SUFFICES ASSUME NEW q \in Ranks, NEW i \in 1..Len(chan[q]), chan[q][i].kind = "chunk"
                   PROVE  Placed(call', v, w, q, chan[q][i], p[q] - Len(chan[q]) + i)
      BY <1>3 DEF ChunksPlaced
    <2> DEFINE m == chan[q][i]
               n == p[q] - Len(chan[q]) + i
    <2>2. Placed(call, b, t, q, m, n)
      BY <2>1 DEF History, ChunksPlaced
    <2> HIDE DEF m, n
    <2>3. Placed(call', v, w, q, m, n)
      BY <1>1, <2>2, PlacedStays
    <2>4. QED
      BY <2>3 DEF m, n
  <1>18. InboxPlaced(p, v, w)'
    <2>1. SUFFICES ASSUME NEW q \in Ranks, Reducing(q)', inbox[q] # Empty
                   PROVE  Placed(call', v, w, Left(q), inbox[q], Removed(p, q))
      BY <1>3, <1>5 DEF InboxPlaced
    <2>2. q # r
      BY <1>2, <2>1
    <2>3. Placed(call, b, t, Left(q), inbox[q], Removed(p, q)) /\ Left(q) \in Ranks
      BY <1>8, <2>1, <2>2, LeftIn DEF History, InboxPlaced
    <2>4. QED
      BY <1>1, <2>3, PlacedStays
  <1>19. BuffersRight(v, w)'
    <2>1. SUFFICES ASSUME NEW q \in Ranks, call'[q] > 0, Op(q)' = "all_reduce",
                          Aligned(call', v, w, call'[q]), NEW j \in 0..(N - 1)
                   PROVE  buf'[q][Back(q, j)] = Share(q, Width(step'[q], j), call'[q])
      BY DEF BuffersRight
    <2>2. CASE q = r
      <3>1. Width(0, j) = 0 /\ Back(r, j) \in Ranks
        BY BackIn, RingAssumption DEF Width
      <3>2. Own(r, k) = Share(r, 0, k)
        BY <1>2, ShareOwn
      <3>3. QED
        BY <1>4, <1>8, <2>1, <2>2, <3>1, <3>2
    <2>3. CASE q # r
      <3>1. call[q] \in 1..Len(Calls) /\ Aligned(call', v, w, call[q])
        BY <1>1, <1>4, <2>1, <2>3
      <3>2. Aligned(call, b, t, call[q])
        BY <1>7, <3>1
      <3>3. QED
        BY <1>4, <1>8, <2>1, <2>3, <3>1, <3>2 DEF History, BuffersRight
    <2>4. QED
      BY <2>2, <2>3
  <1>20. \A q \in Ranks : Removed(p, q)' \in Nat
    BY <1>1, <1>5
  <1>21. QED
    BY <1>1, <1>6, <1>12, <1>13, <1>14, <1>15, <1>16, <1>17, <1>18, <1>19, <1>20 DEF History

(* A message is put: the history counts it.                                *)
LEMMA SendExplained ==
    ASSUME RingInv, NEW p, NEW b, NEW t, History(p, b, t), NEW r \in Ranks, Send(r),
           NEW u \in [Ranks -> Nat], u[r] = p[r] + 1, \A q \in Ranks : q # r => u[q] = p[q]
    PROVE  History(u, b, t)'
  <1> DEFINE n == Len(chan[r])
  <1>0. RingTypeOK /\ HalvesOK
    BY DEF RingInv
  <1>1. /\ p \in [Ranks -> Nat] /\ b \in Histories /\ t \in Histories
        /\ \A q \in Ranks : Removed(p, q) \in Nat
        /\ \A q \in Ranks : \A k \in 1..Len(Calls) : b[q][k] \in Nat /\ t[q][k] \in Nat
    BY <1>0, HistoryFacts
  <1>2. /\ status[r] = "running" /\ ~sent[r]
        /\ sent' = [sent EXCEPT ![r] = TRUE]
        /\ chan' = [chan EXCEPT ![r] = Append(@, Message(r))]
        /\ UNCHANGED <<call, status, step, inbox, counter, crossed, buf>>
    BY DEF Send
  <1>3. Message(r) \in Barriers \cup Chunks
    BY <1>0, SendTypes
  <1>4. /\ n \in Nat /\ Len(chan'[r]) = n + 1 /\ chan'[r][n + 1] = Message(r)
        /\ \A i \in 1..n : chan'[r][i] = chan[r][i]
        /\ \A q \in Ranks : q # r => chan'[q] = chan[q]
        /\ \A q \in Ranks : Len(chan[q]) \in Nat
    BY <1>0, <1>2, <1>3, AppendProperties, LenProperties DEF RingTypeOK, Messages
  <1> HIDE DEF n
  <1>5. sent'[r] /\ \A q \in Ranks : q # r => sent'[q] = sent[q]
    BY <1>0, <1>2 DEF RingTypeOK
  <1>6. /\ \A q \in Ranks : /\ Reducing(q)' <=> Reducing(q)
                            /\ GaveUp(q)' <=> GaveUp(q)
                            /\ Op(q)' = Op(q)
                            /\ \A k \in 1..call[q] : Summed(q, k)' <=> Summed(q, k)
        /\ call' = call /\ step' = step /\ inbox' = inbox /\ buf' = buf
    BY <1>2 DEF Reducing, GaveUp, Summed, Op
  <1>7. \A q \in Ranks : u[q] - Len(chan'[q]) = p[q] - Len(chan[q])
    <2>1. u[r] - Len(chan'[r]) = p[r] - Len(chan[r])
      <3>1. p[r] \in Nat
        BY <1>1
      <3>2. (p[r] + 1) - (n + 1) = p[r] - n
        BY <1>4, <3>1
      <3>3. QED
        BY <1>4, <3>2 DEF n
    <2>2. QED
      BY <1>4, <2>1
  <1>8. \A q \in Ranks : Removed(u, q)' = Removed(p, q)
    BY <1>7, LeftIn DEF Removed
  <1>9. Surplus(call', b, t) /\ Spaced(call', b, t)
    BY <1>6 DEF History
  <1>10. Credit(u)'
    <2>1. SUFFICES ASSUME NEW q \in Ranks, ~GaveUp(q)
                   PROVE  Removed(p, q) + Bit(sent'[q]) <= u[q] + Bit(inbox[q] # Empty)
      BY <1>6, <1>8 DEF Credit
    <2>2. Removed(p, q) + Bit(sent[q]) <= p[q] + Bit(inbox[q] # Empty)
      BY <2>1 DEF History, Credit
    <2>3. Removed(p, q) \in Nat /\ p[q] \in Nat /\ Bit(inbox[q] # Empty) \in {0, 1}
      BY <1>1 DEF Bit
    <2>4. CASE q = r
      <3>1. Bit(sent[q]) = 0 /\ Bit(sent'[q]) = 1 /\ u[q] = p[q] + 1
        BY <1>2, <1>5, <2>4 DEF Bit
      <3>2. QED
        BY <2>2, <2>3, <3>1
    <2>5. CASE q # r
      BY <1>5, <2>2, <2>5
    <2>6. QED
      BY <2>4, <2>5
  <1>11. InReduction(u, b, t)'
    <2>1. SUFFICES ASSUME NEW q \in Ranks, Reducing(q)
                   PROVE  /\ u[q] = b[q][call[q]] + step[q] + Bit(sent'[q])
                          /\ Removed(p, q) = t[q][call[q]] + step[q] + Bit(inbox[q] # Empty)
                          /\ Linked(call, b, t, q, call[q], step[q])
      BY <1>6, <1>8 DEF InReduction
    <2>2. /\ p[q] = b[q][call[q]] + step[q] + Bit(sent[q])
          /\ Removed(p, q) = t[q][call[q]] + step[q] + Bit(inbox[q] # Empty)
          /\ Linked(call, b, t, q, call[q], step[q])
      BY <2>1 DEF History, InReduction
    <2>3. CASE q = r
      <3>1. Bit(sent[q]) = 0 /\ Bit(sent'[q]) = 1 /\ u[q] = p[q] + 1
        BY <1>2, <1>5, <2>3 DEF Bit
      <3>2. b[q][call[q]] \in Nat /\ step[q] \in 0..(Exchanges - 1)
        BY <1>0, <1>1, <2>1, HistoryFacts
      <3>3. u[q] = b[q][call[q]] + step[q] + Bit(sent'[q])
        BY <2>2, <3>1, <3>2
      <3>4. QED
        BY <2>2, <3>3
    <2>4. CASE q # r
      BY <1>5, <2>2, <2>4
    <2>5. QED
      BY <2>3, <2>4
  <1>12. AfterReduction(u, b, t)'
    <2>1. SUFFICES ASSUME NEW q \in Ranks, NEW k \in 1..call[q], Summed(q, k)
                   PROVE  /\ b[q][k] + Exchanges <= u[q]
                          /\ t[q][k] + Exchanges <= Removed(p, q)
                          /\ Linked(call, b, t, q, k, N)
      BY <1>6, <1>8 DEF AfterReduction
    <2>2. /\ b[q][k] + Exchanges <= p[q]
          /\ t[q][k] + Exchanges <= Removed(p, q)
          /\ Linked(call, b, t, q, k, N)
      BY <2>1 DEF History, AfterReduction
    <2>3. p[q] <= u[q] /\ p[q] \in Nat /\ u[q] \in Nat
      <3>1. p[q] \in Nat /\ (u[q] = p[q] + 1 \/ u[q] = p[q])
        BY <1>1
      <3>2. QED
        BY <3>1
    <2>4. b[q][k] + Exchanges \in Nat
      <3>1. k \in 1..Len(Calls)
        BY <1>0, RingAssumption, LenProperties DEF RingTypeOK
      <3>2. QED
        BY <1>1, <3>1, ExchangesPositive
    <2>5. b[q][k] + Exchanges <= u[q]
      BY <2>2, <2>3, <2>4
    <2>6. QED
      BY <2>2, <2>5
  <1>13. ChunksPlaced(u, b, t)'
    <2>1. SUFFICES ASSUME NEW q \in Ranks, NEW i \in 1..Len(chan'[q]),
                          chan'[q][i].kind = "chunk"
                   PROVE  Placed(call, b, t, q, chan'[q][i], u[q] - Len(chan'[q]) + i)
      BY <1>6 DEF ChunksPlaced
    <2>2. CASE i \in 1..Len(chan[q]) /\ chan'[q][i] = chan[q][i]
      <3>1. Placed(call, b, t, q, chan[q][i], p[q] - Len(chan[q]) + i)
        BY <2>1, <2>2 DEF History, ChunksPlaced
      <3>2. QED
        BY <1>7, <2>2, <3>1
    <2>3. CASE q = r /\ i = n + 1
      <3>1. Op(r) = "all_reduce"
        BY <1>4, <2>1, <2>3 DEF Message
      <3>2. Placed(call, b, t, r, Message(r), p[r] + 1)
        BY <1>0, <1>2, <3>1, SentPlaced DEF Reducing
      <3>3. u[q] - Len(chan'[q]) + i = p[r] + 1
        <4>1. p[r] \in Nat /\ u[q] - Len(chan'[q]) = p[r] - n
          BY <1>1, <1>7, <2>3 DEF n
        <4>2. p[r] - n + (n + 1) = p[r] + 1
          BY <1>4, <4>1
        <4>3. QED
          BY <2>3, <4>1, <4>2
      <3>4. chan'[q][i] = Message(r)
        BY <1>4, <2>3
      <3>5. QED
        BY <2>3, <3>2, <3>3, <3>4
    <2>4. i \in 1..Len(chan[q]) \/ (q = r /\ i = n + 1)
      BY <1>4, <2>1 DEF n
    <2>5. i \in 1..Len(chan[q]) => chan'[q][i] = chan[q][i]
      BY <1>4 DEF n
    <2>6. QED
      BY <2>2, <2>3, <2>4, <2>5
  <1>14. InboxPlaced(u, b, t)'
    BY <1>6, <1>8 DEF History, InboxPlaced
  <1>15. BuffersRight(b, t)'
    BY <1>6 DEF History, BuffersRight
  <1>16. \A q \in Ranks : Removed(u, q)' \in Nat
    BY <1>1, <1>8
  <1>17. QED
    BY <1>1, <1>9, <1>10, <1>11, <1>12, <1>13, <1>14, <1>15, <1>16 DEF History

(* A message is taken from the left.                                       *)
LEMMA ReceiveExplained ==
    ASSUME RingInv, NEW p, NEW b, NEW t, History(p, b, t), NEW r \in Ranks, Receive(r)
    PROVE  History(p, b, t)'
  <1> DEFINE x == Left(r)
             m == Head(chan[x])
             n == Len(chan[x])
  <1>0. RingTypeOK /\ HalvesOK /\ TokensInOrder /\ x \in Ranks
    BY LeftIn DEF RingInv
  <1>1. /\ p \in [Ranks -> Nat] /\ b \in Histories /\ t \in Histories
        /\ \A q \in Ranks : Removed(p, q) \in Nat
        /\ \A q \in Ranks : \A k \in 1..Len(Calls) : b[q][k] \in Nat /\ t[q][k] \in Nat
    BY <1>0, HistoryFacts
  <1>2. /\ status[r] = "running" /\ sent[r] /\ inbox[r] = Empty /\ RightLength(r, m)
        /\ inbox' = [inbox EXCEPT ![r] = m]
        /\ UNCHANGED <<call, status, step, sent, counter, crossed, buf>>
    BY DEF Receive, Reading, Reads
  <1>3. m \in Messages /\ m # Empty
    <2>1. m \in Messages
      BY <1>0, ReceiveTypes
    <2>2. QED
      BY <1>2, <2>1, ReadableIn
  <1>4. /\ n > 0 /\ n \in Nat /\ m = chan[x][1] /\ Len(chan'[x]) = n - 1
        /\ \A i \in 1..(n - 1) : chan'[x][i] = chan[x][i + 1]
        /\ \A q \in Ranks : q # x => chan'[q] = chan[q]
        /\ \A q \in Ranks : Len(chan[q]) \in Nat
    BY <1>0, ReceiveOrder, LenProperties DEF RingTypeOK
  <1>5. inbox'[r] = m /\ \A q \in Ranks : q # r => inbox'[q] = inbox[q]
    BY <1>0, <1>2 DEF RingTypeOK
  <1>6. /\ \A q \in Ranks : /\ Reducing(q)' <=> Reducing(q)
                            /\ GaveUp(q)' <=> GaveUp(q)
                            /\ Op(q)' = Op(q)
                            /\ \A k \in 1..call[q] : Summed(q, k)' <=> Summed(q, k)
        /\ call' = call /\ step' = step /\ sent' = sent /\ buf' = buf
    BY <1>2 DEF Reducing, GaveUp, Summed, Op
  <1>7. Removed(p, r) = p[x] - n
    BY DEF Removed
  <1> HIDE DEF m, n, x
  <1>8. Removed(p, r)' = Removed(p, r) + 1 /\ p[x] - (n - 1) = (p[x] - n) + 1
    <2>1. p[x] \in Nat
      BY <1>0, <1>1
    <2>2. p[x] - (n - 1) = (p[x] - n) + 1
      BY <1>4, <2>1
    <2>3. Removed(p, r)' = p[x] - Len(chan'[x])
      BY DEF Removed, x
    <2>4. QED
      BY <1>4, <1>7, <2>2, <2>3
  <1>9. \A q \in Ranks : q # r => Removed(p, q)' = Removed(p, q)
    <2>1. SUFFICES ASSUME NEW q \in Ranks, q # r PROVE Removed(p, q)' = Removed(p, q)
      OBVIOUS
    <2>2. Left(q) \in Ranks /\ Left(q) # x
      BY <2>1, LeftIn, LeftInjective DEF x
    <2>3. QED
      BY <1>4, <2>2 DEF Removed
  <1>10. Surplus(call', b, t) /\ Spaced(call', b, t)
    BY <1>6 DEF History
  <1>11. Credit(p)'
    <2>1. SUFFICES ASSUME NEW q \in Ranks, ~GaveUp(q)
                   PROVE  Removed(p, q)' + Bit(sent[q]) <= p[q] + Bit(inbox'[q] # Empty)
      BY <1>6 DEF Credit
    <2>2. Removed(p, q) + Bit(sent[q]) <= p[q] + Bit(inbox[q] # Empty)
      BY <2>1 DEF History, Credit
    <2>3. CASE q = r
      <3>1. /\ Bit(sent[q]) = 1 /\ Bit(inbox[q] # Empty) = 0 /\ Bit(inbox'[q] # Empty) = 1
            /\ Removed(p, q) \in Nat /\ p[q] \in Nat
        BY <1>1, <1>2, <1>3, <1>5, <2>3 DEF Bit
      <3>2. QED
        BY <1>8, <2>2, <2>3, <3>1
    <2>4. CASE q # r
      BY <1>5, <1>9, <2>2, <2>4
    <2>5. QED
      BY <2>3, <2>4
  <1>12. InReduction(p, b, t)'
    <2>1. SUFFICES ASSUME NEW q \in Ranks, Reducing(q)
                   PROVE  /\ p[q] = b[q][call[q]] + step[q] + Bit(sent[q])
                          /\ Removed(p, q)' = t[q][call[q]] + step[q] + Bit(inbox'[q] # Empty)
                          /\ Linked(call, b, t, q, call[q], step[q])
      BY <1>6 DEF InReduction
    <2>2. /\ p[q] = b[q][call[q]] + step[q] + Bit(sent[q])
          /\ Removed(p, q) = t[q][call[q]] + step[q] + Bit(inbox[q] # Empty)
          /\ Linked(call, b, t, q, call[q], step[q])
      BY <2>1 DEF History, InReduction
    <2>3. CASE q = r
      <3>1. Bit(inbox[q] # Empty) = 0 /\ Bit(inbox'[q] # Empty) = 1
        BY <1>2, <1>3, <1>5, <2>3 DEF Bit
      <3>2. t[q][call[q]] \in Nat /\ step[q] \in 0..(Exchanges - 1)
        BY <1>0, <1>1, <2>1, HistoryFacts
      <3>3. Removed(p, q)' = t[q][call[q]] + step[q] + Bit(inbox'[q] # Empty)
        BY <1>8, <2>2, <2>3, <3>1, <3>2
      <3>4. QED
        BY <2>2, <3>3
    <2>4. CASE q # r
      BY <1>5, <1>9, <2>2, <2>4
    <2>5. QED
      BY <2>3, <2>4
  <1>13. \A q \in Ranks : Removed(p, q) <= Removed(p, q)' /\ Removed(p, q)' \in Nat
    BY <1>1, <1>8, <1>9
  <1>14. AfterReduction(p, b, t)'
    <2>1. SUFFICES ASSUME NEW q \in Ranks, NEW k \in 1..call[q], Summed(q, k)
                   PROVE  /\ b[q][k] + Exchanges <= p[q]
                          /\ t[q][k] + Exchanges <= Removed(p, q)'
                          /\ Linked(call, b, t, q, k, N)
      BY <1>6 DEF AfterReduction
    <2>2. /\ b[q][k] + Exchanges <= p[q]
          /\ t[q][k] + Exchanges <= Removed(p, q)
          /\ Linked(call, b, t, q, k, N)
      BY <2>1 DEF History, AfterReduction
    <2>3. t[q][k] + Exchanges \in Nat
      <3>1. k \in 1..Len(Calls)
        BY <1>0, RingAssumption, LenProperties DEF RingTypeOK
      <3>2. QED
        BY <1>1, <3>1, ExchangesPositive
    <2>4. t[q][k] + Exchanges <= Removed(p, q)'
      BY <1>1, <1>13, <2>2, <2>3
    <2>5. QED
      BY <2>2, <2>4
  <1>15. ChunksPlaced(p, b, t)'
    <2>1. SUFFICES ASSUME NEW q \in Ranks, NEW i \in 1..Len(chan'[q]),
                          chan'[q][i].kind = "chunk"
                   PROVE  Placed(call, b, t, q, chan'[q][i], p[q] - Len(chan'[q]) + i)
      BY <1>6 DEF ChunksPlaced
    <2>2. CASE q # x
      BY <1>4, <2>1, <2>2 DEF History, ChunksPlaced
    <2>3. CASE q = x
      <3>1. i \in 1..(n - 1) /\ i + 1 \in 1..n /\ p[x] \in Nat
        BY <1>0, <1>1, <1>4, <2>1, <2>3
      <3>2. chan'[q][i] = chan[x][i + 1]
        BY <1>4, <2>3, <3>1
      <3>3. Placed(call, b, t, x, chan[x][i + 1], p[x] - n + (i + 1))
        BY <1>0, <2>1, <3>1, <3>2 DEF History, ChunksPlaced, n
      <3>4. p[x] - n + (i + 1) = p[x] - (n - 1) + i
        BY <1>4, <3>1
      <3>5. QED
        BY <1>4, <2>3, <3>2, <3>3, <3>4
    <2>4. QED
      BY <2>2, <2>3
  <1>16. InboxPlaced(p, b, t)'
    <2>1. SUFFICES ASSUME NEW q \in Ranks, Reducing(q), inbox'[q] # Empty
                   PROVE  Placed(call, b, t, Left(q), inbox'[q], Removed(p, q)')
      BY <1>6 DEF InboxPlaced
    <2>2. CASE q = r
      <3>1. m.kind = "chunk"
        BY <1>2, <2>1, <2>2 DEF RightLength, Reducing
      <3>2. 1 \in 1..n
        BY <1>4
      <3>3. Placed(call, b, t, x, m, p[x] - n + 1)
        BY <1>0, <1>4, <3>1, <3>2 DEF History, ChunksPlaced, n
      <3>4. QED
        BY <1>5, <1>7, <1>8, <2>2, <3>3 DEF x
    <2>3. CASE q # r
      BY <1>5, <1>9, <2>1, <2>3 DEF History, InboxPlaced
    <2>4. QED
      BY <2>2, <2>3
  <1>17. BuffersRight(b, t)'
    BY <1>6 DEF History, BuffersRight
  <1>18. QED
    BY <1>1, <1>10, <1>11, <1>12, <1>13, <1>14, <1>15, <1>16, <1>17 DEF History

(* An exchange is over: what was met makes the chain one rank longer, and  *)
(* the buffer as wide as the exchanges that have been made.                *)
LEMMA AdvanceMeets ==
    ASSUME RingInv, NEW p, NEW b, NEW t, History(p, b, t), NEW r \in Ranks, Advance(r),
           Op(r) = "all_reduce"
    PROVE  /\ Reducing(r) /\ p[r] = b[r][call[r]] + (step[r] + 1)
           /\ Removed(p, r) = t[r][call[r]] + (step[r] + 1)
           /\ Linked(call, b, t, r, call[r], step[r] + 1)
           /\ Aligned(call, b, t, call[r]) => \A j \in 0..(N - 1) :
                 Combined(r, inbox[r])[Back(r, j)] = Share(r, Width(step[r] + 1, j), call[r])
  <1> DEFINE k == call[r]
             s == step[r]
             m == inbox[r]
  <1>0. RingTypeOK /\ HalvesOK
    BY DEF RingInv
  <1>1. Reducing(r) /\ m # Empty /\ sent[r]
    BY <1>0 DEF Advance, Reducing, HalvesOK
  <1>2. /\ b[r][k] \in Nat /\ t[r][k] \in Nat
        /\ k \in 1..Len(Calls) /\ s \in 0..(Exchanges - 1) /\ k \in Nat /\ k > 0
    BY <1>0, <1>1, HistoryFacts
  <1>3. p[r] = b[r][k] + s + 1 /\ Removed(p, r) = t[r][k] + s + 1
    BY <1>1 DEF History, InReduction, Bit
  <1>4. Placed(call, b, t, Left(r), m, t[r][k] + s + 1)
    BY <1>1, <1>3 DEF History, InboxPlaced
  <1>5. /\ Linked(call, b, t, r, k, s + 1)
        /\ Aligned(call, b, t, k) => m.data = Share(Left(r), Capped(s), k)
    BY <1>0, <1>1, <1>4, Meets
  <1>6. ASSUME Aligned(call, b, t, k)
        PROVE  \A j \in 0..(N - 1) : Combined(r, m)[Back(r, j)] = Share(r, Width(s + 1, j), k)
    <2>1. \A j \in 0..(N - 1) : buf[r][Back(r, j)] = Share(r, Width(s, j), k)
      BY <1>2, <1>6 DEF History, BuffersRight
    <2>2. QED
      BY <1>0, <1>2, <1>5, <1>6, <2>1, CombinedRight
  <1>7. p[r] = b[r][k] + (s + 1) /\ Removed(p, r) = t[r][k] + (s + 1)
    <2> HIDE DEF k, s
    <2>1. QED
      BY <1>2, <1>3
  <1>8. QED
    BY <1>1, <1>5, <1>6, <1>7

LEMMA AdvanceExplained ==
    ASSUME RingInv, NEW p, NEW b, NEW t, History(p, b, t), NEW r \in Ranks, Advance(r)
    PROVE  History(p, b, t)'
  <1> DEFINE k == call[r]
             s == step[r]
  <1>0. RingTypeOK /\ HalvesOK
    BY DEF RingInv
  <1>1. /\ p \in [Ranks -> Nat] /\ b \in Histories /\ t \in Histories
        /\ \A q \in Ranks : Removed(p, q) \in Nat
        /\ \A q \in Ranks : \A l \in 1..Len(Calls) : b[q][l] \in Nat /\ t[q][l] \in Nat
    BY <1>0, HistoryFacts
  <1>2. /\ status[r] = "running" /\ sent[r] /\ inbox[r] # Empty
        /\ k \in 1..Len(Calls) /\ k \in 0..Len(Calls) /\ s \in 0..(Exchanges - 1)
        /\ Op(r) \in {"barrier", "all_reduce"}
    BY <1>0, OpOf, ExchangesPositive, RingAssumption, LenProperties
    DEF Advance, HalvesOK, RingTypeOK
  <1>3. /\ buf' = [buf EXCEPT ![r] = Combined(r, inbox[r])]
        /\ step' = [step EXCEPT ![r] = @ + 1]
        /\ status' = [status EXCEPT ![r] = IF s + 1 = Exchanges THEN "between" ELSE "running"]
        /\ sent' = [sent EXCEPT ![r] = FALSE] /\ inbox' = [inbox EXCEPT ![r] = Empty]
        /\ call' = call /\ chan' = chan
    BY <1>0, <1>2 DEF Advance, EndCall, RingTypeOK
  <1>4. /\ buf'[r] = Combined(r, inbox[r]) /\ step'[r] = s + 1
        /\ status'[r] = (IF s + 1 = Exchanges THEN "between" ELSE "running")
        /\ ~sent'[r] /\ inbox'[r] = Empty
        /\ \A q \in Ranks : q # r =>
              /\ buf'[q] = buf[q] /\ step'[q] = step[q] /\ status'[q] = status[q]
              /\ sent'[q] = sent[q] /\ inbox'[q] = inbox[q]
    BY <1>0, <1>3 DEF RingTypeOK
  <1>5. \A q \in Ranks : Removed(p, q)' = Removed(p, q)
    BY <1>3 DEF Removed
  <1>6. /\ \A q \in Ranks : Op(q)' = Op(q)
        /\ \A q \in Ranks : q # r => /\ Reducing(q)' <=> Reducing(q)
                                     /\ GaveUp(q)' <=> GaveUp(q)
                                     /\ \A l \in 1..call[q] : Summed(q, l)' <=> Summed(q, l)
        /\ ~GaveUp(r) /\ ~GaveUp(r)'
        /\ Reducing(r)' => Op(r) = "all_reduce" /\ s + 1 # Exchanges
        /\ \A l \in 1..call[r] : Summed(r, l)' =>
              Summed(r, l) \/ (l = k /\ Op(r) = "all_reduce" /\ s + 1 = Exchanges)
    BY <1>2, <1>3, <1>4 DEF Reducing, GaveUp, Summed, Op
  <1>7. ASSUME Op(r) = "all_reduce"
        PROVE  /\ p[r] = b[r][k] + (s + 1) /\ Removed(p, r) = t[r][k] + (s + 1)
               /\ Linked(call, b, t, r, k, s + 1)
               /\ Aligned(call, b, t, k) => \A j \in 0..(N - 1) :
                     Combined(r, inbox[r])[Back(r, j)] = Share(r, Width(s + 1, j), k)
    BY <1>7, AdvanceMeets
  <1> HIDE DEF k, s
  <1>8. Surplus(call', b, t) /\ Spaced(call', b, t)
    BY <1>3 DEF History
  <1>9. Credit(p)'
    <2>1. SUFFICES ASSUME NEW q \in Ranks, ~GaveUp(q)'
                   PROVE  Removed(p, q) + Bit(sent'[q]) <= p[q] + Bit(inbox'[q] # Empty)
      BY <1>5 DEF Credit
    <2>2. CASE q = r
      <3>1. Removed(p, q) + Bit(sent[q]) <= p[q] + Bit(inbox[q] # Empty)
        BY <1>6, <2>2 DEF History, Credit
      <3>2. Bit(sent[q]) = 1 /\ Bit(inbox[q] # Empty) = 1
            /\ Bit(sent'[q]) = 0 /\ Bit(inbox'[q] # Empty) = 0
        BY <1>2, <1>4, <2>2 DEF Bit
      <3>3. Removed(p, q) \in Nat /\ p[q] \in Nat
        BY <1>1
      <3>4. QED
        BY <3>1, <3>2, <3>3
    <2>3. CASE q # r
      BY <1>4, <1>6, <2>1, <2>3 DEF History, Credit
    <2>4. QED
      BY <2>2, <2>3
  <1>10. InReduction(p, b, t)'
    <2>1. SUFFICES ASSUME NEW q \in Ranks, Reducing(q)'
                   PROVE  /\ p[q] = b[q][call[q]] + step'[q] + Bit(sent'[q])
                          /\ Removed(p, q) = t[q][call[q]] + step'[q] + Bit(inbox'[q] # Empty)
                          /\ Linked(call, b, t, q, call[q], step'[q])
      BY <1>3, <1>5 DEF InReduction
    <2>2. CASE q = r
      <3>1. /\ p[r] = b[r][k] + (s + 1) /\ Removed(p, r) = t[r][k] + (s + 1)
            /\ Linked(call, b, t, r, k, s + 1)
        BY <1>6, <1>7, <2>1, <2>2
      <3>2. step'[r] = s + 1 /\ Bit(sent'[r]) = 0 /\ Bit(inbox'[r] # Empty) = 0
        BY <1>4 DEF Bit
      <3>3. p[r] = b[r][k] + (s + 1) + 0 /\ Removed(p, r) = t[r][k] + (s + 1) + 0
        <4>1. b[r][k] \in Nat /\ t[r][k] \in Nat /\ s \in Nat
          BY <1>1, <1>2
        <4>2. QED
          BY <3>1, <4>1
      <3>4. QED
        BY <2>2, <3>1, <3>2, <3>3 DEF k
    <2>3. CASE q # r
      BY <1>4, <1>6, <2>1, <2>3 DEF History, InReduction
    <2>4. QED
      BY <2>2, <2>3
  <1>11. AfterReduction(p, b, t)'
    <2>1. SUFFICES ASSUME NEW q \in Ranks, NEW l \in 1..call[q], Summed(q, l)'
                   PROVE  /\ b[q][l] + Exchanges <= p[q]
                          /\ t[q][l] + Exchanges <= Removed(p, q)
                          /\ Linked(call, b, t, q, l, N)
      BY <1>3, <1>5 DEF AfterReduction
    <2>2. CASE Summed(q, l)
      BY <2>2 DEF History, AfterReduction
    <2>3. CASE q = r /\ l = k /\ Op(r) = "all_reduce" /\ s + 1 = Exchanges
      <3>1. /\ p[r] = b[r][k] + Exchanges /\ Removed(p, r) = t[r][k] + Exchanges
            /\ Linked(call, b, t, r, k, Exchanges)
        BY <1>7, <2>3
      <3>2. N \in Int /\ Exchanges \in Int /\ N <= Exchanges
        BY RingAssumption DEF Exchanges
      <3>3. Linked(call, b, t, r, k, N)
        BY <3>1, <3>2, LinkedLess
      <3>4. b[r][k] + Exchanges <= p[r] /\ t[r][k] + Exchanges <= Removed(p, r)
        <4>1. b[r][k] \in Nat /\ t[r][k] \in Nat
          BY <1>1, <1>2
        <4>2. QED
          BY <3>1, <3>2, <4>1
      <3>5. QED
        BY <2>3, <3>3, <3>4
    <2>4. QED
      BY <1>6, <2>1, <2>2, <2>3
  <1>12. ChunksPlaced(p, b, t)'
    BY <1>3 DEF History, ChunksPlaced
  <1>13. InboxPlaced(p, b, t)'
    <2>1. SUFFICES ASSUME NEW q \in Ranks, Reducing(q)', inbox'[q] # Empty
                   PROVE  Placed(call, b, t, Left(q), inbox'[q], Removed(p, q))
      BY <1>3, <1>5 DEF InboxPlaced
    <2>2. q # r
      BY <1>4, <2>1
    <2>3. QED
      BY <1>4, <1>6, <2>1, <2>2 DEF History, InboxPlaced
  <1>14. BuffersRight(b, t)'
    <2>1. SUFFICES ASSUME NEW q \in Ranks, call[q] > 0, Op(q) = "all_reduce",
                          Aligned(call, b, t, call[q]), NEW j \in 0..(N - 1)
                   PROVE  buf'[q][Back(q, j)] = Share(q, Width(step'[q], j), call[q])
      BY <1>3, <1>6 DEF BuffersRight
    <2>2. CASE q = r
      <3>1. Combined(r, inbox[r])[Back(r, j)] = Share(r, Width(s + 1, j), k)
        BY <1>7, <2>1, <2>2 DEF k
      <3>2. QED
        BY <1>4, <2>2, <3>1 DEF k
    <2>3. CASE q # r
      BY <1>4, <2>1, <2>3 DEF History, BuffersRight
    <2>4. QED
      BY <2>2, <2>3
  <1>15. \A q \in Ranks : Removed(p, q)' \in Nat
    BY <1>1, <1>5
  <1>16. QED
    BY <1>1, <1>8, <1>9, <1>10, <1>11, <1>12, <1>13, <1>14, <1>15 DEF History

(* A call fails: nothing is promised about it any more.                    *)
LEMMA FailExplained ==
    ASSUME RingInv, NEW p, NEW b, NEW t, History(p, b, t), NEW r \in Ranks,
           status[r] = "running", EndCall(r, "failed"),
           UNCHANGED <<call, step, counter, crossed, buf>>,
           NEW u \in [Ranks -> Nat], \A q \in Ranks : q # r => u[q] = p[q],
           u[r] = p[r] \/ (Op(r) = "all_reduce" /\ sent[r] /\ u[r] = p[r] - 1),
           \A q \in Ranks : q # r => Removed(u, q)' = Removed(p, q),
           \/ Removed(u, r)' = Removed(p, r)
           \/ Removed(u, r)' = Removed(p, r) + 1 /\ sent[r] /\ inbox[r] = Empty,
           ChunksPlaced(u, b, t)'
    PROVE  History(u, b, t)'
  <1>0. RingTypeOK /\ HalvesOK
    BY DEF RingInv
  <1>1. /\ p \in [Ranks -> Nat] /\ b \in Histories /\ t \in Histories
        /\ \A q \in Ranks : Removed(p, q) \in Nat
        /\ \A q \in Ranks : \A l \in 1..Len(Calls) : b[q][l] \in Nat /\ t[q][l] \in Nat
    BY <1>0, HistoryFacts
  <1>2. /\ call' = call /\ step' = step /\ buf' = buf
        /\ status'[r] = "failed" /\ ~sent'[r] /\ inbox'[r] = Empty
        /\ \A q \in Ranks : q # r => /\ status'[q] = status[q] /\ sent'[q] = sent[q]
                                     /\ inbox'[q] = inbox[q]
    BY <1>0 DEF EndCall, RingTypeOK
  <1>3. /\ \A q \in Ranks : Op(q)' = Op(q)
        /\ \A q \in Ranks : q # r => /\ Reducing(q)' <=> Reducing(q)
                                     /\ GaveUp(q)' <=> GaveUp(q)
        /\ \A q \in Ranks : \A l \in 1..call[q] : Summed(q, l)' <=> Summed(q, l)
        /\ ~Reducing(r)' /\ (GaveUp(r)' <=> Op(r) = "all_reduce") /\ ~GaveUp(r)
    BY <1>2 DEF Reducing, GaveUp, Summed, Op
  <1>4. \A q \in Ranks : Removed(u, q)' \in Nat /\ Removed(p, q) <= Removed(u, q)'
    BY <1>1
  <1>5. Surplus(call', b, t) /\ Spaced(call', b, t)
    BY <1>2 DEF History
  <1>6. Credit(u)'
    <2>1. SUFFICES ASSUME NEW q \in Ranks, ~GaveUp(q)'
                   PROVE  Removed(u, q)' + Bit(sent'[q]) <= u[q] + Bit(inbox'[q] # Empty)
      BY DEF Credit
    <2>2. CASE q = r
      <3>1. Removed(p, r) + Bit(sent[r]) <= p[r] + Bit(inbox[r] # Empty)
        BY <1>3 DEF History, Credit
      <3>2. u[r] = p[r] /\ Bit(sent'[r]) = 0 /\ Bit(inbox'[r] # Empty) = 0
        BY <1>2, <1>3, <2>1, <2>2 DEF Bit
      <3>3. inbox[r] # Empty => sent[r]
        BY <1>0 DEF HalvesOK
      <3>4. Removed(p, r) \in Nat /\ p[r] \in Nat
        BY <1>1
      <3>5. CASE Removed(u, r)' = Removed(p, r)
        <4>1. Removed(p, r) <= p[r]
          BY <3>1, <3>3, <3>4 DEF Bit
        <4>2. QED
          BY <2>2, <3>2, <3>4, <3>5, <4>1
      <3>6. CASE Removed(u, r)' = Removed(p, r) + 1 /\ sent[r] /\ inbox[r] = Empty
        <4>1. Removed(p, r) + 1 <= p[r]
          BY <3>1, <3>4, <3>6 DEF Bit
        <4>2. QED
          BY <2>2, <3>2, <3>4, <3>6, <4>1
      <3>7. QED
        BY <3>5, <3>6
    <2>3. CASE q # r
      BY <1>2, <1>3, <2>1, <2>3 DEF History, Credit
    <2>4. QED
      BY <2>2, <2>3
  <1>7. InReduction(u, b, t)'
    <2>1. SUFFICES ASSUME NEW q \in Ranks, Reducing(q)'
                   PROVE  /\ u[q] = b[q][call[q]] + step[q] + Bit(sent'[q])
                          /\ Removed(u, q)' = t[q][call[q]] + step[q] + Bit(inbox'[q] # Empty)
                          /\ Linked(call, b, t, q, call[q], step[q])
      BY <1>2 DEF InReduction
    <2>2. q # r
      BY <1>3, <2>1
    <2>3. QED
      BY <1>2, <1>3, <2>1, <2>2 DEF History, InReduction
  <1>8. AfterReduction(u, b, t)'
    <2>1. SUFFICES ASSUME NEW q \in Ranks, NEW l \in 1..call[q], Summed(q, l)
                   PROVE  /\ b[q][l] + Exchanges <= u[q]
                          /\ t[q][l] + Exchanges <= Removed(u, q)'
                          /\ Linked(call, b, t, q, l, N)
      BY <1>2, <1>3 DEF AfterReduction
    <2>2. /\ b[q][l] + Exchanges <= p[q]
          /\ t[q][l] + Exchanges <= Removed(p, q)
          /\ Linked(call, b, t, q, l, N)
      BY <2>1 DEF History, AfterReduction
    <2>3. l \in 1..Len(Calls) /\ b[q][l] \in Nat /\ t[q][l] \in Nat /\ Exchanges \in Nat
      <3>1. l \in 1..Len(Calls)
        BY <1>0, RingAssumption, LenProperties DEF RingTypeOK
      <3>2. QED
        BY <1>1, <3>1, ExchangesPositive
    <2>4. t[q][l] + Exchanges <= Removed(u, q)'
      BY <1>1, <1>4, <2>2, <2>3
    <2>5. CASE u[q] = p[q]
      BY <2>2, <2>4, <2>5
    <2>6. CASE u[q] # p[q]
      <3>1. q = r /\ Reducing(r) /\ sent[r] /\ u[r] = p[r] - 1
        BY <2>6 DEF Reducing
      <3> DEFINE k == call[r]
                 s == step[r]
      <3>2. /\ k \in 1..Len(Calls) /\ s \in 0..(Exchanges - 1)
            /\ p[r] = b[r][k] + s + 1
        BY <1>0, <3>1, HistoryFacts DEF History, InReduction, Bit
      <3>3. l < k /\ k \in 1..call[r]
        <4>1. l # k
          BY <2>1, <3>1 DEF Summed, Reducing
        <4>2. QED
          BY <2>1, <3>1, <3>2, <4>1
      <3>4. b[r][l] + Exchanges <= b[r][k]
        BY <2>1, <3>1, <3>3 DEF History, Spaced, Summed
      <3> HIDE DEF k, s
      <3>5. b[r][k] \in Nat
        BY <1>1, <3>2
      <3>6. b[r][l] + Exchanges <= u[r]
        BY <2>3, <3>1, <3>2, <3>4, <3>5
      <3>7. QED
        BY <2>2, <2>4, <3>1, <3>6
    <2>7. QED
      BY <2>5, <2>6
  <1>9. InboxPlaced(u, b, t)'
    <2>1. SUFFICES ASSUME NEW q \in Ranks, Reducing(q)', inbox'[q] # Empty
                   PROVE  Placed(call, b, t, Left(q), inbox'[q], Removed(u, q)')
      BY <1>2 DEF InboxPlaced
    <2>2. q # r
      BY <1>2, <2>1
    <2>3. QED
      BY <1>2, <1>3, <2>1, <2>2 DEF History, InboxPlaced
  <1>10. BuffersRight(b, t)'
    BY <1>2, <1>3 DEF History, BuffersRight
  <1>11. QED
    BY <1>1, <1>4, <1>5, <1>6, <1>7, <1>8, <1>9, <1>10 DEF History

LEMMA MismatchExplained ==
    ASSUME RingInv, NEW p, NEW b, NEW t, History(p, b, t), NEW r \in Ranks, Mismatch(r)
    PROVE  History(p, b, t)'
  <1>1. /\ status[r] = "running" /\ EndCall(r, "failed") /\ chan' = chan
        /\ UNCHANGED <<call, step, counter, crossed, buf>>
    BY DEF Mismatch
  <1>2. \A q \in Ranks : Removed(p, q)' = Removed(p, q)
    BY <1>1 DEF Removed
  <1>3. p \in [Ranks -> Nat] /\ ChunksPlaced(p, b, t)'
    BY <1>1 DEF History, ChunksPlaced
  <1>4. QED
    BY <1>1, <1>2, <1>3, FailExplained

(* What is left on a socket keeps its numbers: only messages at the front  *)
(* are gone, and some of the others are torn.                              *)
Keeps(s, old) ==
    /\ s \in Seq(Messages) /\ Len(s) <= Len(old)
    /\ \A i \in 1..Len(s) : s[i] = old[i + (Len(old) - Len(s))] \/ s[i] = Torn

LEMMA OldKept ==
    ASSUME NEW old \in Seq(Messages)
    PROVE  Keeps(old, old)
  <1>1. Len(old) \in Nat
    BY LenProperties
  <1>2. QED
    BY <1>1 DEF Keeps

LEMMA TailKept ==
    ASSUME NEW old \in Seq(Messages), old # <<>>
    PROVE  Keeps(Tail(old), old) /\ Len(Tail(old)) = Len(old) - 1
  <1> DEFINE s == Tail(old)
  <1>1. /\ s \in Seq(Messages) /\ Len(s) = Len(old) - 1
        /\ \A i \in 1..(Len(old) - 1) : s[i] = old[i + 1]
        /\ Len(old) \in Nat
    BY HeadTailProperties, LenProperties
  <1> HIDE DEF s
  <1>2. Len(old) - Len(s) = 1 /\ Len(s) <= Len(old)
    BY <1>1
  <1>3. Keeps(s, old)
    BY <1>1, <1>2 DEF Keeps
  <1>4. QED
    BY <1>1, <1>3 DEF s

LEMMA TornKept ==
    ASSUME NEW old \in Seq(Messages), old # <<>>
    PROVE  Keeps(<<Torn>> \o Tail(old), old) /\ Len(<<Torn>> \o Tail(old)) = Len(old)
  <1> DEFINE torn == <<Torn>>
             rest == Tail(old)
             s    == torn \o rest
  <1>1. rest \in Seq(Messages) /\ Len(rest) = Len(old) - 1 /\ Len(old) \in Nat
    BY HeadTailProperties, LenProperties
  <1>2. torn \in Seq(Messages) /\ Len(torn) = 1
    BY DEF Messages
  <1>3. Remains(s, old)
    BY TornRemains
  <1> HIDE DEF torn, rest
  <1>4. Len(s) = Len(torn) + Len(rest)
    BY <1>1, <1>2, ConcatParts
  <1> HIDE DEF s
  <1>5. Len(s) = Len(old)
    BY <1>1, <1>2, <1>4
  <1>6. Keeps(s, old)
    BY <1>1, <1>3, <1>5 DEF Keeps, Remains
  <1>7. QED
    BY <1>5, <1>6 DEF s, torn, rest

LEMMA LostLast ==
    ASSUME RingTypeOK, NEW r \in Ranks, NEW out \in LostTail(r), out # chan[r]
    PROVE  /\ Op(r) = "all_reduce" /\ sent[r]
           /\ Len(out) = Len(chan[r]) - 1
  <1> DEFINE s == chan[r]
             n == Len(s) - 1
  <1>1. s \in Seq(Messages) /\ Len(s) \in Nat
    BY LenProperties DEF RingTypeOK
  <1>2. /\ out = SubSeq(s, 1, n) /\ Len(s) > Buffered
        /\ Op(r) = "all_reduce" /\ sent[r]
    BY <1>1, RingAssumption DEF LostTail, Written
  <1>3. n \in Nat /\ \A i \in 1..n : s[i] \in Messages
    BY <1>1, <1>2, RingAssumption, ElementOfSeq
  <1> HIDE DEF s, n
  <1>4. Len(out) = IF 1 <= n THEN n - 1 + 1 ELSE 0
    BY <1>1, <1>2, <1>3, SubSeqProperties
  <1>5. Len(out) = n
    BY <1>3, <1>4
  <1>6. QED
    BY <1>2, <1>5 DEF s, n

LEMMA BreaksExplained ==
    ASSUME RingInv, NEW p, NEW b, NEW t, History(p, b, t), NEW r \in Ranks,
           status[r] = "running", NEW left, Breaks(r, left),
           \A s \in left :
              /\ Keeps(s, chan[Left(r)])
              /\ \/ Len(s) = Len(chan[Left(r)])
                 \/ Len(s) = Len(chan[Left(r)]) - 1 /\ sent[r] /\ inbox[r] = Empty
    PROVE  \E u : History(u, b, t)'
  <1> DEFINE x == Left(r)
  <1>0. RingTypeOK /\ HalvesOK /\ x \in Ranks /\ x # r
    BY LeftIn DEF RingInv
  <1>1. p \in [Ranks -> Nat] /\ \A q \in Ranks : Removed(p, q) \in Nat
    BY <1>0, HistoryFacts
  <1>2. EndCall(r, "failed") /\ UNCHANGED <<call, step, counter, crossed, buf>>
    BY DEF Breaks
  <1>3. PICK out \in LostTail(r), in \in left :
           chan' = [chan EXCEPT ![r] = out, ![x] = in]
    BY DEF Breaks
  <1>4. /\ Keeps(in, chan[x])
        /\ \/ Len(in) = Len(chan[x])
           \/ Len(in) = Len(chan[x]) - 1 /\ sent[r] /\ inbox[r] = Empty
    BY <1>3
  <1>5. /\ out \in Seq(Messages) /\ Len(out) <= Len(chan[r])
        /\ \A i \in 1..Len(out) : out[i] = chan[r][i]
    BY <1>0, <1>3, TailLost
  <1> HIDE DEF x
  <1>6. /\ chan'[r] = out /\ chan'[x] = in
        /\ \A q \in Ranks : q # r /\ q # x => chan'[q] = chan[q]
    BY <1>0, <1>3 DEF RingTypeOK
  <1>7. /\ \A q \in Ranks : Len(chan[q]) \in Nat
        /\ Len(out) \in Nat /\ Len(in) \in Nat
    BY <1>0, <1>4, <1>5, LenProperties DEF RingTypeOK, Keeps
  <1> DEFINE m == p[r] - (Len(chan[r]) - Len(out))
  <1>8. m = p[r] \/ (Op(r) = "all_reduce" /\ sent[r] /\ m = p[r] - 1 /\ m \in Nat)
    <2>1. CASE out = chan[r]
      BY <1>1, <1>7, <2>1
    <2>2. CASE out # chan[r]
      <3>1. Op(r) = "all_reduce" /\ sent[r] /\ Len(out) = Len(chan[r]) - 1
        BY <1>0, <1>3, <2>2, LostLast
      <3>2. Reducing(r)
        BY <3>1 DEF Reducing
      <3>3. /\ p[r] = b[r][call[r]] + step[r] + 1
            /\ b[r][call[r]] \in Nat /\ step[r] \in 0..(Exchanges - 1)
        BY <1>0, <3>1, <3>2, HistoryFacts DEF History, InReduction, Bit
      <3>4. m = p[r] - 1
        BY <1>1, <1>7, <3>1
      <3>5. m \in Nat
        <4> HIDE DEF m
        <4>1. QED
          BY <3>3, <3>4
      <3>6. QED
        BY <3>1, <3>4, <3>5
    <2>3. QED
      BY <2>1, <2>2
  <1>9. m - Len(out) = p[r] - Len(chan[r])
    BY <1>1, <1>7
  <1> HIDE DEF m
  <1>10. m \in Nat
    BY <1>1, <1>8
  <1>11. PICK u \in [Ranks -> Nat] : u[r] = m /\ \A q \in Ranks : q # r => u[q] = p[q]
    <2>1. [p EXCEPT ![r] = m] \in [Ranks -> Nat]
      BY <1>1, <1>10
    <2>2. QED
      BY <1>1, <2>1
  <1>12. \A q \in Ranks : q # r => Removed(u, q)' = Removed(p, q)
    <2>1. SUFFICES ASSUME NEW q \in Ranks, q # r PROVE Removed(u, q)' = Removed(p, q)
      OBVIOUS
    <2>2. Left(q) \in Ranks /\ Left(q) # x
      BY <2>1, LeftIn, LeftInjective DEF x
    <2>3. CASE Left(q) = r
      BY <1>6, <1>9, <1>11, <2>3 DEF Removed
    <2>4. CASE Left(q) # r
      BY <1>6, <1>11, <2>2, <2>4 DEF Removed
    <2>5. QED
      BY <2>3, <2>4
  <1>13. \/ Removed(u, r)' = Removed(p, r)
         \/ Removed(u, r)' = Removed(p, r) + 1 /\ sent[r] /\ inbox[r] = Empty
    <2>1. Removed(u, r)' = p[x] - Len(in) /\ Removed(p, r) = p[x] - Len(chan[x])
      BY <1>0, <1>6, <1>11 DEF Removed, x
    <2>2. p[x] \in Nat /\ Len(chan[x]) \in Nat
      BY <1>0, <1>1, <1>7
    <2>3. CASE Len(in) = Len(chan[x])
      BY <2>1, <2>3
    <2>4. CASE Len(in) = Len(chan[x]) - 1 /\ sent[r] /\ inbox[r] = Empty
      <3>1. p[x] - (Len(chan[x]) - 1) = p[x] - Len(chan[x]) + 1
        BY <2>2
      <3>2. QED
        BY <2>1, <2>4, <3>1
    <2>5. QED
      BY <1>4, <2>3, <2>4
  <1>14. ChunksPlaced(u, b, t)'
    <2>1. SUFFICES ASSUME NEW q \in Ranks, NEW i \in 1..Len(chan'[q]),
                          chan'[q][i].kind = "chunk"
                   PROVE  Placed(call, b, t, q, chan'[q][i], u[q] - Len(chan'[q]) + i)
      BY <1>2 DEF ChunksPlaced
    <2>2. CASE q = r
      <3>1. i \in 1..Len(chan[r]) /\ chan'[q][i] = chan[r][i]
        BY <1>5, <1>6, <1>7, <2>1, <2>2
      <3>2. u[q] - Len(chan'[q]) = p[r] - Len(chan[r])
        BY <1>6, <1>9, <1>11, <2>2
      <3>3. QED
        BY <2>1, <2>2, <3>1, <3>2 DEF History, ChunksPlaced
    <2>3. CASE q = x
      <3> DEFINE d == Len(chan[x]) - Len(in)
      <3>1. i \in 1..Len(in) /\ chan'[q][i] = in[i] /\ Len(in) <= Len(chan[x])
        BY <1>4, <1>6, <2>1, <2>3 DEF Keeps
      <3>2. in[i] = chan[x][i + d]
        <4>1. in[i] # Torn
          BY <2>1, <3>1 DEF Torn
        <4>2. QED
          BY <1>4, <3>1, <4>1 DEF Keeps
      <3>3. /\ i + d \in 1..Len(chan[x]) /\ p[x] \in Nat
            /\ p[x] - Len(chan[x]) + (i + d) = p[x] - Len(in) + i
        <4>1. Len(chan[x]) \in Nat /\ Len(in) \in Nat /\ p[x] \in Nat
          BY <1>0, <1>1, <1>7
        <4>2. QED
          BY <3>1, <4>1
      <3> HIDE DEF d
      <3>4. Placed(call, b, t, x, chan[x][i + d], p[x] - Len(chan[x]) + (i + d))
        BY <1>0, <2>1, <3>1, <3>2, <3>3 DEF History, ChunksPlaced
      <3>5. u[q] - Len(chan'[q]) + i = p[x] - Len(chan[x]) + (i + d)
        BY <1>0, <1>6, <1>11, <2>3, <3>3
      <3>6. QED
        BY <2>3, <3>1, <3>2, <3>4, <3>5
    <2>4. CASE q # r /\ q # x
      BY <1>6, <1>11, <2>1, <2>4 DEF History, ChunksPlaced
    <2>5. QED
      BY <2>2, <2>3, <2>4
  <1>15. u[r] = p[r] \/ (Op(r) = "all_reduce" /\ sent[r] /\ u[r] = p[r] - 1)
    BY <1>8, <1>11
  <1>16. History(u, b, t)'
    BY <1>2, <1>11, <1>12, <1>13, <1>14, <1>15, FailExplained
  <1>17. QED
    BY <1>16

LEMMA TimeoutExplained ==
    ASSUME RingInv, NEW p, NEW b, NEW t, History(p, b, t), NEW r \in Ranks, Timeout(r)
    PROVE  \E u : History(u, b, t)'
  <1>1. chan[Left(r)] \in Seq(Messages)
    BY LeftIn DEF RingInv, RingTypeOK
  <1>2. \A s \in CutHead(r) : Keeps(s, chan[Left(r)]) /\ Len(s) = Len(chan[Left(r)])
    BY <1>1, OldKept, TornKept DEF CutHead, Reading
  <1>3. QED
    BY <1>2, BreaksExplained DEF Timeout

LEMMA WrongLengthExplained ==
    ASSUME RingInv, NEW p, NEW b, NEW t, History(p, b, t), NEW r \in Ranks, WrongLength(r)
    PROVE  \E u : History(u, b, t)'
  <1>1. /\ chan[Left(r)] \in Seq(Messages) /\ chan[Left(r)] # <<>>
        /\ status[r] = "running" /\ sent[r] /\ inbox[r] = Empty
    BY LeftIn DEF RingInv, RingTypeOK, WrongLength, Reading, Reads
  <1>2. \A s \in Unread(r) :
           /\ Keeps(s, chan[Left(r)])
           /\ \/ Len(s) = Len(chan[Left(r)])
              \/ Len(s) = Len(chan[Left(r)]) - 1
    BY <1>1, OldKept, TailKept, TornKept DEF Unread
  <1>3. QED
    BY <1>1, <1>2, BreaksExplained DEF WrongLength

(***************************************************************************)
(* The invariant.                                                          *)
(***************************************************************************)
LEMMA FinishedStays ==
    ASSUME RingInv, Finished, [RingNext]_ringVars
    PROVE  Finished'
  <1>0. RingTypeOK
    BY DEF RingInv
  <1>1. CASE UNCHANGED ringVars
    BY <1>1 DEF Finished, ringVars
  <1>2. ASSUME NEW r \in Ranks, Works(r) \/ Timeout(r) PROVE Finished'
    <2>1. CASE Begin(r)
      BY <1>0, <2>1 DEF Begin, Finished, RingTypeOK
    <2>2. CASE Send(r) \/ Receive(r)
      BY <2>2 DEF Send, Receive, Finished
    <2>3. CASE WrongLength(r) \/ Mismatch(r) \/ Timeout(r)
      BY <1>0, <2>3 DEF WrongLength, Mismatch, Timeout, Breaks, EndCall, Finished, RingTypeOK
    <2>4. CASE Advance(r)
      BY <1>0, <2>4 DEF Advance, EndCall, Finished, RingTypeOK
    <2>5. QED
      BY <1>2, <2>1, <2>2, <2>3, <2>4 DEF Works
  <1>3. QED
    BY <1>1, <1>2 DEF RingNext, Over

LEMMA ExplainedStep == RingInv /\ Explained /\ [RingNext]_ringVars => Explained'
  <1>1. SUFFICES ASSUME RingInv, Explained, [RingNext]_ringVars PROVE Explained'
    OBVIOUS
  <1>2. PICK p, b, t : History(p, b, t)
    BY <1>1 DEF Explained
  <1>3. Finished'
    BY <1>1, FinishedStays DEF Explained
  <1>4. SUFFICES \E u, v, w : History(u, v, w)'
    BY <1>3 DEF Explained
  <1>5. CASE UNCHANGED ringVars
    <2>1. /\ call' = call /\ status' = status /\ step' = step /\ sent' = sent
          /\ inbox' = inbox /\ buf' = buf /\ chan' = chan
      BY <1>5 DEF ringVars
    <2>2. \A q \in Ranks : Removed(p, q)' = Removed(p, q)
      BY <2>1 DEF Removed
    <2>3. History(p, b, t)'
      BY <1>2, <2>1, <2>2
      DEF History, Credit, InReduction, AfterReduction, ChunksPlaced, InboxPlaced,
          BuffersRight, Reducing, GaveUp, Summed, Op
    <2>4. QED
      BY <2>3
  <1>6. ASSUME NEW r \in Ranks, Works(r) \/ Timeout(r)
        PROVE  \E u, v, w : History(u, v, w)'
    <2>1. CASE Begin(r)
      <3>1. /\ RingTypeOK /\ p \in [Ranks -> Nat] /\ b \in Histories /\ t \in Histories
            /\ \A q \in Ranks : Removed(p, q) \in Nat
        BY <1>1, <1>2 DEF RingInv, History
      <3>2. PICK v, w \in Histories :
               /\ v[r][call[r] + 1] = p[r] /\ w[r][call[r] + 1] = Removed(p, r)
               /\ GoesOn(call, b, t, call', v, w)
        BY <2>1, <3>1, BeginEntry
      <3>3. History(p, v, w)'
        BY <1>1, <1>2, <2>1, <3>2, BeginExplained
      <3>4. QED
        BY <3>3
    <2>2. CASE Send(r)
      <3> DEFINE u == [p EXCEPT ![r] = @ + 1]
      <3>1. u \in [Ranks -> Nat] /\ u[r] = p[r] + 1 /\ \A q \in Ranks : q # r => u[q] = p[q]
        BY <1>2 DEF History
      <3> HIDE DEF u
      <3>2. History(u, b, t)'
        BY <1>1, <1>2, <2>2, <3>1, SendExplained
      <3>3. QED
        BY <3>2
    <2>3. CASE Receive(r)
      <3>1. History(p, b, t)'
        BY <1>1, <1>2, <2>3, ReceiveExplained
      <3>2. QED
        BY <3>1
    <2>4. CASE WrongLength(r)
      <3>1. \E u : History(u, b, t)'
        BY <1>1, <1>2, <2>4, WrongLengthExplained
      <3>2. QED
        BY <3>1
    <2>5. CASE Advance(r)
      <3>1. History(p, b, t)'
        BY <1>1, <1>2, <2>5, AdvanceExplained
      <3>2. QED
        BY <3>1
    <2>6. CASE Mismatch(r)
      <3>1. History(p, b, t)'
        BY <1>1, <1>2, <2>6, MismatchExplained
      <3>2. QED
        BY <3>1
    <2>7. CASE Timeout(r)
      <3>1. \E u : History(u, b, t)'
        BY <1>1, <1>2, <2>7, TimeoutExplained
      <3>2. QED
        BY <3>1
    <2>8. QED
      BY <1>6, <2>1, <2>2, <2>3, <2>4, <2>5, <2>6, <2>7 DEF Works
  <1>7. QED
    BY <1>1, <1>5, <1>6 DEF RingNext, Over

(* The chain of a rank that has returned Ok goes all the way round; so no  *)
(* message was on its way when the call began, every chunk met was the one *)
(* of the exchange, and after the last exchange all are whole.             *)
LEMMA WholeFromHistory == RingInv /\ Explained => SumsAreWhole
  <1>1. SUFFICES ASSUME RingInv, Explained, NEW r \in Ranks,
                        status[r] = "between", call[r] > 0, Op(r) = "all_reduce"
                 PROVE  buf[r] = [c \in Ranks |-> [q \in Ranks |-> call[r]]]
    BY DEF SumsAreWhole
  <1>2. PICK p, b, t : History(p, b, t)
    BY <1>1 DEF Explained
  <1> DEFINE k == call[r]
  <1>3. /\ call \in [Ranks -> 0..Len(Calls)] /\ b \in Histories /\ t \in Histories
        /\ RingTypeOK /\ Len(Calls) \in Nat
    BY <1>1, <1>2, HistoryFacts DEF RingInv
  <1>4. k \in 1..Len(Calls) /\ k \in 1..call[r] /\ k \in Nat /\ Summed(r, k)
    BY <1>1, <1>3 DEF Summed, Op
  <1>5. Linked(call, b, t, r, k, N)
    BY <1>2, <1>4 DEF History, AfterReduction
  <1>6. Surplus(call, b, t)
    BY <1>2 DEF History
  <1>7. Aligned(call, b, t, k)
    BY <1>3, <1>4, <1>5, <1>6, LinkedRound DEF Aligned
  <1>8. step[r] = Exchanges
    BY <1>1 DEF Explained, Finished
  <1>9. ASSUME NEW c \in Ranks PROVE buf[r][c] = [q \in Ranks |-> k]
    <2>1. PICK j \in 0..(N - 1) : Back(r, j) = c
      BY BackReaches
    <2>2. buf[r][Back(r, j)] = Share(r, Width(step[r], j), k)
      BY <1>1, <1>2, <1>7 DEF History, BuffersRight
    <2>3. Width(step[r], j) = N - 1
      BY <1>8, WidthEnd
    <2>4. Share(r, N - 1, k) = [q \in Ranks |-> k]
      BY <1>4, ShareAll
    <2>5. QED
      BY <2>1, <2>2, <2>3, <2>4
  <1>10. buf[r] \in [Ranks -> Sums]
    BY <1>3 DEF RingTypeOK
  <1>11. QED
    BY <1>9, <1>10

(* An all-reduce that returns Ok has summed every rank's contribution to   *)
(* this very call, in every chunk, whatever timed out before and whatever  *)
(* earlier calls left on the sockets: after a time-out messages may be     *)
(* lost, torn or left over, but a rank that met anything else than the     *)
(* chunk of its exchange cannot get to the end of the call.                *)
THEOREM ReductionsWhole == RingSpec => []SumsAreWhole
  <1>1. RingInit => RingInv /\ Explained
    BY RingStarts, InitExplained
  <1>2. RingInv /\ Explained /\ [RingNext]_ringVars => RingInv' /\ Explained'
    BY RingStep, ExplainedStep
  <1>3. RingInv /\ Explained => SumsAreWhole
    BY WholeFromHistory
  <1>4. QED
    BY <1>1, <1>2, <1>3, PTL DEF RingSpec
==============================================================================
