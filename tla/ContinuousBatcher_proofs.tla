----------------------- MODULE ContinuousBatcher_proofs -----------------------
(***************************************************************************)
(* Theorems about the scheduler, for every value of its constants, with    *)
(* proofs checked by TLAPS.                                                *)
(***************************************************************************)
EXTENDS ContinuousBatcher, SequenceTheorems, FiniteSetTheorems, TLAPS

(***************************************************************************)
(* Removal from the middle of a sequence.                                  *)
(***************************************************************************)
(* Removing position i from a sequence shifts what comes after it left by  *)
(* one (VecDeque::remove in fill_slots).                                   *)
LEMMA RemoveAtIsSeq ==
    ASSUME NEW S, NEW s \in Seq(S), NEW i \in 1..Len(s)
    PROVE  /\ RemoveAt(s, i) \in Seq(S)
           /\ Len(RemoveAt(s, i)) = Len(s) - 1
           /\ \A j \in 1..(Len(s) - 1) :
                 RemoveAt(s, i)[j] = IF j < i THEN s[j] ELSE s[j + 1]
<1> DEFINE a == SubSeq(s, 1, i - 1)
           b == SubSeq(s, i + 1, Len(s))
<1>0. Len(s) \in Nat /\ \A j \in 1..Len(s) : s[j] \in S
  BY LenProperties, ElementOfSeq
<1>1. a \in Seq(S) /\ Len(a) = i - 1 /\ \A j \in 1..(i - 1) : a[j] = s[j]
  BY <1>0, SubSeqProperties
<1>2. b \in Seq(S) /\ Len(b) = Len(s) - i /\ \A j \in 1..(Len(s) - i) : b[j] = s[i + j]
  BY <1>0, SubSeqProperties
<1>3. /\ a \o b \in Seq(S)
      /\ Len(a \o b) = Len(a) + Len(b)
      /\ \A j \in 1..(Len(a) + Len(b)) :
            (a \o b)[j] = IF j <= Len(a) THEN a[j] ELSE b[j - Len(a)]
  BY <1>1, <1>2, ConcatProperties
<1> HIDE DEF a, b
<1>4. RemoveAt(s, i) = a \o b
  BY DEF RemoveAt, a, b
<1>5. ASSUME NEW j \in 1..(Len(s) - 1)
      PROVE  (a \o b)[j] = IF j < i THEN s[j] ELSE s[j + 1]
  <2>1. CASE j < i
    BY <2>1, <1>0, <1>1, <1>2, <1>3
  <2>2. CASE j >= i
    <3>1. j - (i - 1) \in 1..(Len(s) - i)
      BY <2>2, <1>0
    <3>2. (a \o b)[j] = b[j - (i - 1)]
      BY <2>2, <1>0, <1>1, <1>2, <1>3
    <3>3. b[j - (i - 1)] = s[i + (j - (i - 1))]
      BY <3>1, <1>2
    <3>4. i + (j - (i - 1)) = j + 1
      BY <1>0
    <3> QED BY <3>2, <3>3, <3>4, <2>2, <1>0
  <2>3. j < i \/ j >= i
    BY <1>0
  <2> QED BY <2>1, <2>2, <2>3
<1> QED BY <1>0, <1>1, <1>2, <1>3, <1>4, <1>5

(* A sequence without an element is a sequence that is no longer.          *)
LEMMA WithoutIsSeq ==
    ASSUME NEW S, NEW s \in Seq(S), NEW e
    PROVE  Without(s, e) \in Seq(S)
<1>1. CASE e \in Range(s)
  <2>1. \E i \in 1..Len(s) : s[i] = e
    BY <1>1, LenProperties DEF Range
  <2>2. (CHOOSE i \in 1..Len(s) : s[i] = e) \in 1..Len(s)
    BY <2>1
  <2> QED BY <1>1, <2>2, RemoveAtIsSeq DEF Without
<1>2. CASE e \notin Range(s)
  BY <1>2 DEF Without
<1> QED BY <1>1, <1>2

(* Vec::swap_remove yields a sequence that is one shorter                  *)
(* (drain_retired).                                                        *)
LEMMA SwapRemoveIsSeq ==
    ASSUME NEW S, NEW s \in Seq(S), NEW i \in 1..Len(s)
    PROVE  /\ SwapRemove(s, i) \in Seq(S)
           /\ Len(SwapRemove(s, i)) = Len(s) - 1
           /\ \A j \in 1..(Len(s) - 1) :
                 SwapRemove(s, i)[j] = IF j = i THEN s[Len(s)] ELSE s[j]
<1>1. Len(s) \in Nat /\ \A j \in 1..Len(s) : s[j] \in S
  BY LenProperties, ElementOfSeq
<1>2. SwapRemove(s, i) \in [1..(Len(s) - 1) -> S]
  BY <1>1 DEF SwapRemove
<1>3. Len(s) - 1 \in Nat
  BY <1>1
<1>4. SwapRemove(s, i) \in Seq(S)
  BY <1>2, <1>3, IsASeq DEF SwapRemove
<1>5. Len(SwapRemove(s, i)) = Len(s) - 1
  BY <1>2, <1>3, <1>4, LenProperties
<1> QED BY <1>4, <1>5 DEF SwapRemove

(***************************************************************************)
(* What appending and removing do to the elements of a sequence without    *)
(* repetitions.                                                            *)
(***************************************************************************)
(* Appending a new element keeps a sequence injective and adds that        *)
(* element to its range (push_back in enqueue, push in fill_slots).        *)
LEMMA AppendElements ==
    ASSUME NEW S, NEW s \in Seq(S), NEW e \in S, IsInjective(s), e \notin Range(s)
    PROVE  IsInjective(Append(s, e)) /\ Range(Append(s, e)) = Range(s) \cup {e}
<1> DEFINE t == Append(s, e)
<1>1. /\ Len(s) \in Nat /\ DOMAIN s = 1..Len(s)
      /\ t \in Seq(S) /\ Len(t) = Len(s) + 1
      /\ \A i \in 1..Len(s) : t[i] = s[i]
      /\ t[Len(s) + 1] = e
  BY AppendProperties, LenProperties
<1>2. DOMAIN t = 1..(Len(s) + 1)
  BY <1>1, LenProperties
<1> HIDE DEF t
<1>3. IsInjective(t)
  BY <1>1, <1>2 DEF IsInjective, Range
<1>4. Range(t) = Range(s) \cup {e}
  BY <1>1, <1>2 DEF Range
<1> QED BY <1>3, <1>4 DEF t

(* Removing a position of an injective sequence takes exactly the element  *)
(* there out of its range.                                                 *)
LEMMA RemoveAtElements ==
    ASSUME NEW S, NEW s \in Seq(S), NEW i \in 1..Len(s), IsInjective(s)
    PROVE  /\ IsInjective(RemoveAt(s, i))
           /\ Range(RemoveAt(s, i)) = Range(s) \ {s[i]}
<1> DEFINE t == RemoveAt(s, i)
<1>1. /\ Len(s) \in Nat /\ DOMAIN s = 1..Len(s)
      /\ t \in Seq(S) /\ Len(t) = Len(s) - 1
      /\ \A j \in 1..(Len(s) - 1) : t[j] = IF j < i THEN s[j] ELSE s[j + 1]
  BY RemoveAtIsSeq, LenProperties
<1>2. DOMAIN t = 1..(Len(s) - 1)
  BY <1>1, LenProperties
<1> HIDE DEF t
<1>3. IsInjective(t)
  <2> SUFFICES ASSUME NEW a \in 1..(Len(s) - 1), NEW b \in 1..(Len(s) - 1), t[a] = t[b]
               PROVE  a = b
    BY <1>2 DEF IsInjective
  <2> DEFINE old(k) == IF k < i THEN k ELSE k + 1
  <2>1. t[a] = s[old(a)] /\ t[b] = s[old(b)]
    BY <1>1
  <2>2. old(a) \in DOMAIN s /\ old(b) \in DOMAIN s
    BY <1>1
  <2>3. old(a) = old(b)
    BY <2>1, <2>2 DEF IsInjective
  <2> QED BY <2>3, <1>1
<1>4. ASSUME NEW x \in Range(t)
      PROVE  x \in Range(s) \ {s[i]}
  <2> PICK k \in 1..(Len(s) - 1) : x = t[k]
    BY <1>2 DEF Range
  <2>1. CASE k < i
    <3>1. k \in DOMAIN s /\ x = s[k] /\ k # i
      BY <2>1, <1>1
    <3> QED BY <3>1, <1>1 DEF Range, IsInjective
  <2>2. CASE k >= i
    <3>1. k + 1 \in DOMAIN s /\ x = s[k + 1] /\ k + 1 # i
      BY <2>2, <1>1
    <3> QED BY <3>1, <1>1 DEF Range, IsInjective
  <2>3. k < i \/ k >= i
    BY <1>1
  <2> QED BY <2>1, <2>2, <2>3
<1>5. ASSUME NEW x \in Range(s), x # s[i]
      PROVE  x \in Range(t)
  <2> PICK k \in 1..Len(s) : x = s[k]
    BY <1>1 DEF Range
  <2>1. CASE k < i
    <3>1. k \in DOMAIN t /\ t[k] = x
      BY <2>1, <1>1, <1>2
    <3> QED BY <3>1 DEF Range
  <2>2. CASE k > i
    <3>1. k - 1 \in DOMAIN t /\ t[k - 1] = x
      BY <2>2, <1>1, <1>2
    <3> QED BY <3>1 DEF Range
  <2>3. k < i \/ k > i
    BY <1>1, <1>5
  <2> QED BY <2>1, <2>2, <2>3
<1> QED BY <1>3, <1>4, <1>5 DEF t

(* swap_remove takes exactly the element at i out of the range of an       *)
(* injective sequence, though it moves the last one.                       *)
LEMMA SwapRemoveElements ==
    ASSUME NEW S, NEW s \in Seq(S), NEW i \in 1..Len(s), IsInjective(s)
    PROVE  /\ IsInjective(SwapRemove(s, i))
           /\ Range(SwapRemove(s, i)) = Range(s) \ {s[i]}
<1> DEFINE t == SwapRemove(s, i)
<1>0. Len(s) \in Nat
  BY LenProperties
<1>1. /\ Len(s) \in Nat /\ DOMAIN s = 1..Len(s)
      /\ t \in Seq(S) /\ Len(t) = Len(s) - 1
      /\ \A j \in 1..(Len(s) - 1) : t[j] = IF j = i THEN s[Len(s)] ELSE s[j]
  BY SwapRemoveIsSeq, LenProperties
<1>2. DOMAIN t = 1..(Len(s) - 1)
  BY <1>1, LenProperties
<1> HIDE DEF t
<1>3. IsInjective(t)
  <2> SUFFICES ASSUME NEW a \in 1..(Len(s) - 1), NEW b \in 1..(Len(s) - 1), t[a] = t[b]
               PROVE  a = b
    BY <1>2 DEF IsInjective
  <2> DEFINE old(k) == IF k = i THEN Len(s) ELSE k
  <2>1. t[a] = s[old(a)] /\ t[b] = s[old(b)]
    BY <1>1
  <2>2. old(a) \in DOMAIN s /\ old(b) \in DOMAIN s
    BY <1>1
  <2>3. old(a) = old(b)
    BY <2>1, <2>2 DEF IsInjective
  <2> QED BY <2>3, <1>1
<1>4. ASSUME NEW x \in Range(t)
      PROVE  x \in Range(s) \ {s[i]}
  <2> PICK k \in 1..(Len(s) - 1) : x = t[k]
    BY <1>2 DEF Range
  <2>1. CASE k = i
    <3>1. Len(s) # i /\ Len(s) \in 1..Len(s)
      BY <2>1, <1>0
    <3>2. t[k] = s[Len(s)]
      BY <2>1, <1>1
    <3> QED BY <3>1, <3>2, <1>1 DEF Range, IsInjective
  <2>2. CASE k # i
    <3>1. k \in DOMAIN s /\ x = s[k]
      BY <2>2, <1>1
    <3> QED BY <2>2, <3>1, <1>1 DEF Range, IsInjective
  <2> QED BY <2>1, <2>2
<1>5. ASSUME NEW x \in Range(s), x # s[i]
      PROVE  x \in Range(t)
  <2> PICK k \in 1..Len(s) : x = s[k]
    BY <1>1 DEF Range
  <2>1. CASE k < Len(s)
    <3>1. k \in DOMAIN t /\ t[k] = x
      BY <2>1, <1>1, <1>2, <1>5
    <3> QED BY <3>1 DEF Range
  <2>2. CASE k = Len(s)
    <3>1. i \in DOMAIN t /\ t[i] = x
      BY <2>2, <1>1, <1>2, <1>5
    <3> QED BY <3>1 DEF Range
  <2>3. k < Len(s) \/ k = Len(s)
    BY <1>0
  <2> QED BY <2>1, <2>2, <2>3
<1> QED BY <1>3, <1>4, <1>5 DEF t

(***************************************************************************)
(* Type correctness.                                                       *)
(***************************************************************************)
(* A new scheduler (ContinuousBatcher::new) has its type.                  *)
LEMMA TypeInit == BatcherInit => BatcherTypeOK
  BY EmptySeq DEF BatcherInit, BatcherTypeOK, States, Reasons, Phases

(* Every operation of the scheduler keeps its type.                        *)
LEMMA TypeStep == BatcherTypeOK /\ [BatcherNext]_batcherVars => BatcherTypeOK'
<1> SUFFICES ASSUME BatcherTypeOK, [BatcherNext]_batcherVars
             PROVE  BatcherTypeOK'
  OBVIOUS
<1> USE BatcherAssumption
    DEF BatcherTypeOK, States, LiveStates, RetiredStates, Reasons, Phases
<1>1. ASSUME NEW r \in Req, NEW hit \in Hits, Enqueue(r, hit)
      PROVE  BatcherTypeOK'
  <2>1. PromptLen[r] \in Nat /\ hit \in Nat
    OBVIOUS
  <2>2. PromptLen[r] - hit \in Nat
    BY <1>1, <2>1 DEF Enqueue
  <2>3. left' \in [Req -> Nat]
    BY <1>1, <2>2 DEF Enqueue
  <2>4. pending' \in Seq(Req) /\ arrivals' \in Seq(Req)
    BY <1>1, AppendProperties DEF Enqueue
  <2>5. state' \in [Req -> States]
    BY <1>1 DEF Enqueue
  <2> QED BY <1>1, <2>3, <2>4, <2>5 DEF Enqueue
<1>2. ASSUME NEW r \in Req, CancelSlot(r)
      PROVE  BatcherTypeOK'
  BY <1>2, WithoutIsSeq DEF CancelSlot
<1>3. ASSUME NEW r \in Req, CancelQueued(r)
      PROVE  BatcherTypeOK'
  BY <1>3, WithoutIsSeq DEF CancelQueued
<1>4. CASE Abandon
  BY <1>4 DEF Abandon
<1>5. CASE FillSlot
  <2> PICK i \in AdmissibleAt :
          /\ state' = [state EXCEPT ![pending[i]] = "Pending"]
          /\ slots' = Append(slots, pending[i])
          /\ pending' = RemoveAt(pending, i)
    BY <1>5 DEF FillSlot
  <2>1. i \in 1..Len(pending) /\ pending[i] \in Req
    BY ElementOfSeq DEF AdmissibleAt
  <2> QED BY <1>5, <2>1, AppendProperties, RemoveAtIsSeq DEF FillSlot
<1>6. ASSUME NEW r \in Req, IssuePrefill(r)
      PROVE  BatcherTypeOK'
  BY <1>6, WithoutIsSeq DEF IssuePrefill
<1>7. CASE IssueDecode
  BY <1>7 DEF IssueDecode, InState
<1>8. ASSUME NEW r \in Req, AdvancePrefill(r)
      PROVE  BatcherTypeOK'
  <2>1. left[r] \in Nat /\ PrefillStep \in Nat
    OBVIOUS
  <2>2. left[r] - Chunk(r) \in Nat
    BY <2>1 DEF Chunk, Smaller, Larger
  <2>3. left' \in [Req -> Nat]
    BY <1>8, <2>2 DEF AdvancePrefill
  <2>4. state' \in [Req -> States] /\ phase' \in Phases
    BY <1>8 DEF AdvancePrefill
  <2> QED BY <1>8, <2>3, <2>4 DEF AdvancePrefill
<1>9. ASSUME NEW gone \in SUBSET batch, Deliver(gone)
      PROVE  BatcherTypeOK'
  BY <1>9 DEF Deliver
<1>10. ASSUME NEW kind \in [batch -> TokenKinds], AdvanceDecode(kind)
       PROVE  BatcherTypeOK'
  <2>1. state' \in [Req -> States] /\ generated' \in [Req -> Nat] /\ phase' \in Phases
    BY <1>10 DEF AdvanceDecode
  <2>2. ASSUME NEW r \in Req
        PROVE  (CASE kind[r] = "stop"     -> "Stop"
                  [] kind[r] = "sequence" -> "StopSequence"
                  [] OTHER                -> "Length") \in Reasons
    OBVIOUS
  <2>3. reason' \in [Req -> Reasons]
    BY <1>10, <2>2 DEF AdvanceDecode
  <2> QED BY <1>10, <2>1, <2>3 DEF AdvanceDecode
<1>11. ASSUME NEW r \in Req, DrainSlot(r)
       PROVE  BatcherTypeOK'
  <2> PICK i \in RetiredAt : slots' = SwapRemove(slots, i)
    BY <1>11 DEF DrainSlot
  <2>1. slots' \in Seq(Req)
    BY SwapRemoveIsSeq DEF RetiredAt
  <2> QED BY <1>11, <2>1 DEF DrainSlot
<1>12. CASE DrainEnd
  BY <1>12 DEF DrainEnd
<1>13. CASE UNCHANGED batcherVars
  BY <1>13 DEF batcherVars
<1> QED
  BY <1>1, <1>2, <1>3, <1>4, <1>5, <1>6, <1>7, <1>8, <1>9, <1>10, <1>11, <1>12, <1>13
  DEF BatcherNext, BatcherStep, BatcherCalls

(* The state of the scheduler has its type: the queue and the pool are     *)
(* sequences of requests, every slot is in a state of SlotState.           *)
THEOREM BatcherTypeCorrect == BatcherSpec => []BatcherTypeOK
  BY TypeInit, TypeStep, PTL DEF BatcherSpec

(***************************************************************************)
(* The inductive invariant BatcherInv, one step per action.                *)
(***************************************************************************)
(* Without takes exactly one element out of the range of an injective      *)
(* sequence (retain in cancel).                                            *)
LEMMA WithoutElements ==
    ASSUME NEW S, NEW s \in Seq(S), NEW e \in Range(s), IsInjective(s)
    PROVE  /\ IsInjective(Without(s, e))
           /\ Range(Without(s, e)) = Range(s) \ {e}
           /\ Len(Without(s, e)) = Len(s) - 1
<1> DEFINE i == CHOOSE k \in 1..Len(s) : s[k] = e
<1>1. \E k \in 1..Len(s) : s[k] = e
  BY LenProperties DEF Range
<1>2. i \in 1..Len(s) /\ s[i] = e
  BY <1>1
<1>3. Without(s, e) = RemoveAt(s, i)
  BY DEF Without
<1> HIDE DEF i
<1> QED BY <1>2, <1>3, RemoveAtElements, RemoveAtIsSeq

(* The pool does not grow when no request becomes live.                    *)
LEMMA PoolShrinks ==
    ASSUME Live' \subseteq Live, Cardinality(Live) <= MaxSlots
    PROVE  Cardinality(Live') <= MaxSlots
<1>1. IsFiniteSet(Live)
  BY FS_Subset, BatcherAssumption DEF Live
<1>2. IsFiniteSet(Live') /\ Cardinality(Live') <= Cardinality(Live)
  BY <1>1, FS_Subset
<1>3. Cardinality(Live) \in Nat /\ Cardinality(Live') \in Nat
  BY <1>1, <1>2, FS_CardinalityType
<1> QED BY <1>2, <1>3, BatcherAssumption

(* A new scheduler satisfies the inductive invariant.                      *)
LEMMA InvInit == BatcherInit => BatcherInv
<1> SUFFICES ASSUME BatcherInit
             PROVE  BatcherInv
  OBVIOUS
<1>1. BatcherTypeOK
  BY TypeInit
<1>2. Conservation
  BY DEF BatcherInit, Conservation, IsInjective, Range, InState, LiveStates, RetiredStates
<1>3. PoolWithinCapacity
  <2>1. Live = {} /\ Len(pending) = 0
    BY DEF BatcherInit, Live, LiveStates
  <2> QED BY <2>1, FS_EmptySet, BatcherAssumption DEF PoolWithinCapacity
<1>4. SerialPrefill /\ InstructedSlots
  BY DEF BatcherInit, SerialPrefill, InstructedSlots, InState
<1>5. LengthLimit /\ GeneratedSoFar
  BY BatcherAssumption DEF BatcherInit, LengthLimit, GeneratedSoFar, Larger
<1> QED BY <1>1, <1>2, <1>3, <1>4, <1>5 DEF BatcherInv

(* enqueue_with_reserved_tokens preserves the invariant.                   *)
LEMMA EnqueueInv ==
    ASSUME BatcherInv, NEW r \in Req, NEW hit \in Hits, Enqueue(r, hit), BatcherTypeOK'
    PROVE  BatcherInv'
<1> USE DEF BatcherInv, BatcherTypeOK
<1>1. Conservation'
  <2>1. r \notin Range(pending)
    BY DEF Conservation, InState, Enqueue
  <2>2. IsInjective(pending') /\ Range(pending') = Range(pending) \cup {r}
    BY <2>1, AppendElements DEF Enqueue, Conservation
  <2> QED BY <2>2 DEF Conservation, InState, Enqueue, LiveStates, RetiredStates
<1>2. PoolWithinCapacity'
  <2>1. Live' \subseteq Live
    BY DEF Live, LiveStates, Enqueue
  <2>2. Len(pending') = Len(pending) + 1 /\ Len(pending) \in Nat
    BY AppendProperties, LenProperties DEF Enqueue
  <2> QED BY <2>1, <2>2, PoolShrinks, BatcherAssumption DEF PoolWithinCapacity, Enqueue
<1>3. SerialPrefill' /\ InstructedSlots'
  BY DEF Enqueue, SerialPrefill, InstructedSlots, InState
<1>4. LengthLimit' /\ GeneratedSoFar'
  BY DEF Enqueue, LengthLimit, GeneratedSoFar
<1> QED BY <1>1, <1>2, <1>3, <1>4

(* cancel of a live slot preserves the invariant.                          *)
LEMMA CancelSlotInv ==
    ASSUME BatcherInv, NEW r \in Req, CancelSlot(r), BatcherTypeOK'
    PROVE  BatcherInv'
<1> USE DEF BatcherInv, BatcherTypeOK
<1>1. Conservation'
  BY DEF Conservation, InState, CancelSlot, LiveStates, RetiredStates
<1>2. PoolWithinCapacity'
  <2>1. Live' \subseteq Live
    BY DEF Live, LiveStates, CancelSlot
  <2> QED BY <2>1, PoolShrinks DEF PoolWithinCapacity, CancelSlot
<1>3. SerialPrefill' /\ InstructedSlots'
  BY DEF CancelSlot, SerialPrefill, InstructedSlots, InState
<1>4. LengthLimit' /\ GeneratedSoFar'
  BY DEF CancelSlot, LengthLimit, GeneratedSoFar
<1> QED BY <1>1, <1>2, <1>3, <1>4

(* cancel of a waiting request preserves the invariant.                    *)
LEMMA CancelQueuedInv ==
    ASSUME BatcherInv, NEW r \in Req, CancelQueued(r), BatcherTypeOK'
    PROVE  BatcherInv'
<1> USE DEF BatcherInv, BatcherTypeOK
<1>0. r \in Range(pending)
  BY DEF Conservation, InState, CancelQueued
<1>1. /\ IsInjective(pending') /\ Range(pending') = Range(pending) \ {r}
      /\ Len(pending') = Len(pending) - 1
  BY <1>0, WithoutElements DEF CancelQueued, Conservation
<1>2. Conservation'
  BY <1>1 DEF Conservation, InState, CancelQueued, LiveStates, RetiredStates
<1>3. PoolWithinCapacity'
  <2>1. Live' \subseteq Live
    BY DEF Live, LiveStates, CancelQueued
  <2>2. Len(pending) \in Nat
    BY LenProperties
  <2>3. Len(pending') <= MaxQueueDepth
    BY <1>1, <2>2, BatcherAssumption DEF PoolWithinCapacity
  <2> QED BY <2>1, <2>3, PoolShrinks DEF PoolWithinCapacity
<1>4. SerialPrefill' /\ InstructedSlots'
  BY DEF CancelQueued, SerialPrefill, InstructedSlots, InState
<1>5. LengthLimit' /\ GeneratedSoFar'
  BY DEF CancelQueued, LengthLimit, GeneratedSoFar
<1> QED BY <1>2, <1>3, <1>4, <1>5

(* One iteration of the loop of fill_slots preserves the invariant: the    *)
(* request taken from the queue is the one that enters the pool.           *)
LEMMA FillSlotInv ==
    ASSUME BatcherInv, FillSlot, BatcherTypeOK'
    PROVE  BatcherInv'
<1> USE DEF BatcherInv, BatcherTypeOK
<1> PICK i \in AdmissibleAt :
        /\ state' = [state EXCEPT ![pending[i]] = "Pending"]
        /\ slots' = Append(slots, pending[i])
        /\ pending' = RemoveAt(pending, i)
  BY DEF FillSlot
<1> DEFINE r == pending[i]
<1>0. /\ i \in 1..Len(pending) /\ r \in Req /\ state[r] = "queued"
      /\ r \notin Range(slots) /\ Len(pending) \in Nat
  <2>1. i \in 1..Len(pending)
    BY DEF AdmissibleAt
  <2>2. r \in Range(pending)
    BY <2>1, LenProperties DEF Range
  <2>3. r \in Req /\ state[r] = "queued"
    BY <2>2 DEF Conservation, InState
  <2>4. r \notin Range(slots)
    BY <2>3 DEF Conservation, LiveStates, RetiredStates
  <2> QED BY <2>1, <2>3, <2>4, LenProperties
<1>a. slots' = Append(slots, r) /\ slots \in Seq(Req) /\ IsInjective(slots)
  BY DEF Conservation
<1> HIDE DEF r
<1>1. IsInjective(slots') /\ Range(slots') = Range(slots) \cup {r}
  <2> HIDE DEF BatcherInv
  <2> QED BY <1>0, <1>a, AppendElements
<1>2. /\ IsInjective(pending') /\ Range(pending') = Range(pending) \ {r}
      /\ Len(pending') = Len(pending) - 1
  BY <1>0, RemoveAtElements, RemoveAtIsSeq DEF Conservation, r
<1>3. state' = [state EXCEPT ![r] = "Pending"]
  BY DEF r
<1>4. Conservation'
  <2>1. InState("queued")' = InState("queued") \ {r}
    BY <1>0, <1>3 DEF InState
  <2>2. {q \in Req : state[q] \in LiveStates \cup RetiredStates}'
          = {q \in Req : state[q] \in LiveStates \cup RetiredStates} \cup {r}
    BY <1>0, <1>3 DEF LiveStates, RetiredStates
  <2> QED BY <1>1, <1>2, <2>1, <2>2 DEF Conservation
<1>5. PoolWithinCapacity'
  <2>1. Live' = Live \cup {r}
    BY <1>0, <1>3 DEF Live, LiveStates
  <2>2. IsFiniteSet(Live)
    BY FS_Subset, BatcherAssumption DEF Live
  <2>3. Cardinality(Live) \in Nat
    BY <2>2, FS_CardinalityType
  <2>4. Cardinality(Live \cup {r}) \in {Cardinality(Live), Cardinality(Live) + 1}
    BY <2>2, FS_AddElement
  <2>5. Cardinality(Live') <= MaxSlots
    BY <2>1, <2>3, <2>4, BatcherAssumption DEF FillSlot, CanFill, PoolSize
  <2>6. Len(pending') <= MaxQueueDepth
    BY <1>0, <1>2, BatcherAssumption DEF PoolWithinCapacity
  <2> QED BY <2>5, <2>6 DEF PoolWithinCapacity
<1>6. SerialPrefill' /\ InstructedSlots'
  BY <1>0, <1>3 DEF FillSlot, SerialPrefill, InstructedSlots, InState
<1>7. LengthLimit' /\ GeneratedSoFar'
  BY <1>0, <1>3 DEF FillSlot, LengthLimit, GeneratedSoFar
<1> QED BY <1>4, <1>5, <1>6, <1>7

(* A prefill instruction preserves the invariant: a waiting slot is        *)
(* promoted only when none is prefilling.                                  *)
LEMMA IssuePrefillInv ==
    ASSUME BatcherInv, NEW r \in Req, IssuePrefill(r), BatcherTypeOK'
    PROVE  BatcherInv'
<1> USE DEF BatcherInv, BatcherTypeOK
<1>0. /\ state[r] = ToPrefill /\ ToPrefill \in {"Pending", "Prefilling"}
      /\ InState("Prefilling") # {} => ToPrefill = "Prefilling"
  BY DEF IssuePrefill, IsFirstSlot, ToPrefill
<1>1. Conservation'
  BY <1>0 DEF Conservation, InState, IssuePrefill, LiveStates, RetiredStates
<1>2. PoolWithinCapacity'
  <2>1. Live' \subseteq Live
    BY <1>0 DEF Live, LiveStates, IssuePrefill
  <2> QED BY <2>1, PoolShrinks DEF PoolWithinCapacity, IssuePrefill
<1>3. SerialPrefill'
  BY <1>0 DEF IssuePrefill, SerialPrefill, InState
<1>4. InstructedSlots'
  BY DEF IssuePrefill, InstructedSlots
<1>5. LengthLimit' /\ GeneratedSoFar'
  BY <1>0 DEF IssuePrefill, LengthLimit, GeneratedSoFar
<1> QED BY <1>1, <1>2, <1>3, <1>4, <1>5

(* advance_prefill preserves the invariant: the slot that begins to        *)
(* decode has produced nothing yet.                                        *)
LEMMA AdvancePrefillInv ==
    ASSUME BatcherInv, NEW r \in Req, AdvancePrefill(r), BatcherTypeOK'
    PROVE  BatcherInv'
<1> USE DEF BatcherInv, BatcherTypeOK
<1>0. /\ state[r] = "Prefilling" /\ generated[r] = 0 /\ batch' = {r}
      /\ \/ state' = state /\ phase' = "drain"
         \/ state' = [state EXCEPT ![r] = "Decoding"] /\ phase' = "first"
  BY DEF AdvancePrefill, InstructedSlots, GeneratedSoFar
<1>1. Conservation'
  BY <1>0 DEF Conservation, InState, AdvancePrefill, LiveStates, RetiredStates
<1>2. PoolWithinCapacity'
  <2>1. Live' \subseteq Live
    BY <1>0 DEF Live, LiveStates
  <2> QED BY <2>1, PoolShrinks DEF PoolWithinCapacity, AdvancePrefill
<1>3. SerialPrefill' /\ InstructedSlots'
  BY <1>0 DEF SerialPrefill, InstructedSlots, InState
<1>4. LengthLimit'
  <2>1. 0 < Larger(MaxNew[r], 1)
    BY BatcherAssumption DEF Larger
  <2> QED BY <1>0, <2>1 DEF AdvancePrefill, LengthLimit
<1>5. GeneratedSoFar'
  BY <1>0 DEF AdvancePrefill, GeneratedSoFar
<1> QED BY <1>1, <1>2, <1>3, <1>4, <1>5

(* Cancelling the slots whose receiver is gone preserves the invariant.    *)
LEMMA DeliverInv ==
    ASSUME BatcherInv, NEW gone \in SUBSET batch, Deliver(gone), BatcherTypeOK'
    PROVE  BatcherInv'
<1> USE DEF BatcherInv, BatcherTypeOK
<1>0. \A r \in batch : state[r] = "Decoding" /\ r \in Req
  BY DEF Deliver, InstructedSlots
<1>1. Conservation'
  BY <1>0 DEF Conservation, InState, Deliver, LiveStates, RetiredStates
<1>2. PoolWithinCapacity'
  <2>1. Live' \subseteq Live
    BY DEF Live, LiveStates, Deliver
  <2> QED BY <2>1, PoolShrinks DEF PoolWithinCapacity, Deliver
<1>3. SerialPrefill' /\ InstructedSlots'
  BY <1>0 DEF Deliver, SerialPrefill, InstructedSlots, InState
<1>4. LengthLimit' /\ GeneratedSoFar'
  BY <1>0 DEF Deliver, LengthLimit, GeneratedSoFar
<1> QED BY <1>1, <1>2, <1>3, <1>4

(* advance_decode preserves the invariant: a slot that goes on decoding    *)
(* is still below its limit.                                               *)
LEMMA AdvanceDecodeInv ==
    ASSUME BatcherInv, NEW kind \in [batch -> TokenKinds], AdvanceDecode(kind),
           BatcherTypeOK'
    PROVE  BatcherInv'
<1> USE DEF BatcherInv, BatcherTypeOK
<1>0. /\ \A r \in batch : state[r] \in {"Decoding", "Cancelled"} /\ r \in Req
      /\ \A r \in Req : state'[r] = state[r] \/ (r \in batch /\ state'[r] = "Finished")
      /\ phase' = "drain" /\ batch' = batch
  BY DEF AdvanceDecode, InstructedSlots
<1>1. Conservation'
  <2>1. InState("queued")' = InState("queued")
    BY <1>0 DEF InState
  <2>2. {r \in Req : state[r] \in LiveStates \cup RetiredStates}'
          = {r \in Req : state[r] \in LiveStates \cup RetiredStates}
    BY <1>0 DEF LiveStates, RetiredStates
  <2> QED BY <2>1, <2>2 DEF Conservation, AdvanceDecode
<1>2. PoolWithinCapacity'
  <2>1. Live' \subseteq Live
    BY <1>0 DEF Live, LiveStates
  <2> QED BY <2>1, PoolShrinks DEF PoolWithinCapacity, AdvanceDecode
<1>3. SerialPrefill' /\ InstructedSlots'
  BY <1>0 DEF SerialPrefill, InstructedSlots, InState
<1>4. LengthLimit'
  <2> SUFFICES ASSUME NEW r \in Req
               PROVE  /\ generated'[r] <= Larger(MaxNew[r], 1)
                      /\ state'[r] = "Decoding" => generated'[r] < Larger(MaxNew[r], 1)
                      /\ reason'[r] = "Length" => generated'[r] = Larger(MaxNew[r], 1)
    BY DEF LengthLimit
  <2>0. generated[r] \in Nat /\ MaxNew[r] \in Nat
    BY BatcherAssumption
  <2>1. CASE r \notin batch
    BY <2>1 DEF AdvanceDecode, LengthLimit
  <2>2. CASE r \in batch /\ kind[r] = "stop"
    BY <2>2 DEF AdvanceDecode, LengthLimit
  <2>3. CASE r \in batch /\ kind[r] # "stop"
    <3>1. generated'[r] = generated[r] + 1 /\ generated[r] < Larger(MaxNew[r], 1)
      BY <2>3 DEF AdvanceDecode, GeneratedSoFar
    <3>2. CASE kind[r] = "sequence"
      <4>1. state'[r] = "Finished" /\ reason'[r] = "StopSequence"
        BY <2>3, <3>2 DEF AdvanceDecode
      <4> QED BY <2>0, <3>1, <4>1 DEF Larger
    <3>3. CASE kind[r] # "sequence" /\ generated[r] + 1 >= MaxNew[r]
      <4>1. state'[r] = "Finished"
        BY <2>3, <3>3 DEF AdvanceDecode, LengthReached
      <4> QED BY <2>0, <3>1, <3>3, <4>1 DEF Larger
    <3>4. CASE kind[r] # "sequence" /\ ~(generated[r] + 1 >= MaxNew[r])
      <4>1. reason'[r] = reason[r]
        BY <2>3, <3>4 DEF AdvanceDecode, LengthReached
      <4>2. reason[r] # "Length"
        BY <2>0, <3>1 DEF LengthLimit
      <4> QED BY <2>0, <3>1, <3>4, <4>1, <4>2 DEF Larger
    <3> QED BY <3>2, <3>3, <3>4
  <2> QED BY <2>1, <2>2, <2>3
<1>5. GeneratedSoFar'
  BY <1>0 DEF AdvanceDecode, GeneratedSoFar
<1> QED BY <1>1, <1>2, <1>3, <1>4, <1>5

(* One iteration of drain_retired preserves the invariant.                 *)
LEMMA DrainSlotInv ==
    ASSUME BatcherInv, NEW r \in Req, DrainSlot(r), BatcherTypeOK'
    PROVE  BatcherInv'
<1> USE DEF BatcherInv, BatcherTypeOK
<1> PICK i \in RetiredAt : r = slots[i] /\ slots' = SwapRemove(slots, i)
  BY DEF DrainSlot
<1>0. i \in 1..Len(slots) /\ state[r] \in RetiredStates
  BY DEF RetiredAt
<1>1. IsInjective(slots') /\ Range(slots') = Range(slots) \ {r}
  BY <1>0, SwapRemoveElements DEF Conservation
<1>2. Conservation'
  BY <1>0, <1>1 DEF Conservation, InState, DrainSlot, LiveStates, RetiredStates
<1>3. PoolWithinCapacity'
  <2>1. Live' \subseteq Live
    BY DEF Live, LiveStates, DrainSlot
  <2> QED BY <2>1, PoolShrinks DEF PoolWithinCapacity, DrainSlot
<1>4. SerialPrefill' /\ InstructedSlots'
  BY DEF DrainSlot, SerialPrefill, InstructedSlots, InState
<1>5. LengthLimit'
  <2>1. MaxNew[r] \in Nat
    BY BatcherAssumption
  <2>2. 0 < Larger(MaxNew[r], 1) /\ 0 <= Larger(MaxNew[r], 1)
    BY <2>1 DEF Larger
  <2> QED BY <2>2 DEF DrainSlot, LengthLimit
<1>6. GeneratedSoFar'
  BY DEF DrainSlot, GeneratedSoFar
<1> QED BY <1>2, <1>3, <1>4, <1>5, <1>6

(* The steps that change only where the caller stands.                     *)
LEMMA PhaseInv ==
    ASSUME BatcherInv, BatcherTypeOK',
           IssueDecode \/ DrainEnd \/ Abandon \/ UNCHANGED batcherVars
    PROVE  BatcherInv'
<1> USE DEF BatcherInv, BatcherTypeOK
<1>0. /\ UNCHANGED <<state, slots, pending, generated, reason>>
      /\ phase' # "advance" \/ (phase' = phase /\ batch' = batch)
  BY DEF IssueDecode, DrainEnd, Abandon, batcherVars
<1>1. Conservation' /\ SerialPrefill' /\ LengthLimit'
  BY <1>0 DEF Conservation, SerialPrefill, LengthLimit, InState
<1>2. PoolWithinCapacity'
  <2>1. Live' = Live
    BY <1>0 DEF Live
  <2> QED BY <1>0, <2>1 DEF PoolWithinCapacity
<1>3. InstructedSlots'
  BY DEF IssueDecode, DrainEnd, Abandon, batcherVars, InstructedSlots, InState
<1>4. GeneratedSoFar'
  BY <1>0 DEF GeneratedSoFar
<1> QED BY <1>1, <1>2, <1>3, <1>4

(* Every step of the scheduler preserves the inductive invariant.          *)
LEMMA InvStep == BatcherInv /\ [BatcherNext]_batcherVars => BatcherInv'
<1> SUFFICES ASSUME BatcherInv, [BatcherNext]_batcherVars
             PROVE  BatcherInv'
  OBVIOUS
<1>1. BatcherTypeOK'
  BY TypeStep DEF BatcherInv
<1> QED
  BY <1>1, EnqueueInv, CancelSlotInv, CancelQueuedInv, FillSlotInv, IssuePrefillInv,
     AdvancePrefillInv, DeliverInv, AdvanceDecodeInv, DrainSlotInv, PhaseInv
  DEF BatcherNext, BatcherStep, BatcherCalls

(* The inductive invariant holds in every state of the scheduler.          *)
THEOREM BatcherInvariance == BatcherSpec => []BatcherInv
  BY InvInit, InvStep, PTL DEF BatcherSpec

(* No request is lost or listed twice by the removals from the middle of   *)
(* the queue and by swap_remove in the pool.                               *)
THEOREM BatcherConserves == BatcherSpec => []Conservation
<1>1. BatcherInv => Conservation
  BY DEF BatcherInv
<1> QED BY <1>1, BatcherInvariance, PTL

(* The pool and the queue keep their bounds.                               *)
THEOREM BatcherBounded == BatcherSpec => []PoolWithinCapacity
<1>1. BatcherInv => PoolWithinCapacity
  BY DEF BatcherInv
<1> QED BY <1>1, BatcherInvariance, PTL

(* One slot prefills at a time, also after a step that ended in an error   *)
(* or a cancellation between two chunks (next_instruction).                *)
THEOREM BatcherSerial == BatcherSpec => []SerialPrefill
<1>1. BatcherInv => SerialPrefill
  BY DEF BatcherInv
<1> QED BY <1>1, BatcherInvariance, PTL

(* No request produces more tokens than it asked for, and the length       *)
(* finish reason is only given to one that produced exactly as many.       *)
THEOREM BatcherRespectsLength == BatcherSpec => []LengthLimit
<1>1. BatcherInv => LengthLimit
  BY DEF BatcherInv
<1> QED BY <1>1, BatcherInvariance, PTL

(***************************************************************************)
(* The block budget.                                                       *)
(***************************************************************************)
(* Two finite sets have no more elements together than one by one.         *)
LEMMA UnionAtMost ==
    ASSUME NEW S, NEW T, IsFiniteSet(S), IsFiniteSet(T)
    PROVE  /\ IsFiniteSet(S \cup T)
           /\ Cardinality(S \cup T) <= Cardinality(S) + Cardinality(T)
<1>1. Cardinality(S) \in Nat /\ Cardinality(T) \in Nat /\ Cardinality(S \cap T) \in Nat
  BY FS_Intersection, FS_CardinalityType
<1>2. /\ IsFiniteSet(S \cup T)
      /\ Cardinality(S \cup T) = Cardinality(S) + Cardinality(T) - Cardinality(S \cap T)
  BY FS_Union
<1> QED BY <1>1, <1>2

(* The blocks of a set of requests are a finite set, one request's are its *)
(* ReservedBlocks, none if that is not positive (reserved_blocks).         *)
LEMMA BlocksFinite ==
    ASSUME NEW S \in SUBSET Req
    PROVE  IsFiniteSet(BlocksOf(S)) /\ Cardinality(BlocksOf(S)) \in Nat
<1>1. IsFiniteSet(S) /\ IsFiniteSet(1..MaxBlocks)
  BY FS_Subset, FS_Interval, BatcherAssumption
<1>2. IsFiniteSet(S \X (1..MaxBlocks))
  BY <1>1, FS_Product
<1>3. BlocksOf(S) \subseteq S \X (1..MaxBlocks)
  BY DEF BlocksOf
<1> QED BY <1>2, <1>3, FS_Subset, FS_CardinalityType

LEMMA BlocksOfOne ==
    ASSUME NEW r \in Req, MaxBlocks # 0
    PROVE  /\ ReservedBlocks(r) \in Int /\ ReservedBlocks(r) <= MaxBlocks
           /\ Cardinality(BlocksOf({r})) = Larger(ReservedBlocks(r), 0)
<1> DEFINE n == ReservedBlocks(r)
<1>1. n \in Int /\ n <= MaxBlocks
  <2> DEFINE a == Larger(PromptLen[r] + MaxNew[r], 1)
             b == Larger(BlockSize, 1)
  <2>1. a \in Int /\ b \in Nat \ {0}
    BY BatcherAssumption DEF Larger
  <2> HIDE DEF a, b
  <2>2. CeilDiv(a, b) \in Int
    BY <2>1 DEF CeilDiv
  <2>3. n = Smaller(CeilDiv(a, b), MaxBlocks)
    BY DEF ReservedBlocks, a, b
  <2> QED BY <2>2, <2>3, BatcherAssumption DEF Smaller
<1> HIDE DEF n
<1> DEFINE f == [i \in 1..n |-> <<r, i>>]
<1>2. BlocksOf({r}) = {<<r, i>> : i \in 1..n}
  BY <1>1, BatcherAssumption DEF BlocksOf, n
<1>3. f \in Bijection(1..n, BlocksOf({r}))
  BY <1>2 DEF Bijection, Injection, Surjection, IsInjective
<1>4. IsFiniteSet(1..n) /\ Cardinality(1..n) = Larger(n, 0)
  BY <1>1, FS_Interval DEF Larger
<1>5. Cardinality(BlocksOf({r})) = Cardinality(1..n)
  <2> HIDE DEF f
  <2> QED BY <1>3, <1>4, FS_Bijection DEF ExistsBijection
<1> QED BY <1>1, <1>4, <1>5 DEF n

(* The live slots keep within the budget when no request becomes live.     *)
LEMMA BudgetShrinks ==
    ASSUME Live' \subseteq Live, WithinBlockBudget
    PROVE  WithinBlockBudget'
<1>1. IsFiniteSet(BlocksOf(Live)) /\ Cardinality(BlocksOf(Live)) \in Nat
  BY BlocksFinite DEF Live
<1>2. BlocksOf(Live') \subseteq BlocksOf(Live)
  BY DEF BlocksOf
<1>3. Cardinality(BlocksOf(Live')) <= Cardinality(BlocksOf(Live))
  BY <1>1, <1>2, FS_Subset
<1>4. Cardinality(BlocksOf(Live')) \in Nat
  BY <1>1, <1>2, FS_Subset, FS_CardinalityType
<1> QED BY <1>1, <1>3, <1>4, BatcherAssumption DEF WithinBlockBudget

(* fill_slots takes a request whose blocks fit in what remains, from       *)
(* wherever in the queue it finds it.                                      *)
LEMMA FillSlotBudget ==
    ASSUME BatcherInv, WithinBlockBudget, FillSlot
    PROVE  WithinBlockBudget'
<1> PICK i \in AdmissibleAt : state' = [state EXCEPT ![pending[i]] = "Pending"]
  BY DEF FillSlot
<1> DEFINE r == pending[i]
           n == Cardinality(BlocksOf(Live))
<1>1. /\ r \in Req
      /\ MaxBlocks = 0 \/ ReservedBlocks(r) <= Remaining
      /\ state \in [Req -> States]
      /\ state' = [state EXCEPT ![r] = "Pending"]
  BY ElementOfSeq DEF AdmissibleAt, BatcherInv, BatcherTypeOK
<1> HIDE DEF r
<1>2. BlocksOf(Live') \subseteq BlocksOf(Live) \cup BlocksOf({r})
  <2>1. Live' \subseteq Live \cup {r}
    BY <1>1 DEF Live
  <2> QED BY <2>1 DEF BlocksOf
<1>3. /\ IsFiniteSet(BlocksOf(Live)) /\ n \in Nat /\ n <= MaxBlocks
      /\ IsFiniteSet(BlocksOf({r})) /\ Cardinality(BlocksOf({r})) \in Nat
  BY <1>1, BlocksFinite DEF Live, WithinBlockBudget
<1>4. /\ IsFiniteSet(BlocksOf(Live) \cup BlocksOf({r}))
      /\ Cardinality(BlocksOf(Live) \cup BlocksOf({r})) <= n + Cardinality(BlocksOf({r}))
  BY <1>3, UnionAtMost
<1>5. /\ Cardinality(BlocksOf(Live')) \in Nat
      /\ Cardinality(BlocksOf(Live')) <= Cardinality(BlocksOf(Live) \cup BlocksOf({r}))
  BY <1>2, <1>4, FS_Subset, FS_CardinalityType
<1>6. Cardinality(BlocksOf(Live) \cup BlocksOf({r})) \in Nat
  BY <1>4, FS_CardinalityType
<1>7. n + Cardinality(BlocksOf({r})) <= MaxBlocks
  <2>1. CASE MaxBlocks = 0
    <3>1. BlocksOf({r}) = {}
      BY <2>1 DEF BlocksOf
    <3> QED BY <1>3, <3>1, FS_EmptySet
  <2>2. CASE MaxBlocks # 0
    <3>1. Remaining = Larger(MaxBlocks - n, 0)
      BY DEF Remaining, ActiveReserved
    <3>2. /\ ReservedBlocks(r) \in Int
          /\ Cardinality(BlocksOf({r})) = Larger(ReservedBlocks(r), 0)
      BY <1>1, <2>2, BlocksOfOne
    <3> HIDE DEF n
    <3> QED BY <1>1, <1>3, <2>2, <3>1, <3>2, BatcherAssumption DEF Larger
  <2> QED BY <2>1, <2>2
<1> HIDE DEF n
<1>8. Cardinality(BlocksOf(Live')) <= MaxBlocks
  BY <1>3, <1>4, <1>5, <1>6, <1>7, BatcherAssumption
<1> QED BY <1>8 DEF WithinBlockBudget

(* No other operation makes a request live.                                *)
LEMMA OthersBudget ==
    ASSUME BatcherInv, [BatcherNext]_batcherVars, ~FillSlot
    PROVE  Live' \subseteq Live
<1> USE DEF Live, LiveStates, BatcherInv, BatcherTypeOK
<1>1. ASSUME NEW r \in Req
      PROVE  /\ \A hit \in Hits : Enqueue(r, hit) => Live' \subseteq Live
             /\ CancelSlot(r) \/ CancelQueued(r) \/ DrainSlot(r) => Live' \subseteq Live
  BY DEF Enqueue, CancelSlot, CancelQueued, DrainSlot
<1>2. ASSUME NEW r \in Req, IssuePrefill(r)
      PROVE  Live' \subseteq Live
  BY <1>2 DEF IssuePrefill, IsFirstSlot, ToPrefill
<1>3. ASSUME NEW r \in Req, AdvancePrefill(r)
      PROVE  Live' \subseteq Live
  BY <1>3 DEF AdvancePrefill, InstructedSlots
<1>4. \A gone \in SUBSET batch : Deliver(gone) => Live' \subseteq Live
  BY DEF Deliver
<1>5. \A kind \in [batch -> TokenKinds] : AdvanceDecode(kind) => Live' \subseteq Live
  BY DEF AdvanceDecode
<1>6. IssueDecode \/ DrainEnd \/ Abandon \/ UNCHANGED batcherVars => Live' \subseteq Live
  BY DEF IssueDecode, DrainEnd, Abandon, batcherVars
<1> QED
  BY <1>1, <1>2, <1>3, <1>4, <1>5, <1>6 DEF BatcherNext, BatcherStep, BatcherCalls

(* The live slots never hold a reservation beyond the block budget,        *)
(* whatever is taken out of order from the queue and however an oversized  *)
(* request is clamped (fill_slots, reserved_blocks).                       *)
THEOREM BatcherWithinBudget == BatcherSpec => []WithinBlockBudget
<1>1. BatcherInit => WithinBlockBudget
  <2> SUFFICES ASSUME BatcherInit PROVE WithinBlockBudget
    OBVIOUS
  <2>1. BlocksOf(Live) = {}
    BY DEF BatcherInit, Live, LiveStates, BlocksOf
  <2> QED BY <2>1, FS_EmptySet, BatcherAssumption DEF WithinBlockBudget
<1>2. BatcherInv /\ WithinBlockBudget /\ [BatcherNext]_batcherVars => WithinBlockBudget'
  BY FillSlotBudget, OthersBudget, BudgetShrinks
<1> QED BY <1>1, <1>2, BatcherInvariance, PTL DEF BatcherSpec

(***************************************************************************)
(* The order of the queue.                                                 *)
(***************************************************************************)
LEMMA BeforeInRange ==
    ASSUME NEW S, NEW s \in Seq(S), NEW a, NEW b, Before(s, a, b)
    PROVE  a \in Range(s) /\ b \in Range(s) /\ (IsInjective(s) => a # b)
<1>1. DOMAIN s = 1..Len(s) /\ Len(s) \in Nat
  BY LenProperties
<1> QED BY <1>1 DEF Before, Range, IsInjective

(* push_back keeps the order and adds its element behind all others.       *)
LEMMA BeforeAppended ==
    ASSUME NEW S, NEW s \in Seq(S), NEW e \in S, NEW a, NEW b
    PROVE  Before(Append(s, e), a, b) <=> Before(s, a, b) \/ (b = e /\ a \in Range(s))
<1> DEFINE t == Append(s, e)
<1>1. /\ Len(s) \in Nat /\ DOMAIN s = 1..Len(s)
      /\ Len(t) = Len(s) + 1
      /\ \A i \in 1..Len(s) : t[i] = s[i]
      /\ t[Len(s) + 1] = e
  BY AppendProperties, LenProperties
<1> HIDE DEF t
<1>2. ASSUME Before(t, a, b)
      PROVE  Before(s, a, b) \/ (b = e /\ a \in Range(s))
  <2>1. PICK i, j \in 1..Len(t) : i < j /\ t[i] = a /\ t[j] = b
    BY <1>2 DEF Before
  <2>2. i \in 1..Len(s) /\ s[i] = a
    BY <1>1, <2>1
  <2>3. CASE j = Len(s) + 1
    BY <1>1, <2>1, <2>2, <2>3 DEF Range
  <2>4. CASE j # Len(s) + 1
    <3>1. j \in 1..Len(s) /\ s[j] = b
      BY <1>1, <2>1, <2>4
    <3> QED BY <2>1, <2>2, <3>1 DEF Before
  <2> QED BY <2>3, <2>4
<1>3. ASSUME Before(s, a, b)
      PROVE  Before(t, a, b)
  <2>1. PICK i, j \in 1..Len(s) : i < j /\ s[i] = a /\ s[j] = b
    BY <1>3 DEF Before
  <2>2. i \in 1..Len(t) /\ j \in 1..Len(t) /\ t[i] = a /\ t[j] = b
    BY <1>1, <2>1
  <2> QED BY <2>1, <2>2 DEF Before
<1>4. ASSUME b = e, a \in Range(s)
      PROVE  Before(t, a, b)
  <2>1. PICK i \in 1..Len(s) : s[i] = a
    BY <1>1, <1>4 DEF Range
  <2>2. /\ i \in 1..Len(t) /\ Len(s) + 1 \in 1..Len(t) /\ i < Len(s) + 1
        /\ t[i] = a /\ t[Len(s) + 1] = b
    BY <1>1, <1>4, <2>1
  <2> QED BY <2>2 DEF Before
<1> QED BY <1>2, <1>3, <1>4 DEF t

(* A removal keeps the order of the elements that are left.                *)
LEMMA BeforeRemoved ==
    ASSUME NEW S, NEW s \in Seq(S), NEW k \in 1..Len(s), IsInjective(s), NEW a, NEW b
    PROVE  Before(RemoveAt(s, k), a, b) <=> Before(s, a, b) /\ a # s[k] /\ b # s[k]
<1> DEFINE t == RemoveAt(s, k)
           old(j) == IF j < k THEN j ELSE j + 1
           new(j) == IF j < k THEN j ELSE j - 1
<1>1. /\ Len(s) \in Nat /\ DOMAIN s = 1..Len(s)
      /\ Len(t) = Len(s) - 1
      /\ \A j \in 1..(Len(s) - 1) : t[j] = IF j < k THEN s[j] ELSE s[j + 1]
  BY RemoveAtIsSeq, LenProperties
<1> HIDE DEF t
<1>2. \A j \in 1..Len(t) : old(j) \in 1..Len(s) /\ old(j) # k /\ t[j] = s[old(j)]
  BY <1>1
<1>3. \A i, j \in 1..Len(t) : i < j => old(i) < old(j)
  BY <1>1
<1>4. \A j \in 1..Len(s) : j # k => new(j) \in 1..Len(t) /\ t[new(j)] = s[j]
  BY <1>1
<1>5. \A i, j \in 1..Len(s) : i # k /\ j # k /\ i < j => new(i) < new(j)
  BY <1>1
<1> HIDE DEF old, new
<1>6. \A j \in 1..Len(s) : j # k => s[j] # s[k]
  BY <1>1 DEF IsInjective
<1>7. ASSUME Before(t, a, b)
      PROVE  Before(s, a, b) /\ a # s[k] /\ b # s[k]
  <2>1. PICK i, j \in 1..Len(t) : i < j /\ t[i] = a /\ t[j] = b
    BY <1>7 DEF Before
  <2> QED BY <1>2, <1>3, <1>6, <2>1 DEF Before
<1>8. ASSUME Before(s, a, b), a # s[k], b # s[k]
      PROVE  Before(t, a, b)
  <2>1. PICK i, j \in 1..Len(s) : i < j /\ s[i] = a /\ s[j] = b
    BY <1>8 DEF Before
  <2>2. i # k /\ j # k
    BY <1>8, <2>1
  <2> QED BY <1>4, <1>5, <2>1, <2>2 DEF Before
<1> QED BY <1>7, <1>8 DEF t

LEMMA BeforeWithout ==
    ASSUME NEW S, NEW s \in Seq(S), NEW e, IsInjective(s)
    PROVE  /\ IsInjective(Without(s, e))
           /\ Range(Without(s, e)) = Range(s) \ {e}
           /\ \A a, b : Before(Without(s, e), a, b) <=> Before(s, a, b) /\ a # e /\ b # e
<1>1. CASE e \in Range(s)
  <2> DEFINE k == CHOOSE i \in 1..Len(s) : s[i] = e
  <2>1. \E i \in 1..Len(s) : s[i] = e
    BY <1>1, LenProperties DEF Range
  <2>2. k \in 1..Len(s) /\ s[k] = e
    BY <2>1
  <2>3. Without(s, e) = RemoveAt(s, k)
    BY <1>1 DEF Without
  <2> HIDE DEF k
  <2> QED BY <1>1, <2>2, <2>3, BeforeRemoved, WithoutElements
<1>2. CASE e \notin Range(s)
  <2>1. Without(s, e) = s
    BY <1>2 DEF Without
  <2> QED BY <1>2, <2>1, BeforeInRange
<1> QED BY <1>1, <1>2

(* Of two members of a sequence without repetitions one stands first.      *)
LEMMA BeforeTotal ==
    ASSUME NEW S, NEW s \in Seq(S), NEW j \in 1..Len(s), NEW i \in 1..Len(s),
           IsInjective(s), Before(s, s[j], s[i])
    PROVE  j < i
<1>1. DOMAIN s = 1..Len(s) /\ Len(s) \in Nat
  BY LenProperties
<1>2. PICK k, l \in 1..Len(s) : k < l /\ s[k] = s[j] /\ s[l] = s[i]
  BY DEF Before
<1>3. k = j /\ l = i
  BY <1>1, <1>2 DEF IsInjective
<1> QED BY <1>2, <1>3

(* `arrivals' lists who has not begun its prefill; the queue keeps that    *)
(* order, and whoever was stepped over in it reserves more blocks than     *)
(* those who went ahead into the pool.                                     *)
OrderInv ==
  /\ IsInjective(arrivals)
  /\ Range(arrivals) = InState("queued") \cup InState("Pending")
  /\ \A a, b \in InState("queued") : Before(arrivals, a, b) => Before(pending, a, b)
  /\ \A a \in InState("queued"), b \in InState("Pending") :
        Before(arrivals, a, b) => ReservedBlocks(a) > ReservedBlocks(b)

LEMMA OrderInit == BatcherInit => OrderInv
BY DEF BatcherInit, OrderInv, IsInjective, Range, InState, Before

(* What the invariants say of the queue and the pool.                      *)
LEMMA QueueFacts ==
    ASSUME BatcherInv
    PROVE  /\ pending \in Seq(Req) /\ IsInjective(pending) /\ Range(pending) = InState("queued")
           /\ arrivals \in Seq(Req)
           /\ state \in [Req -> States]
BY DEF BatcherInv, BatcherTypeOK, Conservation, InState, LiveStates

(* Enqueue adds the request behind all others, to both orders.             *)
LEMMA EnqueueOrder ==
    ASSUME BatcherInv, OrderInv, NEW r \in Req, NEW hit \in Hits, Enqueue(r, hit)
    PROVE  OrderInv'
<1>1. /\ arrivals' = Append(arrivals, r) /\ pending' = Append(pending, r)
      /\ state' = [state EXCEPT ![r] = "queued"] /\ state[r] = "none"
  BY DEF Enqueue
<1>2. /\ InState("queued")' = InState("queued") \cup {r}
      /\ InState("Pending")' = InState("Pending")
      /\ r \notin InState("queued") \cup InState("Pending")
  BY <1>1, QueueFacts DEF InState
<1>3. IsInjective(arrivals') /\ Range(arrivals') = Range(arrivals) \cup {r}
  BY <1>1, <1>2, QueueFacts, AppendElements DEF OrderInv
<1>4. \A a, b : /\ Before(arrivals', a, b)
                     <=> Before(arrivals, a, b) \/ (b = r /\ a \in Range(arrivals))
                /\ Before(pending', a, b)
                     <=> Before(pending, a, b) \/ (b = r /\ a \in Range(pending))
  BY <1>1, QueueFacts, BeforeAppended
<1>5. \A a, b : Before(arrivals, a, b) => a # r /\ b # r
  BY <1>2, QueueFacts, BeforeInRange DEF OrderInv
<1>6. \A a, b \in InState("queued")' : Before(arrivals', a, b) => Before(pending', a, b)
  BY <1>2, <1>4, <1>5, QueueFacts, BeforeInRange DEF OrderInv
<1>7. \A a \in InState("queued")', b \in InState("Pending")' :
         Before(arrivals', a, b) => ReservedBlocks(a) > ReservedBlocks(b)
  BY <1>2, <1>4, <1>5 DEF OrderInv
<1> QED BY <1>2, <1>3, <1>6, <1>7 DEF OrderInv

(* A request that is promoted or cancelled leaves the order of the others. *)
LEMMA LeaveOrder ==
    ASSUME BatcherInv, OrderInv, NEW r \in Req,
           arrivals' = Without(arrivals, r), pending' = Without(pending, r),
           InState("queued")' = InState("queued") \ {r},
           InState("Pending")' = InState("Pending") \ {r}
    PROVE  OrderInv'
<1>1. /\ IsInjective(arrivals') /\ Range(arrivals') = Range(arrivals) \ {r}
      /\ \A a, b : Before(arrivals', a, b) <=> Before(arrivals, a, b) /\ a # r /\ b # r
      /\ \A a, b : Before(pending', a, b) <=> Before(pending, a, b) /\ a # r /\ b # r
  BY QueueFacts, BeforeWithout DEF OrderInv
<1> QED BY <1>1 DEF OrderInv

LEMMA CancelQueuedOrder ==
    ASSUME BatcherInv, OrderInv, NEW r \in Req, CancelQueued(r)
    PROVE  OrderInv'
<1>1. /\ arrivals' = Without(arrivals, r) /\ pending' = Without(pending, r)
      /\ state' = [state EXCEPT ![r] = "none"] /\ state[r] = "queued"
  BY DEF CancelQueued
<1>2. /\ InState("queued")' = InState("queued") \ {r}
      /\ InState("Pending")' = InState("Pending") \ {r}
  BY <1>1, QueueFacts DEF InState
<1> QED BY <1>1, <1>2, LeaveOrder

(* Promoting or cancelling a slot.                                         *)
LEMMA SlotLeavesOrder ==
    ASSUME BatcherInv, OrderInv, NEW r \in Req, IssuePrefill(r) \/ CancelSlot(r)
    PROVE  OrderInv'
<1>1. /\ arrivals' = Without(arrivals, r) /\ pending' = pending
      /\ state' \in {[state EXCEPT ![r] = "Prefilling"], [state EXCEPT ![r] = "Cancelled"]}
      /\ state[r] \in LiveStates
  BY DEF IssuePrefill, CancelSlot, IsFirstSlot, ToPrefill, LiveStates
<1>2. r \notin Range(pending)
  BY <1>1, QueueFacts DEF InState, LiveStates
<1>3. pending' = Without(pending, r)
  BY <1>1, <1>2 DEF Without
<1>4. /\ InState("queued")' = InState("queued") \ {r}
      /\ InState("Pending")' = InState("Pending") \ {r}
  BY <1>1, QueueFacts DEF InState, LiveStates
<1> QED BY <1>1, <1>3, <1>4, LeaveOrder

(* Whoever stands in the queue before the first request that fits does not *)
(* fit, so it reserves more blocks.                                        *)
LEMMA SteppedOver ==
    ASSUME BatcherInv, NEW i \in AdmissibleAt, \A j \in AdmissibleAt : i <= j,
           NEW q \in Req, Before(pending, q, pending[i])
    PROVE  ReservedBlocks(q) > ReservedBlocks(pending[i])
<1>1. Len(pending) \in Nat /\ i \in 1..Len(pending) /\ pending[i] \in Req
  BY QueueFacts, LenProperties, ElementOfSeq DEF AdmissibleAt
<1>2. q \in Range(pending)
  BY QueueFacts, BeforeInRange
<1>3. PICK j \in 1..Len(pending) : pending[j] = q
  BY <1>2, QueueFacts, LenProperties DEF Range
<1>4. j < i
  BY <1>1, <1>3, QueueFacts, BeforeTotal
<1>5. j \notin AdmissibleAt
  BY <1>1, <1>4
<1>6. MaxBlocks # 0 /\ ~(ReservedBlocks(q) <= Remaining) /\ ReservedBlocks(pending[i]) <= Remaining
  BY <1>3, <1>5 DEF AdmissibleAt
<1>7. ReservedBlocks(q) \in Int /\ ReservedBlocks(pending[i]) \in Int
  BY <1>1, <1>6, BlocksOfOne
<1>8. Remaining \in Int
  <2>1. Cardinality(BlocksOf(Live)) \in Nat
    BY BlocksFinite DEF Live
  <2> QED BY <2>1, BatcherAssumption DEF Remaining, ActiveReserved, Larger
<1> QED BY <1>6, <1>7, <1>8

LEMMA FillSlotOrder ==
    ASSUME BatcherInv, OrderInv, FillSlot
    PROVE  OrderInv'
<1>1. PICK i \in AdmissibleAt :
         /\ \A j \in AdmissibleAt : i <= j
         /\ state' = [state EXCEPT ![pending[i]] = "Pending"]
         /\ pending' = RemoveAt(pending, i)
  BY Zenon DEF FillSlot, IsNextAdmissible
<1>2. i \in 1..Len(pending) /\ arrivals' = arrivals
  BY DEF AdmissibleAt, FillSlot
<1> DEFINE r == pending[i]
<1>3. r \in Req /\ r \in InState("queued")
  <2>1. r \in Range(pending)
    BY <1>2, QueueFacts, LenProperties DEF Range
  <2> QED BY <2>1, QueueFacts DEF InState
<1>4. \A a, b : Before(pending', a, b) <=> Before(pending, a, b) /\ a # r /\ b # r
  BY <1>1, <1>2, QueueFacts, BeforeRemoved
<1>5. \A q \in InState("queued") : Before(pending, q, r) => ReservedBlocks(q) > ReservedBlocks(r)
  BY <1>1, SteppedOver DEF InState
<1> HIDE DEF r
<1>6. /\ InState("queued")' = InState("queued") \ {r}
      /\ InState("Pending")' = InState("Pending") \cup {r}
  BY <1>1, <1>3, QueueFacts DEF InState, r
<1>7. \A a \in InState("queued") : Before(arrivals, a, r) => ReservedBlocks(a) > ReservedBlocks(r)
  BY <1>3, <1>5 DEF OrderInv
<1>8. Range(arrivals') = InState("queued")' \cup InState("Pending")'
  BY <1>2, <1>3, <1>6 DEF OrderInv
<1> QED BY <1>2, <1>4, <1>6, <1>7, <1>8 DEF OrderInv

(* All other steps, the drain's swap_remove among them, leave who waits.   *)
LEMMA OthersWait ==
    ASSUME BatcherInv, [BatcherNext]_batcherVars, ~FillSlot,
           \A r \in Req : ~IssuePrefill(r) /\ ~CancelSlot(r) /\ ~CancelQueued(r),
           \A r \in Req, hit \in Hits : ~Enqueue(r, hit)
    PROVE  /\ UNCHANGED <<arrivals, pending>>
           /\ InState("queued")' = InState("queued")
           /\ InState("Pending")' = InState("Pending")
<1> USE QueueFacts DEF InState
<1>1. CASE IssueDecode \/ DrainEnd \/ Abandon \/ UNCHANGED batcherVars
  BY <1>1 DEF IssueDecode, DrainEnd, Abandon, batcherVars
<1>2. CASE \E r \in Req : AdvancePrefill(r)
  <2>1. PICK r \in Req : AdvancePrefill(r)
    BY <1>2
  <2>2. state[r] = "Prefilling"
    BY <2>1 DEF AdvancePrefill, BatcherInv, InstructedSlots
  <2> QED BY <2>1, <2>2 DEF AdvancePrefill
<1>3. CASE \E gone \in SUBSET batch : Deliver(gone)
  <2>1. PICK gone \in SUBSET batch : Deliver(gone)
    BY <1>3
  <2>2. \A q \in Req : q \in gone => state[q] = "Decoding"
    BY <2>1 DEF Deliver, BatcherInv, InstructedSlots
  <2> QED BY <2>1, <2>2 DEF Deliver
<1>4. CASE \E kind \in [batch -> TokenKinds] : AdvanceDecode(kind)
  <2>1. PICK kind \in [batch -> TokenKinds] : AdvanceDecode(kind)
    BY <1>4
  <2>2. \A q \in Req : q \in batch => state[q] \in {"Decoding", "Cancelled"}
    BY <2>1 DEF AdvanceDecode, BatcherInv, InstructedSlots
  <2>3. \A q \in Req : state'[q] = state[q] \/ (q \in batch /\ state'[q] = "Finished")
    BY <2>1 DEF AdvanceDecode
  <2>4. UNCHANGED <<arrivals, pending>>
    BY <2>1 DEF AdvanceDecode
  <2> QED BY <2>2, <2>3, <2>4
<1>5. CASE \E r \in Req : DrainSlot(r)
  <2>1. PICK r \in Req : DrainSlot(r)
    BY <1>5
  <2>2. state[r] \in RetiredStates /\ state' = [state EXCEPT ![r] = "none"]
    BY <2>1 DEF DrainSlot, RetiredAt
  <2>3. UNCHANGED <<arrivals, pending>>
    BY <2>1 DEF DrainSlot
  <2> QED BY <2>2, <2>3 DEF RetiredStates
<1> QED BY <1>1, <1>2, <1>3, <1>4, <1>5 DEF BatcherNext, BatcherStep, BatcherCalls

LEMMA OrderStep ==
    ASSUME BatcherInv, OrderInv, [BatcherNext]_batcherVars
    PROVE  OrderInv'
<1>1. CASE /\ ~FillSlot
           /\ \A r \in Req : ~IssuePrefill(r) /\ ~CancelSlot(r) /\ ~CancelQueued(r)
           /\ \A r \in Req, hit \in Hits : ~Enqueue(r, hit)
  BY <1>1, OthersWait DEF OrderInv
<1> QED BY <1>1, EnqueueOrder, CancelQueuedOrder, SlotLeavesOrder, FillSlotOrder

(* PrefillOrder, of a step.                                                *)
OrderedPrefill ==
  \A q, r \in Req :
     /\ state[r] = "Pending" /\ state'[r] = "Prefilling"
     /\ Before(arrivals, q, r)
     => state[q] = "Pending" \/ ReservedBlocks(q) > ReservedBlocks(r)

LEMMA StepOrdered == OrderInv /\ BatcherInv => OrderedPrefill
<1> SUFFICES ASSUME OrderInv, BatcherInv, NEW q \in Req, NEW r \in Req,
                    state[r] = "Pending", Before(arrivals, q, r), state[q] # "Pending"
             PROVE  ReservedBlocks(q) > ReservedBlocks(r)
  BY DEF OrderedPrefill
<1>1. q \in InState("queued") /\ r \in InState("Pending")
  BY QueueFacts, BeforeInRange DEF OrderInv, InState
<1> QED BY <1>1 DEF OrderInv

(* For any number of slots and any block budget, through cancellations,    *)
(* failed steps and the reordering of the pool by swap_remove: a prefill   *)
(* starts ahead of an earlier request only if that one is in the pool too, *)
(* or reserves more blocks.                                                *)
THEOREM BatcherPrefillOrder == BatcherSpec => PrefillOrder
<1>1. BatcherInv /\ OrderInv /\ [BatcherNext]_batcherVars => OrderInv'
  BY OrderStep
<1>2. BatcherSpec => []OrderInv
  BY <1>1, OrderInit, BatcherInvariance, PTL DEF BatcherSpec
<1>3. BatcherSpec => [][OrderedPrefill]_batcherVars
  BY <1>2, StepOrdered, BatcherInvariance, PTL
<1> QED BY <1>3, PTL DEF OrderedPrefill, PrefillOrder

==============================================================================
