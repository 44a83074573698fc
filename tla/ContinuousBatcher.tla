-------------------------- MODULE ContinuousBatcher --------------------------
(***************************************************************************)
(* The continuous-batching scheduler of pmetal-serve                       *)
(* (crates/pmetal-serve/src/continuous_batch.rs): a FIFO of waiting        *)
(* requests, a pool of slots, and the step protocol its caller follows     *)
(*                                                                         *)
(*   next_instruction -> advance_prefill | advance_decode -> drain_retired *)
(*                                                                         *)
(* The while loops of fill_slots and drain_retired run one iteration per   *)
(* step; `phase' keeps every other operation out until they have ended, as *)
(* the caller's lock does.  A request is named by a member of Req.  SlotId *)
(* values are never reused by the code; here a name becomes free again     *)
(* once its request has left the scheduler, so that an endless stream of   *)
(* requests fits in a finite set of names.                                 *)
(***************************************************************************)
EXTENDS Integers, Sequences, FiniteSets, SequencesExt

CONSTANTS
    Req,            \* names of requests
    PromptLen,      \* [Req -> Nat]: tokens of the full prompt
    MaxNew,         \* [Req -> Nat]: SlotParams.max_new_tokens
    PrefillStep,    \* SlotParams.prefill_step_size
    MaxSlots,       \* BatcherConfig.max_slots
    MaxQueueDepth,  \* BatcherConfig.max_queue_depth
    BlockSize,      \* BatcherConfig.block_size
    MaxBlocks,      \* BatcherConfig.max_blocks, 0 = no block budget
    Hits            \* lengths of the cached prefixes a prompt may meet

ASSUME BatcherAssumption ==
    /\ IsFiniteSet(Req)
    /\ PromptLen \in [Req -> Nat \ {0}]
    /\ MaxNew \in [Req -> Nat]
    /\ PrefillStep \in Nat
    /\ MaxSlots \in Nat
    /\ MaxQueueDepth \in Nat
    /\ BlockSize \in Nat
    /\ MaxBlocks \in Nat
    /\ Hits \subseteq Nat

VARIABLES
    state,      \* [Req -> States]: SlotState, "queued" while in `pending'
    slots,      \* Seq(Req): ContinuousBatcher.slots, in vector order
    pending,    \* Seq(Req): ContinuousBatcher.pending
    left,       \* [Req -> Nat]: prompt tokens still to prefill
    generated,  \* [Req -> Nat]: Slot.generated.len()
    reason,     \* [Req -> Reasons]: Slot.finish_reason
    arrivals,   \* Seq(Req): requests not yet prefilling, by enqueued_at
    phase,      \* where the caller stands in the step protocol
    batch       \* the slots of the instruction being carried out

batcherVars ==
    <<state, slots, pending, left, generated, reason, arrivals, phase, batch>>

LiveStates    == {"Pending", "Prefilling", "Decoding"}
RetiredStates == {"Finished", "Cancelled"}
States        == {"none", "queued"} \cup LiveStates \cup RetiredStates
Reasons       == {"none", "Length", "Stop", "StopSequence", "Cancelled"}
Phases        == {"rest", "fill", "prefill", "first", "decode", "advance", "drain"}

(* What a sampled token is to its request: a stop token, the end of a raw  *)
(* text stop sequence, or neither.                                         *)
TokenKinds == {"plain", "stop", "sequence"}

Larger(a, b)  == IF a >= b THEN a ELSE b
Smaller(a, b) == IF a <= b THEN a ELSE b

InState(s) == {r \in Req : state[r] = s}
Live       == {r \in Req : state[r] \in LiveStates}

(***************************************************************************)
(* Admission.                                                              *)
(***************************************************************************)

\* A pool that does not count the slots still waiting for their prefill.
PoolSizeActiveOnly == Cardinality(InState("Prefilling") \cup InState("Decoding"))

PoolSize == Cardinality(Live)

CeilDiv(a, b) == (a + b - 1) \div b

ReservedBlocks(r) ==
    IF MaxBlocks = 0 THEN 0
    ELSE Smaller(CeilDiv(Larger(PromptLen[r] + MaxNew[r], 1), Larger(BlockSize, 1)),
                 MaxBlocks)

\* The blocks reserved for the requests of S, each named by its owner.
BlocksOf(S) == {b \in S \X (1..MaxBlocks) : b[2] <= ReservedBlocks(b[1])}

\* Blocks reserved only once a slot decodes.
ActiveReservedLate == Cardinality(BlocksOf(InState("Decoding")))

ActiveReserved == Cardinality(BlocksOf(Live))

Remaining == Larger(MaxBlocks - ActiveReserved, 0)

AdmissibleAt ==
    {i \in 1..Len(pending) : MaxBlocks = 0 \/ ReservedBlocks(pending[i]) <= Remaining}

\* The position nearest the tail: a stack in place of a queue.
IsNewestAdmissible(i) == i \in AdmissibleAt /\ \A j \in AdmissibleAt : j <= i

IsNextAdmissible(i) == i \in AdmissibleAt /\ \A j \in AdmissibleAt : i <= j

CanFill == PoolSize < MaxSlots /\ AdmissibleAt # {}

\* r is the first slot, in vector order, whose state is st.
IsFirstSlot(r, st) ==
    \E i \in 1..Len(slots) :
        /\ slots[i] = r
        /\ state[r] = st
        /\ \A j \in 1..(i - 1) : state[slots[j]] # st

\* s without its first e.
Without(s, e) ==
    IF e \in Range(s) THEN RemoveAt(s, CHOOSE i \in 1..Len(s) : s[i] = e) ELSE s

(***************************************************************************)
(* Operations of the caller between steps.                                 *)
(***************************************************************************)
BatcherInit ==
    /\ state = [r \in Req |-> "none"]
    /\ slots = <<>>
    /\ pending = <<>>
    /\ left = [r \in Req |-> 0]
    /\ generated = [r \in Req |-> 0]
    /\ reason = [r \in Req |-> "none"]
    /\ arrivals = <<>>
    /\ phase = "rest"
    /\ batch = {}

(* enqueue_with_reserved_tokens: `hit' leading tokens were restored from   *)
(* the prefix cache, the scheduler prefills the rest.  A full queue        *)
(* rejects the request and changes nothing.                                *)
Enqueue(r, hit) ==
    /\ phase = "rest"
    /\ state[r] = "none"
    /\ PromptLen[r] - hit > 0
    /\ Len(pending) < MaxQueueDepth
    /\ state' = [state EXCEPT ![r] = "queued"]
    /\ pending' = Append(pending, r)
    /\ left' = [left EXCEPT ![r] = PromptLen[r] - hit]
    /\ arrivals' = Append(arrivals, r)
    /\ UNCHANGED <<slots, generated, reason, phase, batch>>

CancelSlot(r) ==
    /\ phase = "rest"
    /\ state[r] \in LiveStates
    /\ state' = [state EXCEPT ![r] = "Cancelled"]
    /\ reason' = [reason EXCEPT ![r] = "Cancelled"]
    /\ arrivals' = Without(arrivals, r)
    /\ UNCHANGED <<slots, pending, left, generated, phase, batch>>

CancelQueued(r) ==
    /\ phase = "rest"
    /\ state[r] = "queued"
    /\ state' = [state EXCEPT ![r] = "none"]
    /\ pending' = Without(pending, r)
    /\ arrivals' = Without(arrivals, r)
    /\ left' = [left EXCEPT ![r] = 0]
    /\ UNCHANGED <<slots, generated, reason, phase, batch>>

(***************************************************************************)
(* next_instruction: fill_slots pulls requests one by one, promotes one    *)
(* waiting slot to Prefilling, and the instruction is chosen.  Idle is a   *)
(* step that changes nothing.                                              *)
(***************************************************************************)
FillSlot ==
    /\ phase \in {"rest", "fill"}
    /\ CanFill
    /\ \E i \in AdmissibleAt :
          /\ IsNextAdmissible(i)
          /\ state' = [state EXCEPT ![pending[i]] = "Pending"]
          /\ slots' = Append(slots, pending[i])
          /\ pending' = RemoveAt(pending, i)
    /\ phase' = "fill"
    /\ UNCHANGED <<left, generated, reason, arrivals, batch>>

\* Promotion that forgets to look for a slot already prefilling.
ToPrefillEager == IF InState("Pending") # {} THEN "Pending" ELSE "Prefilling"

\* A slot already prefilling goes on before a waiting one is promoted.
ToPrefill == IF InState("Prefilling") # {} THEN "Prefilling" ELSE "Pending"

IssuePrefill(r) ==
    /\ phase \in {"rest", "fill"}
    /\ ~CanFill
    /\ IsFirstSlot(r, ToPrefill)
    /\ state' = [state EXCEPT ![r] = "Prefilling"]
    /\ arrivals' = Without(arrivals, r)
    /\ batch' = {r}
    /\ phase' = "prefill"
    /\ UNCHANGED <<slots, pending, left, generated, reason>>

IssueDecode ==
    /\ phase \in {"rest", "fill"}
    /\ ~CanFill
    /\ InState("Pending") \cup InState("Prefilling") = {}
    /\ InState("Decoding") # {}
    /\ batch' = InState("Decoding")
    /\ phase' = "decode"
    /\ UNCHANGED <<state, slots, pending, left, generated, reason, arrivals>>

(***************************************************************************)
(* Carrying out the instruction.                                           *)
(***************************************************************************)
\* A chunk of full size, past the end of the prompt.
ChunkUnclamped(r) == Larger(PrefillStep, 1)

Chunk(r) == Smaller(Larger(PrefillStep, 1), left[r])

FinalChunk(r) == Chunk(r) = left[r]

\* After the final chunk the caller samples the first token at once.
AdvancePrefill(r) ==
    /\ phase = "prefill"
    /\ batch = {r}
    /\ left' = [left EXCEPT ![r] = left[r] - Chunk(r)]
    /\ IF FinalChunk(r)
         THEN state' = [state EXCEPT ![r] = "Decoding"] /\ phase' = "first"
         ELSE state' = state /\ phase' = "drain"
    /\ UNCHANGED <<slots, pending, generated, reason, arrivals, batch>>

(* The caller has sampled one token for each slot of the batch and handed  *)
(* it to the request's receiver; `gone', the slots whose receiver has been *)
(* dropped, are cancelled on the spot.                                     *)
Deliver(gone) ==
    /\ phase \in {"first", "decode"}
    /\ gone \subseteq batch
    /\ state' = [r \in Req |-> IF r \in gone THEN "Cancelled" ELSE state[r]]
    /\ reason' = [r \in Req |-> IF r \in gone THEN "Cancelled" ELSE reason[r]]
    /\ phase' = "advance"
    /\ UNCHANGED <<slots, pending, left, generated, arrivals, batch>>

\* The length limit tested before the token is recorded.
LengthReachedLate(r) == generated[r] >= MaxNew[r]

LengthReached(r) == generated[r] + 1 >= MaxNew[r]

(* advance_decode, as the release build runs it: the assertion that each   *)
(* slot of the batch is Decoding is compiled out, so a slot that Deliver   *)
(* has just cancelled is advanced like the others.                         *)
AdvanceDecode(kind) ==
    LET ends(r) == kind[r] \in {"stop", "sequence"} \/ LengthReached(r)
        why(r)  == CASE kind[r] = "stop"     -> "Stop"
                     [] kind[r] = "sequence" -> "StopSequence"
                     [] OTHER                -> "Length"
    IN  /\ phase = "advance"
        /\ state' = [r \in Req |->
                       IF r \in batch /\ ends(r) THEN "Finished" ELSE state[r]]
        /\ reason' = [r \in Req |->
                       IF r \in batch /\ ends(r) THEN why(r) ELSE reason[r]]
        /\ generated' = [r \in Req |->
                       IF r \in batch /\ kind[r] # "stop"
                         THEN generated[r] + 1 ELSE generated[r]]
        /\ phase' = "drain"
        /\ UNCHANGED <<slots, pending, left, arrivals, batch>>

\* The step ended with an error: the caller returns, nothing is undone.
Abandon ==
    /\ phase \in {"prefill", "first", "decode"}
    /\ phase' = "rest"
    /\ batch' = {}
    /\ UNCHANGED <<state, slots, pending, left, generated, reason, arrivals>>

(***************************************************************************)
(* drain_retired: Vec::swap_remove fills the hole with the last slot.      *)
(***************************************************************************)
\* A sweep that takes the slot at the front, retired or not.
SwapRemoveFront(s, i) ==
    [j \in 1..(Len(s) - 1) |-> IF j = 1 THEN s[Len(s)] ELSE s[j]]

SwapRemove(s, i) ==
    [j \in 1..(Len(s) - 1) |-> IF j = i THEN s[Len(s)] ELSE s[j]]

RetiredAt == {i \in 1..Len(slots) : state[slots[i]] \in RetiredStates}

DrainSlot(r) ==
    /\ phase = "drain"
    /\ \E i \in RetiredAt :
          /\ \A j \in RetiredAt : i <= j
          /\ r = slots[i]
          /\ slots' = SwapRemove(slots, i)
    /\ state' = [state EXCEPT ![r] = "none"]
    /\ left' = [left EXCEPT ![r] = 0]
    /\ generated' = [generated EXCEPT ![r] = 0]
    /\ reason' = [reason EXCEPT ![r] = "none"]
    /\ UNCHANGED <<pending, arrivals, phase, batch>>

DrainEnd ==
    /\ phase = "drain"
    /\ RetiredAt = {}
    /\ phase' = "rest"
    /\ batch' = {}
    /\ UNCHANGED <<state, slots, pending, left, generated, reason, arrivals>>

(***************************************************************************)
(* The scheduler with the most general caller that follows the protocol.   *)
(***************************************************************************)
BatcherStep ==
    \/ FillSlot
    \/ \E r \in Req : IssuePrefill(r)
    \/ IssueDecode
    \/ \E r \in Req : AdvancePrefill(r)
    \/ \E gone \in SUBSET batch : Deliver(gone)
    \/ \E kind \in [batch -> TokenKinds] : AdvanceDecode(kind)
    \/ \E r \in Req : DrainSlot(r)
    \/ DrainEnd

BatcherCalls ==
    \/ \E r \in Req, hit \in Hits : Enqueue(r, hit)
    \/ \E r \in Req : CancelSlot(r) \/ CancelQueued(r)
    \/ Abandon

BatcherNext == BatcherStep \/ BatcherCalls

BatcherSpec == BatcherInit /\ [][BatcherNext]_batcherVars

(* The scheduler under a driver that keeps stepping and whose forwards     *)
(* succeed; requests keep arriving and are cancelled only by Deliver.      *)
ServingNext == BatcherStep \/ \E r \in Req, hit \in Hits : Enqueue(r, hit)

BatcherFairSpec ==
    BatcherInit /\ [][ServingNext]_batcherVars /\ WF_batcherVars(BatcherStep)

(***************************************************************************)
(* Properties.                                                             *)
(***************************************************************************)

(* The type invariant of the scheduler's state.                            *)
BatcherTypeOK ==
    /\ state \in [Req -> States]
    /\ slots \in Seq(Req)
    /\ pending \in Seq(Req)
    /\ left \in [Req -> Nat]
    /\ generated \in [Req -> Nat]
    /\ reason \in [Req -> Reasons]
    /\ arrivals \in Seq(Req)
    /\ phase \in Phases
    /\ batch \in SUBSET Req

(* A request is in the waiting queue, in one slot, or nowhere: neither the *)
(* removal from the middle of `pending' nor swap_remove in `slots' loses a *)
(* request or lists it twice.                                              *)
Conservation ==
    /\ IsInjective(slots)
    /\ IsInjective(pending)
    /\ Range(slots) = {r \in Req : state[r] \in LiveStates \cup RetiredStates}
    /\ Range(pending) = InState("queued")

(* The pool never holds more live slots than max_slots, the waiting ones   *)
(* counted (pool_size), and the queue is no longer than max_queue_depth.   *)
PoolWithinCapacity ==
    /\ Cardinality(Live) <= MaxSlots
    /\ Len(pending) <= MaxQueueDepth

(* The live slots never reserve more token blocks than the budget, though  *)
(* requests are taken out of order and an oversized one is clamped.        *)
WithinBlockBudget == Cardinality(BlocksOf(Live)) <= MaxBlocks

(* Prefill policy of the module's documentation: at most one slot is in    *)
(* the Prefilling state at any time, through errors and cancellations.     *)
SerialPrefill == \A p, q \in InState("Prefilling") : p = q

(* No request produces more than max_new_tokens tokens (a request for zero *)
(* tokens still gets the one sampled at the end of its prefill), and one   *)
(* that ended for its length has produced exactly as many.                 *)
LengthLimit ==
    \A r \in Req :
        /\ generated[r] <= Larger(MaxNew[r], 1)
        /\ state[r] = "Decoding" => generated[r] < Larger(MaxNew[r], 1)
        /\ reason[r] = "Length" => generated[r] = Larger(MaxNew[r], 1)

(* The slots of an instruction are still what the instruction found when   *)
(* it is carried out; those handed to advance_decode decode, or have just  *)
(* been cancelled because nobody receives their tokens.                    *)
InstructedSlots ==
    \A r \in batch :
        /\ phase = "prefill" => state[r] = "Prefilling"
        /\ phase \in {"first", "decode"} => state[r] = "Decoding"
        /\ phase = "advance" => state[r] \in {"Decoding", "Cancelled"}

(* What makes LengthLimit inductive: nothing is generated before the       *)
(* prefill has ended, and advance_decode meets no request at its limit.    *)
GeneratedSoFar ==
    \A r \in Req :
        /\ state[r] \in {"none", "queued", "Pending", "Prefilling"} => generated[r] = 0
        /\ phase = "advance" /\ r \in batch => generated[r] < Larger(MaxNew[r], 1)

(* The scheduler's invariants with what makes them inductive.              *)
BatcherInv ==
    /\ BatcherTypeOK
    /\ Conservation
    /\ PoolWithinCapacity
    /\ SerialPrefill
    /\ InstructedSlots
    /\ LengthLimit
    /\ GeneratedSoFar

\* a stands before b in s.
Before(s, a, b) == \E i, j \in 1..Len(s) : i < j /\ s[i] = a /\ s[j] = b

(* What the code keeps of "A slot pool with FIFO queuing", for any number  *)
(* of slots and any block budget: a prefill starts ahead of a request that *)
(* has waited longer only if that one is in the pool too, where            *)
(* swap_remove may have put it behind, or reserves more blocks, so that it *)
(* was stepped over in the queue when it did not fit.                      *)
PrefillOrder ==
    [][\A q, r \in Req :
         /\ state[r] = "Pending" /\ state'[r] = "Prefilling"
         /\ Before(arrivals, q, r)
         => state[q] = "Pending" \/ ReservedBlocks(q) > ReservedBlocks(r)
      ]_batcherVars

(* "A request enters as Pending and waits until a slot is free": every     *)
(* accepted request reaches its prefill, however many others keep arriving *)
(* behind it.  The code does not keep this once there are three slots: the *)
(* slot that swap_remove moves to the front is promoted first, and the one *)
(* it has passed can be passed again by the next request, for ever.        *)
EveryRequestStarts ==
    \A r \in Req : state[r] = "queued" ~> state[r] \in {"Prefilling", "none"}

==============================================================================
