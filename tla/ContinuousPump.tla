---------------------------- MODULE ContinuousPump ----------------------------
(***************************************************************************)
(* The request pump of continuous batching                                 *)
(* (crates/pmetal-serve/src/continuous_pump.rs) with the state its driver  *)
(* keeps (continuous_driver.rs): batch rows, the KV cache of each row, the *)
(* per-request records and the bounded event channel to each receiver.     *)
(* It is composed with the scheduler: every step of a tick carries out one *)
(* operation of ContinuousBatcher.  Tokens, logits and samplers are        *)
(* abstracted to counts and to what a token means for its request.         *)
(***************************************************************************)
EXTENDS ContinuousBatcher

CONSTANTS
    Capacity,   \* channel_capacity of ContinuousPump.enqueue
    MaxFaults   \* bound on the forwards and samplings that fail

ASSUME PumpAssumption == Capacity \in Nat \ {0} /\ MaxFaults \in Nat

VARIABLES
    row,       \* [Req -> 0..MaxSlots]: SlotIdxMap, 0 = no batch row
    kv,        \* [Rows -> Nat]: length of each row's KV cache
    records,   \* requests with a SlotRecord
    seed,      \* [Req -> Nat]: SlotRecord.prefix_hit_len, 0 = no prefix_seed
    current,   \* requests whose record has a current_token
    emitted,   \* [Req -> Nat]: SlotRecord.emitted
    receiver,  \* [Req -> BOOLEAN]: the caller holds the receiver
    buffered,  \* [Req -> 0..Capacity]: events in the channel
    accepted,  \* [Req -> Nat]: Token events the channel took
    ending,    \* [Req -> {"none", "done", "lost"}]: what became of Done
    faults     \* failures so far

pumpVars == <<row, kv, records, seed, current, emitted,
              receiver, buffered, accepted, ending, faults>>
vars == <<batcherVars, pumpVars>>

Rows     == 1..MaxSlots
FreeRows == {i \in Rows : \A r \in Req : row[r] # i}

PumpInit ==
    /\ BatcherInit
    /\ row = [r \in Req |-> 0]
    /\ kv = [i \in Rows |-> 0]
    /\ records = {}
    /\ seed = [r \in Req |-> 0]
    /\ current = {}
    /\ emitted = [r \in Req |-> 0]
    /\ receiver = [r \in Req |-> FALSE]
    /\ buffered = [r \in Req |-> 0]
    /\ accepted = [r \in Req |-> 0]
    /\ ending = [r \in Req |-> "none"]
    /\ faults = 0

(***************************************************************************)
(* enqueue; the pump's lock keeps it out of a tick.  The engine does not   *)
(* keep the slot id it returns, so nothing there calls the pump's cancel.  *)
(***************************************************************************)
PumpEnqueue(r, hit) ==
    /\ Enqueue(r, hit)
    /\ ~receiver[r]
    /\ records' = records \cup {r}
    /\ seed' = [seed EXCEPT ![r] = hit]
    /\ receiver' = [receiver EXCEPT ![r] = TRUE]
    /\ UNCHANGED <<row, kv, current, emitted, buffered, accepted, ending, faults>>

(***************************************************************************)
(* One tick: the instruction, the forward and its events, the drain.       *)
(***************************************************************************)
PumpInstruct ==
    /\ FillSlot \/ (\E r \in Req : IssuePrefill(r)) \/ IssueDecode
    /\ UNCHANGED pumpVars

\* SlotIdxMap::allocate: the row it has, else the lowest free one.
Allocates(r, i) ==
    IF row[r] # 0 THEN i = row[r] ELSE i \in FreeRows /\ \A j \in FreeRows : i <= j

CanAdmit(r) == row[r] # 0 \/ FreeRows # {}

\* Admission that leaves the restored prefix in the record.
SeededLenUnseeded(r, i) == kv[i]

\* A newly admitted row starts from the restored prefix, if there is one.
SeededLen(r, i) ==
    IF row[r] = 0 /\ r \in records /\ seed[r] > 0 THEN seed[r] ELSE kv[i]

PumpPrefill(r) ==
    /\ AdvancePrefill(r)
    /\ \E i \in Rows :
          /\ Allocates(r, i)
          /\ row' = [row EXCEPT ![r] = i]
          /\ kv' = [kv EXCEPT ![i] = SeededLen(r, i) + Chunk(r)]
    /\ UNCHANGED <<records, seed, current, emitted,
                   receiver, buffered, accepted, ending, faults>>

\* A failed prefill leaves the row taken and its cache extended or not.
PumpPrefillFails(r) ==
    /\ phase = "prefill"
    /\ batch = {r}
    /\ faults < MaxFaults
    /\ Abandon
    /\ \E i \in Rows, n \in {0, Chunk(r)} :
          /\ Allocates(r, i)
          /\ row' = [row EXCEPT ![r] = i]
          /\ kv' = [kv EXCEPT ![i] = SeededLen(r, i) + n]
    /\ faults' = faults + 1
    /\ UNCHANGED <<records, seed, current, emitted, receiver, buffered, accepted, ending>>

PumpFirstTokenFails ==
    /\ phase = "first"
    /\ faults < MaxFaults
    /\ Abandon
    /\ faults' = faults + 1
    /\ UNCHANGED <<row, kv, records, seed, current, emitted,
                   receiver, buffered, accepted, ending>>

\* A channel one event shorter than asked for.
HasRoomShort(r) == buffered[r] + 1 < Capacity

\* try_send finds a permit in the channel.
HasRoom(r) == buffered[r] < Capacity

\* A token that is sent but not kept as the next decode input.
SampledUnkept(S) == current

Sampled(S) == current \cup S

(* emit_token for every slot of the batch: try_send drops the token when   *)
(* the channel is full, and a dropped receiver cancels the slot.           *)
EmitTokens ==
    /\ Deliver({r \in batch : ~receiver[r]})
    /\ current' = Sampled(batch)
    /\ emitted' = [r \in Req |-> IF r \in batch THEN emitted[r] + 1 ELSE emitted[r]]
    /\ LET sent == {r \in batch : receiver[r] /\ HasRoom(r)}
       IN  /\ buffered' = [r \in Req |-> IF r \in sent THEN buffered[r] + 1 ELSE buffered[r]]
           /\ accepted' = [r \in Req |-> IF r \in sent THEN accepted[r] + 1 ELSE accepted[r]]
    /\ UNCHANGED <<row, records, seed, receiver, ending, faults>>

PumpFirstToken ==
    /\ phase = "first"
    /\ EmitTokens
    /\ UNCHANGED kv

\* A decode input needs the record and the token sampled before.
InputsReady == batch \subseteq records \cap current

\* Extend the KV cache of the row of each request in S by one position.
Extended(S) == [i \in Rows |-> IF \E r \in S : row[r] = i THEN kv[i] + 1 ELSE kv[i]]

PumpDecode ==
    /\ phase = "decode"
    /\ InputsReady
    /\ EmitTokens
    /\ kv' = Extended(batch)

PumpInputMissing ==
    /\ phase = "decode"
    /\ ~InputsReady
    /\ Abandon
    /\ UNCHANGED pumpVars

(* Phase 1 of drive_decode_step forwards slot after slot and returns at    *)
(* the first error, when those of the first n slots that decode have grown *)
(* their caches; an error while sampling comes after all of them have.     *)
PumpDecodeFails(n) ==
    /\ phase = "decode"
    /\ InputsReady
    /\ faults < MaxFaults
    /\ Abandon
    /\ kv' = Extended({r \in batch : \E i \in 1..n : slots[i] = r})
    /\ faults' = faults + 1
    /\ UNCHANGED <<row, records, seed, current, emitted,
                   receiver, buffered, accepted, ending>>

\* A stop sequence is not looked for once the receiver was found dropped.
PumpAdvance(kind) ==
    /\ AdvanceDecode(kind)
    /\ \A r \in batch : state[r] = "Cancelled" => kind[r] # "sequence"
    /\ UNCHANGED pumpVars

\* Rows given back by requests that finished, not by cancelled ones.
ReleasedFinished(r) == IF reason[r] = "Cancelled" THEN row ELSE [row EXCEPT ![r] = 0]

Released(r) == [row EXCEPT ![r] = 0]

\* A retired row whose KV cache is left as it is.
ClearedKeep(r) == kv

Cleared(r) == [i \in Rows |-> IF row[r] = i THEN 0 ELSE kv[i]]

(* Done is offered to the receiver of a slot that was not cancelled: the   *)
(* channel takes it, or is full and it is lost.                            *)
OffersDone(r) == r \in records /\ reason[r] # "Cancelled" /\ receiver[r]

DoneSent(r) ==
    /\ OffersDone(r) /\ HasRoom(r)
    /\ buffered' = [buffered EXCEPT ![r] = @ + 1]
    /\ ending' = [ending EXCEPT ![r] = "done"]

DoneLost(r) ==
    /\ OffersDone(r) /\ ~HasRoom(r)
    /\ ending' = [ending EXCEPT ![r] = "lost"]
    /\ buffered' = buffered

NoDone(r) == ~OffersDone(r) /\ UNCHANGED <<buffered, ending>>

(* drain_retired of the pump, for one retired slot: the row is released    *)
(* and its cache reset, the record dropped, and Done offered.              *)
PumpDrainSlot(r) ==
    /\ DrainSlot(r)
    /\ row' = Released(r)
    /\ kv' = Cleared(r)
    /\ records' = records \ {r}
    /\ current' = current \ {r}
    /\ seed' = [seed EXCEPT ![r] = 0]
    /\ DoneSent(r) \/ DoneLost(r) \/ NoDone(r)
    /\ emitted' = [emitted EXCEPT ![r] = IF receiver[r] THEN @ ELSE 0]
    /\ UNCHANGED <<receiver, accepted, faults>>

PumpDrainEnd == DrainEnd /\ UNCHANGED pumpVars

(***************************************************************************)
(* The receiving side, at any moment of a tick.                            *)
(***************************************************************************)
Receive(r) ==
    /\ receiver[r]
    /\ buffered[r] > 0
    /\ buffered' = [buffered EXCEPT ![r] = @ - 1]
    /\ UNCHANGED <<batcherVars, row, kv, records, seed, current, emitted,
                   receiver, accepted, ending, faults>>

CloseReceiver(r) ==
    /\ receiver' = [receiver EXCEPT ![r] = FALSE]
    /\ buffered' = [buffered EXCEPT ![r] = 0]
    /\ accepted' = [accepted EXCEPT ![r] = 0]
    /\ ending' = [ending EXCEPT ![r] = "none"]
    /\ emitted' = [emitted EXCEPT ![r] = IF r \in records THEN @ ELSE 0]
    /\ UNCHANGED <<batcherVars, row, kv, records, seed, current, faults>>

\* The stream is over: the sender is gone and the channel is drained.
StreamEnds(r) ==
    /\ receiver[r] /\ r \notin records /\ buffered[r] = 0
    /\ CloseReceiver(r)

\* The client disconnects.
Disconnect(r) ==
    /\ receiver[r] /\ r \in records
    /\ CloseReceiver(r)

(***************************************************************************)
(* Specifications.                                                         *)
(***************************************************************************)
TickStep ==
    \/ PumpInstruct
    \/ \E r \in Req : PumpPrefill(r)
    \/ PumpFirstToken
    \/ PumpDecode
    \/ PumpInputMissing
    \/ \E kind \in [batch -> TokenKinds] : PumpAdvance(kind)
    \/ \E r \in Req : PumpDrainSlot(r)
    \/ PumpDrainEnd

TickFails ==
    \/ \E r \in Req : PumpPrefillFails(r)
    \/ PumpFirstTokenFails
    \/ \E n \in 0..Len(slots) : PumpDecodeFails(n)

ReceiverStep == \E r \in Req : Receive(r) \/ StreamEnds(r)

\* The pump as the engine uses it.
PumpNext ==
    \/ TickStep
    \/ TickFails
    \/ \E r \in Req, hit \in Hits : PumpEnqueue(r, hit)
    \/ ReceiverStep
    \/ \E r \in Req : Disconnect(r)

PumpSpec == PumpInit /\ [][PumpNext]_vars

(* The driver loop of the engine ticks for ever: it backs off after an     *)
(* error and tries again.  Receivers read what they are sent.              *)
PumpFairSpec == PumpSpec /\ WF_vars(TickStep) /\ WF_vars(ReceiverStep)

(***************************************************************************)
(* Properties.                                                             *)
(***************************************************************************)

(* The type invariant of the pump's state.                                 *)
PumpTypeOK ==
    /\ BatcherTypeOK
    /\ row \in [Req -> 0..MaxSlots]
    /\ kv \in [Rows -> Nat]
    /\ records \in SUBSET Req
    /\ seed \in [Req -> Nat]
    /\ current \in SUBSET records
    /\ emitted \in [Req -> Nat]
    /\ receiver \in [Req -> BOOLEAN]
    /\ buffered \in [Req -> 0..Capacity]
    /\ accepted \in [Req -> Nat]
    /\ ending \in [Req -> {"none", "done", "lost"}]
    /\ faults \in 0..MaxFaults

(* Batch rows and slots agree: no two requests share a row, only a request *)
(* that has begun its prefill holds one, and a free row is reset.          *)
RowsMatchSlots ==
    /\ \A p, q \in Req : row[p] = row[q] /\ row[p] # 0 => p = q
    /\ \A r \in Req : row[r] # 0 => state[r] \notin {"none", "queued", "Pending"}
    /\ \A r \in Req : state[r] = "Decoding" => row[r] # 0
    /\ \A i \in FreeRows : kv[i] = 0

(* ContinuousEngineState::admit finds a row whenever the pump asks for     *)
(* one, so its error return, "a bookkeeping bug", is no step of this       *)
(* module: freed places in the pool and freed rows go together.            *)
AdmitFindsRow == phase = "prefill" => \A r \in batch : CanAdmit(r)

(* While nothing fails, a row's KV cache holds exactly what its request    *)
(* has been through: the restored prefix, the prefilled chunks, and every  *)
(* token but the last one, which is the next input.  A failed forward is   *)
(* tried again on top of what it left in the cache, so the claim is made   *)
(* for runs without a fault only.                                          *)
KVMatchesHistory ==
    phase = "rest" /\ faults = 0 => \A r \in Req :
        /\ state[r] = "Prefilling" /\ row[r] # 0 => kv[row[r]] = PromptLen[r] - left[r]
        /\ state[r] = "Decoding" => kv[row[r]] = PromptLen[r] + generated[r] - 1

(* Until something fails, a decode step finds a record and a current token *)
(* for every slot of its batch: the errors it returns otherwise are for    *)
(* steps that follow a failed one.                                         *)
DecodeInputsReady == phase = "decode" /\ faults = 0 => InputsReady

Streams == INSTANCE TokenStream WITH
    Limit <- [r \in Req |-> Larger(MaxNew[r], 1)],
    open <- receiver, sent <- accepted, over <- ending

(* Seen from its receiver, every request is one stream of at most          *)
(* max_new_tokens tokens that is over once and silent afterwards, through  *)
(* retries of failed steps and reuse of batch rows.                        *)
StreamRefinement == Streams!StreamSpec

\* The events of its stream that the channel has taken.
Taken(r) == accepted[r] + (IF ending[r] = "done" THEN 1 ELSE 0)

(* What try_send leaves of the stream contract of enqueue, "one Token per  *)
(* generated token, followed by exactly one Done": the first Capacity      *)
(* events of a stream reach a receiver that stays, whatever it reads.      *)
(* Only what comes after them can be lost, a token or Done itself.         *)
FirstEventsArrive ==
    \A r \in Req : receiver[r] =>
        \/ Taken(r) >= Capacity
        \/ /\ accepted[r] = emitted[r]
           /\ r \notin records => ending[r] = "done"

ArrivalsEnd == <>[][\A r \in Req : state[r] = "none" => state'[r] = "none"]_vars

\* A first token could not be sampled: the slot decodes without an input, and
\* every tick of the batch returns an error before it advances anything.
Stranded ==
    /\ phase = "rest" /\ faults > 0
    /\ \E r \in Req : state[r] = "Decoding" /\ r \notin current

(* Once requests stop arriving, the stream of every receiver that stays    *)
(* ends, through the retries of failed prefills and decodes, or a slot has *)
(* been stranded by a failed first token: nothing else can hold it up.     *)
StreamsEndOrStrand ==
    ArrivalsEnd => \A r \in Req : receiver[r] ~> ~receiver[r] \/ Stranded

(* "Followed by exactly one Done (or Error)": the same without exception.  *)
EveryStreamEnds ==
    ArrivalsEnd => \A r \in Req : receiver[r] ~> ~receiver[r]

==============================================================================
