-------------------------- MODULE ContinuousPump_proofs --------------------------
(***************************************************************************)
(* Proofs about the request pump composed with the scheduler, for every    *)
(* number of requests, rows and faults.  A tick only takes steps of the    *)
(* scheduler, so the scheduler's invariant holds throughout; PumpInv adds  *)
(* what ties batch rows, KV lengths, records and channels to it in the     *)
(* middle of a step, and is inductive together with BatcherInv.            *)
(***************************************************************************)
EXTENDS ContinuousPump, ContinuousBatcher_proofs

(* A request has a record from its enqueue to its drain, and a current     *)
(* token only once it decodes.                                             *)
RecordsMatch ==
    /\ \A r \in Req : r \in records <=> state[r] # "none"
    /\ current \subseteq {r \in Req : state[r] \notin {"none", "queued", "Pending", "Prefilling"}}

(* Between the drain of one step and the delivery of the next no slot is   *)
(* retired: every slot that holds a row is live.                           *)
NoneRetired ==
    phase \notin {"advance", "drain"} => \A r \in Req : state[r] \notin RetiredStates

(* Without a fault, whoever decodes has its next input, except the request *)
(* whose first token is about to be sampled.                               *)
CurrentKept ==
    faults = 0 =>
        \A r \in Req : state[r] = "Decoding" =>
            r \in current \/ (phase = "first" /\ r \in batch)

(* The length of every row's KV cache in the middle of a step, too: the    *)
(* batch runs one token ahead from its forward to advance_decode.          *)
Ahead(r) == r \in batch /\ phase \in {"first", "advance"}
KVInStep ==
    faults = 0 =>
        \A r \in Req :
            /\ row[r] = 0 /\ state[r] \in {"queued", "Pending", "Prefilling"} =>
                 left[r] + seed[r] = PromptLen[r]
            /\ row[r] # 0 /\ state[r] = "Prefilling" =>
                 kv[row[r]] + left[r] = PromptLen[r]
            /\ state[r] = "Decoding" =>
                 kv[row[r]] + 1 = PromptLen[r] + generated[r] + (IF Ahead(r) THEN 1 ELSE 0)

(* What the receiver of a request has been sent, in step with the slot.    *)
StreamInStep ==
    \A r \in Req :
        /\ ~receiver[r] => accepted[r] = 0 /\ ending[r] = "none"
        /\ r \in records => ending[r] = "none"
        /\ state[r] \in {"queued", "Pending", "Prefilling"} => accepted[r] = 0
        /\ state[r] = "Decoding" =>
              accepted[r] <= generated[r] + (IF phase = "advance" /\ r \in batch THEN 1 ELSE 0)

PumpInv ==
    /\ PumpTypeOK
    /\ RowsMatchSlots
    /\ RecordsMatch
    /\ NoneRetired
    /\ CurrentKept
    /\ KVInStep
    /\ StreamInStep

-----------------------------------------------------------------------------

(* What a prefill finds: the request it was issued for, its row or a free  *)
(* one, and a chunk that fits the prompt.                                  *)
LEMMA SeedsRow ==
    ASSUME BatcherInv, PumpInv, NEW r \in Req, phase = "prefill", batch = {r},
           NEW i \in Rows, Allocates(r, i)
    PROVE  /\ state[r] = "Prefilling" /\ generated[r] = 0 /\ r \in records
           /\ i \in 1..MaxSlots /\ i # 0
           /\ SeededLen(r, i) \in Nat /\ Chunk(r) \in Nat /\ Chunk(r) <= left[r]
           /\ \/ row[r] = i /\ SeededLen(r, i) = kv[i]
              \/ row[r] = 0 /\ i \in FreeRows /\ SeededLen(r, i) = seed[r]
<1> USE PumpAssumption, BatcherAssumption
<1>1. state[r] = "Prefilling" /\ generated[r] = 0
  BY DEF BatcherInv, InstructedSlots, GeneratedSoFar
<1>2. r \in records
  BY <1>1 DEF PumpInv, RecordsMatch
<1>3. i \in 1..MaxSlots /\ i # 0
  BY DEF Rows
<1>4. Chunk(r) \in Nat /\ Chunk(r) <= left[r]
  BY DEF Chunk, Smaller, Larger, BatcherInv, BatcherTypeOK
<1>5. kv[i] \in Nat /\ seed[r] \in Nat
  BY DEF PumpInv, PumpTypeOK
<1>6. ASSUME row[r] # 0
      PROVE  row[r] = i /\ SeededLen(r, i) = kv[i]
  BY <1>6 DEF Allocates, SeededLen
<1>7. ASSUME row[r] = 0
      PROVE  i \in FreeRows /\ SeededLen(r, i) = seed[r]
  <2>1. i \in FreeRows /\ kv[i] = 0
    BY <1>7 DEF Allocates, PumpInv, RowsMatchSlots
  <2> QED BY <1>2, <1>5, <1>7, <2>1 DEF SeededLen
<1>8. SeededLen(r, i) \in Nat
  BY <1>5 DEF SeededLen
<1> QED BY <1>1, <1>2, <1>3, <1>4, <1>6, <1>7, <1>8

LEMMA EnqueueStep ==
    ASSUME BatcherInv, BatcherInv', PumpInv, NEW r \in Req, NEW hit \in Hits, PumpEnqueue(r, hit)
    PROVE  PumpInv'
<1> USE PumpAssumption, BatcherAssumption DEF PumpInv
<1>0. /\ state[r] = "none" /\ hit \in Nat /\ PromptLen[r] \in Nat
      /\ PromptLen[r] - hit > 0 /\ row[r] = 0
  BY DEF PumpEnqueue, Enqueue, RowsMatchSlots, RecordsMatch
<1>1. PumpTypeOK'
  BY DEF BatcherInv, PumpTypeOK, BatcherTypeOK, PumpEnqueue, Enqueue
<1>2. RowsMatchSlots'
  BY DEF PumpEnqueue, Enqueue, RowsMatchSlots,
         FreeRows, Rows
<1>3. RecordsMatch'
  BY DEF BatcherInv, BatcherTypeOK, PumpEnqueue, Enqueue, RecordsMatch
<1>4. NoneRetired'
  BY DEF PumpEnqueue, Enqueue, NoneRetired,
         RetiredStates
<1>5. CurrentKept'
  BY DEF PumpEnqueue, Enqueue, CurrentKept
<1>6. KVInStep'
  <2>1. \A q \in Req : q # r => /\ state'[q] = state[q] /\ left'[q] = left[q]
                                /\ seed'[q] = seed[q]
    BY DEF PumpEnqueue, Enqueue, PumpTypeOK, BatcherTypeOK, BatcherInv
  <2>2. state'[r] = "queued" /\ left'[r] = PromptLen[r] - hit /\ seed'[r] = hit
    BY DEF PumpEnqueue, Enqueue, PumpTypeOK, BatcherTypeOK, BatcherInv
  <2>3. UNCHANGED <<row, kv, generated, phase, batch, faults>>
    BY DEF PumpEnqueue, Enqueue
  <2> QED BY <1>0, <2>1, <2>2, <2>3 DEF KVInStep, Ahead
<1>7. StreamInStep'
  BY DEF PumpEnqueue, Enqueue, StreamInStep
<1> QED BY <1>1, <1>2, <1>3, <1>4, <1>5, <1>6, <1>7

LEMMA FillStep ==
    ASSUME BatcherInv, BatcherInv', PumpInv, FillSlot /\ UNCHANGED pumpVars
    PROVE  PumpInv'
<1> USE PumpAssumption, BatcherAssumption DEF PumpInv
<1> PICK i \in AdmissibleAt : state' = [state EXCEPT ![pending[i]] = "Pending"]
  BY DEF FillSlot
<1> DEFINE p == pending[i]
<1>q. p \in Req /\ state[p] = "queued"
  <2>1. i \in 1..Len(pending) /\ pending \in Seq(Req)
    BY DEF AdmissibleAt, BatcherInv, BatcherTypeOK
  <2>2. p \in Range(pending)
    BY <2>1, LenProperties DEF Range
  <2> QED BY <2>2 DEF BatcherInv, Conservation, InState
<1>0. /\ UNCHANGED <<left, generated, batch, pumpVars>>
      /\ phase \in {"rest", "fill"} /\ phase' = "fill"
      /\ \A q \in Req : state'[q] = IF q = p THEN "Pending" ELSE state[q]
  BY <1>q DEF FillSlot, BatcherInv, BatcherTypeOK
<1> HIDE DEF p
<1>1. PumpTypeOK'
  BY DEF BatcherInv, PumpTypeOK, BatcherTypeOK, FillSlot, pumpVars
<1>2. RowsMatchSlots'
  BY <1>q, <1>0 DEF pumpVars, RowsMatchSlots, FreeRows, Rows, RecordsMatch
<1>3. RecordsMatch'
  BY <1>q, <1>0 DEF pumpVars, RecordsMatch
<1>4. NoneRetired'
  BY DEF FillSlot, pumpVars, NoneRetired,
         RetiredStates
<1>5. CurrentKept'
  BY DEF FillSlot, pumpVars, CurrentKept
<1>6. KVInStep'
  BY <1>q, <1>0 DEF pumpVars, KVInStep, Ahead
<1>7. StreamInStep'
  BY <1>q, <1>0 DEF pumpVars, StreamInStep
<1> QED BY <1>1, <1>2, <1>3, <1>4, <1>5, <1>6, <1>7

LEMMA IssueStep ==
    ASSUME BatcherInv, BatcherInv', PumpInv, NEW r \in Req, IssuePrefill(r) /\ UNCHANGED pumpVars
    PROVE  PumpInv'
<1> USE PumpAssumption, BatcherAssumption DEF PumpInv
<1>0. /\ UNCHANGED <<left, generated, pumpVars>> /\ state[r] \in {"Pending", "Prefilling"}
      /\ phase \in {"rest", "fill"} /\ phase' = "prefill" /\ batch' = {r}
      /\ \A q \in Req : state'[q] = IF q = r THEN "Prefilling" ELSE state[q]
  BY DEF IssuePrefill, IsFirstSlot, ToPrefill, BatcherInv, BatcherTypeOK
<1>a. state[r] = "Pending" => row[r] = 0
  BY DEF RowsMatchSlots
<1>1. PumpTypeOK'
  BY DEF BatcherInv, PumpTypeOK, BatcherTypeOK, IssuePrefill, pumpVars
<1>2. RowsMatchSlots'
  BY DEF IssuePrefill, pumpVars, RowsMatchSlots,
         FreeRows, Rows
<1>3. RecordsMatch'
  BY <1>0, <1>a DEF pumpVars, RecordsMatch
<1>4. NoneRetired'
  BY DEF IssuePrefill, pumpVars, NoneRetired,
         RetiredStates
<1>5. CurrentKept'
  BY DEF IssuePrefill, pumpVars, CurrentKept
<1>6. KVInStep'
  BY <1>0, <1>a DEF pumpVars, KVInStep, Ahead
<1>7. StreamInStep'
  BY <1>0, <1>a DEF pumpVars, StreamInStep
<1> QED BY <1>1, <1>2, <1>3, <1>4, <1>5, <1>6, <1>7

LEMMA IssueDecodeStep ==
    ASSUME BatcherInv, BatcherInv', PumpInv, IssueDecode /\ UNCHANGED pumpVars
    PROVE  PumpInv'
<1> USE PumpAssumption, BatcherAssumption DEF PumpInv
<1>1. PumpTypeOK'
  BY DEF BatcherInv, PumpTypeOK, BatcherTypeOK, IssueDecode, pumpVars
<1>2. RowsMatchSlots'
  BY DEF IssueDecode, pumpVars, RowsMatchSlots,
         FreeRows, Rows
<1>3. RecordsMatch'
  BY DEF IssueDecode, pumpVars, RecordsMatch
<1>4. NoneRetired'
  BY DEF IssueDecode, pumpVars, NoneRetired,
         RetiredStates
<1>5. CurrentKept'
  BY DEF IssueDecode, pumpVars, CurrentKept
<1>6. KVInStep'
  BY DEF IssueDecode, pumpVars, KVInStep, Ahead
<1>7. StreamInStep'
  BY DEF IssueDecode, pumpVars, StreamInStep
<1> QED BY <1>1, <1>2, <1>3, <1>4, <1>5, <1>6, <1>7

LEMMA PrefillSucceedsStep ==
    ASSUME BatcherInv, BatcherInv', PumpInv, NEW r \in Req, PumpPrefill(r)
    PROVE  PumpInv'
<1> USE PumpAssumption, BatcherAssumption DEF PumpInv
<1> PICK i \in Rows : Allocates(r, i) /\ row' = [row EXCEPT ![r] = i]
                      /\ kv' = [kv EXCEPT ![i] = SeededLen(r, i) + Chunk(r)]
  BY DEF PumpPrefill
<1> DEFINE s == SeededLen(r, i)
           c == Chunk(r)
<1>0. /\ state[r] = "Prefilling" /\ generated[r] = 0 /\ r \in records
      /\ i \in 1..MaxSlots /\ i # 0 /\ s \in Nat /\ c \in Nat /\ Chunk(r) <= left[r]
      /\ \/ row[r] = i /\ s = kv[i]
         \/ row[r] = 0 /\ i \in FreeRows /\ s = seed[r]
  BY SeedsRow DEF PumpPrefill, AdvancePrefill
<1> HIDE DEF s, c
<1>a. /\ \A q \in Req : row'[q] = IF q = r THEN i ELSE row[q]
      /\ \A k \in Rows : kv'[k] = IF k = i THEN s + c ELSE kv[k]
      /\ \A q \in Req : q # r => row[q] # i
  BY <1>0 DEF PumpTypeOK, RowsMatchSlots, FreeRows, s, c

<1>b. /\ \A q \in Req : left'[q] = IF q = r THEN left[q] - c ELSE left[q]
      /\ \/ UNCHANGED state /\ phase' = "drain"
         \/ /\ \A q \in Req : state'[q] = IF q = r THEN "Decoding" ELSE state[q]
            /\ phase' = "first" /\ c = left[r]
      /\ phase = "prefill" /\ batch = {r} /\ c <= left[r]
      /\ UNCHANGED <<generated, batch, records, seed, current, emitted, receiver, buffered,
                     accepted, ending, faults>>
  BY <1>0 DEF PumpPrefill, AdvancePrefill, FinalChunk, BatcherInv, BatcherTypeOK, c
<1>1. PumpTypeOK'
  <2>1. BatcherTypeOK'
    BY DEF BatcherInv
  <2>2. row' \in [Req -> 0..MaxSlots]
    BY <1>0, <1>b DEF PumpTypeOK, s, c
  <2>3. kv' \in [Rows -> Nat]
    BY <1>0, <1>b DEF PumpTypeOK, s, c
  <2>4. records' \in SUBSET Req /\ current' \in SUBSET records'
    BY <1>0, <1>b DEF PumpTypeOK, s, c
  <2>5. seed' \in [Req -> Nat] /\ emitted' \in [Req -> Nat] /\ accepted' \in [Req -> Nat]
    BY <1>0, <1>b DEF PumpTypeOK, s, c
  <2>6. receiver' \in [Req -> BOOLEAN]
    BY <1>0, <1>b DEF PumpTypeOK, s, c
  <2>7. buffered' \in [Req -> 0..Capacity]
    BY <1>0, <1>b DEF PumpTypeOK, s, c
  <2>8. ending' \in [Req -> {"none", "done", "lost"}] /\ faults' \in 0..MaxFaults
    BY <1>0, <1>b DEF PumpTypeOK, s, c
  <2> QED BY <2>1, <2>2, <2>3, <2>4, <2>5, <2>6, <2>7, <2>8 DEF PumpTypeOK
<1>2. RowsMatchSlots'
  <2>1. \A p, q \in Req : row'[p] = row'[q] /\ row'[p] # 0 => p = q
    BY <1>a DEF RowsMatchSlots
  <2>2. \A q \in Req : row'[q] # 0 => state'[q] \notin {"none", "queued", "Pending"}
    BY <1>0, <1>a, <1>b DEF RowsMatchSlots
  <2>3. \A q \in Req : state'[q] = "Decoding" => row'[q] # 0
    BY <1>0, <1>a, <1>b DEF RowsMatchSlots
  <2>4. \A k \in FreeRows' : kv'[k] = 0
    <3> SUFFICES ASSUME NEW k \in Rows, \A q \in Req : row'[q] # k
                 PROVE  kv'[k] = 0
      BY DEF FreeRows, Rows
    <3>1. k # i /\ \A q \in Req : row[q] # k
      BY <1>0, <1>a DEF Rows
    <3> QED BY <1>a, <3>1 DEF RowsMatchSlots, FreeRows
  <2> QED BY <2>1, <2>2, <2>3, <2>4 DEF RowsMatchSlots
<1>3. RecordsMatch'
  BY <1>0, <1>b DEF RecordsMatch
<1>4. NoneRetired'
  BY <1>0, <1>b DEF NoneRetired, RetiredStates
<1>5. CurrentKept'
  BY <1>0, <1>b DEF CurrentKept
<1>6. KVInStep'
  <2> SUFFICES ASSUME faults = 0, NEW q \in Req
               PROVE  /\ row'[q] = 0 /\ state'[q] \in {"queued", "Pending", "Prefilling"} =>
                           left'[q] + seed'[q] = PromptLen[q]
                      /\ row'[q] # 0 /\ state'[q] = "Prefilling" =>
                           kv'[row'[q]] + left'[q] = PromptLen[q]
                      /\ state'[q] = "Decoding" =>
                           kv'[row'[q]] + 1 = PromptLen[q] + generated'[q]
                                              + (IF Ahead(q)' THEN 1 ELSE 0)
    BY <1>b DEF KVInStep
  <2>1. /\ left[q] \in Nat /\ seed[q] \in Nat /\ PromptLen[q] \in Nat /\ kv[i] \in Nat
        /\ row[q] \in 0..MaxSlots /\ generated[q] \in Nat
    BY DEF PumpTypeOK, BatcherInv, BatcherTypeOK
  <2>2. CASE q = r
    <3>1. kv'[i] = s + c /\ row'[q] = i /\ left'[q] = left[q] - c
      BY <1>a, <1>b, <2>2
    <3>2. s + left[r] = PromptLen[r]
      BY <1>0, <2>1, <2>2 DEF KVInStep
    <3> QED BY <1>0, <1>b, <2>1, <2>2, <3>1, <3>2 DEF Ahead
  <2>3. CASE q # r
    <3>1. row[q] # 0 => row[q] \in Rows /\ row[q] # i
      BY <1>a, <2>1, <2>3 DEF Rows
    <3>2. /\ row'[q] = row[q] /\ state'[q] = state[q] /\ left'[q] = left[q]
          /\ row[q] # 0 => kv'[row[q]] = kv[row[q]]
      BY <1>a, <1>b, <2>3, <3>1
    <3>3. state[q] = "Decoding" => row[q] # 0
      BY DEF RowsMatchSlots
    <3> QED BY <1>b, <2>1, <2>3, <3>2, <3>3 DEF KVInStep, Ahead
  <2> QED BY <2>2, <2>3
<1>7. StreamInStep'
  <2>1. accepted[r] = 0
    BY <1>0 DEF StreamInStep
  <2>2. \A q \in Req : generated[q] \in Nat
    BY DEF BatcherInv, BatcherTypeOK
  <2>3. phase # "advance" /\ phase' # "advance"
    BY <1>b
  <2>4. \A q \in Req : state'[q] = state[q] \/ (q = r /\ state'[q] = "Decoding")
    BY <1>b
  <2> QED BY <1>0, <1>b, <2>1, <2>2, <2>3, <2>4 DEF StreamInStep
<1> QED BY <1>1, <1>2, <1>3, <1>4, <1>5, <1>6, <1>7

LEMMA PrefillFailsStep ==
    ASSUME BatcherInv, BatcherInv', PumpInv, NEW r \in Req, PumpPrefillFails(r)
    PROVE  PumpInv'
<1> USE PumpAssumption, BatcherAssumption DEF PumpInv
<1> PICK i \in Rows, n \in {0, Chunk(r)} :
         Allocates(r, i) /\ row' = [row EXCEPT ![r] = i]
         /\ kv' = [kv EXCEPT ![i] = SeededLen(r, i) + n]
  BY DEF PumpPrefillFails
<1> DEFINE s == SeededLen(r, i)
<1>0. /\ state[r] = "Prefilling" /\ generated[r] = 0 /\ r \in records
      /\ i \in 1..MaxSlots /\ i # 0 /\ s \in Nat /\ n \in Nat
      /\ \/ row[r] = i /\ s = kv[i]
         \/ row[r] = 0 /\ i \in FreeRows /\ s = seed[r]
  BY SeedsRow DEF PumpPrefillFails
<1> HIDE DEF s
<1>a. /\ \A q \in Req : row'[q] = IF q = r THEN i ELSE row[q]
      /\ \A k \in Rows : kv'[k] = IF k = i THEN s + n ELSE kv[k]
      /\ \A q \in Req : q # r => row[q] # i
  BY <1>0 DEF PumpTypeOK, RowsMatchSlots, FreeRows, s
<1>b. /\ phase' = "rest" /\ faults' = faults + 1 /\ faults < MaxFaults
      /\ UNCHANGED <<state, records, seed, current, emitted, receiver, buffered,
                     accepted, ending>>
  BY DEF PumpPrefillFails, Abandon
<1>1. PumpTypeOK'
  <2>1. BatcherTypeOK'
    BY DEF BatcherInv
  <2>2. row' \in [Req -> 0..MaxSlots]
    BY <1>0, <1>b DEF PumpTypeOK, s
  <2>3. kv' \in [Rows -> Nat]
    BY <1>0, <1>b DEF PumpTypeOK, s
  <2>4. records' \in SUBSET Req /\ current' \in SUBSET records'
    BY <1>0, <1>b DEF PumpTypeOK, s
  <2>5. seed' \in [Req -> Nat] /\ emitted' \in [Req -> Nat] /\ accepted' \in [Req -> Nat]
    BY <1>0, <1>b DEF PumpTypeOK, s
  <2>6. receiver' \in [Req -> BOOLEAN]
    BY <1>0, <1>b DEF PumpTypeOK, s
  <2>7. buffered' \in [Req -> 0..Capacity]
    BY <1>0, <1>b DEF PumpTypeOK, s
  <2>8. ending' \in [Req -> {"none", "done", "lost"}] /\ faults' \in 0..MaxFaults
    BY <1>0, <1>b DEF PumpTypeOK, s
  <2> QED BY <2>1, <2>2, <2>3, <2>4, <2>5, <2>6, <2>7, <2>8 DEF PumpTypeOK
<1>2. RowsMatchSlots'
  <2>1. \A p, q \in Req : row'[p] = row'[q] /\ row'[p] # 0 => p = q
    BY <1>a DEF RowsMatchSlots
  <2>2. \A q \in Req : row'[q] # 0 => state'[q] \notin {"none", "queued", "Pending"}
    BY <1>0, <1>a, <1>b DEF RowsMatchSlots
  <2>3. \A q \in Req : state'[q] = "Decoding" => row'[q] # 0
    BY <1>0, <1>a, <1>b DEF RowsMatchSlots
  <2>4. \A k \in FreeRows' : kv'[k] = 0
    <3> SUFFICES ASSUME NEW k \in Rows, \A q \in Req : row'[q] # k
                 PROVE  kv'[k] = 0
      BY DEF FreeRows, Rows
    <3>1. k # i /\ \A q \in Req : row[q] # k
      BY <1>0, <1>a DEF Rows
    <3> QED BY <1>a, <3>1 DEF RowsMatchSlots, FreeRows
  <2> QED BY <2>1, <2>2, <2>3, <2>4 DEF RowsMatchSlots
<1>3. RecordsMatch'
  BY DEF PumpPrefillFails, Abandon, RecordsMatch
<1>4. NoneRetired'
  BY DEF PumpPrefillFails, Abandon, NoneRetired,
         RetiredStates
<1>5. CurrentKept'
  BY DEF PumpTypeOK, PumpPrefillFails, Abandon, CurrentKept
<1>6. KVInStep'
  BY DEF PumpTypeOK, PumpPrefillFails, Abandon, KVInStep, Ahead
<1>7. StreamInStep'
  BY DEF PumpPrefillFails, Abandon, StreamInStep
<1> QED BY <1>1, <1>2, <1>3, <1>4, <1>5, <1>6, <1>7

LEMMA FirstFailsStep ==
    ASSUME BatcherInv, BatcherInv', PumpInv, PumpFirstTokenFails
    PROVE  PumpInv'
<1> USE PumpAssumption, BatcherAssumption DEF PumpInv
<1>1. PumpTypeOK'
  BY DEF BatcherInv, PumpTypeOK, BatcherTypeOK, PumpFirstTokenFails, Abandon
<1>2. RowsMatchSlots'
  BY DEF PumpFirstTokenFails, Abandon,
         RowsMatchSlots, FreeRows, Rows
<1>3. RecordsMatch'
  BY DEF PumpFirstTokenFails, Abandon, RecordsMatch
<1>4. NoneRetired'
  BY DEF PumpFirstTokenFails, Abandon, NoneRetired,
         RetiredStates
<1>5. CurrentKept'
  BY DEF PumpTypeOK, PumpFirstTokenFails, Abandon, CurrentKept
<1>6. KVInStep'
  BY DEF PumpTypeOK, PumpFirstTokenFails, Abandon, KVInStep,
         Ahead
<1>7. StreamInStep'
  BY DEF PumpFirstTokenFails, Abandon, StreamInStep
<1> QED BY <1>1, <1>2, <1>3, <1>4, <1>5, <1>6, <1>7

LEMMA FirstTokenStep ==
    ASSUME BatcherInv, BatcherInv', PumpInv, PumpFirstToken
    PROVE  PumpInv'
<1> USE PumpAssumption, BatcherAssumption DEF PumpInv
<1>0. \A q \in batch : q \in Req /\ state[q] = "Decoding" /\ q \in records
  BY DEF BatcherInv, BatcherTypeOK, InstructedSlots, RecordsMatch, PumpFirstToken
<1>a. /\ \A q \in Req : state'[q] = state[q] \/ (q \in batch /\ ~receiver[q] /\ state'[q] = "Cancelled")
      /\ \A q \in batch : receiver[q] \/ state'[q] = "Cancelled"
      /\ phase' = "advance" /\ current' = current \cup batch
      /\ UNCHANGED <<left, generated, batch, row, records, seed, receiver, ending, faults>>
  BY <1>0 DEF PumpFirstToken, EmitTokens, Deliver, Sampled
<1>b. \A q \in Req : /\ emitted'[q] \in {emitted[q], emitted[q] + 1}
                     /\ buffered'[q] = buffered[q] \/ (buffered'[q] = buffered[q] + 1 /\ buffered[q] < Capacity)
                     /\ accepted'[q] = accepted[q] \/ (accepted'[q] = accepted[q] + 1 /\ q \in batch /\ receiver[q])
  BY DEF PumpFirstToken, EmitTokens, HasRoom
<1>c. /\ emitted' = [q \in Req |-> emitted'[q]] /\ buffered' = [q \in Req |-> buffered'[q]]
      /\ accepted' = [q \in Req |-> accepted'[q]]
  BY DEF PumpFirstToken, EmitTokens
<1>1. PumpTypeOK'
  <2>1. BatcherTypeOK'
    BY DEF BatcherInv
  <2>2. kv' \in [Rows -> Nat]
    BY DEF PumpTypeOK, PumpFirstToken
  <2>3. current' \in SUBSET records'
    BY <1>0, <1>a DEF PumpTypeOK
  <2>4. emitted' \in [Req -> Nat]
    BY <1>b, <1>c DEF PumpTypeOK
  <2>5. accepted' \in [Req -> Nat]
    BY <1>b, <1>c DEF PumpTypeOK
  <2>6. \A q \in Req : buffered'[q] \in 0..Capacity
    BY <1>b DEF PumpTypeOK
  <2>7. buffered' \in [Req -> 0..Capacity]
    BY <1>c, <2>6
  <2>8. /\ row' \in [Req -> 0..MaxSlots] /\ records' \in SUBSET Req /\ seed' \in [Req -> Nat]
        /\ receiver' \in [Req -> BOOLEAN] /\ faults' \in 0..MaxFaults
        /\ ending' \in [Req -> {"none", "done", "lost"}]
    BY <1>a DEF PumpTypeOK
  <2> QED BY <2>1, <2>2, <2>3, <2>4, <2>5, <2>7, <2>8 DEF PumpTypeOK
<1>2. RowsMatchSlots'
  BY DEF PumpFirstToken, EmitTokens, Deliver,
         RowsMatchSlots, FreeRows, Rows
<1>3. RecordsMatch'
  BY <1>0, <1>a DEF RecordsMatch
<1>4. NoneRetired'
  BY DEF PumpFirstToken, EmitTokens, Deliver,
         NoneRetired, RetiredStates, LiveStates
<1>5. CurrentKept'
  BY <1>a DEF CurrentKept, PumpFirstToken
<1>6. KVInStep'
  BY DEF PumpFirstToken, EmitTokens, Deliver,
         KVInStep, Ahead
<1>7. StreamInStep'
  <2>1. \A q \in batch : accepted[q] <= generated[q] /\ accepted[q] \in Nat /\ generated[q] \in Nat
    BY <1>0 DEF StreamInStep, PumpTypeOK, BatcherInv, BatcherTypeOK, PumpFirstToken
  <2>2. \A q \in Req : accepted[q] \in Nat /\ generated[q] \in Nat
    BY DEF PumpTypeOK, BatcherInv, BatcherTypeOK
  <2> SUFFICES ASSUME NEW q \in Req
               PROVE  /\ ~receiver'[q] => accepted'[q] = 0 /\ ending'[q] = "none"
                      /\ q \in records' => ending'[q] = "none"
                      /\ state'[q] \in {"queued", "Pending", "Prefilling"} => accepted'[q] = 0
                      /\ state'[q] = "Decoding" => accepted'[q] <= generated'[q]
                           + (IF phase' = "advance" /\ q \in batch' THEN 1 ELSE 0)
    BY DEF StreamInStep
  <2>3. CASE q \in batch
    BY <1>0, <1>a, <1>b, <2>1, <2>2, <2>3 DEF StreamInStep
  <2>4. CASE q \notin batch
    BY <1>a, <1>b, <2>2, <2>4 DEF StreamInStep, PumpFirstToken
  <2> QED BY <2>3, <2>4
<1> QED BY <1>1, <1>2, <1>3, <1>4, <1>5, <1>6, <1>7

LEMMA DecodeStep ==
    ASSUME BatcherInv, BatcherInv', PumpInv, PumpDecode
    PROVE  PumpInv'
<1> USE PumpAssumption, BatcherAssumption DEF PumpInv
<1>0. \A q \in batch : q \in Req /\ state[q] = "Decoding" /\ q \in records
  BY DEF BatcherInv, BatcherTypeOK, InstructedSlots, RecordsMatch, PumpDecode
<1>a. /\ \A q \in Req : state'[q] = state[q] \/ (q \in batch /\ ~receiver[q] /\ state'[q] = "Cancelled")
      /\ \A q \in batch : receiver[q] \/ state'[q] = "Cancelled"
      /\ phase' = "advance" /\ current' = current \cup batch
      /\ UNCHANGED <<left, generated, batch, row, records, seed, receiver, ending, faults>>
  BY <1>0 DEF PumpDecode, EmitTokens, Deliver, Sampled
<1>b. \A q \in Req : /\ emitted'[q] \in {emitted[q], emitted[q] + 1}
                     /\ buffered'[q] = buffered[q] \/ (buffered'[q] = buffered[q] + 1 /\ buffered[q] < Capacity)
                     /\ accepted'[q] = accepted[q] \/ (accepted'[q] = accepted[q] + 1 /\ q \in batch /\ receiver[q])
  BY DEF PumpDecode, EmitTokens, HasRoom
<1>c. /\ emitted' = [q \in Req |-> emitted'[q]] /\ buffered' = [q \in Req |-> buffered'[q]]
      /\ accepted' = [q \in Req |-> accepted'[q]]
  BY DEF PumpDecode, EmitTokens
<1>1. PumpTypeOK'
  <2>1. BatcherTypeOK'
    BY DEF BatcherInv
  <2>2. kv' \in [Rows -> Nat]
    BY DEF PumpTypeOK, PumpDecode, Extended
  <2>3. current' \in SUBSET records'
    BY <1>0, <1>a DEF PumpTypeOK
  <2>4. emitted' \in [Req -> Nat]
    BY <1>b, <1>c DEF PumpTypeOK
  <2>5. accepted' \in [Req -> Nat]
    BY <1>b, <1>c DEF PumpTypeOK
  <2>6. \A q \in Req : buffered'[q] \in 0..Capacity
    BY <1>b DEF PumpTypeOK
  <2>7. buffered' \in [Req -> 0..Capacity]
    BY <1>c, <2>6
  <2>8. /\ row' \in [Req -> 0..MaxSlots] /\ records' \in SUBSET Req /\ seed' \in [Req -> Nat]
        /\ receiver' \in [Req -> BOOLEAN] /\ faults' \in 0..MaxFaults
        /\ ending' \in [Req -> {"none", "done", "lost"}]
    BY <1>a DEF PumpTypeOK
  <2> QED BY <2>1, <2>2, <2>3, <2>4, <2>5, <2>7, <2>8 DEF PumpTypeOK
<1>2. RowsMatchSlots'
  <2>1. \A k \in Rows : kv'[k] = IF \E q \in batch : row[q] = k THEN kv[k] + 1 ELSE kv[k]
    BY DEF PumpDecode, Extended
  <2>2. \A q \in Req : row[q] # 0 => state'[q] \notin {"none", "queued", "Pending"}
    BY <1>0, <1>a DEF RowsMatchSlots
  <2>3. \A q \in Req : state'[q] = "Decoding" => row[q] # 0
    BY <1>a DEF RowsMatchSlots
  <2>4. \A k \in FreeRows' : kv'[k] = 0
    <3> SUFFICES ASSUME NEW k \in Rows, \A q \in Req : row[q] # k
                 PROVE  kv'[k] = 0
      BY <1>a DEF FreeRows, Rows
    <3>1. kv'[k] = kv[k]
      BY <1>0, <2>1
    <3> QED BY <3>1 DEF RowsMatchSlots, FreeRows
  <2> QED BY <1>a, <2>2, <2>3, <2>4 DEF RowsMatchSlots
<1>3. RecordsMatch'
  BY <1>0, <1>a DEF RecordsMatch
<1>4. NoneRetired'
  BY DEF PumpDecode, EmitTokens, Deliver,
         NoneRetired, RetiredStates, LiveStates
<1>5. CurrentKept'
  BY <1>a DEF CurrentKept, PumpDecode
<1>6. KVInStep'
  <2>1. \A k \in Rows : kv'[k] = IF \E q \in batch : row[q] = k THEN kv[k] + 1 ELSE kv[k]
    BY DEF PumpDecode, Extended
  <2> SUFFICES ASSUME faults = 0, NEW q \in Req
               PROVE  /\ row[q] = 0 /\ state'[q] \in {"queued", "Pending", "Prefilling"} =>
                           left[q] + seed[q] = PromptLen[q]
                      /\ row[q] # 0 /\ state'[q] = "Prefilling" =>
                           kv'[row[q]] + left[q] = PromptLen[q]
                      /\ state'[q] = "Decoding" =>
                           kv'[row[q]] + 1 = PromptLen[q] + generated[q]
                                              + (IF q \in batch THEN 1 ELSE 0)
    BY <1>a DEF KVInStep, Ahead
  <2>2. /\ row[q] \in 0..MaxSlots /\ (row[q] # 0 => row[q] \in Rows)
        /\ left[q] \in Nat /\ PromptLen[q] \in Nat /\ generated[q] \in Nat
        /\ (row[q] # 0 => kv[row[q]] \in Nat)
    <3>1. row[q] \in 0..MaxSlots /\ (row[q] # 0 => row[q] \in Rows)
      BY DEF PumpTypeOK, Rows
    <3>2. left[q] \in Nat /\ generated[q] \in Nat
      BY DEF PumpTypeOK, BatcherTypeOK
    <3>3. PromptLen[q] \in Nat
      OBVIOUS
    <3>4. row[q] # 0 => kv[row[q]] \in Nat
      BY <3>1 DEF PumpTypeOK
    <3> QED BY <3>1, <3>2, <3>3, <3>4
  <2>3. row[q] # 0 => kv'[row[q]] = IF q \in batch THEN kv[row[q]] + 1 ELSE kv[row[q]]
    BY <1>0, <2>1, <2>2 DEF RowsMatchSlots
  <2>4. state[q] = "Decoding" => row[q] # 0 /\ kv[row[q]] + 1 = PromptLen[q] + generated[q]
    BY <2>2 DEF RowsMatchSlots, KVInStep, Ahead, PumpDecode
  <2> QED BY <1>0, <1>a, <2>2, <2>3, <2>4 DEF KVInStep
<1>7. StreamInStep'
  <2>1. \A q \in batch : accepted[q] <= generated[q] /\ accepted[q] \in Nat /\ generated[q] \in Nat
    BY <1>0 DEF StreamInStep, PumpTypeOK, BatcherInv, BatcherTypeOK, PumpDecode
  <2>2. \A q \in Req : accepted[q] \in Nat /\ generated[q] \in Nat
    BY DEF PumpTypeOK, BatcherInv, BatcherTypeOK
  <2> SUFFICES ASSUME NEW q \in Req
               PROVE  /\ ~receiver'[q] => accepted'[q] = 0 /\ ending'[q] = "none"
                      /\ q \in records' => ending'[q] = "none"
                      /\ state'[q] \in {"queued", "Pending", "Prefilling"} => accepted'[q] = 0
                      /\ state'[q] = "Decoding" => accepted'[q] <= generated'[q]
                           + (IF phase' = "advance" /\ q \in batch' THEN 1 ELSE 0)
    BY DEF StreamInStep
  <2>3. CASE q \in batch
    BY <1>0, <1>a, <1>b, <2>1, <2>2, <2>3 DEF StreamInStep
  <2>4. CASE q \notin batch
    BY <1>a, <1>b, <2>2, <2>4 DEF StreamInStep, PumpDecode
  <2> QED BY <2>3, <2>4
<1> QED BY <1>1, <1>2, <1>3, <1>4, <1>5, <1>6, <1>7

LEMMA InputMissingStep ==
    ASSUME BatcherInv, BatcherInv', PumpInv, PumpInputMissing
    PROVE  PumpInv'
<1> USE PumpAssumption, BatcherAssumption DEF PumpInv
<1>1. PumpTypeOK'
  BY DEF BatcherInv, PumpTypeOK, BatcherTypeOK, PumpInputMissing, Abandon, pumpVars
<1>2. RowsMatchSlots'
  BY DEF PumpInputMissing, Abandon, pumpVars,
         RowsMatchSlots, FreeRows, Rows
<1>3. RecordsMatch'
  BY DEF PumpInputMissing, Abandon, pumpVars,
         RecordsMatch
<1>4. NoneRetired'
  BY DEF PumpInputMissing, Abandon, pumpVars,
         NoneRetired, RetiredStates, LiveStates
<1>5. CurrentKept'
  BY DEF PumpInputMissing, Abandon, pumpVars,
         CurrentKept
<1>6. KVInStep'
  BY DEF PumpInputMissing, Abandon, pumpVars,
         KVInStep, Ahead
<1>7. StreamInStep'
  BY DEF PumpInputMissing, Abandon, pumpVars,
         StreamInStep
<1> QED BY <1>1, <1>2, <1>3, <1>4, <1>5, <1>6, <1>7

LEMMA DecodeFailsStep ==
    ASSUME BatcherInv, BatcherInv', PumpInv, NEW n, PumpDecodeFails(n)
    PROVE  PumpInv'
<1> USE PumpAssumption, BatcherAssumption DEF PumpInv
<1>0. /\ \A k \in Rows : kv'[k] = kv[k] \/ (kv'[k] = kv[k] + 1 /\ \E q \in batch : row[q] = k)
      /\ kv' = [k \in Rows |-> kv'[k]]
      /\ UNCHANGED <<state, row, records, seed, current, emitted, receiver, buffered,
                     accepted, ending>>
      /\ faults' = faults + 1 /\ faults < MaxFaults /\ batch \subseteq Req
  BY DEF PumpDecodeFails, Abandon, Extended, BatcherInv, BatcherTypeOK
<1>1. PumpTypeOK'
  <2>1. BatcherTypeOK'
    BY DEF BatcherInv
  <2>2. \A k \in Rows : kv'[k] \in Nat
    BY <1>0 DEF PumpTypeOK
  <2> QED BY <1>0, <2>1, <2>2 DEF PumpTypeOK
<1>2. RowsMatchSlots'
  <2>1. \A k \in FreeRows' : kv'[k] = 0
    BY <1>0 DEF RowsMatchSlots, FreeRows
  <2> QED BY <1>0, <2>1 DEF RowsMatchSlots
<1>3. RecordsMatch'
  BY DEF PumpDecodeFails, Abandon, RecordsMatch
<1>4. NoneRetired'
  BY DEF PumpDecodeFails, Abandon, NoneRetired,
         RetiredStates
<1>5. CurrentKept'
  BY DEF PumpTypeOK, PumpDecodeFails, Abandon, CurrentKept
<1>6. KVInStep'
  BY DEF PumpTypeOK, PumpDecodeFails, Abandon, KVInStep, Ahead
<1>7. StreamInStep'
  BY DEF PumpDecodeFails, Abandon, StreamInStep
<1> QED BY <1>1, <1>2, <1>3, <1>4, <1>5, <1>6, <1>7

LEMMA AdvanceStep ==
    ASSUME BatcherInv, BatcherInv', PumpInv, NEW kind \in [batch -> TokenKinds], PumpAdvance(kind)
    PROVE  PumpInv'
<1> USE PumpAssumption, BatcherAssumption DEF PumpInv
<1>0. \A q \in batch : q \in Req /\ state[q] \in {"Decoding", "Cancelled"} /\ q \in records
  BY DEF BatcherInv, BatcherTypeOK, InstructedSlots, RecordsMatch, PumpAdvance,
         AdvanceDecode
<1>a. /\ \A q \in Req : state'[q] = state[q] \/ (q \in batch /\ state'[q] = "Finished")
      /\ \A q \in Req : generated'[q] = IF q \in batch /\ kind[q] # "stop"
                                          THEN generated[q] + 1 ELSE generated[q]
      /\ \A q \in batch : kind[q] = "stop" => state'[q] = "Finished"
      /\ phase = "advance" /\ phase' = "drain"
      /\ UNCHANGED <<left, batch, pumpVars>>
  BY <1>0 DEF PumpAdvance, AdvanceDecode
<1>1. PumpTypeOK'
  BY DEF BatcherInv, PumpTypeOK, BatcherTypeOK, PumpAdvance, AdvanceDecode, pumpVars
<1>2. RowsMatchSlots'
  BY DEF PumpAdvance, AdvanceDecode, pumpVars,
         RowsMatchSlots, FreeRows, Rows
<1>3. RecordsMatch'
  BY <1>0, <1>a DEF RecordsMatch, pumpVars
<1>4. NoneRetired'
  BY DEF PumpAdvance, AdvanceDecode, pumpVars,
         NoneRetired, RetiredStates, LiveStates
<1>5. CurrentKept'
  BY DEF PumpAdvance, AdvanceDecode, pumpVars,
         CurrentKept
<1>6. KVInStep'
  <2>1. \A q \in Req : generated[q] \in Nat /\ PromptLen[q] \in Nat
    BY DEF BatcherInv, BatcherTypeOK
  <2>2. \A q \in Req : state[q] = "Decoding" => row[q] \in Rows /\ kv[row[q]] \in Nat
    BY DEF RowsMatchSlots, PumpTypeOK, Rows
  <2> QED BY <1>0, <1>a, <2>1, <2>2 DEF KVInStep, Ahead, pumpVars
<1>7. StreamInStep'
  BY DEF BatcherInv, BatcherTypeOK, PumpAdvance, AdvanceDecode, pumpVars,
         StreamInStep
<1> QED BY <1>1, <1>2, <1>3, <1>4, <1>5, <1>6, <1>7

LEMMA DrainStep ==
    ASSUME BatcherInv, BatcherInv', PumpInv, NEW r \in Req, PumpDrainSlot(r)
    PROVE  PumpInv'
<1> USE PumpAssumption, BatcherAssumption DEF PumpInv
<1>0. state[r] \in RetiredStates
  BY DEF PumpDrainSlot, Released, DrainSlot, RetiredAt
<1>a. /\ \A q \in Req : row'[q] = IF q = r THEN 0 ELSE row[q]
      /\ \A k \in Rows : kv'[k] = IF row[r] = k THEN 0 ELSE kv[k]
      /\ kv' = [k \in Rows |-> kv'[k]] /\ row' = [row EXCEPT ![r] = 0]
      /\ \A q \in Req : state'[q] = IF q = r THEN "none" ELSE state[q]
      /\ \A q \in Req : q # r => left'[q] = left[q] /\ seed'[q] = seed[q]
                                 /\ generated'[q] = generated[q]
      /\ phase = "drain" /\ UNCHANGED <<phase, batch, receiver, accepted, faults>>
  BY DEF PumpDrainSlot, Released, DrainSlot, Cleared, PumpTypeOK, BatcherInv, BatcherTypeOK
<1>b. /\ DoneSent(r) \/ DoneLost(r) \/ NoDone(r)
      /\ emitted' = [emitted EXCEPT ![r] = IF receiver[r] THEN @ ELSE 0]
      /\ records' = records \ {r}
  BY DEF PumpDrainSlot
<1>1. PumpTypeOK'
  <2>0. Capacity \in Nat
    OBVIOUS
  <2>1. BatcherTypeOK'
    BY DEF BatcherInv
  <2>2. row' \in [Req -> 0..MaxSlots]
    BY <1>a DEF PumpTypeOK
  <2>3. kv' \in [Rows -> Nat]
    BY <1>a DEF PumpTypeOK
  <2>4. records' \in SUBSET Req /\ current' \in SUBSET records' /\ seed' \in [Req -> Nat]
    BY DEF PumpTypeOK, PumpDrainSlot, Released
  <2>5. emitted' \in [Req -> Nat]
    BY DEF PumpTypeOK, PumpDrainSlot, Released
  <2>6. buffered' \in [Req -> 0..Capacity]
    BY <2>0, <1>b DEF PumpTypeOK, DoneSent, DoneLost, NoDone, HasRoom
  <2>7. ending' \in [Req -> {"none", "done", "lost"}]
    BY <2>0, <1>b DEF PumpTypeOK, DoneSent, DoneLost, NoDone
  <2> QED BY <1>a, <2>1, <2>2, <2>3, <2>4, <2>5, <2>6, <2>7 DEF PumpTypeOK
<1>2. RowsMatchSlots'
  <2>1. \A p, q \in Req : row'[p] = row'[q] /\ row'[p] # 0 => p = q
    BY <1>a DEF RowsMatchSlots
  <2>2. \A q \in Req : row'[q] # 0 => state'[q] \notin {"none", "queued", "Pending"}
    BY <1>a DEF RowsMatchSlots
  <2>3. \A q \in Req : state'[q] = "Decoding" => row'[q] # 0
    BY <1>a DEF RowsMatchSlots
  <2>4. \A k \in FreeRows' : kv'[k] = 0
    <3> SUFFICES ASSUME NEW k \in Rows, \A q \in Req : row'[q] # k
                 PROVE  kv'[k] = 0
      BY DEF FreeRows, Rows
    <3>1. CASE row[r] = k
      BY <1>a, <3>1
    <3>2. CASE row[r] # k
      <4>1. k \in FreeRows
        BY <1>a, <3>2 DEF FreeRows
      <4> QED BY <1>a, <3>2, <4>1 DEF RowsMatchSlots
    <3> QED BY <3>1, <3>2
  <2> QED BY <2>1, <2>2, <2>3, <2>4 DEF RowsMatchSlots
<1>3. RecordsMatch'
  BY DEF BatcherInv, BatcherTypeOK, PumpDrainSlot, Released, DrainSlot,
         RecordsMatch
<1>4. NoneRetired'
  BY DEF PumpDrainSlot, Released, DrainSlot,
         NoneRetired, RetiredStates, LiveStates
<1>5. CurrentKept'
  BY DEF BatcherInv, BatcherTypeOK, PumpDrainSlot, Released, DrainSlot,
         CurrentKept
<1>6. KVInStep'
  <2> SUFFICES ASSUME faults = 0, NEW q \in Req
               PROVE  /\ row'[q] = 0 /\ state'[q] \in {"queued", "Pending", "Prefilling"} =>
                           left'[q] + seed'[q] = PromptLen[q]
                      /\ row'[q] # 0 /\ state'[q] = "Prefilling" =>
                           kv'[row'[q]] + left'[q] = PromptLen[q]
                      /\ state'[q] = "Decoding" =>
                           kv'[row'[q]] + 1 = PromptLen[q] + generated'[q]
                                              + (IF Ahead(q)' THEN 1 ELSE 0)
    BY <1>a DEF KVInStep
  <2>1. CASE q = r
    BY <1>a, <2>1
  <2>2. CASE q # r
    <3>1. row[q] # 0 => row[q] \in Rows /\ row[q] # row[r]
      BY <2>2 DEF RowsMatchSlots, PumpTypeOK, Rows
    <3>2. state[q] = "Decoding" => row[q] # 0
      BY DEF RowsMatchSlots
    <3> QED BY <1>a, <2>2, <3>1, <3>2 DEF KVInStep, Ahead
  <2> QED BY <2>1, <2>2
<1>7. StreamInStep'
  <2>1. /\ receiver' = receiver /\ accepted' = accepted
        /\ \A q \in Req : q # r => ending'[q] = ending[q]
        /\ ~receiver[r] => ending'[r] = ending[r]
    BY <1>a, <1>b DEF DoneSent, DoneLost, NoDone, OffersDone, PumpTypeOK
  <2> QED BY <1>a, <1>b, <2>1 DEF StreamInStep
<1> QED BY <1>1, <1>2, <1>3, <1>4, <1>5, <1>6, <1>7

LEMMA DrainEndStep ==
    ASSUME BatcherInv, BatcherInv', PumpInv, PumpDrainEnd
    PROVE  PumpInv'
<1> USE PumpAssumption, BatcherAssumption DEF PumpInv
<1>1. PumpTypeOK'
  BY DEF BatcherInv, PumpTypeOK, BatcherTypeOK, PumpDrainEnd, DrainEnd, pumpVars
<1>2. RowsMatchSlots'
  BY DEF PumpDrainEnd, DrainEnd, pumpVars,
         RowsMatchSlots, FreeRows, Rows
<1>3. RecordsMatch'
  BY DEF PumpDrainEnd, DrainEnd, pumpVars,
         RecordsMatch
<1>4. NoneRetired'
  <2> SUFFICES ASSUME NEW q \in Req, state[q] \in RetiredStates
               PROVE  FALSE
    BY DEF NoneRetired, PumpDrainEnd, DrainEnd
  <2>1. q \in Range(slots)
    BY DEF BatcherInv, Conservation
  <2>2. PICK i \in 1..Len(slots) : slots[i] = q
    BY <2>1, LenProperties DEF Range, BatcherInv, BatcherTypeOK
  <2> QED BY <2>2 DEF PumpDrainEnd, DrainEnd, RetiredAt
<1>5. CurrentKept'
  BY DEF PumpDrainEnd, DrainEnd, pumpVars,
         CurrentKept
<1>6. KVInStep'
  BY DEF PumpDrainEnd, DrainEnd, pumpVars, KVInStep,
         Ahead
<1>7. StreamInStep'
  BY DEF PumpDrainEnd, DrainEnd, pumpVars,
         StreamInStep
<1> QED BY <1>1, <1>2, <1>3, <1>4, <1>5, <1>6, <1>7

LEMMA ReceiveStep ==
    ASSUME BatcherInv, BatcherInv', PumpInv, NEW r \in Req, Receive(r)
    PROVE  PumpInv'
<1> USE PumpAssumption, BatcherAssumption DEF PumpInv
<1>1. PumpTypeOK'
  <2>1. BatcherTypeOK'
    BY DEF BatcherInv
  <2>2. buffered' \in [Req -> 0..Capacity]
    <3>1. buffered[r] - 1 \in 0..Capacity
      BY DEF Receive, PumpTypeOK
    <3> QED BY <3>1 DEF Receive, PumpTypeOK
  <2> QED BY <2>1, <2>2 DEF PumpTypeOK, Receive
<1>2. RowsMatchSlots'
  BY DEF Receive, batcherVars, RowsMatchSlots,
         FreeRows, Rows
<1>3. RecordsMatch'
  BY DEF Receive, batcherVars, RecordsMatch
<1>4. NoneRetired'
  BY DEF Receive, batcherVars, NoneRetired,
         RetiredStates
<1>5. CurrentKept'
  BY DEF Receive, batcherVars, CurrentKept
<1>6. KVInStep'
  BY DEF Receive, batcherVars, KVInStep, Ahead
<1>7. StreamInStep'
  BY DEF Receive, batcherVars, StreamInStep
<1> QED BY <1>1, <1>2, <1>3, <1>4, <1>5, <1>6, <1>7

LEMMA CloseStep ==
    ASSUME BatcherInv, BatcherInv', PumpInv, NEW r \in Req, (StreamEnds(r) \/ Disconnect(r))
    PROVE  PumpInv'
<1> USE PumpAssumption, BatcherAssumption DEF PumpInv
<1>0. /\ receiver' = [receiver EXCEPT ![r] = FALSE]
      /\ buffered' = [buffered EXCEPT ![r] = 0]
      /\ accepted' = [accepted EXCEPT ![r] = 0]
      /\ ending' = [ending EXCEPT ![r] = "none"]
      /\ emitted' \in {emitted, [emitted EXCEPT ![r] = 0]}
      /\ UNCHANGED <<batcherVars, row, kv, records, seed, current, faults>>
  BY DEF StreamEnds, Disconnect, CloseReceiver, PumpTypeOK
<1>1. PumpTypeOK'
  <2>1. BatcherTypeOK'
    BY DEF BatcherInv
  <2>2. buffered' \in [Req -> 0..Capacity] /\ accepted' \in [Req -> Nat]
    BY <1>0 DEF PumpTypeOK
  <2>3. ending' \in [Req -> {"none", "done", "lost"}] /\ receiver' \in [Req -> BOOLEAN]
    BY <1>0 DEF PumpTypeOK
  <2>4. emitted' \in [Req -> Nat]
    BY <1>0 DEF PumpTypeOK
  <2> QED BY <1>0, <2>1, <2>2, <2>3, <2>4 DEF PumpTypeOK
<1>2. RowsMatchSlots'
  BY DEF StreamEnds, Disconnect, CloseReceiver,
         batcherVars, RowsMatchSlots, FreeRows, Rows
<1>3. RecordsMatch'
  BY DEF StreamEnds, Disconnect, CloseReceiver,
         batcherVars, RecordsMatch
<1>4. NoneRetired'
  BY DEF StreamEnds, Disconnect, CloseReceiver,
         batcherVars, NoneRetired, RetiredStates, LiveStates
<1>5. CurrentKept'
  BY DEF StreamEnds, Disconnect, CloseReceiver,
         batcherVars, CurrentKept
<1>6. KVInStep'
  BY DEF StreamEnds, Disconnect, CloseReceiver,
         batcherVars, KVInStep, Ahead
<1>7. StreamInStep'
  <2>1. \A q \in Req : q # r => /\ receiver'[q] = receiver[q] /\ accepted'[q] = accepted[q]
                                /\ ending'[q] = ending[q]
    BY <1>0 DEF PumpTypeOK
  <2>2. accepted'[r] = 0 /\ ending'[r] = "none" /\ generated[r] \in Nat
    BY <1>0 DEF PumpTypeOK, BatcherInv, BatcherTypeOK
  <2> QED BY <1>0, <2>1, <2>2 DEF StreamInStep, batcherVars
<1> QED BY <1>1, <1>2, <1>3, <1>4, <1>5, <1>6, <1>7

LEMMA StutterStep ==
    ASSUME BatcherInv, BatcherInv', PumpInv, UNCHANGED vars
    PROVE  PumpInv'
<1> USE PumpAssumption, BatcherAssumption DEF PumpInv
<1>1. PumpTypeOK'
  BY DEF BatcherInv, PumpTypeOK, BatcherTypeOK, vars, batcherVars, pumpVars
<1>2. RowsMatchSlots'
  BY DEF vars, batcherVars, pumpVars,
         RowsMatchSlots, FreeRows, Rows
<1>3. RecordsMatch'
  BY DEF vars, batcherVars, pumpVars, RecordsMatch
<1>4. NoneRetired'
  BY DEF vars, batcherVars, pumpVars, NoneRetired,
         RetiredStates
<1>5. CurrentKept'
  BY DEF vars, batcherVars, pumpVars, CurrentKept
<1>6. KVInStep'
  BY DEF vars, batcherVars, pumpVars, KVInStep, Ahead
<1>7. StreamInStep'
  BY DEF vars, batcherVars, pumpVars, StreamInStep
<1> QED BY <1>1, <1>2, <1>3, <1>4, <1>5, <1>6, <1>7

-----------------------------------------------------------------------------
(* Initial states and the induction step. *)

LEMMA PumpInitInv == PumpInit => BatcherInv /\ PumpInv
<1> SUFFICES ASSUME PumpInit PROVE BatcherInv /\ PumpInv
  OBVIOUS
<1> USE PumpAssumption, BatcherAssumption
<1>1. BatcherInv
  BY InvInit DEF PumpInit
<1>2. PumpTypeOK
  BY <1>1 DEF PumpInit, PumpTypeOK, BatcherInv
<1>3. \A r \in Req : state[r] = "none" /\ row[r] = 0
  BY DEF PumpInit, BatcherInit
<1>4. RowsMatchSlots
  BY <1>3 DEF PumpInit, RowsMatchSlots, FreeRows
<1>5. RecordsMatch /\ NoneRetired /\ CurrentKept
  BY <1>3 DEF PumpInit, RecordsMatch, NoneRetired, RetiredStates, CurrentKept
<1>6. KVInStep /\ StreamInStep
  BY <1>3 DEF PumpInit, KVInStep, StreamInStep
<1> QED BY <1>1, <1>2, <1>4, <1>5, <1>6 DEF PumpInv

(* Whatever the pump does is a step of the scheduler or leaves it alone:   *)
(* it never touches the scheduler's state behind its back.                 *)
LEMMA PumpDrivesBatcher == [PumpNext]_vars => [BatcherNext]_batcherVars
<1> SUFFICES ASSUME [PumpNext]_vars PROVE [BatcherNext]_batcherVars
  OBVIOUS
<1>1. CASE TickStep
  <2>1. ASSUME Deliver({r \in batch : ~receiver[r]}) PROVE BatcherNext
    BY <2>1 DEF BatcherNext, BatcherStep
  <2> QED BY <1>1, <2>1 DEF TickStep, PumpInstruct, PumpPrefill, PumpFirstToken, PumpDecode,
             PumpInputMissing, PumpAdvance, PumpDrainSlot, Released, PumpDrainEnd, EmitTokens,
             BatcherNext, BatcherStep, BatcherCalls
<1>2. CASE TickFails
  BY <1>2 DEF TickFails, PumpPrefillFails, PumpFirstTokenFails, PumpDecodeFails,
     BatcherNext, BatcherCalls
<1>3. ASSUME NEW r \in Req, NEW hit \in Hits, PumpEnqueue(r, hit) PROVE BatcherNext
  BY <1>3 DEF PumpEnqueue, BatcherNext, BatcherCalls
<1>4. ASSUME NEW r \in Req, Receive(r) \/ StreamEnds(r) \/ Disconnect(r)
      PROVE  UNCHANGED batcherVars
  BY <1>4 DEF Receive, StreamEnds, Disconnect, CloseReceiver
<1>5. CASE UNCHANGED vars
  BY <1>5 DEF vars
<1> QED BY <1>1, <1>2, <1>3, <1>4, <1>5 DEF PumpNext, ReceiverStep

LEMMA PumpInvStep == BatcherInv /\ PumpInv /\ [PumpNext]_vars => BatcherInv' /\ PumpInv'
<1> SUFFICES ASSUME BatcherInv, PumpInv, [PumpNext]_vars PROVE BatcherInv' /\ PumpInv'
  OBVIOUS
<1>0. BatcherInv'
  BY PumpDrivesBatcher, InvStep
<1>1. CASE TickStep
  <2>1. CASE PumpInstruct
    BY <1>0, <2>1, FillStep, IssueStep, IssueDecodeStep DEF PumpInstruct
  <2> QED BY <1>0, <1>1, <2>1, PrefillSucceedsStep, FirstTokenStep, DecodeStep,
         InputMissingStep,
             AdvanceStep, DrainStep, DrainEndStep DEF TickStep
<1>2. CASE TickFails
  BY <1>0, <1>2, PrefillFailsStep, FirstFailsStep, DecodeFailsStep DEF TickFails
<1>3. ASSUME NEW r \in Req, NEW hit \in Hits, PumpEnqueue(r, hit) PROVE PumpInv'
  BY <1>0, <1>3, EnqueueStep
<1>4. ASSUME NEW r \in Req, Receive(r) \/ StreamEnds(r) \/ Disconnect(r)
      PROVE  PumpInv'
  BY <1>0, <1>4, ReceiveStep, CloseStep
<1>5. CASE UNCHANGED vars
  BY <1>0, <1>5, StutterStep
<1> QED BY <1>0, <1>1, <1>2, <1>3, <1>4, <1>5 DEF PumpNext, ReceiverStep

LEMMA PumpInvariance == PumpSpec => [](BatcherInv /\ PumpInv)
  BY PumpInitInv, PumpInvStep, PTL DEF PumpSpec

(* The pump uses the scheduler only as its step protocol allows, so every  *)
(* property of the scheduler's specification is one of the pump's.         *)
THEOREM PumpSchedules == PumpSpec => BatcherSpec
<1>1. PumpInit => BatcherInit
  BY DEF PumpInit
<1> QED BY <1>1, PumpDrivesBatcher, PTL DEF PumpSpec, BatcherSpec

-----------------------------------------------------------------------------
(* Safety. *)

(* The pump's state is well typed in every reachable state: no channel     *)
(* holds more than its capacity, only recorded requests have a token.      *)
THEOREM PumpTypeCorrect == PumpSpec => []PumpTypeOK
<1>1. PumpInv => PumpTypeOK
  BY DEF PumpInv
<1> QED BY <1>1, PumpInvariance, PTL

(* No two requests share a batch row and a freed row is always reset,      *)
(* through failed steps, retries and reuse (admit and retire).             *)
THEOREM PumpRowsMatch == PumpSpec => []RowsMatchSlots
<1>1. PumpInv => RowsMatchSlots
  BY DEF PumpInv
<1> QED BY <1>1, PumpInvariance, PTL

(* A pool with a place left has a row left: fewer live slots than rows     *)
(* hold a row when one more asks for its own.                              *)
LEMMA RowLeft ==
    ASSUME BatcherInv, PumpInv, phase = "prefill", NEW r \in batch, row[r] = 0
    PROVE  FreeRows # {}
<1> USE BatcherAssumption
<1>1. r \in Req /\ state[r] = "Prefilling"
  BY DEF BatcherInv, BatcherTypeOK, InstructedSlots
<1> DEFINE holders == {q \in Req : row[q] # 0}
<1>2. holders \subseteq Live \ {r} /\ r \in Live
  BY <1>1 DEF PumpInv, RowsMatchSlots, NoneRetired, Live, LiveStates, RetiredStates,
     BatcherInv, BatcherTypeOK, States
<1>3. IsFiniteSet(Live) /\ Cardinality(Live) <= MaxSlots
  BY FS_Subset DEF Live, BatcherInv, PoolWithinCapacity
<1>4. IsFiniteSet(Live \ {r}) /\ Cardinality(Live \ {r}) = Cardinality(Live) - 1
  BY <1>2, <1>3, FS_RemoveElement
<1>5. IsFiniteSet(holders) /\ Cardinality(holders) <= Cardinality(Live \ {r})
  BY <1>2, <1>4, FS_Subset
<1>6. Cardinality(Rows) = MaxSlots
  BY FS_Interval DEF Rows
<1> SUFFICES ASSUME FreeRows = {} PROVE FALSE
  OBVIOUS
<1> DEFINE f == [q \in holders |-> row[q]]
<1>7. f \in Surjection(holders, Rows)
  <2>1. \A q \in holders : f[q] \in Rows
    BY DEF PumpInv, PumpTypeOK, Rows
  <2>2. ASSUME NEW i \in Rows
        PROVE  \E q \in holders : f[q] = i
    <3>1. PICK q \in Req : row[q] = i
      BY DEF FreeRows
    <3>2. q \in holders
      BY <3>1 DEF Rows
    <3> QED BY <3>1, <3>2
  <2>3. f \in [holders -> Rows]
    BY <2>1
  <2> QED BY <2>2, <2>3 DEF Surjection
<1>8. Cardinality(Rows) <= Cardinality(holders)
  BY <1>5, <1>7, FS_Surjection
<1>9. Cardinality(Live) \in Nat /\ Cardinality(holders) \in Nat
  BY <1>3, <1>5, FS_CardinalityType
<1> HIDE DEF holders, f
<1> QED BY <1>3, <1>4, <1>5, <1>6, <1>8, <1>9

(* admit finds a row whenever the pump asks for one: its error return, "a  *)
(* bookkeeping bug", is never taken by the engine's use of the pump.       *)
THEOREM PumpAdmits == PumpSpec => []AdmitFindsRow
<1>1. BatcherInv /\ PumpInv => AdmitFindsRow
  BY RowLeft DEF AdmitFindsRow, CanAdmit
<1> QED BY <1>1, PumpInvariance, PTL

(* Until something fails, each slot of a decode step has a record and a    *)
(* current token.                                                          *)
THEOREM PumpInputsReady == PumpSpec => []DecodeInputsReady
<1>1. BatcherInv /\ PumpInv => DecodeInputsReady
  BY DEF BatcherInv, BatcherTypeOK, InstructedSlots, PumpInv, CurrentKept, RecordsMatch,
     DecodeInputsReady, InputsReady
<1> QED BY <1>1, PumpInvariance, PTL

(* Until something fails, the KV cache of a row is exactly as long as what *)
(* its request has been through: restored prefix, chunks and tokens.       *)
THEOREM PumpKVMatches == PumpSpec => []KVMatchesHistory
<1>1. BatcherInv /\ PumpInv => KVMatchesHistory
  <2> SUFFICES ASSUME BatcherInv, PumpInv, phase = "rest", faults = 0, NEW r \in Req
               PROVE  /\ state[r] = "Prefilling" /\ row[r] # 0 =>
                           kv[row[r]] = PromptLen[r] - left[r]
                      /\ state[r] = "Decoding" =>
                           kv[row[r]] = PromptLen[r] + generated[r] - 1
    BY DEF KVMatchesHistory
  <2>1. /\ left[r] \in Nat /\ generated[r] \in Nat /\ PromptLen[r] \in Nat
        /\ row[r] # 0 => kv[row[r]] \in Nat
    BY BatcherAssumption DEF PumpInv, PumpTypeOK, Rows, BatcherInv, BatcherTypeOK
  <2>2. state[r] = "Decoding" => row[r] # 0
    BY DEF PumpInv, RowsMatchSlots
  <2> QED BY <2>1, <2>2 DEF PumpInv, KVInStep, Ahead
<1> QED BY <1>1, PumpInvariance, PTL

-----------------------------------------------------------------------------
(* The pump implements the abstract token stream. *)

(* A token delivered is one the stream still has room for.                 *)
LEMMA EmitSends ==
    ASSUME BatcherInv, PumpInv, EmitTokens
    PROVE  \E to \in SUBSET Req : Streams!Send(to)
<1> USE BatcherAssumption DEF PumpInv
<1> DEFINE to == {r \in batch : receiver[r] /\ HasRoom(r)}
<1>1. to \in SUBSET Req /\ \A r \in to : state[r] = "Decoding" /\ r \in records
  BY DEF EmitTokens, Deliver, BatcherInv, BatcherTypeOK, InstructedSlots, RecordsMatch
<1>2. \A r \in to : /\ receiver[r] /\ ending[r] = "none"
                    /\ accepted[r] < [q \in Req |-> Larger(MaxNew[q], 1)][r]
  <2> SUFFICES ASSUME NEW r \in to
               PROVE  /\ receiver[r] /\ ending[r] = "none"
                      /\ accepted[r] < Larger(MaxNew[r], 1)
    BY <1>1
  <2>1. accepted[r] <= generated[r]
    BY <1>1 DEF StreamInStep, EmitTokens, Deliver, BatcherInv, BatcherTypeOK
  <2>2. generated[r] < Larger(MaxNew[r], 1) /\ MaxNew[r] \in Nat
    BY <1>1 DEF BatcherInv, LengthLimit
  <2>3. accepted[r] \in Nat /\ generated[r] \in Nat /\ Larger(MaxNew[r], 1) \in Nat
    BY <1>1, <2>2 DEF PumpTypeOK, BatcherInv, BatcherTypeOK, Larger
  <2> QED BY <1>1, <2>1, <2>2, <2>3 DEF StreamInStep
<1>3. /\ accepted' = [r \in Req |-> IF r \in to THEN accepted[r] + 1 ELSE accepted[r]]
      /\ UNCHANGED <<receiver, ending>>
  BY DEF EmitTokens
<1> HIDE DEF to
<1> QED BY <1>1, <1>2, <1>3 DEF Streams!Send

(* Done is offered once, while the stream is open.                         *)
LEMMA DrainEnds ==
    ASSUME BatcherInv, PumpInv, NEW r \in Req, PumpDrainSlot(r)
    PROVE  [Streams!StreamNext]_<<receiver, accepted, ending>>
<1>1. r \in records => ending[r] = "none"
  BY DEF PumpInv, StreamInStep
<1>2. /\ UNCHANGED <<receiver, accepted>>
      /\ \/ ending' = ending
         \/ /\ receiver[r] /\ r \in records
            /\ \E how \in {"done", "lost"} : ending' = [ending EXCEPT ![r] = how]
  <2>1. ending \in [Req -> {"none", "done", "lost"}]
    BY DEF PumpInv, PumpTypeOK
  <2> QED BY <2>1 DEF PumpDrainSlot, DoneSent, DoneLost, NoDone, OffersDone
<1>3. CASE ending' # ending
  <2>1. Streams!End(r)
    BY <1>1, <1>2, <1>3 DEF Streams!End
  <2> QED BY <2>1 DEF Streams!StreamNext
<1> QED BY <1>2, <1>3

LEMMA StreamStep ==
    ASSUME BatcherInv, PumpInv, [PumpNext]_vars
    PROVE  [Streams!StreamNext]_<<receiver, accepted, ending>>
<1>1. CASE TickStep
  <2>1. CASE PumpFirstToken \/ PumpDecode
    BY <2>1, EmitSends DEF PumpFirstToken, PumpDecode, Streams!StreamNext
  <2>2. ASSUME NEW r \in Req, PumpDrainSlot(r)
        PROVE  [Streams!StreamNext]_<<receiver, accepted, ending>>
    BY <2>2, DrainEnds
  <2>3. CASE \/ PumpInstruct \/ PumpInputMissing \/ PumpDrainEnd
             \/ \E r \in Req : PumpPrefill(r)
             \/ \E kind \in [batch -> TokenKinds] : PumpAdvance(kind)
    BY <2>3 DEF PumpInstruct, PumpInputMissing, PumpDrainEnd, PumpPrefill, PumpAdvance,
           pumpVars
  <2> QED BY <1>1, <2>1, <2>2, <2>3 DEF TickStep
<1>2. CASE TickFails
  BY <1>2 DEF TickFails, PumpPrefillFails, PumpFirstTokenFails, PumpDecodeFails
<1>3. ASSUME NEW r \in Req, NEW hit \in Hits, PumpEnqueue(r, hit)
      PROVE  Streams!StreamNext
  BY <1>3 DEF PumpEnqueue, Streams!StreamNext, Streams!Open
<1>4. ASSUME NEW r \in Req, StreamEnds(r) \/ Disconnect(r)
      PROVE  Streams!StreamNext
  BY <1>4 DEF StreamEnds, Disconnect, CloseReceiver, Streams!StreamNext, Streams!Close
<1>5. ASSUME NEW r \in Req, Receive(r)
      PROVE  UNCHANGED <<receiver, accepted, ending>>
  BY <1>5 DEF Receive
<1>6. CASE UNCHANGED vars
  BY <1>6 DEF vars, pumpVars
<1> QED BY <1>1, <1>2, <1>3, <1>4, <1>5, <1>6 DEF PumpNext, ReceiverStep

(* Seen from its receiver, every request is one stream of at most          *)
(* max_new_tokens tokens that is over once and silent afterwards (enqueue, *)
(* emit_token and drain_retired of the pump).                              *)
THEOREM PumpImplementsStreams == PumpSpec => StreamRefinement
<1>1. PumpInit => Streams!StreamInit
  BY DEF PumpInit, Streams!StreamInit
<1>2. BatcherInv /\ PumpInv /\ [PumpNext]_vars
        => [Streams!StreamNext]_(Streams!streamVars)
  BY StreamStep DEF Streams!streamVars
<1> QED BY <1>1, <1>2, PumpInvariance, PTL DEF PumpSpec, StreamRefinement,
       Streams!StreamSpec

-----------------------------------------------------------------------------
(* The first events of a stream: try_send finds the channel full only when *)
(* it has taken Capacity events, however slow the reader is.               *)

(* A request whose receiver stays is not cancelled, and is sent whatever   *)
(* is emitted for it until the channel has taken Capacity events; one that *)
(* nobody knows has nothing left of it.                                    *)
Heard ==
    \A r \in Req :
        /\ receiver[r] => reason[r] # "Cancelled"
        /\ receiver[r] /\ r \in records =>
              /\ buffered[r] <= accepted[r]
              /\ accepted[r] = emitted[r] \/ Capacity <= accepted[r]
        /\ receiver[r] /\ r \notin records =>
              \/ ending[r] = "done" /\ accepted[r] = emitted[r]
              \/ Capacity <= Taken(r)
        /\ ~receiver[r] => accepted[r] = 0 /\ buffered[r] = 0
        /\ ~receiver[r] /\ r \notin records => emitted[r] = 0
        /\ state[r] = "none" => reason[r] # "Cancelled"

(* A full channel has taken Capacity events already (emit_token and        *)
(* drain_retired use try_send).                                            *)
LEMMA FullHasTaken ==
    ASSUME PumpInv, Heard, NEW r \in records, receiver[r]
    PROVE  /\ buffered[r] \in Nat /\ accepted[r] \in Nat /\ emitted[r] \in Nat
           /\ Capacity \in Nat
           /\ buffered[r] <= accepted[r]
           /\ accepted[r] = emitted[r] \/ Capacity <= accepted[r]
           /\ ~HasRoom(r) => Capacity <= accepted[r]
<1>1. r \in Req /\ buffered[r] \in Nat /\ accepted[r] \in Nat /\ emitted[r] \in Nat
  BY PumpAssumption DEF PumpInv, PumpTypeOK
<1>2. buffered[r] <= accepted[r] /\ (accepted[r] = emitted[r] \/ Capacity <= accepted[r])
  BY <1>1 DEF Heard
<1> QED BY <1>1, <1>2, PumpAssumption DEF HasRoom

(* emit_token for the batch: who listens gets the token, if its channel is *)
(* not full.                                                               *)
LEMMA EmitHeard ==
    ASSUME BatcherInv, PumpInv, Heard, EmitTokens
    PROVE  Heard'
<1> SUFFICES ASSUME NEW r \in Req PROVE
        /\ receiver'[r] => reason'[r] # "Cancelled"
        /\ receiver'[r] /\ r \in records' =>
              /\ buffered'[r] <= accepted'[r]
              /\ accepted'[r] = emitted'[r] \/ Capacity <= accepted'[r]
        /\ receiver'[r] /\ r \notin records' =>
              \/ ending'[r] = "done" /\ accepted'[r] = emitted'[r]
              \/ Capacity <= Taken(r)'
        /\ ~receiver'[r] => accepted'[r] = 0 /\ buffered'[r] = 0
        /\ ~receiver'[r] /\ r \notin records' => emitted'[r] = 0
        /\ state'[r] = "none" => reason'[r] # "Cancelled"
  BY DEF Heard
<1>1. /\ UNCHANGED <<records, receiver, ending>>
      /\ emitted'[r] = IF r \in batch THEN emitted[r] + 1 ELSE emitted[r]
      /\ buffered'[r] = IF r \in batch /\ receiver[r] /\ HasRoom(r)
                          THEN buffered[r] + 1 ELSE buffered[r]
      /\ accepted'[r] = IF r \in batch /\ receiver[r] /\ HasRoom(r)
                          THEN accepted[r] + 1 ELSE accepted[r]
      /\ reason'[r] = IF r \in batch /\ ~receiver[r] THEN "Cancelled" ELSE reason[r]
      /\ state'[r] = IF r \in batch /\ ~receiver[r] THEN "Cancelled" ELSE state[r]
  BY DEF EmitTokens, Deliver
<1>2. CASE r \notin batch
  BY <1>1, <1>2 DEF Heard, Taken
<1>3. CASE r \in batch
  <2>1. state[r] = "Decoding" /\ r \in records
    BY <1>3 DEF EmitTokens, Deliver, BatcherInv, InstructedSlots, PumpInv, RecordsMatch
  <2>2. CASE receiver[r]
    <3>1. reason[r] # "Cancelled"
      BY <2>2 DEF Heard
    <3> QED BY <1>1, <1>3, <2>1, <2>2, <3>1, FullHasTaken
  <2>3. CASE ~receiver[r]
    BY <1>1, <1>3, <2>1, <2>3 DEF Heard
  <2> QED BY <2>2, <2>3
<1> QED BY <1>2, <1>3

(* drain_retired: a request with a listener was not cancelled, and its     *)
(* Done is lost only when the channel has taken Capacity tokens.           *)
LEMMA DrainHeard ==
    ASSUME BatcherInv, PumpInv, Heard, NEW q \in Req, PumpDrainSlot(q)
    PROVE  Heard'
<1> USE DEF PumpInv, PumpTypeOK
<1>1. q \in records
  BY DEF PumpDrainSlot, DrainSlot, RetiredAt, RetiredStates, RecordsMatch
<1>2. receiver[q] <=> OffersDone(q)
  BY <1>1 DEF OffersDone, Heard
<1>3. /\ receiver' = receiver /\ accepted' = accepted
      /\ records' = records \ {q}
      /\ state' = [state EXCEPT ![q] = "none"]
      /\ reason' = [reason EXCEPT ![q] = "none"]
      /\ emitted' = [emitted EXCEPT ![q] = IF receiver[q] THEN @ ELSE 0]
      /\ DoneSent(q) \/ DoneLost(q) \/ NoDone(q)
  BY DEF PumpDrainSlot, DrainSlot
<1>4. /\ state \in [Req -> States] /\ reason \in [Req -> Reasons]
      /\ ending \in [Req -> {"none", "done", "lost"}] /\ buffered \in [Req -> 0..Capacity]
      /\ emitted \in [Req -> Nat]
  BY DEF BatcherInv, BatcherTypeOK
<1>5. ASSUME NEW r \in Req, r # q
      PROVE  /\ UNCHANGED <<receiver[r], accepted[r], state[r], reason[r], emitted[r],
                            buffered[r], ending[r]>>
             /\ r \in records' <=> r \in records
  BY <1>3, <1>4, <1>5 DEF DoneSent, DoneLost, NoDone
<1>6. /\ q \notin records' /\ state'[q] = "none" /\ reason'[q] = "none"
      /\ receiver[q] => emitted'[q] = emitted[q]
      /\ ~receiver[q] => emitted'[q] = 0 /\ buffered'[q] = buffered[q]
  BY <1>2, <1>3, <1>4 DEF NoDone, DoneSent, DoneLost
<1>7. ASSUME receiver[q]
      PROVE  \/ ending'[q] = "done" /\ accepted'[q] = emitted'[q]
             \/ Capacity <= Taken(q)'
  <2>1. CASE DoneSent(q)
    <3>1. ending'[q] = "done"
      BY <1>4, <2>1 DEF DoneSent
    <3> QED BY <1>1, <1>3, <1>6, <1>7, <3>1, FullHasTaken DEF Taken
  <2>2. CASE DoneLost(q)
    <3>1. ending'[q] = "lost"
      BY <1>4, <2>2 DEF DoneLost
    <3>2. Capacity <= accepted[q] /\ accepted[q] \in Nat
      BY <1>1, <1>7, <2>2, FullHasTaken DEF DoneLost
    <3> QED BY <1>3, <3>1, <3>2 DEF Taken
  <2> QED BY <1>2, <1>3, <1>7, <2>1, <2>2 DEF NoDone
<1>8. ASSUME NEW r \in Req, r # q
      PROVE  Taken(r)' = Taken(r)
  BY <1>5, <1>8 DEF Taken
<1> QED BY <1>3, <1>5, <1>6, <1>7, <1>8 DEF Heard

(* Nothing is sent or received, and nobody becomes unknown or cancelled.   *)
LEMMA HeardKept ==
    ASSUME Heard, UNCHANGED <<records, emitted, receiver, buffered, accepted, ending>>,
           \A r \in Req : /\ state'[r] = "none" => state[r] = "none"
                          /\ reason'[r] = "Cancelled" => reason[r] = "Cancelled"
    PROVE  Heard'
  BY DEF Heard, Taken

LEMMA TickHeard ==
    ASSUME BatcherInv, PumpInv, Heard, TickStep
    PROVE  Heard'
<1>0. state \in [Req -> States] /\ pending \in Seq(Req)
  BY DEF BatcherInv, BatcherTypeOK
<1>1. CASE PumpFirstToken \/ PumpDecode
  BY <1>1, EmitHeard DEF PumpFirstToken, PumpDecode
<1>2. ASSUME NEW r \in Req, PumpDrainSlot(r) PROVE Heard'
  BY <1>2, DrainHeard
<1>3. CASE PumpInstruct
  <2>1. \A r \in Req : state'[r] = "none" => state[r] = "none"
    BY <1>0, <1>3 DEF PumpInstruct, FillSlot, IssuePrefill, IssueDecode
  <2>2. UNCHANGED <<reason, records, emitted, receiver, buffered, accepted, ending>>
    BY <1>3 DEF PumpInstruct, FillSlot, IssuePrefill, IssueDecode, pumpVars
  <2> QED BY <2>1, <2>2, HeardKept
<1>4. ASSUME NEW r \in Req, PumpPrefill(r) PROVE Heard'
  <2>1. \A q \in Req : state'[q] = "none" => state[q] = "none"
    BY <1>0, <1>4 DEF PumpPrefill, AdvancePrefill
  <2>2. UNCHANGED <<reason, records, emitted, receiver, buffered, accepted, ending>>
    BY <1>4 DEF PumpPrefill, AdvancePrefill
  <2> QED BY <2>1, <2>2, HeardKept
<1>5. ASSUME NEW kind \in [batch -> TokenKinds], PumpAdvance(kind) PROVE Heard'
  <2>1. \A r \in Req : /\ state'[r] = "none" => state[r] = "none"
                       /\ reason'[r] = "Cancelled" => reason[r] = "Cancelled"
    BY <1>5 DEF PumpAdvance, AdvanceDecode, TokenKinds
  <2>2. UNCHANGED <<records, emitted, receiver, buffered, accepted, ending>>
    BY <1>5 DEF PumpAdvance, pumpVars
  <2> QED BY <2>1, <2>2, HeardKept
<1>6. CASE PumpInputMissing \/ PumpDrainEnd
  <2>1. UNCHANGED <<state, reason, records, emitted, receiver, buffered, accepted, ending>>
    BY <1>6 DEF PumpInputMissing, PumpDrainEnd, Abandon, DrainEnd, pumpVars
  <2> QED BY <2>1, HeardKept
<1> QED BY <1>1, <1>2, <1>3, <1>4, <1>5, <1>6 DEF TickStep

LEMMA EnqueueHeard ==
    ASSUME BatcherInv, PumpInv, Heard, NEW r \in Req, NEW hit \in Hits, PumpEnqueue(r, hit)
    PROVE  Heard'
<1>1. state[r] = "none" /\ ~receiver[r] /\ r \notin records
  BY DEF PumpEnqueue, Enqueue, PumpInv, RecordsMatch
<1>2. receiver \in [Req -> BOOLEAN] /\ state \in [Req -> States]
  BY DEF PumpInv, PumpTypeOK, BatcherTypeOK
<1>3. /\ receiver' = [receiver EXCEPT ![r] = TRUE] /\ records' = records \cup {r}
      /\ state' = [state EXCEPT ![r] = "queued"]
      /\ UNCHANGED <<accepted, emitted, buffered, ending, reason>>
  BY DEF PumpEnqueue, Enqueue
<1>4. ASSUME NEW q \in Req, q # r
      PROVE  /\ receiver'[q] = receiver[q] /\ state'[q] = state[q]
             /\ q \in records' <=> q \in records
             /\ Taken(q)' = Taken(q)
  BY <1>2, <1>3, <1>4 DEF Taken
<1>5. receiver'[r] /\ r \in records' /\ state'[r] = "queued"
  BY <1>2, <1>3
<1>6. /\ accepted'[r] = 0 /\ buffered'[r] = 0 /\ emitted'[r] = 0
      /\ reason'[r] # "Cancelled"
  BY <1>1, <1>3 DEF Heard
<1> QED BY <1>3, <1>4, <1>5, <1>6 DEF Heard

LEMMA ReaderHeard ==
    ASSUME PumpInv, Heard, NEW r \in Req, Receive(r) \/ StreamEnds(r) \/ Disconnect(r)
    PROVE  Heard'
<1>1. /\ buffered \in [Req -> 0..Capacity] /\ accepted \in [Req -> Nat]
      /\ emitted \in [Req -> Nat] /\ receiver \in [Req -> BOOLEAN]
      /\ ending \in [Req -> {"none", "done", "lost"}] /\ Capacity \in Nat
  BY PumpAssumption DEF PumpInv, PumpTypeOK
<1>2. CASE Receive(r)
  <2>1. /\ buffered' = [buffered EXCEPT ![r] = @ - 1] /\ receiver[r]
        /\ UNCHANGED <<state, reason, records, emitted, receiver, accepted, ending>>
    BY <1>2 DEF Receive, batcherVars
  <2>2. \A q \in Req : /\ q # r => buffered'[q] = buffered[q]
                       /\ Taken(q)' = Taken(q)
    BY <1>1, <2>1 DEF Taken
  <2>3. buffered[r] <= accepted[r] => buffered'[r] <= accepted[r]
    BY <1>1, <2>1
  <2> QED BY <2>1, <2>2, <2>3 DEF Heard
<1>3. CASE StreamEnds(r) \/ Disconnect(r)
  <2>1. /\ receiver' = [receiver EXCEPT ![r] = FALSE]
        /\ buffered' = [buffered EXCEPT ![r] = 0]
        /\ accepted' = [accepted EXCEPT ![r] = 0]
        /\ ending' = [ending EXCEPT ![r] = "none"]
        /\ emitted' = [emitted EXCEPT ![r] = IF r \in records THEN @ ELSE 0]
        /\ UNCHANGED <<state, reason, records>>
    BY <1>3 DEF StreamEnds, Disconnect, CloseReceiver, batcherVars
  <2>2. \A q \in Req : q # r =>
          /\ UNCHANGED <<receiver[q], buffered[q], accepted[q], ending[q], emitted[q]>>
          /\ Taken(q)' = Taken(q)
    BY <1>1, <2>1 DEF Taken
  <2>3. /\ ~receiver'[r] /\ accepted'[r] = 0 /\ buffered'[r] = 0
        /\ r \notin records => emitted'[r] = 0
    BY <1>1, <2>1
  <2> QED BY <2>1, <2>2, <2>3 DEF Heard
<1> QED BY <1>2, <1>3

LEMMA HeardStep ==
    ASSUME BatcherInv, PumpInv, Heard, [PumpNext]_vars
    PROVE  Heard'
<1>1. CASE TickStep
  BY <1>1, TickHeard
<1>2. CASE TickFails
  <2>1. UNCHANGED <<state, reason, records, emitted, receiver, buffered, accepted, ending>>
    BY <1>2 DEF TickFails, PumpPrefillFails, PumpFirstTokenFails, PumpDecodeFails, Abandon
  <2> QED BY <2>1, HeardKept
<1>3. ASSUME NEW r \in Req, NEW hit \in Hits, PumpEnqueue(r, hit) PROVE Heard'
  BY <1>3, EnqueueHeard
<1>4. ASSUME NEW r \in Req, Receive(r) \/ StreamEnds(r) \/ Disconnect(r) PROVE Heard'
  BY <1>4, ReaderHeard
<1>5. CASE UNCHANGED vars
  <2>1. UNCHANGED <<state, reason, records, emitted, receiver, buffered, accepted, ending>>
    BY <1>5 DEF vars, pumpVars, batcherVars
  <2> QED BY <2>1, HeardKept
<1> QED BY <1>1, <1>2, <1>3, <1>4, <1>5 DEF PumpNext, ReceiverStep

(* For every channel and every limit: a receiver that stays is sent at     *)
(* least the first Capacity events of its stream, or all of them if there  *)
(* are fewer, through failed steps and retries, however slowly it reads.   *)
THEOREM PumpFirstEvents == PumpSpec => []FirstEventsArrive
<1>1. PumpInit => Heard
  BY DEF PumpInit, BatcherInit, Heard
<1>2. BatcherInv /\ PumpInv /\ Heard /\ [PumpNext]_vars => Heard'
  BY HeardStep
<1>3. PumpInv /\ Heard => FirstEventsArrive
  <2> SUFFICES ASSUME PumpInv, Heard, NEW r \in Req, receiver[r]
               PROVE  \/ Taken(r) >= Capacity
                      \/ /\ accepted[r] = emitted[r]
                         /\ r \notin records => ending[r] = "done"
    BY DEF FirstEventsArrive
  <2>1. accepted[r] \in Nat /\ Capacity \in Nat
    BY PumpAssumption DEF PumpInv, PumpTypeOK
  <2>2. Taken(r) \in Nat /\ (r \in records => Taken(r) = accepted[r])
    BY <2>1 DEF Taken, PumpInv, StreamInStep
  <2> QED BY <2>1, <2>2 DEF Heard
<1> QED BY <1>1, <1>2, <1>3, PumpInvariance, PTL DEF PumpSpec
================================================================================
