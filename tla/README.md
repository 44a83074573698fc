# Verification of pmetal

pmetal is a Rust framework for training and serving language models on Apple
silicon.  Most of its source is numerical code: kernels, models, trainers,
file formats.  This directory models the parts of it that are reactive systems
or hold shared state through long sequences of calls, in TLA+: the inference
server (`pmetal-serve`), the paged KV cache (`pmetal-mlx`), the ring
collectives of distributed training (`pmetal-distributed`), the expert offload
of sparse models (`pmetal-models`, `pmetal-metal`) and the job manager of the
MCP server (`pmetal-mcp`).  TLC checks each model on small instances; TLAPS
proves the main safety properties for every value of the constants.

Paths without a directory are relative to `crates/pmetal-serve/src/`; the
others to `crates/`.

## 1. Inventory

### The server

| component | source | state | operations |
|---|---|---|---|
| scheduler | `continuous_batch.rs` | waiting queue `pending`, slot vector `slots` (state, progress, finish reason, reserved blocks) | `enqueue`, `cancel`, `next_instruction` (`fill_slots`), `advance_prefill`, `advance_decode`, `drain_retired` |
| pump | `continuous_pump.rs` | a `SlotRecord` per request: event sender, current token, restored prefix | `enqueue`, `cancel`, `tick` |
| driver state | `continuous_driver.rs` | `SlotIdxMap` (request to batch row), a KV cache and sampler per row | `admit`, `replace_cache`, `retire`, `drive_prefill_step`, `drive_decode_step` |
| prefix cache | `prefix_cache.rs` | entries (tokens, forked KV cache, stamp, bytes), byte total, clock, budgets | `find_longest_prefix`, `insert`, `evict_to_budget`, `clear` |
| engine | `engine.rs` | mutexes `model`, `continuous`, `prefix_cache`; the `ContinuousRuntime` (pump, shutdown flag, driver thread) | `generate`, `generate_streaming`, `generate_batched`, `enable_continuous_batching(_auto)`, `disable_continuous_batching`, driver loop |
| routes | `routes.rs`, `anthropic.rs`, `server.rs` | request permits (a semaphore) | chat, completions, messages: permit, `stream_tokens`, SSE response |
| wire format | `sse.rs`, `types.rs`, `error.rs` | none shared | formatting and detokenisation |

    handler task --permit--> stream_tokens --(continuous, pump)--> pump.enqueue --> scheduler.enqueue
         |                        \--(fallback)--> blocking thread --(model)--> decode loop
         |                                                    |
         +<------ bounded channel of TokenEvent <-------------+---- driver thread: (model, pump) tick
                                                                       |
                                        prefix cache <--(its mutex)----+ lookup at enqueue, insert after prefill

* Calls: routes call the engine, the engine the pump, the pump the scheduler
  and the driver state.
* Shared state behind mutexes: `model` (a whole single-path generation, or one
  tick), `continuous` (a dispatch, or the whole of disable), the pump's, the
  prefix cache's.
* Messages: one bounded channel (64 events in the code) for each request.  The
  single path sends with `blocking_send`, the pump with `try_send`.
* Threads: tokio workers (handlers and readers), tokio blocking threads (single
  path), the driver thread, whoever enables and disables batching.

### Outside the server

| component | source | state | operations |
|---|---|---|---|
| paged KV cache | `pmetal-mlx/src/kv_cache/paged.rs` | free list, free bits, free count; a block table per sequence; the blocks' arrays | `allocate_sequence`, `extend_sequence`, `free_sequence`, `reset`, `update`, `fetch` |
| ring collectives | `pmetal-distributed/src/ring.rs`, `transport.rs` | a socket to each neighbour, the barrier counter, the buffer being reduced | `all_reduce`, `barrier` |
| expert offload | `pmetal-models/src/expert_prefetch.rs`, `architectures/qwen3_next.rs`, `pmetal-metal/src/expert_buffer.rs` | the pool's queue of buffers; results, in-flight marks and generation of the prefetcher; the forward's place and buffers | I/O workers, `predict_and_prefetch`, `try_get`, `complete_prefetch`, `reset_pending`, `try_acquire`, `acquire_blocking`, `release` |
| job manager | `pmetal-mcp/src/jobs.rs` | per job: status, finish time, stop flag, child process, watcher task | `spawn`, `stop` with its escalation, `get_summary`, the watcher |

They meet the rest by plain calls: the trainer calls the ring, a model's
forward calls the prefetcher and the pool, tool handlers call the job manager.
The paged cache has one owner (`&mut self`); the server uses contiguous caches.

### What is hard, and what makes each component correct

| component | hard behaviour | correct when |
|---|---|---|
| scheduler | removal from the middle of both vectors, cancellation between any two calls, steps that fail half-way, admission out of order | every request is in one place, capacity and block budget hold, one prefill at a time, token limits are exact, nobody who fits is overtaken in the queue |
| pump, driver state | scheduler, rows, KV caches, records and channels change at different moments of a tick; slow or vanished readers; failed forwards | rows and slots agree, a KV cache is exactly the request's history, each request is one stream with one end, its first events reach whoever listens |
| prefix cache | forks outlive eviction, clearing and replacement; retried chunks; LRU over a vector that `swap_remove` shuffles | only a strict prefix of one's own prompt is restored, entries hold what their key says, budgets hold |
| engine, routes | three mutexes, blocking calls on async workers, disable racing with dispatch, a client that stops reading | one driver at a time, an accepted request is driven, every call returns, every response ends unless its pump never stops failing |
| paged KV cache | three views of one free list, partly filled last blocks, a loop over blocks behind one check | no block is lost or shared, a checked allocation succeeds, a sequence reads back what it wrote |
| ring collectives | a full-duplex exchange with bounded sockets, timeouts that leave tokens, half-read and half-written messages to the next call | nobody crosses a barrier early, a sum that is returned is whole, no circular wait |
| expert offload | reads that end after the forward that asked for them, a pool shared by readers and by the layer that runs, failures between acquire and release | no buffer is lost or used twice, one read per layer, a forward ends |
| job manager | child, watcher, stopping handler, escalation and summary meet in three separately locked cells | the recorded outcome is true, a summary is consistent, a stop ends the job |

`PROJECT.json` lists all components, with the reason for each that is left
out, and the hazards of the code, each at its line with the properties that
cover it.

## 2. Modules

    TokenStream            what a caller may rely on: one stream per request
       ^ implements (StreamRefinement)
    ContinuousPump         records, rows, KV lengths, channels
       EXTENDS
    ContinuousBatcher      the scheduler
    PrefixCache            the cache and the requests that use it
    ServeEngine            threads, mutexes, permits
    PagedKV                allocator, block tables, blocks
    RingBackend            barriers and all-reduces of N ranks over sockets
    ExpertPrefetch         I/O workers, buffer pool, forward passes
    McpJobs                children, watchers, stops, summaries

    *_proofs               theorems of each (TokenStream's are in ContinuousPump_proofs)
    MC*                    constants for TLC

### ContinuousBatcher

`state[r]` is the slot's `SlotState`, `"queued"` for a `PendingRequest` and
`"none"` for a request the scheduler does not know.  `slots` and `pending` keep
the order of the two vectors, because order decides who is served; `left` is
`prompt.len() - prefilled`; `generated` the length of the generated vector;
`reason` the finish reason.  `arrivals` is the order of `enqueued_at` of the
requests whose prefill has not begun.

One action is one call, except that the loops of `fill_slots` and
`drain_retired` take one iteration per step.  `phase` is the caller's place in
the protocol *next_instruction, advance, drain*; while it is not `"rest"` only
the next step of the protocol is possible, as under the pump's lock.

| action | code |
|---|---|
| `Enqueue`, `CancelSlot`, `CancelQueued` | `enqueue_with_reserved_tokens`, the two branches of `cancel` |
| `FillSlot`, `IssuePrefill`, `IssueDecode` | one iteration of `fill_slots`; promotion and the prefill or decode instruction |
| `AdvancePrefill`, `Deliver`, `AdvanceDecode` | `advance_prefill`; what the pump does with the sampled tokens, and its cancellation of slots whose receiver is gone; `advance_decode` |
| `Abandon` | the caller's tick returns an error between two calls |
| `DrainSlot`, `DrainEnd` | one `swap_remove` of `drain_retired`; its end |

`AdvanceDecode` is the release build: its `debug_assert_eq!` on the slot's
state is compiled out, and the code does hand it slots cancelled a moment
before (a debug build panics there).

### ContinuousPump

EXTENDS the scheduler and conjoins each of its actions with what the pump and
the driver state do at that point: `PumpPrefill` is `AdvancePrefill` with
admission, the seed from the prefix cache and the forward; `EmitTokens` is
`Deliver` with `emit_token` for each slot; `PumpDrainSlot` is `DrainSlot` with
`retire`, the removal of the record and the `Done` event, which the channel
takes (`DoneSent`), which is lost in a full channel (`DoneLost`), or which
nobody is there to get (`NoDone`).  The error returns of
`tick` are actions of their own: a failed prefill, first token or decode (the
last with the prefix of the slots whose caches it has grown), a missing decode
input.  The error of an admission that finds no row has no action, because
AdmitFindsRow shows that it cannot happen.  The receiver reads, sees the end of its stream or
disconnects at any moment between those steps.  Tokens are counts.  `kv[i]` is
the length of the KV cache in row i.

`ContinuousPump::cancel` is left out, because the engine throws away the slot
id it would need.  Called between ticks it would free a place in the pool and
keep the batch row; the next admission could then fail, and the tick that would
drain the slot with it.

### TokenStream

The abstract specification: a stream is opened, carries at most `Limit[r]`
tokens, is over once (its `Done` delivered or lost), and is closed.
`StreamRefinement` is its instance in ContinuousPump: `open` is `receiver`,
`sent` is `accepted`, `over` is `ending`, `Limit` is `max_new_tokens`, at least
one.

### PrefixCache

A KV cache is the sequence of tokens fed to it, so that a wrong restore shows
as a wrong sequence and not merely as a wrong length.  `Miss`/`Hit`, `Save` and
`Abort` are the life of one request on either path: lookup, prefill, insert.
`Save` may feed an initial part of the suffix twice, which is what the pump
does when it retries a chunk whose forward has failed.  `Evict` is one
iteration of `evict_to_budget`.  `uses` is a history variable: the keys
inserted and hit since the cache was made, in order, against which the stamps
are judged.

### ServeEngine

Program counters: `caller[r]` for the handler and then the response,
`thread[r]` for a generation thread, `driver[g]` for the driver of the g-th
runtime, `admin` for the thread that enables and disables batching.  Who holds
a mutex is read off the program counters (`ModelFree`, `ContinuousFree`).  A
handler inside `stream_tokens` occupies a worker thread, also while it waits
for a std mutex; `WorkerFree` says whether a reader or another handler can run.
`Respond` drops the permit, as the code does.  A tick is one step; what is
inside it is ContinuousPump's matter.  `DriverTick` is one that returns Ok: it
serves some of the pump's requests, all that decode or the one whose prefill
ends, with a token each, and with `Done` in the same tick after the last one.
`DriverFails` is the error branch of the driver: the tick has sent nothing and
advanced nothing (in ContinuousPump every failing step comes before
`EmitTokens`), and the driver tries again.  Ticks that only prefill a chunk are
not told apart; they are finitely many for each request.

### PagedKV

`free`, `isFree` and `freeCount` are the three fields of `BlockAllocator`,
`tables` and `live` the block tables, `store` the arrays with a key and its
value as one entry.  The methods take `&mut self`, so a call excludes every
other; within it blocks are taken and given back one per step, and `call` is
the method that is running with the blocks in its hands.  A call whose first
check fails changes nothing and has no action.  `written` is a history
variable: what each sequence last wrote at each position, against which `fetch`
(`Entry`) is judged.

| action | code |
|---|---|
| `Allocate`, `Extend`, `Take`, `Commit` | the checks of `allocate_sequence` and `extend_sequence`; one block of `allocate_n`; arrays, table and id |
| `FreeSequence`, `Free`, `FreeEnd`, `Reset`, `ResetSequence`, `ResetEnd` | `free_sequence`, one block of `free_all`, `reset` |
| `Update` | `update`, all its tokens or none |

### RingBackend

Every rank makes the calls of one program.  A call is 2(N-1) exchanges; in each
a rank sends to the right and receives from the left at the same time.  `Send`
starts the write, `Written` says that the peers have taken enough for it to be
over (`Buffered` messages fit in a socket), `Receive` takes a message of the
right length, `Advance` needs both halves.  `Mismatch` is the sequence check of
a token, which acknowledgements do not get.  `Timeout` and `WrongLength` end
the call with an error and leave in the sockets what the code leaves: the
message being written may or may not arrive, a message half-read stays as
`Torn`.  The training loop ends with the first error of any call.  The crate
hands the error of a barrier to its caller, though, and checks a sequence
number against what an earlier one left, so in the model the next call may
follow a failed barrier; none follows a failed reduction.

A chunk is, for each rank, how much of its contribution has been added.  The
abstractions: all chunks have one length, and it is not the 8 bytes of a token;
of a message out of step at least one read fails before the stream is aligned
again, and its bytes are never taken for a header of the right length; the
division of a mean and the compressed-gradient path are left out.

### ExpertPrefetch

Experts are counted, not named: what is in a buffer never changes, only whose
it is.  `free` is the pool's queue, `job[w]` what an I/O worker is at and the
buffers it has gathered, `pending` and `inflight` the prefetcher's maps,
`generation` its counter, and `mode`, `pc`, `layer`, `windows`, `want`, `held`
the forward.  A prompt reads ahead before each layer and runs it in windows; a
token reads ahead after each layer.  The lock of `pending`, the atomic
generation and the pool's queue are taken in separate steps, as in the code.
All layers are sparse, the pool is in use, and a worker that falls back gives
its buffers up in one step.

### McpJobs

Status, finish time and stop flag are three cells, written by the watcher task
and by `stop`, read by `get_summary`.  `Reap`, `Record`, `Finish` are the
watcher; `StopAccept`, `StopFlag`, `StopTerm`, `StopArm`, `Escalate` the stop
and what it leaves behind; `ViewStatus`, `ViewFinished` a summary.  The child
exits, dies or ignores SIGTERM as it likes.  A signal sent after the child was
reaped reaches nobody the manager knows.  Log lines, metrics and control files
are left out; the child leaves no grandchildren that keep its pipes open, and
waiting for a child does not fail.

## 3. Runs

| run | instance | shows |
|---|---|---|
| `batcher_safety` | 5 requests, 3 slots, queue 2, 4 blocks of 2 tokens, chunks of 2, prefix hits 0 or 1 | Conservation, PoolWithinCapacity, WithinBlockBudget, SerialPrefill, LengthLimit, PrefillOrder, with cancels and errors at every step |
| `batcher_starves` | 4 requests, 3 slots, no budget | EveryRequestStarts is **violated** |
| `pump_streams` | 3 requests, 2 rows, queue 1, 2 blocks of 5 tokens, channel 2, prefix hits 0 or 1, up to 2 faults | rows, KV lengths and records agree; the first events of a stream arrive and every stream implements TokenStream; every stream ends or a slot has been stranded |
| `pump_error_hangs` | 2 requests, 1 fault | EveryStreamEnds is **violated** |
| `prefix_reuse` | 2 requests, 4 prompts, 2 configurations, 3 budgets, 4 uses | RestoredIsPrefix, EntriesFaithful, BudgetsHold, EvictsLeastRecent |
| `engine_serves` | 2 requests of 2 tokens, 2 workers, pump of 2, channel 1, 2 runtimes | OneDriver, InFlightIsDriven, EveryCallReturns, ResponseEndsOrPumpFails, and the inductive invariant EngineInv |
| `engine_disable_hangs` | 2 requests of 2 tokens, 1 worker, pump of 1 | EveryCallReturns is **violated** |
| `paged_kv` | 3 blocks of 2 tokens, 2 sequences, up to 3 tokens, updates of up to 2 | BlocksAccounted, ReadsOwnWrites, and the inductive invariant PagedInv |
| `ring_collectives` | 3 ranks, two barriers, two all-reduces, sockets that hold nothing | BarrierHolds, SumsAreWhole, RingCompletes |
| `expert_prefetch` | 2 layers, top-2 of 4 experts, windows of 3 tokens, 2 workers, 3 forwards | PoolInv, OneOutstanding, EveryForwardEnds |
| `prefetch_hangs` | 2 layers, top-1 of 2 experts, windows of 2 tokens, 1 forward | EveryForwardEnds is **violated** |
| `mcp_jobs` | 2 jobs, 2 stops, 1 summary | JobsInv, SummaryAgrees, StopEnds |

### Why the bounds are enough

* Scheduler: three slots are the fewest in which `swap_remove` puts a waiting
  request behind one that came later, and five requests fill the pool and the
  queue at once or leave one to arrive while others retire.  They differ in
  prompt length, in limit (0, 1, 2) and in blocks, so that the head of the queue
  can be blocked by the budget while a smaller request behind it is admitted:
  both exceptions of `PrefillOrder` occur, and TLC refutes it without either.
  Four requests fit the budget, so that the pool is bounded by its slots and not
  by its blocks.
  Prompts longer than a chunk give prefills of several steps.
* Pump: one request more than rows, so rows are reused; two of the requests fit
  the block budget together and the third is larger than all of it, so that the
  clamp to the budget matters.  The channel holds two events and the longest
  stream has three, so that a reader which is late loses a token or `Done`.  Two
  faults allow an error, a retry and a second error.
* Names are reused: a request that has left may come back, so runs are endless
  although `Req` is finite.
* Prefix cache: the prompts are three turns of one conversation and a fork of
  it; one budget allows two entries and any bytes, one three entries and four
  bytes, one disables the cache.  Four uses are enough to insert twice, hit, and
  evict.
* Engine: each of a request's calls can meet batching disabled, enabled, being
  disabled and enabled again with a second driver.  The pump takes both
  requests, so that a tick may serve one and not the other; a full pump and the
  fall-back to the single path are met in `engine_disable_hangs`.  Failing ticks
  need no bound.
* Paged cache: three blocks of two tokens let two sequences of one and two
  blocks fill the pool, extend within and beyond a partly filled block, fail
  the count check, and reuse a freed block with its old contents.  A constraint
  keeps the entries that were written to three at a time; two values tell what
  was written from what another sequence wrote.
* Ring: three ranks are the fewest for which a token passes a rank that is
  neither its sender nor its reader and for which a chunk is both reduced and
  forwarded.  A barrier that fails, one that is then tried, and a reduction
  behind both meet every kind of leftover, the next reduction's chunks
  included.  `Buffered = 0` is the hardest case for a circular wait.
* Expert offload: three tokens in a window and top-2 of four experts give a
  pool of six for at most four routed ones, so that a result of two buffers may
  be pinned.  Three forwards let a read outlive the forward that asked for it
  and the reset, and meet a new request for its layer.
* Jobs: two concurrent stops of one job, or of two; a summary between any two
  steps.
* `MaxFaults`, `MaxClock`, `MaxRuntimes`, `MaxForwards`, `MaxUpdate` are the only
  bounds that the code does not have; they end a run after that many failures,
  cache uses, enables and forwards, and bound the tokens of one update.
  `MaxTokens` and `MaxId` stand for the largest integers of the code, made small
  enough to be reached.

### Violations

Four properties state what a comment of the code says and the code does not
do; `PROJECT.json` quotes the lines.

* `batcher_starves`: `continuous_batch.rs:4` speaks of "a slot pool with FIFO
  queuing", in which a request "waits until a slot is free" (24).  With three
  slots one that is in the pool can be passed over for ever: `drain_retired`
  moves the last slot to the place of the retired one (537), and the scan from
  the front promotes it first.  The server's default is eight slots.
  `PrefillOrder` is what is left of the order, for every number of slots.
* `pump_error_hangs`: one failed sampling of a first token stops all decoding
  without an `Error`.  `StreamsEndOrStrand` shows in `pump_streams` that nothing
  else holds a stream up.
* `engine_disable_hangs`: disabling batching can deadlock when as many handlers
  wait as there are workers.
* `prefetch_hangs`: the buffers read ahead for the next layer can be the ones
  for which the running layer waits.

### Known disagreements

Found while modelling, modelled as the code does it, and without a run:

* A batched stream shows the stop token, because the pump emits a token before
  the scheduler looks at it (`continuous_pump.rs:508`); the single path does
  not, and `engine.rs:868-869` says that the two mirror each other.
* Token and Done are offered with `try_send` (`continuous_pump.rs:573`): a
  reader that falls behind by more than the channel holds loses events, where
  `enqueue` promises one `Token` per token and exactly one end (169-171).  In
  `pump_streams` this happens, to tokens and to `Done` (`DoneLost`);
  `FirstEventsArrive` says how much of the promise is kept.
* The permit of a streaming request is dropped when the response has been built
  (`routes.rs:557`), so `max_concurrent`, "Maximum concurrent requests."
  (`server.rs:20`), does not limit the responses being streamed.

## 4. Fairness

* `BatcherFairSpec`: weak fairness of the scheduler's steps.  The driver loop
  ticks for ever (`run_continuous_driver`); enqueues are not fair, and only
  `Deliver` cancels.  `EveryRequestStarts` is refuted under it, by requests that
  keep arriving, not by a scheduler that stops.
* `PumpFairSpec`: the same for the tick, plus weak fairness of receivers, which
  are tasks that read until the stream ends.  Nothing is assumed about
  failures.  `StreamsEndOrStrand` is about runs in which requests stop
  arriving: a prefill always goes before a decode, so endless arrivals may keep
  decodes waiting by design.
* `EngineFairSpec`: weak fairness of threads and tasks that can run, including
  the readers: a client that stays goes on reading.  Strong fairness of the
  steps that take a contended mutex (`HandlerStep`, `LockModel`, `DriverLock`).
  `std::sync::Mutex` is not fair; the driver yields after each tick and sleeps
  when idle so that others can take the model, and callers hold `continuous`
  for an enqueue only.  The liveness results stand on that assumption.
  Requests, disconnects, enable and disable are not forced to happen; once
  begun, enable and disable go on.  The driver goes on ticking, and nothing is
  assumed of its ticks: every one may fail.  `ResponseEndsOrPumpFails` therefore
  excepts the stream whose pump fails again and again and keeps it for ever,
  which `pump_error_hangs` shows to happen, and no other.
* `RingSpec`: weak fairness of each rank.  Timeouts are never forced;
  `RingCompletes` is about runs in which no call fails.
* `PrefetchSpec`: weak fairness of the I/O workers and of the forward, which
  are threads of the operating system.  New forwards are not forced.
  `EveryForwardEnds` is about runs that have lost no buffer, since a failed
  encode drops the buffers it held outside the pool and the pool does not grow.
* `JobsSpec`: weak fairness of the watcher, the escalation, a stop once
  accepted, and the delivery of SIGKILL.  Nothing makes a child exit or heed
  SIGTERM.

## 5. Proofs

All proof modules go the same way: the property is part of an inductive
invariant, the initial state satisfies it, every action preserves it, one step
of the proof for each action, and PTL combines the rest.  The only assumptions
are those on the constants (`BatcherAssumption`, `PumpAssumption`,
`PrefixAssumption`, `EngineAssumption`, `PagedAssumption`, `RingAssumption`,
`PrefetchAssumption`), which TLC evaluates in the runs.

**ContinuousBatcher_proofs**, for any set of requests and any configuration:
`BatcherInvariance` and from it `BatcherTypeCorrect`, `BatcherConserves`,
`BatcherBounded`, `BatcherSerial`, `BatcherRespectsLength` and
`BatcherWithinBudget`.  None of these properties is inductive on its own.  `LengthLimit` needs `GeneratedSoFar`
(nothing is generated before the prefill ends) and `InstructedSlots` (the slots
handed to `advance_decode` still decode, or have just been cancelled);
`PoolWithinCapacity` needs `Conservation` to know that a filled slot was not
live before; `SerialPrefill` needs the same to know that the slot being promoted
is in the pool.  The lemmas on sequences say what `RemoveAt`, `Without` and
`SwapRemove` keep: no element is lost but the one removed, and none is doubled.
The sum of the reserved blocks is written as a cardinality, that of the pairs
of a live request and a number up to what it reserves (`BlocksOf`): with a sum
over a set the budget would need induction over that set; with pairs, admitting
a request adds a set disjoint from the others, of the size the admission
compared.

`BatcherPrefillOrder` is `PrefillOrder`, for any number of slots, any budget and
any requests.  The invariant (`OrderInv`) relates two sequences and the states:
`arrivals` lists exactly those who wait, each once; of two that wait in the queue
the one that came first stands first; and one in the queue that came before one
in the pool reserves more blocks.  It was stepped over when that one was
admitted, and the admission takes the first that fits (`SteppedOver`).  The order of
two elements in a sequence is `Before`; its lemmas say what `push_back`,
`remove` and `swap_remove` do to it.

**ContinuousPump_proofs**.  `PumpSchedules`: each step of the pump is a step of
the scheduler or leaves its variables alone, hence `PumpSpec => BatcherSpec` and
every theorem above holds of the composition.  On top of `BatcherInv` the pump's
own invariant gives `PumpTypeCorrect`, `PumpRowsMatch`, `PumpAdmits`,
`PumpInputsReady` and `PumpKVMatches`.  `PumpAdmits` is a counting argument: the
requests that hold rows are in the pool, so a request that has just been put
there leaves a row for itself.  `PumpImplementsStreams` is the refinement of
TokenStream, action by action.  `PumpFirstEvents` is `FirstEventsArrive`, for
every channel and every length of answer: a channel never holds more than it has
taken, so a `try_send` that finds it full comes after Capacity events
(`FullHasTaken`), and no request with a receiver is ever cancelled (`Heard`).

**PrefixCache_proofs**: `PrefixInvariance`, `PrefixTypeCorrect`,
`PrefixRestores`, `PrefixFaithful`, `PrefixBudgets`, `PrefixEvictsLeastRecent`.
The invariant is types, restored prefixes, faithful entries and stamps: an entry
is faithful only because a request that repeats a chunk is not saved when its
cache is longer than its prompt, and stamps are distinct only because they are
all in the past.  For the budgets it is joined by `Counted`: at any time, inside
the mutex too, `total` is the number of bytes of the entries, a byte being an
entry and a number; that `saturating_sub` never saturates follows from it.  For
the order of eviction, by `Logged`: the clock is the length of the history, and
an entry's stamp is the place of the last use of its key.

**ServeEngine_proofs**: `EngineInvariance` and from it `EngineTypeCorrect`,
`EngineOneDriver` and `EngineDrivesRequests`.  The strengthening is
`DriverInPlace`, only the runtime in place has a live driver and that driver
ends only while disable joins it, and `RequestsInPlace`, whoever is about to
enqueue holds `continuous` and thereby keeps disable out.

**PagedKV_proofs**: `PagedInvariance`, `PagedAccounted`, `PagedReads`.
`CallShape` says what a running call was promised: the blocks it still needs are
no more than the free ones, so `Take` never runs dry; `TablesFit` ties a table's
length to its tokens, without which `extend_sequence` would ask for too few.

**RingBackend_proofs**, for every world size, program and socket size:
`RingInvariance`, `BarrierSeparates` and `ReductionsWhole`.  A token with hop h has passed h ranks
that had begun its barrier (`TokensVouch`).  The hop is not in the message; that
a rank which takes its h-th token takes one with at least h hops follows from
the order of tokens in a socket (`TokensInOrder`) and from what a neighbour may
still send (`TokensBehind`, `TokensNeeded`, `NeighbourAhead`), through lost and
torn messages.

`ReductionsWhole` is `SumsAreWhole`.  Chunks carry no number, so what a rank
meets depends on how many messages have gone before, which the state does not
tell; the invariant (`Explained`) says that a `History` exists which explains
the state: how many messages each rank has put that were not lost, and for each
of its calls how many it had put and had taken when the call began.  By that
count every chunk in a socket belongs to an exchange of a call (`Placed`).
Three facts about the counts make the sums right.  A rank has taken no more than
it had put when it begins a call (`Surplus`), since every exchange puts first.  A
rank that has made h exchanges of an all-reduce met chunks of that call only, so
the h ranks to its left have begun it, each with no more messages put than the
ranks between had taken (`Linked`); after N of the 2(N-1) exchanges this chain
goes all the way round, and with the surplus no inequality in it can be strict
(`LinkedRound`).  So no message was on its way when a call began that any rank
ends with Ok (`Aligned`), every chunk met in it was the one of its exchange
(`Meets`), and the buffers hold the partial sums the step says (`BuffersRight`,
`Width`).  A rank that ate a chunk in a barrier, or lost one in a time-out,
breaks the alignment of the calls behind it, and no rank gets round in them.

**ExpertPrefetch_proofs**: `PrefetchOutstanding` and `PoolAccounted`.  A mark in
`inflight` for the current generation belongs to one claim, in the queue or with
a worker, and a worker of an earlier generation cannot clear it.  The buffers of
the pool are accounted for because a worker has gathered all of a result or none
when it stops reading (`JobsWhole`), and because the forward holds buffers only
between load and release (`ForwardHolds`); TLC checks the same conjunction,
`PoolInv`.

**McpJobs_proofs**: `JobsInvariance` and `SummariesAgree`.  The second needs
that the finish time is written under the guard of the status, and that a
summary which has read a terminal status read it after that guard was dropped.

**Checked by TLC only.**  Liveness under fairness, which is out of the prover's
reach: `StreamsEndOrStrand`, `EveryCallReturns`, `ResponseEndsOrPumpFails`,
`RingCompletes`, `EveryForwardEnds`, `StopEnds`, and the refutation of
`EveryRequestStarts` and `EveryStreamEnds`.  Every
invariant and every action property that a passing run checks is a theorem.

## 6. Not modelled

* Of the server: values of tokens, logits and samplers; formatting; panics and
  poisoned mutexes; `embed`; the ANE and CPU-hybrid paths; the fused decode
  step, which nothing calls; `ContinuousPump::cancel`, which the engine cannot
  call because it throws the slot id away; metrics.  The pump's lookups and the
  prefix cache are separate modules: ContinuousPump takes the length of a hit
  from `Hits`, PrefixCache shows what such a hit may be.
* Of the paged cache: statistics, which only read.  Of the ring: connecting,
  compression, means.  Of the expert offload: shutdown of the workers, dense
  layers, reads without a pool.  Of the jobs: logs, metrics, control files.
* Election and health (`pmetal-distributed/src/election.rs`, `health.rs`):
  exported by the crate and called by nothing in the repository, so which
  messages reach it, from whom and in what order is not to be read from the
  source.  The collectives of `auto.rs` and `collective.rs` are variants of the
  ring without its sequence numbers and timeouts.
* Checkpoints (`pmetal-trainer/src/checkpoint.rs`): files in a directory.
* The contiguous KV caches (`pmetal-mlx/src/kv_cache/`): tensor code of one
  owner; their lengths and sizes appear in ContinuousPump and PrefixCache.
* Models, kernels, quantisation, trainers, distillation, merging, data loading,
  hub downloads, CLI, GUI and bindings, which are most of the 380,000 lines.
  They compute over tensors, move files or draw a screen; their state is one
  owner's and their errors are numerical, which a state machine over small
  sets does not show.  The share of the lines that the map covers is
  small for that reason: it is a large part of the code above it and none of
  this.

## 7. What could follow

* Panics in ServeEngine, once the calls that may panic are known: a poisoned
  model mutex ends the driver, and the pump goes on accepting requests.
* The election, if a trainer comes to use it.
