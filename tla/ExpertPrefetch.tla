---------------------------- MODULE ExpertPrefetch ----------------------------
(***************************************************************************)
(* Expert weights read ahead for the sparse layers of an offloaded model:  *)
(* the prefetcher and its I/O workers (pmetal-models, expert_prefetch.rs), *)
(* the pool of aligned buffers all layers share (pmetal-metal,             *)
(* expert_buffer.rs) and the forward pass that takes from both             *)
(* (architectures/qwen3_next.rs).  Experts are counted, not named: what is *)
(* in a buffer never changes, whose buffer it is does.                     *)
(***************************************************************************)
EXTENDS Integers, Sequences, FiniteSets, FiniteSetsExt

CONSTANTS
    L,            \* sparse layers
    K,            \* top_k
    Experts,      \* num_experts
    Window,       \* prefill_expert_window_tokens
    Windows,      \* windows of a prompt
    Workers,      \* prefetch-io threads
    MaxForwards   \* bound on the forward passes

ASSUME PrefetchAssumption ==
    /\ {L, K, Experts, Window, Windows} \subseteq Nat \ {0}
    /\ MaxForwards \in Nat
    /\ K <= Experts
    /\ IsFiniteSet(Workers)

Layers == 1..L

\* ExpertBufferPoolConfig.total_buffers for required_pool_buffers.
Total == 2 * ((Window * K + 1) \div 2)

VARIABLES
    free,        \* buffers in the pool's queue
    lost,        \* buffers dropped outside the pool
    generation,  \* counts the calls of reset_pending
    pending,     \* [Layers -> {"none", "raw", "aligned"}]: results not yet taken
    inflight,    \* [Layers -> generation, or -1]
    queue,       \* Seq([layer, gen]): requests no worker has taken
    job,         \* [Workers -> [layer, gen, got, stage]]
    mode,        \* "rest", or the kind of forward: "prefill", "decode"
    pc,          \* where the forward is
    layer,       \* the layer it runs
    windows,     \* windows the layer has still to run
    want,        \* buffers it has still to acquire
    held,        \* buffers it holds
    forwards     \* forwards begun

poolVars    == <<free, lost>>
sharedVars  == <<generation, pending, inflight, queue>>
forwardVars == <<mode, pc, layer, windows, want, held, forwards>>
prefetchVars == <<poolVars, sharedVars, job, forwardVars>>

NoJob == [layer |-> 0, gen |-> 0, got |-> 0, stage |-> "idle"]

PrefetchInit ==
    /\ free = Total
    /\ lost = 0
    /\ generation = 0
    /\ pending = [l \in Layers |-> "none"]
    /\ inflight = [l \in Layers |-> -1]
    /\ queue = <<>>
    /\ job = [w \in Workers |-> NoJob]
    /\ mode = "rest"
    /\ pc = "rest"
    /\ layer = 1
    /\ windows = 0
    /\ want = 0
    /\ held = 0
    /\ forwards = 0

\* The buffers that go back when the result for layer l is dropped.
InResult(l) == IF pending[l] = "aligned" THEN K ELSE 0

\* The layers whose result holds buffers.
Waiting == {l \in Layers : pending[l] = "aligned"}

(***************************************************************************)
(* The I/O workers.                                                        *)
(***************************************************************************)
TakeJob(w) ==
    /\ job[w] = NoJob
    /\ queue # <<>>
    /\ job' = [job EXCEPT ![w] = [layer |-> Head(queue).layer, gen |-> Head(queue).gen,
                                  got |-> 0, stage |-> "acquire"]]
    /\ queue' = Tail(queue)
    /\ UNCHANGED <<poolVars, generation, pending, inflight, forwardVars>>

Moves(w, stage, got) == job' = [job EXCEPT ![w].stage = stage, ![w].got = got]

\* try_acquire, once for each expert.
AcquireOne(w) ==
    /\ job[w].stage = "acquire"
    /\ job[w].got < K
    /\ free > 0
    /\ free' = free - 1
    /\ Moves(w, "acquire", job[w].got + 1)
    /\ UNCHANGED <<lost, sharedVars, forwardVars>>

\* The buffers gathered before the pool ran dry are kept out of it.
GivenUpNone(w) == free

GivenUp(w) == free + job[w].got

\* The pool is empty, or the read into the buffers failed.
FallBack(w) ==
    /\ job[w].stage = "acquire"
    /\ free = 0 \/ job[w].got = K
    /\ free' = GivenUp(w)
    /\ Moves(w, "raw", 0)
    /\ UNCHANGED <<lost, sharedVars, forwardVars>>

ReadDone(w) ==
    /\ \/ job[w].stage = "acquire" /\ job[w].got = K
       \/ job[w].stage = "raw"
    /\ Moves(w, "check", job[w].got)
    /\ UNCHANGED <<poolVars, sharedVars, forwardVars>>

\* A worker clears whatever is in flight for its layer.
ClearedAny(w) == [inflight EXCEPT ![job[w].layer] = -1]

Cleared(w) ==
    [inflight EXCEPT ![job[w].layer] = IF @ = job[w].gen THEN -1 ELSE @]

ReadFails(w) ==
    /\ job[w].stage = "raw"
    /\ inflight' = Cleared(w)
    /\ job' = [job EXCEPT ![w] = NoJob]
    /\ UNCHANGED <<poolVars, generation, pending, queue, forwardVars>>

(* complete_prefetch reads the generation before it takes the lock of      *)
(* pending: a reset may come in between.                                   *)
CheckGeneration(w) ==
    /\ job[w].stage = "check"
    /\ IF generation = job[w].gen
         THEN Moves(w, "insert", job[w].got) /\ UNCHANGED free
         ELSE Moves(w, "clear", 0) /\ free' = free + job[w].got
    /\ UNCHANGED <<lost, sharedVars, forwardVars>>

\* A result that is replaced takes its buffers with it.
ReplacedKept(l) == 0

Replaced(l) == InResult(l)

Insert(w) ==
    /\ job[w].stage = "insert"
    /\ free' = free + Replaced(job[w].layer)
    /\ pending' = [pending EXCEPT ![job[w].layer] = IF job[w].got = K THEN "aligned" ELSE "raw"]
    /\ Moves(w, "clear", 0)
    /\ UNCHANGED <<lost, generation, inflight, queue, forwardVars>>

ClearInflight(w) ==
    /\ job[w].stage = "clear"
    /\ inflight' = Cleared(w)
    /\ job' = [job EXCEPT ![w] = NoJob]
    /\ UNCHANGED <<poolVars, generation, pending, queue, forwardVars>>

WorkerStep(w) ==
    \/ TakeJob(w) \/ AcquireOne(w) \/ FallBack(w) \/ ReadDone(w) \/ ReadFails(w)
    \/ CheckGeneration(w) \/ Insert(w) \/ ClearInflight(w)

(***************************************************************************)
(* The forward pass.  A prompt reads ahead before each layer and ends with *)
(* reset_pending, a single token reads ahead after each layer.             *)
(***************************************************************************)
Begin(kind) ==
    /\ mode = "rest"
    /\ forwards < MaxForwards
    /\ forwards' = forwards + 1
    /\ mode' = kind
    /\ pc' = IF kind = "prefill" THEN "predict" ELSE "get"
    /\ layer' = 1
    /\ windows' = IF kind = "prefill" THEN Windows ELSE 1
    /\ UNCHANGED <<poolVars, sharedVars, job, want, held>>

\* predict_and_prefetch: one outstanding request for a layer.
Requested(l) ==
    IF inflight[l] = generation THEN UNCHANGED <<inflight, queue>>
    ELSE /\ inflight' = [inflight EXCEPT ![l] = generation]
         /\ queue' = Append(queue, [layer |-> l, gen |-> generation])

Predict ==
    /\ pc = "predict"
    /\ IF layer < L THEN Requested(layer + 1) ELSE UNCHANGED <<inflight, queue>>
    /\ pc' = IF mode = "prefill" THEN "get" ELSE "next"
    /\ UNCHANGED <<poolVars, generation, pending, job, mode, layer, windows, want, held,
                   forwards>>

\* Distinct experts that the tokens of a step may be routed to.
Routed == IF mode = "decode" THEN {K} ELSE K..Min({Window * K, Experts})

\* How many of n routed experts may be among the K predicted ones.
Hits(n) == Max({0, n + K - Experts})..Min({n, K})

(* try_get: the hits are taken, the rest of the result goes back to the    *)
(* pool.  A miss and a hit that was read without the pool need a buffer.   *)
TryGet ==
    /\ pc = "get"
    /\ \E n \in Routed : \E hits \in Hits(n) :
          LET taken == IF pending[layer] = "aligned" THEN hits ELSE 0
          IN  /\ held' = taken
              /\ want' = n - taken
              /\ free' = free + InResult(layer) - taken
    /\ pending' = [pending EXCEPT ![layer] = "none"]
    /\ pc' = "acquire"
    /\ UNCHANGED <<lost, generation, inflight, queue, job, mode, layer, windows, forwards>>

\* acquire_blocking.
Acquire ==
    /\ pc = "acquire"
    /\ want > 0
    /\ free > 0
    /\ free' = free - 1
    /\ held' = held + 1
    /\ want' = want - 1
    /\ UNCHANGED <<lost, sharedVars, job, mode, pc, layer, windows, forwards>>

Stops == mode' = "rest" /\ pc' = "rest"

LoadFails ==
    /\ pc = "acquire"
    /\ want = 0
    /\ free' = free + held
    /\ held' = 0
    /\ Stops
    /\ UNCHANGED <<lost, sharedVars, job, layer, windows, want, forwards>>

\* An error between load and release: `?' drops the buffers, not to the pool.
EncodeFails ==
    /\ pc = "acquire"
    /\ want = 0
    /\ lost' = lost + held
    /\ held' = 0
    /\ Stops
    /\ UNCHANGED <<free, sharedVars, job, layer, windows, want, forwards>>

\* The experts have run; what they held is released.
Run ==
    /\ pc = "acquire"
    /\ want = 0
    /\ free' = free + held
    /\ held' = 0
    /\ windows' = windows - 1
    /\ pc' = IF windows > 1 THEN "get" ELSE IF mode = "prefill" THEN "next" ELSE "predict"
    /\ UNCHANGED <<lost, sharedVars, job, mode, layer, want, forwards>>

NextLayer ==
    /\ pc = "next"
    /\ IF layer < L
         THEN /\ layer' = layer + 1
              /\ windows' = IF mode = "prefill" THEN Windows ELSE 1
              /\ pc' = IF mode = "prefill" THEN "predict" ELSE "get"
              /\ UNCHANGED mode
         ELSE /\ IF mode = "prefill" THEN pc' = "bump" /\ UNCHANGED mode ELSE Stops
              /\ UNCHANGED <<layer, windows>>
    /\ UNCHANGED <<poolVars, sharedVars, job, want, held, forwards>>

\* reset_pending: the generation, the results, the marks.
Bump ==
    /\ pc = "bump"
    /\ generation' = generation + 1
    /\ pc' = "drop"
    /\ UNCHANGED <<poolVars, pending, inflight, queue, job, mode, layer, windows, want, held,
                   forwards>>

DropResults ==
    /\ pc = "drop"
    /\ free' = free + K * Cardinality(Waiting)
    /\ pending' = [l \in Layers |-> "none"]
    /\ pc' = "forget"
    /\ UNCHANGED <<lost, generation, inflight, queue, job, mode, layer, windows, want, held,
                   forwards>>

ForgetInflight ==
    /\ pc = "forget"
    /\ inflight' = [l \in Layers |-> -1]
    /\ Stops
    /\ UNCHANGED <<poolVars, generation, pending, queue, job, layer, windows, want, held,
                   forwards>>

ForwardStep ==
    \/ Predict \/ TryGet \/ Acquire \/ LoadFails \/ EncodeFails \/ Run \/ NextLayer
    \/ Bump \/ DropResults \/ ForgetInflight

\* No forward is wanted and no read is under way.
Quiet ==
    /\ mode = "rest" /\ forwards = MaxForwards
    /\ queue = <<>> /\ \A w \in Workers : job[w] = NoJob
    /\ UNCHANGED prefetchVars

PrefetchNext ==
    \/ \E w \in Workers : WorkerStep(w)
    \/ \E kind \in {"prefill", "decode"} : Begin(kind)
    \/ ForwardStep
    \/ Quiet

\* The threads run.
PrefetchSpec ==
    /\ PrefetchInit /\ [][PrefetchNext]_prefetchVars
    /\ WF_prefetchVars(ForwardStep)
    /\ \A w \in Workers : WF_prefetchVars(WorkerStep(w))

(***************************************************************************)
(* Properties.                                                             *)
(***************************************************************************)
Job == [layer : 0..L, gen : Nat, got : 0..K,
        stage : {"idle", "acquire", "raw", "check", "insert", "clear"}]

(* The type invariant of the prefetcher and the forward.                   *)
PrefetchTypeOK ==
    /\ free \in 0..Total /\ lost \in 0..Total /\ want \in Nat /\ held \in Nat
    /\ generation \in Nat
    /\ pending \in [Layers -> {"none", "raw", "aligned"}]
    /\ inflight \in [Layers -> Nat \cup {-1}]
    /\ queue \in Seq([layer : Layers, gen : Nat])
    /\ job \in [Workers -> Job]
    /\ mode \in {"rest", "prefill", "decode"}
    /\ pc \in {"rest", "predict", "get", "acquire", "next", "bump", "drop", "forget"}
    /\ layer \in Layers /\ windows \in 0..Windows /\ forwards \in 0..MaxForwards

\* The buffers the workers have gathered, each named by its worker.
Gathered == {b \in Workers \X (1..K) : b[2] <= job[b[1]].got}

(* Every buffer of the pool is in its queue, with a worker, in a result    *)
(* that waits, with the layer that runs, or was dropped by a failed        *)
(* forward: reads that fail half-way, results that are replaced, stale,    *)
(* mispredicted or reset lose none and free none twice.                    *)
BuffersAccounted ==
    free + held + lost + K * Cardinality(Waiting) + Cardinality(Gathered) = Total

(* A worker holds buffers only while it reads, all of a result or none     *)
(* once it has read, and it works for a layer there is.                    *)
JobsWhole ==
    \A w \in Workers :
        /\ job[w].stage # "idle" => job[w].layer \in Layers
        /\ job[w].stage \in {"idle", "raw", "clear"} => job[w].got = 0
        /\ job[w].stage \in {"check", "insert"} => job[w].got \in {0, K}

(* The forward holds buffers only between load and release, and has a      *)
(* window to run when it looks for its experts.                            *)
ForwardHolds ==
    /\ mode = "rest" <=> pc = "rest"
    /\ pc # "acquire" => held = 0
    /\ pc \in {"get", "acquire"} => windows > 0
    /\ pc = "predict" /\ mode = "prefill" => windows > 0

(* The inductive invariant of the pool: types, buffers, and who may hold   *)
(* them when.                                                              *)
PoolInv == PrefetchTypeOK /\ BuffersAccounted /\ JobsWhole /\ ForwardHolds

Outstanding(l) ==
    Cardinality({i \in 1..Len(queue) : queue[i].layer = l /\ queue[i].gen = generation})
  + Cardinality({w \in Workers :
        job[w].layer = l /\ job[w].gen = generation /\ job[w].stage \notin {"idle", "clear"}})

(* "Keep only one outstanding prefetch per target layer at a time": a read *)
(* of an earlier generation that ends late does not let a second one start.*)
OneOutstanding == \A l \in Layers : Outstanding(l) <= 1

(* While no buffer has been lost, every forward ends: acquire_blocking is  *)
(* always woken by a buffer that comes back.                               *)
EveryForwardEnds == [](lost = 0) => (mode # "rest" ~> mode = "rest")
=============================================================================
