------------------------ MODULE ExpertPrefetch_proofs ------------------------
(***************************************************************************)
(* Proofs that the prefetcher keeps one outstanding read per layer and     *)
(* that no buffer of the pool is lost or freed twice, for any number of    *)
(* layers, workers and experts.  Outstanding reads: a request and the job  *)
(* it becomes are a claim on their layer; a claim of the present           *)
(* generation holds the layer's mark, and reset_pending, which takes every *)
(* mark away, first makes every claim one of the past.  Buffers: they are  *)
(* counted where they are, and each step moves as many as it takes.        *)
(***************************************************************************)
EXTENDS ExpertPrefetch, FiniteSetTheorems, SequenceTheorems, TLAPS

Request == [layer : Layers, gen : Nat]
Stages == {"idle", "acquire", "raw", "check", "insert", "clear"}
JobShape == [layer : 0..L, gen : Nat, got : Nat, stage : Stages]

(* The types the argument needs; the buffers are not part of it.           *)
Shapes ==
    /\ generation \in Nat
    /\ inflight \in [Layers -> Nat \cup {-1}]
    /\ queue \in Seq(Request)
    /\ job \in [Workers -> JobShape]
    /\ layer \in Layers

\* Request i is a claim on l, and so is the job of worker w.
Asks(i, l) == queue[i].layer = l /\ queue[i].gen = generation
Works(w, l) == job[w].layer = l /\ job[w].gen = generation /\ job[w].stage # "idle"

Resetting == pc \in {"drop", "forget"}

\* A claim holds the mark of its layer; reset_pending leaves no claim.
Marked ==
    \A l \in Layers :
        /\ \A i \in 1..Len(queue) : Asks(i, l) => inflight[l] = generation /\ ~Resetting
        /\ \A w \in Workers : Works(w, l) => inflight[l] = generation /\ ~Resetting

OneClaim ==
    \A l \in Layers :
        /\ \A i, j \in 1..Len(queue) : Asks(i, l) /\ Asks(j, l) => i = j
        /\ \A v, w \in Workers : Works(v, l) /\ Works(w, l) => v = w
        /\ \A i \in 1..Len(queue), w \in Workers : ~(Asks(i, l) /\ Works(w, l))

\* Generations only grow.
NotAhead ==
    /\ \A i \in 1..Len(queue) : queue[i].gen <= generation
    /\ \A w \in Workers : job[w].gen <= generation

ClaimInv == Shapes /\ Marked /\ OneClaim /\ NotAhead

LEMMA Constants == L \in Nat \ {0} /\ 1 \in Layers /\ NoJob \in JobShape
<1>1. L \in Nat \ {0}
  BY PrefetchAssumption
<1>2. 1 \in Layers /\ 0 \in 0..L
  BY <1>1 DEF Layers
<1> QED BY <1>1, <1>2 DEF NoJob, JobShape, Stages

LEMMA InitClaims == PrefetchInit => ClaimInv
<1> SUFFICES ASSUME PrefetchInit PROVE ClaimInv
  OBVIOUS
<1>1. queue \in Seq(Request) /\ Len(queue) = 0
  BY EmptySeq DEF PrefetchInit
<1>2. Shapes
  BY <1>1, Constants DEF PrefetchInit, Shapes
<1>3. \A w \in Workers : job[w] = NoJob
  BY DEF PrefetchInit
<1>4. Marked /\ OneClaim /\ NotAhead
  BY <1>1, <1>2, <1>3 DEF Marked, OneClaim, NotAhead, Asks, Works, NoJob, PrefetchInit
<1> QED BY <1>2, <1>4 DEF ClaimInv

(* A worker that goes on keeps its claim.                                  *)
LEMMA MovesClaims ==
    ASSUME ClaimInv, NEW w \in Workers, NEW stage \in Stages, NEW got \in Nat,
           job[w].stage # "idle", Moves(w, stage, got),
           UNCHANGED <<generation, inflight, queue, pc, layer>>
    PROVE  ClaimInv'
<1>1. Shapes'
  BY DEF ClaimInv, Shapes, Moves, JobShape
<1>2. \A v \in Workers : /\ job'[v].layer = job[v].layer /\ job'[v].gen = job[v].gen
                         /\ job'[v].stage # "idle" => job[v].stage # "idle"
  BY DEF ClaimInv, Shapes, Moves, JobShape
<1>3. /\ \A i, l : Asks(i, l)' <=> Asks(i, l)
      /\ \A v \in Workers, l \in Layers : Works(v, l)' => Works(v, l)
      /\ Resetting' <=> Resetting
  BY <1>2 DEF Asks, Works, Resetting
<1>4. Marked'
  BY <1>3 DEF ClaimInv, Marked
<1>5. OneClaim'
  BY <1>3 DEF ClaimInv, OneClaim
<1>6. NotAhead'
  BY <1>2 DEF ClaimInv, NotAhead
<1> QED BY <1>1, <1>4, <1>5, <1>6 DEF ClaimInv

(* A worker that is done takes back no mark but its own.                   *)
LEMMA EndsClaims ==
    ASSUME ClaimInv, NEW w \in Workers, job[w].stage # "idle",
           inflight' = Cleared(w), job' = [job EXCEPT ![w] = NoJob],
           UNCHANGED <<generation, queue, pc, layer>>
    PROVE  ClaimInv'
<1>1. Shapes'
  <2>1. job' \in [Workers -> JobShape]
    BY Constants DEF ClaimInv, Shapes
  <2>2. inflight' \in [Layers -> Nat \cup {-1}]
    BY DEF ClaimInv, Shapes, Cleared
  <2> QED BY <2>1, <2>2 DEF ClaimInv, Shapes
<1>2. \A v \in Workers : job'[v] = IF v = w THEN NoJob ELSE job[v]
  BY DEF ClaimInv, Shapes
<1>3. /\ \A i, l : Asks(i, l)' <=> Asks(i, l)
      /\ \A v \in Workers, l \in Layers : Works(v, l)' => v # w /\ Works(v, l)
      /\ Resetting' <=> Resetting
  BY <1>2 DEF Asks, Works, Resetting, NoJob
<1>4. ASSUME NEW l \in Layers, inflight[l] = generation, inflight'[l] # generation
      PROVE  Works(w, l)
  BY <1>4 DEF ClaimInv, Shapes, Cleared, Works
<1>5. Marked'
  BY <1>3, <1>4 DEF ClaimInv, Marked, OneClaim
<1>6. OneClaim'
  BY <1>3 DEF ClaimInv, OneClaim
<1>7. NotAhead'
  BY <1>2 DEF ClaimInv, Shapes, NotAhead, NoJob
<1> QED BY <1>1, <1>5, <1>6, <1>7 DEF ClaimInv

LEMMA TakeClaims ==
    ASSUME ClaimInv, NEW w \in Workers, TakeJob(w)
    PROVE  ClaimInv'
<1>1. /\ queue \in Seq(Request) /\ queue # <<>> /\ queue' = Tail(queue)
      /\ UNCHANGED <<generation, inflight, pc, layer>>
  BY DEF TakeJob, ClaimInv, Shapes, sharedVars, forwardVars
<1>2. /\ Len(queue) \in Nat /\ 1 \in 1..Len(queue) /\ Head(queue) = queue[1]
      /\ Head(queue) \in Request
      /\ queue' \in Seq(Request)
      /\ Len(queue') = Len(queue) - 1
      /\ \A i \in 1..Len(queue') : i + 1 \in 1..Len(queue) /\ queue'[i] = queue[i + 1]
  BY <1>1, LenProperties, EmptySeq, HeadTailProperties
<1>3. \A v \in Workers :
         /\ v = w => /\ job'[v].layer = queue[1].layer /\ job'[v].gen = queue[1].gen
                     /\ job[v] = NoJob
         /\ v # w => job'[v] = job[v]
  BY <1>2 DEF TakeJob, ClaimInv, Shapes
<1>4. Shapes'
  <2>1. [layer |-> Head(queue).layer, gen |-> Head(queue).gen, got |-> 0, stage |-> "acquire"]
          \in JobShape
    <3>1. Head(queue).layer \in 0..L /\ Head(queue).gen \in Nat
      BY <1>2, Constants DEF Request, Layers
    <3> QED BY <3>1 DEF JobShape, Stages
  <2>2. job' \in [Workers -> JobShape]
    BY <2>1 DEF TakeJob, ClaimInv, Shapes
  <2> QED BY <1>1, <1>2, <2>2 DEF ClaimInv, Shapes
<1>5. /\ \A i \in 1..Len(queue'), l \in Layers : Asks(i, l)' => Asks(i + 1, l)
      /\ \A l \in Layers : Works(w, l)' => Asks(1, l)
      /\ \A v \in Workers, l \in Layers : v # w /\ Works(v, l)' => Works(v, l)
      /\ Resetting' <=> Resetting
  BY <1>1, <1>2, <1>3 DEF Asks, Works, Resetting
<1>6. Marked'
  BY <1>1, <1>2, <1>5 DEF ClaimInv, Marked
<1>7. OneClaim'
  BY <1>2, <1>5 DEF ClaimInv, OneClaim
<1>8. NotAhead'
  BY <1>1, <1>2, <1>3 DEF ClaimInv, NotAhead
<1> QED BY <1>4, <1>6, <1>7, <1>8 DEF ClaimInv

(* A request is made when the layer's mark is not of this generation: then *)
(* nothing claims the layer.                                               *)
LEMMA RequestedClaims ==
    ASSUME ClaimInv, NEW l \in Layers, ~Resetting, ~Resetting', Requested(l),
           UNCHANGED <<generation, job, layer>>
    PROVE  ClaimInv'
<1>1. CASE UNCHANGED <<inflight, queue>>
  <2>1. Shapes'
    BY <1>1 DEF ClaimInv, Shapes
  <2>2. /\ \A i, k : Asks(i, k)' <=> Asks(i, k)
        /\ \A v, k : Works(v, k)' <=> Works(v, k)
    BY <1>1 DEF Asks, Works
  <2> QED BY <1>1, <2>1, <2>2 DEF ClaimInv, Marked, OneClaim, NotAhead
<1>2. CASE /\ inflight[l] # generation
           /\ inflight' = [inflight EXCEPT ![l] = generation]
           /\ queue' = Append(queue, [layer |-> l, gen |-> generation])
  <2>1. queue \in Seq(Request) /\ [layer |-> l, gen |-> generation] \in Request
    BY DEF ClaimInv, Shapes, Request
  <2>2. /\ Len(queue) \in Nat
        /\ queue' \in Seq(Request)
        /\ Len(queue') = Len(queue) + 1
        /\ \A i \in 1..Len(queue) : queue'[i] = queue[i]
        /\ queue'[Len(queue) + 1].layer = l
    BY <1>2, <2>1, AppendProperties, LenProperties
  <2>3. \A i \in 1..Len(queue') : i \in 1..Len(queue) \/ i = Len(queue) + 1
    BY <2>2
  <2>4. \A k \in Layers : inflight'[k] = IF k = l THEN generation ELSE inflight[k]
    BY <1>2 DEF ClaimInv, Shapes
  <2>5. /\ \A i \in 1..Len(queue'), k \in Layers :
              Asks(i, k)' => \/ i \in 1..Len(queue) /\ Asks(i, k)
                             \/ i = Len(queue) + 1 /\ k = l
        /\ \A v \in Workers, k \in Layers : Works(v, k)' => Works(v, k)
    <3>1. ASSUME NEW i \in 1..Len(queue'), NEW k \in Layers, Asks(i, k)'
          PROVE  \/ i \in 1..Len(queue) /\ Asks(i, k)
                 \/ i = Len(queue) + 1 /\ k = l
      <4>1. queue'[i].layer = k /\ queue'[i].gen = generation
        BY <3>1 DEF Asks
      <4>2. CASE i \in 1..Len(queue)
        BY <2>2, <4>1, <4>2 DEF Asks
      <4>3. CASE i = Len(queue) + 1
        BY <2>2, <4>1, <4>3
      <4> QED BY <2>3, <4>2, <4>3
    <3>2. \A v \in Workers, k \in Layers : Works(v, k)' => Works(v, k)
      BY DEF Works
    <3> QED BY <3>1, <3>2
  <2>6. /\ \A i \in 1..Len(queue) : ~Asks(i, l)
        /\ \A v \in Workers : ~Works(v, l)
    BY <1>2 DEF ClaimInv, Marked
  <2>7. Shapes'
    BY <1>2, <2>2 DEF ClaimInv, Shapes
  <2>8. Marked'
    <3>2. \A k \in Layers : inflight[k] = generation \/ k = l => inflight'[k] = generation'
      BY <2>4
    <3> QED BY <2>5, <3>2, Zenon DEF ClaimInv, Marked
  <2>9. OneClaim'
    <3>1. ASSUME NEW k \in Layers, NEW i \in 1..Len(queue'), NEW j \in 1..Len(queue'),
                 Asks(i, k)', Asks(j, k)'
          PROVE  i = j
      BY <2>5, <2>6, <3>1, Zenon DEF ClaimInv, OneClaim
    <3>2. ASSUME NEW k \in Layers, NEW i \in 1..Len(queue'), NEW v \in Workers,
                 Asks(i, k)', Works(v, k)'
          PROVE  FALSE
      BY <2>5, <2>6, <3>2, Zenon DEF ClaimInv, OneClaim
    <3>3. ASSUME NEW k \in Layers, NEW v \in Workers, NEW w \in Workers,
                 Works(v, k)', Works(w, k)'
          PROVE  v = w
      BY <2>5, <3>3, Zenon DEF ClaimInv, OneClaim
    <3> QED BY <3>1, <3>2, <3>3, Zenon DEF OneClaim
  <2>10. NotAhead'
    <3>1. generation <= generation
      BY DEF ClaimInv, Shapes
    <3>2. queue'[Len(queue) + 1].gen = generation
      BY <1>2, <2>1, AppendProperties
    <3>3. ASSUME NEW i \in 1..Len(queue')
          PROVE  queue'[i].gen <= generation
      <4>1. CASE i \in 1..Len(queue)
        BY <2>2, <4>1 DEF ClaimInv, NotAhead
      <4>2. CASE i = Len(queue) + 1
        BY <3>1, <3>2, <4>2
      <4> QED BY <2>3, <4>1, <4>2
    <3> QED BY <3>3 DEF ClaimInv, NotAhead
  <2> QED BY <2>7, <2>8, <2>9, <2>10 DEF ClaimInv
<1> QED BY <1>1, <1>2 DEF Requested

(* The forward goes on without a new request.                              *)
LEMMA ForwardClaims ==
    ASSUME ClaimInv, layer' \in Layers, Resetting' => Resetting,
           UNCHANGED <<generation, inflight, queue, job>>
    PROVE  ClaimInv'
<1>1. Shapes'
  BY DEF ClaimInv, Shapes
<1>2. /\ \A i, l : Asks(i, l)' <=> Asks(i, l)
      /\ \A w, l : Works(w, l)' <=> Works(w, l)
  BY DEF Asks, Works
<1>3. Marked' /\ OneClaim' /\ NotAhead'
  BY <1>2 DEF ClaimInv, Marked, OneClaim, NotAhead
<1> QED BY <1>1, <1>3 DEF ClaimInv

(* reset_pending makes every claim one of the past.                        *)
LEMMA BumpClaims ==
    ASSUME ClaimInv, Bump
    PROVE  ClaimInv'
<1>1. generation' = generation + 1 /\ UNCHANGED <<inflight, queue, job, layer>>
  BY DEF Bump
<1>2. Shapes'
  BY <1>1 DEF ClaimInv, Shapes
<1>3. /\ generation \in Nat
      /\ \A i \in 1..Len(queue) : queue[i].gen \in Nat
      /\ \A w \in Workers : job[w].gen \in Nat
  <2>1. queue \in Seq(Request) /\ job \in [Workers -> JobShape] /\ generation \in Nat
    BY DEF ClaimInv, Shapes
  <2>2. \A i \in 1..Len(queue) : queue[i] \in Request
    BY <2>1, ElementOfSeq
  <2> QED BY <2>1, <2>2 DEF Request, JobShape
<1>4. /\ \A i \in 1..Len(queue), l \in Layers : ~Asks(i, l)'
      /\ \A w \in Workers, l \in Layers : ~Works(w, l)'
  BY <1>1, <1>3 DEF ClaimInv, NotAhead, Asks, Works
<1>5. Marked' /\ OneClaim'
  BY <1>1, <1>4 DEF Marked, OneClaim
<1>6. NotAhead'
  BY <1>1, <1>3 DEF ClaimInv, NotAhead
<1> QED BY <1>2, <1>5, <1>6 DEF ClaimInv

LEMMA ForgetClaims ==
    ASSUME ClaimInv, ForgetInflight
    PROVE  ClaimInv'
<1>1. /\ Resetting
      /\ inflight' = [l \in Layers |-> -1]
      /\ UNCHANGED <<generation, queue, job, layer>>
  BY DEF ForgetInflight, Resetting
<1>2. Shapes'
  BY <1>1 DEF ClaimInv, Shapes
<1>3. /\ \A i \in 1..Len(queue), l \in Layers : ~Asks(i, l)'
      /\ \A w \in Workers, l \in Layers : ~Works(w, l)'
  BY <1>1 DEF ClaimInv, Marked, Asks, Works
<1>4. Marked' /\ OneClaim'
  BY <1>1, <1>3 DEF Marked, OneClaim
<1>5. NotAhead'
  BY <1>1 DEF ClaimInv, NotAhead
<1> QED BY <1>2, <1>4, <1>5 DEF ClaimInv

LEMMA StepClaims == ClaimInv /\ [PrefetchNext]_prefetchVars => ClaimInv'
<1> SUFFICES ASSUME ClaimInv, [PrefetchNext]_prefetchVars PROVE ClaimInv'
  OBVIOUS
<1>1. layer \in 1..L /\ L \in Nat
  BY Constants DEF ClaimInv, Shapes, Layers
<1>2. ASSUME NEW w \in Workers, WorkerStep(w) PROVE ClaimInv'
  <2>1. job[w].got \in Nat
    BY DEF ClaimInv, Shapes, JobShape
  <2>2. CASE TakeJob(w)
    BY <2>2, TakeClaims
  <2>3. CASE AcquireOne(w)
    BY <2>1, <2>3, MovesClaims DEF AcquireOne, Stages, sharedVars, forwardVars
  <2>4. CASE FallBack(w)
    BY <2>4, MovesClaims DEF FallBack, Stages, sharedVars, forwardVars
  <2>5. CASE ReadDone(w)
    BY <2>1, <2>5, MovesClaims DEF ReadDone, Stages, sharedVars, forwardVars
  <2>6. CASE ReadFails(w)
    BY <2>6, EndsClaims DEF ReadFails, sharedVars, forwardVars
  <2>7. CASE CheckGeneration(w)
    BY <2>1, <2>7, MovesClaims DEF CheckGeneration, Stages, sharedVars, forwardVars
  <2>8. CASE Insert(w)
    BY <2>8, MovesClaims DEF Insert, Stages, forwardVars
  <2>9. CASE ClearInflight(w)
    BY <2>9, EndsClaims DEF ClearInflight, forwardVars
  <2> QED BY <1>2, <2>2, <2>3, <2>4, <2>5, <2>6, <2>7, <2>8, <2>9 DEF WorkerStep
<1>3. ASSUME NEW kind \in {"prefill", "decode"}, Begin(kind) PROVE ClaimInv'
  <2>1. layer' \in Layers /\ ~Resetting'
    BY <1>3, Constants DEF Begin, Resetting
  <2> QED BY <1>3, <2>1, ForwardClaims DEF Begin, sharedVars
<1>4. CASE Predict
  <2>1. ~Resetting /\ ~Resetting' /\ UNCHANGED <<generation, job, layer>>
    BY <1>4 DEF Predict, Resetting
  <2>2. CASE layer < L
    <3>1. layer + 1 \in Layers /\ Requested(layer + 1)
      BY <1>1, <1>4, <2>2 DEF Predict, Layers
    <3> QED BY <2>1, <3>1, RequestedClaims
  <2>3. CASE ~(layer < L)
    <3>1. UNCHANGED <<inflight, queue>>
      BY <1>4, <2>3 DEF Predict
    <3> QED BY <2>1, <3>1, ForwardClaims DEF ClaimInv, Shapes
  <2> QED BY <2>2, <2>3
<1>5. CASE TryGet \/ Acquire \/ LoadFails \/ EncodeFails \/ Run \/ DropResults
  <2>1. UNCHANGED <<generation, inflight, queue, job, layer>>
    BY <1>5 DEF TryGet, Acquire, LoadFails, EncodeFails, Run, DropResults, sharedVars
  <2>2. Resetting' => Resetting
    BY <1>5 DEF TryGet, Acquire, LoadFails, EncodeFails, Run, DropResults, Stops, Resetting
  <2> QED BY <2>1, <2>2, ForwardClaims DEF ClaimInv, Shapes
<1>6. CASE NextLayer
  <2>1. UNCHANGED <<generation, inflight, queue, job>> /\ ~Resetting'
    BY <1>6 DEF NextLayer, Stops, Resetting, sharedVars
  <2>2. layer' \in Layers
    BY <1>1, <1>6 DEF NextLayer, Layers
  <2> QED BY <2>1, <2>2, ForwardClaims
<1>7. CASE Quiet \/ UNCHANGED prefetchVars
  <2>1. UNCHANGED <<generation, inflight, queue, job, layer, pc>>
    BY <1>7 DEF Quiet, prefetchVars, sharedVars, forwardVars
  <2> QED BY <2>1, ForwardClaims DEF ClaimInv, Shapes, Resetting
<1> QED
  BY <1>2, <1>3, <1>4, <1>5, <1>6, <1>7, BumpClaims, ForgetClaims DEF PrefetchNext, ForwardStep

(* The claims that OneOutstanding counts are among those of ClaimInv.      *)
LEMMA ClaimsAreOne == ClaimInv => OneOutstanding
<1> SUFFICES ASSUME ClaimInv, NEW l \in Layers PROVE Outstanding(l) <= 1
  BY DEF OneOutstanding
<1> DEFINE A == {i \in 1..Len(queue) : queue[i].layer = l /\ queue[i].gen = generation}
           W == {w \in Workers : job[w].layer = l /\ job[w].gen = generation
                                   /\ job[w].stage \notin {"idle", "clear"}}
<1>1. /\ \A i, j \in A : i = j
      /\ \A v, w \in W : v = w
      /\ A = {} \/ W = {}
  BY DEF ClaimInv, OneClaim, Asks, Works
<1>2. ASSUME NEW S, \A i, j \in S : i = j
      PROVE  S = {} \/ \E x : S = {x}
  BY <1>2
<1>3. Cardinality({}) = 0 /\ \A x : Cardinality({x}) = 1
  BY FS_EmptySet, FS_Singleton
<1>4. Outstanding(l) = Cardinality(A) + Cardinality(W)
  BY DEF Outstanding
<1> HIDE DEF A, W
<1>5. /\ A = {} \/ \E x : A = {x}
      /\ W = {} \/ \E x : W = {x}
  BY <1>1, <1>2
<1>6. /\ Cardinality(A) = 0 \/ Cardinality(A) = 1
      /\ Cardinality(W) = 0 \/ Cardinality(W) = 1
      /\ Cardinality(A) = 0 \/ Cardinality(W) = 0
  BY <1>1, <1>3, <1>5, Zenon
<1> QED BY <1>4, <1>6

(***************************************************************************)
(* The theorem.                                                            *)
(***************************************************************************)
(* At most one read is outstanding for a layer, however late the reads of  *)
(* earlier forwards end.                                                   *)
THEOREM PrefetchOutstanding == PrefetchSpec => []OneOutstanding
<1>1. PrefetchSpec => []ClaimInv
  BY InitClaims, StepClaims, PTL DEF PrefetchSpec
<1> QED BY <1>1, ClaimsAreOne, PTL

(***************************************************************************)
(* The buffers.  The two sums of BuffersAccounted are cardinalities: the   *)
(* buffers workers have gathered, and K for each layer whose result waits. *)
(***************************************************************************)
Results == {"none", "raw", "aligned"}

\* Gathered and Waiting as functions of the variables they are taken from.
GatheredBy(f) == {b \in Workers \X (1..K) : b[2] <= f[b[1]].got}
WaitingIn(p) == {l \in Layers : p[l] = "aligned"}

\* Those that other workers than w have gathered.
OthersBy(f, w) == {b \in GatheredBy(f) : b[1] # w}

\* The buffers in results p.
BuffersWaiting(p) == K * Cardinality(WaitingIn(p))

\* The buffers that a result of kind v holds.
BuffersOf(v) == IF v = "aligned" THEN K ELSE 0

(* The constants and the size of the pool are numbers.                     *)
LEMMA Sizes ==
    /\ K \in Nat \ {0} /\ Experts \in Nat \ {0} /\ K <= Experts
    /\ Window \in Nat \ {0} /\ Windows \in Nat \ {0}
    /\ MaxForwards \in Nat /\ IsFiniteSet(Workers)
    /\ Window * K \in Nat /\ K <= Window * K /\ Total \in Nat
<1>1. /\ K \in Nat \ {0} /\ Experts \in Nat \ {0} /\ K <= Experts
      /\ Window \in Nat \ {0} /\ Windows \in Nat \ {0}
      /\ MaxForwards \in Nat /\ IsFiniteSet(Workers)
  BY PrefetchAssumption
<1>2. Window * K \in Nat /\ K <= Window * K
  BY <1>1
<1> DEFINE m == Window * K
<1>3. m \in Nat
  BY <1>2
<1> HIDE DEF m
<1>4. 2 * ((m + 1) \div 2) \in Nat
  BY <1>3
<1> QED BY <1>1, <1>2, <1>4 DEF Total, m

(* A worker that has gathered n buffers counts for n.                      *)
LEMMA ColumnCounts ==
    ASSUME NEW w, NEW n \in Nat
    PROVE  /\ IsFiniteSet({<<w, i>> : i \in 1..n})
           /\ Cardinality({<<w, i>> : i \in 1..n}) = n
<1> DEFINE C == {<<w, i>> : i \in 1..n}
           f == [i \in 1..n |-> <<w, i>>]
<1>1. f \in Bijection(1..n, C)
  BY DEF Bijection, Injection, Surjection, IsInjective
<1>2. IsFiniteSet(1..n) /\ Cardinality(1..n) = n
  BY FS_Interval
<1> HIDE DEF f, C
<1>3. IsFiniteSet(C) /\ Cardinality(C) = Cardinality(1..n)
  BY <1>1, <1>2, FS_Bijection DEF ExistsBijection
<1> QED BY <1>2, <1>3 DEF C

(* What the workers hold is a number of buffers.                           *)
LEMMA GatheredCounts ==
    ASSUME NEW f \in [Workers -> Job]
    PROVE  IsFiniteSet(GatheredBy(f)) /\ Cardinality(GatheredBy(f)) \in Nat
<1>1. IsFiniteSet(Workers) /\ IsFiniteSet(1..K)
  BY FS_Interval, Sizes
<1>2. IsFiniteSet(Workers \X (1..K))
  BY <1>1, FS_Product
<1> QED BY <1>2, FS_Subset, FS_CardinalityType DEF GatheredBy

(* What the workers hold splits into what one of them holds and the rest.  *)
LEMMA GatheredSplits ==
    ASSUME NEW f \in [Workers -> Job], NEW w \in Workers
    PROVE  /\ IsFiniteSet(GatheredBy(f)) /\ Cardinality(GatheredBy(f)) \in Nat
           /\ IsFiniteSet(OthersBy(f, w)) /\ Cardinality(OthersBy(f, w)) \in Nat
           /\ Cardinality(GatheredBy(f)) = Cardinality(OthersBy(f, w)) + f[w].got
<1> DEFINE rest == OthersBy(f, w)
           column == {<<w, i>> : i \in 1..f[w].got}
<1>1. f[w].got \in 0..K /\ K \in Nat /\ f[w].got \in Nat
  BY Sizes DEF Job
<1>3. IsFiniteSet(GatheredBy(f)) /\ Cardinality(GatheredBy(f)) \in Nat
  BY GatheredCounts
<1>4. IsFiniteSet(rest) /\ Cardinality(rest) \in Nat
  BY <1>3, FS_Subset, FS_CardinalityType DEF OthersBy
<1>5. IsFiniteSet(column) /\ Cardinality(column) = f[w].got
  BY <1>1, ColumnCounts
<1>6. GatheredBy(f) = rest \cup column /\ rest \cap column = {}
  <2>1. column \subseteq GatheredBy(f)
    BY <1>1 DEF GatheredBy
  <2>2. ASSUME NEW b \in GatheredBy(f), b[1] = w PROVE b \in column
    BY <1>1, <2>2 DEF GatheredBy
  <2> QED BY <2>1, <2>2 DEF OthersBy
<1> HIDE DEF rest, column
<1>7. Cardinality(rest \cup column) = Cardinality(rest) + Cardinality(column) - 0
  BY <1>4, <1>5, <1>6, FS_Union, FS_EmptySet
<1> QED BY <1>1, <1>3, <1>4, <1>5, <1>6, <1>7 DEF rest

(* When one worker goes on, what the workers hold changes by what it has   *)
(* gathered or given back.                                                 *)
LEMMA GatheredChanges ==
    ASSUME NEW f \in [Workers -> Job], NEW w \in Workers, NEW j \in Job
    PROVE  /\ Cardinality(GatheredBy(f)) \in Nat
           /\ Cardinality(GatheredBy([f EXCEPT ![w] = j])) \in Nat
           /\ Cardinality(GatheredBy([f EXCEPT ![w] = j])) + f[w].got
                 = Cardinality(GatheredBy(f)) + j.got
<1> DEFINE g == [f EXCEPT ![w] = j]
           restF == OthersBy(f, w)
           restG == OthersBy(g, w)
<1>1. g \in [Workers -> Job] /\ g[w] = j
  OBVIOUS
<1>2. restF = restG
  BY DEF GatheredBy, OthersBy
<1>3. f[w].got \in Nat /\ j.got \in Nat
  BY Sizes DEF Job
<1> HIDE DEF g
<1>4. /\ Cardinality(GatheredBy(f)) \in Nat /\ Cardinality(restF) \in Nat
      /\ Cardinality(GatheredBy(f)) = Cardinality(restF) + f[w].got
  BY GatheredSplits
<1>5. /\ Cardinality(GatheredBy(g)) \in Nat
      /\ Cardinality(GatheredBy(g)) = Cardinality(restG) + g[w].got
  BY <1>1, GatheredSplits
<1> HIDE DEF restF, restG
<1> QED BY <1>1, <1>2, <1>3, <1>4, <1>5 DEF g

(* When the result of one layer changes, the buffers in results change by  *)
(* those of that layer.                                                    *)
LEMMA WaitingChanges ==
    ASSUME NEW p \in [Layers -> Results], NEW l \in Layers, NEW v \in Results
    PROVE  /\ BuffersWaiting(p) \in Nat
           /\ BuffersWaiting([p EXCEPT ![l] = v]) \in Nat
           /\ BuffersWaiting([p EXCEPT ![l] = v]) + BuffersOf(p[l])
                 = BuffersWaiting(p) + BuffersOf(v)
<1> DEFINE q == [p EXCEPT ![l] = v]
           rest == WaitingIn(p) \ {l}
           n == Cardinality(rest)
<1>1. IsFiniteSet(Layers) /\ K \in Nat
  BY Sizes, Constants, FS_Interval DEF Layers
<1>2. IsFiniteSet(rest) /\ n \in Nat
  BY <1>1, FS_Subset, FS_CardinalityType DEF WaitingIn
<1>3. WaitingIn(p) = IF p[l] = "aligned" THEN rest \cup {l} ELSE rest
  BY DEF WaitingIn
<1>4. WaitingIn(q) = IF v = "aligned" THEN rest \cup {l} ELSE rest
  BY DEF WaitingIn
<1>5. l \notin rest
  OBVIOUS
<1> HIDE DEF rest, q
<1>6. Cardinality(rest \cup {l}) = n + 1
  BY <1>2, <1>5, FS_AddElement
<1>7. K * n \in Nat /\ K * (n + 1) = K * n + K
  BY <1>1, <1>2
<1>8. K * Cardinality(WaitingIn(p)) = K * n + BuffersOf(p[l])
  BY <1>1, <1>3, <1>6, <1>7 DEF BuffersOf
<1>9. K * Cardinality(WaitingIn(q)) = K * n + BuffersOf(v)
  BY <1>1, <1>4, <1>6, <1>7 DEF BuffersOf
<1>10. BuffersOf(p[l]) \in Nat /\ BuffersOf(v) \in Nat
  BY <1>1 DEF BuffersOf
<1> HIDE DEF n
<1> QED BY <1>7, <1>8, <1>9, <1>10 DEF q, BuffersWaiting

(***************************************************************************)
(* The pool's invariant, one lemma per kind of step.                       *)
(***************************************************************************)
\* The parts of PrefetchTypeOK that no buffer is counted in.
SharedTypes ==
    /\ generation \in Nat
    /\ pending \in [Layers -> Results]
    /\ inflight \in [Layers -> Nat \cup {-1}]
    /\ queue \in Seq([layer : Layers, gen : Nat])

ForwardTypes ==
    /\ mode \in {"rest", "prefill", "decode"}
    /\ pc \in {"rest", "predict", "get", "acquire", "next", "bump", "drop", "forget"}
    /\ layer \in Layers /\ windows \in 0..Windows /\ forwards \in 0..MaxForwards

\* What JobsWhole says of one job.
WholeJob(j) ==
    /\ j.stage # "idle" => j.layer \in Layers
    /\ j.stage \in {"idle", "raw", "clear"} => j.got = 0
    /\ j.stage \in {"check", "insert"} => j.got \in {0, K}

(* Buffers that add up to the pool are each no more than the pool.         *)
LEMMA PoolBounds ==
    ASSUME NEW a \in Nat, NEW b \in Nat, NEW c \in Nat, NEW d \in Nat, NEW e \in Nat,
           a + b + c + d + e = Total
    PROVE  a \in 0..Total /\ c \in 0..Total
  BY Sizes

(* A step of a worker that gives up, or passes on, what it no longer holds *)
(* keeps the pool whole.                                                   *)
LEMMA PoolOfJob ==
    ASSUME PoolInv, NEW w \in Workers, NEW j \in Job, WholeJob(j),
           job' = [job EXCEPT ![w] = j],
           SharedTypes', free' \in Nat, BuffersWaiting(pending') \in Nat,
           free' + BuffersWaiting(pending') + j.got
             = free + BuffersWaiting(pending) + job[w].got,
           UNCHANGED <<lost, generation, forwardVars>>
    PROVE  PoolInv'
<1>1. job \in [Workers -> Job] /\ job' \in [Workers -> Job]
  BY DEF PoolInv, PrefetchTypeOK
<1>2. /\ Cardinality(GatheredBy(job)) \in Nat
      /\ Cardinality(GatheredBy(job')) \in Nat
      /\ Cardinality(GatheredBy(job')) + job[w].got = Cardinality(GatheredBy(job)) + j.got
  BY <1>1, GatheredChanges
<1>3. /\ free \in Nat /\ held \in Nat /\ lost \in Nat
      /\ free + held + lost + BuffersWaiting(pending)
              + Cardinality(GatheredBy(job)) = Total
      /\ held' = held /\ lost' = lost
  BY DEF PoolInv, PrefetchTypeOK, BuffersAccounted, Waiting, Gathered, WaitingIn, GatheredBy,
         BuffersWaiting, forwardVars
<1>4. job[w].got \in Nat /\ j.got \in Nat
  BY <1>1, Sizes DEF Job
<1>5. BuffersWaiting(pending) \in Nat
  BY Constants, WaitingChanges DEF PoolInv, PrefetchTypeOK, Results, BuffersWaiting
<1>6. free' + held' + lost' + BuffersWaiting(pending')
            + Cardinality(GatheredBy(job')) = Total
  <2> PICK f \in Nat, x \in Nat, y \in Nat, g \in Nat, h \in Nat :
          /\ f = free' /\ x = BuffersWaiting(pending) /\ y = BuffersWaiting(pending')
          /\ g = Cardinality(GatheredBy(job)) /\ h = Cardinality(GatheredBy(job'))
    BY <1>2, <1>5
  <2>1. f + held + lost + y + h = Total
    BY <1>2, <1>3, <1>4
  <2> QED BY <1>3, <2>1
<1>7. BuffersAccounted'
  BY <1>6 DEF BuffersAccounted, Waiting, Gathered, WaitingIn, GatheredBy, BuffersWaiting
<1>8. free' \in 0..Total /\ lost' \in 0..Total
  BY <1>2, <1>3, <1>6, PoolBounds
<1>9. PrefetchTypeOK'
  BY <1>1, <1>8 DEF PoolInv, PrefetchTypeOK, SharedTypes, Results, forwardVars
<1>10. JobsWhole'
  BY <1>1 DEF PoolInv, JobsWhole, WholeJob
<1>11. ForwardHolds'
  BY DEF PoolInv, ForwardHolds, forwardVars
<1> QED BY <1>7, <1>9, <1>10, <1>11 DEF PoolInv

(* A step of the forward that keeps the sum of what it touches keeps the   *)
(* pool whole.                                                             *)
LEMMA PoolOfForward ==
    ASSUME PoolInv,
           free' \in Nat, held' \in Nat, lost' \in Nat, want' \in Nat,
           BuffersWaiting(pending') \in Nat,
           free' + held' + lost' + BuffersWaiting(pending')
             = free + held + lost + BuffersWaiting(pending),
           SharedTypes', ForwardTypes', ForwardHolds', UNCHANGED job
    PROVE  PoolInv'
<1>1. Cardinality(GatheredBy(job)) \in Nat /\ job' = job
  BY GatheredCounts DEF PoolInv, PrefetchTypeOK
<1>2. /\ free \in Nat /\ held \in Nat /\ lost \in Nat
      /\ free + held + lost + BuffersWaiting(pending)
              + Cardinality(GatheredBy(job)) = Total
  BY DEF PoolInv, PrefetchTypeOK, BuffersAccounted, Waiting, Gathered, WaitingIn, GatheredBy,
         BuffersWaiting
<1>3. BuffersWaiting(pending) \in Nat
  BY Constants, WaitingChanges DEF PoolInv, PrefetchTypeOK, Results, BuffersWaiting
<1>4. free' + held' + lost' + BuffersWaiting(pending')
            + Cardinality(GatheredBy(job')) = Total
  BY <1>1, <1>2, <1>3
<1>5. BuffersAccounted'
  BY <1>4 DEF BuffersAccounted, Waiting, Gathered, WaitingIn, GatheredBy, BuffersWaiting
<1>6. free' \in 0..Total /\ lost' \in 0..Total
  BY <1>1, <1>4, PoolBounds
<1>7. PrefetchTypeOK'
  BY <1>1, <1>6 DEF PoolInv, PrefetchTypeOK, SharedTypes, ForwardTypes, Results
<1>8. JobsWhole'
  BY <1>1 DEF PoolInv, JobsWhole
<1> QED BY <1>5, <1>7, <1>8 DEF PoolInv

(* What the lemmas about the steps use of the invariant.                   *)
LEMMA PoolFacts ==
    ASSUME PoolInv
    PROVE  /\ free \in Nat /\ lost \in Nat /\ held \in Nat /\ want \in Nat
           /\ SharedTypes /\ ForwardTypes /\ ForwardHolds
           /\ BuffersWaiting(pending) \in Nat
           /\ job \in [Workers -> Job]
           /\ \A w \in Workers : WholeJob(job[w]) /\ job[w].got \in 0..K
<1>1. /\ free \in Nat /\ lost \in Nat /\ held \in Nat /\ want \in Nat
      /\ SharedTypes /\ ForwardTypes /\ ForwardHolds
  BY DEF PoolInv, PrefetchTypeOK, SharedTypes, ForwardTypes, Results
<1>2. BuffersWaiting(pending) \in Nat
  BY <1>1, Constants, WaitingChanges DEF SharedTypes, Results
<1>3. job \in [Workers -> Job]
  BY DEF PoolInv, PrefetchTypeOK
<1>4. \A w \in Workers : job[w].got \in 0..K
  BY <1>3 DEF Job
<1>5. \A w \in Workers : WholeJob(job[w])
  BY DEF PoolInv, JobsWhole, WholeJob
<1> QED BY <1>1, <1>2, <1>3, <1>4, <1>5

(* Moves, as the assignment of a whole job.                                *)
LEMMA MovesIs ==
    ASSUME job \in [Workers -> Job], NEW w \in Workers, NEW stage, NEW got,
           Moves(w, stage, got)
    PROVE  job' = [job EXCEPT ![w] = [layer |-> job[w].layer, gen |-> job[w].gen,
                                      got |-> got, stage |-> stage]]
<1> DEFINE j == [layer |-> job[w].layer, gen |-> job[w].gen, got |-> got, stage |-> stage]
           r == job[w]
           q == [r EXCEPT !.stage = stage]
<1>1. r = [layer |-> r.layer, gen |-> r.gen, got |-> r.got, stage |-> r.stage]
  BY DEF Job
<1>2. q = [layer |-> r.layer, gen |-> r.gen, got |-> r.got, stage |-> stage]
  BY <1>1
<1>3. job' = [job EXCEPT ![w] = [q EXCEPT !.got = got]]
  BY DEF Moves
<1> HIDE DEF q
<1>4. [q EXCEPT !.got = got] = j
  BY <1>2
<1> QED BY <1>3, <1>4

(* A worker that goes on within its job.                                   *)
LEMMA PoolOfMove ==
    ASSUME PoolInv, NEW w \in Workers, NEW stage \in Stages, NEW got \in 0..K,
           Moves(w, stage, got), job[w].stage # "idle",
           stage \in {"idle", "raw", "clear"} => got = 0,
           stage \in {"check", "insert"} => got \in {0, K},
           free' \in Nat, free' + got = free + job[w].got,
           UNCHANGED <<lost, sharedVars, forwardVars>>
    PROVE  PoolInv'
<1> DEFINE j == [layer |-> job[w].layer, gen |-> job[w].gen, got |-> got, stage |-> stage]
<1>1. /\ job \in [Workers -> Job] /\ WholeJob(job[w]) /\ job[w].got \in Nat
      /\ free \in Nat /\ SharedTypes /\ BuffersWaiting(pending) \in Nat
  BY PoolFacts, Sizes
<1>2. job' = [job EXCEPT ![w] = j] /\ j \in Job /\ j.got = got
  <2>1. job[w].layer \in 0..L /\ job[w].gen \in Nat
    BY <1>1 DEF Job
  <2>2. j \in Job
    BY <2>1 DEF Job, Stages
  <2> QED BY <1>1, <2>2, MovesIs
<1>3. WholeJob(j)
  BY <1>1 DEF WholeJob
<1>4. SharedTypes' /\ UNCHANGED <<generation, pending>>
  BY <1>1 DEF SharedTypes, sharedVars
<1>5. BuffersWaiting(pending') = BuffersWaiting(pending) /\ got \in Nat
  BY <1>4, Sizes
<1> HIDE DEF j
<1>6. free' + BuffersWaiting(pending') + j.got = free + BuffersWaiting(pending) + job[w].got
  BY <1>1, <1>2, <1>5
<1> QED BY <1>1, <1>2, <1>3, <1>4, <1>5, <1>6, PoolOfJob

(* A worker that takes a request holds nothing yet.                        *)
LEMMA PoolOfTake ==
    ASSUME PoolInv, NEW w \in Workers, TakeJob(w)
    PROVE  PoolInv'
<1> DEFINE j == [layer |-> Head(queue).layer, gen |-> Head(queue).gen,
                 got |-> 0, stage |-> "acquire"]
<1>1. /\ job \in [Workers -> Job] /\ free \in Nat /\ SharedTypes
      /\ BuffersWaiting(pending) \in Nat
  BY PoolFacts
<1>2. /\ queue \in Seq(Request) /\ queue # <<>> /\ queue' = Tail(queue)
      /\ job[w].got = 0 /\ job' = [job EXCEPT ![w] = j]
      /\ UNCHANGED <<free, lost, generation, pending, inflight, forwardVars>>
  BY <1>1 DEF TakeJob, SharedTypes, Request, NoJob, poolVars
<1>3. Head(queue) \in Request /\ queue' \in Seq(Request)
  BY <1>2, HeadTailProperties
<1>4. Head(queue).layer \in Layers /\ Head(queue).layer \in 0..L /\ Head(queue).gen \in Nat
  BY <1>3, Constants DEF Request, Layers
<1>5. j \in Job /\ WholeJob(j) /\ j.got = 0
  BY <1>4, Sizes DEF Job, WholeJob
<1>6. SharedTypes'
  BY <1>1, <1>2, <1>3 DEF SharedTypes, Request
<1>7. BuffersWaiting(pending') = BuffersWaiting(pending) /\ free' = free
  BY <1>2
<1> HIDE DEF j
<1>8. free' + BuffersWaiting(pending') + j.got = free + BuffersWaiting(pending) + job[w].got
  BY <1>1, <1>2, <1>5, <1>7
<1> QED BY <1>1, <1>2, <1>5, <1>6, <1>7, <1>8, PoolOfJob

(* A worker that is done holds nothing any more.                           *)
LEMMA PoolOfEnd ==
    ASSUME PoolInv, NEW w \in Workers, job[w].stage \in {"raw", "clear"},
           inflight' = Cleared(w), job' = [job EXCEPT ![w] = NoJob],
           UNCHANGED <<poolVars, generation, pending, queue, forwardVars>>
    PROVE  PoolInv'
<1>1. /\ job \in [Workers -> Job] /\ free \in Nat /\ SharedTypes
      /\ BuffersWaiting(pending) \in Nat /\ job[w].got = 0
  BY PoolFacts DEF WholeJob
<1>2. NoJob \in Job /\ NoJob.got = 0 /\ WholeJob(NoJob)
  BY Constants, Sizes DEF NoJob, Job, WholeJob
<1>3. SharedTypes'
  BY <1>1 DEF SharedTypes, Cleared
<1>4. BuffersWaiting(pending') = BuffersWaiting(pending) /\ free' = free
  BY DEF poolVars
<1>5. free' + BuffersWaiting(pending') + NoJob.got
        = free + BuffersWaiting(pending) + job[w].got
  BY <1>1, <1>2, <1>4
<1> QED BY <1>1, <1>2, <1>3, <1>4, <1>5, PoolOfJob DEF poolVars

(* A result that is inserted takes over the buffers of its worker, and     *)
(* those of the result it replaces go back to the pool.                    *)
LEMMA PoolOfInsert ==
    ASSUME PoolInv, NEW w \in Workers, Insert(w)
    PROVE  PoolInv'
<1> DEFINE l == job[w].layer
           v == IF job[w].got = K THEN "aligned" ELSE "raw"
           j == [layer |-> job[w].layer, gen |-> job[w].gen, got |-> 0, stage |-> "clear"]
<1>1. /\ job \in [Workers -> Job] /\ free \in Nat /\ SharedTypes
      /\ BuffersWaiting(pending) \in Nat
      /\ l \in Layers /\ job[w].got \in {0, K} /\ K \in Nat \ {0}
  BY PoolFacts, Sizes DEF WholeJob, Insert
<1>2. /\ pending \in [Layers -> Results] /\ v \in Results
      /\ pending' = [pending EXCEPT ![l] = v]
      /\ free' = free + BuffersOf(pending[l])
  BY <1>1 DEF Insert, SharedTypes, Results, Replaced, InResult, BuffersOf
<1>3. BuffersOf(v) = job[w].got /\ BuffersOf(pending[l]) \in Nat
  BY <1>1 DEF BuffersOf
<1>4. job' = [job EXCEPT ![w] = j] /\ j \in Job /\ WholeJob(j) /\ j.got = 0
  <2>1. job' = [job EXCEPT ![w] = j]
    BY <1>1, MovesIs DEF Insert
  <2>2. j \in Job
    BY <1>1 DEF Job
  <2>3. WholeJob(j) /\ j.got = 0
    BY <1>1 DEF WholeJob
  <2> QED BY <2>1, <2>2, <2>3
<1>5. SharedTypes'
  BY <1>1, <1>2 DEF Insert, SharedTypes
<1>6. UNCHANGED <<lost, generation, forwardVars>>
  BY DEF Insert
<1> HIDE DEF j, v, l
<1>7. /\ BuffersWaiting(pending') \in Nat
      /\ BuffersWaiting(pending') + BuffersOf(pending[l])
            = BuffersWaiting(pending) + BuffersOf(v)
  BY <1>1, <1>2, WaitingChanges
<1>8. free' \in Nat
  BY <1>1, <1>2, <1>3
<1>9. free' + BuffersWaiting(pending') + j.got = free + BuffersWaiting(pending) + job[w].got
  <2> PICK f \in Nat, a \in Nat, b \in Nat, c \in Nat, d \in Nat :
          /\ f = free /\ a = BuffersWaiting(pending') /\ b = BuffersWaiting(pending)
          /\ c = BuffersOf(pending[l]) /\ d = job[w].got
    BY <1>1, <1>3, <1>7
  <2>1. a + c = b + d
    BY <1>3, <1>7
  <2>2. (f + c) + a + 0 = f + b + d
    BY <2>1
  <2> QED BY <1>2, <1>4, <2>2
<1> QED BY <1>4, <1>5, <1>6, <1>7, <1>8, <1>9, PoolOfJob

(* Every step of a worker.                                                 *)
LEMMA PoolOfWorker ==
    ASSUME PoolInv, NEW w \in Workers, WorkerStep(w)
    PROVE  PoolInv'
<1>1. /\ job[w].got \in 0..K /\ job[w].got \in Nat /\ WholeJob(job[w])
      /\ free \in Nat /\ K \in Nat /\ 0 \in 0..K
  BY PoolFacts, Sizes
<1>2. CASE AcquireOne(w)
  <2>1. job[w].got + 1 \in 0..K /\ free' \in Nat
    BY <1>1, <1>2 DEF AcquireOne
  <2>2. free' + (job[w].got + 1) = free + job[w].got
    BY <1>1, <1>2 DEF AcquireOne
  <2> QED BY <1>2, <2>1, <2>2, PoolOfMove DEF AcquireOne, Stages
<1>3. CASE FallBack(w)
  <2>1. free' \in Nat /\ free' + 0 = free + job[w].got
    BY <1>1, <1>3 DEF FallBack, GivenUp
  <2> QED BY <1>1, <1>3, <2>1, PoolOfMove DEF FallBack, Stages
<1>4. CASE ReadDone(w)
  <2>1. job[w].got \in {0, K} /\ job[w].stage # "idle"
    BY <1>1, <1>4 DEF ReadDone, WholeJob
  <2>2. free' \in Nat /\ free' + job[w].got = free + job[w].got
    BY <1>1, <1>4 DEF ReadDone, poolVars
  <2> QED BY <1>1, <1>4, <2>1, <2>2, PoolOfMove DEF ReadDone, Stages, poolVars
<1>5. CASE CheckGeneration(w)
  <2>1. job[w].stage = "check" /\ job[w].got \in {0, K}
    BY <1>1, <1>5 DEF CheckGeneration, WholeJob
  <2>2. CASE generation = job[w].gen
    <3>1. free' = free /\ Moves(w, "insert", job[w].got)
      BY <1>5, <2>2 DEF CheckGeneration
    <3> QED BY <1>1, <1>5, <2>1, <3>1, PoolOfMove DEF CheckGeneration, Stages
  <2>3. CASE generation # job[w].gen
    <3>1. free' = free + job[w].got /\ Moves(w, "clear", 0)
      BY <1>5, <2>3 DEF CheckGeneration
    <3>2. free' \in Nat /\ free' + 0 = free + job[w].got
      BY <1>1, <3>1
    <3> QED BY <1>1, <1>5, <2>1, <3>1, <3>2, PoolOfMove DEF CheckGeneration, Stages
  <2> QED BY <2>2, <2>3
<1>6. CASE ReadFails(w)
  BY <1>6, PoolOfEnd DEF ReadFails
<1>7. CASE ClearInflight(w)
  BY <1>7, PoolOfEnd DEF ClearInflight
<1> QED
  BY <1>2, <1>3, <1>4, <1>5, <1>6, <1>7, PoolOfTake, PoolOfInsert DEF WorkerStep

(* The lesser and the greater of two numbers.                              *)
LEMMA MinMaxOfTwo ==
    ASSUME NEW a \in Int, NEW b \in Int
    PROVE  /\ Min({a, b}) \in {a, b} /\ Min({a, b}) <= a /\ Min({a, b}) <= b
           /\ Max({a, b}) \in {a, b} /\ Max({a, b}) >= a /\ Max({a, b}) >= b
<1>1. /\ \E x \in {a, b} : \A y \in {a, b} : x <= y
      /\ \E x \in {a, b} : \A y \in {a, b} : x >= y
  <2>1. a <= b \/ b <= a
    OBVIOUS
  <2> QED BY <2>1
<1> QED BY <1>1 DEF Min, Max

(* The hits of a layer are no more than the experts it is routed to, nor   *)
(* than those that were predicted.                                         *)
LEMMA HitsBounded ==
    ASSUME NEW n \in Routed, NEW hits \in Hits(n)
    PROVE  n \in Nat /\ hits \in Nat /\ hits <= n /\ hits <= K
<1>1. K \in Nat /\ Experts \in Nat /\ Window * K \in Nat
  BY Sizes
<1>2. n \in Nat
  <2> DEFINE a == Window * K
             m == Min({a, Experts})
  <2>1. a \in Nat /\ a \in Int /\ Experts \in Int
    BY <1>1
  <2> HIDE DEF a
  <2>2. m \in {a, Experts}
    BY <2>1, MinMaxOfTwo
  <2>3. m \in Nat
    BY <1>1, <2>1, <2>2
  <2> HIDE DEF m
  <2> QED BY <1>1, <2>3 DEF Routed, m, a
<1> DEFINE b == n + K - Experts
           low == Max({0, b})
           high == Min({n, K})
<1>3. b \in Int
  BY <1>1, <1>2
<1>4. hits \in low..high
  BY DEF Hits
<1> HIDE DEF b
<1>5. low \in {0, b} /\ low >= 0
  BY <1>3, MinMaxOfTwo
<1>6. high \in {n, K} /\ high <= n /\ high <= K
  <2>1. n \in Int /\ K \in Int
    BY <1>1, <1>2
  <2> QED BY <2>1, MinMaxOfTwo
<1> HIDE DEF low, high
<1> QED BY <1>1, <1>2, <1>3, <1>4, <1>5, <1>6

(* try_get takes the hits out of the result and gives the rest back.       *)
LEMMA PoolOfTryGet ==
    ASSUME PoolInv, TryGet
    PROVE  PoolInv'
<1> PICK n \in Routed : \E hits \in Hits(n) :
          LET taken == IF pending[layer] = "aligned" THEN hits ELSE 0
          IN  /\ held' = taken
              /\ want' = n - taken
              /\ free' = free + InResult(layer) - taken
  BY DEF TryGet
<1> PICK hits \in Hits(n) :
          LET taken == IF pending[layer] = "aligned" THEN hits ELSE 0
          IN  /\ held' = taken
              /\ want' = n - taken
              /\ free' = free + InResult(layer) - taken
  OBVIOUS
<1> DEFINE taken == IF pending[layer] = "aligned" THEN hits ELSE 0
           gives == BuffersOf(pending[layer])
<1>1. /\ free \in Nat /\ lost \in Nat /\ held = 0 /\ windows > 0
      /\ SharedTypes /\ ForwardTypes /\ ForwardHolds /\ BuffersWaiting(pending) \in Nat
  BY PoolFacts DEF ForwardHolds, TryGet
<1>2. n \in Nat /\ hits \in Nat /\ hits <= n /\ hits <= K /\ K \in Nat
  BY HitsBounded, Sizes
<1>3. /\ taken \in Nat /\ gives \in Nat /\ taken <= gives /\ taken <= n
      /\ free' = free + gives - taken /\ held' = taken /\ want' = n - taken
  BY <1>2 DEF BuffersOf, InResult
<1>4. /\ pending \in [Layers -> Results] /\ layer \in Layers /\ "none" \in Results
      /\ pending' = [pending EXCEPT ![layer] = "none"]
      /\ pc' = "acquire" /\ mode # "rest"
      /\ UNCHANGED <<lost, generation, inflight, queue, job, mode, layer, windows, forwards>>
  BY <1>1 DEF TryGet, SharedTypes, ForwardTypes, ForwardHolds, Results
<1>5. /\ BuffersWaiting(pending') \in Nat
      /\ BuffersWaiting(pending') + gives = BuffersWaiting(pending) + 0
  BY <1>4, WaitingChanges DEF BuffersOf
<1> HIDE DEF taken, gives
<1>6. free' \in Nat /\ held' \in Nat /\ want' \in Nat /\ lost' \in Nat
  BY <1>1, <1>2, <1>3, <1>4
<1>7. free' + held' + lost' + BuffersWaiting(pending')
        = free + held + lost + BuffersWaiting(pending)
  BY <1>1, <1>3, <1>4, <1>5
<1>8. SharedTypes'
  BY <1>1, <1>4 DEF SharedTypes
<1>9. ForwardTypes'
  BY <1>1, <1>4 DEF ForwardTypes
<1>10. ForwardHolds'
  BY <1>1, <1>4 DEF ForwardHolds
<1> QED BY <1>4, <1>5, <1>6, <1>7, <1>8, <1>9, <1>10, PoolOfForward

(* The layer gathers what it lacks and gives back, or loses, all it holds. *)
LEMMA PoolOfLayer ==
    ASSUME PoolInv, Acquire \/ LoadFails \/ EncodeFails \/ Run
    PROVE  PoolInv'
<1>1. /\ free \in Nat /\ lost \in Nat /\ held \in Nat /\ want \in Nat
      /\ SharedTypes /\ ForwardTypes /\ ForwardHolds /\ BuffersWaiting(pending) \in Nat
  BY PoolFacts
<1>2. UNCHANGED <<generation, pending, inflight, queue, job, layer, forwards>>
  BY DEF Acquire, LoadFails, EncodeFails, Run, sharedVars
<1>3. pc = "acquire" /\ windows > 0 /\ mode # "rest" /\ windows \in 0..Windows
  BY <1>1 DEF Acquire, LoadFails, EncodeFails, Run, ForwardHolds, ForwardTypes
<1>4. BuffersWaiting(pending') = BuffersWaiting(pending) /\ SharedTypes'
  BY <1>1, <1>2 DEF SharedTypes
<1>5. /\ free' \in Nat /\ held' \in Nat /\ want' \in Nat /\ lost' \in Nat
      /\ free' + held' + lost' = free + held + lost
  BY <1>1 DEF Acquire, LoadFails, EncodeFails, Run
<1>6. ForwardTypes'
  <2>1. windows' \in 0..Windows
    BY <1>3, Sizes DEF Acquire, LoadFails, EncodeFails, Run
  <2> QED BY <1>1, <1>2, <2>1 DEF ForwardTypes, Acquire, LoadFails, EncodeFails, Run, Stops
<1>7. ForwardHolds'
  <2>1. CASE Acquire
    BY <1>1, <1>3, <2>1 DEF ForwardHolds, Acquire
  <2>2. CASE LoadFails \/ EncodeFails
    BY <2>2 DEF ForwardHolds, LoadFails, EncodeFails, Stops
  <2>3. CASE Run
    <3>1. /\ held' = 0 /\ mode' = mode /\ windows' = windows - 1
          /\ \/ windows > 1 /\ pc' = "get"
             \/ mode = "prefill" /\ pc' = "next"
             \/ mode # "prefill" /\ pc' = "predict"
      BY <2>3 DEF Run
    <3> QED BY <1>3, <3>1 DEF ForwardHolds
  <2> QED BY <2>1, <2>2, <2>3
<1>8. free' + held' + lost' + BuffersWaiting(pending')
        = free + held + lost + BuffersWaiting(pending)
  BY <1>1, <1>4, <1>5
<1> QED BY <1>1, <1>2, <1>4, <1>5, <1>6, <1>7, <1>8, PoolOfForward

(* reset_pending gives back the buffers of every result that waits.        *)
LEMMA PoolOfDrop ==
    ASSUME PoolInv, DropResults
    PROVE  PoolInv'
<1>1. /\ free \in Nat /\ lost \in Nat /\ held = 0 /\ want \in Nat
      /\ SharedTypes /\ ForwardTypes /\ ForwardHolds /\ BuffersWaiting(pending) \in Nat
  BY PoolFacts DEF ForwardHolds, DropResults
<1>2. /\ free' = free + BuffersWaiting(pending)
      /\ pending' = [l \in Layers |-> "none"] /\ pc' = "forget" /\ mode # "rest"
      /\ UNCHANGED <<lost, generation, inflight, queue, job, mode, layer, windows, want, held,
                     forwards>>
  BY <1>1 DEF DropResults, BuffersWaiting, Waiting, WaitingIn, ForwardHolds
<1>3. BuffersWaiting(pending') = 0
  <2>1. WaitingIn(pending') = {}
    BY <1>2 DEF WaitingIn
  <2>2. Cardinality(WaitingIn(pending')) = 0
    BY <2>1, FS_EmptySet
  <2> QED BY <2>2, Sizes DEF BuffersWaiting
<1>4. SharedTypes'
  BY <1>1, <1>2 DEF SharedTypes, Results
<1>5. ForwardTypes' /\ ForwardHolds'
  BY <1>1, <1>2 DEF ForwardTypes, ForwardHolds
<1>6. /\ free' \in Nat /\ held' \in Nat /\ want' \in Nat /\ lost' \in Nat
      /\ free' + held' + lost' + BuffersWaiting(pending')
            = free + held + lost + BuffersWaiting(pending)
  BY <1>1, <1>2, <1>3
<1> QED BY <1>2, <1>3, <1>4, <1>5, <1>6, PoolOfForward

(* The steps of the forward that no buffer takes part in.                  *)
LEMMA PoolOfControl ==
    ASSUME PoolInv, UNCHANGED <<poolVars, pending, job, want, held>>,
           SharedTypes', ForwardTypes', ForwardHolds'
    PROVE  PoolInv'
<1>1. /\ free \in Nat /\ lost \in Nat /\ held \in Nat /\ want \in Nat
      /\ BuffersWaiting(pending) \in Nat
  BY PoolFacts
<1>2. free' = free /\ lost' = lost /\ held' = held /\ want' = want /\ job' = job
  BY DEF poolVars
<1>3. BuffersWaiting(pending') = BuffersWaiting(pending)
  OBVIOUS
<1> QED BY <1>1, <1>2, <1>3, PoolOfForward

LEMMA PoolOfRest ==
    ASSUME PoolInv,
           \/ \E kind \in {"prefill", "decode"} : Begin(kind)
           \/ Predict \/ NextLayer \/ Bump \/ ForgetInflight
           \/ Quiet \/ UNCHANGED prefetchVars
    PROVE  PoolInv'
<1>1. /\ SharedTypes /\ ForwardTypes /\ ForwardHolds
      /\ Windows \in Nat \ {0} /\ 0 \in 0..Windows /\ Windows \in 0..Windows
      /\ 1 \in Layers /\ 1 \in 0..Windows
  BY PoolFacts, Sizes, Constants
<1>2. ASSUME NEW kind \in {"prefill", "decode"}, Begin(kind)
      PROVE  PoolInv'
  <2>1. UNCHANGED <<poolVars, generation, pending, inflight, queue, job, want, held>>
    BY <1>2 DEF Begin, sharedVars
  <2>2. SharedTypes'
    BY <1>1, <2>1 DEF SharedTypes
  <2>3. forwards' \in 0..MaxForwards
    BY <1>1, <1>2, Sizes DEF Begin, ForwardTypes
  <2>4. ForwardTypes'
    BY <1>1, <1>2, <2>3 DEF Begin, ForwardTypes
  <2>5. ForwardHolds'
    BY <1>1, <1>2 DEF Begin, ForwardHolds
  <2> QED BY <2>1, <2>2, <2>4, <2>5, PoolOfControl
<1>3. CASE Predict
  <2>1. /\ pc = "predict" /\ pc' = IF mode = "prefill" THEN "get" ELSE "next"
        /\ UNCHANGED <<poolVars, generation, pending, job, mode, layer, windows, want, held,
                       forwards>>
    BY <1>3 DEF Predict
  <2>2. SharedTypes'
    <3>1. CASE UNCHANGED <<inflight, queue>>
      BY <1>1, <2>1, <3>1 DEF SharedTypes
    <3>2. CASE layer < L /\ Requested(layer + 1)
      <4>1. layer + 1 \in Layers
        BY <1>1, <3>2, Constants DEF ForwardTypes, Layers
      <4> DEFINE l == layer + 1
                 request == [layer |-> l, gen |-> generation]
      <4>2. request \in Request
        BY <1>1, <4>1 DEF SharedTypes, Request
      <4> HIDE DEF request, l
      <4>3. \/ UNCHANGED <<inflight, queue>>
            \/ /\ inflight' = [inflight EXCEPT ![l] = generation]
               /\ queue' = Append(queue, request)
        BY <3>2 DEF Requested, request, l
      <4>4. queue \in Seq(Request)
        BY <1>1 DEF SharedTypes, Request
      <4>5. queue' \in Seq(Request)
        BY <4>2, <4>3, <4>4, AppendProperties
      <4>6. inflight' \in [Layers -> Nat \cup {-1}]
        BY <1>1, <4>3 DEF SharedTypes
      <4> QED BY <1>1, <2>1, <4>5, <4>6 DEF SharedTypes, Request
    <3> QED BY <1>3, <3>1, <3>2 DEF Predict
  <2>3. ForwardTypes'
    BY <1>1, <2>1 DEF ForwardTypes
  <2>4. ForwardHolds'
    BY <1>1, <2>1 DEF ForwardHolds
  <2> QED BY <2>1, <2>2, <2>3, <2>4, PoolOfControl
<1>4. CASE NextLayer
  <2>1. /\ pc = "next"
        /\ UNCHANGED <<poolVars, generation, pending, inflight, queue, job, want, held, forwards>>
    BY <1>4 DEF NextLayer, sharedVars
  <2>2. SharedTypes'
    BY <1>1, <2>1 DEF SharedTypes
  <2>3. ForwardTypes'
    <3>1. layer' \in Layers
      BY <1>1, <1>4, Constants DEF NextLayer, ForwardTypes, Layers
    <3> QED BY <1>1, <1>4, <2>1, <3>1 DEF NextLayer, ForwardTypes, Stops
  <2>4. ForwardHolds'
    <3>1. mode # "rest" /\ held' = 0
      BY <1>1, <2>1 DEF ForwardHolds
    <3> QED BY <1>1, <1>4, <2>1, <3>1 DEF NextLayer, ForwardHolds, Stops
  <2> QED BY <2>1, <2>2, <2>3, <2>4, PoolOfControl
<1>5. CASE Bump
  <2>1. SharedTypes'
    BY <1>1, <1>5 DEF Bump, SharedTypes
  <2>2. ForwardTypes' /\ ForwardHolds'
    BY <1>1, <1>5 DEF Bump, ForwardTypes, ForwardHolds
  <2> QED BY <1>5, <2>1, <2>2, PoolOfControl DEF Bump
<1>6. CASE ForgetInflight
  <2>1. SharedTypes'
    BY <1>1, <1>6 DEF ForgetInflight, SharedTypes
  <2>2. ForwardTypes' /\ ForwardHolds'
    BY <1>1, <1>6 DEF ForgetInflight, ForwardTypes, ForwardHolds, Stops
  <2> QED BY <1>6, <2>1, <2>2, PoolOfControl DEF ForgetInflight
<1>7. CASE Quiet \/ UNCHANGED prefetchVars
  <2>1. UNCHANGED <<poolVars, generation, pending, inflight, queue, job, mode, pc, layer,
                    windows, want, held, forwards>>
    BY <1>7 DEF Quiet, prefetchVars, sharedVars, forwardVars
  <2>2. SharedTypes' /\ ForwardTypes' /\ ForwardHolds'
    BY <1>1, <2>1 DEF SharedTypes, ForwardTypes, ForwardHolds
  <2> QED BY <2>1, <2>2, PoolOfControl
<1> QED BY <1>2, <1>3, <1>4, <1>5, <1>6, <1>7

LEMMA PoolInit == PrefetchInit => PoolInv
<1> SUFFICES ASSUME PrefetchInit PROVE PoolInv
  OBVIOUS
<1>1. NoJob \in Job /\ NoJob.got = 0 /\ NoJob.stage = "idle"
  BY Constants, Sizes DEF NoJob, Job
<1>2. /\ Gathered = {} /\ Waiting = {}
      /\ free = Total /\ held = 0 /\ lost = 0 /\ Total \in Nat
  BY <1>1, Sizes DEF PrefetchInit, Gathered, Waiting
<1>3. BuffersAccounted
  <2>1. Cardinality(Gathered) = 0 /\ Cardinality(Waiting) = 0
    BY <1>2, FS_EmptySet
  <2> QED BY <1>2, <2>1, Sizes DEF BuffersAccounted
<1>4. SharedTypes /\ ForwardTypes
  BY Constants, Sizes, EmptySeq DEF PrefetchInit, SharedTypes, ForwardTypes, Results
<1>5. PrefetchTypeOK
  BY <1>1, <1>2, <1>4 DEF PrefetchInit, PrefetchTypeOK, SharedTypes, ForwardTypes, Results
<1>6. JobsWhole /\ ForwardHolds
  BY <1>1 DEF PrefetchInit, JobsWhole, ForwardHolds
<1> QED BY <1>3, <1>5, <1>6 DEF PoolInv

(* Every buffer of the pool is accounted for in every state: workers that  *)
(* give up half-way, results that are replaced, dropped as stale, taken in *)
(* part or reset, and layers that fail before or after they have loaded    *)
(* neither lose a buffer unseen nor free one twice.                        *)
THEOREM PoolAccounted == PrefetchSpec => []PoolInv
<1>1. PoolInv /\ [PrefetchNext]_prefetchVars => PoolInv'
  BY PoolOfWorker, PoolOfTryGet, PoolOfLayer, PoolOfDrop, PoolOfRest
  DEF PrefetchNext, ForwardStep
<1> QED BY <1>1, PoolInit, PTL DEF PrefetchSpec
==============================================================================
