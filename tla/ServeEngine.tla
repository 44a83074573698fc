------------------------------ MODULE ServeEngine ------------------------------
(***************************************************************************)
(* The threads and locks of pmetal-serve's InferenceEngine (engine.rs) and *)
(* the handlers that call it (routes.rs): requests dispatched to the pump  *)
(* of continuous batching or to a generation thread of their own, the      *)
(* driver thread, and the thread that enables and disables batching.       *)
(*                                                                         *)
(* Three mutexes are shared: `model', held for a whole generation and for  *)
(* each tick; `continuous', held for a dispatch and for the whole disable; *)
(* and the pump's, taken under both.  Who holds a mutex is read off the    *)
(* program counters.  Handlers and readers are tasks on Workers runtime    *)
(* threads, and one that waits for a std mutex keeps its thread.  What the *)
(* pump does inside a tick is in ContinuousPump; here a tick serves some   *)
(* of its requests, or fails and serves none.  Each request is made once.  *)
(***************************************************************************)
EXTENDS Naturals, FiniteSets

CONSTANTS
    Req,            \* names of requests
    Workers,        \* worker threads of the async runtime
    MaxConcurrent,  \* ServeConfig.max_concurrent
    MaxQueueDepth,  \* requests the pump takes before it is full
    Capacity,       \* capacity of an event channel
    Tokens,         \* tokens a generation produces
    MaxRuntimes     \* bound on the calls that enable batching

ASSUME EngineAssumption ==
    /\ IsFiniteSet(Req)
    /\ Workers \in Nat \ {0} /\ MaxConcurrent \in Nat \ {0}
    /\ Capacity \in Nat \ {0} /\ Tokens \in Nat
    /\ MaxQueueDepth \in Nat /\ MaxRuntimes \in Nat

VARIABLES
    caller,    \* [Req -> ...]: where the handler, later the response, stands
    handle,    \* [Req -> Runtimes]: the runtime generate_batched has found
    permits,   \* requests that hold a permit of request_permits
    thread,    \* [Req -> ...]: the generation thread of the single path
    pumpOf,    \* [Req -> 0..MaxRuntimes]: pump with a record of it, 0 = none
    todo,      \* [Req -> 0..Tokens]: tokens still to generate
    buffered,  \* [Req -> 0..Capacity]: events in the channel
    runtime,   \* 0..MaxRuntimes: the ContinuousRuntime in place, 0 = None
    driver,    \* [Runtimes -> ...]: its driver thread
    shutdown,  \* [Runtimes -> BOOLEAN]: its shutdown flag
    admin      \* the thread that enables and disables batching

engineVars == <<caller, handle, permits, thread, pumpOf, todo, buffered,
                runtime, driver, shutdown, admin>>

Runtimes == 1..MaxRuntimes

EngineInit ==
    /\ caller = [r \in Req |-> "idle"]
    /\ handle = [r \in Req |-> 0]
    /\ permits = {}
    /\ thread = [r \in Req |-> "none"]
    /\ pumpOf = [r \in Req |-> 0]
    /\ todo = [r \in Req |-> 0]
    /\ buffered = [r \in Req |-> 0]
    /\ runtime = 0
    /\ driver = [g \in Runtimes |-> "none"]
    /\ shutdown = [g \in Runtimes |-> FALSE]
    /\ admin = "idle"

(***************************************************************************)
(* Who holds what.                                                         *)
(***************************************************************************)
ModelFree ==
    /\ \A r \in Req : thread[r] # "generating"
    /\ \A g \in Runtimes : driver[g] # "ticking"

\* The dispatch gives `continuous' back before it takes the pump.
ContinuousFreeEarly == admin # "joining"

ContinuousFree == admin # "joining" /\ \A r \in Req : caller[r] # "enqueue"

\* A handler on its way through stream_tokens keeps its worker thread.
WorkerFree ==
    Cardinality({r \in Req : caller[r] \in {"check", "dispatch", "enqueue"}}) < Workers

Listening(r) == caller[r] = "open"

(***************************************************************************)
(* The handler: permit, stream_tokens, generate_batched, fallback.         *)
(***************************************************************************)
Arrive(r) ==
    /\ caller[r] = "idle"
    /\ WorkerFree
    /\ IF Cardinality(permits) < MaxConcurrent
         THEN /\ permits' = permits \cup {r}
              /\ \/ caller' = [caller EXCEPT ![r] = "check"] /\ thread' = thread
                 \* stream: false, generate awaits its blocking thread
                 \/ /\ caller' = [caller EXCEPT ![r] = "await"]
                    /\ thread' = [thread EXCEPT ![r] = "starting"]
         ELSE /\ caller' = [caller EXCEPT ![r] = "gone"]
              /\ UNCHANGED <<permits, thread>>
    /\ UNCHANGED <<handle, pumpOf, todo, buffered, runtime, driver, shutdown, admin>>

(* The response stream is built and the permit, which only its builder     *)
(* was given, is dropped.                                                  *)
Respond(r) ==
    /\ caller' = [caller EXCEPT ![r] = "open"]
    /\ permits' = permits \ {r}

\* generate_streaming: the generation gets a blocking thread of its own.
StreamSingle(r) ==
    /\ Respond(r)
    /\ thread' = [thread EXCEPT ![r] = "starting"]
    /\ UNCHANGED <<pumpOf, todo>>

\* Every request is compatible with the pump: only `continuous' is asked.
CheckEnabled(r) ==
    /\ caller[r] = "check"
    /\ ContinuousFree
    /\ IF runtime # 0
         THEN /\ caller' = [caller EXCEPT ![r] = "dispatch"]
              /\ UNCHANGED <<permits, thread, pumpOf, todo>>
         ELSE StreamSingle(r)
    /\ UNCHANGED <<handle, buffered, runtime, driver, shutdown, admin>>

\* From here to Enqueue the caller holds `continuous'.
Dispatch(r) ==
    /\ caller[r] = "dispatch"
    /\ ContinuousFree
    /\ IF runtime # 0
         THEN /\ caller' = [caller EXCEPT ![r] = "enqueue"]
              /\ handle' = [handle EXCEPT ![r] = runtime]
              /\ UNCHANGED <<permits, thread, pumpOf, todo>>
         ELSE StreamSingle(r) /\ handle' = handle
    /\ UNCHANGED <<buffered, runtime, driver, shutdown, admin>>

InPump(g) == {r \in Req : pumpOf[r] = g}

\* The queue of the pump may be full; then the single path takes over.
Enqueue(r) ==
    /\ caller[r] = "enqueue"
    /\ driver[handle[r]] # "ticking"
    /\ IF Cardinality(InPump(handle[r])) < MaxQueueDepth
         THEN /\ Respond(r)
              /\ pumpOf' = [pumpOf EXCEPT ![r] = handle[r]]
              /\ todo' = [todo EXCEPT ![r] = Tokens]
              /\ thread' = thread
         ELSE StreamSingle(r)
    /\ handle' = [handle EXCEPT ![r] = 0]
    /\ UNCHANGED <<buffered, runtime, driver, shutdown, admin>>

(***************************************************************************)
(* The generation thread of a single request.  A streaming one sends with  *)
(* blocking_send and waits for room while it holds the model.              *)
(***************************************************************************)
LockModel(r) ==
    /\ thread[r] = "starting"
    /\ ModelFree
    /\ thread' = [thread EXCEPT ![r] = "generating"]
    /\ todo' = [todo EXCEPT ![r] = Tokens]
    /\ UNCHANGED <<caller, handle, permits, pumpOf, buffered, runtime, driver, shutdown, admin>>

\* Room for one event more than the channel takes.
HasSpaceLate(r) == buffered[r] <= Capacity

HasSpace(r) == buffered[r] < Capacity

Streaming(r) == caller[r] = "open"

\* One Token event; after the last one Done, or Error.
Generate(r) ==
    /\ thread[r] = "generating"
    /\ caller[r] # "gone"
    /\ Streaming(r) => HasSpace(r)
    /\ buffered' = [buffered EXCEPT ![r] = IF Streaming(r) THEN @ + 1 ELSE @]
    /\ IF todo[r] = 0
         THEN thread' = [thread EXCEPT ![r] = "over"] /\ todo' = todo
         ELSE thread' = thread /\ todo' = [todo EXCEPT ![r] = @ - 1]
    /\ UNCHANGED <<caller, handle, permits, pumpOf, runtime, driver, shutdown, admin>>

(* The receiver of a streaming generation was dropped: the next send fails *)
(* and the loop ends.  An abandoned non-streaming one sends nothing, and   *)
(* Generate takes it to its end.                                           *)
CancelGeneration(r) ==
    /\ thread[r] = "generating"
    /\ caller[r] = "gone"
    /\ thread' = [thread EXCEPT ![r] = "over"]
    /\ todo' = [todo EXCEPT ![r] = 0]
    /\ UNCHANGED <<caller, handle, permits, pumpOf, buffered, runtime, driver, shutdown, admin>>

(***************************************************************************)
(* run_continuous_driver.                                                  *)
(***************************************************************************)
\* A driver that never looks at its flag.
SeesShutdownNever(g) == FALSE

SeesShutdown(g) == shutdown[g]

DriverTop(g) ==
    /\ driver[g] = "top"
    /\ driver' = [driver EXCEPT ![g] = IF SeesShutdown(g) THEN "exited" ELSE "locking"]
    /\ UNCHANGED <<caller, handle, permits, thread, pumpOf, todo, buffered,
                   runtime, shutdown, admin>>

\* The model first, then the pump, which only an Enqueue step holds.
DriverLock(g) ==
    /\ driver[g] = "locking"
    /\ ModelFree
    /\ driver' = [driver EXCEPT ![g] = "ticking"]
    /\ UNCHANGED <<caller, handle, permits, thread, pumpOf, todo, buffered,
                   runtime, shutdown, admin>>

\* The requests a tick ends: their last token, or nobody listens any more.
EndedBy(served) == {r \in served : todo[r] <= 1 \/ ~Listening(r)}

(* Events one tick sends to r: a token, and Done after the last one.       *)
(* try_send drops what finds no room.                                      *)
Sends(r) ==
    LET room == Capacity - buffered[r]
        sent == IF todo[r] <= 1 THEN 2 ELSE 1
    IN  IF sent <= room THEN sent ELSE room

(* Tick::Ran, or Tick::Idle when the pump is empty: a decode step serves   *)
(* the requests that decode, the end of a prefill the one it prefilled, in *)
(* the tick in which its earlier chunks are counted.                       *)
DriverTick(g) ==
    /\ driver[g] = "ticking"
    /\ driver' = [driver EXCEPT ![g] = "top"]
    /\ \E served \in SUBSET InPump(g) :
          /\ InPump(g) # {} => served # {}
          /\ buffered' = [r \in Req |->
                IF r \in served /\ Listening(r)
                  THEN buffered[r] + Sends(r) ELSE buffered[r]]
          /\ pumpOf' = [r \in Req |-> IF r \in EndedBy(served) THEN 0 ELSE pumpOf[r]]
          /\ todo' = [r \in Req |->
                IF r \in EndedBy(served) THEN 0
                ELSE IF r \in served THEN todo[r] - 1 ELSE todo[r]]
    /\ UNCHANGED <<caller, handle, permits, thread, runtime, shutdown, admin>>

(* The tick returns an error before it has sent anything: the driver warns *)
(* and backs off, and everything waits for the next tick, which may fail   *)
(* like this one.                                                          *)
DriverFails(g) ==
    /\ driver[g] = "ticking"
    /\ InPump(g) # {}
    /\ driver' = [driver EXCEPT ![g] = "top"]
    /\ UNCHANGED <<caller, handle, permits, thread, pumpOf, todo, buffered,
                   runtime, shutdown, admin>>

(***************************************************************************)
(* The response and its client.                                            *)
(***************************************************************************)
SenderGone(r) == thread[r] \in {"none", "over"} /\ pumpOf[r] = 0

Read(r) ==
    /\ caller[r] = "open"
    /\ WorkerFree
    /\ buffered[r] > 0
    /\ buffered' = [buffered EXCEPT ![r] = @ - 1]
    /\ UNCHANGED <<caller, handle, permits, thread, pumpOf, todo, runtime,
                   driver, shutdown, admin>>

Leave(r, how) ==
    /\ WorkerFree
    /\ caller' = [caller EXCEPT ![r] = how]
    /\ buffered' = [buffered EXCEPT ![r] = 0]
    /\ permits' = permits \ {r}
    /\ UNCHANGED <<handle, thread, pumpOf, todo, runtime, driver, shutdown, admin>>

\* The channel is closed and drained, or the blocking thread has returned.
EndResponse(r) ==
    /\ \/ caller[r] = "open" /\ SenderGone(r) /\ buffered[r] = 0
       \/ caller[r] = "await" /\ thread[r] = "over"
    /\ Leave(r, "gone")

\* The client disconnects and the runtime drops the handler's future.
Disconnect(r) ==
    \/ caller[r] = "open" /\ Leave(r, "gone")
    \/ caller[r] = "await" /\ Leave(r, "abandoned")

(***************************************************************************)
(* enable_continuous_batching_auto and disable_continuous_batching.        *)
(***************************************************************************)
EnableBegin ==
    /\ admin = "idle"
    /\ runtime # 0 \/ \E g \in Runtimes : driver[g] = "none"
    /\ ModelFree
    /\ admin' = "enabling"
    /\ UNCHANGED <<caller, handle, permits, thread, pumpOf, todo, buffered,
                   runtime, driver, shutdown>>

\* The first configuration wins: a second enable is a no-op.
EnableEnd ==
    /\ admin = "enabling"
    /\ ContinuousFree
    /\ admin' = "idle"
    /\ \/ runtime # 0 /\ UNCHANGED <<runtime, driver>>
       \/ /\ runtime = 0
          /\ \E g \in Runtimes :
                /\ driver[g] = "none"
                /\ \A h \in 1..(g - 1) : driver[h] # "none"
                /\ runtime' = g
                /\ driver' = [driver EXCEPT ![g] = "top"]
    /\ UNCHANGED <<caller, handle, permits, thread, pumpOf, todo, buffered, shutdown>>

\* ContinuousRuntime::drop, called while `continuous' is held.
DisableBegin ==
    /\ admin = "idle"
    /\ ContinuousFree
    /\ runtime # 0
    /\ shutdown' = [shutdown EXCEPT ![runtime] = TRUE]
    /\ admin' = "joining"
    /\ UNCHANGED <<caller, handle, permits, thread, pumpOf, todo, buffered, runtime, driver>>

\* The runtime is dropped without waiting for its thread.
JoinedEarly == TRUE

Joined == driver[runtime] = "exited"

\* Records of a pump that outlives its runtime.
PumpKept == pumpOf

PumpDropped == [r \in Req |-> IF pumpOf[r] = runtime THEN 0 ELSE pumpOf[r]]

DisableEnd ==
    /\ admin = "joining"
    /\ Joined
    /\ pumpOf' = PumpDropped
    /\ todo' = [r \in Req |-> IF pumpOf[r] = runtime THEN 0 ELSE todo[r]]
    /\ runtime' = 0
    /\ admin' = "idle"
    /\ UNCHANGED <<caller, handle, permits, thread, buffered, driver, shutdown>>

(***************************************************************************)
(* The engine.                                                             *)
(***************************************************************************)
HandlerStep(r) == CheckEnabled(r) \/ Dispatch(r) \/ Enqueue(r)
ReaderStep(r)  == Read(r) \/ EndResponse(r)
ThreadStep(r)  == Generate(r) \/ CancelGeneration(r)
DriverStep(g)  == DriverTop(g) \/ DriverTick(g) \/ DriverFails(g)

EngineNext ==
    \/ \E r \in Req :
          Arrive(r) \/ HandlerStep(r) \/ LockModel(r) \/ ThreadStep(r)
             \/ ReaderStep(r) \/ Disconnect(r)
    \/ \E g \in Runtimes : DriverStep(g) \/ DriverLock(g)
    \/ EnableBegin \/ EnableEnd \/ DisableBegin \/ DisableEnd

EngineSpec == EngineInit /\ [][EngineNext]_engineVars

(* Every thread and every task that can run does; clients that stay go on  *)
(* reading.  A mutex that is free again and again is got in the end: the   *)
(* driver yields or sleeps between two ticks for the single path's sake,   *)
(* and callers of `continuous' hold it for a moment.  Nothing is assumed   *)
(* of the ticks: every one of them may fail.                               *)
EngineFairSpec ==
    /\ EngineSpec
    /\ \A r \in Req :
          /\ SF_engineVars(HandlerStep(r)) /\ SF_engineVars(LockModel(r))
          /\ WF_engineVars(ThreadStep(r)) /\ WF_engineVars(ReaderStep(r))
    /\ \A g \in Runtimes :
          WF_engineVars(DriverStep(g)) /\ SF_engineVars(DriverLock(g))
    /\ WF_engineVars(EnableEnd) /\ WF_engineVars(DisableEnd)

(***************************************************************************)
(* Properties.                                                             *)
(***************************************************************************)

(* The type invariant of the engine.                                       *)
EngineTypeOK ==
    /\ caller \in [Req -> {"idle", "check", "dispatch", "enqueue", "open", "await",
                        "gone", "abandoned"}]
    /\ handle \in [Req -> 0..MaxRuntimes]
    /\ permits \in SUBSET Req
    /\ thread \in [Req -> {"none", "starting", "generating", "over"}]
    /\ pumpOf \in [Req -> 0..MaxRuntimes]
    /\ todo \in [Req -> 0..Tokens]
    /\ buffered \in [Req -> 0..Capacity]
    /\ runtime \in 0..MaxRuntimes
    /\ driver \in [Runtimes -> {"none", "top", "locking", "ticking", "exited"}]
    /\ shutdown \in [Runtimes -> BOOLEAN]
    /\ admin \in {"idle", "enabling", "joining"}

(* Batching may be disabled and enabled again at any moment, and there is  *)
(* never more than one driver thread alive.                                *)
OneDriver ==
    \A g, h \in Runtimes :
        {driver[g], driver[h]} \subseteq {"top", "locking", "ticking"} => g = h

(* A request accepted by a pump has a driver that has not ended: a         *)
(* dispatch that races with disable does not leave it in a pump that       *)
(* nothing ticks any more.                                                 *)
InFlightIsDriven ==
    \A r \in Req : pumpOf[r] # 0 /\ admin # "joining" =>
        pumpOf[r] = runtime /\ driver[runtime] # "exited"

(* Why OneDriver is preserved: only the runtime in place has a driver      *)
(* alive, and that driver ends only while disable joins it.                *)
DriverInPlace ==
    /\ admin = "joining" => runtime # 0
    /\ \A g \in Runtimes :
          /\ driver[g] \in {"top", "locking", "ticking"} => g = runtime
          /\ shutdown[g] => driver[g] = "exited" \/ g = runtime
          /\ g = runtime => driver[g] # "none"
          /\ g = runtime /\ shutdown[g] => admin = "joining"
          /\ g = runtime /\ driver[g] = "exited" => shutdown[g]

(* Why InFlightIsDriven is preserved: who is about to enqueue holds the    *)
(* runtime in place and keeps disable out.                                 *)
RequestsInPlace ==
    \A r \in Req :
        /\ pumpOf[r] \in {0, runtime}
        /\ caller[r] = "enqueue" =>
              handle[r] = runtime /\ runtime # 0 /\ admin # "joining"

EngineInv == EngineTypeOK /\ DriverInPlace /\ RequestsInPlace

(* No handler waits for ever in stream_tokens, and disable returns,        *)
(* whatever is streaming, ticking or full at that moment.                  *)
EveryCallReturns ==
    /\ \A r \in Req : caller[r] = "check" ~> caller[r] \in {"open", "gone"}
    /\ admin = "joining" ~> admin = "idle"

(* Ticks of r's pump fail again and again, and r stays in it for ever.     *)
HeldByFailures(r) ==
    \E g \in Runtimes : <>[](pumpOf[r] = g) /\ []<><<DriverFails(g)>>_engineVars

(* Every response ends, by its last event, by disable or by its client,    *)
(* and a non-streaming call returns; the one exception is a stream in a    *)
(* pump whose ticks never stop failing.  Nothing on the single path can    *)
(* hold a response up, nor can a pump that was disabled.                   *)
ResponseEndsOrPumpFails ==
    \A r \in Req :
        \/ caller[r] \in {"open", "await"} ~> caller[r] \in {"gone", "abandoned"}
        \/ HeldByFailures(r)

==============================================================================
