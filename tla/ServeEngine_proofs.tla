-------------------------- MODULE ServeEngine_proofs --------------------------
(***************************************************************************)
(* Theorems about the engine's threads and locks, for any number of        *)
(* requests, workers and enable calls, with proofs checked by TLAPS.       *)
(***************************************************************************)
EXTENDS ServeEngine, TLAPS

(* The engine is created with no runtime and no request.                   *)
LEMMA EngineInvInit == EngineInit => EngineInv
  BY EngineAssumption
  DEF EngineInit, EngineInv, EngineTypeOK, DriverInPlace, RequestsInPlace, Runtimes

(* Every step of the engine keeps its type: handlers and responses,        *)
(* generation threads, drivers, enabling and disabling.                    *)
LEMMA EngineTypeStep == EngineTypeOK /\ [EngineNext]_engineVars => EngineTypeOK'
<1> SUFFICES ASSUME EngineTypeOK, [EngineNext]_engineVars
             PROVE  EngineTypeOK'
  OBVIOUS
<1>0. MaxRuntimes \in Nat /\ Capacity \in Nat /\ Tokens \in Nat
  BY EngineAssumption
<1> USE DEF EngineTypeOK
<1>1. ASSUME NEW r \in Req, Arrive(r) PROVE EngineTypeOK'
  <2>1. caller[r] = "idle" /\ permits' \in SUBSET Req
    BY <1>1 DEF Arrive
  <2> QED BY <1>1, <2>1 DEF Arrive
<1>2. ASSUME NEW r \in Req, CheckEnabled(r) PROVE EngineTypeOK'
  BY <1>2 DEF CheckEnabled, StreamSingle, Respond
<1>3. ASSUME NEW r \in Req, Dispatch(r) PROVE EngineTypeOK'
  BY <1>3 DEF Dispatch, StreamSingle, Respond
<1>4. ASSUME NEW r \in Req, Enqueue(r) PROVE EngineTypeOK'
  <2>1. handle[r] \in 0..MaxRuntimes /\ Tokens \in 0..Tokens /\ 0 \in 0..MaxRuntimes
    BY <1>0
  <2> QED BY <1>4, <2>1 DEF Enqueue, StreamSingle, Respond
<1>5. ASSUME NEW r \in Req, LockModel(r) PROVE EngineTypeOK'
  BY <1>0, <1>5 DEF LockModel
<1>6. ASSUME NEW r \in Req, Generate(r) PROVE EngineTypeOK'
  <2>1. buffered' \in [Req -> 0..Capacity]
    BY <1>0, <1>6 DEF Generate, HasSpace
  <2>2. todo' \in [Req -> 0..Tokens]
    BY <1>0, <1>6 DEF Generate
  <2>3. thread' \in [Req -> {"none", "starting", "generating", "over"}]
    BY <1>6 DEF Generate
  <2> QED BY <1>6, <2>1, <2>2, <2>3 DEF Generate
<1>7. ASSUME NEW r \in Req, CancelGeneration(r) PROVE EngineTypeOK'
  BY <1>0, <1>7 DEF CancelGeneration
<1>8. ASSUME NEW r \in Req, Read(r) PROVE EngineTypeOK'
  <2>1. buffered' \in [Req -> 0..Capacity]
    BY <1>0, <1>8 DEF Read
  <2> QED BY <1>8, <2>1 DEF Read
<1>9. ASSUME NEW r \in Req, Leave(r, "gone") \/ Leave(r, "abandoned") PROVE EngineTypeOK'
  BY <1>0, <1>9 DEF Leave
<1>10. ASSUME NEW g \in Runtimes, DriverTop(g) \/ DriverLock(g) \/ DriverFails(g)
       PROVE EngineTypeOK'
  BY <1>10 DEF DriverTop, DriverLock, DriverFails
<1>11. ASSUME NEW g \in Runtimes, DriverTick(g) PROVE EngineTypeOK'
  <2>1. PICK served \in SUBSET InPump(g) :
          /\ buffered' = [r \in Req |->
                IF r \in served /\ Listening(r)
                  THEN buffered[r] + Sends(r) ELSE buffered[r]]
          /\ pumpOf' = [r \in Req |-> IF r \in EndedBy(served) THEN 0 ELSE pumpOf[r]]
          /\ todo' = [r \in Req |->
                IF r \in EndedBy(served) THEN 0
                ELSE IF r \in served THEN todo[r] - 1 ELSE todo[r]]
    BY <1>11 DEF DriverTick
  <2>2. buffered' \in [Req -> 0..Capacity]
    <3>1. ASSUME NEW r \in Req
          PROVE  buffered[r] + Sends(r) \in 0..Capacity
      BY <1>0 DEF Sends
    <3> QED BY <2>1, <3>1
  <2>3. pumpOf' \in [Req -> 0..MaxRuntimes]
    BY <1>0, <2>1
  <2>4. todo' \in [Req -> 0..Tokens]
    <3>1. ASSUME NEW r \in Req, r \in served, r \notin EndedBy(served)
          PROVE  todo[r] - 1 \in 0..Tokens
      BY <1>0, <3>1 DEF EndedBy
    <3> QED BY <1>0, <2>1, <3>1
  <2> QED BY <1>11, <2>2, <2>3, <2>4 DEF DriverTick
<1>12. CASE EnableBegin
  BY <1>12 DEF EnableBegin
<1>13. CASE EnableEnd
  BY <1>0, <1>13 DEF EnableEnd, Runtimes
<1>14. CASE DisableBegin
  BY <1>14 DEF DisableBegin
<1>15. CASE DisableEnd
  BY <1>0, <1>15 DEF DisableEnd, PumpDropped
<1>16. CASE UNCHANGED engineVars
  BY <1>16 DEF engineVars
<1> HIDE DEF EngineTypeOK
<1> QED
  BY <1>1, <1>2, <1>3, <1>4, <1>5, <1>6, <1>7, <1>8, <1>9, <1>10, <1>11, <1>12,
     <1>13, <1>14, <1>15, <1>16
  DEF EngineNext, HandlerStep, ThreadStep, ReaderStep, EndResponse, Disconnect, DriverStep

(* Requests come and go without touching the runtime and its driver, and   *)
(* enter the pump of the runtime in place only.                            *)
LEMMA RequestInv ==
    ASSUME EngineInv, NEW r \in Req,
           \/ Arrive(r) \/ HandlerStep(r) \/ LockModel(r) \/ ThreadStep(r)
           \/ ReaderStep(r) \/ Disconnect(r)
    PROVE  DriverInPlace' /\ RequestsInPlace'
<1>0. UNCHANGED <<runtime, driver, shutdown, admin>>
  BY DEF Arrive, HandlerStep, CheckEnabled, Dispatch, Enqueue, LockModel, ThreadStep,
         Generate, CancelGeneration, ReaderStep, Read, EndResponse, Disconnect, Leave,
         StreamSingle, Respond
<1>1. DriverInPlace'
  BY <1>0 DEF EngineInv, DriverInPlace
<1>2. RequestsInPlace'
  <2> USE DEF EngineInv, EngineTypeOK, RequestsInPlace
  <2>1. CASE Arrive(r)
    BY <1>0, <2>1 DEF Arrive
  <2>2. CASE CheckEnabled(r)
    BY <1>0, <2>2 DEF CheckEnabled, StreamSingle, Respond
  <2>3. CASE Dispatch(r)
    BY <1>0, <2>3 DEF Dispatch, StreamSingle, Respond, ContinuousFree
  <2>4. CASE Enqueue(r)
    BY <1>0, <2>4 DEF Enqueue, StreamSingle, Respond
  <2>5. CASE LockModel(r) \/ ThreadStep(r) \/ Read(r)
    BY <1>0, <2>5 DEF LockModel, ThreadStep, Generate, CancelGeneration, Read
  <2>6. CASE Leave(r, "gone") \/ Leave(r, "abandoned")
    BY <1>0, <2>6 DEF Leave
  <2> QED
    BY <2>1, <2>2, <2>3, <2>4, <2>5, <2>6
    DEF HandlerStep, ReaderStep, EndResponse, Disconnect
<1> QED BY <1>1, <1>2

(* The driver ends only when it was told to.                               *)
LEMMA DriverInv ==
    ASSUME EngineInv, NEW g \in Runtimes, DriverStep(g) \/ DriverLock(g)
    PROVE  DriverInPlace' /\ RequestsInPlace'
<1> USE DEF EngineInv, EngineTypeOK
<1>1. DriverInPlace'
  <2>1. CASE DriverTop(g)
    BY <2>1 DEF DriverTop, SeesShutdown, DriverInPlace
  <2>2. CASE DriverLock(g) \/ DriverTick(g) \/ DriverFails(g)
    BY <2>2 DEF DriverLock, DriverTick, DriverFails, DriverInPlace
  <2> QED BY <2>1, <2>2 DEF DriverStep
<1>2. RequestsInPlace'
  BY DEF DriverStep, DriverTop, DriverLock, DriverTick, DriverFails, RequestsInPlace
<1> QED BY <1>1, <1>2

(* The runtime is put in place with a new thread, and given up only after  *)
(* its thread has been joined.                                             *)
LEMMA AdminInv ==
    ASSUME EngineInv, EnableBegin \/ EnableEnd \/ DisableBegin \/ DisableEnd
    PROVE  DriverInPlace' /\ RequestsInPlace'
<1> USE DEF EngineInv, EngineTypeOK
<1>0. MaxRuntimes \in Nat
  BY EngineAssumption
<1>1. CASE EnableBegin
  BY <1>1 DEF EnableBegin, DriverInPlace, RequestsInPlace
<1>2. CASE EnableEnd
  <2>1. DriverInPlace'
    BY <1>0, <1>2 DEF EnableEnd, DriverInPlace, Runtimes
  <2>2. RequestsInPlace'
    BY <1>2 DEF EnableEnd, ContinuousFree, RequestsInPlace
  <2> QED BY <2>1, <2>2
<1>3. CASE DisableBegin
  <2>1. DriverInPlace'
    BY <1>0, <1>3 DEF DisableBegin, DriverInPlace, Runtimes
  <2>2. RequestsInPlace'
    BY <1>3 DEF DisableBegin, ContinuousFree, RequestsInPlace
  <2> QED BY <2>1, <2>2
<1>4. CASE DisableEnd
  <2>1. DriverInPlace'
    BY <1>0, <1>4 DEF DisableEnd, Joined, DriverInPlace, Runtimes
  <2>2. RequestsInPlace'
    BY <1>4 DEF DisableEnd, PumpDropped, RequestsInPlace
  <2> QED BY <2>1, <2>2
<1> QED BY <1>1, <1>2, <1>3, <1>4

(* Every step of the engine keeps the invariant.                           *)
LEMMA EngineInvStep == EngineInv /\ [EngineNext]_engineVars => EngineInv'
<1> SUFFICES ASSUME EngineInv, [EngineNext]_engineVars
             PROVE  EngineInv'
  OBVIOUS
<1>1. EngineTypeOK'
  BY EngineTypeStep DEF EngineInv
<1>2. DriverInPlace' /\ RequestsInPlace'
  <2>1. CASE UNCHANGED engineVars
    BY <2>1 DEF engineVars, EngineInv, DriverInPlace, RequestsInPlace
  <2>2. CASE EngineNext
    BY <2>2, RequestInv, DriverInv, AdminInv DEF EngineNext
  <2> QED BY <2>1, <2>2
<1> QED BY <1>1, <1>2 DEF EngineInv

(* The inductive invariant holds in every state of the engine.             *)
THEOREM EngineInvariance == EngineSpec => []EngineInv
<1> QED BY EngineInvInit, EngineInvStep, PTL DEF EngineSpec

(* The engine's state has its type.                                        *)
THEOREM EngineTypeCorrect == EngineSpec => []EngineTypeOK
<1>1. EngineInv => EngineTypeOK
  BY DEF EngineInv
<1> QED BY <1>1, EngineInvariance, PTL

(* Enabling and disabling at any moment never leaves two drivers alive.    *)
THEOREM EngineOneDriver == EngineSpec => []OneDriver
<1>1. EngineInv => OneDriver
  BY DEF EngineInv, DriverInPlace, OneDriver
<1> QED BY <1>1, EngineInvariance, PTL

(* A request accepted by a pump is never left in one that nothing ticks.   *)
THEOREM EngineDrivesRequests == EngineSpec => []InFlightIsDriven
<1>1. EngineInv => InFlightIsDriven
  BY EngineAssumption
  DEF EngineInv, EngineTypeOK, DriverInPlace, RequestsInPlace, InFlightIsDriven, Runtimes
<1> QED BY <1>1, EngineInvariance, PTL

==============================================================================
