---------------------------- MODULE DeviceEvents ----------------------------
(***************************************************************************)
(* Device loss, uncaptured errors and the asynchronous pipelines that race *)
(* with them, from core/src/lib.rs.                                        *)
(*                                                                         *)
(* Every GPUDevice wrapper has a DeviceEventState.  Two kinds of producer  *)
(* record into the one settlement queue: the callbacks of a device the     *)
(* binding requested, and the host, which forwards the events of a device  *)
(* it owns from any thread through DeviceEventForwarder.  Only tick()      *)
(* consumes, in this order: prepare every record, put back those to retry, *)
(* settle one batch of promises, dispatch the uncaptured errors.           *)
(*                                                                         *)
(* Left to the other parts: error scopes (an error here is one no scope    *)
(* caught), the buffers destroy() unmaps, and the native references and    *)
(* their release at the end of the tick.                                   *)
(***************************************************************************)
EXTENDS Naturals, Sequences

CONSTANTS
    Devices,      \* GPUDevice wrappers
    Natives,      \* WGPUDevice handles
    Handle,       \* the handle each wrapper is made of
    Pipelines,    \* create*PipelineAsync calls, each with its promise
    None,
    MaxErrors,    \* bound: uncaptured errors recorded and not yet dispatched
    MaxForwards   \* bound: times the host forwards the loss of one handle

ASSUME ConstantsAssumption ==
    /\ Handle \in [Devices -> Natives]
    /\ None \notin Devices /\ None \notin Pipelines
    /\ Devices \cap Pipelines = {}
    /\ MaxErrors \in Nat /\ MaxForwards \in Nat

VARIABLES
    \* DeviceEventState, one per wrapper; lostPromise stands for lost_deferred
    lost, lostSettled, lostPromise,
    \* DeviceEventRegistry; the wrappers, and those whose finalizer is running
    registered, wrapper, finalizing,
    \* the pipeline promises, and the native calls not called back yet
    pipeline, futures,
    \* the settlement queue, the locals of its drain, and where tick() is
    queue, retries, batch, events, phase, lostBefore,
    \* the backend's devices, and those the host made; its forwarding thread
    native, adopted, forwards, producer

stateVars == <<lost, lostSettled, lostPromise>>
wrapperVars == <<registered, wrapper, finalizing>>
callVars == <<pipeline, futures>>
drainVars == <<retries, batch, events, lostBefore>>
hostVars == <<native, adopted, forwards, producer>>
vars == <<stateVars, wrapperVars, callVars, queue, drainVars, phase, hostVars>>

Record == [kind : {"Device", "RequestFailed", "Pipeline", "UncapturedError", "DeviceLost"},
           dev  : Devices,
           pipe : Pipelines \cup {None},
           ok   : BOOLEAN]

Settlement == [kind   : {"device", "pipeline", "lost"},
               dev    : Devices,
               pipe   : Pipelines \cup {None},
               result : {"resolved", "rejected", "failed"}]

PipelineCall == [dev : Devices \cup {None}, lostAtStart : BOOLEAN,
                 promise : {"unused", "pending", "resolved", "rejected", "failed"}]

Phases == {"host", "events", "drain", "settle", "dispatch", "listening", "microtasks"}

TypeOK ==
    /\ lost \in [Devices -> BOOLEAN]
    /\ lostSettled \in [Devices -> BOOLEAN]
    /\ lostPromise \in [Devices -> {"none", "pending", "taken", "resolved"}]
    /\ registered \subseteq Devices
    /\ wrapper \in [Devices -> {"none", "asked", "live", "finalized", "failed"}]
    /\ finalizing \subseteq Devices
    /\ pipeline \in [Pipelines -> PipelineCall]
    /\ futures \subseteq Devices \cup Pipelines
    /\ queue \in Seq(Record)
    /\ retries \in Seq(Record)
    /\ batch \in Seq(Settlement)
    /\ events \in Seq(Devices)
    /\ phase \in Phases
    /\ lostBefore \subseteq Devices
    /\ native \in [Natives -> {"none", "alive", "lost", "reported"}]
    /\ adopted \subseteq Natives
    /\ forwards \in [Natives -> 0..MaxForwards]
    /\ producer \in [op : {"idle", "error", "lost"}, todo : SUBSET Devices,
                     at : Devices \cup {None}]

(* A device is either requested by script, and wrapped once, or adopted    *)
(* from the host, which may wrap it more than once.                        *)
Init ==
    /\ lost = [d \in Devices |-> FALSE]
    /\ lostSettled = [d \in Devices |-> FALSE]
    /\ lostPromise = [d \in Devices |-> "none"]
    /\ registered = {}
    /\ wrapper = [d \in Devices |-> "none"]
    /\ finalizing = {}
    /\ pipeline = [p \in Pipelines |-> [dev |-> None, lostAtStart |-> FALSE,
                                        promise |-> "unused"]]
    /\ futures = {}
    /\ queue = <<>> /\ retries = <<>> /\ batch = <<>> /\ events = <<>>
    /\ phase = "host"
    /\ lostBefore = {}
    /\ adopted \in {ns \in SUBSET Natives :
                      \A d, e \in Devices : Handle[d] = Handle[e] /\ Handle[d] \notin ns => d = e}
    /\ native = [n \in Natives |-> IF n \in adopted THEN "alive" ELSE "none"]
    /\ forwards = [n \in Natives |-> 0]
    /\ producer = [op |-> "idle", todo |-> {}, at |-> None]

----------------------------------------------------------------------------
Event(kind, d) == [kind |-> kind, dev |-> d, pipe |-> None, ok |-> TRUE]

IsError(r) == r.kind = "UncapturedError"

Errors == Len(SelectSeq(queue, IsError)) + Len(events)

(* Script runs between ticks, in uncapturederror listeners, in microtasks, *)
(* and, with an engine that empties its microtasks whenever it is left, as *)
(* soon as the batch is settled.                                           *)
ScriptRuns == phase \in {"host", "listening", "microtasks"}

CanCall(d) == ScriptRuns /\ wrapper[d] = "live"

(* DeviceEventState::initialize, then a wrapper and its registration, or   *)
(* an engine failure, after which the state holds no engine value.         *)
Wrap(d, made) ==
    /\ wrapper' = [wrapper EXCEPT ![d] = IF made THEN "live" ELSE "failed"]
    /\ lostPromise' = [lostPromise EXCEPT ![d] = IF made THEN "pending" ELSE "none"]
    /\ registered' = IF made THEN registered \cup {d} ELSE registered

(* wrap_device: the host adopts a device that is not lost.                 *)
WrapDevice(d) ==
    /\ phase = "host"
    /\ wrapper[d] = "none"
    /\ Handle[d] \in adopted /\ native[Handle[d]] = "alive"
    /\ \E made \in BOOLEAN : Wrap(d, made)
    /\ UNCHANGED <<lost, lostSettled, finalizing, callVars, queue, drainVars, phase, hostVars>>

(* requestDevice: the event state is made with the request.                *)
RequestDevice(d) ==
    /\ ScriptRuns
    /\ wrapper[d] = "none" /\ Handle[d] \notin adopted
    /\ wrapper' = [wrapper EXCEPT ![d] = "asked"]
    /\ futures' = futures \cup {d}
    /\ UNCHANGED <<stateVars, registered, finalizing, pipeline, queue, drainVars, phase, hostVars>>

CreatePipelineAsync(p, d) ==
    /\ CanCall(d)
    /\ pipeline[p].promise = "unused"
    /\ pipeline' = [pipeline EXCEPT ![p] = [dev |-> d, lostAtStart |-> lost[d],
                                            promise |-> "pending"]]
    /\ futures' = futures \cup {p}
    /\ UNCHANGED <<stateVars, wrapperVars, queue, drainVars, phase, hostVars>>

(* generate_validation_error, with no scope to catch it.                   *)
ScriptError(d) ==
    /\ CanCall(d)
    /\ ~lost[d]
    /\ Errors < MaxErrors
    /\ queue' = Append(queue, Event("UncapturedError", d))
    /\ UNCHANGED <<stateVars, wrapperVars, callVars, drainVars, phase, hostVars>>

(* device.destroy(): the loss is recorded before the backend is told.  A   *)
(* second call changes nothing.                                            *)
DestroyDevice(d) ==
    /\ CanCall(d)
    /\ lost' = [lost EXCEPT ![d] = TRUE]
    /\ native' = [native EXCEPT ![Handle[d]] = IF @ = "alive" THEN "lost" ELSE @]
    /\ UNCHANGED <<lostSettled, lostPromise, wrapperVars, callVars, queue, drainVars, phase,
                   adopted, forwards, producer>>

(* Mutant: collecting the wrapper is enough to leave the registry.         *)
FinalizeUnregisters(d) ==
    /\ wrapper[d] = "live"
    /\ \A i \in DOMAIN batch : batch[i].kind = "device" => batch[i].dev # d
    /\ wrapper' = [wrapper EXCEPT ![d] = "finalized"]
    /\ finalizing' = finalizing \cup {d}
    /\ registered' = registered \ {d}
    /\ UNCHANGED <<stateVars, callVars, queue, drainVars, phase, hostVars>>

(* finalize_device, on any thread.  Its store of wrapper_finalized and the *)
(* tick thread's store of lost_settled are Release, the loads Acquire:     *)
(* until the finalizer goes on to lock the release queue, the tick thread  *)
(* need not see the store.                                                 *)
Finalize(d) ==
    /\ wrapper[d] = "live"
    /\ \A i \in DOMAIN batch : batch[i].kind = "device" => batch[i].dev # d
    /\ wrapper' = [wrapper EXCEPT ![d] = "finalized"]
    /\ finalizing' = finalizing \cup {d}
    /\ registered' = IF lostSettled[d] THEN registered \ {d} ELSE registered
    /\ UNCHANGED <<stateVars, callVars, queue, drainVars, phase, hostVars>>

Finalized(d) ==
    /\ d \in finalizing
    /\ finalizing' = finalizing \ {d}
    /\ UNCHANGED <<stateVars, registered, wrapper, callVars, queue, drainVars, phase, hostVars>>

----------------------------------------------------------------------------
(* The forwarder: the states of the handle are looked up once, then each   *)
(* is visited without any lock.  The uncaptured-error callback of a        *)
(* requested device, which may fire on any thread but never after the      *)
(* loss, takes the same two steps for its one state.                       *)

Registered(n) == {d \in registered : Handle[d] = n}

Targets(n) == IF n \in adopted THEN Registered(n) ELSE {d \in Devices : Handle[d] = n}

ReportError(n) ==
    /\ producer.op = "idle" /\ native[n] = "alive"
    /\ Targets(n) # {} /\ Errors < MaxErrors
    /\ producer' = [op |-> "error", todo |-> Targets(n), at |-> None]
    /\ UNCHANGED <<stateVars, wrapperVars, callVars, queue, drainVars, phase, native, adopted, forwards>>

ForwardLoss(n) ==
    /\ producer.op = "idle"
    /\ n \in adopted /\ native[n] = "lost" /\ forwards[n] < MaxForwards
    /\ Registered(n) # {}
    /\ forwards' = [forwards EXCEPT ![n] = @ + 1]
    /\ producer' = [op |-> "lost", todo |-> Registered(n), at |-> None]
    /\ UNCHANGED <<stateVars, wrapperVars, callVars, queue, drainVars, phase, native, adopted>>

(* enqueue_uncaptured's own check, or forward_device_lost's mark_lost.     *)
VisitState(d) ==
    /\ d \in producer.todo /\ producer.at = None
    /\ producer' = [producer EXCEPT !.todo = @ \ {d},
                       !.at = IF producer.op = "error" /\ lost[d] THEN None ELSE d]
    /\ lost' = [lost EXCEPT ![d] = @ \/ producer.op = "lost"]
    /\ UNCHANGED <<lostSettled, lostPromise, wrapperVars, callVars, queue, drainVars, phase,
                   native, adopted, forwards>>

EnqueueEvent ==
    /\ producer.at # None
    /\ queue' = Append(queue, Event(IF producer.op = "lost" THEN "DeviceLost" ELSE "UncapturedError",
                                    producer.at))
    /\ producer' = [producer EXCEPT !.at = None]
    /\ UNCHANGED <<stateVars, wrapperVars, callVars, drainVars, phase, native, adopted, forwards>>

ProducerDone ==
    /\ producer.op # "idle" /\ producer.todo = {} /\ producer.at = None
    /\ producer' = [producer EXCEPT !.op = "idle"]
    /\ UNCHANGED <<stateVars, wrapperVars, callVars, queue, drainVars, phase, native, adopted, forwards>>

----------------------------------------------------------------------------
(* The backend, from how webgpu.h is used: a device may be lost at any     *)
(* time once it exists; the callbacks of requests and of the loss of a     *)
(* requested device fire inside ProcessEvents only, the loss once.         *)

LoseDevice(n) ==
    /\ native[n] = "alive"
    /\ native' = [native EXCEPT ![n] = "lost"]
    /\ UNCHANGED <<stateVars, wrapperVars, callVars, queue, drainVars, phase, adopted, forwards, producer>>

(* request_device_callback.                                                *)
DeviceReady(d, ok) ==
    /\ phase = "events" /\ d \in futures
    /\ futures' = futures \ {d}
    /\ queue' = Append(queue, Event(IF ok THEN "Device" ELSE "RequestFailed", d))
    /\ native' = [native EXCEPT ![Handle[d]] = IF ok THEN "alive" ELSE @]
    /\ UNCHANGED <<stateVars, wrapperVars, pipeline, drainVars, phase, adopted, forwards, producer>>

(* create_compute_pipeline_callback, create_render_pipeline_callback.      *)
PipelineReady(p, ok) ==
    /\ phase = "events" /\ p \in futures
    /\ futures' = futures \ {p}
    /\ queue' = Append(queue, [kind |-> "Pipeline", dev |-> pipeline[p].dev, pipe |-> p, ok |-> ok])
    /\ UNCHANGED <<stateVars, wrapperVars, pipeline, drainVars, phase, hostVars>>

(* Mutant: a loss script caused is not reported a second time.             *)
LossCallbackOnce(d) ==
    /\ phase = "events"
    /\ Handle[d] \notin adopted /\ native[Handle[d]] = "lost"
    /\ native' = [native EXCEPT ![Handle[d]] = "reported"]
    /\ lost' = [lost EXCEPT ![d] = TRUE]
    /\ queue' = IF lost[d] THEN queue ELSE Append(queue, Event("DeviceLost", d))
    /\ UNCHANGED <<lostSettled, lostPromise, wrapperVars, callVars, drainVars, phase,
                   adopted, forwards, producer>>

(* device_lost_callback, the terminal callback of a requested device.      *)
LossCallback(d) ==
    /\ phase = "events"
    /\ Handle[d] \notin adopted /\ native[Handle[d]] = "lost"
    /\ native' = [native EXCEPT ![Handle[d]] = "reported"]
    /\ lost' = [lost EXCEPT ![d] = TRUE]
    /\ queue' = Append(queue, Event("DeviceLost", d))
    /\ UNCHANGED <<lostSettled, lostPromise, wrapperVars, callVars, drainVars, phase,
                   adopted, forwards, producer>>

----------------------------------------------------------------------------
(* tick().                                                                 *)

BeginTick ==
    /\ phase = "host"
    /\ phase' = "events"
    /\ UNCHANGED <<stateVars, wrapperVars, callVars, queue, drainVars, hostVars>>

(* lostBefore is history: the devices already known lost as a drain begins.*)
EndEvents ==
    /\ phase = "events"
    /\ phase' = "drain"
    /\ lostBefore' = {d \in Devices : lost[d]}
    /\ UNCHANGED <<stateVars, wrapperVars, callVars, queue, retries, batch, events, hostVars>>

(* One request is popped and prepared; what it settles joins the batch.    *)
Preparing(kind) ==
    /\ phase = "drain" /\ queue # <<>>
    /\ Head(queue).kind = kind
    /\ queue' = Tail(queue)

Settle(kind, r, result) ==
    batch' = Append(batch, [kind |-> kind, dev |-> r.dev, pipe |-> r.pipe, result |-> result])

PrepareDevice ==
    LET r == Head(queue)
    IN  /\ Preparing("Device")
        /\ \E made \in BOOLEAN : /\ Wrap(r.dev, made)
                                 /\ Settle("device", r, IF made THEN "resolved" ELSE "failed")
        /\ UNCHANGED <<lost, lostSettled, finalizing, callVars, retries, events, phase,
                       lostBefore, hostVars>>

PrepareRequestFailed ==
    LET r == Head(queue)
    IN  /\ Preparing("RequestFailed")
        /\ wrapper' = [wrapper EXCEPT ![r.dev] = "failed"]
        /\ Settle("device", r, "rejected")
        /\ UNCHANGED <<stateVars, registered, finalizing, callVars, retries, events, phase,
                       lostBefore, hostVars>>

(* Mutant: the pipelines that wait are those started after the loss.       *)
WaitsIfLostAtStart(r) ==
    lost[r.dev] /\ pipeline[r.pipe].lostAtStart /\ ~lostSettled[r.dev]

(* Mutant: only a loss before the call excuses a failed pipeline.          *)
PipelineFailsAfterLoss(r) == ~r.ok /\ ~(lost[r.dev] /\ pipeline[r.pipe].lostAtStart)

(* A pipeline whose device was lost meanwhile waits for the loss to be     *)
(* settled, and is then resolved even if the backend failed it.            *)
Waits(r) == lost[r.dev] /\ ~pipeline[r.pipe].lostAtStart /\ ~lostSettled[r.dev]

PipelineFails(r) ==
    /\ ~r.ok
    /\ ~(lost[r.dev] /\ (pipeline[r.pipe].lostAtStart \/ lostSettled[r.dev]))

RetryPipeline ==
    /\ Preparing("Pipeline")
    /\ Waits(Head(queue))
    /\ retries' = Append(retries, Head(queue))
    /\ UNCHANGED <<stateVars, wrapperVars, callVars, batch, events, phase, lostBefore, hostVars>>

PreparePipeline ==
    LET r == Head(queue)
    IN  /\ Preparing("Pipeline")
        /\ ~Waits(r)
        /\ \E result \in {"resolved", "rejected", "failed"} :
              /\ (result = "rejected") = PipelineFails(r)
              /\ Settle("pipeline", r, result)
        /\ UNCHANGED <<stateVars, wrapperVars, callVars, retries, events, phase, lostBefore,
                       hostVars>>

PrepareError ==
    /\ Preparing("UncapturedError")
    /\ events' = IF lost[Head(queue).dev] THEN events ELSE Append(events, Head(queue).dev)
    /\ UNCHANGED <<stateVars, wrapperVars, callVars, retries, batch, phase, lostBefore, hostVars>>

(* Mutant: the deferred is settled and left in place.                      *)
PrepareLossKeepsDeferred ==
    LET r == Head(queue)
        d == r.dev
    IN  /\ Preparing("DeviceLost")
        /\ lostSettled' = [lostSettled EXCEPT ![d] = TRUE]
        /\ \E seen \in IF d \in finalizing THEN BOOLEAN ELSE {wrapper[d] = "finalized"} :
              registered' = IF seen THEN registered \ {d} ELSE registered
        /\ IF lostPromise[d] # "none" THEN Settle("lost", r, "resolved") ELSE UNCHANGED batch
        /\ UNCHANGED <<lost, lostPromise, wrapper, finalizing, callVars, retries, events, phase,
                       lostBefore, hostVars>>

(* mark_lost_settled, with its prune of the registry, then the deferred of *)
(* the lost promise is taken if it is still there.                         *)
PrepareLoss ==
    LET r == Head(queue)
        d == r.dev
    IN  /\ Preparing("DeviceLost")
        /\ lostSettled' = [lostSettled EXCEPT ![d] = TRUE]
        /\ \E seen \in IF d \in finalizing THEN BOOLEAN ELSE {wrapper[d] = "finalized"} :
              registered' = IF seen THEN registered \ {d} ELSE registered
        /\ IF lostPromise[d] = "pending"
           THEN /\ lostPromise' = [lostPromise EXCEPT ![d] = "taken"]
                /\ Settle("lost", r, "resolved")
           ELSE UNCHANGED <<lostPromise, batch>>
        /\ UNCHANGED <<lost, wrapper, finalizing, callVars, retries, events, phase, lostBefore,
                       hostVars>>

QueueEmpty ==
    /\ phase = "drain" /\ queue = <<>>
    /\ phase' = "settle"
    /\ UNCHANGED <<stateVars, wrapperVars, callVars, queue, drainVars, hostVars>>

(* Mutant: what is to be retried is dropped.                               *)
SettleBatchNoRetry ==
    /\ phase = "settle"
    /\ UNCHANGED queue
    /\ retries' = <<>>
    /\ batch' = <<>>
    /\ pipeline' = [p \in Pipelines |->
                      IF \E i \in DOMAIN batch : batch[i].pipe = p
                      THEN [pipeline[p] EXCEPT !.promise =
                              batch[CHOOSE i \in DOMAIN batch : batch[i].pipe = p].result]
                      ELSE pipeline[p]]
    /\ lostPromise' = [d \in Devices |-> IF lostPromise[d] = "taken" THEN "resolved"
                                                                   ELSE lostPromise[d]]
    /\ \/ phase' = "dispatch"
       \/ batch # <<>> /\ phase' = "listening"
    /\ UNCHANGED <<lost, lostSettled, wrapperVars, futures, events, lostBefore, hostVars>>

(* The retries go back, behind whatever another thread added since the     *)
(* queue was empty, and the batch is settled in one frame of script.       *)
SettleBatch ==
    /\ phase = "settle"
    /\ queue' = queue \o retries
    /\ retries' = <<>>
    /\ batch' = <<>>
    /\ pipeline' = [p \in Pipelines |->
                      IF \E i \in DOMAIN batch : batch[i].pipe = p
                      THEN [pipeline[p] EXCEPT !.promise =
                              batch[CHOOSE i \in DOMAIN batch : batch[i].pipe = p].result]
                      ELSE pipeline[p]]
    /\ lostPromise' = [d \in Devices |-> IF lostPromise[d] = "taken" THEN "resolved"
                                                                   ELSE lostPromise[d]]
    /\ \/ phase' = "dispatch"
       \/ batch # <<>> /\ phase' = "listening"
    /\ UNCHANGED <<lost, lostSettled, wrapperVars, futures, events, lostBefore, hostVars>>

(* dispatch_uncaptured_error: the listeners of one event are called.       *)
DispatchError ==
    /\ phase \in {"dispatch", "listening"} /\ events # <<>>
    /\ events' = Tail(events)
    /\ phase' = "listening"
    /\ UNCHANGED <<stateVars, wrapperVars, callVars, queue, retries, batch, lostBefore, hostVars>>

EndDrain ==
    /\ phase \in {"dispatch", "listening"} /\ events = <<>>
    /\ phase' = "microtasks"
    /\ UNCHANGED <<stateVars, wrapperVars, callVars, queue, drainVars, hostVars>>

EndTick ==
    /\ phase = "microtasks"
    /\ phase' = "host"
    /\ lostBefore' = {}
    /\ UNCHANGED <<stateVars, wrapperVars, callVars, queue, retries, batch, events, hostVars>>

----------------------------------------------------------------------------
Script ==
    \E d \in Devices :
       \/ RequestDevice(d) \/ ScriptError(d) \/ DestroyDevice(d)
       \/ \E p \in Pipelines : CreatePipelineAsync(p, d)

Collector == \E d \in Devices : Finalize(d) \/ Finalized(d)

Producer ==
    \/ \E n \in Natives : ReportError(n)
    \/ \E d \in Devices : VisitState(d)
    \/ EnqueueEvent
    \/ ProducerDone

Backend ==
    \/ \E n \in Natives : LoseDevice(n)
    \/ \E d \in Devices : LossCallback(d) \/ \E ok \in BOOLEAN : DeviceReady(d, ok)
    \/ \E p \in Pipelines, ok \in BOOLEAN : PipelineReady(p, ok)

Tick ==
    \/ BeginTick \/ EndEvents
    \/ PrepareDevice \/ PrepareRequestFailed \/ PrepareError \/ PrepareLoss
    \/ RetryPipeline \/ PreparePipeline
    \/ QueueEmpty \/ SettleBatch \/ DispatchError \/ EndDrain \/ EndTick

Next ==
    \/ Script \/ Collector \/ Backend \/ Tick \/ Producer
    \/ \E d \in Devices : WrapDevice(d)
    \/ \E n \in Natives : ForwardLoss(n)

Spec == Init /\ [][Next]_vars

(* The host keeps ticking, its threads run, it forwards the loss of every  *)
(* device it owns, and the backend answers: the callbacks only fire while  *)
(* ProcessEvents runs, and the forwarding thread may be busy, hence SF.    *)
FairSpec ==
    /\ Spec
    /\ WF_vars(Tick)
    /\ WF_vars((\E d \in Devices : VisitState(d)) \/ EnqueueEvent \/ ProducerDone)
    /\ \A n \in Natives : SF_vars(ForwardLoss(n))
    /\ \A d \in Devices : SF_vars(LossCallback(d))
    /\ \A p \in Pipelines : SF_vars(\E ok \in BOOLEAN : PipelineReady(p, ok))

----------------------------------------------------------------------------
(* Safety.                                                                 *)

(* device.lost is settled at most once however often the loss is reported: *)
(* by destroy(), by the backend's callback, by the host, or by all of them.*)
LossSettledOnce ==
    \A i \in DOMAIN batch : batch[i].kind = "lost" =>
       /\ lostPromise[batch[i].dev] = "taken"
       /\ \A j \in DOMAIN batch : batch[j].kind = "lost" /\ batch[j].dev = batch[i].dev => i = j

(* The host's forwards find the state of every device that needs them: one *)
(* with a live wrapper, or one collected whose lost promise is unsettled.  *)
RegisteredWhileNeeded ==
    \A d \in Devices :
       wrapper[d] = "live" \/ (wrapper[d] = "finalized" /\ lostPromise[d] = "pending")
       => d \in registered

LossBefore(d, j) ==
    \/ lostPromise[d] = "resolved"
    \/ \E i \in 1..(j - 1) : batch[i].kind = "lost" /\ batch[i].dev = d

(* A device known to be lost as a drain begins first tells its lost        *)
(* promise, then the pipelines that were in flight.                        *)
PipelineAfterLoss ==
    \A j \in DOMAIN batch :
       /\ batch[j].kind = "pipeline" /\ batch[j].dev \in lostBefore
       /\ ~pipeline[batch[j].pipe].lostAtStart
       => LossBefore(batch[j].dev, j)

(* A lost device rejects no pipeline: once script knows of the loss, a     *)
(* pipeline the backend failed is resolved.                                *)
NoRejectionAfterLoss ==
    \A j \in DOMAIN batch :
       batch[j].kind = "pipeline" /\ batch[j].result = "rejected" => ~LossBefore(batch[j].dev, j)

(* An uncaptured error recorded before the loss is not dispatched by a     *)
(* drain that begins after it.                                             *)
QuietAfterLoss == \A i \in DOMAIN events : events[i] \notin lostBefore

----------------------------------------------------------------------------
(* Refinement: what script sees of a loss is what LossContract allows.     *)

(* The verdict on a pipeline call is its entry in the batch.               *)
Verdict(p) ==
    IF \E i \in DOMAIN batch : batch[i].pipe = p
    THEN batch[CHOOSE i \in DOMAIN batch : batch[i].pipe = p].result
    ELSE "none"

Contract == INSTANCE LossContract WITH verdict <- [p \in Pipelines |-> Verdict(p)]

(* Losses and results, recorded by callbacks, other threads and script in  *)
(* any order, retried and settled in batches, keep the contract: each      *)
(* promise settles once, a pipeline in flight after the loss of its        *)
(* device, and a lost device rejects none.                                 *)
KeepsLossContract == Contract!Spec

----------------------------------------------------------------------------
(* Liveness.                                                               *)

(* Every loss reaches its lost promise, and through it ...                 *)
LossReported ==
    \A d \in Devices :
       lostPromise[d] = "pending" /\ native[Handle[d]] = "lost" ~> lostPromise[d] = "resolved"

(* ... every pipeline promise is settled: a retry does not go on for ever. *)
PipelinesSettle ==
    \A p \in Pipelines : pipeline[p].promise = "pending" ~> pipeline[p].promise # "pending"

=============================================================================
