--------------------------- MODULE RuntimeLifetime ---------------------------
(***************************************************************************)
(* One runtime from its first request to its drop: promises whose          *)
(* resolving functions the binding owns, native handles in flight, the     *)
(* settlement queue, the release queue, the phases of tick() and frame(),  *)
(* and the two orders in which the adapters tear a runtime down.           *)
(*                                                                         *)
(* Every request is made once.  A pipeline request owns references on its  *)
(* module and layout from the start; with the pipeline they are one group, *)
(* as in ReleaseRequest.  DeviceEvents has the retry of pipelines and the  *)
(* contents of events, BufferMapping has mapAsync.                         *)
(***************************************************************************)
EXTENDS Naturals, Sequences, FiniteSets

CONSTANTS Adapters,   \* requestAdapter calls
          Devices,    \* requestDevice calls
          Pipelines,  \* createComputePipelineAsync and createRenderPipelineAsync calls
          Works,      \* calls whose answer carries no handle: onSubmittedWorkDone, getCompilationInfo, popErrorScope
          Events,     \* uncaptured errors a backend or a host may report
  MaxCalls    \* bound: requests a script makes

Handled == Adapters \cup Devices \cup Pipelines
Request == Handled \cup Works
Engines == {"boa", "jsc"}

ASSUME KindsAreDisjoint ==
  /\ Adapters \cap (Devices \cup Pipelines \cup Works \cup Events) = {}
  /\ Devices \cap (Pipelines \cup Works \cup Events) = {}
  /\ Pipelines \cap (Works \cup Events) = {}
  /\ Works \cap Events = {}

VARIABLES
  engine,      \* which adapter runs
  step,        \* 0 while the runtime lives, then the step of Runtime::drop under way
  phase,       \* where tick() or frame() stands
  mode,        \* "tick" or "frame"
  failed,      \* pump has an error to report
  call,        \* the native call of a request: "none", "pending", "answered", "empty"
               \* (answered without a handle) or "late" (answered after the drop)
  slot,        \* requests whose box still holds its deferred
  lostSlot,    \* devices whose event state holds the deferred of device.lost
  told,        \* devices whose loss the backend has reported
  settlements, \* SettlementQueue::requests
  wrapped,     \* requests whose handle a JavaScript wrapper owns
  releases,    \* ReleaseQueue::requests: how often each is queued, in an order left open
  promise,     \* what became of the promise of a request
  spent,       \* how often a request's resolving functions were given up
  lostSpent,   \* the same for device.lost
  freed,       \* how often a request's native handles were released
  event,       \* "none", "queued", "collected" by the drain under way, "dispatched",
               \* "dropped" (the tick still has to return its error) or "discarded"
  owed,        \* history: releases queued when the tick began and not yet run
  afterDeath   \* history: the engine was touched after its context went

vars == <<engine, step, phase, mode, failed, call, slot, lostSlot, told, settlements,
          wrapped, releases, promise, spent, lostSpent, freed, event, owed, afterDeath>>

requestVars == <<call, slot, promise, spent>>
lossVars    == <<lostSlot, told, lostSpent>>
tickVars    == <<phase, mode, failed, owed>>

(***************************************************************************)
(* The two orders of Runtime::drop.                                        *)
(***************************************************************************)
\* Mutant: JavaScriptCore's context is released before the settlement queue is emptied, Boa's
\* wrappers are not waited for.
TeardownStepsEarlyContext ==
  IF engine = "boa"
  THEN <<"pending", "outstanding", "drain", "context">>
  ELSE <<"outstanding", "context", "pending", "drain">>

TeardownSteps ==
  IF engine = "boa"
  THEN <<"pending", "outstanding", "drain", "context", "drain">>
  ELSE <<"outstanding", "pending", "context", "drain">>

Live      == step = 0
Dead      == step > Len(TeardownSteps)
AtStep(s) == step \in 1 .. Len(TeardownSteps) /\ TeardownSteps[step] = s
NextStep  == step' = step + 1

\* The engine's context, which resolving functions live in, is still there.
ContextAlive == \/ Live
                \/ \E i \in step .. Len(TeardownSteps) : i > 0 /\ TeardownSteps[i] = "context"

Touch(happens) == afterDeath' = (afterDeath \/ (happens /\ ~ContextAlive))
NoTouch == UNCHANGED afterDeath

Plus(counts, who) == [r \in DOMAIN counts |-> IF r \in who THEN counts[r] + 1 ELSE counts[r]]

(***************************************************************************)
(* Records of the settlement queue.  "native" is Adapter, Device,          *)
(* ComputePipeline or RenderPipeline with its handle; "value" is           *)
(* AdapterUnavailable, Success, CompilationInfo or PopErrorScope; "error"  *)
(* is Error; "failed" a pipeline record whose status is a failure.         *)
(***************************************************************************)
Record == [kind : {"native", "failed", "value", "error", "lost", "event"}, of : Request \cup Events]

Rec(k, r) == [kind |-> k, of |-> r]
Queued(kinds) == {settlements[i].of : i \in {j \in DOMAIN settlements : settlements[j].kind \in kinds}}
Count(kinds, r) == Cardinality({i \in DOMAIN settlements : settlements[i].kind \in kinds
                                                          /\ settlements[i].of = r})
WithDeferred  == {"native", "failed", "value", "error"}
OwnsHandle    == {"native", "failed"}

Init ==
  /\ engine \in Engines
  /\ step = 0 /\ phase = "idle" /\ mode = "tick" /\ failed = FALSE
  /\ call = [r \in Request |-> "none"]
  /\ slot = {} /\ lostSlot = {} /\ told = {}
  /\ settlements = <<>> /\ wrapped = {} /\ releases = [r \in Handled |-> 0]
  /\ promise = [r \in Request |-> "none"]
  /\ spent = [r \in Request |-> 0]
  /\ lostSpent = [d \in Devices |-> 0]
  /\ freed = [r \in Handled |-> 0]
  /\ event = [e \in Events |-> "none"]
  /\ owed = {} /\ afterDeath = FALSE

(***************************************************************************)
(* Script runs between ticks, from microtasks, from the frame callback and *)
(* during the drain: in listeners, and in JavaScriptCore in the reactions  *)
(* to the settled batch.                                                   *)
(***************************************************************************)
MayRequest == Cardinality({r \in Request : promise[r] # "none"}) < MaxCalls

ScriptRuns == Live /\ phase \in {"idle", "dispatch", "micro", "callback", "micro2"}

\* promise_operation with an operation that starts the native call: the box keeps the
\* deferred, the slot is registered with the adapter, the box is leaked into userdata.
Start(r) ==
  /\ ScriptRuns /\ MayRequest
  /\ call[r] = "none" /\ promise[r] = "none"
  /\ call' = [call EXCEPT ![r] = "pending"]
  /\ slot' = slot \cup {r}
  /\ promise' = [promise EXCEPT ![r] = "pending"]
  /\ UNCHANGED <<engine, step, tickVars, lossVars, settlements, wrapped, releases, spent, freed,
                 event, afterDeath>>

\* promise_operation with an operation that fails before it takes the deferred, or settles it
\* itself (an unknown featureLevel): nothing native is started.
SettleAtOnce(r, how) ==
  /\ ScriptRuns /\ MayRequest
  /\ call[r] = "none" /\ promise[r] = "none"
  /\ how \in {"rejected", "resolved"}
  /\ how = "resolved" => r \in Adapters
  /\ promise' = [promise EXCEPT ![r] = how]
  /\ spent' = Plus(spent, {r})
  /\ Touch(TRUE)
  /\ UNCHANGED <<engine, step, tickVars, call, slot, lossVars, settlements, wrapped, releases,
                 freed, event>>

(***************************************************************************)
(* Finalizers.  JavaScriptCore may run them on any thread at any time, Boa *)
(* inside any call into the engine; all they do is enqueue.                *)
(***************************************************************************)
Finalize(r) ==
  /\ r \in wrapped
  /\ ContextAlive
  /\ wrapped' = wrapped \ {r}
  /\ releases' = Plus(releases, {r})
  /\ UNCHANGED <<engine, step, tickVars, requestVars, lossVars, settlements, freed, event,
                 afterDeath>>

(***************************************************************************)
(* Callbacks of the backend: they fire inside ProcessEvents, which tick()  *)
(* and frame() call.  The instance is the host's: it, or another runtime   *)
(* on it, may pump it between our ticks and after our drop.                *)
(***************************************************************************)
CallbacksMayFire == (Live /\ phase \in {"idle", "events"}) \/ Dead

Answer(r, handle) ==
  call' = [call EXCEPT ![r] = IF ~handle THEN "empty" ELSE IF Dead THEN "late" ELSE "answered"]

\* request_adapter_callback, request_device_callback
HandleCallback(r, success, handle) ==
  /\ CallbacksMayFire
  /\ r \in Adapters \cup Devices /\ call[r] = "pending"
  /\ Answer(r, handle)
  /\ slot' = slot \ {r}
  /\ IF r \notin slot
     THEN /\ freed' = IF handle THEN Plus(freed, {r}) ELSE freed
          /\ UNCHANGED <<settlements, releases>>
     ELSE /\ settlements' = Append(settlements,
               IF success /\ handle THEN Rec("native", r)
               ELSE IF r \in Adapters THEN Rec("value", r) ELSE Rec("error", r))
          /\ releases' = IF handle /\ ~success THEN Plus(releases, {r}) ELSE releases
          /\ UNCHANGED freed
  /\ NoTouch
  /\ UNCHANGED <<engine, step, tickVars, lossVars, wrapped, promise, spent, event>>

\* create_compute_pipeline_callback, create_render_pipeline_callback
PipelineCallback(r, success) ==
  /\ CallbacksMayFire
  /\ r \in Pipelines /\ call[r] = "pending"
  /\ Answer(r, TRUE)
  /\ slot' = slot \ {r}
  /\ IF r \notin slot
     THEN /\ releases' = Plus(releases, {r})
          /\ UNCHANGED settlements
     ELSE /\ settlements' = Append(settlements, Rec(IF success THEN "native" ELSE "failed", r))
          /\ UNCHANGED releases
  /\ NoTouch
  /\ UNCHANGED <<engine, step, tickVars, lossVars, wrapped, promise, spent, freed, event>>

\* queue_work_done_callback, compilation_info_callback, pop_error_scope_callback
WorkCallback(r, success) ==
  /\ CallbacksMayFire
  /\ r \in Works /\ call[r] = "pending"
  /\ Answer(r, TRUE)
  /\ slot' = slot \ {r}
  /\ settlements' = IF r \in slot THEN Append(settlements, Rec(IF success THEN "value" ELSE "error", r))
                    ELSE settlements
  /\ NoTouch
  /\ UNCHANGED <<engine, step, tickVars, lossVars, wrapped, releases, promise, spent, freed, event>>

\* Devices that have an event state the backend or a forwarder can reach.
Known == Devices \cap (wrapped \cup Queued({"native"}) \cup lostSlot)

\* device_lost_callback or forward_device_lost, the latter from any thread at any time.
ReportLost(d) ==
  /\ d \notin told /\ d \in Known
  /\ told' = told \cup {d}
  /\ settlements' = Append(settlements, Rec("lost", d))
  /\ UNCHANGED <<engine, step, tickVars, requestVars, lostSlot, lostSpent, wrapped, releases, freed,
                 event, afterDeath>>

\* uncaptured_error_callback or forward_uncaptured_error
ReportError(e) ==
  /\ event[e] = "none" /\ Known # {}
  /\ event' = [event EXCEPT ![e] = "queued"]
  /\ settlements' = Append(settlements, Rec("event", e))
  /\ UNCHANGED <<engine, step, tickVars, requestVars, lossVars, wrapped, releases, freed, afterDeath>>

(***************************************************************************)
(* tick() and frame().                                                     *)
(***************************************************************************)
BeginTick(m) ==
  /\ Live /\ phase = "idle"
  /\ phase' = "events" /\ mode' = m /\ failed' = FALSE
  /\ owed' = {r \in Handled : releases[r] > 0}
  /\ UNCHANGED <<engine, step, requestVars, lossVars, settlements, wrapped, releases, freed, event,
                 afterDeath>>

EndEvents ==
  /\ Live /\ phase = "events"
  /\ phase' = "drain"
  /\ UNCHANGED <<engine, step, mode, failed, owed, requestVars, lossVars, settlements, wrapped,
                 releases, freed, event, afterDeath>>

\* Devices whose lost promise a batch settles: DeviceLost finds the deferred that
\* DeviceEventState::initialize has put there, maybe earlier in the same drain.
LostInBatch(made) == Queued({"lost"}) \cap (lostSlot \cup made)

\* The promises of the batch, in queue order: records of a deferred, and lost devices.
InBatch(lost, rec) == rec.kind \in WithDeferred \/ (rec.kind = "lost" /\ rec.of \in lost)

\* How the promise of a record is settled when wrapping fails for the requests in bad.
Outcome(rec, bad) ==
  IF rec.kind = "value" \/ (rec.kind = "native" /\ rec.of \notin bad) THEN "resolved" ELSE "rejected"

\* Handles that go to the release queue because no wrapper takes them.
\* Mutant: a failed wrap returns early, without its release.
ReturnedHandlesWrapLeaks(bad) == [r \in Handled |-> Count({"failed"}, r)]

ReturnedHandles(bad) ==
  [r \in Handled |-> Count({"failed"}, r) + IF r \in bad THEN Count({"native"}, r) ELSE 0]

\* SettlementQueue::drain up to the return of settle_deferreds.  The requests in bad fail to
\* wrap; the trampoline stops after the first n records when the engine fails.
Drain(bad, n) ==
  /\ Live /\ phase = "drain"
  /\ LET made    == Queued({"native"}) \ bad
         lost    == LostInBatch(made)
         fails   == \E i \in n + 1 .. Len(settlements) : InBatch(lost, settlements[i])
         settled == [r \in Request |-> {i \in 1 .. n : settlements[i].kind \in WithDeferred
                                                        /\ settlements[i].of = r}]
         given   == Queued(WithDeferred)
     IN /\ promise' = [r \in Request |->
              IF r \notin given THEN promise[r]
              ELSE IF settled[r] = {} THEN "dropped"
              ELSE Outcome(settlements[CHOOSE i \in settled[r] : TRUE], bad)]
        /\ spent' = [r \in Request |-> spent[r] + Count(WithDeferred, r)]
        /\ lostSpent' = Plus(lostSpent, lost \cup (bad \cap Devices))
        /\ lostSlot' = (lostSlot \cup (made \cap Devices)) \ lost
        /\ wrapped' = wrapped \cup made
        /\ releases' = [r \in Handled |-> releases[r] + ReturnedHandles(bad)[r]]
        /\ event' = [e \in Events |->
              IF event[e] # "queued" THEN event[e] ELSE IF fails THEN "dropped" ELSE "collected"]
        /\ failed' = fails
        /\ Touch(\E i \in DOMAIN settlements : InBatch(lost, settlements[i]))
  /\ settlements' = <<>>
  /\ phase' = "dispatch"
  /\ UNCHANGED <<engine, step, mode, owed, call, slot, told, freed>>

\* dispatch_uncaptured_error for everything the drain collected; a listener or handler that
\* throws does not stop the others.
Dispatch(throws) ==
  /\ Live /\ phase = "dispatch"
  /\ throws => \E e \in Events : event[e] = "collected"
  /\ event' = [e \in Events |-> IF event[e] = "collected" THEN "dispatched" ELSE event[e]]
  /\ failed' = (failed \/ throws)
  /\ phase' = "micro"
  /\ UNCHANGED <<engine, step, mode, owed, requestVars, lossVars, settlements, wrapped, releases,
                 freed, afterDeath>>

\* Mutant: a failing pump returns at once.
MicrotasksSkipsReleases(fails) ==
  /\ Live /\ phase = "micro"
  /\ failed' = (failed \/ fails)
  /\ phase' = IF failed' THEN "idle" ELSE IF mode = "frame" THEN "callback" ELSE "release"
  /\ UNCHANGED <<engine, step, mode, owed, requestVars, lossVars, settlements, wrapped, releases,
                 freed, event, afterDeath>>

\* drain_microtasks in pump; frame() calls back only after a pump without error.
Microtasks(fails) ==
  /\ Live /\ phase = "micro"
  /\ failed' = (failed \/ fails)
  /\ phase' = IF mode = "frame" /\ ~failed' THEN "callback" ELSE "release"
  /\ UNCHANGED <<engine, step, mode, owed, requestVars, lossVars, settlements, wrapped, releases,
                 freed, event, afterDeath>>

\* call_global_function and the second drain_microtasks: whatever they do, releases drain.
FrameCallback(fails) ==
  /\ Live /\ phase \in {"callback", "micro2"}
  /\ failed' = (failed \/ fails)
  /\ phase' = IF phase = "callback" THEN "micro2" ELSE "release"
  /\ UNCHANGED <<engine, step, mode, owed, requestVars, lossVars, settlements, wrapped, releases,
                 freed, event, afterDeath>>

RunRelease(r) ==
  /\ releases[r] > 0
  /\ releases' = [releases EXCEPT ![r] = @ - 1]
  /\ freed' = Plus(freed, {r})

ReleaseOne(r) ==
  /\ Live /\ phase = "release"
  /\ RunRelease(r)
  /\ owed' = owed \ {r}
  /\ UNCHANGED <<engine, step, phase, mode, failed, requestVars, lossVars, settlements, wrapped, event,
                 afterDeath>>

\* The queue was found empty: tick() or frame() returns, with the error if there was one.
EndTick ==
  /\ Live /\ phase = "release" /\ \A r \in Handled : releases[r] = 0
  /\ phase' = "idle"
  /\ event' = [e \in Events |-> IF event[e] = "dropped" /\ failed THEN "discarded" ELSE event[e]]
  /\ UNCHANGED <<engine, step, mode, failed, owed, requestVars, lossVars, settlements, wrapped,
                 releases, freed, afterDeath>>

(***************************************************************************)
(* Runtime::drop.                                                          *)
(***************************************************************************)
BeginDrop ==
  /\ Live /\ phase = "idle"
  /\ step' = 1
  /\ UNCHANGED <<engine, tickVars, requestVars, lossVars, settlements, wrapped, releases, freed, event,
                 afterDeath>>

\* SettlementQueue::release_pending: deferreds are released unsettled, handles go to the
\* release queue as the records are dropped.
ReleasePending ==
  /\ AtStep("pending")
  /\ spent' = [r \in Request |-> spent[r] + Count(WithDeferred, r)]
  /\ promise' = [r \in Request |-> IF r \in Queued(WithDeferred) THEN "dropped" ELSE promise[r]]
  /\ releases' = [r \in Handled |-> releases[r] + Count(OwnsHandle, r)]
  /\ event' = [e \in Events |-> IF event[e] = "queued" THEN "discarded" ELSE event[e]]
  /\ Touch(Queued(WithDeferred) # {})
  /\ settlements' = <<>>
  /\ NextStep
  /\ UNCHANGED <<engine, tickVars, call, slot, lossVars, wrapped, freed>>

\* release_outstanding_deferreds: the registered slots of calls in flight and of lost promises.
ReleaseOutstanding ==
  /\ AtStep("outstanding")
  /\ spent' = Plus(spent, slot)
  /\ lostSpent' = Plus(lostSpent, lostSlot)
  /\ promise' = [r \in Request |-> IF r \in slot THEN "dropped" ELSE promise[r]]
  /\ Touch(slot \cup lostSlot # {})
  /\ slot' = {} /\ lostSlot' = {}
  /\ NextStep
  /\ UNCHANGED <<engine, tickVars, call, told, settlements, wrapped, releases, freed, event>>

\* ReleaseQueue::drain during the drop.
TeardownDrain ==
  /\ AtStep("drain")
  /\ freed' = [r \in Handled |-> freed[r] + releases[r]]
  /\ releases' = [r \in Handled |-> 0]
  /\ NextStep
  /\ UNCHANGED <<engine, tickVars, requestVars, lossVars, settlements, wrapped, event, afterDeath>>

\* The context goes, and with it (Boa: by the forced collection) every wrapper.
DropContext ==
  /\ AtStep("context")
  /\ wrapped' = {}
  /\ releases' = Plus(releases, wrapped)
  /\ NextStep
  /\ UNCHANGED <<engine, tickVars, requestVars, lossVars, settlements, freed, event, afterDeath>>

(***************************************************************************)
(* The whole.                                                              *)
(***************************************************************************)
Script ==
  \E r \in Request :
    \/ Start(r)
    \/ \E how \in {"rejected", "resolved"} : SettleAtOnce(r, how)

Backend ==
  \/ \E r \in Adapters \cup Devices : \E success, handle \in BOOLEAN : HandleCallback(r, success, handle)
  \/ \E r \in Pipelines : \E success \in BOOLEAN : PipelineCallback(r, success)
  \/ \E r \in Works : \E success \in BOOLEAN : WorkCallback(r, success)
  \/ \E d \in Devices : ReportLost(d)
  \/ \E e \in Events : ReportError(e)

TickSteps ==
  \/ EndEvents
  \/ \E bad \in SUBSET Queued({"native"}) : \E n \in 0 .. Len(settlements) : Drain(bad, n)
  \/ \E throws \in BOOLEAN : Dispatch(throws)
  \/ \E fails \in BOOLEAN : Microtasks(fails)
  \/ \E fails \in BOOLEAN : FrameCallback(fails)
  \/ \E r \in Handled : ReleaseOne(r)
  \/ EndTick

Teardown == ReleasePending \/ ReleaseOutstanding \/ TeardownDrain \/ DropContext

Next ==
  \/ Script
  \/ \E r \in Handled : Finalize(r)
  \/ Backend
  \/ \E m \in {"tick", "frame"} : BeginTick(m)
  \/ TickSteps
  \/ BeginDrop
  \/ Teardown

\* The host keeps calling tick() or frame() until it drops the runtime; a call runs to its end.
Fairness ==
  /\ WF_vars(\E m \in {"tick", "frame"} : BeginTick(m))
  /\ WF_vars(TickSteps)
  /\ WF_vars(Teardown)

Spec == Init /\ [][Next]_vars
FairSpec == Spec /\ Fairness

(***************************************************************************)
(* Correctness.                                                            *)
(***************************************************************************)
\* Every variable has its shape.
TypeOK ==
  /\ engine \in Engines /\ step \in 0 .. 6
  /\ phase \in {"idle", "events", "drain", "dispatch", "micro", "callback", "micro2", "release"}
  /\ mode \in {"tick", "frame"} /\ failed \in BOOLEAN
  /\ call \in [Request -> {"none", "pending", "answered", "empty", "late"}]
  /\ slot \subseteq Request /\ lostSlot \subseteq Devices /\ told \subseteq Devices
  /\ settlements \in Seq(Record) /\ wrapped \subseteq Handled /\ releases \in [Handled -> Nat]
  /\ promise \in [Request -> {"none", "pending", "resolved", "rejected", "dropped"}]
  /\ spent \in [Request -> Nat] /\ lostSpent \in [Devices -> Nat] /\ freed \in [Handled -> Nat]
  /\ event \in [Events -> {"none", "queued", "collected", "dispatched", "dropped", "discarded"}]
  /\ owed \subseteq Handled /\ afterDeath \in BOOLEAN

Acquired(r) == call[r] \in {"answered", "late"} \/ (r \in Pipelines /\ call[r] = "pending")

\* How many hold a reference of a request's handles, or have held the last one.
Holders(r) ==
  (IF r \in Pipelines /\ call[r] = "pending" THEN 1 ELSE 0)
  + Count(OwnsHandle, r)
  + (IF r \in wrapped THEN 1 ELSE 0)
  + releases[r]
  + freed[r]

\* A native handle has one owner from the answer that brings it to its one release: the
\* record, the wrapper, the release queue or nobody any more.  Failed wraps, failed batches,
\* the two drop orders and late answers keep it so; and once the runtime is gone everything it
\* ever acquired is released, an adapter or a device that arrives later by its callback (A8).
HandlesAccounted ==
  \A r \in Handled :
    /\ Holders(r) = IF Acquired(r) THEN 1 ELSE 0
    /\ (Dead /\ Acquired(r) /\ (r \in Adapters \cup Devices \/ call[r] = "answered")) => freed[r] = 1

HoldersOfDeferred(r) ==
  (IF r \in slot THEN 1 ELSE 0)
  + Count(WithDeferred, r)
  + spent[r]

\* The resolving functions of a promise are given up once, never while another owner still has
\* them and never after the context they live in: by settlement, by a failed batch, by either
\* half of the teardown.  After the drop none is left (A5, A28).
ResolversBalanced ==
  /\ ~afterDeath
  /\ \A r \in Request : HoldersOfDeferred(r) = IF promise[r] = "none" THEN 0 ELSE 1
  /\ \A d \in Devices : lostSpent[d] + (IF d \in lostSlot THEN 1 ELSE 0) <= 1
  /\ ~ContextAlive => /\ \A r \in Request : promise[r] # "pending"
                      /\ lostSlot = {}

\* Once the runtime is gone every handle that arrived is released, and a pipeline that arrives
\* late is released by its callback as an adapter and a device are: what the document asks (A8).
TeardownReleasesAll ==
  Dead => \A r \in Handled : call[r] \in {"answered", "late"} => freed[r] = 1

\* What the release queue held when tick() or frame() began has been released when it returns,
\* whatever failed in between (the release drain is not skipped by an error), and an uncaptured
\* error is lost only by a call that returned an error.
TicksDoTheirWork ==
  (Live /\ phase = "idle") =>
     /\ owed = {}
     /\ \A e \in Events : event[e] \notin {"collected", "dropped"}

\* A finalized wrapper's handle is released, even when every frame fails.
FinalizedIsFreed == \A r \in Handled : (releases[r] > 0 /\ ~Dead) ~> (freed[r] = 1)
=============================================================================
